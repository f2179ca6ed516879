---------------------------- MODULE MCOperatorRuns ----------------------------
(* Two workloads, two tokens, two jobs, and two things that go wrong.  The   *)
(* terms are the scripts' defaults: a price, collateral and payout of 1.     *)
EXTENDS OperatorRuns
===============================================================================
