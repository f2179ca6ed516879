------------------------------- MODULE Totals -------------------------------
(***************************************************************************)
(* The sum of a function into the naturals over a finite set, defined as   *)
(* the number of unit coins it stands for.  A sum is a cardinality here,   *)
(* and not a fold, so that the accounting theorems can be proved from the  *)
(* library's facts on finite sets.                                         *)
(***************************************************************************)
EXTENDS Integers, FiniteSets

\* One distinguishable coin per unit of f[x], for each x in S.
Coins(f, S) == UNION { {x} \X (1 .. f[x]) : x \in S }

Total(f, S) == Cardinality(Coins(f, S))
=============================================================================
