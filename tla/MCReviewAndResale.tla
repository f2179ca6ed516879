------------------------- MODULE MCReviewAndResale -------------------------
(* One token of a class that can expire, bought and sold by two accounts.   *)
EXTENDS ReviewAndResale, TLC

CONSTANTS c1

MCValidUntil == (c1 :> 0)
=============================================================================
