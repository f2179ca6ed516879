--------------------------- MODULE MCX402Exchange ---------------------------
EXTENDS X402Exchange, TLC

CONSTANTS k1, k2, n1, n2, p1
Interchangeable == Permutations({k1, k2}) \cup Permutations({n1, n2})
=============================================================================
