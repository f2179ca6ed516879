------------------------ MODULE MCRetirementLedger ------------------------
EXTENDS RetirementLedger, TLC

CONSTANTS k1, k2, n1, n2, n3
Interchangeable == Permutations({k1, k2}) \cup Permutations({n1, n2, n3})
=============================================================================
