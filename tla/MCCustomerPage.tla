--------------------------- MODULE MCCustomerPage ---------------------------
EXTENDS CustomerPage

\* The model values of the configuration.
CONSTANTS o1, o2, t1, t2, r1, r2, a1, a2
=============================================================================
