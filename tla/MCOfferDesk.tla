----------------------------- MODULE MCOfferDesk -----------------------------
EXTENDS OfferDesk

\* The model values of the configurations.
CONSTANTS c1, c2, l1, l2
==============================================================================
