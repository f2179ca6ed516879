-------------------------- MODULE MCConsumerOrders --------------------------
EXTENDS ConsumerOrders

\* The model values of the configurations.
CONSTANTS o1, o2, t1, t2, r1, r2, a1, a2
=============================================================================
