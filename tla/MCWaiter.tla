------------------------------ MODULE MCWaiter ------------------------------
EXTENDS Waiter, WorldInvariant
=============================================================================
