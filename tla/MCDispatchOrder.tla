-------------------------- MODULE MCDispatchOrder --------------------------
\* The instances of MCDispatch with the history of DispatchOrder.
EXTENDS MCDispatch, DispatchOrder
=============================================================================
