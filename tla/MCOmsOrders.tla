----------------------------- MODULE MCOmsOrders -----------------------------
(* Small instances of OmsOrders for TLC.                                     *)
EXTENDS OmsOrders
CONSTANTS open, close
MCSignal == {open, close}
MCReduce == {close}
MCOne == {open}
MCNone == {}
=============================================================================
