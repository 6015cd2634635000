---------------------------- MODULE OrderLifecycle ----------------------------
(***************************************************************************)
(* What the order book promises, whatever the processes that write it do:  *)
(* the status of an order follows one state machine, its executions are    *)
(* recorded only once the order has traded, and every recorded execution   *)
(* is posted to the position, then to the cash balance, at most once.      *)
(***************************************************************************)
EXTENDS Naturals

CONSTANTS
    Signal,     \* a signal leads to at most one order
    Lots        \* the lots of an order; one execution trades one lot

VARIABLES
    status,     \* of the order of a signal, "none" before there is one
    fills,      \* executions recorded
    posted,     \* executions applied to the position
    paid        \* executions applied to the cash balance

book == <<status, fills, posted, paid>>

Status == {"none", "NEW", "ACK", "PARTIALLY_FILLED", "FILLED", "CANCELED", "REJECTED"}

\* ORDER_STATUS_TRANSITIONS
Transitions ==
    [s \in Status |->
        CASE s = "none" -> {"NEW"}
          [] s = "NEW" -> {"ACK", "REJECTED", "CANCELED"}
          [] s = "ACK" -> {"PARTIALLY_FILLED", "FILLED", "CANCELED", "REJECTED"}
          [] s = "PARTIALLY_FILLED" -> {"PARTIALLY_FILLED", "FILLED", "CANCELED"}
          [] OTHER -> {}]

Init ==
    /\ status = [s \in Signal |-> "none"]
    /\ fills = [s \in Signal |-> 0]
    /\ posted = [s \in Signal |-> 0]
    /\ paid = [s \in Signal |-> 0]

Advance(s) ==
    /\ \E new \in Transitions[status[s]] : status' = [status EXCEPT ![s] = new]
    /\ UNCHANGED <<fills, posted, paid>>

Record(s) ==
    /\ status[s] \in {"PARTIALLY_FILLED", "FILLED", "CANCELED"}
    /\ fills[s] < Lots
    /\ fills' = [fills EXCEPT ![s] = @ + 1]
    /\ UNCHANGED <<status, posted, paid>>

Post(s) ==
    /\ posted[s] < fills[s]
    /\ posted' = [posted EXCEPT ![s] = @ + 1]
    /\ UNCHANGED <<status, fills, paid>>

Pay(s) ==
    /\ paid[s] < posted[s]
    /\ paid' = [paid EXCEPT ![s] = @ + 1]
    /\ UNCHANGED <<status, fills, posted>>

Next == \E s \in Signal : Advance(s) \/ Record(s) \/ Post(s) \/ Pay(s)

Spec == Init /\ [][Next]_book
=============================================================================
