------------------------------ MODULE OmsOrders ------------------------------
(***************************************************************************)
(* The orders of one account, from a signal to the ledger.                 *)
(*                                                                         *)
(*   OMS       apps/trader/oms.py             TraderOmsService             *)
(*   venue     src/infra/exchanges/paper.py   PaperExecutionAdapter        *)
(*   checks    apps/trader/reconciliation.py  TraderReconciliationRuntime  *)
(*   drift     src/domain/reconciliation/service.py                        *)
(*   records   src/infra/db/repositories.py                                *)
(*   operator  apps/api/control_plane.py      kill switch, cancel-all      *)
(*                                                                         *)
(* The trader handles one bar at a time and reconciles between two bars:   *)
(* nothing in submit_signal, reconcile or cancel_all gives way to another  *)
(* task of its loop.  Every call of the persistence is a transaction of    *)
(* its own, and between two of them the operator's process may run, or the *)
(* trader may die.  Quantities are counted in lots, and the venue executes *)
(* an order lot by lot; signal, event-log and alert records are left out.  *)
(***************************************************************************)
EXTENDS Naturals

CONSTANTS
    Signal,         \* signal ids; a signal may be submitted again
    Reduce,         \* the signals whose plan is a reduction (reduce_only)
    None,           \* no signal
    Lots,           \* the quantity of every order
    MaxTroubles     \* bound: database calls that raise, and crashes of the trader

ASSUME SignalAssumption == Reduce \subseteq Signal /\ None \notin Signal
ASSUME LotsAssumption == Lots \in Nat \ {0}
ASSUME TroubleAssumption == MaxTroubles \in Nat

VARIABLES
    \* the database
    kill,           \* trader_controls.kill_switch_active
    protection,     \* trader_controls.protection_mode_active
    intent,         \* status of the signal's order intent
    order,          \* status and filled quantity of the signal's order
    fills,          \* number of persisted fills (fill ids 1 .. fills)
    posted,         \* fills applied to the persisted position
    paid,           \* fills applied to the latest balance snapshot
    \* the trader's memory
    pc,             \* the next transaction of the trader
    cur,            \* the signal being submitted
    cached,         \* is the control state in memory reduce-only?
    rowSeen,        \* was the control row read by submit_signal reduce-only?
    report,         \* the venue's report
    step,           \* order updates, then fills, of it that are dealt with
    recon,          \* the reconciliation loop
    resume,         \* where the trader continues after a protective cancel
    \* each canceller's memory
    phase,          \* of its cancel_all_orders
    kept,           \* does it keep the orders that reduce a position?
    todo,           \* the listed orders still to cancel
    target,         \* the order being cancelled
    seenFilled,     \* the filled quantity of it that was read
    \* bookkeeping
    executed,       \* history: lots the venue reported as executed
    faults,
    crashes

db == <<kill, protection, intent, order, fills, posted, paid>>
memory == <<pc, cur, cached, rowSeen, report, step, recon, resume>>
job == <<phase, kept, todo, target, seenFilled>>
vars == <<db, memory, job, executed, faults, crashes>>

-----------------------------------------------------------------------------
Status == {"none", "NEW", "ACK", "PARTIALLY_FILLED", "FILLED", "CANCELED", "REJECTED"}
Active == {"NEW", "ACK", "PARTIALLY_FILLED"}
OrderRow == [status : Status, filled : 0 .. Lots]
NoOrder == [status |-> "none", filled |-> 0]

Report ==
    [kind : {"empty", "rejected", "executed"}, lots : 0 .. Lots, cancelRest : BOOLEAN]
Empty == [kind |-> "empty", lots |-> 0, cancelRest |-> FALSE]

Canceller == {"trader", "operator"}
Submitting == {"gate", "intent", "order", "gateway", "mark", "apply",
               "fill", "position", "balance"}
PC == {"down", "recover", "check", "protect", "cancel", "idle",
       "strategy", "failed"} \union Submitting

TypeOK ==
    /\ kill \in BOOLEAN
    /\ protection \in BOOLEAN
    /\ intent \in [Signal -> {"none", "NEW", "SUBMITTED"}]
    /\ order \in [Signal -> OrderRow]
    /\ fills \in [Signal -> Nat]
    /\ posted \in [Signal -> Nat]
    /\ paid \in [Signal -> Nat]
    /\ pc \in PC
    /\ cur \in Signal \union {None}
    /\ cached \in BOOLEAN
    /\ rowSeen \in BOOLEAN
    /\ report \in Report
    /\ step \in Nat
    /\ recon \in {"off", "on", "dead"}
    /\ resume \in {"check", "idle"}
    /\ phase \in [Canceller -> {"none", "list", "cancel"}]
    /\ kept \in [Canceller -> BOOLEAN]
    /\ todo \in [Canceller -> SUBSET Signal]
    /\ target \in [Canceller -> Signal \union {None}]
    /\ seenFilled \in [Canceller -> 0 .. Lots]
    /\ executed \in [Signal -> 0 .. Lots]
    /\ faults \in Nat
    /\ crashes \in Nat

\* resolve_risk_control_state: does the control row allow reductions only?
ReduceOnlyMode == kill \/ protection

\* can_transition_order_status, between two statuses of a persisted order
Transitions ==
    [s \in Status |->
        CASE s = "NEW" -> {"ACK", "REJECTED", "CANCELED"}
          [] s = "ACK" -> {"PARTIALLY_FILLED", "FILLED", "CANCELED", "REJECTED"}
          [] s = "PARTIALLY_FILLED" -> {"PARTIALLY_FILLED", "FILLED", "CANCELED"}
          [] OTHER -> {}]
\* Mutant: the repository does not validate the transition.
CanSaveAny(s, new) == TRUE

CanSave(s, new) ==
    \/ order[s].status \in {"none", new}
    \/ new \in Transitions[order[s].status]

Init ==
    /\ kill = FALSE
    /\ protection = FALSE
    /\ intent = [s \in Signal |-> "none"]
    /\ order = [s \in Signal |-> NoOrder]
    /\ fills = [s \in Signal |-> 0]
    /\ posted = [s \in Signal |-> 0]
    /\ paid = [s \in Signal |-> 0]
    /\ pc = "down"
    /\ cur = None
    /\ cached = FALSE
    /\ rowSeen = FALSE
    /\ report = Empty
    /\ step = 0
    /\ recon = "off"
    /\ resume = "idle"
    /\ phase = [a \in Canceller |-> "none"]
    /\ kept = [a \in Canceller |-> FALSE]
    /\ todo = [a \in Canceller |-> {}]
    /\ target = [a \in Canceller |-> None]
    /\ seenFilled = [a \in Canceller |-> 0]
    /\ executed = [s \in Signal |-> 0]
    /\ faults = 0
    /\ crashes = 0

\* One more database call raises.
Fault == faults + crashes < MaxTroubles /\ faults' = faults + 1
NoFault == UNCHANGED <<faults, crashes>>

\* A cancel_all_orders begins, or is over.
CancelBegins(a, keep) ==
    /\ phase' = [phase EXCEPT ![a] = "list"]
    /\ kept' = [kept EXCEPT ![a] = keep]
    /\ UNCHANGED <<todo, target, seenFilled>>
CancelOver(a) ==
    /\ phase' = [phase EXCEPT ![a] = "none"]
    /\ kept' = [kept EXCEPT ![a] = FALSE]
    /\ todo' = [todo EXCEPT ![a] = {}]
    /\ target' = [target EXCEPT ![a] = None]
    /\ seenFilled' = [seenFilled EXCEPT ![a] = 0]

\* The trader's process ends; its memory is gone.
Down ==
    /\ pc' = "down"
    /\ cur' = None
    /\ cached' = FALSE
    /\ rowSeen' = FALSE
    /\ report' = Empty
    /\ step' = 0
    /\ recon' = "off"
    /\ resume' = "idle"
    /\ CancelOver("trader")

\* The trader is done with a bar, or the handler of the bar has raised.
Leave(where) ==
    /\ pc' = where
    /\ cur' = None
    /\ rowSeen' = FALSE
    /\ report' = Empty
    /\ step' = 0
    /\ UNCHANGED <<cached, recon, resume>>

Go(where) == pc' = where /\ UNCHANGED <<cur, cached, rowSeen, report, step, recon, resume>>

-----------------------------------------------------------------------------
(* Start-up, and the reconciliation that runs at start-up and on schedule.  *)

Start ==
    /\ pc = "down"
    /\ pc' = "recover"
    /\ cached' = ReduceOnlyMode
    /\ UNCHANGED <<db, cur, rowSeen, report, step, recon, resume, job, executed>>
    /\ NoFault

\* recover_account_state: nothing of what it repairs is modelled here.
Recover ==
    /\ pc = "recover"
    /\ Go("check")
    /\ UNCHANGED <<db, job, executed>>
    /\ NoFault

RecoverFails ==
    /\ pc = "recover"
    /\ Fault
    /\ pc' = "protect"
    /\ resume' = "check"
    /\ UNCHANGED <<db, cur, cached, rowSeen, report, step, recon, job, executed, crashes>>

ReconcileDue ==
    /\ pc = "idle"
    /\ recon = "on"
    /\ Go("check")
    /\ UNCHANGED <<db, job, executed>>
    /\ NoFault

\* The status an order has does not go with the fills it has.
StatusDrifts(s) ==
    \/ fills[s] = 0 /\ order[s].status \in {"PARTIALLY_FILLED", "FILLED"}
    \/ fills[s] = Lots /\ order[s].status # "FILLED"
    \/ fills[s] \in 1 .. (Lots - 1) /\ order[s].status \notin {"PARTIALLY_FILLED", "CANCELED"}

\* Mutant: the fills of an order are not compared with its filled quantity.
OrderDriftsStatusOnly(s) == StatusDrifts(s)

\* _check_orders
OrderDrifts(s) == fills[s] # order[s].filled \/ StatusDrifts(s)

\* _check_positions and _check_balances: the replay posts every fill once
LedgerDrifts(s) == posted[s] # fills[s] \/ paid[s] # fills[s]

Drifts(s) == order[s] # NoOrder /\ (OrderDrifts(s) \/ LedgerDrifts(s))
Drift == \E s \in Signal : Drifts(s)

\* Mutant: the loop is started only by a reconciliation that alarms.
CheckPassesNoLoop ==
    /\ pc = "check"
    /\ ~Drift
    /\ Go("idle")
    /\ UNCHANGED <<db, job, executed>>
    /\ NoFault

\* run_once: without drift the trader goes on.
CheckPasses ==
    /\ pc = "check"
    /\ ~Drift
    /\ pc' = "idle"
    /\ resume' = "idle"
    /\ recon' = IF recon = "off" THEN "on" ELSE recon
    /\ UNCHANGED <<db, cur, cached, rowSeen, report, step, job, executed>>
    /\ NoFault

\* Drift, or the facts cannot be loaded: protection mode is to be engaged.
CheckAlarms ==
    /\ pc = "check"
    /\ \/ Drift /\ NoFault
       \/ Fault /\ UNCHANGED crashes
    /\ pc' = "protect"
    /\ resume' = "idle"
    /\ UNCHANGED <<db, cur, cached, rowSeen, report, step, recon, job, executed>>

Engage ==
    /\ pc = "protect"
    /\ protection' = TRUE
    /\ Go("cancel")
    /\ CancelBegins("trader", TRUE)
    /\ UNCHANGED <<kill, intent, order, fills, posted, paid, executed>>
    /\ NoFault

\* An exception leaves run_once: at start-up it ends the trader, later it
\* silently ends the task of the reconciliation loop.
Aborts ==
    IF recon = "off"
    THEN Down
    ELSE /\ pc' = "idle"
         /\ recon' = "dead"
         /\ CancelOver("trader")
         /\ UNCHANGED <<cur, cached, rowSeen, report, step, resume>>

EngageFails ==
    /\ pc = "protect" \/ (pc = "cancel" /\ phase["trader"] = "none")
    /\ Fault
    /\ Aborts
    /\ UNCHANGED <<db, executed, crashes>>

\* The refresh that ends _engage_protection_mode
Engaged ==
    /\ pc = "cancel"
    /\ phase["trader"] = "none"
    /\ pc' = resume
    /\ cached' = ReduceOnlyMode
    /\ recon' = IF resume = "idle" /\ recon = "off" THEN "on" ELSE recon
    /\ UNCHANGED <<db, cur, rowSeen, report, step, resume, job, executed>>
    /\ NoFault

-----------------------------------------------------------------------------
(***************************************************************************)
(* cancel_all_orders, by the operator or by the reconciliation.  The order *)
(* of the listed orders does not matter: any of them comes next.           *)
(***************************************************************************)
OperatorCancelsAll ==
    /\ phase["operator"] = "none"
    /\ CancelBegins("operator", ReduceOnlyMode)
    /\ UNCHANGED <<db, memory, executed>>
    /\ NoFault

SetKillSwitch ==
    /\ kill' = ~kill
    /\ UNCHANGED <<protection, intent, order, fills, posted, paid, memory, job, executed>>
    /\ NoFault

\* Mutant: an order the venue has not acknowledged is not listed.
ListActiveAcknowledged(a) ==
    /\ phase[a] = "list"
    /\ phase' = [phase EXCEPT ![a] = "cancel"]
    /\ todo' = [todo EXCEPT ![a] = {s \in Signal : order[s].status \in Active \ {"NEW"}}]
    /\ UNCHANGED <<db, memory, kept, target, seenFilled, executed>>
    /\ NoFault

ListActive(a) ==
    /\ phase[a] = "list"
    /\ phase' = [phase EXCEPT ![a] = "cancel"]
    /\ todo' = [todo EXCEPT ![a] = {s \in Signal : order[s].status \in Active}]
    /\ UNCHANGED <<db, memory, kept, target, seenFilled, executed>>
    /\ NoFault

\* get_order, and the venue's answer: nothing for an order that is not active.
CancelReads(a) ==
    /\ phase[a] = "cancel"
    /\ target[a] = None
    /\ \E s \in todo[a] :
          LET skip == (kept[a] /\ s \in Reduce) \/ order[s].status \notin Active
          IN  /\ todo' = [todo EXCEPT ![a] = @ \ {s}]
              /\ target' = [target EXCEPT ![a] = IF skip THEN None ELSE s]
              /\ seenFilled' = [seenFilled EXCEPT ![a] = IF skip THEN 0 ELSE order[s].filled]
    /\ UNCHANGED <<db, memory, phase, kept, executed>>
    /\ NoFault

\* The update carries the filled quantity of the row that was read.
CancelSaves(a) ==
    /\ target[a] # None
    /\ CanSave(target[a], "CANCELED")
    /\ order' = [order EXCEPT ![target[a]] = [status |-> "CANCELED", filled |-> seenFilled[a]]]
    /\ target' = [target EXCEPT ![a] = None]
    /\ seenFilled' = [seenFilled EXCEPT ![a] = 0]
    /\ UNCHANGED <<kill, protection, intent, fills, posted, paid, memory, phase, kept, todo,
                   executed>>
    /\ NoFault

\* The order was completed since it was read: the repository refuses the
\* transition, and the failed write engages protection mode.
CancelOvertaken ==
    /\ target["operator"] # None
    /\ ~CanSave(target["operator"], "CANCELED")
    /\ protection' = TRUE
    /\ CancelOver("operator")
    /\ UNCHANGED <<kill, intent, order, fills, posted, paid, memory, executed>>
    /\ NoFault

CancelFails(a) ==
    /\ phase[a] # "none"
    /\ Fault
    /\ protection' \in {protection, protection \/ target[a] # None}
    /\ IF a = "trader"
       THEN Aborts
       ELSE CancelOver(a) /\ UNCHANGED memory
    /\ UNCHANGED <<kill, intent, order, fills, posted, paid, executed, crashes>>

CancelEnds(a) ==
    /\ phase[a] = "cancel"
    /\ todo[a] = {}
    /\ target[a] = None
    /\ CancelOver(a)
    /\ UNCHANGED <<db, memory, executed>>
    /\ NoFault

-----------------------------------------------------------------------------
(* The bar handler up to the risk gate.                                     *)

\* The refresh of observe_bar, then the strategy is awaited.
BarTaken(s) ==
    /\ pc = "idle"
    /\ pc' = "strategy"
    /\ cur' = s
    /\ cached' = ReduceOnlyMode
    /\ UNCHANGED <<db, rowSeen, report, step, recon, resume, job, executed>>
    /\ NoFault

\* A refresh of the heartbeat loop, while the strategy is awaited.
Heartbeat ==
    /\ pc \in {"idle", "strategy"}
    /\ cached # ReduceOnlyMode
    /\ cached' = ReduceOnlyMode
    /\ UNCHANGED <<db, pc, cur, rowSeen, report, step, recon, resume, job, executed>>
    /\ NoFault

NoSignal ==
    /\ pc = "strategy"
    /\ Leave("idle")
    /\ UNCHANGED <<db, job, executed>>
    /\ NoFault

\* submit_signal reads the control row, but the state it is given prevails.
ReadControl ==
    /\ pc = "strategy"
    /\ pc' = "gate"
    /\ rowSeen' = ReduceOnlyMode
    /\ UNCHANGED <<db, cur, cached, report, step, recon, resume, job, executed>>
    /\ NoFault

\* _check_control_state; every other rule may let the signal pass or not.
GateAllows == cached => cur \in Reduce

GatePasses ==
    /\ pc = "gate"
    /\ GateAllows
    /\ Go("intent")
    /\ UNCHANGED <<db, job, executed>>
    /\ NoFault

GateRejects ==
    /\ pc = "gate"
    /\ Leave("idle")
    /\ UNCHANGED <<db, job, executed>>
    /\ NoFault

-----------------------------------------------------------------------------
(* Submission: intent, order, venue, report.                                *)

\* Mutant: the intent is saved as submitted, ahead of the order.
SaveIntentSubmitted ==
    /\ pc = "intent"
    /\ intent[cur] # "SUBMITTED"
    /\ intent' = [intent EXCEPT ![cur] = "SUBMITTED"]
    /\ Go("order")
    /\ UNCHANGED <<kill, protection, order, fills, posted, paid, job, executed>>
    /\ NoFault

\* Under its idempotency key, a signal has one intent.
SaveIntent ==
    /\ pc = "intent"
    /\ intent[cur] # "SUBMITTED"
    /\ intent' = [intent EXCEPT ![cur] = "NEW"]
    /\ Go("order")
    /\ UNCHANGED <<kill, protection, order, fills, posted, paid, job, executed>>
    /\ NoFault

AlreadySubmitted ==
    /\ pc = "intent"
    /\ intent[cur] = "SUBMITTED"
    /\ Leave("idle")
    /\ UNCHANGED <<db, job, executed>>
    /\ NoFault

SaveOrder ==
    /\ pc = "order"
    /\ CanSave(cur, "NEW")
    /\ order' = [order EXCEPT ![cur] = [status |-> "NEW", filled |-> 0]]
    /\ Go("gateway")
    /\ UNCHANGED <<kill, protection, intent, fills, posted, paid, job, executed>>
    /\ NoFault

\* PaperExecutionAdapter.submit_order, or the no-op gateway's empty report
VenueReports ==
    /\ pc = "gateway"
    /\ \E r \in Report :
          /\ r.kind # "executed" => r.lots = 0 /\ ~r.cancelRest
          /\ r.cancelRest => r.lots < Lots
          /\ report' = r
          /\ executed' = [executed EXCEPT ![cur] = IF r.lots > @ THEN r.lots ELSE @]
    /\ pc' = "mark"
    /\ UNCHANGED <<db, cur, cached, rowSeen, step, recon, resume, job>>
    /\ NoFault

VenueRaises ==
    /\ pc = "gateway"
    /\ protection' = TRUE
    /\ Leave("failed")
    /\ UNCHANGED <<kill, intent, order, fills, posted, paid, job, executed>>
    /\ NoFault

MarkSubmitted ==
    /\ pc = "mark"
    /\ intent' = [intent EXCEPT ![cur] = "SUBMITTED"]
    /\ Go("apply")
    /\ UNCHANGED <<kill, protection, order, fills, posted, paid, job, executed>>
    /\ NoFault

\* The order updates of a report: one for a rejection; otherwise the
\* acknowledgement, one for every lot and the cancellation of the rest.
Updates(r) ==
    CASE r.kind = "empty" -> 0
      [] r.kind = "rejected" -> 1
      [] OTHER -> 1 + r.lots + (IF r.cancelRest THEN 1 ELSE 0)
Update(r, k) ==
    CASE r.kind = "rejected" -> [status |-> "REJECTED", filled |-> 0]
      [] k = 1 -> [status |-> "ACK", filled |-> 0]
      [] k = r.lots + 2 -> [status |-> "CANCELED", filled |-> r.lots]
      [] OTHER -> [status |-> IF k = Lots + 1 THEN "FILLED" ELSE "PARTIALLY_FILLED",
                   filled |-> k - 1]

ApplyUpdate ==
    /\ pc = "apply"
    /\ step < Updates(report)
    /\ CanSave(cur, Update(report, step + 1).status)
    /\ order' = [order EXCEPT ![cur] = Update(report, step + 1)]
    /\ step' = step + 1
    /\ UNCHANGED <<kill, protection, intent, fills, posted, paid, pc, cur, cached,
                   rowSeen, report, recon, resume, job, executed>>
    /\ NoFault

UpdatesApplied ==
    /\ pc = "apply"
    /\ step = Updates(report)
    /\ pc' = "fill"
    /\ step' = 0
    /\ UNCHANGED <<db, cur, cached, rowSeen, report, recon, resume, job, executed>>
    /\ NoFault

\* A fill that is known is skipped.
SaveFill ==
    /\ pc = "fill"
    /\ step < report.lots
    /\ IF step < fills[cur]
       THEN /\ step' = step + 1
            /\ UNCHANGED <<fills, pc>>
       ELSE /\ fills' = [fills EXCEPT ![cur] = step + 1]
            /\ pc' = "position"
            /\ UNCHANGED step
    /\ UNCHANGED <<kill, protection, intent, order, posted, paid, cur, cached, rowSeen,
                   report, recon, resume, job, executed>>
    /\ NoFault

SavePosition ==
    /\ pc = "position"
    /\ posted' = [posted EXCEPT ![cur] = @ + 1]
    /\ Go("balance")
    /\ UNCHANGED <<kill, protection, intent, order, fills, paid, job, executed>>
    /\ NoFault

\* apply_fill_event_to_portfolio raises PortfolioStateError.
LedgerRefuses ==
    /\ pc = "position"
    /\ Leave("failed")
    /\ UNCHANGED <<db, job, executed>>
    /\ NoFault

SaveBalance ==
    /\ pc = "balance"
    /\ paid' = [paid EXCEPT ![cur] = @ + 1]
    /\ pc' = "fill"
    /\ step' = step + 1
    /\ UNCHANGED <<kill, protection, intent, order, fills, posted, cur, cached, rowSeen,
                   report, recon, resume, job, executed>>
    /\ NoFault

Submitted ==
    /\ pc = "fill"
    /\ step = report.lots
    /\ Leave("idle")
    /\ UNCHANGED <<db, job, executed>>
    /\ NoFault

\* Mutant: a refused order update does not engage protection mode.
SubmissionOvertakenQuietly ==
    /\ \/ pc = "order" /\ ~CanSave(cur, "NEW")
       \/ /\ pc = "apply"
          /\ step < Updates(report)
          /\ ~CanSave(cur, Update(report, step + 1).status)
    /\ Leave("failed")
    /\ UNCHANGED <<db, job, executed>>
    /\ NoFault

\* A cancellation came first: the repository refuses the transition.
SubmissionOvertaken ==
    /\ \/ pc = "order" /\ ~CanSave(cur, "NEW")
       \/ /\ pc = "apply"
          /\ step < Updates(report)
          /\ ~CanSave(cur, Update(report, step + 1).status)
    /\ protection' = TRUE
    /\ Leave("failed")
    /\ UNCHANGED <<kill, intent, order, fills, posted, paid, job, executed>>
    /\ NoFault

\* A failed write of an intent, order, fill, position or balance engages
\* protection mode if that write succeeds; that of a signal or event does
\* not, and neither does a strategy that raises.
SubmissionFails ==
    /\ pc \in Submitting \union {"strategy"}
    /\ Fault
    /\ protection' \in {protection, protection \/ pc \notin {"strategy", "gate"}}
    /\ Leave("failed")
    /\ UNCHANGED <<kill, intent, order, fills, posted, paid, job, executed, crashes>>

-----------------------------------------------------------------------------
\* The exception ended the dispatcher; run stops the trader.
Stop ==
    /\ pc = "failed"
    /\ Down
    /\ UNCHANGED <<db, executed>>
    /\ NoFault

Crash ==
    /\ pc # "down"
    /\ faults + crashes < MaxTroubles
    /\ crashes' = crashes + 1
    /\ Down
    /\ UNCHANGED <<db, executed, faults>>

Startup == Start \/ Recover \/ RecoverFails
Reconciliation == CheckPasses \/ CheckAlarms \/ Engage \/ EngageFails \/ Engaged
Cancellation(a) == ListActive(a) \/ CancelReads(a) \/ CancelSaves(a) \/ CancelEnds(a)
Routing == NoSignal \/ ReadControl \/ GatePasses \/ GateRejects
Submission ==
    \/ SaveIntent \/ AlreadySubmitted \/ SaveOrder \/ VenueReports \/ VenueRaises
    \/ MarkSubmitted \/ ApplyUpdate \/ UpdatesApplied \/ SaveFill \/ SavePosition
    \/ LedgerRefuses \/ SaveBalance \/ Submitted \/ SubmissionOvertaken

Next ==
    \/ Startup \/ ReconcileDue \/ Reconciliation
    \/ OperatorCancelsAll \/ SetKillSwitch \/ CancelOvertaken
    \/ \E a \in Canceller : Cancellation(a) \/ CancelFails(a)
    \/ \E s \in Signal : BarTaken(s)
    \/ Heartbeat \/ Routing \/ Submission \/ SubmissionFails \/ Stop \/ Crash

Spec == Init /\ [][Next]_vars

\* The processes run and are restarted, and the reconciliation timer, once
\* due, is served when the loop is idle again and again.
Fairness ==
    /\ WF_vars(Startup) /\ WF_vars(Reconciliation) /\ WF_vars(Routing)
    /\ WF_vars(Submission) /\ WF_vars(Stop) /\ SF_vars(ReconcileDue)
    /\ \A a \in Canceller : WF_vars(Cancellation(a))

FairSpec == Spec /\ Fairness

-----------------------------------------------------------------------------
(* Properties *)

\* The docstring of submit_signal, "Persist Signal -> OrderIntent -> Order
\* before execution handoff", over crashes and cancellations: an execution is
\* never reported for, and a submitted intent never left, without its order,
\* an order never without its intent, and nothing the venue does to an order
\* is recorded before the intent is known to be submitted.
WriteAhead ==
    \A s \in Signal :
        /\ executed[s] > 0 \/ intent[s] = "SUBMITTED" => order[s].status # "none"
        /\ order[s].status # "none" => intent[s] # "none"
        /\ order[s].status \notin {"none", "NEW", "CANCELED"} => intent[s] = "SUBMITTED"
        /\ fills[s] > 0 => intent[s] = "SUBMITTED"

\* Whatever stops the processes, the order book goes through the states of
\* the abstract order book: no transition outside the order state machine,
\* no fill recorded of an order that has not traded, and no fill posted or
\* paid twice or out of order.
Book == INSTANCE OrderLifecycle WITH status <- [s \in Signal |-> order[s].status]
ImplementsBook == Book!Spec

\* While the protective cancel-all of a reconciliation runs, an active order
\* that opens a position is one it has still to cancel: when it ends, none
\* is left, whatever the operator cancels meanwhile.
ProtectionSweeps ==
    pc = "cancel" /\ phase["trader"] # "list" =>
        \A s \in Signal \ Reduce :
            order[s].status \in Active => s \in todo["trader"] \union {target["trader"]}

\* While no process dies and no database call raises, an execution the venue
\* reported reaches the ledger, or the submission is still at it, or
\* protection mode is on, or reconciliation can see that the order, its fills
\* and the ledger differ, whatever the operator cancels or switches.
InFlight(s) == cur = s /\ pc \in {"mark", "apply", "fill", "position", "balance"}
Accounted(s) == executed[s] > paid[s] => InFlight(s) \/ protection \/ Drifts(s)
ExecutionsAccounted == faults = 0 /\ crashes = 0 => \A s \in Signal : Accounted(s)

\* Crashes and failed writes included: an execution is never lost unseen.
ExecutionsNeverLost == \A s \in Signal : Accounted(s)

\* Orders, fills and ledger that differ, differ no more or engage protection
\* mode in the end, crashes included, unless a database call raises.
DriftProtected == Drift ~> (protection \/ ~Drift \/ faults > 0)

\* The same when one does: a reconciliation that fails alarms as well.
DriftAlwaysProtected == Drift ~> (protection \/ ~Drift)

\* What the operator is told when the kill switch goes on: "only reducing or
\* flattening actions remain allowed".  A submission that has read a control
\* row that says so passes the gate with a reduction only.
GateHonoursControlRow ==
    [][pc = "gate" /\ pc' = "intent" /\ rowSeen => cur \in Reduce]_vars

\* The inductive invariant behind WriteAhead, ImplementsBook and
\* ProtectionSweeps: where the records of a signal stand at each step of its
\* submission, and once no submission is at it.
Traded == {"PARTIALLY_FILLED", "FILLED", "CANCELED"}
Untouched(s) ==
    /\ fills[s] = 0 /\ posted[s] = 0 /\ paid[s] = 0
    /\ order[s].status \in {"none", "NEW", "CANCELED"}
RecordsInv ==
    \A s \in Signal :
        /\ paid[s] <= posted[s] /\ posted[s] <= fills[s] /\ fills[s] <= Lots
        /\ fills[s] > 0 => order[s].status \in Traded
        /\ intent[s] # "SUBMITTED" => Untouched(s)
        /\ intent[s] = "SUBMITTED" => order[s].status # "none"
        /\ order[s].status # "none" => intent[s] # "none"
        /\ executed[s] > 0 => order[s].status # "none"
Recording == {"apply", "fill", "position", "balance"}
SubmissionInv ==
    /\ pc \in Submitting \union {"strategy"} => cur \in Signal
    /\ pc \notin Recording => step = 0
    /\ report.kind # "executed" => report.lots = 0
    /\ pc = "order" => intent[cur] = "NEW"
    /\ pc \in {"gateway", "mark"} => intent[cur] = "NEW" /\ order[cur].status # "none"
    /\ pc \in Recording => intent[cur] = "SUBMITTED"
    /\ pc = "apply" => fills[cur] = 0 /\ step <= Updates(report)
    /\ pc \in Recording /\ (pc = "apply" => step = Updates(report)) /\ report.lots > 0
          => order[cur].status \in Traded
    /\ pc = "fill" => fills[cur] = step /\ paid[cur] = step /\ step <= report.lots
    /\ pc \in {"position", "balance"} =>
          fills[cur] = step + 1 /\ paid[cur] = step /\ step < report.lots
    /\ pc = "position" => posted[cur] = step
    /\ pc = "balance" => posted[cur] = step + 1
CancelInv ==
    /\ \A a \in Canceller :
          /\ phase[a] # "cancel" => todo[a] = {} /\ target[a] = None
          /\ \A s \in todo[a] \union {target[a]} : s # None => order[s].status # "none"
    /\ pc # "cancel" => phase["trader"] = "none"
    /\ ProtectionSweeps
OmsInv == RecordsInv /\ SubmissionInv /\ CancelInv

\* What ExecutionsAccounted rests on besides: as long as protection mode is off,
\* the venue has executed what the report at hand says, and once no submission
\* is at it what was paid, unless the ledger has refused a fill.
AccountInv ==
    faults = 0 /\ crashes = 0 /\ ~protection =>
        \A s \in Signal :
            IF InFlight(s) THEN executed[s] = report.lots
            ELSE executed[s] = paid[s] \/ (posted[s] # fills[s] /\ order[s].status # "none")

=============================================================================
