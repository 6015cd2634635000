------------------------------ MODULE StatusView ------------------------------
(***************************************************************************)
(* What an operator is told about the trader.  Trader processes write one  *)
(* row of trader_runtime_status after every refresh; the API reads the     *)
(* control row, the lease row and that row in three transactions and       *)
(* derives from them whether the trader is ready, and a diagnosis.         *)
(*                                                                         *)
(*   writers  apps/trader/control_plane.py  TraderControlRuntime           *)
(*   reader   apps/trader/control_plane.py  build_status_view              *)
(*   answers  apps/api/control_plane.py     ready_payload                  *)
(*                                                                         *)
(* A refresh is two steps: the one that samples the clock and touches the  *)
(* lease row, and the one that saves the status row.  Nothing of the same  *)
(* process comes between them, but other processes and time do.  The lease *)
(* is taken in one step, and by processes that do not look for each        *)
(* other's pid; module TraderLease has the finer protocol.                 *)
(***************************************************************************)
EXTENDS Integers

CONSTANTS
    Instance,       \* instance ids, "host:pid"; a restarted container keeps its id
    None,           \* the null owner
    TTL,            \* lease_ttl_seconds
    Stale,          \* age from which market data is stale
    Bars,           \* age of a bar when it is handled, and whether it has a phase
    MaxClock,       \* bound: the instants that pass
    MaxToken,       \* bound: no takeover beyond this fencing token
    MaxFaults       \* bound: database calls that raise

ASSUME InstanceAssumption == None \notin Instance
ASSUME TimeAssumption == TTL \in Nat \ {0} /\ Stale \in Nat 
ASSUME BarAssumption == Bars \subseteq [age : Nat, phase : BOOLEAN]
ASSUME BoundAssumption == MaxClock \in Nat /\ MaxToken \in Nat /\ MaxFaults \in Nat

VARIABLES
    now,        \* wall clock
    lease,      \* the row of trader_account_leases
    proc,       \* the memory of each process
    row,        \* the row of trader_runtime_status
    view,       \* the status request being answered
    faults,     \* database calls that raised
    lastReady,  \* history: the last instant at which the trader of row was ready
    unheard,    \* history: that trader was started again and has not reported since
    since       \* history: the instant of the last takeover

vars == <<now, lease, proc, row, view, faults, lastReady, unheard, since>>

-----------------------------------------------------------------------------
\* rejected: start found the lease held, or gave it back; failing: the dispatcher
\* died and run has not noticed yet; drained: it died and the service stops
Life == {"down", "running", "rejected", "failing", "stopping", "drained", "stopped"}
\* the save of the status row that is due, named for its caller
Saving == {"none", "start", "bar", "audit", "beat", "again", "stop"}

Lease == [owner : Instance \union {None}, expires : Nat, token : Nat]
\* bar: time of the latest final bar (0: none); phase: a trading phase is known
Process == [life : Life, ready : BOOLEAN, token : Nat, bar : Nat,
            phase : BOOLEAN, saving : Saving, beats : BOOLEAN]
Status == [inst : Instance \union {None}, life : Life,
           ready : BOOLEAN, token : Nat, bar : Nat, phase : BOOLEAN]
\* open: the lease row has been read, the status row has not
View == [open : BOOLEAN, asOf : Nat, lease : Lease]

NoLease == [owner |-> None, expires |-> 0, token |-> 0]
NoStatus == [inst |-> None, life |-> "stopped", ready |-> FALSE, token |-> 0,
             bar |-> 0, phase |-> FALSE]
Gone == [life |-> "down", ready |-> FALSE, token |-> 0, bar |-> 0,
         phase |-> FALSE, saving |-> "none", beats |-> FALSE]
NoView == [open |-> FALSE, asOf |-> 0, lease |-> NoLease]

\* Every variable has its type (the tables' columns and the runtime's fields).
TypeOK ==
    /\ now \in Nat /\ faults \in Nat /\ since \in Nat
    /\ lease \in Lease
    /\ proc \in [Instance -> Process]
    /\ row \in Status
    /\ view \in View
    /\ lastReady \in Nat
    /\ unheard \in BOOLEAN

\* The clock starts late enough for a stale bar to have a time.
FirstInstant == Stale + 2

Init ==
    /\ now = FirstInstant
    /\ lease = NoLease
    /\ proc = [i \in Instance |-> Gone]
    /\ row = NoStatus
    /\ view = NoView
    /\ faults = 0
    /\ lastReady = 0
    /\ unheard = FALSE
    /\ since = 0

\* is_held_by
HeldBy(r, i, t) == r.owner = i /\ r.expires > t

\* _market_data_is_fresh, and the same sum in build_status_view
Fresh(bar, t) == bar # 0 /\ t - bar =< Stale

-----------------------------------------------------------------------------
(***************************************************************************)
(* Start: the lease is taken, renewed under the same id, or refused.       *)
(***************************************************************************)
\* The end of refresh at instant now, for the lease row r.
Refreshed(p, i, r) ==
    [p EXCEPT !.token = r.token,
              !.ready = /\ p.life = "running"
                        /\ r.token = p.token /\ HeldBy(r, i, now)
                        /\ Fresh(p.bar, now) /\ p.phase]

BecomesReady(i) ==
    lastReady' = IF row.inst = i /\ proc'[i].ready THEN now ELSE lastReady

Start(i) ==
    /\ proc[i].life = "down"
    /\ lease.owner \in {i, None} \/ lease.expires =< now
    /\ LET renewed == HeldBy(lease, i, now) IN
       /\ renewed \/ lease.token < MaxToken
       /\ lease' = [owner |-> i, expires |-> now + TTL,
                    token |-> lease.token + IF renewed THEN 0 ELSE 1]
       /\ since' = IF renewed THEN since ELSE now
    /\ proc' = [proc EXCEPT ![i] =
          [Gone EXCEPT !.life = "running", !.token = lease'.token, !.saving = "start"]]
    /\ unheard' = (unheard \/ row.inst = i)
    /\ UNCHANGED <<now, row, view, faults, lastReady>>

StartRejected(i) ==
    /\ proc[i].life = "down"
    /\ lease.owner \notin {i, None} /\ lease.expires > now
    /\ proc' = [proc EXCEPT ![i] =
          [Gone EXCEPT !.life = "rejected", !.token = lease.token, !.saving = "stop"]]
    /\ UNCHANGED <<now, lease, row, view, faults, lastReady, unheard, since>>

-----------------------------------------------------------------------------
(***************************************************************************)
(* refresh, by the heartbeat loop and for every bar.                       *)
(***************************************************************************)
Idle(i) == proc[i].saving = "none"

\* heartbeat_lease renews what matches its WHERE clause.
Heartbeat(i) ==
    /\ proc[i].beats /\ Idle(i)
    /\ lease' = IF HeldBy(lease, i, now) /\ lease.token = proc[i].token
                THEN [lease EXCEPT !.expires = now + TTL] ELSE lease
    /\ proc' = [proc EXCEPT ![i] = [Refreshed(@, i, lease') EXCEPT !.saving = "beat"]]
    /\ BecomesReady(i)
    /\ UNCHANGED <<now, row, view, faults, unheard, since>>

\* observe_bar takes over the bar's time, whatever came before, and refreshes.
BarObserved(i) ==
    /\ proc[i].life \in {"running", "stopping"} /\ Idle(i)
    /\ \E b \in Bars :
          /\ b.age < now
          /\ LET p == [proc[i] EXCEPT !.bar = now - b.age, !.phase = b.phase] IN
             proc' = [proc EXCEPT ![i] = [Refreshed(p, i, lease) EXCEPT !.saving = "bar"]]
    /\ BecomesReady(i)
    /\ UNCHANGED <<now, lease, row, view, faults, unheard, since>>

\* The handler raised, so that no bar is handled any more.
WithoutDispatcher(life) == IF life = "running" THEN "failing" ELSE "drained"

\* The call of the store that precedes the save raises.
RefreshFails(i) ==
    /\ faults < MaxFaults
    /\ Idle(i)
    /\ \/ /\ proc[i].beats
          /\ proc' = [proc EXCEPT ![i].ready = FALSE, ![i].saving = "again"]
       \/ /\ proc[i].life \in {"running", "stopping"}
          /\ proc' = [proc EXCEPT ![i].life = WithoutDispatcher(@)]
    /\ faults' = faults + 1
    /\ UNCHANGED <<now, lease, row, view, lastReady, unheard, since>>

-----------------------------------------------------------------------------
(***************************************************************************)
(* _persist_runtime_status and save_runtime_status.                        *)
(***************************************************************************)
\* The row a process writes.  Neither a start that was refused or given up nor a
\* dispatcher that died has changed its lifecycle status.
Report(i) ==
    [inst |-> i,
     life |-> CASE proc[i].life \in {"rejected", "failing"} -> "running"
                [] proc[i].life = "drained" -> "stopping"
                [] OTHER -> proc[i].life,
     ready |-> proc[i].ready, token |-> proc[i].token,
     bar |-> proc[i].bar, phase |-> proc[i].phase]

\* After the save the process ends, starts its heartbeat loop, goes on to the
\* strategy, which is one more save, or waits.
AfterSave(p) ==
    CASE p.saving = "stop" -> {Gone}
      [] p.saving = "start" -> {[p EXCEPT !.saving = "none", !.beats = TRUE]}
      [] p.saving = "bar" /\ p.ready -> {[p EXCEPT !.saving = s] : s \in {"none", "audit"}}
      [] OTHER -> {[p EXCEPT !.saving = "none"]}

Save(i) ==
    /\ ~Idle(i)
    /\ row' = Report(i)
    /\ \E p \in AfterSave(proc[i]) : proc' = [proc EXCEPT ![i] = p]
    /\ lastReady' = IF proc[i].ready THEN now ELSE 0
    /\ unheard' = FALSE
    /\ UNCHANGED <<now, lease, view, faults, since>>

\* The save raises: start and stop end the process, the heartbeat loop drops
\* readiness and tries once more, then ends; a handler ends the dispatcher.
AfterFailure(p) ==
    CASE p.saving \in {"start", "stop"} -> Gone
      [] p.saving = "beat" -> [p EXCEPT !.ready = FALSE, !.saving = "again"]
      [] p.saving = "again" -> [p EXCEPT !.saving = "none", !.beats = FALSE]
      [] OTHER -> [p EXCEPT !.saving = "none", !.life = WithoutDispatcher(@)]

SaveFails(i) ==
    /\ faults < MaxFaults
    /\ ~Idle(i)
    /\ proc' = [proc EXCEPT ![i] = AfterFailure(@)]
    /\ faults' = faults + 1
    /\ UNCHANGED <<now, lease, row, view, lastReady, unheard, since>>

-----------------------------------------------------------------------------
(***************************************************************************)
(* The end of a process.                                                   *)
(***************************************************************************)
\* mark_stopping writes nothing to the database.
StopBegins(i) ==
    /\ proc[i].life \in {"running", "failing"} /\ Idle(i)
    /\ proc' = [proc EXCEPT ![i].life = IF @ = "running" THEN "stopping" ELSE "drained",
                            ![i].ready = FALSE]
    /\ UNCHANGED <<now, lease, row, view, faults, lastReady, unheard, since>>

\* TraderControlRuntime.stop: the lease is released if the WHERE clause matches,
\* the loop is cancelled, and one last report is due.
Released(i, life) ==
    /\ Idle(i)
    /\ lease' = IF lease.owner = i /\ lease.token = proc[i].token
                THEN [lease EXCEPT !.owner = None, !.expires = now] ELSE lease
    /\ proc' = [proc EXCEPT ![i].life = life, ![i].ready = FALSE,
                            ![i].token = lease.token, ![i].saving = "stop",
                            ![i].beats = FALSE]

Release(i) ==
    /\ proc[i].life \in {"stopping", "drained"}
    /\ Released(i, "stopped")
    /\ UNCHANGED <<now, row, view, faults, lastReady, unheard, since>>

\* The reconciliation runtime, which starts after the control runtime, raises:
\* the last report still says "running".
StartAborted(i) ==
    /\ faults < MaxFaults
    /\ proc[i].life = "running" /\ proc[i].bar = 0
    /\ Released(i, "rejected")
    /\ faults' = faults + 1
    /\ UNCHANGED <<now, row, view, lastReady, unheard, since>>

Crash(i) ==
    /\ proc[i].life # "down"
    /\ proc' = [proc EXCEPT ![i] = Gone]
    /\ UNCHANGED <<now, lease, row, view, faults, lastReady, unheard, since>>

-----------------------------------------------------------------------------
(***************************************************************************)
(* The API: build_status_view reads three rows, one after the other.       *)
(***************************************************************************)
\* The clock was sampled at some instant before the lease is read.
ViewReadsLease ==
    /\ ~view.open
    /\ \E t \in FirstInstant .. now : view' = [open |-> TRUE, asOf |-> t, lease |-> lease]
    /\ UNCHANGED <<now, lease, proc, row, faults, lastReady, unheard, since>>

\* Mutant: whoever holds the lease, the trader is taken at its word.
ReadyInRowReported(v, r) ==
    /\ r.life = "running" /\ r.ready
    /\ Fresh(r.bar, v.asOf) /\ r.phase

\* Mutant: the lease may have expired.
ReadyInRowExpired(v, r) ==
    /\ r.life = "running" /\ r.ready
    /\ Fresh(r.bar, v.asOf) /\ r.phase
    /\ v.lease.owner = r.inst /\ v.lease.token = r.token

\* ready and lease_valid of build_status_view
ReadyInRow(v, r) ==
    /\ r.life = "running" /\ r.ready
    /\ Fresh(r.bar, v.asOf) /\ r.phase
    /\ HeldBy(v.lease, r.inst, v.asOf)
    /\ v.lease.token = r.token

\* Mutant: the lease has to be held by somebody else.
DiagnosisSwapped(protection, v, r) ==
    IF protection THEN "PROTECTION_MODE_ACTIVE"
    ELSE IF r.life = "running" /\ v.lease.owner = r.inst THEN "LEASE_NOT_HELD"
    ELSE "LIVE_DATA_READY"

\* _build_degraded_mode_payload, for real market data
Diagnosis(protection, v, r) ==
    IF protection THEN "PROTECTION_MODE_ACTIVE"
    ELSE IF r.inst # None /\ r.life = "running" /\ v.lease.owner # r.inst
         THEN "LEASE_NOT_HELD"
    ELSE IF r.bar = 0 THEN "MARKET_DATA_MISSING"
    ELSE IF ~Fresh(r.bar, v.asOf) THEN "MARKET_DATA_STALE"
    ELSE IF r.life # "running" THEN "RUNTIME_STATUS_MISSING"
    ELSE "LIVE_DATA_READY"

\* The answer that the read of the status row completes.
ViewAnswers ==
    /\ view.open
    /\ view' = NoView
    /\ UNCHANGED <<now, lease, proc, row, faults, lastReady, unheard, since>>

AnswersReady == ViewAnswers /\ ReadyInRow(view, row)

\* A read raises: ready_payload answers with the defaults of an empty system.
ViewFails ==
    /\ faults < MaxFaults
    /\ view.open
    /\ view' = NoView
    /\ faults' = faults + 1
    /\ UNCHANGED <<now, lease, proc, row, lastReady, unheard, since>>

-----------------------------------------------------------------------------
Tick ==
    /\ now < FirstInstant + MaxClock
    /\ now' = now + 1
    /\ lastReady' = IF \E i \in Instance : row.inst = i /\ proc[i].ready
                    THEN now + 1 ELSE lastReady
    /\ UNCHANGED <<lease, proc, row, view, faults, unheard, since>>

Next ==
    \/ \E i \in Instance :
          \/ Start(i) \/ StartRejected(i)
          \/ Heartbeat(i) \/ BarObserved(i) \/ RefreshFails(i)
          \/ Save(i) \/ SaveFails(i)
          \/ StopBegins(i) \/ Release(i) \/ StartAborted(i) \/ Crash(i)
    \/ ViewReadsLease \/ ViewAnswers \/ ViewFails
    \/ Tick

Spec == Init /\ [][Next]_vars

-----------------------------------------------------------------------------
(***************************************************************************)
(* Properties.                                                             *)
(***************************************************************************)
\* An operator who is told that a trader is ready learns of one that was ready
\* by its own account less than two terms of the lease before, whatever crashed,
\* stopped or failed to write since: a report outlives its process only as long
\* as the lease does, and a renewal without a report happens once.  Exempt is a
\* restart under the same id, which renews the lease before it reports.
ReadyIsRecent ==
    [][AnswersReady /\ ~unheard
          => view.asOf =< lastReady + 2 * (TTL - 1)]_vars

\* The same for every answer.  It does not hold: a container that restarts in a
\* loop renews the lease under its old id and leaves the old report standing.
ReadyAlwaysRecent ==
    [][AnswersReady => view.asOf =< lastReady + 2 * (TTL - 1)]_vars

\* The instance called ready is the owner of the lease, unless it gave it up or
\* lost it after the request began (the three reads are not one transaction).
ReadyNamesHolder ==
    [][AnswersReady /\ lease.owner \notin {row.inst, None} => since >= view.asOf]_vars

\* The two halves of one answer agree: a trader called ready is diagnosed as
\* LIVE_DATA_READY or as protected, never as lost, stale or missing.
ReadyDiagnosedNormal ==
    [][AnswersReady => \A protection \in BOOLEAN :
          Diagnosis(protection, view, row) = IF protection THEN "PROTECTION_MODE_ACTIVE"
                                             ELSE "LIVE_DATA_READY"]_vars

\* A trader diagnosed as LIVE_DATA_READY holds the lease.  It does not hold: the
\* diagnosis looks at the owner of the lease and not at its expiry, so that a
\* dead trader counts as live while its last bar is fresh.
NormalMeansHeld ==
    [][ViewAnswers /\ Diagnosis(FALSE, view, row) = "LIVE_DATA_READY"
          => HeldBy(view.lease, row.inst, view.asOf)]_vars
=============================================================================
