-------------------------- MODULE StatusViewProofs --------------------------
(***************************************************************************)
(* Proofs about StatusView, for every set of instances, every term of the  *)
(* lease, every age of bars and every bound.                               *)
(***************************************************************************)
EXTENDS StatusView, TLAPS

USE InstanceAssumption, TimeAssumption, BarAssumption, BoundAssumption

\* History does not run ahead of the clock, and no row expires later than a
\* term from now.
ClockInv ==
    /\ lastReady =< now /\ since =< now /\ view.asOf =< now
    /\ lease.expires =< now + TTL
    /\ view.lease.expires =< now + TTL

\* A report has a writer.  If that trader is ready by its own account, it is so
\* now.
AccountInv ==
    /\ row.ready => row.inst \in Instance
    /\ \A i \in Instance : row.inst = i /\ proc[i].ready => lastReady = now

\* No renewal goes unreported twice: after one, the heartbeat loop has its
\* report to write, or has ended.
RenewalDue(i) == proc[i].saving \in {"beat", "again"} \/ ~proc[i].beats

LeaseInv ==
    \A i \in Instance :
        row.inst = i /\ row.ready /\ ~unheard /\ lease.owner = i
          => \/ lease.expires =< lastReady + TTL
             \/ lease.expires < lastReady + 2 * TTL /\ RenewalDue(i)

ViewInv ==
    view.open /\ row.ready /\ ~unheard /\ view.lease.owner = row.inst
      => view.lease.expires < lastReady + 2 * TTL

\* Whoever holds the lease that the view has not seen took it over since.
TakeoverInv ==
    view.open /\ lease.owner \notin {view.lease.owner, None} => since >= view.asOf

StatusInv == TypeOK /\ ClockInv /\ AccountInv /\ LeaseInv /\ ViewInv /\ TakeoverInv

-----------------------------------------------------------------------------
(***************************************************************************)
(* Types.                                                                  *)
(***************************************************************************)
LEMMA StartTypes ==
    ASSUME TypeOK, NEW i \in Instance, Start(i) \/ StartRejected(i)
    PROVE  TypeOK'
<1> DEFINE fresh(l, t, s) == [Gone EXCEPT !.life = l, !.token = t, !.saving = s]
<1>1. \A l \in Life, t \in Nat, s \in Saving : fresh(l, t, s) \in Process
  BY Zenon DEF Process, Gone
<1> HIDE DEF fresh
<1>2. CASE Start(i)
  <2>1. lease' \in Lease /\ since' \in Nat
    BY <1>2 DEF Start, TypeOK, Lease
  <2>2. fresh("running", lease'.token, "start") \in Process
    BY <1>1, <2>1 DEF Lease, Life, Saving
  <2>3. proc' \in [Instance -> Process]
    BY <1>2, <2>2 DEF Start, TypeOK, fresh
  <2>4. QED
    BY <1>2, <2>1, <2>3 DEF Start, TypeOK
<1>3. CASE StartRejected(i)
  <2>1. fresh("rejected", lease.token, "stop") \in Process
    BY <1>1 DEF TypeOK, Lease, Life, Saving
  <2>2. QED
    BY <1>3, <2>1 DEF StartRejected, TypeOK, fresh
<1>4. QED
  BY <1>2, <1>3

\* A refresh leaves a process a process, and only readiness and token change.
LEMMA RefreshedTypes ==
    ASSUME NEW p \in Process, NEW i \in Instance, NEW r \in Lease
    PROVE  /\ Refreshed(p, i, r) \in Process
           /\ Refreshed(p, i, r).beats = p.beats
BY DEF Refreshed, Process, Lease

LEMMA HeartbeatTypes ==
    ASSUME TypeOK, NEW i \in Instance, Heartbeat(i)
    PROVE  /\ TypeOK'
           /\ proc'[i].saving = "beat"
           /\ lease' \in {lease, [lease EXCEPT !.expires = now + TTL]}
<1>1. lease' \in {lease, [lease EXCEPT !.expires = now + TTL]} /\ lease' \in Lease
  BY DEF Heartbeat, TypeOK, Lease
<1>2. Refreshed(proc[i], i, lease') \in Process
  BY <1>1, RefreshedTypes DEF TypeOK
<1>3. [Refreshed(proc[i], i, lease') EXCEPT !.saving = "beat"] \in Process
  BY <1>2 DEF Process, Saving
<1>4. proc' \in [Instance -> Process] /\ proc'[i].saving = "beat"
  BY <1>2, <1>3 DEF Heartbeat, TypeOK, Process
<1>5. QED
  BY <1>1, <1>4 DEF Heartbeat, BecomesReady, TypeOK

LEMMA BarTypes ==
    ASSUME TypeOK, NEW i \in Instance, BarObserved(i)
    PROVE  TypeOK' /\ proc'[i].beats = proc[i].beats
<1>1. PICK b \in Bars :
        /\ b.age < now
        /\ LET p == [proc[i] EXCEPT !.bar = now - b.age, !.phase = b.phase] IN
           proc' = [proc EXCEPT ![i] = [Refreshed(p, i, lease) EXCEPT !.saving = "bar"]]
  BY DEF BarObserved
<1> DEFINE p == [proc[i] EXCEPT !.bar = now - b.age, !.phase = b.phase]
<1>2. p \in Process /\ p.beats = proc[i].beats
  <2>1. now - b.age \in Nat /\ b.phase \in BOOLEAN
    BY <1>1 DEF TypeOK
  <2>2. QED
    BY <2>1 DEF TypeOK, Process
<1> HIDE DEF p
<1>3. Refreshed(p, i, lease) \in Process /\ Refreshed(p, i, lease).beats = proc[i].beats
  BY <1>2, RefreshedTypes DEF TypeOK
<1>4. [Refreshed(p, i, lease) EXCEPT !.saving = "bar"] \in Process
  BY <1>3 DEF Process, Saving
<1>5. proc' = [proc EXCEPT ![i] = [Refreshed(p, i, lease) EXCEPT !.saving = "bar"]]
  BY <1>1 DEF p
<1>6. proc' \in [Instance -> Process] /\ proc'[i].beats = proc[i].beats
  BY <1>3, <1>4, <1>5 DEF TypeOK, Process
<1>7. QED
  BY <1>6 DEF BarObserved, BecomesReady, TypeOK

\* What is written and what becomes of its writer.
LEMMA SaveTypes ==
    ASSUME TypeOK, NEW i \in Instance
    PROVE  Report(i) \in Status /\ AfterSave(proc[i]) \subseteq Process
<1>1. proc[i] \in Process /\ proc[i].life \in Life
  BY DEF TypeOK, Process
<1>2. Report(i) \in Status
  BY <1>1 DEF Report, Status, Process, Life
<1>3. Gone \in Process
  BY DEF Gone, Process, Life, Saving
<1>4. \A t \in Saving : /\ [proc[i] EXCEPT !.saving = t] \in Process
                          /\ [proc[i] EXCEPT !.saving = t, !.beats = TRUE] \in Process
  BY <1>1 DEF Process
<1>5. AfterSave(proc[i]) \subseteq Process
  <2>1. CASE proc[i].saving = "stop"
    BY <1>3, <2>1 DEF AfterSave
  <2>2. CASE proc[i].saving = "start"
    BY <1>4, <2>2 DEF AfterSave, Saving
  <2>3. CASE proc[i].saving = "bar" /\ proc[i].ready
    BY <1>4, <2>3 DEF AfterSave, Saving
  <2>4. CASE proc[i].saving \notin {"stop", "start"} /\ ~(proc[i].saving = "bar" /\ proc[i].ready)
    BY <1>4, <2>4 DEF AfterSave, Saving
  <2>5. QED
    BY <2>1, <2>2, <2>3, <2>4
<1>6. QED
  BY <1>2, <1>5

LEMMA SavedTypes ==
    ASSUME TypeOK, NEW i \in Instance, Save(i)
    PROVE  /\ TypeOK'
           /\ lastReady' = IF proc[i].ready THEN now ELSE 0
           /\ row'.inst = i /\ row'.ready = proc[i].ready /\ ~unheard'
           /\ proc'[i].ready => proc[i].ready
<1>1. PICK p \in AfterSave(proc[i]) : proc' = [proc EXCEPT ![i] = p]
  BY DEF Save
<1>2. p \in Process /\ row' \in Status
  BY <1>1, SaveTypes DEF Save
<1>3. proc' \in [Instance -> Process] /\ proc'[i] = p
  BY <1>1, <1>2 DEF TypeOK
<1>4. p.ready => proc[i].ready
  <2>1. proc[i] \in Process
    BY DEF TypeOK
  <2>2. CASE proc[i].saving = "stop"
    BY <1>1, <2>2 DEF AfterSave, Gone
  <2>3. CASE proc[i].saving = "start"
    BY <1>1, <2>1, <2>3 DEF AfterSave, Process
  <2>4. CASE proc[i].saving = "bar" /\ proc[i].ready
    BY <2>4
  <2>5. CASE proc[i].saving \notin {"stop", "start"} /\ ~(proc[i].saving = "bar" /\ proc[i].ready)
    BY <1>1, <2>1, <2>5 DEF AfterSave, Process
  <2>6. QED
    BY <2>2, <2>3, <2>4, <2>5
<1>5. QED
  BY <1>2, <1>3, <1>4 DEF Save, Report, TypeOK

\* What a failed call, a stop or the end of a process makes of the process.
LEMMA FailureTypes ==
    ASSUME NEW p \in Process
    PROVE  /\ AfterFailure(p) \in Process
           /\ AfterFailure(p).ready => p.ready
           /\ p.saving \in {"beat", "again"} \/ ~p.beats
                => AfterFailure(p).saving \in {"beat", "again"} \/ ~AfterFailure(p).beats
<1>1. CASE p.saving \in {"start", "stop"}
  BY <1>1 DEF AfterFailure, Gone, Process, Life, Saving
<1>2. CASE p.saving = "beat"
  BY <1>2 DEF AfterFailure, Process, Saving
<1>3. CASE p.saving = "again"
  BY <1>3 DEF AfterFailure, Process, Saving
<1>4. CASE p.saving \notin {"start", "stop", "beat", "again"}
  BY <1>4 DEF AfterFailure, WithoutDispatcher, Process, Life, Saving
<1>5. QED
  BY <1>1, <1>2, <1>3, <1>4

\* The steps of a process that touch neither lease, row nor view: it stays a
\* process, does not become ready, and a renewal that is to be reported stays so.
Declines(i) == RefreshFails(i) \/ SaveFails(i) \/ StopBegins(i) \/ Crash(i)

LEMMA DeclineTypes ==
    ASSUME TypeOK, NEW i \in Instance, Declines(i)
    PROVE  /\ TypeOK'
           /\ proc' = [proc EXCEPT ![i] = proc'[i]]
           /\ proc'[i].ready => proc[i].ready
           /\ RenewalDue(i) => RenewalDue(i)'
           /\ UNCHANGED <<now, lease, row, view, lastReady, unheard, since>>
<1>0. proc[i] \in Process /\ faults + 1 \in Nat
  BY DEF TypeOK
<1>1. CASE RefreshFails(i)
  <2>1. CASE proc' = [proc EXCEPT ![i].ready = FALSE, ![i].saving = "again"]
    BY <1>0, <1>1, <2>1 DEF RefreshFails, TypeOK, Process, Saving, RenewalDue
  <2>2. CASE proc' = [proc EXCEPT ![i].life = WithoutDispatcher(@)]
    BY <1>0, <1>1, <2>2 DEF RefreshFails, TypeOK, Process, Life, RenewalDue, WithoutDispatcher
  <2>3. QED
    BY <1>1, <2>1, <2>2 DEF RefreshFails
<1>2. CASE SaveFails(i)
  BY <1>0, <1>2, FailureTypes DEF SaveFails, TypeOK, RenewalDue
<1>3. CASE StopBegins(i)
  BY <1>0, <1>3 DEF StopBegins, TypeOK, Process, Life, RenewalDue
<1>4. CASE Crash(i)
  BY <1>0, <1>4 DEF Crash, Gone, TypeOK, Process, Life, Saving, RenewalDue
<1>5. QED
  BY <1>1, <1>2, <1>3, <1>4 DEF Declines

\* A process that gives the lease back reports not ready, and beats no more.
Leaves(i) == Release(i) \/ StartAborted(i)

LEMMA LeaveTypes ==
    ASSUME TypeOK, NEW i \in Instance, Leaves(i)
    PROVE  /\ TypeOK'
           /\ proc' = [proc EXCEPT ![i] = proc'[i]]
           /\ ~proc'[i].ready /\ RenewalDue(i)'
           /\ lease' \in {lease, [lease EXCEPT !.owner = None, !.expires = now]}
           /\ UNCHANGED <<now, row, view, lastReady, unheard, since>>
<1>1. PICK life \in {"stopped", "rejected"} : Released(i, life)
  BY DEF Leaves, Release, StartAborted
<1>2. proc[i] \in Process
  BY DEF TypeOK
<1>3. lease' \in {lease, [lease EXCEPT !.owner = None, !.expires = now]} /\ lease' \in Lease
  BY <1>1 DEF Released, TypeOK, Lease
<1>4. /\ proc' \in [Instance -> Process] /\ proc' = [proc EXCEPT ![i] = proc'[i]]
      /\ ~proc'[i].ready /\ RenewalDue(i)'
  BY <1>1, <1>2 DEF Released, TypeOK, Lease, Process, Life, Saving, RenewalDue
<1>5. QED
  BY <1>3, <1>4 DEF Leaves, Release, StartAborted, TypeOK

\* The steps of the API and of time.
LEMMA OtherTypes ==
    ASSUME TypeOK, ViewReadsLease \/ ViewAnswers \/ ViewFails \/ Tick
    PROVE  TypeOK'
<1>1. NoView \in View
  BY DEF NoView, View, NoLease, Lease
<1>2. CASE ViewReadsLease
  <2>1. PICK t \in FirstInstant .. now : view' = [open |-> TRUE, asOf |-> t, lease |-> lease]
    BY <1>2 DEF ViewReadsLease
  <2>2. t \in Nat
    BY <2>1 DEF FirstInstant, TypeOK
  <2>3. QED
    BY <1>2, <2>1, <2>2 DEF ViewReadsLease, TypeOK, View
<1>3. CASE ViewAnswers
  BY <1>1, <1>3 DEF ViewAnswers, TypeOK
<1>4. CASE ViewFails
  BY <1>1, <1>4 DEF ViewFails, TypeOK
<1>5. CASE Tick
  BY <1>5 DEF Tick, TypeOK
<1>6. QED
  BY <1>2, <1>3, <1>4, <1>5

LEMMA NextCases ==
    ASSUME Next
    PROVE  \/ \E i \in Instance :
                 \/ Start(i) \/ StartRejected(i) \/ Heartbeat(i) \/ BarObserved(i)
                 \/ Save(i) \/ Declines(i) \/ Leaves(i)
           \/ ViewReadsLease \/ ViewAnswers \/ ViewFails \/ Tick
BY DEF Next, Declines, Leaves

LEMMA TypeStep ==
    ASSUME TypeOK, [Next]_vars
    PROVE  TypeOK'
<1>1. CASE UNCHANGED vars
  BY <1>1 DEF vars, TypeOK
<1>2. ASSUME NEW i \in Instance,
             \/ Start(i) \/ StartRejected(i) \/ Heartbeat(i) \/ BarObserved(i)
             \/ Save(i) \/ Declines(i) \/ Leaves(i)
      PROVE  TypeOK'
  BY <1>2, StartTypes, HeartbeatTypes, BarTypes, SavedTypes, DeclineTypes, LeaveTypes
<1>3. CASE Next
  BY <1>2, <1>3, OtherTypes, NextCases
<1>4. QED
  BY <1>1, <1>3

LEMMA TypeInit == Init => TypeOK
<1>1. Gone \in Process
  BY DEF Gone, Process, Life, Saving
<1>2. NoStatus \in Status
  BY DEF NoStatus, Status, Life
<1>3. NoLease \in Lease
  BY DEF NoLease, Lease
<1>4. NoView \in View
  BY <1>3 DEF NoView, View
<1>5. Init => now \in Nat /\ faults \in Nat /\ since \in Nat /\ lastReady \in Nat
  BY DEF Init, FirstInstant
<1>6. QED
  BY <1>1, <1>2, <1>3, <1>4, <1>5, Zenon DEF Init, TypeOK

\* Every variable keeps its type: the columns of the rows and the fields of a
\* trader's memory.
THEOREM TypeCorrect == Spec => []TypeOK
BY TypeInit, TypeStep, PTL DEF Spec

-----------------------------------------------------------------------------
(***************************************************************************)
(* How long a report is believed.                                          *)
(***************************************************************************)
LEMMA StatusInit == Init => StatusInv
<1>1. Init => ClockInv /\ AccountInv /\ LeaseInv /\ ViewInv /\ TakeoverInv
  BY DEF Init, FirstInstant, Gone, NoStatus, NoView, NoLease, ClockInv, AccountInv,
         LeaseInv, ViewInv, TakeoverInv
<1>2. QED
  BY <1>1, TypeInit DEF StatusInv

\* A start of the trader of the row makes the row exempt; of another, it makes
\* the lease another's.
LEMMA StartKeeps ==
    ASSUME StatusInv, NEW i \in Instance, Start(i) \/ StartRejected(i)
    PROVE  StatusInv'
<1> USE DEF StatusInv
<1>1. TypeOK'
  BY StartTypes
<1>2. proc'[i].ready = FALSE
  <2>1. CASE Start(i)
    BY <2>1 DEF Start, Gone, TypeOK
  <2>2. CASE StartRejected(i)
    BY <2>2 DEF StartRejected, Gone, TypeOK
  <2>3. QED
    BY <2>1, <2>2
<1>3. \A j \in Instance : j # i => proc'[j] = proc[j]
  <2>1. \E p : proc' = [proc EXCEPT ![i] = p]
    BY DEF Start, StartRejected
  <2>2. QED
    BY <2>1 DEF TypeOK
<1>4. AccountInv'
  <2>1. UNCHANGED <<now, row, lastReady>>
    BY DEF Start, StartRejected
  <2>2. QED
    BY <1>2, <1>3, <2>1 DEF AccountInv
<1>5. CASE Start(i)
  <2>1. lease'.owner = i /\ lease'.expires = now + TTL
    BY <1>5 DEF Start
  <2>2. ClockInv'
    BY <1>5, <2>1 DEF Start, ClockInv, TypeOK
  <2>3. LeaseInv'
    BY <1>5, <2>1 DEF Start, LeaseInv
  <2>4. ViewInv'
    BY <1>5 DEF Start, ViewInv
  <2>5. TakeoverInv'
    <3>1. CASE HeldBy(lease, i, now)
      BY <1>5, <2>1, <3>1 DEF Start, TakeoverInv, HeldBy
    <3>2. CASE ~HeldBy(lease, i, now)
      BY <1>5, <3>2 DEF Start, TakeoverInv, ClockInv, TypeOK
    <3>3. QED
      BY <3>1, <3>2
  <2>6. QED
    BY <1>1, <1>4, <2>2, <2>3, <2>4, <2>5
<1>6. CASE StartRejected(i)
  <2>1. LeaseInv'
    <3>1. RenewalDue(i)'
      BY <1>6 DEF StartRejected, Gone, TypeOK, RenewalDue
    <3>2. \A j \in Instance : j # i => RenewalDue(j)' = RenewalDue(j)
      BY <1>3 DEF RenewalDue
    <3>3. QED
      BY <1>6, <3>1, <3>2 DEF StartRejected, LeaseInv
  <2>2. ClockInv' /\ ViewInv' /\ TakeoverInv'
    BY <1>6 DEF StartRejected, ClockInv, ViewInv, TakeoverInv
  <2>3. QED
    BY <1>1, <1>4, <2>1, <2>2
<1>7. QED
  BY <1>5, <1>6

\* A process that declines or leaves moves no clock and lets no lease live longer.
LEMMA DeclineKeeps ==
    ASSUME StatusInv, NEW i \in Instance, Declines(i) \/ Leaves(i)
    PROVE  StatusInv'
<1> USE DEF StatusInv
<1>1. /\ TypeOK'
      /\ proc' = [proc EXCEPT ![i] = proc'[i]]
      /\ proc'[i].ready => proc[i].ready
      /\ RenewalDue(i) => RenewalDue(i)'
      /\ lease' \in {lease, [lease EXCEPT !.owner = None, !.expires = now]}
      /\ UNCHANGED <<now, row, view, lastReady, unheard, since>>
  BY DeclineTypes, LeaveTypes
<1>2. \A j \in Instance : j # i => proc'[j] = proc[j]
  BY <1>1 DEF TypeOK
<1>3. lease' = lease \/ (lease'.owner = None /\ lease'.expires = now)
  BY <1>1 DEF TypeOK, Lease
<1>4. ClockInv'
  BY <1>1, <1>3 DEF ClockInv, TypeOK
<1>5. AccountInv'
  BY <1>1, <1>2 DEF AccountInv
<1>6. LeaseInv'
  <2>1. \A j \in Instance : RenewalDue(j) => RenewalDue(j)'
    BY <1>1, <1>2 DEF RenewalDue
  <2>2. QED
    BY <1>1, <1>3, <2>1 DEF LeaseInv
<1>7. ViewInv' /\ TakeoverInv'
  BY <1>1, <1>3 DEF ViewInv, TakeoverInv
<1>8. QED
  BY <1>1, <1>4, <1>5, <1>6, <1>7

\* A renewal is of a lease that had not expired; it is reported next.
LEMMA HeartbeatKeeps ==
    ASSUME StatusInv, NEW i \in Instance, Heartbeat(i)
    PROVE  StatusInv'
<1> USE DEF StatusInv
<1>1. TypeOK' /\ proc'[i].saving = "beat"
  BY HeartbeatTypes
<1>2. \A j \in Instance : j # i => proc'[j] = proc[j]
  BY DEF Heartbeat, TypeOK
<1>3. \/ lease' = lease
      \/ lease'.owner = i /\ lease.owner = i /\ now < lease.expires
         /\ lease'.expires = now + TTL
  BY DEF Heartbeat, HeldBy, TypeOK, Lease
<1>4. /\ lastReady' \in {now, lastReady}
      /\ row.inst = i /\ proc'[i].ready => lastReady' = now
      /\ UNCHANGED <<now, row, view, unheard, since>>
  BY DEF Heartbeat, BecomesReady
<1>5. ClockInv'
  BY <1>3, <1>4 DEF ClockInv, TypeOK
<1>6. AccountInv'
  BY <1>2, <1>4 DEF AccountInv
<1>7. LeaseInv'
  <2> SUFFICES ASSUME NEW j \in Instance,
                      row.inst = j, row.ready, ~unheard, lease'.owner = j
               PROVE  \/ lease'.expires =< lastReady' + TTL
                      \/ lease'.expires < lastReady' + 2 * TTL /\ RenewalDue(j)'
    BY <1>4 DEF LeaseInv
  <2>1. CASE j # i
    BY <1>2, <1>3, <1>4, <2>1 DEF LeaseInv, RenewalDue, ClockInv, TypeOK, Lease
  <2>2. CASE j = i
    <3>1. lease.owner = i /\ ~RenewalDue(i) /\ RenewalDue(i)'
      BY <1>1, <1>3, <2>2 DEF Heartbeat, Idle, RenewalDue
    <3>2. lease.expires =< lastReady + TTL
      BY <2>2, <3>1 DEF LeaseInv
    <3>3. QED
      BY <1>3, <1>4, <2>2, <3>1, <3>2 DEF ClockInv, TypeOK, Lease
  <2>3. QED
    BY <2>1, <2>2
<1>8. ViewInv'
  BY <1>4 DEF ViewInv, ClockInv, TypeOK, View, Lease
<1>9. TakeoverInv'
  BY <1>3, <1>4 DEF TakeoverInv
<1>10. QED
  BY <1>1, <1>5, <1>6, <1>7, <1>8, <1>9

\* A bar renews nothing.
LEMMA BarKeeps ==
    ASSUME StatusInv, NEW i \in Instance, BarObserved(i)
    PROVE  StatusInv'
<1> USE DEF StatusInv
<1>1. /\ TypeOK' /\ proc'[i].beats = proc[i].beats
      /\ proc[i].saving = "none"
  BY BarTypes DEF BarObserved, Idle
<1>2. \A j \in Instance : j # i => proc'[j] = proc[j]
  BY DEF BarObserved, TypeOK
<1>3. /\ lastReady' \in {now, lastReady}
      /\ row.inst = i /\ proc'[i].ready => lastReady' = now
      /\ UNCHANGED <<now, lease, row, view, unheard, since>>
  BY DEF BarObserved, BecomesReady
<1>4. \A j \in Instance : RenewalDue(j) => RenewalDue(j)'
  BY <1>1, <1>2 DEF RenewalDue
<1>5. LeaseInv'
  BY <1>3, <1>4 DEF LeaseInv, ClockInv, TypeOK, Lease
<1>6. ClockInv' /\ AccountInv' /\ ViewInv' /\ TakeoverInv'
  <2>1. ClockInv'
    BY <1>3 DEF ClockInv, TypeOK
  <2>2. AccountInv'
    BY <1>2, <1>3 DEF AccountInv
  <2>3. ViewInv'
    BY <1>3 DEF ViewInv, ClockInv, TypeOK, View, Lease
  <2>4. TakeoverInv'
    BY <1>3 DEF TakeoverInv
  <2>5. QED
    BY <2>1, <2>2, <2>3, <2>4
<1>7. QED
  BY <1>1, <1>5, <1>6

\* A report that says ready is as recent as can be.
LEMMA SaveKeeps ==
    ASSUME StatusInv, NEW i \in Instance, Save(i)
    PROVE  StatusInv'
<1> USE DEF StatusInv
<1>1. /\ TypeOK'
      /\ lastReady' = IF proc[i].ready THEN now ELSE 0
      /\ row'.inst = i /\ row'.ready = proc[i].ready
      /\ proc'[i].ready => proc[i].ready
      /\ UNCHANGED <<now, lease, view, since>>
  BY SavedTypes DEF Save
<1>2. ClockInv'
  BY <1>1 DEF ClockInv, TypeOK
<1>3. AccountInv'
  BY <1>1 DEF AccountInv
<1>4. LeaseInv'
  BY <1>1 DEF LeaseInv, ClockInv
<1>5. ViewInv'
  BY <1>1 DEF ViewInv, ClockInv, TypeOK, View, Lease
<1>6. TakeoverInv'
  BY <1>1 DEF TakeoverInv
<1>7. QED
  BY <1>1, <1>2, <1>3, <1>4, <1>5, <1>6

\* What is read of the lease obeys what the lease obeys; time passes.
LEMMA OtherKeeps ==
    ASSUME StatusInv, ViewReadsLease \/ ViewAnswers \/ ViewFails \/ Tick
    PROVE  StatusInv'
<1> USE DEF StatusInv
<1>1. TypeOK'
  BY OtherTypes
<1>2. CASE ViewReadsLease
  <2>1. PICK t \in FirstInstant .. now : view' = [open |-> TRUE, asOf |-> t, lease |-> lease]
    BY <1>2 DEF ViewReadsLease
  <2>2. /\ view'.lease = lease /\ view'.asOf =< now
        /\ UNCHANGED <<now, lease, proc, row, lastReady, unheard, since>>
    BY <1>2, <2>1 DEF ViewReadsLease, FirstInstant, TypeOK
  <2>3. ViewInv'
    BY <2>2 DEF ViewInv, LeaseInv, AccountInv, TypeOK, Lease
  <2>4. ClockInv' /\ AccountInv' /\ LeaseInv' /\ TakeoverInv'
    BY <2>2 DEF ClockInv, AccountInv, LeaseInv, RenewalDue, TakeoverInv
  <2>5. QED
    BY <1>1, <2>3, <2>4
<1>3. CASE ViewAnswers \/ ViewFails
  <2>1. view' = NoView /\ UNCHANGED <<now, lease, proc, row, lastReady, unheard, since>>
    BY <1>3 DEF ViewAnswers, ViewFails
  <2>2. ~view'.open /\ view'.asOf = 0 /\ view'.lease.expires = 0
    BY <2>1 DEF NoView, NoLease
  <2>3. ClockInv'
    BY <2>1, <2>2 DEF ClockInv, TypeOK
  <2>4. AccountInv' /\ LeaseInv'
    BY <2>1 DEF AccountInv, LeaseInv, RenewalDue
  <2>5. QED
    BY <1>1, <2>2, <2>3, <2>4 DEF ViewInv, TakeoverInv
<1>4. CASE Tick
  <2>1. /\ now' = now + 1 /\ lastReady' \in {lastReady, now + 1}
        /\ \A i \in Instance : row.inst = i /\ proc[i].ready => lastReady' = now + 1
        /\ UNCHANGED <<lease, proc, row, view, unheard, since>>
    BY <1>4 DEF Tick
  <2>2. ClockInv' /\ AccountInv' /\ TakeoverInv'
    BY <2>1 DEF ClockInv, AccountInv, TakeoverInv, TypeOK, Lease, View
  <2>3. LeaseInv'
    BY <2>1 DEF LeaseInv, RenewalDue, ClockInv, TypeOK, Lease
  <2>4. ViewInv'
    BY <2>1 DEF ViewInv, ClockInv, TypeOK, Lease, View
  <2>5. QED
    BY <1>1, <2>2, <2>3, <2>4
<1>5. QED
  BY <1>2, <1>3, <1>4

LEMMA StatusStep ==
    ASSUME StatusInv, [Next]_vars
    PROVE  StatusInv'
<1>1. CASE UNCHANGED vars
  BY <1>1 DEF vars, StatusInv, TypeOK, ClockInv, AccountInv, LeaseInv, RenewalDue,
              ViewInv, TakeoverInv
<1>2. ASSUME NEW i \in Instance,
             \/ Start(i) \/ StartRejected(i) \/ Heartbeat(i) \/ BarObserved(i)
             \/ Save(i) \/ Declines(i) \/ Leaves(i)
      PROVE  StatusInv'
  BY <1>2, StartKeeps, HeartbeatKeeps, BarKeeps, SaveKeeps, DeclineKeeps
<1>3. CASE Next
  BY <1>2, <1>3, OtherKeeps, NextCases
<1>4. QED
  BY <1>1, <1>3

\* The inductive invariant: how long a report that says ready may stand, by what
\* its writer has yet to do.
THEOREM StatusInvariant == Spec => []StatusInv
BY StatusInit, StatusStep, PTL DEF Spec

\* Whoever is called ready was ready less than two terms of the lease before, if
\* it has not been started again without a report since.
THEOREM ReadyIsRecentHolds == Spec => ReadyIsRecent
<1>1. ASSUME StatusInv, AnswersReady, ~unheard
      PROVE  view.asOf =< lastReady + 2 * (TTL - 1)
  <2>1. /\ view.open /\ row.ready /\ view.lease.owner = row.inst
        /\ view.asOf < view.lease.expires
    BY <1>1 DEF AnswersReady, ViewAnswers, ReadyInRow, HeldBy, StatusInv, TypeOK, View, Lease
  <2>2. view.lease.expires < lastReady + 2 * TTL
    BY <1>1, <2>1 DEF StatusInv, ViewInv
  <2>3. QED
    BY <1>1, <2>1, <2>2 DEF StatusInv, TypeOK, View, Lease
<1>2. StatusInv /\ [Next]_vars
        => [AnswersReady /\ ~unheard => view.asOf =< lastReady + 2 * (TTL - 1)]_vars
  BY <1>1
<1>3. QED
  BY <1>2, StatusInvariant, PTL DEF Spec, ReadyIsRecent

\* The trader that is called ready owns the lease, gave it up, or was deposed
\* after the request began.
THEOREM ReadyNamesHolderHolds == Spec => ReadyNamesHolder
<1>1. ASSUME StatusInv, AnswersReady, lease.owner \notin {row.inst, None}
      PROVE  since >= view.asOf
  BY <1>1 DEF AnswersReady, ViewAnswers, ReadyInRow, HeldBy, StatusInv, TakeoverInv
<1>2. StatusInv /\ [Next]_vars
        => [AnswersReady /\ lease.owner \notin {row.inst, None} => since >= view.asOf]_vars
  BY <1>1
<1>3. QED
  BY <1>2, StatusInvariant, PTL DEF Spec, ReadyNamesHolder

\* An answer that says ready is never diagnosed as degraded, except for
\* protection mode.
THEOREM ReadyDiagnosedNormalHolds == Spec => ReadyDiagnosedNormal
<1>1. ASSUME TypeOK, AnswersReady, NEW protection \in BOOLEAN
      PROVE  Diagnosis(protection, view, row) = IF protection THEN "PROTECTION_MODE_ACTIVE"
                                                ELSE "LIVE_DATA_READY"
  BY <1>1 DEF AnswersReady, ReadyInRow, Fresh, HeldBy, Diagnosis
<1>2. TypeOK /\ [Next]_vars
        => [AnswersReady => \A protection \in BOOLEAN :
              Diagnosis(protection, view, row) = IF protection THEN "PROTECTION_MODE_ACTIVE"
                                                 ELSE "LIVE_DATA_READY"]_vars
  BY <1>1
<1>3. QED
  BY <1>2, TypeCorrect, PTL DEF Spec, ReadyDiagnosedNormal
=============================================================================
