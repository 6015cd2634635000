-------------------------- MODULE TraderLeaseProofs --------------------------
(***************************************************************************)
(* Proofs about TraderLease, for every set of instances, every assignment  *)
(* of hosts, every TTL and every bound.  The safety theorems assume that   *)
(* the row is locked while it is acquired (RowLocked): the run             *)
(* MCTraderLeaseReadCommitted shows that they do not survive without it.   *)
(***************************************************************************)
EXTENDS TraderLease, TLAPS

USE InstanceAssumption, TTLAssumption, BoundAssumption, IsolationAssumption

\* The empty row is a row, and the expiry of a row can be moved.
LEMMA RowFacts ==
    /\ NoRow \in Row
    /\ \A r \in Row, t \in Nat :
          /\ r.owner \in Instance \union {None} /\ r.expires \in Nat /\ r.token \in Nat
          /\ [r EXCEPT !.expires = t] \in Row
          /\ [r EXCEPT !.owner = None, !.expires = t] \in Row
BY DEF Row, NoRow

\* TypeOK is inductive on its own, whatever the isolation level.
THEOREM TypeCorrect == Spec => []TypeOK
<1>1. Init => TypeOK
  BY DEF Init, TypeOK, Row, NoRow, PC, Handler, Plan, ActiveStatus
<1>2. TypeOK /\ [Next]_vars => TypeOK'
  <2> SUFFICES ASSUME TypeOK, [Next]_vars PROVE TypeOK'
    OBVIOUS
  <2> USE DEF TypeOK, PC, Handler, Plan, ActiveStatus
  <2>1. ASSUME NEW i \in Instance, Startup(i) PROVE TypeOK'
    <3>1. CASE StartTrader(i)
      BY <3>1 DEF StartTrader
    <3>2. CASE AcquireRead(i)
      BY <3>2 DEF AcquireRead, AcquirePlans
    <3>3. CASE Down(i) /\ UNCHANGED lease
      BY <3>3, RowFacts DEF Down
    <3>4. CASE AcquireWrite(i)
      <4>1. WrittenRow(i) \in Row
        BY <3>4 DEF AcquireWrite, WrittenRow, Row
      <4>2. StoredRow(i) \in Row
        BY <4>1 DEF StoredRow, Row
      <4>3. QED
        BY <3>4, <4>1, <4>2, RowFacts DEF AcquireWrite
    <3>5. QED
      BY <2>1, <3>1, <3>2, <3>3, <3>4 DEF Startup, AcquireRejected,
                                               InsertConflict
  <2>2. ASSUME NEW i \in Instance, Refresh(i) PROVE TypeOK'
    <3>1. CASE BarObserved(i)
      BY <3>1 DEF BarObserved
    <3>2. CASE HeartbeatDue(i)
      BY <3>2 DEF HeartbeatDue
    <3>3. CASE RefreshLoad(i)
      BY <3>3 DEF RefreshLoad, Conclude
    <3>4. CASE HeartbeatWrite(i)
      <4>1. lease' \in Row
        <5>1. asOf[i] + TTL \in Nat
          OBVIOUS
        <5>2. [lease EXCEPT !.expires = asOf[i] + TTL] \in Row
          BY <5>1, RowFacts
        <5>3. QED
          BY <3>4, <5>2 DEF HeartbeatWrite
      <4>2. QED
        BY <3>4, <4>1 DEF HeartbeatWrite, Conclude
    <3>5. CASE HeartbeatFails(i)
      BY <3>5 DEF HeartbeatFails
    <3>6. CASE HandlerFails(i)
      BY <3>6 DEF HandlerFails
    <3>7. CASE Down(i) /\ UNCHANGED lease
      BY <3>7, RowFacts DEF Down
    <3>8. QED
      BY <2>2, <3>1, <3>2, <3>3, <3>4, <3>5, <3>6, <3>7 DEF Refresh, StartupFails
  <2>3. ASSUME NEW i \in Instance, Submission(i) PROVE TypeOK'
    <3>1. CASE SignalRouted(i)
      <4>1. GuardToken(i) \in Nat
        BY RowFacts DEF GuardToken
      <4>2. QED
        BY <3>1, <4>1 DEF SignalRouted
    <3>2. CASE ValidateAccept(i)
      BY <3>2 DEF ValidateAccept
    <3>3. CASE HandlerDone(i) /\ UNCHANGED admitted
      BY <3>3 DEF HandlerDone
    <3>4. QED
      BY <2>3, <3>1, <3>2, <3>3 DEF Submission, ValidateReject, NoSignal, Send
  <2>4. ASSUME NEW i \in Instance, Stop(i) PROVE TypeOK'
    BY <2>4, RowFacts DEF Stop, Down
  <2>5. ASSUME NEW i \in Instance, Crash(i) PROVE TypeOK'
    BY <2>5, RowFacts DEF Crash, Down
  <2>6. CASE Tick
    BY <2>6 DEF Tick
  <2>7. CASE UNCHANGED vars
    BY <2>7 DEF vars
  <2>8. QED
    BY <2>1, <2>2, <2>3, <2>4, <2>5, <2>6, <2>7 DEF Next
<1>3. QED
  BY <1>1, <1>2, PTL DEF Spec

-----------------------------------------------------------------------------
(***************************************************************************)
(* The inductive invariant.  The steps fall into few shapes: a process     *)
(* goes down, a process moves on without touching the row or its snapshot  *)
(* (Quiet), and the few actions that write the row, the snapshot or the    *)
(* clock.                                                                  *)
(***************************************************************************)

\* A step of i that leaves row, snapshot, status and clock alone, outside the
\* start-up, and samples the clock if it samples anything.
Quiet(i) ==
    /\ ~Booting(i)
    /\ pc'[i] \notin {"down", "acquire_read", "acquire_write"}
    /\ pc' = [pc EXCEPT ![i] = pc'[i]]
    /\ asOf' = [asOf EXCEPT ![i] = asOf'[i]]
    /\ asOf'[i] \in {asOf[i], now, 0}
    /\ pc'[i] \in {"refresh", "heartbeat"} => asOf'[i] = now
    /\ UNCHANGED <<now, lease, seen, plan, cached, active>>

LEMMA QuietSteps ==
    ASSUME TypeOK, NEW i \in Instance,
           \/ BarObserved(i) \/ HeartbeatDue(i) \/ HeartbeatFails(i) \/ HandlerFails(i)
           \/ Submission(i)
    PROVE  Quiet(i)
<1> USE DEF TypeOK, Quiet, Booting, PC
<1>1. CASE BarObserved(i) \/ HeartbeatDue(i)
  BY <1>1 DEF BarObserved, HeartbeatDue
<1>2. CASE HeartbeatFails(i) \/ HandlerFails(i)
  BY <1>2 DEF HeartbeatFails, HandlerFails
<1>3. CASE SignalRouted(i)
  BY <1>3 DEF SignalRouted
<1>4. CASE ValidateAccept(i) \/ ValidateReject(i) \/ NoSignal(i) \/ Send(i)
  BY <1>4 DEF ValidateAccept, ValidateReject, NoSignal, Send, HandlerDone
<1>5. QED
  BY <1>1, <1>2, <1>3, <1>4 DEF Submission

\* Every step that leaves the process down without writing the row.
Dies(i) == Down(i) /\ UNCHANGED lease

\* The shapes of a step.
LEMMA StepShapes ==
    ASSUME TypeOK, [Next]_vars
    PROVE  \/ \E i \in Instance :
                 \/ Quiet(i) /\ (UNCHANGED admitted \/ ValidateAccept(i))
                 \/ Dies(i) \/ StartTrader(i) \/ AcquireRead(i)
                 \/ AcquireWrite(i) \/ RefreshLoad(i) \/ HeartbeatWrite(i)
                 \/ Stop(i)
           \/ Tick
           \/ UNCHANGED vars
<1>1. ASSUME NEW i \in Instance, Startup(i)
      PROVE  \/ Dies(i) \/ StartTrader(i) \/ AcquireRead(i) \/ AcquireWrite(i)
  BY <1>1 DEF Startup, AcquireRejected, InsertConflict, Dies
<1>2. ASSUME NEW i \in Instance, Refresh(i)
      PROVE  \/ Quiet(i) /\ UNCHANGED admitted
             \/ Dies(i) \/ RefreshLoad(i) \/ HeartbeatWrite(i)
  BY <1>2, QuietSteps DEF Refresh, BarObserved, HeartbeatDue, HeartbeatFails,
                          HandlerFails, StartupFails, Dies
<1>3. ASSUME NEW i \in Instance, Submission(i)
      PROVE  Quiet(i) /\ (UNCHANGED admitted \/ ValidateAccept(i))
  BY <1>3, QuietSteps DEF Submission, SignalRouted, ValidateReject, NoSignal, Send
<1>4. ASSUME NEW i \in Instance, Crash(i)
      PROVE  Dies(i)
  BY <1>4 DEF Crash, Dies
<1>5. QED
  BY <1>1, <1>2, <1>3, <1>4 DEF Next

\* The clock samples and the emptiness of a booting process' memory.
LEMMA BootStep ==
    ASSUME TypeOK, BootInv, ClockInv, [Next]_vars
    PROVE  BootInv' /\ ClockInv'
<1> USE DEF TypeOK, BootInv, ClockInv, Booting
<1>1. ASSUME NEW i \in Instance, Quiet(i) PROVE BootInv' /\ ClockInv'
  BY <1>1 DEF Quiet
<1>2. ASSUME NEW i \in Instance, Dies(i) PROVE BootInv' /\ ClockInv'
  BY <1>2 DEF Dies, Down
<1>3. ASSUME NEW i \in Instance, StartTrader(i) PROVE BootInv' /\ ClockInv'
  BY <1>3 DEF StartTrader
<1>4. ASSUME NEW i \in Instance, AcquireRead(i) PROVE BootInv' /\ ClockInv'
  BY <1>4 DEF AcquireRead
<1>5. ASSUME NEW i \in Instance, AcquireWrite(i) PROVE BootInv' /\ ClockInv'
  BY <1>5 DEF AcquireWrite
<1>6. ASSUME NEW i \in Instance, RefreshLoad(i) PROVE BootInv' /\ ClockInv'
  BY <1>6 DEF RefreshLoad, Conclude
<1>7. ASSUME NEW i \in Instance, HeartbeatWrite(i) PROVE BootInv' /\ ClockInv'
  BY <1>7 DEF HeartbeatWrite, Conclude
<1>8. ASSUME NEW i \in Instance, Stop(i) PROVE BootInv' /\ ClockInv'
  BY <1>8 DEF Stop, ReleaseMatches, Down
<1>9. CASE Tick
  BY <1>9 DEF Tick
<1>10. CASE UNCHANGED vars
  BY <1>10 DEF vars
<1>11. QED
  BY <1>1, <1>2, <1>3, <1>4, <1>5, <1>6, <1>7, <1>8, <1>9, <1>10, StepShapes

\* With the row locked only one transaction is between its read of an existing
\* row and its write, and what it read is still the row.
LEMMA LockStep ==
    ASSUME TypeOK, LockInv, PlanInv, RowLocked, [Next]_vars
    PROVE  LockInv'
<1> USE DEF TypeOK, Plan, LockInv, Locking, RowFree
<1>1. ASSUME NEW i \in Instance, Quiet(i) PROVE LockInv'
  BY <1>1 DEF Quiet
<1>2. ASSUME NEW i \in Instance, Dies(i) PROVE LockInv'
  BY <1>2 DEF Dies, Down
<1>3. ASSUME NEW i \in Instance, StartTrader(i) PROVE LockInv'
  BY <1>3 DEF StartTrader
<1>4. ASSUME NEW i \in Instance, AcquireRead(i) PROVE LockInv'
  BY <1>4 DEF AcquireRead
<1>5. ASSUME NEW i \in Instance, AcquireWrite(i) PROVE LockInv'
  BY <1>5 DEF AcquireWrite, PlanInv
<1>6. ASSUME NEW i \in Instance, RefreshLoad(i) PROVE LockInv'
  BY <1>6 DEF RefreshLoad, Conclude
<1>7. ASSUME NEW i \in Instance, HeartbeatWrite(i) PROVE LockInv'
  BY <1>7 DEF HeartbeatWrite, Conclude
<1>8. ASSUME NEW i \in Instance, Stop(i) PROVE LockInv'
  BY <1>8 DEF Stop, ReleaseMatches, Down
<1>9. CASE Tick
  BY <1>9 DEF Tick
<1>10. CASE UNCHANGED vars
  BY <1>10 DEF vars
<1>11. QED
  BY <1>1, <1>2, <1>3, <1>4, <1>5, <1>6, <1>7, <1>8, <1>9, <1>10, StepShapes

\* What a pending transaction decided is still justified when it writes.
LEMMA PlanStep ==
    ASSUME TypeOK, ClockInv, LockInv, PlanInv, RowInv, RowLocked, [Next]_vars
    PROVE  PlanInv'
<1> USE DEF TypeOK, Row, LockInv, PlanInv, Vacant, Booting, Locking, RowFree
<1>1. ASSUME NEW i \in Instance, Quiet(i) PROVE PlanInv'
  BY <1>1 DEF Quiet
<1>2. ASSUME NEW i \in Instance, Dies(i) PROVE PlanInv'
  BY <1>2 DEF Dies, Down
<1>3. ASSUME NEW i \in Instance, StartTrader(i) PROVE PlanInv'
  BY <1>3 DEF StartTrader
<1>4. ASSUME NEW i \in Instance, AcquireRead(i) PROVE PlanInv'
  <2>1. PICK p \in AcquirePlans(i, lease, asOf[i]) \ {"none"} :
              plan' = [plan EXCEPT ![i] = p]
    BY <1>4 DEF AcquireRead
  <2>2. asOf[i] <= now
    BY DEF ClockInv
  <2>3. \/ p = "insert" /\ lease.token = 0 /\ lease.owner = None
        \/ p = "renew" /\ lease.owner = i /\ lease.token # 0
        \/ p = "take_over" /\ Vacant /\ lease.token # 0
    BY <2>1, <2>2 DEF AcquirePlans, HeldBy, Expired, RowInv
  <2>4. /\ pc' = [pc EXCEPT ![i] = "acquire_write"]
        /\ seen' = [seen EXCEPT ![i] = lease]
        /\ pc[i] = "acquire_read" /\ lease' = lease /\ now' = now
    BY <1>4 DEF AcquireRead
  <2>5. Vacant => Vacant'
    BY <2>4
  <2>6. ASSUME NEW j \in Instance, j # i, pc'[j] = "acquire_write"
        PROVE  pc[j] = "acquire_write" /\ plan'[j] = plan[j] /\ seen'[j] = seen[j]
    BY <2>1, <2>4, <2>6
  <2>7. plan'[i] = p /\ seen'[i] = lease
    BY <2>1, <2>4
  <2>8. QED
    BY <2>3, <2>4, <2>5, <2>6, <2>7
<1>5. ASSUME NEW i \in Instance, AcquireWrite(i) PROVE PlanInv'
  BY <1>5 DEF AcquireWrite
<1>6. ASSUME NEW i \in Instance, RefreshLoad(i) PROVE PlanInv'
  BY <1>6 DEF RefreshLoad, Conclude
<1>7. ASSUME NEW i \in Instance, HeartbeatWrite(i) PROVE PlanInv'
  BY <1>7 DEF HeartbeatWrite, Conclude
<1>8. ASSUME NEW i \in Instance, Stop(i) PROVE PlanInv'
  BY <1>8 DEF Stop, ReleaseMatches, Down
<1>9. CASE Tick
  BY <1>9 DEF Tick
<1>10. CASE UNCHANGED vars
  BY <1>10 DEF vars
<1>11. QED
  BY <1>1, <1>2, <1>3, <1>4, <1>5, <1>6, <1>7, <1>8, <1>9, <1>10, StepShapes

\* What the write of an acquisition does to the row, given the lock.
LEMMA AcquireEffect ==
    ASSUME TypeOK, ClockInv, LockInv, PlanInv, RowInv, RowLocked,
           NEW i \in Instance, AcquireWrite(i)
    PROVE  /\ lease' = [owner |-> i, expires |-> asOf[i] + TTL, token |-> lease'.token]
           /\ cached' = [cached EXCEPT ![i] = lease']
           /\ lease'.token \in Nat \ {0}
           /\ \/ lease.owner = i /\ lease'.token = lease.token
              \/ (lease.owner = None \/ Vacant) /\ lease'.token = lease.token + 1
<1>1. pc[i] = "acquire_write" /\ lease' = StoredRow(i)
      /\ cached' = [cached EXCEPT ![i] = WrittenRow(i)]
  BY DEF AcquireWrite
<1>2. CASE plan[i] = "insert"
  <2>1. seen[i].owner = None /\ seen[i].token = 0 /\ lease.token = 0 /\ lease.owner = None
    BY <1>1, <1>2 DEF PlanInv, AcquireWrite, RowInv
  <2>2. WrittenRow(i) = [owner |-> i, expires |-> asOf[i] + TTL, token |-> 1]
    BY <1>2 DEF WrittenRow
  <2>3. StoredRow(i) = WrittenRow(i)
    BY <2>1, <2>2 DEF StoredRow
  <2>4. QED
    BY <1>1, <2>1, <2>2, <2>3
<1>3. CASE plan[i] # "insert"
  <2>1. seen[i] = lease
    BY <1>1, <1>3 DEF LockInv, Locking
  <2>2. StoredRow(i) = WrittenRow(i)
    BY <1>3, <2>1 DEF StoredRow, WrittenRow, TypeOK, Row
  <2>3. CASE plan[i] = "renew" /\ lease.owner = i /\ lease.token # 0
    BY <1>1, <2>1, <2>2, <2>3 DEF WrittenRow, TypeOK, Row
  <2>4. CASE plan[i] = "take_over" /\ Vacant
    BY <1>1, <2>1, <2>2, <2>4 DEF WrittenRow, TypeOK, Row
  <2>5. QED
    BY <1>1, <1>3, <2>3, <2>4 DEF PlanInv
<1>4. QED
  BY <1>2, <1>3

\* A heartbeat changes at most the expiry, and only of its own row.
LEMMA HeartbeatEffect ==
    ASSUME TypeOK, NEW i \in Instance, HeartbeatWrite(i)
    PROVE  /\ lease'.owner = lease.owner /\ lease'.token = lease.token
           /\ cached' = [cached EXCEPT ![i] = lease']
           /\ \/ UNCHANGED lease
              \/ /\ lease.owner = i /\ lease.token = cached[i].token
                 /\ lease.expires > asOf[i] /\ lease'.expires = asOf[i] + TTL
BY DEF HeartbeatWrite, HeartbeatMatches, HeldBy, Conclude, TypeOK, Row

\* The row never loses its token, and a running holder knows its token.
LEMMA TokenStep ==
    ASSUME TypeOK, BootInv, ClockInv, LockInv, PlanInv, RowInv, TokenInv,
           RowLocked, [Next]_vars
    PROVE  RowInv' /\ TokenInv'
<1> USE DEF TypeOK, Row, RowInv, TokenInv, Booting
<1>1. ASSUME NEW i \in Instance, Quiet(i) PROVE RowInv' /\ TokenInv'
  BY <1>1 DEF Quiet
<1>2. ASSUME NEW i \in Instance, Dies(i) PROVE RowInv' /\ TokenInv'
  BY <1>2 DEF Dies, Down
<1>3. ASSUME NEW i \in Instance, StartTrader(i) PROVE RowInv' /\ TokenInv'
  BY <1>3 DEF StartTrader
<1>4. ASSUME NEW i \in Instance, AcquireRead(i) PROVE RowInv' /\ TokenInv'
  BY <1>4 DEF AcquireRead
<1>5. ASSUME NEW i \in Instance, AcquireWrite(i) PROVE RowInv' /\ TokenInv'
  <2>1. lease'.owner = i /\ lease'.token # 0 /\ cached'[i] = lease'
    BY <1>5, AcquireEffect
  <2>2. QED
    BY <1>5, <2>1 DEF AcquireWrite
<1>6. ASSUME NEW i \in Instance, RefreshLoad(i) PROVE RowInv' /\ TokenInv'
  BY <1>6 DEF RefreshLoad, Conclude
<1>7. ASSUME NEW i \in Instance, HeartbeatWrite(i) PROVE RowInv' /\ TokenInv'
  BY <1>7, HeartbeatEffect DEF HeartbeatWrite, Conclude
<1>8. ASSUME NEW i \in Instance, Stop(i) PROVE RowInv' /\ TokenInv'
  BY <1>8 DEF Stop, ReleaseMatches, Down
<1>9. CASE Tick
  BY <1>9 DEF Tick
<1>10. CASE UNCHANGED vars
  BY <1>10 DEF vars
<1>11. QED
  BY <1>1, <1>2, <1>3, <1>4, <1>5, <1>6, <1>7, <1>8, <1>9, <1>10, StepShapes

\* The heart of the argument: an unexpired snapshot stays true of the row.
\* Only its holder extends the row, and nobody takes a row that is not Vacant.
LEMMA TruthStep ==
    ASSUME TypeOK, BootInv, ClockInv, LockInv, PlanInv, RowInv, TruthInv,
           RowLocked, [Next]_vars
    PROVE  TruthInv'
<1> USE DEF TypeOK, Row, TruthInv, HoldsLease, HeldBy
<1>1. ASSUME NEW i \in Instance, Quiet(i) PROVE TruthInv'
  BY <1>1 DEF Quiet
<1>2. ASSUME NEW i \in Instance, Dies(i) PROVE TruthInv'
  BY <1>2 DEF Dies, Down, NoRow
<1>3. ASSUME NEW i \in Instance, StartTrader(i) PROVE TruthInv'
  BY <1>3 DEF StartTrader
<1>4. ASSUME NEW i \in Instance, AcquireRead(i) PROVE TruthInv'
  BY <1>4 DEF AcquireRead
<1>5. ASSUME NEW i \in Instance, AcquireWrite(i) PROVE TruthInv'
  <2>1. ASSUME NEW j \in Instance \ {i} PROVE ~HoldsLease(j)
    <3>1. SUFFICES ASSUME HoldsLease(j) PROVE FALSE
      OBVIOUS
    <3>2. lease.owner = j /\ lease.expires > now
      BY <3>1
    <3>3. ~Booting(j)
      BY <3>1 DEF BootInv, NoRow
    <3>4. QED
      BY <1>5, <3>2, <3>3, AcquireEffect DEF Vacant
  <2>2. cached' = [cached EXCEPT ![i] = lease'] /\ lease'.owner = i
    BY <1>5, AcquireEffect
  <2>3. /\ now' = now /\ cached'[i] = lease'
        /\ lease'.expires \in Nat
    <3>1. lease' = [owner |-> i, expires |-> asOf[i] + TTL, token |-> lease'.token]
      BY <1>5, AcquireEffect
    <3>2. lease'.expires = asOf[i] + TTL
      BY <3>1
    <3>3. now' = now
      BY <1>5 DEF AcquireWrite
    <3>4. QED
      BY <2>2, <3>2, <3>3
  <2>4. ASSUME NEW j \in Instance, j # i PROVE ~HoldsLease(j)'
    BY <2>1, <2>2, <2>3, <2>4
  <2>5. QED
    BY <2>2, <2>3, <2>4
<1>6. ASSUME NEW i \in Instance, RefreshLoad(i) PROVE TruthInv'
  BY <1>6 DEF RefreshLoad, Conclude
<1>7. ASSUME NEW i \in Instance, HeartbeatWrite(i) PROVE TruthInv'
  <2>1. /\ lease'.owner = lease.owner /\ lease'.token = lease.token
        /\ cached' = [cached EXCEPT ![i] = lease']
        /\ lease' = lease \/ lease.owner = i
    BY <1>7, HeartbeatEffect
  <2>2. now' = now
    BY <1>7 DEF HeartbeatWrite
  <2>3. lease' \in Row
    BY <1>7, HeartbeatEffect DEF HeartbeatWrite
  <2>4. cached'[i] = lease' /\ \A j \in Instance \ {i} : cached'[j] = cached[j]
    BY <2>1
  <2>5. ASSUME NEW j \in Instance \ {i}, HoldsLease(j)'
        PROVE  lease' = lease /\ HoldsLease(j)
    BY <2>1, <2>2, <2>4, <2>5
  <2>6. QED
    BY <2>1, <2>2, <2>3, <2>4, <2>5
<1>8. ASSUME NEW i \in Instance, Stop(i) PROVE TruthInv'
  BY <1>8 DEF Stop, ReleaseMatches, Down, NoRow
<1>9. CASE Tick
  BY <1>9 DEF Tick
<1>10. CASE UNCHANGED vars
  BY <1>10 DEF vars
<1>11. QED
  BY <1>1, <1>2, <1>3, <1>4, <1>5, <1>6, <1>7, <1>8, <1>9, <1>10, StepShapes

\* The history of admissions stays below the row's token, and the current
\* token belongs to one instance.
LEMMA AdmitStep ==
    ASSUME TypeOK, ClockInv, LockInv, PlanInv, RowInv, AdmitInv,
           TokenNamesOneInstance, RowLocked, [Next]_vars
    PROVE  AdmitInv' /\ TokenNamesOneInstance'
<1> USE DEF TypeOK, Row, AdmitInv, TokenNamesOneInstance
<1>1. ASSUME NEW i \in Instance, Quiet(i), UNCHANGED admitted
      PROVE  AdmitInv' /\ TokenNamesOneInstance'
  BY <1>1 DEF Quiet
<1>2. ASSUME NEW i \in Instance, ValidateAccept(i)
      PROVE  AdmitInv' /\ TokenNamesOneInstance'
  <2>1. lease.owner = i /\ lease.token = guard[i]
    BY <1>2 DEF ValidateAccept, Accepts, HeldBy
  <2>2. lease' = lease /\ admitted' = admitted \union {[inst |-> i, token |-> lease.token]}
    BY <1>2, <2>1 DEF ValidateAccept
  <2>3. AdmitInv'
    BY <2>1, <2>2
  <2>4. \A a \in admitted : a.token = lease.token => a.inst = i
    BY <2>1
  <2>5. TokenNamesOneInstance'
    BY <2>2, <2>4
  <2>6. QED
    BY <2>3, <2>5
<1>3. ASSUME NEW i \in Instance, \/ Dies(i) \/ StartTrader(i) \/ AcquireRead(i) \/ RefreshLoad(i)
      PROVE  AdmitInv' /\ TokenNamesOneInstance'
  BY <1>3 DEF Dies, Down, StartTrader, AcquireRead, RefreshLoad
<1>4. ASSUME NEW i \in Instance, AcquireWrite(i)
      PROVE  AdmitInv' /\ TokenNamesOneInstance'
  <2>1. \/ lease.owner = i /\ lease'.token = lease.token
        \/ lease'.token = lease.token + 1
    BY <1>4, AcquireEffect
  <2>2. lease'.owner = i
    BY <1>4, AcquireEffect
  <2>3. admitted' = admitted
    BY <1>4 DEF AcquireWrite
  <2>4. QED
    BY <2>1, <2>2, <2>3
<1>5. ASSUME NEW i \in Instance, HeartbeatWrite(i)
      PROVE  AdmitInv' /\ TokenNamesOneInstance'
  BY <1>5, HeartbeatEffect DEF HeartbeatWrite
<1>6. ASSUME NEW i \in Instance, Stop(i)
      PROVE  AdmitInv' /\ TokenNamesOneInstance'
  BY <1>6 DEF Stop, ReleaseMatches, Down
<1>7. CASE Tick \/ UNCHANGED vars
  BY <1>7 DEF Tick, vars
<1>8. QED
  BY <1>1, <1>2, <1>3, <1>4, <1>5, <1>6, <1>7, StepShapes

\* A process that has lost the lease never matches the row again.
LEMMA LostStep ==
    ASSUME TypeOK, BootInv, ClockInv, LockInv, PlanInv, RowInv, TokenInv,
           LostInv, RowLocked, [Next]_vars
    PROVE  /\ LostInv'
           /\ \A i \in Instance : active[i] = "lost" => active'[i] # "acquired"
<1> DEFINE Goal == /\ LostInv'
                   /\ \A i \in Instance : active[i] = "lost" => active'[i] # "acquired"
<1> USE DEF TypeOK, Row, LostInv
<1>1. ASSUME NEW i \in Instance, Quiet(i) PROVE Goal
  BY <1>1 DEF Quiet
<1>2. ASSUME NEW i \in Instance, Dies(i) PROVE Goal
  BY <1>2 DEF Dies, Down
<1>3. ASSUME NEW i \in Instance, StartTrader(i) PROVE Goal
  BY <1>3 DEF StartTrader, BootInv, Booting
<1>4. ASSUME NEW i \in Instance, AcquireRead(i) PROVE Goal
  BY <1>4 DEF AcquireRead, BootInv, Booting
<1>5. ASSUME NEW i \in Instance, AcquireWrite(i) PROVE Goal
  <2>1. lease'.owner = i
    BY <1>5, AcquireEffect
  <2>2. active[i] = "unbound"
    BY <1>5 DEF AcquireWrite, BootInv, Booting
  <2>3. QED
    BY <1>5, <2>1, <2>2 DEF AcquireWrite
<1>6. ASSUME NEW i \in Instance, RefreshLoad(i) PROVE Goal
  <2>1. lease.owner = i => lease.token = cached[i].token
    BY <1>6 DEF RefreshLoad, TokenInv, Booting
  <2>2. asOf[i] <= now
    BY DEF ClockInv
  <2>3. QED
    BY <1>6, <2>1, <2>2 DEF RefreshLoad, Conclude, HeldBy
<1>7. ASSUME NEW i \in Instance, HeartbeatWrite(i) PROVE Goal
  <2>1. lease.owner = i => lease.token = cached[i].token
    BY <1>7 DEF HeartbeatWrite, TokenInv, Booting
  <2>2. asOf[i] <= now
    BY DEF ClockInv
  <2>3. pc[i] = "heartbeat" /\ now' = now /\ Conclude(i, lease')
    BY <1>7 DEF HeartbeatWrite
  <2>4. /\ lease'.owner = lease.owner /\ lease'.token = lease.token
        /\ lease' = lease \/ lease.owner = i
    BY <1>7, HeartbeatEffect
  <2>5. active[i] = "lost" /\ lease.owner = i => lease' = lease /\ lease.expires <= asOf[i]
    BY <1>7, <2>3, HeartbeatEffect
  <2>6. active'[i] \in {"acquired", "lost"}
    BY <2>3 DEF Conclude
  <2>7. active'[i] = "acquired" => lease'.owner = i /\ lease'.expires > asOf[i]
    BY <2>3 DEF Conclude, HeldBy
  <2>8. active[i] = "lost" => active'[i] # "acquired"
    BY <2>4, <2>5, <2>7
  <2>9. active'[i] = "lost" /\ lease.owner = i => lease' = lease /\ lease.expires <= asOf[i]
    <3>1. SUFFICES ASSUME active'[i] = "lost", lease.owner = i
                   PROVE  lease' = lease /\ lease.expires <= asOf[i]
      OBVIOUS
    <3>2. lease'.token = cached[i].token
      BY <2>1, <2>4, <3>1
    <3>3. ~(lease'.expires > asOf[i])
      BY <2>3, <2>4, <3>1, <3>2 DEF Conclude, HeldBy
    <3>4. QED
      BY <1>7, <3>1, <3>3, HeartbeatEffect
  <2>10. /\ pc' = [pc EXCEPT ![i] = "loop"]
         /\ \A j \in Instance \ {i} : active'[j] = active[j] /\ asOf'[j] = asOf[j]
    BY <2>3 DEF Conclude
  <2>11. QED
    BY <2>2, <2>3, <2>4, <2>8, <2>9, <2>10
<1>8. ASSUME NEW i \in Instance, Stop(i) PROVE Goal
  BY <1>8 DEF Stop, ReleaseMatches, Down
<1>9. CASE Tick
  BY <1>9 DEF Tick
<1>10. CASE UNCHANGED vars
  BY <1>10 DEF vars
<1>11. QED
  BY <1>1, <1>2, <1>3, <1>4, <1>5, <1>6, <1>7, <1>8, <1>9, <1>10, StepShapes

-----------------------------------------------------------------------------
(* The theorems. *)

\* With the row locked during an acquisition, the invariant holds of every reachable state.
THEOREM LeaseInvariant == RowLocked /\ Spec => []LeaseInv
<1>1. Init => LeaseInv
  BY DEF Init, LeaseInv, BootInv, ClockInv, LockInv, PlanInv, RowInv, TokenInv,
         TruthInv, AdmitInv, LostInv, TokenNamesOneInstance, Booting, NoRow, Locking,
         HoldsLease, HeldBy
<1>2. RowLocked /\ TypeOK /\ LeaseInv /\ [Next]_vars => LeaseInv'
  BY BootStep, LockStep, PlanStep, TokenStep, TruthStep, AdmitStep, LostStep DEF LeaseInv
<1>3. CASE ~RowLocked
  BY <1>3
<1>4. CASE RowLocked
  <2>1. TypeOK /\ LeaseInv /\ [Next]_vars => LeaseInv'
    BY <1>2, <1>4
  <2>2. QED
    BY <1>1, <2>1, TypeCorrect, PTL DEF Spec
<1>5. QED
  BY <1>3, <1>4

\* Two traders never both hold an unexpired lease in their own memory: the
\* single-active protection of start, refresh and submission_guard.
THEOREM SingleActiveHolds == RowLocked /\ Spec => []SingleActive
<1>1. LeaseInv => SingleActive
  BY DEF LeaseInv, TruthInv, SingleActive
<1>2. QED
  BY <1>1, LeaseInvariant, PTL

\* A snapshot that is unexpired in memory is true of the database row.
THEOREM CachedLeaseIsTruthful == RowLocked /\ Spec => []CachedLeaseTruthful
<1>1. TypeOK /\ LeaseInv => CachedLeaseTruthful
  BY DEF LeaseInv, TruthInv, CachedLeaseTruthful, HoldsLease, HeldBy, TypeOK, Row
<1>2. QED
  BY <1>1, TypeCorrect, LeaseInvariant, PTL

\* All submissions admitted under one fencing token are one instance's.
THEOREM TokenIsExclusive == RowLocked /\ Spec => []TokenNamesOneInstance
<1>1. LeaseInv => TokenNamesOneInstance
  BY DEF LeaseInv
<1>2. QED
  BY <1>1, LeaseInvariant, PTL

\* Fencing order: validate_submission_lease never admits a submission after
\* one that carried a newer token.
THEOREM AdmissionsAreOrdered == RowLocked /\ Spec => AdmissionOrder
<1>1. ASSUME TypeOK, LeaseInv, [Next]_vars
      PROVE  [\A a \in admitted' \ admitted : \A b \in admitted : b.token <= a.token]_admitted
  <2>1. ASSUME NEW i \in Instance, ValidateAccept(i)
        PROVE  \A a \in admitted' \ admitted : \A b \in admitted : b.token <= a.token
    <3>1. admitted' = admitted \union {[inst |-> i, token |-> lease.token]}
      BY <2>1 DEF ValidateAccept, Accepts
    <3>2. \A b \in admitted : b.token <= lease.token
      BY <1>1 DEF LeaseInv, AdmitInv
    <3>3. QED
      BY <3>1, <3>2
  <2>2. (\E i \in Instance : ValidateAccept(i)) \/ UNCHANGED admitted
    BY <1>1, StepShapes DEF Dies, Down, StartTrader, AcquireRead, AcquireWrite,
                            RefreshLoad, HeartbeatWrite, Stop, Tick, vars
  <2>3. QED
    BY <2>1, <2>2
<1>2. QED
  BY <1>1, TypeCorrect, LeaseInvariant, PTL DEF Spec, AdmissionOrder

\* A lost lease is not found again by a later heartbeat or reload.
THEOREM LostIsFinal == RowLocked /\ Spec => LostStaysLost
<1>1. ASSUME RowLocked, TypeOK, LeaseInv, [Next]_vars
      PROVE  \A i \in Instance : active[i] = "lost" => active'[i] # "acquired"
  BY <1>1, LostStep DEF LeaseInv
<1>2. CASE ~RowLocked
  BY <1>2
<1>3. CASE RowLocked
  <2>1. TypeOK /\ LeaseInv /\ [Next]_vars
           => [\A i \in Instance : active[i] = "lost" => active'[i] # "acquired"]_active
    BY <1>1, <1>3
  <2>2. Spec => []LeaseInv
    BY <1>3, LeaseInvariant
  <2>3. Spec => LostStaysLost
    BY <2>1, <2>2, TypeCorrect, PTL DEF Spec, LostStaysLost
  <2>4. QED
    BY <2>3
<1>4. QED
  BY <1>2, <1>3
=============================================================================
