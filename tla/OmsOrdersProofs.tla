--------------------------- MODULE OmsOrdersProofs ---------------------------
(***************************************************************************)
(* Proofs about OmsOrders, for every set of signals, every order quantity  *)
(* and any number of failing calls and crashes.                            *)
(***************************************************************************)
EXTENDS OmsOrders, TLAPS

USE SignalAssumption, LotsAssumption, TroubleAssumption

-----------------------------------------------------------------------------
(* Type correctness                                                         *)

\* The constant records are well typed, and so is every order update of a report.
LEMMA NoOrderType == NoOrder \in OrderRow
BY DEF NoOrder, OrderRow, Status

LEMMA EmptyType == Empty \in Report
BY DEF Empty, Report

LEMMA UpdateTypes ==
    ASSUME NEW r \in Report
    PROVE  /\ Updates(r) \in Nat
           /\ \A k \in 1 .. Updates(r) : Update(r, k) \in OrderRow
BY DEF Report, Updates, Update, OrderRow, Status

\* The types of the variables in three groups: a step that keeps a group
\* keeps its types.
DbTypes ==
    /\ kill \in BOOLEAN
    /\ protection \in BOOLEAN
    /\ intent \in [Signal -> {"none", "NEW", "SUBMITTED"}]
    /\ order \in [Signal -> OrderRow]
    /\ fills \in [Signal -> Nat]
    /\ posted \in [Signal -> Nat]
    /\ paid \in [Signal -> Nat]
MemoryTypes ==
    /\ pc \in PC
    /\ cur \in Signal \union {None}
    /\ cached \in BOOLEAN
    /\ rowSeen \in BOOLEAN
    /\ report \in Report
    /\ step \in Nat
    /\ recon \in {"off", "on", "dead"}
    /\ resume \in {"check", "idle"}
JobTypes ==
    /\ phase \in [Canceller -> {"none", "list", "cancel"}]
    /\ kept \in [Canceller -> BOOLEAN]
    /\ todo \in [Canceller -> SUBSET Signal]
    /\ target \in [Canceller -> Signal \union {None}]
    /\ seenFilled \in [Canceller -> 0 .. Lots]
CountTypes == executed \in [Signal -> 0 .. Lots] /\ faults \in Nat /\ crashes \in Nat

LEMMA Groups == TypeOK <=> DbTypes /\ MemoryTypes /\ JobTypes /\ CountTypes
BY DEF TypeOK, DbTypes, MemoryTypes, JobTypes, CountTypes

LEMMA DbKept == DbTypes /\ UNCHANGED db => DbTypes'
BY DEF DbTypes, db
LEMMA MemoryKept == MemoryTypes /\ UNCHANGED memory => MemoryTypes'
BY DEF MemoryTypes, memory
LEMMA JobKept == JobTypes /\ UNCHANGED job => JobTypes'
BY DEF JobTypes, job
LEMMA CountKept == CountTypes /\ UNCHANGED executed /\ (NoFault \/ (Fault /\ UNCHANGED crashes)) => CountTypes'
BY DEF CountTypes, NoFault, Fault

LEMMA JobBegins ==
    ASSUME JobTypes, NEW a \in Canceller, NEW keep \in BOOLEAN, CancelBegins(a, keep)
    PROVE  JobTypes'
BY DEF JobTypes, CancelBegins

LEMMA JobOver ==
    ASSUME JobTypes, NEW a \in Canceller, CancelOver(a)
    PROVE  JobTypes'
<1>1. 0 \in 0 .. Lots
  OBVIOUS
<1>2. QED
  BY <1>1 DEF JobTypes, CancelOver

LEMMA Downs == JobTypes /\ Down => MemoryTypes' /\ JobTypes'
<1> SUFFICES ASSUME JobTypes, Down PROVE MemoryTypes' /\ JobTypes'
  OBVIOUS
<1>1. MemoryTypes'
  BY EmptyType DEF Down, MemoryTypes, PC
<1>2. JobTypes'
  BY JobOver DEF Down, Canceller
<1>3. QED
  BY <1>1, <1>2

LEMMA Leaves ==
    ASSUME MemoryTypes, NEW where \in PC, Leave(where)
    PROVE  MemoryTypes'
BY EmptyType DEF MemoryTypes, Leave

LEMMA Goes ==
    ASSUME MemoryTypes, NEW where \in PC, Go(where)
    PROVE  MemoryTypes'
BY DEF MemoryTypes, Go

LEMMA Abort == MemoryTypes /\ JobTypes /\ Aborts => MemoryTypes' /\ JobTypes'
<1> SUFFICES ASSUME MemoryTypes, JobTypes, Aborts PROVE MemoryTypes' /\ JobTypes'
  OBVIOUS
<1>1. CASE recon = "off"
  BY <1>1, Downs DEF Aborts
<1>2. CASE recon # "off"
  <2>1. JobTypes'
    BY <1>2, JobOver DEF Aborts, Canceller
  <2>2. MemoryTypes'
    BY <1>2 DEF Aborts, MemoryTypes, PC
  <2>3. QED
    BY <2>1, <2>2
<1>3. QED
  BY <1>1, <1>2

LEMMA InitTypes == Init => TypeOK
<1> SUFFICES ASSUME Init PROVE TypeOK
  OBVIOUS
<1>1. DbTypes
  BY NoOrderType DEF Init, DbTypes
<1>2. MemoryTypes
  BY EmptyType DEF Init, MemoryTypes, PC
<1>3. JobTypes /\ CountTypes
  <2>1. 0 \in 0 .. Lots
    OBVIOUS
  <2>2. QED
    BY <2>1 DEF Init, JobTypes, CountTypes
<1>4. QED
  BY <1>1, <1>2, <1>3, Groups

LEMMA NextTypes == TypeOK /\ [Next]_vars => TypeOK'
<1> SUFFICES ASSUME DbTypes, MemoryTypes, JobTypes, CountTypes, [Next]_vars
             PROVE  DbTypes' /\ MemoryTypes' /\ JobTypes' /\ CountTypes'
  BY DEF TypeOK, DbTypes, MemoryTypes, JobTypes, CountTypes
<1>1. CASE Startup \/ ReconcileDue
  <2>1. db' = db /\ job' = job /\ CountTypes'
    BY <1>1, CountKept DEF Startup, Start, Recover, RecoverFails, ReconcileDue, db, job
  <2>2. MemoryTypes'
    BY <1>1 DEF Startup, Start, Recover, RecoverFails, ReconcileDue, Go, MemoryTypes, PC,
                DbTypes, ReduceOnlyMode
  <2>3. QED
    BY <2>1, <2>2, DbKept, JobKept
<1>2. CASE CheckPasses \/ CheckAlarms \/ Engaged
  <2>1. db' = db /\ job' = job /\ CountTypes'
    BY <1>2, CountKept DEF CheckPasses, CheckAlarms, Engaged, db, job
  <2>2. MemoryTypes'
    BY <1>2 DEF CheckPasses, CheckAlarms, Engaged, Go, MemoryTypes, PC, DbTypes, ReduceOnlyMode
  <2>3. QED
    BY <2>1, <2>2, DbKept, JobKept
<1>3. CASE Engage
  <2>1. JobTypes' /\ CountTypes'
    BY <1>3, JobBegins, CountKept DEF Engage, Canceller
  <2>2. DbTypes' /\ MemoryTypes'
    BY <1>3, Goes DEF Engage, DbTypes, PC
  <2>3. QED
    BY <2>1, <2>2
<1>4. CASE EngageFails
  BY <1>4, DbKept, Abort, CountKept DEF EngageFails
<1>5. CASE OperatorCancelsAll
  <2>1. ReduceOnlyMode \in BOOLEAN
    BY DEF DbTypes, ReduceOnlyMode
  <2>2. JobTypes'
    BY <1>5, <2>1, JobBegins DEF OperatorCancelsAll, Canceller
  <2>3. QED
    BY <1>5, <2>2, DbKept, MemoryKept, CountKept DEF OperatorCancelsAll
<1>6. CASE SetKillSwitch
  BY <1>6, MemoryKept, JobKept, CountKept DEF SetKillSwitch, DbTypes
<1>7. CASE CancelOvertaken
  <2>1. JobTypes' /\ MemoryTypes' /\ CountTypes'
    BY <1>7, MemoryKept, JobOver, CountKept DEF CancelOvertaken, Canceller
  <2>2. DbTypes'
    BY <1>7 DEF CancelOvertaken, DbTypes
  <2>3. QED
    BY <2>1, <2>2
<1>8. ASSUME NEW a \in Canceller, Cancellation(a)
      PROVE  DbTypes' /\ MemoryTypes' /\ JobTypes' /\ CountTypes'
  <2>1. MemoryTypes' /\ CountTypes'
    BY <1>8, MemoryKept, CountKept DEF Cancellation, ListActive, CancelReads, CancelSaves, CancelEnds
  <2>2. CASE ListActive(a)
    <3>1. JobTypes'
      BY <2>2 DEF ListActive, JobTypes
    <3>2. QED
      BY <2>1, <2>2, <3>1, DbKept DEF ListActive
  <2>3. CASE CancelReads(a)
    <3>1. PICK s \in todo[a] :
            /\ todo' = [todo EXCEPT ![a] = @ \ {s}]
            /\ \E n \in Signal \union {None} : target' = [target EXCEPT ![a] = n]
            /\ seenFilled' = [seenFilled EXCEPT ![a] = 0]
               \/ seenFilled' = [seenFilled EXCEPT ![a] = order[s].filled]
      BY <2>3 DEF CancelReads, JobTypes
    <3>2. s \in Signal /\ order[s].filled \in 0 .. Lots /\ 0 \in 0 .. Lots
      BY DEF DbTypes, JobTypes, OrderRow
    <3>3. todo' \in [Canceller -> SUBSET Signal] /\ target' \in [Canceller -> Signal \union {None}]
      BY <3>1, <3>2 DEF JobTypes
    <3>4. seenFilled' \in [Canceller -> 0 .. Lots]
      BY <3>1, <3>2 DEF JobTypes
    <3>5. JobTypes'
      BY <2>3, <3>3, <3>4 DEF CancelReads, JobTypes
    <3>6. QED
      BY <2>1, <2>3, <3>5, DbKept DEF CancelReads
  <2>4. CASE CancelSaves(a)
    <3>1. JobTypes'
      <4>1. 0 \in 0 .. Lots
        OBVIOUS
      <4>2. QED
        BY <2>4, <4>1 DEF CancelSaves, JobTypes
    <3>2. [status |-> "CANCELED", filled |-> seenFilled[a]] \in OrderRow
      BY DEF JobTypes, OrderRow, Status
    <3>3. DbTypes'
      BY <2>4, <3>2 DEF CancelSaves, DbTypes
    <3>4. QED
      BY <2>1, <3>1, <3>3
  <2>5. CASE CancelEnds(a)
    BY <2>1, <2>5, JobOver, DbKept DEF CancelEnds
  <2>6. QED
    BY <1>8, <2>2, <2>3, <2>4, <2>5 DEF Cancellation
<1>9. ASSUME NEW a \in Canceller, CancelFails(a)
      PROVE  DbTypes' /\ MemoryTypes' /\ JobTypes' /\ CountTypes'
  <2>1. DbTypes' /\ CountTypes'
    BY <1>9, CountKept DEF CancelFails, DbTypes
  <2>2. CASE a = "trader"
    BY <1>9, <2>1, <2>2, Abort DEF CancelFails
  <2>3. CASE a # "trader"
    BY <1>9, <2>1, <2>3, JobOver, MemoryKept DEF CancelFails
  <2>4. QED
    BY <2>2, <2>3
<1>10. CASE (\E s \in Signal : BarTaken(s)) \/ Heartbeat \/ Routing
  <2>1. db' = db /\ job' = job /\ CountTypes'
    BY <1>10, CountKept DEF BarTaken, Heartbeat, Routing, NoSignal, ReadControl, GatePasses,
                            GateRejects, db, job
  <2>2. CASE (\E s \in Signal : BarTaken(s)) \/ Heartbeat \/ ReadControl
    <3>1. ReduceOnlyMode \in BOOLEAN
      BY DEF DbTypes, ReduceOnlyMode
    <3>2. MemoryTypes'
      BY <2>2, <3>1 DEF BarTaken, Heartbeat, ReadControl, MemoryTypes, PC, Submitting
    <3>3. QED
      BY <2>1, <3>2, DbKept, JobKept
  <2>3. CASE NoSignal \/ GatePasses \/ GateRejects
    BY <2>1, <2>3, DbKept, JobKept, Goes, Leaves DEF NoSignal, GatePasses, GateRejects, PC, Submitting
  <2>4. QED
    BY <1>10, <2>2, <2>3 DEF Routing
<1>11. CASE Submission
  <2>1. JobTypes'
    BY <1>11, JobKept DEF Submission, SaveIntent, AlreadySubmitted, SaveOrder, VenueReports,
          VenueRaises, MarkSubmitted, ApplyUpdate, UpdatesApplied, SaveFill, SavePosition,
          LedgerRefuses, SaveBalance, Submitted, SubmissionOvertaken
  <2>2. CASE SaveIntent \/ MarkSubmitted \/ SavePosition
    <3>1. DbTypes' /\ CountTypes'
      BY <2>2, CountKept DEF SaveIntent, MarkSubmitted, SavePosition, DbTypes
    <3>2. QED
      BY <2>1, <2>2, <3>1, Goes DEF SaveIntent, MarkSubmitted, SavePosition, PC, Submitting
  <2>3. CASE AlreadySubmitted \/ LedgerRefuses \/ Submitted
    BY <2>1, <2>3, DbKept, CountKept, Leaves DEF AlreadySubmitted, LedgerRefuses, Submitted, PC
  <2>4. CASE VenueRaises \/ SubmissionOvertaken
    <3>1. DbTypes' /\ CountTypes'
      BY <2>4, CountKept DEF VenueRaises, SubmissionOvertaken, DbTypes
    <3>2. QED
      BY <2>1, <2>4, <3>1, Leaves DEF VenueRaises, SubmissionOvertaken, PC
  <2>5. CASE SaveOrder
    <3>1. [status |-> "NEW", filled |-> 0] \in OrderRow
      BY DEF OrderRow, Status
    <3>2. DbTypes' /\ CountTypes'
      BY <2>5, <3>1, CountKept DEF SaveOrder, DbTypes
    <3>3. QED
      BY <2>1, <2>5, <3>2, Goes DEF SaveOrder, PC, Submitting
  <2>6. CASE VenueReports
    <3>1. PICK r \in Report :
            /\ report' = r
            /\ executed' = [executed EXCEPT ![cur] = IF r.lots > @ THEN r.lots ELSE @]
      BY <2>6 DEF VenueReports
    <3>2. r.lots \in 0 .. Lots
      BY DEF Report
    <3>3. CountTypes'
      BY <2>6, <3>1, <3>2 DEF VenueReports, CountTypes, NoFault
    <3>4. MemoryTypes'
      BY <2>6, <3>1 DEF VenueReports, MemoryTypes, PC, Submitting
    <3>5. QED
      BY <2>1, <2>6, <3>3, <3>4, DbKept DEF VenueReports
  <2>7. CASE ApplyUpdate
    <3>1. Update(report, step + 1) \in OrderRow
      BY <2>7, UpdateTypes DEF MemoryTypes, ApplyUpdate
    <3>2. DbTypes'
      BY <2>7, <3>1 DEF ApplyUpdate, DbTypes
    <3>3. MemoryTypes' /\ CountTypes'
      BY <2>7, CountKept DEF ApplyUpdate, MemoryTypes
    <3>4. QED
      BY <2>1, <3>2, <3>3
  <2>8. CASE UpdatesApplied \/ SaveFill \/ SaveBalance
    <3>1. CountTypes'
      BY <2>8, CountKept DEF UpdatesApplied, SaveFill, SaveBalance
    <3>2. DbTypes'
      BY <2>8, DbKept DEF UpdatesApplied, SaveFill, SaveBalance, DbTypes, MemoryTypes
    <3>3. MemoryTypes'
      BY <2>8 DEF UpdatesApplied, SaveFill, SaveBalance, MemoryTypes, PC, Submitting
    <3>4. QED
      BY <2>1, <3>1, <3>2, <3>3
  <2>9. QED
    BY <1>11, <2>2, <2>3, <2>4, <2>5, <2>6, <2>7, <2>8 DEF Submission
<1>12. CASE SubmissionFails
  <2>1. DbTypes' /\ CountTypes'
    BY <1>12, CountKept DEF SubmissionFails, DbTypes
  <2>2. QED
    BY <1>12, <2>1, JobKept, Leaves DEF SubmissionFails, PC
<1>13. CASE Stop
  BY <1>13, Downs, DbKept, CountKept DEF Stop
<1>14. CASE Crash
  BY <1>14, Downs, DbKept DEF Crash, CountTypes
<1>15. CASE UNCHANGED vars
  BY <1>15, DbKept, MemoryKept, JobKept DEF vars, CountTypes
<1>16. QED
  BY <1>1, <1>2, <1>3, <1>4, <1>5, <1>6, <1>7, <1>8, <1>9, <1>10, <1>11, <1>12, <1>13, <1>14,
     <1>15 DEF Next, Reconciliation

\* The variables of the order book keep their types, whatever happens.
THEOREM TypeCorrect == Spec => []TypeOK
BY InitTypes, NextTypes, PTL DEF Spec

-----------------------------------------------------------------------------
(***************************************************************************)
(* The inductive invariant.  Its parts are disturbed by different steps:   *)
(* RecordsInv by those that write records, SubmissionInv also by those of  *)
(* the submission, CancelInv by the cancellers and by those that enter or  *)
(* leave the protective cancel-all.                                        *)
(***************************************************************************)
records == <<intent, order, fills, posted, paid>>

LEMMA RecordsKept == RecordsInv /\ UNCHANGED <<records, executed>> => RecordsInv'
BY DEF RecordsInv, records, Untouched

\* No submission is under way after the step.
LEMMA SubmissionIdle ==
    ASSUME pc' \notin Submitting \union {"strategy"}, step' = 0, report'.kind # "executed" => report'.lots = 0
    PROVE  SubmissionInv'
BY DEF SubmissionInv, Submitting, Recording

LEMMA SubmissionKept == SubmissionInv /\ UNCHANGED <<records, memory>> => SubmissionInv'
BY DEF SubmissionInv, records, memory, Updates

\* The trader neither enters nor leaves the protective cancel-all.
LEMMA CancelKept ==
    ASSUME CancelInv, UNCHANGED job, UNCHANGED order,
           pc' = pc \/ (pc # "cancel" /\ pc' # "cancel")
    PROVE  CancelInv'
BY DEF CancelInv, ProtectionSweeps, job

LEMMA CancelOrders ==
    ASSUME CancelInv, UNCHANGED job, pc # "cancel", pc' # "cancel",
           \A s \in Signal : order[s].status # "none" => order'[s].status # "none",
           JobTypes
    PROVE  CancelInv'
BY DEF CancelInv, ProtectionSweeps, job, JobTypes

LEMMA CancelLeft ==
    ASSUME CancelInv, JobTypes, CancelOver("trader"), UNCHANGED order, pc' # "cancel"
    PROVE  CancelInv'
BY DEF CancelInv, ProtectionSweeps, JobTypes, CancelOver, Canceller

LEMMA CancelOperatorOver ==
    ASSUME CancelInv, JobTypes, CancelOver("operator"), UNCHANGED <<order, pc>>
    PROVE  CancelInv'
BY DEF CancelInv, ProtectionSweeps, JobTypes, CancelOver, Canceller

\* The last update of a report of executions leaves the order traded.
LEMMA LastUpdate ==
    ASSUME NEW r \in Report, r.kind # "executed" => r.lots = 0, r.lots > 0
    PROVE  Updates(r) > 0 /\ Update(r, Updates(r)).status \in Traded
BY DEF Report, Updates, Update, Traded

LEMMA UpdateStatus ==
    ASSUME NEW r, NEW k
    PROVE  Update(r, k).status # "none"
BY DEF Update

LEMMA InitOms == Init => OmsInv
<1> SUFFICES ASSUME Init PROVE OmsInv
  OBVIOUS
<1>1. RecordsInv
  <2>1. \A s \in Signal :
           /\ intent[s] = "none" /\ order[s].status = "none" /\ executed[s] = 0
           /\ fills[s] = 0 /\ posted[s] = 0 /\ paid[s] = 0
    BY DEF Init, NoOrder
  <2>2. 0 <= Lots
    OBVIOUS
  <2>3. ASSUME NEW s \in Signal
        PROVE  /\ paid[s] <= posted[s] /\ posted[s] <= fills[s] /\ fills[s] <= Lots
               /\ fills[s] > 0 => order[s].status \in Traded
               /\ executed[s] > 0 => order[s].status # "none"
    BY <2>1, <2>2
  <2>4. QED
    BY <2>1, <2>3, Zenon DEF RecordsInv, Untouched
<1>2. SubmissionInv
  BY DEF Init, SubmissionInv, Submitting, Recording, Empty
<1>3. CancelInv
  BY DEF Init, CancelInv, ProtectionSweeps, Canceller
<1>4. QED
  BY <1>1, <1>2, <1>3 DEF OmsInv

LEMMA OmsNext == TypeOK /\ OmsInv /\ [Next]_vars => OmsInv'
<1> SUFFICES ASSUME DbTypes, MemoryTypes, JobTypes, CountTypes, OmsInv, [Next]_vars
             PROVE  OmsInv'
  BY Groups
<1>0. RecordsInv /\ SubmissionInv /\ CancelInv
  BY DEF OmsInv
<1>1. CASE Startup \/ ReconcileDue \/ CheckPasses \/ CheckAlarms \/ SetKillSwitch
  <2>1. UNCHANGED <<records, executed, job>>
    BY <1>1 DEF Startup, Start, Recover, RecoverFails, ReconcileDue, CheckPasses, CheckAlarms,
                SetKillSwitch, db, records
  <2>2. SubmissionInv'
    <3>1. CASE SetKillSwitch
      BY <1>0, <2>1, <3>1, SubmissionKept DEF SetKillSwitch
    <3>2. CASE ~SetKillSwitch
      <4>1. /\ pc \notin Submitting \union {"strategy"} /\ pc' \notin Submitting \union {"strategy"}
            /\ UNCHANGED <<step, report>>
        BY <1>1, <3>2 DEF Startup, Start, Recover, RecoverFails, ReconcileDue, CheckPasses,
                          CheckAlarms, Go, Submitting
      <4>2. step = 0 /\ (report.kind # "executed" => report.lots = 0)
        BY <1>0, <4>1 DEF SubmissionInv, Submitting, Recording
      <4>3. QED
        BY <4>1, <4>2, SubmissionIdle
    <3>3. QED
      BY <3>1, <3>2
  <2>3. pc' = pc \/ (pc # "cancel" /\ pc' # "cancel")
    BY <1>1 DEF Startup, Start, Recover, RecoverFails, ReconcileDue, CheckPasses, CheckAlarms,
                SetKillSwitch, Go, memory
  <2>4. CancelInv'
    BY <1>0, <2>1, <2>3, CancelKept DEF records
  <2>5. QED
    BY <1>0, <2>1, <2>2, <2>4, RecordsKept DEF OmsInv
<1>2. CASE Engage \/ Engaged
  <2>1. UNCHANGED <<records, executed>>
    BY <1>2 DEF Engage, Engaged, db, records
  <2>2. SubmissionInv'
    <3>1. /\ pc \notin Submitting \union {"strategy"} /\ pc' \notin Submitting \union {"strategy"}
          /\ UNCHANGED <<step, report>>
      BY <1>2 DEF Engage, Engaged, Go, Submitting, MemoryTypes
    <3>2. step = 0 /\ (report.kind # "executed" => report.lots = 0)
      BY <1>0, <3>1 DEF SubmissionInv, Submitting, Recording
    <3>3. QED
      BY <3>1, <3>2, SubmissionIdle
  <2>3. ASSUME Engage PROVE CancelInv'
    BY <1>0, <2>1, <2>3 DEF Engage, Go, CancelBegins, CancelInv, ProtectionSweeps, JobTypes, Canceller, records
  <2>4. ASSUME Engaged PROVE CancelInv'
    BY <1>0, <2>1, <2>4 DEF Engaged, CancelInv, ProtectionSweeps, job, records, MemoryTypes
  <2>5. QED
    BY <1>0, <1>2, <2>1, <2>2, <2>3, <2>4, RecordsKept DEF OmsInv
<1>3. ASSUME Aborts \/ Down, UNCHANGED <<records, executed>>, pc \notin Submitting \union {"strategy"} \/ Down
      PROVE  OmsInv'
  <2>1. SubmissionInv'
    <3>1. CASE Down
      BY <3>1, SubmissionIdle DEF Down, Empty, Submitting
    <3>2. CASE ~Down
      <4>1. pc' = "idle" /\ UNCHANGED <<step, report>>
        BY <1>3, <3>2 DEF Aborts
      <4>2. step = 0 /\ (report.kind # "executed" => report.lots = 0)
        BY <1>0, <1>3, <3>2 DEF SubmissionInv, Submitting, Recording
      <4>3. QED
        BY <4>1, <4>2, SubmissionIdle DEF Submitting
    <3>3. QED
      BY <3>1, <3>2
  <2>2. CancelOver("trader") /\ pc' # "cancel"
    BY <1>3 DEF Aborts, Down
  <2>3. CancelInv'
    BY <1>0, <1>3, <2>2, CancelLeft DEF records
  <2>4. QED
    BY <1>0, <1>3, <2>1, <2>3, RecordsKept DEF OmsInv
<1>4. CASE EngageFails \/ Stop \/ Crash
  <2>1. UNCHANGED <<records, executed>>
    BY <1>4 DEF EngageFails, Stop, Crash, db, records
  <2>2. QED
    BY <1>3, <1>4, <2>1 DEF EngageFails, Stop, Crash, Submitting
<1>5. CASE OperatorCancelsAll \/ CancelOvertaken
  <2>1. UNCHANGED <<records, memory, executed>>
    BY <1>5 DEF OperatorCancelsAll, CancelOvertaken, db, records
  <2>2. ASSUME OperatorCancelsAll PROVE CancelInv'
    BY <1>0, <2>1, <2>2 DEF OperatorCancelsAll, CancelBegins, CancelInv, ProtectionSweeps,
                            JobTypes, Canceller, records, memory
  <2>3. ASSUME CancelOvertaken PROVE CancelInv'
    BY <1>0, <2>1, <2>3, CancelOperatorOver DEF CancelOvertaken, records, memory
  <2>4. QED
    BY <1>0, <1>5, <2>1, <2>2, <2>3, RecordsKept, SubmissionKept DEF OmsInv
<1>6. ASSUME NEW a \in Canceller, Cancellation(a) PROVE OmsInv'
  <2>1. CASE ListActive(a)
    <3>1. UNCHANGED <<records, memory, executed>>
      BY <2>1 DEF ListActive, db, records
    <3>2. CancelInv'
      BY <1>0, <2>1, <3>1 DEF ListActive, CancelInv, ProtectionSweeps, JobTypes, Canceller,
                              records, memory, Active
    <3>3. QED
      BY <1>0, <3>1, <3>2, RecordsKept, SubmissionKept DEF OmsInv
  <2>2. CASE CancelReads(a)
    <3>1. UNCHANGED <<records, memory, executed, phase>>
      BY <2>2 DEF CancelReads, db, records
    <3>2. PICK s \in todo[a] :
            LET skip == (kept[a] /\ s \in Reduce) \/ order[s].status \notin Active
            IN  /\ todo' = [todo EXCEPT ![a] = @ \ {s}]
                /\ target' = [target EXCEPT ![a] = IF skip THEN None ELSE s]
      BY <2>2 DEF CancelReads
    <3>3. CancelInv'
      BY <1>0, <2>2, <3>1, <3>2 DEF CancelReads, CancelInv, ProtectionSweeps, JobTypes, Canceller,
                              records, memory
    <3>4. QED
      BY <1>0, <3>1, <3>3, RecordsKept, SubmissionKept DEF OmsInv
  <2>3. CASE CancelSaves(a)
    <3>1. /\ target[a] \in Signal /\ order[target[a]].status # "none"
          /\ UNCHANGED <<intent, fills, posted, paid, memory, executed, phase, todo>>
      BY <1>0, <2>3 DEF CancelSaves, JobTypes, CancelInv
    <3>2. \A s \in Signal :
            /\ s = target[a] => order'[s].status = "CANCELED"
            /\ s # target[a] => order'[s] = order[s]
      BY <2>3, <3>1 DEF CancelSaves, DbTypes
    <3>3. RecordsInv'
      BY <1>0, <3>1, <3>2 DEF RecordsInv, Untouched, Traded
    <3>4. SubmissionInv'
      BY <1>0, <3>1, <3>2 DEF SubmissionInv, memory, Traded, Updates, Submitting, Recording
    <3>5. CancelInv'
      BY <1>0, <2>3, <3>1, <3>2 DEF CancelSaves, CancelInv, ProtectionSweeps, JobTypes, Canceller, memory, Active
    <3>6. QED
      BY <3>3, <3>4, <3>5 DEF OmsInv
  <2>4. CASE CancelEnds(a)
    <3>1. UNCHANGED <<records, memory, executed>>
      BY <2>4 DEF CancelEnds, db, records
    <3>2. CancelInv'
      BY <1>0, <2>4, <3>1 DEF CancelEnds, CancelOver, CancelInv, ProtectionSweeps, JobTypes,
                              Canceller, records, memory
    <3>3. QED
      BY <1>0, <3>1, <3>2, RecordsKept, SubmissionKept DEF OmsInv
  <2>5. QED
    BY <1>6, <2>1, <2>2, <2>3, <2>4 DEF Cancellation
<1>7. ASSUME NEW a \in Canceller, CancelFails(a) PROVE OmsInv'
  <2>1. UNCHANGED <<records, executed>>
    BY <1>7 DEF CancelFails, records
  <2>2. CASE a = "trader"
    <3>1. pc = "cancel"
      BY <1>0, <1>7, <2>2 DEF CancelFails, CancelInv
    <3>2. QED
      BY <1>3, <1>7, <2>1, <2>2, <3>1 DEF CancelFails, Submitting
  <2>3. CASE a = "operator"
    <3>1. CancelOver("operator") /\ UNCHANGED memory
      BY <1>7, <2>3 DEF CancelFails
    <3>2. CancelInv'
      BY <1>0, <2>1, <3>1, CancelOperatorOver DEF records, memory
    <3>3. QED
      BY <1>0, <2>1, <3>1, <3>2, RecordsKept, SubmissionKept DEF OmsInv
  <2>4. QED
    BY <2>2, <2>3 DEF Canceller
<1>8. CASE (\E s \in Signal : BarTaken(s)) \/ Heartbeat \/ Routing
  <2>1. UNCHANGED <<records, executed, job>> /\ pc # "cancel" /\ pc' # "cancel"
    BY <1>8 DEF BarTaken, Heartbeat, Routing, NoSignal, ReadControl, GatePasses, GateRejects,
                Go, Leave, db, records
  <2>2. CancelInv'
    BY <1>0, <2>1, CancelKept DEF records
  <2>3. pc \in {"idle", "strategy", "gate"} /\ pc' \in {"idle", "strategy", "gate", "intent"}
    BY <1>8 DEF BarTaken, Heartbeat, Routing, NoSignal, ReadControl, GatePasses, GateRejects,
                Go, Leave
  <2>4. step = 0 /\ step' = 0 /\ (report'.kind # "executed" => report'.lots = 0)
    BY <1>0, <1>8, <2>3 DEF SubmissionInv, Recording, BarTaken, Heartbeat, Routing, NoSignal,
            ReadControl, GatePasses, GateRejects, Go, Leave, Empty
  <2>5. pc' # "idle" => cur' \in Signal
    BY <1>0, <1>8, <2>3 DEF SubmissionInv, Submitting, BarTaken, Heartbeat, Routing, NoSignal,
            ReadControl, GatePasses, GateRejects, Go, Leave
  <2>6. SubmissionInv'
    BY <2>3, <2>4, <2>5 DEF SubmissionInv, Submitting, Recording
  <2>7. QED
    BY <1>0, <2>1, <2>2, <2>6, RecordsKept DEF OmsInv
<1>9. ASSUME NEW where \in {"idle", "failed"}, Leave(where), UNCHANGED <<records, executed, job>>,
             pc # "cancel"
      PROVE  OmsInv'
  <2>1. SubmissionInv'
    BY <1>9, SubmissionIdle DEF Leave, Submitting, Empty
  <2>2. CancelInv'
    BY <1>0, <1>9, CancelKept DEF Leave, records
  <2>3. QED
    BY <1>0, <1>9, <2>1, <2>2, RecordsKept DEF OmsInv
<1>10. CASE Submission
  <2>1. job' = job /\ pc # "cancel" /\ pc' # "cancel"
    BY <1>10 DEF Submission, SaveIntent, AlreadySubmitted, SaveOrder, VenueReports,
          VenueRaises, MarkSubmitted, ApplyUpdate, UpdatesApplied, SaveFill, SavePosition,
          LedgerRefuses, SaveBalance, Submitted, SubmissionOvertaken, Go, Leave
  <2>2. cur \in Signal /\ pc \in Submitting
    BY <1>0, <1>10 DEF SubmissionInv, Submitting, Submission, SaveIntent, AlreadySubmitted,
          SaveOrder, VenueReports, VenueRaises, MarkSubmitted, ApplyUpdate, UpdatesApplied,
          SaveFill, SavePosition, LedgerRefuses, SaveBalance, Submitted, SubmissionOvertaken
  <2>3. CASE AlreadySubmitted \/ VenueRaises \/ LedgerRefuses \/ Submitted \/ SubmissionOvertaken
    <3>1. UNCHANGED <<records, executed>>
      BY <2>3 DEF AlreadySubmitted, VenueRaises, LedgerRefuses, Submitted, SubmissionOvertaken,
                  db, records
    <3>2. Leave("idle") \/ Leave("failed")
      BY <2>3 DEF AlreadySubmitted, VenueRaises, LedgerRefuses, Submitted, SubmissionOvertaken
    <3>3. QED
      BY <1>9, <2>1, <3>1, <3>2
  <2>4. CASE SaveIntent \/ MarkSubmitted
    <3>1. UNCHANGED <<order, fills, posted, paid, executed, cur, report, step>>
      BY <2>4 DEF SaveIntent, MarkSubmitted, Go
    <3>2. CancelInv'
      BY <1>0, <2>1, <3>1, CancelKept
    <3>3. \A s \in Signal : s # cur => intent'[s] = intent[s]
      BY <2>2, <2>4 DEF SaveIntent, MarkSubmitted, DbTypes
    <3>4. CASE SaveIntent
      <4>1. intent[cur] # "SUBMITTED" /\ intent'[cur] = "NEW" /\ pc = "intent" /\ pc' = "order"
        BY <2>2, <3>4 DEF SaveIntent, DbTypes, Go
      <4>2. RecordsInv'
        BY <1>0, <3>1, <3>3, <4>1 DEF RecordsInv, Untouched
      <4>3. SubmissionInv'
        BY <1>0, <2>2, <3>1, <4>1 DEF SubmissionInv, Submitting, Recording
      <4>4. QED
        BY <3>2, <4>2, <4>3 DEF OmsInv
    <3>5. CASE MarkSubmitted
      <4>1. intent[cur] = "NEW" /\ intent'[cur] = "SUBMITTED" /\ pc = "mark" /\ pc' = "apply" /\ order[cur].status # "none"
        BY <1>0, <2>2, <3>5 DEF MarkSubmitted, DbTypes, Go, SubmissionInv
      <4>2. RecordsInv'
        BY <1>0, <3>1, <3>3, <4>1 DEF RecordsInv, Untouched
      <4>3. step = 0 /\ fills[cur] = 0 /\ (report.kind # "executed" => report.lots = 0)
        BY <1>0, <2>2, <4>1 DEF RecordsInv, Untouched, SubmissionInv, Recording
      <4>4. Updates(report) \in Nat /\ (report.lots > 0 => Updates(report) > 0)
        BY <4>3, UpdateTypes, LastUpdate DEF MemoryTypes
      <4>5. SubmissionInv'
        BY <2>2, <3>1, <4>1, <4>3, <4>4 DEF SubmissionInv, Submitting, Recording, Updates
      <4>6. QED
        BY <3>2, <4>2, <4>5 DEF OmsInv
    <3>6. QED
      BY <2>4, <3>4, <3>5
  <2>5. CASE SaveOrder
    <3>1. /\ UNCHANGED <<intent, fills, posted, paid, executed, cur, report, step>>
          /\ pc = "order" /\ pc' = "gateway" /\ intent[cur] = "NEW"
      BY <1>0, <2>5 DEF SaveOrder, Go, SubmissionInv
    <3>2. \A s \in Signal : /\ s = cur => order'[s].status = "NEW"
                            /\ s # cur => order'[s] = order[s]
      BY <2>2, <2>5 DEF SaveOrder, DbTypes
    <3>3. RecordsInv'
      BY <1>0, <2>2, <3>1, <3>2 DEF RecordsInv, Untouched
    <3>4. SubmissionInv'
      BY <1>0, <2>2, <3>1, <3>2 DEF SubmissionInv, Submitting, Recording
    <3>5. CancelInv'
      BY <1>0, <2>1, <3>2, CancelOrders
    <3>6. QED
      BY <3>3, <3>4, <3>5 DEF OmsInv
  <2>6. CASE VenueReports
    <3>1. /\ UNCHANGED <<records, cur, step>> /\ pc = "gateway" /\ pc' = "mark"
          /\ report'.kind # "executed" => report'.lots = 0
          /\ \A s \in Signal : s # cur => executed'[s] = executed[s]
      BY <2>6 DEF VenueReports, db, records, CountTypes
    <3>2. intent[cur] = "NEW" /\ order[cur].status # "none" /\ step = 0
      BY <1>0, <3>1 DEF SubmissionInv, Recording
    <3>3. RecordsInv'
      BY <1>0, <3>1, <3>2 DEF RecordsInv, Untouched, records
    <3>4. SubmissionInv'
      BY <2>2, <3>1, <3>2 DEF SubmissionInv, Submitting, Recording, records
    <3>5. QED
      BY <1>0, <2>1, <3>1, <3>3, <3>4, CancelKept DEF OmsInv, records
  <2>7. CASE ApplyUpdate
    <3>1. /\ UNCHANGED <<intent, fills, posted, paid, executed, cur, report, pc>>
          /\ pc = "apply" /\ step < Updates(report) /\ step' = step + 1
          /\ intent[cur] = "SUBMITTED" /\ fills[cur] = 0
          /\ report.kind # "executed" => report.lots = 0
      BY <1>0, <2>7 DEF ApplyUpdate, SubmissionInv, Recording
    <3>2. \A s \in Signal : /\ s = cur => order'[s] = Update(report, step')
                            /\ s # cur => order'[s] = order[s]
      BY <2>2, <2>7 DEF ApplyUpdate, DbTypes
    <3>3. order'[cur].status # "none"
      BY <2>2, <3>2, UpdateStatus
    <3>4. RecordsInv'
      BY <1>0, <2>2, <3>1, <3>2, <3>3 DEF RecordsInv, Untouched, DbTypes
    <3>5. step \in Nat /\ Updates(report) \in Nat
      BY UpdateTypes DEF MemoryTypes
    <3>6. step' = Updates(report) /\ report.lots > 0 => order'[cur].status \in Traded
      BY <2>2, <3>1, <3>2, LastUpdate DEF MemoryTypes
    <3>7. SubmissionInv'
      BY <2>2, <3>1, <3>5, <3>6 DEF SubmissionInv, Submitting, Recording, Updates
    <3>8. CancelInv'
      BY <1>0, <2>1, <3>2, <3>3, CancelOrders
    <3>9. QED
      BY <3>4, <3>7, <3>8 DEF OmsInv
  <2>8. CASE UpdatesApplied
    <3>1. /\ UNCHANGED <<records, executed, cur, report>>
          /\ pc = "apply" /\ step = Updates(report) /\ step' = 0 /\ pc' = "fill"
          /\ intent[cur] = "SUBMITTED" /\ fills[cur] = 0
          /\ report.kind # "executed" => report.lots = 0
          /\ report.lots > 0 => order[cur].status \in Traded
      BY <1>0, <2>8 DEF UpdatesApplied, SubmissionInv, Recording, db, records
    <3>2. paid[cur] = 0 /\ 0 <= report.lots
      BY <1>0, <2>2, <3>1 DEF RecordsInv, DbTypes, MemoryTypes, Report
    <3>3. SubmissionInv'
      BY <2>2, <3>1, <3>2 DEF SubmissionInv, Submitting, Recording, records
    <3>4. QED
      BY <1>0, <2>1, <3>1, <3>3, RecordsKept, CancelKept DEF OmsInv, records
  <2>9. CASE SaveFill \/ SavePosition \/ SaveBalance
    <3>1. /\ UNCHANGED <<intent, order, executed, cur, report>>
          /\ intent[cur] = "SUBMITTED"
          /\ report.kind # "executed" => report.lots = 0
          /\ report.lots > 0 => order[cur].status \in Traded
          /\ pc \in {"fill", "position", "balance"}
      BY <1>0, <2>9 DEF SaveFill, SavePosition, SaveBalance, Go, SubmissionInv, Recording
    <3>2. /\ step \in Nat /\ report.lots \in 0 .. Lots
          /\ fills[cur] \in Nat /\ posted[cur] \in Nat /\ paid[cur] \in Nat
          /\ paid[cur] <= posted[cur] /\ posted[cur] <= fills[cur]
      BY <1>0, <2>2 DEF MemoryTypes, DbTypes, Report, RecordsInv
    <3>3. CancelInv'
      BY <1>0, <2>1, <3>1, CancelKept
    <3>4. CASE SaveFill
      <4>1. pc = "fill" /\ fills[cur] = step /\ paid[cur] = step /\ step < report.lots
        BY <1>0, <3>4 DEF SaveFill, SubmissionInv
      <4>2. /\ UNCHANGED <<posted, paid, step>> /\ pc' = "position" /\ fills'[cur] = step + 1
            /\ \A s \in Signal : s # cur => fills'[s] = fills[s]
        BY <2>2, <3>2, <3>4, <4>1 DEF SaveFill, DbTypes
      <4>3. RecordsInv'
        BY <1>0, <2>2, <3>1, <3>2, <4>1, <4>2 DEF RecordsInv, Untouched
      <4>4. SubmissionInv'
        BY <2>2, <3>1, <3>2, <4>1, <4>2 DEF SubmissionInv, Submitting, Recording
      <4>5. QED
        BY <3>3, <4>3, <4>4 DEF OmsInv
    <3>5. CASE SavePosition
      <4>1. /\ pc = "position" /\ fills[cur] = step + 1 /\ paid[cur] = step
            /\ posted[cur] = step /\ step < report.lots
        BY <1>0, <3>5 DEF SavePosition, SubmissionInv
      <4>2. /\ UNCHANGED <<fills, paid, step>> /\ pc' = "balance" /\ posted'[cur] = step + 1
            /\ \A s \in Signal : s # cur => posted'[s] = posted[s]
        BY <2>2, <3>5, <4>1 DEF SavePosition, Go, DbTypes
      <4>3. RecordsInv'
        BY <1>0, <2>2, <3>1, <3>2, <4>1, <4>2 DEF RecordsInv, Untouched
      <4>4. SubmissionInv'
        BY <2>2, <3>1, <3>2, <4>1, <4>2 DEF SubmissionInv, Submitting, Recording
      <4>5. QED
        BY <3>3, <4>3, <4>4 DEF OmsInv
    <3>6. CASE SaveBalance
      <4>1. /\ pc = "balance" /\ fills[cur] = step + 1 /\ paid[cur] = step
            /\ posted[cur] = step + 1 /\ step < report.lots
        BY <1>0, <3>6 DEF SaveBalance, SubmissionInv
      <4>2. /\ UNCHANGED <<fills, posted>> /\ pc' = "fill" /\ step' = step + 1
            /\ paid'[cur] = step + 1
            /\ \A s \in Signal : s # cur => paid'[s] = paid[s]
        BY <2>2, <3>6, <4>1 DEF SaveBalance, DbTypes
      <4>3. RecordsInv'
        BY <1>0, <2>2, <3>1, <3>2, <4>1, <4>2 DEF RecordsInv, Untouched
      <4>4. SubmissionInv'
        BY <2>2, <3>1, <3>2, <4>1, <4>2 DEF SubmissionInv, Submitting, Recording
      <4>5. QED
        BY <3>3, <4>3, <4>4 DEF OmsInv
    <3>7. QED
      BY <2>9, <3>4, <3>5, <3>6
  <2>10. QED
    BY <1>10, <2>3, <2>4, <2>5, <2>6, <2>7, <2>8, <2>9 DEF Submission
<1>11. CASE SubmissionFails
  BY <1>9, <1>11 DEF SubmissionFails, records, Submitting
<1>12. CASE UNCHANGED vars
  <2>1. UNCHANGED <<records, memory, executed, job>> /\ pc' = pc
    BY <1>12 DEF vars, db, records, memory
  <2>2. QED
    BY <1>0, <2>1, RecordsKept, SubmissionKept, CancelKept DEF OmsInv, records
<1>13. QED
  BY <1>1, <1>2, <1>4, <1>5, <1>6, <1>7, <1>8, <1>10, <1>11, <1>12 DEF Next, Reconciliation

\* Where the records of every signal stand at each step of its submission.
THEOREM OmsInvariant == Spec => []OmsInv
<1>1. Init => TypeOK /\ OmsInv
  BY InitTypes, InitOms
<1>2. TypeOK /\ OmsInv /\ [Next]_vars => (TypeOK /\ OmsInv)'
  BY NextTypes, OmsNext
<1>3. QED
  BY <1>1, <1>2, PTL DEF Spec

\* Intent before order before venue: no execution without its order, no order
\* without its intent, and no trading under an intent not known as submitted.
THEOREM WriteAheadHolds == Spec => []WriteAhead
<1>1. TypeOK /\ OmsInv => WriteAhead
  <2> SUFFICES ASSUME TypeOK, OmsInv, NEW s \in Signal
               PROVE  /\ executed[s] > 0 \/ intent[s] = "SUBMITTED" => order[s].status # "none"
                      /\ order[s].status # "none" => intent[s] # "none"
                      /\ order[s].status \notin {"none", "NEW", "CANCELED"} => intent[s] = "SUBMITTED"
                      /\ fills[s] > 0 => intent[s] = "SUBMITTED"
    BY DEF WriteAhead
  <2> QED
    BY DEF OmsInv, RecordsInv, Untouched
<1>2. QED
  BY <1>1, TypeCorrect, OmsInvariant, PTL

\* A protective cancel-all that is over has left no active opening order.
THEOREM ProtectionSweepsHolds == Spec => []ProtectionSweeps
<1>1. OmsInv => ProtectionSweeps
  BY DEF OmsInv, CancelInv
<1>2. QED
  BY <1>1, OmsInvariant, PTL

-----------------------------------------------------------------------------
(* The refinement: every step of the order book is one of the abstract book,*)
(* or changes nothing of it.                                                *)

LEMMA BookInit == Init => Book!Init
BY DEF Init, Book!Init, NoOrder

LEMMA BookTransitions ==
    ASSUME NEW old \in Status, NEW new \in Status, old # new,
           new \in Transitions[old] \/ (old = "none" /\ new = "NEW")
    PROVE  new \in Book!Transitions[old]
BY DEF Status, Transitions, Book!Status, Book!Transitions

\* A saved order stays in its state, or advances it along the state machine.
LEMMA BookAdvances ==
    ASSUME DbTypes, NEW s \in Signal, NEW row \in OrderRow,
           CanSave(s, row.status), order[s].status = "none" => row.status = "NEW",
           order' = [order EXCEPT ![s] = row], UNCHANGED <<fills, posted, paid>>
    PROVE  [Book!Next]_(Book!book)
<1>1. order[s].status \in Status /\ row.status \in Status
  BY DEF DbTypes, OrderRow
<1>2. \A r \in Signal : order'[r].status = IF r = s THEN row.status ELSE order[r].status
  BY DEF DbTypes
<1>3. CASE order[s].status = row.status
  BY <1>2, <1>3 DEF Book!book
<1>4. CASE order[s].status # row.status
  <2>1. row.status \in Book!Transitions[order[s].status]
    BY <1>1, <1>4, BookTransitions DEF CanSave
  <2>2. Book!Advance(s)
    BY <1>2, <2>1 DEF Book!Advance
  <2>3. QED
    BY <2>2 DEF Book!Next
<1>5. QED
  BY <1>3, <1>4

LEMMA BookNext == TypeOK /\ OmsInv /\ [Next]_vars => [Book!Next]_(Book!book)
<1> SUFFICES ASSUME DbTypes, MemoryTypes, JobTypes, OmsInv, [Next]_vars
             PROVE  [Book!Next]_(Book!book)
  BY Groups
<1>0. RecordsInv /\ SubmissionInv /\ CancelInv
  BY DEF OmsInv
<1>1. ASSUME UNCHANGED <<order, fills, posted, paid>> PROVE [Book!Next]_(Book!book)
  BY <1>1 DEF Book!book
<1>2. CASE Startup \/ ReconcileDue \/ Reconciliation \/ OperatorCancelsAll \/ SetKillSwitch
           \/ CancelOvertaken \/ Heartbeat \/ Routing \/ SubmissionFails \/ Stop \/ Crash
  BY <1>1, <1>2 DEF Startup, Start, Recover, RecoverFails, ReconcileDue, Reconciliation,
       CheckPasses, CheckAlarms, Engage, EngageFails, Engaged, OperatorCancelsAll, SetKillSwitch,
       CancelOvertaken, Heartbeat, Routing, NoSignal, ReadControl, GatePasses, GateRejects,
       SubmissionFails, Stop, Crash, db
<1>3. CASE \E s \in Signal : BarTaken(s)
  BY <1>1, <1>3 DEF BarTaken, db
<1>4. ASSUME NEW a \in Canceller, Cancellation(a) \/ CancelFails(a)
      PROVE  [Book!Next]_(Book!book)
  <2>1. CASE ListActive(a) \/ CancelReads(a) \/ CancelEnds(a) \/ CancelFails(a)
    BY <1>1, <2>1 DEF ListActive, CancelReads, CancelEnds, CancelFails, db
  <2>2. CASE CancelSaves(a)
    <3>1. target[a] \in Signal /\ order[target[a]].status # "none"
      BY <1>0, <2>2 DEF CancelSaves, JobTypes, CancelInv
    <3>2. [status |-> "CANCELED", filled |-> seenFilled[a]] \in OrderRow
      BY DEF JobTypes, OrderRow, Status
    <3>3. QED
      BY <2>2, <3>1, <3>2, BookAdvances DEF CancelSaves
  <2>3. QED
    BY <1>4, <2>1, <2>2 DEF Cancellation
<1>5. CASE Submission
  <2>1. CASE SaveIntent \/ AlreadySubmitted \/ VenueReports \/ VenueRaises \/ MarkSubmitted
             \/ UpdatesApplied \/ LedgerRefuses \/ Submitted \/ SubmissionOvertaken
    BY <1>1, <2>1 DEF SaveIntent, AlreadySubmitted, VenueReports, VenueRaises, MarkSubmitted,
         UpdatesApplied, LedgerRefuses, Submitted, SubmissionOvertaken, db
  <2>2. pc \in Submitting => cur \in Signal
    BY <1>0 DEF SubmissionInv
  <2>3. CASE SaveOrder
    <3>1. cur \in Signal /\ [status |-> "NEW", filled |-> 0] \in OrderRow
      BY <2>2, <2>3 DEF SaveOrder, Submitting, OrderRow, Status
    <3>2. QED
      BY <2>3, <3>1, BookAdvances DEF SaveOrder
  <2>4. CASE ApplyUpdate
    <3>1. cur \in Signal /\ intent[cur] = "SUBMITTED"
      BY <1>0, <2>2, <2>4 DEF ApplyUpdate, Submitting, Recording, SubmissionInv
    <3>2. order[cur].status # "none"
      BY <1>0, <3>1 DEF RecordsInv
    <3>3. Update(report, step + 1) \in OrderRow
      BY <2>4, UpdateTypes DEF MemoryTypes, ApplyUpdate
    <3>4. QED
      BY <2>4, <3>1, <3>2, <3>3, BookAdvances DEF ApplyUpdate
  <2>5. CASE SaveFill
    <3>1. /\ cur \in Signal /\ pc = "fill" /\ fills[cur] = step /\ step < report.lots
          /\ report.lots > 0 => order[cur].status \in Traded
      BY <1>0, <2>2, <2>5 DEF SaveFill, Submitting, SubmissionInv, Recording
    <3>2. step \in Nat /\ report.lots \in 0 .. Lots
      BY DEF MemoryTypes, Report
    <3>3. /\ fills' = [fills EXCEPT ![cur] = fills[cur] + 1] /\ UNCHANGED <<order, posted, paid>>
          /\ fills[cur] < Lots /\ order[cur].status \in Traded
      BY <2>5, <3>1, <3>2 DEF SaveFill
    <3>4. Book!Record(cur)
      BY <3>1, <3>3 DEF Book!Record, Traded
    <3>5. QED
      BY <3>1, <3>4 DEF Book!Next
  <2>6. CASE SavePosition
    <3>1. cur \in Signal /\ posted[cur] = step /\ fills[cur] = step + 1
      BY <1>0, <2>2, <2>6 DEF SavePosition, Submitting, SubmissionInv
    <3>2. posted[cur] < fills[cur]
      BY <3>1 DEF MemoryTypes
    <3>3. Book!Post(cur)
      BY <2>6, <3>2 DEF SavePosition, Book!Post
    <3>4. QED
      BY <3>1, <3>3 DEF Book!Next
  <2>7. CASE SaveBalance
    <3>1. cur \in Signal /\ paid[cur] = step /\ posted[cur] = step + 1
      BY <1>0, <2>2, <2>7 DEF SaveBalance, Submitting, SubmissionInv
    <3>2. paid[cur] < posted[cur]
      BY <3>1 DEF MemoryTypes
    <3>3. Book!Pay(cur)
      BY <2>7, <3>2 DEF SaveBalance, Book!Pay
    <3>4. QED
      BY <3>1, <3>3 DEF Book!Next
  <2>8. QED
    BY <1>5, <2>1, <2>3, <2>4, <2>5, <2>6, <2>7 DEF Submission
<1>6. CASE UNCHANGED vars
  BY <1>1, <1>6 DEF vars, db
<1>7. QED
  BY <1>2, <1>3, <1>4, <1>5, <1>6 DEF Next

\* The order book, under crashes, failing calls, cancellations and repeated
\* submissions, behaves as the abstract one.
THEOREM BookImplemented == Spec => ImplementsBook
<1>1. TypeOK /\ OmsInv /\ [Next]_vars => [Book!Next]_(Book!book)
  BY BookNext
<1>2. QED
  BY <1>1, BookInit, TypeCorrect, OmsInvariant, PTL DEF Spec, ImplementsBook, Book!Spec

-----------------------------------------------------------------------------
(* Executions and the ledger: the venue's report against what was paid.     *)

\* A signal is neither taken up nor left by the submission, and of the records
\* of one that is not in flight only the order may change.
LEMMA AccountKept ==
    ASSUME AccountInv,
           faults' = 0 /\ crashes' = 0 /\ ~protection' => faults = 0 /\ crashes = 0 /\ ~protection,
           \A s \in Signal : InFlight(s)' <=> InFlight(s),
           \A s \in Signal : InFlight(s) => report' = report,
           UNCHANGED executed,
           \A s \in Signal : ~InFlight(s) =>
               /\ fills'[s] = fills[s] /\ posted'[s] = posted[s] /\ paid'[s] = paid[s]
               /\ order[s].status # "none" => order'[s].status # "none"
    PROVE  AccountInv'
<1> SUFFICES ASSUME faults' = 0, crashes' = 0, ~protection', NEW s \in Signal
             PROVE  IF InFlight(s)' THEN executed'[s] = report'.lots
                    ELSE executed'[s] = paid'[s] \/ (posted'[s] # fills'[s] /\ order'[s].status # "none")
  BY DEF AccountInv
<1>1. IF InFlight(s) THEN executed[s] = report.lots
      ELSE executed[s] = paid[s] \/ (posted[s] # fills[s] /\ order[s].status # "none")
  BY DEF AccountInv
<1>2. CASE InFlight(s)
  BY <1>1, <1>2
<1>3. CASE ~InFlight(s)
  BY <1>1, <1>3
<1> QED BY <1>2, <1>3

LEMMA AccountStep == TypeOK /\ OmsInv /\ AccountInv /\ [Next]_vars => AccountInv'
<1> SUFFICES ASSUME TypeOK, OmsInv, AccountInv, [Next]_vars,
                    faults' = 0, crashes' = 0, ~protection'
             PROVE  AccountInv'
  BY DEF AccountInv
<1>0. /\ faults \in Nat /\ crashes \in Nat /\ protection \in BOOLEAN
      /\ fills \in [Signal -> Nat] /\ posted \in [Signal -> Nat] /\ paid \in [Signal -> Nat]
      /\ order \in [Signal -> OrderRow] /\ executed \in [Signal -> 0 .. Lots]
      /\ report \in Report
  BY DEF TypeOK
<1>1. ~RecoverFails /\ ~EngageFails /\ ~Crash /\ ~SubmissionFails /\ \A a \in Canceller : ~CancelFails(a)
  BY <1>0 DEF RecoverFails, EngageFails, Crash, SubmissionFails, CancelFails, Fault
<1>2. ~Engage /\ ~VenueRaises /\ ~SubmissionOvertaken /\ ~CancelOvertaken
  BY DEF Engage, VenueRaises, SubmissionOvertaken, CancelOvertaken
<1>3. CASE Start \/ Recover \/ ReconcileDue \/ CheckPasses \/ CheckAlarms \/ Engaged
  <2>1. /\ UNCHANGED <<db, cur, report, executed>>
        /\ faults' = 0 /\ crashes' = 0 /\ ~protection' => faults = 0 /\ crashes = 0 /\ ~protection
        /\ pc \in {"down", "recover", "check", "idle", "cancel"}
        /\ pc' \in {"recover", "check", "idle", "protect", resume}
    BY <1>0, <1>3 DEF Start, Recover, ReconcileDue, CheckPasses, CheckAlarms, Engaged, Go,
                      NoFault, Fault, db
  <2>2. \A s \in Signal : ~InFlight(s) /\ ~InFlight(s)'
    <3>1. resume \in {"check", "idle"}
      BY DEF TypeOK
    <3> QED BY <2>1, <3>1 DEF InFlight
  <2> QED BY <2>1, <2>2, AccountKept DEF db
<1>4. CASE \/ OperatorCancelsAll \/ SetKillSwitch \/ Heartbeat
           \/ \E a \in Canceller : ListActive(a) \/ CancelReads(a) \/ CancelEnds(a)
  <2>1. UNCHANGED <<pc, cur, report, executed, protection, order, fills, posted, paid, faults, crashes>>
    BY <1>4 DEF OperatorCancelsAll, SetKillSwitch, Heartbeat, ListActive, CancelReads, CancelEnds,
                NoFault, db, memory
  <2>2. \A s \in Signal : InFlight(s)' <=> InFlight(s)
    BY <2>1 DEF InFlight
  <2> QED BY <2>1, <2>2, AccountKept
<1>5. ASSUME NEW a \in Canceller, CancelSaves(a) PROVE AccountInv'
  <2>1. /\ UNCHANGED <<pc, cur, report, executed, protection, fills, posted, paid, faults, crashes>>
        /\ order' = [order EXCEPT ![target[a]] = [status |-> "CANCELED", filled |-> seenFilled[a]]]
    BY <1>5 DEF CancelSaves, NoFault, memory
  <2>2. \A s \in Signal : order[s].status # "none" => order'[s].status # "none"
    BY <1>0, <2>1
  <2>3. \A s \in Signal : InFlight(s)' <=> InFlight(s)
    BY <2>1 DEF InFlight
  <2> QED BY <2>1, <2>2, <2>3, AccountKept
<1>6. CASE (\E s \in Signal : BarTaken(s)) \/ NoSignal \/ ReadControl \/ GatePasses \/ GateRejects
           \/ SaveIntent \/ AlreadySubmitted \/ SaveOrder \/ Stop
  <2>1. /\ UNCHANGED <<executed, protection, fills, posted, paid, faults, crashes>>
        /\ pc \in {"idle", "strategy", "gate", "intent", "order", "failed"}
        /\ pc' \in {"idle", "strategy", "gate", "intent", "order", "gateway", "down"}
    BY <1>6 DEF BarTaken, NoSignal, ReadControl, GatePasses, GateRejects, SaveIntent,
                AlreadySubmitted, SaveOrder, Stop, NoFault, db, Go, Leave, Down
  <2>2. \A s \in Signal : order[s].status # "none" => order'[s].status # "none"
    <3>1. CASE SaveOrder
      BY <1>0, <3>1 DEF SaveOrder
    <3>2. CASE ~SaveOrder
      <4>1. order' = order
        BY <1>6, <3>2 DEF BarTaken, NoSignal, ReadControl, GatePasses, GateRejects, SaveIntent,
                          AlreadySubmitted, Stop, db
      <4> QED BY <4>1
    <3> QED BY <3>1, <3>2
  <2>3. \A s \in Signal : ~InFlight(s) /\ ~InFlight(s)'
    BY <2>1 DEF InFlight
  <2> QED BY <2>1, <2>2, <2>3, AccountKept
<1>7. CASE VenueReports
  <2>1. /\ pc = "gateway" /\ pc' = "mark" /\ cur' = cur /\ cur \in Signal
        /\ report' \in Report /\ faults = 0 /\ crashes = 0 /\ ~protection
        /\ executed' = [executed EXCEPT ![cur] = IF report'.lots > @ THEN report'.lots ELSE @]
        /\ UNCHANGED <<order, fills, posted, paid>>
    BY <1>7 DEF VenueReports, NoFault, db, OmsInv, SubmissionInv, Submitting
  <2>2. \A s \in Signal : ~InFlight(s)
    BY <2>1 DEF InFlight
  <2>3. executed[cur] = 0
    <3>1. intent[cur] = "NEW"
      BY <2>1 DEF OmsInv, SubmissionInv
    <3>2. fills[cur] = 0 /\ posted[cur] = 0 /\ paid[cur] = 0
      BY <2>1, <3>1 DEF OmsInv, RecordsInv, Untouched
    <3> QED BY <2>1, <2>2, <3>2 DEF AccountInv
  <2>4. executed'[cur] = report'.lots /\ \A s \in Signal : s # cur => executed'[s] = executed[s]
    <3>1. report'.lots \in Nat
      BY <2>1 DEF Report
    <3>2. report'.lots > 0 \/ report'.lots = 0
      BY <3>1
    <3> QED BY <1>0, <2>1, <2>3, <3>2
  <2>5. \A s \in Signal : InFlight(s)' <=> s = cur
    BY <2>1 DEF InFlight
  <2> QED BY <2>1, <2>2, <2>4, <2>5 DEF AccountInv
<1>8. CASE MarkSubmitted \/ ApplyUpdate \/ UpdatesApplied \/ SaveFill \/ SavePosition \/ SaveBalance
  <2>1. /\ UNCHANGED <<executed, protection, faults, crashes, cur, report>>
        /\ pc \in {"mark", "apply", "fill", "position", "balance"}
        /\ pc' \in {"mark", "apply", "fill", "position", "balance"}
        /\ cur \in Signal
    BY <1>8 DEF MarkSubmitted, ApplyUpdate, UpdatesApplied, SaveFill, SavePosition, SaveBalance,
                NoFault, db, Go, OmsInv, SubmissionInv, Submitting
  <2>2. \A s \in Signal : (InFlight(s) <=> s = cur) /\ (InFlight(s)' <=> InFlight(s))
    BY <2>1 DEF InFlight
  <2>3. \A s \in Signal : s # cur =>
           fills'[s] = fills[s] /\ posted'[s] = posted[s] /\ paid'[s] = paid[s] /\ order'[s] = order[s]
    BY <1>0, <1>8, <2>1 DEF MarkSubmitted, ApplyUpdate, UpdatesApplied, SaveFill, SavePosition,
                            SaveBalance, db
  <2> QED BY <2>1, <2>2, <2>3, AccountKept
<1>9. CASE Submitted \/ LedgerRefuses
  <2>1. /\ UNCHANGED <<executed, order, fills, posted, paid, protection, faults, crashes>>
        /\ pc \in {"fill", "position"} /\ pc' \in {"idle", "failed"} /\ cur \in Signal
    BY <1>9 DEF Submitted, LedgerRefuses, Leave, NoFault, db, OmsInv, SubmissionInv, Submitting
  <2>2. \A s \in Signal : (InFlight(s) <=> s = cur) /\ ~InFlight(s)'
    BY <2>1 DEF InFlight
  <2>3. executed[cur] = report.lots
    BY <2>1, <2>2 DEF AccountInv
  <2>4. executed[cur] = paid[cur] \/ (posted[cur] # fills[cur] /\ order[cur].status # "none")
    <3>1. CASE Submitted
      BY <2>3, <3>1 DEF Submitted, OmsInv, SubmissionInv
    <3>2. CASE LedgerRefuses
      <4>1. posted[cur] = step /\ fills[cur] = step + 1 /\ intent[cur] = "SUBMITTED" /\ step \in Nat
        BY <3>2 DEF LedgerRefuses, OmsInv, SubmissionInv, Recording, TypeOK
      <4>2. order[cur].status # "none"
        BY <2>1, <4>1 DEF OmsInv, RecordsInv
      <4> QED BY <4>1, <4>2
    <3> QED BY <1>9, <3>1, <3>2
  <2> QED BY <2>1, <2>2, <2>4 DEF AccountInv
<1>10. CASE UNCHANGED vars
  BY <1>10, AccountKept DEF vars, db, memory, InFlight
<1> QED BY <1>1, <1>2, <1>3, <1>4, <1>5, <1>6, <1>7, <1>8, <1>9, <1>10
        DEF Next, Startup, Reconciliation, Cancellation, Routing, Submission

\* An execution the venue reported is in the ledger, or the submission is still
\* at it, or protection mode is on, or reconciliation sees that the records
\* differ: for every order quantity, while nothing dies and no call raises.
THEOREM ExecutionsAccountedHolds == Spec => []ExecutionsAccounted
<1>1. Init => AccountInv
  <2> SUFFICES ASSUME Init, NEW s \in Signal
               PROVE  ~InFlight(s) /\ executed[s] = paid[s]
    BY DEF AccountInv
  <2> QED BY DEF Init, InFlight
<1>2. TypeOK /\ AccountInv => ExecutionsAccounted
  <2> SUFFICES ASSUME TypeOK, AccountInv, faults = 0, crashes = 0, NEW s \in Signal,
                      executed[s] > paid[s], ~InFlight(s), ~protection
               PROVE  Drifts(s)
    BY DEF ExecutionsAccounted, Accounted
  <2>1. executed[s] = paid[s] \/ (posted[s] # fills[s] /\ order[s].status # "none")
    BY DEF AccountInv
  <2>2. executed[s] # paid[s]
    BY DEF TypeOK
  <2>3. order[s] # NoOrder
    BY <2>1, <2>2 DEF NoOrder
  <2> QED BY <2>1, <2>2, <2>3 DEF Drifts, LedgerDrifts
<1>3. TypeOK /\ OmsInv /\ AccountInv /\ [Next]_vars => AccountInv'
  BY AccountStep
<1>4. Spec => []AccountInv
  BY <1>1, <1>3, TypeCorrect, OmsInvariant, PTL DEF Spec
<1> QED BY <1>2, <1>4, TypeCorrect, PTL

=============================================================================
