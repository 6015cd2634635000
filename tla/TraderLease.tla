----------------------------- MODULE TraderLease -----------------------------
(***************************************************************************)
(* The single-active protection of one paper account.  Trader processes    *)
(* compete for one row of the table trader_account_leases; the row's       *)
(* fencing token is carried by the guard of every submission.              *)
(*                                                                         *)
(*   store    apps/trader/control_plane.py  TraderControlPlaneStore        *)
(*   runtime  apps/trader/control_plane.py  TraderControlRuntime           *)
(*   caller   apps/trader/service.py        TraderService, risk router     *)
(*   check    apps/trader/oms.py            submit_signal (guard part)     *)
(*                                                                         *)
(* One process is one asyncio loop with two tasks, the heartbeat loop and  *)
(* the bus dispatcher that handles a bar.  Code between two awaits is not  *)
(* interleaved with the other task of its process, but every database      *)
(* transaction and every reading of the clock is a step of its own with    *)
(* respect to the other processes.                                         *)
(***************************************************************************)
EXTENDS Integers

CONSTANTS
    Instance,       \* instance ids, "host:pid" (default_instance_id)
    None,           \* the null owner of a released row
    Host,           \* Host[i]: the host part of instance id i
    TTL,            \* lease_ttl_seconds
    RowLocked,      \* FALSE: acquire_lease reads the row without a lock, as the
                    \* code does under PostgreSQL's READ COMMITTED; TRUE: the
                    \* row it reads is locked until it commits, that is, its
                    \* transactions never overlap another write of the row
    MaxClock,       \* bound: last instant of the clock
    MaxToken        \* bound: no takeover beyond this fencing token

ASSUME InstanceAssumption == None \notin Instance
ASSUME TTLAssumption == TTL \in Nat \ {0}
ASSUME BoundAssumption == MaxClock \in Nat /\ MaxToken \in Nat
ASSUME IsolationAssumption == RowLocked \in BOOLEAN

VARIABLES
    now,        \* wall clock, shared by all processes
    lease,      \* the row: owner, expiry and fencing token (0: no row)
    pc,         \* what the process executes between two awaits
    handler,    \* the dispatcher task: where the handling of a bar stands
    asOf,       \* the clock as the current operation sampled it
    seen,       \* the row as the acquiring transaction read it
    plan,       \* what that transaction decided to do
    cached,     \* TraderControlRuntime._lease_snapshot
    ready,      \* runtime_state.readiness_status = "ready"
    active,     \* runtime_state.single_active.status
    barAt,      \* ingest time of the bar being handled
    guard,      \* fencing token of the submission guard (0: no guard)
    admitted    \* history: submissions that passed the lease validation

vars == <<now, lease, pc, handler, asOf, seen, plan, cached, ready, active,
          barAt, guard, admitted>>

-----------------------------------------------------------------------------
Row == [owner : Instance \union {None}, expires : Nat, token : Nat]
NoRow == [owner |-> None, expires |-> 0, token |-> 0]

PC == {"down", "acquire_read", "acquire_write", "loop", "refresh",
       "heartbeat", "validate", "send"}
Handler == {"idle", "refresh", "strategy", "failed"}
Plan == {"none", "insert", "renew", "take_over"}
ActiveStatus == {"unbound", "acquired", "lost"}

TypeOK ==
    /\ now \in Nat
    /\ lease \in Row
    /\ pc \in [Instance -> PC]
    /\ handler \in [Instance -> Handler]
    /\ asOf \in [Instance -> Nat]
    /\ seen \in [Instance -> Row]
    /\ plan \in [Instance -> Plan]
    /\ cached \in [Instance -> Row]
    /\ ready \in [Instance -> BOOLEAN]
    /\ active \in [Instance -> ActiveStatus]
    /\ barAt \in [Instance -> Nat]
    /\ guard \in [Instance -> Nat]
    /\ admitted \in SUBSET [inst : Instance, token : Nat]

\* is_held_by and expired of TraderLeaseSnapshot
HeldBy(row, i, t) == row.owner = i /\ row.expires > t
Expired(row, t) == row.expires <= t

\* Whether i may read the row for update, or write it.  A row that does not
\* exist cannot be locked: two first starts may both decide to insert it.
Locking(j) == pc[j] = "acquire_write" /\ plan[j] # "insert"
RowFree(i) == RowLocked => \A j \in Instance \ {i} : ~Locking(j)

Init ==
    /\ now = 0
    /\ lease = NoRow
    /\ pc = [i \in Instance |-> "down"]
    /\ handler = [i \in Instance |-> "idle"]
    /\ asOf = [i \in Instance |-> 0]
    /\ seen = [i \in Instance |-> NoRow]
    /\ plan = [i \in Instance |-> "none"]
    /\ cached = [i \in Instance |-> NoRow]
    /\ ready = [i \in Instance |-> FALSE]
    /\ active = [i \in Instance |-> "unbound"]
    /\ barAt = [i \in Instance |-> 0]
    /\ guard = [i \in Instance |-> 0]
    /\ admitted = {}

\* The process is gone and its memory with it.
Down(i) ==
    /\ pc' = [pc EXCEPT ![i] = "down"]
    /\ handler' = [handler EXCEPT ![i] = "idle"]
    /\ asOf' = [asOf EXCEPT ![i] = 0]
    /\ seen' = [seen EXCEPT ![i] = NoRow]
    /\ plan' = [plan EXCEPT ![i] = "none"]
    /\ cached' = [cached EXCEPT ![i] = NoRow]
    /\ ready' = [ready EXCEPT ![i] = FALSE]
    /\ active' = [active EXCEPT ![i] = "unbound"]
    /\ barAt' = [barAt EXCEPT ![i] = 0]
    /\ guard' = [guard EXCEPT ![i] = 0]
    /\ UNCHANGED <<now, admitted>>

-----------------------------------------------------------------------------
(***************************************************************************)
(* Start-up: TraderControlRuntime.start calls acquire_lease, which reads   *)
(* the row and writes it back in one transaction, then refreshes.          *)
(***************************************************************************)
StartTrader(i) ==
    /\ pc[i] = "down"
    /\ pc' = [pc EXCEPT ![i] = "acquire_read"]
    /\ asOf' = [asOf EXCEPT ![i] = now]
    /\ UNCHANGED <<now, lease, handler, seen, plan, cached, ready, active,
                   barAt, guard, admitted>>

\* Mutant: an unexpired lease of another instance is taken over, too.
AcquirePlansAnyOwner(i, row, t) ==
    IF row.token = 0 THEN {"insert"}
    ELSE IF HeldBy(row, i, t) THEN {"renew"} ELSE {"take_over"}

\* The branches of acquire_lease for the row it read at instant t.  A dead
\* process' pid may be in use again, so that _pid_exists answers TRUE for it.
AcquirePlans(i, row, t) ==
    IF row.token = 0 THEN {"insert"}
    ELSE IF HeldBy(row, i, t) THEN {"renew"}
    ELSE IF Expired(row, t) \/ row.owner = None THEN {"take_over"}
    ELSE IF Host[row.owner] = Host[i] /\ pc[row.owner] = "down"
         THEN {"take_over", "none"}
    ELSE {"none"}

AcquireRead(i) ==
    /\ pc[i] = "acquire_read"
    /\ RowFree(i)
    /\ \E p \in AcquirePlans(i, lease, asOf[i]) \ {"none"} :
          /\ p = "take_over" => lease.token < MaxToken
          /\ plan' = [plan EXCEPT ![i] = p]
    /\ seen' = [seen EXCEPT ![i] = lease]
    /\ pc' = [pc EXCEPT ![i] = "acquire_write"]
    /\ UNCHANGED <<now, lease, handler, asOf, cached, ready, active, barAt,
                   guard, admitted>>

\* Held by another instance: start raises RuntimeError and the process exits.
AcquireRejected(i) ==
    /\ pc[i] = "acquire_read"
    /\ RowFree(i)
    /\ "none" \in AcquirePlans(i, lease, asOf[i])
    /\ Down(i)
    /\ UNCHANGED lease

\* Mutant: a takeover keeps the fencing token.
WrittenRowSameToken(i) ==
    [owner |-> i, expires |-> asOf[i] + TTL,
     token |-> IF plan[i] = "insert" THEN 1 ELSE seen[i].token]

\* The row the session holds after the flush, and so the caller's snapshot.
WrittenRow(i) ==
    LET until == asOf[i] + TTL IN
    CASE plan[i] = "insert" -> [owner |-> i, expires |-> until, token |-> 1]
      [] plan[i] = "renew" -> [seen[i] EXCEPT !.expires = until]
      [] OTHER -> [owner |-> i, expires |-> until, token |-> seen[i].token + 1]

\* The UPDATE names the primary key only and sets the columns whose value
\* differs from the one read.
StoredRow(i) ==
    LET written == WrittenRow(i) IN
    [owner |-> IF written.owner = seen[i].owner THEN lease.owner ELSE written.owner,
     expires |-> written.expires,
     token |-> IF written.token = seen[i].token THEN lease.token ELSE written.token]

AcquireWrite(i) ==
    /\ pc[i] = "acquire_write"
    /\ plan[i] = "insert" => lease.token = 0
    /\ lease' = StoredRow(i)
    /\ cached' = [cached EXCEPT ![i] = WrittenRow(i)]
    /\ active' = [active EXCEPT ![i] = "acquired"]
    /\ pc' = [pc EXCEPT ![i] = "refresh"]
    /\ asOf' = [asOf EXCEPT ![i] = now]
    /\ seen' = [seen EXCEPT ![i] = NoRow]
    /\ plan' = [plan EXCEPT ![i] = "none"]
    /\ UNCHANGED <<now, handler, ready, barAt, guard, admitted>>

\* Two first starts insert the same primary key: the later INSERT raises.
InsertConflict(i) ==
    /\ pc[i] = "acquire_write"
    /\ plan[i] = "insert"
    /\ lease.token # 0
    /\ Down(i)
    /\ UNCHANGED lease

-----------------------------------------------------------------------------
(***************************************************************************)
(* refresh: by the dispatcher for every bar and once at start-up           *)
(* (load_lease_snapshot), by the heartbeat loop (heartbeat_lease).         *)
(***************************************************************************)
BarObserved(i) ==
    /\ pc[i] = "loop"
    /\ handler[i] = "idle"
    /\ \E t \in 0 .. now : barAt' = [barAt EXCEPT ![i] = t]
    /\ handler' = [handler EXCEPT ![i] = "refresh"]
    /\ pc' = [pc EXCEPT ![i] = "refresh"]
    /\ asOf' = [asOf EXCEPT ![i] = now]
    /\ UNCHANGED <<now, lease, seen, plan, cached, ready, active, guard,
                   admitted>>

HeartbeatDue(i) ==
    /\ pc[i] = "loop"
    /\ pc' = [pc EXCEPT ![i] = "heartbeat"]
    /\ asOf' = [asOf EXCEPT ![i] = now]
    /\ UNCHANGED <<now, lease, handler, seen, plan, cached, ready, active,
                   barAt, guard, admitted>>

\* The end of refresh, once row is the new snapshot.  Whether the market
\* data is fresh and its trading phase known is left to the environment.
Conclude(i, row) ==
    LET valid == row.token = cached[i].token /\ HeldBy(row, i, asOf[i])
    IN  /\ cached' = [cached EXCEPT ![i] = row]
        /\ active' = [active EXCEPT ![i] = IF valid THEN "acquired" ELSE "lost"]
        /\ \E marketOk \in BOOLEAN :
              /\ ready' = [ready EXCEPT ![i] = valid /\ marketOk]
              /\ handler' = [handler EXCEPT ![i] =
                    IF @ # "refresh" THEN @
                    ELSE IF valid /\ marketOk THEN "strategy" ELSE "idle"]
        /\ pc' = [pc EXCEPT ![i] = "loop"]
        /\ asOf' = [asOf EXCEPT ![i] = 0]

RefreshLoad(i) ==
    /\ pc[i] = "refresh"
    /\ Conclude(i, lease)
    /\ UNCHANGED <<now, lease, seen, plan, barAt, guard, admitted>>

\* Mutant: the UPDATE also matches an expired row.
HeartbeatMatchesExpired(i) == lease.owner = i /\ lease.token = cached[i].token

\* The WHERE clause of the conditional UPDATE in heartbeat_lease.
HeartbeatMatches(i) ==
    /\ HeldBy(lease, i, asOf[i])
    /\ lease.token = cached[i].token

HeartbeatWrite(i) ==
    /\ pc[i] = "heartbeat"
    /\ RowFree(i)
    /\ lease' = IF HeartbeatMatches(i)
                THEN [lease EXCEPT !.expires = asOf[i] + TTL]
                ELSE lease
    /\ Conclude(i, lease')
    /\ UNCHANGED <<now, seen, plan, barAt, guard, admitted>>

\* The database call raises.  The heartbeat loop only drops readiness; in the
\* bar handler the exception ends the dispatcher; at start-up it ends start.
HeartbeatFails(i) ==
    /\ pc[i] = "heartbeat"
    /\ ready' = [ready EXCEPT ![i] = FALSE]
    /\ pc' = [pc EXCEPT ![i] = "loop"]
    /\ asOf' = [asOf EXCEPT ![i] = 0]
    /\ UNCHANGED <<now, lease, handler, seen, plan, cached, active, barAt,
                   guard, admitted>>

HandlerFails(i) ==
    /\ pc[i] \in {"refresh", "validate"}
    /\ handler[i] # "idle"
    /\ handler' = [handler EXCEPT ![i] = "failed"]
    /\ pc' = [pc EXCEPT ![i] = "loop"]
    /\ asOf' = [asOf EXCEPT ![i] = 0]
    /\ guard' = [guard EXCEPT ![i] = 0]
    /\ UNCHANGED <<now, lease, seen, plan, cached, ready, active, barAt,
                   admitted>>

StartupFails(i) ==
    /\ pc[i] = "refresh"
    /\ handler[i] = "idle"
    /\ Down(i)
    /\ UNCHANGED lease

-----------------------------------------------------------------------------
(***************************************************************************)
(* Submission: the strategy resumes with a signal, the risk router asks    *)
(* for a guard, and submit_signal validates the guard if there is one.     *)
(***************************************************************************)
\* The token submission_guard puts into the guard, 0 when it returns None.
GuardToken(i) ==
    IF ready[i] /\ HeldBy(cached[i], i, now) THEN cached[i].token ELSE 0

SignalRouted(i) ==
    /\ pc[i] = "loop"
    /\ handler[i] = "strategy"
    /\ guard' = [guard EXCEPT ![i] = GuardToken(i)]
    /\ pc' = [pc EXCEPT ![i] = IF GuardToken(i) = 0 THEN "send" ELSE "validate"]
    /\ UNCHANGED <<now, lease, handler, asOf, seen, plan, cached, ready,
                   active, barAt, admitted>>

\* Mutant: the validation trusts the snapshot in memory.
AcceptsFromMemory(row, i, token, t) ==
    cached[i].token = token /\ HeldBy(cached[i], i, t)

\* validate_submission_lease, as of the ingest time of the bar.
Accepts(row, i, token, t) == row.token = token /\ HeldBy(row, i, t)

\* The handling of the bar ends and the dispatcher takes the next one.
HandlerDone(i) ==
    /\ handler' = [handler EXCEPT ![i] = "idle"]
    /\ pc' = [pc EXCEPT ![i] = "loop"]
    /\ barAt' = [barAt EXCEPT ![i] = 0]
    /\ guard' = [guard EXCEPT ![i] = 0]
    /\ UNCHANGED <<now, lease, asOf, seen, plan, cached, ready, active>>

ValidateAccept(i) ==
    /\ pc[i] = "validate"
    /\ Accepts(lease, i, guard[i], barAt[i])
    /\ admitted' = admitted \union {[inst |-> i, token |-> guard[i]]}
    /\ pc' = [pc EXCEPT ![i] = "send"]
    /\ UNCHANGED <<now, lease, handler, asOf, seen, plan, cached, ready,
                   active, barAt, guard>>

ValidateReject(i) ==
    /\ pc[i] = "validate"
    /\ ~Accepts(lease, i, guard[i], barAt[i])
    /\ HandlerDone(i)
    /\ UNCHANGED admitted

\* No signal, a paused strategy or a bar already triggered.
NoSignal(i) ==
    /\ pc[i] = "loop"
    /\ handler[i] = "strategy"
    /\ HandlerDone(i)
    /\ UNCHANGED admitted

\* The rest of submit_signal, up to the order reaching the gateway.
Send(i) ==
    /\ pc[i] = "send"
    /\ HandlerDone(i)
    /\ UNCHANGED admitted

-----------------------------------------------------------------------------
\* Mutant: the release names the account only.
ReleaseMatchesAnyOwner(i) == lease.token # 0

\* The WHERE clause of the conditional UPDATE in release_lease.
ReleaseMatches(i) == lease.owner = i /\ lease.token = cached[i].token

\* stop drains the bus, then releases the row with the cached token.
Stop(i) ==
    /\ pc[i] = "loop"
    /\ handler[i] \in {"idle", "failed"}
    /\ RowFree(i)
    /\ lease' = IF ReleaseMatches(i)
                THEN [lease EXCEPT !.owner = None, !.expires = now]
                ELSE lease
    /\ Down(i)

\* A crash rolls an open transaction back.
Crash(i) ==
    /\ pc[i] # "down"
    /\ Down(i)
    /\ UNCHANGED lease

Tick ==
    /\ now < MaxClock
    /\ now' = now + 1
    /\ UNCHANGED <<lease, pc, handler, asOf, seen, plan, cached, ready,
                   active, barAt, guard, admitted>>

Startup(i) ==
    StartTrader(i) \/ AcquireRead(i) \/ AcquireRejected(i) \/ AcquireWrite(i)
    \/ InsertConflict(i)
Refresh(i) ==
    BarObserved(i) \/ HeartbeatDue(i) \/ RefreshLoad(i) \/ HeartbeatWrite(i)
    \/ HeartbeatFails(i) \/ HandlerFails(i) \/ StartupFails(i)
Submission(i) ==
    SignalRouted(i) \/ ValidateAccept(i) \/ ValidateReject(i) \/ NoSignal(i)
    \/ Send(i)

Next ==
    \/ \E i \in Instance :
          Startup(i) \/ Refresh(i) \/ Submission(i) \/ Stop(i) \/ Crash(i)
    \/ Tick

Spec == Init /\ [][Next]_vars

-----------------------------------------------------------------------------
(* Properties *)

\* The lease condition under which submission_guard hands out a guard.
HoldsLease(i) == HeldBy(cached[i], i, now)

\* At any instant at most one process has, in its own memory, an unexpired
\* lease: two traders never both believe they are the active one, although
\* each consults only its cached snapshot (README: single-active protection).
SingleActive == \A i, j \in Instance : HoldsLease(i) /\ HoldsLease(j) => i = j

\* A cached, unexpired lease is true of the database: the row still names its
\* holder and its token, however many others tried to take it over.
CachedLeaseTruthful ==
    \A i \in Instance : HoldsLease(i) =>
        HeldBy(lease, i, now) /\ lease.token = cached[i].token

\* Submissions admitted under one fencing token come from one instance.
TokenNamesOneInstance ==
    \A a, b \in admitted : a.token = b.token => a.inst = b.inst

\* Fencing: a submission is never admitted after one with a newer token, so
\* a process that was taken over cannot slip an old order in behind its heir.
AdmissionOrder ==
    [][\A a \in admitted' \ admitted : \A b \in admitted : b.token <= a.token]_admitted

\* A lease once lost stays lost until the process starts again: neither a
\* late heartbeat nor a reload of the row brings back the lost status.
LostStaysLost ==
    [][\A i \in Instance : active[i] = "lost" => active'[i] # "acquired"]_active

\* "Trader lost the active submission lease and is no longer ready to submit
\* new orders": a process that knows it has lost the lease sends no order.
LostNeverSends == \A i \in Instance : pc[i] = "send" => active[i] # "lost"

-----------------------------------------------------------------------------
(***************************************************************************)
(* The inductive invariant behind the safety properties, when RowLocked.   *)
(* SingleActive is not inductive: it says nothing of what the row looks    *)
(* like, nor of the transaction that is about to write it.                 *)
(***************************************************************************)
Booting(i) == pc[i] \in {"down", "acquire_read", "acquire_write"}

\* No process can rely on the lease: nobody holds the row, or its holder's
\* time is over, or its holder is not (yet) running.
Vacant ==
    \/ lease.owner = None
    \/ lease.expires <= now
    \/ Booting(lease.owner)

BootInv == \A i \in Instance : Booting(i) => cached[i] = NoRow /\ active[i] = "unbound"
ClockInv == \A i \in Instance : asOf[i] <= now
LockInv ==
    \A i \in Instance : Locking(i) =>
        /\ seen[i] = lease
        /\ \A j \in Instance : Locking(j) => j = i
PlanInv ==
    \A i \in Instance : pc[i] = "acquire_write" =>
        \/ plan[i] = "insert" /\ seen[i].owner = None /\ seen[i].token = 0
        \/ plan[i] = "renew" /\ lease.owner = i /\ lease.token # 0
        \/ plan[i] = "take_over" /\ Vacant /\ lease.token # 0
RowInv == lease.token = 0 => lease.owner = None
TokenInv ==
    \A i \in Instance : ~Booting(i) /\ lease.owner = i => lease.token = cached[i].token
TruthInv ==
    \A i \in Instance : HoldsLease(i) =>
        /\ lease.owner = i
        /\ lease.token = cached[i].token
        /\ cached[i].expires <= lease.expires
AdmitInv ==
    \A a \in admitted :
        /\ a.token <= lease.token
        /\ a.token = lease.token => lease.owner \in {a.inst, None}
LostInv ==
    \A i \in Instance : active[i] = "lost" /\ lease.owner = i =>
        /\ lease.expires <= now
        /\ pc[i] \in {"refresh", "heartbeat"} => lease.expires <= asOf[i]

LeaseInv ==
    /\ BootInv /\ ClockInv /\ LockInv /\ PlanInv /\ RowInv
    /\ TokenInv /\ TruthInv /\ AdmitInv /\ LostInv /\ TokenNamesOneInstance
=============================================================================
