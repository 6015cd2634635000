---------------------------- MODULE TraderService ----------------------------
(***************************************************************************)
(* The life of one trader process: its tasks, its event bus and its stop.  *)
(*                                                                         *)
(*   service   apps/trader/service.py        TraderService, BarTriggerGate *)
(*   bus       src/infra/messaging/bus.py    InProcessEventBus             *)
(*   runtime   apps/trader/control_plane.py  TraderControlRuntime          *)
(*                                                                         *)
(* Four tasks share one event loop: the source loop, the dispatcher, the   *)
(* heartbeat and the task that runs and stops the service.  A task gives   *)
(* way only where it awaits something that is not there yet, so a step is  *)
(* what a task does between two such places.  Whether a refresh finds the  *)
(* market fresh and the strategy enabled is left open.                     *)
(***************************************************************************)
EXTENDS Naturals, Sequences

CONSTANTS
    Bar,            \* bar keys
    Sentinel,       \* _STOP_SENTINEL
    Capacity,       \* keys the trigger gate remembers (recent_capacity)
    MaxYields,      \* bound: events the source yields
    MaxFaults       \* bound: failing refreshes, strategies and submissions

ASSUME SentinelAssumption == Sentinel \notin Bar
ASSUME CapacityAssumption == Capacity \in Nat \ {0}
ASSUME BoundAssumption == MaxYields \in Nat /\ MaxFaults \in Nat

VARIABLES
    status,         \* runtime_state.status
    ready,          \* runtime_state.readiness_status = "ready"
    phase,          \* where the task that runs the service stands
    source,         \* the source loop
    bus,            \* "open", "stopping", or "forgotten": no dispatcher_task
    queue,          \* events of the bus not yet taken
    unfinished,     \* events the bus has not marked as done
    dispatcher,     \* the dispatcher task
    current,        \* the bar it is handling
    gate,           \* keys the trigger gate remembers, oldest first
    lease,          \* does this process hold the lease row?
    triggered,      \* history: bars handed to the strategy
    submitted,      \* history: number of signals handed to the OMS
    interrupted,    \* "no", or where the interrupt found it: in "run" or in "stop"
    yields,
    faults

tasks == <<phase, source, bus>>
events == <<queue, unfinished, dispatcher, current>>
counts == <<interrupted, yields, faults>>
vars == <<status, ready, tasks, events, gate, lease, triggered, submitted, counts>>

-----------------------------------------------------------------------------
Stops == {"bus", "join", "await", "close", "release"}
Alive == {"get", "strategy"}

TypeOK ==
    /\ status \in {"created", "running", "stopping", "stopped"}
    /\ ready \in BOOLEAN
    /\ phase \in {"start", "run", "unwind", "ended"} \union Stops
    /\ source \in {"none", "reading", "ended", "failed", "cancelled"}
    /\ bus \in {"open", "stopping", "forgotten"}
    /\ queue \in Seq(Bar \union {Sentinel})
    /\ unfinished \in Nat
    /\ dispatcher \in {"none", "returned", "failed", "cancelled"} \union Alive
    /\ current \in Bar \union {Sentinel}
    /\ gate \in Seq(Bar)
    /\ lease \in BOOLEAN
    /\ triggered \in Seq(Bar)
    /\ submitted \in Nat
    /\ interrupted \in {"no", "run", "stop"}
    /\ yields \in Nat /\ faults \in Nat

Init ==
    /\ status = "created"
    /\ ready = FALSE
    /\ phase = "start"
    /\ source = "none"
    /\ bus = "open"
    /\ queue = <<>>
    /\ unfinished = 0
    /\ dispatcher = "none"
    /\ current = Sentinel
    /\ gate = <<>>
    /\ lease = FALSE
    /\ triggered = <<>>
    /\ submitted = 0
    /\ interrupted = "no"
    /\ yields = 0 /\ faults = 0

Fault == faults < MaxFaults /\ faults' = faults + 1 /\ UNCHANGED <<yields, interrupted>>

\* What a refresh may find: ready only while running, with the lease held.
Refreshed == ready' \in BOOLEAN /\ (ready' => status = "running" /\ lease)

-----------------------------------------------------------------------------
(* start                                                                    *)

Start ==
    /\ phase = "start"
    /\ phase' = "run"
    /\ status' = "running"
    /\ source' = "reading"
    /\ dispatcher' = "get"
    /\ lease' = TRUE
    /\ UNCHANGED <<ready, bus, queue, unfinished, current, gate, triggered, submitted, counts>>

\* The lease is held by another trader, or reconciliation cannot start and
\* the control runtime is stopped; when it is the control runtime that fails
\* after it has taken the lease, nobody releases it.
StartFails ==
    /\ phase = "start"
    /\ phase' = "ended"
    /\ status' = "stopped"
    /\ source' = "cancelled"
    /\ bus' = "forgotten"
    /\ dispatcher' = "returned"
    /\ \/ UNCHANGED <<lease, counts>>
       \/ lease' = TRUE /\ Fault
    /\ UNCHANGED <<ready, queue, unfinished, current, gate, triggered, submitted>>

-----------------------------------------------------------------------------
(* _consume_events and publish                                              *)

SourceYields ==
    /\ source = "reading"
    /\ yields < MaxYields
    /\ yields' = yields + 1
    /\ \E b \in Bar :
          IF dispatcher \in Alive /\ bus = "open"
          THEN /\ queue' = Append(queue, b)
               /\ unfinished' = unfinished + 1
               /\ UNCHANGED source
          ELSE /\ source' = "failed"
               /\ UNCHANGED <<queue, unfinished>>
    /\ UNCHANGED <<status, ready, phase, bus, dispatcher, current, gate, lease, triggered,
                   submitted, faults, interrupted>>

SourceEnds ==
    /\ source = "reading"
    /\ source' \in {"ended", "failed"}
    /\ UNCHANGED <<status, ready, phase, bus, events, gate, lease, triggered, submitted, counts>>

-----------------------------------------------------------------------------
(* _dispatch_loop and _handle_bar_event                                     *)

\* Mutant: one key too many is forgotten.
RememberLess(b) ==
    LET keys == Append(gate, b)
    IN  IF Len(keys) >= Capacity THEN Tail(keys) ELSE keys
\* BarTriggerGate.allow: the oldest keys give way.
Remember(b) ==
    LET keys == Append(gate, b)
    IN  IF Len(keys) > Capacity THEN Tail(keys) ELSE keys
Remembers(b) == \E i \in 1 .. Len(gate) : gate[i] = b

TakeEvent == dispatcher = "get" /\ queue # <<>> /\ queue' = Tail(queue)
Done == unfinished' = unfinished - 1

TakeSentinel ==
    /\ TakeEvent
    /\ Head(queue) = Sentinel
    /\ Done
    /\ dispatcher' = "returned"
    /\ UNCHANGED <<status, ready, tasks, current, gate, lease, triggered, submitted, counts>>

\* Mutant: an ignored bar is not marked as done.
IgnoreBarNotDone ==
    /\ TakeEvent
    /\ Head(queue) # Sentinel
    /\ Refreshed
    /\ UNCHANGED <<status, tasks, unfinished, dispatcher, current, gate, lease, triggered,
                   submitted, counts>>

\* Not ready, paused, or triggered before: the bar is recorded and ignored.
IgnoreBar ==
    /\ TakeEvent
    /\ Head(queue) # Sentinel
    /\ Refreshed
    /\ Done
    /\ UNCHANGED <<status, tasks, dispatcher, current, gate, lease, triggered, submitted, counts>>

\* Mutant: a refresh does not look at the status of the service.
TriggerStrategyAnyStatus ==
    /\ TakeEvent
    /\ Head(queue) # Sentinel
    /\ ready' = TRUE
    /\ lease
    /\ ~Remembers(Head(queue))
    /\ gate' = Remember(Head(queue))
    /\ triggered' = Append(triggered, Head(queue))
    /\ dispatcher' = "strategy"
    /\ current' = Head(queue)
    /\ UNCHANGED <<status, tasks, unfinished, lease, submitted, counts>>

TriggerStrategy ==
    /\ TakeEvent
    /\ Head(queue) # Sentinel
    /\ Refreshed
    /\ ready'
    /\ ~Remembers(Head(queue))
    /\ gate' = Remember(Head(queue))
    /\ triggered' = Append(triggered, Head(queue))
    /\ dispatcher' = "strategy"
    /\ current' = Head(queue)
    /\ UNCHANGED <<status, tasks, unfinished, lease, submitted, counts>>

\* Mutant: a handler that raises does not mark its event as done.
HandlerFailsNotDone ==
    /\ TakeEvent
    /\ Head(queue) # Sentinel
    /\ Fault
    /\ dispatcher' = "failed"
    /\ UNCHANGED <<status, ready, tasks, unfinished, current, gate, lease, triggered, submitted>>

\* A database call of the refresh, or of the audit that follows the trigger
\* gate, raises: task_done is called all the same, and the dispatcher ends.
HandlerFails ==
    /\ TakeEvent
    /\ Head(queue) # Sentinel
    /\ Fault
    /\ Done
    /\ dispatcher' = "failed"
    /\ gate' \in {gate, Remember(Head(queue))}
    /\ UNCHANGED <<status, ready, tasks, current, lease, triggered, submitted>>

\* The awaited strategy returns no signal, or one that goes to the OMS.
StrategyReturns ==
    /\ dispatcher = "strategy"
    /\ submitted' \in {submitted, submitted + 1}
    /\ Done
    /\ dispatcher' = "get"
    /\ current' = Sentinel
    /\ UNCHANGED <<status, ready, tasks, queue, gate, lease, triggered, counts>>

StrategyFails ==
    /\ dispatcher = "strategy"
    /\ Fault
    /\ Done
    /\ dispatcher' = "failed"
    /\ current' = Sentinel
    /\ UNCHANGED <<status, ready, tasks, queue, gate, lease, triggered, submitted>>

\* The heartbeat runs until the control runtime is stopped.
Heartbeat ==
    /\ phase \in {"run"} \union Stops
    /\ Refreshed
    /\ ready' # ready
    /\ UNCHANGED <<status, tasks, events, gate, lease, triggered, submitted, counts>>

-----------------------------------------------------------------------------
(* run and stop                                                             *)

\* stop, up to the bus: the source loop is cancelled.
StopBegins ==
    /\ status' = "stopping"
    /\ ready' = FALSE
    /\ source' = IF source = "reading" THEN "cancelled" ELSE source
    /\ phase' = "bus"
    /\ UNCHANGED <<bus, events, gate, lease, triggered, submitted>>

\* Mutant: run does not wait for the dispatcher.
RunWakesSourceOnly ==
    /\ phase = "run"
    /\ source \in {"ended", "failed"}
    /\ StopBegins
    /\ UNCHANGED counts

\* run wakes when the source loop or the dispatcher has ended.
RunWakes ==
    /\ phase = "run"
    /\ source \in {"ended", "failed"} \/ dispatcher = "failed"
    /\ StopBegins
    /\ UNCHANGED counts

\* The process is interrupted: asyncio.run cancels run, which stops.
Interrupt ==
    /\ phase = "run"
    /\ interrupted = "no"
    /\ interrupted' = "run"
    /\ StopBegins
    /\ UNCHANGED <<yields, faults>>

\* Mutant: the bus is not asked to drain.
StopBusAtOnce ==
    /\ phase = "bus"
    /\ bus' = "forgotten"
    /\ phase' = "close"
    /\ dispatcher' = IF dispatcher \in Alive THEN "returned" ELSE dispatcher
    /\ UNCHANGED <<status, ready, source, queue, unfinished, current, gate, lease, triggered,
                   submitted, counts>>

\* InProcessEventBus.stop: nothing to do without a dispatcher task, and
\* nothing to wait for when the dispatcher is done.
StopBus ==
    /\ phase = "bus"
    /\ IF bus = "forgotten" \/ dispatcher \notin Alive
       THEN bus' = "forgotten" /\ phase' = "close"
       ELSE bus' = "stopping" /\ phase' = "join"
    /\ UNCHANGED <<status, ready, source, events, gate, lease, triggered, submitted, counts>>

Joined ==
    /\ phase = "join"
    /\ unfinished = 0
    /\ queue' = Append(queue, Sentinel)
    /\ unfinished' = unfinished + 1
    /\ phase' = "await"
    /\ UNCHANGED <<status, ready, source, bus, dispatcher, current, gate, lease, triggered,
                   submitted, counts>>

Awaited ==
    /\ phase = "await"
    /\ dispatcher \notin Alive
    /\ bus' = "forgotten"
    /\ phase' = "close"
    /\ UNCHANGED <<status, ready, source, events, gate, lease, triggered, submitted, counts>>

SourceClosed ==
    /\ phase = "close"
    /\ status' = "stopped"
    /\ ready' = FALSE
    /\ phase' = "release"
    /\ UNCHANGED <<source, bus, events, gate, lease, triggered, submitted, counts>>

\* Mutant: the lease is released before the bus has drained.
ReleaseEarly ==
    /\ phase \in {"join", "release"} /\ lease
    /\ lease' = FALSE
    /\ ready' = FALSE
    /\ phase' = IF phase = "release" THEN "unwind" ELSE phase
    /\ UNCHANGED <<status, source, bus, events, gate, triggered, submitted, counts>>

\* TraderControlRuntime.stop: no more heartbeats, and the lease is released.
Release ==
    /\ phase = "release"
    /\ lease' = FALSE
    /\ ready' = FALSE
    /\ phase' = "unwind"
    /\ UNCHANGED <<status, source, bus, events, gate, triggered, submitted, counts>>

ReleaseFails ==
    /\ phase = "release"
    /\ Fault
    /\ phase' = "unwind"
    /\ UNCHANGED <<status, ready, source, bus, events, gate, lease, triggered, submitted>>

\* A dispatcher that is cancelled gives up its event, which counts as done.
DispatcherCancelled ==
    /\ dispatcher' = IF dispatcher \in Alive THEN "cancelled" ELSE dispatcher
    /\ unfinished' = IF dispatcher = "strategy" THEN unfinished - 1 ELSE unfinished
    /\ current' = Sentinel

\* asyncio.run cancels the tasks that are left.
Ends ==
    /\ phase = "unwind"
    /\ phase' = "ended"
    /\ DispatcherCancelled
    /\ UNCHANGED <<status, ready, source, bus, queue, gate, lease, triggered, submitted, counts>>

\* The interrupt arrives while run stops because its source has ended: what
\* stop awaits is cancelled, the bus forgets its dispatcher, and run calls
\* stop once more.
InterruptStop ==
    /\ phase \in Stops
    /\ interrupted = "no"
    /\ interrupted' = "stop"
    /\ bus' = IF phase \in {"join", "await"} THEN "forgotten" ELSE bus
    /\ IF phase = "await"
       THEN DispatcherCancelled
       ELSE UNCHANGED <<dispatcher, unfinished, current>>
    /\ phase' = "bus"
    /\ UNCHANGED <<status, ready, source, queue, gate, lease, triggered, submitted,
                   yields, faults>>

\* The process is killed, or interrupted a second time.
Killed ==
    /\ phase \in {"run", "unwind"} \union Stops
    /\ phase' = "ended"
    /\ source' = IF source = "reading" THEN "cancelled" ELSE source
    /\ DispatcherCancelled
    /\ UNCHANGED <<status, ready, bus, queue, gate, lease, triggered, submitted, counts>>

-----------------------------------------------------------------------------
Dispatch == TakeSentinel \/ IgnoreBar \/ TriggerStrategy \/ HandlerFails
Strategy == StrategyReturns \/ StrategyFails
Stopping ==
    \/ RunWakes \/ StopBus \/ Joined \/ Awaited \/ SourceClosed \/ Release
    \/ ReleaseFails \/ Ends

Terminated == phase = "ended" /\ UNCHANGED vars

Next ==
    \/ Start \/ StartFails \/ SourceYields \/ SourceEnds \/ Dispatch \/ Strategy
    \/ Heartbeat \/ Interrupt \/ InterruptStop \/ Killed \/ Stopping \/ Terminated

Spec == Init /\ [][Next]_vars

\* Every task runs, and a strategy that is awaited returns or raises.
Fairness == WF_vars(Dispatch) /\ WF_vars(Strategy) /\ WF_vars(Stopping)

FairSpec == Spec /\ Fairness

-----------------------------------------------------------------------------
(* Properties *)

\* The counter on which the drain of the bus waits is exact: every event in
\* the queue and the one being handled, and nothing else, whatever fails.
UnfinishedExact ==
    unfinished = Len(queue) + (IF dispatcher = "strategy" THEN 1 ELSE 0)

\* "Drain queued work, stop the dispatcher": a dispatcher that returns has
\* left no event behind it.
StopDrains == dispatcher = "returned" => queue = <<>> /\ unfinished = 0

\* The trigger gate hands a bar to the strategy again only after Capacity
\* other bars: what it forgets is older than what it keeps.
RetriggerDistance ==
    \A i, j \in 1 .. Len(triggered) :
        i < j /\ triggered[i] = triggered[j] => j - i > Capacity

\* Where the sentinel of the bus may be: alone in the queue of a bus that is
\* open no more, put there once everything else is done; and how far the bus
\* is when the service stops.
QueueInv ==
    /\ phase = "start" => dispatcher = "none" /\ queue = <<>>
    /\ phase \in {"start", "run"} => bus = "open"
    /\ phase \in {"join", "await"} => bus = "stopping"
    /\ phase \in {"close", "release"} => bus = "forgotten"
    /\ dispatcher = "strategy" <=> current # Sentinel
    /\ dispatcher = "returned" => queue = <<>>
    /\ \A i \in 1 .. Len(queue) : queue[i] = Sentinel => Len(queue) = 1
    /\ dispatcher = "returned" \/ (\E i \in 1 .. Len(queue) : queue[i] = Sentinel)
          => bus # "open" /\ (bus = "stopping" => phase \in {"await", "ended"})

\* While the dispatcher lives, the gate remembers the bars triggered last.
GateInv ==
    /\ Len(gate) <= Capacity
    /\ phase = "start" => gate = <<>> /\ triggered = <<>>
    /\ dispatcher \in Alive =>
          /\ Len(gate) <= Len(triggered)
          /\ Len(gate) < Capacity => Len(gate) = Len(triggered)
          /\ \A i \in 1 .. Len(gate) : gate[i] = triggered[Len(triggered) - Len(gate) + i]

\* The inductive invariant: the counter of the bus is exact, its sentinel
\* comes last, and the gate holds what was triggered last.
ServiceInv == UnfinishedExact /\ QueueInv /\ GateInv /\ RetriggerDistance

\* A service that has begun to stop hands no further bar to the strategy,
\* although its queue still drains and its heartbeat still refreshes.
DrainingNeverTriggers ==
    [][triggered' # triggered => status = "running" /\ lease]_vars

\* Why no signal does: a strategy that is awaited has its process hold the
\* lease, which is released when the dispatcher has ended.
HeldInv ==
    interrupted # "stop" =>
        /\ dispatcher = "strategy" => lease
        /\ phase \in {"start", "run", "bus"} => bus = "open"
        /\ phase \in {"close", "release", "unwind", "ended"} => dispatcher \notin Alive

\* No signal goes to the OMS once the lease has been released, unless the
\* interrupt came while the service was stopping.
NoOrderAfterRelease ==
    [][submitted' # submitted => lease \/ interrupted = "stop"]_vars

\* A stop that an interrupt overtakes covers its signals too: it drains the
\* bus "exactly once".
LeaseCoversSignals == [][submitted' # submitted => lease]_vars

\* A service that stops comes to its end, interrupted or not, unless its
\* dispatcher has died.
StopEnds == phase \in Stops ~> (phase = "ended" \/ dispatcher = "failed")

\* "Drain queued work, stop the dispatcher, and await its completion" never
\* waits for ever, with the heartbeat renewing the lease of a trader that
\* does nothing.
StopAlwaysEnds == phase \in Stops ~> phase = "ended"

\* A dispatcher that dies while the service runs takes the process with it.
DeathEnds == (dispatcher = "failed" /\ phase = "run") ~> phase = "ended"
=============================================================================
