------------------------- MODULE TraderServiceProofs -------------------------
(***************************************************************************)
(* Proofs about TraderService, for every set of bars, every capacity of    *)
(* the trigger gate and every bound.                                       *)
(***************************************************************************)
EXTENDS TraderService, TLAPS

USE SentinelAssumption, CapacityAssumption, BoundAssumption

\* What the trigger gate remembers after it lets a bar through: at most
\* Capacity bars, the new one last, the others in their order.
LEMMA RememberFacts ==
    ASSUME gate \in Seq(Bar), Len(gate) <= Capacity, NEW b \in Bar
    PROVE  /\ Remember(b) \in Seq(Bar)
           /\ Len(Remember(b)) = IF Len(gate) < Capacity THEN Len(gate) + 1 ELSE Capacity
           /\ \A i \in 1 .. Len(Remember(b)) :
                 Remember(b)[i] = IF i = Len(Remember(b)) THEN b
                                  ELSE gate[Len(gate) + 1 - Len(Remember(b)) + i]
<1> DEFINE keys == Append(gate, b)
<1>1. /\ keys \in Seq(Bar) /\ Len(keys) = Len(gate) + 1
      /\ \A i \in 1 .. Len(gate) : keys[i] = gate[i]
      /\ keys[Len(gate) + 1] = b
  OBVIOUS
<1> HIDE DEF keys
<1>2. CASE Len(keys) > Capacity
  <2>1. Remember(b) = Tail(keys)
    BY <1>2 DEF Remember, keys
  <2>2. /\ Tail(keys) \in Seq(Bar) /\ Len(Tail(keys)) = Len(gate)
        /\ \A i \in 1 .. Len(gate) : Tail(keys)[i] = keys[i + 1]
    BY <1>1
  <2>3. Len(gate) = Capacity
    BY <1>1, <1>2
  <2>4. QED
    BY <1>1, <2>1, <2>2, <2>3
<1>3. CASE Len(keys) <= Capacity
  <2>1. Remember(b) = keys
    BY <1>1, <1>3 DEF Remember, keys
  <2>2. QED
    BY <1>1, <1>3, <2>1
<1>4. QED
  BY <1>1, <1>2, <1>3

\* The event the dispatcher takes, and what it leaves in the queue.
LEMMA TakeFacts ==
    ASSUME TypeOK, TakeEvent
    PROVE  /\ Head(queue) = queue[1] /\ Head(queue) \in Bar \union {Sentinel}
           /\ queue' \in Seq(Bar \union {Sentinel}) /\ Len(queue) >= 1
           /\ Len(queue') = Len(queue) - 1
           /\ \A i \in 1 .. Len(queue') : queue'[i] = queue[i + 1]
           /\ dispatcher = "get"
BY DEF TypeOK, TakeEvent

\* The counter is exact and the types are right, together: without the
\* counter the number of unfinished events might become negative.
LEMMA CounterStep ==
    ASSUME TypeOK, UnfinishedExact, QueueInv, [Next]_vars
    PROVE  TypeOK' /\ UnfinishedExact'
<1> USE DEF TypeOK, UnfinishedExact, Stops, Alive, tasks, events, counts
<1>1. CASE Start
  BY <1>1 DEF Start, QueueInv
<1>2. CASE StartFails
  <2>1. \/ UNCHANGED <<lease, interrupted, yields, faults>>
        \/ lease' = TRUE /\ Fault
    BY <1>2 DEF StartFails
  <2>2. /\ lease' \in BOOLEAN /\ interrupted' \in {"no", "run", "stop"}
        /\ yields' \in Nat /\ faults' \in Nat
    <3>1. CASE UNCHANGED <<lease, interrupted, yields, faults>>
      BY <3>1
    <3>2. CASE lease' = TRUE /\ Fault
      <4>1. interrupted' = interrupted /\ yields' = yields /\ faults' \in Nat
        BY <3>2 DEF Fault
      <4>2. QED
        BY <3>2, <4>1
    <3>3. QED
      BY <2>1, <3>1, <3>2
  <2>3. UnfinishedExact'
    BY <1>2 DEF StartFails, QueueInv
  <2>4. QED
    BY <1>2, <2>2, <2>3 DEF StartFails
<1>3. CASE SourceYields
  <2>1. PICK b \in Bar :
            IF dispatcher \in Alive /\ bus = "open"
            THEN queue' = Append(queue, b) /\ unfinished' = unfinished + 1 /\ UNCHANGED source
            ELSE source' = "failed" /\ UNCHANGED <<queue, unfinished>>
    BY <1>3, Zenon DEF SourceYields
  <2>2. Append(queue, b) \in Seq(Bar \union {Sentinel}) /\ Len(Append(queue, b)) = Len(queue) + 1
    OBVIOUS
  <2>3. CASE dispatcher \in Alive /\ bus = "open"
    <3>1. queue' = Append(queue, b) /\ unfinished' = unfinished + 1 /\ source' = source
      BY <2>1, <2>3
    <3>2. UnfinishedExact'
      BY <1>3, <2>2, <3>1 DEF SourceYields
    <3>3. QED
      BY <1>3, <2>2, <3>1, <3>2 DEF SourceYields
  <2>4. CASE ~(dispatcher \in Alive /\ bus = "open")
    <3>1. queue' = queue /\ unfinished' = unfinished /\ source' = "failed"
      BY <2>1, <2>4
    <3>2. QED
      BY <1>3, <3>1 DEF SourceYields
  <2>5. QED
    BY <2>3, <2>4
<1>4. CASE SourceEnds
  BY <1>4 DEF SourceEnds
<1>5. CASE TakeSentinel
  BY <1>5, TakeFacts DEF TakeSentinel, Done
<1>6. CASE IgnoreBar
  BY <1>6, TakeFacts DEF IgnoreBar, Done, Refreshed
<1>7. CASE TriggerStrategy
  <2>1. Head(queue) \in Bar
    BY <1>7, TakeFacts DEF TriggerStrategy
  <2>2. gate' \in Seq(Bar)
    BY <1>7, <2>1 DEF TriggerStrategy, Remember
  <2>3. triggered' \in Seq(Bar)
    BY <1>7, <2>1 DEF TriggerStrategy
  <2>4. QED
    BY <1>7, <2>1, <2>2, <2>3, TakeFacts DEF TriggerStrategy, Refreshed
<1>8. CASE HandlerFails
  <2>1. Head(queue) \in Bar
    BY <1>8, TakeFacts DEF HandlerFails
  <2>2. gate' \in Seq(Bar)
    <3>1. Append(gate, Head(queue)) \in Seq(Bar) /\ Len(Append(gate, Head(queue))) > 0
      BY <2>1
    <3>2. Remember(Head(queue)) \in Seq(Bar)
      BY <3>1 DEF Remember
    <3>3. QED
      BY <1>8, <3>2 DEF HandlerFails
  <2>3. QED
    BY <1>8, <2>1, <2>2, TakeFacts DEF HandlerFails, Done, Fault
<1>9. CASE StrategyReturns
  BY <1>9 DEF StrategyReturns, Done
<1>10. CASE StrategyFails
  BY <1>10 DEF StrategyFails, Done, Fault
<1>11. CASE Heartbeat
  BY <1>11 DEF Heartbeat, Refreshed
<1>12. CASE RunWakes
  BY <1>12 DEF RunWakes, StopBegins
<1>13. CASE Interrupt
  BY <1>13 DEF Interrupt, StopBegins
<1>14. CASE InterruptStop
  <2>1. queue' = queue /\ status' = status /\ source' = source /\ gate' = gate
    BY <1>14, Zenon DEF InterruptStop
  <2>2. /\ dispatcher' \in {dispatcher, "cancelled"} /\ current' \in {current, Sentinel}
        /\ phase' = "bus" /\ bus' \in {bus, "forgotten"} /\ interrupted' = "stop"
    BY <1>14 DEF InterruptStop, DispatcherCancelled
  <2>3. unfinished' \in Nat /\ UnfinishedExact'
    BY <1>14, <2>1 DEF InterruptStop, DispatcherCancelled
  <2>4. QED
    BY <1>14, <2>1, <2>2, <2>3 DEF InterruptStop
<1>15. CASE Killed
  <2>1. unfinished' \in Nat /\ UnfinishedExact'
    BY <1>15 DEF Killed, DispatcherCancelled
  <2>2. /\ dispatcher' \in {dispatcher, "cancelled"} /\ current' = Sentinel
        /\ phase' = "ended" /\ source' \in {source, "cancelled"}
    BY <1>15 DEF Killed, DispatcherCancelled
  <2>3. QED
    BY <1>15, <2>1, <2>2 DEF Killed
<1>16. CASE StopBus
  BY <1>16 DEF StopBus
<1>17. CASE Joined
  BY <1>17 DEF Joined
<1>18. CASE Awaited
  BY <1>18 DEF Awaited
<1>19. CASE SourceClosed
  <2>1. /\ UNCHANGED <<source, bus, queue, unfinished, dispatcher, current, gate, lease,
                       triggered, submitted, interrupted, yields, faults>>
        /\ status' = "stopped" /\ ready' \in BOOLEAN /\ phase' = "release"
    BY <1>19, Zenon DEF SourceClosed
  <2>2. QED
    BY <2>1
<1>20. CASE Release
  <2>1. /\ UNCHANGED <<status, source, bus, queue, unfinished, dispatcher, current, gate,
                       triggered, submitted, interrupted, yields, faults>>
        /\ lease' \in BOOLEAN /\ ready' \in BOOLEAN /\ phase' = "unwind"
    BY <1>20, Zenon DEF Release
  <2>2. QED
    BY <2>1
<1>21. CASE ReleaseFails
  <2>1. UNCHANGED <<status, source, bus, queue, unfinished, dispatcher, current, gate,
                    triggered, submitted, interrupted, yields>>
    BY <1>21, Zenon DEF ReleaseFails, Fault
  <2>2. UnfinishedExact'
    BY <2>1
  <2>3. QED
    BY <1>21, <2>1, <2>2 DEF ReleaseFails, Fault
<1>22. CASE Ends
  BY <1>22 DEF Ends, DispatcherCancelled
<1>23. CASE UNCHANGED vars
  BY <1>23 DEF vars
<1>24. QED
  BY <1>1, <1>2, <1>3, <1>4, <1>5, <1>6, <1>7, <1>8, <1>9, <1>10, <1>11, <1>12, <1>13, <1>14,
     <1>15, <1>16, <1>17, <1>18, <1>19, <1>20, <1>21, <1>22, <1>23
     DEF Next, Dispatch, Strategy, Stopping, Terminated

\* The sentinel stays alone in a bus that is open no more.
LEMMA QueueStep ==
    ASSUME TypeOK, UnfinishedExact, QueueInv, [Next]_vars
    PROVE  QueueInv'
<1> USE DEF TypeOK, QueueInv, Stops, Alive, tasks, events, counts
<1>1. CASE Start
  BY <1>1 DEF Start
<1>2. CASE StartFails
  BY <1>2 DEF StartFails, Fault
<1>3. CASE SourceYields
  <2>1. PICK b \in Bar :
            \/ /\ queue' = Append(queue, b) /\ bus = "open" /\ dispatcher \in Alive
            \/ queue' = queue
    BY <1>3 DEF SourceYields
  <2>2. /\ Len(Append(queue, b)) = Len(queue) + 1
        /\ \A i \in 1 .. Len(queue) : Append(queue, b)[i] = queue[i]
        /\ Append(queue, b)[Len(queue) + 1] = b
    OBVIOUS
  <2>3. CASE queue' = Append(queue, b) /\ bus = "open" /\ dispatcher \in Alive
    <3>1. \A i \in 1 .. Len(queue') : queue'[i] # Sentinel
      BY <2>2, <2>3
    <3>2. QED
      BY <1>3, <2>3, <3>1 DEF SourceYields
  <2>4. CASE queue' = queue
    BY <1>3, <2>4 DEF SourceYields
  <2>5. QED
    BY <2>1, <2>3, <2>4
<1>4. CASE SourceEnds
  BY <1>4 DEF SourceEnds
<1>5. CASE TakeSentinel
  <2>1. Len(queue) = 1
    BY <1>5, TakeFacts DEF TakeSentinel
  <2>2. queue' = <<>>
    BY <2>1, <1>5, TakeFacts DEF TakeSentinel
  <2>3. QED
    BY <1>5, <2>2, TakeFacts DEF TakeSentinel
<1>6. CASE IgnoreBar \/ TriggerStrategy \/ HandlerFails
  <2>0. queue # <<>> /\ queue' = Tail(queue) /\ Head(queue) # Sentinel
    BY <1>6, Zenon DEF IgnoreBar, TriggerStrategy, HandlerFails, TakeEvent
  <2>1. Len(queue) # 1 => \A i \in 1 .. Len(queue) : queue[i] # Sentinel
    OBVIOUS
  <2>2. \A i \in 1 .. Len(queue') : queue'[i] # Sentinel
    BY <2>0, <2>1
  <2>3. phase' = phase /\ bus' = bus
    BY <1>6 DEF IgnoreBar, TriggerStrategy, HandlerFails
  <2>4. /\ dispatcher = "get" /\ dispatcher' # "returned"
        /\ dispatcher' = "strategy" <=> current' # Sentinel
    BY <1>6, TakeFacts DEF IgnoreBar, TriggerStrategy, HandlerFails
  <2>5. QED
    BY <2>2, <2>3, <2>4
<1>9. CASE StrategyReturns \/ StrategyFails
  BY <1>9 DEF StrategyReturns, StrategyFails, Fault
<1>11. CASE Heartbeat
  BY <1>11 DEF Heartbeat
<1>12. CASE RunWakes \/ Interrupt
  BY <1>12 DEF RunWakes, Interrupt, StopBegins
<1>14. CASE InterruptStop
  BY <1>14 DEF InterruptStop, DispatcherCancelled
<1>15. CASE Killed
  BY <1>15 DEF Killed, DispatcherCancelled
<1>16. CASE StopBus
  BY <1>16 DEF StopBus
<1>17. CASE Joined
  <2>1. queue = <<>>
    BY <1>17 DEF Joined, UnfinishedExact
  <2>2. Len(queue') = 1
    BY <1>17, <2>1 DEF Joined
  <2>3. dispatcher # "returned"
    BY <1>17 DEF Joined
  <2>4. QED
    BY <1>17, <2>2, <2>3 DEF Joined
<1>18. CASE Awaited \/ SourceClosed \/ Release \/ ReleaseFails
  BY <1>18 DEF Awaited, SourceClosed, Release, ReleaseFails, Fault
<1>22. CASE Ends
  BY <1>22 DEF Ends, DispatcherCancelled
<1>23. CASE UNCHANGED vars
  BY <1>23 DEF vars
<1>24. QED
  BY <1>1, <1>2, <1>3, <1>4, <1>5, <1>6, <1>9, <1>11, <1>12, <1>14,
     <1>15, <1>16, <1>17, <1>18, <1>22, <1>23
     DEF Next, Dispatch, Strategy, Stopping, Terminated

\* The types, the counter and the queue at the start.
LEMMA InitFacts == ASSUME Init PROVE TypeOK /\ UnfinishedExact /\ QueueInv
<1>1. queue = <<>> /\ gate = <<>> /\ triggered = <<>> /\ Len(queue) = 0
  BY DEF Init
<1>2. TypeOK
  <2>1. queue \in Seq(Bar \union {Sentinel}) /\ gate \in Seq(Bar) /\ triggered \in Seq(Bar)
    BY <1>1
  <2>2. QED
    BY <2>1 DEF Init, TypeOK, Stops, Alive
<1>3. UnfinishedExact
  BY <1>1 DEF Init, UnfinishedExact
<1>4. QueueInv
  BY <1>1 DEF Init, QueueInv
<1>5. QED
  BY <1>2, <1>3, <1>4

\* The variables of the service keep their types.
THEOREM TypeCorrect == Spec => []TypeOK
<1>1. Init => TypeOK /\ UnfinishedExact /\ QueueInv
  BY InitFacts
<1>2. TypeOK /\ UnfinishedExact /\ QueueInv /\ [Next]_vars
          => TypeOK' /\ UnfinishedExact' /\ QueueInv'
  BY CounterStep, QueueStep
<1>3. QED
  BY <1>1, <1>2, PTL DEF Spec

\* The distance at which a bar may be triggered again is kept when one more
\* bar that the gate does not remember is triggered.
LEMMA DistanceGrows ==
    ASSUME TypeOK, GateInv, RetriggerDistance, dispatcher \in Alive,
           NEW b \in Bar, ~Remembers(b), triggered' = Append(triggered, b)
    PROVE  RetriggerDistance'
<1>1. /\ triggered \in Seq(Bar) /\ gate \in Seq(Bar)
      /\ Len(triggered') = Len(triggered) + 1
      /\ triggered'[Len(triggered) + 1] = b
      /\ \A i \in 1 .. Len(triggered) : triggered'[i] = triggered[i]
  BY DEF TypeOK
<1>2. SUFFICES ASSUME NEW i \in 1 .. Len(triggered), triggered[i] = b
               PROVE  Len(triggered) + 1 - i > Capacity
  BY <1>1 DEF RetriggerDistance
<1>3. /\ Len(gate) <= Len(triggered) /\ Len(gate) <= Capacity
      /\ Len(gate) < Capacity => Len(gate) = Len(triggered)
      /\ \A k \in 1 .. Len(gate) : gate[k] = triggered[Len(triggered) - Len(gate) + k]
      /\ \A k \in 1 .. Len(gate) : gate[k] # b
  BY DEF GateInv, Remembers
<1>4. ASSUME i > Len(triggered) - Len(gate)
      PROVE  FALSE
  <2> DEFINE k == i - (Len(triggered) - Len(gate))
  <2>1. Len(gate) \in Nat /\ Len(triggered) \in Nat
    BY <1>1
  <2>2. k \in 1 .. Len(gate) /\ Len(triggered) - Len(gate) + k = i
    BY <1>3, <1>4, <2>1
  <2>3. gate[k] = b
    BY <1>2, <1>3, <2>2
  <2>4. QED
    BY <1>3, <2>2, <2>3
<1>5. QED
  BY <1>1, <1>3, <1>4

\* The gate keeps what was triggered last.
LEMMA GateStep ==
    ASSUME TypeOK, GateInv, RetriggerDistance, QueueInv, [Next]_vars
    PROVE  GateInv' /\ RetriggerDistance'
<1>1. CASE Start
  BY <1>1 DEF Start, GateInv, RetriggerDistance
<1>2. ASSUME UNCHANGED <<gate, triggered>>, phase' # "start" \/ phase' = phase,
             dispatcher' \in Alive => dispatcher \in Alive
      PROVE  GateInv' /\ RetriggerDistance'
  BY <1>2 DEF GateInv, RetriggerDistance
<1>3. CASE TriggerStrategy
  <2>1. PICK b \in Bar : /\ ~Remembers(b) /\ gate' = Remember(b)
                         /\ triggered' = Append(triggered, b)
    BY <1>3, TakeFacts DEF TriggerStrategy
  <2>2. dispatcher \in Alive /\ phase' = phase /\ phase # "start"
    BY <1>3, TakeFacts DEF TriggerStrategy, tasks, Alive, QueueInv
  <2>3. RetriggerDistance'
    BY <2>1, <2>2, DistanceGrows
  <2>4. /\ gate \in Seq(Bar) /\ triggered \in Seq(Bar) /\ Len(gate) <= Capacity
        /\ Len(gate) <= Len(triggered)
        /\ Len(gate) < Capacity => Len(gate) = Len(triggered)
        /\ \A i \in 1 .. Len(gate) : gate[i] = triggered[Len(triggered) - Len(gate) + i]
    BY <2>2 DEF TypeOK, GateInv
  <2>5. /\ Len(gate') = IF Len(gate) < Capacity THEN Len(gate) + 1 ELSE Capacity
        /\ \A i \in 1 .. Len(gate') :
              gate'[i] = IF i = Len(gate') THEN b ELSE gate[Len(gate) + 1 - Len(gate') + i]
    BY <2>1, <2>4, RememberFacts
  <2>6. /\ Len(triggered') = Len(triggered) + 1
        /\ triggered'[Len(triggered) + 1] = b
        /\ \A i \in 1 .. Len(triggered) : triggered'[i] = triggered[i]
    BY <2>1, <2>4
  <2>7. /\ Len(gate') <= Capacity /\ Len(gate') <= Len(triggered')
        /\ Len(gate') < Capacity => Len(gate') = Len(triggered')
    BY <2>4, <2>5, <2>6
  <2>8. ASSUME NEW i \in 1 .. Len(gate')
        PROVE  gate'[i] = triggered'[Len(triggered') - Len(gate') + i]
    <3>1. Len(gate) \in Nat /\ Len(triggered) \in Nat /\ Len(gate') \in Nat
      BY <2>4, <2>5
    <3>2. CASE i = Len(gate')
      <4>1. Len(triggered') - Len(gate') + i = Len(triggered) + 1
        BY <2>6, <3>1, <3>2
      <4>2. QED
        BY <2>5, <2>6, <3>2, <4>1
    <3>3. CASE i # Len(gate')
      <4> DEFINE k == Len(gate) + 1 - Len(gate') + i
      <4>1. k \in 1 .. Len(gate)
        BY <2>4, <2>5, <3>1, <3>3
      <4>2. Len(triggered) - Len(gate) + k = Len(triggered') - Len(gate') + i
        BY <2>6, <3>1
      <4>3. Len(triggered) - Len(gate) + k \in 1 .. Len(triggered)
        BY <2>4, <3>1, <4>1
      <4>4. gate'[i] = gate[k] /\ gate[k] = triggered[Len(triggered) - Len(gate) + k]
        BY <2>4, <2>5, <3>3, <4>1
      <4>5. QED
        BY <2>6, <4>2, <4>3, <4>4
    <3>4. QED
      BY <3>2, <3>3
  <2>9. GateInv'
    BY <2>2, <2>7, <2>8 DEF GateInv
  <2>10. QED
    BY <2>3, <2>9
<1>4. CASE HandlerFails
  <2>1. /\ Len(gate) <= Capacity /\ gate \in Seq(Bar) /\ Head(queue) \in Bar
        /\ dispatcher = "get" /\ dispatcher' = "failed"
        /\ phase' = phase /\ triggered' = triggered
    BY <1>4, TakeFacts DEF HandlerFails, tasks, GateInv, TypeOK
  <2>2. Len(Remember(Head(queue))) <= Capacity
    <3>1. Len(gate) \in Nat
      BY <2>1
    <3>2. QED
      BY <2>1, <3>1, RememberFacts
  <2>3. Len(gate') <= Capacity
    BY <1>4, <2>1, <2>2 DEF HandlerFails
  <2>4. QED
    BY <2>1, <2>3 DEF GateInv, RetriggerDistance, QueueInv, Alive
<1>5. QED
  <2> USE DEF tasks, events, counts, Alive
  <2>1. CASE StartFails \/ SourceYields \/ SourceEnds
    BY <1>2, <2>1 DEF StartFails, SourceYields, SourceEnds
  <2>2. CASE TakeSentinel \/ IgnoreBar
    BY <1>2, <2>2 DEF TakeSentinel, IgnoreBar
  <2>3. CASE StrategyReturns \/ StrategyFails \/ Heartbeat
    BY <1>2, <2>3 DEF StrategyReturns, StrategyFails, Heartbeat
  <2>4. CASE RunWakes \/ Interrupt
    BY <1>2, <2>4 DEF RunWakes, Interrupt, StopBegins
  <2>5. CASE InterruptStop \/ Killed \/ Ends
    BY <1>2, <2>5 DEF InterruptStop, Killed, Ends, DispatcherCancelled
  <2>6. CASE StopBus \/ Joined \/ Awaited
    BY <1>2, <2>6 DEF StopBus, Joined, Awaited
  <2>7. CASE SourceClosed \/ Release \/ ReleaseFails
    BY <1>2, <2>7 DEF SourceClosed, Release, ReleaseFails
  <2>8. CASE UNCHANGED vars
    BY <1>2, <2>8 DEF vars
  <2>9. QED
    BY <1>1, <1>3, <1>4, <2>1, <2>2, <2>3, <2>4, <2>5, <2>6, <2>7, <2>8
       DEF Next, Dispatch, Strategy, Stopping, Terminated

\* ServiceInv is inductive, together with the types.
THEOREM ServiceInvariant == Spec => []ServiceInv
<1>1. Init => TypeOK /\ ServiceInv
  <2> SUFFICES ASSUME Init PROVE TypeOK /\ ServiceInv
    OBVIOUS
  <2>1. Len(gate) = 0 /\ Len(triggered) = 0 /\ dispatcher = "none"
    BY DEF Init
  <2>2. GateInv
    BY <2>1 DEF Init, GateInv, Alive
  <2>3. RetriggerDistance
    BY <2>1 DEF RetriggerDistance
  <2>4. QED
    BY <2>2, <2>3, InitFacts DEF ServiceInv
<1>2. TypeOK /\ ServiceInv /\ [Next]_vars => TypeOK' /\ ServiceInv'
  <2> SUFFICES ASSUME TypeOK, ServiceInv, [Next]_vars PROVE TypeOK' /\ ServiceInv'
    OBVIOUS
  <2>1. TypeOK' /\ UnfinishedExact'
    BY CounterStep DEF ServiceInv
  <2>2. QueueInv'
    BY QueueStep DEF ServiceInv
  <2>3. GateInv' /\ RetriggerDistance'
    BY GateStep DEF ServiceInv
  <2>4. QED
    BY <2>1, <2>2, <2>3 DEF ServiceInv
<1>3. QED
  BY <1>1, <1>2, PTL DEF Spec

\* The counter that join() waits on is the number of events that were queued
\* and are not done with, however many events, handlers and interrupts there are.
THEOREM UnfinishedExactHolds == Spec => []UnfinishedExact
<1>1. ServiceInv => UnfinishedExact
  BY DEF ServiceInv
<1> QED
  BY <1>1, ServiceInvariant, PTL

\* A dispatcher that returns leaves no event behind it, for any number of
\* bars, failures and interrupts.
THEOREM StopDrainsHolds == Spec => []StopDrains
<1>1. ServiceInv => StopDrains
  BY DEF ServiceInv, QueueInv, UnfinishedExact, StopDrains
<1>2. QED
  BY <1>1, ServiceInvariant, PTL

\* A gate of Capacity bars hands a bar to the strategy again only after
\* Capacity others.
THEOREM RetriggerDistanceHolds == Spec => []RetriggerDistance
<1>1. ServiceInv => RetriggerDistance
  BY DEF ServiceInv
<1>2. QED
  BY <1>1, ServiceInvariant, PTL

\* The lease and the status of the service when a bar goes to the strategy.
THEOREM DrainingNeverTriggersHolds == Spec => DrainingNeverTriggers
<1>1. [Next]_vars => [triggered' # triggered => status = "running" /\ lease]_vars
  <2> SUFFICES ASSUME [Next]_vars, triggered' # triggered
               PROVE  status = "running" /\ lease
    OBVIOUS
  <2>1. TriggerStrategy
    BY DEF Next, Start, StartFails, SourceYields, SourceEnds, Dispatch, TakeSentinel,
           IgnoreBar, HandlerFails, Strategy, StrategyReturns, StrategyFails, Heartbeat,
           Interrupt, StopBegins, InterruptStop, Killed, Stopping, RunWakes, StopBus, Joined,
           Awaited, SourceClosed, Release, ReleaseFails, Ends, Terminated, vars
  <2>2. QED
    BY <2>1 DEF TriggerStrategy, Refreshed
<1>2. QED
  BY <1>1, PTL DEF Spec, DrainingNeverTriggers

\* While the lease is held no strategy is left behind: the step.
LEMMA HeldStep ==
    ASSUME HeldInv, QueueInv, [Next]_vars
    PROVE  HeldInv'
<1> USE DEF HeldInv, Stops, Alive, tasks, events, counts
<1>1. CASE Start \/ StartFails
  BY <1>1 DEF Start, StartFails
<1>2. CASE SourceYields \/ SourceEnds
  BY <1>2 DEF SourceYields, SourceEnds
<1>3. CASE TakeSentinel \/ IgnoreBar \/ HandlerFails
  BY <1>3 DEF TakeSentinel, IgnoreBar, HandlerFails, TakeEvent, Fault
<1>4. CASE TriggerStrategy
  <2>1. lease /\ lease' = lease /\ phase' = phase /\ bus' = bus /\ dispatcher \in Alive
         /\ interrupted' = interrupted
    BY <1>4 DEF TriggerStrategy, Refreshed, TakeEvent
  <2>2. QED
    BY <2>1
<1>5. CASE StrategyReturns \/ StrategyFails \/ Heartbeat
  BY <1>5 DEF StrategyReturns, StrategyFails, Heartbeat, Fault
<1>6. CASE RunWakes \/ Interrupt
  BY <1>6 DEF RunWakes, Interrupt, StopBegins
<1>7. CASE InterruptStop
  BY <1>7 DEF InterruptStop
<1>8. CASE Killed \/ Ends
  BY <1>8 DEF Killed, Ends, DispatcherCancelled
<1>9. CASE StopBus \/ Joined \/ Awaited
  BY <1>9 DEF StopBus, Joined, Awaited
<1>10. CASE SourceClosed \/ Release \/ ReleaseFails
  BY <1>10 DEF SourceClosed, Release, ReleaseFails, Fault
<1>11. CASE UNCHANGED vars
  BY <1>11 DEF vars
<1>12. QED
  BY <1>1, <1>2, <1>3, <1>4, <1>5, <1>6, <1>7, <1>8, <1>9, <1>10, <1>11
     DEF Next, Dispatch, Strategy, Stopping, Terminated

\* No signal goes to the OMS once the lease has been released, unless the
\* interrupt came while the service was stopping.
THEOREM NoOrderAfterReleaseHolds == Spec => NoOrderAfterRelease
<1>1. Init => HeldInv
  BY DEF Init, HeldInv, Alive
<1>2. HeldInv /\ QueueInv /\ [Next]_vars => HeldInv'
  BY HeldStep
<1>3. ServiceInv => QueueInv
  BY DEF ServiceInv
<1>4. HeldInv /\ [Next]_vars => [submitted' # submitted => lease \/ interrupted = "stop"]_vars
  <2> SUFFICES ASSUME HeldInv, [Next]_vars, submitted' # submitted
               PROVE  lease \/ interrupted = "stop"
    OBVIOUS
  <2>1. StrategyReturns
    BY DEF Next, Start, StartFails, SourceYields, SourceEnds, Dispatch, TakeSentinel,
           IgnoreBar, TriggerStrategy, HandlerFails, Strategy, StrategyFails, Heartbeat,
           Interrupt, StopBegins, InterruptStop, Killed, Stopping, RunWakes, StopBus, Joined,
           Awaited, SourceClosed, Release, ReleaseFails, Ends, Terminated, vars
  <2>2. QED
    BY <2>1 DEF StrategyReturns, HeldInv
<1>5. QED
  BY <1>1, <1>2, <1>3, <1>4, ServiceInvariant, PTL DEF Spec, NoOrderAfterRelease

=============================================================================
