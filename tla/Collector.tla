------------------------------ MODULE Collector ------------------------------
(***************************************************************************)
(* The collector: from the bars of the venue to final bars, each once.     *)
(*                                                                         *)
(*   service     apps/collector/service.py        CollectorService         *)
(*   checkpoint  apps/collector/checkpoints.py    the JSON file            *)
(*   gate        src/domain/market/bars.py        FinalBarGate             *)
(*   gateway     src/infra/exchanges/eastmoney.py fetches and live polls   *)
(*                                                                         *)
(* The bars of a symbol are numbered as they close; all symbols trade, so  *)
(* bar n closes for all of them at once.  The collector is one task: its   *)
(* steps are its requests to the venue, the bars it processes and the      *)
(* events it yields.  While requests succeed it is prompt: no more than    *)
(* Slack bars close between two answers for a symbol.  While it waits to   *)
(* reconnect, or is down, any number may.                                  *)
(***************************************************************************)
EXTENDS Integers, Sequences, Functions

CONSTANTS
    Symbols,        \* the configured symbols, in their order
    PollBars,       \* live_poll_bars
    SeedBars,       \* history_seed_bars
    Capacity,       \* recent_final_capacity of the gate
    Slack,          \* bars that may close between two answers
    FaultKinds,     \* what may go wrong: see below
    MaxBars,        \* bound: bars the venue closes
    MaxTroubles     \* bound: faults and crashes together

\* "live"      a live poll fails
\* "backfill"  a request for history fails, and no event is lost by that
\* "partial"   it fails after other symbols have answered with new bars
\* "record"    the checkpoint file cannot be written
\* "empty"     the venue answers without data
\* "shared"    another collector process writes the same checkpoint file
Kinds == {"live", "backfill", "partial", "record", "empty", "shared"}

ASSUME SymbolAssumption ==
    Symbols \in Seq(Range(Symbols)) /\ Symbols # <<>> /\ IsInjective(Symbols)
ASSUME SizeAssumption ==
    /\ PollBars \in Nat \ {0} /\ SeedBars \in Nat \ {0} /\ Capacity \in Nat \ {0}
    /\ Slack \in Nat \ {0} /\ FaultKinds \subseteq Kinds
    /\ MaxBars \in Nat /\ MaxTroubles \in Nat
\* A live poll reaches back over what may have closed since the last one, and
\* the first history reaches back farther than a poll: 8 bars and 200.
ASSUME ReachAssumption == Slack < PollBars /\ PollBars < SeedBars

Symbol == Range(Symbols)

VARIABLES
    closed,         \* number of the last closed bar of the venue
    answered,       \* last closed bar when the venue last answered for a symbol
    checkpoint,     \* bar the checkpoint file names for a symbol, 0 for none
    gate,           \* keys the gate remembers, oldest first
    phase,          \* "backfill", "yield", "live", "wait" or "down"
    at,             \* position of the symbol to be requested next
    polled,         \* bars of the last live poll, not yet processed
    batch,          \* events to be yielded
    delivered,      \* history: bars of a symbol yielded by this process
    past,           \* history: bars yielded by earlier processes
    happened,       \* history: the kinds of faults that have happened
    faults,
    crashes

counts == <<happened, faults, crashes>>
collectorVars == <<closed, answered, checkpoint, gate, phase, at, polled, batch, delivered, past,
          counts>>

BarKey == [symbol : Symbol, bar : 1 .. MaxBars + 1]
Bar == [symbol : Symbol, bar : 1 .. MaxBars + 1, final : BOOLEAN]

CollectorTypeOK ==
    /\ closed \in 0 .. MaxBars
    /\ answered \in [Symbol -> 0 .. MaxBars]
    /\ checkpoint \in [Symbol -> 0 .. MaxBars]
    /\ gate \in Seq(BarKey) /\ Len(gate) <= Capacity
    /\ phase \in {"backfill", "yield", "live", "wait", "down"}
    /\ at \in 1 .. Len(Symbols)
    /\ polled \in Seq(Bar)
    /\ batch \in Seq(BarKey)
    /\ delivered \in [Symbol -> Seq(1 .. MaxBars)]
    /\ past \in [Symbol -> SUBSET (1 .. MaxBars)]
    /\ happened \subseteq FaultKinds
    /\ faults \in 0 .. MaxTroubles /\ crashes \in 0 .. MaxTroubles

CollectorInit ==
    /\ closed \in {0, MaxBars \div 2}
    /\ answered = [s \in Symbol |-> closed]
    /\ checkpoint = [s \in Symbol |-> 0]
    /\ gate = <<>>
    /\ phase = "backfill"
    /\ at = 1
    /\ polled = <<>> /\ batch = <<>>
    /\ delivered = [s \in Symbol |-> <<>>]
    /\ past = [s \in Symbol |-> {}]
    /\ happened = {} /\ faults = 0 /\ crashes = 0

Fault(kind) ==
    /\ kind \in FaultKinds
    /\ faults + crashes < MaxTroubles
    /\ faults' = faults + 1
    /\ happened' = happened \union {kind}

-----------------------------------------------------------------------------
(* The venue                                                                *)

VenueCloses ==
    /\ closed < MaxBars
    /\ phase \in {"wait", "down"} \/ \A s \in Symbol : closed - answered[s] < Slack
    /\ closed' = closed + 1
    /\ UNCHANGED <<answered, checkpoint, gate, phase, at, polled, batch, delivered, past,
                   counts>>

\* What the venue answers: the bars of s from `from` on, with or without the
\* bar that is not closed yet; max is the number of the last ones asked for.
Answer(s, from, max) ==
    LET UpTo(last) ==
            LET first == IF last - max + 1 > from THEN last - max + 1 ELSE from
            IN  [i \in 1 .. last - first + 1 |->
                    [symbol |-> s, bar |-> first + i - 1, final |-> first + i - 1 <= closed]]
    IN  {UpTo(closed), UpTo(closed + 1)}

-----------------------------------------------------------------------------
(* The gate and the checkpoint: _process_bar                                 *)

KeyOf(b) == [symbol |-> b.symbol, bar |-> b.bar]
Known(b) == KeyOf(b) \in Range(gate)

\* Mutant: the gate lets a bar through that is not closed.
EmitsOpen(b) == ~Known(b)
\* FinalBarGate.process: does the bar go on?
Emits(b) == b.final /\ ~Known(b)

\* _remember: the oldest keys give way.
Remember(b) ==
    LET keys == Append(gate, KeyOf(b)) IN IF Len(keys) > Capacity THEN Tail(keys) ELSE keys

\* Mutant: only the first bar of a symbol is recorded.
RecordedOnce(b) == [checkpoint EXCEPT ![b.symbol] = IF @ = 0 THEN b.bar ELSE @]
\* record: the last one counts, whichever bar it names.
Recorded(b) == [checkpoint EXCEPT ![b.symbol] = b.bar]

\* The next bar of the last answer is due.  The bars of a backfill are gathered
\* before any is yielded; one of the live stream is yielded before the next.
Due == polled # <<>> /\ phase \in {"backfill", "yield", "live"} /\ (phase = "live" => batch = <<>>)

BarEmitted ==
    /\ Due
    /\ Emits(Head(polled))
    /\ gate' = Remember(Head(polled))
    /\ checkpoint' = Recorded(Head(polled))
    /\ batch' = Append(batch, KeyOf(Head(polled)))
    /\ polled' = Tail(polled)
    /\ UNCHANGED <<closed, answered, phase, at, delivered, past, counts>>

BarIgnored ==
    /\ Due
    /\ ~Emits(Head(polled))
    /\ polled' = Tail(polled)
    /\ UNCHANGED <<closed, answered, checkpoint, gate, phase, at, batch, delivered, past, counts>>

\* Whatever goes wrong, all symbols are requested again: the events of those
\* that were answered are gone.
Retry ==
    /\ phase' = "wait"
    /\ at' = 1
    /\ polled' = <<>>
    /\ batch' = <<>>

\* The checkpoint cannot be written: the gate remembers the bar all the same.
BarNotRecorded ==
    /\ Due
    /\ Fault("record")
    /\ Emits(Head(polled))
    /\ gate' = Remember(Head(polled))
    /\ Retry
    /\ UNCHANGED <<closed, answered, checkpoint, delivered, past, crashes>>

-----------------------------------------------------------------------------
(* _backfill, in which one symbol is requested after the other              *)

\* Mutant: history is asked for from the bar after the next.
AskHistoryLate ==
    LET s == Symbols[at]
    IN  IF checkpoint[s] = 0 THEN Answer(s, 1, SeedBars)
        ELSE Answer(s, checkpoint[s] + 2, closed + 1)

\* The symbol asked for, from its checkpoint on, or its last SeedBars bars.
AskHistory ==
    LET s == Symbols[at]
    IN  IF checkpoint[s] = 0 THEN Answer(s, 1, SeedBars)
        ELSE Answer(s, checkpoint[s] + 1, closed + 1)

\* Mutant: one symbol too many is requested.
NextSymbolBeyond == IF at <= Len(Symbols) THEN at + 1 ELSE 1
NextSymbol == IF at < Len(Symbols) THEN at + 1 ELSE 1
AnsweredNow == answered' = [answered EXCEPT ![Symbols[at]] = closed]

\* The next symbol is to be requested: the bars of the last are done with.
Asking == phase = "backfill" /\ polled = <<>>

\* Once the last symbol has answered, its bars are processed and all is yielded.
BackfillSymbol ==
    /\ Asking
    /\ polled' \in AskHistory
    /\ AnsweredNow
    /\ at' = NextSymbol
    /\ phase' = IF at = Len(Symbols) THEN "yield" ELSE "backfill"
    /\ UNCHANGED <<closed, checkpoint, gate, batch, delivered, past, counts>>

BackfillEmpty ==
    /\ Asking
    /\ Fault("empty")
    /\ AnsweredNow
    /\ at' = NextSymbol
    /\ phase' = IF at = Len(Symbols) THEN "yield" ELSE "backfill"
    /\ UNCHANGED <<closed, checkpoint, gate, polled, batch, delivered, past, crashes>>

BackfillFails ==
    /\ Asking
    /\ Fault(IF batch = <<>> THEN "backfill" ELSE "partial")
    /\ Retry
    /\ UNCHANGED <<closed, answered, checkpoint, gate, delivered, past, crashes>>

-----------------------------------------------------------------------------
(* stream_live_bars                                                         *)

Idle == phase = "live" /\ polled = <<>> /\ batch = <<>>

LivePoll ==
    /\ Idle
    /\ polled' \in Answer(Symbols[at], 1, PollBars)
    /\ AnsweredNow
    /\ at' = NextSymbol
    /\ UNCHANGED <<closed, checkpoint, gate, phase, batch, delivered, past, counts>>

LiveEmpty ==
    /\ Idle
    /\ Fault("empty")
    /\ AnsweredNow
    /\ at' = NextSymbol
    /\ UNCHANGED <<closed, checkpoint, gate, phase, polled, batch, delivered, past, crashes>>

LiveFails ==
    /\ Idle
    /\ Fault("live")
    /\ Retry
    /\ UNCHANGED <<closed, answered, checkpoint, gate, delivered, past, crashes>>

-----------------------------------------------------------------------------
(* collect_actionable_bars                                                  *)

Yield ==
    /\ phase \in {"yield", "live"} /\ batch # <<>>
    /\ phase = "yield" => polled = <<>>
    /\ delivered' = [delivered EXCEPT ![Head(batch).symbol] = Append(@, Head(batch).bar)]
    /\ batch' = Tail(batch)
    /\ UNCHANGED <<closed, answered, checkpoint, gate, phase, at, polled, past, counts>>

GoLive ==
    /\ phase = "yield" /\ polled = <<>> /\ batch = <<>>
    /\ phase' = "live"
    /\ UNCHANGED <<closed, answered, checkpoint, gate, at, polled, batch, delivered, past,
                   counts>>

\* Mutant: after a wait the live stream is read again at once.
ReconnectLive ==
    /\ phase = "wait"
    /\ phase' = "live"
    /\ answered' = [s \in Symbol |-> closed]
    /\ UNCHANGED <<closed, checkpoint, gate, at, polled, batch, delivered, past, counts>>

Reconnect ==
    /\ phase = "wait"
    /\ phase' = "backfill"
    /\ answered' = [s \in Symbol |-> closed]
    /\ UNCHANGED <<closed, checkpoint, gate, at, polled, batch, delivered, past, counts>>

Crash ==
    /\ phase # "down"
    /\ faults + crashes < MaxTroubles
    /\ crashes' = crashes + 1
    /\ phase' = "down"
    /\ at' = 1
    /\ gate' = <<>> /\ polled' = <<>> /\ batch' = <<>>
    /\ past' = [s \in Symbol |-> past[s] \union Range(delivered[s])]
    /\ delivered' = [s \in Symbol |-> <<>>]
    /\ UNCHANGED <<closed, answered, checkpoint, happened, faults>>

Restart ==
    /\ phase = "down"
    /\ phase' = "backfill"
    /\ answered' = [s \in Symbol |-> closed]
    /\ UNCHANGED <<closed, checkpoint, gate, at, polled, batch, delivered, past, counts>>

\* A second collector on the same host records what it has emitted.
OtherRecords(s) ==
    /\ closed > 0
    /\ Fault("shared")
    /\ checkpoint' = [checkpoint EXCEPT ![s] = closed]
    /\ UNCHANGED <<closed, answered, gate, phase, at, polled, batch, delivered, past, crashes>>

-----------------------------------------------------------------------------
Collect ==
    \/ BackfillSymbol \/ LivePoll \/ BarEmitted \/ BarIgnored \/ Yield \/ GoLive \/ Reconnect
    \/ Restart

Environment ==
    \/ BackfillEmpty \/ BackfillFails \/ BarNotRecorded \/ LiveEmpty \/ LiveFails \/ Crash
    \/ \E s \in Symbol : OtherRecords(s)

CollectorNext == VenueCloses \/ Collect \/ Environment

CollectorSpec == CollectorInit /\ [][CollectorNext]_collectorVars

\* The collector goes on by itself, and its container is restarted.
FairCollectorSpec == CollectorSpec /\ WF_collectorVars(Collect)

-----------------------------------------------------------------------------
(* Properties *)

\* "Yield only closed/final bars after bootstrap, dedup, and recovery": no
\* process yields a bar twice, nor one that is not closed, whatever fails.
EmittedOnce ==
    \A s \in Symbol : IsInjective(delivered[s]) /\ \A b \in Range(delivered[s]) : b <= closed

\* Nothing has gone wrong yet but live polls, and requests for history
\* before any symbol has answered with a new bar.
OnlyFetchesFail == happened \subseteq {"live", "backfill"} /\ crashes = 0

\* As long as nothing worse happens, the collector fills its gaps: the bars
\* of a symbol are yielded in their order and without a hole, however long
\* an outage is.
InOrder(s) ==
    \A i \in 2 .. Len(delivered[s]) : delivered[s][i] = delivered[s][i - 1] + 1
NoGap == OnlyFetchesFail => \A s \in Symbol : InOrder(s)

\* The same whatever fails: a symbol whose neighbour cannot be backfilled
\* loses nothing either.
NoGapEver == \A s \in Symbol : InOrder(s)

Latest(s) == delivered[s][Len(delivered[s])]

\* "Persist the last emitted final bar per stream": when nothing is left to
\* yield, the checkpoint names the bar yielded last.
CheckpointTruthful ==
    OnlyFetchesFail /\ phase \in {"live", "wait"} /\ batch = <<>> =>
        \A s \in Symbol :
            checkpoint[s] = IF delivered[s] = <<>> THEN 0 ELSE Latest(s)

\* No process yields a bar that an earlier process has yielded.
UniqueAcrossRuns == \A s \in Symbol : Range(delivered[s]) \intersect past[s] = {}

\* The closed bars of s, from the first one yielded on, that are still owed.
Missing(s) ==
    {n \in 1 .. closed :
        delivered[s] # <<>> /\ delivered[s][1] <= n /\ n \notin Range(delivered[s])}

\* As long as nothing worse happens, a collector that keeps running catches
\* up with the venue: in the end it owes no bar of any symbol.
GapFilled == []<>(OnlyFetchesFail => \A s \in Symbol : Missing(s) = {})

-----------------------------------------------------------------------------
(* The inductive invariant behind EmittedOnce, NoGap and CheckpointTruthful  *)

\* The gate has not yet had to forget a key.
Room == Len(gate) < Capacity

\* Nothing is ahead of the venue, and the gate remembers no key twice.
ClosedInv ==
    /\ \A s \in Symbol : \A i \in DOMAIN delivered[s] : delivered[s][i] <= closed
    /\ \A i \in DOMAIN batch : batch[i].bar <= closed
    /\ \A i \in DOMAIN polled : polled[i].final => polled[i].bar <= closed
    /\ IsInjective(gate) /\ \A i \in DOMAIN gate : gate[i].bar <= closed

\* The gate remembers what was emitted, and nothing was emitted twice.
RememberedInv ==
    Room =>
    /\ \A s \in Symbol : /\ IsInjective(delivered[s])
                          /\ \A b \in Range(delivered[s]) : [symbol |-> s, bar |-> b] \in Range(gate)
    /\ IsInjective(batch) /\ Range(batch) \subseteq Range(gate)
    /\ \A e \in Range(batch) : e.bar \notin Range(delivered[e.symbol])

Pending(s) == {e.bar : e \in {b \in Range(batch) : b.symbol = s}}

\* What is pending follows what was delivered, up to the checkpoint.
StreamInv(s) ==
    /\ InOrder(s)
    /\ checkpoint[s] <= closed
    /\ delivered[s] = <<>> =>
          \/ checkpoint[s] = 0 /\ Pending(s) = {}
          \/ \E first \in 1 .. checkpoint[s] : Pending(s) = first .. checkpoint[s]
    /\ delivered[s] # <<>> =>
          Latest(s) <= checkpoint[s] /\ Pending(s) = Latest(s) + 1 .. checkpoint[s]

\* The gate knows the bars up to the checkpoint that a live poll may return,
\* and none beyond it.
GateInv ==
    /\ \A s \in Symbol : \A n \in 1 .. checkpoint[s] :
          n > closed - PollBars => [symbol |-> s, bar |-> n] \in Range(gate)
    /\ \A k \in Range(gate) : k.bar <= checkpoint[k.symbol]

\* s has answered since the last outage.
HasAnswered(s) ==
    phase \in {"yield", "live"} \/ (phase = "backfill" /\ \E i \in 1 .. at - 1 : Symbols[i] = s)

\* The last answer for s was no longer ago than Slack, and has been emitted or
\* is being processed.
AnswerInv(s) ==
    /\ phase \in {"backfill", "yield", "live"} => closed - answered[s] <= Slack
    /\ HasAnswered(s) =>
          \/ answered[s] <= checkpoint[s]
          \/ \E i \in DOMAIN polled : polled[i] = [symbol |-> s, bar |-> answered[s], final |-> TRUE]

\* What is being processed is one symbol's bars in their order, of which only
\* the last may not be closed; it leaves no hole behind the checkpoint, or
\* begins too early for a live poll to return what is before.
PolledInv ==
    /\ \A i \in DOMAIN polled :
          /\ polled[i].symbol = polled[1].symbol /\ polled[i].bar = polled[1].bar + i - 1
          /\ i < Len(polled) => polled[i].final
          /\ polled[i].bar <= checkpoint[polled[i].symbol] => Known(polled[i])
    /\ polled # <<>> =>
          \/ polled[1].bar <= checkpoint[polled[1].symbol] + 1
          \/ checkpoint[polled[1].symbol] = 0 /\ polled[1].bar + PollBars <= closed + 1

\* The events of a symbol are in the order of their bars.
BatchInv ==
    \A i, j \in DOMAIN batch :
        i < j /\ batch[i].symbol = batch[j].symbol => batch[i].bar < batch[j].bar

WaitInv == phase \in {"wait", "down"} => at = 1 /\ polled = <<>> /\ batch = <<>>

FlowInv ==
    /\ \A s \in Symbol : StreamInv(s) /\ AnswerInv(s)
    /\ GateInv /\ PolledInv /\ BatchInv

GapInv == OnlyFetchesFail /\ Room => FlowInv

CollectorInv == ClosedInv /\ RememberedInv /\ WaitInv /\ GapInv
=============================================================================
