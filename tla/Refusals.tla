------------------------------- MODULE Refusals -------------------------------
(***************************************************************************)
(* Which refusals of the risk gate an operator is told of, for one symbol  *)
(* and reason: those that repeat, and not all of these.                    *)
(*                                                                         *)
(*   refusals   apps/trader/oms.py            _persist_risk_rejection      *)
(*   count      src/infra/observability/service.py  count_occurrence       *)
(*                                                                         *)
(* A refusal over the lease is critical, and sent whatever the count.      *)
(***************************************************************************)
EXTENDS Integers, FiniteSets, SequencesExt

CONSTANTS
    Cooldown,       \* cooldown_seconds of the router: 300 s
    Window,         \* window_seconds of count_occurrence: 300 s
    MaxRefusals,    \* bounds: refusals that follow one another, and their times
    MaxTime

ASSUME RefusalsAssumption ==
    /\ Cooldown \in Nat \ {0} /\ Window \in Nat
    /\ MaxRefusals \in Nat /\ MaxTime \in Nat

None == -1

\* What is remembered of them: the deque of count_occurrence, the router's
\* _last_sent_at (None: never), and which of them were sent.  A refusal is
\* counted as of the bar it answers (at) and sent by the clock.
Refusal == {[at |-> t, clock |-> t + lag] : t \in 0 .. MaxTime, lag \in {0, 1}}
NoRefusals == [window |-> <<>>, last |-> None, sent |-> <<>>]

\* The first of these times that is within the window.
FirstWithin(times, at) ==
    CHOOSE i \in 1 .. Len(times) :
        at - times[i] <= Window /\ \A j \in 1 .. i - 1 : at - times[j] > Window

\* Mutant: what is older than the window still counts.
CountedForEver(window, at) == Append(window, at)
\* count_occurrence: the oldest are dropped up to the first one within the window.
Counted(window, at) ==
    LET all == Append(window, at) IN SubSeq(all, FirstWithin(all, at), Len(all))

\* dispatch: a refusal is sent when the cooldown does not hold it back.
Out(r, window, clock) ==
    Len(window) >= 3 /\ (r.last = None \/ clock - r.last >= Cooldown)

\* _persist_risk_rejection and dispatch: the third refusal in the window is
\* sent, and those after it that the cooldown does not hold back.
Refused(r, refusal) ==
    LET window == Counted(r.window, refusal.at)
        out == Out(r, window, refusal.clock)
    IN  [window |-> window,
         last |-> IF out THEN refusal.clock ELSE r.last,
         sent |-> Append(r.sent, out)]

RefusalsSent(refusals) == FoldLeft(Refused, NoRefusals, refusals).sent

\* The histories of n refusals: neither the bars nor the clock go back.
Histories(n) ==
    {refusals \in [1 .. n -> Refusal] :
        \A i \in 1 .. n - 1 : /\ refusals[i].at <= refusals[i + 1].at
                              /\ refusals[i].clock <= refusals[i + 1].clock}

\* The refusal is at least the third in the window that ends with it.
Repeated(refusals, i) ==
    Cardinality({j \in 1 .. i : refusals[i].at - refusals[j].at <= Window}) >= 3

\* In every history, one is sent only if two more lie within the window before
\* it, and when three do, one was sent less than a cooldown ago.
HistoriesTold ==
    \A n \in 0 .. MaxRefusals :
    \A refusals \in Histories(n) :
        LET out == RefusalsSent(refusals)
        IN  \A i \in 1 .. n :
                /\ out[i] => Repeated(refusals, i)
                /\ Repeated(refusals, i) =>
                      \E j \in 1 .. i :
                          out[j] /\ refusals[i].clock - refusals[j].clock < Cooldown
=============================================================================
