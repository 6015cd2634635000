---------------------------- MODULE EdgeProofs -----------------------------
(***************************************************************************)
(* Proofs about the two edges of a trader: Collector, from which its bars  *)
(* come, and Alerts, by which its operator hears of it.                    *)
(*                                                                         *)
(* Of the collector, for any symbols, reach of a poll, depth of the first  *)
(* history, size of the gate and number of bars: that no bar is emitted    *)
(* twice, that there is no hole in what is emitted and that the checkpoint *)
(* names the last one.  They follow from CollectorInv, in three parts:     *)
(* what the gate remembers (RememberedInv), how what was delivered, what   *)
(* is pending and the checkpoint follow one another (StreamInv), and why   *)
(* no answer of the venue begins behind a hole (GateInv, AnswerInv,        *)
(* PolledInv).  They hold while the gate has room for one more key, as it  *)
(* has while fewer bars have closed than it remembers keys.                *)
(*                                                                         *)
(* Of the alerts, for every time of grace, every cooldown and every set of *)
(* control states; which refusals are told of is proved in RulesProofs.     *)
(***************************************************************************)
EXTENDS Collector, Alerts, RulesProofs

-----------------------------------------------------------------------------
(* Sequences *)

LEMMA Appended ==
    ASSUME NEW S, NEW seq \in Seq(S), NEW e \in S
    PROVE  /\ Append(seq, e) \in Seq(S)
           /\ Len(Append(seq, e)) = Len(seq) + 1
           /\ \A i \in DOMAIN seq : Append(seq, e)[i] = seq[i]
           /\ Append(seq, e)[Len(seq) + 1] = e
           /\ Range(Append(seq, e)) = Range(seq) \union {e}
           /\ Append(seq, e) # <<>>
<1>1. /\ Append(seq, e) \in Seq(S) /\ Len(Append(seq, e)) = Len(seq) + 1
      /\ DOMAIN seq = 1 .. Len(seq) /\ DOMAIN Append(seq, e) = 1 .. Len(seq) + 1
      /\ \A i \in 1 .. Len(seq) : Append(seq, e)[i] = seq[i]
      /\ Append(seq, e)[Len(seq) + 1] = e /\ Len(seq) \in Nat
  OBVIOUS
<1>2. Range(Append(seq, e)) = Range(seq) \union {e}
  BY <1>1 DEF Range
<1> QED BY <1>1, <1>2

LEMMA AppendedInjective ==
    ASSUME NEW S, NEW seq \in Seq(S), NEW e \in S, IsInjective(seq), e \notin Range(seq)
    PROVE  IsInjective(Append(seq, e))
<1>1. /\ DOMAIN seq = 1 .. Len(seq) /\ DOMAIN Append(seq, e) = 1 .. Len(seq) + 1
      /\ Len(seq) \in Nat
  OBVIOUS
<1>2. \A i \in 1 .. Len(seq) : seq[i] # e
  BY <1>1 DEF Range
<1> QED BY <1>1, <1>2, Appended DEF IsInjective

LEMMA Tailed ==
    ASSUME NEW S, NEW seq \in Seq(S), seq # <<>>
    PROVE  /\ Tail(seq) \in Seq(S) /\ Head(seq) \in S /\ Head(seq) = seq[1]
           /\ Len(seq) \in Nat \ {0} /\ Len(Tail(seq)) = Len(seq) - 1
           /\ DOMAIN seq = 1 .. Len(seq) /\ DOMAIN Tail(seq) = 1 .. Len(seq) - 1
           /\ \A i \in DOMAIN Tail(seq) : Tail(seq)[i] = seq[i + 1]
           /\ Range(seq) = Range(Tail(seq)) \union {Head(seq)}
<1>1. /\ Tail(seq) \in Seq(S) /\ Head(seq) \in S /\ Head(seq) = seq[1]
      /\ Len(seq) \in Nat \ {0} /\ Len(Tail(seq)) = Len(seq) - 1
      /\ DOMAIN seq = 1 .. Len(seq) /\ DOMAIN Tail(seq) = 1 .. Len(seq) - 1
  OBVIOUS
<1>2. \A i \in 1 .. Len(seq) - 1 : Tail(seq)[i] = seq[i + 1]
  BY <1>1
<1>3. \A i \in 1 .. Len(seq) : i = 1 \/ i - 1 \in 1 .. Len(seq) - 1
  BY <1>1
<1>4. \A i \in 1 .. Len(seq) - 1 : i + 1 \in 1 .. Len(seq)
  BY <1>1
<1>5. Range(seq) \subseteq Range(Tail(seq)) \union {Head(seq)}
  <2> SUFFICES ASSUME NEW i \in 1 .. Len(seq)
               PROVE  seq[i] \in Range(Tail(seq)) \union {Head(seq)}
    BY <1>1 DEF Range
  <2>1. CASE i = 1
    BY <2>1, <1>1
  <2>2. CASE i # 1
    <3>1. i - 1 \in 1 .. Len(seq) - 1 /\ (i - 1) + 1 = i
      BY <2>2, <1>1
    <3>2. Tail(seq)[i - 1] = seq[i]
      BY <3>1, <1>2
    <3> QED BY <3>1, <3>2, <1>1 DEF Range
  <2> QED BY <2>1, <2>2
<1>6. Range(Tail(seq)) \union {Head(seq)} \subseteq Range(seq)
  BY <1>1, <1>2, <1>4 DEF Range
<1> QED BY <1>1, <1>2, <1>5, <1>6

LEMMA TailedInjective ==
    ASSUME NEW S, NEW seq \in Seq(S), seq # <<>>, IsInjective(seq)
    PROVE  IsInjective(Tail(seq)) /\ Head(seq) \notin Range(Tail(seq))
<1> DEFINE n == Len(seq)
<1>1. /\ n \in Nat \ {0} /\ DOMAIN seq = 1 .. n /\ DOMAIN Tail(seq) = 1 .. n - 1
      /\ Head(seq) = seq[1] /\ \A i \in 1 .. n - 1 : Tail(seq)[i] = seq[i + 1]
  BY Tailed
<1>2. \A i, j \in 1 .. n : seq[i] = seq[j] => i = j
  BY <1>1 DEF IsInjective
<1> HIDE DEF n
<1>3. \A i \in 1 .. n - 1 : i + 1 \in 1 .. n /\ i + 1 # 1
  BY <1>1
<1>4. \A i, j \in 1 .. n - 1 : Tail(seq)[i] = Tail(seq)[j] => i = j
  BY <1>1, <1>2, <1>3
<1>5. 1 \in 1 .. n
  BY <1>1
<1>6. \A i \in 1 .. n - 1 : Tail(seq)[i] # seq[1]
  BY <1>1, <1>2, <1>3, <1>5
<1> QED BY <1>1, <1>4, <1>6 DEF IsInjective, Range

\* What a sequence of bars or events holds, by its range.
LEMMA RangeOf ==
    ASSUME NEW S, NEW seq \in Seq(S)
    PROVE  Range(seq) \subseteq S /\ \A e : e \in Range(seq) <=> \E i \in 1 .. Len(seq) : seq[i] = e
  BY DEF Range

-----------------------------------------------------------------------------
(* The venue's answers *)

LEMMA SymbolFacts ==
    /\ Len(Symbols) \in Nat \ {0} /\ DOMAIN Symbols = 1 .. Len(Symbols)
    /\ \A i \in 1 .. Len(Symbols) : Symbols[i] \in Symbol
    /\ \A i, j \in 1 .. Len(Symbols) : Symbols[i] = Symbols[j] => i = j
    /\ \A s \in Symbol : \E i \in 1 .. Len(Symbols) : Symbols[i] = s
<1>1. Len(Symbols) \in Nat \ {0} /\ DOMAIN Symbols = 1 .. Len(Symbols)
  BY SymbolAssumption
<1> QED BY <1>1, SymbolAssumption DEF Symbol, Range, IsInjective

\* An answer is a stretch of bars that follow one another, up to the one
\* closed last or the one after it.
Stretch(s, first, last, bars) ==
    /\ bars \in Seq([symbol : Symbol, bar : Nat \ {0}, final : BOOLEAN])
    /\ Len(bars) = IF last >= first THEN last - first + 1 ELSE 0
    /\ DOMAIN bars = 1 .. Len(bars)
    /\ \A i \in 1 .. Len(bars) :
          /\ bars[i].symbol = s /\ bars[i].bar = first + i - 1
          /\ bars[i].final = (first + i - 1 <= closed)
          /\ bars[i].bar <= last

LEMMA StretchFacts ==
    ASSUME closed \in Nat, NEW s \in Symbol, NEW first \in Nat \ {0}, NEW last \in Nat
    PROVE  LET bars == [i \in 1 .. last - first + 1 |->
                          [symbol |-> s, bar |-> first + i - 1, final |-> first + i - 1 <= closed]]
           IN  Stretch(s, first, last, bars)
<1> DEFINE n == IF last >= first THEN last - first + 1 ELSE 0
           bars == [i \in 1 .. last - first + 1 |->
                      [symbol |-> s, bar |-> first + i - 1, final |-> first + i - 1 <= closed]]
           S == [symbol : Symbol, bar : Nat \ {0}, final : BOOLEAN]
<1>1. n \in Nat /\ 1 .. last - first + 1 = 1 .. n
  OBVIOUS
<1>2. \A i \in 1 .. n : first + i - 1 \in Nat \ {0} /\ first + i - 1 <= last
  OBVIOUS
<1>3. \A i \in 1 .. n : bars[i] \in S
  BY <1>1, <1>2
<1>4. bars \in [1 .. n -> S]
  BY <1>1, <1>3
<1> HIDE DEF bars, n, S
<1>5. bars \in Seq(S) /\ Len(bars) = n
  BY <1>1, <1>4
<1>6. \A i \in 1 .. n : /\ bars[i].symbol = s /\ bars[i].bar = first + i - 1
                        /\ bars[i].final = (first + i - 1 <= closed)
  BY <1>1 DEF bars
<1>7. DOMAIN bars = 1 .. Len(bars)
  BY <1>4, <1>5
<1>8. \A i \in 1 .. Len(bars) : /\ bars[i].symbol = s /\ bars[i].bar = first + i - 1
                                /\ bars[i].final = (first + i - 1 <= closed)
                                /\ bars[i].bar <= last
  BY <1>2, <1>5, <1>6
<1>9. Stretch(s, first, last, bars)
  BY <1>5, <1>7, <1>8 DEF Stretch, S, n
<1> QED BY <1>9 DEF bars

LEMMA AnswerFacts ==
    ASSUME closed \in Nat, NEW s \in Symbol, NEW from \in Nat \ {0}, NEW max \in Nat \ {0},
           NEW bars \in Answer(s, from, max)
    PROVE  \E last \in {closed, closed + 1}, first \in Nat \ {0} :
              /\ first = IF last - max + 1 > from THEN last - max + 1 ELSE from
              /\ Stretch(s, first, last, bars)
<1> DEFINE F(last) == IF last - max + 1 > from THEN last - max + 1 ELSE from
           B(last) == [i \in 1 .. last - F(last) + 1 |->
                         [symbol |-> s, bar |-> F(last) + i - 1,
                          final |-> F(last) + i - 1 <= closed]]
<1>1. bars = B(closed) \/ bars = B(closed + 1)
  BY DEF Answer
<1>2. PICK last \in {closed, closed + 1} : bars = B(last)
  BY <1>1
<1>3. last \in Nat /\ F(last) \in Nat \ {0}
  OBVIOUS
<1>4. Stretch(s, F(last), last, B(last))
  BY <1>3, StretchFacts
<1> HIDE DEF F, B
<1>5. Stretch(s, F(last), last, bars)
  BY <1>2, <1>4
<1> QED BY <1>3, <1>5 DEF F

\* The bars of an answer, and those that are closed.
LEMMA StretchTypes ==
    ASSUME CollectorTypeOK, NEW s \in Symbol, NEW first \in Nat \ {0},
           NEW last \in {closed, closed + 1}, NEW bars, Stretch(s, first, last, bars)
    PROVE  bars \in Seq(Bar) /\ \A i \in DOMAIN bars : bars[i].final => bars[i].bar <= closed
<1>1. closed \in 0 .. MaxBars /\ MaxBars \in Nat
  BY SizeAssumption DEF CollectorTypeOK
<1>2. /\ bars \in [1 .. Len(bars) -> [symbol : Symbol, bar : Nat \ {0}, final : BOOLEAN]]
      /\ Len(bars) \in Nat /\ DOMAIN bars = 1 .. Len(bars)
  <2> DEFINE S == [symbol : Symbol, bar : Nat \ {0}, final : BOOLEAN]
  <2>1. bars \in Seq(S)
    BY DEF Stretch
  <2> HIDE DEF S
  <2>2. bars \in [1 .. Len(bars) -> S] /\ Len(bars) \in Nat /\ DOMAIN bars = 1 .. Len(bars)
    BY <2>1
  <2> QED BY <2>2 DEF S
<1>3. \A i \in 1 .. Len(bars) : bars[i].bar <= last /\ bars[i].bar = first + i - 1
                                /\ bars[i].final = (first + i - 1 <= closed)
  BY DEF Stretch
<1>4. \A i \in 1 .. Len(bars) : bars[i].bar \in 1 .. MaxBars + 1
  BY <1>1, <1>2, <1>3
<1>5. \A i \in 1 .. Len(bars) : bars[i] \in Bar
  BY <1>2, <1>4 DEF Bar
<1>6. bars \in Seq(Bar)
  BY <1>2, <1>5
<1>7. \A i \in 1 .. Len(bars) : bars[i].final => bars[i].bar <= closed
  BY <1>3
<1> QED BY <1>2, <1>6, <1>7

LEMMA FollowingSymbol ==
    ASSUME at \in 1 .. Len(Symbols), at # Len(Symbols)
    PROVE  NextSymbol = at + 1
<1>1. Len(Symbols) \in Nat
  BY SymbolFacts
<1>2. at < Len(Symbols)
  BY <1>1
<1> QED BY <1>2 DEF NextSymbol

\* A request goes to a symbol, and what it returns is a stretch.
LEMMA RequestFacts ==
    ASSUME CollectorTypeOK
    PROVE  /\ Symbols[at] \in Symbol
           /\ \A bars \in AskHistory \union Answer(Symbols[at], 1, PollBars) :
                 bars \in Seq(Bar) /\ \A i \in DOMAIN bars : bars[i].final => bars[i].bar <= closed
           /\ answered \in [Symbol -> 0 .. MaxBars]
           /\ AnsweredNow => answered' \in [Symbol -> 0 .. MaxBars]
           /\ NextSymbol \in 1 .. Len(Symbols)
<1>1. at \in 1 .. Len(Symbols) /\ Symbols[at] \in Symbol /\ closed \in 0 .. MaxBars /\ MaxBars \in Nat
  BY SymbolFacts, SizeAssumption DEF CollectorTypeOK
<1>2. ASSUME NEW from \in Nat \ {0}, NEW max \in Nat \ {0}, NEW bars \in Answer(Symbols[at], from, max)
      PROVE  bars \in Seq(Bar) /\ \A i \in DOMAIN bars : bars[i].final => bars[i].bar <= closed
  <2>1. closed \in Nat
    BY <1>1
  <2>2. PICK last \in {closed, closed + 1}, first \in Nat \ {0} : Stretch(Symbols[at], first, last, bars)
    BY <1>1, <1>2, <2>1, AnswerFacts
  <2> QED BY <1>1, <2>2, StretchTypes
<1>3. checkpoint[Symbols[at]] \in Nat
  BY <1>1 DEF CollectorTypeOK
<1>4. ASSUME NEW bars \in AskHistory
      PROVE  bars \in Seq(Bar) /\ \A i \in DOMAIN bars : bars[i].final => bars[i].bar <= closed
  <2>1. CASE checkpoint[Symbols[at]] = 0
    BY <1>2, <2>1, SizeAssumption DEF AskHistory
  <2>2. CASE checkpoint[Symbols[at]] # 0
    <3>1. checkpoint[Symbols[at]] + 1 \in Nat \ {0} /\ closed + 1 \in Nat \ {0}
      BY <1>1, <1>3
    <3> QED BY <1>2, <2>2, <3>1 DEF AskHistory
  <2> QED BY <2>1, <2>2
<1>5. \A bars \in Answer(Symbols[at], 1, PollBars) :
         bars \in Seq(Bar) /\ \A i \in DOMAIN bars : bars[i].final => bars[i].bar <= closed
  BY <1>2, SizeAssumption
<1>6. answered \in [Symbol -> 0 .. MaxBars]
  BY DEF CollectorTypeOK
<1>7. AnsweredNow => answered' \in [Symbol -> 0 .. MaxBars]
  BY <1>1, <1>6 DEF AnsweredNow
<1>8. NextSymbol \in 1 .. Len(Symbols)
  BY <1>1, SymbolFacts DEF NextSymbol
<1> QED BY <1>1, <1>4, <1>5, <1>6, <1>7, <1>8

-----------------------------------------------------------------------------
(* The gate *)

\* A bar that the gate lets through is closed and new to it, and the gate
\* remembers it; as long as it has room, it forgets nothing for it.
LEMMA RememberFacts ==
    ASSUME CollectorTypeOK, ClosedInv, polled # <<>>, Emits(Head(polled))
    PROVE  LET b == Head(polled)
           IN  /\ b \in Bar /\ b = polled[1] /\ b.final /\ b.bar <= closed
               /\ KeyOf(b) \in BarKey /\ KeyOf(b) \notin Range(gate)
               /\ Remember(b) \in Seq(BarKey) /\ Len(Remember(b)) <= Capacity
               /\ IsInjective(Remember(b))
               /\ \A i \in DOMAIN Remember(b) : Remember(b)[i].bar <= closed
               /\ Len(Remember(b)) < Capacity =>
                     /\ Room
                     /\ Range(Remember(b)) = Range(gate) \union {KeyOf(b)}
<1> DEFINE b == Head(polled)
           k == KeyOf(b)
           all == Append(gate, k)
<1>1. /\ polled \in Seq(Bar) /\ gate \in Seq(BarKey) /\ closed \in 0 .. MaxBars /\ MaxBars \in Nat
      /\ Len(gate) <= Capacity /\ Capacity \in Nat \ {0}
  BY SizeAssumption DEF CollectorTypeOK
<1>2. b \in Bar /\ b = polled[1] /\ 1 \in DOMAIN polled
  BY <1>1, Tailed
<1>3. b.final /\ k \notin Range(gate) /\ b.bar <= closed
  BY <1>2 DEF Emits, Known, ClosedInv
<1>4. k \in BarKey /\ k.bar = b.bar
  BY <1>2 DEF KeyOf, BarKey, Bar
<1> HIDE DEF b, k
<1>5. /\ all \in Seq(BarKey) /\ Len(all) = Len(gate) + 1 /\ all # <<>>
      /\ \A i \in DOMAIN gate : all[i] = gate[i]
      /\ all[Len(gate) + 1] = k
      /\ Range(all) = Range(gate) \union {k}
  BY <1>1, <1>4, Appended
<1>6. IsInjective(all)
  BY <1>1, <1>3, <1>4, AppendedInjective DEF ClosedInv
<1>7. \A i \in DOMAIN all : all[i].bar <= closed
  <2>1. \A i \in DOMAIN gate : gate[i].bar <= closed
    BY DEF ClosedInv
  <2>2. DOMAIN gate = 1 .. Len(gate) /\ DOMAIN all = 1 .. Len(gate) + 1 /\ Len(gate) \in Nat
    BY <1>1, <1>5
  <2>3. \A i \in 1 .. Len(gate) + 1 : i \in 1 .. Len(gate) \/ i = Len(gate) + 1
    BY <2>2
  <2> QED BY <1>3, <1>4, <1>5, <2>1, <2>2, <2>3
<1> HIDE DEF all
<1>8. /\ Tail(all) \in Seq(BarKey) /\ Len(Tail(all)) = Len(gate)
      /\ DOMAIN Tail(all) = 1 .. Len(gate)
      /\ \A i \in DOMAIN Tail(all) : Tail(all)[i] = all[i + 1]
      /\ Len(gate) \in Nat /\ DOMAIN all = 1 .. Len(gate) + 1
  BY <1>1, <1>5, Tailed
<1>9. IsInjective(Tail(all))
  BY <1>5, <1>6, TailedInjective
<1>10. \A i \in DOMAIN Tail(all) : Tail(all)[i].bar <= closed
  <2>1. \A i \in 1 .. Len(gate) : i + 1 \in 1 .. Len(gate) + 1
    BY <1>8
  <2> QED BY <1>7, <1>8, <2>1
<1>11. Remember(b) = IF Len(all) > Capacity THEN Tail(all) ELSE all
  BY DEF Remember, all, k
<1> DEFINE Facts(keys) ==
       /\ b \in Bar /\ b = polled[1] /\ b.final /\ b.bar <= closed
       /\ k \in BarKey /\ k \notin Range(gate)
       /\ keys \in Seq(BarKey) /\ Len(keys) <= Capacity
       /\ IsInjective(keys)
       /\ \A i \in DOMAIN keys : keys[i].bar <= closed
       /\ Len(keys) < Capacity => Room /\ Range(keys) = Range(gate) \union {k}
<1>12. ASSUME Len(all) > Capacity PROVE Facts(Remember(b))
  <2>1. Remember(b) = Tail(all) /\ Len(gate) = Capacity
    BY <1>1, <1>5, <1>8, <1>11, <1>12
  <2>2. Facts(Tail(all))
    BY <1>1, <1>2, <1>3, <1>4, <1>8, <1>9, <1>10, <2>1
  <2> HIDE DEF Facts
  <2> QED BY <2>1, <2>2
<1>13. ASSUME ~(Len(all) > Capacity) PROVE Facts(Remember(b))
  <2>1. Remember(b) = all /\ Len(all) <= Capacity /\ (Len(all) < Capacity => Len(gate) < Capacity)
    BY <1>1, <1>5, <1>8, <1>11, <1>13
  <2>2. Facts(all)
    BY <1>2, <1>3, <1>4, <1>5, <1>6, <1>7, <2>1 DEF Room
  <2> HIDE DEF Facts
  <2> QED BY <2>1, <2>2
<1>14. Facts(Remember(b))
  <2> HIDE DEF Facts
  <2> QED BY <1>12, <1>13
<1> QED BY <1>14 DEF b, k

-----------------------------------------------------------------------------
(* Types, and nothing ahead of the venue *)

LEMMA CollectorInitFacts == CollectorInit => CollectorTypeOK /\ CollectorInv
<1> SUFFICES ASSUME CollectorInit PROVE CollectorTypeOK /\ CollectorInv
  OBVIOUS
<1>1. MaxBars \in Nat /\ closed \in 0 .. MaxBars
  BY SizeAssumption DEF CollectorInit
<1>2. /\ polled = <<>> /\ batch = <<>> /\ gate = <<>> /\ Len(gate) = 0 /\ at = 1
      /\ delivered = [s \in Symbol |-> <<>>] /\ checkpoint = [s \in Symbol |-> 0]
      /\ answered = [s \in Symbol |-> closed] /\ past = [s \in Symbol |-> {}]
      /\ phase = "backfill" /\ happened = {} /\ faults = 0 /\ crashes = 0
  BY DEF CollectorInit
<1>3. Range(gate) = {} /\ Range(batch) = {} /\ DOMAIN gate = {} /\ DOMAIN batch = {} /\ DOMAIN polled = {}
  BY <1>2 DEF Range
<1>4. \A s \in Symbol : /\ delivered[s] = <<>> /\ Range(delivered[s]) = {} /\ DOMAIN delivered[s] = {}
                        /\ Len(delivered[s]) = 0 /\ delivered[s] \in Seq(1 .. MaxBars)
                        /\ checkpoint[s] = 0 /\ answered[s] = closed
  BY <1>2 DEF Range
<1>5. CollectorTypeOK
  <2>1. 1 \in 1 .. Len(Symbols)
    BY SymbolFacts
  <2>2. delivered \in [Symbol -> Seq(1 .. MaxBars)] /\ past \in [Symbol -> SUBSET (1 .. MaxBars)]
    BY <1>2, <1>4
  <2> QED BY <1>1, <1>2, <2>1, <2>2, SizeAssumption DEF CollectorTypeOK
<1>6. ClosedInv /\ RememberedInv /\ WaitInv
  BY <1>2, <1>3, <1>4 DEF ClosedInv, RememberedInv, WaitInv, IsInjective
<1>7. \A s \in Symbol : StreamInv(s)
  BY <1>1, <1>3, <1>4 DEF StreamInv, InOrder, Pending
<1>8. \A s \in Symbol : AnswerInv(s)
  <2>1. \A s \in Symbol : ~HasAnswered(s)
    BY <1>2 DEF HasAnswered
  <2> QED BY <1>1, <1>4, <2>1, SizeAssumption DEF AnswerInv
<1>9. GateInv /\ PolledInv /\ BatchInv
  BY <1>2, <1>3, <1>4 DEF GateInv, PolledInv, BatchInv
<1> QED BY <1>5, <1>6, <1>7, <1>8, <1>9 DEF CollectorInv, GapInv, FlowInv

LEMMA Elements ==
    ASSUME CollectorTypeOK
    PROVE  /\ \A i \in DOMAIN batch : batch[i] \in BarKey
           /\ \A i \in DOMAIN gate : gate[i] \in BarKey
           /\ \A i \in DOMAIN polled : polled[i] \in Bar
           /\ \A s \in Symbol : \A i \in DOMAIN delivered[s] : delivered[s][i] \in 1 .. MaxBars
<1>1. batch \in Seq(BarKey) /\ gate \in Seq(BarKey) /\ polled \in Seq(Bar)
      /\ \A s \in Symbol : delivered[s] \in Seq(1 .. MaxBars)
  BY DEF CollectorTypeOK
<1>2. \A S, seq : seq \in Seq(S) => \A i \in DOMAIN seq : seq[i] \in S
  OBVIOUS
<1> QED BY <1>1, <1>2

LEMMA FaultTypes ==
    ASSUME CollectorTypeOK, NEW kind, Fault(kind)
    PROVE  happened' \subseteq FaultKinds /\ faults' \in 0 .. MaxTroubles
  BY SizeAssumption DEF CollectorTypeOK, Fault

\* What an event yielded next does to the batch and to what was delivered.
LEMMA YieldFacts ==
    ASSUME CollectorTypeOK, ClosedInv, Yield
    PROVE  LET e == Head(batch)
           IN  /\ e \in BarKey /\ e = batch[1] /\ e.symbol \in Symbol
               /\ e.bar \in 1 .. closed /\ e.bar \in 1 .. MaxBars
               /\ delivered' \in [Symbol -> Seq(1 .. MaxBars)]
               /\ \A s \in Symbol \ {e.symbol} : delivered'[s] = delivered[s]
               /\ delivered'[e.symbol] = Append(delivered[e.symbol], e.bar)
               /\ Range(batch) = Range(batch') \union {e} /\ batch' \in Seq(BarKey)
<1> DEFINE e == Head(batch)
<1>1. batch \in Seq(BarKey) /\ batch # <<>> /\ closed \in 0 .. MaxBars /\ MaxBars \in Nat
      /\ delivered \in [Symbol -> Seq(1 .. MaxBars)]
  BY SizeAssumption DEF CollectorTypeOK, Yield
<1>2. /\ e \in BarKey /\ e = batch[1] /\ 1 \in DOMAIN batch
      /\ Tail(batch) \in Seq(BarKey) /\ Range(batch) = Range(Tail(batch)) \union {e}
  BY <1>1, Tailed
<1>3. e.bar \in 1 .. closed /\ e.symbol \in Symbol
  BY <1>1, <1>2 DEF ClosedInv, BarKey
<1>4. batch' = Tail(batch) /\ delivered' = [delivered EXCEPT ![e.symbol] = Append(@, e.bar)]
  BY DEF Yield
<1> HIDE DEF e
<1>5. e.bar \in 1 .. MaxBars
  BY <1>1, <1>3
<1>6. Append(delivered[e.symbol], e.bar) \in Seq(1 .. MaxBars)
  BY <1>1, <1>3, <1>5, Appended
<1>7. /\ delivered' \in [Symbol -> Seq(1 .. MaxBars)]
      /\ \A s \in Symbol \ {e.symbol} : delivered'[s] = delivered[s]
      /\ delivered'[e.symbol] = Append(delivered[e.symbol], e.bar)
  BY <1>1, <1>3, <1>4, <1>6
<1> QED BY <1>2, <1>3, <1>4, <1>5, <1>7 DEF e

LEMMA CollectorTypesStep ==
    ASSUME CollectorTypeOK, ClosedInv, [CollectorNext]_collectorVars
    PROVE  CollectorTypeOK' /\ ClosedInv'
<1> USE SizeAssumption
<1>0. 1 \in 1 .. Len(Symbols) /\ <<>> \in Seq(Bar) /\ <<>> \in Seq(BarKey)
  BY SymbolFacts
<1>1. CASE VenueCloses
  <2>1. closed' = closed + 1 /\ closed' \in 0 .. MaxBars /\ closed \in 0 .. MaxBars
    BY <1>1 DEF VenueCloses, CollectorTypeOK
  <2>2. UNCHANGED <<answered, checkpoint, gate, phase, at, polled, batch, delivered, past, counts>>
    BY <1>1 DEF VenueCloses
  <2>3. CollectorTypeOK'
    BY <2>1, <2>2 DEF CollectorTypeOK, counts
  <2>4. \A n \in Int : n <= closed => n <= closed'
    BY <2>1
  <2>5. ClosedInv'
    <3>1. \A s \in Symbol : \A i \in DOMAIN delivered[s] : delivered[s][i] \in Int
      BY Elements
    <3>2. \A i \in DOMAIN batch : batch[i].bar \in Int
      BY Elements DEF BarKey
    <3>3. \A i \in DOMAIN polled : polled[i].bar \in Int
      BY Elements DEF Bar
    <3>4. \A i \in DOMAIN gate : gate[i].bar \in Int
      BY Elements DEF BarKey
    <3> QED BY <2>2, <2>4, <3>1, <3>2, <3>3, <3>4 DEF ClosedInv
  <2> QED BY <2>3, <2>5
<1>2. CASE BackfillSymbol \/ LivePoll
  <2>1. /\ polled' \in Seq(Bar) /\ \A i \in DOMAIN polled' : polled'[i].final => polled'[i].bar <= closed
        /\ answered' \in [Symbol -> 0 .. MaxBars] /\ at' \in 1 .. Len(Symbols)
    BY <1>2, RequestFacts DEF BackfillSymbol, LivePoll
  <2>2. UNCHANGED <<closed, checkpoint, gate, batch, delivered, past, counts>>
        /\ phase' \in {"backfill", "yield", "live"}
    BY <1>2 DEF BackfillSymbol, LivePoll, Idle
  <2> QED BY <2>1, <2>2 DEF CollectorTypeOK, ClosedInv, counts
<1>3. CASE BarEmitted
  <2> DEFINE b == Head(polled)
  <2>1. /\ b \in Bar /\ b.bar <= closed /\ KeyOf(b) \in BarKey
        /\ Remember(b) \in Seq(BarKey) /\ Len(Remember(b)) <= Capacity
        /\ IsInjective(Remember(b))
        /\ \A i \in DOMAIN Remember(b) : Remember(b)[i].bar <= closed
    BY <1>3, RememberFacts DEF BarEmitted, Due
  <2>2. /\ gate' = Remember(b) /\ checkpoint' = [checkpoint EXCEPT ![b.symbol] = b.bar]
        /\ batch' = Append(batch, KeyOf(b)) /\ polled' = Tail(polled) /\ polled # <<>>
        /\ UNCHANGED <<closed, answered, phase, at, delivered, past, counts>>
    BY <1>3 DEF BarEmitted, Due, Recorded
  <2>3. polled \in Seq(Bar) /\ batch \in Seq(BarKey) /\ closed \in 0 .. MaxBars
    BY DEF CollectorTypeOK
  <2>4. b.symbol \in Symbol /\ b.bar \in 0 .. MaxBars /\ KeyOf(b).bar <= closed
    BY <2>1, <2>3 DEF Bar, KeyOf
  <2> HIDE DEF b
  <2>5. checkpoint' \in [Symbol -> 0 .. MaxBars]
    BY <2>2, <2>4 DEF CollectorTypeOK
  <2>6. /\ batch' \in Seq(BarKey) /\ Len(batch') = Len(batch) + 1 /\ Len(batch) \in Nat
        /\ \A i \in DOMAIN batch : batch'[i] = batch[i]
        /\ batch'[Len(batch) + 1] = KeyOf(b)
    BY <2>1, <2>2, <2>3, Appended
  <2>7. \A i \in DOMAIN batch' : i \in DOMAIN batch \/ i = Len(batch) + 1
    BY <2>3, <2>6
  <2>8. \A i \in DOMAIN batch' : batch'[i].bar <= closed
    BY <2>4, <2>6, <2>7 DEF ClosedInv
  <2>9. /\ polled' \in Seq(Bar) /\ DOMAIN polled = 1 .. Len(polled) /\ Len(polled) \in Nat
        /\ DOMAIN polled' = 1 .. Len(polled) - 1
        /\ \A i \in DOMAIN polled' : polled'[i] = polled[i + 1]
    BY <2>2, <2>3, Tailed
  <2>10. \A i \in DOMAIN polled' : i + 1 \in DOMAIN polled
    BY <2>9
  <2>11. \A i \in DOMAIN polled' : polled'[i].final => polled'[i].bar <= closed
    BY <2>9, <2>10 DEF ClosedInv
  <2>12. CollectorTypeOK'
    BY <2>1, <2>2, <2>5, <2>6, <2>9 DEF CollectorTypeOK, counts
  <2>13. ClosedInv'
    BY <2>1, <2>2, <2>8, <2>11 DEF ClosedInv
  <2> QED BY <2>12, <2>13
<1>4. CASE BarIgnored
  <2>1. polled # <<>> /\ polled' = Tail(polled) /\ polled \in Seq(Bar)
        /\ UNCHANGED <<closed, answered, checkpoint, gate, phase, at, batch, delivered, past, counts>>
    BY <1>4 DEF BarIgnored, Due, CollectorTypeOK
  <2>2. /\ polled' \in Seq(Bar) /\ DOMAIN polled = 1 .. Len(polled) /\ Len(polled) \in Nat
        /\ DOMAIN polled' = 1 .. Len(polled) - 1
        /\ \A i \in DOMAIN polled' : polled'[i] = polled[i + 1]
    BY <2>1, Tailed
  <2>3. \A i \in DOMAIN polled' : i + 1 \in DOMAIN polled
    BY <2>2
  <2>4. \A i \in DOMAIN polled' : polled'[i].final => polled'[i].bar <= closed
    BY <2>2, <2>3 DEF ClosedInv
  <2> QED BY <2>1, <2>2, <2>4 DEF CollectorTypeOK, ClosedInv, counts
<1>5. CASE Yield
  <2>1. /\ Head(batch).bar <= closed /\ Head(batch).symbol \in Symbol
        /\ Head(batch).bar \in 1 .. MaxBars
        /\ delivered' \in [Symbol -> Seq(1 .. MaxBars)]
        /\ \A s \in Symbol \ {Head(batch).symbol} : delivered'[s] = delivered[s]
        /\ delivered'[Head(batch).symbol] = Append(delivered[Head(batch).symbol], Head(batch).bar)
    <3>1. Head(batch).bar \in 1 .. closed /\ closed \in Int
      BY <1>5, YieldFacts DEF CollectorTypeOK
    <3>2. Head(batch).bar <= closed
      BY <3>1
    <3> QED BY <1>5, <3>2, YieldFacts
  <2>2. batch \in Seq(BarKey) /\ batch # <<>> /\ batch' = Tail(batch)
        /\ UNCHANGED <<closed, answered, checkpoint, gate, phase, at, polled, past, counts>>
    BY <1>5 DEF Yield, CollectorTypeOK
  <2>3. /\ batch' \in Seq(BarKey) /\ DOMAIN batch = 1 .. Len(batch) /\ Len(batch) \in Nat
        /\ DOMAIN batch' = 1 .. Len(batch) - 1
        /\ \A i \in DOMAIN batch' : batch'[i] = batch[i + 1]
    BY <2>2, Tailed
  <2>4. \A i \in DOMAIN batch' : i + 1 \in DOMAIN batch
    BY <2>3
  <2>5. \A i \in DOMAIN batch' : batch'[i].bar <= closed
    BY <2>3, <2>4 DEF ClosedInv
  <2>6. ASSUME NEW s \in Symbol, NEW i \in DOMAIN delivered'[s] PROVE delivered'[s][i] <= closed
    <3>1. CASE s # Head(batch).symbol
      BY <2>1, <3>1 DEF ClosedInv
    <3>2. CASE s = Head(batch).symbol
      <4>1. delivered[s] \in Seq(1 .. MaxBars)
        BY DEF CollectorTypeOK
      <4>2. i \in DOMAIN delivered[s] \/ i = Len(delivered[s]) + 1
        <5>1. PICK e : e = Head(batch).bar
          OBVIOUS
        <5>2. e \in 1 .. MaxBars /\ delivered'[s] = Append(delivered[s], e)
          BY <2>1, <3>2, <5>1
        <5>3. DOMAIN delivered'[s] = 1 .. Len(delivered[s]) + 1
          BY <4>1, <5>2
        <5> QED BY <4>1, <5>3
      <4>3. /\ \A j \in DOMAIN delivered[s] : delivered'[s][j] = delivered[s][j]
            /\ delivered'[s][Len(delivered[s]) + 1] = Head(batch).bar
        <5> DEFINE e == Head(batch).bar
        <5>1. e \in 1 .. MaxBars /\ delivered'[s] = Append(delivered[s], e)
          BY <2>1, <3>2
        <5> HIDE DEF e
        <5>2. /\ \A j \in DOMAIN delivered[s] : Append(delivered[s], e)[j] = delivered[s][j]
              /\ Append(delivered[s], e)[Len(delivered[s]) + 1] = e
          BY <4>1, <5>1, Appended
        <5> QED BY <5>1, <5>2 DEF e
      <4> QED BY <2>1, <4>2, <4>3 DEF ClosedInv
    <3> QED BY <3>1, <3>2
  <2>7. CollectorTypeOK'
    BY <2>1, <2>2, <2>3 DEF CollectorTypeOK, counts
  <2>8. ClosedInv'
    BY <2>2, <2>5, <2>6 DEF ClosedInv
  <2> QED BY <2>7, <2>8
<1>6. CASE GoLive \/ Reconnect \/ Restart
  <2>1. UNCHANGED <<closed, checkpoint, gate, at, polled, batch, delivered, past, counts>>
        /\ phase' \in {"backfill", "live"} /\ answered' \in [Symbol -> 0 .. MaxBars]
    BY <1>6 DEF GoLive, Reconnect, Restart, CollectorTypeOK
  <2> QED BY <2>1 DEF CollectorTypeOK, ClosedInv, counts
<1>7. CASE BackfillEmpty \/ LiveEmpty
  <2>1. /\ happened' \subseteq FaultKinds /\ faults' \in 0 .. MaxTroubles
        /\ answered' \in [Symbol -> 0 .. MaxBars] /\ at' \in 1 .. Len(Symbols)
        /\ UNCHANGED <<closed, checkpoint, gate, polled, batch, delivered, past, crashes>>
        /\ phase' \in {"backfill", "yield", "live"}
    BY <1>7, FaultTypes, RequestFacts DEF BackfillEmpty, LiveEmpty, Idle
  <2> QED BY <2>1 DEF CollectorTypeOK, ClosedInv
<1>8. CASE BackfillFails \/ LiveFails
  <2>1. /\ happened' \subseteq FaultKinds /\ faults' \in 0 .. MaxTroubles
        /\ phase' = "wait" /\ at' = 1 /\ polled' = <<>> /\ batch' = <<>>
        /\ UNCHANGED <<closed, answered, checkpoint, gate, delivered, past, crashes>>
    BY <1>8, FaultTypes DEF BackfillFails, LiveFails, Retry
  <2> QED BY <1>0, <2>1 DEF CollectorTypeOK, ClosedInv
<1>9. CASE BarNotRecorded
  <2> DEFINE b == Head(polled)
  <2>1. /\ Remember(b) \in Seq(BarKey) /\ Len(Remember(b)) <= Capacity
        /\ IsInjective(Remember(b))
        /\ \A i \in DOMAIN Remember(b) : Remember(b)[i].bar <= closed
    BY <1>9, RememberFacts DEF BarNotRecorded, Due
  <2>2. /\ happened' \subseteq FaultKinds /\ faults' \in 0 .. MaxTroubles
        /\ gate' = Remember(b)
        /\ phase' = "wait" /\ at' = 1 /\ polled' = <<>> /\ batch' = <<>>
        /\ UNCHANGED <<closed, answered, checkpoint, delivered, past, crashes>>
    BY <1>9, FaultTypes DEF BarNotRecorded, Retry
  <2> HIDE DEF b
  <2> QED BY <1>0, <2>1, <2>2 DEF CollectorTypeOK, ClosedInv
<1>10. CASE Crash
  <2>1. /\ crashes' \in 0 .. MaxTroubles /\ phase' = "down" /\ at' = 1
        /\ gate' = <<>> /\ polled' = <<>> /\ batch' = <<>>
        /\ past' = [s \in Symbol |-> past[s] \union Range(delivered[s])]
        /\ delivered' = [s \in Symbol |-> <<>>]
        /\ UNCHANGED <<closed, answered, checkpoint, happened, faults>>
    BY <1>10 DEF Crash, CollectorTypeOK
  <2>2. \A s \in Symbol : past'[s] \subseteq 1 .. MaxBars
    <3> SUFFICES ASSUME NEW s \in Symbol PROVE past'[s] \subseteq 1 .. MaxBars
      OBVIOUS
    <3>1. past[s] \subseteq 1 .. MaxBars /\ delivered[s] \in Seq(1 .. MaxBars)
      BY DEF CollectorTypeOK
    <3>2. Range(delivered[s]) \subseteq 1 .. MaxBars
      BY <3>1, RangeOf
    <3> QED BY <2>1, <3>1, <3>2
  <2>3. past' \in [Symbol -> SUBSET (1 .. MaxBars)]
    BY <2>1, <2>2
  <2>4. delivered' \in [Symbol -> Seq(1 .. MaxBars)] /\ \A s \in Symbol : DOMAIN delivered'[s] = {}
    BY <2>1
  <2>5. Len(gate') = 0 /\ DOMAIN gate' = {} /\ DOMAIN batch' = {} /\ DOMAIN polled' = {}
    BY <2>1
  <2>6. CollectorTypeOK'
    BY <1>0, <2>1, <2>3, <2>4, <2>5 DEF CollectorTypeOK
  <2>7. ClosedInv'
    BY <2>4, <2>5 DEF ClosedInv, IsInjective
  <2> QED BY <2>6, <2>7
<1>11. ASSUME NEW s \in Symbol, OtherRecords(s) PROVE CollectorTypeOK' /\ ClosedInv'
  <2>1. /\ happened' \subseteq FaultKinds /\ faults' \in 0 .. MaxTroubles
        /\ checkpoint' \in [Symbol -> 0 .. MaxBars]
        /\ UNCHANGED <<closed, answered, gate, phase, at, polled, batch, delivered, past, crashes>>
    BY <1>11, FaultTypes DEF OtherRecords, CollectorTypeOK
  <2> QED BY <2>1 DEF CollectorTypeOK, ClosedInv
<1>12. CASE UNCHANGED collectorVars
  BY <1>12 DEF collectorVars, counts, CollectorTypeOK, ClosedInv
<1> QED BY <1>1, <1>2, <1>3, <1>4, <1>5, <1>6, <1>7, <1>8, <1>9, <1>10, <1>11, <1>12
        DEF CollectorNext, Collect, Environment

LEMMA WaitStep == WaitInv /\ [CollectorNext]_collectorVars => WaitInv'
<1> SUFFICES ASSUME WaitInv, [CollectorNext]_collectorVars PROVE WaitInv'
  OBVIOUS
<1> USE DEF WaitInv
<1>1. CASE VenueCloses
  BY <1>1 DEF VenueCloses
<1>2. CASE BackfillSymbol \/ LivePoll \/ BarEmitted \/ BarIgnored
  BY <1>2 DEF BackfillSymbol, LivePoll, Idle, BarEmitted, BarIgnored, Due
<1>3. CASE Yield \/ GoLive \/ Reconnect \/ Restart
  BY <1>3 DEF Yield, GoLive, Reconnect, Restart
<1>4. CASE BackfillEmpty \/ BackfillFails \/ BarNotRecorded \/ LiveEmpty \/ LiveFails \/ Crash
  BY <1>4 DEF BackfillEmpty, BackfillFails, BarNotRecorded, LiveEmpty, LiveFails, Crash,
              Retry, Asking, Idle, Due
<1>5. CASE (\E s \in Symbol : OtherRecords(s)) \/ UNCHANGED collectorVars
  BY <1>5 DEF OtherRecords, collectorVars
<1> QED BY <1>1, <1>2, <1>3, <1>4, <1>5 DEF CollectorNext, Collect, Environment

-----------------------------------------------------------------------------
(* Nothing twice *)

LEMMA RememberedStep ==
    ASSUME CollectorTypeOK, ClosedInv, RememberedInv, [CollectorNext]_collectorVars, Room'
    PROVE  RememberedInv'
<1>1. CASE UNCHANGED <<gate, delivered, batch>>
  BY <1>1 DEF RememberedInv, Room
<1>2. CASE BackfillFails \/ LiveFails
  <2>1. UNCHANGED <<gate, delivered>> /\ batch' = <<>> /\ Range(batch') = {} /\ DOMAIN batch' = {}
    BY <1>2 DEF BackfillFails, LiveFails, Retry, Range
  <2> QED BY <2>1 DEF RememberedInv, Room, IsInjective
<1>3. CASE BarNotRecorded
  <2>1. gate' = Remember(Head(polled)) /\ UNCHANGED delivered /\ Range(batch') = {} /\ DOMAIN batch' = {}
    BY <1>3 DEF BarNotRecorded, Retry, Range
  <2>2. Room /\ Range(gate) \subseteq Range(gate')
    BY <1>3, <2>1, RememberFacts DEF BarNotRecorded, Due, Room
  <2> QED BY <2>1, <2>2 DEF RememberedInv, IsInjective
<1>4. CASE BarEmitted
  <2> DEFINE b == Head(polled)
             k == KeyOf(b)
  <2>1. /\ gate' = Remember(b) /\ UNCHANGED delivered /\ batch' = Append(batch, k)
        /\ Room /\ Range(gate') = Range(gate) \union {k} /\ k \notin Range(gate)
        /\ k \in BarKey /\ b \in Bar /\ k.symbol = b.symbol /\ k.bar = b.bar
    BY <1>4, RememberFacts DEF BarEmitted, Due, Room, KeyOf
  <2>2. batch \in Seq(BarKey)
    BY DEF CollectorTypeOK
  <2> HIDE DEF b, k
  <2>3. Range(batch') = Range(batch) \union {k}
    BY <2>1, <2>2, Appended
  <2>4. k \notin Range(batch) /\ IsInjective(batch)
    BY <2>1 DEF RememberedInv
  <2>5. IsInjective(batch')
    BY <2>1, <2>2, <2>4, AppendedInjective
  <2>6. k.bar \notin Range(delivered[k.symbol])
    <3>1. k = [symbol |-> k.symbol, bar |-> k.bar] /\ k.symbol \in Symbol
      BY <2>1 DEF BarKey
    <3> QED BY <2>1, <3>1 DEF RememberedInv
  <2> QED BY <2>1, <2>3, <2>4, <2>5, <2>6 DEF RememberedInv
<1>5. CASE Yield
  <2> DEFINE e == Head(batch)
  <2>1. /\ e \in BarKey /\ e.symbol \in Symbol /\ e.bar \in 1 .. MaxBars
        /\ \A s \in Symbol \ {e.symbol} : delivered'[s] = delivered[s]
        /\ delivered'[e.symbol] = Append(delivered[e.symbol], e.bar)
        /\ Range(batch) = Range(batch') \union {e}
    BY <1>5, YieldFacts
  <2>2. gate' = gate /\ batch \in Seq(BarKey) /\ batch # <<>> /\ batch' = Tail(batch) /\ Room
    BY <1>5 DEF Yield, Room, CollectorTypeOK
  <2>3. IsInjective(batch') /\ e \notin Range(batch')
    BY <2>2, TailedInjective DEF RememberedInv
  <2> HIDE DEF e
  <2>4. /\ e \in Range(gate) /\ e.bar \notin Range(delivered[e.symbol])
        /\ Range(batch') \subseteq Range(gate)
        /\ \A x \in Range(batch') : x \in Range(batch)
    BY <2>1, <2>2 DEF RememberedInv
  <2>5. delivered[e.symbol] \in Seq(1 .. MaxBars)
    BY <2>1 DEF CollectorTypeOK
  <2>6. /\ Range(delivered'[e.symbol]) = Range(delivered[e.symbol]) \union {e.bar}
        /\ IsInjective(delivered'[e.symbol])
    <3> DEFINE seq == delivered[e.symbol]
               n == e.bar
               S == 1 .. MaxBars
    <3>1. seq \in Seq(S) /\ n \in S /\ n \notin Range(seq) /\ IsInjective(seq)
      BY <2>1, <2>2, <2>4, <2>5 DEF RememberedInv
    <3> HIDE DEF seq, n, S
    <3>2. Range(Append(seq, n)) = Range(seq) \union {n}
      BY <3>1, Appended
    <3>3. IsInjective(Append(seq, n))
      BY <3>1, AppendedInjective
    <3> QED BY <2>1, <3>2, <3>3 DEF seq, n
  <2>7. \A x \in Range(batch) : x \in BarKey
    BY <2>2, RangeOf
  <2>8. \A x \in Range(batch') : x.bar \notin Range(delivered'[x.symbol])
    <3> SUFFICES ASSUME NEW x \in Range(batch') PROVE x.bar \notin Range(delivered'[x.symbol])
      OBVIOUS
    <3>1. x \in BarKey /\ x # e /\ x.symbol \in Symbol /\ x.bar \notin Range(delivered[x.symbol])
      BY <2>2, <2>3, <2>4, <2>7 DEF BarKey, RememberedInv
    <3>2. CASE x.symbol # e.symbol
      BY <2>1, <3>1, <3>2
    <3>3. CASE x.symbol = e.symbol
      <4>1. x = [symbol |-> x.symbol, bar |-> x.bar] /\ e = [symbol |-> e.symbol, bar |-> e.bar]
        BY <2>1, <3>1 DEF BarKey
      <4>2. x.bar # e.bar
        BY <3>1, <3>3, <4>1
      <4> QED BY <2>6, <3>1, <3>3, <4>2
    <3> QED BY <3>2, <3>3
  <2>9. e = [symbol |-> e.symbol, bar |-> e.bar]
    BY <2>1 DEF BarKey
  <2>10. ASSUME NEW s \in Symbol
         PROVE  /\ IsInjective(delivered'[s])
                /\ \A b \in Range(delivered'[s]) : [symbol |-> s, bar |-> b] \in Range(gate')
    <3>1. CASE s # e.symbol
      BY <2>1, <2>2, <3>1 DEF RememberedInv
    <3>2. CASE s = e.symbol
      <4>1. IsInjective(delivered'[s])
        BY <2>6, <3>2
      <4>2. \A b \in Range(delivered[s]) : [symbol |-> s, bar |-> b] \in Range(gate)
        BY <2>2 DEF RememberedInv
      <4>3. [symbol |-> s, bar |-> e.bar] \in Range(gate)
        BY <2>4, <2>9, <3>2
      <4> QED BY <2>2, <2>6, <3>2, <4>1, <4>2, <4>3
    <3> QED BY <3>1, <3>2
  <2> QED BY <2>2, <2>3, <2>4, <2>8, <2>10 DEF RememberedInv
<1>6. CASE Crash
  <2>1. /\ batch' = <<>> /\ delivered' = [s \in Symbol |-> <<>>]
    BY <1>6 DEF Crash
  <2>2. /\ Range(batch') = {} /\ DOMAIN batch' = {}
        /\ \A s \in Symbol : Range(delivered'[s]) = {} /\ DOMAIN delivered'[s] = {}
    BY <2>1 DEF Range
  <2> QED BY <2>2 DEF RememberedInv, IsInjective
<1>7. CASE VenueCloses \/ BackfillSymbol \/ LivePoll \/ BarIgnored \/ GoLive \/ Reconnect \/ Restart
  BY <1>1, <1>7 DEF VenueCloses, BackfillSymbol, LivePoll, BarIgnored, GoLive, Reconnect, Restart
<1>8. CASE BackfillEmpty \/ LiveEmpty \/ (\E s \in Symbol : OtherRecords(s)) \/ UNCHANGED collectorVars
  BY <1>1, <1>8 DEF BackfillEmpty, LiveEmpty, OtherRecords, collectorVars
<1> QED BY <1>2, <1>3, <1>4, <1>5, <1>6, <1>7, <1>8 DEF CollectorNext, Collect, Environment

-----------------------------------------------------------------------------
(* No hole *)

LEMMA RoomStays ==
    ASSUME CollectorTypeOK, ClosedInv, [CollectorNext]_collectorVars, OnlyFetchesFail', Room'
    PROVE  /\ OnlyFetchesFail /\ Room
           /\ ~Crash /\ ~BackfillEmpty /\ ~LiveEmpty /\ ~BarNotRecorded
           /\ \A s \in Symbol : ~OtherRecords(s)
           /\ BackfillFails => batch = <<>>
<1>1. crashes \in Nat
  BY SizeAssumption DEF CollectorTypeOK
<1>2. ~Crash
  BY <1>1 DEF Crash, OnlyFetchesFail
<1>3. ~BackfillEmpty /\ ~LiveEmpty /\ ~BarNotRecorded /\ \A s \in Symbol : ~OtherRecords(s)
  BY DEF BackfillEmpty, LiveEmpty, BarNotRecorded, OtherRecords, Fault, OnlyFetchesFail
<1>4. BackfillFails => batch = <<>>
  BY DEF BackfillFails, Fault, OnlyFetchesFail
<1>5. CASE BarEmitted
  <2>1. Room
    BY <1>5, RememberFacts DEF BarEmitted, Due, Room
  <2> QED BY <1>2, <1>3, <1>4, <1>5, <2>1 DEF BarEmitted, OnlyFetchesFail, counts
<1>6. CASE BackfillFails \/ LiveFails
  BY <1>2, <1>3, <1>4, <1>6 DEF BackfillFails, LiveFails, Fault, OnlyFetchesFail, Room
<1>7. CASE UNCHANGED <<gate, counts>>
  BY <1>2, <1>3, <1>4, <1>7 DEF counts, OnlyFetchesFail, Room
<1>8. BarEmitted \/ BackfillFails \/ LiveFails \/ UNCHANGED <<gate, counts>>
  BY <1>2, <1>3 DEF CollectorNext, Collect, Environment, VenueCloses, BackfillSymbol, LivePoll,
                    BarIgnored, Yield, GoLive, Reconnect, Restart, collectorVars
<1> QED BY <1>5, <1>6, <1>7, <1>8

\* What an answer brings when it begins no later than after the checkpoint, or
\* early enough; and the bar closed last is among it or has been emitted.
LEMMA StretchFlow ==
    ASSUME CollectorTypeOK, polled = <<>>, UNCHANGED <<closed, checkpoint, gate>>,
           NEW s \in Symbol, NEW first \in Nat \ {0}, NEW last \in {closed, closed + 1},
           Stretch(s, first, last, polled'),
           first <= checkpoint[s] + 1 \/ (checkpoint[s] = 0 /\ first + PollBars <= closed + 1),
           \A n \in 1 .. checkpoint[s] : n >= first => [symbol |-> s, bar |-> n] \in Range(gate),
           first <= closed \/ closed <= checkpoint[s]
    PROVE  /\ PolledInv'
           /\ \/ closed <= checkpoint[s]
              \/ \E i \in DOMAIN polled' : polled'[i] = [symbol |-> s, bar |-> closed, final |-> TRUE]
<1>1. closed \in Nat /\ checkpoint[s] \in Nat /\ PollBars \in Nat /\ last \in Nat
  BY SizeAssumption DEF CollectorTypeOK
<1> DEFINE n == Len(polled')
           c == checkpoint[s]
<1>2. /\ n = IF last >= first THEN last - first + 1 ELSE 0
      /\ DOMAIN polled' = 1 .. n
      /\ \A i \in 1 .. n : /\ polled'[i].symbol = s /\ polled'[i].bar = first + i - 1
                           /\ polled'[i].final = (first + i - 1 <= closed)
  BY DEF Stretch
<1>3. n \in Nat
  BY <1>1, <1>2
<1>4. /\ polled' \in Seq([symbol : Symbol, bar : Nat \ {0}, final : BOOLEAN])
      /\ (polled' # <<>> => n > 0)
  BY DEF Stretch
<1>5. ASSUME NEW i \in 1 .. n
      PROVE  /\ polled'[i].symbol = polled'[1].symbol /\ polled'[i].bar = polled'[1].bar + i - 1
             /\ i < n => polled'[i].final
  <2>1. 1 \in 1 .. n /\ first + 1 - 1 = first /\ (i < n => first + i - 1 <= closed)
    BY <1>1, <1>2, <1>3
  <2> QED BY <1>2, <2>1
<1>6. ASSUME NEW i \in 1 .. n, polled'[i].bar <= c
      PROVE  KeyOf(polled'[i]) \in Range(gate)
  <2>1. first + i - 1 \in 1 .. c /\ first + i - 1 >= first
    BY <1>1, <1>2, <1>3, <1>6
  <2> QED BY <1>2, <2>1 DEF KeyOf
<1>7. polled' # <<>> => /\ polled'[1].symbol = s /\ polled'[1].bar = first
  BY <1>2, <1>3, <1>4
<1>8. checkpoint' = checkpoint /\ closed' = closed /\ gate' = gate
  OBVIOUS
<1>9. PolledInv'
  <2>1. \A i \in DOMAIN polled' :
          /\ polled'[i].symbol = polled'[1].symbol /\ polled'[i].bar = polled'[1].bar + i - 1
          /\ i < Len(polled') => polled'[i].final
          /\ polled'[i].bar <= checkpoint[polled'[i].symbol] => KeyOf(polled'[i]) \in Range(gate)
    BY <1>2, <1>5, <1>6
  <2>2. polled' # <<>> =>
          \/ polled'[1].bar <= checkpoint[polled'[1].symbol] + 1
          \/ checkpoint[polled'[1].symbol] = 0 /\ polled'[1].bar + PollBars <= closed + 1
    BY <1>7
  <2> HIDE DEF n, c
  <2> QED BY <1>8, <2>1, <2>2 DEF PolledInv, Known, KeyOf
<1>10. ASSUME first <= closed
       PROVE  \E i \in DOMAIN polled' : polled'[i] = [symbol |-> s, bar |-> closed, final |-> TRUE]
  <2>1. PICK i \in 1 .. n : first + i - 1 = closed
    <3> DEFINE j == closed - first + 1
    <3>1. j \in 1 .. n /\ first + j - 1 = closed
      BY <1>1, <1>2, <1>10
    <3> QED BY <3>1
  <2> DEFINE S == [symbol : Symbol, bar : Nat \ {0}, final : BOOLEAN]
  <2>2. polled' \in Seq(S) /\ DOMAIN polled' = 1 .. n
    BY <1>2, <1>4
  <2> HIDE DEF S, n
  <2>3. polled'[i] \in S
    <3>1. \A T, seq : seq \in Seq(T) => \A j \in DOMAIN seq : seq[j] \in T
      OBVIOUS
    <3> QED BY <2>1, <2>2, <3>1
  <2>4. polled'[i].symbol = s /\ polled'[i].bar = closed /\ polled'[i].final = (closed <= closed)
    BY <1>2, <2>1
  <2>5. polled'[i].final = TRUE
    <3>1. closed <= closed
      BY <1>1
    <3> QED BY <2>4, <3>1
  <2>6. polled'[i] = [symbol |-> s, bar |-> closed, final |-> TRUE]
    BY <2>3, <2>4, <2>5 DEF S
  <2> QED BY <2>1, <2>2, <2>6
<1> QED BY <1>9, <1>10

\* What FlowInv says of s, and of all, before a step.
LEMMA FlowFacts ==
    ASSUME CollectorTypeOK, FlowInv, NEW s \in Symbol
    PROVE  /\ closed \in Nat /\ checkpoint[s] \in Nat /\ checkpoint[s] <= closed
           /\ PollBars \in Nat /\ SeedBars \in Nat /\ Slack \in Nat \ {0}
           /\ Slack + 1 <= PollBars /\ PollBars + 1 <= SeedBars
           /\ \A n \in 1 .. checkpoint[s] :
                 n > closed - PollBars => [symbol |-> s, bar |-> n] \in Range(gate)
           /\ phase \in {"backfill", "yield", "live"} => closed <= answered[s] + Slack
           /\ HasAnswered(s) /\ polled = <<>> => answered[s] <= checkpoint[s]
           /\ answered[s] \in Nat
<1>1. closed \in Nat /\ checkpoint[s] \in Nat /\ answered[s] \in Nat
  BY DEF CollectorTypeOK
<1>2. PollBars \in Nat /\ SeedBars \in Nat /\ Slack \in Nat \ {0}
      /\ Slack + 1 <= PollBars /\ PollBars + 1 <= SeedBars
  BY SizeAssumption, ReachAssumption
<1>3. checkpoint[s] <= closed
  BY DEF FlowInv, StreamInv
<1>4. \A n \in 1 .. checkpoint[s] : n > closed - PollBars => [symbol |-> s, bar |-> n] \in Range(gate)
  BY DEF FlowInv, GateInv
<1>5. phase \in {"backfill", "yield", "live"} => closed - answered[s] <= Slack
  BY DEF FlowInv, AnswerInv
<1>6. HasAnswered(s) /\ polled = <<>> => answered[s] <= checkpoint[s]
  <2>1. polled = <<>> => DOMAIN polled = {}
    OBVIOUS
  <2> QED BY <2>1 DEF FlowInv, AnswerInv
<1> QED BY <1>1, <1>2, <1>3, <1>4, <1>5, <1>6

\* An answer leaves the streams, the gate and the batch alone.
LEMMA FlowAtAnswer ==
    ASSUME CollectorTypeOK, FlowInv, polled = <<>>, AnsweredNow,
           UNCHANGED <<closed, checkpoint, gate, batch, delivered>>, PolledInv',
           \/ closed <= checkpoint[Symbols[at]]
           \/ \E i \in DOMAIN polled' :
                 polled'[i] = [symbol |-> Symbols[at], bar |-> closed, final |-> TRUE],
           phase \in {"backfill", "yield", "live"},
           \A s \in Symbol : s # Symbols[at] /\ HasAnswered(s)' => HasAnswered(s)
    PROVE  FlowInv'
<1>1. \A s \in Symbol : StreamInv(s)'
  BY DEF FlowInv, StreamInv, InOrder, Latest, Pending
<1>2. GateInv' /\ BatchInv'
  BY DEF FlowInv, GateInv, BatchInv
<1>3. Symbols[at] \in Symbol /\ answered \in [Symbol -> 0 .. MaxBars]
  BY RequestFacts
<1>4. /\ answered'[Symbols[at]] = closed
      /\ \A s \in Symbol : s # Symbols[at] => answered'[s] = answered[s]
  BY <1>3 DEF AnsweredNow
<1>5. ASSUME NEW s \in Symbol PROVE AnswerInv(s)'
  <2>1. CASE s = Symbols[at]
    <3>1. closed' - answered'[s] <= Slack
      BY <1>4, <2>1, FlowFacts
    <3>2. \/ answered'[s] <= checkpoint'[s]
          \/ \E i \in DOMAIN polled' :
                polled'[i] = [symbol |-> s, bar |-> answered'[s], final |-> TRUE]
      BY <1>4, <2>1
    <3> QED BY <3>1, <3>2 DEF AnswerInv
  <2>2. CASE s # Symbols[at]
    <3>1. closed' - answered'[s] <= Slack
      BY <1>4, <2>2 DEF FlowInv, AnswerInv
    <3>2. HasAnswered(s)' => answered'[s] <= checkpoint'[s]
      BY <1>4, <2>2, FlowFacts
    <3> QED BY <3>1, <3>2 DEF AnswerInv
  <2> QED BY <2>1, <2>2
<1> QED BY <1>1, <1>2, <1>5 DEF FlowInv

LEMMA FlowBackfill ==
    ASSUME CollectorTypeOK, FlowInv, BackfillSymbol
    PROVE  FlowInv'
<1> DEFINE s == Symbols[at]
           c == checkpoint[s]
<1>1. /\ phase = "backfill" /\ polled = <<>> /\ polled' \in AskHistory /\ AnsweredNow
      /\ at' = NextSymbol /\ phase' = IF at = Len(Symbols) THEN "yield" ELSE "backfill"
      /\ UNCHANGED <<closed, checkpoint, gate, batch, delivered>>
  BY DEF BackfillSymbol, Asking
<1>2. s \in Symbol /\ at \in 1 .. Len(Symbols)
  BY RequestFacts DEF CollectorTypeOK
<1>3. /\ closed \in Nat /\ c \in Nat /\ c <= closed
      /\ PollBars \in Nat /\ SeedBars \in Nat /\ PollBars + 1 <= SeedBars /\ PollBars >= 2
  BY <1>2, FlowFacts
<1>4. PICK last \in {closed, closed + 1}, first \in Nat \ {0} :
         /\ Stretch(s, first, last, polled')
         /\ c = 0 => first = IF last - SeedBars + 1 > 1 THEN last - SeedBars + 1 ELSE 1
         /\ c # 0 => first = c + 1
  <2>1. CASE c = 0
    <3>1. polled' \in Answer(s, 1, SeedBars) /\ SeedBars \in Nat \ {0}
      BY <1>1, <1>3, <2>1 DEF AskHistory
    <3>2. PICK last \in {closed, closed + 1}, first \in Nat \ {0} :
            /\ first = IF last - SeedBars + 1 > 1 THEN last - SeedBars + 1 ELSE 1
            /\ Stretch(s, first, last, polled')
      BY <1>2, <1>3, <3>1, AnswerFacts
    <3> QED BY <2>1, <3>2
  <2>2. CASE c # 0
    <3>1. polled' \in Answer(s, c + 1, closed + 1) /\ c + 1 \in Nat \ {0} /\ closed + 1 \in Nat \ {0}
      BY <1>1, <1>3, <2>2 DEF AskHistory
    <3>2. PICK last \in {closed, closed + 1}, first \in Nat \ {0} :
            /\ first = IF last - (closed + 1) + 1 > c + 1 THEN last - (closed + 1) + 1 ELSE c + 1
            /\ Stretch(s, first, last, polled')
      BY <1>2, <1>3, <3>1, AnswerFacts
    <3>3. first = c + 1
      BY <1>3, <3>2
    <3> QED BY <2>2, <3>2, <3>3
  <2> QED BY <2>1, <2>2
<1>5. first <= c + 1 \/ (c = 0 /\ first + PollBars <= closed + 1)
  BY <1>3, <1>4
<1>6. \A n \in 1 .. c : ~(n >= first)
  BY <1>3, <1>4
<1>7. first <= closed \/ closed <= c
  BY <1>3, <1>4
<1>8. /\ PolledInv'
      /\ \/ closed <= c
         \/ \E i \in DOMAIN polled' : polled'[i] = [symbol |-> s, bar |-> closed, final |-> TRUE]
  BY <1>1, <1>2, <1>4, <1>5, <1>6, <1>7, StretchFlow
<1>9. ASSUME NEW z \in Symbol, z # s, HasAnswered(z)' PROVE HasAnswered(z)
  <2>1. PICK i \in 1 .. Len(Symbols) : Symbols[i] = z
    BY SymbolFacts
  <2>2. CASE at = Len(Symbols)
    <3>1. i \in 1 .. at - 1
      BY <1>2, <1>9, <2>1, <2>2
    <3> QED BY <1>1, <2>1, <3>1 DEF HasAnswered
  <2>3. CASE at # Len(Symbols)
    <3>1. phase' = "backfill" /\ at' = at + 1
      <4>2. NextSymbol = at + 1
        BY <1>2, <2>3, FollowingSymbol
      <4>3. at' = NextSymbol /\ phase' = IF at = Len(Symbols) THEN "yield" ELSE "backfill"
        BY DEF BackfillSymbol
      <4> QED BY <2>3, <4>2, <4>3
    <3>2. PICK j \in 1 .. at' - 1 : Symbols[j] = z
      BY <1>9, <3>1 DEF HasAnswered
    <3>3. j \in 1 .. at - 1
      <4>1. j \in 1 .. at /\ j # at
        BY <1>2, <1>9, <3>1, <3>2
      <4> QED BY <1>2, <4>1
    <3> QED BY <1>1, <3>2, <3>3 DEF HasAnswered
  <2> QED BY <2>2, <2>3
<1> QED BY <1>1, <1>8, <1>9, FlowAtAnswer

LEMMA FlowLivePoll ==
    ASSUME CollectorTypeOK, FlowInv, LivePoll
    PROVE  FlowInv'
<1> DEFINE s == Symbols[at]
           c == checkpoint[s]
<1>1. /\ phase = "live" /\ polled = <<>> /\ polled' \in Answer(s, 1, PollBars) /\ AnsweredNow
      /\ UNCHANGED <<closed, checkpoint, gate, batch, delivered, phase>>
  BY DEF LivePoll, Idle
<1>2. s \in Symbol
  BY RequestFacts
<1>3. HasAnswered(s)
  BY <1>1 DEF HasAnswered
<1>4. /\ closed \in Nat /\ c \in Nat /\ c <= closed
      /\ PollBars \in Nat \ {0} /\ Slack \in Nat \ {0} /\ Slack + 1 <= PollBars
      /\ closed <= c + Slack
      /\ \A n \in 1 .. c : n > closed - PollBars => [symbol |-> s, bar |-> n] \in Range(gate)
  BY <1>1, <1>2, <1>3, FlowFacts
<1>5. PICK last \in {closed, closed + 1}, first \in Nat \ {0} :
         /\ first = IF last - PollBars + 1 > 1 THEN last - PollBars + 1 ELSE 1
         /\ Stretch(s, first, last, polled')
  BY <1>1, <1>2, <1>4, AnswerFacts
<1>6. first <= c + 1 /\ (first <= closed \/ closed <= c)
  BY <1>4, <1>5
<1>7. \A n \in 1 .. c : n >= first => [symbol |-> s, bar |-> n] \in Range(gate)
  BY <1>4, <1>5
<1>8. /\ PolledInv'
      /\ \/ closed <= c
         \/ \E i \in DOMAIN polled' : polled'[i] = [symbol |-> s, bar |-> closed, final |-> TRUE]
  BY <1>1, <1>2, <1>5, <1>6, <1>7, StretchFlow
<1>9. \A z \in Symbol : HasAnswered(z)
  BY <1>1 DEF HasAnswered
<1> QED BY <1>1, <1>8, <1>9, FlowAtAnswer

\* The bar at the head of what is being processed, and the rest.
LEMMA HeadFacts ==
    ASSUME CollectorTypeOK, FlowInv, polled # <<>>
    PROVE  LET b == polled[1]
               c == checkpoint[b.symbol]
           IN  /\ b = Head(polled) /\ b \in Bar /\ b.symbol \in Symbol /\ b.bar \in Nat \ {0}
               /\ Tail(polled) \in Seq(Bar) /\ DOMAIN Tail(polled) = 1 .. Len(polled) - 1
               /\ Len(polled) \in Nat \ {0} /\ DOMAIN polled = 1 .. Len(polled)
               /\ Len(Tail(polled)) = Len(polled) - 1
               /\ \A i \in 1 .. Len(polled) - 1 : Tail(polled)[i] = polled[i + 1] /\ i + 1 \in 1 .. Len(polled)
               /\ c \in Nat
               /\ b.bar <= c + 1 \/ (c = 0 /\ b.bar + PollBars <= closed + 1)
               /\ b.bar <= c => Known(b)
               /\ Tail(polled) # <<>> => b.final /\ 2 \in 1 .. Len(polled)
               /\ \A i \in 1 .. Len(polled) : polled[i].symbol = b.symbol /\ polled[i].bar = b.bar + i - 1
<1> DEFINE b == polled[1]
<1>1. polled \in Seq(Bar)
  BY DEF CollectorTypeOK
<1>2. /\ b = Head(polled) /\ b \in Bar
      /\ Tail(polled) \in Seq(Bar) /\ DOMAIN Tail(polled) = 1 .. Len(polled) - 1
      /\ Len(polled) \in Nat \ {0} /\ DOMAIN polled = 1 .. Len(polled)
      /\ Len(Tail(polled)) = Len(polled) - 1
      /\ \A i \in 1 .. Len(polled) - 1 : Tail(polled)[i] = polled[i + 1]
  BY <1>1, Tailed
<1>3. b.symbol \in Symbol /\ b.bar \in Nat \ {0}
  BY <1>2 DEF Bar
<1>4. checkpoint[b.symbol] \in Nat
  BY <1>3 DEF CollectorTypeOK
<1>5. PolledInv
  BY DEF FlowInv
<1>6. 1 \in DOMAIN polled
  BY <1>2
<1>7. b.bar <= checkpoint[b.symbol] => Known(b)
  BY <1>5, <1>6 DEF PolledInv
<1>8. \/ b.bar <= checkpoint[b.symbol] + 1
      \/ checkpoint[b.symbol] = 0 /\ b.bar + PollBars <= closed + 1
  BY <1>5 DEF PolledInv
<1>9. ASSUME Tail(polled) # <<>>
      PROVE  b.final /\ 2 \in 1 .. Len(polled)
  <2>1. Len(Tail(polled)) # 0
    BY <1>2, <1>9
  <2>2. 1 < Len(polled) /\ 2 \in 1 .. Len(polled)
    BY <1>2, <2>1
  <2> QED BY <1>5, <1>6, <2>2 DEF PolledInv
<1>10. \A i \in 1 .. Len(polled) - 1 : i + 1 \in 1 .. Len(polled)
  BY <1>2
<1>11. \A i \in 1 .. Len(polled) : polled[i].symbol = b.symbol /\ polled[i].bar = b.bar + i - 1
  BY <1>2, <1>5 DEF PolledInv
<1> QED BY <1>2, <1>3, <1>4, <1>7, <1>8, <1>9, <1>10, <1>11

LEMMA FlowIgnored ==
    ASSUME CollectorTypeOK, ClosedInv, FlowInv, BarIgnored
    PROVE  FlowInv'
<1> DEFINE b == polled[1]
           c == checkpoint[b.symbol]
<1>1. /\ polled # <<>> /\ polled' = Tail(polled) /\ ~Emits(Head(polled))
      /\ UNCHANGED <<closed, answered, checkpoint, gate, phase, at, batch, delivered>>
  BY DEF BarIgnored, Due
<1>2. /\ b = Head(polled) /\ b \in Bar /\ b.symbol \in Symbol /\ b.bar \in Nat \ {0}
      /\ DOMAIN polled' = 1 .. Len(polled) - 1
      /\ Len(polled) \in Nat \ {0} /\ DOMAIN polled = 1 .. Len(polled)
      /\ Len(polled') = Len(polled) - 1
      /\ \A i \in 1 .. Len(polled) - 1 : polled'[i] = polled[i + 1] /\ i + 1 \in 1 .. Len(polled)
      /\ c \in Nat
      /\ polled' # <<>> => b.final /\ 2 \in 1 .. Len(polled)
      /\ \A i \in 1 .. Len(polled) : polled[i].symbol = b.symbol /\ polled[i].bar = b.bar + i - 1
  BY <1>1, HeadFacts
<1>3. b.final => b.bar <= c
  <2> SUFFICES ASSUME b.final PROVE b.bar <= c
    OBVIOUS
  <2>1. KeyOf(b) \in Range(gate)
    BY <1>1, <1>2 DEF Emits, Known
  <2>2. KeyOf(b).bar <= checkpoint[KeyOf(b).symbol]
    BY <2>1 DEF FlowInv, GateInv
  <2> QED BY <2>2 DEF KeyOf
<1>4. \A s \in Symbol : StreamInv(s)'
  BY <1>1 DEF FlowInv, StreamInv, InOrder, Latest, Pending
<1>5. GateInv' /\ BatchInv'
  BY <1>1 DEF FlowInv, GateInv, BatchInv
<1>20. \A i \in 1 .. Len(polled) - 1 : polled'[i] = polled[i + 1] /\ i + 1 \in 1 .. Len(polled)
  BY <1>2
<1>21. Len(polled) \in Nat /\ Len(polled') = Len(polled) - 1
  BY <1>2
<1>22. b.bar \in Nat
  BY <1>2
<1>6. PolledInv'
  <2>1. \A i \in DOMAIN polled' :
          /\ polled'[i].symbol = polled'[1].symbol /\ polled'[i].bar = polled'[1].bar + i - 1
          /\ i < Len(polled') => polled'[i].final
          /\ polled'[i].bar <= checkpoint[polled'[i].symbol] => Known(polled'[i])
    <3> SUFFICES ASSUME NEW i \in 1 .. Len(polled) - 1
                 PROVE  /\ polled'[i].symbol = polled'[1].symbol
                        /\ polled'[i].bar = polled'[1].bar + i - 1
                        /\ i < Len(polled') => polled'[i].final
                        /\ polled'[i].bar <= checkpoint[polled'[i].symbol] => Known(polled'[i])
      BY <1>2
    <3>7. i + 1 \in 1 .. Len(polled) /\ polled'[i] = polled[i + 1]
      BY <1>20
    <3>8. 1 \in 1 .. Len(polled) - 1
      BY <1>21
    <3>1. i + 1 \in 1 .. Len(polled) /\ polled'[i] = polled[i + 1] /\ 1 \in 1 .. Len(polled) - 1
      BY <3>7, <3>8
    <3>2. polled'[1] = polled[2] /\ 2 \in 1 .. Len(polled)
      BY <1>20, <3>8
    <3>3. i < Len(polled') => i + 1 < Len(polled)
      BY <1>21
    <3>4. polled'[i].symbol = polled'[1].symbol /\ polled'[i].bar = polled'[1].bar + i - 1
      <4>1. polled[i + 1].symbol = b.symbol /\ polled[i + 1].bar = b.bar + (i + 1) - 1
        BY <1>2, <3>1
      <4>2. polled[2].symbol = b.symbol /\ polled[2].bar = b.bar + 2 - 1
        BY <1>2, <3>2
      <4>3. b.bar + (i + 1) - 1 = (b.bar + 2 - 1) + i - 1
        BY <1>22
      <4> QED BY <3>1, <3>2, <4>1, <4>2, <4>3
    <3> QED BY <1>2, <3>1, <3>3, <3>4 DEF FlowInv, PolledInv
  <2>2. polled' # <<>> => polled'[1] = polled[2]
    <3>1. polled' # <<>> => 1 \in 1 .. Len(polled) - 1
      <4>1. polled' \in Seq(Bar)
        BY <1>1, HeadFacts
      <4> QED BY <1>2, <4>1
    <3> QED BY <1>2, <3>1
  <2>3. polled' # <<>> => polled'[1].bar <= checkpoint[polled'[1].symbol] + 1
    BY <1>2, <1>3, <2>2
  <2> QED BY <1>1, <2>1, <2>3 DEF PolledInv, Known
<1>7. ASSUME NEW s \in Symbol PROVE AnswerInv(s)'
  <2>1. HasAnswered(s)' = HasAnswered(s)
    BY <1>1 DEF HasAnswered
  <2>2. phase \in {"backfill", "yield", "live"} => closed - answered[s] <= Slack
    BY DEF FlowInv, AnswerInv
  <2>3. ASSUME NEW i \in DOMAIN polled,
               polled[i] = [symbol |-> s, bar |-> answered[s], final |-> TRUE]
        PROVE  \/ answered[s] <= checkpoint[s]
               \/ \E j \in DOMAIN polled' :
                     polled'[j] = [symbol |-> s, bar |-> answered[s], final |-> TRUE]
    <3>1. CASE i = 1
      <4>1. b = [symbol |-> s, bar |-> answered[s], final |-> TRUE]
        BY <2>3, <3>1
      <4> QED BY <1>3, <4>1
    <3>2. CASE i # 1
      <4>1. i - 1 \in 1 .. Len(polled) - 1 /\ (i - 1) + 1 = i
        BY <1>2, <3>2
      <4>2. polled'[i - 1] = polled[i]
        BY <1>2, <4>1
      <4> QED BY <1>2, <2>3, <4>1, <4>2
    <3> QED BY <3>1, <3>2
  <2>4. HasAnswered(s) =>
          \/ answered[s] <= checkpoint[s]
          \/ \E j \in DOMAIN polled' :
                polled'[j] = [symbol |-> s, bar |-> answered[s], final |-> TRUE]
    BY <2>3 DEF FlowInv, AnswerInv
  <2> QED BY <1>1, <2>1, <2>2, <2>4 DEF AnswerInv
<1> QED BY <1>4, <1>5, <1>6, <1>7 DEF FlowInv

LEMMA Interval ==
    ASSUME NEW m \in Int, NEW n \in Int, m <= n + 1
    PROVE  m .. n + 1 = (m .. n) \union {n + 1}
  OBVIOUS

\* What becomes pending with an event, and what is no longer.
LEMMA PendingAdds ==
    ASSUME NEW old, NEW new, NEW e, new = old \union {e}, NEW s
    PROVE  {x.bar : x \in {y \in new : y.symbol = s}}
             = {x.bar : x \in {y \in old : y.symbol = s}} \union (IF e.symbol = s THEN {e.bar} ELSE {})
<1> DEFINE In(set) == {x.bar : x \in {y \in set : y.symbol = s}}
<1>1. \A set, n : n \in In(set) <=> \E x \in set : x.symbol = s /\ n = x.bar
  OBVIOUS
<1> HIDE DEF In
<1>2. \A n : n \in In(new) <=> n \in In(old) \/ (e.symbol = s /\ n = e.bar)
  BY <1>1
<1>3. In(new) = In(old) \union (IF e.symbol = s THEN {e.bar} ELSE {})
  BY <1>2
<1> QED BY <1>3 DEF In

LEMMA FlowEmitted ==
    ASSUME CollectorTypeOK, ClosedInv, FlowInv, BarEmitted, Room'
    PROVE  FlowInv'
<1>0. PICK b \in Bar : b = polled[1] /\ b = Head(polled)
  BY HeadFacts DEF BarEmitted, Due
<1> DEFINE z == b.symbol
           c == checkpoint[z]
           k == KeyOf(b)
<1>1. /\ polled # <<>> /\ polled' = Tail(polled) /\ Emits(Head(polled))
      /\ gate' = Remember(Head(polled)) /\ checkpoint' = [checkpoint EXCEPT ![Head(polled).symbol] = Head(polled).bar]
      /\ batch' = Append(batch, KeyOf(Head(polled)))
      /\ UNCHANGED <<closed, answered, phase, at, delivered>>
  BY DEF BarEmitted, Due, Recorded
<1>2. /\ b = Head(polled) /\ b \in Bar /\ z \in Symbol /\ b.bar \in Nat \ {0}
      /\ DOMAIN polled' = 1 .. Len(polled) - 1
      /\ Len(polled) \in Nat \ {0} /\ DOMAIN polled = 1 .. Len(polled)
      /\ Len(polled') = Len(polled) - 1 /\ polled' \in Seq(Bar)
      /\ \A i \in 1 .. Len(polled) - 1 : polled'[i] = polled[i + 1] /\ i + 1 \in 1 .. Len(polled)
      /\ c \in Nat
      /\ b.bar <= c + 1 \/ (c = 0 /\ b.bar + PollBars <= closed + 1)
      /\ b.bar <= c => Known(b)
      /\ \A i \in 1 .. Len(polled) : polled[i].symbol = z /\ polled[i].bar = b.bar + i - 1
  BY <1>0, <1>1, HeadFacts
<1>3. /\ b.final /\ b.bar <= closed /\ k \in BarKey /\ k \notin Range(gate)
      /\ Range(gate') = Range(gate) \union {k}
  <2>1. Head(polled) = b /\ Len(Remember(Head(polled))) < Capacity
    BY <1>0, <1>1 DEF Room
  <2> QED BY <1>1, <2>1, RememberFacts
<1>4. /\ k = [symbol |-> z, bar |-> b.bar] /\ k.symbol = z /\ k.bar = b.bar
      /\ closed \in Nat /\ PollBars \in Nat /\ checkpoint \in [Symbol -> 0 .. MaxBars]
      /\ batch \in Seq(BarKey)
  BY SizeAssumption DEF KeyOf, CollectorTypeOK
<1>5. b.bar > c /\ (b.bar = c + 1 \/ (c = 0 /\ b.bar + PollBars <= closed + 1))
  <2>1. ~Known(b)
    BY <1>3 DEF Known
  <2> QED BY <1>2, <2>1
<1>6. checkpoint'[z] = b.bar /\ \A s \in Symbol : s # z => checkpoint'[s] = checkpoint[s]
  BY <1>1, <1>2, <1>4
<1>7. /\ Range(batch') = Range(batch) \union {k} /\ Len(batch') = Len(batch) + 1
      /\ \A i \in DOMAIN batch : batch'[i] = batch[i]
      /\ batch'[Len(batch) + 1] = k /\ batch' \in Seq(BarKey)
      /\ DOMAIN batch = 1 .. Len(batch) /\ Len(batch) \in Nat /\ DOMAIN batch' = 1 .. Len(batch) + 1
  <2>1. batch' = Append(batch, k)
    BY <1>1, <1>2
  <2> HIDE DEF k
  <2>2. /\ Range(batch') = Range(batch) \union {k} /\ Len(batch') = Len(batch) + 1
        /\ \A i \in DOMAIN batch : batch'[i] = batch[i]
        /\ batch'[Len(batch) + 1] = k /\ batch' \in Seq(BarKey)
    BY <1>3, <1>4, <2>1, Appended
  <2> QED BY <1>4, <2>2
<1> HIDE DEF k
<1>8. /\ Pending(z)' = Pending(z) \union {b.bar}
      /\ \A s \in Symbol : s # z => Pending(s)' = Pending(s)
  <2> SUFFICES ASSUME NEW s
               PROVE  Pending(s)' = Pending(s) \union (IF k.symbol = s THEN {k.bar} ELSE {})
    BY <1>4
  <2> QED BY <1>7, PendingAdds DEF Pending
<1>9. ASSUME NEW s \in Symbol PROVE StreamInv(s)'
  <2>0. StreamInv(s)
    BY DEF FlowInv
  <2>1. InOrder(s)'
    BY <1>1, <2>0 DEF StreamInv, InOrder
  <2>2. Latest(s)' = Latest(s) /\ delivered'[s] = delivered[s] /\ closed' = closed
    BY <1>1 DEF Latest
  <2>3. CASE s # z
    BY <1>6, <1>8, <2>0, <2>1, <2>2, <2>3 DEF StreamInv
  <2>4. CASE s = z
    <3>1. checkpoint'[s] <= closed'
      BY <1>3, <1>6, <2>2, <2>4
    <3>2. ASSUME delivered[s] = <<>>
          PROVE  \E first \in 1 .. b.bar : Pending(s)' = first .. b.bar
      <4>1. CASE c = 0 /\ Pending(s) = {}
        <5>1. b.bar .. b.bar = {b.bar} /\ b.bar \in 1 .. b.bar
          BY <1>2
        <5>2. Pending(s)' = {b.bar}
          BY <1>8, <2>4, <4>1
        <5> QED BY <5>1, <5>2
      <4>2. CASE \E first \in 1 .. c : Pending(s) = first .. c
        <5>1. PICK first \in 1 .. c : Pending(s) = first .. c
          BY <4>2
        <5>2. b.bar = c + 1 /\ first \in 1 .. b.bar
          BY <1>2, <1>5, <5>1
        <5>3. first .. c + 1 = (first .. c) \union {c + 1}
          <6>1. c \in Int /\ first \in Int /\ first <= c + 1
            BY <1>2
          <6> QED BY <6>1, Interval
        <5>4. Pending(s)' = first .. b.bar
          BY <1>8, <2>4, <5>1, <5>2, <5>3
        <5> QED BY <5>2, <5>4
      <4> QED BY <2>0, <2>4, <3>2, <4>1, <4>2 DEF StreamInv
    <3>3. ASSUME delivered[s] # <<>>
          PROVE  Latest(s) <= b.bar /\ Pending(s)' = Latest(s) + 1 .. b.bar
      <4>1. Latest(s) <= c /\ Pending(s) = Latest(s) + 1 .. c
        BY <2>0, <2>4, <3>3 DEF StreamInv
      <4>2. Latest(s) \in Nat \ {0}
        <5>1. delivered[s] \in Seq(1 .. MaxBars)
          BY DEF CollectorTypeOK
        <5>2. Len(delivered[s]) \in DOMAIN delivered[s]
          BY <3>3, <5>1
        <5>3. Latest(s) \in 1 .. MaxBars
          BY <5>2, Elements DEF Latest
        <5> QED BY <5>3, SizeAssumption
      <4>3. b.bar = c + 1 /\ Latest(s) <= b.bar
        BY <1>2, <1>5, <4>1, <4>2
      <4>4. Latest(s) + 1 .. c + 1 = (Latest(s) + 1 .. c) \union {c + 1}
        <5>1. Latest(s) + 1 \in Int /\ Latest(s) + 1 <= c + 1 /\ c \in Int
          BY <1>2, <4>1, <4>2
        <5> QED BY <5>1, Interval
      <4>5. Pending(s)' = Latest(s) + 1 .. b.bar
        BY <1>8, <2>4, <4>1, <4>3, <4>4
      <4> QED BY <4>3, <4>5
    <3> QED BY <1>6, <2>1, <2>2, <2>4, <3>1, <3>2, <3>3 DEF StreamInv
  <2> QED BY <2>3, <2>4
<1>10. GateInv'
  <2>1. ASSUME NEW s \in Symbol, NEW n \in 1 .. checkpoint'[s], n > closed - PollBars
        PROVE  [symbol |-> s, bar |-> n] \in Range(gate')
    <3>1. CASE s # z
      BY <1>3, <1>6, <2>1, <3>1 DEF FlowInv, GateInv
    <3>2. CASE s = z
      <4>1. n \in 1 .. c \/ n = b.bar
        <5>1. n \in 1 .. b.bar
          BY <1>2, <1>4, <1>6, <2>1, <3>2
        <5>2. PICK m : m = b.bar
          OBVIOUS
        <5>3. m \in Nat /\ c \in Nat /\ (m = c + 1 \/ (c = 0 /\ m + PollBars <= closed + 1))
          BY <1>2, <1>5, <5>2
        <5> HIDE DEF c
        <5> QED BY <1>4, <2>1, <5>1, <5>2, <5>3
      <4>2. ASSUME n \in 1 .. c PROVE [symbol |-> s, bar |-> n] \in Range(gate)
        BY <2>1, <3>2, <4>2 DEF FlowInv, GateInv
      <4> QED BY <1>3, <1>4, <3>2, <4>1, <4>2
    <3> QED BY <3>1, <3>2
  <2>2. ASSUME NEW x \in Range(gate') PROVE x.bar <= checkpoint'[x.symbol]
    <3>1. CASE x = k
      BY <1>2, <1>4, <1>6, <3>1
    <3>2. CASE x \in Range(gate)
      <4>1. x.bar <= checkpoint[x.symbol] /\ x \in BarKey
        <5>1. gate \in Seq(BarKey)
          BY DEF CollectorTypeOK
        <5>2. x \in BarKey
          BY <3>2, <5>1, RangeOf
        <5> QED BY <3>2, <5>2 DEF FlowInv, GateInv
      <4>2. x.symbol \in Symbol /\ x.bar \in Int
        BY <4>1 DEF BarKey
      <4>3. CASE x.symbol = z
        BY <1>2, <1>5, <1>6, <4>1, <4>2, <4>3
      <4>4. CASE x.symbol # z
        BY <1>6, <4>1, <4>2, <4>4
      <4> QED BY <4>3, <4>4
    <3> QED BY <1>3, <2>2, <3>1, <3>2
  <2>3. closed' = closed
    BY <1>1
  <2> QED BY <2>1, <2>2, <2>3 DEF GateInv
<1>11. PolledInv'
  <2>1. ASSUME NEW i \in 1 .. Len(polled) - 1
        PROVE  /\ polled'[i].symbol = z /\ polled'[i].bar = b.bar + i
               /\ i < Len(polled') => polled'[i].final
               /\ ~(polled'[i].bar <= checkpoint'[polled'[i].symbol])
    <3>1. i + 1 \in 1 .. Len(polled) /\ polled'[i] = polled[i + 1]
      BY <1>2
    <3>0. b.bar + (i + 1) - 1 = b.bar + i
      BY <1>2
    <3>2. polled'[i].symbol = z /\ polled'[i].bar = b.bar + i
      BY <1>2, <3>0, <3>1
    <3>3. i < Len(polled') => i + 1 < Len(polled)
      BY <1>2
    <3>4. i < Len(polled') => polled'[i].final
      BY <1>2, <3>1, <3>3 DEF FlowInv, PolledInv
    <3>5. ~(b.bar + i <= b.bar)
      BY <1>2
    <3> QED BY <1>6, <3>2, <3>4, <3>5
  <2>2. ASSUME NEW i \in 1 .. Len(polled) - 1
        PROVE  polled'[i].symbol = polled'[1].symbol /\ polled'[i].bar = polled'[1].bar + i - 1
    <3>1. 1 \in 1 .. Len(polled) - 1
      BY <1>2
    <3>2. polled'[1].symbol = z /\ polled'[1].bar = b.bar + 1
      BY <2>1, <3>1
    <3>3. polled'[i].symbol = z /\ polled'[i].bar = b.bar + i
      BY <2>1
    <3>4. b.bar + i = (b.bar + 1) + i - 1
      BY <1>2
    <3> QED BY <3>2, <3>3, <3>4
  <2>3. polled' # <<>> => polled'[1].bar <= checkpoint'[polled'[1].symbol] + 1
    <3> SUFFICES ASSUME polled' # <<>> PROVE polled'[1].bar <= checkpoint'[polled'[1].symbol] + 1
      OBVIOUS
    <3>1. 1 \in 1 .. Len(polled) - 1
      BY <1>2
    <3>2. polled'[1].symbol = z /\ polled'[1].bar = b.bar + 1
      BY <2>1, <3>1
    <3> QED BY <1>2, <1>6, <3>2
  <2> QED BY <1>2, <2>1, <2>2, <2>3 DEF PolledInv
<1>12. BatchInv'
  <2> SUFFICES ASSUME NEW i \in DOMAIN batch', NEW j \in DOMAIN batch', i < j,
                      batch'[i].symbol = batch'[j].symbol
               PROVE  batch'[i].bar < batch'[j].bar
    BY DEF BatchInv
  <2>1. i \in DOMAIN batch /\ (j \in DOMAIN batch \/ j = Len(batch) + 1)
    BY <1>7
  <2>2. CASE j \in DOMAIN batch
    BY <1>7, <2>1, <2>2 DEF FlowInv, BatchInv
  <2>3. CASE j = Len(batch) + 1
    <3>1. batch[i].symbol = z /\ batch'[i] = batch[i] /\ batch'[j] = k
      BY <1>4, <1>7, <2>1, <2>3
    <3>2. batch[i] \in Range(batch)
      BY <2>1 DEF Range
    <3>3. batch[i].bar \in Pending(z)
      BY <3>1, <3>2 DEF Pending
    <3>4. batch[i].bar \in Int /\ batch[i].bar <= c
      <4>1. batch[i].bar \in Int
        BY <2>1, Elements DEF BarKey
      <4>2. StreamInv(z)
        BY <1>2 DEF FlowInv
      <4>3. \A first \in Int : batch[i].bar \in first .. c => batch[i].bar <= c
        BY <1>2
      <4>4. CASE delivered[z] = <<>>
        <5>1. PICK first \in 1 .. c : Pending(z) = first .. c
          BY <3>3, <4>2, <4>4 DEF StreamInv
        <5> QED BY <3>3, <4>1, <4>3, <5>1
      <4>5. CASE delivered[z] # <<>>
        <5>1. Pending(z) = Latest(z) + 1 .. c
          BY <4>2, <4>5 DEF StreamInv
        <5>2. batch[i].bar \in Latest(z) + 1 .. c
          BY <3>3, <5>1
        <5> QED BY <1>2, <4>1, <5>2
      <4> QED BY <4>4, <4>5
    <3> QED BY <1>2, <1>4, <1>5, <3>1, <3>4
  <2> QED BY <2>1, <2>2, <2>3
<1>13. ASSUME NEW s \in Symbol PROVE AnswerInv(s)'
  <2>1. HasAnswered(s)' = HasAnswered(s)
    BY <1>1 DEF HasAnswered
  <2>2. phase \in {"backfill", "yield", "live"} => closed - answered[s] <= Slack
    BY DEF FlowInv, AnswerInv
  <2>3. checkpoint[s] <= checkpoint'[s] /\ answered[s] \in Int /\ checkpoint[s] \in Int /\ checkpoint'[s] \in Int
    <3>1. checkpoint[s] \in Int /\ answered[s] \in Int
      BY DEF CollectorTypeOK
    <3>2. c \in Int /\ b.bar \in Int /\ c <= b.bar
      BY <1>2, <1>5
    <3>3. CASE s = z
      BY <1>6, <3>1, <3>2, <3>3
    <3>4. CASE s # z
      BY <1>6, <3>1, <3>4
    <3> QED BY <3>3, <3>4
  <2>4. ASSUME NEW i \in DOMAIN polled,
               polled[i] = [symbol |-> s, bar |-> answered[s], final |-> TRUE]
        PROVE  \/ answered[s] <= checkpoint'[s]
               \/ \E j \in DOMAIN polled' :
                     polled'[j] = [symbol |-> s, bar |-> answered[s], final |-> TRUE]
    <3>1. CASE i = 1
      <4>1. b = [symbol |-> s, bar |-> answered[s], final |-> TRUE]
        BY <1>0, <2>4, <3>1
      <4>2. z = s /\ b.bar = answered[s]
        BY <4>1
      <4> QED BY <1>6, <2>3, <4>2
    <3>2. CASE i # 1
      <4>1. i - 1 \in 1 .. Len(polled) - 1 /\ (i - 1) + 1 = i
        BY <1>2, <3>2
      <4>2. polled'[i - 1] = polled[i]
        BY <1>2, <4>1
      <4> QED BY <1>2, <2>4, <4>1, <4>2
    <3> QED BY <3>1, <3>2
  <2>5. HasAnswered(s) =>
          \/ answered[s] <= checkpoint[s]
          \/ \E i \in DOMAIN polled : polled[i] = [symbol |-> s, bar |-> answered[s], final |-> TRUE]
    BY DEF FlowInv, AnswerInv
  <2>6. HasAnswered(s) =>
          \/ answered[s] <= checkpoint'[s]
          \/ \E j \in DOMAIN polled' :
                polled'[j] = [symbol |-> s, bar |-> answered[s], final |-> TRUE]
    BY <2>3, <2>4, <2>5
  <2> QED BY <1>1, <2>1, <2>2, <2>6 DEF AnswerInv
<1> QED BY <1>9, <1>10, <1>11, <1>12, <1>13 DEF FlowInv

\* The event at the head of the batch is the next of its symbol.
LEMMA FlowYield ==
    ASSUME CollectorTypeOK, ClosedInv, RememberedInv, FlowInv, Room, Yield
    PROVE  FlowInv'
<1>0. PICK e \in BarKey : e = Head(batch) /\ e = batch[1]
  BY YieldFacts
<1> DEFINE z == e.symbol
           c == checkpoint[z]
<1>1. /\ z \in Symbol /\ e.bar \in 1 .. MaxBars /\ e.bar \in Nat
      /\ \A s \in Symbol \ {z} : delivered'[s] = delivered[s]
      /\ delivered'[z] = Append(delivered[z], e.bar)
      /\ Range(batch) = Range(batch') \union {e} /\ batch' \in Seq(BarKey)
  BY <1>0, YieldFacts, SizeAssumption
<1>2. /\ batch \in Seq(BarKey) /\ batch # <<>> /\ batch' = Tail(batch)
      /\ UNCHANGED <<closed, answered, checkpoint, gate, phase, at, polled>>
  BY DEF Yield, CollectorTypeOK
<1>3. /\ Len(batch) \in Nat \ {0} /\ DOMAIN batch = 1 .. Len(batch)
      /\ DOMAIN batch' = 1 .. Len(batch) - 1
      /\ \A i \in DOMAIN batch' : batch'[i] = batch[i + 1] /\ i + 1 \in DOMAIN batch
  <2>1. /\ Len(batch) \in Nat \ {0} /\ DOMAIN batch = 1 .. Len(batch)
        /\ DOMAIN batch' = 1 .. Len(batch) - 1
        /\ \A i \in DOMAIN batch' : batch'[i] = batch[i + 1]
    BY <1>2, Tailed
  <2>2. \A i \in DOMAIN batch' : i + 1 \in DOMAIN batch
    BY <2>1
  <2> QED BY <2>1, <2>2
<1>4. c \in Nat /\ delivered[z] \in Seq(1 .. MaxBars)
  BY <1>1 DEF CollectorTypeOK
<1>5. /\ Pending(z) = Pending(z)' \union {e.bar}
      /\ \A s \in Symbol : s # z => Pending(s)' = Pending(s)
  <2> SUFFICES ASSUME NEW s
               PROVE  Pending(s) = Pending(s)' \union (IF e.symbol = s THEN {e.bar} ELSE {})
    OBVIOUS
  <2> QED BY <1>1, PendingAdds DEF Pending
<1>6. ASSUME NEW n \in Pending(z)' PROVE e.bar < n
  <2>1. PICK x \in Range(batch') : x.symbol = z /\ x.bar = n
    BY <1>6 DEF Pending
  <2>2. PICK i \in DOMAIN batch' : batch'[i] = x
    BY <2>1 DEF Range
  <2>3. batch[i + 1] = x /\ i + 1 \in DOMAIN batch /\ 1 \in DOMAIN batch /\ 1 < i + 1
    BY <1>3, <2>2
  <2> QED BY <1>0, <2>1, <2>3 DEF FlowInv, BatchInv
<1>7. ASSUME NEW m \in Int, Pending(z) = m .. c
      PROVE  e.bar = m /\ m <= c /\ Pending(z)' = m + 1 .. c
  <2>1. e.bar \in m .. c
    BY <1>5, <1>7
  <2>2. m \in m .. c /\ m <= c
    BY <1>1, <1>4, <2>1
  <2>3. e.bar = m
    <3>1. m = e.bar \/ m \in Pending(z)'
      BY <1>5, <1>7, <2>2
    <3> QED BY <1>1, <1>4, <1>6, <2>1, <3>1
  <2>4. \A n : n \in Pending(z)' <=> n \in m .. c /\ n # m
    <3>1. e.bar \notin Pending(z)'
      BY <1>1, <1>6
    <3> QED BY <1>5, <1>7, <2>3, <3>1
  <2>5. \A n : n \in m .. c /\ n # m <=> n \in m + 1 .. c
    BY <1>4
  <2> QED BY <2>2, <2>3, <2>4, <2>5
<1>8. ASSUME NEW s \in Symbol PROVE StreamInv(s)'
  <2>0. StreamInv(s) /\ checkpoint' = checkpoint /\ closed' = closed
    BY <1>2 DEF FlowInv
  <2>1. CASE s # z
    <3>1. delivered'[s] = delivered[s] /\ Pending(s)' = Pending(s)
      BY <1>1, <1>5, <2>1
    <3> QED BY <2>0, <3>1 DEF StreamInv, InOrder, Latest
  <2>2. CASE s = z
    <3> DEFINE seq == delivered[z]
               n == e.bar
               B == 1 .. MaxBars
    <3>1. seq \in Seq(B) /\ n \in B /\ Len(seq) \in Nat /\ DOMAIN seq = 1 .. Len(seq)
      BY <1>1, <1>4
    <3> HIDE DEF seq, n, B
    <3>2. /\ Append(seq, n) \in Seq(B)
          /\ Len(Append(seq, n)) = Len(seq) + 1
          /\ \A i \in DOMAIN seq : Append(seq, n)[i] = seq[i]
          /\ Append(seq, n)[Len(seq) + 1] = n
          /\ Append(seq, n) # <<>>
      BY <3>1, Appended
    <3>3. delivered'[s] = Append(seq, n) /\ delivered[s] = seq
      BY <1>1, <2>2 DEF seq, n
    <3>4. Latest(s)' = n
      BY <3>1, <3>2, <3>3 DEF Latest
    <3>5. n <= c /\ Pending(s)' = n + 1 .. c /\ (seq # <<>> => n = Latest(s) + 1)
      <4>1. CASE seq = <<>>
        <5>1. e.bar \in Pending(z)
          BY <1>5
        <5>2. PICK first \in 1 .. c : Pending(z) = first .. c
          BY <2>0, <2>2, <3>3, <4>1, <5>1 DEF StreamInv
        <5>3. first \in Int
          OBVIOUS
        <5> QED BY <1>7, <2>2, <4>1, <5>2, <5>3 DEF n
      <4>2. CASE seq # <<>>
        <5>1. Pending(z) = Latest(s) + 1 .. c
          BY <2>0, <2>2, <3>3, <4>2 DEF StreamInv
        <5>2. Latest(s) + 1 \in Int
          <6>1. Len(seq) \in DOMAIN seq
            BY <3>1, <4>2
          <6>2. Latest(s) \in 1 .. MaxBars
            BY <3>3, <6>1, Elements DEF Latest
          <6> QED BY <6>2
        <5> QED BY <1>7, <2>2, <5>1, <5>2 DEF n
      <4> QED BY <4>1, <4>2
    <3>6. InOrder(s)'
      <4> SUFFICES ASSUME NEW i \in 2 .. Len(seq) + 1
                   PROVE  Append(seq, n)[i] = Append(seq, n)[i - 1] + 1
        BY <3>2, <3>3 DEF InOrder
      <4>1. CASE i \in 2 .. Len(seq)
        <5>1. i \in DOMAIN seq /\ i - 1 \in DOMAIN seq
          BY <3>1, <4>1
        <5>2. seq[i] = seq[i - 1] + 1
          BY <2>0, <3>3, <4>1 DEF StreamInv, InOrder
        <5> QED BY <3>2, <5>1, <5>2
      <4>2. CASE i = Len(seq) + 1
        <5>1. i - 1 = Len(seq) /\ Len(seq) \in DOMAIN seq /\ seq # <<>>
          BY <3>1, <4>2
        <5>2. Append(seq, n)[i - 1] = Latest(s)
          BY <3>2, <3>3, <5>1 DEF Latest
        <5> QED BY <3>2, <3>5, <4>2, <5>1, <5>2
      <4>3. i \in 2 .. Len(seq) \/ i = Len(seq) + 1
        BY <3>1
      <4> QED BY <4>1, <4>2, <4>3
    <3>7. checkpoint'[s] = c /\ c <= closed
      BY <2>0, <2>2 DEF StreamInv
    <3> QED BY <2>0, <3>2, <3>3, <3>4, <3>5, <3>6, <3>7 DEF StreamInv
  <2> QED BY <2>1, <2>2
<1>9. (\A s \in Symbol : AnswerInv(s)') /\ GateInv' /\ PolledInv'
  BY <1>2 DEF FlowInv, AnswerInv, HasAnswered, GateInv, PolledInv, Known
<1>10. BatchInv'
  <2> SUFFICES ASSUME NEW i \in DOMAIN batch', NEW j \in DOMAIN batch', i < j,
                      batch'[i].symbol = batch'[j].symbol
               PROVE  batch'[i].bar < batch'[j].bar
    BY DEF BatchInv
  <2>1. i + 1 < j + 1
    BY <1>3
  <2> QED BY <1>3, <2>1 DEF FlowInv, BatchInv
<1> QED BY <1>8, <1>9, <1>10 DEF FlowInv

\* What changes neither the streams nor what is being processed.
LEMMA FlowElse ==
    ASSUME CollectorTypeOK, ClosedInv, WaitInv, FlowInv,
           \/ VenueCloses \/ GoLive \/ Reconnect \/ Restart
           \/ (BackfillFails \/ LiveFails) /\ batch = <<>>
           \/ UNCHANGED collectorVars
    PROVE  FlowInv'
<1>0. /\ closed \in Nat /\ PollBars \in Nat /\ Slack \in Nat \ {0}
      /\ \A s \in Symbol : answered[s] \in Nat /\ checkpoint[s] \in Nat
  BY SizeAssumption DEF CollectorTypeOK
<1>1. ASSUME UNCHANGED <<checkpoint, batch, delivered>>, closed' \in {closed, closed + 1}
      PROVE  /\ \A s \in Symbol : StreamInv(s)'
             /\ BatchInv'
  <2>1. ASSUME NEW s \in Symbol PROVE StreamInv(s)'
    <3>1. StreamInv(s) /\ checkpoint'[s] = checkpoint[s] /\ delivered'[s] = delivered[s]
          /\ Pending(s)' = Pending(s) /\ Latest(s)' = Latest(s) /\ InOrder(s)' = InOrder(s)
      BY <1>1 DEF FlowInv, Pending, Latest, InOrder
    <3>2. checkpoint[s] <= closed'
      BY <1>0, <1>1, <3>1 DEF StreamInv
    <3> QED BY <3>1, <3>2 DEF StreamInv
  <2> QED BY <1>1, <2>1 DEF FlowInv, BatchInv
<1>2. ASSUME UNCHANGED <<checkpoint, gate>>, closed' \in {closed, closed + 1} PROVE GateInv'
  <2>1. ASSUME NEW n \in Int, n > closed' - PollBars PROVE n > closed - PollBars
    <3>1. closed \in Nat /\ PollBars \in Nat /\ (closed' = closed \/ closed' = closed + 1)
      BY <1>0, <1>2
    <3> QED BY <2>1, <3>1
  <2>2. /\ \A s \in Symbol : \A n \in 1 .. checkpoint[s] :
              n > closed - PollBars => [symbol |-> s, bar |-> n] \in Range(gate)
        /\ \A k \in Range(gate) : k.bar <= checkpoint[k.symbol]
    BY DEF FlowInv, GateInv
  <2>3. Range(gate)' = Range(gate) /\ checkpoint' = checkpoint
    BY <1>2
  <2>4. \A s \in Symbol : \A n \in 1 .. checkpoint[s] :
           n > closed' - PollBars => [symbol |-> s, bar |-> n] \in Range(gate)
    <3>1. \A s \in Symbol : \A n \in 1 .. checkpoint[s] : n \in Int
      OBVIOUS
    <3> QED BY <2>1, <2>2, <3>1
  <2> QED BY <2>2, <2>3, <2>4 DEF GateInv
<1>3. CASE VenueCloses
  <2>1. UNCHANGED <<answered, checkpoint, gate, phase, at, polled, batch, delivered>> /\ closed' = closed + 1
        /\ (phase \in {"wait", "down"} \/ \A s \in Symbol : closed - answered[s] < Slack)
    BY <1>3 DEF VenueCloses
  <2>2. ASSUME NEW s \in Symbol PROVE AnswerInv(s)'
    <3>1. phase \in {"backfill", "yield", "live"} => closed' - answered[s] <= Slack
      BY <1>0, <2>1
    <3>2. HasAnswered(s)' = HasAnswered(s)
      BY <2>1 DEF HasAnswered
    <3> QED BY <2>1, <3>1, <3>2 DEF FlowInv, AnswerInv
  <2>3. PolledInv'
    <3>1. \A i \in DOMAIN polled :
            /\ polled[i].symbol = polled[1].symbol /\ polled[i].bar = polled[1].bar + i - 1
            /\ i < Len(polled) => polled[i].final
            /\ polled[i].bar <= checkpoint[polled[i].symbol] => Known(polled[i])
      BY DEF FlowInv, PolledInv
    <3>2. polled # <<>> =>
          \/ polled[1].bar <= checkpoint[polled[1].symbol] + 1
          \/ checkpoint[polled[1].symbol] = 0 /\ polled[1].bar + PollBars <= closed + 1
      BY DEF FlowInv, PolledInv
    <3>3. polled # <<>> => polled[1].bar \in Nat
      BY HeadFacts
    <3>4. polled # <<>> =>
          \/ polled[1].bar <= checkpoint[polled[1].symbol] + 1
          \/ checkpoint[polled[1].symbol] = 0 /\ polled[1].bar + PollBars <= closed' + 1
      BY <1>0, <2>1, <3>2, <3>3
    <3> QED BY <2>1, <3>1, <3>4 DEF PolledInv, Known
  <2> QED BY <1>1, <1>2, <2>1, <2>2, <2>3 DEF FlowInv
<1>4. CASE GoLive
  <2>1. UNCHANGED <<closed, answered, checkpoint, gate, polled, batch, delivered>>
        /\ phase = "yield" /\ phase' = "live"
    BY <1>4 DEF GoLive
  <2>2. \A s \in Symbol : AnswerInv(s)'
    BY <2>1 DEF FlowInv, AnswerInv, HasAnswered
  <2>3. PolledInv'
    BY <2>1 DEF FlowInv, PolledInv, Known
  <2> QED BY <1>1, <1>2, <2>1, <2>2, <2>3 DEF FlowInv
<1>5. CASE Reconnect \/ Restart
  <2>1. UNCHANGED <<closed, checkpoint, gate, polled, batch, delivered, at>>
        /\ phase \in {"wait", "down"} /\ phase' = "backfill" /\ answered' = [s \in Symbol |-> closed]
    BY <1>5 DEF Reconnect, Restart
  <2>2. at' = 1 /\ polled' = <<>>
    BY <2>1 DEF WaitInv
  <2>3. ASSUME NEW s \in Symbol PROVE AnswerInv(s)'
    <3>1. ~HasAnswered(s)'
      BY <2>1, <2>2 DEF HasAnswered
    <3>2. closed' - answered'[s] <= Slack
      BY <1>0, <2>1
    <3> QED BY <3>1, <3>2 DEF AnswerInv
  <2>4. PolledInv'
    BY <2>1 DEF FlowInv, PolledInv, Known
  <2> QED BY <1>1, <1>2, <2>1, <2>3, <2>4 DEF FlowInv
<1>6. CASE (BackfillFails \/ LiveFails) /\ batch = <<>>
  <2>1. UNCHANGED <<closed, checkpoint, gate, batch, delivered>> /\ polled' = <<>> /\ phase' = "wait"
    BY <1>6 DEF BackfillFails, LiveFails, Retry
  <2>2. \A s \in Symbol : AnswerInv(s)'
    BY <2>1 DEF AnswerInv, HasAnswered
  <2>3. PolledInv'
    BY <2>1 DEF PolledInv
  <2> QED BY <1>1, <1>2, <2>1, <2>2, <2>3 DEF FlowInv
<1>7. CASE UNCHANGED collectorVars
  <2>1. UNCHANGED <<closed, answered, checkpoint, gate, phase, at, polled, batch, delivered>>
    BY <1>7 DEF collectorVars
  <2>2. \A s \in Symbol : AnswerInv(s)'
    BY <2>1 DEF FlowInv, AnswerInv, HasAnswered
  <2>3. PolledInv'
    BY <2>1 DEF FlowInv, PolledInv, Known
  <2> QED BY <1>1, <1>2, <2>1, <2>2, <2>3 DEF FlowInv
<1> QED BY <1>3, <1>4, <1>5, <1>6, <1>7

LEMMA GapStep ==
    ASSUME CollectorTypeOK, CollectorInv, [CollectorNext]_collectorVars
    PROVE  GapInv'
<1> SUFFICES ASSUME OnlyFetchesFail', Room' PROVE FlowInv'
  BY DEF GapInv
<1>1. /\ OnlyFetchesFail /\ Room
      /\ ~Crash /\ ~BackfillEmpty /\ ~LiveEmpty /\ ~BarNotRecorded
      /\ \A s \in Symbol : ~OtherRecords(s)
      /\ BackfillFails => batch = <<>>
  BY RoomStays DEF CollectorInv
<1>2. ClosedInv /\ RememberedInv /\ WaitInv /\ FlowInv
  BY <1>1 DEF CollectorInv, GapInv
<1>3. LiveFails => batch = <<>>
  BY DEF LiveFails, Idle
<1>4. \/ BackfillSymbol \/ LivePoll \/ BarEmitted \/ BarIgnored \/ Yield
      \/ VenueCloses \/ GoLive \/ Reconnect \/ Restart
      \/ (BackfillFails \/ LiveFails) /\ batch = <<>>
      \/ UNCHANGED collectorVars
  BY <1>1, <1>3 DEF CollectorNext, Collect, Environment
<1> QED BY <1>1, <1>2, <1>4, FlowBackfill, FlowLivePoll, FlowEmitted, FlowIgnored, FlowYield, FlowElse

-----------------------------------------------------------------------------

LEMMA CollectorStep ==
    CollectorTypeOK /\ CollectorInv /\ [CollectorNext]_collectorVars => CollectorTypeOK' /\ CollectorInv'
<1> SUFFICES ASSUME CollectorTypeOK, CollectorInv, [CollectorNext]_collectorVars
             PROVE  CollectorTypeOK' /\ CollectorInv'
  OBVIOUS
<1>1. CollectorTypeOK' /\ ClosedInv'
  BY CollectorTypesStep DEF CollectorInv
<1>2. WaitInv'
  BY WaitStep DEF CollectorInv
<1>3. RememberedInv'
  <2>1. CASE Room'
    BY <2>1, RememberedStep DEF CollectorInv
  <2>2. CASE ~Room'
    BY <2>2 DEF RememberedInv
  <2> QED BY <2>1, <2>2
<1>4. GapInv'
  BY GapStep
<1> QED BY <1>1, <1>2, <1>3, <1>4 DEF CollectorInv

-----------------------------------------------------------------------------
(* The theorems about the collector                                         *)

\* A collector of any configuration keeps its types: the gate within its
\* capacity, the position within the symbols, the checkpoint at a closed bar.
THEOREM CollectorTypes == CollectorSpec => []CollectorTypeOK
<1>1. CollectorSpec => [](CollectorTypeOK /\ CollectorInv)
  BY CollectorInitFacts, CollectorStep, PTL DEF CollectorSpec
<1> QED BY <1>1, PTL

\* What the gate remembers, what is pending, the checkpoint and what is being
\* processed fit together in every state.
THEOREM CollectorInvariant == CollectorSpec => []CollectorInv
<1>1. CollectorSpec => [](CollectorTypeOK /\ CollectorInv)
  BY CollectorInitFacts, CollectorStep, PTL DEF CollectorSpec
<1> QED BY <1>1, PTL

LEMMA InvariantGives ==
    CollectorTypeOK /\ CollectorInv /\ Room => EmittedOnce /\ NoGap /\ CheckpointTruthful
<1> SUFFICES ASSUME CollectorTypeOK, CollectorInv, Room
             PROVE  EmittedOnce /\ NoGap /\ CheckpointTruthful
  OBVIOUS
<1>1. EmittedOnce
  BY DEF EmittedOnce, CollectorInv, ClosedInv, RememberedInv, Range
<1>2. NoGap
  BY DEF NoGap, CollectorInv, GapInv, FlowInv, StreamInv
<1>3. CheckpointTruthful
  <2> SUFFICES ASSUME OnlyFetchesFail, batch = <<>>, NEW s \in Symbol
               PROVE  checkpoint[s] = IF delivered[s] = <<>> THEN 0 ELSE Latest(s)
    BY DEF CheckpointTruthful
  <2>1. StreamInv(s)
    BY DEF CollectorInv, GapInv, FlowInv
  <2>2. Range(batch) = {}
    BY DEF Range
  <2>3. Pending(s) = {}
    BY <2>2 DEF Pending
  <2>4. checkpoint[s] \in Nat
    BY DEF CollectorTypeOK
  <2>5. CASE delivered[s] = <<>>
    <3>1. \A first \in 1 .. checkpoint[s] : first \in first .. checkpoint[s]
      BY <2>4
    <3> QED BY <2>1, <2>3, <2>5, <3>1 DEF StreamInv
  <2>6. CASE delivered[s] # <<>>
    <3>1. Latest(s) \in Int
      <4>1. delivered[s] \in Seq(1 .. MaxBars)
        BY DEF CollectorTypeOK
      <4>2. Len(delivered[s]) \in DOMAIN delivered[s]
        BY <2>6, <4>1
      <4>3. Latest(s) \in 1 .. MaxBars
        BY <4>2, Elements DEF Latest
      <4> QED BY <4>3
    <3>2. Latest(s) <= checkpoint[s] /\ Latest(s) + 1 .. checkpoint[s] = {}
      BY <2>1, <2>3, <2>6 DEF StreamInv
    <3>3. ~(Latest(s) + 1 <= checkpoint[s])
      <4>1. Latest(s) + 1 <= checkpoint[s] => checkpoint[s] \in Latest(s) + 1 .. checkpoint[s]
        BY <2>4, <3>1
      <4> QED BY <3>2, <4>1
    <3> QED BY <2>4, <2>6, <3>1, <3>2, <3>3
  <2> QED BY <2>5, <2>6
<1> QED BY <1>1, <1>2, <1>3

\* FinalBarGate: while it has room for one more key, no process emits a bar
\* twice or before it is closed, whatever fails.
THEOREM EmittedOnceHolds == CollectorSpec => [](Room => EmittedOnce)
<1>1. CollectorTypeOK /\ CollectorInv => (Room => EmittedOnce)
  BY InvariantGives
<1> QED BY <1>1, CollectorTypes, CollectorInvariant, PTL

\* _backfill from the checkpoint and the reach of a live poll: as long as only
\* live polls fail, and requests for history before a symbol has answered with
\* a new bar, the bars of a symbol go on without a hole.
THEOREM NoGapHolds == CollectorSpec => [](Room => NoGap)
<1>1. CollectorTypeOK /\ CollectorInv => (Room => NoGap)
  BY InvariantGives
<1> QED BY <1>1, CollectorTypes, CollectorInvariant, PTL

\* CheckpointStore.record: in the same cases, when nothing is left to yield,
\* the checkpoint names the bar yielded last.
THEOREM CheckpointTruthfulHolds == CollectorSpec => [](Room => CheckpointTruthful)
<1>1. CollectorTypeOK /\ CollectorInv => (Room => CheckpointTruthful)
  BY InvariantGives
<1> QED BY <1>1, CollectorTypes, CollectorInvariant, PTL

\* The gate cannot hold more keys than bars have closed.
LEMMA GateSize ==
    ASSUME CollectorTypeOK, ClosedInv
    PROVE  Len(gate) <= Len(Symbols) * closed
<1>1. /\ gate \in Seq(BarKey) /\ closed \in Nat /\ Len(gate) \in Nat
      /\ DOMAIN gate = 1 .. Len(gate) /\ gate \in [1 .. Len(gate) -> BarKey]
  <2>1. gate \in Seq(BarKey) /\ closed \in Nat
    BY DEF CollectorTypeOK
  <2> QED BY <2>1
<1>2. IsFiniteSet(Symbol) /\ Cardinality(Symbol) = Len(Symbols)
  <2> DEFINE n == Len(Symbols)
  <2>1. n \in Nat /\ DOMAIN Symbols = 1 .. n /\ Symbols \in [1 .. n -> Symbol]
    BY SymbolAssumption DEF Symbol
  <2>2. \A i, j \in 1 .. n : Symbols[i] = Symbols[j] => i = j
    BY <2>1, SymbolAssumption DEF IsInjective
  <2>3. \A s \in Symbol : \E i \in 1 .. n : Symbols[i] = s
    BY <2>1 DEF Symbol, Range
  <2> HIDE DEF n
  <2>4. Symbols \in Bijection(1 .. n, Symbol)
    BY <2>1, <2>2, <2>3 DEF Bijection, Injection, Surjection, IsInjective
  <2>5. IsFiniteSet(1 .. n) /\ Cardinality(1 .. n) = n
    BY <2>1, FS_Interval
  <2>6. IsFiniteSet(Symbol) /\ Cardinality(Symbol) = Cardinality(1 .. n)
    BY <2>4, <2>5, FS_Bijection DEF ExistsBijection
  <2> QED BY <2>5, <2>6 DEF n
<1>3. IsFiniteSet(1 .. closed) /\ Cardinality(1 .. closed) = closed
  <2>1. closed \in Nat
    BY <1>1
  <2> QED BY ONLY <2>1, FS_Interval
<1> DEFINE T == Symbol \X (1 .. closed)
           n == Len(gate)
           f == [i \in 1 .. n |-> <<gate[i].symbol, gate[i].bar>>]
<1>4. IsFiniteSet(T) /\ Cardinality(T) = Len(Symbols) * closed
  BY <1>2, <1>3, FS_Product
<1>5. \A i \in 1 .. n : gate[i].symbol \in Symbol /\ gate[i].bar \in 1 .. closed
  <2> SUFFICES ASSUME NEW i \in 1 .. n PROVE gate[i].symbol \in Symbol /\ gate[i].bar \in 1 .. closed
    OBVIOUS
  <2>1. gate[i] \in BarKey
    BY <1>1
  <2>2. gate[i].symbol \in Symbol /\ gate[i].bar \in Nat \ {0}
    BY <2>1 DEF BarKey
  <2>3. gate[i].bar <= closed
    BY <1>1 DEF ClosedInv
  <2> QED BY <1>1, <2>2, <2>3
<1>6. \A i, j \in 1 .. n : f[i] = f[j] => i = j
  <2> SUFFICES ASSUME NEW i \in 1 .. n, NEW j \in 1 .. n, f[i] = f[j] PROVE i = j
    OBVIOUS
  <2>1. gate[i].symbol = gate[j].symbol /\ gate[i].bar = gate[j].bar
    OBVIOUS
  <2>2. gate[i] = [symbol |-> gate[i].symbol, bar |-> gate[i].bar]
        /\ gate[j] = [symbol |-> gate[j].symbol, bar |-> gate[j].bar]
    BY <1>1 DEF BarKey
  <2>3. gate[i] = gate[j]
    BY <2>1, <2>2
  <2> QED BY <1>1, <2>3 DEF ClosedInv, IsInjective
<1>7. f \in [1 .. n -> T]
  BY <1>5
<1> HIDE DEF f, T
<1>8. f \in Injection(1 .. n, T)
  BY <1>6, <1>7 DEF Injection, IsInjective
<1>9. Cardinality(1 .. n) <= Cardinality(T)
  BY <1>4, <1>8, FS_Injection
<1>10. Cardinality(1 .. n) = n
  BY <1>1, FS_Interval
<1> QED BY <1>4, <1>9, <1>10

\* recent_final_capacity: the gate has room for one more key while fewer bars
\* have closed than it remembers keys.
THEOREM RoomLasts == CollectorSpec => [](Len(Symbols) * closed < Capacity => Room)
<1>1. CollectorTypeOK /\ CollectorInv => (Len(Symbols) * closed < Capacity => Room)
  <2> SUFFICES ASSUME CollectorTypeOK, CollectorInv, Len(Symbols) * closed < Capacity PROVE Room
    OBVIOUS
  <2>1. Len(gate) <= Len(Symbols) * closed
    BY GateSize DEF CollectorInv
  <2>2. Len(gate) \in Nat /\ Len(Symbols) \in Nat /\ closed \in Nat /\ Capacity \in Nat
    BY SymbolFacts, SizeAssumption DEF CollectorTypeOK
  <2>3. Len(Symbols) * closed \in Nat
    BY <2>2
  <2> QED BY <2>1, <2>2, <2>3 DEF Room
<1> QED BY <1>1, CollectorTypes, CollectorInvariant, PTL

-----------------------------------------------------------------------------
(* The alerts                                                               *)

USE AlertsAssumption, RefusalsAssumption

-----------------------------------------------------------------------------
(***************************************************************************)
(* Types.                                                                  *)
(***************************************************************************)
Memory == [outage : None .. Grace, spoken : BOOLEAN, stale : BOOLEAN]

\* The memory of a new trader.
LEMMA NewMemory ==
    /\ Calm \in Memory /\ [Calm EXCEPT !.outage = 0] \in Memory
    /\ [k \in Key |-> Cooldown] \in [Key -> 0 .. Cooldown]
<1>1. Calm \in Memory
  BY DEF Calm, Memory, None
<1>2. [Calm EXCEPT !.outage = 0] \in Memory
  <2>1. 0 \in None .. Grace
    BY DEF None
  <2> QED BY <1>1, <2>1 DEF Memory
<1>3. Cooldown \in 0 .. Cooldown
  OBVIOUS
<1> QED BY <1>1, <1>2, <1>3

LEMMA InitTypes == Init => TypeOK
<1> SUFFICES ASSUME Init PROVE TypeOK
  OBVIOUS
<1>1. memory \in Memory /\ sent \in [Key -> 0 .. Cooldown]
  BY NewMemory DEF Init
<1> QED BY <1>1 DEF Init, TypeOK, Memory

LEMMA AssessedTypes ==
    ASSUME TypeOK, NEW mkt, NEW lost, Assessed(mkt, lost)
    PROVE  active' \in BOOLEAN /\ memory' \in Memory /\ sent' \in [Key -> 0 .. Cooldown]
<1>1. memory \in Memory /\ Calm \in Memory
  BY DEF TypeOK, Memory, Calm, None
<1>2. memory' \in Memory
  <2>1. CASE Ready(mkt)
    BY <1>1, <2>1 DEF Assessed, Tracked
  <2>2. CASE ~Ready(mkt)
    <3>1. memory' = Longer(mkt)
      BY <2>2 DEF Assessed, Tracked
    <3>2. (memory.spoken \/ OutageDue(mkt)) \in BOOLEAN
          /\ (Reason(mkt) = "market_data_stale") \in BOOLEAN
      OBVIOUS
    <3>3. (IF memory.outage = None THEN 0 ELSE memory.outage) \in None .. Grace
      BY <1>1 DEF Memory, None
    <3> QED BY <3>1, <3>2, <3>3 DEF Longer, Memory
  <2> QED BY <2>1, <2>2
<1>3. sent' \in [Key -> 0 .. Cooldown]
  BY DEF Assessed, Noted, TypeOK
<1>4. active' \in BOOLEAN
  BY DEF Assessed, TypeOK
<1> QED BY <1>2, <1>3, <1>4

LEMMA NoticedTypes ==
    ASSUME TypeOK, NEW lost, Noticed(lost)
    PROVE  seen' \in Control /\ told' \in {"nothing", "entered", "inherited", "missed"}
BY DEF Noticed, TypeOK

\* What an announcement of a failed turn leaves has its types.
LEMMA AnnouncedTypes ==
    ASSUME NEW h \in BOOLEAN, NEW m \in BOOLEAN, Announced(h, m)
    PROVE  {ready', beating', heard', muted'} \subseteq BOOLEAN
BY DEF Announced

LEMMA HistoryTypes ==
    ASSUME NEW mkt, NEW lost
    PROVE  HeardAfter(mkt, lost) \in BOOLEAN /\ MutedAfter(mkt, lost) \in BOOLEAN /\ Ready(mkt) \in BOOLEAN
BY DEF HeardAfter, MutedAfter, Ready

LEMMA NextTypes == TypeOK /\ [Next]_vars => TypeOK'
<1> SUFFICES ASSUME TypeOK, [Next]_vars PROVE TypeOK'
  OBVIOUS
<1>1. ASSUME NEW mkt \in {"fresh", "stale", "stateless"}, NEW lost \in Losses(mkt), ObserveBar(mkt, lost)
      PROVE  TypeOK'
  <2>1. Noticed(lost) /\ Assessed(mkt, lost)
    BY <1>1 DEF ObserveBar, Refreshed
  <2>2. {ready', heard', muted'} \subseteq BOOLEAN
    BY <1>1, HistoryTypes DEF ObserveBar, Refreshed
  <2> QED BY <1>1, <2>1, <2>2, AssessedTypes, NoticedTypes DEF ObserveBar, TypeOK, Memory
<1>2. ASSUME NEW lost \in Losses(market), Heartbeat(lost)
      PROVE  TypeOK'
  <2>1. Noticed(lost) /\ Assessed(market, lost)
    BY <1>2 DEF Heartbeat, Refreshed
  <2>2. {ready', heard', muted'} \subseteq BOOLEAN
    BY <1>2, HistoryTypes DEF Heartbeat, Refreshed
  <2> QED BY <1>2, <2>1, <2>2, AssessedTypes, NoticedTypes DEF Heartbeat, TypeOK, Memory, outside
<1>3. ASSUME NEW lost \in Losses(market), ReportFails(lost)
      PROVE  TypeOK'
  <2>1. {ready', beating', heard', muted'} \subseteq BOOLEAN
    BY <1>3, HistoryTypes, AnnouncedTypes DEF ReportFails
  <2> QED BY <1>3, <2>1, AssessedTypes, NoticedTypes DEF ReportFails, TypeOK, Memory, outside
<1>4. ASSUME NEW lost \in SUBSET {"protection"}, HeartbeatFails(lost)
      PROVE  TypeOK'
  <2>1. {ready', beating', heard', muted'} \subseteq BOOLEAN
    BY <1>4, AnnouncedTypes DEF HeartbeatFails, TypeOK
  <2>2. seen' \in Control /\ told' \in {"nothing", "entered", "inherited", "missed"}
    BY <1>4, NoticedTypes DEF HeartbeatFails, TypeOK
  <2> QED BY <1>4, <2>1, <2>2 DEF HeartbeatFails, TypeOK, outside
<1>5. ASSUME NEW lost \in Losses(market), ProtectionEngaged(lost)
      PROVE  TypeOK'
  <2>1. {ready', heard', muted'} \subseteq BOOLEAN
    BY <1>5, HistoryTypes DEF ProtectionEngaged
  <2>2. told' \in {"nothing", "entered", "inherited", "missed"}
    BY <1>5 DEF ProtectionEngaged, TypeOK
  <2> QED BY <1>5, <2>1, <2>2, AssessedTypes DEF ProtectionEngaged, TypeOK, Memory
<1>6. CASE \E c \in Control : ControlSet(c)
  BY <1>6 DEF ControlSet, TypeOK, history
<1>7. CASE Start
  <2>1. memory' \in Memory /\ sent' \in [Key -> 0 .. Cooldown]
    BY <1>7, NewMemory DEF Start
  <2> QED BY <1>7, <2>1 DEF Start, TypeOK, Memory
<1>8. CASE StopBegins
  BY <1>8 DEF StopBegins, TypeOK, outside, history
<1>9. CASE Ends
  <2>1. memory' \in Memory /\ sent' \in [Key -> 0 .. Cooldown]
    BY <1>9, NewMemory DEF Ends
  <2> QED BY <1>9, <2>1 DEF Ends, TypeOK, Memory
<1>10. CASE LeaseLost \/ BarAges
  BY <1>10 DEF LeaseLost, BarAges, TypeOK, history
<1>11. CASE Tick
  <2>1. \A last \in Nat : \A age \in 0 .. last : Older(age, last) \in 0 .. last
    BY DEF Older
  <2>2. sent' \in [Key -> 0 .. Cooldown]
    BY <1>11, <2>1 DEF Tick, TypeOK
  <2>3. memory' \in Memory
    BY <1>11, <2>1 DEF Tick, TypeOK, Memory, None
  <2> QED BY <1>11, <2>2, <2>3 DEF Tick, TypeOK, Memory, outside, history
<1>12. CASE UNCHANGED vars
  BY <1>12 DEF vars, TypeOK, history
<1> QED BY <1>1, <1>2, <1>3, <1>4, <1>5, <1>6, <1>7, <1>8, <1>9, <1>10, <1>11, <1>12 DEF Next, Beat

\* The variables of the trader, its router and the world keep their types.
THEOREM TypeCorrect == Spec => []TypeOK
<1>1. Init => TypeOK
  BY InitTypes
<1>2. TypeOK /\ [Next]_vars => TypeOK'
  BY NextTypes
<1> QED BY <1>1, <1>2, PTL DEF Spec

-----------------------------------------------------------------------------
(***************************************************************************)
(* What an operator was told.                                              *)
(***************************************************************************)
\* A refresh that speaks of the outage is heard or remembered as held back.
LEMMA SpokenIsRecorded ==
    ASSUME OutageTold, NEW mkt, NEW lost, Tracked(mkt).spoken
    PROVE  HeardAfter(mkt, lost) \/ MutedAfter(mkt, lost)
<1>1. ~Ready(mkt)
  BY DEF Tracked, Calm
<1>2. memory.spoken \/ OutageDue(mkt)
  BY <1>1 DEF Tracked, Longer
<1> QED BY <1>1, <1>2 DEF OutageTold, HeardAfter, MutedAfter

LEMMA OutageStep == OutageTold /\ [Next]_vars => OutageTold'
<1> SUFFICES ASSUME OutageTold, [Next]_vars PROVE OutageTold'
  OBVIOUS
<1>1. ASSUME NEW mkt, NEW lost, Assessed(mkt, lost), heard' = HeardAfter(mkt, lost), muted' = MutedAfter(mkt, lost)
      PROVE  OutageTold'
  BY <1>1, SpokenIsRecorded DEF Assessed, OutageTold
<1>2. ASSUME NEW h, NEW m, Announced(h, m)
      PROVE  OutageTold'
  BY <1>2 DEF Announced, OutageTold
<1>3. CASE \E mkt \in {"fresh", "stale", "stateless"} : \E lost \in Losses(mkt) : ObserveBar(mkt, lost)
  BY <1>1, <1>3 DEF ObserveBar, Refreshed
<1>4. CASE Beat
  BY <1>1, <1>2, <1>4 DEF Beat, Heartbeat, Refreshed, HeartbeatFails, ReportFails
<1>5. CASE \E lost \in Losses(market) : ProtectionEngaged(lost)
  BY <1>1, <1>5 DEF ProtectionEngaged
<1>6. CASE (\E c \in Control : ControlSet(c)) \/ StopBegins \/ LeaseLost \/ BarAges
  BY <1>6 DEF ControlSet, StopBegins, LeaseLost, BarAges, OutageTold, history
<1>7. CASE Start \/ Ends
  BY <1>7 DEF Start, Ends, Calm, OutageTold
<1>8. CASE Tick
  BY <1>8 DEF Tick, OutageTold, history
<1>9. CASE UNCHANGED vars
  BY <1>9 DEF vars, OutageTold, history
<1> QED BY <1>3, <1>4, <1>5, <1>6, <1>7, <1>8, <1>9 DEF Next

\* Whoever has spoken of an outage was heard in it, or the cooldown or the
\* sinks swallowed what it said (_track_runtime_safety), for every time of
\* grace and cooldown.
THEOREM OutageToldHolds == Spec => []OutageTold
<1>1. Init => OutageTold
  BY DEF Init, OutageTold, Calm
<1>2. OutageTold /\ [Next]_vars => OutageTold'
  BY OutageStep
<1> QED BY <1>1, <1>2, PTL DEF Spec

LEMMA NoticedTold ==
    ASSUME Up, ProtectionTold, NEW lost, Noticed(lost)
    PROVE  seen' = "protection_mode" => told' # "nothing"
<1> SUFFICES ASSUME control = "protection_mode" PROVE told' # "nothing"
  BY DEF Noticed
<1>1. CASE seen = "protection_mode"
  BY <1>1 DEF Noticed, ProtectionTold
<1>2. CASE seen # "protection_mode"
  BY <1>2 DEF Noticed
<1> QED BY <1>1, <1>2

LEMMA ProtectionStep == ProtectionTold /\ [Next]_vars => ProtectionTold'
<1> SUFFICES ASSUME ProtectionTold, [Next]_vars PROVE ProtectionTold'
  OBVIOUS
<1>1. CASE \E mkt \in {"fresh", "stale", "stateless"} : \E lost \in Losses(mkt) : ObserveBar(mkt, lost)
  BY <1>1, NoticedTold DEF ObserveBar, Refreshed, ProtectionTold
<1>2. CASE Beat
  BY <1>2, NoticedTold DEF Beat, Heartbeat, Refreshed, HeartbeatFails, ReportFails, ProtectionTold, Up
<1>3. CASE \E lost \in Losses(market) : ProtectionEngaged(lost)
  <2> PICK lost \in Losses(market) : ProtectionEngaged(lost)
    BY <1>3
  <2>1. CASE "protection" \notin lost
    BY <2>1 DEF ProtectionEngaged, ProtectionTold
  <2>2. CASE "protection" \in lost /\ seen # "protection_mode"
    BY <2>2 DEF ProtectionEngaged, ProtectionTold
  <2>3. CASE "protection" \in lost /\ seen = "protection_mode"
    BY <2>3 DEF ProtectionEngaged, ProtectionTold
  <2> QED BY <2>1, <2>2, <2>3
<1>4. CASE (\E c \in Control : ControlSet(c)) \/ StopBegins \/ LeaseLost \/ BarAges \/ Tick
  BY <1>4 DEF ControlSet, StopBegins, LeaseLost, BarAges, Tick, ProtectionTold, Up, history, outside
<1>5. CASE Start
  BY <1>5 DEF Start, ProtectionTold
<1>6. CASE Ends
  BY <1>6 DEF Ends, ProtectionTold, Up
<1>7. CASE UNCHANGED vars
  BY <1>7 DEF vars, ProtectionTold, Up, history
<1> QED BY <1>1, <1>2, <1>3, <1>4, <1>5, <1>6, <1>7 DEF Next

\* A trader that acts under the protection mode has announced it, unless a sink
\* failed or the mode was set when it started (refresh, start).
THEOREM ProtectionToldHolds == Spec => []ProtectionTold
<1>1. Init => ProtectionTold
  BY DEF Init, ProtectionTold, Up
<1>2. ProtectionTold /\ [Next]_vars => ProtectionTold'
  BY ProtectionStep
<1> QED BY <1>1, <1>2, PTL DEF Spec

\* Whatever refusals follow one another, however many: an alert of them says that
\* they repeat, and those that do are told of within a cooldown
\* (count_occurrence, _persist_risk_rejection, dispatch).
THEOREM RefusalsToldHolds == Spec => []RefusalsTold
<1>1. RefusalsTold
  BY HistoriesAreTold DEF RefusalsTold
<1> QED BY <1>1, PTL
=============================================================================
