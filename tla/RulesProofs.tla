---------------------------- MODULE RulesProofs ----------------------------
(***************************************************************************)
(* Lemmas about the rules that the account and the backtest share: the     *)
(* sizing plan, for every symbol rule, the fees and the replay of the      *)
(* ledger; what the sums and folds of the community modules compute, by    *)
(* induction; and which refusals of the gate an operator is told of.       *)
(***************************************************************************)
EXTENDS Sizing, Ledger, Research, Refusals, Ratios, FiniteSetTheorems, SequenceTheorems, TLAPS

-----------------------------------------------------------------------------
(* Whole steps *)

LEMMA DivMod ==
    ASSUME NEW n \in Nat, NEW d \in Nat \ {0}
    PROVE  /\ n \div d \in Nat
           /\ n % d \in 0 .. d - 1
           /\ n = d * (n \div d) + (n % d)
  OBVIOUS

LEMMA Multiple ==
    ASSUME NEW k \in Nat, NEW d \in Nat \ {0}
    PROVE  (k * d) % d = 0
  OBVIOUS

\* Multiples are those that have a factor.
LEMMA Factor ==
    ASSUME NEW n \in Nat, NEW d \in Nat \ {0}, n % d = 0
    PROVE  \E k \in Nat : n = k * d
<1>1. n = d * (n \div d) + (n % d) /\ n \div d \in Nat
  BY DivMod
<1>2. n = (n \div d) * d
  BY <1>1
<1> QED
  BY <1>1, <1>2

LEMMA SumOfMultiples ==
    ASSUME NEW m \in Nat, NEW n \in Nat, NEW d \in Nat \ {0}, m % d = 0, n % d = 0
    PROVE  (m + n) % d = 0
<1>1. PICK j \in Nat : m = j * d
  BY Factor
<1>2. PICK k \in Nat : n = k * d
  BY Factor
<1>3. m + n = (j + k) * d
  BY <1>1, <1>2
<1>4. j + k \in Nat
  OBVIOUS
<1> QED
  BY <1>3, <1>4, Multiple

LEMMA DifferenceOfMultiples ==
    ASSUME NEW m \in Nat, NEW n \in Nat, NEW d \in Nat \ {0}, m % d = 0, n % d = 0, n <= m
    PROVE  (m - n) % d = 0
<1>1. PICK j \in Nat : m = j * d
  BY Factor
<1>2. PICK k \in Nat : n = k * d
  BY Factor
<1>3. m - n = (j - k) * d
  BY <1>1, <1>2
<1>4. j - k \in Nat
  BY <1>1, <1>2
<1> QED
  BY <1>3, <1>4, Multiple

\* FloorToStep is the largest multiple of the step below.
LEMMA FloorFacts ==
    ASSUME NEW n \in Nat
    PROVE  /\ FloorToStep(n) \in Nat
           /\ FloorToStep(n) <= n
           /\ n - FloorToStep(n) < QtyStep
           /\ FloorToStep(n) % QtyStep = 0
           /\ \A m \in Nat : m <= n /\ m % QtyStep = 0 => m <= FloorToStep(n)
<1> DEFINE q == n \div QtyStep
<1>1. QtyStep \in Nat \ {0}
  BY RuleAssumption
<1>2. q \in Nat /\ n % QtyStep \in 0 .. QtyStep - 1 /\ n = QtyStep * q + (n % QtyStep)
  BY <1>1, DivMod
<1>3. FloorToStep(n) = q * QtyStep
  BY DEF FloorToStep
<1> HIDE DEF q
<1>4. FloorToStep(n) \in Nat /\ FloorToStep(n) <= n /\ n - FloorToStep(n) < QtyStep
  BY <1>1, <1>2, <1>3
<1>5. FloorToStep(n) % QtyStep = 0
  BY <1>1, <1>2, <1>3, Multiple
<1>6. ASSUME NEW m \in Nat, m <= n, m % QtyStep = 0
      PROVE  m <= FloorToStep(n)
  <2>1. PICK k \in Nat : m = k * QtyStep
    BY <1>1, <1>6, Factor
  <2>2. CASE k <= q
    BY <1>1, <1>2, <1>3, <2>1, <2>2
  <2>3. CASE k >= q + 1
    <3>1. k * QtyStep >= (q + 1) * QtyStep
      BY <1>1, <1>2, <2>3
    <3>2. (q + 1) * QtyStep = QtyStep * q + QtyStep
      BY <1>1, <1>2
    <3> QED
      BY <1>1, <1>2, <1>6, <2>1, <3>1, <3>2
  <2> QED
    BY <1>2, <2>2, <2>3
<1> QED
  BY <1>4, <1>5, <1>6

\* The minimum order is at least one step.
LEMMA StepBelowMinimum == QtyStep <= MinQty
<1>1. PICK k \in Nat : MinQty = k * QtyStep
  BY RuleAssumption, Factor
<1>2. k >= 1
  BY <1>1, RuleAssumption
<1> QED
  BY <1>1, <1>2, RuleAssumption

-----------------------------------------------------------------------------
(* The sizing plan *)

\* What WholeSteps makes of n shares: nothing, or the largest order.
LEMMA WholeStepsFacts ==
    ASSUME NEW n \in Nat
    PROVE  /\ WholeSteps(n) \in Nat
           /\ WholeSteps(n) <= n
           /\ WholeSteps(n) % QtyStep = 0
           /\ WholeSteps(n) > 0 => WholeSteps(n) >= MinQty /\ n - WholeSteps(n) < QtyStep
           /\ \A m \in Nat : m <= n /\ m >= MinQty /\ m % QtyStep = 0 => m <= WholeSteps(n)
<1>1. /\ FloorToStep(n) \in Nat
      /\ FloorToStep(n) <= n
      /\ n - FloorToStep(n) < QtyStep
      /\ FloorToStep(n) % QtyStep = 0
      /\ \A m \in Nat : m <= n /\ m % QtyStep = 0 => m <= FloorToStep(n)
  BY FloorFacts
<1>2. 0 % QtyStep = 0 /\ QtyStep \in Nat \ {0} /\ MinQty \in Nat \ {0}
  BY RuleAssumption
<1>3. CASE FloorToStep(n) < MinQty
  <2>1. WholeSteps(n) = 0
    BY <1>3 DEF WholeSteps
  <2>2. ASSUME NEW m \in Nat, m <= n, m >= MinQty, m % QtyStep = 0
        PROVE  FALSE
    <3>1. m <= FloorToStep(n)
      BY <1>1, <2>2, Zenon
    <3> QED
      BY <1>1, <1>2, <1>3, <2>2, <3>1
  <2>3. \A m \in Nat : m <= n /\ m >= MinQty /\ m % QtyStep = 0 => m <= WholeSteps(n)
    BY <2>2
  <2>4. WholeSteps(n) \in Nat /\ WholeSteps(n) <= n /\ ~(WholeSteps(n) > 0)
    BY <2>1
  <2>5. WholeSteps(n) % QtyStep = 0
    BY <1>2, <2>1
  <2> QED
    BY <2>3, <2>4, <2>5
<1>4. CASE FloorToStep(n) >= MinQty
  <2>1. WholeSteps(n) = FloorToStep(n)
    BY <1>1, <1>2, <1>4 DEF WholeSteps
  <2> QED
    BY <1>1, <1>4, <2>1
<1> QED
  BY <1>1, <1>2, <1>3, <1>4

\* Less than a step is no order.
LEMMA NoOrderBelowStep ==
    ASSUME NEW n \in Nat, n < QtyStep
    PROVE  WholeSteps(n) = 0
<1>1. FloorToStep(n) \in Nat /\ FloorToStep(n) <= n
  BY FloorFacts
<1> QED
  BY <1>1, StepBelowMinimum, RuleAssumption DEF WholeSteps

LEMMA DesiredFacts ==
    ASSUME NEW qty \in Nat, NEW sellable \in Nat, NEW target \in Nat, target <= qty
    PROVE  /\ DesiredSell(qty, sellable, target) \in Nat
           /\ DesiredSell(qty, sellable, target) <= sellable
           /\ DesiredSell(qty, sellable, target) <= qty - target
           /\ \A m \in Nat : m <= sellable /\ m <= qty - target =>
                m <= DesiredSell(qty, sellable, target)
  BY DEF DesiredSell

\* A plan moves towards its target, not beyond, on the grid, and sells no
\* more than may be sold.
LEMMA PlanFacts ==
    ASSUME NEW qty, NEW sellable, OnGrid(qty, sellable), NEW target \in Nat,
           NEW plan, plan = Plan(qty, sellable, target)
    PROVE  /\ plan.qty \in Nat /\ plan.qty % QtyStep = 0
           /\ plan.side \in {"buy", "sell"}
           /\ plan.side = "buy" => qty + plan.qty <= target /\ target > qty
           /\ plan.side = "sell" =>
                plan.qty <= sellable /\ plan.qty <= qty - target /\ target <= qty
<1>1. CASE target > qty
  <2>1. target - qty \in Nat
    BY <1>1 DEF OnGrid
  <2>2. plan.side = "buy" /\ plan.qty = WholeSteps(target - qty)
    BY <1>1 DEF Plan
  <2> QED
    BY <1>1, <2>1, <2>2, WholeStepsFacts DEF OnGrid
<1>2. CASE target <= qty
  <2> DEFINE d == DesiredSell(qty, sellable, target)
  <2>1. d \in Nat /\ d <= sellable /\ d <= qty - target
    BY <1>2, DesiredFacts DEF OnGrid
  <2>2. /\ plan.side = "sell"
        /\ plan.qty = IF OddLotSell(qty, sellable, target) THEN sellable ELSE WholeSteps(d)
    BY <1>2 DEF Plan, OnGrid
  <2>3. CASE OddLotSell(qty, sellable, target)
    BY <1>2, <2>1, <2>2, <2>3 DEF OddLotSell, OnGrid
  <2>4. CASE ~OddLotSell(qty, sellable, target)
    <3>1. plan.qty = WholeSteps(d)
      BY <2>2, <2>4
    <3> HIDE DEF d
    <3>2. WholeSteps(d) \in Nat /\ WholeSteps(d) <= d /\ WholeSteps(d) % QtyStep = 0
      BY <2>1, WholeStepsFacts
    <3> QED
      BY <1>2, <2>1, <2>2, <3>1, <3>2 DEF OnGrid
  <2> QED
    BY <2>3, <2>4
<1> QED
  BY <1>1, <1>2 DEF OnGrid

\* Max picks the greatest element.
LEMMA MaxIs ==
    ASSUME NEW S \in SUBSET Nat, NEW m \in S, \A n \in S : n <= m
    PROVE  Max(S) = m
<1>1. m >= m /\ \A n \in S : m >= n
  OBVIOUS
<1>2. Max(S) \in S /\ \A n \in S : Max(S) >= n
  BY <1>1 DEF Max
<1>3. Max(S) \in Nat /\ m \in Nat
  BY <1>2
<1>4. Max(S) >= m /\ Max(S) <= m
  BY <1>2
<1> QED
  BY <1>3, <1>4

\* The plan trades the largest of the quantities that may be traded.
LEMMA PlanTradesTheLargest ==
    ASSUME NEW qty, NEW sellable, OnGrid(qty, sellable), NEW target \in Nat
    PROVE  LargestTradable(qty, sellable, target)
<1> DEFINE all == Tradable(qty, sellable, target)
           n == Plan(qty, sellable, target).qty
<1>1. n \in Nat /\ all \in SUBSET Nat /\ 0 \notin all
  <2>1. n \in Nat
    BY PlanFacts
  <2>2. \A m \in all : m \in Nat \ {0}
    BY DEF OnGrid, Tradable
  <2> QED
    BY <2>1, <2>2
<1>2. n > 0 => n \in all
  <2>1. CASE target > qty
    <3>1. target - qty \in Nat /\ n = WholeSteps(target - qty)
      BY <2>1 DEF Plan, OnGrid
    <3>2. all = {m \in 1 .. target - qty : m % QtyStep = 0 /\ m >= MinQty}
      BY <2>1 DEF Tradable
    <3> QED
      BY <1>1, <3>1, <3>2, WholeStepsFacts
  <2>2. CASE target <= qty
    <3> DEFINE d == DesiredSell(qty, sellable, target)
    <3>1. d \in Nat /\ d <= sellable /\ d <= qty - target
      BY <2>2, DesiredFacts DEF OnGrid
    <3>2. n = IF OddLotSell(qty, sellable, target) THEN sellable ELSE WholeSteps(d)
      BY <2>2 DEF Plan, OnGrid
    <3>3. all = {m \in 1 .. qty - target :
                    /\ m <= sellable
                    /\ \/ m % QtyStep = 0 /\ m >= MinQty
                       \/ AllowOddLotSell /\ m = sellable /\ sellable < LotSize}
      BY <2>2 DEF Tradable, OnGrid
    <3>4. CASE OddLotSell(qty, sellable, target)
      BY <1>1, <2>2, <3>1, <3>2, <3>3, <3>4 DEF OddLotSell, OnGrid
    <3>5. CASE ~OddLotSell(qty, sellable, target)
      <4>1. n = WholeSteps(d)
        BY <3>2, <3>5
      <4> HIDE DEF d, n, all
      <4>2. /\ WholeSteps(d) <= d /\ WholeSteps(d) % QtyStep = 0
            /\ WholeSteps(d) > 0 => WholeSteps(d) >= MinQty
        BY <3>1, WholeStepsFacts
      <4> QED
        BY <1>1, <2>2, <3>1, <3>3, <4>1, <4>2 DEF OnGrid
    <3> QED
      BY <3>4, <3>5
  <2> QED
    BY <2>1, <2>2 DEF OnGrid
<1>3. \A m \in all : m <= n
  <2>1. CASE target > qty
    <3>1. target - qty \in Nat /\ n = WholeSteps(target - qty)
      BY <2>1 DEF Plan, OnGrid
    <3>2. all = {m \in 1 .. target - qty : m % QtyStep = 0 /\ m >= MinQty}
      BY <2>1 DEF Tradable
    <3> QED
      BY <1>1, <3>1, <3>2, WholeStepsFacts
  <2>2. CASE target <= qty
    <3> DEFINE d == DesiredSell(qty, sellable, target)
    <3>1. /\ d \in Nat
          /\ \A m \in Nat : m <= sellable /\ m <= qty - target => m <= d
      BY <2>2, DesiredFacts DEF OnGrid
    <3>2. n = IF OddLotSell(qty, sellable, target) THEN sellable ELSE WholeSteps(d)
      BY <2>2 DEF Plan, OnGrid
    <3>3. all = {m \in 1 .. qty - target :
                    /\ m <= sellable
                    /\ \/ m % QtyStep = 0 /\ m >= MinQty
                       \/ AllowOddLotSell /\ m = sellable /\ sellable < LotSize}
      BY <2>2 DEF Tradable, OnGrid
    <3>4. CASE OddLotSell(qty, sellable, target)
      BY <3>2, <3>3, <3>4
    <3>5. CASE ~OddLotSell(qty, sellable, target)
      <4>1. n = WholeSteps(d)
        BY <3>2, <3>5
      <4>2. \A m \in all : m \in Nat /\ m <= d
        BY <2>2, <3>1, <3>3 DEF OnGrid
      <4>3. \A m \in all : m % QtyStep = 0 /\ m >= MinQty
        <5>1. SUFFICES ASSUME NEW m \in all, AllowOddLotSell, m = sellable, sellable < LotSize
                       PROVE  FALSE
          BY <3>3
        <5>2. 0 < sellable /\ sellable <= d
          BY <3>3, <4>2, <5>1
        <5> QED
          BY <3>5, <5>1, <5>2 DEF OddLotSell
      <4> HIDE DEF d, n, all
      <4>4. \A m \in Nat : m <= d /\ m >= MinQty /\ m % QtyStep = 0 => m <= WholeSteps(d)
        BY <3>1, WholeStepsFacts
      <4> QED
        BY <4>1, <4>2, <4>3, <4>4
    <3> QED
      BY <3>4, <3>5
  <2> QED
    BY <2>1, <2>2 DEF OnGrid
<1> HIDE DEF all, n
<1>4. CASE n = 0
  <2>1. all = {}
    BY <1>1, <1>3, <1>4
  <2> QED
    BY <1>4, <2>1 DEF LargestTradable, all, n
<1>5. CASE n > 0
  <2>1. n \in all
    BY <1>2, <1>5
  <2>2. Max(all) = n
    BY <1>1, <1>3, <2>1, MaxIs
  <2> QED
    BY <2>1, <2>2 DEF LargestTradable, all, n
<1> QED
  BY <1>1, <1>4, <1>5

\* After the order was filled the same target asks for nothing more.
LEMMA PlanSettlesOnGrid ==
    ASSUME NEW qty, NEW sellable, OnGrid(qty, sellable), NEW target \in Nat,
           NEW plan, plan = Plan(qty, sellable, target)
    PROVE  IF plan.side = "buy" THEN Plan(qty + plan.qty, sellable, target).qty = 0
           ELSE Plan(qty - plan.qty, sellable - plan.qty, target).qty = 0
<1>1. /\ plan.qty \in Nat /\ plan.qty % QtyStep = 0
      /\ plan.side \in {"buy", "sell"}
      /\ plan.side = "buy" => qty + plan.qty <= target /\ target > qty
      /\ plan.side = "sell" =>
            plan.qty <= sellable /\ plan.qty <= qty - target /\ target <= qty
  BY PlanFacts
<1>2. QtyStep \in Nat \ {0}
  BY RuleAssumption
<1>3. CASE plan.side = "buy"
  <2> DEFINE d == target - qty
             rest == d - WholeSteps(d)
  <2>1. target > qty /\ plan.qty = WholeSteps(d) /\ d \in Nat
    BY <1>1, <1>3 DEF Plan, OnGrid
  <2>2. target - (qty + plan.qty) = rest
    BY <1>1, <2>1 DEF OnGrid
  <2>3. WholeSteps(d) \in Nat /\ WholeSteps(d) <= d
    BY <2>1, WholeStepsFacts
  <2>4. WholeSteps(rest) = 0
    <3>1. CASE WholeSteps(d) = 0
      BY <2>1, <3>1
    <3>2. CASE WholeSteps(d) > 0
      BY <2>1, <2>3, <3>2, WholeStepsFacts, NoOrderBelowStep
    <3> QED
      BY <2>3, <3>1, <3>2
  <2>5. CASE target > qty + plan.qty
    <3>1. Plan(qty + plan.qty, sellable, target).qty = WholeSteps(target - (qty + plan.qty))
      BY <2>5 DEF Plan
    <3>2. WholeSteps(target - (qty + plan.qty)) = 0
      BY <2>2, <2>4
    <3> QED
      BY <1>3, <3>1, <3>2
  <2>6. CASE target = qty + plan.qty
    <3>1. DesiredSell(qty + plan.qty, sellable, target) = 0
      BY <2>6, <1>1 DEF DesiredSell, OnGrid
    <3>2. ~OddLotSell(qty + plan.qty, sellable, target)
      BY <3>1 DEF OddLotSell, OnGrid
    <3>3. WholeSteps(0) = 0
      BY <1>2, NoOrderBelowStep
    <3> QED
      BY <1>1, <1>3, <2>6, <3>1, <3>2, <3>3 DEF Plan, OnGrid
  <2> QED
    BY <1>1, <1>3, <2>5, <2>6 DEF OnGrid
<1>4. CASE plan.side = "sell"
  <2> DEFINE d == DesiredSell(qty, sellable, target)
             q == qty - plan.qty
             c == sellable - plan.qty
             e == DesiredSell(q, c, target)
  <2>1. /\ d \in Nat /\ d <= sellable /\ d <= qty - target
        /\ d = sellable \/ d = qty - target
    BY <1>1, <1>4 DEF DesiredSell, OnGrid
  <2>2. plan.qty = IF OddLotSell(qty, sellable, target) THEN sellable ELSE WholeSteps(d)
    BY <1>1, <1>4 DEF Plan, OnGrid
  <2>3. plan.qty <= d
    <3>1. WholeSteps(d) <= d
      BY <2>1, WholeStepsFacts
    <3> QED
      BY <2>1, <2>2, <3>1 DEF OddLotSell, OnGrid
  <2>4. q \in Nat /\ c \in Nat /\ c <= q /\ target <= q
    BY <1>1, <1>4 DEF OnGrid
  <2>5. e = d - plan.qty /\ e \in Nat
    BY <1>1, <1>4, <2>1, <2>3 DEF DesiredSell, OnGrid
  <2>6. c % QtyStep = 0
    BY <1>1, <1>2, <1>4, DifferenceOfMultiples DEF OnGrid
  <2>7. ~OddLotSell(q, c, target) /\ WholeSteps(e) = 0
    <3>1. CASE OddLotSell(qty, sellable, target)
      <4>1. c = 0 /\ e = 0
        BY <2>1, <2>2, <2>5, <3>1 DEF OddLotSell, OnGrid
      <4> QED
        BY <1>2, <4>1, NoOrderBelowStep DEF OddLotSell
    <3>2. CASE ~OddLotSell(qty, sellable, target) /\ plan.qty = 0
      <4>1. q = qty /\ c = sellable /\ e = d
        BY <2>5, <3>2, <2>1 DEF OnGrid
      <4> QED
        BY <2>2, <3>2, <4>1
    <3>3. CASE ~OddLotSell(qty, sellable, target) /\ plan.qty > 0
      <4>1. plan.qty = WholeSteps(d)
        BY <2>2, <3>3
      <4>2. e < QtyStep
        BY <2>1, <2>5, <3>3, <4>1, WholeStepsFacts
      <4>3. ~(0 < c /\ c <= e)
        <5>1. SUFFICES ASSUME 0 < c, c < QtyStep PROVE FALSE
          BY <1>2, <2>4, <2>5, <4>2
        <5>2. c % QtyStep = c
          BY <1>2, <2>4, <5>1
        <5> QED
          BY <2>6, <5>1, <5>2
      <4> QED
        BY <2>4, <2>5, <4>2, <4>3, NoOrderBelowStep DEF OddLotSell
    <3> QED
      BY <1>1, <3>1, <3>2, <3>3
  <2> HIDE DEF d, q, c, e
  <2>8. Plan(q, c, target).qty = 0
    BY <2>4, <2>7 DEF Plan, e
  <2> QED
    BY <1>4, <2>8 DEF q, c
<1> QED
  BY <1>1, <1>3, <1>4

-----------------------------------------------------------------------------
(* The ledger *)

\* A fee is its rate's part of the notional, but for the rounding.
FeeFair(n, r) == 1000 * Fee(n, r) <= n * r + 500
LEMMA FeeIsFair ==
    ASSUME NEW n \in Nat, NEW r \in Nat
    PROVE  Fee(n, r) \in Nat /\ FeeFair(n, r)
<1>1. n * r + 500 \in Nat
  OBVIOUS
<1>2. /\ (n * r + 500) \div 1000 \in Nat
      /\ n * r + 500 = 1000 * ((n * r + 500) \div 1000) + ((n * r + 500) % 1000)
      /\ (n * r + 500) % 1000 \in 0 .. 999
  BY <1>1, DivMod
<1> QED
  BY <1>1, <1>2 DEF Fee, FeeFair

\* Fees never eat up what a sale brings in.
LEMMA SalesPay ==
    ASSUME NEW fill, fill.qty * fill.price \in Nat, fill.side = "sell",
           fill.qty * fill.price >= 2
    PROVE  CashFlow(fill) \in Nat
<1> DEFINE n == fill.qty * fill.price
           a == Fee(n, CommissionRate)
           b == Fee(n, TransferRate)
           c == Fee(n, StampRate)
<1>1. n \in Nat /\ n >= 2
  OBVIOUS
<1>2. CashFlow(fill) = n - (a + b) - c
  BY DEF CashFlow
<1> HIDE DEF n
<1>3. /\ a \in Nat /\ 1000 * a <= n * CommissionRate + 500
      /\ b \in Nat /\ 1000 * b <= n * TransferRate + 500
      /\ c \in Nat /\ 1000 * c <= n * StampRate + 500
  <2>0. CommissionRate \in Nat /\ TransferRate \in Nat /\ StampRate \in Nat
    BY FeeAssumption
  <2>1. a \in Nat /\ FeeFair(n, CommissionRate)
    BY <1>1, <2>0, FeeIsFair
  <2>2. b \in Nat /\ FeeFair(n, TransferRate)
    BY <1>1, <2>0, FeeIsFair
  <2>3. c \in Nat /\ FeeFair(n, StampRate)
    BY <1>1, <2>0, FeeIsFair
  <2> QED
    BY <2>1, <2>2, <2>3 DEF FeeFair
<1> HIDE DEF a, b, c
<1>4. n * CommissionRate + n * TransferRate + n * StampRate <= n * 100
  <2>1. n * (CommissionRate + TransferRate + StampRate) <= n * 100
    BY <1>1, FeeAssumption
  <2>2. n * (CommissionRate + TransferRate + StampRate)
            = n * CommissionRate + n * TransferRate + n * StampRate
    BY <1>1, FeeAssumption
  <2>3. n * CommissionRate \in Nat /\ n * TransferRate \in Nat /\ n * StampRate \in Nat
    BY <1>1, FeeAssumption
  <2> QED
    BY <1>1, <2>1, <2>2, <2>3
<1>5. n * CommissionRate \in Nat /\ n * TransferRate \in Nat /\ n * StampRate \in Nat
  BY <1>1, FeeAssumption
<1>6. 1000 * (a + b + c) <= n * 100 + 1500
  BY <1>1, <1>3, <1>4, <1>5
<1>7. a + b + c <= n
  BY <1>1, <1>3, <1>6
<1> QED
  BY <1>1, <1>2, <1>3, <1>7

LEMMA FlowIsInt ==
    ASSUME NEW fill, fill.qty * fill.price \in Nat
    PROVE  CashFlow(fill) \in Int
<1> DEFINE n == fill.qty * fill.price
<1>1. n \in Nat
  OBVIOUS
<1>2. CashFlow(fill) = IF fill.side = "buy"
                       THEN -(n + (Fee(n, CommissionRate) + Fee(n, TransferRate)))
                       ELSE n - (Fee(n, CommissionRate) + Fee(n, TransferRate))
                              - Fee(n, StampRate)
  BY DEF CashFlow
<1> HIDE DEF n
<1>3. Fee(n, CommissionRate) \in Nat
  BY <1>1, FeeIsFair, FeeAssumption
<1>4. Fee(n, TransferRate) \in Nat
  BY <1>1, FeeIsFair, FeeAssumption
<1>5. Fee(n, StampRate) \in Nat
  BY <1>1, FeeIsFair, FeeAssumption
<1> QED
  BY <1>1, <1>2, <1>3, <1>4, <1>5

-----------------------------------------------------------------------------
(* The slices of the research reports *)

LEMMA FactorOrder ==
    ASSUME NEW a \in Int, NEW b \in Int, NEW d \in Nat \ {0}
    PROVE  a <= b <=> a * d <= b * d
<1>1. ASSUME NEW x \in Int, NEW y \in Int, x < y
      PROVE  x * d < y * d
  <2>1. y - x \in Nat \ {0}
    BY <1>1
  <2>2. (y - x) * d >= 1
    BY <2>1
  <2>3. (y - x) * d = y * d - x * d
    BY <1>1
  <2> QED
    BY <2>2, <2>3
<1>2. a * d \in Int /\ b * d \in Int
  OBVIOUS
<1>3. a < b => a * d < b * d
  BY <1>1
<1>4. b < a => b * d < a * d
  BY <1>1
<1>5. a = b => a * d = b * d
  OBVIOUS
<1> DEFINE ad == a * d
           bd == b * d
<1>6. /\ ad \in Int /\ bd \in Int
      /\ a < b => ad < bd
      /\ b < a => bd < ad
      /\ a = b => ad = bd
  BY <1>2, <1>3, <1>4, <1>5
<1> SUFFICES a <= b <=> ad <= bd
  OBVIOUS
<1> HIDE DEF ad, bd
<1> QED
  BY <1>6

\* Walk-forward windows whose step is at most their length leave no bar out
\* but the last ones, fewer than a step, and reach beyond no end:
\* _rolling_windows of apps/research/experiments.py.
THEOREM WindowsCover ==
    ASSUME NEW n \in Nat, NEW window \in Nat, NEW step \in Nat,
           Evaluated(n, window, step), step <= window,
           NEW windows, windows = Windows(n, window, step)
    PROVE  /\ \A k \in DOMAIN windows : Bars(windows[k]) \subseteq 1 .. n
           /\ \A i \in 1 .. n - ((n - window) % step) :
                  \E k \in DOMAIN windows : i \in Bars(windows[k])
           /\ (n - window) % step < step
<1> DEFINE q == (n - window) \div step
           r == (n - window) % step
<1>1. /\ window \in Nat \ {0, 1} /\ step \in Nat \ {0} /\ n - window \in Nat
      /\ step <= window
  BY DEF Evaluated
<1>2. q \in Nat /\ r \in Nat /\ r < step /\ n - window = step * q + r
  <2> DEFINE rest == n - window
  <2>1. rest \in Nat
    BY <1>1
  <2>2. (n - window) \div step = rest \div step /\ (n - window) % step = rest % step
    OBVIOUS
  <2> HIDE DEF rest
  <2>3. /\ rest \div step \in Nat /\ rest % step \in 0 .. step - 1
        /\ rest = step * (rest \div step) + (rest % step)
    BY <1>1, <2>1, DivMod
  <2> QED
    BY <1>1, <2>1, <2>2, <2>3 DEF rest
<1>3. /\ DOMAIN windows = 1 .. q + 1
      /\ \A k \in 1 .. q + 1 :
             windows[k] = Slice((k - 1) * step + 1, (k - 1) * step + window)
  BY DEF Windows
<1> HIDE DEF q, r
<1>4. q * step = step * q /\ q * step \in Nat
  BY <1>1, <1>2
<1>5. ASSUME NEW k \in DOMAIN windows
      PROVE  Bars(windows[k]) \subseteq 1 .. n
  <2>1. k - 1 \in Nat /\ k - 1 <= q
    BY <1>2, <1>3, <1>5
  <2>2. (k - 1) * step \in Nat /\ (k - 1) * step <= q * step
    BY <1>1, <1>2, <2>1, FactorOrder
  <2>3. Bars(windows[k]) = (k - 1) * step + 1 .. (k - 1) * step + window
    BY <1>3, <1>5 DEF Bars, Slice
  <2> DEFINE p == (k - 1) * step
  <2> HIDE DEF p
  <2>4. p \in Nat /\ p <= q * step /\ Bars(windows[k]) = p + 1 .. p + window
    BY <2>2, <2>3 DEF p
  <2> QED
    BY <1>1, <1>2, <1>4, <2>4
<1>6. ASSUME NEW i \in 1 .. n - r
      PROVE  \E k \in DOMAIN windows : i \in Bars(windows[k])
  <2>1. CASE i <= window
    <3>1. 1 \in DOMAIN windows /\ (1 - 1) * step = 0
      BY <1>1, <1>2, <1>3
    <3>2. Bars(windows[1]) = 1 .. window
      BY <1>1, <1>3, <3>1 DEF Bars, Slice
    <3> QED
      BY <1>1, <1>6, <2>1, <3>1, <3>2
  <2>2. CASE i > window
    <3> DEFINE j == i - window - 1
               m == j \div step
    <3>1. j \in Nat /\ i = window + 1 + j /\ i <= n - r
      BY <1>1, <1>2, <1>6, <2>2
    <3>2. m \in Nat /\ j % step \in 0 .. step - 1 /\ j = step * m + (j % step)
      BY <1>1, <3>1, DivMod
    <3> HIDE DEF j, m
    <3> DEFINE p == m * step
    <3>3. p \in Nat /\ p <= j /\ j < p + step
      BY <1>1, <3>1, <3>2
    <3>4. (m + 1) * step = p + step
      BY <1>1, <3>2
    <3> HIDE DEF p
    <3>5. p < q * step
      BY <1>1, <1>2, <1>4, <3>1, <3>3
    <3>6. m < q
      <4>1. q <= m => q * step <= m * step
        BY <1>1, <1>2, <3>2, FactorOrder
      <4> QED
        BY <1>2, <1>4, <3>2, <3>3, <3>5, <4>1 DEF p
    <3>7. m + 2 \in DOMAIN windows /\ (m + 2) - 1 = m + 1
      BY <1>2, <1>3, <3>2, <3>6
    <3>8. Bars(windows[m + 2]) = p + step + 1 .. p + step + window
      <4>1. windows[m + 2] = Slice((m + 1) * step + 1, (m + 1) * step + window)
        BY <1>3, <3>7
      <4> QED
        BY <3>4, <4>1 DEF Bars, Slice
    <3>9. i \in p + step + 1 .. p + step + window
      BY <1>1, <3>1, <3>3
    <3> QED
      BY <3>7, <3>8, <3>9
  <2> QED
    BY <1>1, <1>6, <2>1, <2>2
<1> QED
  BY <1>2, <1>5, <1>6 DEF q, r

\* The default window and step are legal whatever the sample, and consecutive
\* windows overlap: resolve_walk_forward_window_config.
THEOREM DefaultWindows ==
    ASSUME NEW n \in Nat, n >= 2
    PROVE  /\ Evaluated(n, WindowBars(n), StepBars(n))
           /\ StepBars(n) < WindowBars(n)
<1>1. n \div 3 \in Nat /\ n \div 3 <= n
  OBVIOUS
<1>2. WindowBars(n) \in Nat /\ WindowBars(n) >= 2 /\ WindowBars(n) <= n
  BY <1>1 DEF WindowBars, Least, Most, MinWindowBars, DefaultWindowCount
<1>3. StepBars(n) \in Nat /\ StepBars(n) >= 1 /\ StepBars(n) < WindowBars(n)
  BY <1>2 DEF StepBars, Most
<1> QED
  BY <1>2, <1>3 DEF Evaluated

\* The segments of an evaluation share the sample: the first starts with its
\* first bar, the last ends with its last, each starts where the one before
\* ends, none is empty, and no two differ by more than one bar: _split_bars of
\* apps/research/analysis.py.
THEOREM SegmentsShare ==
    ASSUME NEW n \in Nat, NEW count \in 1 .. n, NEW slices, slices = Split(n, count)
    PROVE  /\ slices[1].first = 1 /\ slices[count].last = n
           /\ \A i \in 1 .. count - 1 : slices[i + 1].first = slices[i].last + 1
           /\ \A i \in 1 .. count :
                  slices[i].last - slices[i].first + 1 \in {n \div count, n \div count + 1} \ {0}
<1> DEFINE size == n \div count
           longer == n % count
           End(i) == i * size + Least(i, longer)
<1>1. count \in Nat \ {0} /\ count <= n
  OBVIOUS
<1>2. size \in Nat /\ longer \in 0 .. count - 1 /\ n = count * size + longer
  BY <1>1, DivMod
<1>3. size # 0
  BY <1>1, <1>2
<1>4. /\ DOMAIN slices = 1 .. count
      /\ \A i \in 1 .. count : slices[i].first = End(i - 1) + 1 /\ slices[i].last = End(i)
  BY DEF Split, Slice
<1> HIDE DEF size, longer
<1>5. End(0) = 0
  BY <1>1, <1>2 DEF Least
<1>6. End(count) = n
  BY <1>1, <1>2 DEF Least
<1>7. ASSUME NEW i \in 1 .. count
      PROVE  End(i - 1) \in Nat /\ End(i) - End(i - 1) \in {size, size + 1}
  <2>1. i * size = (i - 1) * size + size /\ (i - 1) * size \in Nat
    BY <1>1, <1>2
  <2> DEFINE p == (i - 1) * size
  <2>2. End(i - 1) = p + Least(i - 1, longer) /\ End(i) = p + size + Least(i, longer) /\ p \in Nat
    BY <2>1
  <2> HIDE DEF p
  <2> QED
    BY <1>1, <1>2, <2>2 DEF Least
<1>7a. \A i \in 1 .. count : End(i) \in Nat
  BY <1>1, <1>2 DEF Least
<1> HIDE DEF End
<1>8. ASSUME NEW i \in 1 .. count
      PROVE  slices[i].last - slices[i].first + 1 \in {size, size + 1} \ {0}
  <2> DEFINE before == End(i - 1)
             end == End(i)
  <2>1. slices[i].first = before + 1 /\ slices[i].last = end
    BY <1>4
  <2>2. before \in Nat /\ end - before \in {size, size + 1} /\ end \in Nat
    BY <1>2, <1>7, <1>7a
  <2> HIDE DEF before, end
  <2> QED
    BY <1>2, <1>3, <2>1, <2>2
<1>9. ASSUME NEW i \in 1 .. count - 1
      PROVE  slices[i + 1].first = slices[i].last + 1
  <2>1. i \in 1 .. count /\ i + 1 \in 1 .. count /\ (i + 1) - 1 = i
    BY <1>1
  <2> QED
    BY <1>4, <2>1
<1>10. slices[1].first = 1 /\ slices[count].last = n
  BY <1>1, <1>4, <1>5, <1>6
<1> QED
  BY <1>8, <1>9, <1>10 DEF size

-----------------------------------------------------------------------------
(* Induction: what a set of numbers, or of subsets, contains                *)

\* A set of numbers that has 0, and with a number the next one, has all.
LEMMA SetInduction ==
    ASSUME NEW S \in SUBSET Nat, 0 \in S, \A n \in S : n + 1 \in S
    PROVE  S = Nat
<1> DEFINE T == Nat \ S
           R == OpToRel(<, Nat)
<1>1. SUFFICES ASSUME T # {} PROVE FALSE
  OBVIOUS
<1>2. PICK x \in T : \A y \in T : ~ (<<y, x>> \in R)
  <2>1. IsWellFoundedOn(R, Nat)
    BY NatLessThanWellFounded
  <2>2. T \subseteq Nat
    OBVIOUS
  <2> HIDE DEF T, R
  <2> QED
    BY <1>1, <2>1, <2>2, WFMin
<1>3. x \in Nat /\ x - 1 \in Nat /\ x - 1 < x /\ x = (x - 1) + 1
  OBVIOUS
<1>4. x - 1 \in T
  BY <1>3
<1>5. <<x - 1, x>> \in R
  BY <1>3 DEF OpToRel
<1> QED
  BY <1>2, <1>4, <1>5

\* A set of numbers that is not empty has a least one.
LEMMA LeastNumber ==
    ASSUME NEW T \in SUBSET Nat, T # {}
    PROVE  \E x \in T : \A y \in T : x <= y
<1> DEFINE R == OpToRel(<, Nat)
<1>1. PICK x \in T : \A y \in T : ~ (<<y, x>> \in R)
  <2>1. IsWellFoundedOn(R, Nat)
    BY NatLessThanWellFounded
  <2> HIDE DEF R
  <2> QED
    BY <2>1, WFMin
<1>2. ASSUME NEW y \in T PROVE x <= y
  <2>1. x \in Nat /\ y \in Nat /\ (y < x => <<y, x>> \in R)
    BY DEF OpToRel
  <2> HIDE DEF R
  <2> QED
    BY <1>1, <2>1
<1> QED
  BY <1>2

\* A set of subsets of a finite set that has the empty one, and a subset if it
\* has what is left of it without any one element, has all.
LEMMA SubsetInduction ==
    ASSUME NEW S, IsFiniteSet(S), NEW P \in SUBSET SUBSET S, {} \in P,
           \A T \in SUBSET S : T # {} /\ (\A x \in T : T \ {x} \in P) => T \in P
    PROVE  P = SUBSET S
<1> DEFINE All(n) == \A T \in SUBSET S : Cardinality(T) <= n => T \in P
           N == {n \in Nat : All(n)}
<1>1. \A T \in SUBSET S : IsFiniteSet(T) /\ Cardinality(T) \in Nat
  BY FS_Subset, FS_CardinalityType
<1>2. All(0)
  BY <1>1, FS_EmptySet
<1>3. ASSUME NEW n \in Nat, All(n) PROVE All(n + 1)
  <2>1. ASSUME NEW T \in SUBSET S, Cardinality(T) <= n + 1, T # {}
        PROVE  T \in P
    <3>1. ASSUME NEW x \in T PROVE T \ {x} \in P
      <4>1. Cardinality(T \ {x}) = Cardinality(T) - 1
        BY <1>1, FS_RemoveElement
      <4> QED
        BY <1>1, <1>3, <2>1, <4>1
    <3> QED
      BY <2>1, <3>1
  <2> QED
    BY <2>1
<1>4. \A n \in Nat : All(n)
  <2> HIDE DEF All
  <2>1. N \in SUBSET Nat /\ 0 \in N /\ \A n \in N : n + 1 \in N
    BY <1>2, <1>3
  <2>2. N = Nat
    <3> HIDE DEF N
    <3> QED
      BY <2>1, SetInduction
  <2> QED
    BY <2>2
<1>5. \A T \in SUBSET S : T \in P
  BY <1>1, <1>4
<1> QED
  BY <1>5

\* A recursion over the subsets of a finite set has a solution.
Picks(pick, S) == \A T \in SUBSET S : T # {} => pick[T] \in T
Recursion(f, S, A, base, pick, step) ==
    /\ f \in [SUBSET S -> A]
    /\ f[{}] = base
    /\ \A T \in SUBSET S : T # {} => f[T] = step[<<pick[T], f[T \ {pick[T]}]>>]

LEMMA SetRecursion ==
    ASSUME NEW S, IsFiniteSet(S), NEW A, NEW base \in A,
           NEW pick, Picks(pick, S), NEW step \in [S \X A -> A]
    PROVE  \E f : Recursion(f, S, A, base, pick, step)
<1> DEFINE Small(n) == {T \in SUBSET S : Cardinality(T) <= n}
           Solves(f, n) ==
              /\ f[{}] = base
              /\ \A T \in Small(n) : T # {} => f[T] = step[<<pick[T], f[T \ {pick[T]}]>>]
           Solvable(n) == \E f \in [Small(n) -> A] : Solves(f, n)
           N == {n \in Nat : Solvable(n)}
<1>1. \A T \in SUBSET S : IsFiniteSet(T) /\ Cardinality(T) \in Nat
  BY FS_Subset, FS_CardinalityType
<1>2. Solvable(0)
  <2> DEFINE f == [T \in Small(0) |-> base]
  <2>1. \A T \in Small(0) : T = {}
    BY <1>1, FS_EmptySet
  <2>2. {} \in Small(0)
    BY FS_EmptySet
  <2>3. f \in [Small(0) -> A] /\ Solves(f, 0)
    BY <2>1, <2>2
  <2> QED
    BY <2>3
<1>3. ASSUME NEW n \in Nat, Solvable(n) PROVE Solvable(n + 1)
  <2>1. PICK f \in [Small(n) -> A] : Solves(f, n)
    BY <1>3
  <2> DEFINE g == [T \in Small(n + 1) |->
                      IF T = {} THEN base ELSE step[<<pick[T], f[T \ {pick[T]}]>>]]
  <2>3. ASSUME NEW T \in Small(n + 1), T # {}
        PROVE  pick[T] \in S /\ T \ {pick[T]} \in Small(n)
    <3>1. pick[T] \in T
      BY <2>3 DEF Picks
    <3>2. Cardinality(T \ {pick[T]}) = Cardinality(T) - 1
      BY <1>1, <3>1, FS_RemoveElement
    <3> QED
      BY <1>1, <3>1, <3>2
  <2>4. g \in [Small(n + 1) -> A]
    BY <2>3
  <2>5. {} \in Small(n) /\ {} \in Small(n + 1) /\ Small(n) \subseteq Small(n + 1)
    BY <1>1, FS_EmptySet
  <2>6. \A T \in Small(n) : g[T] = f[T]
    BY <2>1, <2>5
  <2>7. Solves(g, n + 1)
    BY <2>3, <2>5, <2>6
  <2> QED
    BY <2>4, <2>7
<1>4. \A n \in Nat : Solvable(n)
  <2> HIDE DEF Solvable
  <2>1. N \in SUBSET Nat /\ 0 \in N /\ \A n \in N : n + 1 \in N
    BY <1>2, <1>3
  <2>2. N = Nat
    <3> HIDE DEF N
    <3> QED
      BY <2>1, SetInduction
  <2> QED
    BY <2>2
<1>5. Cardinality(S) \in Nat /\ Small(Cardinality(S)) = SUBSET S
  BY FS_Subset, FS_CardinalityType
<1>6. PICK f \in [Small(Cardinality(S)) -> A] : Solves(f, Cardinality(S))
  <2> HIDE DEF Small, Solves
  <2> QED
    BY <1>4, <1>5
<1> QED
  BY <1>5, <1>6 DEF Recursion

-----------------------------------------------------------------------------
(* Sums over a finite set, in whatever order they are taken                 *)

SumOver(g, S) == MapThenSumSet(LAMBDA x : g[x], S)

\* One of a set, the one that MapThenSumSet takes next.
Taken(T) == CHOOSE x \in T : TRUE

\* f has the sums of g over the subsets of S, and they are numbers.
Adds(f, g, S) ==
    /\ f[{}] = 0
    /\ \A T \in SUBSET S : T # {} => f[T] = g[Taken(T)] + f[T \ {Taken(T)}]
Sums(f, g, S) ==
    /\ Adds(f, g, S)
    /\ \A x \in S : g[x] \in Int
    /\ f \in [SUBSET S -> Int]

LEMMA SumsExist ==
    ASSUME NEW S, IsFiniteSet(S), NEW g, \A x \in S : g[x] \in Int
    PROVE  \E f : Sums(f, g, S)
<1> DEFINE I == Int
           zero == 0
           pick == [T \in SUBSET S |-> Taken(T)]
           step == [p \in S \X I |-> g[p[1]] + p[2]]
<1>1. Picks(pick, S)
  BY DEF Picks, Taken
<1>2. step \in [S \X I -> I] /\ zero \in I
  OBVIOUS
<1>3. PICK f : Recursion(f, S, I, zero, pick, step)
  <2> HIDE DEF pick, step, I, zero
  <2> QED
    BY <1>1, <1>2, SetRecursion
<1>4. ASSUME NEW T \in SUBSET S, T # {}
      PROVE  f[T] = g[Taken(T)] + f[T \ {Taken(T)}]
  <2>1. pick[T] = Taken(T) /\ Taken(T) \in S /\ f[T \ {Taken(T)}] \in Int
    BY <1>1, <1>3, <1>4 DEF Recursion, Picks
  <2> QED
    BY <1>3, <1>4, <2>1 DEF Recursion
<1> QED
  BY <1>3, <1>4 DEF Sums, Adds, Recursion

\* They are the same for the same summands.
LEMMA SumsAgree ==
    ASSUME NEW S, IsFiniteSet(S), NEW T \in SUBSET S, NEW f, NEW g, NEW e, NEW h,
           Adds(f, g, S), Adds(e, h, T), \A x \in T : g[x] = h[x]
    PROVE  f[T] = e[T]
<1> DEFINE P == {U \in SUBSET T : f[U] = e[U]}
<1>1. {} \in P
  BY DEF Adds
<1>2. ASSUME NEW U \in SUBSET T, U # {}, \A x \in U : U \ {x} \in P
      PROVE  U \in P
  <2>1. Taken(U) \in U
    BY <1>2 DEF Taken
  <2>2. f[U] = g[Taken(U)] + f[U \ {Taken(U)}] /\ e[U] = h[Taken(U)] + e[U \ {Taken(U)}]
    BY <1>2 DEF Adds
  <2> QED
    BY <1>2, <2>1, <2>2
<1>3. P = SUBSET T
  <2>1. P \in SUBSET SUBSET T /\ IsFiniteSet(T)
    BY FS_Subset
  <2>2. \A U \in SUBSET T : U # {} /\ (\A x \in U : U \ {x} \in P) => U \in P
    BY <1>2
  <2> HIDE DEF P
  <2> QED
    BY <1>1, <2>1, <2>2, SubsetInduction
<1> QED
  BY <1>3

\* Any element may be taken first.
LEMMA SumsRemove ==
    ASSUME NEW S, IsFiniteSet(S), NEW f, NEW g, Sums(f, g, S), NEW z \in S
    PROVE  f[S] = g[z] + f[S \ {z}]
<1> DEFINE P == {T \in SUBSET S : \A x \in T : f[T] = g[x] + f[T \ {x}]}
<1>1. {} \in P
  OBVIOUS
<1>2. ASSUME NEW T \in SUBSET S, T # {}, \A x \in T : T \ {x} \in P
      PROVE  T \in P
  <2> SUFFICES ASSUME NEW x \in T PROVE f[T] = g[x] + f[T \ {x}]
    OBVIOUS
  <2> DEFINE y == Taken(T)
  <2>1. y \in T /\ f[T] = g[y] + f[T \ {y}]
    BY <1>2 DEF Taken, Sums, Adds
  <2> HIDE DEF y
  <2>2. CASE x = y
    BY <2>1, <2>2
  <2>3. CASE x # y
    <3>1. x \in T \ {y} /\ y \in T \ {x} /\ (T \ {y}) \ {x} = (T \ {x}) \ {y}
      BY <2>1, <2>3
    <3>2. f[T \ {y}] = g[x] + f[(T \ {x}) \ {y}]
      BY <1>2, <2>1, <3>1
    <3>3. f[T \ {x}] = g[y] + f[(T \ {x}) \ {y}]
      BY <1>2, <3>1
    <3>4. g[x] \in Int /\ g[y] \in Int /\ f[(T \ {x}) \ {y}] \in Int
      BY <2>1 DEF Sums
    <3> QED
      BY <2>1, <3>2, <3>3, <3>4
  <2> QED
    BY <2>2, <2>3
<1>3. P = SUBSET S
  <2>1. P \in SUBSET SUBSET S
    OBVIOUS
  <2>2. \A T \in SUBSET S : T # {} /\ (\A x \in T : T \ {x} \in P) => T \in P
    BY <1>2
  <2> HIDE DEF P
  <2> QED
    BY <1>1, <2>1, <2>2, SubsetInduction
<1> QED
  BY <1>3

\* What MapThenSumSet computes.
LEMMA SumOverIsSum ==
    ASSUME NEW S, IsFiniteSet(S), NEW g, \A x \in S : g[x] \in Int
    PROVE  \E f : Sums(f, g, S) /\ SumOver(g, S) = f[S]
<1> DEFINE iter == CHOOSE it : it = [T \in SUBSET S |->
                      IF T = {} THEN 0
                      ELSE g[CHOOSE x \in T : TRUE] + it[T \ {CHOOSE x \in T : TRUE}]]
<1>1. PICK f : Sums(f, g, S)
  BY SumsExist
<1>2. f = [T \in SUBSET S |->
              IF T = {} THEN 0
              ELSE g[CHOOSE x \in T : TRUE] + f[T \ {CHOOSE x \in T : TRUE}]]
  BY <1>1 DEF Sums, Adds, Taken
<1>3. iter = [T \in SUBSET S |->
                 IF T = {} THEN 0
                 ELSE g[CHOOSE x \in T : TRUE] + iter[T \ {CHOOSE x \in T : TRUE}]]
  BY <1>2
<1>4. SumOver(g, S) = iter[S]
  BY DEF SumOver, MapThenSumSet, MapThenFoldSet
<1> HIDE DEF iter
<1>5. Adds(iter, g, S)
  BY <1>3 DEF Adds, Taken
<1>6. iter[S] = f[S]
  BY <1>1, <1>5, SumsAgree DEF Sums
<1> QED
  BY <1>1, <1>4, <1>6

LEMMA SumOverRemove ==
    ASSUME NEW S, IsFiniteSet(S), NEW g, \A x \in S : g[x] \in Int, NEW x \in S
    PROVE  /\ SumOver(g, S) \in Int /\ SumOver(g, S \ {x}) \in Int
           /\ SumOver(g, S) = g[x] + SumOver(g, S \ {x})
<1> DEFINE R == S \ {x}
<1>1. PICK f : Sums(f, g, S) /\ SumOver(g, S) = f[S]
  BY SumOverIsSum
<1>2. R \in SUBSET S /\ IsFiniteSet(R) /\ \A y \in R : g[y] \in Int
  BY FS_Subset
<1>3. PICK e : Sums(e, g, R) /\ SumOver(g, R) = e[R]
  <2> HIDE DEF R
  <2> QED
    BY <1>2, SumOverIsSum
<1>4. f[R] = e[R]
  <2> HIDE DEF R
  <2> QED
    BY <1>1, <1>2, <1>3, SumsAgree DEF Sums
<1>5. f[S] = g[x] + f[R]
  BY <1>1, SumsRemove
<1>6. f[S] \in Int /\ e[R] \in Int
  BY <1>1, <1>3 DEF Sums
<1> HIDE DEF R
<1>7. /\ SumOver(g, S) \in Int /\ SumOver(g, R) \in Int
      /\ SumOver(g, S) = g[x] + SumOver(g, R)
  BY <1>1, <1>3, <1>4, <1>5, <1>6
<1> QED
  BY <1>7 DEF R

\* Only the summands of the set matter.
LEMMA SumOverSame ==
    ASSUME NEW S, IsFiniteSet(S), NEW g, NEW h,
           \A x \in S : g[x] \in Int /\ g[x] = h[x]
    PROVE  SumOver(g, S) = SumOver(h, S)
<1>1. PICK f : Sums(f, g, S) /\ SumOver(g, S) = f[S]
  BY SumOverIsSum
<1>2. PICK e : Sums(e, h, S) /\ SumOver(h, S) = e[S]
  BY SumOverIsSum
<1>3. f[S] = e[S]
  BY <1>1, <1>2, SumsAgree DEF Sums
<1> QED
  BY <1>1, <1>2, <1>3

\* What SumFunction computes.
LEMMA SumFunctionIs ==
    ASSUME NEW S, NEW f, DOMAIN f = S
    PROVE  SumFunction(f) = SumOver(f, S)
<1>1. SumFunction(f) = SumFunctionOnSet(f, S)
  BY DEF SumFunction
<1> QED
  BY <1>1 DEF SumFunctionOnSet, FoldFunctionOnSet, SumOver, MapThenSumSet

LEMMA SumOverIsNat ==
    ASSUME NEW S, IsFiniteSet(S), NEW g, \A x \in S : g[x] \in Nat
    PROVE  SumOver(g, S) \in Nat
<1>1. PICK f : Sums(f, g, S) /\ SumOver(g, S) = f[S]
  BY SumOverIsSum
<1> DEFINE P == {T \in SUBSET S : f[T] \in Nat}
<1>2. {} \in P
  BY <1>1 DEF Sums, Adds
<1>3. ASSUME NEW T \in SUBSET S, T # {}, \A x \in T : T \ {x} \in P
      PROVE  T \in P
  <2>1. Taken(T) \in T /\ f[T] = g[Taken(T)] + f[T \ {Taken(T)}]
    BY <1>1, <1>3 DEF Sums, Adds, Taken
  <2>2. g[Taken(T)] \in Nat /\ f[T \ {Taken(T)}] \in Nat
    BY <1>3, <2>1
  <2> QED
    BY <2>1, <2>2
<1>4. P = SUBSET S
  <2>1. P \in SUBSET SUBSET S
    OBVIOUS
  <2>2. \A T \in SUBSET S : T # {} /\ (\A x \in T : T \ {x} \in P) => T \in P
    BY <1>3
  <2> HIDE DEF P
  <2> QED
    BY <1>2, <2>1, <2>2, SubsetInduction
<1> QED
  BY <1>1, <1>4

\* A sum over the first numbers, and the next one.
LEMMA SumNext ==
    ASSUME NEW i \in Nat, NEW g, \A j \in 1 .. i + 1 : g[j] \in Int
    PROVE  /\ SumOver(g, 1 .. i) \in Int
           /\ SumOver(g, 1 .. i + 1) = SumOver(g, 1 .. i) + g[i + 1]
<1>1. IsFiniteSet(1 .. i + 1) /\ i + 1 \in 1 .. i + 1 /\ (1 .. i + 1) \ {i + 1} = 1 .. i
  BY FS_Interval
<1>2. /\ SumOver(g, 1 .. i + 1) \in Int /\ SumOver(g, (1 .. i + 1) \ {i + 1}) \in Int
      /\ SumOver(g, 1 .. i + 1) = g[i + 1] + SumOver(g, (1 .. i + 1) \ {i + 1})
  BY <1>1, SumOverRemove
<1>3. g[i + 1] \in Int
  BY <1>1
<1>4. PICK x, y : x = SumOver(g, 1 .. i) /\ y = SumOver(g, 1 .. i + 1)
  OBVIOUS
<1>5. x \in Int /\ y = g[i + 1] + x
  BY <1>1, <1>2, <1>4
<1> QED
  BY <1>3, <1>4, <1>5

LEMMA SumOfNone ==
    ASSUME NEW g
    PROVE  SumOver(g, 1 .. 0) = 0
<1>1. 1 .. 0 = {} /\ IsFiniteSet({})
  BY FS_EmptySet
<1>2. PICK f : Sums(f, g, {}) /\ SumOver(g, {}) = f[{}]
  BY <1>1, SumOverIsSum
<1> QED
  BY <1>1, <1>2 DEF Sums, Adds

\* A sum of zeros.
LEMMA SumOfZeros ==
    ASSUME NEW S, IsFiniteSet(S), NEW g \in [S -> Int], \A x \in S : g[x] = 0
    PROVE  SumFunction(g) = 0
<1> DEFINE P == {T \in SUBSET S : SumOver(g, T) = 0}
<1>1. {} \in P
  <2>1. 1 .. 0 = {}
    OBVIOUS
  <2> QED
    BY <2>1, SumOfNone
<1>2. ASSUME NEW T \in SUBSET S, T # {}, \A x \in T : T \ {x} \in P
      PROVE  T \in P
  <2>1. PICK x \in T : TRUE
    BY <1>2
  <2>2. IsFiniteSet(T) /\ \A y \in T : g[y] \in Int
    BY FS_Subset
  <2>3. SumOver(g, T) = g[x] + SumOver(g, T \ {x})
    BY <2>2, SumOverRemove
  <2>4. g[x] = 0 /\ SumOver(g, T \ {x}) = 0
    BY <1>2
  <2> QED
    BY <2>3, <2>4
<1>3. P = SUBSET S
  <2>1. P \in SUBSET SUBSET S
    OBVIOUS
  <2>2. \A T \in SUBSET S : T # {} /\ (\A x \in T : T \ {x} \in P) => T \in P
    BY <1>2
  <2> HIDE DEF P
  <2> QED
    BY <1>1, <2>1, <2>2, SubsetInduction
<1>4. SumOver(g, S) = 0
  BY <1>3
<1>5. DOMAIN g = S
  OBVIOUS
<1> QED
  BY <1>4, <1>5, SumFunctionIs

\* One summand of a sum of numbers is another.
ButFor(g, h, S, s) ==
    /\ s \in S /\ g \in [S -> Int] /\ h \in [S -> Int]
    /\ \A t \in S : t # s => h[t] = g[t]

LEMMA SumMoves ==
    ASSUME NEW S, IsFiniteSet(S), NEW s, NEW g, NEW h, ButFor(g, h, S, s)
    PROVE  /\ SumFunction(g) \in Int
           /\ SumFunction(h) = SumFunction(g) + (h[s] - g[s])
<1> DEFINE R == S \ {s}
<1>1. SumFunction(g) = SumOver(g, S) /\ SumFunction(h) = SumOver(h, S)
  <2>1. DOMAIN g = S /\ DOMAIN h = S
    BY DEF ButFor
  <2> QED
    BY <2>1, SumFunctionIs
<1>2. s \in S /\ \A t \in S : g[t] \in Int /\ h[t] \in Int
  BY DEF ButFor
<1>3. SumOver(g, S) \in Int /\ SumOver(g, R) \in Int /\ SumOver(g, S) = g[s] + SumOver(g, R)
  BY <1>2, SumOverRemove
<1>4. SumOver(h, S) \in Int /\ SumOver(h, R) \in Int /\ SumOver(h, S) = h[s] + SumOver(h, R)
  BY <1>2, SumOverRemove
<1>5. SumOver(g, R) = SumOver(h, R)
  <2>1. IsFiniteSet(R) /\ \A t \in R : g[t] \in Int /\ g[t] = h[t]
    BY <1>2, FS_Subset DEF ButFor
  <2> HIDE DEF R
  <2> QED
    BY <2>1, SumOverSame
<1>6. PICK a, b, c, x, y : a = SumOver(g, S) /\ b = SumOver(h, S) /\ c = SumOver(g, R)
                           /\ x = g[s] /\ y = h[s]
  OBVIOUS
<1> HIDE DEF R
<1>7. /\ a \in Int /\ b \in Int /\ c \in Int /\ x \in Int /\ y \in Int
      /\ a = x + c /\ b = y + c
  BY <1>2, <1>3, <1>4, <1>5, <1>6
<1>8. b = a + (y - x)
  BY <1>7
<1> QED
  BY <1>1, <1>6, <1>7, <1>8

-----------------------------------------------------------------------------
(* Sums of ratios                                                           *)

Ratio == Int \X (Nat \ {0})

\* f has the sums of the ratios g over the subsets of S.
RatioAdds(f, g, S) ==
    /\ f[{}] = Zero
    /\ \A T \in SUBSET S : T # {} => f[T] = Plus(g[Taken(T)], f[T \ {Taken(T)}])
RatioSums(f, g, S) ==
    /\ RatioAdds(f, g, S)
    /\ f \in [SUBSET S -> Ratio] /\ \A x \in S : g[x] \in Ratio

LEMMA PlusType ==
    ASSUME NEW a \in Ratio, NEW b \in Ratio
    PROVE  Plus(a, b) \in Ratio
<1>1. /\ a[1] \in Int /\ b[1] \in Int
      /\ a[2] \in Nat \ {0} /\ b[2] \in Nat \ {0}
  BY DEF Ratio
<1>2. a[1] * b[2] + b[1] * a[2] \in Int /\ a[2] * b[2] \in Nat \ {0}
  BY <1>1
<1> QED
  BY <1>2 DEF Plus, Ratio

\* The order in which ratios are added makes no difference.
LEMMA PlusCommutes ==
    ASSUME NEW a \in Ratio, NEW b \in Ratio, NEW c \in Ratio
    PROVE  Plus(a, Plus(b, c)) = Plus(b, Plus(a, c))
<1>1. /\ a[1] \in Int /\ b[1] \in Int /\ c[1] \in Int
      /\ a[2] \in Int /\ b[2] \in Int /\ c[2] \in Int
  BY DEF Ratio
<1>2. a[1] * (b[2] * c[2]) + (b[1] * c[2] + c[1] * b[2]) * a[2]
         = b[1] * (a[2] * c[2]) + (a[1] * c[2] + c[1] * a[2]) * b[2]
  BY <1>1
<1>3. a[2] * (b[2] * c[2]) = b[2] * (a[2] * c[2])
  BY <1>1
<1> QED
  BY <1>2, <1>3 DEF Plus

LEMMA RatioSumsExist ==
    ASSUME NEW S, IsFiniteSet(S), NEW g, \A x \in S : g[x] \in Ratio
    PROVE  \E f : RatioSums(f, g, S)
<1> DEFINE A == Ratio
           zero == Zero
           pick == [T \in SUBSET S |-> Taken(T)]
           step == [p \in S \X A |-> Plus(g[p[1]], p[2])]
<1>1. Picks(pick, S)
  BY DEF Picks, Taken
<1>2. zero \in A
  BY DEF Zero, Ratio
<1>3. step \in [S \X A -> A]
  BY PlusType
<1>4. PICK f : Recursion(f, S, A, zero, pick, step)
  <2> HIDE DEF pick, step, A, zero
  <2> QED
    BY <1>1, <1>2, <1>3, SetRecursion
<1>5. ASSUME NEW T \in SUBSET S, T # {}
      PROVE  f[T] = Plus(g[Taken(T)], f[T \ {Taken(T)}])
  <2>1. pick[T] = Taken(T) /\ Taken(T) \in S /\ f[T \ {Taken(T)}] \in A
    BY <1>1, <1>4, <1>5 DEF Recursion, Picks
  <2> HIDE DEF pick, A
  <2>2. f[T] = step[<<Taken(T), f[T \ {Taken(T)}]>>]
    BY <1>4, <1>5, <2>1 DEF Recursion
  <2> QED
    BY <2>1, <2>2
<1> QED
  BY <1>4, <1>5 DEF RatioSums, RatioAdds, Recursion

LEMMA RatioSumsAgree ==
    ASSUME NEW S, IsFiniteSet(S), NEW T \in SUBSET S, NEW f, NEW g, NEW e, NEW h,
           RatioAdds(f, g, S), RatioAdds(e, h, T), \A x \in T : g[x] = h[x]
    PROVE  f[T] = e[T]
<1> DEFINE P == {U \in SUBSET T : f[U] = e[U]}
<1>1. {} \in P
  BY DEF RatioSums, RatioAdds
<1>2. ASSUME NEW U \in SUBSET T, U # {}, \A x \in U : U \ {x} \in P
      PROVE  U \in P
  <2>1. Taken(U) \in U
    BY <1>2 DEF Taken
  <2>2. f[U] = Plus(g[Taken(U)], f[U \ {Taken(U)}]) /\ e[U] = Plus(h[Taken(U)], e[U \ {Taken(U)}])
    BY <1>2 DEF RatioSums, RatioAdds
  <2> QED
    BY <1>2, <2>1, <2>2
<1>3. P = SUBSET T
  <2>1. P \in SUBSET SUBSET T /\ IsFiniteSet(T)
    BY FS_Subset
  <2>2. \A U \in SUBSET T : U # {} /\ (\A x \in U : U \ {x} \in P) => U \in P
    BY <1>2
  <2> HIDE DEF P
  <2> QED
    BY <1>1, <2>1, <2>2, SubsetInduction
<1> QED
  BY <1>3

LEMMA RatioSumsRemove ==
    ASSUME NEW S, IsFiniteSet(S), NEW f, NEW g, RatioSums(f, g, S), NEW z \in S
    PROVE  f[S] = Plus(g[z], f[S \ {z}])
<1> DEFINE P == {T \in SUBSET S : \A x \in T : f[T] = Plus(g[x], f[T \ {x}])}
<1>1. {} \in P
  OBVIOUS
<1>2. ASSUME NEW T \in SUBSET S, T # {}, \A x \in T : T \ {x} \in P
      PROVE  T \in P
  <2> SUFFICES ASSUME NEW x \in T PROVE f[T] = Plus(g[x], f[T \ {x}])
    OBVIOUS
  <2> DEFINE y == Taken(T)
  <2>1. y \in T /\ f[T] = Plus(g[y], f[T \ {y}])
    BY <1>2 DEF Taken, RatioSums, RatioAdds
  <2> HIDE DEF y
  <2>2. CASE x = y
    BY <2>1, <2>2
  <2>3. CASE x # y
    <3>1. x \in T \ {y} /\ y \in T \ {x} /\ (T \ {y}) \ {x} = (T \ {x}) \ {y}
      BY <2>1, <2>3
    <3>2. f[T \ {y}] = Plus(g[x], f[(T \ {x}) \ {y}])
      BY <1>2, <2>1, <3>1
    <3>3. f[T \ {x}] = Plus(g[y], f[(T \ {x}) \ {y}])
      BY <1>2, <3>1
    <3>4. g[x] \in Ratio /\ g[y] \in Ratio /\ f[(T \ {x}) \ {y}] \in Ratio
      BY <2>1 DEF RatioSums, RatioAdds
    <3> QED
      BY <2>1, <3>2, <3>3, <3>4, PlusCommutes
  <2> QED
    BY <2>2, <2>3
<1>3. P = SUBSET S
  <2>1. P \in SUBSET SUBSET S
    OBVIOUS
  <2>2. \A T \in SUBSET S : T # {} /\ (\A x \in T : T \ {x} \in P) => T \in P
    BY <1>2
  <2> HIDE DEF P
  <2> QED
    BY <1>1, <2>1, <2>2, SubsetInduction
<1> QED
  BY <1>3

\* What SumOf computes.
LEMMA SumOfIsSum ==
    ASSUME NEW S, IsFiniteSet(S), NEW g \in [S -> Ratio]
    PROVE  \E f : RatioSums(f, g, S) /\ SumOf(g) = f[S]
<1> DEFINE iter == CHOOSE it : it = [T \in SUBSET S |->
                      IF T = {} THEN Zero
                      ELSE Plus(g[CHOOSE x \in T : TRUE], it[T \ {CHOOSE x \in T : TRUE}])]
<1>1. PICK f : RatioSums(f, g, S)
  BY RatioSumsExist
<1>2. f = [T \in SUBSET S |->
              IF T = {} THEN Zero
              ELSE Plus(g[CHOOSE x \in T : TRUE], f[T \ {CHOOSE x \in T : TRUE}])]
  BY <1>1 DEF RatioSums, RatioAdds, Taken
<1>3. iter = [T \in SUBSET S |->
                 IF T = {} THEN Zero
                 ELSE Plus(g[CHOOSE x \in T : TRUE], iter[T \ {CHOOSE x \in T : TRUE}])]
  BY <1>2
<1>4. SumOf(g) = iter[S]
  <2>1. DOMAIN g = S
    OBVIOUS
  <2>2. SumOf(g) = FoldFunctionOnSet(Plus, Zero, g, S)
    BY <2>1 DEF SumOf, FoldFunction
  <2> QED
    BY <2>2 DEF FoldFunctionOnSet, MapThenFoldSet
<1> HIDE DEF iter
<1>5. RatioAdds(f, g, S) /\ RatioAdds(iter, g, S)
  BY <1>1, <1>3 DEF RatioAdds, RatioSums, Taken
<1>6. iter[S] = f[S]
  BY <1>5, RatioSumsAgree
<1> QED
  BY <1>1, <1>4, <1>6

\* Any one of them may be taken out of the sum.
Without(g, x) == [y \in (DOMAIN g) \ {x} |-> g[y]]

LEMMA SumOfWithout ==
    ASSUME NEW S, IsFiniteSet(S), NEW g \in [S -> Ratio], NEW x \in S
    PROVE  /\ SumOf(g) \in Ratio /\ SumOf(Without(g, x)) \in Ratio
           /\ SumOf(g) = Plus(g[x], SumOf(Without(g, x)))
<1> DEFINE R == S \ {x}
           h == Without(g, x)
<1>1. PICK f : RatioSums(f, g, S) /\ SumOf(g) = f[S]
  BY SumOfIsSum
<1>2. R \in SUBSET S /\ IsFiniteSet(R) /\ h \in [R -> Ratio] /\ \A y \in R : g[y] = h[y]
  BY FS_Subset DEF Without
<1> HIDE DEF R, h
<1>3. PICK e : RatioSums(e, h, R) /\ SumOf(h) = e[R]
  BY <1>2, SumOfIsSum
<1>4. f[R] = e[R]
  <2>1. RatioAdds(f, g, S) /\ RatioAdds(e, h, R)
    BY <1>1, <1>3 DEF RatioSums
  <2> QED
    BY <1>2, <2>1, RatioSumsAgree
<1>5. f[S] = Plus(g[x], f[R])
  BY <1>1, RatioSumsRemove DEF R
<1>6. f[S] \in Ratio /\ e[R] \in Ratio
  BY <1>1, <1>3 DEF RatioSums, RatioAdds
<1>7. SumOf(g) = f[S] /\ SumOf(h) = f[R]
  BY <1>1, <1>3, <1>4
<1> QED
  BY <1>5, <1>6, <1>4, <1>7 DEF h

LEMMA SumOfType ==
    ASSUME NEW S, IsFiniteSet(S), NEW g \in [S -> Ratio]
    PROVE  SumOf(g) \in Ratio
<1>1. PICK f : RatioSums(f, g, S) /\ SumOf(g) = f[S]
  BY SumOfIsSum
<1> QED
  BY <1>1 DEF RatioSums, RatioAdds

-----------------------------------------------------------------------------
(* Ratios that stand for the same number                                    *)

LEMMA Cancelled ==
    ASSUME NEW x \in Int, NEW y \in Int, NEW d \in Nat \ {0}, x * d = y * d
    PROVE  x = y
<1>1. x * d \in Int /\ y * d \in Int
  OBVIOUS
<1>2. x * d <= y * d /\ y * d <= x * d
  BY <1>1
<1>3. x <= y /\ y <= x
  BY <1>2, FactorOrder
<1> QED
  BY <1>3

LEMMA SameTransitive ==
    ASSUME NEW a \in Ratio, NEW b \in Ratio, NEW c \in Ratio, Same(a, b), Same(b, c)
    PROVE  Same(a, c) /\ Same(b, a)
<1>1. /\ a[1] \in Int /\ b[1] \in Int /\ c[1] \in Int
      /\ a[2] \in Nat \ {0} /\ b[2] \in Nat \ {0} /\ c[2] \in Nat \ {0}
      /\ a[1] * b[2] = b[1] * a[2] /\ b[1] * c[2] = c[1] * b[2]
  BY DEF Ratio, Same
<1>2. (a[1] * c[2]) * b[2] = (c[1] * a[2]) * b[2]
  <2>1. (a[1] * c[2]) * b[2] = (a[1] * b[2]) * c[2] /\ (c[1] * a[2]) * b[2] = (c[1] * b[2]) * a[2]
        /\ (b[1] * a[2]) * c[2] = (b[1] * c[2]) * a[2]
    BY <1>1
  <2> QED
    BY <1>1, <2>1
<1>3. a[1] * c[2] \in Int /\ c[1] * a[2] \in Int
  BY <1>1
<1>4. a[1] * c[2] = c[1] * a[2]
  BY <1>1, <1>2, <1>3, Cancelled
<1> QED
  BY <1>1, <1>4 DEF Same

LEMMA PlusLaws ==
    ASSUME NEW a \in Ratio, NEW b \in Ratio, NEW c \in Ratio
    PROVE  /\ Plus(a, b) = Plus(b, a)
           /\ Plus(Plus(a, b), c) = Plus(a, Plus(b, c))
           /\ Same(a, b) => Same(Plus(a, c), Plus(b, c))
           /\ Same(a, a)
<1>1. /\ a[1] \in Int /\ b[1] \in Int /\ c[1] \in Int
      /\ a[2] \in Int /\ b[2] \in Int /\ c[2] \in Int
  BY DEF Ratio
<1>2. Plus(a, b) = Plus(b, a)
  <2>1. a[1] * b[2] + b[1] * a[2] = b[1] * a[2] + a[1] * b[2] /\ a[2] * b[2] = b[2] * a[2]
    BY <1>1
  <2> QED
    BY <2>1 DEF Plus
<1>3. Plus(Plus(a, b), c) = Plus(a, Plus(b, c))
  <2>1. (a[1] * b[2] + b[1] * a[2]) * c[2] + c[1] * (a[2] * b[2])
           = a[1] * (b[2] * c[2]) + (b[1] * c[2] + c[1] * b[2]) * a[2]
    BY <1>1
  <2>2. (a[2] * b[2]) * c[2] = a[2] * (b[2] * c[2])
    BY <1>1
  <2> QED
    BY <2>1, <2>2 DEF Plus
<1>4. ASSUME Same(a, b) PROVE Same(Plus(a, c), Plus(b, c))
  <2>1. a[1] * b[2] = b[1] * a[2]
    BY <1>4 DEF Same
  <2>2. (a[1] * c[2] + c[1] * a[2]) * (b[2] * c[2])
           = (a[1] * b[2]) * (c[2] * c[2]) + c[1] * a[2] * b[2] * c[2]
    BY <1>1
  <2>3. (b[1] * c[2] + c[1] * b[2]) * (a[2] * c[2])
           = (b[1] * a[2]) * (c[2] * c[2]) + c[1] * a[2] * b[2] * c[2]
    BY <1>1
  <2> QED
    BY <2>1, <2>2, <2>3 DEF Same, Plus
<1> QED
  BY <1>2, <1>3, <1>4 DEF Same

\* Sums of four may be paired otherwise.
LEMMA Paired ==
    ASSUME NEW a \in Ratio, NEW b \in Ratio, NEW c \in Ratio, NEW d \in Ratio
    PROVE  Plus(Plus(a, b), Plus(c, d)) = Plus(Plus(a, c), Plus(b, d))
<1>1. PICK cd, bd : cd = Plus(c, d) /\ bd = Plus(b, d)
  OBVIOUS
<1>2. cd \in Ratio /\ bd \in Ratio
  BY <1>1, PlusType
<1>3. Plus(Plus(a, b), cd) = Plus(a, Plus(b, cd)) /\ Plus(Plus(a, c), bd) = Plus(a, Plus(c, bd))
  BY <1>2, PlusLaws
<1>4. Plus(b, cd) = Plus(c, bd)
  BY <1>1, PlusCommutes
<1> QED
  BY <1>1, <1>3, <1>4

LEMMA Joined ==
    ASSUME NEW a \in Ratio, NEW b \in Ratio, NEW c \in Ratio
    PROVE  Plus(Plus(a, b), c) = Plus(Plus(a, c), b)
<1>1. Plus(Plus(a, b), c) = Plus(a, Plus(b, c)) /\ Plus(Plus(a, c), b) = Plus(a, Plus(c, b))
      /\ Plus(b, c) = Plus(c, b)
  BY PlusLaws
<1> QED
  BY <1>1

\* Either summand may be replaced by one that is the same.
LEMMA SameSums ==
    ASSUME NEW a \in Ratio, NEW b \in Ratio, NEW c \in Ratio, NEW d \in Ratio,
           Same(a, c), Same(b, d)
    PROVE  Same(Plus(a, b), Plus(c, d))
<1>1. PICK ab, cb, cd : ab = Plus(a, b) /\ cb = Plus(c, b) /\ cd = Plus(c, d)
  OBVIOUS
<1>2. ab \in Ratio /\ cb \in Ratio /\ cd \in Ratio
  BY <1>1, PlusType
<1>3. Same(ab, cb)
  BY <1>1, PlusLaws
<1>4. Same(cb, cd)
  <2>1. Plus(c, b) = Plus(b, c) /\ Plus(c, d) = Plus(d, c) /\ Same(Plus(b, c), Plus(d, c))
    BY PlusLaws
  <2> QED
    BY <1>1, <2>1
<1> QED
  BY <1>1, <1>2, <1>3, <1>4, SameTransitive

Whole(n) == <<n, 1>>

LEMMA WholePlus ==
    ASSUME NEW m \in Int, NEW n \in Int
    PROVE  Whole(m) \in Ratio /\ Plus(Whole(m), Whole(n)) = Whole(m + n)
  BY DEF Whole, Ratio, Plus

\* A ratio is, whatever its parts are multiplied by.
LEMMA SameScaled ==
    ASSUME NEW n \in Int, NEW d \in Nat \ {0}, NEW k \in Nat \ {0}
    PROVE  <<k * n, k * d>> \in Ratio /\ Same(<<k * n, k * d>>, <<n, d>>)
<1>1. k * n \in Int /\ k * d \in Nat \ {0} /\ (k * n) * d = n * (k * d)
  OBVIOUS
<1>2. PICK x, y : x = k * n /\ y = k * d
  OBVIOUS
<1>3. x \in Int /\ y \in Nat \ {0} /\ x * d = n * y
  BY <1>1, <1>2
<1>4. <<x, y>> \in Ratio /\ Same(<<x, y>>, <<n, d>>)
  BY <1>3 DEF Ratio, Same
<1> QED
  BY <1>2, <1>4

-----------------------------------------------------------------------------
(* Sums that are split or set against each other                            *)

LEMMA RatioSumsPart ==
    ASSUME NEW S, IsFiniteSet(S), NEW f, NEW g, RatioSums(f, g, S), NEW T \in SUBSET S
    PROVE  RatioAdds(f, g, T) /\ f[T] \in Ratio /\ \A z \in T : f[T] = Plus(g[z], f[T \ {z}])
<1>1. IsFiniteSet(T) /\ \A x \in T : g[x] \in Ratio
  BY FS_Subset DEF RatioSums
<1>2. RatioAdds(f, g, T)
  <2>1. \A U \in SUBSET T : U \in SUBSET S
    OBVIOUS
  <2> QED
    BY <2>1 DEF RatioSums, RatioAdds
<1>3. PICK e : RatioSums(e, g, T)
  BY <1>1, RatioSumsExist
<1>4. ASSUME NEW U \in SUBSET T PROVE f[U] = e[U]
  <2>1. IsFiniteSet(U) /\ RatioAdds(f, g, U) /\ RatioAdds(e, g, T)
    <3>1. \A V \in SUBSET U : V \in SUBSET T
      OBVIOUS
    <3> QED
      BY <1>1, <1>2, <1>3, <3>1, FS_Subset DEF RatioSums, RatioAdds
  <2>2. RatioAdds(e, g, U)
    <3>1. \A V \in SUBSET U : V \in SUBSET T
      OBVIOUS
    <3> QED
      BY <2>1, <3>1 DEF RatioAdds
  <2> QED
    BY <2>1, <2>2, RatioSumsAgree
<1>5. \A z \in T : f[T] = Plus(g[z], f[T \ {z}])
  <2> SUFFICES ASSUME NEW z \in T PROVE f[T] = Plus(g[z], f[T \ {z}])
    OBVIOUS
  <2>1. e[T] = Plus(g[z], e[T \ {z}])
    BY <1>1, <1>3, RatioSumsRemove
  <2>2. T \in SUBSET T /\ T \ {z} \in SUBSET T
    OBVIOUS
  <2> QED
    BY <1>4, <2>1, <2>2
<1> QED
  BY <1>2, <1>5 DEF RatioSums

LEMMA SumsBalance ==
    ASSUME NEW S, IsFiniteSet(S), NEW u \in [S -> Ratio], NEW c \in [S -> Ratio],
           NEW m, \A x \in S : m[x] \in Int /\ Same(Plus(u[x], c[x]), Whole(m[x]))
    PROVE  SumOver(m, S) \in Int /\ Same(Plus(SumOf(u), SumOf(c)), Whole(SumOver(m, S)))
<1>1. PICK e : RatioSums(e, u, S) /\ SumOf(u) = e[S]
  BY SumOfIsSum
<1>2. PICK f : RatioSums(f, c, S) /\ SumOf(c) = f[S]
  BY SumOfIsSum
<1>3. PICK h : Sums(h, m, S) /\ SumOver(m, S) = h[S]
  BY SumOverIsSum
<1> DEFINE P == {T \in SUBSET S : Same(Plus(e[T], f[T]), Whole(h[T]))}
<1>4. {} \in P
  <2>1. e[{}] = Zero /\ f[{}] = Zero /\ h[{}] = 0
    BY <1>1, <1>2, <1>3 DEF RatioSums, RatioAdds, Sums, Adds
  <2>2. Same(Plus(Zero, Zero), Whole(0))
    BY DEF Same, Plus, Zero, Whole
  <2> QED
    BY <2>1, <2>2
<1>5. ASSUME NEW T \in SUBSET S, T # {}, \A x \in T : T \ {x} \in P
      PROVE  T \in P
  <2>1. PICK t, R : t = Taken(T) /\ R = T \ {Taken(T)}
    OBVIOUS
  <2>2. t \in T /\ R \in SUBSET S /\ R = T \ {t}
    BY <1>5, <2>1 DEF Taken
  <2>3. /\ e[T] = Plus(u[t], e[R]) /\ f[T] = Plus(c[t], f[R]) /\ h[T] = m[t] + h[R]
    BY <1>1, <1>2, <1>3, <1>5, <2>1 DEF RatioSums, RatioAdds, Sums, Adds
  <2>4. /\ u[t] \in Ratio /\ c[t] \in Ratio /\ e[R] \in Ratio /\ f[R] \in Ratio
        /\ m[t] \in Int /\ h[R] \in Int
    BY <1>1, <1>2, <1>3, <2>2 DEF RatioSums, Sums
  <2>5. Plus(e[T], f[T]) = Plus(Plus(u[t], c[t]), Plus(e[R], f[R]))
    BY <2>3, <2>4, Paired
  <2>6. Same(Plus(u[t], c[t]), Whole(m[t])) /\ Same(Plus(e[R], f[R]), Whole(h[R]))
    BY <1>5, <2>2
  <2>7. PICK v, w, x, y : v = Plus(u[t], c[t]) /\ w = Plus(e[R], f[R])
                          /\ x = Whole(m[t]) /\ y = Whole(h[R])
    OBVIOUS
  <2>8. v \in Ratio /\ w \in Ratio /\ x \in Ratio /\ y \in Ratio
    BY <2>4, <2>7, PlusType, WholePlus
  <2>9. Same(Plus(v, w), Plus(x, y))
    BY <2>6, <2>7, <2>8, SameSums
  <2>10. Plus(x, y) = Whole(h[T])
    BY <2>3, <2>4, <2>7, WholePlus
  <2> QED
    BY <2>5, <2>7, <2>9, <2>10
<1>6. P = SUBSET S
  <2>1. P \in SUBSET SUBSET S
    OBVIOUS
  <2>2. \A T \in SUBSET S : T # {} /\ (\A x \in T : T \ {x} \in P) => T \in P
    BY <1>5
  <2> HIDE DEF P
  <2> QED
    BY <1>4, <2>1, <2>2, SubsetInduction
<1>7. h[S] \in Int
  BY <1>3 DEF Sums
<1> QED
  BY <1>1, <1>2, <1>3, <1>6, <1>7

\* A sum is that of two parts, when the rest of it is nothing.
LEMMA SumSplits ==
    ASSUME NEW S, IsFiniteSet(S), NEW f, NEW g, RatioSums(f, g, S),
           NEW A \in SUBSET S, NEW B \in SUBSET S, A \cap B = {},
           \A x \in S \ (A \union B) : g[x][1] = 0
    PROVE  Same(f[S], Plus(f[A], f[B]))
<1>1. \A T \in SUBSET S : f[T] \in Ratio /\ \A z \in T : f[T] = Plus(g[z], f[T \ {z}])
  BY RatioSumsPart
<1>2. \A x \in S : g[x] \in Ratio
  BY DEF RatioSums
<1> DEFINE P == {T \in SUBSET S : Same(f[T], Plus(f[T \cap A], f[T \cap B]))}
<1>3. {} \in P
  <2>1. {} \cap A = {} /\ {} \cap B = {} /\ f[{}] = Zero
    BY DEF RatioSums, RatioAdds
  <2>2. Same(Zero, Plus(Zero, Zero))
    BY DEF Same, Plus, Zero
  <2> QED
    BY <2>1, <2>2
<1>4. ASSUME NEW T \in SUBSET S, T # {}, \A x \in T : T \ {x} \in P
      PROVE  T \in P
  <2>1. PICK z : z \in T
    BY <1>4
  <2>2. PICK R, a, b : R = T \ {z} /\ a = f[R \cap A] /\ b = f[R \cap B]
    OBVIOUS
  <2>3. z \in S /\ R \in SUBSET S /\ R \cap A \in SUBSET S /\ R \cap B \in SUBSET S
        /\ T \cap A \in SUBSET S /\ T \cap B \in SUBSET S
    BY <2>1, <2>2
  <2>4. PICK c, r : c = g[z] /\ r = f[R]
    OBVIOUS
  <2>5. c \in Ratio /\ r \in Ratio /\ a \in Ratio /\ b \in Ratio /\ f[T] = Plus(c, r)
    BY <1>1, <1>2, <2>1, <2>2, <2>3, <2>4
  <2>6. Same(r, Plus(a, b))
    <3>1. R \in P
      BY <1>4, <2>1, <2>2
    <3> QED
      BY <2>2, <2>4, <3>1
  <2>7. PICK ab : ab = Plus(a, b)
    OBVIOUS
  <2>8. ab \in Ratio
    BY <2>5, <2>7, PlusType
  <2>9. Same(Plus(c, r), Plus(c, ab))
    <3>1. Same(c, c)
      BY <2>5, PlusLaws
    <3> QED
      BY <2>5, <2>6, <2>7, <2>8, <3>1, SameSums
  <2>10. CASE z \in A
    <3>1. (T \cap A) \ {z} = R \cap A /\ T \cap B = R \cap B /\ z \in T \cap A
      <4>1. z \notin B /\ R = T \ {z}
        BY <2>2, <2>10
      <4> QED
        BY <2>1, <2>10, <4>1
    <3>2. f[T \cap A] = Plus(c, a) /\ f[T \cap B] = b
      <4>1. PICK U, V : U = T \cap A /\ V = R \cap A
        OBVIOUS
      <4>2. U \in SUBSET S /\ z \in U /\ U \ {z} = V
        BY <2>3, <3>1, <4>1
      <4>3. f[U] = Plus(g[z], f[U \ {z}])
        BY <1>1, <4>2
      <4>4. f[U] = Plus(g[z], f[V])
        BY <4>2, <4>3
      <4>5. f[V] = a /\ f[T \cap B] = b
        BY <2>2, <3>1, <4>1
      <4> QED
        BY <2>4, <4>1, <4>4, <4>5
    <3>3. Plus(Plus(c, a), b) = Plus(c, ab)
      BY <2>5, <2>7, PlusLaws
    <3> QED
      BY <2>5, <2>9, <3>2, <3>3
  <2>11. CASE z \in B
    <3>1. (T \cap B) \ {z} = R \cap B /\ T \cap A = R \cap A /\ z \in T \cap B
      <4>1. z \notin A /\ R = T \ {z}
        BY <2>2, <2>11
      <4> QED
        BY <2>1, <2>11, <4>1
    <3>2. f[T \cap B] = Plus(c, b) /\ f[T \cap A] = a
      <4>1. PICK U, V : U = T \cap B /\ V = R \cap B
        OBVIOUS
      <4>2. U \in SUBSET S /\ z \in U /\ U \ {z} = V
        BY <2>3, <3>1, <4>1
      <4>3. f[U] = Plus(g[z], f[U \ {z}])
        BY <1>1, <4>2
      <4>4. f[U] = Plus(g[z], f[V])
        BY <4>2, <4>3
      <4>5. f[V] = b /\ f[T \cap A] = a
        BY <2>2, <3>1, <4>1
      <4> QED
        BY <2>4, <4>1, <4>4, <4>5
    <3>3. Plus(a, Plus(c, b)) = Plus(c, ab)
      BY <2>5, <2>7, PlusCommutes
    <3> QED
      BY <2>5, <2>9, <3>2, <3>3
  <2>12. CASE z \notin A /\ z \notin B
    <3>1. T \cap A = R \cap A /\ T \cap B = R \cap B
      BY <2>2, <2>12
    <3>2. Same(Plus(c, ab), ab)
      <4>1. c[1] = 0 /\ c[2] \in Nat \ {0}
        BY <2>3, <2>4, <2>5, <2>12 DEF Ratio
      <4>2. ab[1] \in Int /\ ab[2] \in Nat \ {0}
        BY <2>8 DEF Ratio
      <4>3. (0 * ab[2] + ab[1] * c[2]) * ab[2] = ab[1] * (c[2] * ab[2])
        BY <4>1, <4>2
      <4> QED
        BY <4>1, <4>3 DEF Same, Plus
    <3>3. Same(Plus(c, r), ab)
      <4>1. PICK x, y : x = Plus(c, r) /\ y = Plus(c, ab)
        OBVIOUS
      <4>2. x \in Ratio /\ y \in Ratio
        BY <2>5, <2>8, <4>1, PlusType
      <4> QED
        BY <2>8, <2>9, <3>2, <4>1, <4>2, SameTransitive
    <3> QED
      BY <2>2, <2>5, <2>7, <3>1, <3>3
  <2> QED
    BY <2>10, <2>11, <2>12
<1>5. P = SUBSET S
  <2>1. P \in SUBSET SUBSET S
    OBVIOUS
  <2>2. \A T \in SUBSET S : T # {} /\ (\A x \in T : T \ {x} \in P) => T \in P
    BY <1>4
  <2> HIDE DEF P
  <2> QED
    BY <1>3, <2>1, <2>2, SubsetInduction
<1>6. S \cap A = A /\ S \cap B = B
  OBVIOUS
<1> QED
  BY <1>5, <1>6

-----------------------------------------------------------------------------
(* Folds over a sequence                                                    *)

LEMMA MaxOfPrefix ==
    ASSUME NEW n \in Nat \ {0}
    PROVE  Max(1 .. n) = n /\ (1 .. n) \ {Max(1 .. n)} = 1 .. n - 1
<1>1. n \in 1 .. n /\ \A y \in 1 .. n : n >= y
  OBVIOUS
<1>2. Max(1 .. n) \in 1 .. n /\ \A y \in 1 .. n : Max(1 .. n) >= y
  BY <1>1 DEF Max
<1>3. Max(1 .. n) = n
  BY <1>1, <1>2
<1> QED
  BY <1>3

LEMMA MaxOfPart ==
    ASSUME NEW n \in Nat, NEW T \in SUBSET (1 .. n), T # {}
    PROVE  Max(T) \in T
<1> DEFINE Bounded(k) == \A U \in SUBSET (1 .. k) :
                            U # {} => \E x \in U : \A y \in U : x >= y
           N == {k \in Nat : Bounded(k)}
<1>1. Bounded(0)
  <2>1. 1 .. 0 = {}
    OBVIOUS
  <2> QED
    BY <2>1
<1>2. ASSUME NEW k \in Nat, Bounded(k) PROVE Bounded(k + 1)
  <2>1. ASSUME NEW U \in SUBSET (1 .. k + 1), U # {}
        PROVE  \E x \in U : \A y \in U : x >= y
    <3>1. CASE k + 1 \in U
      BY <3>1
    <3>2. CASE k + 1 \notin U
      <4>1. U \in SUBSET (1 .. k)
        BY <3>2
      <4> QED
        BY <1>2, <2>1, <4>1
    <3> QED
      BY <3>1, <3>2
  <2> QED
    BY <2>1
<1>3. \A k \in Nat : Bounded(k)
  <2> HIDE DEF Bounded
  <2>1. N \in SUBSET Nat /\ 0 \in N /\ \A k \in N : k + 1 \in N
    BY <1>1, <1>2
  <2>2. N = Nat
    <3> HIDE DEF N
    <3> QED
      BY <2>1, SetInduction
  <2> QED
    BY <2>2
<1>4. \E x \in T : \A y \in T : x >= y
  BY <1>3
<1> QED
  BY <1>4 DEF Max

\* The recursion of FoldLeft has a solution.
FoldRecursion(f, A, base, s, op) ==
    /\ f \in [SUBSET DOMAIN s -> A]
    /\ f[{}] = base
    /\ \A T \in SUBSET DOMAIN s : T # {} => /\ Max(T) \in DOMAIN s
                                            /\ f[T] = op[<<f[T \ {Max(T)}], s[Max(T)]>>]

LEMMA FoldExists ==
    ASSUME NEW A, NEW E, NEW base \in A, NEW s \in Seq(E), NEW op \in [A \X E -> A]
    PROVE  \E f : FoldRecursion(f, A, base, s, op)
<1> DEFINE D == DOMAIN s
           pick == [T \in SUBSET D |-> Max(T)]
           step == [x \in D \X A |-> op[<<x[2], s[x[1]]>>]]
<1>1. D = 1 .. Len(s) /\ Len(s) \in Nat /\ \A i \in D : s[i] \in E
  OBVIOUS
<1>2. IsFiniteSet(D)
  BY <1>1, FS_Interval
<1>3. Picks(pick, D)
  BY <1>1, MaxOfPart DEF Picks
<1>4. step \in [D \X A -> A]
  BY <1>1
<1>5. PICK f : Recursion(f, D, A, base, pick, step)
  <2> HIDE DEF pick, step, D
  <2> QED
    BY <1>2, <1>3, <1>4, SetRecursion
<1>6. ASSUME NEW T \in SUBSET D, T # {}
      PROVE  Max(T) \in D /\ f[T] = op[<<f[T \ {Max(T)}], s[Max(T)]>>]
  <2>1. Max(T) \in D /\ f[T \ {Max(T)}] \in A /\ pick[T] = Max(T)
    BY <1>3, <1>5, <1>6 DEF Picks, Recursion
  <2> QED
    BY <1>5, <1>6, <2>1 DEF Recursion
<1> QED
  BY <1>5, <1>6 DEF Recursion, FoldRecursion

\* Two runs that start alike and take the same steps end alike.
LEMMA RunsAgree ==
    ASSUME NEW m \in Nat, NEW F, NEW G, F[0] = G[0],
           \A n \in 1 .. m : F[n - 1] = G[n - 1] => F[n] = G[n]
    PROVE  F[m] = G[m]
<1> DEFINE N == {n \in Nat : n <= m => F[n] = G[n]}
<1>1. 0 \in N
  OBVIOUS
<1>2. ASSUME NEW n \in N PROVE n + 1 \in N
  <2>1. n \in Nat /\ (n + 1) - 1 = n
    OBVIOUS
  <2>2. ASSUME n + 1 <= m PROVE F[n + 1] = G[n + 1]
    <3>1. n + 1 \in 1 .. m /\ n <= m
      BY <2>1, <2>2
    <3> QED
      BY <1>2, <2>1, <3>1
  <2> QED
    BY <2>1, <2>2
<1>3. N = Nat
  <2>1. N \in SUBSET Nat
    OBVIOUS
  <2> HIDE DEF N
  <2> QED
    BY <1>1, <1>2, <2>1, SetInduction
<1> QED
  BY <1>3

-----------------------------------------------------------------------------
(* The replay of the ledger, fill by fill                                   *)

LedgerRow == [qty : Int, sellable : Int, avg : Int \X Int, mark : Int, updated : Int]
LedgerAccount(symbols) ==
    [position : [symbols -> LedgerRow], cash : Int, refused : BOOLEAN]
LedgerFill(symbols) ==
    [symbol : symbols, side : {"buy", "sell"}, qty : Nat, price : Nat, day : Nat]

LEMMA FlatIsRow == Flat \in LedgerRow
  BY FeeAssumption DEF Flat, LedgerRow, NoPrice

LEMMA UnplayedType ==
    ASSUME NEW symbols, NEW opening \in Int
    PROVE  Unplayed(symbols, opening) \in LedgerAccount(symbols)
  BY FlatIsRow DEF Unplayed, LedgerAccount

LEMMA CashFlowIsInt ==
    ASSUME NEW symbols, NEW fill \in LedgerFill(symbols)
    PROVE  CashFlow(fill) \in Int
<1> DEFINE notional == fill.qty * fill.price
<1>1. fill.qty \in Nat /\ fill.price \in Nat
  BY DEF LedgerFill
<1>2. notional \in Nat
  BY <1>1
<1> HIDE DEF notional
<1>3. \A rate \in Nat : Fee(notional, rate) \in Int
  BY <1>2 DEF Fee
<1>4. /\ Fee(notional, CommissionRate) \in Int /\ Fee(notional, TransferRate) \in Int
      /\ Fee(notional, StampRate) \in Int
  BY <1>3, FeeAssumption
<1> QED
  BY <1>2, <1>4 DEF CashFlow, notional

LEMMA ReplayFillKeeps ==
    ASSUME NEW symbols, NEW a \in LedgerAccount(symbols), NEW fill \in LedgerFill(symbols)
    PROVE  ReplayFill(a, fill) \in LedgerAccount(symbols)
<1> DEFINE p == a.position[fill.symbol]
           r == Release(p, fill.day, fill.day)
<1>1. /\ p \in LedgerRow /\ fill.day \in Int /\ fill.qty \in Int /\ fill.price \in Int
      /\ a.cash \in Int /\ Grid \in Int
  BY FeeAssumption DEF LedgerAccount, LedgerFill
<1> HIDE DEF p
<1>2. r \in LedgerRow
  BY <1>1 DEF Release, LedgerRow
<1> HIDE DEF r
<1>3. Bought(r, fill) \in LedgerRow
  BY <1>1, <1>2 DEF Bought, LedgerRow
<1>4. Sold(r, fill) \in LedgerRow
  <2>1. [Flat EXCEPT !.updated = fill.day] \in LedgerRow
    BY <1>1, FlatIsRow DEF LedgerRow
  <2>2. [r EXCEPT !.qty = @ - fill.qty, !.sellable = @ - fill.qty,
                  !.mark = fill.price, !.updated = fill.day] \in LedgerRow
    <3>1. r.qty - fill.qty \in Int /\ r.sellable - fill.qty \in Int
      BY <1>1, <1>2 DEF LedgerRow
    <3>2. fill.price \in Int /\ fill.day \in Int
      BY <1>1
    <3> QED
      BY <1>2, <3>1, <3>2, Zenon DEF LedgerRow
  <2> QED
    BY <2>1, <2>2 DEF Sold
<1>5. Applied(p, fill) \in LedgerRow
  BY <1>3, <1>4 DEF Applied, r
<1>6. CashAfter(a.cash, fill) \in Int
  BY <1>1, CashFlowIsInt DEF CashAfter
<1> QED
  BY <1>5, <1>6 DEF ReplayFill, LedgerAccount, LedgerFill, p

\* The replay has run through every account from the first to the last.
PlayedBy(F, fills, symbols, opening) ==
    /\ F[0] = Unplayed(symbols, opening)
    /\ \A n \in 1 .. Len(fills) : F[n] = ReplayFill(F[n - 1], fills[n])
    /\ Played(fills, symbols, opening) = F[Len(fills)]

LEMMA PlayedRun ==
    ASSUME NEW symbols, NEW opening \in Int, NEW fills \in Seq(LedgerFill(symbols))
    PROVE  \E F : PlayedBy(F, fills, symbols, opening)
<1> DEFINE A == LedgerAccount(symbols)
           E == LedgerFill(symbols)
           D == DOMAIN fills
           base == Unplayed(symbols, opening)
           op == [x \in A \X E |-> ReplayFill(x[1], x[2])]
           iter == CHOOSE it : it = [T \in SUBSET D |->
                      IF T = {} THEN base
                      ELSE ReplayFill(it[T \ {Max(T)}], fills[Max(T)])]
           F == [n \in 0 .. Len(fills) |-> iter[1 .. n]]
<1>1. base \in A
  BY UnplayedType
<1>2. op \in [A \X E -> A]
  BY ReplayFillKeeps
<1>3. PICK f : FoldRecursion(f, A, base, fills, op)
  <2> HIDE DEF A, E, base, op
  <2>1. fills \in Seq(E)
    BY DEF E
  <2> QED
    BY <1>1, <1>2, <2>1, FoldExists
<1>4. D = 1 .. Len(fills) /\ Len(fills) \in Nat /\ \A i \in D : fills[i] \in E
  OBVIOUS
<1>5. ASSUME NEW T \in SUBSET D, T # {}
      PROVE  f[T] = ReplayFill(f[T \ {Max(T)}], fills[Max(T)])
  <2> HIDE DEF A, E, base
  <2>1. f[T \ {Max(T)}] \in A /\ fills[Max(T)] \in E
        /\ f[T] = op[<<f[T \ {Max(T)}], fills[Max(T)]>>]
    <3> HIDE DEF op
    <3> QED
      BY <1>3, <1>4, <1>5 DEF FoldRecursion
  <2> QED
    BY <2>1
<1>6. f = [T \in SUBSET D |->
              IF T = {} THEN base ELSE ReplayFill(f[T \ {Max(T)}], fills[Max(T)])]
  <2> HIDE DEF A, base, op
  <2> QED
    BY <1>3, <1>5 DEF FoldRecursion
<1>7. iter = [T \in SUBSET D |->
                 IF T = {} THEN base ELSE ReplayFill(iter[T \ {Max(T)}], fills[Max(T)])]
  <2> HIDE DEF base
  <2> QED
    BY <1>6
<1>8. Played(fills, symbols, opening) = iter[D]
  BY DEF Played, FoldLeft, MapThenFoldSet
<1> HIDE DEF iter, base
<1>9. F[0] = base /\ Played(fills, symbols, opening) = F[Len(fills)]
  <2>1. 1 .. 0 = {}
    OBVIOUS
  <2> QED
    BY <1>4, <1>7, <1>8, <2>1
<1>10. ASSUME NEW n \in 1 .. Len(fills)
       PROVE  F[n] = ReplayFill(F[n - 1], fills[n])
  <2>1. n \in Nat \ {0} /\ n - 1 \in 0 .. Len(fills) /\ n \in 0 .. Len(fills)
        /\ 1 .. n \in SUBSET D /\ 1 .. n # {}
    BY <1>4
  <2>2. Max(1 .. n) = n /\ (1 .. n) \ {Max(1 .. n)} = 1 .. n - 1
    BY <2>1, MaxOfPrefix
  <2>3. iter[1 .. n] = ReplayFill(iter[(1 .. n) \ {Max(1 .. n)}], fills[Max(1 .. n)])
    BY <1>7, <2>1
  <2> QED
    BY <2>1, <2>2, <2>3
<1> HIDE DEF F
<1> QED
  BY <1>9, <1>10 DEF PlayedBy, base

\* A replay of one fill more is the replay so far, and that fill.
LEMMA PlayedAppend ==
    ASSUME NEW symbols, NEW opening \in Int, NEW fills \in Seq(LedgerFill(symbols)),
           NEW fill \in LedgerFill(symbols)
    PROVE  Played(Append(fills, fill), symbols, opening)
              = ReplayFill(Played(fills, symbols, opening), fill)
<1> DEFINE more == Append(fills, fill)
           m == Len(fills)
<1>1. /\ more \in Seq(LedgerFill(symbols)) /\ Len(more) = m + 1 /\ more[m + 1] = fill
      /\ m \in Nat /\ \A n \in 1 .. m : more[n] = fills[n]
  OBVIOUS
<1>2. PICK F : PlayedBy(F, fills, symbols, opening)
  BY PlayedRun
<1> HIDE DEF more
<1>3. PICK G : PlayedBy(G, more, symbols, opening)
  BY <1>1, PlayedRun
<1>4. F[0] = G[0] /\ \A n \in 1 .. m : F[n - 1] = G[n - 1] => F[n] = G[n]
  <2>1. ASSUME NEW n \in 1 .. m, F[n - 1] = G[n - 1] PROVE F[n] = G[n]
    <3>1. n \in 1 .. Len(more)
      BY <1>1
    <3> QED
      BY <1>1, <1>2, <1>3, <2>1, <3>1 DEF PlayedBy
  <2> QED
    BY <1>2, <1>3, <2>1 DEF PlayedBy
<1>5. F[m] = G[m]
  <2> HIDE DEF m
  <2> QED
    BY <1>1, <1>4, RunsAgree
<1>6. m + 1 \in 1 .. Len(more) /\ (m + 1) - 1 = m
  BY <1>1
<1>7. G[m + 1] = ReplayFill(G[m], fill)
  BY <1>1, <1>3, <1>6 DEF PlayedBy
<1> QED
  BY <1>1, <1>2, <1>3, <1>5, <1>7 DEF PlayedBy, more

LEMMA PlayedNothing ==
    ASSUME NEW symbols, NEW opening \in Int
    PROVE  Played(<<>>, symbols, opening) = Unplayed(symbols, opening)
<1>1. <<>> \in Seq(LedgerFill(symbols)) /\ Len(<<>>) = 0
  OBVIOUS
<1>2. PICK F : PlayedBy(F, <<>>, symbols, opening)
  BY <1>1, PlayedRun
<1> QED
  BY <1>1, <1>2 DEF PlayedBy

\* Of a symbol that no fill is of, and whatever is replayed, the types hold.
LEMMA PlayedType ==
    ASSUME NEW symbols, NEW opening \in Int, NEW fills \in Seq(LedgerFill(symbols))
    PROVE  Played(fills, symbols, opening) \in LedgerAccount(symbols)
<1> DEFINE A == LedgerAccount(symbols)
           m == Len(fills)
<1>1. PICK F : PlayedBy(F, fills, symbols, opening)
  BY PlayedRun
<1> DEFINE N == {n \in Nat : n <= m => F[n] \in A}
<1>2. m \in Nat /\ \A i \in 1 .. m : fills[i] \in LedgerFill(symbols)
  OBVIOUS
<1>3. 0 \in N
  BY <1>1, UnplayedType DEF PlayedBy
<1> HIDE DEF A
<1>4. ASSUME NEW n \in N PROVE n + 1 \in N
  <2>1. n \in Nat /\ (n + 1) - 1 = n
    OBVIOUS
  <2>2. ASSUME n + 1 <= m PROVE F[n + 1] \in A
    <3>1. n + 1 \in 1 .. m /\ n <= m
      BY <1>2, <2>1, <2>2
    <3>2. F[n] \in A /\ fills[n + 1] \in LedgerFill(symbols)
      BY <1>2, <1>4, <3>1
    <3>3. F[n + 1] = ReplayFill(F[n], fills[n + 1])
      BY <1>1, <2>1, <3>1 DEF PlayedBy
    <3> QED
      BY <3>2, <3>3, ReplayFillKeeps DEF A
  <2> QED
    BY <2>1, <2>2
<1>5. N = Nat
  <2>1. N \in SUBSET Nat
    OBVIOUS
  <2> HIDE DEF N
  <2> QED
    BY <1>3, <1>4, <2>1, SetInduction
<1> QED
  BY <1>1, <1>2, <1>5 DEF PlayedBy, A

-----------------------------------------------------------------------------
(* Refusals that an operator is told of, refusal by refusal                 *)

RefusalsRecord == [window : Seq(Int), last : Int, sent : Seq(BOOLEAN)]

LEMMA RefusalType ==
    ASSUME NEW refusal \in Refusal
    PROVE  refusal.at \in Nat /\ refusal.clock \in Nat
  BY RefusalsAssumption DEF Refusal

LEMMA FirstWithinFacts ==
    ASSUME NEW times \in Seq(Int), NEW at \in Int, Len(times) > 0, times[Len(times)] = at
    PROVE  /\ FirstWithin(times, at) \in 1 .. Len(times)
           /\ at - times[FirstWithin(times, at)] <= Window
           /\ \A j \in 1 .. FirstWithin(times, at) - 1 : at - times[j] > Window
<1> DEFINE T == {i \in 1 .. Len(times) : at - times[i] <= Window}
<1>1. Len(times) \in T
  <2>1. Len(times) \in 1 .. Len(times) /\ at - at <= Window
    BY RefusalsAssumption
  <2> QED
    BY <2>1
<1>2. PICK x \in T : \A y \in T : x <= y
  <2>1. T \in SUBSET Nat /\ T # {}
    BY <1>1
  <2> HIDE DEF T
  <2> QED
    BY <2>1, LeastNumber
<1>3. /\ x \in 1 .. Len(times) /\ at - times[x] <= Window
      /\ \A j \in 1 .. x - 1 : at - times[j] > Window
  <2>1. ASSUME NEW j \in 1 .. x - 1 PROVE at - times[j] > Window
    <3>1. j \notin T /\ j \in 1 .. Len(times) /\ times[j] \in Int
      BY <1>2
    <3> QED
      BY <3>1, RefusalsAssumption
  <2> QED
    BY <2>1
<1> QED
  BY <1>3 DEF FirstWithin

LEMMA CountedFacts ==
    ASSUME NEW window \in Seq(Int), NEW at \in Int
    PROVE  \E first \in 1 .. Len(window) + 1 :
              /\ Counted(window, at) = SubSeq(Append(window, at), first, Len(window) + 1)
              /\ at - Append(window, at)[first] <= Window
              /\ \A j \in 1 .. first - 1 : at - window[j] > Window
<1> DEFINE all == Append(window, at)
<1>1. all \in Seq(Int) /\ Len(all) = Len(window) + 1 /\ all[Len(all)] = at
      /\ Len(window) \in Nat /\ \A j \in 1 .. Len(window) : all[j] = window[j]
  BY AppendProperties, LenProperties
<1>2. Counted(window, at) = SubSeq(all, FirstWithin(all, at), Len(all))
  BY DEF Counted
<1> HIDE DEF all
<1>3. /\ FirstWithin(all, at) \in 1 .. Len(all)
      /\ at - all[FirstWithin(all, at)] <= Window
      /\ \A j \in 1 .. FirstWithin(all, at) - 1 : at - all[j] > Window
  BY <1>1, FirstWithinFacts
<1>4. ASSUME NEW j \in 1 .. FirstWithin(all, at) - 1 PROVE at - window[j] > Window
  <2>1. j \in 1 .. Len(window)
    BY <1>1, <1>3
  <2> QED
    BY <1>1, <1>3, <2>1
<1> QED
  BY <1>1, <1>2, <1>3, <1>4 DEF all

LEMMA CountedType ==
    ASSUME NEW window \in Seq(Int), NEW at \in Int
    PROVE  Counted(window, at) \in Seq(Int)
<1>1. PICK first \in 1 .. Len(window) + 1 :
          Counted(window, at) = SubSeq(Append(window, at), first, Len(window) + 1)
  BY CountedFacts
<1> DEFINE all == Append(window, at)
<1>2. all \in Seq(Int) /\ Len(all) = Len(window) + 1 /\ Len(window) \in Nat
  BY AppendProperties, LenProperties
<1> HIDE DEF all
<1>3. \A i \in first .. Len(window) + 1 : all[i] \in Int
  BY <1>2
<1>4. SubSeq(all, first, Len(window) + 1) \in Seq(Int)
  BY <1>2, <1>3, SubSeqProperties
<1> QED
  BY <1>1, <1>4 DEF all

LEMMA RefusedType ==
    ASSUME NEW r \in RefusalsRecord, NEW refusal \in Refusal
    PROVE  Refused(r, refusal) \in RefusalsRecord
<1>1. r.window \in Seq(Int) /\ r.last \in Int /\ r.sent \in Seq(BOOLEAN)
  BY DEF RefusalsRecord
<1>2. refusal.at \in Int /\ refusal.clock \in Int
  BY RefusalType
<1> DEFINE window == Counted(r.window, refusal.at)
           out == Out(r, window, refusal.clock)
<1>3. window \in Seq(Int)
  BY <1>1, <1>2, CountedType
<1>4. out \in BOOLEAN
  BY Zenon DEF Out
<1>5. Append(r.sent, out) \in Seq(BOOLEAN)
  <2> HIDE DEF out
  <2> QED
    BY <1>1, <1>4
<1> HIDE DEF window, out
<1>6. [window |-> window, last |-> IF out THEN refusal.clock ELSE r.last,
       sent |-> Append(r.sent, out)] \in RefusalsRecord
  BY <1>1, <1>2, <1>3, <1>5 DEF RefusalsRecord
<1> QED
  BY <1>6 DEF Refused, window, out

LEMMA NoRefusalsType == NoRefusals \in RefusalsRecord
  BY DEF NoRefusals, RefusalsRecord, None

\* What is remembered after each of the refusals.
RefusedBy(F, refusals) ==
    /\ F[0] = NoRefusals
    /\ \A n \in 1 .. Len(refusals) : F[n] = Refused(F[n - 1], refusals[n])
    /\ \A n \in 0 .. Len(refusals) : F[n] \in RefusalsRecord
    /\ RefusalsSent(refusals) = F[Len(refusals)].sent

LEMMA RefusedRun ==
    ASSUME NEW refusals \in Seq(Refusal)
    PROVE  \E F : RefusedBy(F, refusals)
<1> DEFINE A == RefusalsRecord
           E == Refusal
           D == DOMAIN refusals
           base == NoRefusals
           op == [x \in A \X E |-> Refused(x[1], x[2])]
           iter == CHOOSE it : it = [T \in SUBSET D |->
                      IF T = {} THEN base
                      ELSE Refused(it[T \ {Max(T)}], refusals[Max(T)])]
           F == [n \in 0 .. Len(refusals) |-> iter[1 .. n]]
<1>1. base \in A
  BY NoRefusalsType
<1>2. op \in [A \X E -> A]
  BY RefusedType
<1>3. PICK f : FoldRecursion(f, A, base, refusals, op)
  <2> HIDE DEF A, E, base, op
  <2>1. refusals \in Seq(E)
    BY DEF E
  <2> QED
    BY <1>1, <1>2, <2>1, FoldExists
<1>4. D = 1 .. Len(refusals) /\ Len(refusals) \in Nat /\ \A i \in D : refusals[i] \in E
  OBVIOUS
<1>5. ASSUME NEW T \in SUBSET D, T # {}
      PROVE  f[T] = Refused(f[T \ {Max(T)}], refusals[Max(T)])
  <2> HIDE DEF A, E, base
  <2>1. f[T \ {Max(T)}] \in A /\ refusals[Max(T)] \in E
        /\ f[T] = op[<<f[T \ {Max(T)}], refusals[Max(T)]>>]
    <3> HIDE DEF op
    <3> QED
      BY <1>3, <1>4, <1>5 DEF FoldRecursion
  <2> QED
    BY <2>1
<1>6. f = [T \in SUBSET D |->
              IF T = {} THEN base ELSE Refused(f[T \ {Max(T)}], refusals[Max(T)])]
  <2> HIDE DEF A, base, op
  <2> QED
    BY <1>3, <1>5 DEF FoldRecursion
<1>7. iter = [T \in SUBSET D |->
                 IF T = {} THEN base ELSE Refused(iter[T \ {Max(T)}], refusals[Max(T)])]
  <2> HIDE DEF base
  <2> QED
    BY <1>6
<1>8. RefusalsSent(refusals) = iter[D].sent
  BY DEF RefusalsSent, FoldLeft, MapThenFoldSet
<1> HIDE DEF iter, base
<1>9. F[0] = base /\ RefusalsSent(refusals) = F[Len(refusals)].sent
  <2>1. 1 .. 0 = {}
    OBVIOUS
  <2> QED
    BY <1>4, <1>7, <1>8, <2>1
<1>10. ASSUME NEW n \in 1 .. Len(refusals)
       PROVE  F[n] = Refused(F[n - 1], refusals[n])
  <2>1. n \in Nat \ {0} /\ n - 1 \in 0 .. Len(refusals) /\ n \in 0 .. Len(refusals)
        /\ 1 .. n \in SUBSET D /\ 1 .. n # {}
    <3>1. n \in 1 .. n /\ n \in Nat \ {0}
      BY <1>4
    <3>2. n - 1 \in 0 .. Len(refusals) /\ n \in 0 .. Len(refusals) /\ 1 .. n \subseteq D
      BY <1>4
    <3> QED
      BY <3>1, <3>2
  <2>2. Max(1 .. n) = n /\ (1 .. n) \ {Max(1 .. n)} = 1 .. n - 1
    BY <2>1, MaxOfPrefix
  <2>3. iter[1 .. n] = Refused(iter[(1 .. n) \ {Max(1 .. n)}], refusals[Max(1 .. n)])
    BY <1>7, <2>1
  <2> QED
    BY <2>1, <2>2, <2>3
<1> HIDE DEF F, A
<1> DEFINE N == {n \in Nat : n <= Len(refusals) => F[n] \in A}
<1>11. 0 \in N
  BY <1>1, <1>9
<1>12. ASSUME NEW n \in N PROVE n + 1 \in N
  <2>1. n \in Nat /\ (n + 1) - 1 = n
    OBVIOUS
  <2>2. ASSUME n + 1 <= Len(refusals) PROVE F[n + 1] \in A
    <3>1. n + 1 \in 1 .. Len(refusals) /\ n <= Len(refusals)
      BY <1>4, <2>1, <2>2
    <3>2. F[n] \in A /\ refusals[n + 1] \in Refusal /\ F[n + 1] = Refused(F[n], refusals[n + 1])
      BY <1>4, <1>10, <1>12, <2>1, <3>1
    <3> QED
      BY <3>2, RefusedType DEF A
  <2> QED
    BY <2>1, <2>2
<1>13. N = Nat
  <2>1. N \in SUBSET Nat
    OBVIOUS
  <2> HIDE DEF N
  <2> QED
    BY <1>11, <1>12, <2>1, SetInduction
<1>14. \A n \in 0 .. Len(refusals) : F[n] \in A
  BY <1>4, <1>13
<1> QED
  BY <1>9, <1>10, <1>14 DEF RefusedBy, base, A

\* The window after k refusals: those from the first on, and no earlier ones.
Spans(window, refusals, first, k) ==
    /\ first \in 1 .. k + 1
    /\ Len(window) = k - first + 1
    /\ \A i \in 1 .. Len(window) : window[i] = refusals[first - 1 + i].at
    /\ \A j \in 1 .. first - 1 : refusals[k].at - refusals[j].at > Window
    /\ k > 0 => first <= k /\ refusals[k].at - refusals[first].at <= Window

LEMMA HistoryFacts ==
    ASSUME NEW n \in Nat, NEW refusals \in Histories(n)
    PROVE  /\ refusals \in Seq(Refusal) /\ Len(refusals) = n
           /\ \A i \in 1 .. n : refusals[i].at \in Nat /\ refusals[i].clock \in Nat
           /\ \A j \in 1 .. n : \A i \in 1 .. j : refusals[i].at <= refusals[j].at
<1>1. refusals \in [1 .. n -> Refusal]
  BY DEF Histories
<1>2. /\ refusals \in Seq(Refusal) /\ Len(refusals) = n
      /\ \A i \in 1 .. n : refusals[i].at \in Nat /\ refusals[i].clock \in Nat
  BY <1>1, RefusalType
<1> DEFINE Risen(j) == j \in 1 .. n => \A i \in 1 .. j : refusals[i].at <= refusals[j].at
           N == {j \in Nat : Risen(j)}
<1>3. 0 \in N
  OBVIOUS
<1>4. ASSUME NEW j \in N PROVE j + 1 \in N
  <2>1. ASSUME j + 1 \in 1 .. n, NEW i \in 1 .. j + 1
        PROVE  refusals[i].at <= refusals[j + 1].at
    <3>1. CASE i = j + 1
      BY <1>2, <2>1, <3>1
    <3>2. CASE i # j + 1
      <4>1. i \in 1 .. j /\ j \in 1 .. n - 1 /\ j \in 1 .. n /\ i \in 1 .. n
        BY <2>1, <3>2
      <4>2. refusals[i].at <= refusals[j].at
        BY <1>4, <4>1
      <4>3. refusals[j].at <= refusals[j + 1].at
        BY <4>1 DEF Histories
      <4> QED
        BY <1>2, <2>1, <4>1, <4>2, <4>3
    <3> QED
      BY <3>1, <3>2
  <2> QED
    BY <2>1
<1>5. N = Nat
  <2>1. N \in SUBSET Nat
    OBVIOUS
  <2> HIDE DEF N
  <2> QED
    BY <1>3, <1>4, <2>1, SetInduction
<1> QED
  BY <1>2, <1>5

\* The next refusal moves the window on.
LEMMA CountedSpans ==
    ASSUME NEW n \in Nat, NEW refusals \in Histories(n), NEW k \in 0 .. n - 1,
           NEW window \in Seq(Int), NEW first, Spans(window, refusals, first, k)
    PROVE  \E next : Spans(Counted(window, refusals[k + 1].at), refusals, next, k + 1)
<1> DEFINE at == refusals[k + 1].at
           all == Append(window, at)
           m == Len(window)
<1>1. /\ at \in Int /\ k \in Nat /\ k + 1 \in 1 .. n
      /\ \A i \in 1 .. n : refusals[i].at \in Nat
      /\ \A i \in 1 .. k + 1 : refusals[i].at <= at
  BY HistoryFacts
<1>2. /\ first \in 1 .. k + 1 /\ m = k - first + 1 /\ m \in Nat
      /\ \A i \in 1 .. m : window[i] = refusals[first - 1 + i].at
      /\ \A j \in 1 .. first - 1 : refusals[k].at - refusals[j].at > Window
  BY DEF Spans
<1>3. PICK g \in 1 .. m + 1 :
         /\ Counted(window, at) = SubSeq(all, g, m + 1)
         /\ at - all[g] <= Window
         /\ \A j \in 1 .. g - 1 : at - window[j] > Window
  <2> HIDE DEF at
  <2> QED
    BY <1>1, CountedFacts
<1> DEFINE next == first - 1 + g
<1>4. /\ all \in Seq(Int) /\ Len(all) = m + 1 /\ all[m + 1] = at
      /\ \A i \in 1 .. m : all[i] = window[i]
  <2> HIDE DEF at
  <2> QED
    BY <1>1, AppendProperties
<1> HIDE DEF all
<1>5. \A i \in 1 .. m + 1 : all[i] = refusals[first - 1 + i].at
  <2> TAKE i \in 1 .. m + 1
  <2>1. CASE i = m + 1
    <3>1. first - 1 + i = k + 1
      BY <1>1, <1>2, <2>1
    <3> QED
      BY <1>4, <2>1, <3>1
  <2>2. CASE i # m + 1
    <3>1. i \in 1 .. m
      BY <1>2, <2>2
    <3> QED
      BY <1>2, <1>4, <3>1
  <2> QED
    BY <2>1, <2>2
<1>6. /\ next \in 1 .. k + 1 /\ next \in 1 .. (k + 1) + 1 /\ g \in Int /\ m + 1 \in Int
      /\ (m + 1) - g + 1 = (k + 1) - next + 1 /\ g <= m + 1
  BY <1>1, <1>2
<1> DEFINE after == SubSeq(all, g, m + 1)
<1>7. /\ Len(after) = (k + 1) - next + 1
      /\ \A i \in 1 .. Len(after) : after[i] = all[g + i - 1]
  <2>1. \A i \in g .. m + 1 : all[i] \in Int
    BY <1>2, <1>4
  <2> HIDE DEF m, next
  <2> QED
    BY <1>6, <2>1, SubSeqProperties
<1> HIDE DEF after
<1>8. ASSUME NEW i \in 1 .. Len(after) PROVE after[i] = refusals[next - 1 + i].at
  <2>1. g + i - 1 \in 1 .. m + 1 /\ first - 1 + (g + i - 1) = next - 1 + i
    BY <1>1, <1>2, <1>6, <1>7
  <2> QED
    BY <1>5, <1>7, <2>1
<1>9. ASSUME NEW j \in 1 .. next - 1 PROVE at - refusals[j].at > Window
  <2>1. CASE j < first
    <3>1. j \in 1 .. first - 1 /\ k \in 1 .. n /\ k \in 1 .. k + 1 /\ j \in 1 .. n
      BY <1>1, <1>2, <2>1
    <3>2. refusals[k].at - refusals[j].at > Window /\ refusals[k].at <= at
      BY <1>1, <1>2, <3>1
    <3>3. refusals[k].at \in Int /\ refusals[j].at \in Int /\ at \in Int /\ Window \in Int
      BY <1>1, <3>1, RefusalsAssumption
    <3> HIDE DEF at
    <3> QED
      BY ONLY <3>2, <3>3
  <2>2. CASE j >= first
    <3> DEFINE i == j - first + 1
    <3>1. i \in 1 .. g - 1 /\ i \in 1 .. m /\ first - 1 + i = j
      BY <1>1, <1>2, <2>2
    <3> HIDE DEF i, at, m
    <3>2. at - window[i] > Window /\ window[i] = refusals[first - 1 + i].at
      BY <1>2, <1>3, <3>1
    <3> QED
      BY <3>1, <3>2
  <2> QED
    BY <1>2, <2>1, <2>2
<1>10. at - refusals[next].at <= Window
  BY <1>3, <1>5
<1> HIDE DEF next, at
<1>11. Spans(after, refusals, next, k + 1)
  <2>1. next <= k + 1
    BY <1>1, <1>6
  <2> QED
    BY <1>6, <1>7, <1>8, <1>9, <1>10, <2>1 DEF Spans, at
<1> QED
  BY <1>3, <1>11 DEF after, at

\* There are three in the window just when the last one repeats two others.
LEMMA SpansRepeat ==
    ASSUME NEW n \in Nat, NEW refusals \in Histories(n), NEW k \in 1 .. n,
           NEW window, NEW first, Spans(window, refusals, first, k)
    PROVE  Repeated(refusals, k) <=> Len(window) >= 3
<1>1. /\ \A i \in 1 .. n : refusals[i].at \in Nat
      /\ \A j \in 1 .. n : \A i \in 1 .. j : refusals[i].at <= refusals[j].at
  BY HistoryFacts
<1>2. /\ first \in 1 .. k /\ Len(window) = k - first + 1
      /\ \A j \in 1 .. first - 1 : refusals[k].at - refusals[j].at > Window
      /\ refusals[k].at - refusals[first].at <= Window
  BY DEF Spans
<1>3. {j \in 1 .. k : refusals[k].at - refusals[j].at <= Window} = first .. k
  <2>1. ASSUME NEW j \in 1 .. k
        PROVE  refusals[k].at - refusals[j].at <= Window <=> first <= j
    <3>1. refusals[k].at \in Nat /\ refusals[j].at \in Nat /\ refusals[first].at \in Nat
      BY <1>1, <1>2
    <3>2. CASE first <= j
      <4>1. first \in 1 .. j /\ j \in 1 .. n
        BY <1>2, <3>2
      <4>2. refusals[first].at <= refusals[j].at
        BY <1>1, <4>1
      <4> QED
        BY <1>2, <3>1, <3>2, <4>2, RefusalsAssumption
    <3>3. CASE ~(first <= j)
      <4>1. j \in 1 .. first - 1
        BY <1>2, <3>3
      <4>2. refusals[k].at - refusals[j].at > Window
        BY <1>2, <4>1
      <4> QED
        BY <3>1, <3>3, <4>2, RefusalsAssumption
    <3> QED
      BY <3>2, <3>3
  <2> QED
    BY <1>2, <2>1
<1>4. Cardinality(first .. k) = k - first + 1
  BY <1>2, FS_Interval
<1> QED
  BY <1>2, <1>3, <1>4 DEF Repeated

\* What is said of the i-th refusal.
Told(out, refusals, i) ==
    /\ out[i] => Repeated(refusals, i)
    /\ Repeated(refusals, i) =>
          \E j \in 1 .. i : out[j] /\ refusals[i].clock - refusals[j].clock < Cooldown

\* What is remembered after k refusals.
Remembered(r, refusals, k) ==
    /\ Len(r.sent) = k
    /\ \E first : Spans(r.window, refusals, first, k)
    /\ r.last = None \/ \E j \in 1 .. k : r.sent[j] /\ r.last = refusals[j].clock
    /\ \A i \in 1 .. k : Told(r.sent, refusals, i)

LEMMA RefusedRemembers ==
    ASSUME NEW n \in Nat, NEW refusals \in Histories(n), NEW k \in 0 .. n - 1,
           NEW r \in RefusalsRecord, Remembered(r, refusals, k)
    PROVE  Remembered(Refused(r, refusals[k + 1]), refusals, k + 1)
<1> DEFINE refusal == refusals[k + 1]
           window == Counted(r.window, refusal.at)
           out == Out(r, window, refusal.clock)
           sent == Append(r.sent, out)
           last == IF out THEN refusal.clock ELSE r.last
<1>1. /\ r.window \in Seq(Int) /\ r.last \in Int /\ r.sent \in Seq(BOOLEAN)
      /\ k \in Nat /\ k + 1 \in 1 .. n /\ refusal.clock \in Nat
      /\ \A i \in 1 .. n : refusals[i].clock \in Nat
  BY HistoryFacts DEF RefusalsRecord
<1>2. PICK next : Spans(window, refusals, next, k + 1)
  BY <1>1, CountedSpans DEF Remembered
<1>3. Repeated(refusals, k + 1) <=> Len(window) >= 3
  <2> HIDE DEF window
  <2> QED
    BY <1>1, <1>2, SpansRepeat
<1>4. out \in BOOLEAN
  <2> HIDE DEF window
  <2> QED
    BY Zenon DEF Out
<1>5. Len(sent) = k + 1 /\ sent[k + 1] = out /\ \A i \in 1 .. k : sent[i] = r.sent[i]
  <2>1. Len(r.sent) = k
    BY DEF Remembered
  <2> HIDE DEF out
  <2> QED
    BY <1>1, <1>4, <2>1, AppendProperties
<1> HIDE DEF sent
<1>6. last = None \/ \E j \in 1 .. k + 1 : sent[j] /\ last = refusals[j].clock
  <2>1. CASE out
    <3>1. last = refusals[k + 1].clock /\ k + 1 \in 1 .. k + 1
      BY <1>1, <2>1
    <3> HIDE DEF last, out
    <3> QED
      BY <1>5, <2>1, <3>1, Zenon
  <2>2. CASE ~out
    <3>1. last = r.last
      BY <2>2
    <3> HIDE DEF last, out
    <3>2. CASE r.last = None
      BY <3>1, <3>2
    <3>3. ASSUME NEW j \in 1 .. k, r.sent[j], r.last = refusals[j].clock
          PROVE  \E i \in 1 .. k + 1 : sent[i] /\ last = refusals[i].clock
      <4>1. j \in 1 .. k + 1
        BY <1>1
      <4> QED
        BY <1>5, <3>1, <3>3, <4>1
    <3> QED
      BY <3>2, <3>3 DEF Remembered
  <2> QED
    BY <2>1, <2>2
<1>7. Told(sent, refusals, k + 1)
  <2>1. out => Repeated(refusals, k + 1)
    BY <1>3 DEF Out
  <2>2. ASSUME Repeated(refusals, k + 1)
        PROVE  \E j \in 1 .. k + 1 :
                  sent[j] /\ refusals[k + 1].clock - refusals[j].clock < Cooldown
    <3>1. CASE out
      <4>1. refusals[k + 1].clock - refusals[k + 1].clock < Cooldown
        BY <1>1, RefusalsAssumption
      <4>2. k + 1 \in 1 .. k + 1
        BY <1>1
      <4> HIDE DEF out
      <4> QED
        BY <1>5, <3>1, <4>1, <4>2, Zenon
    <3>2. CASE ~out
      <4>1. r.last # None /\ refusal.clock - r.last < Cooldown
        <5>1. Len(window) >= 3
          BY <1>3, <2>2
        <5>2. ~(r.last = None \/ refusal.clock - r.last >= Cooldown)
          BY <3>2, <5>1 DEF Out
        <5> HIDE DEF refusal
        <5> QED
          BY <1>1, <5>2, RefusalsAssumption
      <4>2. PICK j \in 1 .. k : r.sent[j] /\ r.last = refusals[j].clock
        BY <4>1 DEF Remembered
      <4>3. j \in 1 .. k + 1
        BY <1>1
      <4> HIDE DEF out
      <4> QED
        BY <1>5, <4>1, <4>2, <4>3
    <3> QED
      BY <3>1, <3>2
  <2> HIDE DEF out
  <2> QED
    BY <1>5, <2>1, <2>2 DEF Told
<1>8. ASSUME NEW i \in 1 .. k PROVE Told(sent, refusals, i)
  <2>1. Told(r.sent, refusals, i)
    BY DEF Remembered
  <2>2. sent[i] = r.sent[i] /\ \A j \in 1 .. i : sent[j] = r.sent[j]
    BY <1>1, <1>5
  <2> QED
    BY <2>1, <2>2 DEF Told
<1> DEFINE done == [window |-> window, last |-> last, sent |-> sent]
<1>9. Refused(r, refusal) = done
  BY DEF Refused, sent
<1>10. done.window = window /\ done.last = last /\ done.sent = sent
  OBVIOUS
<1>11. \A i \in 1 .. k + 1 : Told(sent, refusals, i)
  <2>1. \A i \in 1 .. k + 1 : i = k + 1 \/ i \in 1 .. k
    BY <1>1
  <2> QED
    BY <1>7, <1>8, <2>1
<1> HIDE DEF done, last, window
<1>12. Remembered(done, refusals, k + 1)
  BY <1>2, <1>5, <1>6, <1>10, <1>11 DEF Remembered
<1> QED
  BY <1>9, <1>12

\* Whatever refusals follow one another, however many: an alert says the truth,
\* and what repeats is told within a cooldown.
THEOREM HistoriesAreTold == HistoriesTold
<1> SUFFICES ASSUME NEW n \in 0 .. MaxRefusals, NEW refusals \in Histories(n)
             PROVE  \A i \in 1 .. n : Told(RefusalsSent(refusals), refusals, i)
  BY DEF HistoriesTold, Told
<1>1. n \in Nat /\ refusals \in Seq(Refusal) /\ Len(refusals) = n
  BY HistoryFacts, RefusalsAssumption
<1>2. PICK F : RefusedBy(F, refusals)
  BY <1>1, RefusedRun
<1> DEFINE N == {k \in Nat : k <= n => Remembered(F[k], refusals, k)}
<1>3. 0 \in N
  <2>1. F[0] = NoRefusals
    BY <1>2 DEF RefusedBy
  <2>2. Spans(<<>>, refusals, 1, 0)
    <3>1. Len(<<>>) = 0 /\ 1 .. 0 = {}
      OBVIOUS
    <3> QED
      BY <3>1 DEF Spans
  <2>3. Remembered(NoRefusals, refusals, 0)
    <3>1. 1 .. 0 = {} /\ Len(NoRefusals.sent) = 0 /\ NoRefusals.last = None
          /\ NoRefusals.window = <<>>
      BY DEF NoRefusals
    <3> QED
      BY <2>2, <3>1 DEF Remembered
  <2> QED
    BY <2>1, <2>3
<1>4. ASSUME NEW k \in N PROVE k + 1 \in N
  <2>1. ASSUME k + 1 <= n PROVE Remembered(F[k + 1], refusals, k + 1)
    <3>1. k \in 0 .. n - 1 /\ k \in 0 .. n /\ k + 1 \in 1 .. n /\ (k + 1) - 1 = k /\ k <= n
      BY <1>1, <2>1
    <3>2. F[k] \in RefusalsRecord /\ F[k + 1] = Refused(F[k], refusals[k + 1])
      BY <1>1, <1>2, <3>1 DEF RefusedBy
    <3>3. Remembered(F[k], refusals, k)
      BY <1>4, <3>1
    <3> QED
      BY <1>1, <3>1, <3>2, <3>3, RefusedRemembers
  <2> QED
    BY <2>1
<1>5. N = Nat
  <2>1. N \in SUBSET Nat
    OBVIOUS
  <2> HIDE DEF N
  <2> QED
    BY <1>3, <1>4, <2>1, SetInduction
<1>6. Remembered(F[n], refusals, n)
  BY <1>1, <1>5
<1> QED
  BY <1>1, <1>2, <1>6 DEF RefusedBy, Remembered
=============================================================================
