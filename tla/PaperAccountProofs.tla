------------------------- MODULE PaperAccountProofs -------------------------
(***************************************************************************)
(* Theorems about PaperAccount: what positions keep over the days, what    *)
(* the account holds in all, and that the rows are what their fills make,  *)
(* for every set of symbols, prices, targets and limits, every symbol rule *)
(* and however many fills.                                                 *)
(***************************************************************************)
EXTENDS PaperAccount, RulesProofs

-----------------------------------------------------------------------------
(* Rows and fills *)

LEMMA NotionalIsNat ==
    ASSUME NEW fill \in Fill
    PROVE  fill.qty * fill.price \in Nat
<1>1. fill.qty \in Nat /\ fill.price \in Nat
  BY AccountAssumption DEF Fill
<1> QED
  BY <1>1

\* A release changes what may be sold, and only of shares held overnight.
LEMMA ReleaseKeeps ==
    ASSUME NEW p \in PositionRow, NEW h \in Nat, NEW x \in Nat, NEW d \in 1 .. MaxDay,
           NEW date \in Int, date <= d, Kept(p, h, x, d),
           NEW r, r = Release(p, date, d)
    PROVE  /\ r \in PositionRow /\ Kept(r, h, x, d)
           /\ r.qty = p.qty /\ r.mark = p.mark /\ r.avg = p.avg
<1>1. CASE p.qty = 0 \/ p.sellable = p.qty \/ p.updated >= date
  BY <1>1 DEF Release
<1>2. CASE ~(p.qty = 0 \/ p.sellable = p.qty \/ p.updated >= date)
  <2>1. r = [p EXCEPT !.sellable = p.qty, !.updated = d]
    BY <1>2 DEF Release
  <2>2. /\ r \in PositionRow
        /\ r.qty = p.qty /\ r.mark = p.mark /\ r.avg = p.avg
        /\ r.sellable = p.qty /\ r.updated = d
    <3>1. p.qty \in Nat /\ d \in 0 .. MaxDay
      BY AccountAssumption DEF PositionRow
    <3> QED
      BY <2>1, <3>1 DEF PositionRow
  <2>3. p.updated < d
    BY <1>2 DEF PositionRow
  <2> QED
    BY <2>2, <2>3 DEF Kept, OnGrid, PositionRow
<1> QED
  BY <1>1, <1>2

\* Rounding an average price to the grid of the database leaves a row.
LEMMA RowIsRow ==
    ASSUME NEW p \in PositionRow
    PROVE  /\ Row(p) \in PositionRow
           /\ Row(p).qty = p.qty /\ Row(p).sellable = p.sellable
           /\ Row(p).mark = p.mark /\ Row(p).updated = p.updated
<1> DEFINE n == 2 * p.avg[1] * Grid + p.avg[2]
           d == 2 * p.avg[2]
<1>1. p.avg[1] \in Nat /\ p.avg[2] \in Nat \ {0} /\ Grid \in Nat \ {0}
  BY FeeAssumption DEF PositionRow
<1>2. n \in Nat /\ d \in Nat \ {0}
  BY <1>1
<1>3. Row(p) = [p EXCEPT !.avg = <<n \div d, Grid>>]
  BY DEF Row
<1> HIDE DEF n, d
<1>4. n \div d \in Nat
  BY <1>2, DivMod
<1> QED
  BY <1>1, <1>3, <1>4 DEF PositionRow

\* A release never takes back what may be sold.
LEMMA ReleaseFrees ==
    ASSUME NEW p \in PositionRow, OnGrid(p.qty, p.sellable), NEW date, NEW now
    PROVE  Release(p, date, now).sellable >= p.sellable
<1>1. CASE p.qty = 0 \/ p.sellable = p.qty \/ p.updated >= date
  BY <1>1 DEF Release, OnGrid
<1>2. CASE ~(p.qty = 0 \/ p.sellable = p.qty \/ p.updated >= date)
  BY <1>2 DEF Release, OnGrid, PositionRow
<1> QED
  BY <1>1, <1>2

\* A fill the gate has let through leaves a position that is kept: what it
\* sold is added to the day's sales.
LEMMA AppliedKeeps ==
    ASSUME NEW p \in PositionRow, NEW h \in Nat, NEW x \in Nat, NEW d \in 1 .. MaxDay,
           Kept(p, h, x, d),
           NEW fill \in Fill, fill.day = d, fill.qty > 0, fill.qty % QtyStep = 0,
           fill.side = "buy" => (p.qty + fill.qty) * fill.price <= MaxSingle,
           fill.side = "sell" => /\ fill.qty <= p.sellable
                                 /\ (p.qty - fill.qty) * fill.price <= MaxSingle,
           NEW a, a = Applied(p, fill)
    PROVE  /\ a \in PositionRow
           /\ Kept(a, h, IF fill.side = "sell" THEN x + fill.qty ELSE x, d)
<1> DEFINE r == Release(p, d, d)
<1>1. /\ r \in PositionRow /\ Kept(r, h, x, d)
      /\ r.qty = p.qty /\ r.mark = p.mark /\ r.avg = p.avg
  BY ReleaseKeeps
<1>2. r.updated = d \/ r.qty = 0 \/ r.sellable = r.qty
  BY DEF Release, PositionRow, Kept
<1>3. r.sellable >= p.sellable
  BY ReleaseFrees DEF Kept
<1>4. /\ r.qty \in Nat /\ r.sellable \in Nat /\ r.sellable <= r.qty
      /\ r.qty % QtyStep = 0 /\ r.sellable % QtyStep = 0
      /\ r.avg[1] \in Nat /\ r.avg[2] \in Nat \ {0} /\ r.updated \in 0 .. MaxDay
  BY <1>1 DEF Kept, OnGrid, PositionRow
<1>5. x + r.sellable <= h
  BY <1>1, <1>2, <1>4 DEF Kept
<1>6. /\ fill.qty \in Nat \ {0} /\ fill.price \in Nat /\ d \in 0 .. MaxDay
      /\ QtyStep \in Nat \ {0} /\ MaxSingle \in Nat
      /\ fill.side \in {"buy", "sell"}
  <2>1. fill.qty \in Nat /\ fill.price \in Price /\ fill.side \in {"buy", "sell"}
    BY DEF Fill
  <2>2. fill.price \in Nat
    BY <2>1, AccountAssumption
  <2>3. d \in 0 .. MaxDay
    BY AccountAssumption
  <2>4. QtyStep \in Nat \ {0} /\ MaxSingle \in Nat
    BY RuleAssumption, LimitAssumption
  <2> QED
    BY <2>1, <2>2, <2>3, <2>4
<1> HIDE DEF r
<1>7. CASE fill.side = "buy"
  <2> DEFINE n == r.qty * r.avg[1] + fill.qty * fill.price * r.avg[2]
             m == (r.qty + fill.qty) * r.avg[2]
  <2>1. a = [qty |-> r.qty + fill.qty, sellable |-> r.sellable, avg |-> <<n, m>>,
             mark |-> fill.price, updated |-> d]
    BY <1>7 DEF Applied, Bought, r
  <2>2. n \in Nat
    BY <1>4, <1>6
  <2>3. m \in Nat \ {0}
    <3>1. r.qty + fill.qty \in Nat \ {0}
      BY <1>4, <1>6
    <3> QED
      BY <1>4, <3>1
  <2>4. (r.qty + fill.qty) % QtyStep = 0
    BY <1>4, <1>6, SumOfMultiples
  <2>5. (r.qty + fill.qty) * fill.price <= MaxSingle
    BY <1>1, <1>7
  <2> HIDE DEF n, m
  <2>6. a \in PositionRow
    BY <1>4, <1>6, <2>1, <2>2, <2>3 DEF PositionRow
  <2>7. /\ a.qty = r.qty + fill.qty /\ a.sellable = r.sellable
        /\ a.mark = fill.price /\ a.updated = d
    BY <2>1
  <2>8. OnGrid(a.qty, a.sellable)
    BY <1>4, <1>6, <2>4, <2>7 DEF OnGrid
  <2>9. Kept(a, h, x, d)
    BY <1>5, <2>5, <2>7, <2>8 DEF Kept
  <2> QED
    BY <1>7, <2>6, <2>9
<1>8. CASE fill.side = "sell"
  <2>1. a = Sold(r, fill)
    BY <1>7, <1>8 DEF Applied, r
  <2>2. fill.qty <= r.sellable /\ fill.qty <= r.qty
    BY <1>3, <1>4, <1>6, <1>8 DEF PositionRow
  <2>3. CASE fill.qty = r.qty
    <3>1. a = [qty |-> 0, sellable |-> 0, avg |-> <<0, Grid>>, mark |-> 0, updated |-> d]
      BY <2>1, <2>3 DEF Sold, Flat, NoPrice
    <3>2. a \in PositionRow
      BY <1>6, <3>1, FeeAssumption DEF PositionRow
    <3>3. OnGrid(a.qty, a.sellable)
      BY <1>6, <3>1 DEF OnGrid
    <3>4. Kept(a, h, x + fill.qty, d)
      BY <1>4, <1>5, <1>6, <2>2, <3>1, <3>3 DEF Kept
    <3> QED
      BY <1>8, <3>2, <3>4
  <2>4. CASE fill.qty # r.qty
    <3>1. a = [r EXCEPT !.qty = @ - fill.qty, !.sellable = @ - fill.qty,
                        !.mark = fill.price, !.updated = d]
      BY <2>1, <2>4 DEF Sold
    <3>2. /\ a.qty = r.qty - fill.qty /\ a.sellable = r.sellable - fill.qty
          /\ a.mark = fill.price /\ a.updated = d
      BY <1>1, <3>1 DEF PositionRow
    <3>3. a \in PositionRow
      <4>1. r.qty - fill.qty \in Nat /\ r.sellable - fill.qty \in Nat
        BY <1>4, <1>6, <2>2
      <4>2. fill.price \in Nat /\ d \in 0 .. MaxDay
        BY <1>6
      <4> QED
        BY <1>1, <3>1, <4>1, <4>2 DEF PositionRow
    <3>4. (r.qty - fill.qty) % QtyStep = 0
      BY <1>4, <1>6, <2>2, DifferenceOfMultiples
    <3>5. (r.sellable - fill.qty) % QtyStep = 0
      BY <1>4, <1>6, <2>2, DifferenceOfMultiples
    <3>6. OnGrid(a.qty, a.sellable)
      BY <1>4, <1>6, <2>2, <3>2, <3>4, <3>5 DEF OnGrid
    <3>7. a.qty * a.mark <= MaxSingle
      BY <1>1, <1>8, <3>2
    <3>8. Kept(a, h, x + fill.qty, d)
      BY <1>4, <1>5, <1>6, <2>2, <3>2, <3>6, <3>7 DEF Kept
    <3> QED
      BY <1>8, <3>3, <3>8
  <2> QED
    BY <2>3, <2>4
<1> QED
  BY <1>6, <1>7, <1>8

-----------------------------------------------------------------------------
(* The steps of the account *)

\* A signal decides on a position that is kept.
LEMMA CurrentKeeps ==
    ASSUME TypeOK, AccountInv, NEW s \in Symbol, NEW bar \in Bar
    PROVE  /\ Current(s, bar) \in PositionRow
           /\ Kept(Current(s, bar), held[s], sold[s], day)
           /\ Current(s, bar).sellable >= position[s].sellable
<1>1. /\ position[s] \in PositionRow /\ held[s] \in Nat /\ sold[s] \in Nat
      /\ day \in 1 .. MaxDay
  BY DEF TypeOK
<1>2. Kept(position[s], held[s], sold[s], day)
  BY DEF AccountInv
<1>3. day - bar.age \in Int /\ day - bar.age <= day
  BY <1>1 DEF Bar
<1>4. /\ Current(s, bar) \in PositionRow
      /\ Kept(Current(s, bar), held[s], sold[s], day)
  BY <1>1, <1>2, <1>3, ReleaseKeeps DEF Current
<1>5. Current(s, bar).sellable >= position[s].sellable
  BY <1>1, <1>2, ReleaseFrees DEF Current, Kept
<1> QED
  BY <1>4, <1>5

\* What the gate lets through: an order on the grid that is worth enough,
\* sells what may be sold, and stays within the limit of the symbol.
LEMMA AdmittedFill ==
    ASSUME TypeOK, AccountInv, NEW s \in Symbol, NEW target \in Target, NEW bar \in Bar,
           Admitted(s, target, bar),
           NEW fill, fill = Execution(s, target, bar),
           NEW p, p = Current(s, bar)
    PROVE  /\ fill \in Fill /\ fill.symbol = s /\ fill.day = day
           /\ fill.qty > 0 /\ fill.qty % QtyStep = 0
           /\ fill.qty * fill.price >= MinNotional
           /\ fill.side = "buy" => (p.qty + fill.qty) * fill.price <= MaxSingle
           /\ fill.side = "sell" => /\ fill.qty <= p.sellable
                                    /\ (p.qty - fill.qty) * fill.price <= MaxSingle
<1> DEFINE plan == Order(s, target, bar)
<1>1. p \in PositionRow /\ OnGrid(p.qty, p.sellable)
  BY CurrentKeeps DEF Kept
<1>2. plan = Plan(p.qty, p.sellable, target)
  BY DEF Order
<1>3. target \in Nat
  BY AccountAssumption
<1>4. /\ plan.qty \in Nat /\ plan.qty % QtyStep = 0 /\ plan.side \in {"buy", "sell"}
      /\ plan.side = "sell" => plan.qty <= p.sellable /\ plan.qty <= p.qty - target
  BY <1>1, <1>2, <1>3, PlanFacts
<1>5. /\ plan.qty > 0
      /\ plan.qty * bar.price >= MinNotional
      /\ ResultingQty(p, plan) * bar.price <= MaxSingle
  BY DEF Admitted, GateAllows, QuantityAllows, NotionalAllows
<1>6. fill = [symbol |-> s, side |-> plan.side, qty |-> plan.qty,
              price |-> bar.price, day |-> day]
  BY DEF Execution
<1> HIDE DEF plan
<1>7. fill \in Fill
  BY <1>4, <1>6 DEF Fill, Bar, TypeOK
<1>8. plan.side = "buy" => ResultingQty(p, plan) = p.qty + plan.qty
  BY DEF ResultingQty
<1>9. plan.side = "sell" => ResultingQty(p, plan) = p.qty - plan.qty
  BY <1>1, <1>3, <1>4 DEF ResultingQty, OnGrid
<1> QED
  BY <1>4, <1>5, <1>6, <1>7, <1>8, <1>9

\* The ledger refuses for want of cash, never a sale.
LEMMA SaleAccepted ==
    ASSUME TypeOK, AccountInv, NEW s \in Symbol, NEW target \in Target, NEW bar \in Bar,
           Admitted(s, target, bar), Execution(s, target, bar).side = "sell"
    PROVE  Accepts(Current(s, bar), cash, Execution(s, target, bar))
<1> DEFINE fill == Execution(s, target, bar)
           p == Current(s, bar)
<1>1. fill \in Fill /\ fill.qty <= p.sellable /\ fill.qty * fill.price >= MinNotional
  BY AdmittedFill
<1>2. p \in PositionRow /\ OnGrid(p.qty, p.sellable)
  BY CurrentKeeps DEF Kept
<1>3. fill.qty * fill.price >= 2
  BY <1>1, NotionalIsNat, AccountAssumption, LimitAssumption
<1>4. CashFlow(fill) \in Nat
  BY <1>1, <1>3, NotionalIsNat, SalesPay
<1> HIDE DEF fill, p
<1>5. Release(p, fill.day, fill.day).sellable >= p.sellable
  BY <1>2, ReleaseFrees
<1>6. Release(p, fill.day, fill.day).sellable \in Nat
  BY <1>2 DEF Release, PositionRow
<1>7. fill.qty <= Release(p, fill.day, fill.day).sellable
  BY <1>1, <1>2, <1>5, <1>6 DEF Fill, OnGrid
<1>8. (IF cash = NoCash THEN 0 ELSE cash) \in Nat
  BY DEF TypeOK
<1>9. (IF cash = NoCash THEN 0 ELSE cash) + CashFlow(fill) >= 0
  BY <1>4, <1>8
<1> QED
  BY <1>4, <1>7, <1>9 DEF Accepts, fill, p

\* A step that changes the row of one symbol.
LEMMA OneRow ==
    ASSUME TypeOK, AccountInv, NEW s \in Symbol, NEW row \in PositionRow, NEW x \in Nat,
           Kept(row, held[s], x, day),
           position' = [position EXCEPT ![s] = row],
           sold' = [sold EXCEPT ![s] = x],
           UNCHANGED <<day, held>>
    PROVE  /\ position' \in [Symbol -> PositionRow] /\ sold' \in [Symbol -> Nat]
           /\ AccountInv'
<1>1. position' \in [Symbol -> PositionRow] /\ sold' \in [Symbol -> Nat]
  BY DEF TypeOK
<1>2. ASSUME NEW o \in Symbol
      PROVE  Kept(position'[o], held'[o], sold'[o], day')
  <2>1. CASE o = s
    BY <2>1 DEF TypeOK
  <2>2. CASE o # s
    <3>1. position'[o] = position[o] /\ sold'[o] = sold[o]
      BY <2>2 DEF TypeOK
    <3> QED
      BY <3>1 DEF AccountInv
  <2> QED
    BY <2>1, <2>2
<1>3. AccountInv'
  BY <1>2 DEF AccountInv
<1> QED
  BY <1>1, <1>3

LEMMA DriftIsBoolean ==
    ASSUME NEW rows, NEW balance, NEW first
    PROVE  DriftFound(rows, balance, first) \in BOOLEAN
<1> QED
  BY Zenon DEF DriftFound, Drifts

LEMMA InvInit == Init => TypeOK /\ AccountInv
<1> SUFFICES ASSUME Init PROVE TypeOK /\ AccountInv
  OBVIOUS
<1>1. /\ Flat \in PositionRow /\ Flat.qty = 0 /\ Flat.sellable = 0
      /\ Flat.mark = 0 /\ Flat.updated = 0
  BY AccountAssumption, FeeAssumption DEF Flat, NoPrice, PositionRow
<1>2. TypeOK
  <2>1. <<>> \in Seq(Fill) /\ Len(<<>>) <= MaxFills /\ 1 \in 1 .. MaxDay
    BY AccountAssumption
  <2>2. position \in [Symbol -> PositionRow]
    BY <1>1 DEF Init
  <2> QED
    BY <2>1, <2>2 DEF Init, TypeOK
<1>3. 0 % QtyStep = 0
  BY RuleAssumption
<1>4. Kept(Flat, 0, 0, 1)
  BY <1>1, <1>3, LimitAssumption DEF Kept, OnGrid
<1>5. AccountInv
  BY <1>4 DEF Init, AccountInv
<1> QED
  BY <1>2, <1>5

LEMMA InvStep == TypeOK /\ AccountInv /\ [Next]_vars => TypeOK' /\ AccountInv'
<1> SUFFICES ASSUME TypeOK, AccountInv, [Next]_vars
             PROVE  TypeOK' /\ AccountInv'
  OBVIOUS
<1>1. ASSUME NEW s \in Symbol, NEW target \in Target, NEW bar \in Bar,
             SignalNotTraded(s, target, bar)
      PROVE  TypeOK' /\ AccountInv'
  <2>1. /\ Current(s, bar) \in PositionRow
        /\ Kept(Current(s, bar), held[s], sold[s], day)
    BY CurrentKeeps
  <2>2. sold' = [sold EXCEPT ![s] = sold[s]] /\ sold[s] \in Nat
    BY <1>1 DEF SignalNotTraded, history, TypeOK
  <2>3. position' = [position EXCEPT ![s] = Current(s, bar)] /\ UNCHANGED <<day, held>>
    BY <1>1 DEF SignalNotTraded, history
  <2>4. position' \in [Symbol -> PositionRow] /\ AccountInv'
    BY <2>1, <2>2, <2>3, OneRow
  <2>5. TypeOK'
    BY <1>1, <2>4 DEF SignalNotTraded, history, control, TypeOK
  <2> QED
    BY <2>4, <2>5
<1>2. ASSUME NEW s \in Symbol, NEW target \in Target, NEW bar \in Bar,
             SignalTraded(s, target, bar)
      PROVE  TypeOK' /\ AccountInv'
  <2> DEFINE fill == Execution(s, target, bar)
             p == Current(s, bar)
             a == Applied(p, fill)
             x == IF fill.side = "sell" THEN sold[s] + fill.qty ELSE sold[s]
  <2>1. Admitted(s, target, bar) /\ Len(fills) < MaxFills /\ Accepts(p, cash, fill)
    BY <1>2 DEF SignalTraded
  <2>2. /\ fill \in Fill /\ fill.day = day
        /\ fill.qty > 0 /\ fill.qty % QtyStep = 0
        /\ fill.side = "buy" => (p.qty + fill.qty) * fill.price <= MaxSingle
        /\ fill.side = "sell" => /\ fill.qty <= p.sellable
                                 /\ (p.qty - fill.qty) * fill.price <= MaxSingle
    BY <2>1, AdmittedFill
  <2>3. p \in PositionRow /\ Kept(p, held[s], sold[s], day)
    BY CurrentKeeps
  <2>4. held[s] \in Nat /\ sold[s] \in Nat /\ day \in 1 .. MaxDay
    BY DEF TypeOK
  <2>5. /\ fills' = Append(fills, fill)
        /\ position' = [position EXCEPT ![s] = Row(a)]
        /\ cash' = CashAfter(cash, fill)
        /\ sold' = [sold EXCEPT ![s] = x]
        /\ UNCHANGED <<day, up, opening, killSwitch, protection, held>>
    BY <1>2 DEF SignalTraded, control, TypeOK
  <2>6. fill.qty \in Nat
    BY <2>2 DEF Fill
  <2> HIDE DEF fill, p
  <2>7. a \in PositionRow /\ Kept(a, held[s], x, day)
    BY <2>2, <2>3, <2>4, AppliedKeeps
  <2>8. x \in Nat
    BY <2>4, <2>6
  <2> HIDE DEF a, x
  <2>9. Row(a) \in PositionRow /\ Kept(Row(a), held[s], x, day)
    BY <2>7, RowIsRow DEF Kept
  <2>10. position' \in [Symbol -> PositionRow] /\ sold' \in [Symbol -> Nat] /\ AccountInv'
    BY <2>5, <2>8, <2>9, OneRow
  <2>11. cash' \in Nat
    <3>1. CashFlow(fill) \in Int
      BY <2>2, NotionalIsNat, FlowIsInt
    <3>2. (IF cash = NoCash THEN 0 ELSE cash) \in Nat
      BY DEF TypeOK
    <3>3. (IF cash = NoCash THEN 0 ELSE cash) + CashFlow(fill) >= 0
      BY <2>1 DEF Accepts
    <3> QED
      BY <2>5, <3>1, <3>2, <3>3 DEF CashAfter
  <2>12. fills' \in Seq(Fill) /\ Len(fills') <= MaxFills
    BY <2>1, <2>2, <2>5, AccountAssumption DEF TypeOK
  <2>13. TypeOK'
    BY <2>5, <2>10, <2>11, <2>12 DEF TypeOK
  <2> QED
    BY <2>10, <2>13
<1>3. ASSUME NEW s \in Symbol, NEW target \in Target, NEW bar \in Bar,
             LedgerRefuses(s, target, bar)
      PROVE  TypeOK' /\ AccountInv'
  <2> DEFINE fill == Execution(s, target, bar)
  <2>1. /\ Admitted(s, target, bar) /\ Len(fills) < MaxFills
        /\ ~Accepts(Current(s, bar), cash, fill)
    BY <1>3 DEF LedgerRefuses
  <2>2. fill \in Fill
    BY <2>1, AdmittedFill
  <2>3. fill.side # "sell"
    BY <2>1, SaleAccepted
  <2> HIDE DEF fill
  <2>4. /\ fills' = Append(fills, fill)
        /\ position' = [position EXCEPT ![s] = Current(s, bar)]
        /\ sold' = [sold EXCEPT ![s] = IF fill.side = "sell" THEN @ + fill.qty ELSE @]
        /\ up' = FALSE
        /\ UNCHANGED <<day, cash, opening, killSwitch, protection, held>>
    BY <1>3 DEF LedgerRefuses, control, fill
  <2>5. sold' = [sold EXCEPT ![s] = sold[s]] /\ sold[s] \in Nat
    BY <2>3, <2>4 DEF TypeOK
  <2>6. /\ Current(s, bar) \in PositionRow
        /\ Kept(Current(s, bar), held[s], sold[s], day)
    BY CurrentKeeps
  <2>7. position' \in [Symbol -> PositionRow] /\ sold' \in [Symbol -> Nat] /\ AccountInv'
    BY <2>4, <2>5, <2>6, OneRow
  <2>8. fills' \in Seq(Fill) /\ Len(fills') <= MaxFills
    BY <2>1, <2>2, <2>4, AccountAssumption DEF TypeOK
  <2>9. TypeOK'
    BY <2>4, <2>7, <2>8 DEF TypeOK
  <2> QED
    BY <2>7, <2>9
<1>4. CASE Start
  <2> DEFINE r(s) == Release(position[s], day, day)
  <2>1. ASSUME NEW s \in Symbol
        PROVE  r(s) \in PositionRow /\ Kept(r(s), held[s], sold[s], day)
    <3>1. /\ position[s] \in PositionRow /\ held[s] \in Nat /\ sold[s] \in Nat
          /\ day \in 1 .. MaxDay /\ day \in Int /\ day <= day
      BY DEF TypeOK
    <3>2. Kept(position[s], held[s], sold[s], day)
      BY DEF AccountInv
    <3> QED
      BY <3>1, <3>2, ReleaseKeeps
  <2>2. position' = [s \in Symbol |-> r(s)] /\ UNCHANGED <<day, fills, killSwitch, held, sold>>
    BY <1>4 DEF Start, history
  <2> HIDE DEF r
  <2>3. position' \in [Symbol -> PositionRow] /\ AccountInv'
    BY <2>1, <2>2 DEF AccountInv
  <2>4. InitialCash \in Nat
    BY AccountAssumption
  <2>5. up' \in BOOLEAN /\ cash' \in Nat \union {NoCash} /\ opening' \in Nat \union {NoCash}
    BY <1>4, <2>4 DEF Start, TypeOK
  <2>6. protection' \in BOOLEAN
    BY <1>4, Zenon DEF Start
  <2>7. TypeOK'
    BY <2>2, <2>3, <2>5, <2>6 DEF TypeOK
  <2> QED
    BY <2>3, <2>7
<1>5. CASE Reconcile
  <2>1. protection' \in BOOLEAN
    BY <1>5, Zenon DEF Reconcile
  <2> QED
    BY <1>5, <2>1 DEF Reconcile, history, TypeOK, AccountInv
<1>6. CASE Exit
  BY <1>6 DEF Exit, control, history, TypeOK, AccountInv
<1>7. CASE SwitchKill
  BY <1>7 DEF SwitchKill, history, TypeOK, AccountInv
<1>8. CASE NextDay
  <2>1. /\ day < MaxDay /\ day' = day + 1
        /\ held' = [s \in Symbol |-> position[s].qty]
        /\ sold' = [s \in Symbol |-> 0]
        /\ UNCHANGED <<up, position, cash, opening, fills, killSwitch, protection>>
    BY <1>8 DEF NextDay, control
  <2>2. day \in 1 .. MaxDay /\ MaxDay \in Nat
    BY AccountAssumption DEF TypeOK
  <2>3. day' \in 1 .. MaxDay
    BY <2>1, <2>2
  <2>4. \A s \in Symbol : position[s].qty \in Nat
    BY DEF TypeOK, PositionRow
  <2>5. TypeOK'
    BY <2>1, <2>3, <2>4 DEF TypeOK
  <2>6. ASSUME NEW s \in Symbol
        PROVE  Kept(position'[s], held'[s], sold'[s], day')
    <3>1. position'[s] = position[s] /\ held'[s] = position[s].qty /\ sold'[s] = 0
      BY <2>1
    <3>2. position[s].updated \in Nat /\ position[s].updated <= day
      BY <2>2 DEF TypeOK, PositionRow, AccountInv, Kept
    <3>3. OnGrid(position[s].qty, position[s].sellable)
          /\ position[s].qty * position[s].mark <= MaxSingle
      BY DEF AccountInv, Kept
    <3>4. position[s].updated <= day' /\ position[s].updated # day'
      BY <2>1, <2>2, <3>2
    <3> QED
      BY <3>1, <3>3, <3>4 DEF Kept
  <2>7. AccountInv'
    BY <2>6 DEF AccountInv
  <2> QED
    BY <2>5, <2>7
<1>9. CASE UNCHANGED vars
  BY <1>9 DEF vars, control, history, TypeOK, AccountInv
<1> QED
  BY <1>1, <1>2, <1>3, <1>4, <1>5, <1>6, <1>7, <1>8, <1>9 DEF Next

-----------------------------------------------------------------------------
(* The rows and the replay *)

\* A row as the types of the replay see it.
LEMMA RowsAndFills ==
    ASSUME TypeOK
    PROVE  /\ fills \in Seq(LedgerFill(Symbol)) /\ opening \in Int
           /\ \A fill \in Fill : fill \in LedgerFill(Symbol)
           /\ \A p \in PositionRow : p \in LedgerRow
<1>1. \A fill \in Fill : fill \in LedgerFill(Symbol)
  <2>1. Price \subseteq Nat /\ 1 .. MaxDay \subseteq Nat
    BY AccountAssumption
  <2> QED
    BY <2>1 DEF Fill, LedgerFill
<1>2. fills \in Seq(Fill)
  BY DEF TypeOK
<1>3. fills \in Seq(LedgerFill(Symbol))
  BY <1>1, <1>2
<1>4. \A p \in PositionRow : p \in LedgerRow
  BY AccountAssumption DEF PositionRow, LedgerRow
<1> QED
  BY <1>1, <1>3, <1>4 DEF TypeOK, NoCash

\* A release leaves a row in agreement.
LEMMA ReleaseAgrees ==
    ASSUME NEW row \in LedgerRow, NEW p \in LedgerRow, Agrees(row, p),
           NEW now \in Int, NEW date \in Int, date <= now, row.qty >= 0
    PROVE  Agrees(Release(row, date, now), p)
<1>1. CASE row.qty = 0 \/ row.sellable = row.qty \/ row.updated >= date
  BY <1>1 DEF Release
<1>2. CASE ~(row.qty = 0 \/ row.sellable = row.qty \/ row.updated >= date)
  <2> DEFINE r == Release(row, date, now)
  <2>1. r.qty = row.qty /\ r.mark = row.mark /\ r.sellable = row.qty /\ r.updated = now
    BY <1>2 DEF Release, LedgerRow
  <2>2. row.updated < date /\ row.qty > 0 /\ row.sellable # row.qty
    BY <1>2 DEF LedgerRow
  <2>3. p.updated = row.updated
    BY <2>2 DEF Agrees
  <2>4. p.updated < now
    BY <2>2, <2>3 DEF LedgerRow
  <2> HIDE DEF r
  <2>5. Agrees(r, p)
    BY <2>1, <2>2, <2>4 DEF Agrees
  <2> QED
    BY <2>5 DEF r
<1> QED
  BY <1>1, <1>2

\* The release of one day makes up for what the row is ahead.
LEMMA ReleasedAlike ==
    ASSUME NEW row \in LedgerRow, NEW p \in LedgerRow, Agrees(row, p),
           NEW d \in Int, row.updated <= d
    PROVE  /\ Release(row, d, d).qty = Release(p, d, d).qty
           /\ Release(row, d, d).mark = Release(p, d, d).mark
           /\ Release(row, d, d).sellable = Release(p, d, d).sellable
           /\ Release(row, d, d) \in LedgerRow /\ Release(p, d, d) \in LedgerRow
<1>1. /\ row.qty = p.qty /\ row.mark = p.mark
      /\ row.updated \in Int /\ p.updated \in Int
  BY DEF Agrees, LedgerRow
<1>2. \A q \in LedgerRow :
         /\ Release(q, d, d) \in LedgerRow
         /\ Release(q, d, d).qty = q.qty /\ Release(q, d, d).mark = q.mark
         /\ Release(q, d, d).sellable =
               IF q.qty = 0 \/ q.updated >= d THEN q.sellable ELSE q.qty
  BY DEF Release, LedgerRow
<1>3. CASE row.sellable = p.sellable /\ row.updated = p.updated
  BY <1>1, <1>2, <1>3
<1>4. CASE row.qty > 0 /\ row.sellable = row.qty /\ p.updated < row.updated
  <2>1. ~(p.updated >= d) /\ p.qty # 0
    BY <1>1, <1>4 DEF LedgerRow
  <2>2. Release(p, d, d).sellable = p.qty
    BY <1>2, <2>1
  <2>3. Release(row, d, d).sellable = row.qty
    BY <1>2, <1>4
  <2> QED
    BY <1>1, <1>2, <2>2, <2>3
<1> QED
  BY <1>3, <1>4 DEF Agrees

\* A fill is accepted for both or for none, and leaves both alike.
LEMMA AppliedAlike ==
    ASSUME NEW fill \in LedgerFill(Symbol), NEW row \in LedgerRow, NEW p \in LedgerRow,
           Agrees(row, p), row.updated <= fill.day, NEW balance
    PROVE  /\ Accepts(row, balance, fill) <=> Accepts(p, balance, fill)
           /\ Applied(row, fill).qty = Applied(p, fill).qty
           /\ Applied(row, fill).sellable = Applied(p, fill).sellable
           /\ Applied(row, fill).mark = Applied(p, fill).mark
           /\ Applied(row, fill).updated = Applied(p, fill).updated
<1> DEFINE r == Release(row, fill.day, fill.day)
           q == Release(p, fill.day, fill.day)
<1>1. fill.day \in Int
  BY DEF LedgerFill
<1>2. r.qty = q.qty /\ r.mark = q.mark /\ r.sellable = q.sellable
      /\ r \in LedgerRow /\ q \in LedgerRow
  BY <1>1, ReleasedAlike
<1>3. Accepts(row, balance, fill) <=> Accepts(p, balance, fill)
  <2>1. r.sellable = q.sellable
    BY <1>2
  <2> QED
    BY <2>1 DEF Accepts
<1> HIDE DEF r, q
<1>4. /\ Bought(r, fill).qty = Bought(q, fill).qty
      /\ Bought(r, fill).sellable = Bought(q, fill).sellable
      /\ Bought(r, fill).mark = Bought(q, fill).mark
      /\ Bought(r, fill).updated = Bought(q, fill).updated
  BY <1>2 DEF Bought
<1>5. /\ Sold(r, fill).qty = Sold(q, fill).qty
      /\ Sold(r, fill).sellable = Sold(q, fill).sellable
      /\ Sold(r, fill).mark = Sold(q, fill).mark
      /\ Sold(r, fill).updated = Sold(q, fill).updated
  <2>1. CASE fill.qty = r.qty
    BY <1>2, <2>1 DEF Sold
  <2>2. CASE fill.qty # r.qty
    <3>1. Sold(r, fill) = [r EXCEPT !.qty = @ - fill.qty, !.sellable = @ - fill.qty,
                                    !.mark = fill.price, !.updated = fill.day]
      BY <2>2 DEF Sold
    <3>2. Sold(q, fill) = [q EXCEPT !.qty = @ - fill.qty, !.sellable = @ - fill.qty,
                                    !.mark = fill.price, !.updated = fill.day]
      BY <1>2, <2>2 DEF Sold
    <3> QED
      BY <1>2, <3>1, <3>2 DEF LedgerRow
  <2> QED
    BY <2>1, <2>2
<1>6. /\ Applied(row, fill) = IF fill.side = "buy" THEN Bought(r, fill) ELSE Sold(r, fill)
      /\ Applied(p, fill) = IF fill.side = "buy" THEN Bought(q, fill) ELSE Sold(q, fill)
  BY DEF Applied, r, q
<1> QED
  BY <1>3, <1>4, <1>5, <1>6

LEMMA ReplayInit == Init => ReplayInv
<1> SUFFICES ASSUME Init PROVE ReplayInv
  OBVIOUS
<1>1. NoCash \in Int
  BY DEF NoCash
<1>2. Played(<<>>, Symbol, NoCash) = Unplayed(Symbol, NoCash)
  BY <1>1, PlayedNothing
<1>3. /\ Unplayed(Symbol, NoCash).cash = NoCash
      /\ Unplayed(Symbol, NoCash).position = [s \in Symbol |-> Flat]
  BY DEF Unplayed
<1>4. Flat.qty = 0 /\ Agrees(Flat, Flat)
  BY DEF Flat, Agrees
<1>5. /\ up = FALSE /\ cash = NoCash /\ opening = NoCash /\ fills = <<>>
      /\ position = [s \in Symbol |-> Flat]
  BY DEF Init
<1> QED
  BY <1>2, <1>3, <1>4, <1>5 DEF ReplayInv

\* Steps that release rows and move no shares and no cash.
LEMMA ReplayReleases ==
    ASSUME TypeOK, ReplayInv,
           \A s \in Symbol : \/ position'[s] = position[s]
                             \/ \E date \in Int : date <= day /\ position'[s] = Release(position[s], date, day),
           UNCHANGED <<cash, opening, fills>>, cash = NoCash => ~up'
    PROVE  ReplayInv'
<1> DEFINE played == Played(fills, Symbol, opening)
<1>1. played \in LedgerAccount(Symbol)
  BY RowsAndFills, PlayedType
<1>2. ASSUME NEW s \in Symbol
      PROVE  /\ position'[s].qty = position[s].qty
             /\ \A p \in LedgerRow : Agrees(position[s], p) => Agrees(position'[s], p)
  <2>1. position[s] \in LedgerRow /\ position[s].qty >= 0 /\ day \in Int
    BY RowsAndFills DEF TypeOK, PositionRow
  <2>2. CASE position'[s] = position[s]
    BY <2>2
  <2>3. ASSUME NEW date \in Int, date <= day, position'[s] = Release(position[s], date, day)
        PROVE  /\ position'[s].qty = position[s].qty
               /\ \A p \in LedgerRow : Agrees(position[s], p) => Agrees(position'[s], p)
    <3>1. position'[s].qty = position[s].qty
      BY <2>1, <2>3 DEF Release, LedgerRow
    <3>2. \A p \in LedgerRow : Agrees(position[s], p) => Agrees(position'[s], p)
      BY <2>1, <2>3, ReleaseAgrees
    <3> QED
      BY <3>1, <3>2
  <2> QED
    BY <2>2, <2>3
<1>3. Played(fills', Symbol, opening') = played
  OBVIOUS
<1>4. \A s \in Symbol : played.position[s] \in LedgerRow
  BY <1>1 DEF LedgerAccount
<1> HIDE DEF played
<1>5. cash' = NoCash => /\ ~up' /\ opening' = NoCash /\ fills' = <<>>
                        /\ \A s \in Symbol : position'[s].qty = 0
  BY <1>2 DEF ReplayInv
<1>6. opening' = NoCash => cash' = NoCash
  BY DEF ReplayInv
<1>7. ~played.refused => /\ cash' = played.cash
                         /\ \A s \in Symbol : Agrees(position'[s], played.position[s])
  BY <1>2, <1>4 DEF ReplayInv, played
<1> QED
  BY <1>3, <1>5, <1>6, <1>7 DEF ReplayInv

LEMMA ReplayStep ==
    TypeOK /\ AccountInv /\ ReplayInv /\ [Next]_vars => ReplayInv'
<1> SUFFICES ASSUME TypeOK, AccountInv, ReplayInv, [Next]_vars
             PROVE  ReplayInv'
  OBVIOUS
<1> DEFINE played == Played(fills, Symbol, opening)
<1>a. /\ day \in 1 .. MaxDay /\ day \in Int /\ opening \in Int
      /\ played \in LedgerAccount(Symbol)
      /\ \A s \in Symbol : position[s] \in PositionRow /\ position[s] \in LedgerRow
  BY RowsAndFills, PlayedType DEF TypeOK
<1>b. \A s \in Symbol : position[s].updated <= day
  BY DEF AccountInv, Kept
<1>c. cash = NoCash => ~up
  BY DEF ReplayInv
<1>1. ASSUME NEW s \in Symbol, NEW target \in Target, NEW bar \in Bar,
             SignalNotTraded(s, target, bar)
      PROVE  ReplayInv'
  <2>1. /\ position' = [position EXCEPT ![s] = Current(s, bar)]
        /\ UNCHANGED <<up, cash, opening, fills>>
    BY <1>1 DEF SignalNotTraded
  <2>2. day - bar.age \in Int /\ day - bar.age <= day
    BY <1>a DEF Bar
  <2>3. \A o \in Symbol : \/ position'[o] = position[o]
                          \/ \E date \in Int : date <= day /\ position'[o] = Release(position[o], date, day)
    BY <2>1, <2>2 DEF Current, TypeOK
  <2> QED
    BY <1>c, <2>1, <2>3, ReplayReleases
<1>2. ASSUME NEW s \in Symbol, NEW target \in Target, NEW bar \in Bar,
             NEW fill \in LedgerFill(Symbol), NEW row,
             fill.symbol = s, fill.day = day, up, fills' = Append(fills, fill),
             row = Current(s, bar), UNCHANGED opening,
             \/ /\ Accepts(row, cash, fill)
                /\ position' = [position EXCEPT ![s] = Row(Applied(row, fill))]
                /\ cash' = CashAfter(cash, fill) /\ cash' # NoCash
             \/ /\ ~Accepts(row, cash, fill)
                /\ UNCHANGED cash
      PROVE  ReplayInv'
  <2>1. Played(fills', Symbol, opening') = ReplayFill(played, fill)
    BY <1>a, <1>2, RowsAndFills, PlayedAppend
  <2>2. cash # NoCash /\ opening # NoCash /\ cash' # NoCash
    BY <1>2, <1>c DEF ReplayInv
  <2> DEFINE p == played.position[s]
  <2>3. p \in LedgerRow /\ played.refused \in BOOLEAN
    BY <1>a DEF LedgerAccount
  <2>4. row \in PositionRow /\ row \in LedgerRow /\ row.updated <= day
    BY <1>2, CurrentKeeps, RowsAndFills DEF Kept
  <2>5. ReplayFill(played, fill) =
           IF Accepts(p, played.cash, fill)
           THEN [played EXCEPT !.position[s] = Applied(p, fill),
                               !.cash = CashAfter(played.cash, fill)]
           ELSE [played EXCEPT !.refused = TRUE]
    BY <1>2 DEF ReplayFill
  <2>6. CASE played.refused
    <3>1. ReplayFill(played, fill).refused
      BY <1>a, <2>5, <2>6 DEF LedgerAccount
    <3> QED
      BY <1>2, <2>1, <2>2, <3>1 DEF ReplayInv
  <2>7. CASE ~played.refused
    <3>1. cash = played.cash /\ \A o \in Symbol : Agrees(position[o], played.position[o])
      BY <2>7 DEF ReplayInv
    <3>2. Agrees(row, p)
      <4>1. day - bar.age \in Int /\ day - bar.age <= day
        BY <1>a DEF Bar
      <4>2. position[s].qty >= 0
        BY <1>a DEF PositionRow
      <4> QED
        BY <1>2, <1>a, <2>3, <3>1, <4>1, <4>2, ReleaseAgrees DEF Current
    <3>3. /\ Accepts(row, cash, fill) <=> Accepts(p, cash, fill)
          /\ Applied(row, fill).qty = Applied(p, fill).qty
          /\ Applied(row, fill).sellable = Applied(p, fill).sellable
          /\ Applied(row, fill).mark = Applied(p, fill).mark
          /\ Applied(row, fill).updated = Applied(p, fill).updated
      BY <1>2, <2>3, <2>4, <3>2, AppliedAlike
    <3>4. CASE ~Accepts(row, cash, fill)
      <4>1. ReplayFill(played, fill).refused
        BY <1>a, <2>5, <3>1, <3>3, <3>4 DEF LedgerAccount
      <4> QED
        BY <1>2, <2>1, <2>2, <4>1 DEF ReplayInv
    <3>5. CASE Accepts(row, cash, fill)
      <4> DEFINE after == ReplayFill(played, fill)
      <4>1. after = [played EXCEPT !.position[s] = Applied(p, fill),
                                   !.cash = CashAfter(played.cash, fill)]
        BY <2>5, <3>1, <3>3, <3>5
      <4>2. /\ after.cash = cash'
            /\ after.position[s] = Applied(p, fill)
            /\ \A o \in Symbol \ {s} : after.position[o] = played.position[o]
        <5> HIDE DEF p
        <5> QED
          BY <1>2, <1>a, <3>1, <3>5, <4>1 DEF LedgerAccount
      <4>3. /\ position'[s] = Row(Applied(row, fill))
            /\ \A o \in Symbol \ {s} : position'[o] = position[o]
        BY <1>2, <3>5 DEF TypeOK
      <4>4. /\ position'[s].qty = Applied(row, fill).qty
            /\ position'[s].sellable = Applied(row, fill).sellable
            /\ position'[s].mark = Applied(row, fill).mark
            /\ position'[s].updated = Applied(row, fill).updated
        BY <4>3 DEF Row
      <4>5. Agrees(position'[s], after.position[s])
        BY <3>3, <4>2, <4>4 DEF Agrees
      <4>6. \A o \in Symbol : Agrees(position'[o], after.position[o])
        BY <3>1, <4>2, <4>3, <4>5
      <4> HIDE DEF after
      <4>7. Played(fills', Symbol, opening') = after
        BY <2>1 DEF after
      <4> QED
        BY <1>2, <2>2, <4>2, <4>6, <4>7 DEF ReplayInv
    <3> QED
      BY <3>4, <3>5
  <2> QED
    BY <2>6, <2>7
<1>3. ASSUME NEW s \in Symbol, NEW target \in Target, NEW bar \in Bar,
             SignalTraded(s, target, bar) \/ LedgerRefuses(s, target, bar)
      PROVE  ReplayInv'
  <2> DEFINE fill == Execution(s, target, bar)
             row == Current(s, bar)
  <2>1. Admitted(s, target, bar)
    BY <1>3 DEF SignalTraded, LedgerRefuses
  <2>2. fill \in Fill /\ fill.symbol = s /\ fill.day = day
    BY <2>1, AdmittedFill
  <2>3. fill \in LedgerFill(Symbol)
    BY <2>2, RowsAndFills
  <2>4. CASE SignalTraded(s, target, bar)
    <3>1. /\ up /\ Accepts(row, cash, fill)
          /\ fills' = Append(fills, fill)
          /\ position' = [position EXCEPT ![s] = Row(Applied(row, fill))]
          /\ cash' = CashAfter(cash, fill)
          /\ opening' = opening
      BY <2>4 DEF SignalTraded
    <3>2. CashAfter(cash, fill) >= 0
      BY <3>1 DEF Accepts, CashAfter
    <3>3. cash' # NoCash
      BY <3>1, <3>2 DEF NoCash
    <3> HIDE DEF fill, row
    <3>4. row = Current(s, bar)
      BY DEF row
    <3> QED
      BY <1>2, <2>2, <2>3, <3>1, <3>3, <3>4
  <2>5. CASE LedgerRefuses(s, target, bar)
    <3>1. /\ up /\ ~Accepts(row, cash, fill)
          /\ fills' = Append(fills, fill)
          /\ UNCHANGED <<cash, opening>>
      BY <2>5 DEF LedgerRefuses
    <3> HIDE DEF fill, row
    <3>2. row = Current(s, bar)
      BY DEF row
    <3> QED
      BY <1>2, <2>2, <2>3, <3>1, <3>2
  <2> QED
    BY <1>3, <2>4, <2>5
<1>4. CASE Start
  <2>1. /\ cash' = IF Seeds THEN InitialCash ELSE cash
        /\ opening' = IF Seeds /\ opening = NoCash THEN InitialCash ELSE opening
        /\ position' = [s \in Symbol |-> Release(position[s], day, day)]
        /\ fills' = fills
    BY <1>4 DEF Start
  <2>2. \A s \in Symbol : \E date \in Int : date <= day /\ position'[s] = Release(position[s], date, day)
    BY <1>a, <2>1
  <2>3. CASE ~Seeds
    <3>1. cash # NoCash
      BY <2>3 DEF Seeds, ReplayInv
    <3> QED
      BY <2>1, <2>2, <2>3, <3>1, ReplayReleases
  <2>4. CASE Seeds
    <3>1. cash = NoCash /\ opening = NoCash /\ fills = <<>>
          /\ \A s \in Symbol : position[s].qty = 0
      BY <2>4 DEF Seeds, ReplayInv
    <3>2. InitialCash \in Int /\ InitialCash # NoCash /\ NoCash \in Int
      BY AccountAssumption DEF NoCash
    <3>3. cash' = InitialCash /\ opening' = InitialCash /\ fills' = <<>>
      BY <2>1, <2>4, <3>1
    <3>4. /\ Played(fills, Symbol, opening) = Unplayed(Symbol, NoCash)
          /\ Played(fills', Symbol, opening') = Unplayed(Symbol, InitialCash)
      BY <3>1, <3>2, <3>3, PlayedNothing
    <3>5. \A s \in Symbol : Agrees(position[s], Flat)
      BY <3>1, <3>4 DEF Unplayed, ReplayInv
    <3>6. \A s \in Symbol : position'[s] = position[s]
      BY <2>1, <3>1 DEF Release
    <3> QED
      BY <3>2, <3>3, <3>4, <3>5, <3>6 DEF Unplayed, ReplayInv
  <2> QED
    BY <2>3, <2>4
<1>5. CASE Reconcile \/ Exit \/ SwitchKill \/ NextDay \/ UNCHANGED vars
  <2>1. UNCHANGED <<position, cash, opening, fills>> /\ (up' => up)
    BY <1>5 DEF Reconcile, Exit, SwitchKill, NextDay, vars, history
  <2> QED
    BY <1>c, <2>1, ReplayReleases
<1> QED
  BY <1>1, <1>3, <1>4, <1>5 DEF Next

-----------------------------------------------------------------------------
(* What the account holds in all *)

Worth(rows, S) == MapThenSumSet(LAMBDA o : rows[o].qty * rows[o].mark, S)
Notionals(rows) == [o \in Symbol |-> rows[o].qty * rows[o].mark]

LEMMA NotionalsAreNat ==
    ASSUME NEW rows \in [Symbol -> PositionRow]
    PROVE  \A o \in Symbol : Notionals(rows)[o] \in Nat
<1>1. ASSUME NEW o \in Symbol PROVE Notionals(rows)[o] \in Nat
  <2>1. rows[o].qty \in Nat /\ rows[o].mark \in Nat
    BY DEF PositionRow
  <2>2. rows[o].qty * rows[o].mark \in Nat
    BY <2>1
  <2> QED
    BY <2>2 DEF Notionals
<1> QED
  BY <1>1

LEMMA WorthIsSum ==
    ASSUME NEW rows \in [Symbol -> PositionRow], NEW S \in SUBSET Symbol
    PROVE  Worth(rows, S) = SumOver(Notionals(rows), S)
<1> DEFINE g == Notionals(rows)
           iter == CHOOSE it : it = [T \in SUBSET S |->
                      IF T = {} THEN 0
                      ELSE rows[CHOOSE x \in T : TRUE].qty * rows[CHOOSE x \in T : TRUE].mark
                              + it[T \ {CHOOSE x \in T : TRUE}]]
<1>1. IsFiniteSet(S) /\ \A x \in S : g[x] \in Int
  BY AccountAssumption, FS_Subset, NotionalsAreNat
<1>2. PICK f : Sums(f, g, S) /\ SumOver(g, S) = f[S]
  <2> HIDE DEF g
  <2> QED
    BY <1>1, SumOverIsSum
<1>3. ASSUME NEW T \in SUBSET S, T # {}
      PROVE  g[CHOOSE x \in T : TRUE]
                = rows[CHOOSE x \in T : TRUE].qty * rows[CHOOSE x \in T : TRUE].mark
  <2>1. (CHOOSE x \in T : TRUE) \in Symbol
    BY <1>3
  <2> QED
    BY <2>1 DEF Notionals
<1> HIDE DEF g
<1>4. f = [T \in SUBSET S |->
              IF T = {} THEN 0
              ELSE rows[CHOOSE x \in T : TRUE].qty * rows[CHOOSE x \in T : TRUE].mark
                      + f[T \ {CHOOSE x \in T : TRUE}]]
  <2>1. ASSUME NEW T \in SUBSET S, T # {}
        PROVE  f[T] = rows[CHOOSE x \in T : TRUE].qty * rows[CHOOSE x \in T : TRUE].mark
                         + f[T \ {CHOOSE x \in T : TRUE}]
    BY <1>2, <1>3, <2>1 DEF Sums, Adds, Taken
  <2> QED
    BY <1>2, <2>1 DEF Sums, Adds
<1>5. iter = [T \in SUBSET S |->
                 IF T = {} THEN 0
                 ELSE rows[CHOOSE x \in T : TRUE].qty * rows[CHOOSE x \in T : TRUE].mark
                         + iter[T \ {CHOOSE x \in T : TRUE}]]
  BY <1>4
<1>6. Worth(rows, S) = iter[S]
  BY DEF Worth, MapThenSumSet, MapThenFoldSet
<1> HIDE DEF iter
<1>7. Adds(iter, g, S)
  BY <1>3, <1>5 DEF Adds, Taken
<1>8. f[S] = iter[S]
  BY <1>1, <1>2, <1>7, SumsAgree DEF Sums
<1> QED
  BY <1>2, <1>6, <1>8 DEF g

\* A row counts for itself, whatever the others are.
LEMMA WorthOf ==
    ASSUME NEW rows \in [Symbol -> PositionRow], NEW s \in Symbol
    PROVE  /\ Worth(rows, Symbol) \in Int /\ Worth(rows, Symbol \ {s}) \in Int
           /\ Worth(rows, Symbol) = rows[s].qty * rows[s].mark + Worth(rows, Symbol \ {s})
<1> DEFINE g == Notionals(rows)
<1>1. IsFiniteSet(Symbol) /\ \A x \in Symbol : g[x] \in Int
  BY AccountAssumption, NotionalsAreNat
<1>2. /\ Worth(rows, Symbol) = SumOver(g, Symbol)
      /\ Worth(rows, Symbol \ {s}) = SumOver(g, Symbol \ {s})
  BY WorthIsSum
<1>3. g[s] = rows[s].qty * rows[s].mark
  BY DEF Notionals
<1> HIDE DEF g
<1>4. /\ SumOver(g, Symbol) \in Int /\ SumOver(g, Symbol \ {s}) \in Int
      /\ SumOver(g, Symbol) = g[s] + SumOver(g, Symbol \ {s})
  BY <1>1, SumOverRemove
<1> QED
  BY <1>2, <1>3, <1>4

\* Rows that are worth the same add up to the same.
LEMMA WorthSame ==
    ASSUME NEW rows \in [Symbol -> PositionRow], NEW others \in [Symbol -> PositionRow],
           NEW S \in SUBSET Symbol,
           \A o \in S : others[o].qty = rows[o].qty /\ others[o].mark = rows[o].mark
    PROVE  Worth(others, S) = Worth(rows, S)
<1>1. IsFiniteSet(S)
  BY AccountAssumption, FS_Subset
<1>2. \A o \in S : /\ Notionals(rows)[o] \in Int
                   /\ Notionals(rows)[o] = Notionals(others)[o]
  <2>1. \A o \in S : Notionals(rows)[o] = Notionals(others)[o]
    BY DEF Notionals
  <2> QED
    BY <2>1, NotionalsAreNat
<1>3. SumOver(Notionals(rows), S) = SumOver(Notionals(others), S)
  BY <1>1, <1>2, SumOverSame
<1> QED
  BY <1>3, WorthIsSum

\* What a fill leaves is worth its shares at its price.
LEMMA AppliedWorth ==
    ASSUME NEW p \in PositionRow, OnGrid(p.qty, p.sellable), NEW fill \in Fill,
           fill.side = "sell" => fill.qty <= p.sellable,
           NEW a, a = Applied(p, fill)
    PROVE  a.qty * a.mark =
              (IF fill.side = "buy" THEN p.qty + fill.qty ELSE p.qty - fill.qty) * fill.price
<1> DEFINE r == Release(p, fill.day, fill.day)
<1>1. r.qty = p.qty /\ p.qty \in Nat
  BY DEF Release, PositionRow
<1>2. r = p \/ r = [p EXCEPT !.sellable = p.qty, !.updated = fill.day]
  BY DEF Release
<1>3. fill.price \in Nat /\ fill.side \in {"buy", "sell"} /\ fill.qty \in Nat
  BY AccountAssumption DEF Fill
<1>4. a = IF fill.side = "buy" THEN Bought(r, fill) ELSE Sold(r, fill)
  BY DEF Applied
<1> HIDE DEF r
<1>5. CASE fill.side = "buy"
  BY <1>1, <1>4, <1>5 DEF Bought
<1>6. CASE fill.side = "sell" /\ fill.qty = r.qty
  <2>1. a.qty = 0 /\ a.mark = 0
    BY <1>4, <1>6 DEF Sold, Flat
  <2> QED
    BY <1>1, <1>3, <1>6, <2>1
<1>7. CASE fill.side = "sell" /\ fill.qty # r.qty
  <2>1. a = [r EXCEPT !.qty = @ - fill.qty, !.sellable = @ - fill.qty,
                      !.mark = fill.price, !.updated = fill.day]
    BY <1>4, <1>7 DEF Sold
  <2>2. a.qty = r.qty - fill.qty /\ a.mark = fill.price
    BY <1>2, <2>1 DEF PositionRow
  <2> QED
    BY <1>1, <1>3, <1>7, <2>2
<1> QED
  BY <1>3, <1>5, <1>6, <1>7

TotalLimit == Worth(position, Symbol) <= MaxTotal

LEMMA TotalInit == Init => TotalLimit
<1> SUFFICES ASSUME Init PROVE TotalLimit
  OBVIOUS
<1>1. position \in [Symbol -> PositionRow] /\ \A s \in Symbol : position[s].qty = 0
  BY InvInit DEF TypeOK, Init, Flat
<1> DEFINE g == Notionals(position)
           zeros == [T \in SUBSET Symbol |-> 0]
<1>2. \A s \in Symbol : g[s] = 0
  <2>1. \A s \in Symbol : position[s].mark \in Nat
    BY <1>1 DEF PositionRow
  <2> QED
    BY <1>1, <2>1 DEF Notionals
<1>3. Worth(position, Symbol) = SumOver(g, Symbol) /\ IsFiniteSet(Symbol)
  BY <1>1, WorthIsSum, AccountAssumption
<1> HIDE DEF g
<1>4. PICK f : Sums(f, g, Symbol) /\ SumOver(g, Symbol) = f[Symbol]
  BY <1>2, <1>3, SumOverIsSum
<1>5. Adds(zeros, g, Symbol)
  <2>1. ASSUME NEW T \in SUBSET Symbol, T # {} PROVE Taken(T) \in Symbol
    BY <2>1 DEF Taken
  <2> QED
    BY <1>2, <2>1 DEF Adds
<1>6. f[Symbol] = zeros[Symbol]
  <2> HIDE DEF zeros
  <2> QED
    BY <1>3, <1>4, <1>5, SumsAgree DEF Sums
<1> QED
  BY <1>3, <1>4, <1>6, LimitAssumption DEF TotalLimit

LEMMA TotalStep == TypeOK /\ AccountInv /\ TotalLimit /\ [Next]_vars => TotalLimit'
<1> SUFFICES ASSUME TypeOK, AccountInv, TotalLimit, [Next]_vars
             PROVE  TotalLimit'
  OBVIOUS
<1> DEFINE rows == position'
<1>1. position \in [Symbol -> PositionRow] /\ rows \in [Symbol -> PositionRow]
  BY InvStep DEF TypeOK
<1>2. ASSUME \A o \in Symbol : rows[o].qty = position[o].qty /\ rows[o].mark = position[o].mark
      PROVE  TotalLimit'
  <2> HIDE DEF rows
  <2>1. Worth(rows, Symbol) = Worth(position, Symbol)
    BY <1>1, <1>2, WorthSame
  <2> QED
    BY <2>1 DEF TotalLimit, rows
<1>3. \A s \in Symbol : \A date, now :
         /\ Release(position[s], date, now).qty = position[s].qty
         /\ Release(position[s], date, now).mark = position[s].mark
  BY <1>1 DEF Release, PositionRow
<1>4. ASSUME NEW s \in Symbol, NEW target \in Target, NEW bar \in Bar,
             \/ SignalNotTraded(s, target, bar) \/ LedgerRefuses(s, target, bar)
      PROVE  TotalLimit'
  <2>1. rows = [position EXCEPT ![s] = Current(s, bar)]
    BY <1>4 DEF SignalNotTraded, LedgerRefuses
  <2> HIDE DEF rows
  <2> QED
    BY <1>1, <1>2, <1>3, <2>1 DEF Current
<1>5. ASSUME NEW s \in Symbol, NEW target \in Target, NEW bar \in Bar,
             SignalTraded(s, target, bar)
      PROVE  TotalLimit'
  <2> DEFINE fill == Execution(s, target, bar)
             p == Current(s, bar)
             a == Applied(p, fill)
             plan == Order(s, target, bar)
  <2>1. Admitted(s, target, bar) /\ rows = [position EXCEPT ![s] = Row(a)]
    BY <1>5 DEF SignalTraded
  <2>2. /\ fill \in Fill /\ fill.day = day
        /\ fill.side = "sell" => fill.qty <= p.sellable
    BY <2>1, AdmittedFill
  <2>3. p \in PositionRow /\ OnGrid(p.qty, p.sellable)
    BY CurrentKeeps DEF Kept
  <2>4. ResultingQty(p, plan) * bar.price + Others(s) <= MaxTotal
    BY <2>1 DEF Admitted, GateAllows, NotionalAllows
  <2>5. Others(s) = Worth(position, Symbol \ {s})
    BY DEF Others, Worth
  <2>6. ResultingQty(p, plan) =
           IF fill.side = "buy" THEN p.qty + fill.qty ELSE p.qty - fill.qty
    <3>1. fill.side = plan.side /\ fill.qty = plan.qty
      BY DEF Execution
    <3>2. fill.qty \in Nat /\ fill.side \in {"buy", "sell"}
      BY <2>2 DEF Fill
    <3> HIDE DEF fill, p, plan
    <3>3. p.qty \in Nat /\ p.sellable \in Nat /\ p.sellable <= p.qty
      BY <2>3 DEF OnGrid
    <3> QED
      BY <2>2, <3>1, <3>2, <3>3 DEF ResultingQty
  <2>7. fill.price = bar.price
    BY DEF Execution
  <2> HIDE DEF fill, p, plan
  <2>8. a.qty * a.mark = ResultingQty(p, plan) * bar.price
    BY <2>2, <2>3, <2>6, <2>7, AppliedWorth
  <2> HIDE DEF a, rows
  <2>9. /\ rows[s].qty = a.qty /\ rows[s].mark = a.mark
        /\ \A o \in Symbol \ {s} : rows[o].qty = position[o].qty /\ rows[o].mark = position[o].mark
    BY <1>1, <2>1 DEF Row
  <2>10. Worth(rows, Symbol \ {s}) = Worth(position, Symbol \ {s})
    BY <1>1, <2>9, WorthSame
  <2>11. Worth(rows, Symbol) = rows[s].qty * rows[s].mark + Worth(rows, Symbol \ {s})
    BY <1>1, WorthOf
  <2>12. Worth(rows, Symbol) <= MaxTotal
    BY <2>4, <2>5, <2>8, <2>9, <2>10, <2>11
  <2> QED
    BY <2>12 DEF TotalLimit, rows
<1>6. CASE Start
  <2>1. rows = [s \in Symbol |-> Release(position[s], day, day)]
    BY <1>6 DEF Start
  <2> HIDE DEF rows
  <2> QED
    BY <1>2, <1>3, <2>1
<1>7. CASE Reconcile \/ Exit \/ SwitchKill \/ NextDay \/ UNCHANGED vars
  <2>1. rows = position
    BY <1>7 DEF Reconcile, Exit, SwitchKill, NextDay, vars
  <2> HIDE DEF rows
  <2> QED
    BY <1>2, <2>1
<1> QED
  BY <1>4, <1>5, <1>6, <1>7 DEF Next

-----------------------------------------------------------------------------
(* Theorems *)

\* Type correctness; that cash never falls below zero is part of it.
THEOREM TypeCorrect == Spec => []TypeOK
<1>1. TypeOK /\ AccountInv /\ [Next]_vars => (TypeOK /\ AccountInv)'
  BY InvStep
<1>2. Init => TypeOK /\ AccountInv
  BY InvInit
<1> QED
  BY <1>1, <1>2, PTL DEF Spec

\* What every position keeps over the days: it is in whole steps, what may
\* still be sold today was held when the day began, and it is within the
\* limit of its symbol.
THEOREM AccountInvariant == Spec => []AccountInv
<1>1. TypeOK /\ AccountInv /\ [Next]_vars => (TypeOK /\ AccountInv)'
  BY InvStep
<1>2. Init => TypeOK /\ AccountInv
  BY InvInit
<1> QED
  BY <1>1, <1>2, PTL DEF Spec

\* T+1: whatever the signals, the restarts and the dates of the bars, no share
\* is sold on the day it was bought.
THEOREM TPlusOneHolds == Spec => []TPlusOne
<1>1. TypeOK /\ AccountInv => TPlusOne
  <2> SUFFICES ASSUME TypeOK, AccountInv, NEW s \in Symbol PROVE sold[s] <= held[s]
    BY DEF TPlusOne
  <2>1. Kept(position[s], held[s], sold[s], day)
    BY DEF AccountInv
  <2>2. held[s] \in Nat /\ sold[s] \in Nat
    BY DEF TypeOK
  <2> QED
    BY <2>1, <2>2 DEF Kept, OnGrid
<1> QED
  BY <1>1, TypeCorrect, AccountInvariant, PTL

\* No position is worth more than the limit of a symbol, at the price it was
\* last filled at.
THEOREM SymbolLimitHolds == Spec => []SymbolLimit
<1>1. AccountInv => SymbolLimit
  BY DEF AccountInv, Kept, SymbolLimit
<1> QED
  BY <1>1, AccountInvariant, PTL

\* The limits of the gate hold: what a symbol is worth, and what the account
\* holds in all, at the prices of the last fills, whatever is traded and in
\* whatever order.
THEOREM LimitsHoldAlways == Spec => []LimitsHold
<1>1. TypeOK /\ AccountInv /\ TotalLimit /\ [Next]_vars => (TypeOK /\ AccountInv /\ TotalLimit)'
  BY InvStep, TotalStep
<1>2. Init => TypeOK /\ AccountInv /\ TotalLimit
  BY InvInit, TotalInit
<1>3. AccountInv /\ TotalLimit => LimitsHold
  BY DEF AccountInv, Kept, SymbolLimit, TotalLimit, Worth, LimitsHold
<1> QED
  BY <1>1, <1>2, <1>3, PTL DEF Spec

\* A row is in step with the replay of its fills, or was released since.
THEOREM ReplayInvariant == Spec => []ReplayInv
<1>1. TypeOK /\ AccountInv /\ ReplayInv /\ [Next]_vars => (TypeOK /\ AccountInv /\ ReplayInv)'
  BY InvStep, ReplayStep
<1>2. Init => TypeOK /\ AccountInv /\ ReplayInv
  BY InvInit, ReplayInit
<1> QED
  BY <1>1, <1>2, PTL DEF Spec

\* The rows and the cash are what the fills make of the initial cash, however
\* many fills there are: the check of the reconciliation finds no drift that is
\* not a release it has not made yet, or an average price that was rounded.
THEOREM ReplayAgreesHolds == Spec => []ReplayAgrees
<1>1. TypeOK /\ AccountInv /\ ReplayInv => ReplayAgrees
  <2> SUFFICES ASSUME TypeOK, AccountInv, ReplayInv PROVE ReplayAgrees
    OBVIOUS
  <2> DEFINE played == Played(fills, Symbol, opening)
             replayed == Replayed(fills, Symbol, opening, day)
  <2>1. played \in LedgerAccount(Symbol) /\ day \in Int
        /\ \A s \in Symbol : position[s] \in LedgerRow
    BY RowsAndFills, PlayedType DEF TypeOK
  <2>2. replayed = [played EXCEPT !.position =
                       [s \in Symbol |-> Release(played.position[s], day, day)]]
    BY DEF Replayed
  <2>3. /\ replayed.refused = played.refused /\ replayed.cash = played.cash
        /\ \A s \in Symbol : replayed.position[s] = Release(played.position[s], day, day)
    <3> HIDE DEF played, replayed
    <3> QED
      BY <2>1, <2>2 DEF LedgerAccount
  <2>4. ASSUME ~played.refused
        PROVE  /\ cash = played.cash
               /\ \A s \in Symbol :
                     /\ Release(position[s], day, day).qty = replayed.position[s].qty
                     /\ Release(position[s], day, day).sellable = replayed.position[s].sellable
                     /\ Release(position[s], day, day).mark = replayed.position[s].mark
    <3>1. cash = played.cash /\ \A s \in Symbol : Agrees(position[s], played.position[s])
      BY <2>4 DEF ReplayInv
    <3>2. \A s \in Symbol : position[s].updated <= day /\ played.position[s] \in LedgerRow
      BY <2>1 DEF AccountInv, Kept, LedgerAccount
    <3> HIDE DEF played, replayed
    <3> QED
      BY <2>1, <2>3, <3>1, <3>2, ReleasedAlike
  <2> HIDE DEF played, replayed
  <2>5. ~replayed.refused =>
           /\ cash = replayed.cash
           /\ \A s \in Symbol :
                 /\ Release(position[s], day, day).qty = replayed.position[s].qty
                 /\ Release(position[s], day, day).sellable = replayed.position[s].sellable
                 /\ Release(position[s], day, day).mark = replayed.position[s].mark
    BY <2>3, <2>4
  <2> QED
    BY <2>5, Zenon DEF ReplayAgrees, replayed
<1> QED
  BY <1>1, TypeCorrect, AccountInvariant, ReplayInvariant, PTL

\* Every plan the OMS makes trades as much as the rules of the symbol let it,
\* whatever the rules and the target.
THEOREM PlanIsLargestHolds == Spec => []PlanIsLargest
<1>1. AccountInv => PlanIsLargest
  <2> SUFFICES ASSUME AccountInv, NEW s \in Symbol, NEW target \in Target
               PROVE  LargestTradable(position[s].qty, position[s].sellable, target)
    BY DEF PlanIsLargest
  <2>1. OnGrid(position[s].qty, position[s].sellable) /\ target \in Nat
    BY AccountAssumption DEF AccountInv, Kept
  <2> QED
    BY <2>1, PlanTradesTheLargest
<1> QED
  BY <1>1, AccountInvariant, PTL

\* A signal repeated after its order was filled asks for nothing, whatever the
\* rules, the position and the target.
THEOREM PlanSettlesHolds == Spec => []PlanSettles
<1>1. AccountInv => PlanSettles
  <2> SUFFICES ASSUME AccountInv, NEW s \in Symbol, NEW target \in Target
               PROVE  LET p == position[s]
                          plan == Plan(p.qty, p.sellable, target)
                      IN  IF plan.side = "buy"
                          THEN Plan(p.qty + plan.qty, p.sellable, target).qty = 0
                          ELSE Plan(p.qty - plan.qty, p.sellable - plan.qty, target).qty = 0
    BY DEF PlanSettles
  <2>1. OnGrid(position[s].qty, position[s].sellable) /\ target \in Nat
    BY AccountAssumption DEF AccountInv, Kept
  <2> QED
    BY <2>1, PlanSettlesOnGrid
<1> QED
  BY <1>1, AccountInvariant, PTL
=============================================================================
