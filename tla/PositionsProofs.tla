--------------------------- MODULE PositionsProofs ---------------------------
(***************************************************************************)
(* Proofs about Positions, for every market, configuration and number of   *)
(* signals, calls and processes: orders are sized right, a flatten leaves  *)
(* dust only, and the reservations of a bot stay within its cap.           *)
(***************************************************************************)
EXTENDS Positions, TLAPS, FiniteSetTheorems

LEMMA Division ==
    ASSUME NEW a \in Nat, NEW b \in Nat, b > 0
    PROVE  /\ a \div b \in Nat
           /\ (a \div b) * b <= a
           /\ a < (a \div b) * b + b
  BY SMT

LEMMA Products ==
    ASSUME NEW k \in Nat, NEW d \in Nat, NEW e \in Nat
    PROVE  /\ k * d \in Nat
           /\ k * (d * e) = (k * e) * d
           /\ k * (d * e) + d * e = (k * e + e) * d
  BY SMT

LEMMA RoundedDown ==
    ASSUME NEW num \in Nat, NEW den \in Nat, den > 0, PositionsOK
    PROVE  LET q == roundDownToStep(num, den)
           IN /\ q \in Nat /\ q % Step = 0
              /\ q * den <= num /\ num < (q + Step) * den
  <1> DEFINE d == den * Step
             k == num \div d
  <1>1. d \in Nat /\ d > 0
    BY SMT DEF PositionsOK
  <1>2. k \in Nat /\ k * d <= num /\ num < k * d + d
    BY <1>1, Division
  <1>3. Step \in Nat /\ Step > 0
    BY DEF PositionsOK
  <1>. HIDE DEF k
  <1>4. k * Step \in Nat
    BY <1>2, <1>3, Products
  <1>5. k * d = (k * Step) * den /\ k * d + d = (k * Step + Step) * den
    BY <1>2, <1>3, Products DEF d
  <1>6. (k * Step) % Step = 0
    BY <1>2, <1>3, SMT
  <1>7. roundDownToStep(num, den) = k * Step
    BY DEF roundDownToStep, k, d
  <1>. QED
    BY <1>2, <1>4, <1>5, <1>6, <1>7

-----------------------------------------------------------------------------
(* Types                                                                   *)

Order == [at : Stages, side : {"buy", "sell"}, free : Nat, price : Nat, qty : Nat, asked : Nat]
CallRow == [at : {"new", "looking", "selling", "over"}, host : Host, qty : Nat,
            outcome : Outcomes]

LEMMA OrderTypes == NoOrder \in Order /\ \A how \in Stages : Dropped(how) \in Order
  BY DEF NoOrder, Dropped, Order, Stages

LEMMA EndedType ==
    ASSUME TypeOK, NEW c \in Call, NEW outcome \in Outcomes
    PROVE  Ended(c, outcome) \in CallRow
  <1>1. call[c] \in CallRow
    BY DEF TypeOK, CallRow
  <1>. QED
    BY <1>1 DEF Ended, CallRow

LEMMA Requested ==
    ASSUME TypeOK, PositionsOK, NEW free \in Nat
    PROVE  computeRequestedNotional(free) \in Nat
  <1>1. bot.pct \in Nat /\ bot.fixed \in Nat
    BY DEF TypeOK, PositionsOK
  <1>. QED
    BY <1>1, Products DEF computeRequestedNotional

\* What a buy is granted, in the words of SizedRight.
LEMMA BuysAreSized ==
    ASSUME TypeOK, PositionsOK, NEW price \in Prices, NEW free \in Nat,
           NEW q \in computeBuyQuantity(price, free)
    PROVE  LET asked == computeRequestedNotional(free)
           IN /\ q \in Nat /\ q % Step = 0 /\ q >= MinQty
              /\ q * (100 * price) <= asked /\ asked < (q + Step) * (100 * price)
              /\ asked <= 100 * free /\ q * price >= MinNotional
  <1> DEFINE asked == computeRequestedNotional(free)
  <1>1. price \in Nat /\ price > 0
    BY DEF PositionsOK
  <1>2. 100 * price \in Nat /\ 100 * price > 0
    BY <1>1
  <1>3. asked \in Nat
    BY Requested
  <1>4. /\ q = roundDownToStep(asked, 100 * price)
        /\ asked <= 100 * free /\ q >= MinQty /\ q * price >= MinNotional
    BY DEF computeBuyQuantity
  <1>. HIDE DEF asked
  <1>5. LET r == roundDownToStep(asked, 100 * price)
        IN /\ r \in Nat /\ r % Step = 0
           /\ r * (100 * price) <= asked /\ asked < (r + Step) * (100 * price)
    BY <1>2, <1>3, RoundedDown
  <1>. QED
    BY <1>4, <1>5 DEF asked

\* The same of a sell.
LEMMA SellsAreSized ==
    ASSUME TypeOK, PositionsOK, NEW free \in Nat, NEW q \in computeSellQuantity(free)
    PROVE  /\ q \in Nat /\ q % Step = 0 /\ q >= MinQty
           /\ q * 100 <= bot.sell_pct * free /\ bot.sell_pct * free < (q + Step) * 100
           /\ bot.sell_pct * free <= 100 * free
  <1> DEFINE share == bot.sell_pct * free
  <1>1. bot.sell_pct \in 0..100
    BY DEF TypeOK, PositionsOK
  <1>2. share \in Nat /\ share <= 100 * free
    BY <1>1, SMT
  <1>3. q = roundDownToStep(share, 100) /\ q >= MinQty
    BY DEF computeSellQuantity
  <1>. HIDE DEF share
  <1>0. 100 \in Nat /\ 100 > 0
    OBVIOUS
  <1>4. LET r == roundDownToStep(share, 100)
        IN r \in Nat /\ r % Step = 0 /\ r * 100 <= share /\ share < (r + Step) * 100
    BY <1>0, <1>2, RoundedDown
  <1>. QED
    BY <1>2, <1>3, <1>4 DEF share

LEMMA Sales ==
    ASSUME NEW a \in Nat, NEW b \in Prices, NEW k \in Nat, PositionsOK
    PROVE  a * b \in Nat /\ k + a * b \in Nat /\ (a * b <= k => k - a * b \in Nat)
  <1>1. b \in Nat
    BY DEF PositionsOK
  <1>2. a * b \in Nat
    BY <1>1, SMT
  <1>. QED
    BY <1>2, SMT

LEMMA InitType == ASSUME PositionsOK, Init PROVE TypeOK
  <1>1. bot \in Configs /\ enabled \in BOOLEAN /\ quote \in Nat /\ base \in Nat
    BY DEF Init, PositionsOK
  <1>2. order \in [Signal -> Order]
    BY OrderTypes DEF Init
  <1>3. call \in [Call -> CallRow]
    BY DEF Init, CallRow, Outcomes
  <1>. QED
    BY <1>1, <1>2, <1>3 DEF TypeOK, Order, CallRow, Init

\* The order of one signal, replaced by a typed one.
LEMMA OrderStep ==
    ASSUME TypeOK, NEW s \in Signal, NEW o \in Order,
           order' = [order EXCEPT ![s] = o], UNCHANGED <<bot, enabled, call, calm>>,
           quote' \in Nat, base' \in Nat
    PROVE  TypeOK'
  BY DEF TypeOK, Order

LEMMA CallStep ==
    ASSUME TypeOK, NEW c \in Call, NEW r \in CallRow,
           call' = [call EXCEPT ![c] = r], calm' \in SUBSET Call,
           UNCHANGED <<bot, enabled, order>>, quote' \in Nat, base' \in Nat
    PROVE  TypeOK'
  BY DEF TypeOK, CallRow

LEMMA GatesType ==
    ASSUME TypeOK, NEW s \in Signal, NEW side \in {"buy", "sell"}, Gates(s, side)
    PROVE  TypeOK'
  <1>1. [NoOrder EXCEPT !.at = "gated", !.side = side] \in Order
    BY DEF NoOrder, Order, Stages
  <1>. QED
    BY <1>1, OrderStep DEF Gates, TypeOK

\* The order made of a granted quantity.
Made(s, price, free, q, asked) ==
    order' = [order EXCEPT ![s] = [@ EXCEPT !.at = "sized", !.free = free, !.price = price,
                                            !.qty = q, !.asked = asked]]

\* What Steps 5 and 6 make of the order, in either case.
LEMMA Sized ==
    ASSUME TypeOK, PositionsOK, NEW s \in Signal, NEW price \in Prices, ReadMarket(s, price)
    PROVE  \/ order' = [order EXCEPT ![s] = Dropped("over")]
           \/ \E q \in computeBuyQuantity(price, quote) :
                /\ order[s].side = "buy"
                /\ Made(s, price, quote, q, computeRequestedNotional(quote))
           \/ \E q \in computeSellQuantity(base) :
                /\ order[s].side = "sell" /\ Made(s, price, base, q, 0)
  <1>1. order[s].side \in {"buy", "sell"}
    BY DEF TypeOK
  <1>2. CASE order[s].side = "buy"
    <2> DEFINE q == CHOOSE x \in computeBuyQuantity(price, quote) : TRUE
    <2>1. CASE computeBuyQuantity(price, quote) = {}
      BY <1>2, <2>1 DEF ReadMarket
    <2>2. CASE computeBuyQuantity(price, quote) # {}
      <3>1. q \in computeBuyQuantity(price, quote)
        BY <2>2
      <3>. QED
        BY <1>2, <2>2, <3>1 DEF ReadMarket, Made
    <2>. QED
      BY <2>1, <2>2
  <1>3. CASE order[s].side = "sell"
    <2> DEFINE q == CHOOSE x \in computeSellQuantity(base) : TRUE
    <2>1. CASE computeSellQuantity(base) = {}
      BY <1>3, <2>1 DEF ReadMarket
    <2>2. CASE computeSellQuantity(base) # {}
      <3>1. q \in computeSellQuantity(base)
        BY <2>2
      <3>. QED
        BY <1>3, <2>2, <3>1 DEF ReadMarket, Made
    <2>. QED
      BY <2>1, <2>2
  <1>. QED
    BY <1>1, <1>2, <1>3

LEMMA ReadMarketType ==
    ASSUME TypeOK, PositionsOK, NEW s \in Signal, NEW price \in Prices, ReadMarket(s, price)
    PROVE  TypeOK'
  <1>1. UNCHANGED <<bot, enabled, quote, base, call, calm>>
    BY DEF ReadMarket
  <1>2. order[s] \in Order /\ price \in Nat /\ quote \in Nat /\ base \in Nat
    BY DEF TypeOK, Order, PositionsOK
  <1>3. CASE order' = [order EXCEPT ![s] = Dropped("over")]
    BY <1>1, <1>2, <1>3, OrderTypes, OrderStep DEF Stages
  <1>4. ASSUME NEW q \in Nat, NEW free \in Nat, NEW asked \in Nat,
               Made(s, price, free, q, asked)
        PROVE  TypeOK'
    <2> DEFINE o == [order[s] EXCEPT !.at = "sized", !.free = free, !.price = price,
                                     !.qty = q, !.asked = asked]
    <2>1. o \in Order
      BY <1>2 DEF Order, Stages
    <2>2. order' = [order EXCEPT ![s] = o]
      BY <1>4 DEF Made
    <2>. HIDE DEF o
    <2>. QED
      BY <1>1, <1>2, <2>1, <2>2, OrderStep
  <1>5. ASSUME NEW q \in computeBuyQuantity(price, quote) PROVE q \in Nat
    BY <1>2, <1>5, BuysAreSized
  <1>6. ASSUME NEW q \in computeSellQuantity(base) PROVE q \in Nat
    BY <1>2, <1>6, SellsAreSized
  <1>7. computeRequestedNotional(quote) \in Nat /\ 0 \in Nat
    BY <1>2, Requested
  <1>. QED
    BY <1>2, <1>3, <1>4, <1>5, <1>6, <1>7, Sized

LEMMA WorkerTypes ==
    ASSUME TypeOK, PositionsOK, NEW s \in Signal
    PROVE  /\ Abandon(s) \/ Reserve(s) => TypeOK'
           /\ \A price \in Prices : CreateOrder(s, price) => TypeOK'
  <1> DEFINE o == order[s]
  <1>1. o \in Order /\ quote \in Nat /\ base \in Nat
    BY DEF TypeOK, Order
  <1>2. \A at \in {"pending", "filled"} : [o EXCEPT !.at = at] \in Order
    BY <1>1 DEF Order, Stages
  <1>3. Dropped("over") \in Order /\ Dropped("failed") \in Order
    BY OrderTypes DEF Stages
  <1>. HIDE DEF o
  <1>4. ASSUME Abandon(s) PROVE TypeOK'
    <2>1. order' = [order EXCEPT ![s] = Dropped("over")]
      BY <1>4 DEF Abandon
    <2>. QED
      BY <1>1, <1>3, <1>4, <2>1, OrderStep DEF Abandon
  <1>5. ASSUME Reserve(s) PROVE TypeOK'
    <2>1. \/ order' = [order EXCEPT ![s] = Dropped("over")]
          \/ order' = [order EXCEPT ![s] = [o EXCEPT !.at = "pending"]]
      BY <1>5 DEF Reserve, o
    <2>2. UNCHANGED <<bot, enabled, quote, base, call, calm>>
      BY <1>5 DEF Reserve
    <2>. QED
      BY <1>1, <1>2, <1>3, <2>1, <2>2, OrderStep
  <1>6. ASSUME NEW price \in Prices, CreateOrder(s, price) PROVE TypeOK'
    <2>0. UNCHANGED <<bot, enabled, call, calm>> /\ o.qty \in Nat
      BY <1>1, <1>6 DEF CreateOrder, Order
    <2>1. CASE /\ o.side = "buy" /\ o.qty * price <= quote
               /\ quote' = quote - o.qty * price /\ base' = base + o.qty
               /\ order' = [order EXCEPT ![s].at = "filled"]
      <3>1. quote' \in Nat /\ base' \in Nat
        BY <1>1, <2>0, <2>1, Sales
      <3>2. order' = [order EXCEPT ![s] = [o EXCEPT !.at = "filled"]]
        BY <2>1 DEF o
      <3>. QED
        BY <1>2, <2>0, <3>1, <3>2, OrderStep
    <2>2. CASE /\ o.side = "sell" /\ o.qty <= base
               /\ quote' = quote + o.qty * price /\ base' = base - o.qty
               /\ order' = [order EXCEPT ![s].at = "filled"]
      <3>1. quote' \in Nat
        BY <1>1, <2>0, <2>2, Sales
      <3>2. base' \in Nat
        BY <1>1, <2>0, <2>2, SMT
      <3>3. order' = [order EXCEPT ![s] = [o EXCEPT !.at = "filled"]]
        BY <2>2 DEF o
      <3>. QED
        BY <1>2, <2>0, <3>1, <3>2, <3>3, OrderStep
    <2>3. CASE order' = [order EXCEPT ![s] = Dropped("failed")] /\ UNCHANGED <<quote, base>>
      BY <1>1, <1>3, <2>0, <2>3, OrderStep
    <2>. QED
      BY <1>6, <2>1, <2>2, <2>3 DEF CreateOrder, o
  <1>. QED
    BY <1>4, <1>5, <1>6

LEMMA FlattenTypes ==
    ASSUME TypeOK, PositionsOK, NEW c \in Call
    PROVE  /\ FlattenBegins(c) \/ FlattenReads(c) => TypeOK'
           /\ \A price \in Prices : FlattenSells(c, price) => TypeOK'
  <1> DEFINE r == call[c]
  <1>1. r \in CallRow /\ quote \in Nat /\ base \in Nat /\ calm \in SUBSET Call
    BY DEF TypeOK, CallRow
  <1>2. \A outcome \in Outcomes : Ended(c, outcome) \in CallRow
    BY EndedType
  <1>. HIDE DEF r
  <1>3. ASSUME FlattenBegins(c) PROVE TypeOK'
    <2>1. [r EXCEPT !.at = "looking"] \in CallRow
      BY <1>1 DEF CallRow
    <2>2. \/ call' = [call EXCEPT ![c] = [r EXCEPT !.at = "looking"]]
          \/ \E outcome \in Outcomes : call' = [call EXCEPT ![c] = Ended(c, outcome)]
      <3>1. CASE InFlight(call[c].host)
        BY <1>3, <3>1 DEF FlattenBegins, Outcomes
      <3>2. CASE ~InFlight(call[c].host)
        BY <1>3, <3>2 DEF FlattenBegins, Outcomes, r
      <3>. QED
        BY <3>1, <3>2
    <2>3. UNCHANGED <<bot, enabled, quote, base, order>> /\ calm' \in SUBSET Call
      BY <1>1, <1>3 DEF FlattenBegins
    <2>. QED
      BY <1>1, <1>2, <2>1, <2>2, <2>3, CallStep
  <1>4. ASSUME FlattenReads(c) PROVE TypeOK'
    <2>1. ASSUME NEW qty \in flattenQuantities
          PROVE  qty \in Nat /\ [r EXCEPT !.at = "selling", !.qty = qty] \in CallRow
      <3>1. roundDownToStep(base, 1) \in Nat /\ Step \in Nat
        <4>1. 1 \in Nat /\ 1 > 0
          OBVIOUS
        <4>. QED
          BY <1>1, <4>1, RoundedDown DEF PositionsOK
      <3>2. qty \in Nat
        BY <2>1, <3>1 DEF flattenQuantities
      <3>. QED
        BY <1>1, <3>2 DEF CallRow
    <2>2. \/ \E qty \in flattenQuantities :
               call' = [call EXCEPT ![c] = [r EXCEPT !.at = "selling", !.qty = qty]]
          \/ \E outcome \in Outcomes : call' = [call EXCEPT ![c] = Ended(c, outcome)]
      <3>1. ASSUME NEW qty \in flattenQuantities,
                   call' = [call EXCEPT ![c] =
                       IF qty >= MinQty /\ qty > 0 THEN [@ EXCEPT !.at = "selling", !.qty = qty]
                       ELSE Ended(c, "nothing_to_close")]
            PROVE  \/ call' = [call EXCEPT ![c] = [r EXCEPT !.at = "selling", !.qty = qty]]
                   \/ call' = [call EXCEPT ![c] = Ended(c, "nothing_to_close")]
        BY <3>1 DEF r
      <3>2. "nothing_to_close" \in Outcomes /\ "error" \in Outcomes
        BY DEF Outcomes
      <3>. QED
        BY <1>4, <3>1, <3>2, Zenon DEF FlattenReads
    <2>3. UNCHANGED <<bot, enabled, quote, base, order, calm>>
      BY <1>4 DEF FlattenReads
    <2>. QED
      BY <1>1, <1>2, <2>1, <2>2, <2>3, CallStep
  <1>5. ASSUME NEW price \in Prices, FlattenSells(c, price) PROVE TypeOK'
    <2>1. \E outcome \in Outcomes : call' = [call EXCEPT ![c] = Ended(c, outcome)]
      BY <1>5 DEF FlattenSells, Outcomes
    <2>2. r.qty \in Nat
      BY <1>1 DEF CallRow
    <2>3. quote' \in Nat /\ base' \in Nat
      <3>1. CASE /\ r.qty <= base
                 /\ quote' = quote + r.qty * price /\ base' = base - r.qty
        <4>1. quote' \in Nat
          BY <1>1, <2>2, <3>1, Sales
        <4>2. base' \in Nat
          BY <1>1, <2>2, <3>1, SMT
        <4>. QED
          BY <4>1, <4>2
      <3>. QED
        BY <1>1, <1>5, <3>1 DEF FlattenSells, r
    <2>4. UNCHANGED <<bot, enabled, order, calm>>
      BY <1>5 DEF FlattenSells
    <2>. QED
      BY <1>1, <1>2, <2>1, <2>3, <2>4, CallStep
  <1>. QED
    BY <1>3, <1>4, <1>5

LEMMA OperatorTypes ==
    ASSUME TypeOK
    PROVE  /\ \A host \in Host : HostDies(host) => TypeOK'
           /\ Kill \/ Arm => TypeOK'
  <1>1. ASSUME NEW host \in Host, HostDies(host) PROVE TypeOK'
    <2>1. \A c \in Call : Ended(c, "none") \in CallRow /\ call[c] \in CallRow
      BY EndedType DEF Outcomes, TypeOK, CallRow
    <2>2. call' \in [Call -> CallRow]
      BY <1>1, <2>1 DEF HostDies
    <2>. QED
      BY <1>1, <2>2 DEF HostDies, TypeOK, CallRow
  <1>2. ASSUME Kill \/ Arm PROVE TypeOK'
    BY <1>2 DEF Kill, Arm, TypeOK
  <1>. QED
    BY <1>1, <1>2

LEMMA NextType == ASSUME TypeOK, PositionsOK, [Next]_vars PROVE TypeOK'
  <1>1. CASE UNCHANGED vars
    BY <1>1 DEF vars, TypeOK
  <1>2. CASE Next
    <2>1. ASSUME NEW s \in Signal, NEW side \in {"buy", "sell"}, Gates(s, side) PROVE TypeOK'
      BY <2>1, GatesType
    <2>2. ASSUME NEW s \in Signal, NEW price \in Prices, ReadMarket(s, price) PROVE TypeOK'
      BY <2>2, ReadMarketType
    <2>. QED
      BY <1>2, <2>1, <2>2, WorkerTypes, FlattenTypes, OperatorTypes, Zenon DEF Next
  <1>. QED
    BY <1>1, <1>2

\* Every variable of the model keeps its type, and no balance of the account
\* (exchangeAdapter.ts, getFreeBalances) ever falls below nothing.
THEOREM TypeCorrect == Spec => []TypeOK
  <1>1. TypeOK /\ [Next]_vars => TypeOK'
    BY PositionsOK, NextType
  <1>2. Init => TypeOK
    BY PositionsOK, InitType
  <1>. QED
    BY <1>1, <1>2, PTL DEF Spec

-----------------------------------------------------------------------------
(* The size of an order                                                    *)

\* SizedRight of one order.
Right(o) ==
    o.at \in {"sized", "pending", "filled"} =>
        LET share == IF o.side = "buy" THEN o.asked ELSE bot.sell_pct * o.free
            unit == IF o.side = "buy" THEN 100 * o.price ELSE 100
        IN /\ o.qty % Step = 0 /\ o.qty >= MinQty
           /\ o.qty * unit <= share /\ share < (o.qty + Step) * unit
           /\ share <= 100 * o.free
           /\ o.side = "buy" => o.qty * o.price >= MinNotional

LEMMA RightStep ==
    ASSUME TypeOK, SizedRight, NEW s \in Signal, NEW o \in Order, Right(o),
           order' = [order EXCEPT ![s] = o], UNCHANGED bot
    PROVE  SizedRight'
  <1>1. \A t \in Signal : order'[t] = IF t = s THEN o ELSE order[t]
    BY DEF TypeOK
  <1>2. \A t \in Signal : Right(order[t])
    BY DEF SizedRight, Right
  <1>. HIDE DEF Right
  <1>3. \A t \in Signal : Right(order'[t])
    BY <1>1, <1>2
  <1>. QED
    BY <1>3 DEF SizedRight, Right

LEMMA NotSized ==
    \A how \in {"over", "failed"} : Dropped(how) \in Order /\ Right(Dropped(how))
  BY OrderTypes DEF Dropped, NoOrder, Order, Right, Stages

LEMMA ReadMarketSizes ==
    ASSUME TypeOK, PositionsOK, SizedRight, NEW s \in Signal, NEW price \in Prices,
           ReadMarket(s, price)
    PROVE  SizedRight'
  <1>1. UNCHANGED bot
    BY DEF ReadMarket
  <1>2. order[s] \in Order /\ price \in Nat /\ quote \in Nat /\ base \in Nat
    BY DEF TypeOK, Order, PositionsOK
  <1>3. CASE order' = [order EXCEPT ![s] = Dropped("over")]
    BY <1>1, <1>3, NotSized, RightStep
  <1>4. ASSUME NEW q \in computeBuyQuantity(price, quote), order[s].side = "buy",
               Made(s, price, quote, q, computeRequestedNotional(quote))
        PROVE  SizedRight'
    <2> DEFINE asked == computeRequestedNotional(quote)
               o == [order[s] EXCEPT !.at = "sized", !.free = quote, !.price = price,
                                     !.qty = q, !.asked = asked]
    <2>1. /\ q \in Nat /\ q % Step = 0 /\ q >= MinQty
          /\ q * (100 * price) <= asked /\ asked < (q + Step) * (100 * price)
          /\ asked <= 100 * quote /\ q * price >= MinNotional
      BY <1>2, BuysAreSized
    <2>2. asked \in Nat
      BY <1>2, Requested
    <2>3. order' = [order EXCEPT ![s] = o]
      BY <1>4 DEF Made
    <2>. HIDE DEF asked
    <2>7. q \in Nat
      BY <2>1
    <2>4. o \in Order
      BY <1>2, <2>2, <2>7 DEF Order, Stages
    <2>5. /\ o.side = "buy" /\ o.qty = q /\ o.asked = asked /\ o.free = quote
          /\ o.price = price
      BY <1>2, <1>4 DEF Order
    <2>. HIDE DEF o
    <2>6. Right(o)
      BY <2>1, <2>5 DEF Right
    <2>. QED
      BY <1>1, <2>3, <2>4, <2>6, RightStep
  <1>5. ASSUME NEW q \in computeSellQuantity(base), order[s].side = "sell",
               Made(s, price, base, q, 0)
        PROVE  SizedRight'
    <2> DEFINE o == [order[s] EXCEPT !.at = "sized", !.free = base, !.price = price,
                                     !.qty = q, !.asked = 0]
    <2>1. /\ q \in Nat /\ q % Step = 0 /\ q >= MinQty
          /\ q * 100 <= bot.sell_pct * base /\ bot.sell_pct * base < (q + Step) * 100
          /\ bot.sell_pct * base <= 100 * base
      BY <1>2, SellsAreSized
    <2>2. order' = [order EXCEPT ![s] = o]
      BY <1>5 DEF Made
    <2>6. q \in Nat
      BY <2>1
    <2>3. o \in Order
      BY <1>2, <2>6 DEF Order, Stages
    <2>4. o.side = "sell" /\ o.qty = q /\ o.free = base
      BY <1>2, <1>5 DEF Order
    <2>. HIDE DEF o
    <2>5. Right(o)
      BY <2>1, <2>4 DEF Right
    <2>. QED
      BY <1>1, <2>2, <2>3, <2>5, RightStep
  <1>. QED
    BY <1>3, <1>4, <1>5, Sized

LEMMA GoesOn ==
    ASSUME TypeOK, SizedRight, NEW s \in Signal, NEW at \in {"pending", "filled"},
           order[s].at \in {"sized", "pending"},
           order' = [order EXCEPT ![s].at = at], UNCHANGED bot
    PROVE  SizedRight'
  <1> DEFINE o == [order[s] EXCEPT !.at = at]
  <1>1. order[s] \in Order
    BY DEF TypeOK, Order
  <1>2. o \in Order
    BY <1>1 DEF Order, Stages
  <1>3. /\ o.side = order[s].side /\ o.free = order[s].free /\ o.price = order[s].price
        /\ o.qty = order[s].qty /\ o.asked = order[s].asked
    BY <1>1 DEF Order
  <1>4. order' = [order EXCEPT ![s] = o]
    OBVIOUS
  <1>. HIDE DEF o
  <1>5. Right(order[s])
    BY DEF SizedRight, Right
  <1>6. Right(o)
    BY <1>3, <1>5 DEF Right
  <1>. QED
    BY <1>2, <1>4, <1>6, RightStep

LEMMA NextSizes ==
    ASSUME TypeOK, PositionsOK, SizedRight, [Next]_vars
    PROVE  SizedRight'
  <1>1. CASE UNCHANGED <<bot, order>>
    BY <1>1 DEF SizedRight
  <1>2. ASSUME NEW s \in Signal, NEW side \in {"buy", "sell"}, Gates(s, side)
        PROVE  SizedRight'
    <2> DEFINE o == [NoOrder EXCEPT !.at = "gated", !.side = side]
    <2>1. o \in Order /\ o.at = "gated"
      BY DEF NoOrder, Order, Stages
    <2>2. order' = [order EXCEPT ![s] = o] /\ UNCHANGED bot
      BY <1>2 DEF Gates
    <2>. HIDE DEF o
    <2>3. Right(o)
      BY <2>1 DEF Right
    <2>. QED
      BY <2>1, <2>2, <2>3, RightStep
  <1>3. ASSUME NEW s \in Signal, Abandon(s) PROVE SizedRight'
    BY <1>3, NotSized, RightStep DEF Abandon
  <1>4. ASSUME NEW s \in Signal, Reserve(s) PROVE SizedRight'
    <2>1. \/ order' = [order EXCEPT ![s] = Dropped("over")]
          \/ order' = [order EXCEPT ![s].at = "pending"]
      BY <1>4 DEF Reserve
    <2>2. UNCHANGED bot /\ order[s].at = "sized"
      BY <1>4 DEF Reserve
    <2>. QED
      BY <2>1, <2>2, NotSized, RightStep, GoesOn
  <1>5. ASSUME NEW s \in Signal, NEW price \in Prices, CreateOrder(s, price)
        PROVE  SizedRight'
    <2>1. \/ order' = [order EXCEPT ![s] = Dropped("failed")]
          \/ order' = [order EXCEPT ![s].at = "filled"]
      BY <1>5 DEF CreateOrder
    <2>2. UNCHANGED bot /\ order[s].at = "pending"
      BY <1>5 DEF CreateOrder
    <2>. QED
      BY <2>1, <2>2, NotSized, RightStep, GoesOn
  <1>6. CASE Next
    <2>1. ASSUME NEW c \in Call, NEW price \in Prices,
                 FlattenBegins(c) \/ FlattenReads(c) \/ FlattenSells(c, price)
          PROVE  UNCHANGED <<bot, order>>
      BY <2>1 DEF FlattenBegins, FlattenReads, FlattenSells
    <2>2. ASSUME NEW c \in Call, FlattenBegins(c) \/ FlattenReads(c)
          PROVE  UNCHANGED <<bot, order>>
      BY <2>2 DEF FlattenBegins, FlattenReads
    <2>3. ASSUME NEW host \in Host, HostDies(host) PROVE UNCHANGED <<bot, order>>
      BY <2>3 DEF HostDies
    <2>4. ASSUME Kill \/ Arm PROVE UNCHANGED <<bot, order>>
      BY <2>4 DEF Kill, Arm
    <2>. QED
      BY <1>1, <1>2, <1>3, <1>4, <1>5, <1>6, <2>1, <2>2, <2>3, <2>4, ReadMarketSizes, Zenon
         DEF Next
  <1>. QED
    BY <1>1, <1>6 DEF vars

\* "Round down always" (sizingRisk.ts), for every market and every balance:
\* each order is the largest lot its share pays for, above the minima.
THEOREM OrdersAreSizedRight == Spec => []SizedRight
  <1>1. Init => SizedRight
    BY DEF Init, SizedRight, NoOrder
  <1>2. TypeOK /\ SizedRight /\ [Next]_vars => SizedRight'
    BY PositionsOK, NextSizes
  <1>. QED
    BY <1>1, <1>2, TypeCorrect, PTL DEF Spec

-----------------------------------------------------------------------------
(* What flatten leaves                                                     *)

\* Less than a lot above the market's minimum, or a lot at most.
Dust(b) == b <= Step \/ b < MinQty + Step

\* A calm call's account is only ever sold from: what it read of the base
\* stays within a lot of what there is, until its answer.
Calm ==
    /\ calm # {} => ~enabled /\ \A s \in Signal : ~UnderWay(s)
    /\ \A c \in calm :
        /\ call[c].at = "selling" => base <= call[c].qty + Step
        /\ call[c].outcome \in {"flattened", "nothing_to_close"} => Dust(base)
    /\ \A c \in Call : call[c].at # "over" => call[c].outcome = "none"

LEMMA DustFalls ==
    ASSUME PositionsOK, NEW a \in Nat, NEW b \in Nat, a <= b, Dust(b)
    PROVE  Dust(a)
  BY SMT DEF Dust, PositionsOK

\* While the account is only sold from, and one call moves on, the rest holds.
LEMMA CalmStep ==
    ASSUME TypeOK, TypeOK', PositionsOK, Calm, NEW c \in Call, NEW r \in CallRow,
           call' = [call EXCEPT ![c] = r], UNCHANGED <<enabled, order, calm>>,
           base' <= base, r.at # "over" => r.outcome = "none",
           c \in calm => /\ r.at = "selling" => base' <= r.qty + Step
                         /\ r.outcome \in {"flattened", "nothing_to_close"} => Dust(base')
    PROVE  Calm'
  <1>1. base \in Nat /\ base' \in Nat /\ Step \in Nat
    BY DEF TypeOK, PositionsOK
  <1>2. calm' # {} => ~enabled' /\ \A s \in Signal : ~UnderWay(s)'
    BY DEF Calm, UnderWay
  <1>3. ASSUME NEW d \in calm
        PROVE  /\ call'[d].at = "selling" => base' <= call'[d].qty + Step
               /\ call'[d].outcome \in {"flattened", "nothing_to_close"} => Dust(base')
    <2>1. CASE d = c
      BY <2>1 DEF TypeOK
    <2>2. CASE d # c
      <3>1. call'[d] = call[d] /\ call[d].qty \in Nat
        BY <2>2 DEF TypeOK
      <3>2. call[d].at = "selling" => base' <= call[d].qty + Step
        BY <1>1, <3>1, SMT DEF Calm
      <3>3. call[d].outcome \in {"flattened", "nothing_to_close"} => Dust(base')
        BY <1>1, DustFalls DEF Calm
      <3>. QED
        BY <3>1, <3>2, <3>3
    <2>. QED
      BY <2>1, <2>2
  <1>4. \A d \in Call : call'[d].at # "over" => call'[d].outcome = "none"
    BY DEF TypeOK, Calm
  <1>. QED
    BY <1>2, <1>3, <1>4 DEF Calm, Dust

LEMMA NoneCalm == ASSUME Calm, calm' = {}, UNCHANGED call PROVE Calm'
  BY DEF Calm

\* An order can only move, and trading only be switched, when no call is calm.
LEMMA OrdersDisturb ==
    ASSUME Calm, NEW s \in Signal,
           \/ \E side \in {"buy", "sell"} : Gates(s, side)
           \/ Abandon(s) \/ Reserve(s)
           \/ \E price \in Prices : ReadMarket(s, price) \/ CreateOrder(s, price)
    PROVE  Calm'
  <1>1. enabled \/ UnderWay(s)
    BY DEF Gates, Abandon, Reserve, ReadMarket, CreateOrder, UnderWay
  <1>2. UNCHANGED <<call, calm>>
    BY DEF Gates, Abandon, Reserve, ReadMarket, CreateOrder
  <1>. QED
    BY <1>1, <1>2, NoneCalm DEF Calm

LEMMA BeginsCalm ==
    ASSUME TypeOK, PositionsOK, Calm, NEW c \in Call, FlattenBegins(c)
    PROVE  Calm'
  <1>1. UNCHANGED <<bot, enabled, quote, base, order>>
    BY DEF FlattenBegins
  <1>2. calm' # {} => ~enabled' /\ \A s \in Signal : ~UnderWay(s)'
    BY <1>1 DEF FlattenBegins, Calm, UnderWay
  <1>3. calm' \subseteq calm \cup {c}
    BY DEF FlattenBegins
  <1>4. call[c] \in CallRow /\ call[c].at = "new"
    BY DEF FlattenBegins, TypeOK, CallRow
  <1>5. \E r \in CallRow :
          /\ call' = [call EXCEPT ![c] = r]
          /\ r.at # "selling" /\ r.outcome \notin {"flattened", "nothing_to_close"}
          /\ r.at # "over" => r.outcome = "none"
    <2>1. ASSUME NEW outcome \in {"skipped_locked", "skipped_no_adapter", "error"}
          PROVE  /\ Ended(c, outcome) \in CallRow /\ Ended(c, outcome).at = "over"
                 /\ Ended(c, outcome).outcome = outcome
      BY <1>4, EndedType DEF Ended, CallRow, Outcomes
    <2>2. CASE \E outcome \in {"skipped_locked", "skipped_no_adapter", "error"} :
                  call' = [call EXCEPT ![c] = Ended(c, outcome)]
      BY <2>1, <2>2
    <2>3. CASE call' = [call EXCEPT ![c].at = "looking"]
      <3> DEFINE r == [call[c] EXCEPT !.at = "looking"]
      <3>1. r \in CallRow /\ r.at = "looking" /\ r.outcome = "none"
        BY <1>4 DEF CallRow, Calm
      <3>2. call' = [call EXCEPT ![c] = r]
        BY <2>3
      <3>. HIDE DEF r
      <3>. QED
        BY <3>1, <3>2
    <2>. QED
      BY <2>2, <2>3 DEF FlattenBegins
  <1>6. PICK r \in CallRow :
          /\ call' = [call EXCEPT ![c] = r]
          /\ r.at # "selling" /\ r.outcome \notin {"flattened", "nothing_to_close"}
          /\ r.at # "over" => r.outcome = "none"
    BY <1>5
  <1>7. \A d \in Call : call'[d] = IF d = c THEN r ELSE call[d]
    BY <1>6 DEF TypeOK
  <1>8. \A d \in calm' : /\ call'[d].at = "selling" => base' <= call'[d].qty + Step
                         /\ call'[d].outcome \in {"flattened", "nothing_to_close"} => Dust(base')
    BY <1>1, <1>3, <1>6, <1>7 DEF Calm, TypeOK
  <1>9. \A d \in Call : call'[d].at # "over" => call'[d].outcome = "none"
    BY <1>6, <1>7 DEF Calm
  <1>. QED
    BY <1>2, <1>8, <1>9 DEF Calm, Dust

LEMMA ReadsCalm ==
    ASSUME TypeOK, TypeOK', PositionsOK, Calm, NEW c \in Call, FlattenReads(c)
    PROVE  Calm'
  <1>1. UNCHANGED <<bot, enabled, quote, base, order, calm>>
    BY DEF FlattenReads
  <1>2. base \in Nat /\ base' <= base /\ Step \in Nat /\ MinQty \in Nat
    BY <1>1 DEF TypeOK, PositionsOK
  <1>3. call[c] \in CallRow /\ call[c].outcome = "none"
    BY DEF FlattenReads, TypeOK, CallRow, Calm
  <1>4. CASE call' = [call EXCEPT ![c] = Ended(c, "error")]
    <2>1. /\ Ended(c, "error") \in CallRow /\ Ended(c, "error").at = "over"
          /\ Ended(c, "error").outcome = "error"
      BY <1>3, EndedType DEF Ended, CallRow, Outcomes
    <2>. QED
      BY <1>1, <1>2, <1>4, <2>1, CalmStep
  <1>5. ASSUME NEW qty \in flattenQuantities,
               call' = [call EXCEPT ![c] =
                   IF qty >= MinQty /\ qty > 0 THEN [@ EXCEPT !.at = "selling", !.qty = qty]
                   ELSE Ended(c, "nothing_to_close")]
        PROVE  Calm'
    <2> DEFINE all == roundDownToStep(base, 1)
    <2>1. all \in Nat /\ base < all + Step /\ all <= base
      <3>1. 1 \in Nat /\ 1 > 0
        OBVIOUS
      <3>2. all \in Nat /\ all * 1 <= base /\ base < (all + Step) * 1
        BY <1>2, <3>1, RoundedDown, Zenon
      <3>. HIDE DEF all
      <3>. QED
        BY <1>2, <3>2, SMT
    <2>2. qty = all \/ (qty = all - Step /\ base = all /\ all >= Step)
      <3>1. qty \in {all} \cup (IF base = all /\ all >= Step THEN {all - Step} ELSE {})
        BY <1>5 DEF flattenQuantities
      <3>. HIDE DEF all
      <3>. QED
        BY <3>1, Zenon
    <2>3. qty \in Nat /\ base <= qty + Step
      <3>. HIDE DEF all
      <3>. QED
        BY <1>2, <2>1, <2>2, SMT
    <2>4. CASE qty >= MinQty /\ qty > 0
      <3> DEFINE r == [call[c] EXCEPT !.at = "selling", !.qty = qty]
      <3>1. /\ r \in CallRow /\ r.at = "selling" /\ r.qty = qty
            /\ r.outcome = "none"
        BY <1>3, <2>3 DEF CallRow
      <3>2. call' = [call EXCEPT ![c] = r]
        BY <1>5, <2>4
      <3>. HIDE DEF r
      <3>3. base' <= r.qty + Step
        BY <1>1, <2>3, <3>1
      <3>. QED
        BY ONLY <1>1, <1>2, <3>1, <3>2, <3>3, CalmStep, TypeOK, TypeOK', PositionsOK, Calm
    <2>5. CASE ~(qty >= MinQty /\ qty > 0)
      <3> DEFINE r == Ended(c, "nothing_to_close")
      <3>1. r \in CallRow /\ r.at = "over" /\ r.outcome = "nothing_to_close"
        BY <1>3, EndedType DEF Ended, CallRow, Outcomes
      <3>2. call' = [call EXCEPT ![c] = r]
        BY <1>5, <2>5
      <3>. HIDE DEF r
      <3>3. base' <= Step \/ base' < MinQty + Step
        BY <1>1, <1>2, <2>3, <2>5, SMT
      <3>4. Dust(base')
        BY <3>3 DEF Dust
      <3>. QED
        BY <1>1, <1>2, <3>1, <3>2, <3>4, CalmStep
    <2>. QED
      BY <2>4, <2>5
  <1>. QED
    BY <1>4, <1>5 DEF FlattenReads

LEMMA SellsCalm ==
    ASSUME TypeOK, TypeOK', PositionsOK, Calm, NEW c \in Call, NEW price \in Prices,
           FlattenSells(c, price)
    PROVE  Calm'
  <1>1. UNCHANGED <<bot, enabled, order, calm>> /\ call[c].at = "selling"
    BY DEF FlattenSells
  <1>2. base \in Nat /\ base' \in Nat /\ Step \in Nat
    BY DEF TypeOK, PositionsOK
  <1>3. call[c] \in CallRow /\ call[c].qty \in Nat
    BY DEF TypeOK, CallRow
  <1>4. c \in calm => base <= call[c].qty + Step
    BY <1>1 DEF Calm
  <1>5. ASSUME NEW outcome \in {"flattened", "error"}
        PROVE  /\ Ended(c, outcome) \in CallRow /\ Ended(c, outcome).at = "over"
               /\ Ended(c, outcome).outcome = outcome
    BY <1>3, EndedType DEF Ended, CallRow, Outcomes
  <1>6. CASE call[c].qty <= base /\ base' = base - call[c].qty
    <2>1. base' <= base /\ (c \in calm => base' <= Step)
      BY <1>2, <1>3, <1>4, <1>6, SMT
    <2>2. PICK outcome \in {"flattened", "error"} :
             call' = [call EXCEPT ![c] = Ended(c, outcome)]
      BY DEF FlattenSells
    <2>3. c \in calm => Dust(base')
      BY <2>1 DEF Dust
    <2> DEFINE r == Ended(c, outcome)
    <2>4. r \in CallRow /\ call' = [call EXCEPT ![c] = r]
      BY <1>5, <2>2
    <2>5. r.at = "over"
      BY <1>5, <2>2
    <2>. HIDE DEF r
    <2>. QED
      BY ONLY <1>1, <2>1, <2>3, <2>4, <2>5, CalmStep, TypeOK, TypeOK', PositionsOK, Calm, c \in Call
  <1>7. CASE call' = [call EXCEPT ![c] = Ended(c, "error")] /\ base' = base
    <2> DEFINE r == Ended(c, "error")
    <2>1. r \in CallRow /\ call' = [call EXCEPT ![c] = r]
      BY <1>5, <1>7
    <2>2. r.at = "over" /\ r.outcome = "error" /\ base' <= base
      BY <1>2, <1>5, <1>7
    <2>. HIDE DEF r
    <2>. QED
      BY <1>1, <2>1, <2>2, CalmStep
  <1>8. \/ call[c].qty <= base /\ base' = base - call[c].qty
        \/ call' = [call EXCEPT ![c] = Ended(c, "error")] /\ base' = base
    BY DEF FlattenSells
  <1>. QED
    BY <1>6, <1>7, <1>8

LEMMA OperatorCalm ==
    ASSUME TypeOK, Calm
    PROVE  /\ \A host \in Host : HostDies(host) => Calm'
           /\ Kill \/ Arm => Calm'
  <1>1. ASSUME NEW host \in Host, HostDies(host) PROVE Calm'
    <2>1. UNCHANGED <<bot, enabled, quote, base, order, calm>>
      BY <1>1 DEF HostDies
    <2>2. \A c \in Call : /\ Ended(c, "none").at = "over"
                          /\ Ended(c, "none").outcome = "none"
      BY DEF Ended, TypeOK
    <2>3. \A c \in Call : \/ call'[c] = call[c]
                          \/ call'[c].at = "over" /\ call'[c].outcome = "none"
      BY <1>1, <2>2 DEF HostDies
    <2>4. calm \subseteq Call
      BY DEF TypeOK
    <2>5. \A c \in calm : /\ call'[c].at = "selling" => base' <= call'[c].qty + Step
                          /\ call'[c].outcome \in {"flattened", "nothing_to_close"} => Dust(base')
      BY <2>1, <2>3, <2>4 DEF Calm
    <2>6. \A c \in Call : call'[c].at # "over" => call'[c].outcome = "none"
      BY <2>3 DEF Calm
    <2>7. calm' # {} => ~enabled' /\ \A s \in Signal : ~UnderWay(s)'
      BY <2>1 DEF Calm, UnderWay
    <2>. QED
      BY <2>1, <2>5, <2>6, <2>7 DEF Calm, Dust
  <1>2. ASSUME Kill PROVE Calm'
    <2>1. calm' = {} /\ UNCHANGED call
      BY <1>2 DEF Kill, Calm
    <2>. QED
      BY <2>1, NoneCalm
  <1>3. ASSUME Arm PROVE Calm'
    BY <1>3, NoneCalm DEF Arm
  <1>. QED
    BY <1>1, <1>2, <1>3

LEMMA NextCalm ==
    ASSUME TypeOK, TypeOK', PositionsOK, Calm, [Next]_vars
    PROVE  Calm'
  <1>1. CASE UNCHANGED vars
    BY <1>1 DEF vars, Calm, UnderWay, Dust
  <1>2. CASE Next
    BY <1>2, OrdersDisturb, BeginsCalm, ReadsCalm, SellsCalm, OperatorCalm, Zenon DEF Next
  <1>. QED
    BY <1>1, <1>2

\* Flatten "closes what is already open" (flatten.ts), whatever the market,
\* the other calls and the process deaths, as long as nothing trades: it is
\* the kill first, and the orders under way ended, that make it true.
THEOREM FlattenIsEnough == Spec => []FlattenLeavesDust
  <1>1. Init => Calm
    BY DEF Init, Calm
  <1>2. TypeOK /\ TypeOK' /\ Calm /\ [Next]_vars => Calm'
    BY PositionsOK, NextCalm
  <1>3. Calm => FlattenLeavesDust
    BY DEF Calm, Dust, FlattenLeavesDust
  <1>. QED
    BY <1>1, <1>2, <1>3, TypeCorrect, PTL DEF Spec

-----------------------------------------------------------------------------
(* The cap of the reservations.  Reserved is a fold over a set, which      *)
(* chooses its elements one at a time: the lemmas show that it counts the  *)
(* units asked for, whatever the order of the choice, and from there on    *)
(* finite sets do the arithmetic.                                          *)

\* A set of subsets of a finite set has a minimal element: what stands here
\* for induction over finite sets.
LEMMA MinimalSubset ==
    ASSUME NEW S, IsFiniteSet(S), NEW T, T \subseteq SUBSET S, T # {}
    PROVE  \E x \in T : \A y \in T : y \subseteq x => y = x
  <1>1. T \subseteq FiniteSubsetsOf(S)
    BY FS_Subset DEF FiniteSubsetsOf
  <1>2. PICK x \in T : \A y \in T : ~(<<y, x>> \in StrictSubsetOrdering(S))
    BY <1>1, FS_StrictSubsetOrderingWellFounded, WFMin
  <1>. QED
    BY <1>1, <1>2 DEF StrictSubsetOrdering, FiniteSubsetsOf

Open(o) == {s \in Signal : o[s].at \in {"pending", "filled"}}
Total(o, A) == MapThenSumSet(LAMBDA s : o[s].asked, A)
Pick(A) == CHOOSE x \in A : TRUE
Sums(g, o, A) ==
    g = [B \in SUBSET A |-> IF B = {} THEN 0 ELSE o[Pick(B)].asked + g[B \ {Pick(B)}]]

LEMMA ReservedIs == Reserved = Total(order, Open(order))
  BY DEF Reserved, Total, Open

LEMMA TotalIsTheSum == ASSUME NEW o, NEW A PROVE Total(o, A) = (CHOOSE g : Sums(g, o, A))[A]
  BY DEF Total, MapThenSumSet, MapThenFoldSet, Sums, Pick

\* The units asked for, each by its order and its number.
UnitsOf(o, s) == {s} \X (1..o[s].asked)
Units(o, A) == UNION {UnitsOf(o, s) : s \in A}
Asking(o) == \A s \in Signal : o[s].asked \in Nat

LEMMA OneOrdersUnits ==
    ASSUME NEW o, NEW s, o[s].asked \in Nat
    PROVE  IsFiniteSet(UnitsOf(o, s)) /\ Cardinality(UnitsOf(o, s)) = o[s].asked
  <1> DEFINE N == 1..o[s].asked
  <1>1. IsFiniteSet(N) /\ Cardinality(N) = o[s].asked
    <2>1. PICK n \in Nat : n = o[s].asked
      OBVIOUS
    <2>2. PICK one \in Int : one = 1
      OBVIOUS
    <2>3. n \in Int
      OBVIOUS
    <2>4. /\ IsFiniteSet(one..n)
          /\ Cardinality(one..n) = IF one > n THEN 0 ELSE n - one + 1
      BY <2>3, FS_Interval, Zenon
    <2>5. (IF one > n THEN 0 ELSE n - one + 1) = n
      BY <2>2
    <2>. QED
      BY <2>1, <2>2, <2>4, <2>5, Zenon
  <1>2. IsFiniteSet({s}) /\ Cardinality({s}) = 1
    BY FS_Singleton
  <1>. HIDE DEF N
  <1>3. IsFiniteSet({s} \X N) /\ Cardinality({s} \X N) = 1 * Cardinality(N)
    BY <1>1, <1>2, FS_Product
  <1>. QED
    BY <1>1, <1>3 DEF UnitsOf, N

LEMMA OneOrderMore ==
    ASSUME NEW o, NEW A, NEW s \in A, NEW B, B = A \ {s},
           o[s].asked \in Nat, IsFiniteSet(Units(o, B))
    PROVE  /\ IsFiniteSet(Units(o, A))
           /\ Cardinality(Units(o, A)) = o[s].asked + Cardinality(Units(o, B))
  <1> DEFINE rest == Units(o, B)
             own == UnitsOf(o, s)
  <1>1. Units(o, A) = rest \cup own
    BY DEF Units
  <1>2. rest \cap own = {}
    BY DEF Units, UnitsOf
  <1>3. IsFiniteSet(own) /\ Cardinality(own) = o[s].asked
    BY OneOrdersUnits
  <1>4. IsFiniteSet(rest) /\ Cardinality(rest) \in Nat
    BY FS_CardinalityType
  <1>. HIDE DEF rest, own
  <1>5. /\ IsFiniteSet(rest \cup own)
        /\ Cardinality(rest \cup own)
             = Cardinality(rest) + Cardinality(own) - Cardinality(rest \cap own)
    BY <1>3, <1>4, FS_Union
  <1>6. Cardinality(rest \cap own) = 0
    BY <1>2, FS_EmptySet, Zenon
  <1>7. Cardinality(rest \cup own) = o[s].asked + Cardinality(rest)
    BY <1>3, <1>4, <1>5, <1>6
  <1>. QED
    BY <1>1, <1>5, <1>7, Zenon DEF rest

LEMMA UnitsAreFinite ==
    ASSUME IsFiniteSet(Signal), NEW o, Asking(o), NEW A \in SUBSET Signal
    PROVE  IsFiniteSet(Units(o, A)) /\ Cardinality(Units(o, A)) \in Nat
  <1> DEFINE Bad == {B \in SUBSET Signal : ~IsFiniteSet(Units(o, B))}
  <1>1. SUFFICES ASSUME Bad # {} PROVE FALSE
    <2>1. IsFiniteSet(Units(o, A))
      BY <1>1
    <2>. QED
      BY <2>1, FS_CardinalityType
  <1>2. PICK B \in Bad : \A C \in Bad : C \subseteq B => C = B
    <2>1. Bad \subseteq SUBSET Signal
      OBVIOUS
    <2>. HIDE DEF Bad
    <2>. QED
      BY <1>1, <2>1, MinimalSubset
  <1>3. Units(o, {}) = {}
    BY DEF Units
  <1>4. PICK s \in B : TRUE
    BY <1>2, <1>3, FS_EmptySet
  <1>5. IsFiniteSet(Units(o, B \ {s}))
    BY <1>2
  <1>6. o[s].asked \in Nat
    BY <1>2 DEF Asking
  <1>. QED
    BY <1>2, <1>5, <1>6, OneOrderMore

LEMMA TotalCounts ==
    ASSUME IsFiniteSet(Signal), NEW o, Asking(o), NEW A \in SUBSET Signal
    PROVE  Total(o, A) = Cardinality(Units(o, A))
  <1> DEFINE count == [B \in SUBSET A |-> Cardinality(Units(o, B))]
             g == CHOOSE f : Sums(f, o, A)
  <1>1. ASSUME NEW B \in SUBSET A, B # {}
        PROVE  /\ Pick(B) \in B /\ B \ {Pick(B)} \in SUBSET A
               /\ count[B] = o[Pick(B)].asked + count[B \ {Pick(B)}]
    <2>1. Pick(B) \in B
      BY <1>1 DEF Pick
    <2>2. B \ {Pick(B)} \in SUBSET A /\ B \ {Pick(B)} \in SUBSET Signal
      OBVIOUS
    <2>3. o[Pick(B)].asked \in Nat
      BY <2>1 DEF Asking
    <2>4. IsFiniteSet(Units(o, B \ {Pick(B)}))
      BY <2>2, UnitsAreFinite
    <2>5. Cardinality(Units(o, B)) = o[Pick(B)].asked + Cardinality(Units(o, B \ {Pick(B)}))
      <3>1. PICK x, C : x = Pick(B) /\ C = B \ {x}
        OBVIOUS
      <3>2. x \in B /\ o[x].asked \in Nat /\ IsFiniteSet(Units(o, C))
        BY <2>1, <2>3, <2>4, <3>1, Zenon
      <3>3. Cardinality(Units(o, B)) = o[x].asked + Cardinality(Units(o, C))
        BY <3>1, <3>2, OneOrderMore
      <3>. QED
        BY <3>1, <3>3, Zenon
    <2>. QED
      BY <2>1, <2>2, <2>5
  <1>2. count[{}] = 0
    <2>1. Units(o, {}) = {}
      BY DEF Units
    <2>. QED
      BY <2>1, FS_EmptySet
  <1>3. Sums(count, o, A)
    <2> DEFINE h == [B \in SUBSET A |->
                       IF B = {} THEN 0 ELSE o[Pick(B)].asked + count[B \ {Pick(B)}]]
    <2>1. \A B \in SUBSET A : count[B] = h[B]
      <3>1. \A B \in SUBSET A : h[B] = IF B = {} THEN 0 ELSE o[Pick(B)].asked + count[B \ {Pick(B)}]
        BY Zenon
      <3>. HIDE DEF count, h
      <3>. QED
        BY <1>1, <1>2, <3>1
    <2>2. count = [B \in SUBSET A |-> count[B]] /\ h = [B \in SUBSET A |-> h[B]]
      BY Zenon
    <2>. HIDE DEF count
    <2>3. count = h
      <3>. HIDE DEF h
      <3>. QED BY <2>1, <2>2, Zenon
    <2>. QED
      BY <2>3 DEF Sums
  <1>4. Sums(g, o, A)
    <2>. HIDE DEF count
    <2>. QED BY <1>3
  <1>. HIDE DEF g
  <1>5. \A B \in SUBSET A : g[B] = IF B = {} THEN 0 ELSE o[Pick(B)].asked + g[B \ {Pick(B)}]
    BY <1>4, Zenon DEF Sums
  <1> DEFINE Bad == {B \in SUBSET A : g[B] # count[B]}
  <1>6. Bad = {}
    <2>1. SUFFICES ASSUME Bad # {} PROVE FALSE
      OBVIOUS
    <2>2. Bad \subseteq SUBSET Signal
      OBVIOUS
    <2>3. PICK B \in Bad : \A C \in Bad : C \subseteq B => C = B
      <3>. HIDE DEF Bad
      <3>. QED
        BY <2>1, <2>2, MinimalSubset
    <2>. HIDE DEF count
    <2>4. B # {}
      BY <1>2, <1>5, <2>3
    <2>5. Pick(B) \in B /\ B \ {Pick(B)} \in SUBSET A
      BY <1>1, <2>3, <2>4
    <2>6. g[B \ {Pick(B)}] = count[B \ {Pick(B)}]
      BY <2>3, <2>5
    <2>. QED
      BY <1>1, <1>5, <2>3, <2>4, <2>6
  <1>7. g[A] = count[A]
    BY <1>6
  <1>. QED
    BY <1>7, TotalIsTheSum DEF g

LEMMA TotalsOfTheSame ==
    ASSUME IsFiniteSet(Signal), NEW o, Asking(o), NEW p, Asking(p), NEW A \in SUBSET Signal,
           \A s \in A : o[s].asked = p[s].asked
    PROVE  Total(o, A) = Total(p, A)
  <1>1. \A s \in A : UnitsOf(o, s) = UnitsOf(p, s)
    BY DEF UnitsOf
  <1>2. Units(o, A) = Units(p, A)
    BY <1>1 DEF Units
  <1>3. Total(o, A) = Cardinality(Units(o, A)) /\ Total(p, A) = Cardinality(Units(p, A))
    BY TotalCounts
  <1>. QED
    BY <1>2, <1>3, Zenon

LEMMA TotalWithOneMore ==
    ASSUME IsFiniteSet(Signal), NEW o, Asking(o), NEW A \in SUBSET Signal, NEW s \in A,
           NEW B, B = A \ {s}
    PROVE  Total(o, A) = o[s].asked + Total(o, B) /\ Total(o, B) \in Nat
  <1>1. B \in SUBSET Signal /\ o[s].asked \in Nat
    BY DEF Asking
  <1>2. IsFiniteSet(Units(o, B)) /\ Cardinality(Units(o, B)) \in Nat
    BY <1>1, UnitsAreFinite
  <1>3. Cardinality(Units(o, A)) = o[s].asked + Cardinality(Units(o, B))
    BY <1>1, <1>2, OneOrderMore
  <1>4. Total(o, A) = Cardinality(Units(o, A)) /\ Total(o, B) = Cardinality(Units(o, B))
    BY <1>1, TotalCounts
  <1>. QED
    BY <1>2, <1>3, <1>4, Zenon

\* A sell asks for nothing, so it adds nothing to what is reserved.
Capped ==
    /\ Total(order, Open(order)) <= 100 * bot.cap
    /\ \A s \in Signal : order[s].side = "sell" => order[s].asked = 0

\* The step of one order keeps the cap: unless it opens, its reservation
\* stays as it is or goes; if it opens, it was counted first.
LEMMA OneOrderMoves ==
    ASSUME TypeOK, TypeOK', IsFiniteSet(Signal), Capped, bot' = bot, NEW s \in Signal,
           \A t \in Signal \ {s} : order'[t] = order[t],
           order'[s].side = "sell" => order'[s].asked = 0,
           s \in Open(order) /\ s \in Open(order') => order'[s].asked = order[s].asked,
           s \notin Open(order) /\ s \in Open(order') =>
               Total(order, Open(order)) + order'[s].asked <= 100 * bot.cap
    PROVE  Capped'
  <1> DEFINE A == Open(order)
             B == Open(order')
             rest == A \ {s}
  <1>1. Asking(order) /\ Asking(order')
    BY DEF TypeOK, Asking
  <1>2. A \in SUBSET Signal /\ B \in SUBSET Signal /\ rest \in SUBSET Signal
    BY DEF Open
  <1>3. B \ {s} = rest
    BY DEF Open
  <1>4. \A t \in rest : order'[t].asked = order[t].asked
    BY <1>2
  <1>5. s \in A => Total(order, A) = order[s].asked + Total(order, rest)
    BY <1>1, <1>2, TotalWithOneMore
  <1>6. s \in B => Total(order', B) = order'[s].asked + Total(order', rest)
    BY <1>1, <1>2, <1>3, TotalWithOneMore
  <1>7. Total(order', rest) = Total(order, rest)
    BY <1>1, <1>2, <1>4, TotalsOfTheSame
  <1>8. /\ Total(order, rest) \in Nat /\ order[s].asked \in Nat
        /\ order'[s].asked \in Nat /\ bot.cap \in Nat
    <2>1. Total(order, rest) = Cardinality(Units(order, rest))
      BY <1>1, <1>2, TotalCounts
    <2>2. Cardinality(Units(order, rest)) \in Nat
      BY <1>1, <1>2, UnitsAreFinite
    <2>. QED
      BY <1>1, <2>1, <2>2, PositionsOK DEF Asking, TypeOK
  <1>9. (s \notin A => A = rest) /\ (s \notin B => B = rest)
    BY <1>3, Zenon
  <1>10. Total(order, A) <= 100 * bot.cap
    BY DEF Capped
  <1>. HIDE DEF A, B, rest
  <1>11. Total(order', B) <= 100 * bot.cap
    <2>1. CASE s \in A /\ s \in B
      <3>1. order'[s].asked = order[s].asked
        BY <2>1 DEF A, B
      <3>. QED
        BY <1>5, <1>6, <1>7, <1>8, <1>10, <2>1, <3>1
    <2>2. CASE s \notin A /\ s \in B
      <3>1. Total(order, A) + order'[s].asked <= 100 * bot.cap
        BY <2>2 DEF A, B
      <3>. QED
        BY <1>6, <1>7, <1>8, <1>9, <2>2, <3>1
    <2>3. CASE s \in A /\ s \notin B
      BY <1>5, <1>7, <1>8, <1>9, <1>10, <2>3
    <2>4. CASE s \notin A /\ s \notin B
      BY <1>7, <1>9, <1>10, <2>4
    <2>. QED
      BY <2>1, <2>2, <2>3, <2>4
  <1>12. Total(order', Open(order')) <= 100 * bot'.cap
    BY <1>11 DEF B
  <1>13. \A t \in Signal : order'[t].side = "sell" => order'[t].asked = 0
    BY DEF Capped
  <1>. QED
    BY <1>12, <1>13 DEF Capped

LEMMA NextCaps ==
    ASSUME TypeOK, TypeOK', PositionsOK, Capped, [Next]_vars
    PROVE  Capped'
  <1>1. IsFiniteSet(Signal)
    BY DEF PositionsOK
  <1>2. ASSUME NEW s \in Signal, NEW side \in {"buy", "sell"}, Gates(s, side) PROVE Capped'
    <2>1. s \notin Open(order) /\ s \notin Open(order')
      BY <1>2 DEF Gates, NoOrder, TypeOK, Open
    <2>2. order'[s].asked = 0 /\ bot' = bot /\ \A t \in Signal \ {s} : order'[t] = order[t]
      BY <1>2 DEF Gates, NoOrder, TypeOK
    <2>. QED
      BY <1>1, <2>1, <2>2, OneOrderMoves
  <1>3. ASSUME NEW s \in Signal, NEW price \in Prices, ReadMarket(s, price) PROVE Capped'
    <2>1. order[s].at = "gated" /\ bot' = bot
      BY <1>3 DEF ReadMarket
    <2>2. CASE order' = [order EXCEPT ![s] = Dropped("over")]
      <3>1. /\ s \notin Open(order) /\ s \notin Open(order') /\ order'[s].asked = 0
            /\ \A t \in Signal \ {s} : order'[t] = order[t]
        BY <2>1, <2>2 DEF Dropped, NoOrder, TypeOK, Open
      <3>. QED
        BY <1>1, <2>1, <3>1, OneOrderMoves
    <2>3. ASSUME NEW free, NEW q, NEW asked, Made(s, price, free, q, asked),
                 order[s].side = "sell" => asked = 0
          PROVE  Capped'
      <3>1. /\ s \notin Open(order) /\ s \notin Open(order')
            /\ order'[s].side = "sell" => order'[s].asked = 0
            /\ \A t \in Signal \ {s} : order'[t] = order[t]
        BY <2>1, <2>3 DEF Made, TypeOK, Open
      <3>. QED
        BY <1>1, <2>1, <3>1, OneOrderMoves
    <2>. QED
      BY <1>3, <2>2, <2>3, Sized
  <1>4. ASSUME NEW s \in Signal, Abandon(s) PROVE Capped'
    <2>1. /\ s \notin Open(order) /\ s \notin Open(order') /\ order'[s].asked = 0
          /\ bot' = bot /\ \A t \in Signal \ {s} : order'[t] = order[t]
      BY <1>4 DEF Abandon, Dropped, NoOrder, TypeOK, Open
    <2>. QED
      BY <1>1, <2>1, OneOrderMoves
  <1>5. ASSUME NEW s \in Signal, Reserve(s) PROVE Capped'
    <2>1. order[s].at = "sized" /\ s \notin Open(order) /\ bot' = bot
      BY <1>5 DEF Reserve, Open
    <2>2. CASE order' = [order EXCEPT ![s] = Dropped("over")]
      <3>1. /\ s \notin Open(order') /\ order'[s].asked = 0
            /\ \A t \in Signal \ {s} : order'[t] = order[t]
        BY <2>2 DEF Dropped, NoOrder, TypeOK, Open
      <3>. QED
        BY <1>1, <2>1, <3>1, OneOrderMoves
    <2>3. CASE /\ order' = [order EXCEPT ![s] = [@ EXCEPT !.at = "pending"]]
               /\ ~(order[s].side = "buy" /\ Reserved + order[s].asked > 100 * bot.cap)
      <3>1. /\ order'[s].asked = order[s].asked /\ order'[s].side = order[s].side
            /\ \A t \in Signal \ {s} : order'[t] = order[t]
        BY <2>3 DEF TypeOK
      <3>2. Total(order, Open(order)) + order[s].asked <= 100 * bot.cap
        <4>1. Reserved = Total(order, Open(order))
          BY ReservedIs
        <4>2. /\ Total(order, Open(order)) \in Nat /\ order[s].asked \in Nat
              /\ bot.cap \in Nat /\ order[s].side \in {"buy", "sell"}
          <5>1. Asking(order) /\ Open(order) \in SUBSET Signal
            BY DEF TypeOK, Asking, Open
          <5>2. Total(order, Open(order)) = Cardinality(Units(order, Open(order)))
            BY <1>1, <5>1, TotalCounts
          <5>3. Cardinality(Units(order, Open(order))) \in Nat
            BY <1>1, <5>1, UnitsAreFinite
          <5>. QED
            BY <5>1, <5>2, <5>3, PositionsOK DEF TypeOK, Asking
        <4>3. order[s].side = "sell" => order[s].asked = 0
          BY DEF Capped
        <4>4. Total(order, Open(order)) <= 100 * bot.cap
          BY DEF Capped
        <4>. QED
          BY <2>3, <4>1, <4>2, <4>3, <4>4
      <3>3. order'[s].side = "sell" => order'[s].asked = 0
        BY <3>1 DEF Capped
      <3>. QED
        BY <1>1, <2>1, <3>1, <3>2, <3>3, OneOrderMoves
    <2>. QED
      BY <1>5, <2>2, <2>3 DEF Reserve
  <1>6. ASSUME NEW s \in Signal, NEW price \in Prices, CreateOrder(s, price) PROVE Capped'
    <2>1. order[s].at = "pending" /\ bot' = bot
      BY <1>6 DEF CreateOrder
    <2>2. CASE order' = [order EXCEPT ![s].at = "filled"]
      <3>1. /\ order'[s].asked = order[s].asked /\ order'[s].side = order[s].side
            /\ s \in Open(order) /\ \A t \in Signal \ {s} : order'[t] = order[t]
        BY <2>1, <2>2 DEF TypeOK, Open
      <3>2. order'[s].side = "sell" => order'[s].asked = 0
        BY <3>1 DEF Capped
      <3>. QED
        BY <1>1, <2>1, <3>1, <3>2, OneOrderMoves
    <2>3. CASE order' = [order EXCEPT ![s] = Dropped("failed")]
      <3>1. /\ s \notin Open(order') /\ order'[s].asked = 0
            /\ \A t \in Signal \ {s} : order'[t] = order[t]
        BY <2>3 DEF Dropped, NoOrder, TypeOK, Open
      <3>. QED
        BY <1>1, <2>1, <3>1, OneOrderMoves
    <2>. QED
      BY <1>6, <2>2, <2>3 DEF CreateOrder
  <1>7. ASSUME UNCHANGED <<bot, order>> PROVE Capped'
    BY <1>7 DEF Capped
  <1>8. ASSUME NEW c \in Call, FlattenBegins(c) \/ FlattenReads(c) PROVE Capped'
    BY <1>7, <1>8 DEF FlattenBegins, FlattenReads
  <1>9. ASSUME NEW c \in Call, NEW price \in Prices, FlattenSells(c, price) PROVE Capped'
    BY <1>7, <1>9 DEF FlattenSells
  <1>10. ASSUME NEW host \in Host, HostDies(host) PROVE Capped'
    BY <1>7, <1>10 DEF HostDies
  <1>11. ASSUME Kill \/ Arm PROVE Capped'
    BY <1>7, <1>11 DEF Kill, Arm
  <1>12. CASE UNCHANGED vars
    BY <1>7, <1>12 DEF vars
  <1>. QED
    BY <1>2, <1>3, <1>4, <1>5, <1>6, <1>8, <1>9, <1>10, <1>11, <1>12, Zenon DEF Next

\* The reservations of the day stay within the cap, in money (migration 029),
\* for any number of orders sized from the same reading of the balance: it
\* is the sum taken with the order's own notional, in the transaction that
\* makes it pending, that keeps the cap, and no check made earlier.
THEOREM ReservationsAreCapped == Spec => []ReservedIsCapped
  <1>1. Init => Capped
    <2>1. SUFFICES ASSUME Init PROVE Capped
      OBVIOUS
    <2>2. TypeOK /\ IsFiniteSet(Signal)
      BY <2>1, PositionsOK, InitType DEF PositionsOK
    <2>3. Open(order) = {} /\ \A s \in Signal : order[s].asked = 0
      BY <2>1 DEF Init, NoOrder, Open
    <2>4. Asking(order)
      BY <2>3 DEF Asking
    <2>5. Total(order, Open(order)) = Cardinality(Units(order, Open(order)))
      BY <2>2, <2>3, <2>4, TotalCounts
    <2>6. Units(order, Open(order)) = {}
      BY <2>3 DEF Units
    <2>7. Total(order, Open(order)) = 0
      BY <2>5, <2>6, FS_EmptySet, Zenon
    <2>8. bot.cap \in Nat
      BY <2>2, PositionsOK DEF TypeOK, PositionsOK
    <2>. QED
      BY <2>3, <2>7, <2>8 DEF Capped
  <1>2. TypeOK /\ TypeOK' /\ Capped /\ [Next]_vars => Capped'
    BY PositionsOK, NextCaps
  <1>3. Capped => ReservedIsCapped
    BY ReservedIs DEF Capped, ReservedIsCapped
  <1>. QED
    BY <1>1, <1>2, <1>3, TypeCorrect, PTL DEF Spec
=============================================================================
