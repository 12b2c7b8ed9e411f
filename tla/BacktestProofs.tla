---------------------------- MODULE BacktestProofs ----------------------------
(***************************************************************************)
(* That the books of both backtest engines balance, that they never hold   *)
(* two sides or too many positions, that the peak counts every trade, and  *)
(* that the two are the same engine where there are no shorts.             *)
(* A bar is a composition of operators on an engine's record, so there is  *)
(* one lemma for each of them.                                             *)
(***************************************************************************)
EXTENDS Backtest, TLAPS

\* What every operator keeps of an engine.
Good(e) ==
    /\ e \in Engine
    /\ Balances(e) /\ Sound(e)
    /\ e.open.n = 0 => e.open = Flat

\* And of the long/short engine.
Counted(e) == Good(e) /\ e.peak >= e.best

\* A long entry that is pending has room.
Room(e) == /\ e.open.side # "short"
           /\ "long_entry" \in e.pending => e.open.n < cfg.pyramiding

Inv ==
    /\ TypeOK
    /\ Good(single) /\ Room(single)
    /\ Counted(dual)
    /\ FillsAreTradable

-----------------------------------------------------------------------------
LEMMA FeeIsInt == ASSUME NEW x \in Int PROVE Fee(x) \in Int
  BY BacktestOK DEF Fee

LEMMA SlippedIsInt ==
  ASSUME NEW x \in Int, NEW way PROVE apply_slippage(x, way) \in Int
  <1>1. x \div Share \in Int BY BacktestOK
  <1> QED BY <1>1 DEF apply_slippage

LEMMA SettingsTyped ==
  ASSUME cfg \in Configs
  PROVE  /\ cfg.pyramiding \in Nat \ {0} /\ cfg.on_close \in BOOLEAN
         /\ cfg.tp_price \in Nat /\ cfg.sl_price \in Nat /\ cfg.tp_offset \in Nat
         /\ cfg.sl_offset \in Nat /\ cfg.trail_offset \in Nat /\ cfg.max_bars \in Nat
  BY BacktestOK

LEMMA CandleTyped ==
  ASSUME NEW b \in Candles
  PROVE  {b.open, b.high, b.low, b.close} \subseteq Nat
  BY BacktestOK

\* Closing pays out what the books say.
LEMMA CloseIsGood ==
  ASSUME cfg \in Configs, NEW e, Good(e), e.open.side \in {"long", "short"},
         NEW price \in Int, NEW slips \in BOOLEAN
  PROVE  LET c == closePositions(e, price, slips)
         IN /\ Good(c) /\ c.open = Flat /\ c.equity = c.cash
            /\ c.pending = e.pending /\ c.peak = e.peak /\ c.best = e.best /\ c.fills = e.fills
  <1> DEFINE p == IF slips THEN apply_slippage(price, Sells(e.open.side)) ELSE price
             value == e.open.qty * p
             gross == IF e.open.side = "long" THEN value - e.open.cost ELSE e.open.cost - value
             cash == e.cash - Fee(value) + (IF e.open.side = "long" THEN value ELSE gross)
             pnl == e.pnl + gross - e.open.fees - Fee(value)
  <1>1. e \in Engine /\ e.open \in Position /\ e.open.qty \in Nat /\ e.open.cost \in Int
        /\ e.open.fees \in Int /\ e.cash \in Int /\ e.pnl \in Int
    BY DEF Good, Engine, Position
  <1>2. value \in Int BY <1>1, SlippedIsInt
  <1>3. Fee(value) \in Int BY <1>2, FeeIsInt
  <1> HIDE DEF value
  <1>4. gross \in Int /\ cash \in Int /\ pnl \in Int BY <1>1, <1>2, <1>3
  <1>5. cash = Capital + pnl
    <2>1. e.cash = Capital + e.pnl - e.open.fees - (IF e.open.side = "long" THEN e.open.cost ELSE 0)
      BY DEF Good, Balances
    <2> QED BY <2>1, <1>1, <1>2, <1>3, BacktestOK
  <1>6. closePositions(e, price, slips) =
          [e EXCEPT !.cash = cash, !.equity = cash, !.pnl = pnl, !.open = Flat]
    BY DEF closePositions, value
  <1> DEFINE c == [e EXCEPT !.cash = cash, !.equity = cash, !.pnl = pnl, !.open = Flat]
  <1>7. Flat \in Position BY DEF Flat, Position
  <1> HIDE DEF cash, pnl, gross
  <1>8. c \in Engine /\ c.cash = cash /\ c.equity = cash /\ c.pnl = pnl /\ c.open = Flat
        /\ c.pending = e.pending /\ c.peak = e.peak /\ c.best = e.best /\ c.fills = e.fills
    BY <1>1, <1>4, <1>7 DEF Engine
  <1>9. Balances(c) BY <1>4, <1>5, <1>8, BacktestOK DEF Balances, Flat
  <1>10. Sound(c) BY <1>8, SettingsTyped DEF Sound, Flat
  <1> QED BY <1>6, <1>8, <1>9, <1>10 DEF Good

LEMMA ExitIsGood ==
  ASSUME cfg \in Configs, NEW e, Good(e), e.open.side \in {"long", "short"},
         NEW asked \in Int, NEW price \in Int, NEW slips \in BOOLEAN
  PROVE  LET x == Exit(e, asked, price, slips)
         IN /\ Good(x) /\ x.open = Flat /\ x.pending = e.pending /\ x.peak = e.peak
            /\ x.best = IF inRange THEN Larger(e.best, x.equity) ELSE e.best
  <1> DEFINE c == closePositions(e, price, slips)
             x == Exit(e, asked, price, slips)
  <1>1. /\ Good(c) /\ c.open = Flat /\ c.equity = c.cash
        /\ c.pending = e.pending /\ c.peak = e.peak /\ c.best = e.best /\ c.fills = e.fills
    BY CloseIsGood
  <1>2. c \in Engine BY <1>1 DEF Good
  <1>3. x = [c EXCEPT !.fills = @ \cup {asked},
                      !.best = IF inRange THEN Larger(@, c.cash) ELSE @]
    BY DEF Exit
  <1> HIDE DEF c, x
  <1>4. /\ x \in Engine /\ x.open = c.open /\ x.cash = c.cash /\ x.pnl = c.pnl
        /\ x.equity = c.equity /\ x.pending = c.pending /\ x.peak = c.peak
        /\ x.best = IF inRange THEN Larger(c.best, c.cash) ELSE c.best
    BY <1>2, <1>3 DEF Engine, Larger
  <1>5. Good(x) BY <1>1, <1>4 DEF Good, Balances, Sound
  <1> QED BY <1>1, <1>4, <1>5 DEF x

\* Which prices of the bar an exit and an entry are filled at.
LEMMA ExitFills ==
  ASSUME NEW e, Good(e), NEW asked, NEW price, NEW slips \in BOOLEAN
  PROVE  Exit(e, asked, price, slips).fills = e.fills \cup {asked}
  BY DEF Good, Engine, Exit, closePositions

LEMMA EnterFills ==
  ASSUME NEW e, Good(e), NEW side \in {"long", "short"}, NEW asked \in Int, NEW size \in Sizes,
         NEW seeds \in BOOLEAN
  PROVE  Enter(e, side, asked, size, seeds).fills = e.fills \cup {asked}
  BY DEF Good, Engine, Enter

LEMMA PeakIsGood ==
  ASSUME NEW e, Good(e)
  PROVE  LET k == PeakOf(e)
         IN /\ Good(k) /\ k.open = e.open /\ k.pending = e.pending /\ k.best = e.best
            /\ k.fills = e.fills
            /\ k.peak = IF inRange THEN Larger(e.peak, e.equity) ELSE e.peak
  <1> DEFINE k == PeakOf(e)
  <1>1. e \in Engine BY DEF Good
  <1>2. k = [e EXCEPT !.peak = IF inRange THEN Larger(@, e.equity) ELSE @] BY DEF PeakOf
  <1> HIDE DEF k
  <1>3. /\ k \in Engine /\ k.open = e.open /\ k.cash = e.cash /\ k.pnl = e.pnl
        /\ k.pending = e.pending /\ k.best = e.best /\ k.fills = e.fills
        /\ k.peak = IF inRange THEN Larger(e.peak, e.equity) ELSE e.peak
    BY <1>1, <1>2 DEF Engine, Larger
  <1>4. Good(k) BY <1>3 DEF Good, Balances, Sound
  <1> QED BY <1>3, <1>4 DEF k

LEMMA DoneIsGood ==
  ASSUME NEW e, Good(e), NEW order
  PROVE  LET d == Done(e, order)
         IN /\ Good(d) /\ d.open = e.open /\ d.pending = e.pending \ {order}
            /\ d.peak = e.peak /\ d.best = e.best /\ d.equity = e.equity
            /\ d.fills = e.fills
  <1> DEFINE d == Done(e, order)
  <1>1. e \in Engine BY DEF Good
  <1>2. d = [e EXCEPT !.pending = @ \ {order}] BY DEF Done
  <1> HIDE DEF d
  <1>3. /\ d \in Engine /\ d.open = e.open /\ d.cash = e.cash /\ d.pnl = e.pnl
        /\ d.pending = e.pending \ {order} /\ d.best = e.best /\ d.peak = e.peak
        /\ d.equity = e.equity /\ d.fills = e.fills
    BY <1>1, <1>2 DEF Engine
  <1>4. Good(d) BY <1>3 DEF Good, Balances, Sound
  <1> QED BY <1>3, <1>4 DEF d

\* An entry joins its own side or an empty account.
LEMMA EnterIsGood ==
  ASSUME cfg \in Configs, i \in Int, NEW e, Good(e), NEW side \in {"long", "short"},
         e.open.side \in {"none", side}, e.open.n < cfg.pyramiding,
         NEW asked \in Int, NEW size \in Sizes, NEW seeds \in BOOLEAN
  PROVE  LET g == Enter(e, side, asked, size, seeds)
         IN /\ Good(g) /\ g.open.side = side /\ g.open.n = e.open.n + 1
            /\ g.pending = e.pending /\ g.peak = e.peak /\ g.best = e.best
  <1> DEFINE p == apply_slippage(asked, Buys(side))
             value == size * p
             paid == IF side = "long" THEN value ELSE 0
             open == [side |-> side, n |-> e.open.n + 1, qty |-> e.open.qty + size,
                      cost |-> e.open.cost + value, fees |-> e.open.fees + Fee(value),
                      first |-> IF e.open.n = 0 THEN p ELSE e.open.first]
             g == Enter(e, side, asked, size, seeds)
  <1>1. e \in Engine /\ e.open \in Position /\ e.open.qty \in Nat /\ e.open.cost \in Int
        /\ e.open.fees \in Int /\ e.open.first \in Int /\ e.open.n \in Nat
        /\ e.cash \in Int /\ e.pnl \in Int
    BY DEF Good, Engine, Position
  <1>2. p \in Int BY SlippedIsInt
  <1>3. size \in Nat \ {0} BY BacktestOK
  <1> HIDE DEF p
  <1>4. value \in Int BY <1>2, <1>3
  <1> HIDE DEF value
  <1>5. Fee(value) \in Int BY <1>4, FeeIsInt
  <1>6. g = [e EXCEPT !.cash = e.cash - Fee(value) - paid, !.open = open, !.since = i,
                      !.trail = IF seeds THEN p ELSE @, !.fills = @ \cup {asked}]
    BY DEF Enter, value, p
  <1>7. open \in Position BY <1>1, <1>2, <1>3, <1>4, <1>5 DEF Position
  <1>8. paid \in Int BY <1>4
  <1> HIDE DEF g, paid
  <1>9. open.side = side /\ open.n = e.open.n + 1 /\ open.qty = e.open.qty + size
        /\ open.cost = e.open.cost + value /\ open.fees = e.open.fees + Fee(value)
    OBVIOUS
  <1> HIDE DEF open
  <1>10. /\ g \in Engine /\ g.open = open /\ g.cash = e.cash - Fee(value) - paid
         /\ g.pnl = e.pnl /\ g.pending = e.pending /\ g.best = e.best /\ g.peak = e.peak
    <2>1. e.cash - Fee(value) - paid \in Int BY <1>1, <1>5, <1>8
    <2>2. (IF seeds THEN p ELSE e.trail) \in Int BY <1>1, <1>2 DEF Engine
    <2>3. e.fills \cup {asked} \in SUBSET Int BY <1>1 DEF Engine
    <2> QED BY <1>1, <1>6, <1>7, <2>1, <2>2, <2>3 DEF Engine
  <1>11. Balances(g)
    <2>1. e.cash = Capital + e.pnl - e.open.fees - (IF e.open.side = "long" THEN e.open.cost ELSE 0)
      BY DEF Good, Balances
    <2>2. e.open.side = "none" => e.open.cost = 0
      BY DEF Good, Sound, Flat
    <2>3. e.cash = Capital + e.pnl - e.open.fees - (IF side = "long" THEN e.open.cost ELSE 0)
      BY <2>1, <2>2
    <2> QED BY <2>3, <1>1, <1>4, <1>5, <1>9, <1>10, BacktestOK DEF Balances, paid
  <1>12. Sound(g)
    BY <1>1, <1>3, <1>9, <1>10, SettingsTyped DEF Sound
  <1>13. g.open.n # 0 BY <1>1, <1>9, <1>10
  <1> QED BY <1>9, <1>10, <1>11, <1>12, <1>13 DEF Good, g

-----------------------------------------------------------------------------
(* The fills at the open and at the close. *)

LEMMA SidesOf ==
  ASSUME cfg \in Configs, NEW e, Good(e)
  PROVE  /\ e.open.side \in {"none", "long", "short"} /\ e.open.n \in Nat /\ e.open.qty \in Nat
         /\ e.open.qty > 0 => e.open.side \in {"long", "short"}
         /\ e.open.qty = 0 => e.open.side = "none" /\ e.open.n = 0
         /\ Flat.side = "none" /\ Flat.n = 0 /\ Flat.qty = 0
         /\ 0 < cfg.pyramiding
  BY SettingsTyped DEF Good, Engine, Position, Sound, Flat

LEMMA SingleOpensGood ==
  ASSUME cfg \in Configs, i \in Int, NEW e, Good(e), Room(e), NEW b \in Candles, NEW size \in Sizes
  PROVE  LET f == singleFillsAtOpen(e, b, size)
         IN /\ Good(f) /\ f.open.side # "short" /\ "long_entry" \notin f.pending
            /\ f.fills \subseteq e.fills \cup {b.open}
  <1> DEFINE out == IF "long_exit" \in e.pending /\ e.open.qty > 0
                    THEN Done(Exit(e, b.open, b.open, TRUE), "long_exit") ELSE e
  <1>1. b.open \in Int BY CandleTyped
  <1>2. /\ Good(out) /\ out.pending \subseteq e.pending
        /\ out.fills \subseteq e.fills \cup {b.open}
        /\ out.open = Flat \/ out = e
    <2>1. CASE "long_exit" \in e.pending /\ e.open.qty > 0
      <3>1. e.open.side \in {"long", "short"} BY <2>1, SidesOf
      <3> DEFINE x == Exit(e, b.open, b.open, TRUE)
      <3>2. Good(x) /\ x.open = Flat /\ x.pending = e.pending
        BY <1>1, <3>1, ExitIsGood
      <3>0. x.fills = e.fills \cup {b.open} BY ExitFills
      <3>3. out = Done(x, "long_exit") BY <2>1
      <3> HIDE DEF x, out
      <3> QED BY <3>0, <3>2, <3>3, DoneIsGood
    <2>2. CASE ~("long_exit" \in e.pending /\ e.open.qty > 0) BY <2>2
    <2> QED BY <2>1, <2>2
  <1> HIDE DEF out
  <1>3. CASE "long_entry" \in e.pending
    <2>1. out.open.side \in {"none", "long"} /\ out.open.n < cfg.pyramiding
      BY <1>2, <1>3, SidesOf DEF Room
    <2> DEFINE g == Enter(out, "long", b.open, size, TRUE)
    <2>2. Good(g) /\ g.open.side = "long"
      BY <1>1, <1>2, <2>1, EnterIsGood
    <2>5. g.fills = out.fills \cup {b.open}
      <3> DEFINE price == b.open
      <3>1. Good(out) /\ price \in Int BY <1>1, <1>2
      <3> HIDE DEF price
      <3>2. Enter(out, "long", price, size, TRUE).fills = out.fills \cup {price}
        BY <3>1, EnterFills, Zenon
      <3> QED BY <3>2 DEF price
    <2> HIDE DEF g
    <2>3. singleFillsAtOpen(e, b, size) = Done(g, "long_entry")
      BY <1>3 DEF singleFillsAtOpen, out, g
    <2> QED BY <1>2, <2>2, <2>3, <2>5, DoneIsGood
  <1>4. CASE "long_entry" \notin e.pending
    <2>1. singleFillsAtOpen(e, b, size) = out
      BY <1>4 DEF singleFillsAtOpen, out
    <2>2. out.open.side # "short" BY <1>2, SidesOf DEF Room
    <2> QED BY <1>2, <1>4, <2>1, <2>2
  <1> QED BY <1>3, <1>4

LEMMA SingleClosesGood ==
  ASSUME cfg \in Configs, i \in Int, NEW e, Good(e), Room(e), NEW b \in Candles, NEW size \in Sizes
  PROVE  LET f == singleFillsAtClose(e, b, size)
         IN Good(f) /\ Room(f) /\ f.fills \subseteq e.fills \cup {b.close}
  <1> DEFINE out == IF "long_exit" \in e.pending /\ e.open.qty > 0
                    THEN PeakOf(Done(Exit(e, b.close, b.close, TRUE), "long_exit")) ELSE e
  <1>1. b.close \in Int BY CandleTyped
  <1>2. Good(out) /\ Room(out) /\ out.fills \subseteq e.fills \cup {b.close}
    <2>1. CASE "long_exit" \in e.pending /\ e.open.qty > 0
      <3>1. e.open.side \in {"long", "short"} BY <2>1, SidesOf
      <3> DEFINE x == Exit(e, b.close, b.close, TRUE)
                 d == Done(x, "long_exit")
      <3>2. Good(x) /\ x.open = Flat
        BY <1>1, <3>1, ExitIsGood
      <3>0. x.fills = e.fills \cup {b.close} BY ExitFills
      <3>3. out = PeakOf(d) BY <2>1
      <3> HIDE DEF x, out
      <3>4. Good(d) /\ d.open = Flat /\ d.fills = e.fills \cup {b.close}
        BY <3>0, <3>2, DoneIsGood
      <3> HIDE DEF d
      <3>5. Good(out) /\ out.open = Flat /\ out.fills = e.fills \cup {b.close}
        BY <3>3, <3>4, PeakIsGood
      <3> QED BY <3>5, SidesOf DEF Room
    <2>2. CASE ~("long_exit" \in e.pending /\ e.open.qty > 0) BY <2>2
    <2> QED BY <2>1, <2>2
  <1>3. singleFillsAtClose(e, b, size) =
          IF "long_entry" \in out.pending /\ out.open.n < cfg.pyramiding
          THEN Done(Enter(out, "long", b.close, size, FALSE), "long_entry") ELSE out
    BY DEF singleFillsAtClose
  <1> HIDE DEF out
  <1>4. CASE "long_entry" \in out.pending /\ out.open.n < cfg.pyramiding
    <2> DEFINE g == Enter(out, "long", b.close, size, FALSE)
    <2>1. out.open.side \in {"none", "long"} BY <1>2, SidesOf DEF Room
    <2>2. Good(g) /\ g.open.side = "long"
      BY <1>1, <1>2, <1>4, <2>1, EnterIsGood
    <2>5. g.fills = out.fills \cup {b.close}
      <3> DEFINE price == b.close
      <3>1. Good(out) /\ price \in Int BY <1>1, <1>2
      <3> HIDE DEF price
      <3>2. Enter(out, "long", price, size, FALSE).fills = out.fills \cup {price}
        BY <3>1, EnterFills
      <3> QED BY <3>2 DEF price
    <2> HIDE DEF g
    <2>3. singleFillsAtClose(e, b, size) = Done(g, "long_entry")
      BY <1>3, <1>4 DEF g
    <2>4. Good(Done(g, "long_entry")) /\ Done(g, "long_entry").open.side = "long"
          /\ "long_entry" \notin Done(g, "long_entry").pending
          /\ Done(g, "long_entry").fills = g.fills
      BY <2>2, DoneIsGood
    <2> QED BY <1>2, <2>2, <2>3, <2>4, <2>5 DEF Room
  <1>5. CASE ~("long_entry" \in out.pending /\ out.open.n < cfg.pyramiding)
    BY <1>2, <1>3, <1>5
  <1> QED BY <1>4, <1>5

\* A position closed in the long/short engine is counted in its peak.
LEMMA PeakedExit ==
  ASSUME cfg \in Configs, NEW e, Counted(e), e.open.side \in {"long", "short"},
         NEW asked \in Int, NEW price \in Int, NEW slips \in BOOLEAN
  PROVE  LET k == PeakOf(Exit(e, asked, price, slips))
         IN Counted(k) /\ k.open = Flat /\ k.fills = e.fills \cup {asked}
  <1> DEFINE x == Exit(e, asked, price, slips)
             k == PeakOf(x)
  <1>0. Good(e) BY DEF Counted
  <1>1. /\ Good(x) /\ x.open = Flat /\ x.peak = e.peak
        /\ x.best = IF inRange THEN Larger(e.best, x.equity) ELSE e.best
    BY <1>0, ExitIsGood
  <1>5. x.fills = e.fills \cup {asked} BY <1>0, ExitFills
  <1> HIDE DEF x
  <1>2. /\ Good(k) /\ k.open = x.open /\ k.best = x.best /\ k.fills = x.fills
        /\ k.peak = IF inRange THEN Larger(x.peak, x.equity) ELSE x.peak
    BY <1>1, PeakIsGood
  <1> HIDE DEF k
  <1>3. {e.peak, e.best, x.equity} \subseteq Int BY <1>1 DEF Counted, Good, Engine
  <1>4. k.peak >= k.best BY <1>1, <1>2, <1>3 DEF Counted, Larger
  <1> QED BY <1>1, <1>2, <1>4, <1>5 DEF Counted, k, x

LEMMA PeakedDone ==
  ASSUME NEW e, Good(e), NEW order
  PROVE  PeakOf(Done(e, order)) = Done(PeakOf(e), order)
  BY DEF Good, Engine, PeakOf, Done

LEMMA LeavesIsGood ==
  ASSUME cfg \in Configs, NEW e, Counted(e), NEW side \in {"long", "short"}, NEW order,
         NEW price \in Int, NEW paid \in Int
  PROVE  LET l == Leaves(e, side, order, price, paid)
         IN Counted(l) /\ l.fills \subseteq e.fills \cup {price}
  <1>1. CASE order \in e.pending /\ e.open.side = side
    <2> DEFINE x == Exit(e, price, paid, TRUE)
    <2>1. Good(x) BY <1>1, ExitIsGood DEF Counted
    <2>2. Counted(PeakOf(x)) /\ PeakOf(x).fills = e.fills \cup {price}
      BY <1>1, PeakedExit
    <2>3. Leaves(e, side, order, price, paid) = Done(PeakOf(x), order)
      BY <1>1, <2>1, PeakedDone DEF Leaves
    <2> HIDE DEF x
    <2> QED BY <2>2, <2>3, DoneIsGood DEF Counted
  <1>2. CASE ~(order \in e.pending /\ e.open.side = side) BY <1>2 DEF Leaves
  <1> QED BY <1>1, <1>2

LEMMA ReversesIsGood ==
  ASSUME cfg \in Configs, NEW e, Counted(e), NEW side \in {"long", "short"}, NEW order,
         NEW price \in Int
  PROVE  LET l == Reverses(e, side, order, price)
         IN Counted(l) /\ l.fills \subseteq e.fills \cup {price}
  <1>1. CASE order \in e.pending /\ e.open.side = side
    <2> DEFINE k == PeakOf(Exit(e, price, price, TRUE))
    <2>1. Counted(k) /\ k.fills = e.fills \cup {price} BY <1>1, PeakedExit
    <2> HIDE DEF k
    <2> QED BY <1>1, <2>1 DEF Reverses, k
  <1>2. CASE ~(order \in e.pending /\ e.open.side = side) BY <1>2 DEF Reverses
  <1> QED BY <1>1, <1>2

LEMMA JoinsIsGood ==
  ASSUME cfg \in Configs, i \in Int, NEW e, Counted(e), NEW side \in {"long", "short"}, NEW order,
         NEW price \in Int, NEW size \in Sizes, NEW seeds \in BOOLEAN
  PROVE  LET j == Joins(e, side, order, price, size, seeds)
         IN Counted(j) /\ j.fills \subseteq e.fills \cup {price}
  <1>1. CASE order \in e.pending
             /\ (e.open.qty = 0 \/ (e.open.side = side /\ e.open.n < cfg.pyramiding))
    <2>0. Good(e) BY DEF Counted
    <2>1. e.open.side \in {"none", side} /\ e.open.n < cfg.pyramiding
      BY <1>1, <2>0, SidesOf
    <2> DEFINE g == Enter(e, side, price, size, seeds)
    <2>4. g.fills = e.fills \cup {price} BY <2>0, EnterFills
    <2>2. Good(g) /\ g.peak = e.peak /\ g.best = e.best
      BY <2>0, <2>1, EnterIsGood
    <2>3. Joins(e, side, order, price, size, seeds) = Done(g, order)
      BY <1>1 DEF Joins
    <2> HIDE DEF g
    <2> QED BY <2>2, <2>3, <2>4, DoneIsGood DEF Counted
  <1>2. CASE ~(order \in e.pending
               /\ (e.open.qty = 0 \/ (e.open.side = side /\ e.open.n < cfg.pyramiding)))
    BY <1>2 DEF Joins
  <1> QED BY <1>1, <1>2

LEMMA DualOpensGood ==
  ASSUME cfg \in Configs, i \in Int, NEW e, Counted(e), NEW b \in Candles, NEW size \in Sizes
  PROVE  LET f == dualFillsAtOpen(e, b, size)
         IN Counted(f) /\ f.fills \subseteq e.fills \cup {b.open}
  <1> DEFINE e1 == Leaves(e, "long", "long_exit", b.open, b.open)
             e2 == Leaves(e1, "short", "short_exit", b.open, apply_slippage(b.open, "buy"))
             e3 == Reverses(e2, "short", "long_entry", b.open)
             e4 == Joins(e3, "long", "long_entry", b.open, size, TRUE)
             e5 == Reverses(e4, "long", "short_entry", b.open)
  <1>1. b.open \in Int /\ apply_slippage(b.open, "buy") \in Int
    BY CandleTyped, SlippedIsInt
  <1>2. Counted(e1) /\ e1.fills \subseteq e.fills \cup {b.open}
    BY <1>1, LeavesIsGood
  <1> HIDE DEF e1
  <1>3. Counted(e2) /\ e2.fills \subseteq e1.fills \cup {b.open}
    BY <1>1, <1>2, LeavesIsGood
  <1> HIDE DEF e2
  <1>4. Counted(e3) /\ e3.fills \subseteq e2.fills \cup {b.open}
    BY <1>1, <1>3, ReversesIsGood
  <1> HIDE DEF e3
  <1>5. Counted(e4) /\ e4.fills \subseteq e3.fills \cup {b.open}
    BY <1>1, <1>4, JoinsIsGood
  <1> HIDE DEF e4
  <1>6. Counted(e5) /\ e5.fills \subseteq e4.fills \cup {b.open}
    BY <1>1, <1>5, ReversesIsGood
  <1> HIDE DEF e5
  <1> DEFINE e6 == Joins(e5, "short", "short_entry", b.open, size, TRUE)
  <1>7. Counted(e6) /\ e6.fills \subseteq e5.fills \cup {b.open}
    BY <1>1, <1>6, JoinsIsGood
  <1> HIDE DEF e6
  <1>8. e6.fills \subseteq e.fills \cup {b.open}
    BY <1>2, <1>3, <1>4, <1>5, <1>6, <1>7
  <1> QED BY <1>7, <1>8 DEF dualFillsAtOpen, e1, e2, e3, e4, e5, e6

LEMMA DualClosesGood ==
  ASSUME cfg \in Configs, i \in Int, NEW e, Counted(e), NEW b \in Candles, NEW size \in Sizes
  PROVE  LET f == dualFillsAtClose(e, b, size)
         IN Counted(f) /\ f.fills \subseteq e.fills \cup {b.close}
  <1> DEFINE e1 == Leaves(e, "long", "long_exit", b.close, b.close)
             e2 == Leaves(e1, "short", "short_exit", b.close, b.close)
             e3 == Reverses(e2, "short", "long_entry", b.close)
             e4 == Joins(e3, "long", "long_entry", b.close, size, FALSE)
             e5 == Reverses(e4, "long", "short_entry", b.close)
  <1>1. b.close \in Int BY CandleTyped
  <1>2. Counted(e1) /\ e1.fills \subseteq e.fills \cup {b.close}
    BY <1>1, LeavesIsGood
  <1> HIDE DEF e1
  <1>3. Counted(e2) /\ e2.fills \subseteq e1.fills \cup {b.close}
    BY <1>1, <1>2, LeavesIsGood
  <1> HIDE DEF e2
  <1>4. Counted(e3) /\ e3.fills \subseteq e2.fills \cup {b.close}
    BY <1>1, <1>3, ReversesIsGood
  <1> HIDE DEF e3
  <1>5. Counted(e4) /\ e4.fills \subseteq e3.fills \cup {b.close}
    BY <1>1, <1>4, JoinsIsGood
  <1> HIDE DEF e4
  <1>6. Counted(e5) /\ e5.fills \subseteq e4.fills \cup {b.close}
    BY <1>1, <1>5, ReversesIsGood
  <1> HIDE DEF e5
  <1> DEFINE e6 == Joins(e5, "short", "short_entry", b.close, size, FALSE)
  <1>7. Counted(e6) /\ e6.fills \subseteq e5.fills \cup {b.close}
    BY <1>1, <1>6, JoinsIsGood
  <1> HIDE DEF e6
  <1>8. e6.fills \subseteq e.fills \cup {b.close}
    BY <1>2, <1>3, <1>4, <1>5, <1>6, <1>7
  <1> QED BY <1>7, <1>8 DEF dualFillsAtClose, e1, e2, e3, e4, e5, e6

-----------------------------------------------------------------------------
(* Stops and targets. *)

LEMMA LevelsAreInts ==
  ASSUME cfg \in Configs, i \in Int, NEW e, Good(e), NEW b \in Candles, NEW entry \in Int
  PROVE  /\ tpLevel(e.open.side, entry) \subseteq Int
         /\ \A s, t \in tpLevel(e.open.side, entry) : s = t
         /\ slLevel(e, b, entry) \subseteq Int
         /\ \A s, t \in slLevel(e, b, entry) : s = t
  <1> DEFINE side == e.open.side
             fixed == IF cfg.max_bars > 0 /\ i - e.since >= cfg.max_bars THEN {b.open}
                      ELSE IF cfg.sl_price > 0 THEN {cfg.sl_price}
                      ELSE IF cfg.sl_offset > 0 THEN {Away(side, entry, -cfg.sl_offset)} ELSE {}
             level == Away(side, e.trail, -cfg.trail_offset)
             trailing == IF cfg.trail_offset > 0 /\ e.trail > 0 /\ level > 0 THEN {level} ELSE {}
             all == fixed \cup trailing
  <1>1. e.trail \in Int BY DEF Good, Engine
  <1>2. tpLevel(side, entry) \subseteq Int /\ \A s, t \in tpLevel(side, entry) : s = t
    BY SettingsTyped DEF tpLevel, Away
  <1>3. level \in Int BY <1>1, SettingsTyped DEF Away
  <1>4. fixed \subseteq Int BY SettingsTyped, CandleTyped DEF Away
  <1>5. slLevel(e, b, entry) = {s \in all : \A t \in all : Past(side, s, t)}
    BY DEF slLevel
  <1> HIDE DEF fixed, level
  <1>6. all \subseteq Int BY <1>3, <1>4
  <1> HIDE DEF all
  <1>7. \A s, t \in Int : Past(side, s, t) /\ Past(side, t, s) => s = t BY DEF Past
  <1> QED BY <1>2, <1>5, <1>6, <1>7

LEMMA HitsAreTraded ==
  ASSUME NEW side, NEW b \in Candles,
         NEW tp \in SUBSET Int, \A s, t \in tp : s = t,
         NEW sl \in SUBSET Int, \A s, t \in sl : s = t,
         NEW h \in checkTpslFill(side, b, tp, sl)
  PROVE  h.price \in Int /\ b.low <= h.price /\ h.price <= b.high
  <1> DEFINE tpHit == \E t \in tp : Past(side, Best(side, b), t)
             slHit == \E s \in sl : Past(Other(side), Worst(side, b), s)
             tpFirst == Abs(Best(side, b) - b.open) <= Abs(b.open - Worst(side, b))
             gapTp == \E t \in tp : Past(side, b.open, t)
             gapSl == \E s \in sl : Past(Other(side), b.open, s)
  <1>1. /\ b.open \in Int /\ b.low \in Int /\ b.high \in Int
        /\ b.low <= b.open /\ b.open <= b.high
    BY BacktestOK
  <1>2. checkTpslFill(side, b, tp, sl) =
          IF gapTp THEN {[kind |-> "tp", price |-> b.open]}
          ELSE IF gapSl THEN {[kind |-> "sl", price |-> b.open]}
          ELSE IF tpHit /\ (~slHit \/ tpFirst) THEN {[kind |-> "tp", price |-> t] : t \in tp}
          ELSE IF slHit THEN {[kind |-> "sl", price |-> s] : s \in sl} ELSE {}
    BY DEF checkTpslFill
  <1>3. CASE gapTp \/ gapSl
    <2>1. h.price = b.open BY <1>2, <1>3
    <2> QED BY <1>1, <2>1
  <1>4. CASE ~gapTp /\ tpHit /\ h \in {[kind |-> "tp", price |-> t] : t \in tp}
    <2>1. PICK t \in tp : h.price = t BY <1>4
    <2>2. Past(side, Best(side, b), t) BY <1>4, <2>1
    <2>3. ~Past(side, b.open, t) BY <1>4
    <2> QED BY <1>1, <2>1, <2>2, <2>3 DEF Past, Best
  <1>5. CASE ~gapSl /\ slHit /\ h \in {[kind |-> "sl", price |-> s] : s \in sl}
    <2>1. PICK t \in sl : h.price = t BY <1>5
    <2>2. Past(Other(side), Worst(side, b), t) BY <1>5, <2>1
    <2>3. ~Past(Other(side), b.open, t) BY <1>5
    <2> QED BY <1>1, <2>1, <2>2, <2>3 DEF Past, Worst, Other
  <1> HIDE DEF tpHit, slHit, tpFirst, gapTp, gapSl
  <1> QED BY <1>2, <1>3, <1>4, <1>5

LEMMA WorthIsInt ==
  ASSUME NEW e, Good(e), NEW price \in Int PROVE Worth(e, price) \in Int
  <1>1. e.cash \in Int /\ e.open.qty \in Int /\ e.open.cost \in Int BY DEF Good, Engine, Position
  <1>2. e.open.qty * price \in Int BY <1>1
  <1> QED BY <1>1, <1>2 DEF Worth

LEMMA DrawnIsGood ==
  ASSUME NEW e, Good(e), NEW price \in Int
  PROVE  LET d == Drawn(e, price)
         IN /\ Good(d) /\ d.open = e.open /\ d.pending = e.pending /\ d.fills = e.fills
            /\ d.peak = e.peak /\ d.best = e.best
  <1> DEFINE d == Drawn(e, price)
             dd == IF Worth(e, price) - e.peak < e.dd THEN Worth(e, price) - e.peak ELSE e.dd
  <1>1. e \in Engine BY DEF Good
  <1>2. d = [e EXCEPT !.dd = dd] BY DEF Drawn
  <1>3. dd \in Int BY <1>1, WorthIsInt DEF Engine
  <1> HIDE DEF d, dd
  <1>4. /\ d \in Engine /\ d.open = e.open /\ d.cash = e.cash /\ d.pnl = e.pnl
        /\ d.pending = e.pending /\ d.best = e.best /\ d.peak = e.peak /\ d.fills = e.fills
    BY <1>1, <1>2, <1>3 DEF Engine
  <1>5. Good(d) BY <1>4 DEF Good, Balances, Sound
  <1> QED BY <1>4, <1>5 DEF d

\* What was filled on a bar lies within it.
Within(e, b) == \A f \in e.fills : b.low <= f /\ f <= b.high

LEMMA StopsAreGood ==
  ASSUME cfg \in Configs, i \in Int, NEW e, Good(e), NEW b \in Candles, Within(e, b),
         NEW entry \in Int, NEW slips \in BOOLEAN
  PROVE  LET s == Stops(e, b, entry, slips)
         IN /\ Good(s) /\ Within(s, b)
            /\ s.open \in {e.open, Flat}
            /\ e.peak >= e.best => s.peak >= s.best
  <1> DEFINE side == e.open.side
             hits == IF inRange /\ e.open.qty > 0 /\ i > e.since
                     THEN checkTpslFill(side, b, tpLevel(side, entry), slLevel(e, b, entry)) ELSE {}
             hit == CHOOSE h \in hits : TRUE
             worst == IF hit.kind = "sl" \/ hit.price = b.open THEN hit.price ELSE Worst(side, b)
             d == Drawn(e, worst)
             x == Exit(d, hit.price, hit.price, slips)
  <1>1. Stops(e, b, entry, slips) = IF hits = {} THEN e ELSE PeakOf(x) BY DEF Stops
  <1>2. CASE hits = {} BY <1>1, <1>2
  <1>3. CASE hits # {}
    <2>1. hit \in hits BY <1>3
    <2>2. hit \in checkTpslFill(side, b, tpLevel(side, entry), slLevel(e, b, entry)) /\ e.open.qty > 0
      BY <2>1
    <2> HIDE DEF hits, hit
    <2>3. hit.price \in Int /\ b.low <= hit.price /\ hit.price <= b.high
      BY <2>2, LevelsAreInts, HitsAreTraded
    <2>4. worst \in Int BY <2>3, CandleTyped DEF Worst
    <2> HIDE DEF worst
    <2>5. /\ Good(d) /\ d.open = e.open /\ d.fills = e.fills
          /\ d.peak = e.peak /\ d.best = e.best
      BY <2>4, DrawnIsGood
    <2> HIDE DEF d
    <2>6. d.open.side \in {"long", "short"} BY <2>2, <2>5, SidesOf
    <2> DEFINE price == hit.price
    <2>7. price \in Int BY <2>3
    <2> HIDE DEF price
    <2>8. /\ Good(Exit(d, price, price, slips)) /\ Exit(d, price, price, slips).open = Flat
      BY <2>5, <2>6, <2>7, ExitIsGood
    <2>9. Exit(d, price, price, slips).fills = d.fills \cup {price} BY <2>5, ExitFills
    <2>10. d.peak >= d.best =>
             PeakOf(Exit(d, price, price, slips)).peak >= PeakOf(Exit(d, price, price, slips)).best
      <3>1. ASSUME d.peak >= d.best PROVE Counted(PeakOf(Exit(d, price, price, slips)))
        <4>1. Counted(d) BY <2>5, <3>1 DEF Counted
        <4> QED BY <2>6, <2>7, <4>1, PeakedExit
      <3> QED BY <3>1 DEF Counted
    <2> DEFINE y == Exit(d, price, price, slips)
               k == PeakOf(y)
    <2>11. x = y BY DEF price
    <2> HIDE DEF y, x
    <2>12. Good(k) /\ k.open = Flat /\ k.fills = y.fills
      BY <2>8, PeakIsGood DEF y
    <2>13. Within(k, b) BY <2>3, <2>5, <2>9, <2>12 DEF Within, y, price
    <2>14. Stops(e, b, entry, slips) = k BY <1>1, <1>3, <2>11
    <2> QED BY <2>5, <2>10, <2>12, <2>13, <2>14 DEF y
  <1> QED BY <1>2, <1>3

-----------------------------------------------------------------------------
(* The close of a bar and its signals. *)

LEMMA MarkIsGood ==
  ASSUME NEW e, Good(e), NEW equity \in Int
  PROVE  LET m == [e EXCEPT !.equity = equity]
         IN /\ Good(m) /\ m.open = e.open /\ m.pending = e.pending /\ m.fills = e.fills
            /\ m.peak = e.peak /\ m.best = e.best
  <1> DEFINE m == [e EXCEPT !.equity = equity]
  <1>1. e \in Engine BY DEF Good
  <1>2. /\ m \in Engine /\ m.open = e.open /\ m.cash = e.cash /\ m.pnl = e.pnl
        /\ m.pending = e.pending /\ m.best = e.best /\ m.peak = e.peak /\ m.fills = e.fills
    BY <1>1 DEF Engine
  <1> HIDE DEF m
  <1>3. Good(m) BY <1>2 DEF Good, Balances, Sound
  <1> QED BY <1>2, <1>3 DEF m

LEMMA TrailIsGood ==
  ASSUME NEW e, Good(e), NEW trail \in Int
  PROVE  LET m == [e EXCEPT !.trail = trail]
         IN /\ Good(m) /\ m.open = e.open /\ m.pending = e.pending /\ m.fills = e.fills
            /\ m.peak = e.peak /\ m.best = e.best
  <1> DEFINE m == [e EXCEPT !.trail = trail]
  <1>1. e \in Engine BY DEF Good
  <1>2. /\ m \in Engine /\ m.open = e.open /\ m.cash = e.cash /\ m.pnl = e.pnl
        /\ m.pending = e.pending /\ m.best = e.best /\ m.peak = e.peak /\ m.fills = e.fills
    BY <1>1 DEF Engine
  <1> HIDE DEF m
  <1>3. Good(m) BY <1>2 DEF Good, Balances, Sound
  <1> QED BY <1>2, <1>3 DEF m

LEMMA PendingIsGood ==
  ASSUME NEW e, Good(e), NEW pending \in SUBSET Signals
  PROVE  LET m == [e EXCEPT !.pending = pending]
         IN /\ Good(m) /\ m.open = e.open /\ m.pending = pending /\ m.fills = e.fills
            /\ m.peak = e.peak /\ m.best = e.best
  <1> DEFINE m == [e EXCEPT !.pending = pending]
  <1>1. e \in Engine BY DEF Good
  <1>2. /\ m \in Engine /\ m.open = e.open /\ m.cash = e.cash /\ m.pnl = e.pnl
        /\ m.pending = pending /\ m.best = e.best /\ m.peak = e.peak /\ m.fills = e.fills
    BY <1>1 DEF Engine
  <1> HIDE DEF m
  <1>3. Good(m) BY <1>2 DEF Good, Balances, Sound
  <1> QED BY <1>2, <1>3 DEF m

LEMMA NewBarIsGood ==
  ASSUME NEW e, Good(e)
  PROVE  LET m == NewBar(e)
         IN /\ Good(m) /\ m.open = e.open /\ m.pending = e.pending /\ m.fills = {}
            /\ m.peak = e.peak /\ m.best = e.best
  <1> DEFINE m == NewBar(e)
  <1>1. e \in Engine BY DEF Good
  <1>2. /\ m \in Engine /\ m.open = e.open /\ m.cash = e.cash /\ m.pnl = e.pnl
        /\ m.pending = e.pending /\ m.best = e.best /\ m.peak = e.peak /\ m.fills = {}
    BY <1>1 DEF Engine, NewBar
  <1> HIDE DEF m
  <1>3. Good(m) BY <1>2 DEF Good, Balances, Sound
  <1> QED BY <1>2, <1>3 DEF m

\* What a mark keeps, so that the lemmas chain.
Marks(m, e) ==
    /\ Good(m) /\ m.open = e.open /\ m.pending = e.pending /\ m.fills = e.fills
    /\ m.peak >= e.peak /\ m.best = e.best

LEMMA PeakMarks ==
  ASSUME NEW e, Good(e) PROVE Marks(PeakOf(e), e)
  <1>1. e.peak \in Int /\ e.equity \in Int BY DEF Good, Engine
  <1> DEFINE k == PeakOf(e)
  <1>2. /\ Good(k) /\ k.open = e.open /\ k.pending = e.pending /\ k.best = e.best
        /\ k.fills = e.fills /\ k.peak = IF inRange THEN Larger(e.peak, e.equity) ELSE e.peak
    BY PeakIsGood
  <1> HIDE DEF k
  <1> QED BY <1>1, <1>2 DEF Marks, Larger, k

LEMMA RemarkIsGood ==
  ASSUME NEW e, Good(e), NEW b \in Candles
  PROVE  Marks(Remarked(e, b), e)
  <1> DEFINE worth == Worth(e, b.close)
             m == [e EXCEPT !.equity = worth]
  <1>1. worth \in Int BY WorthIsInt, CandleTyped
  <1> HIDE DEF worth
  <1>2. Marks(m, e)
    <2>1. e.peak \in Int BY DEF Good, Engine
    <2>2. /\ Good(m) /\ m.open = e.open /\ m.pending = e.pending /\ m.fills = e.fills
          /\ m.peak = e.peak /\ m.best = e.best
      BY <1>1, MarkIsGood
    <2> HIDE DEF m
    <2> QED BY <2>1, <2>2 DEF Marks
  <1>3. Remarked(e, b) = IF e.open.qty > 0 THEN m ELSE PeakOf(m)
    BY DEF Remarked, worth
  <1> HIDE DEF m
  <1>4. Marks(PeakOf(m), m) BY <1>2, PeakMarks DEF Marks
  <1>5. {e.peak, m.peak, PeakOf(m).peak} \subseteq Int
    BY <1>2, <1>4 DEF Marks, Good, Engine
  <1> QED BY <1>2, <1>3, <1>4, <1>5 DEF Marks

LEMMA MarkedIsGood ==
  ASSUME NEW e, Good(e), NEW b \in Candles
  PROVE  Marks(MarkedAtClose(e, b), e)
  <1> DEFINE held == e.open.qty > 0
             worst == Worst(e.open.side, b)
             best == Best(e.open.side, b)
             worth == Worth(e, b.close)
             low == IF inRange /\ held THEN Drawn(e, worst) ELSE e
             marked == [low EXCEPT !.equity = worth]
             trail == IF Past(e.open.side, best, marked.trail) THEN best ELSE marked.trail
             trailed == [marked EXCEPT !.trail = trail]
  <1>1. worst \in Int /\ best \in Int /\ worth \in Int
    BY CandleTyped, WorthIsInt DEF Worst, Best
  <1>2. MarkedAtClose(e, b) = IF held THEN trailed ELSE PeakOf(marked)
    BY DEF MarkedAtClose
  <1> HIDE DEF held, worst, best, worth
  <1>3. /\ Good(low) /\ low.open = e.open /\ low.pending = e.pending /\ low.fills = e.fills
        /\ low.peak = e.peak /\ low.best = e.best
    BY <1>1, DrawnIsGood
  <1> HIDE DEF low
  <1>4. /\ Good(marked) /\ marked.open = e.open /\ marked.pending = e.pending
        /\ marked.fills = e.fills /\ marked.peak = e.peak /\ marked.best = e.best
    BY <1>1, <1>3, MarkIsGood
  <1> HIDE DEF marked
  <1>5. {e.peak, marked.peak, marked.trail} \subseteq Int BY <1>4 DEF Good, Engine
  <1>6. CASE held
    <2>1. trail \in Int BY <1>1, <1>5
    <2> HIDE DEF trail
    <2>2. /\ Good(trailed) /\ trailed.open = marked.open /\ trailed.pending = marked.pending
          /\ trailed.fills = marked.fills /\ trailed.peak = marked.peak /\ trailed.best = marked.best
      BY <1>4, <2>1, TrailIsGood
    <2> HIDE DEF trailed
    <2> QED BY <1>2, <1>4, <1>5, <1>6, <2>2 DEF Marks
  <1>7. CASE ~held
    <2>1. Marks(PeakOf(marked), marked) BY <1>4, PeakMarks
    <2> QED BY <1>2, <1>4, <1>7, <2>1 DEF Marks
  <1> QED BY <1>6, <1>7

-----------------------------------------------------------------------------
(* A whole bar. *)

LEMMA BarPrices ==
  ASSUME NEW b \in Candles
  PROVE  /\ b.open \in Int /\ b.close \in Int /\ b.low \in Int /\ b.high \in Int
         /\ b.low <= b.open /\ b.open <= b.high /\ b.low <= b.close /\ b.close <= b.high
  BY BacktestOK

LEMMA SingleBarGood ==
  ASSUME cfg \in Configs, i \in Int, Good(single), Room(single),
         NEW b \in Candles, NEW signals \in SUBSET Signals, NEW size \in Sizes
  PROVE  LET n == singleBar(b, signals, size)
         IN Good(n) /\ Room(n) /\ Within(n, b)
  <1> DEFINE n == NewBar(single)
             o == singleFillsAtOpen(n, b, size)
             f == singleStops(o, b)
             m == MarkedAtClose(f, b)
             d == singleSignals(m, signals)
             c == singleFillsAtClose(d, b, size)
             r == Remarked(c, b)
  <1>1. singleBar(b, signals, size) = IF cfg.on_close THEN r ELSE d BY DEF singleBar
  <1>2. Good(n) /\ Room(n) /\ n.fills = {}
    BY NewBarIsGood DEF Room
  <1> HIDE DEF n
  <1>3. Good(o) /\ o.open.side # "short" /\ o.fills \subseteq {b.open}
    BY <1>2, SingleOpensGood
  <1> HIDE DEF o
  <1>4. Good(f) /\ f.open.side # "short" /\ Within(f, b)
    <2>1. o.open.first \in Int BY <1>3 DEF Good, Engine, Position
    <2>2. Within(o, b) BY <1>3, BarPrices DEF Within
    <2> DEFINE first == o.open.first
               t == Stops(o, b, first, TRUE)
    <2>3. f = t BY DEF singleStops
    <2>5. first \in Int BY <2>1
    <2> HIDE DEF first
    <2>4. Good(t) /\ Within(t, b) /\ t.open \in {o.open, Flat}
      BY <1>3, <2>5, <2>2, StopsAreGood
    <2> HIDE DEF t
    <2> QED BY <1>3, <2>3, <2>4, SidesOf
  <1> HIDE DEF f
  <1>5. Good(m) /\ m.open = f.open /\ Within(m, b)
    BY <1>4, MarkedIsGood DEF Marks, Within
  <1> HIDE DEF m
  <1>6. Good(d) /\ Room(d) /\ d.fills = m.fills
    <2> DEFINE pending == {s \in signals \cap {"long_entry", "long_exit"} :
                             /\ inRange
                             /\ s = "long_entry" => m.open.n < cfg.pyramiding
                             /\ s = "long_exit" => m.open.qty > 0}
               k == [m EXCEPT !.pending = pending]
    <2>1. d = k BY DEF singleSignals
    <2>2. pending \in SUBSET Signals OBVIOUS
    <2>3. "long_entry" \in pending => m.open.n < cfg.pyramiding OBVIOUS
    <2> HIDE DEF pending
    <2>4. Good(k) /\ k.open = m.open /\ k.pending = pending /\ k.fills = m.fills
      BY <1>5, <2>2, PendingIsGood
    <2> HIDE DEF k, d
    <2> QED BY <1>4, <1>5, <2>1, <2>3, <2>4 DEF Room
  <1> HIDE DEF d
  <1>7. Within(d, b) BY <1>5, <1>6 DEF Within
  <1>8. Good(c) /\ Room(c) /\ c.fills \subseteq d.fills \cup {b.close}
    BY <1>6, SingleClosesGood
  <1> HIDE DEF c
  <1>9. Within(c, b) BY <1>7, <1>8, BarPrices DEF Within
  <1>10. Good(r) /\ Room(r) /\ Within(r, b)
    BY <1>8, <1>9, RemarkIsGood DEF Marks, Room, Within
  <1> HIDE DEF r
  <1> QED BY <1>1, <1>6, <1>7, <1>10

LEMMA DualBarGood ==
  ASSUME cfg \in Configs, i \in Int, Counted(dual),
         NEW b \in Candles, NEW signals \in SUBSET Signals, NEW size \in Sizes
  PROVE  LET n == dualBar(b, signals, size)
         IN Counted(n) /\ Within(n, b)
  <1> DEFINE n == NewBar(dual)
             o == dualFillsAtOpen(n, b, size)
             f == dualStops(o, b)
             m == MarkedAtClose(f, b)
             d == dualSignals(m, signals)
             c == dualFillsAtClose(d, b, size)
             r == Remarked(c, b)
  <1>1. dualBar(b, signals, size) = IF cfg.on_close THEN r ELSE d BY DEF dualBar
  <1>2. Counted(n) /\ n.fills = {}
    BY NewBarIsGood DEF Counted
  <1> HIDE DEF n
  <1>3. Counted(o) /\ o.fills \subseteq {b.open}
    BY <1>2, DualOpensGood
  <1> HIDE DEF o
  <1>4. Counted(f) /\ Within(f, b)
    <2> DEFINE entry == IF o.open.qty > 0 THEN o.open.cost \div o.open.qty ELSE 0
               t == Stops(o, b, entry, FALSE)
    <2>1. entry \in Int
      <3>1. o.open.cost \in Int /\ o.open.qty \in Nat BY <1>3 DEF Counted, Good, Engine, Position
      <3> QED BY <3>1
    <2>2. Within(o, b) BY <1>3, BarPrices DEF Within
    <2>3. f = t BY DEF dualStops
    <2> HIDE DEF entry
    <2>4. Good(t) /\ Within(t, b) /\ (o.peak >= o.best => t.peak >= t.best)
      <3>1. Good(o) BY <1>3 DEF Counted
      <3> QED BY <2>1, <2>2, <3>1, StopsAreGood
    <2> HIDE DEF t
    <2> QED BY <1>3, <2>3, <2>4 DEF Counted
  <1> HIDE DEF f
  <1>5. Counted(m) /\ Within(m, b)
    <2>1. Good(f) BY <1>4 DEF Counted
    <2>2. Marks(m, f) BY <2>1, MarkedIsGood
    <2> HIDE DEF m
    <2>3. {f.peak, f.best, m.peak} \subseteq Int BY <2>1, <2>2 DEF Marks, Good, Engine
    <2> QED BY <1>4, <2>2, <2>3 DEF Marks, Within, Counted
  <1> HIDE DEF m
  <1>6. Counted(d) /\ Within(d, b)
    <2>1. PICK pending \in SUBSET Signals : d = [m EXCEPT !.pending = pending]
      BY DEF dualSignals, Signals
    <2> DEFINE k == [m EXCEPT !.pending = pending]
    <2>2. Good(k) /\ k.fills = m.fills /\ k.peak = m.peak /\ k.best = m.best
      BY <1>5, PendingIsGood DEF Counted
    <2> HIDE DEF k, d
    <2>3. d = k BY <2>1 DEF k
    <2> QED BY <1>5, <2>2, <2>3 DEF Counted, Within
  <1> HIDE DEF d
  <1>7. Counted(c) /\ c.fills \subseteq d.fills \cup {b.close}
    BY <1>6, DualClosesGood
  <1> HIDE DEF c
  <1>8. Within(c, b) BY <1>6, <1>7, BarPrices DEF Within
  <1>9. Counted(r) /\ Within(r, b)
    <2>1. Good(c) BY <1>7 DEF Counted
    <2>2. Marks(r, c) BY <2>1, RemarkIsGood
    <2> HIDE DEF r
    <2>3. {c.peak, c.best, r.peak} \subseteq Int BY <2>1, <2>2 DEF Marks, Good, Engine
    <2> QED BY <1>7, <1>8, <2>2, <2>3 DEF Marks, Within, Counted
  <1> HIDE DEF r
  <1> QED BY <1>1, <1>6, <1>9

-----------------------------------------------------------------------------
(* The theorems. *)

LEMMA InitInv == Init => Inv
  <1> SUFFICES ASSUME Init PROVE Inv OBVIOUS
  <1>1. Flat \in Position BY DEF Flat, Position
  <1>2. Fresh \in Engine BY <1>1, BacktestOK DEF Fresh, Engine, Signals
  <1>3. cfg \in Configs /\ i = 0 /\ single = Fresh /\ dual = Fresh BY DEF Init
  <1>4. TypeOK
    <2>1. i \in 0..LastBar BY <1>3, BacktestOK
    <2>2. shorted \in BOOLEAN BY Zenon DEF Init
    <2>3. span \in [low : Nat, high : Nat] BY DEF Init
    <2> QED BY <1>2, <1>3, <2>1, <2>2, <2>3 DEF TypeOK
  <1>5. Good(Fresh)
    <2>1. Fresh.open = Flat /\ Fresh.cash = Capital /\ Fresh.pnl = 0 BY DEF Fresh
    <2> QED BY <1>2, <1>3, <2>1, SettingsTyped, BacktestOK DEF Good, Balances, Sound, Flat
  <1>6. Room(Fresh) /\ Counted(Fresh)
    BY <1>3, <1>5, SettingsTyped, BacktestOK DEF Room, Counted, Fresh, Flat
  <1>7. FillsAreTradable BY <1>3 DEF FillsAreTradable, Fresh
  <1> QED BY <1>3, <1>4, <1>5, <1>6, <1>7 DEF Inv

LEMMA StepInv == Inv /\ [Next]_vars => Inv'
  <1> SUFFICES ASSUME Inv, [Next]_vars PROVE Inv' OBVIOUS
  <1>1. CASE UNCHANGED vars
    BY <1>1 DEF vars, Inv, TypeOK, Good, Room, Counted, Balances, Sound, FillsAreTradable
  <1>2. CASE Next
    <2>1. PICK b \in Candles, signals \in SUBSET Signals, size \in Sizes : Bar(b, signals, size)
      BY <1>2 DEF Next
    <2>2. /\ cfg \in Configs /\ i \in 0..LastBar /\ i < LastBar /\ shorted \in BOOLEAN
          /\ cfg' = cfg /\ i' = i + 1 /\ shorted' \in BOOLEAN
          /\ span' = [low |-> b.low, high |-> b.high]
      BY <2>1 DEF Bar, Inv, TypeOK
    <2>3. Good(single') /\ Room(single') /\ Within(single', b)
      <3>1. single' = singleBar(b, signals, size) BY <2>1 DEF Bar
      <3> QED BY <2>2, <3>1, SingleBarGood, BacktestOK DEF Inv
    <2>4. Counted(dual') /\ Within(dual', b)
      <3>1. dual' = dualBar(b, signals, size) BY <2>1 DEF Bar
      <3> QED BY <2>2, <3>1, DualBarGood, BacktestOK DEF Inv
    <2>5. TypeOK'
      <3>1. i' \in 0..LastBar BY <2>2, BacktestOK
      <3>2. span' \in [low : Nat, high : Nat] BY <2>2, CandleTyped
      <3> QED BY <2>2, <2>3, <2>4, <3>1, <3>2 DEF TypeOK, Good, Counted
    <2>6. Good(single)' /\ Room(single)' /\ Counted(dual)'
      BY <2>2, <2>3, <2>4 DEF Good, Room, Counted, Balances, Sound
    <2>7. FillsAreTradable'
      BY <2>2, <2>3, <2>4 DEF FillsAreTradable, Within
    <2> QED BY <2>5, <2>6, <2>7 DEF Inv
  <1> QED BY <1>1, <1>2

\* Inv is an invariant: a bar takes both engines from books that balance to
\* books that balance, whatever it fills, stops and signals.
THEOREM BooksInvariant == Spec => []Inv
  BY InitInv, StepInv, PTL DEF Spec

\* The variables keep their types.
THEOREM TypeCorrect == Spec => []TypeOK
  <1>1. Inv => TypeOK BY DEF Inv
  <1> QED BY <1>1, BooksInvariant, PTL

\* The profits of the trades are what the account gained, for any data,
\* signals, sizes and settings.
THEOREM TradesAccountForCash == Spec => []BooksBalance
  <1>1. Inv => BooksBalance BY DEF Inv, BooksBalance, Good, Counted
  <1> QED BY <1>1, BooksInvariant, PTL

\* One side at a time, and no more sub-positions than pyramiding allows.
THEOREM PositionsAreLimited == Spec => []NeverTooMany
  <1>1. Inv => NeverTooMany BY DEF Inv, NeverTooMany, Good, Counted
  <1> QED BY <1>1, BooksInvariant, PTL

\* Every fill is at a price its bar traded at.
THEOREM FillsWithinBar == Spec => []FillsAreTradable
  <1>1. Inv => FillsAreTradable BY DEF Inv
  <1> QED BY <1>1, BooksInvariant, PTL

\* The long/short engine's peak counts every closed trade.
THEOREM PeakIsComplete == Spec => []PeakCountsEveryTrade
  <1>1. Inv => PeakCountsEveryTrade BY DEF Inv, PeakCountsEveryTrade, Counted
  <1> QED BY <1>1, BooksInvariant, PTL

-----------------------------------------------------------------------------
(* The two engines where there are no shorts, one position at a time and   *)
(* no slippage: each operator of one does what the other's does.           *)

\* Settings and state for which they agree.
Alike == cfg \in Configs /\ i \in Int /\ cfg.pyramiding = 1 /\ ~cfg.slips

\* The first entry's price is the average of the entries.
Paid(p) == p.qty > 0 => p.cost \div p.qty = p.first

\* An engine that has seen no short.
LongOnly(e) ==
    /\ Good(e) /\ Room(e) /\ Paid(e.open)
    /\ e.pending \subseteq {"long_entry", "long_exit"}

Agree ==
    ~shorted /\ cfg.pyramiding = 1 /\ ~cfg.slips => single = dual /\ LongOnly(single)

LEMMA SlipsNot == ASSUME Alike, NEW x, NEW way PROVE apply_slippage(x, way) = x
  BY DEF Alike, apply_slippage

LEMMA ExitsAlike ==
  ASSUME Alike, NEW e, NEW asked, NEW price, NEW slips \in BOOLEAN
  PROVE  Exit(e, asked, price, slips) = Exit(e, asked, price, FALSE)
  <1>1. (IF slips THEN apply_slippage(price, Sells(e.open.side)) ELSE price) = price
    BY SlipsNot, Zenon
  <1>2. closePositions(e, price, slips) = closePositions(e, price, FALSE)
    BY <1>1, Zenon DEF closePositions
  <1> QED BY <1>2, Zenon DEF Exit

LEMMA Averages == ASSUME NEW q \in Nat \ {0}, NEW p \in Int PROVE (q * p) \div q = p
  OBVIOUS

\* An account without a position takes a long entry of its own price.
LEMMA EntryIsPaid ==
  ASSUME Alike, NEW e, Good(e), e.open.n = 0, NEW asked \in Int, NEW size \in Sizes,
         NEW seeds \in BOOLEAN
  PROVE  LET g == Enter(e, "long", asked, size, seeds)
         IN /\ Good(g) /\ g.open.side = "long" /\ g.open.n = 1 /\ Paid(g.open)
            /\ g.pending = e.pending
  <1> DEFINE g == Enter(e, "long", asked, size, seeds)
             p == apply_slippage(asked, Buys("long"))
             value == size * p
  <1>1. e.open = Flat BY DEF Good
  <1>2. size \in Nat \ {0} /\ p \in Int /\ cfg.pyramiding = 1 /\ cfg \in Configs /\ i \in Int
    BY BacktestOK, SlippedIsInt DEF Alike
  <1>3. /\ Good(g) /\ g.open.side = "long" /\ g.open.n = e.open.n + 1 /\ g.pending = e.pending
    <2>1. e.open.side \in {"none", "long"} /\ e.open.n < cfg.pyramiding
      BY <1>1, <1>2 DEF Flat
    <2> QED BY <1>2, <2>1, EnterIsGood
  <1>4. g.open = [side |-> "long", n |-> e.open.n + 1, qty |-> e.open.qty + size,
                  cost |-> e.open.cost + value, fees |-> e.open.fees + Fee(value),
                  first |-> IF e.open.n = 0 THEN p ELSE e.open.first]
    BY DEF Good, Engine, Enter
  <1> HIDE DEF g, p
  <1>5. value \in Int BY <1>2
  <1>6. value \div size = p BY <1>2, Averages
  <1> HIDE DEF value
  <1>7. g.open.qty = size /\ g.open.cost = value /\ g.open.first = p
    BY <1>1, <1>2, <1>4, <1>5 DEF Flat
  <1>8. Paid(g.open) BY <1>6, <1>7, Zenon DEF Paid
  <1>9. g.open.n = 1 BY <1>1, <1>3 DEF Flat
  <1> QED BY <1>3, <1>8, <1>9 DEF g

LEMMA FlatIsPaid == Paid(Flat)
  BY DEF Paid, Flat

\* What the steps of run_backtest_long_short for shorts do: nothing.
LEMMA NoShorts ==
  ASSUME NEW e, e.open.side # "short", NEW price, NEW paid
  PROVE  /\ Leaves(e, "short", "short_exit", price, paid) = e
         /\ Reverses(e, "short", "long_entry", price) = e
         /\ "short_entry" \notin e.pending => Reverses(e, "long", "short_entry", price) = e
  BY DEF Leaves, Reverses

\* At the open the long-only engine does not look at the peak; where it has
\* no position afterwards, its mark at the close will.
LEMMA OpensAlike ==
  ASSUME Alike, NEW e, LongOnly(e), NEW b \in Candles, NEW size \in Sizes
  PROVE  LET s == singleFillsAtOpen(e, b, size)
             d == dualFillsAtOpen(e, b, size)
         IN /\ Good(s) /\ Paid(s.open) /\ s.open.side # "short"
            /\ s.pending \subseteq {"long_entry", "long_exit"}
            /\ s = d \/ (s.open = Flat /\ s.equity = s.cash /\ d = PeakOf(s))
  <1> DEFINE s == singleFillsAtOpen(e, b, size)
             d == dualFillsAtOpen(e, b, size)
             e1 == Leaves(e, "long", "long_exit", b.open, b.open)
             e2 == Leaves(e1, "short", "short_exit", b.open, apply_slippage(b.open, "buy"))
             e3 == Reverses(e2, "short", "long_entry", b.open)
             e4 == Joins(e3, "long", "long_entry", b.open, size, TRUE)
             e5 == Reverses(e4, "long", "short_entry", b.open)
  <1>1. /\ Good(e) /\ e.open.side \in {"none", "long"} /\ Paid(e.open)
        /\ e.pending \subseteq {"long_entry", "long_exit"} /\ e.open.n \in Nat
        /\ e.open.qty \in Nat /\ (e.open.qty > 0 <=> e.open.side = "long")
        /\ (e.open.n = 0 <=> e.open.side = "none")
        /\ "long_entry" \in e.pending => e.open.n = 0
        /\ b.open \in Int /\ cfg \in Configs /\ cfg.pyramiding = 1 /\ i \in Int
    BY CandleTyped DEF LongOnly, Room, Alike, Good, Engine, Position, Sound
  <1>2. d = Joins(e5, "short", "short_entry", b.open, size, TRUE)
    BY DEF dualFillsAtOpen
  <1> HIDE DEF d
  <1>3. CASE "long_exit" \in e.pending /\ e.open.qty > 0
    <2> DEFINE x == Exit(e, b.open, b.open, TRUE)
               y == Done(x, "long_exit")
    <2>1. "long_entry" \notin e.pending BY <1>1, <1>3
    <2>2. Good(x) /\ x.open = Flat /\ x.pending = e.pending /\ x.equity = x.cash
      <3>1. Good(x) /\ x.open = Flat /\ x.pending = e.pending BY <1>1, <1>3, ExitIsGood
      <3>2. x.equity = x.cash BY <1>1 DEF Exit, closePositions, Good, Engine
      <3> QED BY <3>1, <3>2
    <2>3. s = y BY <1>3, <2>1 DEF singleFillsAtOpen
    <2>4. e1 = PeakOf(y) BY <1>1, <1>3 DEF Leaves
    <2> HIDE DEF x, e1
    <2>5. /\ Good(y) /\ y.open = Flat /\ y.pending = e.pending \ {"long_exit"} /\ y.equity = y.cash
      <3>1. Good(y) /\ y.open = x.open /\ y.pending = x.pending \ {"long_exit"} BY <2>2, DoneIsGood
      <3>2. y.equity = x.equity /\ y.cash = x.cash BY <2>2 DEF Done, Good, Engine
      <3> QED BY <2>2, <3>1, <3>2
    <2> HIDE DEF y
    <2>6. e1.open = Flat /\ e1.pending = y.pending BY <2>4, <2>5, PeakIsGood
    <2>7. e1.open.side # "short" /\ "long_entry" \notin e1.pending /\ "short_entry" \notin e1.pending
      BY <1>1, <2>1, <2>5, <2>6 DEF Flat
    <2>8. e2 = e1 BY <2>7, NoShorts, Zenon
    <2>9. e3 = e2 BY <2>7, <2>8, NoShorts, Zenon
    <2>10. e4 = e3 BY <2>7, <2>8, <2>9 DEF Joins
    <2> HIDE DEF e2, e3, e4
    <2>11. e5 = e4 BY <2>7, <2>8, <2>9, <2>10, NoShorts, Zenon
    <2> HIDE DEF e5
    <2>14. Joins(e1, "short", "short_entry", b.open, size, TRUE) = e1
      BY <2>7, Zenon DEF Joins
    <2>12. d = e1 BY <1>2, <2>8, <2>9, <2>10, <2>11, <2>14, Zenon
    <2> HIDE DEF s
    <2>13. Paid(y.open) /\ y.open.side # "short" BY <2>5, FlatIsPaid DEF Flat
    <2> QED BY <1>1, <2>3, <2>4, <2>5, <2>12, <2>13 DEF s, d
  <1>4. CASE ~("long_exit" \in e.pending /\ e.open.qty > 0)
    <2>1. e1 = e BY <1>1, <1>4 DEF Leaves
    <2> HIDE DEF e1
    <2>2. e2 = e BY <1>1, <2>1, NoShorts, Zenon
    <2> HIDE DEF e2
    <2>3. e3 = e BY <1>1, <2>2, NoShorts, Zenon
    <2> HIDE DEF e3
    <2>4. CASE "long_entry" \in e.pending
      <3> DEFINE g == Enter(e, "long", b.open, size, TRUE)
                 z == Done(g, "long_entry")
      <3>1. /\ Good(g) /\ g.open.side = "long" /\ Paid(g.open) /\ g.pending = e.pending
        BY <1>1, <2>4, EntryIsPaid
      <3>2. s = z BY <1>4, <2>4 DEF singleFillsAtOpen
      <3>0. e.open.qty = 0 BY <1>1, <2>4
      <3>3. Joins(e, "long", "long_entry", b.open, size, TRUE) = z
        BY <2>4, <3>0, Zenon DEF Joins
      <3>8. e4 = z BY <2>3, <3>3, Zenon
      <3> HIDE DEF g, e4
      <3>4. Good(z) /\ z.open = g.open /\ z.pending = g.pending \ {"long_entry"}
        BY <3>1, DoneIsGood
      <3> HIDE DEF z
      <3>5. z.open.side # "short" /\ "short_entry" \notin z.pending
        BY <1>1, <3>1, <3>4
      <3>6. e5 = z BY <3>8, <3>5, NoShorts, Zenon
      <3> HIDE DEF e5
      <3>9. Joins(z, "short", "short_entry", b.open, size, TRUE) = z
        BY <3>5, Zenon DEF Joins
      <3>7. d = z BY <1>2, <3>6, <3>9, Zenon
      <3> HIDE DEF s
      <3> QED BY <1>1, <3>1, <3>2, <3>4, <3>5, <3>7 DEF s, d
    <2>5. CASE "long_entry" \notin e.pending
      <3>1. s = e BY <1>4, <2>5 DEF singleFillsAtOpen
      <3>2. e4 = e BY <2>3, <2>5 DEF Joins
      <3> HIDE DEF e4
      <3>3. e.open.side # "short" /\ "short_entry" \notin e.pending BY <1>1
      <3>4. e5 = e BY <3>2, <3>3, NoShorts, Zenon
      <3> HIDE DEF e5
      <3>6. Joins(e, "short", "short_entry", b.open, size, TRUE) = e
        BY <3>3, Zenon DEF Joins
      <3>5. d = e BY <1>2, <3>4, <3>6, Zenon
      <3> HIDE DEF s
      <3> QED BY <1>1, <3>1, <3>5 DEF s, d
    <2> QED BY <2>4, <2>5
  <1> QED BY <1>3, <1>4

LEMMA ClosesAlike ==
  ASSUME Alike, NEW e, LongOnly(e), NEW b \in Candles, NEW size \in Sizes
  PROVE  LET s == singleFillsAtClose(e, b, size)
         IN s = dualFillsAtClose(e, b, size) /\ LongOnly(s)
  <1> DEFINE s == singleFillsAtClose(e, b, size)
             d == dualFillsAtClose(e, b, size)
             e1 == Leaves(e, "long", "long_exit", b.close, b.close)
             e2 == Leaves(e1, "short", "short_exit", b.close, b.close)
             e3 == Reverses(e2, "short", "long_entry", b.close)
             e4 == Joins(e3, "long", "long_entry", b.close, size, FALSE)
             e5 == Reverses(e4, "long", "short_entry", b.close)
             out == IF "long_exit" \in e.pending /\ e.open.qty > 0
                    THEN PeakOf(Done(Exit(e, b.close, b.close, TRUE), "long_exit")) ELSE e
  <1>1. b.close \in Int /\ cfg \in Configs /\ cfg.pyramiding = 1 /\ i \in Int
    BY CandleTyped DEF Alike
  <1>2. /\ Good(e) /\ e.open.side \in {"none", "long"} /\ Paid(e.open)
        /\ e.pending \subseteq {"long_entry", "long_exit"}
        /\ (e.open.qty > 0 <=> e.open.side = "long")
    BY DEF LongOnly, Room, Good, Engine, Position, Sound
  <1>3. d = Joins(e5, "short", "short_entry", b.close, size, FALSE)
    BY DEF dualFillsAtClose
  <1>4. s = IF "long_entry" \in out.pending /\ out.open.n < cfg.pyramiding
            THEN Done(Enter(out, "long", b.close, size, FALSE), "long_entry") ELSE out
    BY DEF singleFillsAtClose
  <1>5. e1 = out
    BY <1>2 DEF Leaves
  <1> HIDE DEF s, d, e1
  <1>6. Good(out) /\ out.open \in {e.open, Flat} /\ out.pending \subseteq e.pending
    <2>1. CASE "long_exit" \in e.pending /\ e.open.qty > 0
      <3> DEFINE x == Exit(e, b.close, b.close, TRUE)
                 y == Done(x, "long_exit")
      <3>1. Good(x) /\ x.open = Flat /\ x.pending = e.pending
        BY <1>1, <1>2, <2>1, ExitIsGood
      <3>2. out = PeakOf(y) BY <2>1
      <3> HIDE DEF x, out
      <3>3. Good(y) /\ y.open = Flat /\ y.pending \subseteq e.pending BY <3>1, DoneIsGood
      <3> HIDE DEF y
      <3> QED BY <3>2, <3>3, PeakIsGood
    <2>2. CASE ~("long_exit" \in e.pending /\ e.open.qty > 0) BY <1>2, <2>2
    <2> QED BY <2>1, <2>2
  <1> HIDE DEF out
  <1>7. /\ out.open.side \in {"none", "long"} /\ Paid(out.open)
        /\ "short_entry" \notin out.pending /\ out.pending \subseteq {"long_entry", "long_exit"}
        /\ out.open.n \in Nat /\ out.open.qty \in Nat
        /\ (out.open.n = 0 <=> out.open.side = "none") /\ (out.open.n = 0 <=> out.open.qty = 0)
    <2>1. Paid(out.open) /\ out.open.side \in {"none", "long"}
      BY <1>2, <1>6, FlatIsPaid DEF Flat
    <2> QED BY <1>2, <1>6, <2>1 DEF Good, Engine, Position, Sound
  <1>8. out.open.side # "short" BY <1>7
  <1>9. e2 = out BY <1>5, <1>8, NoShorts, Zenon
  <1> HIDE DEF e2
  <1>10. e3 = out BY <1>8, <1>9, NoShorts, Zenon
  <1> HIDE DEF e3
  <1>11. CASE "long_entry" \in out.pending /\ out.open.n < cfg.pyramiding
    <2> DEFINE g == Enter(out, "long", b.close, size, FALSE)
               z == Done(g, "long_entry")
    <2>1. out.open.n = 0 /\ out.open.qty = 0 BY <1>1, <1>7, <1>11
    <2>2. /\ Good(g) /\ g.open.side = "long" /\ Paid(g.open) /\ g.pending = out.pending
      BY <1>1, <1>6, <2>1, EntryIsPaid
    <2>3. s = z BY <1>4, <1>11, Zenon
    <2>4. Joins(out, "long", "long_entry", b.close, size, FALSE) = z
      BY <1>11, <2>1, Zenon DEF Joins
    <2>5. e4 = z BY <1>10, <2>4, Zenon
    <2> HIDE DEF g, e4
    <2>6. Good(z) /\ z.open = g.open /\ z.pending = g.pending \ {"long_entry"}
      BY <2>2, DoneIsGood
    <2> HIDE DEF z
    <2>7. z.open.side # "short" /\ "short_entry" \notin z.pending
      BY <1>7, <2>2, <2>6
    <2>8. e5 = z BY <2>5, <2>7, NoShorts, Zenon
    <2> HIDE DEF e5
    <2>9. Joins(z, "short", "short_entry", b.close, size, FALSE) = z
      BY <2>7, Zenon DEF Joins
    <2>10. d = z BY <1>3, <2>8, <2>9, Zenon
    <2>11. LongOnly(z) BY <1>7, <2>2, <2>6, <2>7 DEF LongOnly, Room
    <2> QED BY <2>3, <2>10, <2>11, Zenon DEF s, d
  <1>12. CASE ~("long_entry" \in out.pending /\ out.open.n < cfg.pyramiding)
    <2>1. s = out BY <1>4, <1>12, Zenon
    <2>2. ~(out.open.qty = 0 \/ (out.open.side = "long" /\ out.open.n < cfg.pyramiding))
          \/ "long_entry" \notin out.pending
      BY <1>1, <1>7, <1>12
    <2>3. Joins(out, "long", "long_entry", b.close, size, FALSE) = out
      BY <2>2, Zenon DEF Joins
    <2>4. e4 = out BY <1>10, <2>3, Zenon
    <2> HIDE DEF e4
    <2>5. e5 = out BY <1>7, <1>8, <2>4, NoShorts, Zenon
    <2> HIDE DEF e5
    <2>6. Joins(out, "short", "short_entry", b.close, size, FALSE) = out
      BY <1>7, Zenon DEF Joins
    <2>7. d = out BY <1>3, <2>5, <2>6, Zenon
    <2>8. Room(e) /\ e.open.n \in Nat BY DEF LongOnly, Good, Engine, Position
    <2>9. "long_entry" \in out.pending => out.open.n < cfg.pyramiding
      BY <1>1, <1>6, <2>8 DEF Room, Flat
    <2>10. LongOnly(out) BY <1>6, <1>7, <1>8, <2>9 DEF LongOnly, Room
    <2> QED BY <2>1, <2>7, <2>10, Zenon DEF s, d
  <1> QED BY <1>11, <1>12

\* Stops fill alike, as the first entry's price is the average one.
LEMMA StopsAlike ==
  ASSUME Alike, NEW e, Good(e), Paid(e.open), NEW b
  PROVE  singleStops(e, b) = dualStops(e, b)
  <1> DEFINE average == IF e.open.qty > 0 THEN e.open.cost \div e.open.qty ELSE 0
  <1>1. ASSUME NEW entry PROVE Stops(e, b, entry, TRUE) = Stops(e, b, entry, FALSE)
    <2> DEFINE side == e.open.side
               hits == IF inRange /\ e.open.qty > 0 /\ i > e.since
                       THEN checkTpslFill(side, b, tpLevel(side, entry), slLevel(e, b, entry))
                       ELSE {}
               hit == CHOOSE h \in hits : TRUE
               worst == IF hit.kind = "sl" \/ hit.price = b.open THEN hit.price
                        ELSE Worst(side, b)
               x(slips) == Exit(Drawn(e, worst), hit.price, hit.price, slips)
    <2>1. \A slips : Stops(e, b, entry, slips) = IF hits = {} THEN e ELSE PeakOf(x(slips))
      BY DEF Stops
    <2> HIDE DEF hits, hit, worst
    <2>2. x(TRUE) = x(FALSE) BY ExitsAlike
    <2> HIDE DEF x
    <2> QED BY <2>1, <2>2, Zenon
  <1>2. CASE e.open.qty > 0
    <2>1. average = e.open.first BY <1>2 DEF Paid
    <2> HIDE DEF average
    <2>2. dualStops(e, b) = Stops(e, b, average, FALSE) BY DEF dualStops, average
    <2>3. singleStops(e, b) = Stops(e, b, e.open.first, TRUE) BY DEF singleStops
    <2> QED BY <1>1, <2>1, <2>2, <2>3, Zenon
  <1>3. CASE ~(e.open.qty > 0)
    <2>1. \A entry, slips : Stops(e, b, entry, slips) = e BY <1>3, Zenon DEF Stops
    <2> QED BY <2>1, Zenon DEF singleStops, dualStops
  <1> QED BY <1>2, <1>3

\* The mark makes up for the peak that the open left alone.
LEMMA MarksAlike ==
  ASSUME NEW s, Good(s), s.open = Flat, s.equity = s.cash, NEW b \in Candles
  PROVE  MarkedAtClose(PeakOf(s), b) = MarkedAtClose(s, b)
  <1> DEFINE k == PeakOf(s)
             peak == IF inRange THEN Larger(s.peak, s.equity) ELSE s.peak
  <1>1. s \in Engine /\ s.peak \in Int /\ s.equity \in Int BY DEF Good, Engine
  <1>2. k = [s EXCEPT !.peak = peak] BY DEF PeakOf
  <1>3. peak \in Int BY <1>1 DEF Larger
  <1>4. (IF inRange THEN Larger(peak, s.cash) ELSE peak) = peak BY <1>1 DEF Larger
  <1> HIDE DEF peak
  <1>5. k \in Engine /\ k.open = Flat /\ k.cash = s.cash /\ k.peak = peak
    BY <1>1, <1>2, <1>3 DEF Engine
  <1>6. \A e : e.open = Flat =>
          MarkedAtClose(e, b) = PeakOf([e EXCEPT !.equity = Worth(e, b.close)])
    BY DEF MarkedAtClose, Flat
  <1>7. \A e : e.open = Flat => Worth(e, b.close) = e.cash
    BY DEF Worth, Flat
  <1>8. MarkedAtClose(s, b) = PeakOf([s EXCEPT !.equity = s.cash])
    BY <1>6, <1>7, Zenon
  <1>9. MarkedAtClose(k, b) = PeakOf([k EXCEPT !.equity = s.cash])
    BY <1>5, <1>6, <1>7, Zenon
  <1>10. PeakOf([s EXCEPT !.equity = s.cash]) = [s EXCEPT !.equity = s.cash, !.peak = peak]
    BY <1>1 DEF PeakOf, Engine, peak
  <1>11. PeakOf([k EXCEPT !.equity = s.cash]) = [s EXCEPT !.equity = s.cash, !.peak = peak]
    BY <1>1, <1>2, <1>3, <1>4 DEF PeakOf, Engine
  <1> QED BY <1>8, <1>9, <1>10, <1>11, Zenon

LEMMA SignalsAlike ==
  ASSUME Alike, NEW e, Good(e), Paid(e.open), e.open.side # "short",
         NEW signals \in SUBSET Signals,
         inRange => signals \cap {"short_entry", "short_exit"} = {}
  PROVE  LET s == singleSignals(e, signals)
         IN s = dualSignals(e, signals) /\ LongOnly(s)
  <1> DEFINE mine == {s \in signals \cap {"long_entry", "long_exit"} :
                        /\ inRange
                        /\ s = "long_entry" => e.open.n < cfg.pyramiding
                        /\ s = "long_exit" => e.open.qty > 0}
             held == e.open.side
             exits == {s \in signals : \/ s = "long_exit" /\ held = "long"
                                       \/ s = "short_exit" /\ held = "short"}
             mayEnter(side, order, exit) ==
                 /\ order \in signals
                 /\ \/ held = "none"
                    \/ held = side /\ e.open.n < cfg.pyramiding
                    \/ exit \in exits
             theirs == IF ~inRange THEN {}
                       ELSE exits
                            \cup {s \in {"long_entry"} : mayEnter("long", s, "short_exit")}
                            \cup {s \in {"short_entry"} : mayEnter("short", s, "long_exit")}
  <1>1. /\ held \in {"none", "long"} /\ e.open.n \in Nat /\ e.open.qty \in Nat
        /\ (e.open.n = 0 <=> held = "none") /\ (e.open.n = 0 <=> e.open.qty = 0)
        /\ cfg.pyramiding = 1
    BY DEF Good, Engine, Position, Sound, Alike
  <1>2. singleSignals(e, signals) = [e EXCEPT !.pending = mine] BY DEF singleSignals
  <1>3. dualSignals(e, signals) = [e EXCEPT !.pending = theirs] BY DEF dualSignals
  <1>4. mine = theirs
    <2>1. CASE ~inRange BY <2>1
    <2>2. CASE inRange
      <3>1. "short_entry" \notin signals /\ "short_exit" \notin signals BY <2>2
      <3>2. e.open.n < cfg.pyramiding <=> held = "none" BY <1>1
      <3>3. e.open.qty > 0 <=> held = "long" BY <1>1
      <3>4. \A s : s \in mine <=> \/ s = "long_exit" /\ s \in signals /\ held = "long"
                                  \/ s = "long_entry" /\ s \in signals /\ held = "none"
        BY <2>2, <3>2, <3>3
      <3>5. \A s : s \in theirs <=> \/ s = "long_exit" /\ s \in signals /\ held = "long"
                                    \/ s = "long_entry" /\ s \in signals /\ held = "none"
        BY <1>1, <2>2, <3>1, <3>2
      <3> HIDE DEF mine, theirs
      <3> QED BY <3>4, <3>5
    <2> QED BY <2>1, <2>2
  <1>5. /\ mine \in SUBSET Signals /\ mine \subseteq {"long_entry", "long_exit"}
        /\ "long_entry" \in mine => e.open.n < cfg.pyramiding
    OBVIOUS
  <1> HIDE DEF mine, theirs
  <1> DEFINE k == [e EXCEPT !.pending = mine]
  <1>6. Good(k) /\ k.open = e.open /\ k.pending = mine BY <1>5, PendingIsGood
  <1> HIDE DEF k
  <1>7. LongOnly(k) BY <1>5, <1>6 DEF LongOnly, Room
  <1>8. singleSignals(e, signals) = k /\ dualSignals(e, signals) = k
    BY <1>2, <1>3, <1>4 DEF k
  <1> QED BY <1>7, <1>8, Zenon

LEMMA BarsAlike ==
  ASSUME Alike, single = dual, LongOnly(single),
         NEW b \in Candles, NEW signals \in SUBSET Signals, NEW size \in Sizes,
         Within(NewBar(single), b),
         inRange => signals \cap {"short_entry", "short_exit"} = {}
  PROVE  LET n == singleBar(b, signals, size)
         IN n = dualBar(b, signals, size) /\ LongOnly(n)
  <1> DEFINE n == NewBar(single)
             o == singleFillsAtOpen(n, b, size)
             p == dualFillsAtOpen(n, b, size)
             f == singleStops(o, b)
             g == dualStops(p, b)
             m == MarkedAtClose(f, b)
             d == singleSignals(m, signals)
             c == singleFillsAtClose(d, b, size)
             r == Remarked(c, b)
  <1>1. singleBar(b, signals, size) = IF cfg.on_close THEN r ELSE d BY DEF singleBar
  <1>2. dualBar(b, signals, size)
          = IF cfg.on_close
            THEN Remarked(dualFillsAtClose(dualSignals(MarkedAtClose(g, b), signals), b, size), b)
            ELSE dualSignals(MarkedAtClose(g, b), signals)
    BY DEF dualBar
  <1>3. LongOnly(n) /\ n.fills = {} BY NewBarIsGood DEF LongOnly, Room
  <1> HIDE DEF n
  <1>4. /\ Good(o) /\ Paid(o.open) /\ o.open.side # "short"
        /\ o = p \/ (o.open = Flat /\ o.equity = o.cash /\ p = PeakOf(o))
    BY <1>3, OpensAlike
  <1>5. o.fills \subseteq {b.open} BY <1>3, SingleOpensGood DEF LongOnly, Alike
  <1> HIDE DEF o, p
  <1>6. Good(f) /\ f.open \in {o.open, Flat}
    <2> DEFINE first == o.open.first
               t == Stops(o, b, first, TRUE)
    <2>1. f = t BY DEF singleStops
    <2>2. Within(o, b) BY <1>5, BarPrices DEF Within
    <2>3. first \in Int BY <1>4 DEF Good, Engine, Position
    <2>4. cfg \in Configs /\ i \in Int BY DEF Alike
    <2> HIDE DEF first
    <2>5. Good(t) /\ t.open \in {o.open, Flat} BY <1>4, <2>2, <2>3, <2>4, StopsAreGood
    <2> HIDE DEF t
    <2> QED BY <2>1, <2>5
  <1>7. Paid(f.open) /\ f.open.side # "short" BY <1>4, <1>6, FlatIsPaid DEF Flat
  <1>8. MarkedAtClose(g, b) = m
    <2>1. CASE o = p
      <3>1. f = g BY <1>4, <2>1, StopsAlike
      <3> QED BY <3>1
    <2>2. CASE o.open = Flat /\ o.equity = o.cash /\ p = PeakOf(o)
      <3>1. \A e, entry, slips : e.open = Flat => Stops(e, b, entry, slips) = e
        BY DEF Stops, Flat
      <3>2. p.open = Flat BY <1>4, <2>2, PeakIsGood
      <3>3. f = o /\ g = p BY <2>2, <3>1, <3>2, Zenon DEF singleStops, dualStops
      <3>4. MarkedAtClose(PeakOf(o), b) = MarkedAtClose(o, b)
        BY <1>4, <2>2, MarksAlike
      <3> QED BY <2>2, <3>3, <3>4, Zenon
    <2> QED BY <1>4, <2>1, <2>2
  <1> HIDE DEF f, g
  <1>9. Good(m) /\ m.open = f.open BY <1>6, MarkedIsGood DEF Marks
  <1> HIDE DEF m
  <1>10. d = dualSignals(m, signals) /\ LongOnly(d)
    BY <1>7, <1>9, SignalsAlike
  <1> HIDE DEF d
  <1>11. c = dualFillsAtClose(d, b, size) /\ LongOnly(c) BY <1>10, ClosesAlike
  <1> HIDE DEF c
  <1>12. LongOnly(r) BY <1>11, RemarkIsGood DEF Marks, LongOnly, Room
  <1> HIDE DEF r
  <1>13. singleBar(b, signals, size) = dualBar(b, signals, size)
    BY <1>1, <1>2, <1>8, <1>10, <1>11, Zenon DEF r
  <1> QED BY <1>1, <1>10, <1>12, <1>13, Zenon

LEMMA StepAgree == Inv /\ Agree /\ [Next]_vars => Agree'
  <1> SUFFICES ASSUME Inv, Agree, [Next]_vars PROVE Agree' OBVIOUS
  <1>1. CASE UNCHANGED vars
    BY <1>1 DEF vars, Agree, LongOnly, Good, Room, Balances, Sound
  <1>2. CASE Next
    <2>1. PICK b \in Candles, signals \in SUBSET Signals, size \in Sizes : Bar(b, signals, size)
      BY <1>2 DEF Next
    <2>2. /\ cfg \in Configs /\ i \in Int /\ cfg' = cfg
          /\ single' = singleBar(b, signals, size) /\ dual' = dualBar(b, signals, size)
          /\ shorted' = (shorted \/ (inRange /\ signals \cap {"short_entry", "short_exit"} # {}))
      BY <2>1, BacktestOK DEF Bar, Inv, TypeOK
    <2>3. SUFFICES ASSUME ~shorted', cfg.pyramiding = 1, ~cfg.slips
                   PROVE  single' = dual' /\ LongOnly(single')
      BY <2>2 DEF Agree, LongOnly, Good, Room, Balances, Sound
    <2>4. ~shorted /\ (inRange => signals \cap {"short_entry", "short_exit"} = {})
      BY <2>2, <2>3, Zenon
    <2>5. single = dual /\ LongOnly(single) BY <2>3, <2>4 DEF Agree
    <2>6. Alike BY <2>2, <2>3 DEF Alike
    <2>7. Within(NewBar(single), b) BY <2>5, NewBarIsGood DEF Within, LongOnly
    <2>8. singleBar(b, signals, size) = dualBar(b, signals, size)
          /\ LongOnly(singleBar(b, signals, size))
      BY <2>4, <2>5, <2>6, <2>7, BarsAlike
    <2> QED BY <2>2, <2>8
  <1> QED BY <1>1, <1>2

\* The long/short engine is the long-only one where there are no shorts, one
\* position at a time and no slippage, whatever the data, the stops and the
\* time of filling: what their planned de-duplication needs. They do differ
\* within a bar, on the peak after an exit at the open.
THEOREM EnginesAreTheSame == Spec => []EnginesAgree
  <1>1. Init => Agree
    <2> SUFFICES ASSUME Init PROVE Agree OBVIOUS
    <2>1. Good(single) /\ Room(single) BY InitInv DEF Inv
    <2>2. single = dual /\ single.open = Flat /\ single.pending = {} BY DEF Init, Fresh
    <2> QED BY <2>1, <2>2, FlatIsPaid DEF Agree, LongOnly
  <1>2. Agree => EnginesAgree BY DEF Agree, EnginesAgree
  <1> QED BY <1>1, <1>2, StepAgree, BooksInvariant, PTL DEF Spec
=============================================================================
