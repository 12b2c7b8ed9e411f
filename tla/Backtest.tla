------------------------------ MODULE Backtest ------------------------------
(***************************************************************************)
(* The two backtest engines of the research backend (engine.py):           *)
(* run_backtest, long only, and run_backtest_long_short, fed with the same *)
(* bars and settings. A step is one turn of their loops: pending orders    *)
(* fill at the open, stops and targets fill inside the bar, the account is *)
(* marked at the close, the signals of the bar become pending orders, and  *)
(* with process_orders_on_close these fill at once.                        *)
(*                                                                         *)
(* Sub-positions are kept by their number and their sums, closed trades by *)
(* the sum of their profits. An order's quantity is an input, whichever    *)
(* qty_type gave it. Commission and slippage are one part in Share; prices *)
(* are multiples of so many units that every division is exact.            *)
(* Percentages (an offset that depends on the entry), drawdown in per cent *)
(* and the figures computed from the trades at the end are left out.       *)
(***************************************************************************)
EXTENDS Integers

CONSTANTS
    Configs,    \* settings of a backtest, and its stop and target columns
    Candles,    \* prices of a bar
    Sizes,      \* quantities an order may have
    Capital,    \* initial_capital
    Share,      \* commission and slippage are 1/Share
    WindowEnd,  \* end_date: the last bar in range
    LastBar     \* bound: length of the data

ASSUME BacktestOK ==
    /\ Configs \subseteq [pyramiding : Nat \ {0}, on_close : BOOLEAN, slips : BOOLEAN,
                          tp_price : Nat, sl_price : Nat, tp_offset : Nat, sl_offset : Nat,
                          trail_offset : Nat, max_bars : Nat]
    /\ \A b \in Candles : /\ {b.open, b.high, b.low, b.close} \subseteq Nat \ {0}
                          /\ b.low <= b.open /\ b.open <= b.high
                          /\ b.low <= b.close /\ b.close <= b.high
    /\ Sizes \subseteq Nat \ {0}
    /\ {Capital, WindowEnd, LastBar} \subseteq Nat /\ Share \in Nat \ {0}

VARIABLES
    cfg,       \* the BacktestConfig
    i,         \* index of the bar that comes next
    single,    \* the locals of run_backtest
    dual,      \* the locals of run_backtest_long_short
    shorted,   \* history: a short signal has come in range
    span       \* history: prices of the last bar, for what was filled on it

vars == <<cfg, i, single, dual, shorted, span>>

Signals == {"long_entry", "long_exit", "short_entry", "short_exit"}
Flat == [side |-> "none", n |-> 0, qty |-> 0, cost |-> 0, fees |-> 0, first |-> 0]

Position == [side : {"none", "long", "short"}, n : Nat, qty : Nat, cost : Int, fees : Int,
             first : Int]
Engine == [cash : Int, equity : Int, open : Position, pnl : Int, pending : SUBSET Signals,
           since : Int, trail : Int, peak : Int, dd : Int, fills : SUBSET Int, best : Int]

\* Every variable keeps its type.
TypeOK ==
    /\ cfg \in Configs /\ i \in 0..LastBar
    /\ single \in Engine /\ dual \in Engine
    /\ shorted \in BOOLEAN
    /\ span \in [low : Nat, high : Nat]

Fresh ==
    [cash |-> Capital, equity |-> Capital, open |-> Flat, pnl |-> 0, pending |-> {},
     since |-> -1, trail |-> 0, peak |-> Capital, dd |-> 0, fills |-> {}, best |-> Capital]

Init ==
    /\ cfg \in Configs /\ i = 0
    /\ single = Fresh /\ dual = Fresh
    /\ shorted = FALSE /\ span = [low |-> 0, high |-> 0]

-----------------------------------------------------------------------------
(* Fills. fills and best are histories: the prices of the bar that were    *)
(* filled at, slippage apart, and the most the account was worth in range  *)
(* without a position.                                                     *)

inRange == i <= WindowEnd
Fee(value) == value \div Share
Larger(a, b) == IF a > b THEN a ELSE b

Buys(side) == IF side = "long" THEN "buy" ELSE "sell"
Sells(side) == IF side = "long" THEN "sell" ELSE "buy"

apply_slippage(price, way) ==
    IF ~cfg.slips THEN price
    ELSE IF way = "buy" THEN price + price \div Share ELSE price - price \div Share

\* Mutant: the entry's commission is not charged to the trade.
closeWithoutEntryFees(e, price, slips) ==
    LET p == IF slips THEN apply_slippage(price, Sells(e.open.side)) ELSE price
        value == e.open.qty * p
        gross == IF e.open.side = "long" THEN value - e.open.cost ELSE e.open.cost - value
        cash == e.cash - Fee(value) + (IF e.open.side = "long" THEN value ELSE gross)
    IN [e EXCEPT !.cash = cash, !.equity = cash, !.pnl = @ + gross - Fee(value),
                 !.open = Flat]

\* Mutant: the side of what is closed is not reset.
closeKeepingSide(e, price, slips) ==
    LET p == IF slips THEN apply_slippage(price, Sells(e.open.side)) ELSE price
        value == e.open.qty * p
        gross == IF e.open.side = "long" THEN value - e.open.cost ELSE e.open.cost - value
        cash == e.cash - Fee(value) + (IF e.open.side = "long" THEN value ELSE gross)
    IN [e EXCEPT !.cash = cash, !.equity = cash,
                 !.pnl = @ + gross - e.open.fees - Fee(value),
                 !.open = [Flat EXCEPT !.side = e.open.side]]

\* _close_positions, and what every caller does after it: a short's
\* principal was never debited, so that only its profit comes back.
closePositions(e, price, slips) ==
    LET p == IF slips THEN apply_slippage(price, Sells(e.open.side)) ELSE price
        value == e.open.qty * p
        gross == IF e.open.side = "long" THEN value - e.open.cost ELSE e.open.cost - value
        cash == e.cash - Fee(value) + (IF e.open.side = "long" THEN value ELSE gross)
    IN [e EXCEPT !.cash = cash, !.equity = cash,
                 !.pnl = @ + gross - e.open.fees - Fee(value), !.open = Flat]

Exit(e, asked, price, slips) ==
    LET closed == closePositions(e, price, slips)
    IN [closed EXCEPT !.fills = @ \cup {asked},
                      !.best = IF inRange THEN Larger(@, closed.cash) ELSE @]

\* A new sub-position. At the close, nothing seeds the trailing stop.
Enter(e, side, asked, size, seeds) ==
    LET p == apply_slippage(asked, Buys(side))
        value == size * p
    IN [e EXCEPT
          !.cash = @ - Fee(value) - (IF side = "long" THEN value ELSE 0),
          !.open = [side |-> side, n |-> @.n + 1, qty |-> @.qty + size, cost |-> @.cost + value,
                    fees |-> @.fees + Fee(value), first |-> IF @.n = 0 THEN p ELSE @.first],
          !.since = i,
          !.trail = IF seeds THEN p ELSE @,
          !.fills = @ \cup {asked}]

PeakOf(e) == [e EXCEPT !.peak = IF inRange THEN Larger(@, e.equity) ELSE @]
Done(e, order) == [e EXCEPT !.pending = @ \ {order}]

\* run_backtest at the open: no look at the pyramiding, none at the peak.
singleFillsAtOpen(e, b, size) ==
    LET out == IF "long_exit" \in e.pending /\ e.open.qty > 0
               THEN Done(Exit(e, b.open, b.open, TRUE), "long_exit") ELSE e
    IN IF "long_entry" \in e.pending
       THEN Done(Enter(out, "long", b.open, size, TRUE), "long_entry") ELSE out

singleFillsAtClose(e, b, size) ==
    LET out == IF "long_exit" \in e.pending /\ e.open.qty > 0
               THEN PeakOf(Done(Exit(e, b.close, b.close, TRUE), "long_exit")) ELSE e
    IN IF "long_entry" \in out.pending /\ out.open.n < cfg.pyramiding
       THEN Done(Enter(out, "long", b.close, size, FALSE), "long_entry") ELSE out

\* run_backtest_long_short: exits, then for each side an implicit reversal
\* of the other and the entry.
Leaves(e, side, order, price, paid) ==
    IF order \in e.pending /\ e.open.side = side
    THEN PeakOf(Done(Exit(e, price, paid, TRUE), order)) ELSE e
Reverses(e, side, order, price) ==
    IF order \in e.pending /\ e.open.side = side
    THEN PeakOf(Exit(e, price, price, TRUE)) ELSE e
Joins(e, side, order, price, size, seeds) ==
    IF order \in e.pending
       /\ (e.open.qty = 0 \/ (e.open.side = side /\ e.open.n < cfg.pyramiding))
    THEN Done(Enter(e, side, price, size, seeds), order) ELSE e

\* Mutant: a reversal at the open forgets the peak it was flat at.
dualForgetsReversals(e, b, size) ==
    LET e1 == IF "long_exit" \in e.pending /\ e.open.side = "long"
              THEN Done(Exit(e, b.open, b.open, TRUE), "long_exit") ELSE e
        e2 == Leaves(e1, "short", "short_exit", b.open, apply_slippage(b.open, "buy"))
        e3 == Reverses(e2, "short", "long_entry", b.open)
        e4 == Joins(e3, "long", "long_entry", b.open, size, TRUE)
        e5 == Reverses(e4, "long", "short_entry", b.open)
    IN Joins(e5, "short", "short_entry", b.open, size, TRUE)

\* At the open: a short exit's price is slipped before _close_positions
\* slips it.
dualFillsAtOpen(e, b, size) ==
    LET e1 == Leaves(e, "long", "long_exit", b.open, b.open)
        e2 == Leaves(e1, "short", "short_exit", b.open, apply_slippage(b.open, "buy"))
        e3 == Reverses(e2, "short", "long_entry", b.open)
        e4 == Joins(e3, "long", "long_entry", b.open, size, TRUE)
        e5 == Reverses(e4, "long", "short_entry", b.open)
    IN Joins(e5, "short", "short_entry", b.open, size, TRUE)

\* Mutant: the trailing stop's seed is mended in one engine only.
dualSeedsAtClose(e, b, size) ==
    LET e1 == Leaves(e, "long", "long_exit", b.close, b.close)
        e2 == Leaves(e1, "short", "short_exit", b.close, b.close)
        e3 == Reverses(e2, "short", "long_entry", b.close)
        e4 == Joins(e3, "long", "long_entry", b.close, size, TRUE)
        e5 == Reverses(e4, "long", "short_entry", b.close)
    IN Joins(e5, "short", "short_entry", b.close, size, TRUE)

dualFillsAtClose(e, b, size) ==
    LET e1 == Leaves(e, "long", "long_exit", b.close, b.close)
        e2 == Leaves(e1, "short", "short_exit", b.close, b.close)
        e3 == Reverses(e2, "short", "long_entry", b.close)
        e4 == Joins(e3, "long", "long_entry", b.close, size, FALSE)
        e5 == Reverses(e4, "long", "short_entry", b.close)
    IN Joins(e5, "short", "short_entry", b.close, size, FALSE)

-----------------------------------------------------------------------------
(* Stops and targets inside the bar. A level that may be off is a set.     *)

Past(side, price, level) == IF side = "long" THEN price >= level ELSE price <= level
Other(side) == IF side = "long" THEN "short" ELSE "long"
Best(side, b)  == IF side = "long" THEN b.high ELSE b.low
Worst(side, b) == IF side = "long" THEN b.low ELSE b.high
Away(side, price, offset) == IF side = "long" THEN price + offset ELSE price - offset
Abs(x) == IF x < 0 THEN -x ELSE x

\* Mutant: a gap does not matter, a level is filled at its price.
fillIgnoringGaps(side, b, tp, sl) ==
    LET tpHit == \E t \in tp : Past(side, Best(side, b), t)
        slHit == \E s \in sl : Past(Other(side), Worst(side, b), s)
    IN IF tpHit THEN {[kind |-> "tp", price |-> t] : t \in tp}
       ELSE IF slHit THEN {[kind |-> "sl", price |-> s] : s \in sl} ELSE {}

\* _check_tpsl_fill: a gap fills at the open; of two levels in one bar the
\* one on the side of the nearer extreme is taken to have come first.
checkTpslFill(side, b, tp, sl) ==
    LET tpHit == \E t \in tp : Past(side, Best(side, b), t)
        slHit == \E s \in sl : Past(Other(side), Worst(side, b), s)
        tpFirst == Abs(Best(side, b) - b.open) <= Abs(b.open - Worst(side, b))
    IN IF \E t \in tp : Past(side, b.open, t) THEN {[kind |-> "tp", price |-> b.open]}
       ELSE IF \E s \in sl : Past(Other(side), b.open, s) THEN {[kind |-> "sl", price |-> b.open]}
       ELSE IF tpHit /\ (~slHit \/ tpFirst) THEN {[kind |-> "tp", price |-> t] : t \in tp}
       ELSE IF slHit THEN {[kind |-> "sl", price |-> s] : s \in sl} ELSE {}

tpLevel(side, entry) ==
    IF cfg.tp_price > 0 THEN {cfg.tp_price}
    ELSE IF cfg.tp_offset > 0 THEN {Away(side, entry, cfg.tp_offset)} ELSE {}

\* The time stop makes the open the stop's price; the trailing stop joins a
\* fixed one as the tighter of the two.
slLevel(e, b, entry) ==
    LET side == e.open.side
        fixed == IF cfg.max_bars > 0 /\ i - e.since >= cfg.max_bars THEN {b.open}
                 ELSE IF cfg.sl_price > 0 THEN {cfg.sl_price}
                 ELSE IF cfg.sl_offset > 0 THEN {Away(side, entry, -cfg.sl_offset)} ELSE {}
        level == Away(side, e.trail, -cfg.trail_offset)
        trailing == IF cfg.trail_offset > 0 /\ e.trail > 0 /\ level > 0 THEN {level} ELSE {}
        all == fixed \cup trailing
    IN {s \in all : \A t \in all : Past(side, s, t)}

Worth(e, price) ==
    CASE e.open.side = "long" -> e.cash + e.open.qty * price
      [] e.open.side = "short" -> e.cash + e.open.cost - e.open.qty * price
      [] OTHER -> e.cash
Drawn(e, price) ==
    [e EXCEPT !.dd = IF Worth(e, price) - e.peak < @ THEN Worth(e, price) - e.peak ELSE @]

\* Not on the bar of the (last) entry.
Stops(e, b, entry, slips) ==
    LET side == e.open.side
        hits == IF inRange /\ e.open.qty > 0 /\ i > e.since
                THEN checkTpslFill(side, b, tpLevel(side, entry), slLevel(e, b, entry)) ELSE {}
        hit == CHOOSE h \in hits : TRUE
        worst == IF hit.kind = "sl" \/ hit.price = b.open THEN hit.price ELSE Worst(side, b)
    IN IF hits = {} THEN e
       ELSE PeakOf(Exit(Drawn(e, worst), hit.price, hit.price, slips))

\* The first position's entry stands for all; slipped like a market order.
singleStops(e, b) == Stops(e, b, e.open.first, TRUE)
\* The average entry; slippage is not passed on.
dualStops(e, b) ==
    Stops(e, b, IF e.open.qty > 0 THEN e.open.cost \div e.open.qty ELSE 0, FALSE)

-----------------------------------------------------------------------------
(* The close of the bar.                                                   *)

MarkedAtClose(e, b) ==
    LET held == e.open.qty > 0
        low == IF inRange /\ held THEN Drawn(e, Worst(e.open.side, b)) ELSE e
        marked == [low EXCEPT !.equity = Worth(e, b.close)]
        peaked == IF held THEN marked ELSE PeakOf(marked)
    IN IF held THEN [peaked EXCEPT !.trail = IF Past(e.open.side, Best(e.open.side, b), @)
                                             THEN Best(e.open.side, b) ELSE @]
       ELSE peaked
Remarked(e, b) ==
    LET marked == [e EXCEPT !.equity = Worth(e, b.close)]
    IN IF e.open.qty > 0 THEN marked ELSE PeakOf(marked)

singleSignals(e, signals) ==
    [e EXCEPT !.pending =
        {s \in signals \cap {"long_entry", "long_exit"} :
            /\ inRange
            /\ s = "long_entry" => e.open.n < cfg.pyramiding
            /\ s = "long_exit" => e.open.qty > 0}]

\* An entry of the other side is pending only with the exit it reverses.
dualSignals(e, signals) ==
    LET held == e.open.side
        exits == {s \in signals : \/ s = "long_exit" /\ held = "long"
                                  \/ s = "short_exit" /\ held = "short"}
        mayEnter(side, order, exit) ==
            /\ order \in signals
            /\ \/ held = "none"
               \/ held = side /\ e.open.n < cfg.pyramiding
               \/ exit \in exits
    IN [e EXCEPT !.pending =
          IF ~inRange THEN {}
          ELSE exits \cup {s \in {"long_entry"} : mayEnter("long", s, "short_exit")}
                     \cup {s \in {"short_entry"} : mayEnter("short", s, "long_exit")}]

-----------------------------------------------------------------------------
NewBar(e) == [e EXCEPT !.fills = {}]
singleBar(b, signals, size) ==
    LET filled == singleStops(singleFillsAtOpen(NewBar(single), b, size), b)
        decided == singleSignals(MarkedAtClose(filled, b), signals)
    IN IF cfg.on_close THEN Remarked(singleFillsAtClose(decided, b, size), b) ELSE decided
dualBar(b, signals, size) ==
    LET filled == dualStops(dualFillsAtOpen(NewBar(dual), b, size), b)
        decided == dualSignals(MarkedAtClose(filled, b), signals)
    IN IF cfg.on_close THEN Remarked(dualFillsAtClose(decided, b, size), b) ELSE decided

Bar(b, signals, size) ==
    /\ i < LastBar
    /\ single' = singleBar(b, signals, size)
    /\ dual' = dualBar(b, signals, size)
    /\ i' = i + 1
    /\ shorted' = (shorted \/ (inRange /\ signals \cap {"short_entry", "short_exit"} # {}))
    /\ span' = [low |-> b.low, high |-> b.high]
    /\ UNCHANGED cfg

Next == \E b \in Candles, signals \in SUBSET Signals, size \in Sizes : Bar(b, signals, size)

Spec == Init /\ [][Next]_vars

-----------------------------------------------------------------------------
(* Properties *)

Balances(e) ==
    e.cash = Capital + e.pnl - e.open.fees - (IF e.open.side = "long" THEN e.open.cost ELSE 0)

\* The trades account for the cash: on every way in and out, of both sides,
\* reversals, stops and sub-positions included, what the trades report as
\* profit is what the account has gained (engine.py, _close_positions and
\* the entries; net_profit against final_equity).
BooksBalance == Balances(single) /\ Balances(dual)

Sound(e) ==
    /\ e.open.n <= cfg.pyramiding
    /\ (e.open.side = "none") = (e.open.n = 0) /\ (e.open.n = 0) = (e.open.qty = 0)

\* "Long and short positions (never simultaneously)", and never more
\* sub-positions than pyramiding allows, though entries are decided on one
\* bar and filled on the next (engine.py, run_backtest_long_short).
NeverTooMany == Sound(single) /\ Sound(dual)

\* Nothing is filled at a price the bar did not trade at, a stop or target
\* behind a gap included (engine.py, _check_tpsl_fill).
FillsAreTradable ==
    \A f \in single.fills \cup dual.fills : span.low <= f /\ f <= span.high

\* The peak that drawdowns are measured from counts every closed trade,
\* also when the next one opens on the same bar: "critical for reversal
\* strategies" (engine.py, run_backtest_long_short).
PeakCountsEveryTrade == dual.peak >= dual.best

\* The long/short engine is the long-only one where there are no shorts:
\* what their planned de-duplication needs (test_engine_characterization.py).
\* It takes one position at a time and no slippage.
EnginesAgree == ~shorted /\ cfg.pyramiding = 1 /\ ~cfg.slips => single = dual
=============================================================================
