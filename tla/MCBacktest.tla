------------------------------ MODULE MCBacktest ------------------------------
(***************************************************************************)
(* Backtest on a few candles of three prices, with settings that bring in  *)
(* each kind of stop and both times of filling.                            *)
(***************************************************************************)
EXTENDS Backtest

Unit == 6000
Candle(o, h, l, c) == [open |-> o * Unit, high |-> h * Unit, low |-> l * Unit, close |-> c * Unit]

\* Rising, falling, a narrow one at each end, a wide one that meets any two
\* levels.
SomeCandles == {Candle(1, 2, 1, 2), Candle(2, 2, 1, 1), Candle(1, 1, 1, 1), Candle(3, 3, 3, 3),
                Candle(2, 3, 1, 2)}

Plain == [pyramiding |-> 1, on_close |-> FALSE, slips |-> FALSE, tp_price |-> 0, sl_price |-> 0,
          tp_offset |-> 0, sl_offset |-> 0, trail_offset |-> 0, max_bars |-> 0]

SomeConfigs ==
    {[Plain EXCEPT !.tp_offset = Unit, !.sl_offset = Unit],
     [Plain EXCEPT !.pyramiding = 2, !.trail_offset = Unit, !.sl_price = Unit],
     [Plain EXCEPT !.pyramiding = 2, !.slips = TRUE, !.tp_price = 3 * Unit, !.max_bars = 2],
     [Plain EXCEPT !.trail_offset = Unit, !.max_bars = 2],
     [Plain EXCEPT !.on_close = TRUE, !.trail_offset = Unit, !.max_bars = 2],
     [Plain EXCEPT !.on_close = TRUE, !.pyramiding = 2, !.slips = TRUE, !.sl_offset = Unit]}
=============================================================================
