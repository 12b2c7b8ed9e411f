----------------------------- MODULE MCPositions -----------------------------
(***************************************************************************)
(* An instance of Positions for TLC: bots sized by balance and by a fixed  *)
(* notional, that sell half, all, or not at all, and one without caps.     *)
(***************************************************************************)
EXTENDS Positions, TLC

Config(pct, fixed, sell, sellPct) ==
    [pct |-> pct, fixed |-> fixed, max_order |-> 9, cap |-> 14,
     sell_enabled |-> sell, sell_pct |-> sellPct]
SomeConfigs == {Config(50, 0, TRUE, 100), Config(0, 8, TRUE, 50), Config(100, 0, FALSE, 0),
                [Config(50, 0, TRUE, 50) EXCEPT !.cap = 0]}
Interchangeable == Permutations(Signal) \cup Permutations(Call) \cup Permutations(Host)
=============================================================================
