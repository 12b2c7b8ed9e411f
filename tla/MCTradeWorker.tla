--------------------------- MODULE MCTradeWorker ---------------------------
(* Small instances of TradeWorker for TLC: one bot, all signals its own.   *)
EXTENDS TradeWorker, TLC

OneBot == [s \in Signal |-> CHOOSE b \in Bot : TRUE]

Workers == Permutations(Worker)
Signals == Permutations(Signal)
=============================================================================
