---------------------------- MODULE MCExecService ----------------------------
(***************************************************************************)
(* Instances of ExecService for TLC: the signals of one bot, workers and   *)
(* owners are interchangeable in the runs that check no liveness.          *)
(***************************************************************************)
EXTENDS ExecService, TLC

CONSTANT b1
OneBot == [s \in Signal |-> b1]

Interchangeable == Permutations(Signal) \cup Permutations(Worker)
=============================================================================
