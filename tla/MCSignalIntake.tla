--------------------------- MODULE MCSignalIntake ---------------------------
(***************************************************************************)
(* The instance of SignalIntake for TLC: the configuration gives the model *)
(* values of Signal, Delivery and Sweep. They are not declared symmetric,  *)
(* as the run checks liveness.                                             *)
(***************************************************************************)
EXTENDS SignalIntake
=============================================================================
