--------------------------- MODULE MCSleepWakeup ----------------------------
(***************************************************************************)
(* An instance of SleepWakeup with two CPUs that compete for two processes.*)
(* Liveness is checked, so there is no symmetry.                           *)
(***************************************************************************)
EXTENDS SleepWakeup
=============================================================================
