------------------------------- MODULE MCPipe -------------------------------
(***************************************************************************)
(* Instances of Pipe: two readers against two writers, and a killed writer.*)
(* Liveness is checked, so there is no symmetry.                           *)
(***************************************************************************)
EXTENDS Pipe
=============================================================================
