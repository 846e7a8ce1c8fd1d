----------------------------- MODULE MCBufCache -----------------------------
(***************************************************************************)
(* An instance of BufCache with fewer buffers than its users can ask for.  *)
(* Liveness is checked, so there is no symmetry.                           *)
(***************************************************************************)
EXTENDS BufCache
=============================================================================
