------------------------------ MODULE MCProcs -------------------------------
(***************************************************************************)
(* Instances of the process table for TLC.                                 *)
(***************************************************************************)
EXTENDS ProcTable

Spec == Table!Spec
FairSpec == Table!FairSpec

-----------------------------------------------------------------------------
\* An orphan that exits is freed: see Procs (kernel/proc.c reparent()).
OrphansReaped == Table!OrphansReaped

\* A free slot is not marked as killed: see Procs (kernel/proc.c kill()).
FreeSlotNotKilled == Table!FreeSlotNotKilled
=============================================================================
