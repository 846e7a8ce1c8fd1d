----------------------------- MODULE ProcTable ------------------------------
(***************************************************************************)
(* Procs under names that let it stand beside the scheduler, with the      *)
(* properties that are checked and proved of it.                           *)
(***************************************************************************)
CONSTANTS Slots, MaxPid, KillPids

VARIABLES tstate, pid, parent, killed, nextpid, waitLock, tpc, np, oncpu

Table == INSTANCE Procs WITH NPROC <- Slots, state <- tstate, pc <- tpc

ASSUME TableAssumption == Table!ProcsConstants

\* Parents are alive and a process is freed off its stack: see Procs
\* (kernel/proc.c fork(), reparent(), wait()).
ProcsInv == Table!ProcsInv

\* Nobody sleeps in wait() next to a zombie child: see Procs (kernel/proc.c
\* exit()).
NoZombieMissed == Table!NoZombieMissed
=============================================================================
