----------------------------- MODULE AtomicDisk -----------------------------
(***************************************************************************)
(* What the logging layer of kernel/log.c promises to the file system: a   *)
(* disk on which a group of file system operations becomes durable in one  *)
(* step, and only when none of them is half done.  A crash takes the       *)
(* memory image back to the last group that became durable.                *)
(***************************************************************************)

CONSTANTS Proc,    \* processes that run file system calls
          Block,   \* home blocks of the file system
          Value    \* contents of a block

VARIABLES stable,    \* what a reboot would find on the disk
          volatile,  \* what a process reads through the buffer cache
          active     \* processes between begin_op() and end_op()

avars == <<stable, volatile, active>>

AInit ==
  /\ stable \in [Block -> Value]
  /\ volatile = stable
  /\ active = {}

Begin(p) ==
  /\ p \notin active
  /\ active' = active \cup {p}
  /\ UNCHANGED <<stable, volatile>>

Write(p, b, v) ==
  /\ p \in active
  /\ volatile' = [volatile EXCEPT ![b] = v]
  /\ UNCHANGED <<stable, active>>

End(p) ==
  /\ p \in active
  /\ active' = active \ {p}
  /\ UNCHANGED <<stable, volatile>>

\* Everything written so far becomes durable, at a moment when every
\* operation that wrote is complete.
Commit ==
  /\ active = {}
  /\ stable' = volatile
  /\ UNCHANGED <<volatile, active>>

Lose ==
  /\ volatile' = stable
  /\ active' = {}
  /\ UNCHANGED stable

ANext ==
  \/ \E p \in Proc : Begin(p) \/ End(p)
  \/ \E p \in Proc, b \in Block, v \in Value : Write(p, b, v)
  \/ Commit
  \/ Lose

ASpec == AInit /\ [][ANext]_avars
=============================================================================
