------------------------------- MODULE Inodes -------------------------------
(***************************************************************************)
(* The inode layer of kernel/fs.c: the inodes on disk, the table of inodes *)
(* in memory with its reference counts and sleep-locks, and iput(), which  *)
(* frees an inode on disk with the last reference.  The contents of files  *)
(* are left out (FileData models them), those of directories are not.      *)
(*                                                                         *)
(* Below is the disk that AtomicDisk promises: what is written between     *)
(* begin_op() and end_op() becomes stable when the last operation that is  *)
(* active ends.  A section under itable.lock or under a buffer's lock is   *)
(* one step.                                                               *)
(***************************************************************************)
EXTENDS Integers, Sequences, FiniteSets, FiniteSetsExt

CONSTANTS Proc,
          NINODES,  \* inodes on disk
          Name,     \* names in directories, besides "." and ".."
          None

ROOTINO == 1
Inum    == 1 .. NINODES
Slot    == 1 .. NINODES   \* of itable: one for each inode, so iget() finds one
Entry   == Name \cup {".", ".."}

VARIABLES
  disk,    \* inodes on disk as the buffer cache shows them
  stable,  \* inodes on disk as a reboot would find them
  active,  \* processes between begin_op() and end_op()
  slot,    \* itable.inode: inum, ref, valid, lock and the copies of type and nlink
  pc,      \* where each process is
  ip, dp,  \* locals of its system call: slots of itable, or 0
  put,     \* argument of iput()
  back     \* where iput() returns to

diskVars == <<disk, stable, active>>

NoEntries == [e \in Entry |-> 0]
Free      == [type |-> "none", nlink |-> 0, ents |-> NoEntries]
Unused    == [inum |-> 0, ref |-> 0, valid |-> 0, lock |-> None, type |-> "none", nlink |-> 0]

Goto(p, label) == pc' = [pc EXCEPT ![p] = label]

\* A call of iput(s) that continues at label.
Iput(p, s, label) ==
  /\ put' = [put EXCEPT ![p] = s]
  /\ back' = [back EXCEPT ![p] = label]
  /\ Goto(p, "iput")

-----------------------------------------------------------------------------
(* iget(), idup(), ilock(), iunlock() as functions of the table t          *)

SlotOf(t, i) ==
  IF \E s \in Slot : t[s].ref > 0 /\ t[s].inum = i
  THEN CHOOSE s \in Slot : t[s].ref > 0 /\ t[s].inum = i
  ELSE Min({s \in Slot : t[s].ref = 0})

\* Mutant: a new entry keeps the valid flag of the one it replaces.
Iget_Valid(t, i) ==
  LET s == SlotOf(t, i)
  IN  IF t[s].ref > 0
      THEN [t EXCEPT ![s].ref = @ + 1]
      ELSE [t EXCEPT ![s].inum = i, ![s].ref = 1]

Iget(t, i) ==
  LET s == SlotOf(t, i)
  IN  IF t[s].ref > 0
      THEN [t EXCEPT ![s].ref = @ + 1]
      ELSE [t EXCEPT ![s].inum = i, ![s].ref = 1, ![s].valid = 0]

Idup(t, s) == [t EXCEPT ![s].ref = @ + 1]

\* What ilock() leaves in the entry once it has the lock: read from the disk
\* unless it is valid.
Loaded(t, s) ==
  IF t[s].valid = 1 THEN t
  ELSE [t EXCEPT ![s].valid = 1, ![s].type = disk[t[s].inum].type, ![s].nlink = disk[t[s].inum].nlink]

\* ilock() gets the lock, and does not panic.
CanLock(s) ==
  /\ slot[s].lock = None
  /\ slot[s].valid = 1 \/ disk[slot[s].inum].type # "none"

Locked(t, s, p) == [Loaded(t, s) EXCEPT ![s].lock = p]

IlockPanics(s) == slot[s].lock = None /\ slot[s].valid = 0 /\ disk[slot[s].inum].type = "none"

Iunlock(t, s) == [t EXCEPT ![s].lock = None]

\* iupdate(): the copies of entry s of table t go to the disk d.
Iupdate(d, t, s) == [d EXCEPT ![t[s].inum].type = t[s].type, ![t[s].inum].nlink = t[s].nlink]

-----------------------------------------------------------------------------
(* iput()                                                                  *)

\* Mutant: an inode without links is freed while others refer to it.
LastPut_Early(s) == slot[s].valid = 1 /\ slot[s].nlink = 0 /\ slot[s].lock = None

\* Mutant: the same, though the lock may be held.
LastPut_Held(s) == slot[s].valid = 1 /\ slot[s].nlink = 0

LastPut(s) == slot[s].ref = 1 /\ slot[s].valid = 1 /\ slot[s].nlink = 0

\* ip->ref--.  Nobody reads the other fields of an entry without references.
Drop(p) ==
  /\ slot' = [slot EXCEPT ![put[p]] = IF @.ref = 1 THEN [Unused EXCEPT !.valid = slot[put[p]].valid]
                                                    ELSE [@ EXCEPT !.ref = @ - 1]]
  /\ put' = [put EXCEPT ![p] = 0]
  /\ back' = [back EXCEPT ![p] = "user"]
  /\ Goto(p, back[p])
  /\ UNCHANGED <<diskVars, ip, dp>>

IputDrop(p) == pc[p] = "iput" /\ ~LastPut(put[p]) /\ Drop(p)

\* acquiresleep() under the spin-lock itable.lock, which NoPanic allows.
IputLock(p) ==
  /\ pc[p] = "iput" /\ LastPut(put[p])
  /\ slot[put[p]].lock = None
  /\ slot' = [slot EXCEPT ![put[p]].lock = p]
  /\ Goto(p, "iput_free")
  /\ UNCHANGED <<diskVars, ip, dp, put, back>>

\* itrunc(), ip->type = 0, iupdate().
IputFree(p) ==
  /\ pc[p] = "iput_free"
  /\ disk' = [disk EXCEPT ![slot[put[p]].inum] = Free]
  /\ slot' = [slot EXCEPT ![put[p]].type = "none"]
  /\ Goto(p, "iput_unlock")
  /\ UNCHANGED <<stable, active, ip, dp, put, back>>

IputUnlock(p) ==
  /\ pc[p] = "iput_unlock"
  /\ slot' = [slot EXCEPT ![put[p]].valid = 0, ![put[p]].lock = None]
  /\ Goto(p, "iput_drop")
  /\ UNCHANGED <<diskVars, ip, dp, put, back>>

IputDone(p) == pc[p] = "iput_drop" /\ Drop(p)

IputStep(p) ==
  \/ IputDrop(p) \/ IputLock(p) \/ IputFree(p) \/ IputUnlock(p) \/ IputDone(p)

-----------------------------------------------------------------------------
(* ialloc() and the transaction                                            *)

FreeInums == {i \in Inum : disk[i].type = "none"}

\* The first free inode on disk gets type ty; the rest of it is zero.
Ialloc(i, ty) ==
  /\ FreeInums # {} /\ i = Min(FreeInums)
  /\ disk' = [disk EXCEPT ![i] = [Free EXCEPT !.type = ty]]

\* The end_op() of the last active operation commits.
EndOp(p) ==
  /\ active' = active \ {p}
  /\ stable' = IF active = {p} THEN disk ELSE stable
  /\ UNCHANGED disk
=============================================================================
