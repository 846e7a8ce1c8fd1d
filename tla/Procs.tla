------------------------------- MODULE Procs --------------------------------
(***************************************************************************)
(* The life of a process in kernel/proc.c: allocproc, fork, exit, reparent,*)
(* wait, freeproc, kill, killed, and sys_getppid of kernel/sysproc.c.      *)
(*                                                                         *)
(* A process that is RUNNING executes one step at a time, on any of enough *)
(* CPUs.  wait_lock has an explicit holder.  p->lock outlives a step only  *)
(* in exit(), which keeps it until the thread is off its CPU: that is       *)
(* pc = "exit_sched".  sleep() and wakeup() are atomic here, as module     *)
(* SleepWakeup shows they look.  Init neither exits nor is killed.         *)
(***************************************************************************)
EXTENDS Integers, FiniteSets

CONSTANTS NPROC,   \* slots of the process table; the first one is initproc
          MaxPid,  \* bound: the last pid that is handed out
          KillPids \* arguments that user programs give to kill()

\* What the code takes for granted of its constants.
ProcsConstants ==
  /\ NPROC \in Nat \ {0} /\ MaxPid \in Nat \ {0}
  /\ KillPids \subseteq Nat /\ 1 \notin KillPids

Proc == 1 .. NPROC
Init1 == 1   \* initproc
Nobody == 0  \* a null struct proc *

VARIABLES
  state,     \* p->state
  pid,       \* p->pid
  parent,    \* p->parent
  killed,    \* p->killed
  nextpid,
  waitLock,  \* the process that holds wait_lock, or Nobody
  pc,        \* where the thread of the process is
  np,        \* local of fork(): the new process; of getppid(): the parent
  oncpu      \* 1 while the thread uses its kernel stack on a CPU

vars == <<state, pid, parent, killed, nextpid, waitLock, pc, np, oncpu>>

TypeOK ==
  /\ state \in [Proc -> {"UNUSED", "USED", "SLEEPING", "RUNNABLE", "RUNNING", "ZOMBIE"}]
  /\ pid \in [Proc -> Nat]
  /\ parent \in [Proc -> Proc \cup {Nobody}]
  /\ killed \in [Proc -> {0, 1}]
  /\ nextpid \in Nat
  /\ waitLock \in Proc \cup {Nobody}
  /\ pc \in [Proc -> {"user", "fork_link", "fork_ready", "exit_zombie", "exit_sched",
                      "wait_acquire", "wait_scan", "wait_sleep", "getppid"}]
  /\ np \in [Proc -> Proc \cup {Nobody}]
  /\ oncpu \in [Proc -> {0, 1}]

\* procinit() and userinit(): the first process is ready to run.
Init ==
  /\ state = [p \in Proc |-> IF p = Init1 THEN "RUNNABLE" ELSE "UNUSED"]
  /\ pid = [p \in Proc |-> IF p = Init1 THEN 1 ELSE 0]
  /\ parent = [p \in Proc |-> Nobody]
  /\ killed = [p \in Proc |-> 0]
  /\ nextpid = 2
  /\ waitLock = Nobody
  /\ pc = [p \in Proc |-> "user"]
  /\ np = [p \in Proc |-> Nobody]
  /\ oncpu = [p \in Proc |-> 0]

\* The thread of p is at a point of its code, and runs.
At(p, label) == state[p] = "RUNNING" /\ pc[p] = label

\* usertrap() lets a process into a system call unless it has been killed.
Enters(p) == At(p, "user") /\ killed[p] = 0

\* p->lock is free.
Unlocked(p) == pc[p] # "exit_sched"

Goto(p, label) == pc' = [pc EXCEPT ![p] = label]

\* scheduler(): switch to a process.
Dispatch(p) ==
  /\ state[p] = "RUNNABLE"
  /\ state' = [state EXCEPT ![p] = "RUNNING"]
  /\ oncpu' = [oncpu EXCEPT ![p] = 1]
  /\ UNCHANGED <<pid, parent, killed, nextpid, waitLock, pc, np>>

-----------------------------------------------------------------------------
(* fork()                                                                  *)

\* allocproc() and the copying, with np->lock held: any slot that the scan
\* may find UNUSED.  p->killed is not initialised.
ForkAlloc(p, q) ==
  /\ Enters(p)
  /\ nextpid <= MaxPid
  /\ state[q] = "UNUSED"
  /\ state' = [state EXCEPT ![q] = "USED"]
  /\ pid' = [pid EXCEPT ![q] = nextpid]
  /\ nextpid' = nextpid + 1
  /\ np' = [np EXCEPT ![p] = q]
  /\ Goto(p, "fork_link")
  /\ UNCHANGED <<parent, killed, waitLock, oncpu>>

\* kalloc() fails in allocproc() or in uvmcopy(): freeproc(np), return -1.
ForkNoMemory(p, q) ==
  /\ Enters(p)
  /\ nextpid <= MaxPid
  /\ state[q] = "UNUSED"
  /\ nextpid' = nextpid + 1
  /\ killed' = [killed EXCEPT ![q] = 0]
  /\ UNCHANGED <<state, pid, parent, waitLock, pc, np, oncpu>>

ForkLink(p) ==
  /\ At(p, "fork_link")
  /\ waitLock = Nobody
  /\ parent' = [parent EXCEPT ![np[p]] = p]
  /\ Goto(p, "fork_ready")
  /\ UNCHANGED <<state, pid, killed, nextpid, waitLock, np, oncpu>>

\* The child will start in user space.
ForkReady(p) ==
  /\ At(p, "fork_ready")
  /\ state' = [state EXCEPT ![np[p]] = "RUNNABLE"]
  /\ pc' = [pc EXCEPT ![p] = "user", ![np[p]] = "user"]
  /\ np' = [np EXCEPT ![p] = Nobody]
  /\ UNCHANGED <<pid, parent, killed, nextpid, waitLock, oncpu>>

-----------------------------------------------------------------------------
(* exit(), called by the process or by usertrap() when it was killed.      *)

\* States after wakeup(q) for every q in C: wait() sleeps on the process.
Wakeup(C) ==
  [p \in Proc |-> IF state[p] = "SLEEPING" /\ p \in C THEN "RUNNABLE" ELSE state[p]]

Children(p) == {q \in Proc : parent[q] = p}

\* Mutant: exit() does not call reparent().
Exit_NoReparent(p) ==
  /\ At(p, "user")
  /\ p # Init1
  /\ waitLock = Nobody
  /\ waitLock' = p
  /\ state' = Wakeup({parent[p]})
  /\ Goto(p, "exit_zombie")
  /\ UNCHANGED <<pid, parent, killed, nextpid, np, oncpu>>

\* Mutant: exit() does not wake the parent.
Exit_Silent(p) ==
  /\ At(p, "user")
  /\ p # Init1
  /\ waitLock = Nobody
  /\ waitLock' = p
  /\ parent' = [q \in Proc |-> IF parent[q] = p THEN Init1 ELSE parent[q]]
  /\ state' = Wakeup(IF Children(p) # {} THEN {Init1} ELSE {})
  /\ Goto(p, "exit_zombie")
  /\ UNCHANGED <<pid, killed, nextpid, np, oncpu>>

\* Mutant: reparent() does not wake init.
Exit_InitSleeps(p) ==
  /\ At(p, "user")
  /\ p # Init1
  /\ waitLock = Nobody
  /\ waitLock' = p
  /\ parent' = [q \in Proc |-> IF parent[q] = p THEN Init1 ELSE parent[q]]
  /\ state' = Wakeup({parent[p]})
  /\ Goto(p, "exit_zombie")
  /\ UNCHANGED <<pid, killed, nextpid, np, oncpu>>

\* acquire(&wait_lock); reparent(p); wakeup(p->parent).
Exit(p) ==
  /\ At(p, "user")
  /\ p # Init1
  /\ waitLock = Nobody
  /\ waitLock' = p
  /\ parent' = [q \in Proc |-> IF parent[q] = p THEN Init1 ELSE parent[q]]
  /\ state' = Wakeup({parent[p]} \cup (IF Children(p) # {} THEN {Init1} ELSE {}))
  /\ Goto(p, "exit_zombie")
  /\ UNCHANGED <<pid, killed, nextpid, np, oncpu>>

\* acquire(&p->lock); ZOMBIE; release(&wait_lock).
ExitZombie(p) ==
  /\ At(p, "exit_zombie")
  /\ state' = [state EXCEPT ![p] = "ZOMBIE"]
  /\ waitLock' = Nobody
  /\ Goto(p, "exit_sched")
  /\ UNCHANGED <<pid, parent, killed, nextpid, np, oncpu>>

\* sched(): off the CPU, then the scheduler releases p->lock.
ExitSched(p) ==
  /\ pc[p] = "exit_sched"
  /\ oncpu' = [oncpu EXCEPT ![p] = 0]
  /\ Goto(p, "user")
  /\ UNCHANGED <<state, pid, parent, killed, nextpid, waitLock, np>>

-----------------------------------------------------------------------------
(* wait()                                                                  *)

Wait(p) ==
  /\ Enters(p)
  /\ Goto(p, "wait_acquire")
  /\ UNCHANGED <<state, pid, parent, killed, nextpid, waitLock, np, oncpu>>

\* acquire(&wait_lock), on entry and in sleep() after a wakeup.
WaitAcquire(p) ==
  /\ At(p, "wait_acquire")
  /\ waitLock = Nobody
  /\ waitLock' = p
  /\ Goto(p, "wait_scan")
  /\ UNCHANGED <<state, pid, parent, killed, nextpid, np, oncpu>>

WaitReturn(p) ==
  /\ waitLock' = Nobody
  /\ Goto(p, "user")

Zombies(p) == {q \in Children(p) : state[q] = "ZOMBIE"}

\* Mutant: wait() does not take pp->lock.
ScansTo_Unlocked(p, q) == TRUE

\* acquire(&pp->lock) of every child up to and including q was possible.
ScansTo(p, q) == \A r \in Children(p) : r <= q => Unlocked(r)

\* The first zombie of the table is freed by freeproc().
WaitReap(p, q) ==
  /\ At(p, "wait_scan")
  /\ q \in Zombies(p)
  /\ \A r \in Zombies(p) : q <= r
  /\ ScansTo(p, q)
  /\ state' = [state EXCEPT ![q] = "UNUSED"]
  /\ pid' = [pid EXCEPT ![q] = 0]
  /\ parent' = [parent EXCEPT ![q] = Nobody]
  /\ killed' = [killed EXCEPT ![q] = 0]
  /\ WaitReturn(p)
  /\ UNCHANGED <<nextpid, np, oncpu>>

\* copyout() of the status fails and the zombie stays; init passes no address.
WaitFault(p) ==
  /\ At(p, "wait_scan")
  /\ p # Init1
  /\ \E q \in Zombies(p) : (\A r \in Zombies(p) : q <= r) /\ ScansTo(p, q)
  /\ WaitReturn(p)
  /\ UNCHANGED <<state, pid, parent, killed, nextpid, np, oncpu>>

\* No zombie, and no child or a kill: return -1.
WaitFail(p) ==
  /\ At(p, "wait_scan")
  /\ Zombies(p) = {}
  /\ Children(p) = {} \/ killed[p] = 1
  /\ WaitReturn(p)
  /\ UNCHANGED <<state, pid, parent, killed, nextpid, np, oncpu>>

\* No zombie, some child, not killed: decide to sleep ...
WaitDecide(p) ==
  /\ At(p, "wait_scan")
  /\ Zombies(p) = {}
  /\ Children(p) # {} /\ killed[p] = 0
  /\ Goto(p, "wait_sleep")
  /\ UNCHANGED <<state, pid, parent, killed, nextpid, waitLock, np, oncpu>>

\* ... and sleep(p, &wait_lock), which releases wait_lock.
WaitSleep(p) ==
  /\ At(p, "wait_sleep")
  /\ state' = [state EXCEPT ![p] = "SLEEPING"]
  /\ oncpu' = [oncpu EXCEPT ![p] = 0]
  /\ waitLock' = Nobody
  /\ Goto(p, "wait_acquire")
  /\ UNCHANGED <<pid, parent, killed, nextpid, np>>

-----------------------------------------------------------------------------
(* kill() and getppid()                                                    *)

\* The first slot with that pid; p->pid of a free slot is 0.
Kill(p, n) ==
  \E q \in Proc :
    /\ Enters(p)
    /\ pid[q] = n
    /\ \A r \in Proc : r < q => pid[r] # n
    /\ \A r \in Proc : r <= q => Unlocked(r)
    /\ killed' = [killed EXCEPT ![q] = 1]
    /\ state' = [state EXCEPT ![q] = IF @ = "SLEEPING" THEN "RUNNABLE" ELSE @]
    /\ UNCHANGED <<pid, parent, nextpid, waitLock, pc, np, oncpu>>

\* p->parent is read without wait_lock ...
GetppidParent(p) ==
  /\ Enters(p)
  /\ parent[p] # Nobody
  /\ np' = [np EXCEPT ![p] = parent[p]]
  /\ Goto(p, "getppid")
  /\ UNCHANGED <<state, pid, parent, killed, nextpid, waitLock, oncpu>>

\* ... and then parent->pid, the result.
GetppidPid(p) ==
  /\ At(p, "getppid")
  /\ Goto(p, "user")
  /\ np' = [np EXCEPT ![p] = Nobody]
  /\ UNCHANGED <<state, pid, parent, killed, nextpid, waitLock, oncpu>>

-----------------------------------------------------------------------------

ForkStep(p) ==
  \/ \E q \in Proc : ForkAlloc(p, q) \/ ForkNoMemory(p, q)
  \/ ForkLink(p) \/ ForkReady(p)

ExitStep(p) == Exit(p) \/ ExitZombie(p) \/ ExitSched(p)

WaitStep(p) ==
  \/ Wait(p) \/ WaitAcquire(p) \/ WaitFault(p) \/ WaitFail(p) \/ WaitDecide(p) \/ WaitSleep(p)
  \/ \E q \in Proc : WaitReap(p, q)

Next ==
  \E p \in Proc :
    \/ Dispatch(p) \/ ForkStep(p) \/ ExitStep(p) \/ WaitStep(p)
    \/ \E n \in KillPids : Kill(p, n)
    \/ GetppidParent(p) \/ GetppidPid(p)

Spec == Init /\ [][Next]_vars

\* The steps inside the kernel that wait for no lock.
KernelStep(p) ==
  \/ Dispatch(p) \/ ForkReady(p) \/ ExitZombie(p) \/ ExitSched(p) \/ GetppidPid(p)
  \/ WaitFault(p) \/ WaitFail(p) \/ WaitDecide(p) \/ WaitSleep(p)
  \/ \E q \in Proc : WaitReap(p, q)

\* A process inside the kernel goes on, and does not spin forever on
\* wait_lock; init calls wait() again and again (user/init.c).
FairSpec ==
  /\ Spec
  /\ \A p \in Proc : WF_vars(KernelStep(p)) /\ SF_vars(ForkLink(p) \/ WaitAcquire(p))
  /\ WF_vars(Wait(Init1))

-----------------------------------------------------------------------------
(* Properties.                                                             *)

Live(p) == state[p] \in {"SLEEPING", "RUNNABLE", "RUNNING"}

\* Every process but init has a parent that has not exited: exit() gives its
\* children away before it becomes a zombie, and fork() cannot add one later.
ParentIsAlive ==
  \A p \in Proc :
    /\ p # Init1 /\ (Live(p) \/ state[p] = "ZOMBIE") => parent[p] # Nobody
    /\ parent[p] # Nobody => state[p] # "UNUSED" /\ Live(parent[p])

\* A process that sleeps in wait() has no zombie child, so the exit() of a
\* child, or the reparenting of one, is never missed.
NoZombieMissed ==
  \A p \in Proc : state[p] = "SLEEPING" /\ waitLock = Nobody => Zombies(p) = {}

\* wait() frees a process only when its thread is off its kernel stack:
\* "make sure the child isn't still in exit() or swtch()".
FreedOffCpu ==
  \A p \in Proc : state[p] \in {"UNUSED", "USED"} => oncpu[p] = 0

\* The variables have their types, parents are alive, and a process is freed
\* off its stack (fork(), reparent(), wait()).
ProcsInv == TypeOK /\ ParentIsAlive /\ FreedOffCpu

\* A process that exits while orphaned is freed: init waits for it.
OrphansReaped ==
  \A p \in Proc :
    state[p] = "ZOMBIE" /\ parent[p] = Init1 ~> state[p] = "UNUSED"

\* kill() marks processes: a free slot, and so the process that gets it next,
\* is not marked.
FreeSlotNotKilled ==
  \A p \in Proc : state[p] = "UNUSED" => killed[p] = 0
=============================================================================
