---------------------------- MODULE SleepWakeup -----------------------------
(***************************************************************************)
(* Scheduling in kernel/proc.c (scheduler, sched, yield, sleep, wakeup,    *)
(* forkret) over the spin-locks of kernel/spinlock.c, on several CPUs and  *)
(* with interrupts.                                                        *)
(*                                                                         *)
(* Processes run the pattern that every sleeping path of the kernel        *)
(* follows: take a condition lock, sleep while the condition is false, use *)
(* the condition, release.  A device interrupt, or clockintr(), makes the  *)
(* condition true and calls wakeup(); a timer interrupt calls yield(); a   *)
(* process may kill() another.  A critical section that takes and gives    *)
(* back one p->lock is one step; where a lock outlives a step its holder   *)
(* is explicit.  acquire() switches interrupts off before it spins, so     *)
(* push_off() is a step of its own wherever interrupts may be on.          *)
(***************************************************************************)
EXTENDS Integers, FiniteSets

CONSTANTS Cpu,       \* CPUs
          NPROC,     \* slots of the process table
          MaxItems,  \* device events that may be waiting to be consumed
          None       \* no CPU, no process, no handler

ASSUME SleepWakeupAssumption ==
  /\ NPROC \in Nat \ {0} /\ MaxItems \in Nat
  /\ None \notin Cpu \cup Nat \cup {"acquire", "wakeup"}

Proc == 1 .. NPROC

VARIABLES
  state,   \* p->state
  chan,    \* p->chan, TRUE when it is the channel of the condition
  plock,   \* holder of p->lock
  lk,      \* holder of the condition lock
  items,   \* the condition: events not yet consumed
  pc,      \* where the kernel thread of each process is
  ret,     \* where a yielding process was interrupted
  saved,   \* intena kept on the stack of sched()
  cur,     \* c->proc, the process whose thread CPU c executes, or None
  scan,    \* the slot that the scheduler loop of c looks at
  hand,    \* interrupt handler running on c
  idx,     \* the slot that the wakeup() of that handler looks at
  sie,     \* interrupts enabled on c
  noff,    \* c->noff
  intena   \* c->intena

procVars == <<state, chan, pc, ret, saved>>
cpuVars  == <<cur, scan>>
intrVars == <<hand, idx>>
offVars  == <<sie, noff, intena>>
lockVars == <<plock, lk>>
vars == <<state, chan, plock, lk, items, pc, ret, saved, cur, scan, hand, idx,
          sie, noff, intena>>

TypeOK ==
  /\ state \in [Proc -> {"RUNNABLE", "RUNNING", "SLEEPING"}]
  /\ chan \in [Proc -> BOOLEAN]
  /\ plock \in [Proc -> Cpu \cup {None}]
  /\ lk \in Cpu \cup {None}
  /\ items \in 0 .. MaxItems
  /\ pc \in [Proc -> {"fork_back", "run", "relock", "acquire", "test",
                      "sleep_release", "sleep_set", "sleep_sched", "sleep_back",
                      "yield_acquire", "yield_sched", "yield_back"}]
  /\ ret \in [Proc -> {"run", "relock"}]
  /\ saved \in [Proc -> {0, 1}]
  /\ cur \in [Cpu -> Proc \cup {None}]
  /\ scan \in [Cpu -> Proc]
  /\ hand \in [Cpu -> {None, "acquire", "wakeup"}]
  /\ idx \in [Cpu -> 1 .. NPROC + 1]
  /\ sie \in [Cpu -> {0, 1}]
  /\ noff \in [Cpu -> Nat]
  /\ intena \in [Cpu -> {0, 1}]

\* userinit() and fork() have made the processes RUNNABLE, with a context
\* that starts in forkret(); every CPU is in scheduler().
Init ==
  /\ state = [p \in Proc |-> "RUNNABLE"]
  /\ chan = [p \in Proc |-> FALSE]
  /\ plock = [p \in Proc |-> None]
  /\ lk = None
  /\ items = 0
  /\ pc = [p \in Proc |-> "fork_back"]
  /\ ret = [p \in Proc |-> "run"]
  /\ saved = [p \in Proc |-> 0]
  /\ cur = [c \in Cpu |-> None]
  /\ scan = [c \in Cpu |-> 1]
  /\ hand = [c \in Cpu |-> None]
  /\ idx = [c \in Cpu |-> 1]
  /\ sie = [c \in Cpu |-> 1]
  /\ noff = [c \in Cpu |-> 0]
  /\ intena = [c \in Cpu |-> 0]

-----------------------------------------------------------------------------
(* spinlock.c                                                              *)

PushOff(c) ==
  /\ intena' = [intena EXCEPT ![c] = IF noff[c] = 0 THEN sie[c] ELSE @]
  /\ noff' = [noff EXCEPT ![c] = @ + 1]
  /\ sie' = [sie EXCEPT ![c] = 0]

\* pop_off() when c->intena is ie.
PopOff(c, ie) ==
  /\ noff' = [noff EXCEPT ![c] = @ - 1]
  /\ intena' = [intena EXCEPT ![c] = ie]
  /\ sie' = [sie EXCEPT ![c] = IF noff[c] = 1 /\ ie = 1 THEN 1 ELSE @]

TakeLk(c)      == lk = None /\ lk' = c
TakeProc(c, p) == plock[p] = None /\ plock' = [plock EXCEPT ![p] = c]
ReleaseLk(c, ie)      == lk' = None /\ PopOff(c, ie)
ReleaseProc(c, p, ie) == plock' = [plock EXCEPT ![p] = None] /\ PopOff(c, ie)

-----------------------------------------------------------------------------
(* scheduler()                                                             *)

Scheduling(c) == cur[c] = None /\ hand[c] = None

NextSlot(p) == IF p = NPROC THEN 1 ELSE p + 1

\* acquire(&p->lock) of the loop switches interrupts off, then spins.
SchedulerPush(c) ==
  /\ Scheduling(c) /\ noff[c] = 0
  /\ PushOff(c)
  /\ UNCHANGED <<procVars, lockVars, items, cpuVars, intrVars>>

\* The slot is not RUNNABLE: its lock is given back.  Interrupts are enabled
\* when the loop over the table starts again.
SchedulerSkip(c) ==
  /\ Scheduling(c) /\ noff[c] = 1
  /\ plock[scan[c]] = None
  /\ state[scan[c]] # "RUNNABLE"
  /\ scan' = [scan EXCEPT ![c] = NextSlot(@)]
  /\ noff' = [noff EXCEPT ![c] = 0]
  /\ sie' = [sie EXCEPT ![c] = IF intena[c] = 1 \/ scan[c] = NPROC THEN 1 ELSE @]
  /\ UNCHANGED <<procVars, lockVars, items, cur, intrVars, intena>>

\* Mutant: p->lock is released before swtch().
SchedulerRun_Unlocked(c) ==
  LET p == scan[c]
  IN  /\ Scheduling(c) /\ noff[c] = 1
      /\ plock[p] = None
      /\ state[p] = "RUNNABLE"
      /\ state' = [state EXCEPT ![p] = "RUNNING"]
      /\ cur' = [cur EXCEPT ![c] = p]
      /\ PopOff(c, intena[c])
      /\ UNCHANGED <<chan, pc, ret, saved, lockVars, items, scan, intrVars>>

\* Mutant: the state is left RUNNABLE.
SchedulerRun_Runnable(c) ==
  LET p == scan[c]
  IN  /\ Scheduling(c) /\ noff[c] = 1
      /\ TakeProc(c, p)
      /\ state[p] = "RUNNABLE"
      /\ cur' = [cur EXCEPT ![c] = p]
      /\ UNCHANGED <<procVars, lk, items, scan, intrVars, offVars>>

\* The slot is RUNNABLE: swtch to its thread with p->lock held.
SchedulerRun(c) ==
  LET p == scan[c]
  IN  /\ Scheduling(c) /\ noff[c] = 1
      /\ TakeProc(c, p)
      /\ state[p] = "RUNNABLE"
      /\ state' = [state EXCEPT ![p] = "RUNNING"]
      /\ cur' = [cur EXCEPT ![c] = p]
      /\ UNCHANGED <<chan, pc, ret, saved, lk, items, scan, intrVars, offVars>>

\* Mutant: after a process has run the loop starts at the first slot again.
Sched_Restart(c, p, at) ==
  /\ saved' = [saved EXCEPT ![p] = intena[c]]
  /\ pc' = [pc EXCEPT ![p] = at]
  /\ cur' = [cur EXCEPT ![c] = None]
  /\ scan' = [scan EXCEPT ![c] = 1]
  /\ plock' = [plock EXCEPT ![p] = None]
  /\ noff' = [noff EXCEPT ![c] = @ - 1]
  /\ sie' = [sie EXCEPT ![c] = 1]
  /\ UNCHANGED intena

\* sched() on CPU c for process p, then the scheduler's c->proc = 0 and
\* release(&p->lock): intena stays behind on the stack of p.
Sched(c, p, at) ==
  /\ saved' = [saved EXCEPT ![p] = intena[c]]
  /\ pc' = [pc EXCEPT ![p] = at]
  /\ cur' = [cur EXCEPT ![c] = None]
  /\ scan' = [scan EXCEPT ![c] = NextSlot(@)]
  /\ plock' = [plock EXCEPT ![p] = None]
  /\ noff' = [noff EXCEPT ![c] = @ - 1]
  /\ sie' = [sie EXCEPT ![c] = IF intena[c] = 1 \/ scan[c] = NPROC THEN 1 ELSE @]
  /\ UNCHANGED intena

-----------------------------------------------------------------------------
(* The kernel thread of process p on CPU c.                                *)

Executes(c, p, at) == cur[c] = p /\ hand[c] = None /\ pc[p] = at

\* forkret() releases p->lock; usertrapret() goes to user mode, where
\* interrupts are enabled.
Forkret(c, p) ==
  /\ Executes(c, p, "fork_back")
  /\ plock' = [plock EXCEPT ![p] = None]
  /\ noff' = [noff EXCEPT ![c] = @ - 1]
  /\ sie' = [sie EXCEPT ![c] = 1]
  /\ pc' = [pc EXCEPT ![p] = "run"]
  /\ UNCHANGED <<state, chan, ret, saved, lk, items, cpuVars, intrVars, intena>>

\* acquire(&lk): push_off(), then the spinning.
AcquirePush(c, p) ==
  /\ Executes(c, p, "run") \/ Executes(c, p, "relock")
  /\ PushOff(c)
  /\ pc' = [pc EXCEPT ![p] = "acquire"]
  /\ UNCHANGED <<state, chan, ret, saved, lockVars, items, cpuVars, intrVars>>

Acquire(c, p) ==
  /\ Executes(c, p, "acquire")
  /\ TakeLk(c)
  /\ pc' = [pc EXCEPT ![p] = "test"]
  /\ UNCHANGED <<state, chan, ret, saved, plock, items, cpuVars, intrVars, offVars>>

Consume(c, p) ==
  /\ Executes(c, p, "test")
  /\ items > 0
  /\ items' = items - 1
  /\ ReleaseLk(c, intena[c])
  /\ pc' = [pc EXCEPT ![p] = "run"]
  /\ UNCHANGED <<state, chan, ret, saved, plock, cpuVars, intrVars>>

\* sleep(): acquire(&p->lock) comes first ...
SleepAcquire(c, p) ==
  /\ Executes(c, p, "test")
  /\ items = 0
  /\ TakeProc(c, p) /\ PushOff(c)
  /\ pc' = [pc EXCEPT ![p] = "sleep_release"]
  /\ UNCHANGED <<state, chan, ret, saved, lk, items, cpuVars, intrVars>>

\* ... then release(lk) ...
SleepRelease(c, p) ==
  /\ Executes(c, p, "sleep_release")
  /\ ReleaseLk(c, intena[c])
  /\ pc' = [pc EXCEPT ![p] = "sleep_set"]
  /\ UNCHANGED <<state, chan, ret, saved, plock, items, cpuVars, intrVars>>

\* ... then the process is SLEEPING on chan ...
SleepSet(c, p) ==
  /\ Executes(c, p, "sleep_set")
  /\ chan' = [chan EXCEPT ![p] = TRUE]
  /\ state' = [state EXCEPT ![p] = "SLEEPING"]
  /\ pc' = [pc EXCEPT ![p] = "sleep_sched"]
  /\ UNCHANGED <<ret, saved, lockVars, items, cpuVars, intrVars, offVars>>

\* ... and switches away.
SleepSched(c, p) ==
  /\ Executes(c, p, "sleep_sched")
  /\ Sched(c, p, "sleep_back")
  /\ UNCHANGED <<state, chan, ret, lk, items, intrVars>>

\* Mutant: sched() does not restore intena.
SleepBack_CpuIntena(c, p) ==
  /\ Executes(c, p, "sleep_back")
  /\ chan' = [chan EXCEPT ![p] = FALSE]
  /\ ReleaseProc(c, p, intena[c])
  /\ pc' = [pc EXCEPT ![p] = "relock"]
  /\ UNCHANGED <<state, ret, saved, lk, items, cpuVars, intrVars>>

\* sleep() after sched() returned, up to its acquire(lk).
SleepBack(c, p) ==
  /\ Executes(c, p, "sleep_back")
  /\ chan' = [chan EXCEPT ![p] = FALSE]
  /\ ReleaseProc(c, p, saved[p])
  /\ pc' = [pc EXCEPT ![p] = "relock"]
  /\ UNCHANGED <<state, ret, saved, lk, items, cpuVars, intrVars>>

\* kill(q), here from a process that holds no lock.
Kill(c, p, q) ==
  /\ Executes(c, p, "run")
  /\ plock[q] = None
  /\ state[q] = "SLEEPING"
  /\ state' = [state EXCEPT ![q] = "RUNNABLE"]
  /\ UNCHANGED <<chan, pc, ret, saved, lockVars, items, cpuVars, intrVars, offVars>>

\* A timer interrupt: the trap disables interrupts, kerneltrap() or
\* usertrap() calls yield().
Timer(c, p) ==
  /\ cur[c] = p /\ hand[c] = None /\ sie[c] = 1
  /\ state[p] = "RUNNING"
  /\ pc[p] \in {"run", "relock"}
  /\ ret' = [ret EXCEPT ![p] = pc[p]]
  /\ pc' = [pc EXCEPT ![p] = "yield_acquire"]
  /\ sie' = [sie EXCEPT ![c] = 0]
  /\ UNCHANGED <<state, chan, saved, lockVars, items, cpuVars, intrVars, noff, intena>>

YieldAcquire(c, p) ==
  /\ Executes(c, p, "yield_acquire")
  /\ TakeProc(c, p) /\ PushOff(c)
  /\ state' = [state EXCEPT ![p] = "RUNNABLE"]
  /\ pc' = [pc EXCEPT ![p] = "yield_sched"]
  /\ UNCHANGED <<chan, ret, saved, lk, items, cpuVars, intrVars>>

YieldSched(c, p) ==
  /\ Executes(c, p, "yield_sched")
  /\ Sched(c, p, "yield_back")
  /\ UNCHANGED <<state, chan, ret, lk, items, intrVars>>

\* The trap returns to the interrupted code and re-enables interrupts.
YieldBack(c, p) ==
  /\ Executes(c, p, "yield_back")
  /\ plock' = [plock EXCEPT ![p] = None]
  /\ noff' = [noff EXCEPT ![c] = @ - 1]
  /\ intena' = [intena EXCEPT ![c] = saved[p]]
  /\ sie' = [sie EXCEPT ![c] = 1]
  /\ pc' = [pc EXCEPT ![p] = ret[p]]
  /\ UNCHANGED <<state, chan, ret, saved, lk, items, cpuVars, intrVars>>

-----------------------------------------------------------------------------
(* A device interrupt on CPU c, on top of a process or of the scheduler.   *)

Interrupt(c) ==
  /\ sie[c] = 1 /\ hand[c] = None
  /\ items < MaxItems
  /\ hand' = [hand EXCEPT ![c] = "acquire"]
  /\ sie' = [sie EXCEPT ![c] = 0]
  /\ UNCHANGED <<procVars, lockVars, items, cpuVars, idx, noff, intena>>

HandlerAcquire(c) ==
  /\ hand[c] = "acquire"
  /\ TakeLk(c) /\ PushOff(c)
  /\ items' = IF items < MaxItems THEN items + 1 ELSE items
  /\ hand' = [hand EXCEPT ![c] = "wakeup"]
  /\ idx' = [idx EXCEPT ![c] = 1]
  /\ UNCHANGED <<procVars, plock, cpuVars>>

\* Mutant: wakeup() does not take p->lock.
Wakeup_Unlocked(c) ==
  LET p == idx[c]
  IN  /\ hand[c] = "wakeup"
      /\ p <= NPROC
      /\ state' = [state EXCEPT ![p] = IF p # cur[c] /\ @ = "SLEEPING" /\ chan[p]
                                       THEN "RUNNABLE" ELSE @]
      /\ idx' = [idx EXCEPT ![c] = p + 1]
      /\ UNCHANGED <<chan, pc, ret, saved, lockVars, items, cpuVars, hand, offVars>>

\* One iteration of wakeup(chan), which skips myproc().
Wakeup(c) ==
  LET p == idx[c]
  IN  /\ hand[c] = "wakeup"
      /\ p <= NPROC
      /\ p # cur[c] => plock[p] = None
      /\ state' = [state EXCEPT ![p] = IF p # cur[c] /\ @ = "SLEEPING" /\ chan[p]
                                       THEN "RUNNABLE" ELSE @]
      /\ idx' = [idx EXCEPT ![c] = p + 1]
      /\ UNCHANGED <<chan, pc, ret, saved, lockVars, items, cpuVars, hand, offVars>>

\* clockintr() returns to a trap handler that goes on to yield().
ClockReturn(c, p) ==
  /\ hand[c] = "wakeup"
  /\ idx[c] = NPROC + 1
  /\ cur[c] = p /\ state[p] = "RUNNING"
  /\ ReleaseLk(c, intena[c])
  /\ hand' = [hand EXCEPT ![c] = None]
  /\ ret' = [ret EXCEPT ![p] = pc[p]]
  /\ pc' = [pc EXCEPT ![p] = "yield_acquire"]
  /\ UNCHANGED <<state, chan, saved, plock, items, cpuVars, idx>>

\* release(&lk) and return from the trap.
HandlerReturn(c) ==
  /\ hand[c] = "wakeup"
  /\ idx[c] = NPROC + 1
  /\ lk' = None
  /\ noff' = [noff EXCEPT ![c] = @ - 1]
  /\ sie' = [sie EXCEPT ![c] = 1]
  /\ hand' = [hand EXCEPT ![c] = None]
  /\ UNCHANGED <<procVars, plock, items, cpuVars, idx, intena>>

-----------------------------------------------------------------------------

SchedulerStep(c) == SchedulerPush(c) \/ SchedulerSkip(c) \/ SchedulerRun(c)

HandlerStep(c) ==
  \/ HandlerAcquire(c) \/ Wakeup(c) \/ HandlerReturn(c)
  \/ \E p \in Proc : ClockReturn(c, p)

ThreadStep(c, p) ==
  \/ Forkret(c, p) \/ AcquirePush(c, p) \/ Acquire(c, p) \/ Consume(c, p)
  \/ SleepAcquire(c, p) \/ SleepRelease(c, p) \/ SleepSet(c, p)
  \/ SleepSched(c, p) \/ SleepBack(c, p)
  \/ YieldAcquire(c, p) \/ YieldSched(c, p) \/ YieldBack(c, p)

CpuStep(c) ==
  SchedulerStep(c) \/ HandlerStep(c) \/ \E p \in Proc : ThreadStep(c, p)

Next ==
  \E c \in Cpu :
    \/ SchedulerStep(c) \/ HandlerStep(c) \/ Interrupt(c)
    \/ \E p \in Proc : ThreadStep(c, p) \/ Timer(c, p) \/ \E q \in Proc : Kill(c, p, q)

Spec == Init /\ [][Next]_vars

\* A CPU that can execute an instruction does.  Timer interrupts keep coming
\* and stay pending until interrupts are enabled.
FairSpec ==
  /\ Spec
  /\ \A c \in Cpu : WF_vars(CpuStep(c)) /\ SF_vars(\E p \in Proc : Timer(c, p))

-----------------------------------------------------------------------------
(* Properties.                                                             *)

\* A kernel thread executes on at most one CPU: holding p->lock from the
\* change of p->state until swtch() is done keeps other schedulers away
\* from a stack that is still in use.
OneCpuPerThread ==
  \A c, d \in Cpu : cur[c] # None /\ cur[c] = cur[d] => c = d

\* Once the condition holds and its lock is free, nobody is asleep on it or
\* past the point of no return in sleep(): "we won't miss any wakeup".
NoLostWakeup ==
  items > 0 /\ lk = None =>
    \A p \in Proc : state[p] # "SLEEPING" /\ pc[p] \notin {"sleep_set", "sleep_sched"}

\* p->lock is handed over between a thread and the schedulers.  Wherever a
\* thread is about to release it, its current CPU is the recorded holder, so
\* that release() does not panic; and in sched() the thread holds no other
\* lock, has left the RUNNING state, and interrupts are off, so that none of
\* the panics of sched() happens.
LockHandedOver ==
  \A c \in Cpu, p \in Proc :
    /\ cur[c] = p /\ hand[c] = None
         /\ pc[p] \in {"fork_back", "sleep_release", "sleep_set", "sleep_sched",
                       "sleep_back", "yield_sched", "yield_back"}
         => plock[p] = c
    /\ cur[c] = p /\ pc[p] \in {"sleep_sched", "yield_sched"} =>
         noff[c] = 1 /\ state[p] # "RUNNING" /\ sie[c] = 0

\* push_off() and pop_off() count the locks that a CPU holds or spins on, and
\* while there is one no handler can run there and spin on it forever.  Yet
\* whether interrupts are enabled belongs to the thread: one that gave up a
\* CPU with interrupts enabled gets them back enabled, on whatever CPU and
\* through sleep() and yield().
InterruptDiscipline ==
  \A c \in Cpu :
    LET held == Cardinality({p \in Proc : plock[p] = c}) + (IF lk = c THEN 1 ELSE 0)
    IN  /\ noff[c] \in {held, held + 1}
        /\ noff[c] > 0 => sie[c] = 0
        /\ \A p \in Proc :
             cur[c] = p /\ hand[c] = None /\ pc[p] \in {"run", "relock"} => sie[c] = 1

\* The variables have their types, a thread is on one CPU, p->lock is handed
\* over and interrupts follow the thread (scheduler(), sched(), push_off()).
SchedInv == TypeOK /\ OneCpuPerThread /\ LockHandedOver /\ InterruptDiscipline

\* The scheduler loop reaches every process that is ready to run.
RunnableRuns ==
  \A p \in Proc : state[p] = "RUNNABLE" ~> state[p] = "RUNNING"
=============================================================================
