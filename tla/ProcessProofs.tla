---------------------------- MODULE ProcessProofs ---------------------------
(***************************************************************************)
(* Proofs about processes: scheduling (SleepWakeup) for every number of    *)
(* CPUs and processes, and the process table (Table of ProcTable), for     *)
(* every size of the table, every number of forks and every use of        *)
(* kill().                                                                 *)
(***************************************************************************)
EXTENDS SleepWakeup, ProcTable, FiniteSetTheorems, TLAPS

-----------------------------------------------------------------------------
(* Scheduling.                                                             *)

\* Where a thread has p->lock or got it from the scheduler, where it has the
\* condition lock, where interrupts are enabled, and where a thread may be
\* while no CPU executes it.
HasPlock == {"fork_back", "sleep_release", "sleep_set", "sleep_sched", "sleep_back",
             "yield_sched", "yield_back"}
HasLk    == {"test", "sleep_release"}
Open     == {"run", "relock"}
Away     == {"fork_back", "sleep_back", "yield_back"}

\* The locks are held by the CPUs whose threads and handlers say so.
LockInv ==
  /\ OneCpuPerThread
  /\ \A p \in Proc : plock[p] # None => cur[plock[p]] = p /\ pc[p] \in HasPlock
  /\ \A c \in Cpu : cur[c] # None /\ pc[cur[c]] \in HasPlock => plock[cur[c]] = c
  /\ lk # None => hand[lk] = "wakeup" \/ (cur[lk] # None /\ pc[cur[lk]] \in HasLk)
  /\ \A c \in Cpu : hand[c] = "wakeup" \/ (cur[c] # None /\ pc[cur[c]] \in HasLk) => lk = c

\* What c->noff, c->intena and the interrupt flag are in a handler, in the
\* scheduler and at each point of a thread.
CountInv ==
  \A c \in Cpu :
    /\ hand[c] = "acquire" => noff[c] = 0 /\ sie[c] = 0
    /\ hand[c] = "wakeup" => noff[c] = 1 /\ sie[c] = 0 /\ intena[c] = 0
    /\ hand[c] = None /\ cur[c] = None => noff[c] = 0 \/ (noff[c] = 1 /\ sie[c] = 0)
    /\ hand[c] # None /\ cur[c] # None => pc[cur[c]] \in Open
    /\ hand[c] = None /\ cur[c] # None =>
         LET at == pc[cur[c]]
         IN  /\ noff[c] = IF at \in Open \cup {"yield_acquire"} THEN 0
                          ELSE IF at = "sleep_release" THEN 2 ELSE 1
             /\ sie[c] = IF at \in Open THEN 1 ELSE 0
             /\ at \in {"acquire", "test", "sleep_release", "sleep_set", "sleep_sched"} =>
                  intena[c] = 1

\* What p->state is while a CPU executes the thread and while none does.
StateInv ==
  /\ \A c \in Cpu : cur[c] # None =>
       state[cur[c]] = CASE pc[cur[c]] = "sleep_sched" -> "SLEEPING"
                         [] pc[cur[c]] = "yield_sched" -> "RUNNABLE"
                         [] OTHER -> "RUNNING"
  /\ \A p \in Proc : (\A c \in Cpu : cur[c] # p) => state[p] # "RUNNING" /\ pc[p] \in Away
  /\ \A p \in Proc : state[p] = "SLEEPING" =>
       chan[p] = TRUE /\ pc[p] \in {"sleep_sched", "sleep_back"}
  /\ \A p \in Proc : pc[p] = "sleep_back" => saved[p] = 1

\* Whoever sleeps, or has released the condition lock in order to, is safe: the
\* condition is false, or a wakeup() is under way that has yet to reach it.
WakeInv ==
  \A p \in Proc :
    /\ pc[p] = "sleep_release" => items = 0
    /\ state[p] = "SLEEPING" \/ pc[p] \in {"sleep_set", "sleep_sched"} =>
         items = 0 \/ (lk # None /\ hand[lk] = "wakeup" /\ idx[lk] <= p)

\* The inductive invariant.
HandoverInv == TypeOK /\ LockInv /\ CountInv /\ StateInv /\ WakeInv

-----------------------------------------------------------------------------
(* Each step of the code keeps the invariant.                              *)

\* None is no CPU, no process and no handler.
LEMMA NoneApart == None \notin Cpu /\ None \notin Proc /\ None # "acquire" /\ None # "wakeup"
BY SleepWakeupAssumption DEF Proc

\* The scheduler switches interrupts off.
LEMMA SchedulerPushKeeps ==
  ASSUME HandoverInv, NEW c \in Cpu, SchedulerPush(c)
  PROVE  HandoverInv'
<1> USE NoneApart DEF HandoverInv, SchedulerPush, PushOff, Scheduling, procVars, cpuVars,
        intrVars, lockVars
<1>1. TypeOK'
  BY DEF TypeOK
<1>2. LockInv'
  BY DEF TypeOK, LockInv, OneCpuPerThread
<1>3. CountInv'
  BY DEF TypeOK, CountInv
<1>4. StateInv'
  BY DEF TypeOK, StateInv
<1>5. WakeInv'
  BY DEF TypeOK, WakeInv
<1> QED BY <1>1, <1>2, <1>3, <1>4, <1>5

\* The scheduler passes a slot.
LEMMA SchedulerSkipKeeps ==
  ASSUME HandoverInv, NEW c \in Cpu, SchedulerSkip(c)
  PROVE  HandoverInv'
<1> USE NoneApart DEF HandoverInv, SchedulerSkip, Scheduling, NextSlot, procVars, intrVars,
        lockVars
<1>1. TypeOK'
  BY SleepWakeupAssumption DEF TypeOK, Proc
<1>2. LockInv'
  BY DEF TypeOK, LockInv, OneCpuPerThread
<1>3. CountInv'
  BY DEF TypeOK, CountInv
<1>4. StateInv'
  BY DEF TypeOK, StateInv
<1>5. WakeInv'
  BY DEF TypeOK, WakeInv
<1> QED BY <1>1, <1>2, <1>3, <1>4, <1>5

\* The scheduler takes the lock of a ready process, which no CPU executes.
LEMMA SchedulerRunKeeps ==
  ASSUME HandoverInv, NEW c \in Cpu, SchedulerRun(c)
  PROVE  HandoverInv'
<1> USE NoneApart DEF HandoverInv, SchedulerRun, Scheduling, TakeProc, intrVars, offVars
<1>1. TypeOK'
  BY DEF TypeOK
<1>2. LockInv'
  BY DEF TypeOK, LockInv, OneCpuPerThread, StateInv, HasPlock, HasLk, Away
<1>3. CountInv'
  BY DEF TypeOK, CountInv, StateInv, Open, Away
<1>4. StateInv'
  BY DEF TypeOK, LockInv, StateInv, HasPlock, Away
<1>5. WakeInv'
  BY DEF TypeOK, WakeInv
<1> QED BY <1>1, <1>2, <1>3, <1>4, <1>5

\* A new process starts.
LEMMA ForkretKeeps ==
  ASSUME HandoverInv, NEW c \in Cpu, NEW p \in Proc, Forkret(c, p)
  PROVE  HandoverInv'
<1> USE NoneApart DEF HandoverInv, Forkret, Executes, cpuVars, intrVars
<1>1. p # None /\ \A d \in Cpu : cur[d] = p => d = c
  BY DEF TypeOK, LockInv, OneCpuPerThread
<1>2. noff[c] = 1 /\ sie[c] = 0
  BY DEF CountInv, Open
<1>3. TypeOK'
  BY <1>2 DEF TypeOK
<1>4. LockInv'
  BY DEF TypeOK, LockInv, OneCpuPerThread, HasPlock, HasLk
<1>5. CountInv'
  BY <1>1 DEF TypeOK, CountInv, Open
<1>6. StateInv'
  BY DEF StateInv
<1>7. WakeInv'
  BY DEF WakeInv
<1> QED BY <1>3, <1>4, <1>5, <1>6, <1>7

\* A process wants the condition lock.
LEMMA AcquirePushKeeps ==
  ASSUME HandoverInv, NEW c \in Cpu, NEW p \in Proc, AcquirePush(c, p)
  PROVE  HandoverInv'
<1> USE NoneApart DEF HandoverInv, AcquirePush, Executes, PushOff, cpuVars, intrVars, lockVars
<1>1. p # None /\ \A d \in Cpu : cur[d] = p => d = c
  BY DEF TypeOK, LockInv, OneCpuPerThread
<1>2. TypeOK'
  BY DEF TypeOK
<1>3. LockInv'
  BY DEF LockInv, OneCpuPerThread, HasPlock, HasLk
<1>4. CountInv'
  BY <1>1 DEF TypeOK, CountInv, Open
<1>5. StateInv'
  BY DEF StateInv
<1>6. WakeInv'
  BY DEF WakeInv
<1> QED BY <1>2, <1>3, <1>4, <1>5, <1>6

\* A process gets the condition lock.
LEMMA AcquireKeeps ==
  ASSUME HandoverInv, NEW c \in Cpu, NEW p \in Proc, Acquire(c, p)
  PROVE  HandoverInv'
<1> USE NoneApart DEF HandoverInv, Acquire, Executes, TakeLk, cpuVars, intrVars, offVars
<1>1. TypeOK'
  BY DEF TypeOK
<1>2. LockInv'
  BY DEF TypeOK, LockInv, OneCpuPerThread, HasPlock, HasLk
<1>3. CountInv'
  BY DEF CountInv, Open
<1>4. StateInv'
  BY DEF StateInv
<1>5. WakeInv'
  BY DEF WakeInv
<1> QED BY <1>1, <1>2, <1>3, <1>4, <1>5

\* A process uses the condition.
LEMMA ConsumeKeeps ==
  ASSUME HandoverInv, NEW c \in Cpu, NEW p \in Proc, Consume(c, p)
  PROVE  HandoverInv'
<1> USE NoneApart DEF HandoverInv, Consume, Executes, ReleaseLk, PopOff, cpuVars, intrVars
<1>1. p # None /\ \A d \in Cpu : cur[d] = p => d = c
  BY DEF TypeOK, LockInv, OneCpuPerThread
<1>2. noff[c] = 1 /\ sie[c] = 0 /\ intena[c] = 1
  BY DEF CountInv, Open
<1>3. TypeOK'
  BY <1>2, SleepWakeupAssumption DEF TypeOK
<1>4. LockInv'
  BY DEF TypeOK, LockInv, OneCpuPerThread, HasPlock, HasLk
<1>5. CountInv'
  BY <1>1 DEF TypeOK, CountInv, Open
<1>6. StateInv'
  BY DEF StateInv
<1>7. WakeInv'
  BY DEF LockInv, HasLk, WakeInv
<1> QED BY <1>3, <1>4, <1>5, <1>6, <1>7

\* sleep() takes p->lock while it holds the condition lock.
LEMMA SleepAcquireKeeps ==
  ASSUME HandoverInv, NEW c \in Cpu, NEW p \in Proc, SleepAcquire(c, p)
  PROVE  HandoverInv'
<1> USE NoneApart DEF HandoverInv, SleepAcquire, Executes, TakeProc, PushOff, cpuVars, intrVars
<1>1. p # None /\ \A d \in Cpu : cur[d] = p => d = c
  BY DEF TypeOK, LockInv, OneCpuPerThread
<1>2. TypeOK'
  BY DEF TypeOK
<1>3. LockInv'
  BY DEF TypeOK, LockInv, OneCpuPerThread, HasPlock, HasLk
<1>4. CountInv'
  BY <1>1 DEF TypeOK, CountInv, Open
<1>5. StateInv'
  BY DEF StateInv
<1>6. WakeInv'
  BY DEF WakeInv
<1> QED BY <1>2, <1>3, <1>4, <1>5, <1>6

\* sleep() releases the condition lock.
LEMMA SleepReleaseKeeps ==
  ASSUME HandoverInv, NEW c \in Cpu, NEW p \in Proc, SleepRelease(c, p)
  PROVE  HandoverInv'
<1> USE NoneApart DEF HandoverInv, SleepRelease, Executes, ReleaseLk, PopOff, cpuVars, intrVars
<1>1. p # None /\ \A d \in Cpu : cur[d] = p => d = c
  BY DEF TypeOK, LockInv, OneCpuPerThread
<1>2. noff[c] = 2 /\ sie[c] = 0 /\ intena[c] = 1
  BY DEF CountInv, Open
<1>3. TypeOK'
  BY <1>2 DEF TypeOK
<1>4. LockInv'
  BY DEF TypeOK, LockInv, OneCpuPerThread, HasPlock, HasLk
<1>5. CountInv'
  BY <1>1 DEF TypeOK, CountInv, Open
<1>6. StateInv'
  BY DEF StateInv
<1>7. WakeInv'
  BY DEF WakeInv
<1> QED BY <1>3, <1>4, <1>5, <1>6, <1>7

\* sleep() changes the state.
LEMMA SleepSetKeeps ==
  ASSUME HandoverInv, NEW c \in Cpu, NEW p \in Proc, SleepSet(c, p)
  PROVE  HandoverInv'
<1> USE NoneApart DEF HandoverInv, SleepSet, Executes, cpuVars, intrVars, offVars, lockVars
<1>1. TypeOK'
  BY DEF TypeOK
<1>2. LockInv'
  BY DEF LockInv, OneCpuPerThread, HasPlock, HasLk
<1>3. CountInv'
  BY DEF CountInv, Open
<1>4. StateInv'
  BY DEF TypeOK, StateInv
<1>5. WakeInv'
  BY DEF WakeInv
<1> QED BY <1>1, <1>2, <1>3, <1>4, <1>5

\* sleep() gives the CPU to the scheduler.
LEMMA SleepSchedKeeps ==
  ASSUME HandoverInv, NEW c \in Cpu, NEW p \in Proc, SleepSched(c, p)
  PROVE  HandoverInv'
<1> USE NoneApart DEF HandoverInv, SleepSched, Executes, Sched, NextSlot, intrVars
<1>1. p # None /\ \A d \in Cpu : cur[d] = p => d = c
  BY DEF TypeOK, LockInv, OneCpuPerThread
<1>2. noff[c] = 1 /\ sie[c] = 0 /\ intena[c] = 1
  BY DEF CountInv, Open
<1>3. TypeOK'
  BY <1>2, SleepWakeupAssumption DEF TypeOK, Proc
<1>4. LockInv'
  BY DEF TypeOK, LockInv, OneCpuPerThread, HasLk
<1>5. CountInv'
  BY <1>1, <1>2 DEF TypeOK, CountInv
<1>6. StateInv'
  BY <1>1, <1>2 DEF TypeOK, StateInv, Away
<1>7. WakeInv'
  BY DEF WakeInv
<1> QED BY <1>3, <1>4, <1>5, <1>6, <1>7

\* sleep() goes on, perhaps on another CPU.
LEMMA SleepBackKeeps ==
  ASSUME HandoverInv, NEW c \in Cpu, NEW p \in Proc, SleepBack(c, p)
  PROVE  HandoverInv'
<1> USE NoneApart DEF HandoverInv, SleepBack, Executes, ReleaseProc, PopOff, cpuVars, intrVars
<1>1. p # None /\ \A d \in Cpu : cur[d] = p => d = c
  BY DEF TypeOK, LockInv, OneCpuPerThread
<1>2. noff[c] = 1 /\ sie[c] = 0
  BY DEF CountInv, Open
<1>3. TypeOK'
  BY <1>2 DEF TypeOK
<1>4. LockInv'
  BY DEF TypeOK, LockInv, OneCpuPerThread, HasPlock, HasLk
<1>5. CountInv'
  BY <1>1 DEF TypeOK, CountInv, StateInv, Open
<1>6. StateInv'
  BY DEF StateInv
<1>7. WakeInv'
  BY DEF WakeInv
<1> QED BY <1>3, <1>4, <1>5, <1>6, <1>7

\* kill() wakes a process.
LEMMA KillKeeps ==
  ASSUME HandoverInv, NEW c \in Cpu, NEW p \in Proc, NEW q \in Proc, Kill(c, p, q)
  PROVE  HandoverInv'
<1> USE NoneApart DEF HandoverInv, Kill, Executes, cpuVars, intrVars, offVars, lockVars
<1>1. TypeOK'
  BY DEF TypeOK
<1>2. LockInv'
  BY DEF LockInv, OneCpuPerThread
<1>3. CountInv'
  BY DEF CountInv
<1>4. StateInv'
  BY DEF LockInv, StateInv, HasPlock
<1>5. WakeInv'
  BY DEF WakeInv
<1> QED BY <1>1, <1>2, <1>3, <1>4, <1>5

\* A timer interrupt.
LEMMA TimerKeeps ==
  ASSUME HandoverInv, NEW c \in Cpu, NEW p \in Proc, Timer(c, p)
  PROVE  HandoverInv'
<1> USE NoneApart DEF HandoverInv, Timer, cpuVars, intrVars, lockVars
<1>1. p # None /\ \A d \in Cpu : cur[d] = p => d = c
  BY DEF TypeOK, LockInv, OneCpuPerThread
<1>2. TypeOK'
  BY DEF TypeOK
<1>3. LockInv'
  BY DEF LockInv, OneCpuPerThread, HasPlock, HasLk
<1>4. CountInv'
  BY <1>1 DEF TypeOK, CountInv, Open
<1>5. StateInv'
  BY DEF StateInv
<1>6. WakeInv'
  BY DEF WakeInv
<1> QED BY <1>2, <1>3, <1>4, <1>5, <1>6

\* yield() takes p->lock.
LEMMA YieldAcquireKeeps ==
  ASSUME HandoverInv, NEW c \in Cpu, NEW p \in Proc, YieldAcquire(c, p)
  PROVE  HandoverInv'
<1> USE NoneApart DEF HandoverInv, YieldAcquire, Executes, TakeProc, PushOff, cpuVars, intrVars
<1>1. p # None /\ \A d \in Cpu : cur[d] = p => d = c
  BY DEF TypeOK, LockInv, OneCpuPerThread
<1>2. TypeOK'
  BY DEF TypeOK
<1>3. LockInv'
  BY DEF TypeOK, LockInv, OneCpuPerThread, HasPlock, HasLk
<1>4. CountInv'
  BY <1>1 DEF TypeOK, CountInv, Open
<1>5. StateInv'
  BY DEF TypeOK, StateInv
<1>6. WakeInv'
  BY DEF WakeInv
<1> QED BY <1>2, <1>3, <1>4, <1>5, <1>6

\* yield() gives the CPU to the scheduler.
LEMMA YieldSchedKeeps ==
  ASSUME HandoverInv, NEW c \in Cpu, NEW p \in Proc, YieldSched(c, p)
  PROVE  HandoverInv'
<1> USE NoneApart DEF HandoverInv, YieldSched, Executes, Sched, NextSlot, intrVars, lockVars
<1>1. p # None /\ \A d \in Cpu : cur[d] = p => d = c
  BY DEF TypeOK, LockInv, OneCpuPerThread
<1>2. noff[c] = 1 /\ sie[c] = 0
  BY DEF CountInv, Open
<1>3. TypeOK'
  BY <1>2, SleepWakeupAssumption DEF TypeOK, Proc
<1>4. LockInv'
  BY DEF TypeOK, LockInv, OneCpuPerThread, HasLk
<1>5. CountInv'
  BY <1>1, <1>2 DEF TypeOK, CountInv
<1>6. StateInv'
  BY <1>1 DEF TypeOK, StateInv, Away
<1>7. WakeInv'
  BY DEF WakeInv
<1> QED BY <1>3, <1>4, <1>5, <1>6, <1>7

\* yield() goes on, perhaps on another CPU.
LEMMA YieldBackKeeps ==
  ASSUME HandoverInv, NEW c \in Cpu, NEW p \in Proc, YieldBack(c, p)
  PROVE  HandoverInv'
<1> USE NoneApart DEF HandoverInv, YieldBack, Executes, cpuVars, intrVars
<1>1. p # None /\ \A d \in Cpu : cur[d] = p => d = c
  BY DEF TypeOK, LockInv, OneCpuPerThread
<1>2. noff[c] = 1 /\ sie[c] = 0
  BY DEF CountInv, Open
<1>3. TypeOK'
  BY <1>2 DEF TypeOK
<1>4. LockInv'
  BY <1>1 DEF TypeOK, LockInv, OneCpuPerThread, HasPlock, HasLk, Open
<1>5. CountInv'
  BY <1>1 DEF TypeOK, CountInv, Open
<1>6. StateInv'
  BY DEF TypeOK, StateInv
<1>7. WakeInv'
  BY DEF TypeOK, WakeInv
<1> QED BY <1>3, <1>4, <1>5, <1>6, <1>7

\* A device interrupt is taken.
LEMMA InterruptKeeps ==
  ASSUME HandoverInv, NEW c \in Cpu, Interrupt(c)
  PROVE  HandoverInv'
<1> USE NoneApart DEF HandoverInv, Interrupt, procVars, cpuVars, lockVars
<1>1. TypeOK'
  BY DEF TypeOK
<1>2. LockInv'
  BY DEF TypeOK, LockInv, OneCpuPerThread
<1>3. CountInv'
  BY DEF TypeOK, CountInv
<1>4. StateInv'
  BY DEF TypeOK, StateInv
<1>5. WakeInv'
  BY DEF TypeOK, WakeInv
<1> QED BY <1>1, <1>2, <1>3, <1>4, <1>5

\* The handler takes the condition lock and makes the condition true.
LEMMA HandlerAcquireKeeps ==
  ASSUME HandoverInv, NEW c \in Cpu, HandlerAcquire(c)
  PROVE  HandoverInv'
<1> USE NoneApart DEF HandoverInv, HandlerAcquire, TakeLk, PushOff, procVars, cpuVars
<1>1. TypeOK'
  BY SleepWakeupAssumption DEF TypeOK
<1>2. LockInv'
  BY DEF TypeOK, LockInv, OneCpuPerThread
<1>3. CountInv'
  BY DEF TypeOK, CountInv
<1>4. StateInv'
  BY DEF TypeOK, StateInv
<1>5. WakeInv'
  <2> SUFFICES ASSUME NEW p \in Proc
             PROVE  /\ pc'[p] # "sleep_release"
                    /\ lk' = c /\ hand'[c] = "wakeup" /\ idx'[c] <= p
    BY DEF TypeOK, WakeInv
  <2>1. pc[p] # "sleep_release"
    BY DEF TypeOK, LockInv, StateInv, HasLk, Away
  <2>2. 1 <= p
    BY DEF Proc
  <2> QED BY <2>1, <2>2 DEF TypeOK
<1> QED BY <1>1, <1>2, <1>3, <1>4, <1>5

\* One turn of wakeup().
LEMMA WakeupKeeps ==
  ASSUME HandoverInv, NEW c \in Cpu, Wakeup(c)
  PROVE  HandoverInv'
<1> USE NoneApart DEF HandoverInv, Wakeup, procVars, cpuVars, offVars, lockVars
<1>1. TypeOK'
  BY SleepWakeupAssumption DEF TypeOK, Open, Proc
<1>2. LockInv'
  BY DEF TypeOK, LockInv, OneCpuPerThread
<1>3. CountInv'
  BY DEF TypeOK, CountInv
<1>4. StateInv'
  BY DEF TypeOK, LockInv, StateInv, HasPlock
<1>5. WakeInv'
  <2> SUFFICES ASSUME NEW p \in Proc
             PROVE  /\ pc'[p] = "sleep_release" => items' = 0
                    /\ state'[p] = "SLEEPING" \/ pc'[p] \in {"sleep_set", "sleep_sched"} =>
                         items' = 0 \/ (lk' # None /\ hand'[lk'] = "wakeup" /\ idx'[lk'] <= p)
    BY DEF WakeInv
  <2>1. lk = c /\ lk' = c /\ hand'[c] = "wakeup" /\ c # None
    BY DEF LockInv
  <2>2. state'[p] = "SLEEPING" => state[p] = "SLEEPING"
    OBVIOUS
  <2>3. ASSUME state'[p] = "SLEEPING" \/ pc[p] \in {"sleep_set", "sleep_sched"}
        PROVE  idx[c] # p
    <3> SUFFICES ASSUME idx[c] = p PROVE FALSE
      OBVIOUS
    <3>1. pc[p] \in {"sleep_set", "sleep_sched", "sleep_back"}
      BY <2>3 DEF StateInv
    <3>2. cur[c] # p
      BY <3>1 DEF CountInv, Open
    <3>3. plock[p] = None /\ ~ (state[p] = "SLEEPING" /\ chan[p])
      BY <2>3, <3>2 DEF TypeOK, LockInv, StateInv, HasPlock, Away
    <3> QED BY <2>3, <3>3 DEF LockInv, StateInv, HasPlock, Away
  <2>4. idx[c] \in Nat /\ idx'[c] = idx[c] + 1 /\ p \in Nat
    BY DEF TypeOK, Proc
  <2>5. idx[c] <= p /\ idx[c] # p => idx[c] + 1 <= p
    BY <2>4
  <2> QED BY <2>3, <2>5 DEF WakeInv
<1> QED BY <1>1, <1>2, <1>3, <1>4, <1>5

\* clockintr() returns into yield().
LEMMA ClockReturnKeeps ==
  ASSUME HandoverInv, NEW c \in Cpu, NEW p \in Proc, ClockReturn(c, p)
  PROVE  HandoverInv'
<1> USE NoneApart DEF HandoverInv, ClockReturn, ReleaseLk, PopOff, cpuVars
<1>1. p # None /\ \A d \in Cpu : cur[d] = p => d = c
  BY DEF TypeOK, LockInv, OneCpuPerThread
<1>2. noff[c] = 1 /\ sie[c] = 0 /\ intena[c] = 0 /\ pc[p] \in Open
  BY DEF CountInv
<1>3. TypeOK'
  BY <1>2 DEF TypeOK, Open
<1>4. LockInv'
  BY <1>2 DEF TypeOK, LockInv, OneCpuPerThread, HasPlock, HasLk, Open
<1>5. CountInv'
  BY <1>1 DEF TypeOK, CountInv, Open
<1>6. StateInv'
  BY DEF StateInv
<1>7. WakeInv'
  BY SleepWakeupAssumption DEF LockInv, WakeInv, Proc
<1> QED BY <1>3, <1>4, <1>5, <1>6, <1>7

\* The handler returns.
LEMMA HandlerReturnKeeps ==
  ASSUME HandoverInv, NEW c \in Cpu, HandlerReturn(c)
  PROVE  HandoverInv'
<1> USE NoneApart DEF HandoverInv, HandlerReturn, procVars, cpuVars
<1>1. TypeOK'
  BY DEF TypeOK, CountInv
<1>2. LockInv'
  BY DEF TypeOK, LockInv, OneCpuPerThread, CountInv, HasLk, Open
<1>3. CountInv'
  BY DEF TypeOK, CountInv, Open
<1>4. StateInv'
  BY DEF TypeOK, StateInv
<1>5. WakeInv'
  BY SleepWakeupAssumption DEF LockInv, WakeInv, Proc
<1> QED BY <1>1, <1>2, <1>3, <1>4, <1>5

-----------------------------------------------------------------------------
(* The initial states, all the steps, and the theorems.                    *)

\* Every process is ready, every CPU is in scheduler() and no lock is held.
LEMMA InitKeeps == Init => HandoverInv
<1> USE NoneApart DEF Init
<1> SUFFICES ASSUME Init PROVE HandoverInv
  OBVIOUS
<1>1. TypeOK
  BY SleepWakeupAssumption DEF TypeOK, Proc
<1>2. LockInv
  BY DEF LockInv, OneCpuPerThread
<1>3. CountInv
  BY DEF CountInv
<1>4. StateInv
  BY DEF StateInv, Away
<1>5. WakeInv
  BY DEF WakeInv
<1> QED BY <1>1, <1>2, <1>3, <1>4, <1>5 DEF HandoverInv

\* Every step of the specification keeps the invariant.
LEMMA NextKeeps == HandoverInv /\ [Next]_vars => HandoverInv'
<1> SUFFICES ASSUME HandoverInv, [Next]_vars PROVE HandoverInv'
  OBVIOUS
<1>1. CASE UNCHANGED vars
  <2> USE DEF HandoverInv, vars
  <2>1. TypeOK' /\ LockInv'
    BY <1>1 DEF TypeOK, LockInv, OneCpuPerThread
  <2>2. CountInv' /\ StateInv'
    BY <1>1 DEF CountInv, StateInv
  <2>3. WakeInv'
    BY <1>1 DEF WakeInv
  <2> QED BY <2>1, <2>2, <2>3
<1>2. ASSUME NEW c \in Cpu, SchedulerStep(c) PROVE HandoverInv'
  BY <1>2, SchedulerPushKeeps, SchedulerSkipKeeps, SchedulerRunKeeps DEF SchedulerStep
<1>3. ASSUME NEW c \in Cpu, HandlerStep(c) PROVE HandoverInv'
  BY <1>3, HandlerAcquireKeeps, WakeupKeeps, HandlerReturnKeeps, ClockReturnKeeps
     DEF HandlerStep
<1>4. ASSUME NEW c \in Cpu, Interrupt(c) PROVE HandoverInv'
  BY <1>4, InterruptKeeps
<1>5. ASSUME NEW c \in Cpu, NEW p \in Proc, ThreadStep(c, p) PROVE HandoverInv'
  BY <1>5, ForkretKeeps, AcquirePushKeeps, AcquireKeeps, ConsumeKeeps, SleepAcquireKeeps,
     SleepReleaseKeeps, SleepSetKeeps, SleepSchedKeeps, SleepBackKeeps, YieldAcquireKeeps,
     YieldSchedKeeps, YieldBackKeeps
     DEF ThreadStep
<1>6. ASSUME NEW c \in Cpu, NEW p \in Proc, Timer(c, p) PROVE HandoverInv'
  BY <1>6, TimerKeeps
<1>7. ASSUME NEW c \in Cpu, NEW p \in Proc, NEW q \in Proc, Kill(c, p, q) PROVE HandoverInv'
  BY <1>7, KillKeeps
<1> QED BY <1>1, <1>2, <1>3, <1>4, <1>5, <1>6, <1>7 DEF Next

\* The locks, the interrupt counts, the states and the pending wakeups of
\* scheduler(), sched(), sleep() and wakeup() agree in every reachable state.
THEOREM Handover == Spec => []HandoverInv
<1>1. Init => HandoverInv
  BY InitKeeps
<1>2. HandoverInv /\ [Next]_vars => HandoverInv'
  BY NextKeeps
<1> QED BY <1>1, <1>2, PTL DEF Spec

\* The process locks that a CPU holds: none, or the lock of its process.
LEMMA HeldLocks ==
  ASSUME HandoverInv, NEW c \in Cpu
  PROVE  Cardinality({p \in Proc : plock[p] = c}) =
           IF cur[c] # None /\ pc[cur[c]] \in HasPlock THEN 1 ELSE 0
<1> USE NoneApart DEF HandoverInv
<1>1. CASE cur[c] # None /\ pc[cur[c]] \in HasPlock
  <2>1. {p \in Proc : plock[p] = c} = {cur[c]}
    BY <1>1 DEF TypeOK, LockInv
  <2> QED BY <1>1, <2>1, FS_Singleton, Zenon
<1>2. CASE ~ (cur[c] # None /\ pc[cur[c]] \in HasPlock)
  <2>1. {p \in Proc : plock[p] = c} = {}
    BY <1>2 DEF LockInv
  <2> QED BY <1>2, <2>1, FS_EmptySet
<1> QED BY <1>1, <1>2

\* acquire(), release(), sched() and swtch() keep a thread on one CPU, pass
\* p->lock from the scheduler to the thread and back, and count with push_off()
\* and pop_off() exactly the locks a CPU holds or spins on.
THEOREM ThreadsHandedOver == Spec => []SchedInv
<1> USE NoneApart DEF HandoverInv
<1>1. HandoverInv => OneCpuPerThread
  BY DEF LockInv
<1>2. HandoverInv => LockHandedOver
  BY DEF LockHandedOver, LockInv, CountInv, StateInv, HasPlock, Open
<1>3. HandoverInv => InterruptDiscipline
  <2> SUFFICES ASSUME HandoverInv, NEW c \in Cpu
               PROVE  LET held == Cardinality({p \in Proc : plock[p] = c})
                                 + (IF lk = c THEN 1 ELSE 0)
                      IN  /\ noff[c] \in {held, held + 1}
                          /\ noff[c] > 0 => sie[c] = 0
                          /\ \A p \in Proc :
                               cur[c] = p /\ hand[c] = None /\ pc[p] \in {"run", "relock"}
                                 => sie[c] = 1
    BY DEF InterruptDiscipline
  <2> DEFINE own == IF cur[c] # None /\ pc[cur[c]] \in HasPlock THEN 1 ELSE 0
             cond == IF lk = c THEN 1 ELSE 0
  <2>1. Cardinality({p \in Proc : plock[p] = c}) = own
    BY HeldLocks
  <2>2. noff[c] \in {own + cond, own + cond + 1}
    BY DEF TypeOK, LockInv, CountInv, HasPlock, HasLk, Open
  <2>3. noff[c] > 0 => sie[c] = 0
    BY DEF TypeOK, CountInv
  <2>4. ASSUME NEW p \in Proc, cur[c] = p, hand[c] = None, pc[p] \in {"run", "relock"}
        PROVE  sie[c] = 1
    BY <2>4 DEF CountInv, Open
  <2> QED BY <2>1, <2>2, <2>3, <2>4
<1>4. HandoverInv => SchedInv
  BY <1>1, <1>2, <1>3 DEF SchedInv
<1> QED BY <1>4, Handover, PTL

\* sleep() takes p->lock before it releases the condition lock and wakeup()
\* takes every p->lock, so no wakeup is lost.
THEOREM NoWakeupLost == Spec => []NoLostWakeup
<1>1. HandoverInv => NoLostWakeup
  BY DEF HandoverInv, WakeInv, NoLostWakeup
<1> QED BY <1>1, Handover, PTL

-----------------------------------------------------------------------------
(* The process table.                                                      *)

\* Where a thread holds wait_lock, and where it has allocated a process that
\* cannot run yet.
Holding == {"wait_scan", "wait_sleep", "exit_zombie"}
Forking == {"fork_link", "fork_ready"}

\* wait_lock has the holder its code says, and only a RUNNING process is in
\* the middle of a system call, except where it sleeps or has just exited.
ControlInv ==
  /\ waitLock # Table!Nobody => tpc[waitLock] \in Holding
  /\ \A p \in Table!Proc :
       /\ tpc[p] \in Holding => waitLock = p
       /\ tpc[p] \in Holding \cup Forking \cup {"getppid"} => tstate[p] = "RUNNING"
       /\ tpc[p] = "wait_acquire" => Table!Live(p)
       /\ tpc[p] = "exit_sched" => tstate[p] = "ZOMBIE"
       /\ tstate[p] = "SLEEPING" => tpc[p] = "wait_acquire"

\* A process in fork() has a slot of its own, and what is in that slot is
\* nobody's child before fork() says so.
ForkInv ==
  /\ \A p \in Table!Proc : tpc[p] \in Forking =>
       /\ np[p] \in Table!Proc /\ tstate[np[p]] = "USED"
       /\ parent[np[p]] = IF tpc[p] = "fork_link" THEN Table!Nobody ELSE p
  /\ \A p, r \in Table!Proc : tpc[p] \in Forking /\ tpc[r] \in Forking /\ np[p] = np[r] => p = r
  /\ \A q \in Table!Proc : tstate[q] = "USED" /\ parent[q] # Table!Nobody =>
       tpc[parent[q]] = "fork_ready" /\ np[parent[q]] = q

\* init lives, and a process on its way out has given its children away.
FamilyInv ==
  /\ Table!Live(Table!Init1) /\ tpc[Table!Init1] # "exit_zombie"
  /\ \A p, q \in Table!Proc : tpc[p] = "exit_zombie" => parent[q] # p
  /\ Table!ParentIsAlive

\* A zombie whose lock is free is off its stack.
StackInv ==
  /\ Table!FreedOffCpu
  /\ \A p \in Table!Proc : tstate[p] = "ZOMBIE" /\ tpc[p] # "exit_sched" => oncpu[p] = 0

\* Whoever sleeps in wait(), or is about to, has no zombie, and a process on its
\* way out has woken its parent.
WaitInv ==
  \A p, q \in Table!Proc :
    /\ parent[q] = p /\ (tstate[p] = "SLEEPING" \/ tpc[p] = "wait_sleep")
         => tstate[q] # "ZOMBIE"
    /\ parent[q] = p /\ tpc[q] = "exit_zombie" => tstate[p] # "SLEEPING"

\* The inductive invariant.
FamilyTreeInv == Table!TypeOK /\ ControlInv /\ ForkInv /\ FamilyInv /\ StackInv /\ WaitInv

-----------------------------------------------------------------------------
(* Each step of the code keeps the invariant.                              *)

\* There is a slot for init.
LEMMA TableSize == Slots \in Nat \ {0}
BY TableAssumption DEF Table!ProcsConstants

\* scheduler() runs a process that was ready.
LEMMA DispatchKeeps ==
  ASSUME FamilyTreeInv, NEW p \in Table!Proc, Table!Dispatch(p)
  PROVE  FamilyTreeInv'
<1> USE DEF FamilyTreeInv, Table!Dispatch
<1>1. Table!TypeOK'
  BY DEF Table!TypeOK
<1>2. ControlInv'
  BY DEF Table!TypeOK, ControlInv, Table!Live
<1>3. ForkInv'
  BY DEF Table!TypeOK, ForkInv
<1>4. FamilyInv'
  BY DEF Table!TypeOK, FamilyInv, Table!ParentIsAlive, Table!Live
<1>5. StackInv'
  BY DEF Table!TypeOK, StackInv, Table!FreedOffCpu
<1>6. WaitInv'
  BY DEF Table!TypeOK, WaitInv
<1> QED BY <1>1, <1>2, <1>3, <1>4, <1>5, <1>6

\* allocproc() takes a free slot, which no other fork() has.
LEMMA ForkAllocKeeps ==
  ASSUME FamilyTreeInv, NEW p \in Table!Proc, NEW q \in Table!Proc, Table!ForkAlloc(p, q)
  PROVE  FamilyTreeInv'
<1> USE TableSize DEF FamilyTreeInv, Table!Proc, Table!Init1, Table!Nobody,
        Table!ForkAlloc, Table!Enters, Table!At, Table!Goto
<1>1. Table!TypeOK'
  BY DEF Table!TypeOK
<1>2. ControlInv'
  BY DEF Table!TypeOK, ControlInv, Holding, Forking, Table!Live
<1>3. ForkInv'
  <2>1. /\ tstate[q] = "UNUSED" /\ parent[q] = Table!Nobody /\ p # q
        /\ tpc[p] = "user" /\ tpc[q] \notin Forking
    BY DEF Table!TypeOK, ControlInv, FamilyInv, Table!ParentIsAlive
  <2>2. \A r \in Table!Proc : tpc[r] \in Forking => r # p /\ np[r] \in Table!Proc /\ np[r] # q
    BY DEF ForkInv
  <2>3. \A r \in Table!Proc : r # p => tpc'[r] = tpc[r] /\ np'[r] = np[r]
    OBVIOUS
  <2>4. tpc'[p] = "fork_link" /\ np'[p] = q /\ parent' = parent
    BY DEF Table!TypeOK
  <2>5. \A r \in Table!Proc : tstate'[r] = IF r = q THEN "USED" ELSE tstate[r]
    BY DEF Table!TypeOK
  <2>6. \A r \in Table!Proc : parent[r] \in Table!Proc \cup {Table!Nobody}
    BY DEF Table!TypeOK
  <2> HIDE DEF Table!ForkAlloc, Table!Enters, Table!At, Table!Goto, FamilyTreeInv
  <2>7. \A r \in Table!Proc : tpc'[r] \in Forking =>
          /\ np'[r] \in Table!Proc /\ tstate'[np'[r]] = "USED"
          /\ parent'[np'[r]] = IF tpc'[r] = "fork_link" THEN Table!Nobody ELSE r
    BY <2>1, <2>3, <2>4, <2>5 DEF FamilyTreeInv, ForkInv
  <2>8. \A r, s \in Table!Proc :
          tpc'[r] \in Forking /\ tpc'[s] \in Forking /\ np'[r] = np'[s] => r = s
    BY <2>2, <2>3, <2>4 DEF FamilyTreeInv, ForkInv
  <2>9. \A r \in Table!Proc : tstate'[r] = "USED" /\ parent'[r] # Table!Nobody =>
          tpc'[parent'[r]] = "fork_ready" /\ np'[parent'[r]] = r
    BY <2>1, <2>3, <2>4, <2>5, <2>6 DEF FamilyTreeInv, ForkInv
  <2> QED BY <2>7, <2>8, <2>9 DEF ForkInv
<1>4. FamilyInv'
  BY DEF Table!TypeOK, FamilyInv, Table!ParentIsAlive, Table!Live
<1>5. StackInv'
  BY DEF Table!TypeOK, StackInv, Table!FreedOffCpu
<1>6. WaitInv'
  BY DEF Table!TypeOK, WaitInv
<1> QED BY <1>1, <1>2, <1>3, <1>4, <1>5, <1>6

\* fork() fails and gives the slot back.
LEMMA ForkNoMemoryKeeps ==
  ASSUME FamilyTreeInv, NEW p \in Table!Proc, NEW q \in Table!Proc, Table!ForkNoMemory(p, q)
  PROVE  FamilyTreeInv'
<1> USE DEF FamilyTreeInv, Table!ForkNoMemory
<1>1. Table!TypeOK'
  BY DEF Table!TypeOK
<1>2. ControlInv'
  BY DEF Table!TypeOK, ControlInv, Table!Live
<1>3. ForkInv'
  BY DEF Table!TypeOK, ForkInv
<1>4. FamilyInv'
  BY DEF Table!TypeOK, FamilyInv, Table!ParentIsAlive, Table!Live
<1>5. StackInv'
  BY DEF Table!TypeOK, StackInv, Table!FreedOffCpu
<1>6. WaitInv'
  BY DEF Table!TypeOK, WaitInv
<1> QED BY <1>1, <1>2, <1>3, <1>4, <1>5, <1>6

\* fork() makes the new process a child of its parent, which runs.
LEMMA ForkLinkKeeps ==
  ASSUME FamilyTreeInv, NEW p \in Table!Proc, Table!ForkLink(p)
  PROVE  FamilyTreeInv'
<1> USE TableSize DEF FamilyTreeInv, Table!Proc, Table!Init1, Table!Nobody,
        Table!ForkLink, Table!At, Table!Goto
<1>1. Table!TypeOK'
  BY Zenon DEF Table!TypeOK
<1>2. ControlInv'
  BY DEF Table!TypeOK, ControlInv, Holding, Table!Live
<1>3. ForkInv'
  BY DEF Table!TypeOK, ForkInv, ControlInv, Holding, Forking
<1>4. FamilyInv'
  BY DEF Table!TypeOK, FamilyInv, Table!ParentIsAlive, ForkInv, Forking, Table!Live
<1>5. StackInv'
  BY DEF Table!TypeOK, StackInv, Table!FreedOffCpu
<1>6. WaitInv'
  BY DEF Table!TypeOK, WaitInv
<1> QED BY <1>1, <1>2, <1>3, <1>4, <1>5, <1>6

\* fork() lets the child run.
LEMMA ForkReadyKeeps ==
  ASSUME FamilyTreeInv, NEW p \in Table!Proc, Table!ForkReady(p)
  PROVE  FamilyTreeInv'
<1> USE TableSize DEF FamilyTreeInv, Table!Proc, Table!Init1, Table!Nobody,
        Table!ForkReady, Table!At
<1>1. Table!TypeOK'
  BY Zenon DEF Table!TypeOK
<1>2. ControlInv'
  <2>1. np[p] \in Table!Proc /\ tstate[np[p]] = "USED" /\ np[p] # p /\ tpc[np[p]] \notin Holding
    BY DEF Table!TypeOK, ForkInv, ControlInv, Forking
  <2> QED BY <2>1 DEF Table!TypeOK, ControlInv, Holding, Forking, Table!Live
<1>3. ForkInv'
  <2>1. np[p] \in Table!Proc /\ tstate[np[p]] = "USED" /\ tpc[np[p]] \notin Forking
    BY DEF Table!TypeOK, ForkInv, ControlInv, Forking
  <2>2. \A r \in Table!Proc : tpc'[r] \in Forking =>
          r # p /\ tpc[r] \in Forking /\ tpc'[r] = tpc[r] /\ np'[r] = np[r] /\ np[r] # np[p]
    BY DEF Table!TypeOK, ForkInv, Forking
  <2>3. \A r \in Table!Proc : tpc[r] \in Forking /\ r # p => tpc'[r] = tpc[r] /\ np'[r] = np[r]
    BY <2>1 DEF Table!TypeOK
  <2>4. \A r \in Table!Proc : tstate'[r] = IF r = np[p] THEN "RUNNABLE" ELSE tstate[r]
    BY DEF Table!TypeOK
  <2>5. parent' = parent /\ \A r \in Table!Proc : parent[r] \in Table!Proc \cup {Table!Nobody}
    BY DEF Table!TypeOK
  <2> HIDE DEF Table!ForkReady, Table!At, FamilyTreeInv
  <2>6. \A r \in Table!Proc : tpc'[r] \in Forking =>
          /\ np'[r] \in Table!Proc /\ tstate'[np'[r]] = "USED"
          /\ parent'[np'[r]] = IF tpc'[r] = "fork_link" THEN Table!Nobody ELSE r
    BY <2>2, <2>4, <2>5 DEF FamilyTreeInv, ForkInv
  <2>7. \A r, s \in Table!Proc :
          tpc'[r] \in Forking /\ tpc'[s] \in Forking /\ np'[r] = np'[s] => r = s
    BY <2>2 DEF FamilyTreeInv, ForkInv
  <2>8. \A r \in Table!Proc : tstate'[r] = "USED" /\ parent'[r] # Table!Nobody =>
          tpc'[parent'[r]] = "fork_ready" /\ np'[parent'[r]] = r
    BY <2>3, <2>4, <2>5 DEF FamilyTreeInv, ForkInv, Forking
  <2> QED BY <2>6, <2>7, <2>8 DEF ForkInv
<1>4. FamilyInv'
  <2>1. Table!Init1 \in Table!Proc /\ np[p] \in Table!Proc /\ tstate[np[p]] = "USED"
    BY DEF ForkInv, Forking
  <2>2. /\ \A r \in Table!Proc : tstate'[r] = IF r = np[p] THEN "RUNNABLE" ELSE tstate[r]
        /\ \A r \in Table!Proc : tpc'[r] = "exit_zombie" => tpc[r] = "exit_zombie"
        /\ parent' = parent /\ parent[np[p]] = p
        /\ \A r \in Table!Proc : parent[r] \in Table!Proc \cup {Table!Nobody}
    BY <2>1 DEF Table!TypeOK, ForkInv, Forking
  <2>3. FamilyInv
    OBVIOUS
  <2> HIDE DEF Table!ForkReady, Table!At, FamilyTreeInv
  <2>4. Table!Live(Table!Init1)' /\ tpc'[Table!Init1] # "exit_zombie"
    BY <2>1, <2>2, <2>3 DEF FamilyInv, Table!Live
  <2>5. \A r, s \in Table!Proc : tpc'[r] = "exit_zombie" => parent'[s] # r
    BY <2>2, <2>3 DEF FamilyInv
  <2>6. Table!ParentIsAlive'
    BY <2>1, <2>2, <2>3 DEF FamilyInv, Table!ParentIsAlive, Table!Live
  <2> QED BY <2>4, <2>5, <2>6 DEF FamilyInv
<1>5. StackInv'
  BY DEF Table!TypeOK, StackInv, Table!FreedOffCpu
<1>6. WaitInv'
  BY DEF Table!TypeOK, WaitInv
<1> QED BY <1>1, <1>2, <1>3, <1>4, <1>5, <1>6

\* exit() gives its children to init and wakes whoever must know.
LEMMA ExitKeeps ==
  ASSUME FamilyTreeInv, NEW p \in Table!Proc, Table!Exit(p)
  PROVE  FamilyTreeInv'
<1> USE TableSize DEF FamilyTreeInv, Table!Proc, Table!Init1, Table!Nobody,
        Table!Exit, Table!At, Table!Goto, Table!Wakeup, Table!Children
<1>1. Table!TypeOK'
  BY DEF Table!TypeOK
<1>2. ControlInv'
  BY DEF Table!TypeOK, ControlInv, Holding, Table!Live
<1>3. ForkInv'
  BY DEF Table!TypeOK, ForkInv, Forking
<1>4. FamilyInv'
  BY DEF Table!TypeOK, FamilyInv, Table!ParentIsAlive, Table!Live
<1>5. StackInv'
  BY DEF Table!TypeOK, StackInv, Table!FreedOffCpu
<1>6. WaitInv'
  <2>1. \A s \in Table!Proc :
          /\ tpc[s] \notin Holding
          /\ tstate'[s] = "SLEEPING" => tstate[s] = "SLEEPING"
          /\ tstate'[s] = "ZOMBIE" => tstate[s] = "ZOMBIE"
    BY DEF Table!TypeOK, ControlInv
  <2>2. \A s \in Table!Proc : tpc'[s] = IF s = p THEN "exit_zombie" ELSE tpc[s]
    BY DEF Table!TypeOK
  <2>3. \A s \in Table!Proc : parent'[s] = IF parent[s] = p THEN Table!Init1 ELSE parent[s]
    OBVIOUS
  <2>4. \A s \in Table!Proc : parent[s] = p => tstate'[Table!Init1] # "SLEEPING"
    <3> SUFFICES ASSUME NEW s \in Table!Proc, parent[s] = p
                 PROVE tstate'[Table!Init1] # "SLEEPING"
      OBVIOUS
    <3>1. Table!Children(p) # {}
      OBVIOUS
    <3>2. PICK C : Table!Init1 \in C /\ tstate' = Table!Wakeup(C)
      <4> HIDE DEF Table!Wakeup, Table!Children
      <4> QED BY <3>1
    <3> QED BY <3>2
  <2>5. \A s \in Table!Proc : s = parent[p] => tstate'[s] # "SLEEPING"
    <3>1. PICK C : parent[p] \in C /\ tstate' = Table!Wakeup(C)
      <4> HIDE DEF Table!Wakeup, Table!Children
      <4> QED BY Zenon
    <3> QED OBVIOUS
  <2> HIDE DEF Table!Exit, Table!At, Table!Goto, Table!Wakeup, Table!Children, FamilyTreeInv
  <2>6. \A s \in Table!Proc : tpc'[s] # "wait_sleep" /\ (tpc'[s] = "exit_zombie" => s = p)
    BY <2>1, <2>2 DEF Holding
  <2> SUFFICES ASSUME NEW r \in Table!Proc, NEW q \in Table!Proc, parent'[q] = r
               PROVE  /\ tstate'[r] = "SLEEPING" => tstate'[q] # "ZOMBIE"
                      /\ q = p => tstate'[r] # "SLEEPING"
    BY <2>6 DEF WaitInv
  <2>7. CASE parent[q] = p
    BY <2>7, <2>3, <2>4
  <2>8. CASE parent[q] # p
    BY <2>8, <2>1, <2>3, <2>5 DEF FamilyTreeInv, WaitInv
  <2> QED BY <2>7, <2>8
<1> QED BY <1>1, <1>2, <1>3, <1>4, <1>5, <1>6

\* exit() makes the process a zombie: it has no children, and its parent is awake.
LEMMA ExitZombieKeeps ==
  ASSUME FamilyTreeInv, NEW p \in Table!Proc, Table!ExitZombie(p)
  PROVE  FamilyTreeInv'
<1> USE DEF FamilyTreeInv, Table!ExitZombie, Table!At, Table!Goto
<1>1. Table!TypeOK'
  BY DEF Table!TypeOK
<1>2. ControlInv'
  BY DEF Table!TypeOK, ControlInv, Holding, Forking, Table!Live
<1>3. ForkInv'
  BY DEF Table!TypeOK, ForkInv, Forking
<1>4. FamilyInv'
  BY DEF Table!TypeOK, FamilyInv, Table!ParentIsAlive, Table!Live
<1>5. StackInv'
  BY DEF Table!TypeOK, StackInv, Table!FreedOffCpu
<1>6. WaitInv'
  BY DEF Table!TypeOK, WaitInv, ControlInv, Holding
<1> QED BY <1>1, <1>2, <1>3, <1>4, <1>5, <1>6

\* A zombie leaves its stack.
LEMMA ExitSchedKeeps ==
  ASSUME FamilyTreeInv, NEW p \in Table!Proc, Table!ExitSched(p)
  PROVE  FamilyTreeInv'
<1> USE DEF FamilyTreeInv, Table!ExitSched, Table!Goto
<1>1. Table!TypeOK'
  BY DEF Table!TypeOK
<1>2. ControlInv'
  BY DEF Table!TypeOK, ControlInv, Holding, Forking, Table!Live
<1>3. ForkInv'
  BY DEF Table!TypeOK, ForkInv, Forking
<1>4. FamilyInv'
  BY DEF Table!TypeOK, FamilyInv, Table!ParentIsAlive, Table!Live
<1>5. StackInv'
  BY DEF Table!TypeOK, StackInv, Table!FreedOffCpu
<1>6. WaitInv'
  BY DEF Table!TypeOK, WaitInv
<1> QED BY <1>1, <1>2, <1>3, <1>4, <1>5, <1>6

\* wait() begins.
LEMMA WaitKeeps ==
  ASSUME FamilyTreeInv, NEW p \in Table!Proc, Table!Wait(p)
  PROVE  FamilyTreeInv'
<1> USE DEF FamilyTreeInv, Table!Wait, Table!Enters, Table!At, Table!Goto
<1>1. Table!TypeOK'
  BY DEF Table!TypeOK
<1>2. ControlInv'
  BY DEF Table!TypeOK, ControlInv, Holding, Table!Live
<1>3. ForkInv'
  BY DEF Table!TypeOK, ForkInv, Forking
<1>4. FamilyInv'
  BY DEF Table!TypeOK, FamilyInv, Table!ParentIsAlive, Table!Live
<1>5. StackInv'
  BY DEF Table!TypeOK, StackInv, Table!FreedOffCpu
<1>6. WaitInv'
  BY DEF Table!TypeOK, WaitInv
<1> QED BY <1>1, <1>2, <1>3, <1>4, <1>5, <1>6

\* wait() gets wait_lock.
LEMMA WaitAcquireKeeps ==
  ASSUME FamilyTreeInv, NEW p \in Table!Proc, Table!WaitAcquire(p)
  PROVE  FamilyTreeInv'
<1> USE DEF FamilyTreeInv, Table!Proc, Table!Nobody, Table!WaitAcquire, Table!At, Table!Goto
<1>1. Table!TypeOK'
  BY DEF Table!TypeOK
<1>2. ControlInv'
  BY DEF Table!TypeOK, ControlInv, Holding, Table!Live
<1>3. ForkInv'
  BY DEF Table!TypeOK, ForkInv, Forking
<1>4. FamilyInv'
  BY DEF Table!TypeOK, FamilyInv, Table!ParentIsAlive, Table!Live
<1>5. StackInv'
  BY DEF Table!TypeOK, StackInv, Table!FreedOffCpu
<1>6. WaitInv'
  BY DEF Table!TypeOK, WaitInv
<1> QED BY <1>1, <1>2, <1>3, <1>4, <1>5, <1>6

\* wait() frees a zombie, which is off its stack and has no children.
LEMMA WaitReapKeeps ==
  ASSUME FamilyTreeInv, NEW p \in Table!Proc, NEW q \in Table!Proc, Table!WaitReap(p, q)
  PROVE  FamilyTreeInv'
<1> USE DEF FamilyTreeInv, Table!Proc, Table!Init1, Table!Nobody, Table!WaitReap,
            Table!WaitReturn, Table!At, Table!Goto, Table!Zombies,
        Table!ScansTo, Table!Unlocked
<1>1. Table!TypeOK'
  BY DEF Table!TypeOK
<1>2. ControlInv'
  BY DEF Table!TypeOK, ControlInv, Holding, Table!Live
<1>3. ForkInv'
  BY DEF Table!TypeOK, ForkInv, ControlInv, Holding, Forking
<1>4. FamilyInv'
  BY DEF Table!TypeOK, FamilyInv, Table!ParentIsAlive, Table!Live
<1>5. StackInv'
  BY DEF Table!TypeOK, StackInv, Table!FreedOffCpu
<1>6. WaitInv'
  BY DEF Table!TypeOK, WaitInv
<1> QED BY <1>1, <1>2, <1>3, <1>4, <1>5, <1>6

\* wait() cannot store the status.
LEMMA WaitFaultKeeps ==
  ASSUME FamilyTreeInv, NEW p \in Table!Proc, Table!WaitFault(p)
  PROVE  FamilyTreeInv'
<1> USE DEF FamilyTreeInv, Table!WaitFault, Table!WaitReturn, Table!At, Table!Goto
<1>1. Table!TypeOK'
  BY DEF Table!TypeOK
<1>2. ControlInv'
  BY DEF Table!TypeOK, ControlInv, Holding, Table!Live
<1>3. ForkInv'
  BY DEF Table!TypeOK, ForkInv, Forking
<1>4. FamilyInv'
  BY DEF Table!TypeOK, FamilyInv, Table!ParentIsAlive, Table!Live
<1>5. StackInv'
  BY DEF Table!TypeOK, StackInv, Table!FreedOffCpu
<1>6. WaitInv'
  BY DEF Table!TypeOK, WaitInv
<1> QED BY <1>1, <1>2, <1>3, <1>4, <1>5, <1>6

\* wait() finds no child, or was killed.
LEMMA WaitFailKeeps ==
  ASSUME FamilyTreeInv, NEW p \in Table!Proc, Table!WaitFail(p)
  PROVE  FamilyTreeInv'
<1> USE DEF FamilyTreeInv, Table!WaitFail, Table!WaitReturn, Table!At, Table!Goto
<1>1. Table!TypeOK'
  BY DEF Table!TypeOK
<1>2. ControlInv'
  BY DEF Table!TypeOK, ControlInv, Holding, Table!Live
<1>3. ForkInv'
  BY DEF Table!TypeOK, ForkInv, Forking
<1>4. FamilyInv'
  BY DEF Table!TypeOK, FamilyInv, Table!ParentIsAlive, Table!Live
<1>5. StackInv'
  BY DEF Table!TypeOK, StackInv, Table!FreedOffCpu
<1>6. WaitInv'
  BY DEF Table!TypeOK, WaitInv
<1> QED BY <1>1, <1>2, <1>3, <1>4, <1>5, <1>6

\* wait() finds children and no zombie.
LEMMA WaitDecideKeeps ==
  ASSUME FamilyTreeInv, NEW p \in Table!Proc, Table!WaitDecide(p)
  PROVE  FamilyTreeInv'
<1> USE DEF FamilyTreeInv, Table!WaitDecide, Table!At, Table!Goto, Table!Zombies, Table!Children
<1>1. Table!TypeOK'
  BY DEF Table!TypeOK
<1>2. ControlInv'
  BY DEF Table!TypeOK, ControlInv, Holding, Table!Live
<1>3. ForkInv'
  BY DEF Table!TypeOK, ForkInv, Forking
<1>4. FamilyInv'
  BY DEF Table!TypeOK, FamilyInv, Table!ParentIsAlive, Table!Live
<1>5. StackInv'
  BY DEF Table!TypeOK, StackInv, Table!FreedOffCpu
<1>6. WaitInv'
  <2>1. \A q \in Table!Proc : parent[q] = p => tstate[q] # "ZOMBIE"
    OBVIOUS
  <2>2. \A q \in Table!Proc : tpc'[q] = IF q = p THEN "wait_sleep" ELSE tpc[q]
    BY DEF Table!TypeOK
  <2>3. UNCHANGED <<parent, tstate>>
    OBVIOUS
  <2> HIDE DEF Table!WaitDecide, Table!At, Table!Goto, Table!Zombies, Table!Children,
               FamilyTreeInv
  <2> QED BY <2>1, <2>2, <2>3 DEF FamilyTreeInv, WaitInv
<1> QED BY <1>1, <1>2, <1>3, <1>4, <1>5, <1>6

\* wait() goes to sleep.
LEMMA WaitSleepKeeps ==
  ASSUME FamilyTreeInv, NEW p \in Table!Proc, Table!WaitSleep(p)
  PROVE  FamilyTreeInv'
<1> USE DEF FamilyTreeInv, Table!WaitSleep, Table!At, Table!Goto
<1>1. Table!TypeOK'
  BY DEF Table!TypeOK
<1>2. ControlInv'
  BY DEF Table!TypeOK, ControlInv, Holding, Forking, Table!Live
<1>3. ForkInv'
  BY DEF Table!TypeOK, ForkInv, Forking
<1>4. FamilyInv'
  BY DEF Table!TypeOK, FamilyInv, Table!ParentIsAlive, Table!Live
<1>5. StackInv'
  BY DEF Table!TypeOK, StackInv, Table!FreedOffCpu
<1>6. WaitInv'
  BY DEF Table!TypeOK, WaitInv, ControlInv, Holding
<1> QED BY <1>1, <1>2, <1>3, <1>4, <1>5, <1>6

\* kill() wakes a process, or marks it.
LEMMA TableKillKeeps ==
  ASSUME FamilyTreeInv, NEW p \in Table!Proc, NEW n \in KillPids, Table!Kill(p, n)
  PROVE  FamilyTreeInv'
<1> USE DEF FamilyTreeInv, Table!Kill
<1>1. Table!TypeOK'
  BY DEF Table!TypeOK
<1>2. ControlInv'
  BY DEF Table!TypeOK, ControlInv, Table!Live
<1>3. ForkInv'
  BY DEF Table!TypeOK, ForkInv
<1>4. FamilyInv'
  BY DEF Table!TypeOK, FamilyInv, Table!ParentIsAlive, Table!Live
<1>5. StackInv'
  BY DEF Table!TypeOK, StackInv, Table!FreedOffCpu
<1>6. WaitInv'
  BY DEF Table!TypeOK, WaitInv
<1> QED BY <1>1, <1>2, <1>3, <1>4, <1>5, <1>6

\* getppid() reads p->parent.
LEMMA GetppidParentKeeps ==
  ASSUME FamilyTreeInv, NEW p \in Table!Proc, Table!GetppidParent(p)
  PROVE  FamilyTreeInv'
<1> USE DEF FamilyTreeInv, Table!GetppidParent, Table!Enters, Table!At, Table!Goto
<1>1. Table!TypeOK'
  BY DEF Table!TypeOK
<1>2. ControlInv'
  BY DEF Table!TypeOK, ControlInv, Holding, Table!Live
<1>3. ForkInv'
  BY DEF Table!TypeOK, ForkInv, Forking
<1>4. FamilyInv'
  BY DEF Table!TypeOK, FamilyInv, Table!ParentIsAlive, Table!Live
<1>5. StackInv'
  BY DEF Table!TypeOK, StackInv, Table!FreedOffCpu
<1>6. WaitInv'
  BY DEF Table!TypeOK, WaitInv
<1> QED BY <1>1, <1>2, <1>3, <1>4, <1>5, <1>6

\* getppid() reads the pid.
LEMMA GetppidPidKeeps ==
  ASSUME FamilyTreeInv, NEW p \in Table!Proc, Table!GetppidPid(p)
  PROVE  FamilyTreeInv'
<1> USE DEF FamilyTreeInv, Table!GetppidPid, Table!At, Table!Goto
<1>1. Table!TypeOK'
  BY DEF Table!TypeOK
<1>2. ControlInv'
  BY DEF Table!TypeOK, ControlInv, Holding, Table!Live
<1>3. ForkInv'
  BY DEF Table!TypeOK, ForkInv, Forking
<1>4. FamilyInv'
  BY DEF Table!TypeOK, FamilyInv, Table!ParentIsAlive, Table!Live
<1>5. StackInv'
  BY DEF Table!TypeOK, StackInv, Table!FreedOffCpu
<1>6. WaitInv'
  BY DEF Table!TypeOK, WaitInv
<1> QED BY <1>1, <1>2, <1>3, <1>4, <1>5, <1>6

-----------------------------------------------------------------------------
(* The theorems.                                                           *)

\* procinit() and userinit() leave one process, init.
LEMMA TableInitKeeps == Table!Init => FamilyTreeInv
<1> SUFFICES ASSUME Table!Init PROVE FamilyTreeInv
  OBVIOUS
<1> USE TableSize DEF Table!Init, Table!Proc, Table!Init1
<1>1. Table!TypeOK
  BY DEF Table!TypeOK
<1>2. ControlInv /\ ForkInv
  BY DEF ControlInv, ForkInv, Holding, Forking
<1>3. FamilyInv
  BY DEF FamilyInv, Table!ParentIsAlive, Table!Live
<1>4. StackInv /\ WaitInv
  BY DEF StackInv, Table!FreedOffCpu, WaitInv
<1> QED BY <1>1, <1>2, <1>3, <1>4 DEF FamilyTreeInv

\* Every step of the system preserves the invariant.
LEMMA TableNextKeeps == FamilyTreeInv /\ [Table!Next]_(Table!vars) => FamilyTreeInv'
<1> SUFFICES ASSUME FamilyTreeInv, [Table!Next]_(Table!vars) PROVE FamilyTreeInv'
  OBVIOUS
<1>1. CASE UNCHANGED Table!vars
  <2> USE <1>1 DEF Table!vars, FamilyTreeInv
  <2>1. Table!TypeOK'
    BY DEF Table!TypeOK
  <2>2. ControlInv' /\ ForkInv'
    BY DEF ControlInv, Table!Live, ForkInv
  <2>3. FamilyInv' /\ StackInv'
    BY DEF FamilyInv, Table!ParentIsAlive, Table!Live, StackInv, Table!FreedOffCpu
  <2>4. WaitInv'
    BY DEF WaitInv
  <2> QED BY <2>1, <2>2, <2>3, <2>4
<1>2. ASSUME NEW p \in Table!Proc, Table!ForkStep(p) PROVE FamilyTreeInv'
  BY <1>2, ForkAllocKeeps, ForkNoMemoryKeeps, ForkLinkKeeps, ForkReadyKeeps DEF Table!ForkStep
<1>3. ASSUME NEW p \in Table!Proc, Table!ExitStep(p) PROVE FamilyTreeInv'
  BY <1>3, ExitKeeps, ExitZombieKeeps, ExitSchedKeeps DEF Table!ExitStep
<1>4. ASSUME NEW p \in Table!Proc, Table!WaitStep(p) PROVE FamilyTreeInv'
  BY <1>4, WaitKeeps, WaitAcquireKeeps, WaitReapKeeps, WaitFaultKeeps, WaitFailKeeps,
     WaitDecideKeeps, WaitSleepKeeps DEF Table!WaitStep
<1> QED BY <1>1, <1>2, <1>3, <1>4, DispatchKeeps, TableKillKeeps, GetppidParentKeeps,
        GetppidPidKeeps DEF Table!Next

\* The invariant holds in every reachable state of fork(), exit(), wait() and
\* kill().
THEOREM FamilyTree == Table!Spec => []FamilyTreeInv
BY TableInitKeeps, TableNextKeeps, PTL DEF Table!Spec

\* Every process has a live parent, and wait() frees a process only when it is
\* off its kernel stack, in a process table of any size.
THEOREM ParentsLive == Table!Spec => []ProcsInv
<1>1. FamilyTreeInv => ProcsInv
  BY DEF FamilyTreeInv, FamilyInv, StackInv, ProcsInv, Table!ProcsInv
<1> QED BY <1>1, FamilyTree, PTL

\* A process that sleeps in wait() has no zombie child: no exit() and no
\* reparent() is missed, in a process table of any size.
THEOREM ZombiesNoticed == Table!Spec => []NoZombieMissed
<1>1. FamilyTreeInv => NoZombieMissed
  BY DEF FamilyTreeInv, WaitInv, NoZombieMissed, Table!NoZombieMissed, Table!Zombies,
         Table!Children
<1> QED BY <1>1, FamilyTree, PTL
=============================================================================
