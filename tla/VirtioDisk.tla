----------------------------- MODULE VirtioDisk -----------------------------
(***************************************************************************)
(* The disk driver of kernel/virtio_disk.c together with the device.       *)
(*                                                                         *)
(* Each process does I/O on one buffer, whose sleep-lock it holds, so a    *)
(* buffer and its block are named after the process.  vdisk_lock has an    *)
(* explicit holder, because the device works while the driver holds it.    *)
(* The device may finish requests in any order and never reports an error. *)
(* The 16-bit ring indexes wrap at Wrap.                                   *)
(***************************************************************************)
EXTENDS Integers, FiniteSets

CONSTANTS Proc, Value,
          NUM,   \* number of descriptors
          Ring,  \* entries of the avail and the used ring (NUM as well in C)
          Wrap,  \* the ring indexes are modulo Wrap (2^16 in C)
          Intr,  \* virtio_disk_intr(), as a holder of vdisk_lock
          None

Desc == 0 .. NUM - 1

ASSUME VirtioAssumption ==
  /\ NUM \in Nat /\ NUM >= 3
  /\ Ring \in Nat /\ 3 * Ring >= NUM - 2
  /\ Wrap \in Nat /\ Wrap > Ring /\ Wrap % Ring = 0
  /\ Intr \notin Proc /\ None \notin Proc /\ Intr # None /\ None \notin Desc

VARIABLES
  free,                \* descriptors i with disk.free[i] = 1
  addr, next,          \* disk.desc; next is None without VRING_DESC_F_NEXT
  ops,                 \* type and sector of a request
  info,                \* disk.info[i].b
  status,              \* disk.info[i].status
  avail, availIdx,     \* disk.avail->ring and ->idx
  used, usedIdx,       \* disk.used->ring and ->idx
  used_idx,            \* disk.used_idx
  seenIdx, inflight, finished,  \* of the device: how far it has read avail,
                       \* heads it works on, heads it has finished
  irq,                 \* 1 while the device requests an interrupt
  disk, data,          \* contents of the blocks and of the buffers in use
  busy,                \* b->disk
  lock,                \* holder of vdisk_lock
  pc, write, head      \* of a process: where it is, what it writes (None when
                       \* it reads), idx[0]

chainVars  == <<free, addr, next, ops, info>>
availVars  == <<avail, availIdx>>
usedVars   == <<used, usedIdx>>
deviceVars == <<seenIdx, inflight, finished>>
vars == <<free, addr, next, ops, info, status, avail, availIdx, used, usedIdx,
          used_idx, seenIdx, inflight, finished, irq, disk, data, busy, lock,
          pc, write, head>>

Index == 0 .. Wrap - 1

TypeOK ==
  /\ free \subseteq Desc
  /\ addr \in [Desc -> Proc \cup {None}]
  /\ next \in [Desc -> Desc \cup {None}]
  /\ ops \in [Desc -> [type : {"in", "out"}, sector : Proc] \cup {None}]
  /\ info \in [Desc -> Proc \cup {None}]
  /\ status \in [Desc -> {0, 255}]
  /\ avail \in [0 .. Ring - 1 -> Desc] /\ used \in [0 .. Ring - 1 -> Desc]
  /\ availIdx \in Index /\ usedIdx \in Index /\ used_idx \in Index /\ seenIdx \in Index
  /\ inflight \subseteq Desc /\ finished \subseteq Desc
  /\ irq \in {0, 1}
  /\ disk \in [Proc -> Value] /\ data \in [Proc -> Value \cup {None}]
  /\ busy \in [Proc -> {0, 1}]
  /\ lock \in Proc \cup {Intr, None}
  /\ pc \in [Proc -> {"out", "alloc", "alloc_sleep", "notify", "test", "wait", "wait_sleep"}]
  /\ write \in [Proc -> Value \cup {None}]
  /\ head \in [Proc -> Desc \cup {None}]

\* virtio_disk_init(): the queue memory is zeroed, all descriptors are free.
Init ==
  /\ free = Desc
  /\ addr = [i \in Desc |-> None] /\ next = [i \in Desc |-> None]
  /\ ops = [i \in Desc |-> None]
  /\ info = [i \in Desc |-> None] /\ status = [i \in Desc |-> 0]
  /\ avail = [i \in 0 .. Ring - 1 |-> 0] /\ used = [i \in 0 .. Ring - 1 |-> 0]
  /\ availIdx = 0 /\ usedIdx = 0 /\ used_idx = 0 /\ seenIdx = 0
  /\ inflight = {} /\ finished = {}
  /\ irq = 0
  /\ \E v \in Value : disk = [p \in Proc |-> v]
  /\ data = [p \in Proc |-> None]
  /\ busy = [p \in Proc |-> 0]
  /\ lock = None
  /\ pc = [p \in Proc |-> "out"]
  /\ write = [p \in Proc |-> None]
  /\ head = [p \in Proc |-> None]

-----------------------------------------------------------------------------
(* virtio_disk_rw()                                                        *)

\* bread() or bwrite() calls it, with a buffer that contains v.
Call(p, w, v) ==
  /\ pc[p] = "out"
  /\ pc' = [pc EXCEPT ![p] = "alloc"]
  /\ write' = [write EXCEPT ![p] = w]
  /\ data' = [data EXCEPT ![p] = v]
  /\ UNCHANGED <<chainVars, status, availVars, usedVars, used_idx, deviceVars, irq,
                 disk, busy, lock, head>>

\* wakeup(&disk.free[0])
WakeAllocators(f) ==
  [p \in Proc |-> IF f[p] = "alloc_sleep" THEN "alloc" ELSE f[p]]

\* alloc_desc() after the descriptors in taken: the lowest free one.
AllocDesc(taken) ==
  CHOOSE i \in free \ taken : \A j \in free \ taken : i <= j

\* Mutant: reads and writes are swapped.
Request_Swapped(p) == [type |-> IF write[p] = None THEN "out" ELSE "in", sector |-> p]

Request(p) == [type |-> IF write[p] = None THEN "in" ELSE "out", sector |-> p]

\* alloc3_desc() succeeds; the three descriptors are formatted and the head
\* is put into the avail ring.
Alloc3(p) ==
  /\ pc[p] = "alloc" /\ lock = None
  /\ Cardinality(free) >= 3
  /\ LET i0 == AllocDesc({})
         i1 == AllocDesc({i0})
         i2 == AllocDesc({i0, i1})
     IN  /\ free' = free \ {i0, i1, i2}
         /\ ops' = [ops EXCEPT ![i0] = Request(p)]
         /\ next' = [next EXCEPT ![i0] = i1, ![i1] = i2, ![i2] = None]
         /\ addr' = [addr EXCEPT ![i1] = p]
         /\ status' = [status EXCEPT ![i0] = 255]
         /\ info' = [info EXCEPT ![i0] = p]
         /\ avail' = [avail EXCEPT ![availIdx % Ring] = i0]
         /\ head' = [head EXCEPT ![p] = i0]
  /\ busy' = [busy EXCEPT ![p] = 1]
  /\ lock' = p
  /\ pc' = [pc EXCEPT ![p] = "notify"]
  /\ UNCHANGED <<availIdx, usedVars, used_idx, deviceVars, irq, disk, data, write>>

\* alloc3_desc() fails.  Giving one or two descriptors back wakes whoever
\* else waits for descriptors; then the process itself goes to sleep.
Alloc3Fails(p) ==
  /\ pc[p] = "alloc" /\ lock = None
  /\ Cardinality(free) < 3
  /\ pc' = [(IF free = {} THEN pc ELSE WakeAllocators(pc)) EXCEPT ![p] = "alloc_sleep"]
  /\ UNCHANGED <<chainVars, status, availVars, usedVars, used_idx, deviceVars, irq,
                 disk, data, busy, lock, write, head>>

\* The device is told that there is another entry.
Notify(p) ==
  /\ pc[p] = "notify"
  /\ availIdx' = (availIdx + 1) % Wrap
  /\ pc' = [pc EXCEPT ![p] = "test"]
  /\ UNCHANGED <<chainVars, status, avail, usedVars, used_idx, deviceVars, irq,
                 disk, data, busy, lock, write, head>>

\* The process runs again after sleep(b, &disk.vdisk_lock).
Reacquire(p) ==
  /\ pc[p] = "wait" /\ lock = None
  /\ lock' = p
  /\ pc' = [pc EXCEPT ![p] = "test"]
  /\ UNCHANGED <<chainVars, status, availVars, usedVars, used_idx, deviceVars, irq,
                 disk, data, busy, write, head>>

Sleep(p) ==
  /\ pc[p] = "test" /\ busy[p] = 1
  /\ lock' = None
  /\ pc' = [pc EXCEPT ![p] = "wait_sleep"]
  /\ UNCHANGED <<chainVars, status, availVars, usedVars, used_idx, deviceVars, irq,
                 disk, data, busy, write, head>>

\* The descriptors that free_chain(i) frees: those that NEXT flags lead to.
Chain(i) ==
  {i} \cup {j \in Desc : next[i] = j \/ (next[i] # None /\ next[next[i]] = j)}

\* Mutant: free_desc() of the head instead of free_chain().
Finish_HeadOnly(p) ==
  /\ pc[p] = "test" /\ busy[p] = 0
  /\ info' = [info EXCEPT ![head[p]] = None]
  /\ free' = free \cup {head[p]}
  /\ next' = [next EXCEPT ![head[p]] = None]
  /\ head' = [head EXCEPT ![p] = None]
  /\ data' = [data EXCEPT ![p] = None]
  /\ lock' = None
  /\ pc' = [WakeAllocators(pc) EXCEPT ![p] = "out"]
  /\ UNCHANGED <<addr, ops, status, availVars, usedVars, used_idx, deviceVars, irq,
                 disk, busy, write>>

\* Mutant: no wakeup(&disk.free[0]) in free_desc().
Finish_Silent(p) ==
  /\ pc[p] = "test" /\ busy[p] = 0
  /\ info' = [info EXCEPT ![head[p]] = None]
  /\ free' = free \cup Chain(head[p])
  /\ addr' = [i \in Desc |-> IF i \in Chain(head[p]) THEN None ELSE addr[i]]
  /\ next' = [i \in Desc |-> IF i \in Chain(head[p]) THEN None ELSE next[i]]
  /\ head' = [head EXCEPT ![p] = None]
  /\ data' = [data EXCEPT ![p] = None]
  /\ lock' = None
  /\ pc' = [pc EXCEPT ![p] = "out"]
  /\ UNCHANGED <<ops, status, availVars, usedVars, used_idx, deviceVars, irq,
                 disk, busy, write>>

\* The request is done: free_chain() frees the descriptors and wakes whoever
\* waits for some.
Finish(p) ==
  /\ pc[p] = "test" /\ busy[p] = 0
  /\ info' = [info EXCEPT ![head[p]] = None]
  /\ free' = free \cup Chain(head[p])
  /\ addr' = [i \in Desc |-> IF i \in Chain(head[p]) THEN None ELSE addr[i]]
  /\ next' = [i \in Desc |-> IF i \in Chain(head[p]) THEN None ELSE next[i]]
  /\ head' = [head EXCEPT ![p] = None]
  /\ data' = [data EXCEPT ![p] = None]
  /\ lock' = None
  /\ pc' = [WakeAllocators(pc) EXCEPT ![p] = "out"]
  /\ UNCHANGED <<ops, status, availVars, usedVars, used_idx, deviceVars, irq,
                 disk, busy, write>>

\* kill() makes a sleeping process run, whatever it waits for.
Kill(p) ==
  /\ \/ pc[p] = "alloc_sleep" /\ pc' = [pc EXCEPT ![p] = "alloc"]
     \/ pc[p] = "wait_sleep" /\ pc' = [pc EXCEPT ![p] = "wait"]
  /\ UNCHANGED <<chainVars, status, availVars, usedVars, used_idx, deviceVars, irq,
                 disk, data, busy, lock, write, head>>

-----------------------------------------------------------------------------
(* The device, which reads what the driver wrote into memory.              *)

Fetch ==
  /\ seenIdx # availIdx
  /\ inflight' = inflight \cup {avail[seenIdx % Ring]}
  /\ seenIdx' = (seenIdx + 1) % Wrap
  /\ UNCHANGED <<chainVars, status, availVars, usedVars, used_idx, finished, irq,
                 disk, data, busy, lock, pc, write, head>>

\* The device moves the data and writes the status of request h.
Transfer(h) ==
  /\ h \in inflight
  /\ ops[h] # None /\ next[h] # None /\ addr[next[h]] # None
  /\ LET b == addr[next[h]]
         s == ops[h].sector
     IN  \/ /\ ops[h].type = "in"
            /\ data' = [data EXCEPT ![b] = disk[s]] /\ UNCHANGED disk
         \/ /\ ops[h].type = "out" /\ data[b] # None
            /\ disk' = [disk EXCEPT ![s] = data[b]] /\ UNCHANGED data
  /\ status' = [status EXCEPT ![h] = 0]
  /\ inflight' = inflight \ {h}
  /\ finished' = finished \cup {h}
  /\ UNCHANGED <<chainVars, availVars, usedVars, used_idx, seenIdx, irq, busy, lock,
                 pc, write, head>>

\* It reports h in the used ring and requests an interrupt.
Complete(h) ==
  /\ h \in finished
  /\ used' = [used EXCEPT ![usedIdx % Ring] = h]
  /\ usedIdx' = (usedIdx + 1) % Wrap
  /\ finished' = finished \ {h}
  /\ irq' = 1
  /\ UNCHANGED <<chainVars, status, availVars, used_idx, seenIdx, inflight, disk, data,
                 busy, lock, pc, write, head>>

-----------------------------------------------------------------------------
(* virtio_disk_intr()                                                      *)

\* The interrupt is acknowledged before the ring is read.
IntrAck ==
  /\ irq = 1 /\ lock = None
  /\ irq' = 0
  /\ lock' = Intr
  /\ UNCHANGED <<chainVars, status, availVars, usedVars, used_idx, deviceVars, disk, data,
                 busy, pc, write, head>>

\* Mutant: the sleeper is woken but b->disk stays set.
IntrEntry_NoClear ==
  /\ lock = Intr /\ used_idx # usedIdx
  /\ LET b == info[used[used_idx % Ring]]
     IN  /\ b # None
         /\ pc' = [pc EXCEPT ![b] = IF @ = "wait_sleep" THEN "wait" ELSE @]
  /\ used_idx' = (used_idx + 1) % Wrap
  /\ UNCHANGED <<chainVars, status, availVars, usedVars, deviceVars, irq, disk, data,
                 busy, lock, write, head>>

\* One used entry: its buffer is done and its sleeper is woken.
IntrEntry ==
  /\ lock = Intr /\ used_idx # usedIdx
  /\ LET b == info[used[used_idx % Ring]]
     IN  /\ b # None
         /\ busy' = [busy EXCEPT ![b] = 0]
         /\ pc' = [pc EXCEPT ![b] = IF @ = "wait_sleep" THEN "wait" ELSE @]
  /\ used_idx' = (used_idx + 1) % Wrap
  /\ UNCHANGED <<chainVars, status, availVars, usedVars, deviceVars, irq, disk, data,
                 lock, write, head>>

\* All entries have been looked at.
IntrDone ==
  /\ lock = Intr /\ used_idx = usedIdx
  /\ lock' = None
  /\ UNCHANGED <<chainVars, status, availVars, usedVars, used_idx, deviceVars, irq, disk, data,
                 busy, pc, write, head>>

-----------------------------------------------------------------------------

Step(p) ==
  \/ Alloc3(p) \/ Alloc3Fails(p) \/ Notify(p) \/ Reacquire(p) \/ Sleep(p) \/ Finish(p)

Device == Fetch \/ \E h \in Desc : Transfer(h) \/ Complete(h)

Handler == IntrAck \/ IntrEntry \/ IntrDone

Next ==
  \/ \E p \in Proc :
       \/ Step(p) \/ Kill(p)
       \/ \E v \in Value : Call(p, None, v) \/ Call(p, v, v)
  \/ Device
  \/ Handler

Spec == Init /\ [][Next]_vars

\* The device works, interrupts are taken, and a process that finds
\* vdisk_lock free again and again gets it.
Fairness ==
  /\ WF_vars(Device)
  /\ SF_vars(Handler)
  /\ \A p \in Proc :
       /\ WF_vars(Notify(p) \/ Sleep(p) \/ Finish(p))
       /\ SF_vars(Alloc3(p) \/ Reacquire(p))
       /\ SF_vars(Alloc3Fails(p))

-----------------------------------------------------------------------------
(* Properties.                                                             *)

\* The requests that the device knows of, or will read from the avail ring.
Submitted ==
  {avail[(seenIdx + k) % Ring] : k \in 0 .. ((availIdx - seenIdx) % Wrap) - 1} \cup inflight \cup finished

\* The requests in the used ring that the handler has not seen.
Unseen == {used[(used_idx + k) % Ring] : k \in 0 .. ((usedIdx - used_idx) % Wrap) - 1}

Owners == {p \in Proc : head[p] # None}

\* Free descriptors and the chains of the requests divide the descriptors:
\* free_desc() never panics and no descriptor serves two requests.
DescriptorsDivided ==
  /\ \A p \in Owners : Cardinality(Chain(head[p])) = 3 /\ Chain(head[p]) \cap free = {}
  /\ \A p, q \in Owners : p # q => Chain(head[p]) \cap Chain(head[q]) = {}
  /\ Cardinality(free) + 3 * Cardinality(Owners) = NUM

\* b->disk is set exactly while the request is on its way: at the device
\* and after it, until the handler has seen it.  Whatever the device still
\* touches belongs to a process that waits for it.
BusyWhileSubmitted ==
  \A p \in Proc :
    pc[p] # "notify" =>
      (busy[p] = 1 <=> p \in Owners /\ head[p] \in Submitted \cup Unseen)

\* When virtio_disk_rw() finds b->disk cleared, the data has been moved, in
\* the direction that was asked for.
TransferredWhenDone ==
  \A p \in Owners :
    busy[p] = 0 => data[p] = disk[p] /\ write[p] \in {None, disk[p]}

\* The variables have their types, the descriptors are divided and b->disk is
\* set while it has to be (alloc3_desc(), free_chain(), virtio_disk_intr()).
DiskInv == TypeOK /\ DescriptorsDivided /\ BusyWhileSubmitted

\* Every virtio_disk_rw() returns.
RwReturns == \A p \in Proc : pc[p] = "alloc" ~> pc[p] = "out"
=============================================================================
