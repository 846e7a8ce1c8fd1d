--------------------------- MODULE MCDriversLive ----------------------------
(***************************************************************************)
(* The drivers of the serial line and the disk, under fairness.  They      *)
(* share nothing in the model, so they stand side by side: a behavior      *)
(* picks one (dev) and the other stays in its initial state.               *)
(*                                                                         *)
(* The serial line has two writers, and printf() and echo beside them.     *)
(* Liveness is checked, so there is no symmetry.                           *)
(***************************************************************************)
EXTENDS Uart
CONSTANTS Proc, Value, NUM, Ring, DiskWrap

VARIABLES
  dev,
  free, addr, next, ops, info, status, avail, availIdx, used, usedIdx, used_idx, seenIdx,
  inflight, finished, dIrq, disk, data, busy, dLock, dPc, write, head

\* Four descriptors for three processes: one request and a rest, so that
\* another process fails half-way through alloc3_desc().
Disk == INSTANCE VirtioDisk WITH
  Wrap <- DiskWrap, irq <- dIrq, lock <- dLock, pc <- dPc

ASSUME OutputAssumption == UartConstants

dVars == <<free, addr, next, ops, info, status, avail, availIdx, used, usedIdx, used_idx, seenIdx,
           inflight, finished, dIrq, disk, data, busy, dLock, dPc, write, head>>
allVars == <<dev, vars, dVars>>

MCInit ==
  /\ dev \in {"uart", "disk"}
  /\ Init /\ Disk!Init
  /\ dev # "uart" => buf[0] = CHOOSE b \in Byte : TRUE

MCNext ==
  /\ \/ dev = "disk" /\ Disk!Next /\ UNCHANGED vars
     \/ dev = "uart" /\ Next /\ UNCHANGED dVars
  /\ UNCHANGED dev

MCSpec ==
  /\ MCInit /\ [][MCNext]_allVars
  /\ \/ dev = "disk" /\ Disk!Fairness
     \/ dev = "uart" /\ Fairness

-----------------------------------------------------------------------------
\* virtio_disk_rw() returns: see VirtioDisk (kernel/virtio_disk.c
\* virtio_disk_rw()).
RwReturns == Disk!RwReturns
=============================================================================
