-------------------------------- MODULE Fifo --------------------------------
(***************************************************************************)
(* What a pipe promises: a bounded first-in first-out queue of bytes whose *)
(* two ends can be closed, once each.  Nothing is put into a queue that    *)
(* nobody can read.                                                        *)
(***************************************************************************)
EXTENDS Integers, Sequences

CONSTANTS Byte, Capacity

VARIABLES queue, readopen, writeopen

fvars == <<queue, readopen, writeopen>>

FInit == queue = <<>> /\ readopen = 1 /\ writeopen = 1

Put(b) ==
  /\ readopen = 1 /\ writeopen = 1
  /\ Len(queue) < Capacity
  /\ queue' = Append(queue, b)
  /\ UNCHANGED <<readopen, writeopen>>

Get ==
  /\ readopen = 1
  /\ queue # <<>>
  /\ queue' = Tail(queue)
  /\ UNCHANGED <<readopen, writeopen>>

CloseRead  == readopen = 1 /\ readopen' = 0 /\ UNCHANGED <<queue, writeopen>>
CloseWrite == writeopen = 1 /\ writeopen' = 0 /\ UNCHANGED <<queue, readopen>>

FNext == (\E b \in Byte : Put(b)) \/ Get \/ CloseRead \/ CloseWrite

FSpec == FInit /\ [][FNext]_fvars
=============================================================================
