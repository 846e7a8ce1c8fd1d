----------------------------- MODULE BlockStore -----------------------------
(***************************************************************************)
(* What the buffer cache promises to the file system: every block has one  *)
(* current value, and only the process that owns the block changes it.     *)
(***************************************************************************)
CONSTANTS Proc, Block, Value, None

VARIABLES store,  \* the current value of each block
          owner   \* the process that bread() gave the block to, or None

svars == <<store, owner>>

SInit == store \in [Block -> Value] /\ owner = [n \in Block |-> None]

Take(p, n) ==
  /\ owner[n] = None
  /\ owner' = [owner EXCEPT ![n] = p]
  /\ UNCHANGED store

Update(p, n, v) ==
  /\ owner[n] = p
  /\ store' = [store EXCEPT ![n] = v]
  /\ UNCHANGED owner

Give(p, n) ==
  /\ owner[n] = p
  /\ owner' = [owner EXCEPT ![n] = None]
  /\ UNCHANGED store

SNext ==
  \E p \in Proc, n \in Block :
    Take(p, n) \/ Give(p, n) \/ \E v \in Value : Update(p, n, v)

SSpec == SInit /\ [][SNext]_svars
=============================================================================
