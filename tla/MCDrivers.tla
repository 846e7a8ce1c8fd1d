----------------------------- MODULE MCDrivers ------------------------------
(***************************************************************************)
(* The drivers of the disk and of the console, safety.  They share nothing *)
(* in the model, so they stand side by side: a behavior picks one (dev)    *)
(* and the other stays in its initial state.                               *)
(*                                                                         *)
(* The disk has six descriptors, for two requests that overlap.            *)
(***************************************************************************)
EXTENDS VirtioDisk, ConsoleInput, TLC

VARIABLE dev

\* Two readers compete for a buffer of three characters, which is full after
\* three keys and wraps twice before the indexes do.
ASSUME InputAssumption == Input!ConsoleConstants

cVars == <<cBuf, r, w, e, cLock, cPc, target, left, killed>>
allVars == <<dev, vars, cVars>>

MCInit == dev \in {"disk", "console"} /\ Init /\ Input!Init

MCNext ==
  /\ \/ dev = "disk" /\ Next /\ UNCHANGED cVars
     \/ dev = "console" /\ Input!Next /\ UNCHANGED vars
  /\ UNCHANGED dev

MCSpec == MCInit /\ [][MCNext]_allVars

Perms == Permutations(Proc) \cup Permutations(Value) \cup Permutations(Reader)
=============================================================================
