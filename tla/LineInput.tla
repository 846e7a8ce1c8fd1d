----------------------------- MODULE LineInput ------------------------------
(***************************************************************************)
(* What console input promises: keys are collected in a line that can      *)
(* still be edited; the end of the line, the end of the file or a full     *)
(* buffer makes the line ready, and ready characters are taken in order    *)
(* and cannot be edited any more.                                          *)
(***************************************************************************)
EXTENDS Integers, Sequences

CONSTANTS Char, Ends, Size

VARIABLES ready, line

IInit == ready = <<>> /\ line = <<>>

Insert(c) ==
  /\ Len(ready) + Len(line) < Size
  /\ IF c \in Ends \/ Len(ready) + Len(line) + 1 = Size
     THEN ready' = ready \o Append(line, c) /\ line' = <<>>
     ELSE line' = Append(line, c) /\ UNCHANGED ready

Erase == line # <<>> /\ line' = SubSeq(line, 1, Len(line) - 1) /\ UNCHANGED ready

KillLine == line # <<>> /\ line' = <<>> /\ UNCHANGED ready

Take == ready # <<>> /\ ready' = Tail(ready) /\ UNCHANGED line

INext == (\E c \in Char : Insert(c)) \/ Erase \/ KillLine \/ Take

ISpec == IInit /\ [][INext]_<<ready, line>>
=============================================================================
