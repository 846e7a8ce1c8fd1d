------------------------------ MODULE Console -------------------------------
(***************************************************************************)
(* Console input: consoleread() and consoleintr() of kernel/console.c.     *)
(*                                                                         *)
(* consoleintr() holds cons.lock from its first to its last access, so it  *)
(* is one step.  The lock has an explicit holder while a process reads,    *)
(* because kill() may come between two iterations.  Keys are names; echo   *)
(* is left out (see Uart).  The indexes r, w and e are unsigned and wrap   *)
(* at Wrap (2^32 in C).                                                    *)
(***************************************************************************)
EXTENDS Integers, Sequences

CONSTANTS Reader,
          Letter,          \* the keys without a special meaning
          INPUT_BUF_SIZE,
          Wrap,            \* the indexes are modulo Wrap
          MaxLen,          \* longest read()
          None

Ends == {"newline", "^D"}
Char == Letter \cup Ends

\* What the code takes for granted of its constants.
ConsoleConstants ==
  /\ INPUT_BUF_SIZE \in Nat \ {0} /\ Wrap \in Nat /\ MaxLen \in Nat
  /\ INPUT_BUF_SIZE < Wrap /\ Wrap % INPUT_BUF_SIZE = 0
  /\ None \notin Reader

VARIABLES
  buf, r, w, e,   \* cons
  lock,           \* holder of cons.lock
  pc,
  target, left,   \* bytes asked for by a read(), and n
  killed

inputVars == <<buf, r, w, e>>
vars == <<buf, r, w, e, lock, pc, target, left, killed>>

Slot == 0 .. INPUT_BUF_SIZE - 1
Index == 0 .. Wrap - 1

TypeOK ==
  /\ buf \in [Slot -> Char \cup {None}]
  /\ r \in Index /\ w \in Index /\ e \in Index
  /\ lock \in Reader \cup {None}
  /\ pc \in [Reader -> {"user", "acquire", "loop", "doze", "sleep"}]
  /\ target \in [Reader -> 0 .. MaxLen] /\ left \in [Reader -> 0 .. MaxLen]
  /\ killed \in [Reader -> {0, 1}]

Init ==
  /\ buf = [i \in Slot |-> None]
  /\ r = 0 /\ w = 0 /\ e = 0
  /\ lock = None
  /\ pc = [p \in Reader |-> "user"]
  /\ target = [p \in Reader |-> 0] /\ left = [p \in Reader |-> 0]
  /\ killed = [p \in Reader |-> 0]

-----------------------------------------------------------------------------
(* consoleintr()                                                           *)

\* wakeup(&cons.r)
WakeReaders == [p \in Reader |-> IF pc[p] = "sleep" THEN "acquire" ELSE pc[p]]

\* The condition under which the line is handed to consoleread().
Completes(c) == c \in Ends \/ (e + 1 - r) % Wrap = INPUT_BUF_SIZE

\* Mutant: readers are woken only for a whole line.
StoreKey_WakesForLine(c) ==
  /\ lock = None
  /\ (e - r) % Wrap < INPUT_BUF_SIZE
  /\ buf' = [buf EXCEPT ![e % INPUT_BUF_SIZE] = c]
  /\ e' = (e + 1) % Wrap
  /\ w' = IF Completes(c) THEN e' ELSE w
  /\ pc' = IF c \in Ends THEN WakeReaders ELSE pc
  /\ UNCHANGED <<r, lock, target, left, killed>>

\* An ordinary key is stored while there is room.
StoreKey(c) ==
  /\ lock = None
  /\ (e - r) % Wrap < INPUT_BUF_SIZE
  /\ buf' = [buf EXCEPT ![e % INPUT_BUF_SIZE] = c]
  /\ e' = (e + 1) % Wrap
  /\ w' = IF Completes(c) THEN e' ELSE w
  /\ pc' = IF Completes(c) THEN WakeReaders ELSE pc
  /\ UNCHANGED <<r, lock, target, left, killed>>

\* Mutant: backspace does not stop at the write index.
Backspace_Ready ==
  /\ lock = None /\ e # r
  /\ e' = (e - 1) % Wrap
  /\ UNCHANGED <<buf, r, w, lock, pc, target, left, killed>>

\* ^H and delete.
Backspace ==
  /\ lock = None /\ e # w
  /\ e' = (e - 1) % Wrap
  /\ UNCHANGED <<buf, r, w, lock, pc, target, left, killed>>

\* Where ^U stops: at the write index, or behind a newline.
KillStop(x) ==
  /\ x = w \/ buf[(x - 1) % INPUT_BUF_SIZE] = "newline"
  /\ \A k \in 0 .. ((e - x) % Wrap) - 1 :
       LET y == (e - k) % Wrap IN y # w /\ buf[(y - 1) % INPUT_BUF_SIZE] # "newline"

\* ^U
KillLine ==
  /\ lock = None
  /\ \E x \in Index : KillStop(x) /\ (e - x) % Wrap <= INPUT_BUF_SIZE /\ e' = x
  /\ UNCHANGED <<buf, r, w, lock, pc, target, left, killed>>

\* ^P prints the processes; NUL, and a key without room, is dropped.
IgnoreKey == lock = None /\ UNCHANGED vars

\* '\r' becomes '\n', so both are the key "newline".
Consoleintr ==
  \/ \E c \in Char : StoreKey(c)
  \/ Backspace \/ KillLine \/ IgnoreKey

-----------------------------------------------------------------------------
(* consoleread()                                                           *)

Return(p) ==
  /\ lock' = None
  /\ pc' = [pc EXCEPT ![p] = "user"]
  /\ left' = [left EXCEPT ![p] = 0]
  /\ target' = [target EXCEPT ![p] = 0]

ReadCall(p, n) ==
  /\ pc[p] = "user" /\ killed[p] = 0
  /\ pc' = [pc EXCEPT ![p] = "acquire"]
  /\ target' = [target EXCEPT ![p] = n]
  /\ left' = [left EXCEPT ![p] = n]
  /\ UNCHANGED <<inputVars, lock, killed>>

ReadAcquire(p) ==
  /\ pc[p] = "acquire" /\ lock = None
  /\ lock' = p
  /\ pc' = [pc EXCEPT ![p] = "loop"]
  /\ UNCHANGED <<inputVars, target, left, killed>>

\* Nothing ready, and the process was killed.
ReadKilled(p) ==
  /\ pc[p] = "loop" /\ left[p] > 0 /\ r = w /\ killed[p] = 1
  /\ Return(p)
  /\ UNCHANGED <<inputVars, killed>>

ReadWait(p) ==
  /\ pc[p] = "loop" /\ left[p] > 0 /\ r = w /\ killed[p] = 0
  /\ pc' = [pc EXCEPT ![p] = "doze"]
  /\ UNCHANGED <<inputVars, lock, target, left, killed>>

\* sleep(&cons.r, &cons.lock)
ReadSleep(p) ==
  /\ pc[p] = "doze"
  /\ lock' = None
  /\ pc' = [pc EXCEPT ![p] = "sleep"]
  /\ UNCHANGED <<inputVars, target, left, killed>>

Ready == buf[r % INPUT_BUF_SIZE]

\* Mutant: ^D is consumed by the read() that it cuts short.
ReadEof_Consumes(p) ==
  /\ pc[p] = "loop" /\ left[p] > 0 /\ r # w /\ Ready = "^D"
  /\ r' = (r + 1) % Wrap
  /\ Return(p)
  /\ UNCHANGED <<buf, w, e, killed>>

\* ^D ends the read(), and is kept for the next one unless this one is
\* going to return 0.
ReadEof(p) ==
  /\ pc[p] = "loop" /\ left[p] > 0 /\ r # w /\ Ready = "^D"
  /\ r' = IF left[p] < target[p] THEN r ELSE (r + 1) % Wrap
  /\ Return(p)
  /\ UNCHANGED <<buf, w, e, killed>>

\* A character is copied out; the read() goes on unless it was a newline.
ReadChar(p) ==
  /\ pc[p] = "loop" /\ left[p] > 0 /\ r # w /\ Ready # "^D"
  /\ r' = (r + 1) % Wrap
  /\ \/ Ready = "newline" /\ Return(p)
     \/ /\ Ready # "newline"
        /\ left' = [left EXCEPT ![p] = @ - 1]
        /\ UNCHANGED <<lock, pc, target>>
  /\ UNCHANGED <<buf, w, e, killed>>

\* either_copyout() fails: the character is lost.
ReadFault(p) ==
  /\ pc[p] = "loop" /\ left[p] > 0 /\ r # w /\ Ready # "^D"
  /\ r' = (r + 1) % Wrap
  /\ Return(p)
  /\ UNCHANGED <<buf, w, e, killed>>

ReadDone(p) ==
  /\ pc[p] = "loop" /\ left[p] = 0
  /\ Return(p)
  /\ UNCHANGED <<inputVars, killed>>

Kill(p) ==
  /\ killed[p] = 0
  /\ killed' = [killed EXCEPT ![p] = 1]
  /\ pc' = [pc EXCEPT ![p] = IF @ = "sleep" THEN "acquire" ELSE @]
  /\ UNCHANGED <<inputVars, lock, target, left>>

-----------------------------------------------------------------------------

ReadStep(p) ==
  \/ ReadAcquire(p) \/ ReadKilled(p) \/ ReadWait(p) \/ ReadSleep(p)
  \/ ReadEof(p) \/ ReadChar(p) \/ ReadFault(p) \/ ReadDone(p)

Next ==
  \/ Consoleintr
  \/ \E p \in Reader :
       ReadStep(p) \/ Kill(p) \/ \E n \in 0 .. MaxLen : ReadCall(p, n)

Spec == Init /\ [][Next]_vars

-----------------------------------------------------------------------------
(* Properties.                                                             *)

\* The characters from index i to index j.
Between(i, j) == [k \in 1 .. (j - i) % Wrap |-> buf[(i + k - 1) % INPUT_BUF_SIZE]]

Abstract == INSTANCE LineInput WITH
  Size <- INPUT_BUF_SIZE, ready <- Between(r, w), line <- Between(w, e)

\* console.c implements LineInput, across the wrap-around of its indexes:
\* editing never reaches what is ready, nothing is overwritten or reordered,
\* and ^U removes the whole unfinished line.
IsLineInput == Abstract!ISpec

\* The variables have their types, and a reader sleeps only while there is
\* nothing to read (consoleread() and wakeup() in consoleintr()).
ConsoleInv ==
  TypeOK /\ (lock = None /\ r # w => \A p \in Reader : pc[p] # "sleep")

\* "make sure caller gets a 0-byte result": ^D goes away only in a read()
\* that has not returned anything before it.
EofAnswersZero ==
  [][Ready = "^D" /\ r # w /\ r' # r =>
       \E p \in Reader : lock = p /\ left[p] = target[p] /\ pc'[p] = "user"]_vars
=============================================================================
