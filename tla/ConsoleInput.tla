---------------------------- MODULE ConsoleInput ----------------------------
(***************************************************************************)
(* Console under names that let it stand beside another driver, with the   *)
(* properties that are checked and proved of it.                           *)
(***************************************************************************)
CONSTANTS Reader, Letter, INPUT_BUF_SIZE, InputWrap, MaxLen,
          Nothing \* a free cons.lock, an unused entry of cons.buf

VARIABLES cBuf, r, w, e, cLock, cPc, target, left, killed

Input == INSTANCE Console WITH
  None <- Nothing, Wrap <- InputWrap, buf <- cBuf, lock <- cLock, pc <- cPc

\* A reader sleeps only while there is nothing to read: see Console
\* (kernel/console.c consoleread()).
ConsoleInv == Input!ConsoleInv

\* console.c implements LineInput: see Console (kernel/console.c consoleintr()).
IsLineInput == Input!IsLineInput

\* ^D is answered with a read() of no bytes: see Console (kernel/console.c
\* consoleread()).
EofAnswersZero == Input!EofAnswersZero
=============================================================================
