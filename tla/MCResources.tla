---------------------------- MODULE MCResources -----------------------------
(***************************************************************************)
(* What the kernel hands out and must get back: inodes and directory       *)
(* entries (FileSystem), disk blocks (FileData), physical pages (Memory).  *)
(* The three do not interact in the model, so they stand side by side: a   *)
(* behavior picks one (part) and the others stand still.                   *)
(***************************************************************************)
EXTENDS FileSystem
CONSTANTS p1, p2

VARIABLES
  part,
  dFs, dStable, dIno, dLock, dActive, dLogged, dLh, dPc, dFile, dOff, dN, dI, dN1, dWoff, dTot, dLeft,
  mMem, mProc, mRet, mPanic

-----------------------------------------------------------------------------
(* FileSystem: four inodes and two processes, each with three calls.       *)

MCProc == {p1, p2}
MCName == {"a", "b"}

Dir(d, up, a, b) == [type |-> "dir", nlink |-> 1,
                     ents |-> [e \in Entry |-> CASE e = "." -> d [] e = ".." -> up [] e = "a" -> a [] e = "b" -> b]]

\* mkfs put one file in the root directory.
MCTree == [i \in Inum |-> CASE i = 1 -> Dir(1, 1, 0, 2)
                             [] i = 2 -> [Free EXCEPT !.type = "file", !.nlink = 1]
                             [] OTHER -> Free]

A    == <<"/", "a">>
B    == <<"/", "b">>
AB   == <<"/", "a", "b">>
BA   == <<"/", "b", "a">>
RelB == <<"b">>

Close == [op |-> "close"]
Create(w) == [op |-> "create", path |-> w]
Mkdir(w)  == [op |-> "mkdir", path |-> w]
Unlink(w) == [op |-> "unlink", path |-> w]
Chdir(w)  == [op |-> "chdir", path |-> w]
Link(w, v)  == [op |-> "link", path |-> w, new |-> v]
Open(w, rw) == [op |-> "open", path |-> w, write |-> rw]
Mknod(w, ty) == [op |-> "mknod", path |-> w, type |-> ty]

\* One process makes and removes a directory and a file in it, which the
\* other links, removes and moves into.  No call names "..": ".." of a
\* removed directory may name an inode that is free, and the kernel panics in
\* ilock() when a path goes through it.
MCCalls == [p \in Proc |->
  IF p = p1 THEN {Mkdir(A), Unlink(A), Create(AB), Close}
  ELSE {Chdir(A), Link(B, AB), Unlink(RelB)}]

\* The refusals: ill-formed paths, wrong types, a device without a driver.
MCRefused == [p \in Proc |->
  IF p = p1 THEN {Mknod(A, "baddev"), Open(A, FALSE), Create(B)}
  ELSE {Unlink(<<"/">>), Unlink(BA), Unlink(<<".">>), Chdir(B), Open(<<"/">>, TRUE), Link(<<"/">>, A), Link(B, RelB), Mkdir(A)}]

MCWorkloads == {MCCalls, MCRefused}

-----------------------------------------------------------------------------
(* FileData: two processes, three files in eleven blocks of two bytes, one *)
(* direct block a file.  A write of four bytes needs two blocks and an     *)
(* indirect one, three bits of the bitmap are in a block, and the disk     *)
(* fills up.                                                               *)

MCFiles == <<<<1, 2, 1>>, <<>>, <<>>>>
MCByte(p, k) == IF p = p1 THEN 1 + (k % 2) ELSE 3

Data == INSTANCE FileData WITH
  FSSIZE <- 11, BSIZE <- 2, NDIRECT <- 1, Files <- MCFiles, MAXOPBLOCKS <- 6, BPB <- 3,
  Lengths <- {1, 4}, Byte <- MCByte, MaxCalls <- 2,
  fs <- dFs, stable <- dStable, ino <- dIno, lock <- dLock, active <- dActive, logged <- dLogged, lh <- dLh,
  pc <- dPc, file <- dFile, off <- dOff, n <- dN, i <- dI, n1 <- dN1, woff <- dWoff,
  tot <- dTot, left <- dLeft

-----------------------------------------------------------------------------
(* Memory: two processes and 16 pages, which is enough for both to run    *)
(* and for each call to run out of memory half-way.                        *)

MCFANOUT == [l \in 0 .. 2 |-> IF l = 2 THEN 4 ELSE 2]

MCSizes == {3, -1, -3, -50}

Prog(segs, nargs, elf, fits) == [segs |-> segs, nargs |-> nargs, elf |-> elf, fits |-> fits]
Seg(va, fs, ms, short) == [vaddr |-> va, filesz |-> fs, memsz |-> ms, short |-> short]

\* A program, one with two segments, and the ways a file can be wrong.
MCPrograms == {
  Prog(<<Seg(0, 1, 1, FALSE)>>, 1, TRUE, TRUE),
  Prog(<<Seg(0, 1, 3, FALSE), Seg(4, 1, 1, TRUE)>>, 0, TRUE, TRUE),
  Prog(<<Seg(0, 2, 2, FALSE), Seg(1, 1, 1, FALSE)>>, 0, TRUE, TRUE),
  Prog(<<Seg(0, 2, 1, FALSE)>>, 0, TRUE, TRUE),
  Prog(<<Seg(0, 1, 1, FALSE)>>, 0, TRUE, FALSE),
  Prog(<<>>, 0, FALSE, TRUE)}

Mem == INSTANCE Memory WITH
  Slot <- {1, 2}, NPAGES <- 16, PGSIZE <- 2, FANOUT <- MCFANOUT, WORD <- 100,
  Programs <- MCPrograms, Sizes <- MCSizes, Values <- {0, 1},
  mem <- mMem, proc <- mProc, ret <- mRet, panic <- mPanic

-----------------------------------------------------------------------------
dVars == <<dFs, dStable, dIno, dLock, dActive, dLogged, dLh, dPc, dFile, dOff, dN, dI, dN1, dWoff, dTot, dLeft>>
mVars == <<mMem, mProc, mRet, mPanic>>
allVars == <<part, fsVars, dVars, mVars>>

DataIdle ==
  /\ dFs = 0 /\ dStable = 0 /\ dIno = 0 /\ dLock = 0 /\ dActive = 0 /\ dLogged = 0 /\ dLh = 0 /\ dPc = 0 /\ dFile = 0
  /\ dOff = 0 /\ dN = 0 /\ dI = 0 /\ dN1 = 0 /\ dWoff = 0 /\ dTot = 0 /\ dLeft = 0

MemIdle == mMem = 0 /\ mProc = 0 /\ mRet = 0 /\ mPanic = 0

MCInit ==
  \/ part = "names" /\ Init /\ DataIdle /\ MemIdle
  \/ part = "data" /\ Init /\ calls = MCCalls /\ Data!Init /\ MemIdle
  \/ part = "memory" /\ Init /\ calls = MCCalls /\ DataIdle /\ Mem!Init

MCNext ==
  /\ \/ part = "names" /\ Next /\ UNCHANGED <<dVars, mVars>>
     \/ part = "data" /\ Data!Next /\ UNCHANGED <<fsVars, mVars>>
     \/ part = "memory" /\ Mem!Next /\ UNCHANGED <<fsVars, dVars>>
  /\ UNCHANGED part

MCSpec == MCInit /\ [][MCNext]_allVars

\* TLC tells states of Memory apart by what the processes see; the equality
\* makes it evaluate all of mMem, which it must to store the state.
MCView == <<part, fsVars, IF part = "memory" THEN <<Mem!Canonical, mMem = mMem>> ELSE dVars>>

-----------------------------------------------------------------------------
\* No block belongs to two files, or to a file and the free list: see FileData
\* (kernel/fs.c balloc(), bmap(), itrunc()).
BlocksOwnedOnce == part = "data" => Data!BlocksOwnedOnce

\* A file holds what was written, or what a copy that failed has left there: see
\* FileData (kernel/fs.c readi(), writei()).
FileIsBytes == part = "data" => Data!FileIsBytes

\* A system call writes no more blocks than it reserved: see FileData
\* (kernel/file.c filewrite()).
WithinReservation == part = "data" => Data!WithinReservation

\* No page is lost or used twice: see Memory (kernel/vm.c, kernel/exec.c).
PagesOnce == part = "memory" => Mem!PagesOnce

\* An address space is what p->sz says: see Memory (kernel/vm.c).
ImageIsSize == part = "memory" => Mem!ImageIsSize

\* A process changes only its own memory: see Memory (kernel/vm.c uvmcopy(),
\* kernel/exec.c).
Isolation == [][part = "memory" => Mem!Isolated]_allVars
=============================================================================
