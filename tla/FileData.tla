------------------------------ MODULE FileData ------------------------------
(***************************************************************************)
(* The contents of files: the block bitmap (balloc, bfree), the map from   *)
(* a file's blocks to disk blocks with its indirect block (bmap, itrunc),  *)
(* readi() and writei() of kernel/fs.c, and the loops of fileread() and    *)
(* filewrite() (kernel/file.c), which cut a write into transactions.       *)
(*                                                                         *)
(* Processes work on files of the image mkfs made, which are open for good *)
(* reasons of their own: each has one at a time, with its offset.  A turn  *)
(* of writei()'s loop is a step, so that processes compete for blocks.  A  *)
(* copy from user memory may fail behind any byte: what it has copied then *)
(* stays in the buffer, which nobody logs.  When no operation is active,   *)
(* the blocks that were logged become stable; a buffer whose block is not  *)
(* in the log may be recycled, and the block is then what it was.          *)
(***************************************************************************)
EXTENDS Mkfs, FiniteSets, FiniteSetsExt

CONSTANTS Proc, MAXOPBLOCKS, BPB,
          None,
          Lengths,   \* lengths of read() and write()
          Byte(_, _),   \* Byte(p, i): the i-th byte that process p writes
          MaxCalls   \* bound: calls of each process

VARIABLES
  fs,      \* the disk as the buffer cache shows it; bytes[f] are the bytes that
           \* f may hold: at each place the one written last, and those that a
           \* copy that failed has put there since
  stable,  \* the disk as a reboot would find it
  ino,     \* size and addrs of the inodes in memory
  lock,    \* holder of each inode's lock
  active,  \* processes between begin_op() and end_op()
  logged,  \* blocks each has given to log_write() since its last begin_op()
  lh,      \* data blocks in the log header: logged since the last commit
  pc,
  file, off,        \* the open file: its inode and f->off
  n, i,             \* filewrite(): arguments and how much is done
  n1, woff, tot,    \* writei(): its n, off and tot
  left              \* calls each process still makes (a bound of the model)

vars == <<fs, stable, ino, lock, active, logged, lh, pc, file, off, n, i, n1, woff, tot, left>>

Inum == 1 .. NINODES
max  == ((MAXOPBLOCKS - 1 - 1 - 2) \div 2) * BSIZE

Minimum(a, b) == IF a < b THEN a ELSE b

(* What one step of a process works on: the disk, the inodes in memory, the
   blocks it logs, the block number that balloc() or bmap() returned, and
   whether it has panicked. *)
Work(p) == [used |-> fs.used, blk |-> fs.blk, ino |-> ino, log |-> logged[p], addr |-> 0, panic |-> FALSE]

-----------------------------------------------------------------------------
(* balloc(), bfree(), bmap(), itrunc()                                     *)

BBLOCK(b) == <<"bitmap", b \div BPB>>
DBLOCK(b) == <<"data", b>>

\* Mutant: the bit is not set.
Balloc_Unmarked(w) ==
  LET free == Block \ w.used
      b    == Min(free)
  IN  IF free = {} THEN [w EXCEPT !.addr = 0]
      ELSE [w EXCEPT !.addr = b, !.blk[b] = Zeroes, !.log = @ \cup {BBLOCK(b), DBLOCK(b)}]

\* Mutant: the block keeps the bytes of its last file.
Balloc_Dirty(w) ==
  LET free == Block \ w.used
      b    == Min(free)
  IN  IF free = {} THEN [w EXCEPT !.addr = 0]
      ELSE [w EXCEPT !.addr = b, !.used = @ \cup {b}, !.log = @ \cup {BBLOCK(b), DBLOCK(b)}]

\* Mark the first free block, and zero it.
Balloc(w) ==
  LET free == Block \ w.used
      b    == Min(free)
  IN  IF free = {} THEN [w EXCEPT !.addr = 0]
      ELSE [w EXCEPT !.addr = b, !.used = @ \cup {b}, !.blk[b] = Zeroes,
                     !.log = @ \cup {BBLOCK(b), DBLOCK(b)}]

Bfree(w, b) ==
  IF b \notin w.used THEN [w EXCEPT !.panic = TRUE]
  ELSE [w EXCEPT !.used = @ \ {b}, !.log = @ \cup {BBLOCK(b)}]

\* addrs[k] of inode f, allocated if there is none.
Addr(w, f, k) ==
  IF w.ino[f].addrs[k] # 0 THEN [w EXCEPT !.addr = w.ino[f].addrs[k]]
  ELSE LET v == Balloc(w) IN [v EXCEPT !.ino[f].addrs[k] = v.addr]

Bmap(w, f, bn) ==
  IF bn < NDIRECT THEN Addr(w, f, bn)
  ELSE LET u == Addr(w, f, NDIRECT)
           k == bn - NDIRECT
       IN  IF u.addr = 0 THEN u
           ELSE IF u.blk[u.addr][k] # 0 THEN [u EXCEPT !.addr = u.blk[u.addr][k]]
           ELSE LET v == Balloc(u)
                IN  IF v.addr = 0 THEN v
                    ELSE [v EXCEPT !.blk[u.addr][k] = v.addr, !.log = @ \cup {DBLOCK(u.addr)}]

FreeDirect(w, f) ==
  LET Step(v, k) == IF v.ino[f].addrs[k] = 0 THEN v
                    ELSE [Bfree(v, v.ino[f].addrs[k]) EXCEPT !.ino[f].addrs[k] = 0]
  IN  FoldLeft(Step, w, [k \in 1 .. NDIRECT |-> k - 1])

FreeIndirect(w, f) ==
  LET a == w.ino[f].addrs[NDIRECT]
      Step(v, k) == IF v.blk[a][k] = 0 THEN v ELSE Bfree(v, v.blk[a][k])
  IN  IF a = 0 THEN w
      ELSE [Bfree(FoldLeft(Step, w, [k \in 1 .. NINDIRECT |-> k - 1]), a)
              EXCEPT !.ino[f].addrs[NDIRECT] = 0]

-----------------------------------------------------------------------------
Init ==
  /\ fs = [used |-> UsedAtStart(Image), blk |-> Image.blk, ino |-> Image.ino,
           bytes |-> [f \in Inum |->
             IF f \in 2 .. Len(Files) + 1 THEN [k \in DOMAIN Files[f - 1] |-> {Files[f - 1][k]}] ELSE <<>>]]
  /\ stable = fs
  /\ ino = fs.ino
  /\ lock = [f \in Inum |-> None]
  /\ active = {}
  /\ logged = [p \in Proc |-> {}] /\ lh = {}
  /\ pc = [p \in Proc |-> "user"]
  /\ file = [p \in Proc |-> 2]
  /\ off = [p \in Proc |-> 0] /\ n = off /\ i = off /\ n1 = off /\ woff = off /\ tot = off
  /\ left = [p \in Proc |-> MaxCalls]

Crash ==
  /\ active # {}
  /\ fs' = stable /\ UNCHANGED stable
  /\ ino' = stable.ino
  /\ lock' = [f \in Inum |-> None]
  /\ active' = {}
  /\ logged' = [p \in Proc |-> {}] /\ lh' = {}
  /\ pc' = [p \in Proc |-> "user"]
  /\ file' = [p \in Proc |-> 2]
  /\ off' = [p \in Proc |-> 0] /\ n' = off' /\ i' = off' /\ n1' = off' /\ woff' = off' /\ tot' = off'
  /\ UNCHANGED left

\* bget() takes the buffer of a block that the log does not pin: what was not
\* logged of it is lost.
Recycle(b) ==
  /\ b \notin lh /\ fs.blk[b] # stable.blk[b]
  /\ fs' = [fs EXCEPT !.blk[b] = stable.blk[b]]
  /\ UNCHANGED <<stable, ino, lock, active, logged, lh, pc, file, off, n, i, n1, woff, tot, left>>

Goto(p, label) == pc' = [pc EXCEPT ![p] = label]

\* begin_op() and ilock().
Enter(p, f) ==
  /\ lock[f] = None
  /\ lock' = [lock EXCEPT ![f] = p]
  /\ active' = active \cup {p}

\* iunlock() and end_op(), which commits the blocks in the log if no other
\* operation is active.
Release(p, f) ==
  /\ lock' = [lock EXCEPT ![f] = None]
  /\ active' = active \ {p}
  /\ IF active = {p}
     THEN /\ stable' = [fs' EXCEPT !.blk = [b \in DOMAIN @ |-> IF b \in lh THEN @[b] ELSE stable.blk[b]]]
          /\ lh' = {}
     ELSE UNCHANGED <<stable, lh>>

\* iupdate() and the end of the operation: memory m goes to the disk d.
Leave(p, f, d, m) ==
  /\ fs' = [d EXCEPT !.ino[f] = m[f]]
  /\ ino' = m
  /\ Release(p, f)

Calls(p) == pc[p] = "user" /\ left[p] > 0 /\ left' = [left EXCEPT ![p] = @ - 1]

-----------------------------------------------------------------------------
(* open(), with and without O_TRUNC                                        *)

Open(p, f) ==
  /\ Calls(p)
  /\ file' = [file EXCEPT ![p] = f]
  /\ off' = [off EXCEPT ![p] = 0]
  /\ UNCHANGED <<fs, stable, ino, lock, active, logged, lh, pc, n, i, n1, woff, tot>>

\* itrunc() up to the indirect block ...
TruncDirect(p, f) ==
  /\ Calls(p) /\ Enter(p, f)
  /\ file' = [file EXCEPT ![p] = f]
  /\ LET w == FreeDirect([Work(p) EXCEPT !.log = {}], f)
     IN  /\ fs' = [fs EXCEPT !.used = w.used, !.bytes[f] = <<>>]
         /\ ino' = w.ino
         /\ logged' = [logged EXCEPT ![p] = w.log]
         /\ Goto(p, IF w.panic THEN "panic" ELSE "trunc")
  /\ UNCHANGED <<stable, lh, off, n, i, n1, woff, tot>>

\* ... and from there on.
TruncIndirect(p) ==
  /\ pc[p] = "trunc"
  /\ LET w == FreeIndirect(Work(p), file[p])
     IN  /\ Leave(p, file[p], [fs EXCEPT !.used = w.used], [w.ino EXCEPT ![file[p]].size = 0])
         /\ logged' = [logged EXCEPT ![p] = w.log]
         /\ Goto(p, IF w.panic THEN "panic" ELSE "user")
  /\ off' = [off EXCEPT ![p] = 0]
  /\ UNCHANGED <<file, n, i, n1, woff, tot, left>>

-----------------------------------------------------------------------------
(* fileread()                                                              *)

\* readi(): how many bytes it copies, -1 if the copy fails.
Readi(f, o, len, ok) ==
  LET m == IF o > ino[f].size THEN 0 ELSE Minimum(len, ino[f].size - o)
  IN  IF m > 0 /\ ~ok THEN -1 ELSE m

Read(p) ==
  /\ Calls(p) /\ lock[file[p]] = None
  /\ \E len \in Lengths, ok \in BOOLEAN :
       LET r == Readi(file[p], off[p], len, ok)
       IN  off' = [off EXCEPT ![p] = IF r > 0 THEN @ + r ELSE @]
  /\ UNCHANGED <<fs, stable, ino, lock, active, logged, lh, pc, file, n, i, n1, woff, tot>>

-----------------------------------------------------------------------------
(* filewrite()                                                             *)

Write(p) ==
  /\ Calls(p)
  /\ \E len \in Lengths : n' = [n EXCEPT ![p] = len]
  /\ i' = [i EXCEPT ![p] = 0]
  /\ Goto(p, "write")
  /\ UNCHANGED <<fs, stable, ino, lock, active, logged, lh, file, off, n1, woff, tot>>

\* Mutant: the whole write in one transaction.
Chunk_All(len) == len

\* The part of a write that is one transaction.
Chunk(len) == Minimum(len, max)

\* The tests at the start of writei().
Refused(f, o, len) == o > ino[f].size \/ o + len > MAXFILE * BSIZE

\* begin_op(), ilock(); writei() starts its loop or refuses.
WriteBegin(p) ==
  /\ pc[p] = "write" /\ Enter(p, file[p])
  /\ n1' = [n1 EXCEPT ![p] = Chunk(n[p] - i[p])]
  /\ woff' = [woff EXCEPT ![p] = off[p]]
  /\ tot' = [tot EXCEPT ![p] = 0]
  /\ logged' = [logged EXCEPT ![p] = {}]
  /\ Goto(p, IF Refused(file[p], off[p], Chunk(n[p] - i[p])) THEN "refused" ELSE "writei")
  /\ UNCHANGED <<fs, stable, ino, lh, file, off, n, i, left>>

\* The bytes that may be in a file after those of d were written at offset o.
Overwrite(s, o, d) ==
  [k \in 1 .. (IF o + Len(d) > Len(s) THEN o + Len(d) ELSE Len(s)) |->
     IF k > o /\ k <= o + Len(d) THEN {d[k - o]} ELSE s[k]]

\* The same after a copy to offset o that failed behind d.
Torn(s, o, d) == [k \in DOMAIN s |-> IF k > o /\ k <= o + Len(d) THEN s[k] \cup {d[k - o]} ELSE s[k]]

\* either_copyin() of the bytes d into the block, at o.
Copied(w, o, d) ==
  [w EXCEPT !.blk[w.addr] = [k \in DOMAIN @ |-> IF k >= o /\ k < o + Len(d) THEN d[k - o + 1] ELSE @[k]]]

\* Mutant: the block is not logged.
LogWrite_None(w) == w

LogWrite(w) == [w EXCEPT !.log = @ \cup {DBLOCK(w.addr)}]

\* A turn of the loop leaves blocks, inode and log as w has them, and the bytes b.
Turn(p, w, b) ==
  /\ fs' = [fs EXCEPT !.used = w.used, !.blk = w.blk, !.bytes[file[p]] = b]
  /\ ino' = w.ino
  /\ logged' = [logged EXCEPT ![p] = w.log]
  /\ lh' = lh \cup {a \in Block : DBLOCK(a) \in w.log}

\* One turn of the loop.  When bmap() or the copy fails, the loop ends; what
\* bmap() has allocated stays with the inode, and what was copied in the buffer.
WriteBlock(p) ==
  /\ pc[p] = "writei" /\ tot[p] < n1[p]
  /\ LET w == Bmap(Work(p), file[p], woff[p] \div BSIZE)
         m == Minimum(n1[p] - tot[p], BSIZE - (woff[p] % BSIZE))
         o == woff[p] % BSIZE
         bytes == fs.bytes[file[p]]
         Data(len) == [k \in 1 .. len |-> Byte(p, i[p] + tot[p] + k)]
     IN  \/ /\ w.addr # 0
            /\ Turn(p, LogWrite(Copied(w, o, Data(m))), Overwrite(bytes, woff[p], Data(m)))
            /\ tot' = [tot EXCEPT ![p] = @ + m]
            /\ woff' = [woff EXCEPT ![p] = @ + m]
            /\ UNCHANGED pc
         \/ /\ w.addr # 0
            /\ \E len \in 0 .. m - 1 : Turn(p, Copied(w, o, Data(len)), Torn(bytes, woff[p], Data(len)))
            /\ Goto(p, "written")
            /\ UNCHANGED <<tot, woff>>
         \/ /\ w.addr = 0
            /\ Turn(p, w, bytes)
            /\ Goto(p, "written")
            /\ UNCHANGED <<tot, woff>>
  /\ UNCHANGED <<stable, lock, active, file, off, n, i, n1, left>>

\* Where filewrite() goes after a writei() that returned r.
After(p, r) ==
  /\ i' = [i EXCEPT ![p] = IF r = n1[p] THEN @ + r ELSE @]
  /\ Goto(p, IF r = n1[p] /\ i[p] + r < n[p] THEN "write" ELSE "user")
  /\ n1' = [n1 EXCEPT ![p] = 0] /\ woff' = [woff EXCEPT ![p] = 0] /\ tot' = [tot EXCEPT ![p] = 0]

\* Mutant: the size is brought up to date only after a complete write.
WriteEnd_Size(p) ==
  /\ pc[p] = "written" \/ (pc[p] = "writei" /\ tot[p] = n1[p])
  /\ LET f == file[p]
     IN  Leave(p, f, fs, [ino EXCEPT ![f].size = IF tot[p] = n1[p] /\ woff[p] > @ THEN woff[p] ELSE @])
  /\ off' = [off EXCEPT ![p] = @ + tot[p]]
  /\ After(p, tot[p])
  /\ UNCHANGED <<logged, file, n, left>>

\* The end of writei(), iunlock(), end_op().
WriteEnd(p) ==
  /\ pc[p] = "written" \/ (pc[p] = "writei" /\ tot[p] = n1[p])
  /\ LET f == file[p]
     IN  Leave(p, f, fs, [ino EXCEPT ![f].size = IF woff[p] > @ THEN woff[p] ELSE @])
  /\ off' = [off EXCEPT ![p] = @ + tot[p]]
  /\ After(p, tot[p])
  /\ UNCHANGED <<logged, file, n, left>>

WriteRefused(p) ==
  /\ pc[p] = "refused"
  /\ UNCHANGED <<fs, ino, logged, file, off, n, left>>
  /\ Release(p, file[p])
  /\ After(p, -1)

-----------------------------------------------------------------------------
Next ==
  \/ Crash
  \/ \E b \in Block : Recycle(b)
  \/ \E p \in Proc :
       \/ \E f \in 2 .. Len(Files) + 1 : Open(p, f) \/ TruncDirect(p, f)
       \/ TruncIndirect(p) \/ Read(p) \/ Write(p)
       \/ WriteBegin(p) \/ WriteBlock(p) \/ WriteEnd(p) \/ WriteRefused(p)

Spec == Init /\ [][Next]_vars

-----------------------------------------------------------------------------
(* Properties                                                              *)

\* The blocks of inode a, indirect block included, on a disk with blocks blk.
Indirects(a, blk) ==
  IF a.addrs[NDIRECT] = 0 THEN {} ELSE {blk[a.addrs[NDIRECT]][k] : k \in 0 .. NINDIRECT - 1} \ {0}
Blocks(a, blk) == ({a.addrs[k] : k \in 0 .. NDIRECT} \ {0}) \cup Indirects(a, blk)

NumBlocks(a, blk) ==
  Cardinality({k \in 0 .. NDIRECT : a.addrs[k] # 0})
    + (IF a.addrs[NDIRECT] = 0 THEN 0 ELSE Cardinality({k \in 0 .. NINDIRECT - 1 : blk[a.addrs[NDIRECT]][k] # 0}))

\* The disk block of block bn of inode a, or 0.
BlockOf(a, blk, bn) ==
  IF bn < NDIRECT THEN a.addrs[bn]
  ELSE IF a.addrs[NDIRECT] = 0 THEN 0 ELSE blk[a.addrs[NDIRECT]][bn - NDIRECT]

\* After a reboot at any point every block in use belongs to one place of one
\* file, the bitmap marks these blocks and no others, and a file has a block
\* for all of its size, so that readi(), which runs outside of transactions,
\* never has bmap() allocate one; and bfree() never finds a block that is free
\* already (kernel/fs.c balloc(), bfree(), bmap(), itrunc()).
BlocksOwnedOnce ==
  /\ stable.used = UNION {Blocks(stable.ino[f], stable.blk) : f \in Inum}
  /\ \A f \in Inum : NumBlocks(stable.ino[f], stable.blk) = Cardinality(Blocks(stable.ino[f], stable.blk))
  /\ \A f, g \in Inum : f # g => Blocks(stable.ino[f], stable.blk) \cap Blocks(stable.ino[g], stable.blk) = {}
  /\ \A f \in Inum : \A k \in 0 .. MAXFILE - 1 :
       k * BSIZE < stable.ino[f].size => BlockOf(stable.ino[f], stable.blk, k) # 0
  /\ \A p \in Proc : pc[p] # "panic"

\* The bytes of a file with inode a on a disk with blocks blk are some that it
\* may hold, and there are as many.
Holds(a, blk, s) ==
  /\ a.size = Len(s)
  /\ \A k \in DOMAIN s : blk[BlockOf(a, blk, (k - 1) \div BSIZE)][(k - 1) % BSIZE] \in s[k]

\* A file is as long as the writes that were counted have made it, and at every
\* place holds the byte that was written there last or, where a copy from user
\* memory has failed since, one that this copy had brought: so byte for byte
\* what was written, if none failed there, whatever was allocated, truncated,
\* refused or cut short, whichever buffers were recycled, and whatever a crash
\* undid.  This is so of every file that nobody has locked, and of what a
\* reboot would find (kernel/fs.c writei(), which leaves the bytes of a copy
\* that fails in a buffer it does not log).
FileIsBytes ==
  \A f \in 2 .. Len(Files) + 1 :
    /\ lock[f] = None => Holds(ino[f], fs.blk, fs.bytes[f])
    /\ Holds(stable.ino[f], stable.blk, stable.bytes[f])

\* No operation logs more than the MAXOPBLOCKS blocks that begin_op() reserves,
\* the inode's block included ("write a few blocks at a time to avoid exceeding
\* the maximum log transaction size", kernel/file.c:149).
WithinReservation == \A p \in Proc : Cardinality(logged[p] \cup {<<"inode", 0>>}) <= MAXOPBLOCKS
=============================================================================
