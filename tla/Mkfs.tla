-------------------------------- MODULE Mkfs --------------------------------
(***************************************************************************)
(* mkfs/mkfs.c: the image of the file system the kernel starts from, as a  *)
(* function of the files that go into the root directory.                  *)
(*                                                                         *)
(* A byte, a block number and a directory entry (its inode number) take    *)
(* one unit each, of which a block holds BSIZE: NINDIRECT = BSIZE.  Block  *)
(* 0 stands for the blocks before the data blocks (nmeta of them).         *)
(***************************************************************************)
EXTENDS Integers, Sequences, SequencesExt

CONSTANTS FSSIZE,   \* blocks
          BSIZE,    \* units in a block
          NDIRECT,  \* direct blocks of an inode
          NINODES,
          Files     \* contents of the files to put into the root directory

ROOTINO   == 1
Block     == 1 .. FSSIZE - 1
NINDIRECT == BSIZE
MAXFILE   == NDIRECT + NINDIRECT
Zeroes    == [k \in 0 .. BSIZE - 1 |-> 0]
NoInode   == [size |-> 0, addrs |-> [k \in 0 .. NDIRECT |-> 0]]

\* freeinode, freeblock and the image before the first ialloc().
Blank == [freeinode |-> 1, freeblock |-> 1,
          ino |-> [i \in 1 .. NINODES |-> NoInode], blk |-> [b \in Block |-> Zeroes]]

\* freeblock++ in addrs[k] of inode i, unless it has a block.
Direct(m, i, k) ==
  IF m.ino[i].addrs[k] # 0 THEN m
  ELSE [m EXCEPT !.ino[i].addrs[k] = m.freeblock, !.freeblock = @ + 1]

\* The same in entry k of the indirect block.
Indirect(m, i, k) ==
  LET d == Direct(m, i, NDIRECT)
      a == d.ino[i].addrs[NDIRECT]
  IN  IF d.blk[a][k] # 0 THEN d
      ELSE [d EXCEPT !.blk[a][k] = d.freeblock, !.freeblock = @ + 1]

\* iappend(), one unit at a time.
Iappend(m, i, x) ==
  LET off == m.ino[i].size
      fbn == off \div BSIZE
      w   == IF fbn < NDIRECT THEN Direct(m, i, fbn) ELSE Indirect(m, i, fbn - NDIRECT)
      b   == IF fbn < NDIRECT THEN w.ino[i].addrs[fbn]
             ELSE w.blk[w.ino[i].addrs[NDIRECT]][fbn - NDIRECT]
  IN  [w EXCEPT !.blk[b][off % BSIZE] = x, !.ino[i].size = off + 1]

\* One turn of the loop over the files: an entry in the root, then the bytes.
AddFile(m, bytes) ==
  LET i == m.freeinode
      e == Iappend([m EXCEPT !.freeinode = i + 1], ROOTINO, i)
  IN  FoldLeft(LAMBDA v, x : Iappend(v, i, x), e, bytes)

\* main(): "." and "..", the files, and the size of the root rounded up.
Image ==
  LET root == Iappend(Iappend([Blank EXCEPT !.freeinode = 2], ROOTINO, ROOTINO), ROOTINO, ROOTINO)
      m    == FoldLeft(AddFile, root, Files)
  IN  [m EXCEPT !.ino[ROOTINO].size = ((@ \div BSIZE) + 1) * BSIZE]

\* balloc(freeblock): the bitmap.
UsedAtStart(m) == 1 .. m.freeblock - 1
=============================================================================
