------------------------------- MODULE Memory -------------------------------
(***************************************************************************)
(* Physical pages and user address spaces: kalloc.c, the page tables of    *)
(* vm.c, and what fork(), exec(), sbrk() and the freeing of a process do   *)
(* with them (kernel/proc.c, kernel/exec.c, kernel/sysfile.c).             *)
(*                                                                         *)
(* A call works on a record m: the free pages, the contents of page-table  *)
(* pages (pt), one value for each other page (data), and the result of the *)
(* operation before (pa, ok).  Processes meet only in kalloc(), where the  *)
(* others may have taken what is left: a call is one step in which         *)
(* kalloc() succeeds an arbitrary number of times (quota) and then fails.  *)
(* Which free page it returns makes no difference.                         *)
(*                                                                         *)
(* Addresses and sizes count units of which a page has PGSIZE, and wrap    *)
(* at 2^64 = WORD.  A table has FANOUT[level] entries.                     *)
(***************************************************************************)
EXTENDS Integers, Sequences, FiniteSets, FiniteSetsExt, SequencesExt

CONSTANTS Slot,      \* entries of proc[], numbers from 1 on; 1 is init
          NPAGES,    \* pages between end and PHYSTOP
          PGSIZE, FANOUT, WORD,
          Programs,  \* what exec() may find in a file, see Exec
          Sizes,     \* arguments of sbrk()
          Values     \* values of memory

Page       == 1 .. NPAGES
VPAGES     == FANOUT[2] * FANOUT[1] * FANOUT[0]
MAXVA      == VPAGES * PGSIZE
TRAMPOLINE == MAXVA - PGSIZE
TRAPFRAME  == TRAMPOLINE - PGSIZE
Trampoline == NPAGES + 1    \* the physical page of the kernel's text

VARIABLES
  mem,    \* [free, pt, data]
  proc,   \* trapframe, pagetable (0: none), sz; a free entry has none
  ret,    \* which process made the last call, and whether it failed
  panic

vars == <<mem, proc, ret, panic>>

PGROUNDUP(s)   == ((s + PGSIZE - 1) \div PGSIZE) * PGSIZE
PX(level, va)  == LET n == va \div PGSIZE
                  IN  CASE level = 0 -> n % FANOUT[0]
                        [] level = 1 -> (n \div FANOUT[0]) % FANOUT[1]
                        [] level = 2 -> n \div (FANOUT[0] * FANOUT[1])

\* A PTE: not valid, a lower table, or a leaf with PTE_U ("user") or without:
\* the guard page ("guard"), trampoline and trapframe ("kernel").
Invalid     == [kind |-> "none", pa |-> 0]
Pte(k, a)   == [kind |-> k, pa |-> a]
Largest     == Max({FANOUT[l] : l \in 0 .. 2})
EmptyTable  == [k \in 0 .. Largest - 1 |-> Invalid]
IsLeaf(pte) == pte.kind \in {"user", "guard", "kernel"}

-----------------------------------------------------------------------------
(* kalloc.c                                                                *)

Begin(quota) == [free |-> mem.free, pt |-> mem.pt, data |-> mem.data,
                 quota |-> quota, pa |-> 0, ok |-> TRUE, panic |-> FALSE]

Kalloc(m) ==
  IF m.quota = 0 \/ m.free = {} THEN [m EXCEPT !.pa = 0]
  ELSE [m EXCEPT !.pa = Min(m.free), !.free = @ \ {Min(m.free)}, !.quota = @ - 1]

\* What was in the page is gone.  A page that is freed twice is on the list
\* twice, which the model reports as a panic.
Kfree(m, a) ==
  IF a \in m.free \/ a \notin Page THEN [m EXCEPT !.panic = TRUE]
  ELSE [m EXCEPT !.free = @ \cup {a}, !.pt[a] = EmptyTable, !.data[a] = 0]

-----------------------------------------------------------------------------
(* walk() and mappages()                                                   *)

\* Entry k of table t is the table m.pa, if kalloc() returned one.
NewTable(m, t, k) ==
  IF m.pa = 0 THEN m
  ELSE [m EXCEPT !.pt[m.pa] = EmptyTable, !.pt[t] = [@ EXCEPT ![k] = Pte("table", m.pa)]]

\* The table under entry k of table t, allocated if need be; m.pa = 0 if none.
Down(m, t, k, alloc) ==
  IF t = 0 THEN m
  ELSE IF m.pt[t][k].kind # "none" THEN [m EXCEPT !.pa = m.pt[t][k].pa]
  ELSE IF alloc THEN NewTable(Kalloc(m), t, k) ELSE [m EXCEPT !.pa = 0]

Down1(m, va, alloc) == Down(m, m.pa, PX(1, va), alloc)

\* m.pa becomes the level-0 table of va, or 0.
Walk(m, t, va, alloc) == Down1(Down(m, t, PX(2, va), alloc), va, alloc)

PteIn(w, va) == IF w.pa = 0 THEN Invalid ELSE w.pt[w.pa][PX(0, va)]
PteOf(m, t, va) == PteIn(Walk(m, t, va, FALSE), va)

PteSet(w, va, pte) == [w EXCEPT !.pt[w.pa][PX(0, va)] = pte]
SetPte(m, t, va, pte) == PteSet(Walk(m, t, va, FALSE), va, pte)

MapIn(w, va, pte) ==
  IF w.pa = 0 THEN [w EXCEPT !.ok = FALSE]
  ELSE [w EXCEPT !.ok = TRUE, !.pt[w.pa][PX(0, va)] = pte,
                 !.panic = @ \/ w.pt[w.pa][PX(0, va)].kind # "none"]

\* mappages() of one page.
Mappages(m, t, va, a, kind) == MapIn(Walk(m, t, va, TRUE), va, Pte(kind, a))

\* The virtual addresses of np pages from va on.
Pages(va, np) == [k \in 1 .. np |-> va + (k - 1) * PGSIZE]

UnmapPage(m, t, a, pte, dofree) ==
  IF IsLeaf(pte) THEN SetPte(IF dofree THEN Kfree(m, pte.pa) ELSE m, t, a, Invalid)
  ELSE [m EXCEPT !.panic = TRUE]

Uvmunmap(m, t, va, np, dofree) ==
  FoldLeft(LAMBDA v, a : UnmapPage(v, t, a, PteOf(v, t, a), dofree), m, Pages(va, np))

RECURSIVE Freewalk(_, _)
Freewalk(m, t) ==
  LET Entry(v, k) ==
        IF v.pt[t][k].kind = "table"
        THEN [Freewalk(v, v.pt[t][k].pa) EXCEPT !.pt[t] = [@ EXCEPT ![k] = Invalid]]
        ELSE IF IsLeaf(v.pt[t][k]) THEN [v EXCEPT !.panic = TRUE] ELSE v
  IN  Kfree(FoldLeft(Entry, m, [k \in 1 .. Largest |-> k - 1]), t)

-----------------------------------------------------------------------------
(* uvm*()                                                                  *)

Uvmdealloc(m, t, oldsz, newsz) ==
  IF newsz >= oldsz THEN m
  ELSE Uvmunmap(m, t, PGROUNDUP(newsz), (PGROUNDUP(oldsz) - PGROUNDUP(newsz)) \div PGSIZE, TRUE)

\* Mutant: the page that could not be mapped is lost.
GrowFails_Leak(m, t, a, page, oldsz) == [Uvmdealloc(m, t, a, oldsz) EXCEPT !.ok = FALSE]

\* kalloc() or mappages() has failed at address a; page is the one to give back.
GrowFails(m, t, a, page, oldsz) ==
  [Uvmdealloc(IF page = 0 THEN m ELSE Kfree(m, page), t, a, oldsz) EXCEPT !.ok = FALSE]

\* The page m.pa, if there is one, is cleared and mapped at a as kind.
Place(m, t, a, x, kind) ==
  IF m.pa = 0 THEN [m EXCEPT !.ok = FALSE]
  ELSE Mappages([m EXCEPT !.data[m.pa] = x], t, a, m.pa, kind)

\* The loop of uvmalloc(): Grow takes a page, Grown has tried to map it.
RECURSIVE Grow(_, _, _, _, _)
Grown(m, t, a, page, oldsz, newsz) ==
  IF m.ok THEN Grow(m, t, a + PGSIZE, oldsz, newsz) ELSE GrowFails(m, t, a, page, oldsz)
Taken(m, t, a, oldsz, newsz) == Grown(Place(m, t, a, 0, "user"), t, a, m.pa, oldsz, newsz)
Grow(m, t, a, oldsz, newsz) ==
  IF a >= newsz THEN [m EXCEPT !.ok = newsz # 0] ELSE Taken(Kalloc(m), t, a, oldsz, newsz)

\* uvmalloc(): ok, or what it did is undone.  The new size is the result, and
\* a size of 0 reads as a failure.
Uvmalloc(m, t, oldsz, newsz) ==
  IF newsz < oldsz THEN [m EXCEPT !.ok = TRUE] ELSE Grow(m, t, PGROUNDUP(oldsz), PGROUNDUP(oldsz), newsz)

Uvmfree(m, t, sz) == Freewalk(Uvmunmap(m, t, 0, PGROUNDUP(sz) \div PGSIZE, TRUE), t)

\* A page that was taken and could not be mapped is given back.
Copied(m, page) == IF m.ok \/ page = 0 THEN m ELSE Kfree(m, page)
CopyTo(m, new, a, x, kind) == Copied(Place(m, new, a, x, kind), m.pa)

\* Mutant: the child gets the parent's page.
CopyPage_Share(m, new, a, pte) == Mappages(m, new, a, pte.pa, pte.kind)

\* One turn of uvmcopy(), with the parent's PTE of a.
CopyPage(m, new, a, pte) ==
  IF IsLeaf(pte) THEN CopyTo(Kalloc(m), new, a, m.data[pte.pa], pte.kind)
  ELSE [m EXCEPT !.panic = TRUE]

RECURSIVE CopyFrom(_, _, _, _, _)
CopyOn(m, old, new, a, sz) ==
  IF m.ok THEN CopyFrom(m, old, new, a + PGSIZE, sz) ELSE Uvmunmap(m, new, 0, a \div PGSIZE, TRUE)
CopyFrom(m, old, new, a, sz) ==
  IF a >= sz THEN m ELSE CopyOn(CopyPage(m, new, a, PteOf(m, old, a)), old, new, a, sz)

Uvmcopy(m, old, new, sz) == CopyFrom([m EXCEPT !.ok = TRUE], old, new, 0, sz)

-----------------------------------------------------------------------------
(* proc_pagetable(), proc_freepagetable(), allocproc(), freeproc()         *)

\* The three steps of proc_pagetable(), each with what the one before returned;
\* m.pa is the new page table, or 0.
TrapframeMapped(m, r) ==
  IF m.ok THEN [m EXCEPT !.pa = r]
  ELSE [Uvmfree(Uvmunmap(m, r, TRAMPOLINE, 1, FALSE), r, 0) EXCEPT !.pa = 0]
TrampolineMapped(m, r, tf) ==
  IF m.ok THEN TrapframeMapped(Mappages(m, r, TRAPFRAME, tf, "kernel"), r)
  ELSE [Uvmfree(m, r, 0) EXCEPT !.pa = 0]
Uvmcreated(m, tf) ==
  IF m.pa = 0 THEN m
  ELSE TrampolineMapped(Mappages([m EXCEPT !.pt[m.pa] = EmptyTable], m.pa, TRAMPOLINE, Trampoline, "kernel"), m.pa, tf)
ProcPagetable(m, tf) == Uvmcreated(Kalloc(m), tf)

ProcFreePagetable(m, t, sz) ==
  Uvmfree(Uvmunmap(Uvmunmap(m, t, TRAMPOLINE, 1, FALSE), t, TRAPFRAME, 1, FALSE), t, sz)

Unused == [trapframe |-> 0, pagetable |-> 0, sz |-> 0]

\* freeproc() of a process whose fields are q.
FreeTable(m, q) == IF q.pagetable = 0 THEN m ELSE ProcFreePagetable(m, q.pagetable, q.sz)
Freeproc(m, q) == FreeTable(IF q.trapframe = 0 THEN m ELSE Kfree(m, q.trapframe), q)

\* allocproc(): <<m, fields of the new process>>, Unused if it fails.
HasTable(m, tf) ==
  IF m.pa = 0 THEN <<Freeproc(m, [Unused EXCEPT !.trapframe = tf]), Unused>>
  ELSE <<m, [Unused EXCEPT !.trapframe = tf, !.pagetable = m.pa]>>
HasTrapframe(m) == IF m.pa = 0 THEN <<m, Unused>> ELSE HasTable(ProcPagetable(m, m.pa), m.pa)
Allocproc(m) == HasTrapframe(Kalloc(m))

-----------------------------------------------------------------------------
(* The calls                                                               *)

Live(p) == proc[p].pagetable # 0
Done(m, p, failed) ==
  /\ mem' = [free |-> m.free, pt |-> m.pt, data |-> m.data]
  /\ panic' = m.panic
  /\ ret' = [who |-> p, failed |-> failed]

\* userinit() with uvmfirst(), on the pages that freerange() has freed.
Init ==
  LET none == [free |-> Page, pt |-> [a \in Page |-> EmptyTable], data |-> [a \in Page |-> 0],
               quota |-> NPAGES, pa |-> 0, ok |-> TRUE, panic |-> FALSE]
      a == Allocproc(none)
      k == Kalloc(a[1])
      m == Mappages(k, a[2].pagetable, 0, k.pa, "user")
  IN  /\ mem = [free |-> m.free, pt |-> m.pt, data |-> m.data]
      /\ proc = [p \in Slot |-> IF p = 1 THEN [a[2] EXCEPT !.sz = PGSIZE] ELSE Unused]
      /\ ret = [who |-> 1, failed |-> FALSE]
      /\ panic = FALSE

\* fork() after uvmcopy(), into the first free entry of proc[].
ForkCopied(p, m, q) ==
  \/ /\ ~m.ok
     /\ Done(Freeproc(m, q), p, TRUE) /\ UNCHANGED proc
  \/ /\ m.ok
     /\ Done(m, p, FALSE)
     /\ proc' = [proc EXCEPT ![Min({c \in Slot : ~Live(c)})] = [q EXCEPT !.sz = proc[p].sz]]

\* fork() after allocproc() returned a.
ForkAllocated(p, a) ==
  \/ /\ a[2] = Unused
     /\ Done(a[1], p, TRUE) /\ UNCHANGED proc
  \/ /\ a[2] # Unused
     /\ ForkCopied(p, Uvmcopy(a[1], proc[p].pagetable, a[2].pagetable, proc[p].sz), a[2])

Fork(p, quota) ==
  /\ Live(p) /\ \E c \in Slot : ~Live(c)
  /\ ForkAllocated(p, Allocproc(Begin(quota)))

\* wait() frees a child that has exited.
Reap(c) ==
  /\ Live(c) /\ c # 1
  /\ Done(Freeproc(Begin(0), proc[c]), c, FALSE)
  /\ proc' = [proc EXCEPT ![c] = Unused]

\* growproc(n), n > 0, after uvmalloc(); n < 0.
Grew(p, m, newsz) ==
  \/ /\ m.ok
     /\ Done(m, p, FALSE)
     /\ proc' = [proc EXCEPT ![p].sz = IF newsz < @ THEN @ ELSE newsz]
  \/ /\ ~m.ok
     /\ Done(m, p, TRUE) /\ UNCHANGED proc
Shrunk(p, m, newsz) ==
  /\ Done(m, p, FALSE)
  /\ proc' = [proc EXCEPT ![p].sz = IF newsz >= @ THEN @ ELSE newsz]

Sbrk(p, n, quota) ==
  /\ Live(p)
  /\ LET newsz == (proc[p].sz + n) % WORD
     IN  \/ n > 0 /\ Grew(p, Uvmalloc(Begin(quota), proc[p].pagetable, proc[p].sz, newsz), newsz)
         \/ n < 0 /\ Shrunk(p, Uvmdealloc(Begin(0), proc[p].pagetable, proc[p].sz, newsz), newsz)

(* exec() of a file with the segments prog.segs ([vaddr, filesz, memsz, short]:
   short if loadseg() reads less than filesz), prog.elf being whether the file has
   an ELF header, prog.nargs the pages sys_exec() takes for arguments and
   prog.fits whether these fit on the stack. *)

\* sys_exec()'s loop over the arguments: <<m, pages>>, m.ok if it got them all.
Argument(r, k) ==
  IF ~r[1].ok THEN r
  ELSE IF k.pa = 0 THEN <<[k EXCEPT !.ok = FALSE], r[2]>> ELSE <<k, r[2] \cup {k.pa}>>
Arguments(m, args) == FoldLeft(LAMBDA r, k : Argument(r, Kalloc(r[1])), <<m, {}>>, [k \in 1 .. args |-> k])

\* loadseg() puts a value into the pages of a segment, which must be there.
LoadPage(m, pte) ==
  IF pte.kind = "user" THEN [m EXCEPT !.data[pte.pa] = Max(Values)] ELSE [m EXCEPT !.panic = TRUE]
Loadseg(m, t, seg) ==
  [FoldLeft(LAMBDA v, a : LoadPage(v, PteOf(v, t, a)), m, Pages(seg.vaddr, PGROUNDUP(seg.filesz) \div PGSIZE))
     EXCEPT !.ok = ~seg.short]

\* One program header, with r = <<m, sz>>: the tests, uvmalloc(), loadseg().
SegEnd(seg) == (seg.vaddr + seg.memsz) % WORD
SegGrown(m, t, sz, seg) ==
  IF m.ok THEN <<Loadseg(m, t, seg), IF SegEnd(seg) < sz THEN sz ELSE SegEnd(seg)>> ELSE <<m, sz>>
LoadSeg(r, t, seg) ==
  IF ~r[1].ok \/ seg.memsz < seg.filesz \/ SegEnd(seg) < seg.vaddr \/ seg.vaddr % PGSIZE # 0
  THEN <<[r[1] EXCEPT !.ok = FALSE], r[2]>>
  ELSE SegGrown(Uvmalloc(r[1], t, r[2], SegEnd(seg)), t, r[2], seg)

\* Mutant: the size of the new image is forgotten when its stack fails.
StackFails_Size(sz) == 0

\* The size that is freed at "bad:" when there is no memory for the stack.
StackFails(sz) == sz

\* exec() stage by stage, each with what the one before left; the result is
\* <<m, pagetable, sz>> with 0 for the page table if it has failed.
Failed(m) == <<m, 0, 0>>
ExecReady(m, p, prog, t, sz) ==
  IF prog.fits THEN <<ProcFreePagetable(m, proc[p].pagetable, proc[p].sz), t, sz>>
  ELSE Failed(ProcFreePagetable(m, t, sz))
ExecStack(m, p, prog, t, sz) ==
  IF m.ok
  THEN ExecReady(SetPte(m, t, sz, [PteOf(m, t, sz) EXCEPT !.kind = "guard"]), p, prog, t, sz + 2 * PGSIZE)
  ELSE Failed(ProcFreePagetable(m, t, StackFails(sz)))
ExecLoaded(r, p, prog, t) ==
  IF r[1].ok
  THEN ExecStack(Uvmalloc(r[1], t, PGROUNDUP(r[2]), PGROUNDUP(r[2]) + 2 * PGSIZE), p, prog, t, PGROUNDUP(r[2]))
  ELSE Failed(ProcFreePagetable(r[1], t, r[2]))
ExecTable(m, p, prog) ==
  IF m.pa = 0 THEN Failed(m)
  ELSE ExecLoaded(FoldLeft(LAMBDA r, seg : LoadSeg(r, m.pa, seg), <<[m EXCEPT !.ok = TRUE], 0>>, prog.segs), p, prog, m.pa)
ExecImage(m, p, prog) ==
  IF prog.elf THEN ExecTable(ProcPagetable(m, proc[p].trapframe), p, prog) ELSE Failed(m)

\* The end of sys_exec(), with the pages of the arguments.
ExecDone(p, e, pages) ==
  /\ Done(FoldSet(LAMBDA pg, v : Kfree(v, pg), e[1], pages), p, e[2] = 0)
  /\ \/ e[2] = 0 /\ UNCHANGED proc
     \/ e[2] # 0 /\ proc' = [proc EXCEPT ![p].pagetable = e[2], ![p].sz = e[3]]

ExecArgs(p, prog, a) ==
  ExecDone(p, IF a[1].ok THEN ExecImage(a[1], p, prog) ELSE Failed(a[1]), a[2])

Exec(p, prog, quota) == Live(p) /\ ExecArgs(p, prog, Arguments(Begin(quota), prog.nargs))

\* The process, or copyout() for it, stores into a page that has PTE_U.
Store(p, va, x) ==
  /\ Live(p)
  /\ LET pte == PteOf(Begin(0), proc[p].pagetable, va)
     IN  /\ pte.kind = "user"
         /\ mem' = [mem EXCEPT !.data[pte.pa] = x]
  /\ ret' = [who |-> p, failed |-> FALSE]
  /\ UNCHANGED <<proc, panic>>

Next ==
  /\ ~panic
  /\ \E p \in Slot :
       \/ Reap(p)
       \/ \E quota \in 0 .. Cardinality(mem.free) :
            \/ Fork(p, quota)
            \/ \E n \in Sizes : Sbrk(p, n, quota)
            \/ \E prog \in Programs : Exec(p, prog, quota)
       \/ \E k \in 0 .. 1, x \in Values : Store(p, k * PGSIZE, x)

Spec == Init /\ [][Next]_vars

-----------------------------------------------------------------------------
(* Properties                                                              *)

\* Table pages reachable from table t, and t itself.
TablesOf(t) ==
  LET kids(s) == {mem.pt[s][k].pa : k \in {j \in 0 .. Largest - 1 : mem.pt[s][j].kind = "table"}}
  IN  {t} \cup kids(t) \cup UNION {kids(s) : s \in kids(t)}

LeavesOf(t) == UNION {{mem.pt[s][k].pa : k \in {j \in 0 .. Largest - 1 : mem.pt[s][j].kind \in {"user", "guard"}}}
                      : s \in TablesOf(t)}

\* Every physical page is in one place: free, a trapframe, a page of one page
\* table, or mapped once in one process; none is lost or used twice, however
\* fork(), exec() and sbrk() run out of memory (kernel/vm.c uvmalloc(),
\* uvmcopy(), kernel/proc.c proc_pagetable(), kernel/exec.c "bad:").
PagesOnce ==
  LET L     == {p \in Slot : Live(p)}
      parts == [p \in L |-> <<{proc[p].trapframe}, TablesOf(proc[p].pagetable), LeavesOf(proc[p].pagetable)>>]
      npages(p) == PGROUNDUP(proc[p].sz) \div PGSIZE
      count == FoldSet(LAMBDA p, s : s + 1 + Cardinality(parts[p][2]) + npages(p), 0, L)
  IN  /\ Cardinality(mem.free) + count = NPAGES
      /\ mem.free \cup UNION {UNION {parts[p][k] : k \in 1 .. 3} : p \in L} = Page

\* A process has a leaf for each page below its size and for none above, its own
\* trapframe and the trampoline at the top, and no panic of kfree(), walk(),
\* mappages(), uvmunmap(), freewalk(), uvmcopy() or loadseg() is reached
\* (kernel/vm.c).
ImageIsSize ==
  /\ ~panic
  /\ \A p \in Slot : Live(p) =>
       \A v \in 0 .. VPAGES - 1 :
         LET va  == v * PGSIZE
             pte == PteOf(Begin(0), proc[p].pagetable, va)
         IN  CASE va = TRAMPOLINE -> pte = Pte("kernel", Trampoline)
               [] va = TRAPFRAME  -> pte = Pte("kernel", proc[p].trapframe)
               [] OTHER           -> IF va < proc[p].sz THEN pte.kind \in {"user", "guard"} ELSE pte = Invalid

\* What process p sees of its memory.
View(p) ==
  IF ~Live(p) THEN <<>>
  ELSE [v \in 1 .. PGROUNDUP(proc[p].sz) \div PGSIZE |->
          LET pte == PteOf(Begin(0), proc[p].pagetable, (v - 1) * PGSIZE)
          IN  IF pte.kind = "user" THEN <<"user", mem.data[pte.pa]>> ELSE <<"guard", 0>>]

\* Nothing a process does changes the memory of another, a call that fails
\* leaves its own memory as it was, and the child of a fork() starts with the
\* memory of its parent (kernel/vm.c uvmcopy(), kernel/exec.c).
Isolated ==
  /\ \A q \in Slot : Live(q) /\ (q # ret'.who \/ ret'.failed) => View(q)' = View(q)
  /\ \A q \in Slot : ~Live(q) /\ Live(q)' => View(q)' = View(ret'.who)

Isolation == [][Isolated]_vars

\* States that differ only in which physical page is used for what are one for
\* TLC, unless one of the invariants tells them apart.
Canonical ==
  LET shape(p) == IF Live(p) THEN {<<k, j>> \in (0 .. Largest - 1) \X (0 .. Largest - 1) :
                                     /\ mem.pt[proc[p].pagetable][k].kind = "table"
                                     /\ mem.pt[mem.pt[proc[p].pagetable][k].pa][j].kind = "table"}
                  ELSE {}
  IN  <<[p \in Slot |-> <<proc[p].sz, View(p), shape(p)>>], Cardinality(mem.free), PagesOnce, ImageIsSize>>
=============================================================================
