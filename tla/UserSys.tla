------------------------------- MODULE UserSys -------------------------------
(***************************************************************************)
(* Processes as user programs see them: fork(), exit(), wait(), exec() and *)
(* kill() of kernel/proc.c, the file table of kernel/file.c, descriptors   *)
(* and the calls on them in kernel/sysfile.c, and pipes as byte streams.   *)
(* Every process runs one of Programs; a step is one system call and the   *)
(* computation up to the next, in any interleaving.  How a call sleeps and *)
(* is woken is in SleepWakeup, Procs and Pipe: here a call that would      *)
(* sleep is not enabled.                                                   *)
(***************************************************************************)
EXTENDS Programs, FiniteSetsExt

CONSTANTS NPROC, NFILE, NOFILE, NPIPE, PIPESIZE,
          Sessions    \* what may be typed, and on which machine: records
                      \* [lines, meaning, console, faults, nfile, nofile]

Slot == 1 .. NPROC   \* a process's slot stands for its pid; 1 is init
Fd   == 0 .. NOFILE - 1
File == 1 .. NFILE

VARIABLES
  proc,     \* [st, parent, fd, code, argv, said]
  file,     \* [ref, kind, pipe, name, writable]
  pipes,    \* [readopen, writeopen, data]
  input,    \* the lines that have not been read
  console,  \* the device node exists
  faults,   \* how many calls may still find no memory; whether one has
  panic,    \* init has exited
  session   \* the session that is typed

vars == <<proc, file, pipes, input, console, faults, panic, session>>

NoFile == [ref |-> 0, kind |-> "none", pipe |-> 0, name |-> <<>>, writable |-> FALSE]
NoPipe == [readopen |-> FALSE, writeopen |-> FALSE, data |-> <<>>]
Unused == [st |-> "unused", parent |-> 0, fd |-> [d \in Fd |-> 0], code |-> <<Exit>>, argv |-> <<>>, said |-> <<>>]

-----------------------------------------------------------------------------
(* The file table, as operators on k = [file, pipes, fd, got]: the files,  *)
(* the pipes, the descriptors of the caller, and what the last of these    *)
(* operators returned.  The session sets the sizes of the tables.          *)

Kernel(p) == [file |-> file, pipes |-> pipes, fd |-> proc[p].fd, got |-> -1]

FreeFiles(k) == {f \in 1 .. session.nfile : k.file[f].ref = 0}
FreePipes(k) == {i \in 1 .. NPIPE : ~k.pipes[i].readopen /\ ~k.pipes[i].writeopen}

\* The first free file, 0 if there is none.
Filealloc(k) ==
  LET f == Min(FreeFiles(k))
  IN  IF FreeFiles(k) = {} THEN [k EXCEPT !.got = 0] ELSE [k EXCEPT !.file[f].ref = 1, !.got = f]

Filedup(k, f) == [k EXCEPT !.file[f].ref = @ + 1]

Pipeclose(k, i, writable) ==
  LET p == IF writable THEN [k.pipes[i] EXCEPT !.writeopen = FALSE] ELSE [k.pipes[i] EXCEPT !.readopen = FALSE]
  IN  [k EXCEPT !.pipes[i] = IF p.readopen \/ p.writeopen THEN p ELSE NoPipe]

\* Mutant: a pipe is closed with the first of its descriptors.
Fileclose_First(k, f) ==
  LET closed == [k EXCEPT !.file[f] = IF @.ref > 1 THEN [@ EXCEPT !.ref = @ - 1] ELSE NoFile]
  IN  IF k.file[f].kind # "pipe" THEN closed ELSE Pipeclose(closed, k.file[f].pipe, k.file[f].writable)

Fileclose(k, f) ==
  LET closed == [k EXCEPT !.file[f] = IF @.ref > 1 THEN [@ EXCEPT !.ref = @ - 1] ELSE NoFile]
  IN  IF k.file[f].ref > 1 \/ k.file[f].kind # "pipe" THEN closed
      ELSE Pipeclose(closed, k.file[f].pipe, k.file[f].writable)

FreeFds(k) == {d \in 0 .. session.nofile - 1 : k.fd[d] = 0}

\* A reference to file f moves into the first free descriptor; -1 if there is none.
Fdalloc(k, f) ==
  LET d == Min(FreeFds(k))
  IN  IF FreeFds(k) = {} THEN [k EXCEPT !.got = -1] ELSE [k EXCEPT !.fd[d] = f, !.got = d]

\* Mutant: of two files the second is not given back.
Undo_First(k, f0, f1) == IF f0 = 0 THEN k ELSE Fileclose(k, f0)

\* What was allocated of two files is closed again.
Undo(k, f0, f1) ==
  LET CloseIf(j, f) == IF f = 0 THEN j ELSE Fileclose(j, f)
  IN  CloseIf(CloseIf(k, f0), f1)

\* pipealloc() where kalloc() finds page i, 0 if there is none: the two ends in
\* got, or nothing and what it had allocated given back.
Pipealloc(k, i) ==
  LET u   == Filealloc(k)
      v   == IF u.got = 0 THEN u ELSE Filealloc(u)
      end == [NoFile EXCEPT !.ref = 1, !.kind = "pipe", !.pipe = i]
  IN  IF u.got = 0 \/ v.got = 0 \/ i = 0 THEN [Undo(v, u.got, v.got) EXCEPT !.got = <<>>]
      ELSE [v EXCEPT !.file[u.got] = end, !.file[v.got] = [end EXCEPT !.writable = TRUE],
                     !.pipes[i] = [readopen |-> TRUE, writeopen |-> TRUE, data |-> <<>>],
                     !.got = <<u.got, v.got>>]

\* sys_pipe() after pipealloc(): two descriptors, or nothing and the pipe closed.
PipeFds(k) ==
  LET rf == k.got[1]
      wf == k.got[2]
      u  == Fdalloc(k, rf)
      v  == Fdalloc(u, wf)
      w  == IF u.got < 0 THEN u ELSE [u EXCEPT !.fd[u.got] = 0]
  IN  IF k.got = <<>> THEN k
      ELSE IF u.got < 0 \/ v.got < 0 THEN [Undo(w, rf, wf) EXCEPT !.got = <<>>]
      ELSE [v EXCEPT !.got = <<u.got, v.got>>]

-----------------------------------------------------------------------------

IsInit(p) == p = 1
Running(p) == proc[p].st = "run"
Op(p) == proc[p].code[1]
At1(p, name) == Running(p) /\ Op(p)[1] = name

\* Process p returns from its call with result got.
Returned(q, got) == [q EXCEPT !.code = Run(Tail(@), got)]
Return(p, got) == proc' = [proc EXCEPT ![p] = Returned(@, got)]
Install(k) == file' = k.file /\ pipes' = k.pipes

\* ... and with the tables and its descriptors as k has them.
Done(p, k, got) ==
  /\ Install(k)
  /\ proc' = [proc EXCEPT ![p] = Returned([@ EXCEPT !.fd = k.fd], got)]

World == <<input, console, faults, panic, session>>

\* argfd() fails: the call returns -1.
BadFd(p, d) == d \notin Fd \/ proc[p].fd[d] = 0

SysClose(p) ==
  /\ At1(p, "close")
  /\ LET d == Op(p)[2]
         k == Kernel(p)
     IN  IF BadFd(p, d) THEN Done(p, k, -1) ELSE Done(p, [Fileclose(k, k.fd[d]) EXCEPT !.fd[d] = 0], 0)
  /\ UNCHANGED World

SysDup(p) ==
  /\ At1(p, "dup")
  /\ LET d == Op(p)[2]
         f == proc[p].fd[d]
         k == Fdalloc(Kernel(p), f)
     IN  IF BadFd(p, d) THEN Done(p, Kernel(p), -1)
         ELSE IF k.got < 0 THEN Done(p, k, -1) ELSE Done(p, Filedup(k, f), k.got)
  /\ UNCHANGED World

\* open(): the console if its node exists, and files that exist or are created.
\* The file is given back when there is no descriptor for it.
Missing(name) == (name = Console /\ ~console) \/ name = <<"nofile">>
SysOpen(p) ==
  /\ At1(p, "open")
  /\ LET name == Op(p)[2]
         f    == Filealloc(Kernel(p)).got
         k    == Fdalloc(Filealloc(Kernel(p)), f)
     IN  IF Missing(name) \/ f = 0 THEN Done(p, Kernel(p), -1)
         ELSE IF k.got < 0 THEN Done(p, Fileclose(k, f), -1)
         ELSE Done(p, [k EXCEPT !.file[f] = [@ EXCEPT !.kind = "inode", !.name = name, !.writable = Op(p)[3]]], k.got)
  /\ UNCHANGED World

SysMknod(p) ==
  /\ At1(p, "mknod")
  /\ console' = TRUE /\ Return(p, 0)
  /\ UNCHANGED <<file, pipes, input, faults, panic, session>>

\* A call finds no memory, or no entry in a table, which is certain if there is none.
NoMemory(certain) ==
  /\ certain \/ faults.left > 0
  /\ faults' = [left |-> IF certain THEN faults.left ELSE faults.left - 1, failed |-> TRUE]

\* pipe(); kalloc() may fail once pipealloc() has two files.
SysPipe(p) ==
  /\ At1(p, "pipe")
  /\ LET k    == Kernel(p)
         page == IF FreePipes(k) = {} THEN 0 ELSE Min(FreePipes(k))
         made == PipeFds(Pipealloc(k, page))
     IN  \/ /\ Done(p, made, made.got)
            /\ IF made.got = <<>> THEN NoMemory(TRUE) ELSE UNCHANGED faults
         \/ /\ page # 0 /\ Cardinality(FreeFiles(k)) >= 2
            /\ Done(p, Pipealloc(k, 0), <<>>)
            /\ NoMemory(FALSE)
  /\ UNCHANGED <<input, console, panic, session>>

-----------------------------------------------------------------------------
(* read() and write()                                                      *)

\* piperead(): what there is, up to n; nothing at the end of the stream.  Of a
\* file that is not a pipe nothing is read, its contents are in FileData.
SysRead(p) ==
  /\ At1(p, "read")
  /\ LET d == Op(p)[2]
         f == file[proc[p].fd[d]]
         i == f.pipe
         n == Min({Op(p)[3], Len(pipes[i].data)})
     IN  IF BadFd(p, d) \/ f.writable \/ f.kind # "pipe" THEN Return(p, <<>>) /\ UNCHANGED pipes
         ELSE /\ Return(p, SubSeq(pipes[i].data, 1, n))
              /\ pipes' = [pipes EXCEPT ![i].data = SubSeq(@, n + 1, Len(@))]
  /\ UNCHANGED <<file, World>>

\* pipewrite() adds what there is room for and sleeps before the rest.
SysWrite(p) ==
  /\ At1(p, "write")
  /\ LET d == Op(p)[2]
         x == Op(p)[3]
         f == file[proc[p].fd[d]]
         i == f.pipe
         n == Min({Len(x), PIPESIZE - Len(pipes[i].data)})
     IN  IF BadFd(p, d) \/ ~f.writable THEN Return(p, -1) /\ UNCHANGED pipes
         ELSE IF f.kind = "inode" THEN Return(p, Len(x)) /\ UNCHANGED pipes
         ELSE IF ~pipes[i].readopen THEN Return(p, -1) /\ UNCHANGED pipes
         ELSE /\ pipes' = [pipes EXCEPT ![i].data = @ \o SubSeq(x, 1, n)]
              /\ proc' = [proc EXCEPT ![p] =
                   IF n = Len(x) THEN Returned(@, n) ELSE [@ EXCEPT !.code[1][3] = SubSeq(x, n + 1, Len(x))]]
  /\ UNCHANGED <<file, World>>

\* What gets() reads from the console: a line, <<>> at ^D.
SysGets(p) ==
  /\ At1(p, "gets")
  /\ Return(p, input[1]) /\ input' = Tail(input)
  /\ UNCHANGED <<file, pipes, console, faults, panic, session>>

\* srand(uptime()) and rand(): any number.
Rand(p) ==
  /\ At1(p, "random")
  /\ \E r \in 0 .. Op(p)[2] - 1 : Return(p, r)
  /\ UNCHANGED <<file, pipes, World>>

SayResult(p) ==
  /\ At1(p, "say")
  /\ proc' = [proc EXCEPT ![p] = Returned([@ EXCEPT !.said = Append(@, Op(p)[2])], 0)]
  /\ UNCHANGED <<file, pipes, World>>

-----------------------------------------------------------------------------
(* Processes                                                               *)

Free == {c \in Slot : proc[c].st = "unused"}

\* fork(): the child has the parent's descriptors and runs the code given.
SysFork(p) ==
  /\ At1(p, "fork")
  /\ \/ /\ Free # {}
        /\ file' = [f \in File |-> [file[f] EXCEPT !.ref = @ + Cardinality({d \in Fd : proc[p].fd[d] = f})]]
        /\ UNCHANGED pipes
        /\ proc' = [proc EXCEPT ![p] = Returned(@, Min(Free)),
                                ![Min(Free)] = [proc[p] EXCEPT !.parent = p, !.code = Run(Op(p)[2], 0), !.said = <<>>]]
        /\ UNCHANGED faults
     \/ /\ Return(p, -1) /\ UNCHANGED <<file, pipes>>
        /\ NoMemory(Free = {})
  /\ UNCHANGED <<input, console, panic, session>>

\* exec(): the program, or -1 if there is none of that name.
SysExec(p) ==
  /\ At1(p, "exec")
  /\ LET argv == Op(p)[2]
     IN  IF argv[1] \in {<<n>> : n \in Names}
         THEN proc' = [proc EXCEPT ![p].code = Program(argv), ![p].argv = argv]
         ELSE Return(p, -1)
  /\ UNCHANGED <<file, pipes, World>>

\* The files of process p closed, in the order of its descriptors.
Exited(p) ==
  FoldLeft(LAMBDA k, d : IF proc[p].fd[d - 1] = 0 THEN k ELSE Fileclose(k, proc[p].fd[d - 1]), Kernel(p), [d \in 1 .. NOFILE |-> d])

\* exit() with reparent(); what has been printed is kept for the properties.
SysExit(p) ==
  /\ At1(p, "exit")
  /\ IF IsInit(p) THEN panic' = TRUE /\ UNCHANGED <<proc, file, pipes>>
     ELSE /\ Install(Exited(p))
          /\ proc' = [c \in Slot |->
               IF c = p THEN [Unused EXCEPT !.st = "zombie", !.parent = proc[p].parent, !.said = proc[p].said, !.argv = proc[p].argv]
               ELSE IF Running(c) \/ proc[c].st = "zombie"
                    THEN [proc[c] EXCEPT !.parent = IF @ = p THEN 1 ELSE @] ELSE proc[c]]
          /\ UNCHANGED panic
  /\ UNCHANGED <<input, console, faults, session>>

\* wait(): the first child that is a zombie; -1 without children.
Kids(p) == {c \in Slot : proc[c].st # "unused" /\ proc[c].parent = p}
Zombies(p) == {c \in Kids(p) : proc[c].st = "zombie"}
SysWait(p) ==
  /\ At1(p, "wait")
  /\ \/ /\ Zombies(p) # {}
        /\ proc' = [proc EXCEPT ![p] = Returned(@, Min(Zombies(p))), ![Min(Zombies(p))] = Unused]
     \/ Kids(p) = {} /\ Return(p, -1)
  /\ UNCHANGED <<file, pipes, World>>

\* kill() of a process that sleeps or runs: its next act is to exit.
SysKill(p) ==
  /\ At1(p, "kill")
  /\ LET v == Op(p)[2]
     IN  proc' = [proc EXCEPT ![p] = Returned(@, 0), ![v] = IF @.st = "run" THEN [@ EXCEPT !.code = <<Exit>>] ELSE @]
  /\ UNCHANGED <<file, pipes, World>>

\* The calls that sleep: on an empty pipe that is open for writing, on a full one
\* that is open for reading, for a line, and for a child.
PipeOf(p) == pipes[file[proc[p].fd[Op(p)[2]]].pipe]
OnPipe(p, writable) ==
  ~BadFd(p, Op(p)[2]) /\ LET f == file[proc[p].fd[Op(p)[2]]] IN f.kind = "pipe" /\ f.writable = writable
Asleep(p) ==
  CASE Op(p)[1] = "read"  -> OnPipe(p, FALSE) /\ PipeOf(p).data = <<>> /\ PipeOf(p).writeopen
    [] Op(p)[1] = "write" -> OnPipe(p, TRUE) /\ Len(PipeOf(p).data) = PIPESIZE /\ PipeOf(p).readopen
    [] Op(p)[1] = "gets"  -> input = <<>>
    [] Op(p)[1] = "wait"  -> Kids(p) # {} /\ Zombies(p) = {}
    [] OTHER              -> FALSE
CanStep(p) == ~panic /\ Running(p) /\ ~Asleep(p)

Calls(p) ==
  \/ SysClose(p) \/ SysDup(p) \/ SysOpen(p) \/ SysMknod(p) \/ SysPipe(p) \/ SysRead(p) \/ SysWrite(p)
  \/ SysGets(p) \/ Rand(p) \/ SayResult(p) \/ SysFork(p) \/ SysExec(p) \/ SysExit(p) \/ SysWait(p) \/ SysKill(p)

Step(p) == CanStep(p) /\ Calls(p)

Init ==
  /\ proc = [p \in Slot |-> IF p = 1 THEN [Unused EXCEPT !.st = "run", !.code = InitMain] ELSE Unused]
  /\ file = [f \in File |-> NoFile]
  /\ pipes = [i \in 1 .. NPIPE |-> NoPipe]
  /\ session \in Sessions
  /\ input = session.lines
  /\ console = session.console
  /\ faults = [left |-> session.faults, failed |-> FALSE]
  /\ panic = FALSE

Next == \E p \in Slot : Step(p)

\* The scheduler runs every process again and again, and a sleeping process is
\* woken when what it waits for has happened (see SleepWakeup).
\* This is WF_vars(Step(p)), CanStep(p) being when Step(p) is enabled.
Fairness == \A p \in Slot : []<>~CanStep(p) \/ []<><<Step(p)>>_vars
Spec == Init /\ [][Next]_vars /\ Fairness

-----------------------------------------------------------------------------
(* What a command means: how its words stand on a line, and with which     *)
(* standard input and output, and after which others, its programs run.    *)

Simple(cmd) == cmd.t = "exec" \/ (cmd.t = "redir" /\ cmd.cmd.t \in {"exec", "redir"})
Paren(line) == <<"(">> \o line \o <<")", Blank>>

RECURSIVE Unparse(_)
Unparse(cmd) ==
  LET sub(c) == IF Simple(c) THEN Unparse(c) ELSE Paren(Unparse(c))
  IN  CASE cmd.t = "exec"  -> FlattenSeq([k \in DOMAIN cmd.argv |-> cmd.argv[k] \o <<Blank>>])
        [] cmd.t = "redir" -> sub(cmd.cmd) \o <<IF cmd.fd = 0 THEN "<" ELSE ">">> \o cmd.file
        [] cmd.t = "pipe"  -> sub(cmd.left) \o <<"|">> \o (IF cmd.right.t = "pipe" THEN Unparse(cmd.right) ELSE sub(cmd.right))
        [] cmd.t = "list"  -> (IF cmd.left.t = "list" THEN Paren(Unparse(cmd.left)) ELSE Unparse(cmd.left)) \o <<";", Blank>> \o Unparse(cmd.right)
        [] cmd.t = "back"  -> (IF cmd.cmd.t = "list" THEN Paren(Unparse(cmd.cmd)) ELSE Unparse(cmd.cmd)) \o <<"&">>
        [] cmd.t = "raw"   -> cmd.line

\* The programs of a command that are not in the background of it.
RECURSIVE Foreground(_)
Foreground(cmd) ==
  CASE cmd.t = "exec"             -> {cmd.argv}
    [] cmd.t = "redir"            -> Foreground(cmd.cmd)
    [] cmd.t \in {"pipe", "list"} -> Foreground(cmd.left) \cup Foreground(cmd.right)
    [] cmd.t \in {"back", "raw"}  -> {}

RECURSIVE Meaning(_, _, _, _, _)
Meaning(cmd, path, in, out, after) ==
  CASE cmd.t = "exec"  -> {[argv |-> cmd.argv, in |-> in, out |-> out, after |-> after]}
    [] cmd.t = "redir" -> LET port == <<"inode", cmd.file>>
                          IN  IF cmd.fd = 0 THEN Meaning(cmd.cmd, path, port, out, after)
                              ELSE Meaning(cmd.cmd, path, in, port, after)
    [] cmd.t = "pipe"  -> Meaning(cmd.left, path \o <<1>>, in, <<"pipe", path>>, after)
                          \cup Meaning(cmd.right, path \o <<2>>, <<"pipe", path>>, out, after)
    [] cmd.t = "list"  -> Meaning(cmd.left, path \o <<1>>, in, out, after)
                          \cup Meaning(cmd.right, path \o <<2>>, in, out, after \cup Foreground(cmd.left))
    [] cmd.t = "back"  -> Meaning(cmd.cmd, path, in, out, after)
    [] cmd.t = "raw"   -> {}

Tty == <<"inode", Console>>
MeaningOf(trees) ==
  UNION {Meaning(trees[k], <<k>>, Tty, Tty, UNION {Foreground(trees[j]) : j \in 1 .. k - 1}) : k \in DOMAIN trees}

-----------------------------------------------------------------------------
(* Properties                                                              *)

\* A file is referenced by as many descriptors as it counts, also when a pipe()
\* or open() has failed behind some of its allocations, the end of a pipe is
\* open while a file of it is, and no call of these programs names a descriptor
\* that is closed (kernel/file.c, kernel/pipe.c pipealloc() and pipeclose(),
\* kernel/sysfile.c sys_pipe(), sys_open() and argfd()).
FileRefs ==
  /\ \A f \in File : file[f].ref = Cardinality({x \in Slot \X Fd : proc[x[1]].fd[x[2]] = f})
  /\ \A i \in 1 .. NPIPE, w \in BOOLEAN :
       (IF w THEN pipes[i].writeopen ELSE pipes[i].readopen)
         = \E f \in File : file[f].kind = "pipe" /\ file[f].pipe = i /\ file[f].writable = w
  /\ \A p \in Slot : Running(p) /\ Op(p)[1] \in {"close", "dup", "read", "write"} => ~BadFd(p, Op(p)[2])

PortIs(f, port) == f.kind = port[1] /\ (port[1] = "inode" => f.name = port[2])
MakesPipes == {<<"pmem_test">>, <<"pingpong">>, <<"devine">>, <<"oxo">>}

\* A program a command line starts has the standard input and output that the
\* line says, through parser, forks, pipes and redirections, two programs share
\* a pipe exactly if it stands between them, and none keeps another end of one
\* (user/sh.c parsecmd(), runcmd()).
WiredAsWritten ==
  LET M == {m \in session.meaning : \E p \in Slot : Running(p) /\ proc[p].argv = m.argv}
      P(m) == {p \in Slot : Running(p) /\ proc[p].argv = m.argv}
      F(p, d) == file[proc[p].fd[d]]
  IN  /\ \A m \in M : \A p \in P(m) :
           /\ PortIs(F(p, 0), m.in) /\ PortIs(F(p, 1), m.out)
           /\ m.argv[1] \notin MakesPipes => \A d \in 3 .. NOFILE - 1 : proc[p].fd[d] # 0 => F(p, d).kind = "inode"
      /\ \A m, n \in M : m.out[1] = "pipe" /\ n.in[1] = "pipe" =>
           \A p \in P(m), q \in P(n) : (m.out = n.in) = (F(p, 1).pipe = F(q, 0).pipe)

\* While memory lasts, a command runs after those before it on its line and on
\* the lines before have ended, those in the background excepted (user/sh.c
\* main(), runcmd(): wait() waits for any child).
RunsInOrder ==
  ~faults.failed =>
    \A m \in session.meaning : (\E p \in Slot : Running(p) /\ proc[p].argv = m.argv) =>
      \A p \in Slot : Running(p) => proc[p].argv \notin m.after

Lines == ToSet(Rows \o Cols \o Diags)
HasLine(board, x) == \E l \in Lines : \A k \in 1 .. 3 : board[l[k]] = x
Count(board, x) == Cardinality({k \in 1 .. 9 : board[k] = x})
OxoOver(winner, board) ==
  /\ Count(board, PLAYER_X) - Count(board, PLAYER_O) \in {0, 1}
  /\ \A x \in {PLAYER_X, PLAYER_O} : (winner = x) = HasLine(board, x)
  /\ winner = 0 => Count(board, EMPTY) = 0
  /\ winner # 0 => \E k \in 1 .. 9 : board[k] = winner /\ ~HasLine([board EXCEPT ![k] = EMPTY], winner)
Depth == CHOOSE t \in 0 .. MAX_NUMBER : 2 ^ t > MAX_NUMBER /\ (t = 0 \/ 2 ^ (t - 1) <= MAX_NUMBER)

\* A game of oxo ends with the move that completes a line, or with a full board
\* without one, and the referee announces which; the search of devine takes no
\* more tries than its depth, so that the number is found whenever as many are
\* allowed, and "not found" is announced when no try has found it, but also,
\* right behind "found", when the last one has (user/oxo.c, user/devine.c:89,
\* which tests the number of tries only).
GamesRight ==
  \A p \in Slot :
    LET said == proc[p].said
        name == IF proc[p].argv = <<>> THEN <<>> ELSE proc[p].argv[1]
        max  == Atoi(proc[p].argv[2])
    IN  said # <<>> =>
          CASE name = <<"oxo">>    -> OxoOver(said[1][1], said[1][2])
            [] name = <<"devine">> ->
                 \/ said = << <<"not found", max>> >> /\ max < Depth
                 \/ \E t \in 1 .. Depth :
                      \/ t <= max /\ said = << <<"found", t>> >>
                      \/ t = max /\ said = << <<"found", t>>, <<"not found", max>> >>

Settled == input = <<>> /\ \A p \in Slot : Running(p) => At1(p, "gets") \/ (IsInit(p) /\ At1(p, "wait"))

\* Whatever is typed, and whichever calls fail, the commands end: only init, in
\* wait(), and a shell that reads the next line remain (or init could not start
\* one).  No program waits for a pipe that nobody will write or close.
CommandsEnd == <>[](Settled \/ panic)
=============================================================================
