-------------------------------- MODULE Shell --------------------------------
(***************************************************************************)
(* The shell, user/sh.c: its parser and runcmd().                          *)
(*                                                                         *)
(* A program is the list of system calls it has yet to make.  Between two  *)
(* calls stand local steps, <<name, arguments...>>, which Sh() replaces by *)
(* the calls that follow, given the result "got" of the call before.       *)
(*                                                                         *)
(* A line is a sequence of cells: a word, a symbol or a blank.  Pointers   *)
(* into it are positions from 1 on, and the cell behind the last is NUL.   *)
(***************************************************************************)
EXTENDS Integers, Sequences, SequencesExt

CONSTANT MAXARGS

\* System calls
Fork(code)     == <<"fork", code>>
Exit           == <<"exit">>
Wait           == <<"wait">>
Pipe           == <<"pipe">>
Close(fd)      == <<"close", fd>>
Dup(fd)        == <<"dup", fd>>
Open(name, w)  == <<"open", name, w>>    \* w: also for writing
Mknod(name)    == <<"mknod", name>>
Exec(argv)     == <<"exec", argv>>
Gets           == <<"gets">>
Read(fd, n)    == <<"read", fd, n>>
Write(fd, x)   == <<"write", fd, x>>
Kill(pid)      == <<"kill", pid>>
Random(n)      == <<"random", n>>    \* rand() % n with srand(uptime())
Say(x)         == <<"say", x>>       \* a result that is printed

-----------------------------------------------------------------------------
(* Tokens                                                                  *)

NUL     == ""
Blank   == " "
Symbols == {"<", "|", ">", "&", ";", "(", ")"}
Console == <<"console">>

At(line, s) == IF s <= Len(line) THEN line[s] ELSE NUL

RECURSIVE Skip(_, _)
Skip(line, s) == IF At(line, s) = Blank THEN Skip(line, s + 1) ELSE s

\* gettoken(): the token, where it starts and ends, and where the next begins.
Token(line, tok, q, eq) == [tok |-> tok, q |-> q, eq |-> eq, s |-> Skip(line, eq)]
TokenAt(line, q) ==
  CASE At(line, q) = NUL                            -> Token(line, NUL, q, q)
    [] At(line, q) = ">" /\ At(line, q + 1) = ">"   -> Token(line, "+", q, q + 2)
    [] At(line, q) \in Symbols /\ ~(At(line, q) = ">" /\ At(line, q + 1) = ">")
                                                    -> Token(line, At(line, q), q, q + 1)
    [] OTHER                                        -> Token(line, "a", q, q + 1)
Gettoken(line, s) == TokenAt(line, Skip(line, s))

Peek(line, s, toks) == At(line, Skip(line, s)) \in toks

-----------------------------------------------------------------------------
(* The parser.  A function returns the command and the position it has     *)
(* reached, 0 if it has called panic().                                    *)

Syntax == [cmd |-> [t |-> "panic"], s |-> 0]

Backcmd(cmd) == [t |-> "back", cmd |-> cmd]

\* redircmd() for a redirection: "<" sets descriptor 0, the others 1.
Redircmd(cmd, r) ==
  [t |-> "redir", cmd |-> cmd, fd |-> IF r.tok = "<" THEN 0 ELSE 1, file |-> r.q, efile |-> r.eq]

Pair(t, l, r) == IF r.s = 0 THEN r ELSE [cmd |-> [t |-> t, left |-> l.cmd, right |-> r.cmd], s |-> r.s]

\* parseredirs() appends to the redirections of a command those it finds.
RECURSIVE Parseredirs(_, _, _)
RedirFile(line, t, f, reds) ==
  IF f.tok # "a" THEN [reds |-> reds, s |-> 0]
  ELSE Parseredirs(line, f.s, Append(reds, [tok |-> t.tok, q |-> f.q, eq |-> f.eq]))
RedirToken(line, t, reds) == RedirFile(line, t, Gettoken(line, t.s), reds)
Parseredirs(line, s, reds) ==
  IF Peek(line, s, {"<", ">"}) THEN RedirToken(line, Gettoken(line, s), reds) ELSE [reds |-> reds, s |-> s]

\* Mutant: a redirection goes around the ones before it from the left.
Redirected_First(cmd, d) ==
  IF d.s = 0 THEN Syntax ELSE [cmd |-> FoldRight(LAMBDA r, c : Redircmd(c, r), d.reds, cmd), s |-> d.s]

\* The command with its redirections around it, the last one outermost.
Redirected(cmd, d) ==
  IF d.s = 0 THEN Syntax ELSE [cmd |-> FoldLeft(Redircmd, cmd, d.reds), s |-> d.s]

Execcmd(argv) == [t |-> "exec", argv |-> argv]

\* The arguments of parseexec(), d being the redirections met so far.
RECURSIVE Args(_, _, _)
Arg(line, d, argv, k) ==
  CASE k.tok = NUL                                    -> Redirected(Execcmd(argv), d)
    [] k.tok = "a" /\ Len(argv) + 1 < MAXARGS         ->
         Args(line, Parseredirs(line, k.s, d.reds), Append(argv, [q |-> k.q, eq |-> k.eq]))
    [] k.tok \notin {NUL, "a"} \/ (k.tok = "a" /\ Len(argv) + 1 >= MAXARGS) -> Syntax
Args(line, d, argv) ==
  IF d.s = 0 THEN Syntax
  ELSE IF Peek(line, d.s, {"|", ")", "&", ";"}) THEN Redirected(Execcmd(argv), d)
  ELSE Arg(line, d, argv, Gettoken(line, d.s))

RECURSIVE Parseline(_, _)
RECURSIVE Parsepipe(_, _)

Blocked(line, r) ==
  IF r.s = 0 \/ ~Peek(line, r.s, {")"}) THEN Syntax
  ELSE Redirected(r.cmd, Parseredirs(line, Gettoken(line, r.s).s, <<>>))
Parseblock(line, s) == Blocked(line, Parseline(line, Gettoken(line, s).s))

Parseexec(line, s) ==
  IF Peek(line, s, {"("}) THEN Parseblock(line, s) ELSE Args(line, Parseredirs(line, s, <<>>), <<>>)

Piped(line, r) ==
  IF r.s # 0 /\ Peek(line, r.s, {"|"}) THEN Pair("pipe", r, Parsepipe(line, Gettoken(line, r.s).s)) ELSE r
Parsepipe(line, s) == Piped(line, Parseexec(line, s))

RECURSIVE Backs(_, _)
Backs(line, r) ==
  IF r.s # 0 /\ Peek(line, r.s, {"&"})
  THEN Backs(line, [cmd |-> Backcmd(r.cmd), s |-> Gettoken(line, r.s).s]) ELSE r

Listed(line, r) ==
  IF r.s # 0 /\ Peek(line, r.s, {";"}) THEN Pair("list", r, Parseline(line, Gettoken(line, r.s).s)) ELSE r
Parseline(line, s) == Listed(line, Backs(line, Parsepipe(line, s)))

\* nulterminate(): the line with a NUL behind each word of the command.
RECURSIVE EndsOf(_)
EndsOf(cmd) ==
  CASE cmd.t = "exec"             -> {cmd.argv[k].eq : k \in DOMAIN cmd.argv}
    [] cmd.t = "redir"            -> EndsOf(cmd.cmd) \cup {cmd.efile}
    [] cmd.t \in {"pipe", "list"} -> EndsOf(cmd.left) \cup EndsOf(cmd.right)
    [] cmd.t = "back"             -> EndsOf(cmd.cmd)
Nulterminate(line, cmd) == [s \in DOMAIN line |-> IF s \in EndsOf(cmd) THEN NUL ELSE line[s]]

\* The string at position q, which ends at a NUL.
RECURSIVE StringAt(_, _)
StringAt(line, q) == IF At(line, q) = NUL THEN <<>> ELSE <<At(line, q)>> \o StringAt(line, q + 1)

\* The command with its words in place of pointers into the line.
RECURSIVE Strings(_, _)
Strings(line, cmd) ==
  CASE cmd.t = "exec"  -> Execcmd([k \in DOMAIN cmd.argv |-> StringAt(line, cmd.argv[k].q)])
    [] cmd.t = "redir" -> [t |-> "redir", cmd |-> Strings(line, cmd.cmd), fd |-> cmd.fd, file |-> StringAt(line, cmd.file)]
    [] cmd.t \in {"pipe", "list"} -> [t |-> cmd.t, left |-> Strings(line, cmd.left), right |-> Strings(line, cmd.right)]
    [] cmd.t = "back"  -> Backcmd(Strings(line, cmd.cmd))

Parsed(line, r) ==
  IF r.s = 0 \/ Skip(line, r.s) # Len(line) + 1 THEN Syntax.cmd
  ELSE Strings(Nulterminate(line, r.cmd), r.cmd)
Parsecmd(line) == Parsed(line, Parseline(line, 1))

-----------------------------------------------------------------------------
(* runcmd() and main()                                                     *)

\* What the child for one side of pipe p does: end becomes its descriptor fd.
PipeSide(fd, end, p, cmd) == <<Close(fd), Dup(end), Close(p[1]), Close(p[2]), <<"run", cmd>> >>

\* Mutant: the parent keeps the write end while it waits.
RunPipe_Open(p, cmd) ==
  <<Fork(PipeSide(1, p[2], p, cmd.left)), <<"fork1">>,
    Fork(PipeSide(0, p[1], p, cmd.right)), <<"fork1">>,
    Close(p[1]), Wait, Wait, Close(p[2]), Exit>>

\* runcmd() of a pipe, with p from pipe().
RunPipe(p, cmd) ==
  <<Fork(PipeSide(1, p[2], p, cmd.left)), <<"fork1">>,
    Fork(PipeSide(0, p[1], p, cmd.right)), <<"fork1">>,
    Close(p[1]), Close(p[2]), Wait, Wait, Exit>>

\* Mutant: the right side of a list does not wait for the left.
RunList_NoWait(cmd) == <<Fork(<< <<"run", cmd.left>> >>), <<"fork1">>, <<"run", cmd.right>> >>

RunList(cmd) == <<Fork(<< <<"run", cmd.left>> >>), <<"fork1">>, Wait, <<"run", cmd.right>> >>

Runcmd(cmd) ==
  CASE cmd.t = "panic" -> <<Exit>>
    [] cmd.t = "exec"  -> IF cmd.argv = <<>> THEN <<Exit>> ELSE <<Exec(cmd.argv), Exit>>
    [] cmd.t = "redir" -> <<Close(cmd.fd), Open(cmd.file, cmd.fd = 1), <<"opened", cmd.cmd>> >>
    [] cmd.t = "list"  -> RunList(cmd)
    [] cmd.t = "pipe"  -> <<Pipe, <<"piped", cmd>> >>
    [] cmd.t = "back"  -> <<Fork(<< <<"run", cmd.cmd>> >>), <<"fork1">>, Exit>>

ShMain == <<Open(Console, TRUE), <<"three">> >>

\* "cd" is done by the shell itself and opens nothing.
IsCd(line) == At(line, 1) = "cd" /\ At(line, 2) = Blank

ShLine(line) ==
  IF line = <<>> THEN <<Exit>>
  ELSE IF IsCd(line) THEN << <<"prompt">> >>
  ELSE <<Fork(<< <<"command", line>> >>), <<"fork1">>, Wait, <<"prompt">> >>

ShSteps == {"three", "prompt", "line", "command", "run", "opened", "piped", "fork1"}

Sh(op, got) ==
  CASE op[1] = "three"   -> IF got >= 3 THEN <<Close(got), <<"prompt">> >>
                            ELSE IF got >= 0 THEN ShMain ELSE << <<"prompt">> >>
    [] op[1] = "prompt"  -> <<Gets, <<"line">> >>
    [] op[1] = "line"    -> ShLine(got)
    [] op[1] = "command" -> << <<"run", Parsecmd(op[2])>> >>
    [] op[1] = "run"     -> Runcmd(op[2])
    [] op[1] = "opened"  -> IF got < 0 THEN <<Exit>> ELSE << <<"run", op[2]>> >>
    [] op[1] = "piped"   -> IF got = <<>> THEN <<Exit>> ELSE RunPipe(got, op[2])
    [] op[1] = "fork1"   -> IF got = -1 THEN <<Exit>> ELSE <<>>
=============================================================================
