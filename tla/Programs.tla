------------------------------ MODULE Programs ------------------------------
(***************************************************************************)
(* User programs as lists of system calls and local steps (see Shell):     *)
(* init, cat, echo, pingpong, devine, oxo, psync_tst, pmem_test and        *)
(* phierarchy_tst.  What they print is left out, except the results of the *)
(* games.  A pipe p is the pair of descriptors <<p[0], p[1]>>: p[1] below  *)
(* is its read end and p[2] its write end.                                 *)
(***************************************************************************)
EXTENDS Shell, FiniteSets

CONSTANTS MAX_PING_PONG, MAX_NUMBER

-----------------------------------------------------------------------------
(* user/init.c                                                             *)

InitMain == <<Open(Console, TRUE), <<"console">>, Dup(0), Dup(0), <<"start">> >>
StartSh  == <<Fork(<<Exec(<< <<"sh">> >>), Exit>>), <<"started">> >>

InitSteps == {"console", "start", "started", "waited"}

\* waited: pid is the shell; another pid is that of an orphan.
InitStep(op, got) ==
  CASE op[1] = "console" -> IF got < 0 THEN <<Mknod(Console), Open(Console, TRUE)>> ELSE <<>>
    [] op[1] = "start"   -> StartSh
    [] op[1] = "started" -> IF got = -1 THEN <<Exit>> ELSE <<Wait, <<"waited", got>> >>
    [] op[1] = "waited"  -> IF got = op[2] THEN StartSh
                            ELSE IF got = -1 THEN <<Exit>> ELSE <<Wait, op>>

-----------------------------------------------------------------------------
(* user/cat.c, user/echo.c, user/psync_tst.c, user/pmem_test.c,            *)
(* user/phierarchy_tst.c                                                   *)

\* cat(fd), then rest.
Cat(fd, rest) == <<Read(fd, 512), <<"cat", fd, rest>> >>
CatFile(argv, i) == IF i > Len(argv) THEN <<Exit>> ELSE <<Open(argv[i], FALSE), <<"catopen", argv, i>> >>
CatMain(argv) == IF Len(argv) <= 1 THEN Cat(0, <<Exit>>) ELSE CatFile(argv, 2)

CatStep(op, got) ==
  CASE op[1] = "cat"     -> IF got = <<>> THEN op[3] ELSE <<Write(1, got), <<"cated", op[2], op[3]>> >>
    [] op[1] = "cated"   -> IF got = -1 THEN <<Exit>> ELSE Cat(op[2], op[3])
    [] op[1] = "catopen" -> IF got < 0 THEN <<Exit>> ELSE Cat(got, <<Close(got)>> \o CatFile(op[2], op[3] + 1))

\* Each argument, and the blank or newline after it.
Echo(argv) == FlattenSeq([k \in 1 .. Len(argv) - 1 |-> <<Write(1, argv[k + 1]), Write(1, <<Blank>>)>>]) \o <<Exit>>

Psync(wait_flag) == <<Fork(<<Exit>>), <<"fork1">> >> \o (IF wait_flag THEN <<Wait>> ELSE <<>>) \o <<Exit>>

Pmem(ps) ==
  <<Fork(<<Close(ps[1][1]), Write(ps[1][2], <<"done">>), Close(ps[1][2]), Exit>>), <<"fork1">>,
    Close(ps[1][2]), Read(ps[1][1], 10), Close(ps[1][1]), Wait, Exit>>

\* A child that executes a program which only prints, and the wait() for it.
Show(prog) == <<Fork(<<Exec(<< <<prog>> >>), Exit>>), <<"fork1">>, Wait>>

RECURSIVE Genealogy(_, _)
Genealogy(max, current) ==
  IF current >= max THEN <<>>
  ELSE <<Fork((IF current = max - 1 THEN Show("pstree") ELSE <<>>) \o Genealogy(max, current + 1) \o <<Exit>>),
         <<"fork1">>, Wait>>

Children(n) == FoldLeft(LAMBDA code, k : code \o Show("pstree"), <<>>, [k \in 1 .. n |-> k])
Phierarchy(nchilds, ngen) == Children(nchilds) \o Show("ps") \o Genealogy(ngen, 0) \o <<Wait, Exit>>

-----------------------------------------------------------------------------
(* Programs that start by making n pipes; then comes the local step next   *)
(* with the pipes as its first argument.                                   *)

Pipes(n, name, arg) == <<Pipe, <<"pipes", n, <<>>, name, arg>> >>
PipesStep(op, got) ==
  IF got = <<>> THEN <<Exit>>
  ELSE IF Len(op[3]) + 1 < op[2] THEN <<Pipe, [op EXCEPT ![3] = Append(@, got)]>>
  ELSE << <<op[4], Append(op[3], got), op[5]>> >>

(* user/pingpong.c: the parent writes to ps[1] and reads ps[2].            *)
PingChild(ps, i) ==
  IF i = 0 THEN <<Close(ps[1][1]), Close(ps[2][2]), Exit>> ELSE <<Read(ps[1][1], 1), <<"pong", ps, i>> >>
PingParent(ps, i) ==
  IF i = 0 THEN <<Close(ps[1][2]), Close(ps[2][1]), Wait, Exit>>
  ELSE <<Write(ps[1][2], <<"x">>), Read(ps[2][1], 1), <<"ponged", ps, i>> >>

PingStep(op, got) ==
  CASE op[1] = "ping"   -> <<Fork(<<Close(op[2][1][2]), Close(op[2][2][1])>> \o PingChild(op[2], op[3])), <<"fork1">>,
                             Close(op[2][1][1]), Close(op[2][2][2])>> \o PingParent(op[2], op[3])
    [] op[1] = "pong"   -> IF got = <<>> THEN PingChild(op[2], 0)
                           ELSE <<Write(op[2][2][2], got)>> \o PingChild(op[2], op[3] - 1)
    [] op[1] = "ponged" -> PingParent(op[2], IF got = <<>> THEN 0 ELSE op[3] - 1)

-----------------------------------------------------------------------------
(* user/devine.c: the child writes its guesses to ps[1] and reads the      *)
(* feedback from ps[2].                                                    *)

\* The parent: after "tries" of max_tries answers.
DevineEnd(ps, tries, max) ==
  (IF tries = max THEN <<Say(<<"not found", max>>)>> ELSE <<>>) \o <<Close(ps[1][1]), Close(ps[2][2]), Wait, Exit>>
DevineParent(ps, max, mystery, tries) ==
  IF tries < max THEN <<Read(ps[1][1], 1), <<"judge", ps, max, mystery, tries + 1>> >> ELSE DevineEnd(ps, tries, max)

Feedback(guess, mystery) == IF guess > mystery THEN 1 ELSE IF guess < mystery THEN -1 ELSE 0
Judge(ps, max, mystery, tries, fb) ==
  (IF fb = 0 THEN <<Say(<<"found", tries>>)>> ELSE <<>>) \o <<Write(ps[2][2], <<fb>>), <<"judged", ps, max, mystery, tries, fb>> >>

\* The child, which knows that the number is in lo .. hi.
DevineChild(ps, max, tries, lo, hi) ==
  IF tries < max
  THEN <<Write(ps[1][2], <<(lo + hi) \div 2>>), <<"sent", ps, max, tries + 1, lo, hi>> >>
  ELSE <<Close(ps[1][2]), Close(ps[2][1]), Exit>>

\* Mutant: a guess that is too low stays possible.
Narrow_Closed(ps, max, tries, lo, hi, fb) ==
  LET guess == (lo + hi) \div 2
  IN  CASE fb = 1    -> DevineChild(ps, max, tries, lo, guess - 1)
        [] fb = -1   -> DevineChild(ps, max, tries, guess, hi)
        [] OTHER     -> DevineChild(ps, max, max, lo, hi)

Narrow(ps, max, tries, lo, hi, fb) ==
  LET guess == (lo + hi) \div 2
  IN  CASE fb = 1    -> DevineChild(ps, max, tries, lo, guess - 1)
        [] fb = -1   -> DevineChild(ps, max, tries, guess + 1, hi)
        [] OTHER     -> DevineChild(ps, max, max, lo, hi)

DevineStep(op, got) ==
  CASE op[1] = "devine"  -> <<Fork(<<Close(op[2][1][1]), Close(op[2][2][2])>> \o DevineChild(op[2], op[3], 0, 1, MAX_NUMBER)),
                              <<"fork1">>, Close(op[2][1][2]), Close(op[2][2][1]),
                              Random(MAX_NUMBER), <<"mystery", op[2], op[3]>> >>
    [] op[1] = "mystery" -> DevineParent(op[2], op[3], got + 1, 0)
    [] op[1] = "judge"   -> IF got = <<>> THEN <<Exit>> ELSE Judge(op[2], op[3], op[4], op[5], Feedback(got[1], op[4]))
    [] op[1] = "judged"  -> IF got = -1 THEN <<Exit>>
                            ELSE IF op[6] = 0 THEN DevineEnd(op[2], op[5], op[3])
                            ELSE DevineParent(op[2], op[3], op[4], op[5])
    [] op[1] = "sent"    -> IF got = -1 THEN <<Exit>>
                            ELSE <<Read(op[2][2][1], 1), <<"narrow", op[2], op[3], op[4], op[5], op[6]>> >>
    [] op[1] = "narrow"  -> IF got = <<>> THEN <<Exit>> ELSE Narrow(op[2], op[3], op[4], op[5], op[6], got[1])

-----------------------------------------------------------------------------
(* user/oxo.c: ps is the pipes to A, from A, to B and from B.              *)

\* Mutant: an empty cell counts nothing.
EMPTY_Zero == 0

EMPTY == 9
PLAYER_X == -1
PLAYER_O == 1
Sum(board, cells) == board[cells[1]] + board[cells[2]] + board[cells[3]]
Rows  == << <<1, 2, 3>>, <<4, 5, 6>>, <<7, 8, 9>> >>
Cols  == << <<1, 4, 7>>, <<2, 5, 8>>, <<3, 6, 9>> >>
Diags == << <<1, 5, 9>>, <<3, 5, 7>> >>

\* checkWin(): the first line whose sum is 3 or -3 tells the winner.
CheckWin(board) ==
  LET won == SelectSeq(Rows \o Cols \o Diags, LAMBDA l : Sum(board, l) \in {3, -3})
  IN  IF won = <<>> THEN 0 ELSE IF Sum(board, won[1]) = 3 THEN 1 ELSE -1

IsDraw(board) == FoldLeft(LAMBDA x, y : x + y, 0, board) \in {1, -1}
IsGameOver(board) == CheckWin(board) # 0 \/ IsDraw(board)

\* getValidRandomMove(); a move is a position from 0 on, -1 if there is none.
EmptyCells(board) == SelectSeq([k \in 1 .. 9 |-> k], LAMBDA k : board[k] = EMPTY)
Player(from, to) == <<Read(from, 9), <<"play", from, to>> >>
Play(board, from, to) ==
  IF EmptyCells(board) = <<>> THEN <<Write(to, <<-1>>)>> \o Player(from, to)
  ELSE <<Random(Len(EmptyCells(board))), <<"move", from, to, EmptyCells(board)>> >>

Placed(board, player, move) ==
  IF move \in 0 .. 8 THEN [board EXCEPT ![move + 1] = IF @ = EMPTY THEN player ELSE @] ELSE board

\* The head of the loop of playAsReferee().
Referee(ps, board, player) ==
  IF IsGameOver(board)
  THEN <<Say(<<CheckWin(board), board>>), Write(ps[1][2], <<-99>>), Write(ps[3][2], <<-99>>), Wait, Wait, Exit>>
  ELSE LET to == IF player = PLAYER_X THEN 1 ELSE 3
       IN  <<Write(ps[to][2], board), Read(ps[to + 1][1], 1), <<"moved", ps, board, player>> >>

CloseBoth(ps, k) == <<Close(ps[k][1]), Close(ps[k][2])>>

OxoStep(op, got) ==
  CASE op[1] = "oxo"   -> <<Fork(<<Close(op[2][1][2]), Close(op[2][2][1])>> \o CloseBoth(op[2], 3) \o CloseBoth(op[2], 4)
                                 \o Player(op[2][1][1], op[2][2][2])), <<"fork1">>, <<"oxoB", op[2]>> >>
    [] op[1] = "oxoB"  -> <<Fork(<<Close(op[2][3][2]), Close(op[2][4][1])>> \o CloseBoth(op[2], 1) \o CloseBoth(op[2], 2)
                                 \o Player(op[2][3][1], op[2][4][2])), <<"referee", op[2], got>> >>
    [] op[1] = "referee" -> IF got = -1 THEN <<Kill(op[3]), Exit>>
                            ELSE [k \in 1 .. 4 |-> Close(op[2][k][IF k \in {1, 3} THEN 1 ELSE 2])]
                                 \o Referee(op[2], [k \in 1 .. 9 |-> EMPTY], PLAYER_X)
    [] op[1] = "moved" -> Referee(op[2], Placed(op[3], op[4], got[1]), -op[4])
    [] op[1] = "play"  -> IF got = <<>> \/ got[1] = -99 THEN <<Exit>> ELSE Play(got, op[2], op[3])
    [] op[1] = "move"  -> <<Write(op[3], <<op[4][got + 1] - 1>>)>> \o Player(op[2], op[3])

-----------------------------------------------------------------------------
(* What exec() finds, and the local steps of all programs.                 *)

Numbers == <<"1", "2", "3", "4">>
IsNumber(w) == w[1] \in ToSet(Numbers) \cup {"0"}
Atoi(w) == IF w[1] \in ToSet(Numbers) THEN CHOOSE k \in DOMAIN Numbers : Numbers[k] = w[1] ELSE 0

Names == {"sh", "cat", "cat2", "echo", "echo2", "psync_tst", "pmem_test", "phierarchy_tst", "ps", "pstree",
          "pingpong", "devine", "oxo"}

\* The calls of the program argv[0]; with arguments it does not take, it exits.
Program(argv) ==
  LET arg(k)   == Atoi(argv[k + 1])
      name     == argv[1]
      If(c, x) == IF c THEN x ELSE <<Exit>>
  IN  CASE name = <<"sh">>                         -> ShMain
        [] name \in {<<"cat">>, <<"cat2">>}        -> CatMain(argv)
        [] name \in {<<"echo">>, <<"echo2">>}      -> Echo(argv)
        [] name = <<"psync_tst">>                  -> If(Len(argv) = 1 \/ (Len(argv) = 2 /\ arg(1) \in {0, 1}),
                                                         Psync(Len(argv) = 1 \/ arg(1) = 1))
        [] name = <<"pmem_test">>                  -> Pipes(1, "pmem", 0)
        [] name = <<"phierarchy_tst">>             -> If(Len(argv) = 3 /\ arg(1) >= 1 /\ arg(2) >= 1, Phierarchy(arg(1), arg(2)))
        [] name = <<"pingpong">>                   -> If(Len(argv) = 1 \/ (Len(argv) = 2 /\ IsNumber(argv[2])),
                                                         Pipes(2, "ping", IF Len(argv) = 2 THEN arg(1) ELSE MAX_PING_PONG))
        [] name = <<"devine">>                     -> If(Len(argv) = 2 /\ arg(1) > 0, Pipes(2, "devine", arg(1)))
        [] name = <<"oxo">>                        -> Pipes(4, "oxo", 0)
        [] name \in {<<"ps">>, <<"pstree">>}       -> <<Exit>>

CatSteps    == {"cat", "cated", "catopen"}
PingSteps   == {"ping", "pong", "ponged"}
DevineSteps == {"devine", "mystery", "judge", "judged", "sent", "narrow"}
OxoSteps    == {"oxo", "oxoB", "referee", "moved", "play", "move"}

\* The calls that take the place of local step op.
Then(op, got) ==
  CASE op[1] \in ShSteps     -> Sh(op, got)
    [] op[1] \in InitSteps   -> InitStep(op, got)
    [] op[1] \in CatSteps    -> CatStep(op, got)
    [] op[1] = "pipes"       -> PipesStep(op, got)
    [] op[1] = "pmem"        -> Pmem(op[2])
    [] op[1] \in PingSteps   -> PingStep(op, got)
    [] op[1] \in DevineSteps -> DevineStep(op, got)
    [] op[1] \in OxoSteps    -> OxoStep(op, got)

Local == ShSteps \cup InitSteps \cup CatSteps \cup PingSteps \cup DevineSteps \cup OxoSteps \cup {"pipes", "pmem"}

\* The program at its next system call.
RECURSIVE Run(_, _)
Run(code, got) == IF code[1][1] \in Local THEN Run(Then(code[1], got) \o Tail(code), got) ELSE code
=============================================================================
