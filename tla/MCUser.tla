------------------------------- MODULE MCUser -------------------------------
(***************************************************************************)
(* What is typed at the console in the runs of UserSys: command trees,     *)
(* which Unparse() writes as lines, and lines that are no commands.  A     *)
(* session has a console node or init must make it, a number of calls that *)
(* find no memory, and tables of some size.                                *)
(***************************************************************************)
EXTENDS UserSys

Ex(words) == [t |-> "exec", argv |-> [k \in DOMAIN words |-> <<words[k]>>]]
In(c, f)  == [t |-> "redir", cmd |-> c, fd |-> 0, file |-> <<f>>]
Out(c, f) == [t |-> "redir", cmd |-> c, fd |-> 1, file |-> <<f>>]
Two(t, a, b) == [t |-> t, left |-> a, right |-> b]
Bg(c)     == [t |-> "back", cmd |-> c]
Raw(line) == [t |-> "raw", line |-> line]

Type(trees, con, n) ==
  [lines |-> [k \in DOMAIN trees |-> Unparse(trees[k])], meaning |-> MeaningOf(trees),
   console |-> con, faults |-> n, nfile |-> NFILE, nofile |-> NOFILE]

\* The same with room for so many files, and so many descriptors a process.
Small(s, files, fds) == [s EXCEPT !.nfile = files, !.nofile = fds]

echo  == Ex(<<"echo", "1">>)
echo2 == Ex(<<"echo2", "2", "3">>)
cat   == Ex(<<"cat">>)
cat2  == Ex(<<"cat2">>)

MCSessions == {
  \* A pipeline into a file, then a program that reads it.
  Type(<<Two("list", Two("pipe", echo, Out(cat, "f")), In(cat2, "f"))>>, FALSE, 0),
  \* Two writers of a pipe, one after the other, redirections inside and outside.
  Type(<<Two("pipe", Two("list", Out(Out(echo, "f"), "g"), echo2), cat)>>, TRUE, 0),
  \* A longer pipeline around files.
  Type(<<In(Out(Two("pipe", cat, cat2), "g"), "f")>>, TRUE, 0),
  Type(<<Two("pipe", echo2, Two("pipe", cat, cat2))>>, TRUE, 0),
  \* Background, and the next line meanwhile; ^D and a new shell.
  Type(<<Bg(Two("pipe", echo, cat)), echo2, Raw(<<>>), Ex(<<"cat2", "f", "nofile">>)>>, TRUE, 0),
  Type(<<Two("list", Bg(Two("list", echo, echo2)), Bg(Two("list", Ex(<<"cat", "f">>), Ex(<<"cat2", "f">>))))>>, TRUE, 0),
  \* A program and a file that are missing, and lines that are not commands.
  Type(<<Two("pipe", Ex(<<"nothing">>), cat), In(cat2, "nofile"), Raw(<<"cd", Blank, "x">>), echo>>, TRUE, 0),
  Type(<<Raw(<<"echo", "&", "cat">>), Raw(<<"(", "echo">>), Raw(<<"echo", ">", ">", "|">>), Raw(<<")">>),
         Raw(<<"echo", Blank, "1", Blank, "2", Blank, "3">>), Raw(<<"echo", "(">>), Raw(<<";", Blank>>), Raw(<<"echo", ">", ">", "f">>), echo>>, TRUE, 0),
  \* One call that finds no memory.
  Type(<<Two("list", Two("pipe", echo, cat), Bg(echo2)), Ex(<<"pmem_test">>)>>, TRUE, 1),
  \* The programs of the repository.
  Type(<<Ex(<<"pingpong">>), Ex(<<"pingpong", "1">>), Ex(<<"psync_tst">>), Ex(<<"psync_tst", "0">>)>>, TRUE, 0),
  Type(<<Ex(<<"pingpong", "x">>), Ex(<<"psync_tst", "2">>), Ex(<<"phierarchy_tst", "1", "0">>)>>, TRUE, 0),
  Type(<<Ex(<<"pmem_test">>), Ex(<<"phierarchy_tst", "1", "2">>), Ex(<<"phierarchy_tst", "1", "4">>)>>, TRUE, 0),
  Type(<<Ex(<<"devine", "2">>)>>, TRUE, 1),
  Type(<<Ex(<<"devine", "3">>), Ex(<<"devine">>), Two("pipe", Ex(<<"oxo">>), cat)>>, TRUE, 0),
  Type(<<Ex(<<"oxo">>)>>, TRUE, 1),
  \* No descriptor for a file, for the second end of a pipe, for the first; one
  \* file for the two ends; and no file, and no descriptor for a dup().
  Small(Type(<<Ex(<<"cat", "f">>), In(cat2, "f")>>, FALSE, 0), NFILE, 3),
  Small(Type(<<Ex(<<"devine", "2">>), Two("pipe", echo, cat)>>, TRUE, 0), NFILE, 6),
  Small(Type(<<Two("pipe", echo, cat), Ex(<<"pmem_test">>)>>, TRUE, 0), NFILE, 3),
  Small(Type(<<Two("pipe", Ex(<<"devine", "1">>), cat), Ex(<<"pingpong", "1">>)>>, TRUE, 0), 4, NOFILE),
  Small(Type(<<Ex(<<"pmem_test">>), Ex(<<"cat", "f">>), echo2>>, TRUE, 0), 1, 2)}
=============================================================================
