----------------------------- MODULE FileSystem -----------------------------
(***************************************************************************)
(* The system calls that change the tree of directories (kernel/sysfile.c) *)
(* on top of namex(), dirlookup() and dirlink() of kernel/fs.c: link,      *)
(* unlink, open with and without O_CREATE, mkdir, mknod, chdir and close,  *)
(* called by several processes at once, with a crash at any point.         *)
(*                                                                         *)
(* Each process has one file descriptor (NOFILE = 1, which also stands for *)
(* a full file table) and a path is a sequence of names, "/" first if it   *)
(* is absolute: skipelem() at work.  A directory is a function from names  *)
(* to inode numbers; dirlink() may fail because it needs a block and the   *)
(* disk is full.                                                           *)
(***************************************************************************)
EXTENDS Inodes

CONSTANTS Tree,      \* the inodes of the file system mkfs made
          Workloads, \* which system calls each process may make, in functions of the process
          MaxCalls   \* bound: how many each makes

VARIABLES
  call,  \* the arguments of the call in progress
  path,  \* what is left of the path in namex()
  fd,    \* the inode of the open file, a slot, or 0
  cwd,   \* p->cwd, a slot
  calls, \* the workload
  left   \* how many calls each process still makes (a bound of the model)

fsVars == <<disk, stable, active, slot, pc, ip, dp, put, back, call, path, fd, cwd, calls, left>>
userVars == <<fd, cwd, calls, left>>

NoCall == [op |-> "none"]

Creates(c) == c.op \in {"create", "mkdir", "mknod"}
TypeOf(c)  == CASE c.op = "create" -> "file"
                [] c.op = "mkdir"  -> "dir"
                [] c.op = "mknod"  -> c.type

\* nameiparent() rather than namei().
Parent(p) == \/ Creates(call[p]) \/ call[p].op = "unlink"
             \/ call[p].op = "link" /\ ip[p] # 0

Init ==
  /\ disk = Tree
  /\ stable = disk
  /\ active = {}
  /\ slot = [s \in Slot |-> IF s = 1 THEN [Unused EXCEPT !.inum = ROOTINO, !.ref = Cardinality(Proc)]
                            ELSE Unused]
  /\ pc = [p \in Proc |-> "user"]
  /\ ip = [p \in Proc |-> 0] /\ dp = ip /\ put = ip /\ fd = ip
  /\ back = pc
  /\ call = [p \in Proc |-> NoCall]
  /\ path = [p \in Proc |-> <<>>]
  /\ cwd = [p \in Proc |-> 1]
  /\ calls \in Workloads
  /\ left = [p \in Proc |-> MaxCalls]

\* Power fails or the kernel has panicked; the machine starts again on what
\* is stable, and init's descendants have "/" as their directory.
Crash ==
  /\ active # {}
  /\ disk' = stable /\ UNCHANGED stable
  /\ active' = {}
  /\ slot' = [s \in Slot |-> IF s = 1 THEN [Unused EXCEPT !.inum = ROOTINO, !.ref = Cardinality(Proc)]
                             ELSE Unused]
  /\ pc' = [p \in Proc |-> "user"]
  /\ ip' = [p \in Proc |-> 0] /\ dp' = ip' /\ put' = ip' /\ fd' = ip'
  /\ back' = pc'
  /\ call' = [p \in Proc |-> NoCall]
  /\ path' = [p \in Proc |-> <<>>]
  /\ cwd' = [p \in Proc |-> 1]
  /\ UNCHANGED <<calls, left>>

-----------------------------------------------------------------------------
(* namex()                                                                 *)

\* iget(root) or idup(cwd) in table t, before the first element of w.
StartWalk(p, t, w) ==
  /\ Goto(p, "walk")
  /\ IF Head(w) = "/"
     THEN /\ slot' = Iget(t, ROOTINO)
          /\ dp' = [dp EXCEPT ![p] = SlotOf(t, ROOTINO)]
          /\ path' = [path EXCEPT ![p] = Tail(w)]
     ELSE /\ slot' = Idup(t, cwd[p])
          /\ dp' = [dp EXCEPT ![p] = cwd[p]]
          /\ path' = [path EXCEPT ![p] = w]

\* Where a namex() that returns 0 leaves the caller.
Failed(p) == IF call[p].op = "link" /\ ip[p] # 0 THEN "link_bad" ELSE "end"

PutDp(p, label) == Iput(p, dp[p], label) /\ dp' = [dp EXCEPT ![p] = 0]
PutIp(p, label) == Iput(p, ip[p], label) /\ ip' = [ip EXCEPT ![p] = 0]

Lookup(s, n) == disk[slot[s].inum].ents[n]

WalkReturn(p) ==
  /\ pc[p] = "walk" /\ path[p] = <<>>
  /\ IF Parent(p)
     THEN PutDp(p, Failed(p)) /\ UNCHANGED ip
     ELSE /\ ip' = [ip EXCEPT ![p] = dp[p]] /\ dp' = [dp EXCEPT ![p] = 0]
          /\ Goto(p, "found") /\ UNCHANGED <<put, back>>
  /\ UNCHANGED <<diskVars, slot, call, path, userVars>>

\* One turn of the loop, up to the iput() of the directory.
WalkStep(p) ==
  /\ pc[p] = "walk" /\ path[p] # <<>> /\ CanLock(dp[p])
  /\ LET t == Loaded(slot, dp[p])
         n == Lookup(dp[p], Head(path[p]))
     IN  \/ /\ t[dp[p]].type # "dir"
            /\ slot' = t /\ PutDp(p, Failed(p)) /\ UNCHANGED path
         \/ /\ t[dp[p]].type = "dir" /\ Parent(p) /\ Len(path[p]) = 1
            /\ slot' = t /\ Goto(p, "parent") /\ UNCHANGED <<dp, path, put, back>>
         \/ /\ t[dp[p]].type = "dir" /\ ~(Parent(p) /\ Len(path[p]) = 1) /\ n = 0
            /\ slot' = t /\ PutDp(p, Failed(p)) /\ UNCHANGED path
         \/ /\ t[dp[p]].type = "dir" /\ ~(Parent(p) /\ Len(path[p]) = 1) /\ n # 0
            /\ slot' = Iget(t, n)
            /\ Iput(p, dp[p], "walk")
            /\ dp' = [dp EXCEPT ![p] = SlotOf(t, n)]
            /\ path' = [path EXCEPT ![p] = Tail(@)]
  /\ UNCHANGED <<diskVars, ip, call, userVars>>

\* The slot whose lock the next step of p needs, or 0.
LockTarget(p) ==
  CASE pc[p] = "walk" /\ path[p] # <<>>                       -> dp[p]
    [] pc[p] = "parent"                                       -> dp[p]
    [] pc[p] \in {"found", "unlink_ip", "link_bad", "create_found", "create_new"} -> ip[p]
    [] OTHER                                                  -> 0

-----------------------------------------------------------------------------
(* Entry to and return from the calls                                      *)

\* begin_op(), then namei() or nameiparent(); close() has only an iput().
Begin(p) ==
  /\ pc[p] = "user" /\ left[p] > 0
  /\ left' = [left EXCEPT ![p] = @ - 1]
  /\ active' = active \cup {p}
  /\ \E c \in calls[p] :
       /\ call' = [call EXCEPT ![p] = c]
       /\ \/ /\ c.op # "close"
             /\ StartWalk(p, slot, c.path)
             /\ UNCHANGED <<put, back, fd>>
          \/ /\ c.op = "close" /\ fd[p] # 0
             /\ fd' = [fd EXCEPT ![p] = 0]
             /\ Iput(p, fd[p], "end")
             /\ UNCHANGED <<slot, dp, path>>
  /\ UNCHANGED <<disk, stable, ip, cwd, calls>>

Return(p) ==
  /\ EndOp(p)
  /\ Goto(p, "user")
  /\ call' = [call EXCEPT ![p] = NoCall]
  /\ path' = [path EXCEPT ![p] = <<>>]

End(p) ==
  /\ pc[p] = "end"
  /\ Return(p)
  /\ UNCHANGED <<slot, ip, dp, put, back, userVars>>

\* Mutant: iput(dp) without iunlock(dp).
UnlockDp_Held(p) ==
  /\ pc[p] = "unlock_dp"
  /\ PutDp(p, Failed(p))
  /\ UNCHANGED <<diskVars, slot, ip, call, path, userVars>>

\* iunlockput(dp) after iunlockput(ip).
UnlockDp(p) ==
  /\ pc[p] = "unlock_dp"
  /\ slot' = Iunlock(slot, dp[p])
  /\ PutDp(p, Failed(p))
  /\ UNCHANGED <<diskVars, ip, call, path, userVars>>

-----------------------------------------------------------------------------
(* unlink()                                                                *)

\* The lookup of the name under dp's lock, which stays held.
UnlinkParent(p) ==
  /\ pc[p] = "parent" /\ call[p].op = "unlink" /\ CanLock(dp[p])
  /\ LET name == Head(path[p])
         n    == Lookup(dp[p], name)
     IN  \/ /\ name \in {".", ".."} \/ n = 0
            /\ slot' = Loaded(slot, dp[p]) /\ PutDp(p, "end") /\ UNCHANGED ip
         \/ /\ name \notin {".", ".."} /\ n # 0
            /\ slot' = Iget(Locked(slot, dp[p], p), n)
            /\ ip' = [ip EXCEPT ![p] = SlotOf(slot, n)]
            /\ Goto(p, "unlink_ip") /\ UNCHANGED <<dp, put, back>>
  /\ UNCHANGED <<diskVars, call, path, userVars>>

IsDirEmpty(i) == \A n \in Name : disk[i].ents[n] = 0

\* The entry is cleared, dp loses the link of ".." and is put.
UnlinkIp(p) ==
  /\ pc[p] = "unlink_ip" /\ CanLock(ip[p])
  /\ LET t == Locked(slot, ip[p], p)
         isdir == t[ip[p]].type = "dir"
         u == [t EXCEPT ![dp[p]].nlink = IF isdir THEN @ - 1 ELSE @]
     IN  \/ /\ isdir /\ ~IsDirEmpty(t[ip[p]].inum)
            /\ slot' = Loaded(slot, ip[p]) /\ PutIp(p, "unlock_dp")
            /\ UNCHANGED <<disk, dp>>
         \/ /\ ~(isdir /\ ~IsDirEmpty(t[ip[p]].inum))
            /\ disk' = Iupdate([disk EXCEPT ![t[dp[p]].inum].ents[Head(path[p])] = 0], u, dp[p])
            /\ slot' = Iunlock(u, dp[p])
            /\ PutDp(p, "unlink_dec")
            /\ UNCHANGED <<ip>>
  /\ UNCHANGED <<stable, active, call, path, userVars>>

UnlinkDec(p) ==
  /\ pc[p] = "unlink_dec"
  /\ LET t == [slot EXCEPT ![ip[p]].nlink = @ - 1]
     IN  slot' = Iunlock(t, ip[p]) /\ disk' = Iupdate(disk, t, ip[p])
  /\ PutIp(p, "end")
  /\ UNCHANGED <<stable, active, dp, call, path, userVars>>

-----------------------------------------------------------------------------
(* link()                                                                  *)

\* Mutant: the link is counted only once the entry is there.
LinkFound_Late(p) ==
  /\ pc[p] = "found" /\ call[p].op = "link" /\ CanLock(ip[p])
  /\ LET t == Loaded(slot, ip[p])
     IN  IF t[ip[p]].type = "dir"
         THEN slot' = t /\ PutIp(p, "end") /\ UNCHANGED <<disk, dp, path>>
         ELSE StartWalk(p, t, call[p].new) /\ UNCHANGED <<disk, ip, put, back>>
  /\ UNCHANGED <<stable, active, call, userVars>>

\* ip->nlink++ before the entry exists; then nameiparent(new).
LinkFound(p) ==
  /\ pc[p] = "found" /\ call[p].op = "link" /\ CanLock(ip[p])
  /\ LET t == Loaded(slot, ip[p])
         u == [t EXCEPT ![ip[p]].nlink = @ + 1]
     IN  \/ /\ t[ip[p]].type = "dir"
            /\ slot' = t /\ PutIp(p, "end") /\ UNCHANGED <<disk, dp, path>>
         \/ /\ t[ip[p]].type # "dir"
            /\ disk' = Iupdate(disk, u, ip[p])
            /\ StartWalk(p, u, call[p].new)
            /\ UNCHANGED <<ip, put, back>>
  /\ UNCHANGED <<stable, active, call, userVars>>

\* dirlink(dp, name, ip->inum) and iunlockput(dp).
LinkParent(p) ==
  /\ pc[p] = "parent" /\ call[p].op = "link" /\ CanLock(dp[p])
  /\ LET t == Loaded(slot, dp[p])
         n == Lookup(dp[p], Head(path[p]))
     IN  \/ /\ n # 0
            /\ slot' = Iget(Locked(slot, dp[p], p), n)
            /\ Iput(p, SlotOf(t, n), "unlock_dp")
            /\ UNCHANGED <<disk, dp>>
         \/ /\ n = 0
            /\ slot' = t
            /\ \/ /\ disk' = [disk EXCEPT ![t[dp[p]].inum].ents[Head(path[p])] = slot[ip[p]].inum]
                  /\ PutDp(p, "link_done")
               \/ UNCHANGED disk /\ PutDp(p, "link_bad")
  /\ UNCHANGED <<stable, active, ip, call, path, userVars>>

LinkDone(p) ==
  /\ pc[p] = "link_done"
  /\ PutIp(p, "end")
  /\ UNCHANGED <<diskVars, slot, dp, call, path, userVars>>

LinkBad(p) ==
  /\ pc[p] = "link_bad" /\ CanLock(ip[p])
  /\ LET t == [Loaded(slot, ip[p]) EXCEPT ![ip[p]].nlink = @ - 1]
     IN  slot' = t /\ disk' = Iupdate(disk, t, ip[p])
  /\ PutIp(p, "end")
  /\ UNCHANGED <<stable, active, dp, call, path, userVars>>

-----------------------------------------------------------------------------
(* create(), for open(O_CREATE), mkdir() and mknod()                       *)

CreateParent(p) ==
  /\ pc[p] = "parent" /\ Creates(call[p]) /\ CanLock(dp[p])
  /\ LET t == Loaded(slot, dp[p])
         n == Lookup(dp[p], Head(path[p]))
     IN  \/ /\ n # 0
            /\ slot' = Iget(t, n)
            /\ ip' = [ip EXCEPT ![p] = SlotOf(t, n)]
            /\ PutDp(p, "create_found")
            /\ UNCHANGED disk
         \/ /\ n = 0 /\ FreeInums = {}
            /\ slot' = t /\ PutDp(p, "end")
            /\ UNCHANGED <<disk, ip>>
         \/ /\ n = 0
            /\ \E i \in Inum :
                 /\ Ialloc(i, TypeOf(call[p]))
                 /\ slot' = Iget(Locked(slot, dp[p], p), i)
                 /\ ip' = [ip EXCEPT ![p] = SlotOf(t, i)]
            /\ Goto(p, "create_new")
            /\ UNCHANGED <<dp, put, back>>
  /\ UNCHANGED <<stable, active, call, path, userVars>>

CreateFound(p) ==
  /\ pc[p] = "create_found" /\ CanLock(ip[p])
  /\ IF call[p].op = "create" /\ Loaded(slot, ip[p])[ip[p]].type # "dir"
     THEN slot' = Locked(slot, ip[p], p) /\ Goto(p, "opened") /\ UNCHANGED <<ip, put, back>>
     ELSE slot' = Loaded(slot, ip[p]) /\ PutIp(p, "end")
  /\ UNCHANGED <<diskVars, dp, call, path, userVars>>

\* The new inode gets its link, "." and "..", then its entry in dp.
CreateNew(p) ==
  /\ pc[p] = "create_new" /\ CanLock(ip[p])
  /\ LET isdir == TypeOf(call[p]) = "dir"
         t == [Locked(slot, ip[p], p) EXCEPT ![ip[p]].nlink = 1,
                                             ![dp[p]].nlink = IF isdir THEN @ + 1 ELSE @]
         i == slot[ip[p]].inum
         d == slot[dp[p]].inum
         f == [Loaded(slot, ip[p]) EXCEPT ![ip[p]].nlink = 0]
     IN  \/ /\ disk' = Iupdate(Iupdate(
                         [disk EXCEPT ![d].ents[Head(path[p])] = i,
                                      ![i].ents = IF isdir THEN [@ EXCEPT !["."] = i, ![".."] = d] ELSE @],
                         t, ip[p]), t, dp[p])
            /\ slot' = Iunlock(t, dp[p])
            /\ PutDp(p, "created") /\ UNCHANGED ip
         \/ /\ disk' = Iupdate(disk, f, ip[p])
            /\ slot' = f
            /\ PutIp(p, "unlock_dp") /\ UNCHANGED dp
  /\ UNCHANGED <<stable, active, call, path, userVars>>

\* open() goes on with ip locked; mkdir() and mknod() are done.
Created(p) ==
  /\ pc[p] = "created"
  /\ \/ /\ call[p].op = "create"
        /\ Goto(p, "opened") /\ UNCHANGED <<slot, ip, put, back>>
     \/ /\ call[p].op # "create"
        /\ slot' = Iunlock(slot, ip[p]) /\ PutIp(p, "end")
  /\ UNCHANGED <<diskVars, dp, call, path, userVars>>

-----------------------------------------------------------------------------
(* open() and chdir()                                                      *)

OpenFound(p) ==
  /\ pc[p] = "found" /\ call[p].op = "open" /\ CanLock(ip[p])
  /\ IF Loaded(slot, ip[p])[ip[p]].type = "dir" /\ call[p].write
     THEN slot' = Loaded(slot, ip[p]) /\ PutIp(p, "end")
     ELSE slot' = Locked(slot, ip[p], p) /\ Goto(p, "opened") /\ UNCHANGED <<ip, put, back>>
  /\ UNCHANGED <<diskVars, dp, call, path, userVars>>

\* filealloc() and fdalloc(); a device needs a major number in range.
Opened(p) ==
  /\ pc[p] = "opened"
  /\ LET refused == slot[ip[p]].type = "baddev" \/ fd[p] # 0
     IN  \/ /\ refused
            /\ slot' = Iunlock(slot, ip[p]) /\ PutIp(p, "end")
            /\ UNCHANGED <<diskVars, call, path, fd>>
         \/ /\ ~refused
            /\ fd' = [fd EXCEPT ![p] = ip[p]]
            /\ ip' = [ip EXCEPT ![p] = 0]
            /\ slot' = Iunlock(slot, ip[p])
            /\ Return(p) /\ UNCHANGED <<put, back>>
  /\ UNCHANGED <<dp, cwd, calls, left>>

\* Only p looks at its cwd, so that it may change before the iput() of the
\* old one.
ChdirFound(p) ==
  /\ pc[p] = "found" /\ call[p].op = "chdir" /\ CanLock(ip[p])
  /\ slot' = Loaded(slot, ip[p])
  /\ \/ /\ slot'[ip[p]].type # "dir"
        /\ PutIp(p, "end") /\ UNCHANGED cwd
     \/ /\ slot'[ip[p]].type = "dir"
        /\ Iput(p, cwd[p], "end")
        /\ cwd' = [cwd EXCEPT ![p] = ip[p]]
        /\ ip' = [ip EXCEPT ![p] = 0]
  /\ UNCHANGED <<diskVars, dp, call, path, fd, calls, left>>

-----------------------------------------------------------------------------
Step(p) ==
  \/ IputStep(p) /\ UNCHANGED <<call, path, userVars>>
  \/ WalkReturn(p) \/ WalkStep(p) \/ End(p) \/ UnlockDp(p)
  \/ UnlinkParent(p) \/ UnlinkIp(p) \/ UnlinkDec(p)
  \/ LinkFound(p) \/ LinkParent(p) \/ LinkDone(p) \/ LinkBad(p)
  \/ CreateParent(p) \/ CreateFound(p) \/ CreateNew(p) \/ Created(p)
  \/ OpenFound(p) \/ Opened(p) \/ ChdirFound(p)

Next == Crash \/ \E p \in Proc : Begin(p) \/ Step(p)

Spec == Init /\ [][Next]_fsVars

-----------------------------------------------------------------------------
(* Properties                                                              *)

Holders(s) ==
  LET N(f) == Cardinality({p \in Proc : f[p] = s})
  IN  N(ip) + N(dp) + N(put) + N(fd) + N(cwd)

\* ip->ref counts the pointers to the entry, an inode has one entry, an
\* unlocked valid entry says of type and nlink what the disk says (kernel/fs.c,
\* the comment over itable), and what a process has open or is in is never
\* freed under it, however the others unlink it (kernel/fs.c iput()).
TableInv ==
  /\ \A s \in Slot : slot[s].ref = Holders(s)
  /\ \A s, t \in Slot : s # t /\ slot[s].ref > 0 /\ slot[t].ref > 0 => slot[s].inum # slot[t].inum
  /\ \A s \in Slot : slot[s].ref > 0 /\ slot[s].valid = 1 /\ slot[s].lock = None =>
       LET d == disk[slot[s].inum]
       IN  slot[s].type = d.type /\ slot[s].nlink = d.nlink
  /\ \A p \in Proc : \A s \in {fd[p], cwd[p]} \ {0} :
       slot[s].valid = 1 => disk[slot[s].inum].type # "none"

\* As long as no path contains "..", none of the panics is reached: ilock() finds
\* no free inode ("ilock: no type"), unlink() no link count of zero, and iput()
\* never sleeps for the lock while it holds itable.lock ("so this acquiresleep()
\* won't block", kernel/fs.c:345).  The ".." of a removed directory may name a
\* free inode, and ilock() then panics (kernel/fs.c:315).
NoPanic ==
  \A p \in Proc :
    /\ LockTarget(p) # 0 => ~IlockPanics(LockTarget(p))
    /\ pc[p] = "unlink_ip" /\ CanLock(ip[p]) => Loaded(slot, ip[p])[ip[p]].nlink >= 1
    /\ pc[p] = "iput" /\ LastPut(put[p]) => slot[put[p]].lock = None

Reach(d) ==
  LET Succ(S) == S \cup ({d[i].ents[n] : i \in S, n \in Entry} \ {0})
      R[k \in 0 .. NINODES] == IF k = 0 THEN {ROOTINO} ELSE Succ(R[k - 1])
  IN  R[NINODES]

\* Entries that name i in directories of S; "." is not counted.
Links(d, S, i) == Cardinality({<<j, n>> \in S \X (Entry \ {"."}) : d[j].ents[n] = i})

\* After a reboot at any point, every inode that the tree reaches is allocated
\* and its link count covers the entries that name it, so that no unlink()
\* frees an inode another name still leads to; only directories have entries,
\* and each is in one place (kernel/sysfile.c create(), sys_link(), sys_unlink()).
StableTree ==
  LET S == Reach(stable)
  IN  \A i \in S :
        /\ stable[i].type # "none"
        /\ stable[i].nlink >= Links(stable, S, i)
        /\ stable[i].type # "dir" => stable[i].ents = NoEntries
        /\ stable[i].type = "dir" =>
             /\ stable[i].ents["."] = i
             /\ i # ROOTINO => Cardinality({<<j, n>> \in S \X Name : stable[j].ents[n] = i}) = 1

Waits(p)  == LockTarget(p) # 0 /\ slot[LockTarget(p)].lock # None
Holder(p) == slot[LockTarget(p)].lock

\* No set of processes waits for each other's locks, nor for the lock of a
\* process that has left the kernel: a directory is locked before what it
\* contains, and namex() holds one lock at a time (kernel/sysfile.c sys_unlink(),
\* create()).
NeverStuck ==
  ~ \E S \in SUBSET Proc :
      /\ S # {}
      /\ \A p \in S : Waits(p) /\ (Holder(p) \in S \/ pc[Holder(p)] = "user")
=============================================================================
