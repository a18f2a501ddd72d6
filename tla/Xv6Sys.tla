------------------------------- MODULE Xv6Sys -------------------------------
(***************************************************************************)
(* The system calls of the xv6 file system (xv6/sysfile.c, xv6/file.c) as  *)
(* the FUSE callbacks of xv6/fuse.c issue them, one at a time (the program *)
(* runs single-threaded), over the inodes and directories of Xv6Inode.     *)
(* A call is one step.  Of the calls made of several transactions at most  *)
(* one transaction changes the disk, so a crash in the middle of a call    *)
(* leaves what a crash before or after the call leaves.                    *)
(***************************************************************************)
EXTENDS Xv6Inode

CONSTANTS
    Path,           \* the paths in play, sequences of names
    MaxUnbalanced   \* how often the open transactions may be miscounted

VARIABLES
    dinode, disk, icache, ftable, outstanding, panic,  \* see Xv6Inode
    ret,    \* the last call and its answer
    lost    \* inodes without a name that were open when the process ended

vars == <<dinode, disk, icache, ftable, outstanding, panic, ret, lost>>

Now == [dinode |-> dinode, disk |-> disk, icache |-> icache, ftable |-> ftable,
        outstanding |-> outstanding, panic |-> panic]

Become(s) ==
    /\ dinode' = s.dinode /\ disk' = s.disk
    /\ icache' = s.icache /\ ftable' = s.ftable
    /\ outstanding' = s.outstanding /\ panic' = s.panic

Last(p) == p[Len(p)]
Dots    == {".", ".."}

-----------------------------------------------------------------------------
(* sysfile.c, file.c *)

Dead(s) == s.panic # ""

\* create found the name: only a file is given back, locked.
Found(s, k, type) ==
    Then(ilock(s, k), LAMBDA t :
      IF type = "file" /\ t.icache[k].type = "file"
      THEN [fs |-> t, ip |-> k, off |-> 0]
      ELSE Null(iunlockput(t, k)))

\* The entries . and .. of a new directory ip under dp.
Dotted(s, ip, dp) ==
    Then(dirlink(s, ip, ".", s.icache[ip].inum), LAMBDA d1 :
      Then(dirlink(d1.fs, ip, "..", s.icache[dp].inum), LAMBDA d2 :
        Check(d2.fs, d1.r = 0 /\ d2.r = 0, "create dots")))

\* Mutant: the parent does not count its new "..".
CreateDots_uncounted(s, ip, dp) == Dotted(s, ip, dp)

CreateDots(s, ip, dp) ==
    Dotted(iupdate([s EXCEPT !.icache[dp].nlink = @ + 1], dp), ip, dp)

\* create links the new inode ip, locked, into the locked directory dp.
Linked(s, dp, name, ip) ==
    Then(dirlink(s, dp, name, s.icache[ip].inum), LAMBDA w :
      [fs |-> iunlockput(Check(w.fs, w.r = 0, "create: dirlink"), dp),
       ip |-> ip, off |-> 0])

Counted(s, ip) == iupdate([s EXCEPT !.icache[ip].nlink = 1], ip)

\* create allocates the inode and links it into the locked directory dp.
Fresh(s, dp, name, type) ==
    Then(ialloc(s, type), LAMBDA a :
      IF Dead(a.fs) THEN Null(a.fs)
      ELSE Then(Counted(ilock(a.fs, a.ip), a.ip), LAMBDA u :
             Linked(IF type = "dir" THEN CreateDots(u, a.ip, dp) ELSE u,
                    dp, name, a.ip)))

create(s, path, type) ==
    Then(nameiparent(s, path), LAMBDA p :
      IF p.ip = 0 THEN p
      ELSE Then(dirlookup(ilock(p.fs, p.ip), p.ip, Last(path)), LAMBDA d :
             IF d.ip # 0 THEN Found(iunlockput(d.fs, p.ip), d.ip, type)
             ELSE Fresh(d.fs, p.ip, Last(path), type)))

filealloc(s) == {f \in File : s.ftable[f].ref = 0}

fileclose(s, f) ==
    LET t == Check(s, s.ftable[f].ref >= 1, "fileclose")
        u == begin_op([t EXCEPT !.ftable[f] = NoFile])
    IN  end_op(iput(u, s.ftable[f].ip))

\* The inode sys_open opens, locked; a directory only for reading.
OpenInode(s, path, omode) ==
    IF omode = "create" THEN create(s, path, "file")
    ELSE Then(namei(s, path), LAMBDA n :
           IF n.ip = 0 THEN n
           ELSE Then(ilock(n.fs, n.ip), LAMBDA l :
                  IF l.icache[n.ip].type = "dir" /\ omode # "rdonly"
                  THEN Null(iunlockput(l, n.ip))
                  ELSE [fs |-> l, ip |-> n.ip, off |-> 0]))

\* filealloc found an entry for the locked inode ip.
Opened(s, ip, f) ==
    [fs |-> [end_op(iunlock(s, ip)) EXCEPT !.ftable[f] = [ref |-> 1, ip |-> ip]],
     f |-> f]

\* Mutant: a full file table keeps the inode's reference.
sys_open_leak(s, path, omode) ==
    Then(OpenInode(begin_op(s), path, omode), LAMBDA r :
      IF r.ip = 0 THEN [fs |-> end_op(r.fs), f |-> 0]
      ELSE IF filealloc(r.fs) = {}
      THEN [fs |-> end_op(iunlock(r.fs, r.ip)), f |-> 0]
      ELSE Opened(r.fs, r.ip, Min(filealloc(r.fs))))

sys_open(s, path, omode) ==
    Then(OpenInode(begin_op(s), path, omode), LAMBDA r :
      IF r.ip = 0 THEN [fs |-> end_op(r.fs), f |-> 0]
      ELSE IF filealloc(r.fs) = {}
      THEN [fs |-> end_op(iunlockput(r.fs, r.ip)), f |-> 0]
      ELSE Opened(r.fs, r.ip, Min(filealloc(r.fs))))

\* sys_mkdir, sys_mksock: create, then drop the inode.
sys_make(s, path, type) ==
    Then(create(begin_op(s), path, type), LAMBDA r :
      IF r.ip = 0 THEN [fs |-> end_op(r.fs), r |-> -1]
                  ELSE [fs |-> end_op(iunlockput(r.fs, r.ip)), r |-> 0])

ENOENT == -2

\* The unlink proper, of the entry at off of dp that names ip; both locked.
RemoveName(s, dp, off, ip) ==
    LET isdir == s.icache[ip].type = "dir"
        t == WriteEntry(s, dp, off, NoEntry)
        u == IF isdir THEN iupdate([t EXCEPT !.icache[dp].nlink = @ - 1], dp) ELSE t
        v == iunlockput(u, dp)
    IN  iunlockput(iupdate([v EXCEPT !.icache[ip].nlink = @ - 1], ip), ip)

\* Cannot unlink "." or "..".
Undeletable(name) == name \in Dots

\* sys_dounlink has found ip, the entry at off of dp, and locked both.
UnlinkFound(s, dp, off, ip) ==
    IF s.icache[ip].type = "dir" /\ ~ isdirempty(s, ip)
    THEN [fs |-> iunlockput(iunlockput(s, ip), dp), r |-> -1]
    ELSE [fs |-> RemoveName(s, dp, off, ip), r |-> 0]

Named(s, ip) == Check(s, s.icache[ip].nlink >= 1, "unlink: nlink < 1")

\* sys_dounlink in the directory dp, locked.
UnlinkIn(s, dp, name) ==
    IF Undeletable(name) THEN [fs |-> iunlockput(s, dp), r |-> -1]
    ELSE Then(dirlookup(s, dp, name), LAMBDA d :
           IF d.ip = 0 THEN [fs |-> iunlockput(d.fs, dp), r |-> ENOENT]
           ELSE UnlinkFound(Named(ilock(d.fs, d.ip), d.ip), dp, d.off, d.ip))

sys_dounlink(s, path) ==
    Then(nameiparent(s, path), LAMBDA p :
      IF p.ip = 0 THEN [fs |-> p.fs, r |-> -1]
      ELSE UnlinkIn(ilock(p.fs, p.ip), p.ip, Last(path)))

sys_unlink(s, path) ==
    Then(sys_dounlink(begin_op(s), path), LAMBDA u : [fs |-> end_op(u.fs), r |-> u.r])

\* The failing end of sys_dolink: take the link count back.
Unlinked(s, ip) ==
    Then(ilock(s, ip), LAMBDA t :
      [fs |-> iunlockput(iupdate([t EXCEPT !.icache[ip].nlink = @ - 1], ip), ip),
       r |-> -1])

\* sys_dolink in the directory dp, locked.
LinkIn(s, dp, name, ip) ==
    Then(dirlink(s, dp, name, s.icache[ip].inum), LAMBDA l :
      IF l.r < 0 THEN Unlinked(iunlockput(l.fs, dp), ip)
      ELSE [fs |-> iput(iunlockput(l.fs, dp), ip), r |-> 0])

\* sys_dolink has found and locked the inode ip.
LinkTo(s, ip, new) ==
    IF s.icache[ip].type = "dir" THEN [fs |-> end_op(iunlockput(s, ip)), r |-> -1]
    ELSE Then(nameiparent(iunlock(iupdate([s EXCEPT !.icache[ip].nlink = @ + 1], ip),
                                  ip), new), LAMBDA p :
           IF p.ip = 0 THEN Unlinked(p.fs, ip)
           ELSE LinkIn(ilock(p.fs, p.ip), p.ip, Last(new), ip))

\* The early failures end the transaction that sys_rename ends again.
sys_dolink(s, old, new) ==
    Then(namei(s, old), LAMBDA n :
      IF n.ip = 0 THEN [fs |-> end_op(n.fs), r |-> -1]
      ELSE LinkTo(ilock(n.fs, n.ip), n.ip, new))

Ended(u) == [u EXCEPT !.fs = end_op(@)]

\* Mutant: the old name stays.
sys_rename_link(s, path1, path2) ==
    Then(sys_dounlink(begin_op(s), path2), LAMBDA a :
      IF a.r \notin {0, ENOENT} THEN Ended(a)
      ELSE Ended(sys_dolink(a.fs, path1, path2)))

sys_rename(s, path1, path2) ==
    Then(sys_dounlink(begin_op(s), path2), LAMBDA a :
      IF a.r \notin {0, ENOENT} THEN Ended(a)
      ELSE Then(sys_dolink(a.fs, path1, path2), LAMBDA b :
             IF b.r # 0 THEN Ended(b) ELSE Ended(sys_dounlink(b.fs, path1))))

\* What the calls that open, act and close do with the inode of file f.
Looked(s, k) == iunlock(ilock(s, k), k)

Truncated(s, k) == end_op(itrunc(begin_op(s), k))

\* Mutant: the inode is not locked.
Touched_unlocked(s, k) == end_op(iunlock(iupdate(begin_op(s), k), k))

Touched(s, k) == end_op(iunlock(iupdate(ilock(begin_op(s), k), k), k))

\* sys_fstat, sys_readdirent's loop: open, look, close.
sys_look(s, path) ==
    Then(sys_open(s, path, "rdonly"), LAMBDA o :
      IF o.f = 0 THEN [fs |-> o.fs, r |-> -1]
      ELSE [fs |-> fileclose(Looked(o.fs, o.fs.ftable[o.f].ip), o.f), r |-> 0])

\* sys_truncate: open, itrunc without the lock, close.
sys_truncate(s, path) ==
    Then(sys_open(s, path, "rdwr"), LAMBDA o :
      IF o.f = 0 THEN [fs |-> o.fs, r |-> -1]
      ELSE [fs |-> fileclose(Truncated(o.fs, o.fs.ftable[o.f].ip), o.f), r |-> 0])

\* sys_utime: open, iupdate with the lock held, close.
sys_utime(s, path) ==
    Then(sys_open(s, path, "rdwr"), LAMBDA o :
      IF o.f = 0 THEN [fs |-> o.fs, r |-> -1]
      ELSE [fs |-> fileclose(Touched(o.fs, o.fs.ftable[o.f].ip), o.f), r |-> 0])

-----------------------------------------------------------------------------
(* The FUSE callbacks. *)

Orphan(d, i) == d[i].type # "free" /\ d[i].nlink = 0

Init ==
    /\ dinode = mkfs /\ disk = mkfs
    /\ icache = [k \in Slot |-> NoSlot]
    /\ ftable = [f \in File |-> NoFile]
    /\ outstanding = 0 /\ panic = ""
    /\ ret = <<"mount">> /\ lost = {}

\* The process is gone: only the committed transactions are left.
Stopped(why) ==
    /\ Become([Mounted(disk) EXCEPT !.panic = why])
    /\ lost' = {i \in Inum : Orphan(disk, i)}

\* A call has run to its end, or into a panic, which is exit(-1).
Answer(s, call, r) ==
    \/ /\ ~ Dead(s)
       /\ Become(s) /\ lost' = lost
       /\ ret' = Append(call, IF r = 0 THEN 0 ELSE -1)
    \/ /\ Dead(s)
       /\ Stopped(s.panic) /\ ret' = <<"panic">>

\* The answer of an open, of a call with a return code.
AnswerOpen(o, call) == Answer(o.fs, call, IF o.f = 0 THEN -1 ELSE 0)
AnswerCode(o, call) == Answer(o.fs, call, o.r)

fuse_open(path, omode) ==
    /\ panic = ""
    /\ AnswerOpen(sys_open(Now, path, omode), <<"open", path>>)

fuse_create(path) ==
    /\ panic = ""
    /\ AnswerOpen(sys_open(Now, path, "create"), <<"create", path>>)

fuse_release(f) ==
    /\ panic = "" /\ ftable[f].ref > 0
    /\ Answer(fileclose(Now, f), <<"release">>, 0)

\* fuse_getattr, fuse_readdir
fuse_getattr(path) ==
    /\ panic = ""
    /\ AnswerCode(sys_look(Now, path), <<"stat", path>>)

fuse_truncate(path) ==
    /\ panic = ""
    /\ AnswerCode(sys_truncate(Now, path), <<"change", path>>)

fuse_utimens(path) ==
    /\ panic = ""
    /\ AnswerCode(sys_utime(Now, path), <<"change", path>>)

fuse_mkdir(path) ==
    /\ panic = ""
    /\ AnswerCode(sys_make(Now, path, "dir"), <<"mkdir", path>>)

fuse_mknod(path) ==
    /\ panic = ""
    /\ AnswerCode(sys_make(Now, path, "sock"), <<"mksock", path>>)

\* fuse_unlink, fuse_rmdir
fuse_unlink(path) ==
    /\ panic = ""
    /\ AnswerCode(sys_unlink(Now, path), <<"unlink", path>>)

fuse_rename(path1, path2) ==
    /\ panic = "" /\ outstanding > - MaxUnbalanced
    /\ AnswerCode(sys_rename(Now, path1, path2), <<"rename", path1, path2>>)

\* The process is started on the image a panic or a crash has left.
Remount == Stopped("") /\ ret' = <<"mount">>

Next ==
    \/ \E path \in Path :
         \/ \E omode \in {"rdonly", "rdwr"} : fuse_open(path, omode)
         \/ fuse_create(path) \/ fuse_getattr(path) \/ fuse_truncate(path)
         \/ fuse_utimens(path) \/ fuse_mkdir(path) \/ fuse_mknod(path)
         \/ fuse_unlink(path)
         \/ \E path2 \in Path : fuse_rename(path, path2)
    \/ \E f \in File : fuse_release(f)
    \/ Remount

Spec == Init /\ [][Next]_vars

-----------------------------------------------------------------------------
(* Properties. *)

\* The entries of directory j of image d that name inode i.
Naming(d, j, i) ==
    {o \in 1 .. Len(d[j].ents) : d[j].ents[o].inum = i /\ d[j].ents[o].name \notin Dots}

\* A directory with a name, whose entries count.
Rooted(d, j) == d[j].type = "dir" /\ d[j].nlink > 0

\* On disk, every link count is the number of names of the inode plus the
\* number of its subdirectories' ".."; nothing that is named is free.
LinkCounts ==
    \A i \in Inum :
      LET dirs  == {j \in Inum : Rooted(disk, j)}
          names == UNION {{<<j, o>> : o \in Naming(disk, j, i)} : j \in dirs}
          subs  == {j \in dirs \ {i} : disk[j].ents[2] = [inum |-> i, name |-> ".."]}
      IN  IF disk[i].type = "free" THEN names = {} /\ subs = {}
          ELSE disk[i].nlink = Cardinality(names) + Cardinality(subs)
                                 + (IF i = ROOTINO THEN 1 ELSE 0)

\* Between calls every reference of the inode cache is an open file's: no
\* path through a call, failing ones included, keeps or drops one too many,
\* and none leaves an inode locked.
RefCounts ==
    \A k \in Slot :
        /\ icache[k].ref =
             Cardinality({f \in File : ftable[f].ref > 0 /\ ftable[f].ip = k})
        /\ ~ icache[k].busy

\* A valid cached inode says what the inode on disk says, and no inode is
\* cached twice.
CacheCoherent ==
    panic = "" =>
      /\ \A k \in Slot : icache[k].valid =>
           LET d == dinode[icache[k].inum]
           IN  /\ icache[k].type = d.type /\ icache[k].nlink = d.nlink
               /\ icache[k].size = d.size
      /\ \A k, l \in Slot :
           icache[k].ref > 0 /\ icache[l].ref > 0 /\ icache[k].inum = icache[l].inum
             => k = l

\* An open file's inode is allocated, however its names come and go.
HandlesAlive ==
    panic = "" =>
      \A f \in File : ftable[f].ref > 0 =>
        disk[icache[ftable[f].ip].inum].type # "free"

\* An inode that lost its last name is freed when its last user leaves;
\* those still open when the process ended are the only exception.
OrphansHeld ==
    panic = "" =>
      \A i \in Inum : Orphan(disk, i) =>
        i \in lost \/ \E f \in File : ftable[f].ref > 0 /\ icache[ftable[f].ip].inum = i

\* The panics a sequence of calls can reach: running out of inodes on disk
\* or in the cache, and the log after its counter has gone wrong.  None of
\* the other checks of the code ever fails.
OnlyKnownPanics ==
    panic \in {"", "ialloc: no inodes", "iget: no inodes",
               "log_write outside of trans"}

\* The inode directory j names so on disk, or 0.
Child(j, name) ==
    LET hit == SelectSeq(disk[j].ents, LAMBDA e : e.inum # 0 /\ e.name = name)
    IN  IF j = 0 \/ disk[j].type # "dir" \/ hit = <<>> THEN 0 ELSE hit[1].inum

\* The type of the node a path leads to on disk.
Resolve(path) ==
    LET R[n \in 0 .. Len(path)] ==
          IF n = 0 THEN ROOTINO ELSE Child(R[n - 1], path[n])
        i == R[Len(path)]
    IN  IF i = 0 THEN "none" ELSE disk[i].type

T == INSTANCE NameTree WITH node <- [p \in Path |-> Resolve(p)]

\* The calls and crashes of the file system are those of a durable tree.
ImplementsTree == T!TSpec

=============================================================================
