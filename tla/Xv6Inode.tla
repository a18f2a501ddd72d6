------------------------------ MODULE Xv6Inode ------------------------------
(***************************************************************************)
(* Inodes, their cache and directories of the xv6 file system (xv6/fs.c,   *)
(* the transaction counter of xv6/log.c), as operators on a record s that  *)
(* is the file system's memory while a call runs:                          *)
(*   dinode       the inodes in the buffer cache                           *)
(*   disk         the inodes of the last committed transaction             *)
(*   icache       the table of in-memory inodes                            *)
(*   ftable       the table of open files (xv6/file.c)                     *)
(*   outstanding  begin_op calls not yet ended                             *)
(*   panic        the message of the panic that ended the process, or ""   *)
(* An operator that returns an inode answers [fs |-> s, ip |-> slot], slot *)
(* 0 standing for a null pointer.  A panic is exit(-1): the first one is   *)
(* kept and nothing computed after it is committed.                        *)
(*                                                                         *)
(* A directory's content is its sequence of entries; what a file holds and *)
(* where it lies is left to other modules.  Sizes count entries.           *)
(***************************************************************************)
EXTENDS Integers, Sequences, FiniteSets, FiniteSetsExt

CONSTANTS
    NINODES,     \* inodes on the disk, sb.ninodes
    NINODE,      \* entries of the inode cache
    NFILE,       \* entries of the open file table
    DirPerBlock  \* directory entries in one block

ROOTINO == 1
Inum    == 1 .. NINODES - 1
Slot    == 1 .. NINODE
File    == 1 .. NFILE

ASSUME SizesAssumption ==
    /\ NINODES \in Nat /\ NINODES > 1
    /\ NINODE \in Nat \ {0}
    /\ NFILE \in Nat \ {0}
    /\ DirPerBlock \in Nat /\ DirPerBlock > 2

NoInode == [type |-> "free", nlink |-> 0, size |-> 0, ents |-> <<>>]
NoEntry == [inum |-> 0, name |-> ""]

\* What mkfs leaves: a root whose size is rounded up to whole blocks.
mkfs ==
    [i \in Inum |->
       IF i = ROOTINO
       THEN [type |-> "dir", nlink |-> 1, size |-> DirPerBlock,
             ents |-> [k \in 1 .. DirPerBlock |->
                         CASE k = 1 -> [inum |-> i, name |-> "."]
                           [] k = 2 -> [inum |-> i, name |-> ".."]
                           [] OTHER -> NoEntry]]
       ELSE NoInode]

\* A cache entry without references; nothing reads its other fields.
NoSlot == [inum |-> 0, ref |-> 0, busy |-> FALSE, valid |-> FALSE,
           type |-> "free", nlink |-> 0, size |-> 0]

\* A file table entry without references.
NoFile == [ref |-> 0, ip |-> 0]

\* The process after main has started over the disk image d.
Mounted(d) ==
    [dinode |-> d, disk |-> d, outstanding |-> 0, panic |-> "",
     icache |-> [k \in Slot |-> NoSlot], ftable |-> [f \in File |-> NoFile]]

Panic(s, why) == IF s.panic = "" THEN [s EXCEPT !.panic = why] ELSE s

Check(s, ok, why) == IF ok THEN s ELSE Panic(s, why)

\* What the code does next with the value r just computed.
Then(r, F(_)) == F(r)

-----------------------------------------------------------------------------
(* Transactions: a call alone in the process never waits in begin_op. *)

begin_op(s) == [s EXCEPT !.outstanding = @ + 1]

end_op(s) ==
    LET t == [s EXCEPT !.outstanding = @ - 1]
    IN  IF t.outstanding = 0 /\ t.panic = "" THEN [t EXCEPT !.disk = t.dinode]
                                             ELSE t

log_write(s) == Check(s, s.outstanding >= 1, "log_write outside of trans")

-----------------------------------------------------------------------------
(* The inode cache. *)

iupdate(s, k) ==
    LET e == s.icache[k]
    IN  [log_write(s) EXCEPT !.dinode[e.inum].type = e.type,
                             !.dinode[e.inum].nlink = e.nlink,
                             !.dinode[e.inum].size = e.size]

\* Mutant: a second reference takes a second entry.
iget_twice(s, i) ==
    LET empty == {k \in Slot : s.icache[k].ref = 0}
        k == IF empty = {} THEN 1 ELSE Min(empty)
    IN  [fs |-> IF empty = {} THEN Panic(s, "iget: no inodes")
                ELSE [s EXCEPT !.icache[k] = [NoSlot EXCEPT !.inum = i, !.ref = 1]],
         ip |-> k]

iget(s, i) ==
    LET hit   == {k \in Slot : s.icache[k].ref > 0 /\ s.icache[k].inum = i}
        empty == {k \in Slot : s.icache[k].ref = 0}
    IN  IF hit # {}
        THEN [fs |-> [s EXCEPT !.icache[Min(hit)].ref = @ + 1], ip |-> Min(hit)]
        ELSE IF empty = {} THEN [fs |-> Panic(s, "iget: no inodes"), ip |-> 1]
        ELSE [fs |-> [s EXCEPT !.icache[Min(empty)] =
                        [NoSlot EXCEPT !.inum = i, !.ref = 1]], ip |-> Min(empty)]

\* sleep is empty in this build: a busy inode is waited for for ever.
ilock(s, k) ==
    LET e == s.icache[k]
        d == s.dinode[e.inum]
        t == Check(Check(s, e.ref >= 1, "ilock"), ~ e.busy, "ilock spins")
    IN  IF e.inum \notin Inum THEN Panic(s, "ilock")
        ELSE IF e.valid THEN [t EXCEPT !.icache[k].busy = TRUE]
        ELSE Check([t EXCEPT !.icache[k] =
                      [@ EXCEPT !.busy = TRUE, !.valid = TRUE, !.type = d.type,
                                !.nlink = d.nlink, !.size = d.size]],
                   d.type # "free", "ilock: no type")

iunlock(s, k) ==
    [Check(s, s.icache[k].busy /\ s.icache[k].ref >= 1, "iunlock")
       EXCEPT !.icache[k].busy = FALSE]

itrunc(s, k) ==
    LET t == [s EXCEPT !.icache[k].size = 0,
                       !.dinode[s.icache[k].inum].ents = <<>>]
    IN  iupdate(t, k)

\* Mutant: other references do not matter.
LastUse_any(e) == e.valid /\ e.nlink = 0

\* Mutant: the count is tested as if it had been lowered already.
LastUse_zero(e) == e.ref = 0 /\ e.valid /\ e.nlink = 0

\* No names and no other references: truncate and free.
LastUse(e) == e.ref = 1 /\ e.valid /\ e.nlink = 0

\* Truncated, and free on disk.
Freed(s, k) == iupdate([itrunc(s, k) EXCEPT !.icache[k].type = "free"], k)

iput(s, k) ==
    LET e == s.icache[k]
    IN  [(IF LastUse(e) THEN Freed(Check(s, ~ e.busy, "iput busy"), k) ELSE s)
           EXCEPT !.icache[k] = IF e.ref <= 1 THEN NoSlot
                                ELSE [@ EXCEPT !.ref = @ - 1]]

iunlockput(s, k) == iput(iunlock(s, k), k)

ialloc(s, type) ==
    LET free == {i \in Inum : s.dinode[i].type = "free"}
        i    == IF free = {} THEN ROOTINO ELSE Min(free)
    IN  IF free = {} THEN [fs |-> Panic(s, "ialloc: no inodes"), ip |-> 1]
        ELSE iget([log_write(s) EXCEPT !.dinode[i] = [NoInode EXCEPT !.type = type]], i)

-----------------------------------------------------------------------------
(* Directories, on a locked inode. *)

Null(s) == [fs |-> s, ip |-> 0, off |-> 0]

\* The places of the entries that carry a name, up to the inode's size.
Matches(s, k, name) ==
    LET ents == s.dinode[s.icache[k].inum].ents
    IN  {o \in 1 .. s.icache[k].size :
           o <= Len(ents) /\ ents[o].inum # 0 /\ ents[o].name = name}

dirlookup(s, k, name) ==
    LET found == Matches(s, k, name)
    IN  IF s.icache[k].type # "dir" THEN Null(Panic(s, "dirlookup not DIR"))
        ELSE IF found = {} THEN Null(s)
        ELSE Then(iget(s, s.dinode[s.icache[k].inum].ents[Min(found)].inum),
                  LAMBDA r : [fs |-> r.fs, ip |-> r.ip, off |-> Min(found)])

\* writei of one entry: a write behind the end grows the directory.
WriteEntry(s, k, off, de) ==
    LET i == s.icache[k].inum
        t == [log_write(s) EXCEPT !.dinode[i].ents =
                IF off <= Len(@) THEN [@ EXCEPT ![off] = de] ELSE Append(@, de)]
    IN  IF off > s.icache[k].size
        THEN iupdate([t EXCEPT !.icache[k].size = off], k)
        ELSE t

\* The place for a new entry: the first unused one, or behind the end.
NewPlace(s, k) ==
    LET ents  == s.dinode[s.icache[k].inum].ents
        empty == {o \in 1 .. s.icache[k].size : o <= Len(ents) /\ ents[o].inum = 0}
    IN  IF empty = {} THEN s.icache[k].size + 1 ELSE Min(empty)

dirlink(s, k, name, inum) ==
    Then(dirlookup(s, k, name), LAMBDA d :
      IF d.ip # 0 THEN [fs |-> iput(d.fs, d.ip), r |-> -1]
      ELSE [fs |-> WriteEntry(d.fs, k, NewPlace(d.fs, k),
                              [inum |-> inum, name |-> name]), r |-> 0])

\* Is the directory empty except for "." and ".."?
isdirempty(s, k) ==
    \A o \in 3 .. s.icache[k].size :
        s.dinode[s.icache[k].inum].ents[o].inum = 0

-----------------------------------------------------------------------------
(* Paths: a path is the sequence of its elements, from the root. *)

\* One element of namex, from the directory in slot k, locked.
Step(s, k, name) ==
    IF s.icache[k].type # "dir" THEN Null(iunlockput(s, k))
    ELSE Then(dirlookup(s, k, name), LAMBDA d :
           [fs |-> iunlockput(d.fs, k), ip |-> d.ip, off |-> 0])

Walk(w, name) == IF w.ip = 0 THEN w ELSE Step(ilock(w.fs, w.ip), w.ip, name)

namei(s, path) ==
    LET root == iget(s, ROOTINO)
        W[n \in 0 .. Len(path)] ==
          IF n = 0 THEN [fs |-> root.fs, ip |-> root.ip, off |-> 0]
                   ELSE Walk(W[n - 1], path[n])
    IN  W[Len(path)]

\* namex stops one level early, at the directory in slot k, locked.
Parent(s, k) ==
    IF s.icache[k].type # "dir" THEN Null(iunlockput(s, k))
    ELSE [fs |-> iunlock(s, k), ip |-> k, off |-> 0]

nameiparent(s, path) ==
    IF path = <<>>
    THEN Then(iget(s, ROOTINO), LAMBDA root : Null(iput(root.fs, root.ip)))
    ELSE Then(namei(s, SubSeq(path, 1, Len(path) - 1)), LAMBDA w :
           IF w.ip = 0 THEN w ELSE Parent(ilock(w.fs, w.ip), w.ip))
=============================================================================
