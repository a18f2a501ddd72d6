------------------------------ MODULE Xv6File ------------------------------
(***************************************************************************)
(* Reading, writing and truncating files of the xv6 file system            *)
(* (xv6/file.c filewrite and fileread, sysfile.c sys_truncate) over the    *)
(* block operations of Xv6Content.  A step is one transaction: between two *)
(* steps the process may crash, which leaves the committed image.          *)
(***************************************************************************)
EXTENDS Xv6Content

CONSTANTS
    MAXOPBLOCKS,  \* blocks one transaction may log
    SECTOR,       \* what file.c takes for the size of a block (512)
    HostFiles,    \* lengths of the host files mkfs copies into an image
    Offset,       \* offsets of reads and writes
    Length,       \* their lengths
    MaxEnd        \* bound: no write ends behind this offset

ASSUME WriteAssumption ==
    /\ MAXOPBLOCKS \in Nat /\ MAXOPBLOCKS > 1
    /\ SECTOR \in Nat \ {0}
    /\ Offset \subseteq Nat /\ Length \subseteq Nat \ {0}
    /\ MaxEnd \in Nat

VARIABLES
    bitmap, blk, dinode, mem, beyond, panic,  \* see Xv6Content
    disk,     \* bitmap, blocks and inodes as committed
    logged,   \* the blocks the last transaction logged
    cur,      \* the write in progress, <<>> when there is none
    ret       \* the last call that answered

vars == <<bitmap, blk, dinode, mem, beyond, panic, disk, logged, cur, ret>>

Image(s) == [bitmap |-> s.bitmap, blk |-> s.blk, dinode |-> s.dinode]

\* The state at begin_op, or, outside of a transaction, at a read.
State(inop) ==
    [bitmap |-> bitmap, blk |-> blk, dinode |-> dinode, mem |-> mem,
     beyond |-> beyond, inop |-> inop, logged |-> {}, panic |-> ""]

\* The files; those mkfs did not copy have been created empty.
File == Inum \ {ROOTINO}

\* The process starts on image d.
Start(d, why) ==
    /\ bitmap' = d.bitmap /\ blk' = d.blk /\ dinode' = d.dinode
    /\ disk' = d /\ mem' = NotOpen /\ beyond' = 0 /\ panic' = why
    /\ logged' = {} /\ cur' = <<>>

Init ==
    /\ \E lens \in HostFiles : disk = Image(mkfs(lens))
    /\ bitmap = disk.bitmap /\ blk = disk.blk /\ dinode = disk.dinode
    /\ mem = NotOpen /\ beyond = 0 /\ panic = ""
    /\ logged = {} /\ cur = <<>> /\ ret = <<"mount">>

\* A transaction has come to end_op and is committed, or to a panic.
Commit(s, c, r) ==
    IF s.panic # "" THEN Start(disk, s.panic) /\ ret' = <<"panic">>
    ELSE /\ bitmap' = s.bitmap /\ blk' = s.blk /\ dinode' = s.dinode
         /\ mem' = s.mem /\ beyond' = s.beyond /\ logged' = s.logged
         /\ disk' = Image(s) /\ panic' = "" /\ cur' = c /\ ret' = r

-----------------------------------------------------------------------------

\* balloc has given a block of the log to a file.  The log then overwrites the
\* file and the file the log; the model ends there.
Spilled == disk.bitmap \cap LogBlock # {}

Idle == panic = "" /\ cur = <<>> /\ ~Spilled
Writing == cur # <<>> /\ ~Spilled

\* ilock reads the inode of a file that is opened.
Open(i) ==
    /\ Idle /\ mem = NotOpen
    /\ mem' = [inum |-> i, ino |-> dinode[i]]
    /\ UNCHANGED <<bitmap, blk, dinode, beyond, panic, disk, logged, cur, ret>>

\* iput of the last reference: the entry may be used for another inode.
Close ==
    /\ Idle /\ mem # NotOpen
    /\ mem' = NotOpen
    /\ UNCHANGED <<bitmap, blk, dinode, beyond, panic, disk, logged, cur, ret>>

\* fuse_readdir of the root: all of it is read, outside of any transaction.
fuse_readdir ==
    /\ Idle
    /\ LET s == [State(FALSE) EXCEPT !.mem = [inum |-> ROOTINO, ino |-> dinode[ROOTINO]]]
           t == readi(s, 0, s.mem.ino.size).fs
       IN  Commit([t EXCEPT !.mem = mem], <<>>, <<"readdir">>)

\* fileread has the reply r of readi.
Reply(off, n, r) == Commit(r.fs, <<>>, <<"read", mem.inum, off, n, r.data>>)

fileread(off, n) ==
    /\ Idle /\ mem # NotOpen
    /\ Reply(off, n, readi(State(FALSE), off, n))

\* filewrite begins; the written bytes carry the file's number.
filewrite(off, n) ==
    /\ Idle /\ mem # NotOpen /\ off + n <= MaxEnd
    /\ cur' = [i |-> mem.inum, off |-> off, n |-> n, done |-> 0, v |-> mem.inum]
    /\ UNCHANGED <<bitmap, blk, dinode, mem, beyond, panic, disk, logged, ret>>

\* "fill in hole": one transaction, however long the hole.
WriteHole ==
    /\ Writing /\ cur.done = 0 /\ cur.off > mem.ino.size
    /\ Commit(zeroi(State(TRUE), mem.ino.size, cur.off - mem.ino.size), cur, ret)

LOGSIZE == MAXOPBLOCKS * 3

\* Mutant: all of the log is data.
MaxWrite_full == (LOGSIZE - 1 - 1 - 2) * SECTOR

\* max, the bytes written in one transaction: half of the log without the
\* inode, the indirect block and two blocks for a write that is not aligned.
MaxWrite == ((LOGSIZE - 1 - 1 - 2) \div 2) * SECTOR

PieceLen(c) == Min({c.n - c.done, MaxWrite})

\* filewrite has the reply w of writei for a piece of m bytes.
Wrote(m, w) ==
    IF w.r < 0 THEN Commit(w.fs, <<>>, <<"write", cur.i, -1>>)
    ELSE Commit(w.fs, [cur EXCEPT !.off = @ + m, !.done = @ + m], ret)

\* One turn of the loop.
WritePiece ==
    /\ Writing /\ cur.done < cur.n
    /\ ~ (cur.done = 0 /\ cur.off > mem.ino.size)
    /\ LET m == PieceLen(cur)
       IN  Wrote(m, writei(State(TRUE), cur.off, m,
                           [o \in cur.off .. cur.off + m - 1 |-> cur.v]))

WriteReturn ==
    /\ Writing /\ cur.done = cur.n
    /\ cur' = <<>> /\ ret' = <<"write", cur.i, cur.n>>
    /\ UNCHANGED <<bitmap, blk, dinode, mem, beyond, panic, disk, logged>>

\* sys_truncate opens the file, which may be open already, and closes it.
sys_truncate(i) ==
    /\ Idle /\ mem.inum \in {0, i}
    /\ LET s == State(TRUE)
           t == itrunc([s EXCEPT !.mem = [inum |-> i, ino |-> IF mem = NotOpen
                                            THEN dinode[i] ELSE mem.ino]])
       IN  Commit(IF mem = NotOpen THEN [t EXCEPT !.mem = NotOpen] ELSE t,
                  <<>>, <<"truncate", i>>)

\* The process ends, by a panic or not, and is started again.
Remount == Start(disk, "") /\ ret' = <<"mount">>

Next ==
    \/ \E i \in File : Open(i) \/ sys_truncate(i)
    \/ Close \/ fuse_readdir
    \/ \E off \in Offset, n \in Length : fileread(off, n) \/ filewrite(off, n)
    \/ WriteHole \/ WritePiece \/ WriteReturn
    \/ Remount

Spec == Init /\ [][Next]_vars

-----------------------------------------------------------------------------
(* Properties. *)

\* The block addresses an inode of an image leads to, one for each place
\* that holds one.
Places(d, i) ==
    LET addrs == d.dinode[i].addrs
        ind   == addrs[NDIRECT]
    IN  {<<i, "a", a>> : a \in {a \in 0 .. NDIRECT : addrs[a] # 0}} \cup
        (IF ind = 0 THEN {}
         ELSE {<<i, "e", e>> : e \in {e \in Cell : d.blk[ind][e] # 0}})

At(d, p) == IF p[2] = "a" THEN d.dinode[p[1]].addrs[p[3]]
            ELSE d.blk[d.dinode[p[1]].addrs[NDIRECT]][p[3]]

\* On disk a block is marked in use when some inode leads to it and only
\* then, and no two places lead to the same block: nothing is leaked by any
\* sequence of writes, truncations and crashes, nothing shared.
BlocksOwnedOnce ==
    LET places == UNION {Places(disk, i) : i \in Inum}
    IN  /\ {At(disk, p) : p \in places} = disk.bitmap
        /\ \A p, q \in places : At(disk, p) = At(disk, q) => p = q

\* No piece of a write and no truncation logs more than MAXOPBLOCKS blocks
\* ("max # of blocks any FS op writes", xv6/param.h).  Filling a hole, the one
\* transaction that leaves a write with nothing done, may log any number ("XXX
\* break up writing hole", file.c).
LogBudget ==
    cur = <<>> \/ cur.done > 0 => Cardinality(logged) <= MAXOPBLOCKS

\* The address of block bn of inode i in an image, 0 if it has none.  The disk
\* inode has a place for a double-indirect block, but iupdate copies no more
\* than the in-memory addresses, so that it is never set.
Addr(d, i, bn) ==
    LET addrs == d.dinode[i].addrs
    IN  IF bn < NDIRECT THEN addrs[bn]
        ELSE IF bn < NDIRECT + NINDIRECT /\ addrs[NDIRECT] # 0
        THEN d.blk[addrs[NDIRECT]][bn - NDIRECT] ELSE 0

\* mkfs found the entries of the root filling whole blocks, and rounded its
\* size up to a block it does not have (mkfs.c:156).
RootOverrun == Addr(disk, ROOTINO, disk.dinode[ROOTINO].size \div BSIZE - 1) = 0

\* No call panics, whatever was written, cut and interrupted before: freeing
\* never meets a free block, and reading never has bmap allocate one, which
\* fileread and fuse_readdir would do outside of any transaction.  The one
\* exception is the root that mkfs has rounded up by a block too many.
PanicsOnlyPastRoot ==
    panic # "" => panic = "log_write outside of trans" /\ RootOverrun

\* The bytes of inode i in an image, found through its addresses.
Bytes(d, i) ==
    [c \in 1 .. d.dinode[i].size |->
        LET b == Addr(d, i, (c - 1) \div BSIZE)
        IN  IF b = 0 THEN 0 ELSE d.blk[b][(c - 1) % BSIZE]]

B == INSTANCE ByteFile
       WITH content <- [i \in File |-> Bytes(disk, i)], Inum <- File, MaxLen <- MAXFILE * BSIZE

\* On disk the files are sequences of bytes that the calls read, change and
\* cut as they say, and a crash leaves them alone.
ImplementsByteFile == B!BSpec
=============================================================================
