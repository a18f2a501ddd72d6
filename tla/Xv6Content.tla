----------------------------- MODULE Xv6Content -----------------------------
(***************************************************************************)
(* The content of an inode of the xv6 file system (the block allocator and *)
(* bmap, itrunc, readi, zeroi, writei of xv6/fs.c), as operators on a      *)
(* record s, the buffer cache and the memory of the process:               *)
(*   bitmap  the blocks marked in use                                      *)
(*   blk     the blocks, as functions of cells; a cell is a word of an     *)
(*           indirect block or a byte of a file                            *)
(*   dinode  the inodes' size and addresses                                *)
(*   mem     the in-memory copy of the open inode                          *)
(*   beyond  the word of memory behind mem's addresses, where bmap keeps   *)
(*           the double-indirect block: struct inode has no place for it,  *)
(*           and the word is the dev of the next entry of the inode cache  *)
(*   inop    is a transaction open                                         *)
(*   logged  the blocks the transaction has logged                         *)
(*   panic   the message of the first panic, or ""                         *)
(* At most one inode is open at a time, so mem is one cache entry, and the *)
(* entry behind it is never used: its dev is 0 when the process starts and *)
(* nothing but bmap stores there.                                          *)
(***************************************************************************)
EXTENDS Integers, Sequences, FiniteSets, FiniteSetsExt

CONSTANTS
    Inum,      \* the inodes
    Block,     \* the blocks behind the metadata up to sb.size, numbers above 0
    LogBlock,  \* the last of them, from thelog.start on
    BSIZE,     \* cells of a block
    NDIRECT    \* direct addresses of an inode

ASSUME ContentAssumption ==
    /\ Block \subseteq Nat \ {0}
    /\ LogBlock \subseteq Block
    /\ \A b \in LogBlock, c \in Block \ LogBlock : c < b
    /\ BSIZE \in Nat \ {0}
    /\ NDIRECT \in Nat \ {0}

NINDIRECT == BSIZE
MAXFILE   == NDIRECT + NINDIRECT + NINDIRECT * NINDIRECT
BBLOCK    == 0     \* the block of the bitmap
IBLOCK    == -1    \* the block of the inodes
Cell      == 0 .. BSIZE - 1
Zeroes    == [c \in Cell |-> 0]

NoContent == [size |-> 0, addrs |-> [a \in 0 .. NDIRECT |-> 0]]
NotOpen   == [inum |-> 0, ino |-> NoContent]

Panic(s, why) == IF s.panic = "" THEN [s EXCEPT !.panic = why] ELSE s

log_write(s, b) ==
    IF s.inop THEN [s EXCEPT !.logged = @ \cup {b}]
              ELSE Panic(s, "log_write outside of trans")

-----------------------------------------------------------------------------
(* The allocator. *)

\* Mark block b, then zero it.
Taken(s, b) ==
    LET t == log_write([s EXCEPT !.bitmap = @ \cup {b}], BBLOCK)
    IN  [fs |-> log_write([t EXCEPT !.blk[b] = Zeroes], b), addr |-> b]

\* The scan goes up to sb.size and meets the blocks of the log last: mkfs does
\* not mark them in use.
balloc(s) ==
    LET free == Block \ s.bitmap
    IN  IF free = {} THEN [fs |-> Panic(s, "balloc: out of blocks"), addr |-> 0]
        ELSE Taken(s, Min(free))

bfree(s, b) ==
    IF b \in s.bitmap
    THEN log_write([s EXCEPT !.bitmap = @ \ {b}], BBLOCK)
    ELSE Panic(s, "freeing free block")

iupdate(s) ==
    log_write([s EXCEPT !.dinode[s.mem.inum] = s.mem.ino], IBLOCK)

-----------------------------------------------------------------------------
(* Blocks of an inode. *)

\* A panic in the middle; the address is of no use.
Lost(s) == [fs |-> s, addr |-> 0]

\* Store the address balloc answered into a table, the open inode, or the word
\* behind its addresses.
ToEntry(n, b, e) ==
    IF n.addr = 0 THEN n
    ELSE [n EXCEPT !.fs = log_write([@ EXCEPT !.blk[b][e] = n.addr], b)]

ToAddrs(n, a) == IF n.addr = 0 THEN n ELSE [n EXCEPT !.fs.mem.ino.addrs[a] = n.addr]

ToBeyond(n) == IF n.addr = 0 THEN n ELSE [n EXCEPT !.fs.beyond = n.addr]

\* The address in entry e of the table t.addr, allocated if there is none.
Entry(t, e) ==
    IF t.fs.panic # "" THEN Lost(t.fs)
    ELSE IF t.fs.blk[t.addr][e] # 0 THEN [t EXCEPT !.addr = t.fs.blk[@][e]]
    ELSE ToEntry(balloc(t.fs), t.addr, e)

\* The address in addrs[a], allocated if there is none.
Direct(s, a) ==
    IF s.mem.ino.addrs[a] # 0 THEN [fs |-> s, addr |-> s.mem.ino.addrs[a]]
    ELSE ToAddrs(balloc(s), a)

\* The same for the word behind addrs, bmap's addrs[NDIRECT+1].
Beyond(s) ==
    IF s.beyond # 0 THEN [fs |-> s, addr |-> s.beyond] ELSE ToBeyond(balloc(s))

bmap(s, bn) ==
    LET i == bn - NDIRECT
        k == i - NINDIRECT
    IN  IF bn < NDIRECT THEN Direct(s, bn)
        ELSE IF i < NINDIRECT THEN Entry(Direct(s, NDIRECT), i)
        ELSE IF bn < MAXFILE
        THEN Entry(Entry(Beyond(s), k \div NINDIRECT), k % NINDIRECT)
        ELSE Lost(Panic(s, "bmap: out of range"))

\* Free the blocks of a set, one after the other.
FreeAll(s, bs) == FoldSet(LAMBDA b, t : bfree(t, b), s, bs)

\* The addresses in the indirect block of the open inode.
Indirect(s) ==
    LET ind == s.mem.ino.addrs[NDIRECT]
    IN  IF ind = 0 THEN {} ELSE {s.blk[ind][e] : e \in Cell} \ {0}

\* Mutant: the indirect block itself is kept.
itrunc_leak(s) ==
    LET t == FreeAll(s, {s.mem.ino.addrs[a] : a \in 0 .. NDIRECT - 1} \ {0})
    IN  iupdate([FreeAll(t, Indirect(s)) EXCEPT !.mem.ino = NoContent])

\* Direct blocks, what the indirect block names, the indirect block.
itrunc(s) ==
    LET t == FreeAll(s, {s.mem.ino.addrs[a] : a \in 0 .. NDIRECT - 1} \ {0})
        u == FreeAll(t, Indirect(s))
        v == FreeAll(u, {s.mem.ino.addrs[NDIRECT]} \ {0})
    IN  iupdate([v EXCEPT !.mem.ino = NoContent])

-----------------------------------------------------------------------------
(* Reading and writing n cells from offset off. *)

\* Mutant: what the block held is forgotten.
Merge_fresh(old, bn, off, n, f) ==
    [c \in Cell |-> IF bn * BSIZE + c \in off .. off + n - 1
                   THEN f[bn * BSIZE + c] ELSE 0]

\* memmove of the part of f that falls into block bn of the file.
Merge(old, bn, off, n, f) ==
    [c \in Cell |-> IF bn * BSIZE + c \in off .. off + n - 1
                   THEN f[bn * BSIZE + c] ELSE old[c]]

\* Block bn of the file, which bmap has found at m, is stored from f.
Stored(m, bn, off, n, f) ==
    IF m.fs.panic # "" THEN m.fs
    ELSE log_write([m.fs EXCEPT !.blk[m.addr] = Merge(@, bn, off, n, f)], m.addr)

\* The state after bmap has been called for blocks off/BSIZE .. (off+n-1)/BSIZE
\* and each has been stored from f, a function of the file offset.
StoreCells(s, off, n, f) ==
    LET lo == off \div BSIZE
        hi == (off + n - 1) \div BSIZE
        P[j \in 0 .. hi - lo + 1] ==
          IF j = 0 THEN s
          ELSE IF P[j - 1].panic # "" THEN P[j - 1]
          ELSE Stored(bmap(P[j - 1], lo + j - 1), lo + j - 1, off, n, f)
    IN  P[hi - lo + 1]

\* ip->size = off; iupdate(ip).
Grow(s, end) == iupdate([s EXCEPT !.mem.ino.size = end])

\* Mutant: a hole is left in the file.
zeroi_sparse(s, off, n) == Grow(s, off + n)

zeroi(s, off, n) ==
    Grow(StoreCells(s, off, n, [o \in off .. off + n - 1 |-> 0]), off + n)

\* The size is written when it has changed.
Extend(s, end) == IF end > s.mem.ino.size THEN Grow(s, end) ELSE s

writei(s, off, n, f) ==
    IF off > s.mem.ino.size \/ off + n > MAXFILE * BSIZE
    THEN [fs |-> s, r |-> -1]
    ELSE [fs |-> Extend(StoreCells(s, off, n, f), off + n), r |-> n]

Clip(s, off, n) == Min({n, s.mem.ino.size - off})

\* The state after bmap has been called for every block read.
Mapped(s, off, n) ==
    LET lo == off \div BSIZE
        hi == (off + n - 1) \div BSIZE
        P[j \in 0 .. hi - lo + 1] ==
          IF j = 0 THEN s
          ELSE IF P[j - 1].panic # "" THEN P[j - 1]
          ELSE bmap(P[j - 1], lo + j - 1).fs
    IN  P[hi - lo + 1]

\* memmove of n cells out of mapped blocks.
Cells(s, off, n) ==
    IF s.panic # "" THEN <<>>
    ELSE [c \in 1 .. n |-> s.blk[bmap(s, (off + c - 1) \div BSIZE).addr]
                                [(off + c - 1) % BSIZE]]

\* The cells read, and the state bmap leaves.
readi(s, off, n) ==
    LET m == Clip(s, off, n)
        t == Mapped(s, off, m)
    IN  IF off > s.mem.ino.size THEN [fs |-> s, data |-> <<-1>>]
        ELSE IF m = 0 THEN [fs |-> s, data |-> <<>>]
        ELSE [fs |-> t, data |-> Cells(t, off, m)]

-----------------------------------------------------------------------------
(* mkfs.c, which fills an image before anything is mounted. *)

ROOTINO == 1

\* iappend: n cells v at the end of inode i.  Blocks are given out in order
\* (freeblock++), as by balloc from an image where all before them are used.
iappend(s, i, n, v) ==
    LET t    == [s EXCEPT !.mem = [inum |-> i, ino |-> s.dinode[i]]]
        off  == s.dinode[i].size
        done == StoreCells(t, off, n, [o \in off .. off + n - 1 |-> v])
    IN  IF n = 0 THEN s ELSE Grow(done, off + n)

\* One host file of len bytes: its entry in the root, a cell, and its content.
CopyIn(s, i, len) == iappend(iappend(s, ROOTINO, 1, i), i, len, i)

\* "fix size of root inode dir": up to a block boundary behind the entries,
\* also when these fill their last block; the root then lacks the block behind.
FixRoot(s) == [s EXCEPT !.dinode[ROOTINO].size = ((@ \div BSIZE) + 1) * BSIZE]

\* main, with host files of the lengths in lens for the inodes after the root.
mkfs(lens) ==
    LET s0 == [bitmap |-> {}, blk |-> [b \in Block |-> Zeroes],
               dinode |-> [i \in Inum |-> NoContent], mem |-> NotOpen, beyond |-> 0,
               inop |-> TRUE, logged |-> {}, panic |-> ""]
        P[k \in 0 .. Len(lens)] ==
          IF k = 0 THEN iappend(iappend(s0, ROOTINO, 1, ROOTINO), ROOTINO, 1, ROOTINO)
          ELSE CopyIn(P[k - 1], k + 1, lens[k])
    IN  FixRoot(P[Len(lens)])
=============================================================================
