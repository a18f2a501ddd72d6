------------------------------- MODULE BFile -------------------------------
(***************************************************************************)
(* Block and inode allocation, inodes and block-granular files of FSCQ     *)
(* (Balloc.v, Inode.v over BlockPtr.v, BFile.v), as functions on the       *)
(* record a running transaction works on:                                  *)
(*   d     the disk the transaction sees, its own writes included          *)
(*   w     the blocks it has written through the log (MSTxn)               *)
(*   m     the memory state (BFILE.memstate): which allocator hands blocks *)
(*         out, and the caches of free lists, inodes, directories and      *)
(*         dirty blocks                                                    *)
(*   v     the value the last operation returned                           *)
(*   err   "OK" or the error it returned                                   *)
(* A disk is [ino, bm, ibm, data]: the inode table, the free blocks of the *)
(* two allocators (a free bit in a bitmap), the free inodes, the data      *)
(* blocks.  Block 0 is never handed out: a pointer 0 means "no block", and *)
(* reads and writes through it go to block 0.                              *)
(* One level of indirection is modelled; dind and tind repeat it.          *)
(***************************************************************************)
EXTENDS Integers, Sequences, FiniteSets, FiniteSetsExt, Functions, AsyncDisk

CONSTANTS
    NData,      \* data blocks, 1 .. NData
    NInode,     \* inodes, 1 .. NInode
    NDirect,    \* block pointers in an inode
    NIndirect,  \* block pointers in an indirect block
    BlockSize   \* bytes of a block

ASSUME LayoutAssumption ==
    /\ NData \in Nat /\ NInode \in Nat \ {0}
    /\ NDirect \in Nat /\ NIndirect \in Nat
    /\ BlockSize \in Nat \ {0}

Block == 1 .. NData
Inum == 1 .. NInode
NBlocks == NDirect + NIndirect
Zeros(n) == [k \in 1 .. n |-> 0]
Zero == Zeros(BlockSize)

\* Where metadata lies in the log's address space.
InoBlk == -1
IbmBlk == -2
BmBlk(al) == IF al THEN -3 ELSE -4

-----------------------------------------------------------------------------
(* LOG.write inside a transaction. *)
LogWrite(s, b, v) == [s EXCEPT !.d.data[b] = Synced(v), !.w = @ \cup {b}]

(* BmapAllocCache: a bitmap, and its free list cached as <<list>> or not *)
(* cached, <<>> (freelist0).                                             *)
Below(S, x) == Cardinality({y \in S : y < x})
Ascending(S) == [k \in 1 .. Cardinality(S) |-> CHOOSE x \in S : Below(S, x) = k - 1]
Reversed(l) == [k \in 1 .. Len(l) |-> l[Len(l) - k + 1]]
get_free_blocks(bits, cache) == IF cache = <<>> THEN Ascending(bits) ELSE cache[1]
cache_free_block(l, cache) == IF cache = <<>> THEN <<>> ELSE <<Reversed(l) \o cache[1]>>

\* BALLOCC.alloc on allocator al; v = 0 when it is exhausted.
BAllocFrom(s, al, fl) ==
    IF fl = <<>> THEN [s EXCEPT !.m.alc[al] = <<fl>>, !.v = 0]
    ELSE [s EXCEPT !.d.bm[al] = @ \ {Head(fl)}, !.w = @ \cup {BmBlk(al)},
                   !.m.alc[al] = <<Tail(fl)>>, !.v = Head(fl)]
BAlloc(s, al) == BAllocFrom(s, al, get_free_blocks(s.d.bm[al], s.m.alc[al]))

\* BALLOCC.freevec
BFreeVec(s, al, l) ==
    IF l = <<>> THEN s
    ELSE [s EXCEPT !.d.bm[al] = @ \cup Range(l), !.w = @ \cup {BmBlk(al)},
                   !.m.alc[al] = cache_free_block(l, @)]

\* IAlloc.alloc and IAlloc.free.
IAllocFrom(s, fl) ==
    IF fl = <<>> THEN [s EXCEPT !.m.ialc = <<fl>>, !.v = 0]
    ELSE [s EXCEPT !.d.ibm = @ \ {Head(fl)}, !.w = @ \cup {IbmBlk},
                   !.m.ialc = <<Tail(fl)>>, !.v = Head(fl)]
IAlloc(s) == IAllocFrom(s, get_free_blocks(s.d.ibm, s.m.ialc))
IFree(s, i) == [s EXCEPT !.d.ibm = @ \cup {i}, !.w = @ \cup {IbmBlk},
                         !.m.ialc = cache_free_block(<<i>>, @)]

-----------------------------------------------------------------------------
(* Inodes: the cached record array, block pointers. *)
Inode0 == [len |-> 0, dir |-> Zeros(NDirect), ind |-> 0, sz |-> 0]

\* IRec.get_array: reads come from the cache, and fill it.
Irec(s, i) == IF i \in DOMAIN s.m.icache THEN s.m.icache[i] ELSE s.d.ino[i]
IGet(s, i) == [s EXCEPT !.m.icache = [j \in DOMAIN @ \cup {i} |-> Irec(s, j)]]
\* IRec.put_array
IPut(s, i, ir) ==
    [s EXCEPT !.m.icache = [j \in DOMAIN @ \cup {i} |-> IF j = i THEN ir ELSE Irec(s, j)],
              !.d.ino[i] = ir, !.w = @ \cup {InoBlk}]

IndBlks(d, ind) == IF ind = 0 THEN Zeros(NIndirect) ELSE d.data[ind].cur

\* Ind.get: pointers past the end are 0.
BnumOf(d, ir, off) ==
    IF off < NDirect THEN ir.dir[off + 1]
    ELSE IF off < NBlocks THEN IndBlks(d, ir.ind)[off - NDirect + 1] ELSE 0
\* Ind.read
BnumsOf(d, ir) == SubSeq(ir.dir \o IndBlks(d, ir.ind), 1, ir.len)
\* INODE.getbnum, getallbnum
getbnum(s, i, off) == BnumOf(s.d, Irec(s, i), off)
getallbnum(s, i) == BnumsOf(s.d, Irec(s, i))

\* indput: the indirect block is allocated with the first pointer it holds.
IndPut(s, ir, off, bn) ==
    IF ir.ind = 0
    THEN LET t == BAlloc(s, s.m.al)
         IN  IF t.v = 0 THEN t ELSE LogWrite(t, t.v, [Zeros(NIndirect) EXCEPT ![off] = bn])
    ELSE LogWrite([s EXCEPT !.v = ir.ind], ir.ind, [IndBlks(s.d, ir.ind) EXCEPT ![off] = bn])

\* INODE.grow over Ind.grow.
IndGrown(t, i, ir) ==
    IF t.v = 0 THEN [IGet(t, i) EXCEPT !.err = "ENOSPCBLOCK"]
    ELSE IPut(t, i, [ir EXCEPT !.len = @ + 1, !.ind = t.v])
InodeGrow(s, i, ir, bn) ==
    IF ir.len < NDirect
    THEN IPut(s, i, [ir EXCEPT !.len = @ + 1, !.dir[ir.len + 1] = bn])
    ELSE IndGrown(IndPut(s, ir, ir.len - NDirect + 1, bn), i, ir)

\* indclear and update_block: an indirect block left without pointers is freed.
IndClear(s, ir, n) ==
    IF ir.ind = 0 \/ n >= NIndirect THEN s
    ELSE IF n = 0 THEN BFreeVec(s, ~s.m.al, <<ir.ind>>)
    ELSE LogWrite(s, ir.ind, SubSeq(IndBlks(s.d, ir.ind), 1, n) \o Zeros(NIndirect - n))

\* Ind.shrink to n blocks; INODE.shrink, and INODE.reset with the attributes.
Shrunk(ir, n, sz) ==
    [len |-> n, sz |-> sz,
     dir |-> [k \in 1 .. NDirect |-> IF k <= n THEN ir.dir[k] ELSE 0],
     ind |-> IF n <= NDirect THEN 0 ELSE ir.ind]
InodeShrink(s, i, ir, n, sz) ==
    IPut(IF ir.len <= NDirect THEN s
         ELSE IndClear(s, ir, IF n > NDirect THEN n - NDirect ELSE 0), i, Shrunk(ir, n, sz))

-----------------------------------------------------------------------------
(* BFILE *)

\* grow by a block with content v: the block is logged and noted as dirty.
\* The free lists lose a block even if the indirect block cannot be had; the
\* caller aborts.
GrowWith(t, i, v) ==
    IF t.v = 0 THEN [t EXCEPT !.err = "ENOSPCBLOCK"]
    ELSE LET bn == t.v
             u == InodeGrow(t, i, Irec(t, i), bn)
         IN  IF u.err # "OK" THEN u
             ELSE [LogWrite(u, bn, v) EXCEPT !.m.dirty[i] = @ \cup {bn}]
Grow(s, i, v) ==
    IF Irec(s, i).len >= NBlocks THEN [IGet(s, i) EXCEPT !.err = "EFBIG"]
    ELSE GrowWith(BAlloc(IGet(s, i), s.m.al), i, v)

\* Mutant: freed blocks go back to the allocator that is handing blocks out.
ShrinkSameAllocator(s, i, n, sz) ==
    InodeShrink(BFreeVec(s, s.m.al, SubSeq(getallbnum(s, i), n + 1, Irec(s, i).len)), i,
                Irec(s, i), n, sz)

\* shrink to n blocks: they are freed to the other allocator, and are no
\* longer dirty.
ShrinkTo(s, i, n, sz) ==
    InodeShrink(BFreeVec([s EXCEPT !.m.dirty[i] = @ \ Range(SubSeq(getallbnum(s, i), n + 1, Irec(s, i).len))],
                         ~s.m.al, SubSeq(getallbnum(s, i), n + 1, Irec(s, i).len)),
                i, Irec(s, i), n, sz)

\* truncate: shrink, or grown with zero blocks until it fails.
GrowStep(s, i) == IF s.err = "OK" THEN Grow(s, i, Zero) ELSE s
GrowBy(s, i, n) ==
    LET G[k \in 0 .. n] == IF k = 0 THEN s ELSE GrowStep(G[k - 1], i)
    IN  G[n]
Truncate(s, i, n) ==
    IF n < Irec(s, i).len THEN ShrinkTo(s, i, n, Irec(s, i).sz)
    ELSE GrowBy(IGet(s, i), i, n - Irec(s, i).len)

\* Mutant: the blocks of the file are not freed.
ResetLeaks(s, i) ==
    [IPut(s, i, Inode0) EXCEPT !.m.dirty[i] = {}, !.m.dcache = [j \in DOMAIN @ \ {i} |-> @[j]]]

\* reset: delete's end of a file.
Reset(s, i) ==
    [ShrinkTo(s, i, 0, 0) EXCEPT
        !.m.dirty[i] = {}, !.m.dcache = [j \in DOMAIN @ \ {i} |-> @[j]]]

\* write, through the log.
BWrite(s, i, off, v) == LogWrite(IGet(s, i), getbnum(s, i, off), v)

\* updattr UBytes; setattrs with the one attribute that is modelled.
UpdAttr(s, i, sz) == IPut(s, i, [Irec(s, i) EXCEPT !.sz = sz])

\* recover: the memory state after a boot.
Memstate0 ==
    [al |-> TRUE, alc |-> [al \in BOOLEAN |-> <<>>], ialc |-> <<>>,
     icache |-> <<>>, dcache |-> <<>>, dirty |-> [i \in Inum |-> {}]]

\* init with shuffle_allocs: one half of the blocks starts in each allocator.
\* mkfs allocates the root inode.
MkfsDisk ==
    [ino |-> [i \in Inum |-> Inode0],
     bm |-> [al \in BOOLEAN |-> IF al THEN {b \in Block : 2 * b >= NData + 1}
                                      ELSE {b \in Block : 2 * b < NData + 1}],
     ibm |-> Inum \ {1},
     data |-> [b \in Block \cup {0} |-> Synced(Zero)]]
=============================================================================
