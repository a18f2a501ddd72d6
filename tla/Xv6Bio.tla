------------------------------- MODULE Xv6Bio -------------------------------
(***************************************************************************)
(* The buffer cache of xv6 (bio.c, ide.c) as the log (log.c) uses it: NBUF *)
(* buffers on a list kept in order of last use, from which log_write takes *)
(* some away by marking them dirty until commit() has written them out,    *)
(* and from which commit() itself takes buffers for the log's own blocks.  *)
(*                                                                         *)
(* Writers are calls between begin_op and end_op; readers, like fileread,  *)
(* use buffers outside of any transaction, also during a commit.  bget of  *)
(* a buffer that is busy waits (sleep).  What a crash does is Xv6Log's     *)
(* subject; there are none here.                                           *)
(***************************************************************************)
EXTENDS Integers, Sequences, FiniteSets, FiniteSetsExt, Functions

CONSTANTS
    NBUF,         \* buffers
    LOGSIZE,      \* blocks begin_op counts on, and size of the log
    MAXOPBLOCKS,  \* blocks a call may write
    Writer,       \* threads that make calls with begin_op and end_op
    Reader,       \* threads that read without
    Data,         \* data blocks
    Val           \* block contents

\* A call that writes holds two buffers at a time (bmap and itrunc: the indirect
\* block and a bitmap block), one that reads holds one.
Hold(p) == IF p \in Writer THEN 2 ELSE 1

\* param.h makes NBUF and LOGSIZE three times MAXOPBLOCKS.
ASSUME SizeAssumption ==
    /\ MAXOPBLOCKS \in Nat \ {0} /\ LOGSIZE \in Nat /\ MAXOPBLOCKS + 2 <= LOGSIZE
    /\ NBUF \in Nat /\ MAXOPBLOCKS + 2 + Cardinality(Reader) <= NBUF

\* The log: header and blocks, by their place in it.
Header == 0
Sector == Data \cup (Header .. LOGSIZE - 1)
NoSector == -1
Nobody == "nobody"
Committer == "commit"

\* Blocks of the file system lie outside of the log; a thread is a writer or a
\* reader.
ASSUME NamesAssumption ==
    /\ Data \cap (NoSector .. LOGSIZE - 1) = {}
    /\ Writer \cap Reader = {} /\ {Nobody, Committer} \cap (Writer \cup Reader) = {}
    /\ IsFiniteSet(Reader)

VARIABLES
    image,        \* the disk image, as pread returns it
    cache,        \* bcache: the buffers, head.next first
    lh,           \* thelog.lh: sectors of the current transaction
    outstanding,  \* calls in progress
    active,       \* the writers between begin_op and end_op
    wrote,        \* the blocks each of them has written
    step, tail,   \* progress of commit()
    latest        \* history: what each data block was last set to

thelog == <<lh, outstanding, active, wrote, step, tail>>
vars == <<image, cache, thelog, latest>>

\* binit: no buffer holds a block.
Unused(v) == [sector |-> NoSector, by |-> Nobody, dirty |-> FALSE, data |-> v]

Init ==
    /\ \E v \in Val : image = [s \in Sector |-> v] /\ cache = [i \in 1 .. NBUF |-> Unused(v)]
    /\ lh = <<>> /\ outstanding = 0 /\ active = {}
    /\ wrote = [p \in Writer |-> {}]
    /\ step = "none" /\ tail = 0
    /\ latest = [s \in Data |-> image[s]]

-----------------------------------------------------------------------------
(* bio.c, on a cache c. *)

\* Where a block is, or 0.
At(c, s) == Max({0} \cup {i \in DOMAIN c : c[i].sector = s})

\* Mutant: a pinned buffer may be recycled.
RecyclableDirty(b) == b.by = Nobody

\* "clean" because B_DIRTY and !B_BUSY means log.c has not committed it yet.
Recyclable(b) == b.by = Nobody /\ ~b.dirty
\* The one released longest ago, or 0.
Victim(c) == Max({0} \cup {i \in DOMAIN c : Recyclable(c[i])})

\* bread, when the block is not in a busy buffer and there is a buffer for it:
\* a miss recycles a buffer, and iderw reads the block.
bget(c, s, p) ==
    IF At(c, s) > 0 THEN [c EXCEPT ![At(c, s)].by = p]
    ELSE [c EXCEPT ![Victim(c)] = [sector |-> s, by |-> p, dirty |-> FALSE, data |-> image[s]]]
Waits(c, s) == At(c, s) > 0 /\ c[At(c, s)].by # Nobody
NoBuffers(c, s) == At(c, s) = 0 /\ Victim(c) = 0

\* Mutant: iderw leaves the buffer dirty.
bwrite_dirty(c, s, v) == [c EXCEPT ![At(c, s)].data = v, ![At(c, s)].dirty = TRUE]

\* bwrite of a buffer set to v: iderw writes it and clears B_DIRTY.
bwrite(c, s, v) == [c EXCEPT ![At(c, s)].data = v, ![At(c, s)].dirty = FALSE]

\* brelse: unlinked and put at the head of the list.
Unlinked(c, i) == SubSeq(c, 1, i - 1) \o SubSeq(c, i + 1, NBUF)
brelse(c, s) == <<[c[At(c, s)] EXCEPT !.by = Nobody]>> \o Unlinked(c, At(c, s))

HeldBy(p) == {b.sector : b \in {c \in Range(cache) : c.by = p}}
Contents(s) == cache[At(cache, s)].data

-----------------------------------------------------------------------------
(* Calls.  A call whose bread or log_write would panic is stuck here; that *)
(* there is none is NeverPanics.                                           *)

\* begin_op
begin_op(p) ==
    /\ p \notin active /\ step = "none"
    /\ Len(lh) + (outstanding + 1) * MAXOPBLOCKS <= LOGSIZE
    /\ outstanding' = outstanding + 1 /\ active' = active \cup {p}
    /\ wrote' = [wrote EXCEPT ![p] = {}]
    /\ UNCHANGED <<image, cache, lh, step, tail, latest>>

\* bread by a call.
bread(p, s) ==
    /\ p \in active \cup Reader
    /\ Cardinality(HeldBy(p)) < Hold(p)
    /\ ~Waits(cache, s) /\ ~NoBuffers(cache, s)
    /\ cache' = bget(cache, s, p)
    /\ UNCHANGED <<image, thelog, latest>>

\* What log_write panics on: the first of the log's blocks is its header.
TooBig == Len(lh) >= LOGSIZE \/ Len(lh) >= LOGSIZE - 1

\* The blocks a call can pass to log_write.
Writable(p) == {s \in HeldBy(p) : Cardinality(wrote[p] \cup {s}) <= MAXOPBLOCKS}

\* A call changes a buffer it holds and calls log_write, which pins it.
log_write(p, s, v) ==
    /\ p \in active /\ s \in Writable(p) /\ ~TooBig
    /\ lh' = IF s \in Range(lh) THEN lh ELSE Append(lh, s)
    /\ cache' = [cache EXCEPT ![At(cache, s)].data = v, ![At(cache, s)].dirty = TRUE]
    /\ wrote' = [wrote EXCEPT ![p] = @ \cup {s}]
    /\ latest' = [latest EXCEPT ![s] = v]
    /\ UNCHANGED <<image, outstanding, active, step, tail>>

Release(p, s) ==
    /\ s \in HeldBy(p)
    /\ cache' = brelse(cache, s)
    /\ UNCHANGED <<image, thelog, latest>>

\* end_op: the last one out commits.
end_op(p) ==
    /\ p \in active /\ HeldBy(p) = {}
    /\ active' = active \ {p} /\ outstanding' = outstanding - 1
    /\ step' = IF outstanding = 1 /\ lh # <<>> THEN "wlog" ELSE step
    /\ UNCHANGED <<image, cache, lh, wrote, tail, latest>>

-----------------------------------------------------------------------------
(* commit() *)

\* write_log and install_trans start each round with the log block's buffer.
LogBlock(at) ==
    /\ step = at /\ tail < Len(lh) /\ HeldBy(Committer) = {}
    /\ ~NoBuffers(cache, tail + 1)
    /\ cache' = bget(cache, tail + 1, Committer)
    /\ UNCHANGED <<image, thelog, latest>>

\* The rest of a round: the buffer of the block's home is had, one is copied to
\* the other and written, and both are released.
Copied(c, from, to, v) ==
    /\ cache' = brelse(brelse(bwrite(c, to, v), from), to)
    /\ image' = [image EXCEPT ![to] = v]
CopyIn(c, from, to) == Copied(c, from, to, c[At(c, from)].data)
Round(at, from, to) ==
    /\ step = at /\ tail < Len(lh) /\ HeldBy(Committer) # {}
    /\ ~Waits(cache, lh[tail + 1]) /\ ~NoBuffers(cache, lh[tail + 1])
    /\ CopyIn(bget(cache, lh[tail + 1], Committer), from, to)
    /\ tail' = tail + 1
    /\ UNCHANGED <<lh, outstanding, active, wrote, step, latest>>

\* Mutant: the log block is released unwritten, to be written with the header.
write_log_late ==
    /\ step = "wlog" /\ tail < Len(lh) /\ HeldBy(Committer) # {}
    /\ ~Waits(cache, lh[tail + 1])
    /\ cache' = brelse(cache, tail + 1)
    /\ tail' = tail + 1
    /\ UNCHANGED <<image, lh, outstanding, active, wrote, step, latest>>

write_log == Round("wlog", lh[tail + 1], tail + 1)
install_trans == Round("install", tail + 1, lh[tail + 1])

\* write_head, after write_log and, with lh.n = 0, after install_trans.  What
\* the header says is left out.
write_head(from, to, n) ==
    /\ step = from /\ tail = Len(lh) /\ ~NoBuffers(cache, Header)
    /\ cache' = brelse(bget(cache, Header, Committer), Header)
    /\ step' = to /\ tail' = 0 /\ lh' = SubSeq(lh, 1, n)
    /\ UNCHANGED <<image, outstanding, active, wrote, latest>>

Next ==
    \/ \E p \in Writer : begin_op(p) \/ end_op(p)
    \/ \E p \in Writer \cup Reader, s \in Data : bread(p, s) \/ Release(p, s)
    \/ \E p \in Writer, s \in Data, v \in Val : log_write(p, s, v)
    \/ LogBlock("wlog") \/ write_log \/ write_head("wlog", "install", Len(lh))
    \/ LogBlock("install") \/ install_trans \/ write_head("install", "none", 0)

Spec == Init /\ [][Next]_vars

-----------------------------------------------------------------------------
\* A block reads as it was last set, from the buffer or, once that is recycled,
\* from the disk: pinning keeps what log_write has not put on disk yet.
LatestKept ==
    \A s \in Data : latest[s] = IF At(cache, s) > 0 THEN Contents(s) ELSE image[s]

\* When the header commits, and until the log is erased, the log has what the
\* transaction last wrote to each of its blocks.
LogComplete ==
    step = "install" => \A i \in DOMAIN lh : image[i] = latest[lh[i]]

\* While one call writes at a time, as in the FUSE build, and keeps to
\* MAXOPBLOCKS, neither bget nor log_write panics: there are always buffers
\* besides those that are pinned and those the call, commit() and the readers
\* hold, and there is room in the log.
NeverPanics ==
    /\ \A p \in active \cup Reader, s \in Data :
        Cardinality(HeldBy(p)) < Hold(p) => ~NoBuffers(cache, s)
    /\ step # "none" =>
        \A s \in (IF tail = Len(lh) THEN {Header} ELSE {tail + 1, lh[tail + 1]}) :
            ~NoBuffers(cache, s)
    /\ \A p \in active : Writable(p) # {} => ~TooBig
=============================================================================
