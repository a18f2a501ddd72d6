------------------------------ MODULE AsyncFS ------------------------------
(***************************************************************************)
(* The file system calls of FSCQ (AsyncFS.v) on top of the transaction log *)
(* as DiskSet promises it: ds holds the durable disk and one more for each *)
(* transaction committed since.  Every call is one step, made by a job:    *)
(* the calls a FUSE callback or a client still has to make (Fscq).         *)
(***************************************************************************)
EXTENDS DirTree

CONSTANTS
    LogLen      \* blocks one transaction can log

VARIABLES
    ds,       \* the disks, oldest first
    queued,   \* blocks logged by transactions that are not flushed
    mem,      \* BFILE.memstate
    job,      \* calls to make before the next job, and what they work on
    out       \* the call made last, and how it ended


Latest == ds[Len(ds)]
Begin(m) == [d |-> Latest, w |-> {}, m |-> m, v |-> 0, err |-> "OK"]

\* fh: the open file; fin: what is left to do when a call fails; for the
\* properties, allow: what the job may make of a name, and lax: what else once a
\* call has failed.
Idle == [todo |-> <<>>, fin |-> <<>>, fh |-> 0, allow |-> <<>>, lax |-> {}]
Call == Head(job.todo)
Calls(name) == job.todo # <<>> /\ Call[1] = name

\* The next call after one that ended well or not.
Proceed(ok, fh) ==
    job' = IF Tail(job.todo) = <<>> /\ ok THEN Idle
           ELSE IF ok THEN [job EXCEPT !.todo = Tail(@), !.fh = fh]
           ELSE IF job.fh = 0 \/ job.fin = <<>> THEN Idle
           ELSE [job EXCEPT !.todo = job.fin, !.fin = <<>>,
                            !.allow = [n \in DOMAIN @ |-> @[n] \cup job.lax]]

\* LOG.commit or LOG.abort: r is what the transaction did, base the memory
\* state the call goes back to if it fails.
End(r, base, must, fh) ==
    LET ok == r.err = "OK" /\ Cardinality(r.w) <= LogLen
    IN  /\ ds' = IF ok THEN Append(ds, r.d) ELSE ds
        /\ queued' = IF ok THEN queued \cup r.w ELSE queued
        /\ mem' = IF ok THEN r.m ELSE base
        /\ Proceed(ok \/ ~must, IF ok THEN fh ELSE job.fh)
        /\ out' = <<Call, job.fh, fh, ok>>

\* Calls that commit nothing (commit_ro).
ReadOnly(r) ==
    /\ mem' = r.m
    /\ Proceed(r.err = "OK", job.fh)
    /\ out' = <<Call, job.fh, job.fh, r.err = "OK">>
    /\ UNCHANGED <<ds, queued>>

-----------------------------------------------------------------------------
(* Calls on files *)

\* file_truncate, in blocks.  open ignores its result.
file_truncate ==
    /\ Calls("truncate")
    /\ End(Truncate(Begin(mem), job.fh, Call[2]), mem, Call[3], job.fh)

\* file_set_sz, which keeps the caches of a transaction that does not commit.
EndKeeping(r, must) == End(r, r.m, must, job.fh)
file_set_sz ==
    /\ Calls("set_sz")
    /\ EndKeeping(UpdAttr(Begin(mem), job.fh, Call[2]), TRUE)

\* The transaction ftruncate commits: its second half starts from the log
\* state of before its first half, whose writes are lost; the caches keep them.
FtruncateTxn(t, sz) ==
    IF t.err # "OK" THEN t
    ELSE UpdAttr([t EXCEPT !.d = Latest, !.w = {}], job.fh, sz)

\* ftruncate, which takes bytes and divides them by valulen, which is in bits.
ftruncate ==
    /\ Calls("ftruncate")
    /\ LET valulen == 8 * BlockSize
       IN  End(FtruncateTxn(Truncate(Begin(mem), job.fh, (Call[2] + valulen - 1) \div valulen), Call[2]),
               mem, TRUE, job.fh)

\* read_fblock on the latest disk.
ReadBlock(i, off) == Latest.data[getbnum(Begin(mem), i, off)].cur

\* Mutant: the block written is not noted as dirty.
DwriteClean(b, v, m, flush) ==
    /\ ds' = [k \in DOMAIN (IF flush THEN <<Latest>> ELSE ds) |->
                [(IF flush THEN Latest ELSE ds[k]) EXCEPT !.data[b] = WriteTo(@, v)]]
    /\ queued' = IF flush THEN {} ELSE queued
    /\ mem' = IGet(Begin(m), job.fh).m
    /\ Proceed(TRUE, job.fh)
    /\ out' = <<Call, job.fh, v, TRUE>>

\* update_fblock_d of block b of the open file, with memory state m: a queued
\* transaction that logged the block is flushed first; then the write reaches
\* every disk.
DwriteBlock(b, v, m, flush) ==
    /\ ds' = [k \in DOMAIN (IF flush THEN <<Latest>> ELSE ds) |->
                [(IF flush THEN Latest ELSE ds[k]) EXCEPT !.data[b] = WriteTo(@, v)]]
    /\ queued' = IF flush THEN {} ELSE queued
    /\ mem' = [IGet(Begin(m), job.fh).m EXCEPT !.dirty[job.fh] = @ \cup {b}]
    /\ Proceed(TRUE, job.fh)
    /\ out' = <<Call, job.fh, v, TRUE>>
update_fblock_d(b, v, m) == DwriteBlock(b, v, m, b \in queued)

\* Mutant: nothing is read back.
PieceOverZeros(blk, off, cnt, v, len) ==
    [k \in 1 .. BlockSize |-> IF k - 1 \in off .. off + cnt - 1 THEN v ELSE 0]

\* write_piece: the bytes around a partial write are read back, unless the
\* file ended before the block or within the part written.
PieceContent(blk, off, cnt, v, len) ==
    LET fresh == \/ cnt = BlockSize
                 \/ len <= blk * BlockSize
                 \/ off = 0 /\ len <= blk * BlockSize + cnt
        old == IF fresh THEN Zero ELSE ReadBlock(job.fh, blk)
    IN  [k \in 1 .. BlockSize |-> IF k - 1 \in off .. off + cnt - 1 THEN v ELSE old[k]]

\* update_fblock by write_piece: appends are logged.
write_piece_log ==
    /\ Calls("wlog")
    /\ EndKeeping(BWrite(Begin(mem), job.fh, Call[2], PieceContent(Call[2], Call[3], Call[4], Call[5], Call[6])),
                  FALSE)

\* update_fblock_d by write_piece: overwrites bypass the log.
write_piece_d ==
    /\ Calls("wdir")
    /\ update_fblock_d(getbnum(Begin(mem), job.fh, Call[2]),
                       PieceContent(Call[2], Call[3], Call[4], Call[5], Call[6]), mem)

\* fscqWrite of cnt bytes v at off: the pieces it makes, one per block touched.
compute_ranges(off, cnt, v, len, log) ==
    LET first == off \div BlockSize
        last == (off + cnt - 1) \div BlockSize
    IN  [k \in 1 .. last - first + 1 |->
            LET blk == first + k - 1
                boff == IF blk = first THEN off % BlockSize ELSE 0
                end == IF blk = last THEN ((off + cnt - 1) % BlockSize) + 1 ELSE BlockSize
            IN  <<IF log THEN "wlog" ELSE "wdir", blk, boff, end - boff, v, len>>]

\* Mutant: the size is set before the file grows.
WriteSizeFirst(off, cnt, v, len) ==
    IF len < off + cnt
    THEN <<<<"set_sz", off + cnt>>, <<"truncate", (off + cnt + BlockSize - 1) \div BlockSize, TRUE>>>>
         \o compute_ranges(off, cnt, v, len, TRUE)
    ELSE compute_ranges(off, cnt, v, len, FALSE)

\* A write past the end grows the file first and sets its size last.
WriteCalls(off, cnt, v, len) ==
    IF len < off + cnt
    THEN <<<<"truncate", (off + cnt + BlockSize - 1) \div BlockSize, TRUE>>>>
         \o compute_ranges(off, cnt, v, len, TRUE) \o <<<<"set_sz", off + cnt>>>>
    ELSE compute_ranges(off, cnt, v, len, FALSE)

\* fscqWrite, up to the size it reads first.
fscqWrite ==
    /\ Calls("write")
    /\ mem' = IGet(Begin(mem), job.fh).m
    /\ job' = [job EXCEPT !.todo =
                WriteCalls(Call[2], Call[3], Call[4], Irec(Begin(mem), job.fh).sz) \o Tail(@)]
    /\ out' = <<Call, job.fh, job.fh, TRUE>>
    /\ UNCHANGED <<ds, queued>>

\* file_sync: the dirty blocks of the file.
file_sync ==
    /\ Calls("file_sync")
    /\ ds' = [k \in DOMAIN ds |->
                [ds[k] EXCEPT !.data = [b \in DOMAIN @ |->
                    IF b \in mem.dirty[job.fh] THEN sync_addr(@[b]) ELSE @[b]]]]
    /\ mem' = [mem EXCEPT !.dirty[job.fh] = {}]
    /\ Proceed(TRUE, job.fh)
    /\ out' = <<Call, job.fh, job.fh, TRUE>>
    /\ UNCHANGED queued

\* tree_sync: flushall, and the allocators change roles.
tree_sync ==
    /\ Calls("tree_sync")
    /\ ds' = <<Latest>> /\ queued' = {}
    /\ mem' = [mem EXCEPT !.al = ~@]
    /\ Proceed(TRUE, job.fh)
    /\ out' = <<Call, job.fh, job.fh, TRUE>>

-----------------------------------------------------------------------------
(* Calls on the tree; fscq.hs looks the directory up in a call of its own. *)

\* lookup of a file, then file_get_attr: open, and stat.
lookup ==
    /\ Calls("open")
    /\ LET l == namei(Begin(mem), <<Call[2]>>)
           ok == l.err = "OK" /\ ~l.v[2]
       IN  /\ mem' = IF l.err = "OK" THEN IGet(l, l.v[1]).m ELSE l.m
           /\ Proceed(ok, IF ok THEN l.v[1] ELSE job.fh)
           /\ out' = <<Call, job.fh, job.fh, ok>>
    /\ UNCHANGED <<ds, queued>>

\* create goes back to the caches of before if it fails; mkdir and mksock
\* keep the ones that go with the aborted transaction.
MkAt(l, r, keep) ==
    IF l.err # "OK" THEN ReadOnly(l) ELSE End(r, IF keep THEN r.m ELSE l.m, TRUE, r.v)
MkIn2(l, n, isdir, keep) == MkAt(l, Mk(Begin(l.m), l.v[1], n, isdir), keep)

create ==
    /\ Calls("create")
    /\ MkIn2(nameiDir(Begin(mem), Call[2]), Call[3], FALSE, FALSE)

mkdir ==
    /\ Calls("mkdir")
    /\ MkIn2(nameiDir(Begin(mem), Call[2]), Call[3], TRUE, TRUE)

\* mksock is create, and updattr of the type (UType), which is not modelled but
\* for its write of the inode.
Typed(r) == IF r.err # "OK" THEN r ELSE IPut(r, r.v, Irec(r, r.v))
MksockIn(l, n) == MkAt(l, Typed(Mk(Begin(l.m), l.v[1], n, FALSE)), TRUE)
mksock ==
    /\ Calls("mksock")
    /\ MksockIn(nameiDir(Begin(mem), Call[2]), Call[3])

DeleteAt(l, r) == IF l.err # "OK" THEN ReadOnly(l) ELSE End(r, l.m, TRUE, job.fh)
DeleteIn2(l, n) == DeleteAt(l, Delete(Begin(l.m), l.v[1], n))
delete ==
    /\ Calls("delete")
    /\ DeleteIn2(nameiDir(Begin(mem), Call[2]), Call[3])

\* testsync.c goes on when its rename has failed.
rename ==
    /\ Calls("rename")
    /\ End(Rename(Begin(mem), Call[2], Call[3], Call[4], Call[5]), mem, Call[6], job.fh)
=============================================================================
