------------------------------- MODULE Fscq -------------------------------
(***************************************************************************)
(* The FUSE callbacks of FSCQ (fscq.hs) and two kinds of client that rely  *)
(* on their crash behaviour: AtomicCp.v and the write-sync-rename loops of *)
(* bench/.                                                                 *)
(*                                                                         *)
(* A callback holds the file system's lock (the MVar m_fsxp) through all   *)
(* its calls, so only a crash can come between them; a client's calls are  *)
(* given the same treatment.  Transactions reach the disk only in a flush, *)
(* which any callback between two jobs may start (fsync of a directory),   *)
(* so between two jobs a crash can keep any prefix of them.                *)
(***************************************************************************)
EXTENDS AsyncFS

CONSTANTS
    Byte,       \* bytes written by clients, without 0
    Ranges,     \* the <<offset, count>> of writes
    MaxJobs,    \* bound: jobs started
    MaxTxns,    \* bound: disks in ds when a job starts
    FreeName,   \* names the callbacks use
    Temp,       \* the name AtomicCp.v copies to (temp_fn)
    Tmp         \* the name the clients of bench/ write to before they rename

VARIABLES
    left,     \* jobs that may still be started
    trunced,  \* files that an open with O_TRUNC has left with a size only
    leaky     \* a mkdir or mksock has failed since the last boot

vars == <<ds, queued, mem, job, out, left, trunced, leaky>>

-----------------------------------------------------------------------------
(* Jobs: the callbacks of fscq.hs, and the clients. *)

DirEnts(d, i) == {v \in {d.data[b].cur : b \in Range(BnumsOf(d, d.ino[i]))} : IsEntry(v)}
Entry(d, n) == {e \in DirEnts(d, Root) : e[1] = n}
\* All entries below the root, with the directory they are in.
EntsIn(d, i) == {<<i, e>> : e \in DirEnts(d, i)}
Deeper(d, es) == es \cup UNION {EntsIn(d, x[2][2]) : x \in {y \in es : y[2][3]}}
TreeEnts(d) ==
    LET below[n \in 1 .. NInode] == IF n = 1 THEN EntsIn(d, Root) ELSE Deeper(d, below[n - 1])
    IN  below[NInode]
Files(d) == {x[2][2] : x \in {y \in TreeEnts(d) : ~y[2][3]}}

Paths == {<<>>} \cup {<<n>> : n \in FreeName}
OnFile(i, todo) == [Idle EXCEPT !.todo = todo, !.fh = i]
OnTree(todo) == [Idle EXCEPT !.todo = todo]

\* What a crash may leave of the file with a name in the root.
Views(d, n) ==
    IF Entry(d, n) = {} THEN {<<"none", 0, <<>>>>}
    ELSE LET i == (CHOOSE e \in Entry(d, n) : TRUE)[2]
             bs == BnumsOf(d, d.ino[i])
         IN  {<<"file", d.ino[i].sz, c>> :
                c \in {f \in [DOMAIN bs -> UNION {vsmerge(d.data[b]) : b \in Range(bs)}] :
                        \A k \in DOMAIN bs : f[k] \in vsmerge(d.data[bs[k]])}}

\* A client may only turn n from what it is now into the file c.
MayBecome(n, c) == [k \in {n} |-> {c} \cup UNION {Views(ds[j], n) : j \in DOMAIN ds}]

\* fscqCreateFile, fscqCreate, fscqCreateDir, fscqUnlink, fscqRename
RenameCalls == {"rename"} \X Paths \X FreeName \X Paths \X FreeName \X {TRUE}
TreeCalls ==
    ({"create", "mkdir"} \X Paths \X (FreeName \cup {LongName}))
    \cup ({"mksock"} \X {<<>>} \X FreeName)
    \cup ({"delete"} \X Paths \X FreeName)
    \cup RenameCalls
TreeJobs == {OnTree(<<c>>) : c \in TreeCalls}

\* fscqOpen with O_TRUNC: two transactions, the first one's result ignored.
OpenTrunc(i) == OnFile(i, <<<<"truncate", 0, FALSE>>, <<"set_sz", 0>>>>)

\* fscqSyncFile (fsync; fdatasync is without the tree_sync), fscqSyncDir
fsync == <<<<"file_sync">>, <<"tree_sync">>>>
fscqSyncDir == <<<<"tree_sync">>>>

WriteAny == {<<"write", r[1], r[2], v>> : r \in Ranges, v \in Byte}
FileJobs(i) ==
    {OnFile(i, <<<<"file_sync">>>>), OnFile(i, fsync)} \cup {OnFile(i, <<c>>) : c \in WriteAny}

\* Mutant: the copy is renamed before its data is synced.
atomic_cp_unsynced(src, dst) ==
    [todo |-> <<<<"create", <<>>, Temp>>, <<"tree_sync">>, <<"truncate", 1, TRUE>>, <<"copy_block", src>>,
                <<"copy_attr", src>>, <<"rename", <<>>, Temp, <<>>, dst, TRUE>>, <<"tree_sync">>>>,
     fin |-> <<<<"tree_sync">>>>, fh |-> 0, lax |-> {},
     allow |-> MayBecome(dst, <<"file", Latest.ino[src].sz, <<ReadBlock(src, 0)>>>>)]

\* atomic_cp: copy the file src over dst by way of temp_fn.
atomic_cp(src, dst) ==
    [todo |-> <<<<"create", <<>>, Temp>>, <<"tree_sync">>, <<"truncate", 1, TRUE>>, <<"copy_block", src>>,
                <<"file_sync">>, <<"copy_attr", src>>, <<"rename", <<>>, Temp, <<>>, dst, TRUE>>, <<"tree_sync">>>>,
     fin |-> <<<<"tree_sync">>>>, fh |-> 0, lax |-> {},
     allow |-> MayBecome(dst, <<"file", Latest.ino[src].sz, <<ReadBlock(src, 0)>>>>)]

\* atomic_cp_recover, after the recovery of the file system.
atomic_cp_recover ==
    [Idle EXCEPT !.todo = <<<<"open", Temp>>, <<"delete", <<>>, Temp>>, <<"tree_sync">>>>,
                 !.fin = <<<<"tree_sync">>>>]

\* The content of a new file of cnt bytes v.
NewFile(cnt, v) ==
    <<"file", cnt, [k \in 1 .. (cnt + BlockSize - 1) \div BlockSize |->
                        [j \in 1 .. BlockSize |-> IF (k - 1) * BlockSize + j <= cnt THEN v ELSE 0]]>>

\* The clients of bench/ write a new file, sync it, rename it and sync the
\* directory.  atomic-create.c stops at the first call that fails, and opens the
\* file an earlier attempt has left.
OpenTmp == IF Entry(Latest, Tmp) = {} THEN <<"create", <<>>, Tmp>> ELSE <<"open", Tmp>>
atomic_create(dst, v) ==
    [OnTree(<<OpenTmp, <<"write", 0, BlockSize + 1, v>>, <<"file_sync">>,
              <<"rename", <<>>, Tmp, <<>>, dst, TRUE>>>> \o fscqSyncDir)
        EXCEPT !.allow = MayBecome(dst, NewFile(BlockSize + 1, v))]

\* testsync.c stops when it cannot create the file; of any other failure it
\* only says so (perror) and makes the next call.  A write that has failed leaves
\* the file empty, and it is renamed all the same.
RenameOver(dst) == fsync \o <<<<"rename", <<>>, Tmp, <<>>, dst, FALSE>>>> \o fscqSyncDir
testsync(dst, v) ==
    [OnTree(<<<<"create", <<>>, Tmp>>, <<"write", 0, 1, v>>>> \o RenameOver(dst))
        EXCEPT !.fin = RenameOver(dst), !.allow = MayBecome(dst, NewFile(1, v)),
               !.lax = {<<"file", 0, <<>>>>}]

\* copydata: the block goes straight to the temporary file, the attributes
\* through the log.
copy_block ==
    /\ Calls("copy_block")
    /\ update_fblock_d(getbnum(Begin(mem), job.fh, 0), ReadBlock(Call[2], 0), IGet(Begin(mem), Call[2]).m)
copy_attr ==
    /\ Calls("copy_attr")
    /\ End(UpdAttr(Begin(mem), job.fh, Irec(Begin(mem), Call[2]).sz), mem, TRUE, job.fh)

\* What umount leaves of a disk.
Unmounted(d) == [d EXCEPT !.data = sync_mem(@)]

\* The disks a run starts from: mkfs, and a file created and written.
MkfsState == [d |-> MkfsDisk, w |-> {}, m |-> Memstate0, v |-> 0, err |-> "OK"]
Filled(s, i) ==
    IF s.err = "OK" THEN UpdAttr(BWrite(s, i, 0, [k \in 1 .. BlockSize |-> 9]), i, BlockSize) ELSE s
WithFile(s) == IF s.err = "OK" THEN Filled(Truncate(s, s.v, 1), s.v) ELSE s
Made == {s \in {WithFile(Mk(MkfsState, Root, n, FALSE)) : n \in FreeName} : s.err = "OK"}
Images == {MkfsDisk} \cup {Unmounted(s.d) : s \in Made}

-----------------------------------------------------------------------------
Init ==
    /\ \E d \in Images : ds = <<d>>
    /\ queued = {} /\ mem = Memstate0 /\ job = Idle /\ out = <<>>
    /\ left = MaxJobs /\ trunced = {} /\ leaky = FALSE

Start(j) ==
    /\ job = Idle /\ left > 0 /\ Len(ds) <= MaxTxns
    /\ job' = j /\ left' = left - 1
    /\ UNCHANGED <<ds, queued, mem, out, trunced, leaky>>

StartCallback ==
    \/ \E j \in TreeJobs : Start(j)
    \/ \E i \in Files(Latest) : Start(OpenTrunc(i)) \/ \E j \in FileJobs(i) : Start(j)
    \/ Start(OnTree(fscqSyncDir))

\* What an attempt of atomic-create.c may have left: nothing the next one does
\* not write over.
Leftover(i) ==
    LET ir == Latest.ino[i]
    IN  ir.sz <= BlockSize + 1 /\ ir.sz <= ir.len * BlockSize /\ ir.len <= 2

StartClient ==
    \E dst \in FreeName :
        /\ \A e \in Entry(Latest, dst) : ~e[3]
        /\ \/ \E src \in Files(Latest) :
                Latest.ino[src].len = 1 /\ Latest.ino[src].sz <= BlockSize /\ Start(atomic_cp(src, dst))
           \/ /\ \A e \in Entry(Latest, Tmp) : Leftover(e[2])
              /\ \E v \in Byte : Start(atomic_create(dst, v))
           \/ Entry(Latest, Tmp) = {} /\ \E v \in Byte : Start(testsync(dst, v))

\* Which files have a size and no blocks in a disk, and the ones among them that
\* open has left so: it takes the blocks away before it sets the size.
Uncovered(d) == {i \in Inum : d.ino[i].len = 0 /\ d.ino[i].sz > 0}
Opening == IF Calls("truncate") /\ ~Call[3] THEN {job.fh} ELSE {}
NoteTrunced ==
    trunced' = (trunced \cup Opening) \cap UNION {Uncovered(ds'[k]) : k \in DOMAIN ds'}

Calling ==
    /\ \/ file_truncate \/ file_set_sz \/ write_piece_log \/ write_piece_d \/ fscqWrite
       \/ file_sync \/ tree_sync \/ lookup \/ create \/ delete \/ rename
       \/ copy_block \/ copy_attr
    /\ NoteTrunced
    /\ UNCHANGED <<left, leaky>>

CallingLeaky ==
    /\ mkdir \/ mksock
    /\ leaky' = (leaky \/ ~out'[4])
    /\ NoteTrunced
    /\ UNCHANGED left

\* Each block independently keeps one of its values.
CrashOf(data, U) ==
    {[b \in DOMAIN data |-> Synced(IF b \in U THEN f[b] ELSE data[b].cur)] :
        f \in {g \in [U -> UNION {vsmerge(data[b]) : b \in U}] :
                \A b \in U : g[b] \in vsmerge(data[b])}}
CrashData(data) == CrashOf(data, {b \in DOMAIN data : data[b].old # {}})

\* A crash, AFS.recover, and the recovery of AtomicCp.v.  A direct write, like
\* tree_sync, may be in the middle of a flush.
Crash ==
    /\ \E k \in DOMAIN ds :
        /\ k > 1 => job = Idle \/ Calls("tree_sync") \/ Calls("wdir") \/ Calls("copy_block")
        /\ \E data \in CrashData(ds[k].data) : ds' = <<[ds[k] EXCEPT !.data = data]>>
    /\ queued' = {} /\ mem' = Memstate0 /\ job' = atomic_cp_recover
    /\ leaky' = FALSE /\ out' = <<<<"crash">>>>
    /\ NoteTrunced
    /\ UNCHANGED left

\* umount: everything is flushed and synced; then the next mount.
Umount ==
    /\ job = Idle
    /\ ds' = <<Unmounted(Latest)>>
    /\ queued' = {} /\ mem' = Memstate0
    /\ leaky' = FALSE /\ out' = <<<<"umount">>>>
    /\ NoteTrunced
    /\ UNCHANGED <<job, left>>

Next == StartCallback \/ StartClient \/ Calling \/ CallingLeaky \/ Crash \/ Umount

Spec == Init /\ [][Next]_vars

\* fscqSetFileSize, apart from the rest because of what it breaks.
SetFileSize ==
    \/ \E i \in Files(Latest), r \in Ranges :
        Start(OnFile(i, <<<<"ftruncate", r[1] + r[2]>>>>))
    \/ ftruncate /\ UNCHANGED <<left, trunced, leaky>>
SetFileSizeSpec == Init /\ [][Next \/ SetFileSize]_vars

-----------------------------------------------------------------------------
\* Who has which block of a disk: <<block, inode, place>>, place -1 being that
\* of the indirect block.
DataClaims(d, i) == {<<BnumOf(d, d.ino[i], off), i, off>> : off \in 0 .. d.ino[i].len - 1}
IndClaims(d) == {<<d.ino[i].ind, i, -1>> : i \in {j \in Inum : d.ino[j].ind # 0}}
Claims(d) == IndClaims(d) \cup UNION {DataClaims(d, i) : i \in Inum}

\* In every disk a crash can go back to, each block is free in one of the two
\* bitmaps or has exactly one owner; nothing is lost and no file lacks a block.
BlocksPartitioned ==
    \A k \in DOMAIN ds : LET cs == Claims(ds[k]) IN
        /\ ds[k].bm[TRUE] \cap ds[k].bm[FALSE] = {}
        /\ {c[1] : c \in cs} = Block \ (ds[k].bm[TRUE] \cup ds[k].bm[FALSE])
        /\ \A x, y \in cs : x[1] = y[1] => x = y

\* In every disk a crash can go back to, the inodes in use form a tree: each
\* one but the root has exactly one entry, which can be reached from the root,
\* and names are unique in a directory.
TreeShaped ==
    \A k \in DOMAIN ds : LET es == TreeEnts(ds[k]) IN
        /\ {x[2][2] : x \in es} \cup {Root} = Inum \ ds[k].ibm
        /\ \A x, y \in es :
            x # y => x[2][2] # y[2][2] /\ <<x[1], x[2][1]>> # <<y[1], y[2][1]>>

\* The list is a cached free list of the bitmap: no block of it is in use, and
\* none is missing, unless a mkdir or mksock has failed.
ListsFree(cache, bits) ==
    cache # <<>> =>
        /\ IsInjective(cache[1]) /\ Range(cache[1]) \subseteq bits
        /\ ~leaky => Range(cache[1]) = bits

\* What the caches say of free blocks, inodes and directories is what the next
\* transaction will find on the disk, also after calls that failed half-way.
CachesCoherent ==
    /\ \A al \in BOOLEAN : ListsFree(mem.alc[al], Latest.bm[al])
    /\ ListsFree(mem.ialc, Latest.ibm)
    /\ \A i \in DOMAIN mem.icache : mem.icache[i] = Latest.ino[i]
    /\ \A i \in DOMAIN mem.dcache : mem.dcache[i].m = fill_cache(DirEnts(Latest, i)).m

\* Data of a file that a crash could still undo is known to be dirty, so that
\* file_sync makes all of it durable.
DirtyCoversUnsynced ==
    \A c \in Claims(Latest) :
        c[2] \in Files(Latest) /\ Latest.data[c[1]].old # {} => c[1] \in mem.dirty[c[2]]

\* In every disk a crash can go back to, a file has blocks for all its bytes.
\* The exception is an open with O_TRUNC (fscq.hs:342), which takes the blocks
\* away in one transaction and sets the size in another; a file it has left with
\* a size and no blocks is excepted until that is mended.
SizeCovered ==
    \A k \in DOMAIN ds : \A i \in Files(ds[k]) : LET ir == ds[k].ino[i] IN
        ir.sz <= ir.len * BlockSize \/ i \in trunced \cap Uncovered(ds[k])

\* While a client replaces a file by the write-sync-rename idiom, a crash
\* leaves the old file or all of the new one under its name, also when one of
\* its calls fails.  testsync.c, which goes on after a failed write, may leave an
\* empty file, but only once a call has failed.
ReplacedAtomically ==
    \A n \in DOMAIN job.allow, k \in DOMAIN ds : Views(ds[k], n) \subseteq job.allow[n]

\* ftruncate implements the system call: once it has returned, the file has the
\* size asked for and just the blocks for it, and the others are free again.
FtruncateDone ==
    out # <<>> /\ out[1][1] = "ftruncate" /\ out[4] =>
        /\ Latest.ino[out[2]].sz = out[1][2]
        /\ Latest.ino[out[2]].len = (out[1][2] + BlockSize - 1) \div BlockSize
        /\ {c[1] : c \in Claims(Latest)} = Block \ (Latest.bm[TRUE] \cup Latest.bm[FALSE])

\* Who has each block of a disk, for AltAlloc.
Owner == Inum \X (-1 .. NBlocks - 1)
OwnerTags(d, cs) ==
    [b \in Block |-> IF b \in d.bm[TRUE] THEN <<"free", TRUE>>
                     ELSE IF b \in d.bm[FALSE] THEN <<"free", FALSE>>
                     ELSE <<"used", LET c == CHOOSE c \in cs : c[1] = b IN <<c[2], c[3]>>>>]
Tags(d) == OwnerTags(d, Claims(d))

AA == INSTANCE AltAlloc WITH ds <- [k \in DOMAIN ds |-> Tags(ds[k])], al <- mem.al

\* A block never passes from one place in a file to another while a crash can
\* go back to a disk that knows it in the first place.
ImplementsAltAlloc == AA!ASpec
=============================================================================
