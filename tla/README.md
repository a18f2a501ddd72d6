# FSCQ in TLA+

This directory specifies, model-checks and partly proves the parts of this
repository where ordering, crashes and concurrency decide correctness: the
FSCQ file system (`src/src/`, written in Coq, run by Haskell and C), and the
C file system it is compared with (`src/xv6/`, xv6's file system as a FUSE
server). `PROJECT.json` lists every component, the source lines each
definition stands for, the runs, the hazards and the theorems.

## The system and its parts

FSCQ is a stack. A FUSE request enters a C ring buffer, is picked up by a
Haskell handler thread, and becomes one or more transactions:

    FUSE threads -> opfuse.c -> opqueue.c -> Fuse.hsc -> fscq.hs   (requests)
    AsyncFS.v -> DirTree.v, Dir.v, BFile.v, Inode.v, Balloc.v      (calls, data structures)
    Log.v -> GroupLog.v -> MemLog.v -> DiskLogHash.v               (transactions, logs)
    Cache.v -> AsyncDisk.v -> hslib/Disk.hs                        (cache, disk)

The ring is one of two ways into the server: `useDowncalls` in fscq.hs:49-50 is
`False` ("Disabled by default: seems to be buggy"), and then FUSE threads call into
Haskell themselves. `OpQueue` is about a server built with it on. Either way the
callbacks exclude each other by an MVar, which is all that `Fscq` assumes.

xv6 is the same idea in one process, and single-threaded under FUSE (`-s`):

    fuse.c -> sysfile.c -> file.c, fs.c -> log.c -> bio.c -> ide.c

| Part | State | Operations | What is hard about it |
|---|---|---|---|
| opqueue.c | ring, two counters, spin lock, `done`/`err` of each operation | `execute`, `get_op`, `send_result` | tests outside the lock, operations on the caller's stack, spinning at both ends |
| AsyncDisk.v, Prog.v | for each block the newest and the possible older values | read, write, sync, crash | unsynced writes survive a crash in any combination |
| Cache.v | cached blocks with dirty flags, their count | read, write, sync, end_sync, eviction | eviction before the lookup; which blocks a barrier covers |
| DiskLogHash.v | header with checksums, descriptor and data blocks | extend, trunc, read, recover | one barrier for header and contents; rollback; padding |
| MemLog.v | map of logged blocks in memory | flush, apply, dwrite, dsync, recover | applying before truncating; direct writes beside the log |
| GroupLog.v, Log.v | active transaction, queue, merged map | write, commit, abort, flushall, dwrite, dsync, recover | a crash keeps a prefix; flushes that do not fit merged |
| Balloc.v, Inode.v, BFile.v, Dir.v, DirTree.v | two block allocators and one of inodes, inodes, directory blocks; in memory free lists, inodes, names, dirty blocks | alloc, free, grow, shrink, link, unlink, namei, rename | caches beside the disk; a block written past the log must not change hands while a crash can go back |
| AsyncFS.v, fscq.hs | the memory state of the mount | one transaction per call, several calls per FUSE callback | abort and log-overflow paths; crashes between the calls of a callback |
| AtomicCp.v, bench/atomic-create.c, bench/testsync.c | a temporary file and its target | write, sync, rename, sync, recover | crash between steps over an asynchronous tree |
| xv6 log.c | header, log blocks, `outstanding`, `committing` | begin_op, log_write, end_op, commit, recover | crash in commit, in install or in recovery; space reservation |
| xv6 bio.c, ide.c | buffers with flags in order of use | bread, bwrite, brelse | pinned buffers, recycling |
| xv6 fs.c, sysfile.c, file.c | inodes, inode cache, file table, bitmap, blocks | the FUSE calls | reference and link counts on all failure paths, unlinked open files, transactions left early |

## Modules

`MC*.tla` modules instantiate a specification for TLC and hold no model of
code; `*Proofs.tla` modules hold theorems about the module they are named after.
`FscqTree` is `Fscq` seen as trees, for its refinement of `TreeSeq`.
An abstract module says what a component promises; the detailed module contains
it by `INSTANCE ... WITH` and a run checks it as a `PROPERTY`.

| Module | Models | Promise it is checked against |
|---|---|---|
| `OpQueue` | hslib/opqueue.c, callers in opfuse.c, handler loop in Fuse.hsc | invariants and liveness |
| `AsyncDisk` | AsyncDisk.v, Prog.v, PredCrash.v (operators) | |
| `BufCache` | Cache.v | `VirtualDisk`: an asynchronous disk |
| `DiskLog` | DiskLogHash.v | `AtomicLog`: a list that is extended and emptied atomically |
| `MemLog` | MemLog.v over `AtomicLog` | `AtomicDisk`: a disk with atomic multi-block flushes |
| `TxnLog` | Log.v and GroupLog.v over `AtomicDisk` | `DiskSet`: the sequence of disks a crash may leave |
| `BFile`, `DirTree` (operators) | Balloc.v, Inode.v, BlockPtr.v, BFile.v; Dir.v, DirName.v, DirCache.v, DirTree.v | |
| `AsyncFS`, `Fscq`, `FscqTree` | AsyncFS.v over `DiskSet`'s disks; fscq.hs, AtomicCp.v, clients in bench/ | `TreeSeq`: a sequence of trees a crash may leave; `AltAlloc`: who owns a block in each of them |
| `Xv6Log` | xv6/log.c | `GroupCommit`: calls become durable together and whole |
| `Xv6Bio` | xv6/bio.c and ide.c under the calls and the commit of log.c | invariants |
| `Xv6Inode` (operators), `Xv6Sys` | inodes, directories and paths of xv6/fs.c; sysfile.c; file table of file.c; fuse.c | `NameTree`: a durable tree of names |
| `Xv6Content` (operators), `Xv6File` | block allocator, bmap, readi, writei, itrunc of xv6/fs.c; file.c; truncate; mkfs.c | `ByteFile`: files as arrays of bytes |

The FSCQ modules compose by contract, as the Coq development does: `DiskLog`
runs on the disk that `VirtualDisk` promises, `MemLog` on the log that
`AtomicLog` promises, `TxnLog` on the disk that `AtomicDisk` promises, and
`AsyncFS` on the disks that `DiskSet` promises: a committed transaction adds a
disk, a flush leaves the newest, a direct write changes a block in all of them,
and a crash leaves one of them, with unsynced direct writes in doubt.

### How state and actions correspond to the code

* **OpQueue.** One action per load, store or lock operation of `execute`,
  `get_op` and `send_result`. `pc[t]` is the next statement of a thread, `seen`
  the counter loaded by the test outside the lock. `call[c]` numbers a caller's
  calls, so that a result can be matched with the call it answers.
* **BufCache.** One action per operation: each issues at most one `Write`, and a
  crash loses all of the cache, so nothing is observable in between. `out` is
  the last operation with its result, shared with `VirtualDisk`, so that no
  operation can be passed off as a stuttering step.
* **DiskLog.** Descriptor, data and header writes, each barrier, and each part
  of recovery are steps; `Crash` may come between any two. Hashing is injective:
  the source's semantics ends an execution with a collision.
* **MemLog, TxnLog.** An operation is several steps where the source calls the
  layer below several times (apply, sync, truncate, extend; flush one
  transaction, then the next).
* **Xv6Log.** One step per lock region of log.c and per block copied by
  `write_log` and `install_trans`; the header write is followed by its own flush.
  `Room` is the test of `begin_op`. A call that log_write would stop by a panic is
  cut off by `Crash`.
* **BFile, DirTree.** Functions on the record a running transaction works on: the
  disk it sees, the blocks it has logged, the memory state, the result. Each is
  named after the Coq program and returns the record it leaves, error or not. A
  directory block holds one entry, `<<name, inode, isdir>>`; a file block holds
  bytes. Metadata blocks matter only for the size of a transaction and for
  what is queued (`InoBlk`, `IbmBlk`, `BmBlk`). Block 0 is never handed out.
* **AsyncFS, Fscq.** A call is one action: begin, the work, then commit (a new
  disk in `ds`), abort, or refusal by a full log, with the memory state that each
  path of the source goes on with. `job` holds the calls a FUSE callback or a
  client has yet to make; callbacks hold the MVar, so only a crash comes between
  their calls. `Crash` is followed by AtomicCp.v's recovery. A flush may happen
  between two jobs, so there a crash may keep any of the disks. `leaky` records
  that a mkdir or mksock has failed: they keep the caches of the transaction they
  have aborted (AsyncFS.v:489-518), after which a free list may lack entries until
  the next mount, as `CachesCoherent` allows. `trunced` records the files that an open
  with O_TRUNC, two transactions, has left with a size and no blocks, until no disk
  has them so; they are the exception of `SizeCovered`. mksock sets the new inode's
  type with a second write of the inode, within the same transaction.
  The clients of bench/ differ in what they do when a call fails: atomic-create.c
  exits, and when run again opens the file it has left; testsync.c says so and makes
  the next call, except after a failed open. `todo` is what a client does while its
  calls succeed, `fin` what it does after one has failed, and `lax` what it may then
  leave under the target's name: for testsync.c, whose write may have failed, an
  empty file.
* **TreeSeq.** `out`, the call made last, is shared with the detailed module, so that
  each call must have its own effect.
* **Xv6Bio.** One action per bread, log_write and brelse of a call, and one per half
  round of the loops of commit(), interleaved with readers. A step on which the
  code would panic is not taken; `NeverPanics` says that there is none.
* **Xv6Sys.** The server is single-threaded, so a callback is one action. It runs
  the call on a record of all state, by operators named after the C functions,
  every error path and reference count included. `Then(r, LAMBDA x : ...)` is
  the sequencing of C: `r` is computed, and the rest goes on with it as `x`.
  Where a function goes on for long, its tail after a lock or a lookup has an
  operator of its own (`UnlinkIn`, `LinkTo`, `Step`). A panic is `exit(-1)`: the
  image keeps only committed transactions (`disk`), as `Xv6Log` guarantees.
  `Remount` is a crash or stop between calls and a new start.
* **Xv6File.** One action per transaction, so a crash falls between the pieces of
  a large write. `beyond` is the word of memory after `addrs`, where bmap keeps
  the double-indirect address although `struct inode` has no room for it: the `dev`
  of the next entry of the inode cache. One file is open at a time, so that entry
  is not in use and nothing but bmap changes the word.
  Images are those mkfs writes, with host files. A piece of a write has the size of
  file.c:135, in which `SECTOR` is the 512 the code takes for the size of a block;
  log and operations are as large as param.h makes them relative to each other
  (`LOGSIZE` is three times `MAXOPBLOCKS`). `Spilled` is where the model
  ends: a block of the log has been given to a file.

## Runs

All runs are exhaustive within their bounds.

| Run | Instance | Shows |
|---|---|---|
| `opqueue` | 2 callers, 2 handlers, 1 slot, 2 calls each; weak fairness per thread | no lost, doubled or misdirected operation, no use of a caller's frame after it has returned; every request returns |
| `bufcache` | 3 blocks, 2 values, cache of 2 | clean blocks agree with the device; implements `VirtualDisk` |
| `disklog` | 3 addresses, 2 descriptor blocks of 2 | durable on return, refused only when full; implements `AtomicLog`, crashes included |
| `memlog` | 3 blocks, 2 values, log of 2 | nothing truncated before it is durable at home, reads see the newest value; implements `AtomicDisk` |
| `txnlog` | 2 blocks, log of 1, queue of 2 | no flush fails unnoticed, reads see the newest value; implements `DiskSet` |
| `fscq` | 8 blocks of 2 bytes, 4 inodes, 1 direct and 2 indirect pointers, log of 5 blocks, 3 jobs, up to 2 unflushed transactions when a job starts | on every disk a crash can go back to, blocks and inodes are accounted for and the tree is a tree; caches and dirty sets agree with the newest; files are replaced atomically by copy or write, sync, rename; implements `AltAlloc` and `TreeSeq` |
| `fscq_ftruncate` | the same, with FUSE's truncate | **violation**: ftruncate leaves a file without blocks for its size, or blocks without an owner |
| `xv6log` | 2 calls, 3 blocks, LOGSIZE 4, MAXOPBLOCKS 2; weak fairness of commit, recovery and end_op | durable when quiet; implements `GroupCommit`; begin_op never waits for good on a full log or a commit |
| `xv6bio` | a writer, a reader, MAXOPBLOCKS 2 and the fewest buffers the assumption admits | no pinned update forgotten, the log complete when its header commits, no panic for want of buffers or log space |
| `xv6sys` | 3 inodes, cache of 3, 2 open files, 4 paths | link counts, reference counts, cache coherence, open unlinked files, only the known panics; implements `NameTree` |
| `xv6file` | root and 2 files, 7 data and 5 log blocks of 4 bytes, 1 direct address and 1 indirect, MAXOPBLOCKS 6; an image with one host file and one with two, whose entries exactly fill the root | blocks owned once, log budget, no panic but readdir's of the full root; implements `ByteFile` |
| `xv6file_big` | a write into the double-indirect range | **violation**: the bytes are gone when the inode is read again |

The violations are the `findings` of `PROJECT.json`, each with the line of the
repository that says otherwise. More limits of the code show in the models
without a run of their own:

* GroupLog's flushall writes queued transactions one by one when together they
  exceed the log. A crash then keeps some of them, although fscq.hs:498-500 says
  of the transactions of an append that "FSCQ never breaks up the log". `Fscq`
  lets a crash keep any prefix; `SizeCovered` holds nevertheless, because the
  size is set last.
* A rename in xv6 whose source is missing or is a directory ends its transaction
  twice (sysfile.c:288, 295 and 336). `outstanding` becomes -1, and the next
  call that logs a block panics; `OnlyKnownPanics` names that panic.
* Two or more concurrent calls within MAXOPBLOCKS can reach log_write's panic,
  because begin_op reserves against LOGSIZE and log_write checks against
  `size - 1`. `NeverPanics` is about one writer at a time, as under FUSE; with two
  writers TLC finds the panic.
* balloc looks for free blocks up to `sb.size`, past the data blocks, and mkfs marks
  no log block used: a full disk gives log blocks to files before it panics with
  "out of blocks". The model ends with the call that does so.
* mkfs rounds the root's size up to one block more than needed when the entries
  exactly fill a block. readdir then makes bmap allocate outside of a transaction
  and panics. The second image of `xv6file` has such a root, and `PanicsOnlyPastRoot`
  names this panic as the only one.
* A rename in xv6 removes the destination before it looks at the source (sysfile.c:329),
  so that a failing rename loses a file. `NameTree` describes that; nothing objects.
* In FSCQ, bytes behind the end of a file, left in its last block by an append that was
  interrupted before it set the size, may be seen when the file grows later. `TreeSeq`
  lets a partial write find them (`Around`).
* FSCQ's mkdir and mksock keep the caches also when the log refuses their transaction
  (AsyncFS.v:501, 516). Only a log of fewer than five entries refuses one, and one
  descriptor block has room for 512; with four entries, TLC finds `CachesCoherent`
  violated by the name of a directory that does not exist.
* An open with O_TRUNC that a crash cuts in two leaves a file with a size and no
  blocks; `SizeCovered` excepts that file.
* A file that is unlinked and still open when the process ends is never freed.
  `OrphansHeld` names these inodes (`lost`) as its only exception.
* Filling the hole before a write beyond the end of a file is one transaction of
  any size. `LogBudget` leaves out this transaction, as the source's own XXX
  comment does.

**Why the bounds are enough.** Each is the least at which the interesting case
happens. One slot makes both the full and the empty ring contended by two
threads on each side. Two descriptor blocks and lists of one to three entries
give padding inside and at the end of the log. A log of one or two entries lets
a flush fit, fit after an apply, or never fit. A cache smaller than the disk
forces evictions. Three inodes with two names and depth two allow an unlinked
open file beside a new one, a directory with a child, a rename over an existing
name, and running out of inodes. Eight blocks in two allocators run out within
two jobs; a log of five blocks takes every call on the tree and refuses to let an
empty file grow to three blocks at once; three jobs allow delete, sync and reuse of
the same block, or a client before or after another. The clients write one byte or
one block and a byte, enough for one and for two blocks; testsync.c starts when
its temporary name is free, atomic-create.c also on a file that it would write over as
a whole, as an earlier attempt leaves it. In `xv6file`, a write of ten bytes takes two
pieces (`MaxWrite` is 7) and crosses from the direct to the indirect address; a
piece is counted in units of 512 bytes though a block has 4096, and here in units of one
byte though a block has four. A piece without the halving already breaks `LogBudget`.
`MaxCalls`, `MaxJobs`, `MaxTxns`, `MaxEnd` and `MaxUnbalanced` bound counters that the code
does not bound; each appears in one guard only. `MaxUnbalanced` stops the
repeated failing renames that drive `outstanding` down without end.

**Symmetry and views.** Symmetry is used in safety runs only, over sets whose elements
no definition tells apart. `MCXv6Sys`, `MCXv6File` and `MCFscq` leave the last reply
(`ret`, `out`) out of the fingerprint (`VIEW`): no action reads it, so states that differ in it have
the same successors (`MCXv6File` leaves out what free blocks hold, too: balloc zeroes
a block before anybody reads it), and TLC evaluates the refinement on every transition,
including those into a state it already knows. In `MCFscq` the names of the
callbacks are symmetric.

**Fairness.** `opqueue` assumes weak fairness of each thread's next statement:
FUSE and handler threads are scheduled by the operating system and nothing in
the code suspends them. A thread that finds the lock taken retries; weak fairness
does not promise it the lock, and liveness holds nevertheless because calls are
finitely many (`MaxCalls`). New calls are not fair: a client may stop calling.
`xv6log` assumes that the thread inside commit or recovery goes on, and that a call in
progress comes to its end_op: the calls are C functions without unbounded loops.
`RoomReturns` speaks of behaviours in which crashes eventually stop, as a crash may
cut off every commit. It says that there is room for a call again and again, not that
each of several waiting callers gets it: wakeup wakes all of them and the lock decides.
Every other specification is a safety specification.

## Proofs

Proved with TLAPS for every value of the constants that satisfies the named
assumptions of the component's module.

* **`OpQueueProofs`** (any sets of threads, any ring size, any number of calls):
  `QueueTyped`, `RingNeverOverflows`, `CallsGetTheirAnswer`,
  `OperationsOutliveTheirUse`, `NoLossNoDuplicate`. None of these is inductive:
  that the ring is not over-full depends on what a thread has tested under the
  lock, and that an operation has one home on no two live slots naming it.
  The invariant `IInv` adds: the lock's holder is exactly the thread between
  lock and unlock (`LockInv`); the second test still holds at the stores it
  guards (`CheckInv`); live slots hold different operations in flight
  (`QueueInv`); a handler's operation is in no slot and with no other handler
  (`HoldInv`); an operation in flight is somewhere (`NotLost`); `done` and `err`
  belong to the current call (`ResultInv`). The arithmetic is `SlotsDiffer`:
  counters less than the ring size apart name different slots. There is one
  lemma per action.
* **`BufCacheProofs`** (any disk, any values, any cache size): `CacheInvariant`,
  `CacheBounded`, and `CacheImplementsDisk`, the refinement of `VirtualDisk`.
  The refinement mapping overlays dirty cached values on the device. The key
  lemmas say that write-back and eviction leave this virtual disk unchanged
  (`WritebackGood`, `RemoveGood`, `EvictGood`); each operation then maps to its
  abstract counterpart, and a crash of the device picks values that the virtual
  disk allows (`CrashPicks`, `CrashMay`).
* **`DiskLogProofs`** (any addresses and values, any size of descriptor blocks and of
  the log, any lists of entries): `LogDurable`, `LogRefusesOnlyWhenFull` and
  `CrashSettles`. The invariant says for each header that may be on disk what recovery
  makes of it. A header in force names blocks that have one possible value each and
  match its checksum (`InForce`), so no crash changes what it stands for
  (`CrashKeeps`). The header of an extension either matches, and then recovery finds
  the whole new log, or leads back to the one in force (`Committing`); a rollback that
  is cut off finds the same log again (`Recovering`). `HashIsBlocks` says that carrying
  the checksum on over the new blocks is hashing the whole log, `FitsIff` that rounding
  to descriptor blocks is what avail counts.
* **`MemLogProofs`** (any disk, any values, any log size that is a multiple of the
  entries of a descriptor block): `ApplyIsSafe`, `MemLogReads`, and
  `MemLogImplementsAtomicDisk`, the refinement of `AtomicDisk`. The mapping overlays
  the log on the blocks at home. `Modes` says what each step of an operation may
  count on: before the sync of apply every logged block is written home, a flush that
  extends fits or has emptied the log, a direct write finds none of its blocks in the
  log. `Charged` says that the space left is a whole number of descriptor blocks;
  without it, rounding up could take more than is left (`RoundedFits`).
* **`TxnLogProofs`** (any disk, any log size, any queue): `FlushAlwaysFits`,
  `TxnLogReads`, and `TxnLogImplementsDiskSet`, the refinement of `DiskSet`. The
  disks of `DiskSet` are a recursion over the queue. That it has one and only one
  solution follows from the least number at which it would fail (`Least`,
  `AfterExists`, `ChainUnique`); the disks after a step are then any sequence that
  satisfies the recursion (`Chain`). `MergedMap` is what makes flushing the merged
  map the same as flushing the queue in order: replaying it gives the newest disk,
  and it has the blocks of every queued transaction. A direct write commutes with
  the replay of what is queued because it flushes first when they share a block
  (`DirectCommutes`).
* **`Xv6LogProofs`** (any finite set of calls, any blocks, any log size):
  `LogCommitsAlone`, `LogDurableWhenQuiet`, and `LogImplementsGroupCommit`, the
  refinement of `GroupCommit`. `Recoverable` is the heart: whichever of its possible
  values the header has after a crash, recovery from it yields the durable disk, or
  while the committing header is being written, the one the calls see, because log
  blocks it names and home blocks it does not name have one possible value each.
  `HeadInv`, `CallInv` and `TransInv` say what the header, the calls and the
  transaction in memory are at each step of commit and of recovery.
* **`Xv6BioProofs`** (any number of buffers, blocks and threads): `Latest`, `Complete` and
  `Panics`. The order of the list plays no part: a cache is the sectors it holds and
  the buffer of each, and an operation of bio.c changes the buffer of one sector and
  drops at most one that may be recycled (`Puts`). `DirtyInv` says that the dirty
  buffers are exactly those of the blocks in `lh` that install_trans has not reached,
  and that clean ones agree with the disk; with it, recycling loses nothing.
  `CopyInv` says which log blocks write_log has filled. These hold for any number of
  writers. `Panics` assumes one writer at a time (`OneWriter`), as in the FUSE build:
  begin_op reserves space against LOGSIZE and log_write tests against LOGSIZE - 1, so
  that several calls, each within MAXOPBLOCKS, can reach the panic. Its argument is a
  count. If bget found no buffer, each of the NBUF buffers would be pinned or busy, with
  different sectors; but at most MAXOPBLOCKS are pinned (`OpInv`), the writer or commit()
  holds at most two, and each reader one (`HoldInv`).
* **`AltAllocProofs`** (any blocks, any owners): `AltAllocSafe`. Blocks are taken from
  one allocator and freed to the other, and the two change roles only at a flush
  (README.dwrite:2-3 states the invariant). Then whoever has a block now is the only
  one a crash can find it with. `Stable` adds that what the current allocator hands
  out was free in every disk. The run `fscq` checks `ImplementsAltAlloc`, which says
  that the file system's own use of blocks is such a behaviour.

The assumptions are the layout and size assumptions of each module (sizes are not
zero, a log is a whole number of descriptor blocks, there are buffers for a call, a
commit and the readers), that disks and sets of calls and readers are finite, and that
the log's blocks are not the file system's.

Only model-checked:

* liveness, since fairness is out of the prover's reach;
* that reading `DiskLog` back gives the entries appended (`ImplementsAtomicLog`): the
  padding is skipped with `SelectSeq`, a recursive definition;
* all properties of `Fscq`. A step of it is a whole call, in which grow, shrink, link,
  delete and rename and their failures are nested; the case analysis that keeps an
  inductive invariant through all of them is too long a proof to keep checked. That a
  tree stays one through rename is an induction over it besides, and which inodes are
  files, and under which name, is written nowhere but in the tree;
* `Xv6Sys` and `Xv6File`, whose invariants have no proof: link and reference counts
  are cardinalities over all entries and handles, paths and the pieces of a write are
  recursive functions, and the calls pass their tails on as `LAMBDA` arguments, which
  multiplies the cases of every error path in one obligation.

## Not modelled

* Logic, tactics and predicates of the Coq proofs: nothing of it runs.
* `DiskLog.v`, `Lock.v`, the byte files, the examples: not part of the extracted file
  system.
* The OCaml front end: it is written against a module `FS` that the repository no
  longer has, so there is no program to model.
* Double and triple indirect blocks of FSCQ's inodes: they repeat the code of the
  single one, and a file that needs them is out of TLC's reach.
* Extraction, scripts and the other programs of bench/: they build or measure the
  same code, and the calls they make are among those that `Fscq` makes in any order.
* Marshalling in opfuse.c, Fuse.hsc and Rec.v beyond the packing that DiskLog uses.
* The statistics files of both servers, device inodes and pipes (pipe.c only panics);
  times and permissions of inodes.
* Overflow of opqueue.c's `int` counters, which takes 2^31 requests, and of xv6's
  `uint` offsets, since a file of xv6 ends long before.
