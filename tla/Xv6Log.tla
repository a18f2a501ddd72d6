------------------------------- MODULE Xv6Log -------------------------------
(***************************************************************************)
(* The redo log of xv6 (log.c) over a disk that loses unflushed writes in  *)
(* any combination (ide.c: pwrite and fsync on the image).  Calls bracket  *)
(* their updates with begin_op and end_op; the last one out commits.       *)
(*                                                                         *)
(* Each lock region of log.c is one step.  The FUSE build defines acquire, *)
(* release, sleep and wakeup as empty (spinlock.c) and runs one thread     *)
(* (-s), which is the instance with one process; more processes are the    *)
(* concurrency the code is written for.  A buffer that is not dirty equals *)
(* its block on disk, so only dirty buffers are kept here; the cache       *)
(* itself is Xv6Bio.  In write_head the first ideflush and the write are   *)
(* one step: stopping between them leaves nothing new.                     *)
(***************************************************************************)
EXTENDS Integers, Sequences, FiniteSets, AsyncDisk

CONSTANTS
    Proc,         \* threads making file system calls
    Block,        \* data blocks
    Val,          \* their contents
    MAXOPBLOCKS,  \* blocks a call may write
    LOGSIZE       \* blocks begin_op counts on

ASSUME SizeAssumption ==
    MAXOPBLOCKS \in Nat \ {0} /\ LOGSIZE \in Nat /\ MAXOPBLOCKS + 2 <= LOGSIZE
ASSUME ProcAssumption == IsFiniteSet(Proc)

VARIABLES
    home,         \* data blocks on disk
    logblock,     \* log blocks on disk
    head,         \* the header block: the sectors of a committed transaction
    dirty,        \* buffers written and not yet installed: block -> contents
    sector,       \* thelog.lh: sectors of the current transaction
    outstanding,  \* calls in progress
    committing,   \* commit() is running
    pc,           \* where each process is
    wrote,        \* blocks each call has written
    step, tail    \* progress of commit() or of recovery

disk == <<home, logblock, head>>
vars == <<home, logblock, head, dirty, sector, outstanding, committing, pc, wrote, step, tail>>

\* thelog.size, from the superblock: mkfs sets nlog to LOGSIZE, and the first of
\* these blocks is the header.
size == LOGSIZE
LogIdx == 1 .. size - 1

\* mkfs and initlog have left an empty log.
Init ==
    /\ \E f \in [Block -> Val] : home = [b \in Block |-> Synced(f[b])]
    /\ \E v \in Val : logblock = [i \in LogIdx |-> Synced(v)]
    /\ head = Synced(<<>>)
    /\ dirty = <<>> /\ sector = <<>>
    /\ outstanding = 0 /\ committing = FALSE
    /\ pc = [p \in Proc |-> "out"]
    /\ wrote = [p \in Proc |-> {}]
    /\ step = "none" /\ tail = 0

\* The contents of a block that bread returns.
Current(b) == IF b \in DOMAIN dirty THEN dirty[b] ELSE home[b].cur

\* initlog is running; no call is served before it returns.
Recovering == step \in {"read", "rinstall", "rclear", "rflush"}

-----------------------------------------------------------------------------
\* begin_op: waits for a commit, and for log space for one more call.
Room == ~committing /\ ~Recovering /\ Len(sector) + (outstanding + 1) * MAXOPBLOCKS <= LOGSIZE
begin_op(p) ==
    /\ pc[p] = "out" /\ Room
    /\ outstanding' = outstanding + 1
    /\ pc' = [pc EXCEPT ![p] = "op"]
    /\ wrote' = [wrote EXCEPT ![p] = {}]
    /\ UNCHANGED <<disk, dirty, sector, committing, step, tail>>

\* The condition on which log_write panics with "too big a transaction"; a panic
\* ends the process, which is a Crash.
TooBig == Len(sector) >= LOGSIZE \/ Len(sector) >= size - 1

\* A call changes a buffer and hands it to log_write, which absorbs a second
\* write of the same block.  A call writes at most MAXOPBLOCKS blocks.
log_write(p, b, v) ==
    /\ pc[p] = "op"
    /\ Cardinality(wrote[p] \cup {b}) <= MAXOPBLOCKS
    /\ ~TooBig
    /\ dirty' = [c \in DOMAIN dirty \cup {b} |-> IF c = b THEN v ELSE dirty[c]]
    /\ sector' = IF \E i \in DOMAIN sector : sector[i] = b THEN sector
                                                           ELSE Append(sector, b)
    /\ wrote' = [wrote EXCEPT ![p] = @ \cup {b}]
    /\ UNCHANGED <<disk, outstanding, committing, pc, step, tail>>

\* end_op: the last call out runs commit(), which has nothing to do when
\* nothing was logged.
end_op(p) ==
    /\ pc[p] = "op"
    /\ pc' = [pc EXCEPT ![p] = "out"]
    /\ outstanding' = outstanding - 1
    /\ IF outstanding = 1 /\ sector # <<>>
       THEN committing' = TRUE /\ step' = "wlog"
       ELSE UNCHANGED <<committing, step>>
    /\ tail' = 0
    /\ UNCHANGED <<disk, dirty, sector, wrote>>

-----------------------------------------------------------------------------
\* write_log: one block of the transaction to the log.
write_log ==
    /\ step = "wlog" /\ tail < Len(sector)
    /\ logblock' = [logblock EXCEPT ![tail + 1] = WriteTo(@, Current(sector[tail + 1]))]
    /\ tail' = tail + 1
    /\ UNCHANGED <<home, head, dirty, sector, outstanding, committing, pc, wrote, step>>

\* Mutant: the log blocks are not flushed before the header is written.
write_head_unflushed(from, to) ==
    /\ step = from /\ step' = to
    /\ head' = WriteTo(head, sector)
    /\ UNCHANGED <<home, logblock, dirty, sector, outstanding, committing, pc, wrote>>

\* write_head, to its bwrite: what was written before is flushed first.
write_head(from, to) ==
    /\ step = from /\ step' = to
    /\ home' = sync_mem(home) /\ logblock' = sync_mem(logblock)
    /\ head' = WriteTo(sync_addr(head), sector)
    /\ UNCHANGED <<dirty, sector, outstanding, committing, pc, wrote>>

\* write_head, its second ideflush.
flush_head(from, to) ==
    /\ step = from /\ step' = to
    /\ home' = sync_mem(home) /\ logblock' = sync_mem(logblock) /\ head' = sync_addr(head)
    /\ UNCHANGED <<dirty, sector, outstanding, committing, pc, wrote>>

\* install_trans: one block of the log to its home; the buffer is clean then.
install_trans(at) ==
    /\ step = at /\ tail < Len(sector)
    /\ LET b == sector[tail + 1] IN
       /\ home' = [home EXCEPT ![b] = WriteTo(@, logblock[tail + 1].cur)]
       /\ dirty' = [c \in DOMAIN dirty \ {b} |-> dirty[c]]
    /\ tail' = tail + 1
    /\ UNCHANGED <<logblock, head, sector, outstanding, committing, pc, wrote, step>>

\* commit(): the header is written once the whole log is, and commits.
CommitHead == tail = Len(sector) /\ write_head("wlog", "whead") /\ UNCHANGED tail
Committed == flush_head("whead", "install") /\ tail' = 0

\* lh.n = 0, once everything is installed.
ClearLh(at, to) ==
    /\ step = at /\ tail = Len(sector)
    /\ step' = to /\ sector' = <<>> /\ tail' = 0
    /\ UNCHANGED <<disk, dirty, outstanding, committing, pc, wrote>>

EraseHead == write_head("clear", "wclear") /\ UNCHANGED tail

\* Mutant: the erased header is not flushed.
ErasedUnflushed ==
    /\ step = "wclear" /\ step' = "none"
    /\ committing' = FALSE
    /\ UNCHANGED <<disk, dirty, sector, outstanding, pc, wrote, tail>>

\* Mutant: end_op does not reset thelog.committing.
ErasedStillCommitting ==
    /\ step = "wclear" /\ step' = "none"
    /\ home' = sync_mem(home) /\ logblock' = sync_mem(logblock) /\ head' = sync_addr(head)
    /\ UNCHANGED <<dirty, sector, outstanding, committing, pc, wrote, tail>>

\* The log is erased and commit() returns to end_op.
Erased ==
    /\ step = "wclear" /\ step' = "none"
    /\ home' = sync_mem(home) /\ logblock' = sync_mem(logblock) /\ head' = sync_addr(head)
    /\ committing' = FALSE
    /\ UNCHANGED <<dirty, sector, outstanding, pc, wrote, tail>>

-----------------------------------------------------------------------------
\* A crash at any step, of recovery too; the program starts over.
Crash ==
    /\ home' \in possible_crash(home)
    /\ logblock' \in possible_crash(logblock)
    /\ \E h \in vsmerge(head) : head' = Synced(h)
    /\ dirty' = <<>> /\ sector' = <<>>
    /\ outstanding' = 0 /\ committing' = FALSE
    /\ pc' = [p \in Proc |-> "out"]
    /\ wrote' = [p \in Proc |-> {}]
    /\ step' = "read" /\ tail' = 0

\* initlog, recover_from_log: read_head, install_trans, an empty header.
read_head ==
    /\ step = "read" /\ step' = "rinstall"
    /\ sector' = head.cur
    /\ UNCHANGED <<disk, dirty, outstanding, committing, pc, wrote, tail>>

RecoverErase == write_head("rclear", "rflush") /\ UNCHANGED tail
Recovered == flush_head("rflush", "none") /\ UNCHANGED tail

Next ==
    \/ \E p \in Proc : begin_op(p) \/ end_op(p)
    \/ \E p \in Proc, b \in Block, v \in Val : log_write(p, b, v)
    \/ write_log \/ CommitHead \/ Committed \/ install_trans("install")
    \/ ClearLh("install", "clear") \/ EraseHead \/ Erased
    \/ Crash
    \/ read_head \/ install_trans("rinstall") \/ ClearLh("rinstall", "rclear")
    \/ RecoverErase \/ Recovered

\* The thread that runs commit() or recovery keeps running, and a call in
\* progress ends.
Background ==
    \/ write_log \/ CommitHead \/ Committed \/ install_trans("install")
    \/ ClearLh("install", "clear") \/ EraseHead \/ Erased
    \/ read_head \/ install_trans("rinstall") \/ ClearLh("rinstall", "rclear")
    \/ RecoverErase \/ Recovered

Spec == Init /\ [][Next]_vars
FairSpec == Spec /\ WF_vars(Background) /\ \A p \in Proc : WF_vars(end_op(p))

-----------------------------------------------------------------------------
\* The counter end_op decides on is the number of calls in progress, and none
\* is in progress during a commit ("the logging system only commits when there
\* are no FS system calls active", log.c:14-15).
CommitsAlone ==
    /\ outstanding = Cardinality({p \in Proc : pc[p] = "op"})
    /\ committing => outstanding = 0

\* Block contents a crash would leave, after recovery.
Durable ==
    [b \in Block |->
        IF step # "whead" /\ \E i \in DOMAIN head.cur : head.cur[i] = b
        THEN logblock[CHOOSE i \in DOMAIN head.cur : head.cur[i] = b].cur
        ELSE home[b].cur]

\* When the last call has returned from end_op all updates are durable.
DurableWhenQuiet ==
    step = "none" /\ outstanding = 0 =>
        /\ dirty = <<>> /\ head = Synced(<<>>)
        /\ \A b \in Block : home[b].old = {}

G == INSTANCE GroupCommit WITH
        vis <- IF Recovering THEN Durable ELSE [b \in Block |-> Current(b)],
        dur <- Durable,
        active <- {p \in Proc : pc[p] = "op"}

\* No crash, at any step of a commit or of an earlier recovery, leaves part of
\* a call on disk or undoes a committed one.
ImplementsGroupCommit == G!GSpec

\* begin_op never waits for good (log.c:134-145): once crashes stop, whatever
\* the calls in progress have filled the log with, a moment comes when one more
\* call fits and no commit or recovery is running.
RoomReturns == <>[][~Crash]_vars => (~Room ~> Room)
=============================================================================
