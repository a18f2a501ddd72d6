------------------------------- MODULE TxnLog -------------------------------
(***************************************************************************)
(* Transactions and group commit (Log.v over GroupLog.v) on top of the     *)
(* atomic disk of the in-memory log.  A commit only queues the transaction *)
(* in memory; flushall writes the queue out, merged into one atomic flush  *)
(* when it fits in the log and otherwise one transaction at a time.        *)
(*                                                                         *)
(* The disk below is AtomicDisk: MLog.flush is atomic and MLog.apply does  *)
(* not show, which makes flushsync the same as flushall here.  The queue   *)
(* is kept oldest first (the source conses onto it).  Recovery empties all *)
(* the maps, as the crash has done already.                                *)
(***************************************************************************)
EXTENDS Integers, Sequences, FiniteSets, AsyncDisk

CONSTANTS
    Addr,     \* blocks
    Val,      \* their contents
    LogLen,   \* entries one flush can have
    MaxTxns   \* bound: transactions queued

ASSUME LenAssumption == LogLen \in Nat \ {0} /\ MaxTxns \in Nat
ASSUME FiniteAssumption == IsFiniteSet(Addr)

VARIABLES
    d,          \* the atomic disk
    MSTxn,      \* writes of the active transaction
    MSVMap,     \* all queued transactions merged
    MSTxns,     \* the queue
    k,          \* queued transactions already flushed by flushall_nomerge
    pc,         \* step of the operation under way
    dw,         \* the direct write waiting for a flush
    ret         \* the operation that returned last, and how

vars == <<d, MSTxn, MSVMap, MSTxns, k, pc, dw, ret>>

Maps == UNION {[S -> Val] : S \in SUBSET Addr}

replay_mem(m, l) ==
    [a \in DOMAIN m \cup DOMAIN l |-> IF a \in DOMAIN m THEN m[a] ELSE l[a]]
replay_disk(m, disk) ==
    [a \in Addr |-> IF a \in DOMAIN m THEN Synced(m[a]) ELSE disk[a]]
Size(m) == Cardinality(DOMAIN m)

NoDwrite == [m |-> <<>>, drop |-> {}]

\* The direct write of a set of blocks on the disk below.
DirectWrite(avs, disk) ==
    [a \in Addr |-> IF a \in DOMAIN avs THEN WriteTo(disk[a], avs[a]) ELSE disk[a]]

Init ==
    /\ \E f \in [Addr -> Val] : d = [a \in Addr |-> Synced(f[a])]
    /\ MSTxn = <<>> /\ MSVMap = <<>> /\ MSTxns = <<>>
    /\ k = 0
    /\ pc = "idle" /\ dw = NoDwrite
    /\ ret = <<"init">>

-----------------------------------------------------------------------------
\* LOG.write
Write(a, v) ==
    /\ pc = "idle"
    /\ MSTxn' = replay_mem([b \in {a} |-> v], MSTxn)
    /\ ret' = <<"write">>
    /\ UNCHANGED <<d, MSVMap, MSTxns, k, pc, dw>>

\* LOG.abort, and commit_ro for transactions that only read.
Abort ==
    /\ pc = "idle"
    /\ MSTxn' = <<>>
    /\ ret' = <<"abort">>
    /\ UNCHANGED <<d, MSVMap, MSTxns, k, pc, dw>>

\* Mutant: submit takes transactions of any size.
CommitAnySize ==
    /\ pc = "idle" /\ Len(MSTxns) < MaxTxns
    /\ MSTxn' = <<>>
    /\ ret' = <<"committed">>
    /\ MSTxns' = Append(MSTxns, MSTxn)
    /\ MSVMap' = replay_mem(MSTxn, MSVMap)
    /\ UNCHANGED <<d, k, pc, dw>>

\* Mutant: the merged map lets earlier transactions win.
CommitMergesBackwards ==
    /\ pc = "idle" /\ Len(MSTxns) < MaxTxns
    /\ MSTxn' = <<>>
    /\ \/ /\ Size(MSTxn) <= LogLen
          /\ MSTxns' = Append(MSTxns, MSTxn)
          /\ MSVMap' = replay_mem(MSVMap, MSTxn)
          /\ ret' = <<"committed">>
       \/ /\ Size(MSTxn) > LogLen
          /\ ret' = <<"refused">>
          /\ UNCHANGED <<MSTxns, MSVMap>>
    /\ UNCHANGED <<d, k, pc, dw>>

\* LOG.commit: GLog.submit refuses what no flush could take; the active
\* transaction ends either way.  should_flushall is extracted as False.
Commit ==
    /\ pc = "idle" /\ Len(MSTxns) < MaxTxns
    /\ MSTxn' = <<>>
    /\ \/ /\ Size(MSTxn) <= LogLen
          /\ MSTxns' = Append(MSTxns, MSTxn)
          /\ MSVMap' = replay_mem(MSTxn, MSVMap)
          /\ ret' = <<"committed">>
       \/ /\ Size(MSTxn) > LogLen
          /\ ret' = <<"refused">>
          /\ UNCHANGED <<MSTxns, MSVMap>>
    /\ UNCHANGED <<d, k, pc, dw>>

\* flushall: one flush of the merged map if it fits, else one per transaction.
FlushStart == IF Size(MSVMap) <= LogLen THEN "merge" ELSE "each"

\* LOG.flushall, flushsync and their noop variants.
Flushall ==
    /\ pc = "idle" /\ pc' = FlushStart
    /\ UNCHANGED <<d, MSTxn, MSVMap, MSTxns, k, dw, ret>>

\* The flush the operation under way hands to MLog.flush, whose result
\* flushall does not look at.
FlushArg == IF pc = "merge" THEN MSVMap ELSE MSTxns[k + 1]

Flushed(m) == IF Size(m) <= LogLen THEN replay_disk(m, d) ELSE d

\* The queue is empty, and a direct write that waited for it proceeds.
FlushDone ==
    /\ MSVMap' = <<>> /\ MSTxns' = <<>> /\ k' = 0
    /\ pc' = IF dw = NoDwrite THEN "idle" ELSE "dwrite"
    /\ ret' = <<"flushed">>

FlushMerged ==
    /\ pc = "merge"
    /\ d' = Flushed(FlushArg)
    /\ FlushDone
    /\ UNCHANGED <<MSTxn, dw>>

\* Mutant: the loop takes the newest transaction first.
FlushEachNewestFirst ==
    /\ pc = "each" /\ k < Len(MSTxns)
    /\ d' = Flushed(MSTxns[Len(MSTxns) - k])
    /\ k' = k + 1
    /\ UNCHANGED <<MSTxn, MSVMap, MSTxns, pc, dw, ret>>

\* flushall_nomerge: the loop from the oldest transaction on.
FlushEach ==
    /\ pc = "each" /\ k < Len(MSTxns)
    /\ d' = Flushed(FlushArg)
    /\ k' = k + 1
    /\ UNCHANGED <<MSTxn, MSVMap, MSTxns, pc, dw, ret>>

FlushEachDone ==
    /\ pc = "each" /\ k = Len(MSTxns)
    /\ FlushDone
    /\ UNCHANGED <<d, MSTxn, dw>>

-----------------------------------------------------------------------------
\* LOG.dwrite of one block, which the active transaction forgets, or
\* dwrite_vecs, after which it has forgotten everything.  Queued transactions
\* that wrote one of the blocks are flushed first.
Dwrite(avs, single) ==
    /\ pc = "idle" /\ avs # <<>>
    /\ single => Size(avs) = 1
    /\ dw' = [m |-> avs, drop |-> IF single THEN DOMAIN avs ELSE Addr]
    /\ pc' = IF DOMAIN avs \cap DOMAIN MSVMap = {} THEN "dwrite" ELSE FlushStart
    /\ UNCHANGED <<d, MSTxn, MSVMap, MSTxns, k, ret>>

\* dwrite', dwrite_vecs'
DwriteDisk ==
    /\ pc = "dwrite" /\ pc' = "idle"
    /\ d' = DirectWrite(dw.m, d)
    /\ MSTxn' = [b \in DOMAIN MSTxn \ dw.drop |-> MSTxn[b]]
    /\ dw' = NoDwrite
    /\ ret' = <<"dwrite">>
    /\ UNCHANGED <<MSVMap, MSTxns, k>>

\* LOG.dsync, dsync_vecs; sync_cache with every block.
Dsync(al) ==
    /\ pc = "idle"
    /\ d' = [a \in Addr |-> IF a \in al THEN sync_addr(d[a]) ELSE d[a]]
    /\ ret' = <<"dsync", al>>
    /\ UNCHANGED <<MSTxn, MSVMap, MSTxns, k, pc, dw>>

\* LOG.read: the active transaction, then the queue, then the disk.
ReadValue(a) ==
    IF a \in DOMAIN MSTxn THEN MSTxn[a]
    ELSE IF a \in DOMAIN MSVMap THEN MSVMap[a] ELSE d[a].cur

\* A crash and LOG.recover: a flush under way has happened or not.
Crash ==
    /\ \/ d' \in possible_crash(d)
       \/ /\ pc = "merge" \/ (pc = "each" /\ k < Len(MSTxns))
          /\ d' \in possible_crash(Flushed(FlushArg))
    /\ MSTxn' = <<>> /\ MSVMap' = <<>> /\ MSTxns' = <<>>
    /\ k' = 0 /\ pc' = "idle" /\ dw' = NoDwrite
    /\ ret' = <<"crash">>

Next ==
    \/ \E a \in Addr, v \in Val : Write(a, v)
    \/ Abort \/ Commit \/ Flushall \/ FlushMerged \/ FlushEach \/ FlushEachDone
    \/ \E avs \in Maps, single \in BOOLEAN : Dwrite(avs, single)
    \/ DwriteDisk
    \/ \E al \in SUBSET Addr : Dsync(al)
    \/ Crash

Spec == Init /\ [][Next]_vars

-----------------------------------------------------------------------------
\* flushall ignores the result of MLog.flush; the flush it asks for always fits
\* ("r = false is impossible", GroupLog.v:288).
FlushNeverFails ==
    /\ pc = "merge" => Size(FlushArg) <= LogLen
    /\ pc = "each" /\ k < Len(MSTxns) => Size(FlushArg) <= LogLen

\* The disk after the first i transactions still queued.
Queued == SubSeq(MSTxns, k + 1, Len(MSTxns))
Disks ==
    LET after[i \in 0 .. Len(Queued)] ==
            IF i = 0 THEN d ELSE replay_disk(Queued[i], after[i - 1])
    IN  [i \in 1 .. Len(Queued) + 1 |-> after[i - 1]]

\* read sees the last write of every block, whether that is active, committed
\* and queued, flushed, or was written directly.
ReadsNewest ==
    pc = "idle" => \A a \in Addr :
        ReadValue(a) = IF a \in DOMAIN MSTxn THEN MSTxn[a] ELSE Disks[Len(Disks)][a].cur

S == INSTANCE DiskSet WITH
        ds <- Disks,
        flushing <- pc \in {"merge", "each"}

\* A crash keeps a prefix of the committed transactions, all of them once a
\* flush has returned, each one whole; direct writes are never undone by the log.
ImplementsDiskSet == S!SSpec
=============================================================================
