------------------------------ MODULE DiskLog ------------------------------
(***************************************************************************)
(* The on-disk log of FSCQ (DiskLogHash.v): a header block, descriptor     *)
(* blocks that each hold items_per_val addresses, and one data block per   *)
(* entry.  Extending the log needs a single barrier: the header carries a  *)
(* checksum of the whole log and the previous length, and recovery rolls   *)
(* back to that length when the checksum does not match.                   *)
(*                                                                         *)
(* The log runs over the asynchronous disk of VirtualDisk.  The blocks one *)
(* call writes are written in one step: all of them are unsynced until the *)
(* barrier, so a crash between two of them leaves nothing that a crash     *)
(* after the last could not leave.  Hashes are collision free, as the      *)
(* source assumes (a collision ends its execution in HashCollision): the   *)
(* checksum of a list of blocks is the list.                               *)
(***************************************************************************)
EXTENDS Integers, Sequences, AsyncDisk

CONSTANTS
    Addr,           \* addresses an entry may have
    Val,            \* block contents
    items_per_val,  \* addresses per descriptor block
    LogDescLen,     \* descriptor blocks
    NewLog          \* the lists of entries callers append

LogLen == items_per_val * LogDescLen

ASSUME AddrAssumption == Addr \subseteq Nat \ {0}
ASSUME LayoutAssumption == items_per_val \in Nat \ {0} /\ LogDescLen \in Nat \ {0}
ASSUME NewLogAssumption == NewLog \subseteq Seq(Addr \X Val)

VARIABLES
    hdr, desc, data,  \* the blocks of the log
    pc,               \* step of the operation under way
    arg,              \* the list being appended
    base, goal        \* history: contents before the operation and after it

disk == <<hdr, desc, data>>
vars == <<hdr, desc, data, pc, arg, base, goal>>

-----------------------------------------------------------------------------
DescIdx == 0 .. LogDescLen - 1
DataIdx == 0 .. LogLen - 1
DescBlock == [0 .. items_per_val - 1 -> Addr \cup {0}]

Len0 == [ndesc |-> 0, ndata |-> 0]
Lens == [ndesc : 0 .. LogDescLen, ndata : 0 .. LogLen]

\* The blocks of a log prefix: what recovery hashes and what read decodes.
Blocks(n, de, da) ==
    [addrs |-> [i \in 0 .. n.ndesc - 1 |-> de[i].cur],
     vals  |-> [i \in 0 .. n.ndata - 1 |-> da[i].cur]]

Contents(n) == Blocks(n, desc, data)
Empty == [addrs |-> [i \in 0 .. -1 |-> i], vals |-> [i \in 0 .. -1 |-> i]]

\* ndesc_log, ndata_log: blocks taken by a list of valid entries.
ndesc_log(l) == (Len(l) + items_per_val - 1) \div items_per_val
ndata_log(l) == Len(l)

\* ipack: the i-th descriptor block of a list, padded with address 0.
ipack(l, i) ==
    [j \in 0 .. items_per_val - 1 |->
        IF i * items_per_val + j < Len(l) THEN l[i * items_per_val + j + 1][1] ELSE 0]

loglen_valid(n) == n.ndesc <= LogDescLen /\ n.ndata <= LogLen

Grown(n, l) == [ndesc |-> n.ndesc + ndesc_log(l), ndata |-> n.ndata + ndata_log(l)]

\* hash_list: the checksum h of n blocks carried on over the blocks of l.
hash_list(h, n, l) ==
    [addrs |-> [i \in 0 .. n.ndesc + ndesc_log(l) - 1 |->
                    IF i < n.ndesc THEN h.addrs[i] ELSE ipack(l, i - n.ndesc)],
     vals  |-> [i \in 0 .. n.ndata + ndata_log(l) - 1 |->
                    IF i < n.ndata THEN h.vals[i] ELSE l[i - n.ndata + 1][2]]]

\* Mutant: room is counted in entries.
avail_entries == LogLen - hdr.cur.len.ndata

\* avail: entries that still fit, counted in whole descriptor blocks.
avail == LogLen - hdr.cur.len.ndesc * items_per_val

-----------------------------------------------------------------------------
\* A fresh log on a disk of arbitrary contents.
Init ==
    /\ hdr = Synced([prev |-> Len0, len |-> Len0, sum |-> Empty])
    /\ \E f \in [DescIdx -> DescBlock] : desc = [i \in DescIdx |-> Synced(f[i])]
    /\ \E f \in [DataIdx -> Val] : data = [i \in DataIdx |-> Synced(f[i])]
    /\ pc = "idle"
    /\ arg = <<>>
    /\ base = Empty /\ goal = Empty

\* extend, up to the capacity test.  A list that does not fit is refused and
\* nothing changes.
ExtendBegin(new) ==
    /\ pc = "idle"
    /\ loglen_valid(Grown(hdr.cur.len, new))
    /\ pc' = "desc" /\ arg' = new
    /\ base' = Contents(hdr.cur.len)
    /\ goal' = hash_list(Contents(hdr.cur.len), hdr.cur.len, new)
    /\ UNCHANGED disk

\* Desc.write_aligned
WriteDesc ==
    /\ pc = "desc" /\ pc' = "data"
    /\ LET n == hdr.cur.len.ndesc IN
       desc' = [i \in DescIdx |-> IF n <= i /\ i < n + ndesc_log(arg)
                                  THEN WriteTo(desc[i], ipack(arg, i - n)) ELSE desc[i]]
    /\ UNCHANGED <<hdr, data, arg, base, goal>>

\* Data.write_aligned
WriteData ==
    /\ pc = "data" /\ pc' = "hdr"
    /\ LET n == hdr.cur.len.ndata IN
       data' = [i \in DataIdx |-> IF n <= i /\ i < n + ndata_log(arg)
                                  THEN WriteTo(data[i], arg[i - n + 1][2]) ELSE data[i]]
    /\ UNCHANGED <<hdr, desc, arg, base, goal>>

\* Hdr.write, with the checksums carried on from the header read at the start.
WriteHdr ==
    /\ pc = "hdr" /\ pc' = "sync"
    /\ LET h == hdr.cur IN
       hdr' = WriteTo(hdr, [prev |-> h.len, len |-> Grown(h.len, arg),
                            sum |-> hash_list(h.sum, h.len, arg)])
    /\ UNCHANGED <<desc, data, arg, base, goal>>

\* Mutant: only the header is handed to the barrier.
ExtendSyncHdrOnly ==
    /\ pc = "sync" /\ pc' = "idle"
    /\ hdr' = sync_addr(hdr)
    /\ base' = goal
    /\ UNCHANGED <<desc, data, arg, goal>>

\* Desc.sync_aligned, Data.sync_aligned, Hdr.sync and the one end_sync: the
\* blocks from the old length up to the new one become durable.
ExtendSync ==
    /\ pc = "sync" /\ pc' = "idle"
    /\ LET h == hdr.cur IN
       /\ desc' = [i \in DescIdx |-> IF h.prev.ndesc <= i /\ i < h.len.ndesc
                                     THEN sync_addr(desc[i]) ELSE desc[i]]
       /\ data' = [i \in DataIdx |-> IF h.prev.ndata <= i /\ i < h.len.ndata
                                     THEN sync_addr(data[i]) ELSE data[i]]
    /\ hdr' = sync_addr(hdr)
    /\ base' = goal
    /\ UNCHANGED <<arg, goal>>

\* trunc: the header alone empties the log.
TruncWrite ==
    /\ pc = "idle" /\ pc' = "tsync"
    /\ hdr' = WriteTo(hdr, [prev |-> hdr.cur.len, len |-> Len0, sum |-> Empty])
    /\ base' = Contents(hdr.cur.len) /\ goal' = Empty
    /\ UNCHANGED <<desc, data, arg>>

\* Hdr.sync_now
TruncSync ==
    /\ pc = "tsync" /\ pc' = "idle"
    /\ hdr' = sync_addr(hdr)
    /\ base' = goal
    /\ UNCHANGED <<desc, data, arg, goal>>

-----------------------------------------------------------------------------
\* A crash, at any step, of recovery too.
Crash ==
    /\ pc' = "crashed"
    /\ \E h \in vsmerge(hdr) : hdr' = Synced(h)
    /\ desc' \in possible_crash(desc)
    /\ data' \in possible_crash(data)
    /\ UNCHANGED <<arg, base, goal>>

checksums_match == hdr.cur.sum = Contents(hdr.cur.len)

\* The contents recovery will settle on, given what is on disk.
Recovered == IF checksums_match THEN Contents(hdr.cur.len) ELSE Contents(hdr.cur.prev)

RecoverMatch ==
    /\ pc = "crashed" /\ pc' = "idle"
    /\ checksums_match
    /\ base' = Contents(hdr.cur.len) /\ goal' = base'
    /\ UNCHANGED <<disk, arg>>

RecoverRollback ==
    /\ pc = "crashed" /\ pc' = "rsync"
    /\ ~checksums_match
    /\ LET p == hdr.cur.prev IN
       hdr' = WriteTo(hdr, [prev |-> p, len |-> p, sum |-> Contents(p)])
    /\ base' = Contents(hdr.cur.prev) /\ goal' = base'
    /\ UNCHANGED <<desc, data, arg>>

RecoverSync ==
    /\ pc = "rsync" /\ pc' = "idle"
    /\ hdr' = sync_addr(hdr)
    /\ UNCHANGED <<desc, data, arg, base, goal>>

Next ==
    \/ \E new \in NewLog : ExtendBegin(new)
    \/ WriteDesc \/ WriteData \/ WriteHdr \/ ExtendSync
    \/ TruncWrite \/ TruncSync
    \/ Crash
    \/ RecoverMatch \/ RecoverRollback \/ RecoverSync

Spec == Init /\ [][Next]_vars

-----------------------------------------------------------------------------
Sums == [addrs : UNION {[0 .. n - 1 -> DescBlock] : n \in 0 .. LogDescLen},
         vals : UNION {[0 .. n - 1 -> Val] : n \in 0 .. LogLen}]

Header == [prev : Lens, len : Lens, sum : Sums]

\* Once an operation has returned its effect is on disk and cannot be lost: the
\* header is synced, its checksum matches, every block of the log is synced.
DurableOnReturn ==
    pc = "idle" =>
        /\ hdr.old = {} /\ checksums_match
        /\ Contents(hdr.cur.len) = base
        /\ \A i \in 0 .. hdr.cur.len.ndesc - 1 : desc[i].old = {}
        /\ \A i \in 0 .. hdr.cur.len.ndata - 1 : data[i].old = {}

\* The capacity test on rounded descriptor blocks refuses a list exactly when
\* avail, which MemLog.flush consults beforehand, says it has too many entries.
RefusesOnlyWhenFull ==
    pc = "idle" => \A new \in NewLog :
        loglen_valid(Grown(hdr.cur.len, new)) <=> Len(new) <= avail

-----------------------------------------------------------------------------
\* Mutant: padding is not skipped.
combine_padded(c, n) ==
    LET al == [k \in 1 .. n.ndesc * items_per_val |->
                  c.addrs[(k - 1) \div items_per_val][(k - 1) % items_per_val]]
    IN  [k \in {j \in DOMAIN al : j <= n.ndata} |-> <<al[k], c.vals[k - 1]>>]

\* combine_nonzero: the entries of a log, its padding addresses skipped.
combine_nonzero(c, n) ==
    LET al == [k \in 1 .. n.ndesc * items_per_val |->
                  c.addrs[(k - 1) \div items_per_val][(k - 1) % items_per_val]]
        nz == SelectSeq(al, LAMBDA a : a # 0)
    IN  [k \in {j \in DOMAIN nz : j <= n.ndata} |-> <<nz[k], c.vals[k - 1]>>]

\* read: the entries of the first n blocks on disk.
read(n) == combine_nonzero(Contents(n), n)

\* The log a client sees, and what it becomes if the operation completes.
StableLen ==
    CASE pc \in {"sync", "tsync"} -> hdr.cur.prev
      [] pc = "crashed" /\ ~checksums_match -> hdr.cur.prev
      [] OTHER -> hdr.cur.len

PendingLog ==
    CASE pc \in {"desc", "data", "hdr"} -> read(StableLen) \o arg
      [] pc \in {"sync", "tsync"} -> read(hdr.cur.len)
      [] OTHER -> read(StableLen)

L == INSTANCE AtomicLog WITH
        log <- read(StableLen),
        pend <- PendingLog,
        busy <- pc \notin {"idle", "crashed", "rsync"},
        up <- pc \notin {"crashed", "rsync"}

\* Extend and trunc are atomic and durable, and reading the log back gives the
\* entries appended, in order, across padding and rolled-back extensions.
ImplementsAtomicLog == L!LSpec
=============================================================================
