------------------------------- MODULE MemLog -------------------------------
(***************************************************************************)
(* The write-ahead log over the whole disk (MemLog.v, module MLog).  The   *)
(* entries of the on-disk log are also kept in a map in memory; apply      *)
(* writes them to their home locations and empties the log when the next   *)
(* flush would not fit, or when a direct write would be shadowed by them.  *)
(*                                                                         *)
(* The on-disk log is AtomicLog, seen as the map its entries replay to;    *)
(* na counts the entries that still fit.  The home locations are blocks of *)
(* VirtualDisk.  As in DiskLog the blocks of one call are written in one   *)
(* step, none being durable before the barrier that follows.               *)
(***************************************************************************)
EXTENDS Integers, FiniteSets, AsyncDisk

CONSTANTS
    Addr,           \* data blocks
    Val,            \* their contents
    items_per_val,  \* log space is taken in units of this many entries
    LogLen          \* entries the log can hold

ASSUME LayoutAssumption ==
    items_per_val \in Nat \ {0} /\ LogLen \in Nat \ {0} /\ LogLen % items_per_val = 0
ASSUME FiniteAssumption == IsFiniteSet(Addr)

VARIABLES
    home,     \* the data blocks on disk
    log,      \* the on-disk log, as a map
    na,       \* entries that still fit in it
    MSInLog,  \* the copy of the log in memory
    pc,       \* step of the operation under way
    op,       \* that operation, resumed after an apply it needs
    ret       \* the operation that returned last, and how

vars == <<home, log, na, MSInLog, pc, op, ret>>

Maps == UNION {[S -> Val] : S \in SUBSET Addr}
NoOp == [kind |-> "none", m |-> <<>>]

\* replay_mem: the entries of m override those of l.
replay_mem(m, l) ==
    [a \in DOMAIN m \cup DOMAIN l |-> IF a \in DOMAIN m THEN m[a] ELSE l[a]]

rounded(n) == ((n + items_per_val - 1) \div items_per_val) * items_per_val
Size(m) == Cardinality(DOMAIN m)

Init ==
    /\ \E f \in [Addr -> Val] : home = [a \in Addr |-> Synced(f[a])]
    /\ log = <<>> /\ na = LogLen
    /\ MSInLog = <<>>
    /\ pc = "idle" /\ op = NoOp
    /\ ret = <<"init">>

-----------------------------------------------------------------------------
\* flush: apply first if the entries do not fit.  Flushing nothing returns
\* at once.
Flush(ents) ==
    /\ pc = "idle" /\ ents # <<>>
    /\ op' = [kind |-> "flush", m |-> ents]
    /\ pc' = IF na < Size(ents) THEN "apply" ELSE "extend"
    /\ UNCHANGED <<home, log, na, MSInLog, ret>>

\* flush_noapply: DLog.extend, then the same entries in memory.
Extend ==
    /\ pc = "extend" /\ pc' = "idle" /\ op' = NoOp
    /\ \/ /\ Size(op.m) <= na
          /\ log' = replay_mem(op.m, log)
          /\ MSInLog' = replay_mem(op.m, MSInLog)
          /\ na' = na - rounded(Size(op.m))
          /\ ret' = <<"flushed">>
       \/ /\ Size(op.m) > na
          /\ ret' = <<"refused">>
          /\ UNCHANGED <<log, na, MSInLog>>
    /\ UNCHANGED home

\* A call of apply on its own (GroupLog.flushsync).
Apply ==
    /\ pc = "idle" /\ pc' = "apply" /\ op' = NoOp
    /\ UNCHANGED <<home, log, na, MSInLog, ret>>

\* apply: BUFCACHE.write_vecs of the map's elements.
ApplyWrite ==
    /\ pc = "apply" /\ pc' = "applysync"
    /\ home' = [a \in Addr |-> IF a \in DOMAIN MSInLog
                               THEN WriteTo(home[a], MSInLog[a]) ELSE home[a]]
    /\ UNCHANGED <<log, na, MSInLog, op, ret>>

\* Mutant: the blocks are not synced before the log is emptied.
ApplySyncForgotten ==
    /\ pc = "applysync" /\ pc' = "trunc"
    /\ UNCHANGED <<home, log, na, MSInLog, op, ret>>

\* BUFCACHE.sync_vecs_now of the map's keys.
ApplySync ==
    /\ pc = "applysync" /\ pc' = "trunc"
    /\ home' = [a \in Addr |-> IF a \in DOMAIN MSInLog THEN sync_addr(home[a]) ELSE home[a]]
    /\ UNCHANGED <<log, na, MSInLog, op, ret>>

\* Mutant: the map in memory is not emptied with the log.
TruncKeepsMap ==
    /\ pc = "trunc"
    /\ log' = <<>> /\ na' = LogLen
    /\ pc' = CASE op.kind = "flush" -> "extend" [] op.kind = "dwrite" -> "dwrite"
               [] OTHER -> "idle"
    /\ UNCHANGED <<home, MSInLog, op, ret>>

\* Mutant: the log is emptied in memory only.
TruncInMemory ==
    /\ pc = "trunc"
    /\ na' = LogLen
    /\ MSInLog' = <<>>
    /\ pc' = CASE op.kind = "flush" -> "extend" [] op.kind = "dwrite" -> "dwrite"
               [] OTHER -> "idle"
    /\ UNCHANGED <<home, log, op, ret>>

\* DLog.trunc returns; the operation that needed the apply goes on.
Trunc ==
    /\ pc = "trunc"
    /\ log' = <<>> /\ na' = LogLen
    /\ MSInLog' = <<>>
    /\ pc' = CASE op.kind = "flush" -> "extend" [] op.kind = "dwrite" -> "dwrite"
               [] OTHER -> "idle"
    /\ UNCHANGED <<home, op, ret>>

\* Mutant: a direct write to a logged block goes ahead at once.
DwriteNoApply(avs) ==
    /\ pc = "idle" /\ avs # <<>>
    /\ op' = [kind |-> "dwrite", m |-> avs]
    /\ pc' = "dwrite"
    /\ UNCHANGED <<home, log, na, MSInLog, ret>>

\* dwrite, dwrite_vecs: the log must not shadow what is written past it.
Dwrite(avs) ==
    /\ pc = "idle" /\ avs # <<>>
    /\ op' = [kind |-> "dwrite", m |-> avs]
    /\ pc' = IF DOMAIN avs \cap DOMAIN MSInLog # {} THEN "apply" ELSE "dwrite"
    /\ UNCHANGED <<home, log, na, MSInLog, ret>>

DwriteHome ==
    /\ pc = "dwrite" /\ pc' = "idle" /\ op' = NoOp
    /\ home' = [a \in Addr |-> IF a \in DOMAIN op.m THEN WriteTo(home[a], op.m[a]) ELSE home[a]]
    /\ ret' = <<"dwrite">>
    /\ UNCHANGED <<log, na, MSInLog>>

\* dsync, dsync_vecs, and sync_cache with every block.
Dsync(al) ==
    /\ pc = "idle"
    /\ home' = [a \in Addr |-> IF a \in al THEN sync_addr(home[a]) ELSE home[a]]
    /\ ret' = <<"dsync", al>>
    /\ UNCHANGED <<log, na, MSInLog, pc, op>>

\* The value read(a) returns.
ReadValue(a) == IF a \in DOMAIN MSInLog THEN MSInLog[a] ELSE home[a].cur

-----------------------------------------------------------------------------
\* A crash; the on-disk log settles an extend or trunc under way either way.
Crash ==
    /\ pc' = "crashed" /\ op' = NoOp
    /\ home' \in possible_crash(home)
    /\ MSInLog' = <<>>
    /\ \/ UNCHANGED <<log, na>>
       \/ /\ pc = "extend" /\ Size(op.m) <= na
          /\ log' = replay_mem(op.m, log) /\ na' = na - rounded(Size(op.m))
       \/ /\ pc = "trunc"
          /\ log' = <<>> /\ na' = LogLen
    /\ ret' = <<"crash">>

\* recover: DLog.recover, then the map is read back from the log.
Recover ==
    /\ pc = "crashed" /\ pc' = "idle"
    /\ MSInLog' = log
    /\ UNCHANGED <<home, log, na, op, ret>>

Next ==
    \/ \E m \in Maps : Flush(m) \/ Dwrite(m)
    \/ \E al \in SUBSET Addr : Dsync(al)
    \/ Extend \/ Apply \/ ApplyWrite \/ ApplySync \/ Trunc \/ DwriteHome
    \/ Crash \/ Recover

Spec == Init /\ [][Next]_vars

-----------------------------------------------------------------------------
\* Type invariant of the log, the home blocks and the operation under way; the
\* log never holds more than the space it was charged for.
TypeOK ==
    /\ home \in [Addr -> Valuset(Val)]
    /\ log \in Maps /\ MSInLog \in Maps
    /\ na \in 0 .. LogLen - Size(log)
    /\ pc \in {"idle", "apply", "applysync", "trunc", "extend", "dwrite", "crashed"}
    /\ op \in [kind : {"none", "flush", "dwrite"}, m : Maps]
    /\ ret \in ({"dsync"} \X (SUBSET Addr))
               \cup {<<"init">>, <<"flushed">>, <<"refused">>, <<"dwrite">>, <<"crash">>}

\* The disk a client is promised: logged blocks are durable, the others are at
\* home (map_replay, LogReplay.v:47).
Mapped == [a \in Addr |-> IF a \in DOMAIN log THEN Synced(log[a]) ELSE home[a]]

\* Between operations read returns the newest value of every block, wherever it
\* is: in the log, applied, recovered after a crash, or written past the log.
ReadsNewest == pc = "idle" => \A a \in Addr : ReadValue(a) = Mapped[a].cur

\* The log is emptied only when all its blocks are durable at home.
AppliedBeforeTrunc ==
    pc = "trunc" => \A a \in DOMAIN log : home[a] = Synced(log[a])

A == INSTANCE AtomicDisk WITH d <- Mapped

\* Flushes are atomic and durable, applying the log is invisible, and direct
\* writes keep the order their caller gave them, across crashes at every step.
ImplementsAtomicDisk == A!ASpec
=============================================================================
