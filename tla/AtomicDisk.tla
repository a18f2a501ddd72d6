----------------------------- MODULE AtomicDisk -----------------------------
(***************************************************************************)
(* What the in-memory log promises to the layers above it (the MLog.rep    *)
(* specifications of MemLog.v): a disk with an atomic, durable write of    *)
(* several blocks (flush) and ordinary asynchronous writes that bypass the *)
(* log (dwrite, dsync).                                                    *)
(***************************************************************************)
EXTENDS Integers, FiniteSets, AsyncDisk

CONSTANTS Addr, Val, LogLen

VARIABLES
    d,    \* the disk as clients see it
    op,   \* the flush or direct write under way
    ret   \* the operation that returned last, and how

avars == <<d, op, ret>>

Maps == UNION {[S -> Val] : S \in SUBSET Addr}
NoOp == [kind |-> "none", m |-> <<>>]
Fits(m) == Cardinality(DOMAIN m) <= LogLen

\* replay_disk: logged blocks are durable.
replay_disk(m, disk) ==
    [a \in Addr |-> IF a \in DOMAIN m THEN Synced(m[a]) ELSE disk[a]]

AInit ==
    /\ \E f \in [Addr -> Val] : d = [a \in Addr |-> Synced(f[a])]
    /\ op = NoOp
    /\ ret = <<"init">>

ACall(kind, m) ==
    /\ op = NoOp /\ op' = [kind |-> kind, m |-> m]
    /\ UNCHANGED <<d, ret>>

\* A flush fails only if it could never fit.
AFlush ==
    /\ op.kind = "flush" /\ op' = NoOp
    /\ IF Fits(op.m) THEN d' = replay_disk(op.m, d) /\ ret' = <<"flushed">>
                     ELSE d' = d /\ ret' = <<"refused">>

ADwrite ==
    /\ op.kind = "dwrite" /\ op' = NoOp
    /\ d' = [a \in Addr |-> IF a \in DOMAIN op.m THEN WriteTo(d[a], op.m[a]) ELSE d[a]]
    /\ ret' = <<"dwrite">>

ADsync(al) ==
    /\ op = NoOp
    /\ d' = [a \in Addr |-> IF a \in al THEN sync_addr(d[a]) ELSE d[a]]
    /\ ret' = <<"dsync", al>>
    /\ UNCHANGED op

\* The blocks of a flush survive all together or not at all.
ACrash ==
    /\ \/ d' \in possible_crash(d)
       \/ op.kind = "flush" /\ Fits(op.m) /\ d' \in possible_crash(replay_disk(op.m, d))
    /\ op' = NoOp
    /\ ret' = <<"crash">>

ANext ==
    \/ \E kind \in {"flush", "dwrite"}, m \in Maps : ACall(kind, m)
    \/ AFlush \/ ADwrite
    \/ \E al \in SUBSET Addr : ADsync(al)
    \/ ACrash

ASpec == AInit /\ [][ANext]_avars
=============================================================================
