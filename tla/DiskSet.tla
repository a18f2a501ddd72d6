------------------------------ MODULE DiskSet ------------------------------
(***************************************************************************)
(* What the transaction log promises to the file system (LOG.rep in Log.v, *)
(* diskset in DiskSet.v): a sequence of disks, the first one durable and   *)
(* one more for every transaction committed since.  A crash keeps a prefix *)
(* of the transactions; a direct write happens to every disk at once.      *)
(***************************************************************************)
EXTENDS Integers, Sequences, FiniteSets, AsyncDisk

CONSTANTS Addr, Val, LogLen

VARIABLES
    ds,         \* the disks, oldest first
    MSTxn,      \* what the active transaction has written
    flushing,   \* a flush is under way
    dw,         \* the direct write under way
    ret         \* the operation that returned last, and how

svars == <<ds, MSTxn, flushing, dw, ret>>

NoDwrite == [m |-> <<>>, drop |-> {}]
Idle == ~flushing /\ dw = NoDwrite

Written(m, disk) == [a \in Addr |-> IF a \in DOMAIN m THEN Synced(m[a]) ELSE disk[a]]

SInit ==
    /\ \E f \in [Addr -> Val] : ds = <<[a \in Addr |-> Synced(f[a])]>>
    /\ MSTxn = <<>>
    /\ flushing = FALSE /\ dw = NoDwrite
    /\ ret = <<"init">>

SWrite(a, v) ==
    /\ Idle
    /\ MSTxn' = [b \in DOMAIN MSTxn \cup {a} |-> IF b = a THEN v ELSE MSTxn[b]]
    /\ ret' = <<"write">>
    /\ UNCHANGED <<ds, flushing, dw>>

SAbort ==
    /\ Idle
    /\ MSTxn' = <<>>
    /\ ret' = <<"abort">>
    /\ UNCHANGED <<ds, flushing, dw>>

\* Only a transaction larger than the log is refused.
SCommit ==
    /\ Idle
    /\ MSTxn' = <<>>
    /\ IF Cardinality(DOMAIN MSTxn) <= LogLen
       THEN ds' = Append(ds, Written(MSTxn, ds[Len(ds)])) /\ ret' = <<"committed">>
       ELSE ds' = ds /\ ret' = <<"refused">>
    /\ UNCHANGED <<flushing, dw>>

SFlushBegin ==
    /\ Idle /\ flushing' = TRUE
    /\ UNCHANGED <<ds, MSTxn, dw, ret>>

\* Durable so far: any prefix of the transactions, in their order.
SFlushProgress ==
    /\ flushing
    /\ \E i \in 2 .. Len(ds) : ds' = SubSeq(ds, i, Len(ds))
    /\ UNCHANGED <<MSTxn, flushing, dw, ret>>

\* A flush returns with everything durable.
SFlushReturn ==
    /\ flushing /\ flushing' = FALSE
    /\ ds' = <<ds[Len(ds)]>>
    /\ ret' = <<"flushed">>
    /\ UNCHANGED <<MSTxn, dw>>

\* A direct write may have to flush first; the active transaction then forgets
\* drop, a set of blocks that covers the write.
SDwriteCall(avs, drop) ==
    /\ Idle
    /\ DOMAIN avs \subseteq drop
    /\ dw' = [m |-> avs, drop |-> drop]
    /\ flushing' \in BOOLEAN
    /\ UNCHANGED <<ds, MSTxn, ret>>

SDwrite ==
    /\ ~flushing /\ dw # NoDwrite
    /\ ds' = [i \in DOMAIN ds |->
                [a \in Addr |-> IF a \in DOMAIN dw.m THEN WriteTo(ds[i][a], dw.m[a])
                                                     ELSE ds[i][a]]]
    /\ MSTxn' = [b \in DOMAIN MSTxn \ dw.drop |-> MSTxn[b]]
    /\ dw' = NoDwrite
    /\ ret' = <<"dwrite">>
    /\ UNCHANGED flushing

SDsync(al) ==
    /\ Idle
    /\ ds' = [i \in DOMAIN ds |->
                [a \in Addr |-> IF a \in al THEN sync_addr(ds[i][a]) ELSE ds[i][a]]]
    /\ ret' = <<"dsync", al>>
    /\ UNCHANGED <<MSTxn, flushing, dw>>

\* Only a flush under way may make committed transactions durable.
SCrash ==
    /\ \E i \in DOMAIN ds :
        /\ i > 1 => flushing
        /\ \E disk \in possible_crash(ds[i]) : ds' = <<disk>>
    /\ MSTxn' = <<>>
    /\ flushing' = FALSE /\ dw' = NoDwrite
    /\ ret' = <<"crash">>

SNext ==
    \/ \E a \in Addr, v \in Val : SWrite(a, v)
    \/ SAbort \/ SCommit \/ SFlushBegin \/ SFlushProgress \/ SFlushReturn
    \/ \E D \in SUBSET Addr : \E avs \in [D -> Val], drop \in SUBSET Addr : SDwriteCall(avs, drop)
    \/ SDwrite
    \/ \E al \in SUBSET Addr : SDsync(al)
    \/ SCrash

SSpec == SInit /\ [][SNext]_svars
=============================================================================
