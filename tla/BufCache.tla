------------------------------ MODULE BufCache ------------------------------
(***************************************************************************)
(* The write-back buffer cache of FSCQ (Cache.v, module BUFCACHE) over the *)
(* asynchronous disk.  Every operation issues at most one Write and one    *)
(* Read of the disk, and a crash loses the cache, so an operation is one   *)
(* step: stopping before or after its Write is a crash before or after it. *)
(***************************************************************************)
EXTENDS Integers, FiniteSets, AsyncDisk

CONSTANTS
    Addr,        \* block numbers
    Val,         \* block contents
    CSMaxCount   \* blocks the cache may hold

ASSUME AddrAssumption == Addr \subseteq Nat
ASSUME SizeAssumption == CSMaxCount \in Nat \ {0}

VARIABLES
    disk,     \* the device
    CSMap,    \* cached blocks: block -> value and dirty flag
    CSCount,  \* the cache's own count of them
    out       \* the last operation, its arguments and what it returned

vars == <<disk, CSMap, CSCount, out>>

Reply ==
    {"read", "write"} \X Addr \X Val \cup {"sync"} \X Addr
    \cup {<<"init">>, <<"end_sync">>, <<"recover">>}
Line == [v : Val, dirty : BOOLEAN]

\* The device holds some contents; BUFCACHE.init issues a Sync and starts
\* with no block cached.
Init ==
    /\ \E f \in [Addr -> Val] : disk = [a \in Addr |-> Synced(f[a])]
    /\ CSMap = <<>>
    /\ CSCount = 0
    /\ out = <<"init">>

-----------------------------------------------------------------------------
Cached == DOMAIN CSMap
Dirty(a, m) == a \in DOMAIN m /\ m[a].dirty

Add(m, a, l) == [b \in DOMAIN m \cup {a} |-> IF b = a THEN l ELSE m[b]]
Remove(m, a) == [b \in DOMAIN m \ {a} |-> m[b]]

\* Mutant: write-back marks the block clean without writing it.
WritebackDiskForgets(a, d, m) == d

\* writeback: a dirty block goes to the device and stays cached, clean.
WritebackDisk(a, d, m) ==
    IF Dirty(a, m) THEN [d EXCEPT ![a] = WriteTo(@, m[a].v)] ELSE d

WritebackMap(a, m) ==
    IF Dirty(a, m) THEN Add(m, a, [v |-> m[a].v, dirty |-> FALSE]) ELSE m

\* eviction_choose names block 0; if that is not cached, the first element of
\* the map, the least block number, goes.
Victim ==
    IF 0 \in Cached THEN {0} ELSE {a \in Cached : \A b \in Cached : a <= b}

\* evict: write back, forget, count down.
Evict(a) ==
    [disk |-> WritebackDisk(a, disk, CSMap), map |-> Remove(CSMap, a), n |-> CSCount - 1]

\* maybe_evict: room is made before the lookup, even for a block that is
\* cached, and possibly by evicting that very block.
MaybeEvict ==
    IF CSCount < CSMaxCount \/ Cached = {}
    THEN {[disk |-> disk, map |-> CSMap, n |-> CSCount]}
    ELSE {Evict(a) : a \in Victim}

-----------------------------------------------------------------------------
Read(a) ==
    \E e \in MaybeEvict :
        /\ disk' = e.disk
        /\ \/ /\ a \in DOMAIN e.map
              /\ out' = <<"read", a, e.map[a].v>>
              /\ CSMap' = e.map
              /\ CSCount' = e.n
           \/ /\ a \notin DOMAIN e.map
              /\ out' = <<"read", a, e.disk[a].cur>>
              /\ CSMap' = Add(e.map, a, [v |-> e.disk[a].cur, dirty |-> FALSE])
              /\ CSCount' = e.n + 1

Write(a, v) ==
    \E e \in MaybeEvict :
        /\ disk' = e.disk
        /\ CSMap' = Add(e.map, a, [v |-> v, dirty |-> TRUE])
        /\ CSCount' = IF a \in DOMAIN e.map THEN e.n ELSE e.n + 1
        /\ out' = <<"write", a, v>>

\* sync: hand the block to the device; begin_sync does nothing.
Sync(a) ==
    /\ disk' = WritebackDisk(a, disk, CSMap)
    /\ CSMap' = WritebackMap(a, CSMap)
    /\ out' = <<"sync", a>>
    /\ UNCHANGED CSCount

\* Mutant: the barrier is skipped when no cached block is dirty.
EndSyncShortcut ==
    /\ disk' = IF \E a \in Addr : Dirty(a, CSMap) THEN sync_mem(disk) ELSE disk
    /\ out' = <<"end_sync">>
    /\ UNCHANGED <<CSMap, CSCount>>

\* end_sync: the device's write barrier.
EndSync ==
    /\ disk' = sync_mem(disk)
    /\ out' = <<"end_sync">>
    /\ UNCHANGED <<CSMap, CSCount>>

\* Power fails; the machine comes back through init_recover.
Crash ==
    /\ \E d \in possible_crash(disk) : disk' = sync_mem(d)
    /\ CSMap' = <<>>
    /\ CSCount' = 0
    /\ out' = <<"recover">>

Next ==
    \/ \E a \in Addr : Read(a) \/ Sync(a)
    \/ \E a \in Addr, v \in Val : Write(a, v)
    \/ EndSync
    \/ Crash

Spec == Init /\ [][Next]_vars

-----------------------------------------------------------------------------
\* Type invariant of the cache state.
TypeOK ==
    /\ disk \in [Addr -> Valuset(Val)]
    /\ Cached \subseteq Addr
    /\ CSMap \in [Cached -> Line]
    /\ CSCount \in Nat
    /\ out \in Reply

\* size_valid: the count the cache keeps of its blocks is the true one and the
\* cache never outgrows CSMaxCount (Cache.v:158-161).
SizeValid ==
    /\ IsFiniteSet(Cached)
    /\ Cardinality(Cached) = CSCount
    /\ CSCount <= CSMaxCount

\* A clean block equals what the device would return, so it can be dropped
\* without a write (the Some (v, false) case of cachepred, Cache.v:172-177).
CleanMatches ==
    \A a \in Cached : ~CSMap[a].dirty => CSMap[a].v = disk[a].cur

\* The disk the clients see: the newest value is the cached one, and the
\* device's newest value is one more that a crash can bring back.
Virtual ==
    [a \in Addr |->
        IF Dirty(a, CSMap)
        THEN [cur |-> CSMap[a].v, old |-> vsmerge(disk[a])]
        ELSE disk[a]]

V == INSTANCE VirtualDisk WITH
        vd <- Virtual,
        handed <- {a \in Addr : ~Dirty(a, CSMap)}

\* The cache implements one asynchronous disk: reads see the last write whatever
\* was evicted, synced blocks survive, a crash restores no value too old.
ImplementsVirtualDisk == V!VSpec
=============================================================================
