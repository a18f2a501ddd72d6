---------------------------- MODULE VirtualDisk ----------------------------
(***************************************************************************)
(* What the buffer cache promises to the layers above it: one asynchronous *)
(* disk, as the specifications of Cache.v state it (rep, synrep).  A write *)
(* is readable at once; a block is durable after end_sync if it was handed *)
(* to the device (by sync, or by an eviction nobody sees) after its last   *)
(* write; a crash leaves any value the block may have had since then.      *)
(***************************************************************************)
EXTENDS AsyncDisk

CONSTANTS Addr, Val

VARIABLES
    vd,      \* the disk that clients of the cache see
    handed,  \* blocks whose newest value the device already has
    out      \* the last operation, its arguments and what it returned

vvars == <<vd, handed, out>>

VInit ==
    /\ \E f \in [Addr -> Val] : vd = [a \in Addr |-> Synced(f[a])]
    /\ handed = Addr
    /\ out = <<"init">>

\* Write-backs the client did not ask for only ever hand more blocks over.
VRead(a) ==
    /\ out' = <<"read", a, vd[a].cur>>
    /\ handed \subseteq handed' /\ handed' \subseteq Addr
    /\ UNCHANGED vd

\* The overwritten value stays possible, unless the device never had it.
VWrite(a, v) ==
    /\ \/ vd' = [vd EXCEPT ![a] = WriteTo(@, v)]
       \/ a \notin handed /\ vd' = [vd EXCEPT ![a].cur = v]
    /\ handed \ {a} \subseteq handed' /\ handed' \subseteq Addr \ {a}
    /\ out' = <<"write", a, v>>

VSync(a) ==
    /\ handed' = handed \cup {a}
    /\ out' = <<"sync", a>>
    /\ UNCHANGED vd

\* The barrier: durable where handed over, elsewhere fewer old values at most.
VEndSync ==
    /\ \E o \in [Addr -> SUBSET Val] :
        /\ \A a \in Addr : IF a \in handed THEN o[a] = {} ELSE o[a] \subseteq vd[a].old
        /\ vd' = [a \in Addr |-> [cur |-> vd[a].cur, old |-> o[a]]]
    /\ out' = <<"end_sync">>
    /\ UNCHANGED handed

VCrash ==
    /\ vd' \in possible_crash(vd)
    /\ handed' = Addr
    /\ out' = <<"recover">>

VNext ==
    \/ \E a \in Addr : VRead(a) \/ VSync(a)
    \/ \E a \in Addr, v \in Val : VWrite(a, v)
    \/ VEndSync
    \/ VCrash

VSpec == VInit /\ [][VNext]_vvars
=============================================================================
