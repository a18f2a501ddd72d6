---------------------------- MODULE GroupCommit ----------------------------
(***************************************************************************)
(* What the xv6 log promises to file system calls (the comment at the head *)
(* of log.c): the updates of several calls become durable together, and    *)
(* only when no call is in progress, so that a crash never leaves part of  *)
(* a call on disk.                                                         *)
(***************************************************************************)
CONSTANTS Proc, Block, Val

VARIABLES
    vis,    \* block contents the calls see
    dur,    \* block contents a crash leaves
    active, \* processes inside a call
    wrote   \* blocks each call has written

gvars == <<vis, dur, active, wrote>>

GInit ==
    /\ dur \in [Block -> Val] /\ vis = dur
    /\ active = {} /\ wrote = [p \in Proc |-> {}]

GBegin(p) ==
    /\ p \notin active /\ active' = active \cup {p}
    /\ wrote' = [wrote EXCEPT ![p] = {}]
    /\ UNCHANGED <<vis, dur>>

GWrite(p, b, v) ==
    /\ p \in active
    /\ vis' = [vis EXCEPT ![b] = v]
    /\ wrote' = [wrote EXCEPT ![p] = @ \cup {b}]
    /\ UNCHANGED <<dur, active>>

GEnd(p) ==
    /\ p \in active /\ active' = active \ {p}
    /\ UNCHANGED <<vis, dur, wrote>>

GCommit ==
    /\ active = {}
    /\ dur' = vis
    /\ UNCHANGED <<vis, active, wrote>>

GCrash ==
    /\ dur' = dur \/ (active = {} /\ dur' = vis)
    /\ vis' = dur' /\ active' = {}
    /\ wrote' = [p \in Proc |-> {}]

GNext ==
    \/ \E p \in Proc : GBegin(p) \/ GEnd(p)
    \/ \E p \in Proc, b \in Block, v \in Val : GWrite(p, b, v)
    \/ GCommit \/ GCrash

GSpec == GInit /\ [][GNext]_gvars
=============================================================================
