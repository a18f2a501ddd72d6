----------------------------- MODULE AsyncDisk -----------------------------
(***************************************************************************)
(* The asynchronous disk every layer of FSCQ is built on (AsyncDisk.v,     *)
(* Prog.v, PredCrash.v).  A block is a valuset: the value written last,    *)
(* which reads return, and the older values a crash may still bring back   *)
(* because no Sync has covered a later write.  The source keeps the older  *)
(* values in a list; only membership matters, so here they form a set.     *)
(***************************************************************************)

\* A block whose only possible content is v.
Synced(v) == [cur |-> v, old |-> {}]

\* vsmerge: every value the block can have after a crash.
vsmerge(vs) == {vs.cur} \cup vs.old

\* StepWrite: the new value is read from now on, all earlier ones remain
\* possible.
WriteTo(vs, v) == [cur |-> v, old |-> vsmerge(vs)]

\* sync_mem on one block: only the newest value is left.
sync_addr(vs) == Synced(vs.cur)

\* sync_mem: Sync reaches every block.
sync_mem(d) == [a \in DOMAIN d |-> sync_addr(d[a])]

\* possible_crash: each block independently keeps one of its values.
possible_crash(d) ==
    {[a \in DOMAIN d |-> Synced(f[a])] :
        f \in {g \in [DOMAIN d -> UNION {vsmerge(d[a]) : a \in DOMAIN d}] :
                  \A a \in DOMAIN d : g[a] \in vsmerge(d[a])}}

\* The blocks over a set of values.
Valuset(V) == [cur : V, old : SUBSET V]
=============================================================================
