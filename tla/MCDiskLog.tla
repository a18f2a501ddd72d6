----------------------------- MODULE MCDiskLog -----------------------------
(* Instance of DiskLog for TLC.  As in the lists MemLog builds from a map,    *)
(* addresses are distinct and ascending; the lengths 1, 2 and 3 leave one     *)
(* padding address, none, and one in the second descriptor block.             *)
EXTENDS DiskLog, FiniteSets

Lists == {[k \in 1 .. n |-> <<k, v>>] : n \in 1 .. Cardinality(Addr), v \in Val}

\* A disk image that was never written: stale contents then come from earlier
\* logs only.
FreshInit ==
    /\ Init
    /\ \A i \in DescIdx : \A j \in DOMAIN desc[i].cur : desc[i].cur[j] = 0
    /\ \A i, j \in DataIdx : data[i] = data[j]

FreshSpec == FreshInit /\ [][Next]_vars
=============================================================================
