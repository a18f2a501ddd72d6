------------------------------ MODULE FscqTree ------------------------------
(***************************************************************************)
(* What FSCQ's calls do to the tree of files and directories: the disks of *)
(* Fscq, seen as trees, make the steps of TreeSeq.                         *)
(***************************************************************************)
EXTENDS Fscq

\* The tree on a disk, for TreeSeq.
TreeFrom(d, es) ==
    [file |-> [i \in {x[2][2] : x \in {y \in es : ~y[2][3]}} |->
                [sz |-> d.ino[i].sz, data |-> [k \in 1 .. d.ino[i].len |-> d.data[BnumOf(d, d.ino[i], k - 1)]]]],
     dir |-> [i \in {Root} \cup {x[2][2] : x \in {y \in es : y[2][3]}} |-> DirEnts(d, i)]]
Tree(d) == TreeFrom(d, TreeEnts(d))

TS == INSTANCE TreeSeq WITH ts <- [k \in DOMAIN ds |-> Tree(ds[k])]

\* Every call does to files and directories what it should and nothing else,
\* in every tree a crash can leave.
ImplementsTreeSeq == TS!TSpec
=============================================================================
