------------------------------ MODULE NameTree ------------------------------
(***************************************************************************)
(* What the calls of the xv6 file system promise about names: a tree of    *)
(* typed nodes that every finished call has changed on disk, so that a     *)
(* restart changes nothing.  ret is the call and its answer, 0 or -1.      *)
(*                                                                         *)
(* The tree says plainly what the code does where one would hope for more: *)
(* rename removes its target before it looks at the source, and a create   *)
(* that finds the file table full leaves the file behind.                  *)
(***************************************************************************)
EXTENDS Integers, Sequences

CONSTANT Path   \* sequences of names, closed under prefixes

VARIABLES node, ret
tvars == <<node, ret>>

Parent(p)  == SubSeq(p, 1, Len(p) - 1)
Present(n, p) == p \in Path /\ n[p] # "none"
Vacant(n, p) ==
    /\ p \in Path /\ p # <<>>
    /\ n[p] = "none" /\ n[Parent(p)] = "dir"
Removable(n, p) ==
    /\ Present(n, p) /\ p # <<>>
    /\ \A q \in Path \ {<<>>} : Parent(q) = p => n[q] = "none"

TInit ==
    /\ node = [p \in Path |-> IF p = <<>> THEN "dir" ELSE "none"]
    /\ ret = <<"mount">>

\* A call that answers and leaves the names alone.
TLook(op, p, r) ==
    /\ ret' = <<op, p, r>>
    /\ node' = node
    /\ r = 0 /\ p \in Path => Present(node, p)

\* open with O_CREATE; the file may be there already.
TCreate(p, r) ==
    /\ ret' = <<"create", p, r>>
    /\ IF Vacant(node, p) THEN node' = [node EXCEPT ![p] = "file"]
                          ELSE node' = node
    /\ r = 0 => Vacant(node, p) \/ (p \in Path /\ node[p] = "file")

TMake(op, t, p, r) ==
    /\ ret' = <<op, p, r>>
    /\ r = 0 <=> Vacant(node, p)
    /\ node' = IF r = 0 THEN [node EXCEPT ![p] = t] ELSE node

TUnlink(p, r) ==
    /\ ret' = <<"unlink", p, r>>
    /\ r = 0 <=> Removable(node, p)
    /\ node' = IF r = 0 THEN [node EXCEPT ![p] = "none"] ELSE node

\* rename moves a file or a socket over a name that is free or removable.
TRename(p, q, r) ==
    LET open   == Vacant(node, q) \/ Removable(node, q)
        n      == IF open THEN [node EXCEPT ![q] = "none"] ELSE node
        moves  == open /\ Present(n, p) /\ n[p] # "dir"
    IN  /\ ret' = <<"rename", p, q, r>>
        /\ r = 0 <=> moves
        /\ node' = IF moves THEN [n EXCEPT ![q] = n[p], ![p] = "none"] ELSE n

\* The process has ended, or is started again.
TStop  == ret' = <<"panic">> /\ node' = node
TMount == ret' = <<"mount">> /\ node' = node

\* A call on path p that answers r, 0 or -1.
TCall(p, r) ==
    \/ \E op \in {"open", "stat", "change"} : TLook(op, p, r)
    \/ TCreate(p, r) \/ TUnlink(p, r)
    \/ TMake("mkdir", "dir", p, r) \/ TMake("mksock", "sock", p, r)
    \/ \E q \in Path : TRename(p, q, r)

TNext ==
    \/ ret' = <<"release", 0>> /\ node' = node
    \/ TStop \/ TMount
    \/ \E p \in Path, r \in {0, -1} :
         ret'[2] = p /\ ret'[Len(ret')] = r /\ TCall(p, r)

TSpec == TInit /\ [][TNext]_tvars
=============================================================================
