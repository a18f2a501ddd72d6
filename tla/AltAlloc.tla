------------------------------ MODULE AltAlloc ------------------------------
(***************************************************************************)
(* What the two block allocators of FSCQ are for (README.dwrite, ilist_safe *)
(* in BFile.v): a block may be written directly, in every disk a crash can *)
(* go back to, because in each of them it belongs to the same place in the *)
(* same file, or to nobody.  ds holds, for each of these disks, who has    *)
(* each block.  Blocks are taken from allocator al and given back to the   *)
(* other one; they change roles only when a single disk is left.           *)
(***************************************************************************)
EXTENDS Integers, Sequences

CONSTANTS Block, Owner

VARIABLES
    ds,   \* who has each block, in every disk a crash can go back to
    al    \* the allocator blocks are taken from

avars == <<ds, al>>

Free(a) == <<"free", a>>
Used == {<<"used", o>> : o \in Owner}
Tag == {Free(TRUE), Free(FALSE)} \cup Used
Newest == ds[Len(ds)]

AInit ==
    /\ ds \in Seq([Block -> Tag]) /\ Len(ds) = 1
    /\ al \in BOOLEAN

\* A transaction takes free blocks and gives up blocks, but never hands one on.
Moves(old, new, a) ==
    /\ new \in [Block -> Tag]
    /\ \A b \in Block :
        \/ new[b] = old[b]
        \/ old[b] = Free(a) /\ new[b] \in Used
        \/ old[b] \in Used /\ new[b] = Free(~a)

Commit(old, new) ==
    /\ new = Append(old, new[Len(new)])
    /\ Moves(old[Len(old)], new[Len(new)], al)
    /\ al' = al

\* A flush, by tree_sync, which changes the allocators' roles, or not.
Flush(old, new) ==
    /\ new = <<old[Len(old)]>>
    /\ al' \in {al, ~al}

Crash(old, new) ==
    /\ \E k \in DOMAIN old : new = <<old[k]>>
    /\ al' = TRUE

Steps(old, new) ==
    \/ new = old /\ al' = al
    \/ Commit(old, new) \/ Flush(old, new) \/ Crash(old, new)

ANext == Steps(ds, ds')

ASpec == AInit /\ [][ANext]_avars

\* Whoever has a block now had it in every disk a crash can go back to, where
\* it was not free.
OwnersStable ==
    \A k \in DOMAIN ds, b \in Block :
        Newest[b] \in Used => ds[k][b] \in {Newest[b], Free(TRUE), Free(FALSE)}
=============================================================================
