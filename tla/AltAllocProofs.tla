--------------------------- MODULE AltAllocProofs ---------------------------
(***************************************************************************)
(* Why two allocators suffice: in AltAlloc, for any set of blocks and any  *)
(* set of owners, whoever has a block now is the only one a crash can find *)
(* it with.                                                                *)
(*                                                                         *)
(* OwnersStable is not inductive: a block free in the newest disk could    *)
(* have had another owner before, and be handed out.  Stable adds that the *)
(* blocks the current allocator hands out were free in every disk, which   *)
(* holds because blocks are given back to the other allocator, and the two *)
(* change roles only when one disk is left.                                *)
(***************************************************************************)
EXTENDS AltAlloc, TLAPS

\* The disks are a nonempty sequence of tag assignments.
Shaped ==
    /\ ds \in Seq([Block -> Tag]) /\ ds # <<>>
    /\ al \in BOOLEAN

\* Stable for a sequence s and an allocator a.
StableFor(s, a) ==
    \A k \in DOMAIN s, b \in Block :
        /\ s[Len(s)][b] = Free(a) => s[k][b] = Free(a)
        /\ s[Len(s)][b] \in Used => s[k][b] \in {s[Len(s)][b], Free(a)}
Stable == StableFor(ds, al)

\* A tag that says who has a block is not one that says it is free, and the two
\* allocators' tags differ.
LEMMA TagsDiffer ==
    ASSUME NEW a \in BOOLEAN
    PROVE  Free(a) \notin Used /\ Free(a) # Free(~a) /\ Free(a) \in Tag /\ Free(~a) \in Tag
  BY DEF Free, Used, Tag

\* Alone, a disk is stable.
LEMMA OneDisk ==
    ASSUME NEW d \in [Block -> Tag], NEW a \in BOOLEAN
    PROVE  StableFor(<<d>>, a) /\ <<d>> \in Seq([Block -> Tag]) /\ <<d>> # <<>>
  BY DEF StableFor

\* The initial disk is stable.
LEMMA InitStable == AInit => Shaped /\ Stable
  BY DEF AInit, Shaped, Stable, StableFor

\* A transaction keeps the disks stable: blocks it takes were free in all of
\* them, and blocks it gives up go to the allocator that hands nothing out.
LEMMA CommitStable ==
    ASSUME NEW new, Shaped, Stable, Commit(ds, new), ds' = new
    PROVE  (Shaped /\ Stable)'
<1> DEFINE n == Len(ds)
<1>1. n \in Nat /\ n > 0 /\ ds \in Seq([Block -> Tag]) /\ ds[n] \in [Block -> Tag]
  BY DEF Shaped
<1>2. al' = al /\ al \in BOOLEAN
  BY DEF Commit, Shaped
<1>3. PICK d \in [Block -> Tag] : new = Append(ds, d) /\ Moves(ds[n], d, al)
  BY DEF Commit, Moves
<1>4. /\ new \in Seq([Block -> Tag]) /\ new # <<>> /\ Len(new) = n + 1 /\ new[n + 1] = d
      /\ DOMAIN new = 1 .. n + 1 /\ \A k \in 1 .. n : new[k] = ds[k]
  BY <1>1, <1>3
<1>5. Shaped'
  BY <1>2, <1>4 DEF Shaped
<1>6. ASSUME NEW k \in 1 .. n, NEW b \in Block
      PROVE  /\ d[b] = Free(al) => ds[k][b] = Free(al)
             /\ d[b] \in Used => ds[k][b] \in {d[b], Free(al)}
  <2>1. /\ ds[n][b] = Free(al) => ds[k][b] = Free(al)
        /\ ds[n][b] \in Used => ds[k][b] \in {ds[n][b], Free(al)}
    BY <1>1 DEF Stable, StableFor
  <2>2. \/ d[b] = ds[n][b]
        \/ ds[n][b] = Free(al) /\ d[b] \in Used
        \/ ds[n][b] \in Used /\ d[b] = Free(~al)
    BY <1>3 DEF Moves
  <2> QED BY <2>1, <2>2, <1>2, TagsDiffer
<1>7. ASSUME NEW k \in DOMAIN new, NEW b \in Block
      PROVE  /\ new[n + 1][b] = Free(al) => new[k][b] = Free(al)
             /\ new[n + 1][b] \in Used => new[k][b] \in {new[n + 1][b], Free(al)}
  <2>1. CASE k = n + 1
    BY <2>1
  <2>2. CASE k \in 1 .. n
    BY <2>2, <1>4, <1>6
  <2> QED BY <1>1, <1>4, <2>1, <2>2
<1>8. Stable'
  BY <1>2, <1>4, <1>7 DEF Stable, StableFor
<1> QED BY <1>5, <1>8

\* A flush or a crash leaves one disk, which is stable for either allocator.
LEMMA OneLeft ==
    ASSUME Shaped, NEW k \in DOMAIN ds, ds' = <<ds[k]>>, al' \in BOOLEAN
    PROVE  (Shaped /\ Stable)'
<1>1. ds[k] \in [Block -> Tag]
  BY DEF Shaped
<1> QED BY <1>1, OneDisk DEF Shaped, Stable

\* Stable is inductive.
LEMMA NextStable == Shaped /\ Stable /\ [ANext]_avars => (Shaped /\ Stable)'
<1> SUFFICES ASSUME Shaped, Stable, [ANext]_avars PROVE (Shaped /\ Stable)'
  OBVIOUS
<1>1. CASE ds' = ds /\ al' = al
  BY <1>1 DEF Shaped, Stable, StableFor
<1>2. CASE Commit(ds, ds')
  BY <1>2, CommitStable
<1>3. CASE Flush(ds, ds')
  <2>1. Len(ds) \in DOMAIN ds
    BY DEF Shaped
  <2>2. ds' = <<ds[Len(ds)]>> /\ al' \in BOOLEAN
    BY <1>3 DEF Flush, Shaped
  <2> QED BY <2>1, <2>2, OneLeft
<1>4. CASE Crash(ds, ds')
  BY <1>4, OneLeft DEF Crash
<1> QED BY <1>1, <1>2, <1>3, <1>4 DEF ANext, Steps, avars

\* For any blocks and owners, AltAlloc keeps owners stable: a block that some
\* place in a file has now is found there, or free, in every disk a crash can
\* go back to, so that a direct write to it harms no other file (README.dwrite).
THEOREM AltAllocSafe == ASpec => []OwnersStable
<1>1. Stable /\ Shaped => OwnersStable
  BY TagsDiffer DEF Stable, StableFor, Shaped, OwnersStable, Newest
<1> QED BY <1>1, InitStable, NextStable, PTL DEF ASpec
=============================================================================
