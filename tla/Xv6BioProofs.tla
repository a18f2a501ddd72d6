---------------------------- MODULE Xv6BioProofs ----------------------------
(***************************************************************************)
(* What the buffer cache of xv6 promises the log, and the log the blocks,  *)
(* for every number of buffers, blocks, contents and threads: LatestKept   *)
(* and LogComplete whatever the number of writers, NeverPanics when there  *)
(* is one.                                                                 *)
(*                                                                         *)
(* The order of the list plays no part: the proofs look at a cache only    *)
(* through the sectors it holds (Holds) and the buffer of each (Buf), and  *)
(* every operation of bio.c changes the buffer of one sector and drops at  *)
(* most buffers that may be recycled (Puts).                               *)
(***************************************************************************)
EXTENDS Xv6Bio, FiniteSetTheorems, SequenceTheorems, WellFoundedInduction, TLAPS

Buffer == [sector : Sector \cup {NoSector}, by : Writer \cup Reader \cup {Nobody, Committer},
           dirty : BOOLEAN, data : Val]

\* A list of NBUF buffers in which a block is at most once; only a buffer with a
\* block is busy or dirty.
Good(c) ==
    /\ c \in [1 .. NBUF -> Buffer]
    /\ \A i, j \in 1 .. NBUF : c[i].sector = c[j].sector /\ c[i].sector # NoSector => i = j
    /\ \A i \in 1 .. NBUF : c[i].sector = NoSector => Recyclable(c[i])

Holds(c, s) == \E i \in 1 .. NBUF : c[i].sector = s
Buf(c, s) == c[At(c, s)]

\* d is c with buffer b for sector s.
Puts(c, d, s, b) ==
    /\ Good(d) /\ Holds(d, s) /\ Buf(d, s) = b
    /\ \A t \in Sector \ {s} :
        /\ Holds(d, t) => Holds(c, t) /\ Buf(d, t) = Buf(c, t)
        /\ Holds(c, t) /\ ~Holds(d, t) => Recyclable(Buf(c, t))

Held(c, p) == {s \in Sector : Holds(c, s) /\ Buf(c, s).by = p}

-----------------------------------------------------------------------------
(* The inductive invariant. *)

\* The blocks log_write has pinned and install_trans has not yet written.
Pinned == {lh[i] : i \in {j \in 1 .. Len(lh) : step = "install" => j > tail}}

TypeInv ==
    /\ image \in [Sector -> Val] /\ latest \in [Data -> Val] /\ Good(cache)
    /\ lh \in Seq(Data) /\ Len(lh) <= LOGSIZE - 1
    /\ \A i, j \in 1 .. Len(lh) : lh[i] = lh[j] => i = j
    /\ active \in SUBSET Writer /\ IsFiniteSet(active) /\ outstanding = Cardinality(active)
    /\ step \in {"none", "wlog", "install"} /\ tail \in 0 .. Len(lh)
    /\ step = "none" => tail = 0
    /\ step # "none" => active = {}

\* The clean buffers are those of the blocks not pinned, and as on disk.
DirtyInv ==
    /\ \A s \in Sector : Holds(cache, s) /\ Buf(cache, s).dirty <=> s \in Pinned
    /\ \A s \in Sector :
        Holds(cache, s) /\ ~Buf(cache, s).dirty => Buf(cache, s).data = image[s]

\* Threads hold data blocks, writers only within a call, and commit() the log
\* block it is at.
BusyInv ==
    \A s \in Sector : Holds(cache, s) =>
        /\ Buf(cache, s).by \in Writer \cup Reader => s \in Data
        /\ Buf(cache, s).by \in Writer => Buf(cache, s).by \in active
        /\ Buf(cache, s).by = Committer => step # "none" /\ tail < Len(lh) /\ s = tail + 1

LatestInv ==
    \A s \in Data :
        latest[s] = IF Holds(cache, s) THEN Buf(cache, s).data ELSE image[s]

\* commit() copies what the blocks were last set to.
CopyInv ==
    \A i \in 1 .. Len(lh) :
        step = "install" \/ (step = "wlog" /\ i <= tail) => image[i] = latest[lh[i]]

IInv == TypeInv /\ DirtyInv /\ BusyInv /\ LatestInv /\ CopyInv

\* And with one writer: the log has the blocks of one call, and no thread holds
\* more than its share.
OneWriter == \A p, q \in Writer : p = q

OpInv ==
    /\ Len(lh) <= MAXOPBLOCKS
    /\ wrote \in [Writer -> SUBSET Data] /\ \A p \in Writer : IsFiniteSet(wrote[p])
    /\ \A p \in active : Range(lh) \subseteq wrote[p] /\ Cardinality(wrote[p]) <= MAXOPBLOCKS
    /\ step = "none" /\ active = {} => lh = <<>>

HoldInv ==
    \A p \in Writer \cup Reader : Cardinality(Held(cache, p)) <= Hold(p)

-----------------------------------------------------------------------------
(* The operations of bio.c. *)

\* What the assumptions say of the constants.
LEMMA Sizes ==
  /\ NBUF \in Nat /\ LOGSIZE \in Nat /\ MAXOPBLOCKS \in Nat
  /\ MAXOPBLOCKS >= 1 /\ MAXOPBLOCKS + 2 <= LOGSIZE
  /\ Cardinality(Reader) \in Nat /\ NBUF >= 3
  BY SizeAssumption, NamesAssumption, FS_CardinalityType

\* The log's blocks and the file system's are different sectors.
LEMMA Sectors ==
  /\ NoSector \notin Sector /\ Header \in Sector /\ Data \subseteq Sector
  /\ \A i \in 0 .. LOGSIZE - 1 : i \in Sector /\ i \notin Data
  BY Sizes, NamesAssumption DEF Sector, NoSector, Header

\* A nonempty set of naturals has a least element.
LEMMA LeastNat ==
  ASSUME NEW T, T \subseteq Nat, T # {}
  PROVE  \E m \in T : \A j \in T : m <= j
<1> DEFINE R == {ss \in Nat \X Nat : ss[1] < ss[2]}
<1>1. IsWellFoundedOn(R, Nat)
  BY NatLessThanWellFounded DEF OpToRel
<1>2. PICK m \in T : \A j \in T : ~(<<j, m>> \in R)
  BY <1>1, WFMin
<1>3. ASSUME NEW j \in T PROVE m <= j
  <2>1. j \in Nat /\ m \in Nat
    OBVIOUS
  <2>2. j < m => <<j, m>> \in R
    BY <2>1
  <2> QED BY <1>2, <2>1, <2>2
<1> QED BY <1>3

\* A set of indices, with 0, has a maximum.
LEMMA MaxIs ==
  ASSUME NEW n \in Nat, NEW T, T \subseteq 1 .. n
  PROVE  /\ Max({0} \cup T) \in {0} \cup T
         /\ \A i \in T : i <= Max({0} \cup T)
<1> DEFINE U == {0} \cup T
           B == {b \in Nat : \A i \in U : i <= b}
<1>0. U \subseteq Nat
  OBVIOUS
<1>1. n \in B
  OBVIOUS
<1>2. PICK m \in B : \A j \in B : m <= j
  <2>1. B \subseteq Nat /\ B # {}
    BY <1>1
  <2> HIDE DEF B
  <2> QED BY <2>1, LeastNat
<1>3. m \in U
  <2> SUFFICES ASSUME m \notin U PROVE FALSE
    OBVIOUS
  <2>1. m # 0 /\ m - 1 \in Nat
    OBVIOUS
  <2>2. \A i \in U : i <= m - 1
    BY <1>0
  <2>3. m - 1 \in B
    BY <2>1, <2>2
  <2> QED BY <1>2, <2>1, <2>3
<1>4. \A i \in U : m >= i
  BY <1>0
<1>5. Max(U) \in U /\ \A i \in U : Max(U) >= i
  <2> HIDE DEF U
  <2> QED BY <1>3, <1>4 DEF Max
<1> QED BY <1>0, <1>5

\* At finds the buffer of a sector.
LEMMA AtIs ==
  ASSUME NEW c, Good(c), NEW s \in Sector
  PROVE  /\ Holds(c, s) => At(c, s) \in 1 .. NBUF /\ c[At(c, s)].sector = s
         /\ \A i \in 1 .. NBUF : c[i].sector = s => At(c, s) = i
         /\ ~Holds(c, s) => At(c, s) = 0
         /\ Holds(c, s) <=> At(c, s) > 0
<1> DEFINE T == {i \in 1 .. NBUF : c[i].sector = s}
<1>1. DOMAIN c = 1 .. NBUF
  BY DEF Good
<1>2. At(c, s) = Max({0} \cup T)
  BY <1>1 DEF At
<1>3. At(c, s) \in {0} \cup T /\ \A i \in T : i <= At(c, s)
  <2>1. T \subseteq 1 .. NBUF
    OBVIOUS
  <2> HIDE DEF T
  <2> QED BY <1>2, <2>1, MaxIs, Sizes
<1>4. \A i, j \in T : i = j
  BY Sectors DEF Good
<1>5. \A i \in T : At(c, s) = i
  BY <1>3, <1>4, Sizes
<1>6. Holds(c, s) <=> T # {}
  BY DEF Holds
<1> QED BY <1>3, <1>5, <1>6, Sizes

\* So Buf is a buffer.
LEMMA BufIs ==
  ASSUME NEW c, Good(c), NEW s \in Sector, Holds(c, s)
  PROVE  /\ Buf(c, s) \in Buffer /\ Buf(c, s).sector = s
         /\ \A i \in 1 .. NBUF : c[i].sector = s => c[i] = Buf(c, s)
  BY AtIs DEF Buf, Good

\* Victim finds a buffer to recycle where there is one.
LEMMA VictimIs ==
  ASSUME NEW c, Good(c)
  PROVE  /\ Victim(c) # 0 => Victim(c) \in 1 .. NBUF /\ Recyclable(c[Victim(c)])
         /\ Victim(c) = 0 => \A i \in 1 .. NBUF : ~Recyclable(c[i])
<1> DEFINE T == {i \in 1 .. NBUF : Recyclable(c[i])}
<1>1. Victim(c) = Max({0} \cup T)
  BY DEF Victim, Good
<1>2. Victim(c) \in {0} \cup T /\ \A i \in T : i <= Victim(c)
  <2>1. T \subseteq 1 .. NBUF
    OBVIOUS
  <2> HIDE DEF T
  <2> QED BY <1>1, <2>1, MaxIs, Sizes
<1> QED BY <1>2, Sizes

\* Replacing one buffer, by one of the same sector or by one of a sector that is
\* not in the cache where it can be recycled.
LEMMA ReplaceIs ==
  ASSUME NEW c, Good(c), NEW s \in Sector, NEW k \in 1 .. NBUF,
         NEW b \in Buffer, b.sector = s,
         c[k].sector = s \/ (~Holds(c, s) /\ Recyclable(c[k])),
         NEW d, d = [c EXCEPT ![k] = b]
  PROVE  Puts(c, d, s, b)
<1>1. d \in [1 .. NBUF -> Buffer] /\ d[k] = b /\ \A i \in 1 .. NBUF : i # k => d[i] = c[i]
  BY DEF Good
<1>2. s # NoSector
  BY Sectors
<1>3. \A i \in 1 .. NBUF : i # k => c[i].sector # s
  BY <1>2 DEF Good, Holds
<1>4. Good(d)
  BY <1>1, <1>2, <1>3 DEF Good
<1>5. Holds(d, s) /\ Buf(d, s) = b
  BY <1>1, <1>4, AtIs DEF Holds, Buf
<1>6. ASSUME NEW t \in Sector \ {s}
      PROVE  /\ Holds(d, t) => Holds(c, t) /\ Buf(d, t) = Buf(c, t)
             /\ Holds(c, t) /\ ~Holds(d, t) => Recyclable(Buf(c, t))
  <2>1. ASSUME Holds(d, t) PROVE Holds(c, t) /\ Buf(d, t) = Buf(c, t)
    <3>1. PICK i \in 1 .. NBUF : d[i].sector = t
      BY <2>1 DEF Holds
    <3>2. i # k /\ d[i] = c[i]
      BY <3>1, <1>1
    <3>3. At(d, t) = i
      BY <3>1, <1>4, AtIs
    <3>4. At(c, t) = i
      BY <3>1, <3>2, AtIs
    <3> QED BY <3>1, <3>2, <3>3, <3>4 DEF Holds, Buf
  <2>2. ASSUME Holds(c, t), ~Holds(d, t) PROVE Recyclable(Buf(c, t))
    <3>1. PICK i \in 1 .. NBUF : c[i].sector = t
      BY <2>2 DEF Holds
    <3>2. i = k
      BY <3>1, <2>2, <1>1 DEF Holds
    <3>3. c[k] = Buf(c, t)
      BY <3>1, <3>2, <2>2, BufIs
    <3> QED BY <3>1, <3>2, <3>3
  <2> QED BY <2>1, <2>2
<1> QED BY <1>4, <1>5, <1>6 DEF Puts

\* bget when there is a buffer.
LEMMA BgetIs ==
  ASSUME NEW c, Good(c), NEW s \in Sector, ~NoBuffers(c, s), image \in [Sector -> Val],
         NEW p \in Writer \cup Reader \cup {Committer}
  PROVE  /\ Holds(c, s) => Puts(c, bget(c, s, p), s, [Buf(c, s) EXCEPT !.by = p])
         /\ ~Holds(c, s) => Puts(c, bget(c, s, p), s,
                [sector |-> s, by |-> p, dirty |-> FALSE, data |-> image[s]])
<1>1. CASE Holds(c, s)
  <2> DEFINE k == At(c, s)
             b == [c[k] EXCEPT !.by = p]
  <2>1. k \in 1 .. NBUF /\ c[k].sector = s /\ k > 0 /\ c[k] \in Buffer
    BY <1>1, AtIs DEF Good
  <2>2. b \in Buffer /\ b.sector = s
    BY <2>1 DEF Buffer
  <2>3. bget(c, s, p) = [c EXCEPT ![k] = b]
    BY <2>1 DEF bget
  <2> HIDE DEF k, b
  <2>4. Puts(c, bget(c, s, p), s, b)
    BY <2>1, <2>2, <2>3, ReplaceIs
  <2> QED BY <2>4, <1>1 DEF k, b, Buf
<1>2. CASE ~Holds(c, s)
  <2> DEFINE k == Victim(c)
             b == [sector |-> s, by |-> p, dirty |-> FALSE, data |-> image[s]]
  <2>1. At(c, s) = 0
    BY <1>2, AtIs
  <2>2. k \in 1 .. NBUF /\ Recyclable(c[k])
    BY <2>1, VictimIs DEF NoBuffers
  <2>3. b \in Buffer /\ b.sector = s
    BY DEF Buffer
  <2>4. bget(c, s, p) = [c EXCEPT ![k] = b]
    BY <2>1 DEF bget
  <2> HIDE DEF k, b
  <2>5. Puts(c, bget(c, s, p), s, b)
    BY <1>2, <2>2, <2>3, <2>4, ReplaceIs
  <2> QED BY <2>5, <1>2 DEF b
<1> QED BY <1>1, <1>2

\* bwrite and log_write set the data of a buffer and its flag.
LEMMA SetIs ==
  ASSUME NEW c, Good(c), NEW s \in Sector, Holds(c, s), NEW v \in Val, NEW f \in BOOLEAN
  PROVE  Puts(c, [c EXCEPT ![At(c, s)].data = v, ![At(c, s)].dirty = f], s,
              [Buf(c, s) EXCEPT !.data = v, !.dirty = f])
<1> DEFINE k == At(c, s)
           b == [c[k] EXCEPT !.data = v, !.dirty = f]
           d == [c EXCEPT ![k].data = v, ![k].dirty = f]
<1>1. k \in 1 .. NBUF /\ c[k].sector = s /\ c[k] \in Buffer /\ c \in [1 .. NBUF -> Buffer]
  BY AtIs DEF Good
<1>2. b \in Buffer /\ b.sector = s
  BY <1>1 DEF Buffer
<1>3. d = [c EXCEPT ![k] = b]
  BY <1>1
<1> HIDE DEF k, b, d
<1>4. Puts(c, d, s, b)
  BY <1>1, <1>2, <1>3, ReplaceIs
<1> QED BY <1>4 DEF k, b, d, Buf

\* Buffer k of a list moved to its head, as b.
Moved(c, k, b) == <<b>> \o Unlinked(c, k)
IsMoved(c, d, k, b) ==
    /\ d \in [1 .. NBUF -> Buffer] /\ d[1] = b
    /\ \A j \in 2 .. NBUF : d[j] = IF j <= k THEN c[j - 1] ELSE c[j]

\* Moving buffer k to the head shifts those before it by one place.
LEMMA ToHead ==
  ASSUME NEW c \in [1 .. NBUF -> Buffer], NEW k \in 1 .. NBUF, NEW b \in Buffer
  PROVE  IsMoved(c, Moved(c, k, b), k, b)
<1> DEFINE d == Moved(c, k, b)
           x == SubSeq(c, 1, k - 1)
           y == SubSeq(c, k + 1, NBUF)
           z == x \o y
<1>0. Len(c) = NBUF /\ c \in Seq(Buffer)
  BY Sizes
<1>1. x \in Seq(Buffer) /\ Len(x) = k - 1 /\ \A i \in 1 .. k - 1 : x[i] = c[i]
  BY Sizes, SubSeqProperties
<1>2. /\ y \in Seq(Buffer) /\ Len(y) = NBUF - k
      /\ \A i \in 1 .. NBUF - k : y[i] = c[k + i]
  <2>1. k + 1 \in Int /\ NBUF \in Int /\ \A i \in k + 1 .. NBUF : c[i] \in Buffer
    BY Sizes
  <2>2. /\ y \in Seq(Buffer)
        /\ Len(y) = IF k + 1 <= NBUF THEN NBUF - (k + 1) + 1 ELSE 0
        /\ \A i \in 1 .. NBUF - (k + 1) + 1 : y[i] = c[(k + 1) + i - 1]
    BY <2>1, SubSeqProperties
  <2> HIDE DEF y
  <2>3. NBUF - (k + 1) + 1 = NBUF - k /\ \A i \in Int : (k + 1) + i - 1 = k + i
    BY Sizes
  <2> QED BY <2>2, <2>3, Sizes
<1>3. Unlinked(c, k) = z
  BY DEF Unlinked
<1> HIDE DEF x, y
<1>4. /\ z \in Seq(Buffer) /\ Len(z) = NBUF - 1
      /\ \A i \in 1 .. NBUF - 1 : z[i] = IF i <= k - 1 THEN c[i] ELSE c[i + 1]
  <2>1. /\ z \in Seq(Buffer) /\ Len(z) = Len(x) + Len(y)
        /\ \A i \in 1 .. Len(x) + Len(y) : z[i] = IF i <= Len(x) THEN x[i] ELSE y[i - Len(x)]
    BY <1>1, <1>2, ConcatProperties, Zenon
  <2>2. Len(x) + Len(y) = NBUF - 1
    BY <1>1, <1>2, Sizes
  <2>3. ASSUME NEW i \in 1 .. NBUF - 1 PROVE z[i] = IF i <= k - 1 THEN c[i] ELSE c[i + 1]
    <3>1. i <= k - 1 => x[i] = c[i]
      BY <1>1
    <3>2. ~(i <= k - 1) => i - (k - 1) \in 1 .. NBUF - k /\ k + (i - (k - 1)) = i + 1
      BY Sizes
    <3>3. ~(i <= k - 1) => y[i - (k - 1)] = c[i + 1]
      BY <3>2, <1>2
    <3>4. z[i] = IF i <= k - 1 THEN x[i] ELSE y[i - (k - 1)]
      BY <2>1, <2>2, <1>1
    <3> QED BY <3>1, <3>3, <3>4
  <2> QED BY <2>1, <2>2, <2>3
<1> HIDE DEF z
<1>5. /\ d \in Seq(Buffer) /\ Len(d) = NBUF /\ d[1] = b
      /\ \A j \in 2 .. NBUF : d[j] = z[j - 1]
  <2> DEFINE u == <<b>>
  <2>1. u \in Seq(Buffer) /\ Len(u) = 1 /\ u[1] = b
    OBVIOUS
  <2>2. d = u \o z
    BY <1>3 DEF Moved
  <2> HIDE DEF u
  <2>3. /\ d \in Seq(Buffer) /\ Len(d) = Len(u) + Len(z)
        /\ \A j \in 1 .. Len(u) + Len(z) : d[j] = IF j <= Len(u) THEN u[j] ELSE z[j - Len(u)]
    <3>1. z \in Seq(Buffer) /\ u \in Seq(Buffer)
      BY <1>4, <2>1
    <3>2. /\ u \o z \in Seq(Buffer) /\ Len(u \o z) = Len(u) + Len(z)
          /\ \A j \in 1 .. Len(u) + Len(z) :
                (u \o z)[j] = IF j <= Len(u) THEN u[j] ELSE z[j - Len(u)]
      BY <3>1, ConcatProperties, Zenon
    <3> HIDE DEF d
    <3> QED BY <2>2, <3>2
  <2>4. Len(u) + Len(z) = NBUF
    BY <2>1, <1>4, Sizes
  <2> QED BY <2>1, <2>3, <2>4, Sizes
<1>6. d \in [1 .. NBUF -> Buffer]
  BY <1>5, LenProperties
<1>7. ASSUME NEW j \in 2 .. NBUF PROVE d[j] = IF j <= k THEN c[j - 1] ELSE c[j]
  <2>1. j - 1 \in 1 .. NBUF - 1 /\ (j - 1) + 1 = j /\ (j - 1 <= k - 1 <=> j <= k)
    BY Sizes
  <2> QED BY <2>1, <1>4, <1>5
<1> QED BY <1>5, <1>6, <1>7 DEF IsMoved

\* brelse.
LEMMA BrelseIs ==
  ASSUME NEW c, Good(c), NEW s \in Sector, Holds(c, s)
  PROVE  Puts(c, brelse(c, s), s, [Buf(c, s) EXCEPT !.by = Nobody])
<1> DEFINE k == At(c, s)
           b == [c[k] EXCEPT !.by = Nobody]
           d == brelse(c, s)
           was(j) == IF j = 1 THEN k ELSE IF j <= k THEN j - 1 ELSE j
           new(i) == IF i = k THEN 1 ELSE IF i < k THEN i + 1 ELSE i
<1>1. k \in 1 .. NBUF /\ c[k].sector = s /\ c[k] \in Buffer /\ c \in [1 .. NBUF -> Buffer]
  BY AtIs DEF Good
<1>2. b \in Buffer /\ b.sector = s
  BY <1>1 DEF Buffer
<1>3. d = Moved(c, k, b)
  BY DEF brelse, Moved
<1> HIDE DEF k, b, d
<1>4. /\ d \in [1 .. NBUF -> Buffer] /\ d[1] = b
      /\ \A j \in 2 .. NBUF : d[j] = IF j <= k THEN c[j - 1] ELSE c[j]
  <2>1. c \in [1 .. NBUF -> Buffer] /\ k \in 1 .. NBUF /\ b \in Buffer
    BY <1>1, <1>2
  <2>2. IsMoved(c, d, k, b)
    BY <1>3, <2>1, ToHead
  <2> QED BY <2>2 DEF IsMoved
<1>5. \A j \in 1 .. NBUF : was(j) \in 1 .. NBUF /\ (was(j) = k <=> j = 1) /\ new(was(j)) = j
  BY <1>1, Sizes
<1>6. \A i \in 1 .. NBUF : new(i) \in 1 .. NBUF /\ (new(i) = 1 <=> i = k) /\ was(new(i)) = i
  BY <1>1, Sizes
<1>7. \A j \in 1 .. NBUF : d[j] = IF j = 1 THEN b ELSE c[was(j)]
  BY <1>1, <1>4, Sizes
<1> HIDE DEF was, new
<1>8. \A j \in 1 .. NBUF : d[j].sector = c[was(j)].sector
  BY <1>1, <1>2, <1>5, <1>7
<1>9. Good(d)
  <2>1. ASSUME NEW i \in 1 .. NBUF, NEW j \in 1 .. NBUF,
               d[i].sector = d[j].sector, d[i].sector # NoSector
        PROVE  i = j
    <3>1. c[was(i)].sector = c[was(j)].sector /\ c[was(i)].sector # NoSector
      BY <1>8, <2>1
    <3>2. was(i) = was(j)
      BY <3>1, <1>5 DEF Good
    <3> QED BY <3>2, <1>5
  <2>2. ASSUME NEW i \in 1 .. NBUF, d[i].sector = NoSector PROVE Recyclable(d[i])
    <3>1. i # 1
      BY <2>2, <1>2, <1>4, Sectors
    <3> QED BY <3>1, <2>2, <1>5, <1>7 DEF Good
  <2> QED BY <1>4, <2>1, <2>2 DEF Good
<1>10. Holds(d, s) /\ Buf(d, s) = b
  <2>1. 1 \in 1 .. NBUF /\ d[1] = b
    BY <1>4, Sizes
  <2> QED BY <1>2, <1>9, <2>1, AtIs DEF Holds, Buf
<1>11. ASSUME NEW t \in Sector \ {s}
       PROVE  Holds(d, t) <=> Holds(c, t)
  BY <1>5, <1>6, <1>8 DEF Holds
<1>12. ASSUME NEW t \in Sector \ {s}, Holds(d, t)
       PROVE  Buf(d, t) = Buf(c, t)
  <2>1. PICK j \in 1 .. NBUF : d[j].sector = t
    BY <1>12 DEF Holds
  <2>2. j # 1
    BY <2>1, <1>2, <1>4
  <2>3. d[j] = c[was(j)] /\ was(j) \in 1 .. NBUF
    BY <2>2, <1>5, <1>7
  <2>4. d[j] = Buf(d, t)
    BY <2>1, <1>9, <1>12, BufIs
  <2>5. c[was(j)] = Buf(c, t)
    BY <2>1, <2>3, <1>11, <1>12, BufIs
  <2> QED BY <2>3, <2>4, <2>5
<1>13. Puts(c, d, s, b)
  BY <1>9, <1>10, <1>11, <1>12 DEF Puts
<1> QED BY <1>13 DEF d, b, k, Buf

\* bget of a block s that is in the cache, with t busy.
LEMMA BgetHit ==
  ASSUME NEW c, Good(c), NEW s \in Sector, NEW t \in Sector, s # t,
         Holds(c, s), Holds(c, t), Buf(c, t).by = Committer, image \in [Sector -> Val],
         NEW d, d = bget(c, s, Committer)
  PROVE  /\ Good(d) /\ Holds(d, s) /\ Holds(d, t)
         /\ Buf(d, s) = [Buf(c, s) EXCEPT !.by = Committer] /\ Buf(d, t) = Buf(c, t)
         /\ \A u \in Sector \ {s, t} :
              /\ Holds(d, u) => Holds(c, u) /\ Buf(d, u) = Buf(c, u)
              /\ Holds(c, u) /\ ~Holds(d, u) => Recyclable(Buf(c, u))
         /\ \A u \in {s, t} : Buf(d, u).by = Committer /\ Buf(d, u).data = Buf(c, u).data
<1>1. Committer # Nobody /\ Buf(c, s) \in Buffer /\ Buf(c, t) \in Buffer
  BY BufIs DEF Committer, Nobody
<1>2. Puts(c, d, s, [Buf(c, s) EXCEPT !.by = Committer])
  <2>1. ~NoBuffers(c, s)
    BY AtIs DEF NoBuffers
  <2> QED BY <2>1, BgetIs
<1>3. Buf(d, s) = [Buf(c, s) EXCEPT !.by = Committer]
  BY <1>2 DEF Puts
<1>4. Holds(d, t) /\ Buf(d, t) = Buf(c, t)
  BY <1>1, <1>2 DEF Puts, Recyclable
<1>5. \A u \in {s, t} : Buf(d, u).by = Committer /\ Buf(d, u).data = Buf(c, u).data
  BY <1>1, <1>3, <1>4 DEF Buffer
<1> QED BY <1>2, <1>3, <1>4, <1>5 DEF Puts

\* What a round of commit() does to a cache c, with s the block's home and t the
\* log block: the buffer for to has data v, clean, and both are released.
Rounds(c, d, s, t, from, to, v) ==
    /\ Good(d) /\ Holds(d, to)
    /\ Buf(d, to).by = Nobody /\ Buf(d, to).data = v /\ ~Buf(d, to).dirty
    /\ Holds(d, from) =>
        /\ Buf(d, from).by = Nobody /\ Buf(d, from).data = Buf(c, from).data
        /\ Buf(d, from).dirty = Buf(c, from).dirty
    /\ ~Holds(d, from) => ~Buf(c, from).dirty
    /\ \A u \in Sector \ {s, t} :
        /\ Holds(d, u) => Holds(c, u) /\ Buf(d, u) = Buf(c, u)
        /\ Holds(c, u) /\ ~Holds(d, u) => Recyclable(Buf(c, u))

\* What a round of commit() does to the cache: s and t are released, the one
\* written is clean, and no other buffer is touched unless it could be recycled.
LEMMA RoundIs ==
  ASSUME NEW c, Good(c), NEW s \in Sector, NEW t \in Sector, s # t,
         Holds(c, s), Holds(c, t), Buf(c, t).by = Committer, image \in [Sector -> Val],
         NEW to \in {s, t}, NEW from \in {s, t}, from # to, NEW v \in Val,
         NEW d, d = brelse(brelse(bwrite(bget(c, s, Committer), to, v), from), to)
  PROVE  Rounds(c, d, s, t, from, to, v)
<1> DEFINE d1 == bget(c, s, Committer)
           d2 == bwrite(d1, to, v)
           d3 == brelse(d2, from)
           b1 == [Buf(c, s) EXCEPT !.by = Committer]
<1>0. /\ to \in Sector /\ from \in Sector /\ Committer # Nobody
      /\ Buf(c, s) \in Buffer /\ Buf(c, t) \in Buffer
  BY BufIs DEF Committer, Nobody
<1>2. /\ Good(d1) /\ Holds(d1, s) /\ Holds(d1, t)
      /\ Buf(d1, s) = b1 /\ Buf(d1, t) = Buf(c, t)
      /\ \A u \in Sector \ {s, t} :
           /\ Holds(d1, u) => Holds(c, u) /\ Buf(d1, u) = Buf(c, u)
           /\ Holds(c, u) /\ ~Holds(d1, u) => Recyclable(Buf(c, u))
      /\ \A u \in {s, t} : Buf(d1, u).by = Committer
  <2> HIDE DEF d1
  <2>1. d1 = bget(c, s, Committer)
    BY DEF d1
  <2> QED BY <2>1, BgetHit
<1> HIDE DEF d1
<1>3. Holds(d1, to) /\ Holds(d1, from) /\ Buf(d1, to) \in Buffer /\ Buf(d1, from) \in Buffer
  BY <1>0, <1>2, BufIs
<1>4. Puts(d1, d2, to, [Buf(d1, to) EXCEPT !.data = v, !.dirty = FALSE])
  BY <1>0, <1>2, <1>3, SetIs DEF bwrite
<1>5. Buf(d1, to).by = Committer /\ Buf(d1, from).by = Committer
  BY <1>2
<1> HIDE DEF d2
<1>6. /\ Good(d2) /\ Holds(d2, to) /\ Holds(d2, from)
      /\ Buf(d2, to) = [Buf(d1, to) EXCEPT !.data = v, !.dirty = FALSE]
      /\ Buf(d2, from) = Buf(d1, from)
      /\ \A u \in Sector \ {s, t} :
           /\ Holds(d2, u) => Holds(d1, u) /\ Buf(d2, u) = Buf(d1, u)
           /\ Holds(d1, u) /\ ~Holds(d2, u) => Recyclable(Buf(d1, u))
  BY <1>0, <1>3, <1>4, <1>5 DEF Puts, Recyclable
<1>7. Puts(d2, d3, from, [Buf(d2, from) EXCEPT !.by = Nobody])
  BY <1>0, <1>6, BrelseIs
<1> HIDE DEF d3
<1>8. /\ Good(d3) /\ Holds(d3, to) /\ Holds(d3, from)
      /\ Buf(d3, to) = Buf(d2, to)
      /\ Buf(d3, from) = [Buf(d2, from) EXCEPT !.by = Nobody]
      /\ \A u \in Sector \ {s, t} :
           /\ Holds(d3, u) => Holds(d2, u) /\ Buf(d3, u) = Buf(d2, u)
           /\ Holds(d2, u) /\ ~Holds(d3, u) => Recyclable(Buf(d2, u))
  <2>1. Buf(d2, to).by = Committer
    BY <1>3, <1>5, <1>6 DEF Buffer
  <2> QED BY <1>0, <1>6, <1>7, <2>1 DEF Puts, Recyclable
<1>9. Puts(d3, d, to, [Buf(d3, to) EXCEPT !.by = Nobody])
  <2>1. d = brelse(d3, to)
    BY DEF d3, d2, d1
  <2> QED BY <1>0, <1>8, <2>1, BrelseIs
<1>10. Buf(d, to) = [Buf(c, to) EXCEPT !.by = Nobody, !.data = v, !.dirty = FALSE]
  <2>1. Buf(d, to) = [[Buf(d1, to) EXCEPT !.data = v, !.dirty = FALSE] EXCEPT !.by = Nobody]
    BY <1>6, <1>8, <1>9 DEF Puts
  <2>2. Buf(d1, to) = Buf(c, to) \/ Buf(d1, to) = [Buf(c, to) EXCEPT !.by = Committer]
    BY <1>2
  <2>3. Buf(c, to) \in Buffer
    BY <1>0
  <2> QED BY <2>1, <2>2, <2>3 DEF Buffer
<1>11. Buf(d3, from) = [Buf(c, from) EXCEPT !.by = Nobody]
  <2>1. Buf(d1, from) = Buf(c, from) \/ Buf(d1, from) = [Buf(c, from) EXCEPT !.by = Committer]
    BY <1>2
  <2>2. Buf(c, from) \in Buffer
    BY <1>0
  <2> QED BY <2>1, <2>2, <1>6, <1>8 DEF Buffer
<1>12. Buf(d3, from).dirty = Buf(c, from).dirty
  BY <1>0, <1>11 DEF Buffer
<1>13. Good(d) /\ Holds(d, to)
  BY <1>9 DEF Puts
<1>14. /\ Holds(d, from) => Buf(d, from) = [Buf(c, from) EXCEPT !.by = Nobody]
       /\ ~Holds(d, from) => ~Buf(c, from).dirty
  BY <1>0, <1>8, <1>9, <1>11, <1>12 DEF Puts, Recyclable
<1>15. ASSUME NEW u \in Sector \ {s, t}
       PROVE  /\ Holds(d, u) => Holds(c, u) /\ Buf(d, u) = Buf(c, u)
              /\ Holds(c, u) /\ ~Holds(d, u) => Recyclable(Buf(c, u))
  <2>1. /\ Holds(d, u) => Holds(d3, u) /\ Buf(d, u) = Buf(d3, u)
        /\ Holds(d3, u) /\ ~Holds(d, u) => Recyclable(Buf(d3, u))
    BY <1>0, <1>9 DEF Puts
  <2> HIDE DEF b1
  <2> QED BY <2>1, <1>2, <1>6, <1>8
<1>16. Buf(d, to).by = Nobody /\ Buf(d, to).data = v /\ ~Buf(d, to).dirty
  BY <1>0, <1>10 DEF Buffer
<1>17. Holds(d, from) => /\ Buf(d, from).by = Nobody /\ Buf(d, from).data = Buf(c, from).data
                         /\ Buf(d, from).dirty = Buf(c, from).dirty
  BY <1>0, <1>14 DEF Buffer
<1> QED BY <1>13, <1>14, <1>15, <1>16, <1>17 DEF Rounds

-----------------------------------------------------------------------------
(* The invariant, action by action. *)

\* The buffers a thread holds are those Held finds.
LEMMA HeldIs ==
  ASSUME Good(cache), NEW p, p # Nobody
  PROVE  HeldBy(p) = Held(cache, p)
<1>1. DOMAIN cache = 1 .. NBUF
  BY DEF Good
<1>2. HeldBy(p) = {cache[i].sector : i \in {j \in 1 .. NBUF : cache[j].by = p}}
  BY <1>1 DEF HeldBy, Range
<1>3. ASSUME NEW i \in 1 .. NBUF, cache[i].by = p
      PROVE  cache[i].sector \in Held(cache, p)
  <2>1. cache[i].sector \in Sector
    BY <1>3 DEF Good, Buffer, Recyclable
  <2>2. Holds(cache, cache[i].sector)
    BY DEF Holds
  <2>3. Buf(cache, cache[i].sector) = cache[i]
    BY <2>1, <2>2, BufIs
  <2> QED BY <1>3, <2>1, <2>2, <2>3 DEF Held
<1>4. ASSUME NEW s \in Held(cache, p)
      PROVE  \E i \in 1 .. NBUF : cache[i].by = p /\ cache[i].sector = s
  <2>1. s \in Sector /\ Holds(cache, s) /\ Buf(cache, s).by = p
    BY DEF Held
  <2>2. PICK i \in 1 .. NBUF : cache[i].sector = s
    BY <2>1 DEF Holds
  <2> QED BY <2>1, <2>2, BufIs
<1> QED BY <1>2, <1>3, <1>4

\* There are at most NBUF of them.
LEMMA HeldFinite ==
  ASSUME NEW c, Good(c), NEW p
  PROVE  IsFiniteSet(Held(c, p))
<1> DEFINE f == [s \in Held(c, p) |-> At(c, s)]
<1>1. \A s \in Held(c, p) : s \in Sector /\ At(c, s) \in 1 .. NBUF /\ c[At(c, s)].sector = s
  BY AtIs DEF Held
<1>2. f \in Injection(Held(c, p), 1 .. NBUF)
  BY <1>1 DEF Injection, IsInjective
<1>3. IsFiniteSet(1 .. NBUF)
  BY Sizes, FS_Interval
<1> HIDE DEF f
<1> QED BY <1>2, <1>3, FS_Injection

\* The pinned blocks are data blocks.
LEMMA PinnedData ==
  ASSUME TypeInv
  PROVE  Pinned \subseteq Data /\ Pinned \subseteq Sector
  BY Sectors DEF TypeInv, Pinned

\* A step that only changes who holds the buffer of s, or reads s into one.
LEMMA ReheldIs ==
  ASSUME TypeInv, DirtyInv, LatestInv, NEW s \in Sector, NEW b, Puts(cache, cache', s, b),
         Holds(cache, s) => b.dirty = Buf(cache, s).dirty /\ b.data = Buf(cache, s).data,
         ~Holds(cache, s) => b.dirty = FALSE /\ b.data = image[s],
         image' = image, latest' = latest, Pinned' = Pinned
  PROVE  DirtyInv' /\ LatestInv' /\ Good(cache')
<1>1. Good(cache')
  BY DEF Puts
<1>2. ASSUME NEW t \in Sector
      PROVE  /\ Holds(cache, t) /\ Buf(cache, t).dirty
                <=> Holds(cache', t) /\ Buf(cache', t).dirty
             /\ Holds(cache', t) /\ ~Buf(cache', t).dirty => Buf(cache', t).data = image[t]
             /\ (IF Holds(cache', t) THEN Buf(cache', t).data ELSE image[t])
                = (IF Holds(cache, t) THEN Buf(cache, t).data ELSE image[t])
  <2>1. CASE t = s
    BY <2>1 DEF Puts, DirtyInv
  <2>2. CASE t # s
    BY <2>2 DEF Puts, DirtyInv, Recyclable
  <2> QED BY <2>1, <2>2
<1>3. DirtyInv'
  BY <1>2 DEF DirtyInv
<1>4. LatestInv'
  <2>1. \A t \in Data : t \in Sector
    BY Sectors
  <2> QED BY <1>2, <2>1 DEF LatestInv
<1> QED BY <1>1, <1>3, <1>4

\* Init.
LEMMA InitOK ==
  ASSUME Init PROVE IInv
<1>1. PICK v \in Val : image = [s \in Sector |-> v] /\ cache = [i \in 1 .. NBUF |-> Unused(v)]
  BY DEF Init
<1>2. \A i \in 1 .. NBUF : cache[i] = Unused(v)
  BY <1>1
<1>3. Unused(v) \in Buffer /\ Unused(v).sector = NoSector /\ Recyclable(Unused(v))
  BY DEF Unused, Buffer, Recyclable
<1>4. Good(cache)
  BY <1>1, <1>2, <1>3 DEF Good
<1>5. \A s \in Sector : ~Holds(cache, s)
  BY <1>2, <1>3, Sectors DEF Holds
<1>6. lh = <<>> /\ step = "none" /\ tail = 0 /\ active = {} /\ outstanding = 0
  BY DEF Init
<1>7. TypeInv
  <2>1. image \in [Sector -> Val] /\ latest \in [Data -> Val]
    BY <1>1, Sectors DEF Init
  <2>2. lh \in Seq(Data) /\ Len(lh) = 0
    BY <1>6
  <2> QED BY <1>4, <1>6, <2>1, <2>2, Sizes, FS_EmptySet DEF TypeInv
<1>8. DirtyInv /\ BusyInv
  <2>1. Pinned = {}
    BY <1>6 DEF Pinned
  <2> QED BY <1>5, <2>1 DEF DirtyInv, BusyInv
<1>9. LatestInv
  BY <1>5, Sectors DEF Init, LatestInv
<1>10. CopyInv
  BY <1>6 DEF CopyInv
<1> QED BY <1>7, <1>8, <1>9, <1>10 DEF IInv

\* begin_op keeps the invariant.
LEMMA BeginOK ==
  ASSUME IInv, NEW p \in Writer, begin_op(p)
  PROVE  IInv'
<1>1. TypeInv'
  <2>1. active' = active \cup {p} /\ outstanding' = outstanding + 1 /\ p \notin active
    BY DEF begin_op
  <2>2. IsFiniteSet(active') /\ outstanding' = Cardinality(active')
    BY <2>1, FS_AddElement DEF IInv, TypeInv
  <2> QED BY <2>1, <2>2 DEF IInv, TypeInv, begin_op
<1>2. Pinned' = Pinned
  BY DEF begin_op, Pinned
<1>3. DirtyInv' /\ LatestInv' /\ CopyInv'
  BY <1>2 DEF IInv, DirtyInv, LatestInv, CopyInv, begin_op
<1>4. BusyInv'
  BY DEF IInv, BusyInv, begin_op
<1> QED BY <1>1, <1>3, <1>4 DEF IInv

\* end_op keeps the invariant: the last one out finds no buffer of a call busy.
LEMMA EndOK ==
  ASSUME IInv, NEW p \in Writer, end_op(p)
  PROVE  IInv'
<1>1. TypeInv
  BY DEF IInv
<1>2. step = "none" /\ tail = 0 /\ p \in active
  BY <1>1 DEF TypeInv, end_op
<1>3. Held(cache, p) = {}
  <2>1. p # Nobody
    BY NamesAssumption
  <2> QED BY <1>1, <2>1, HeldIs DEF TypeInv, end_op
<1>4. IsFiniteSet(active') /\ outstanding' = Cardinality(active')
  BY <1>1, <1>2, FS_RemoveElement, FS_CardinalityType DEF TypeInv, end_op
<1>5. outstanding = 1 => active' = {}
  <2>1. outstanding = 1 => Cardinality(active') = 0
    BY <1>4 DEF end_op
  <2> QED BY <1>4, <2>1, FS_EmptySet
<1>6. TypeInv'
  BY <1>1, <1>2, <1>4, <1>5 DEF TypeInv, end_op
<1>7. Pinned' = Pinned
  BY <1>2 DEF end_op, Pinned
<1>8. DirtyInv' /\ LatestInv'
  BY <1>7 DEF IInv, DirtyInv, LatestInv, end_op
<1>9. CopyInv'
  BY <1>1, <1>2 DEF CopyInv, TypeInv, end_op
<1>10. BusyInv'
  BY <1>2, <1>3 DEF IInv, BusyInv, Held, end_op
<1> QED BY <1>6, <1>8, <1>9, <1>10 DEF IInv

\* bread keeps the invariant: the buffer it recycles was clean.
LEMMA BreadOK ==
  ASSUME IInv, NEW p \in Writer \cup Reader, NEW s \in Data, bread(p, s)
  PROVE  IInv'
<1>1. TypeInv /\ DirtyInv /\ LatestInv /\ Good(cache) /\ s \in Sector /\ image \in [Sector -> Val]
  BY Sectors DEF IInv, TypeInv
<1>2. Pinned' = Pinned /\ image' = image /\ latest' = latest
  BY DEF bread, thelog, Pinned
<1> DEFINE b == IF Holds(cache, s) THEN [Buf(cache, s) EXCEPT !.by = p]
                ELSE [sector |-> s, by |-> p, dirty |-> FALSE, data |-> image[s]]
<1>3. Puts(cache, cache', s, b)
  BY <1>1, BgetIs DEF bread
<1>4. b.by = p /\ (Holds(cache, s) => b.dirty = Buf(cache, s).dirty /\ b.data = Buf(cache, s).data)
  <2>1. CASE Holds(cache, s)
    <3>1. Buf(cache, s) \in Buffer /\ b = [Buf(cache, s) EXCEPT !.by = p]
      BY <1>1, <2>1, BufIs
    <3> HIDE DEF b
    <3> QED BY <3>1 DEF Buffer
  <2>2. CASE ~Holds(cache, s)
    BY <2>2
  <2> QED BY <2>1, <2>2
<1>5. ~Holds(cache, s) => b.dirty = FALSE /\ b.data = image[s]
  OBVIOUS
<1> HIDE DEF b
<1>6. DirtyInv' /\ LatestInv' /\ Good(cache')
  BY <1>1, <1>2, <1>3, <1>4, <1>5, ReheldIs
<1>7. TypeInv'
  BY <1>1, <1>6 DEF TypeInv, bread, thelog
<1>8. BusyInv'
  <2>1. p # Committer /\ (p \in Writer => p \in active)
    BY NamesAssumption DEF bread
  <2>2. UNCHANGED <<lh, active, step, tail>>
    BY DEF bread, thelog
  <2>3. ASSUME NEW t \in Sector, Holds(cache', t)
        PROVE  /\ Buf(cache', t).by \in Writer \cup Reader => t \in Data
               /\ Buf(cache', t).by \in Writer => Buf(cache', t).by \in active
               /\ Buf(cache', t).by = Committer => step # "none" /\ tail < Len(lh) /\ t = tail + 1
    <3>1. CASE t = s
      BY <1>3, <1>4, <2>1, <3>1 DEF Puts
    <3>2. CASE t # s
      BY <1>3, <2>3, <3>2 DEF Puts, IInv, BusyInv
    <3> QED BY <3>1, <3>2
  <2> QED BY <2>2, <2>3 DEF BusyInv
<1>9. CopyInv'
  BY DEF IInv, CopyInv, bread, thelog
<1> QED BY <1>6, <1>7, <1>8, <1>9 DEF IInv

\* brelse by a call keeps the invariant.
LEMMA ReleaseOK ==
  ASSUME IInv, NEW p \in Writer \cup Reader, NEW s \in Data, Release(p, s)
  PROVE  IInv'
<1>1. TypeInv /\ DirtyInv /\ LatestInv /\ Good(cache) /\ s \in Sector
  BY Sectors DEF IInv, TypeInv
<1>2. Pinned' = Pinned /\ image' = image /\ latest' = latest
  BY DEF Release, thelog, Pinned
<1>3. Holds(cache, s)
  <2>1. p # Nobody
    BY NamesAssumption
  <2> QED BY <1>1, <2>1, HeldIs DEF Release, Held
<1> DEFINE b == [Buf(cache, s) EXCEPT !.by = Nobody]
<1>4. Puts(cache, cache', s, b)
  BY <1>1, <1>3, BrelseIs DEF Release
<1>5. b.by = Nobody /\ b.dirty = Buf(cache, s).dirty /\ b.data = Buf(cache, s).data
  BY <1>1, <1>3, BufIs DEF Buffer
<1> HIDE DEF b
<1>6. DirtyInv' /\ LatestInv' /\ Good(cache')
  BY <1>1, <1>2, <1>3, <1>4, <1>5, ReheldIs
<1>7. TypeInv'
  BY <1>1, <1>6 DEF TypeInv, Release, thelog
<1>8. BusyInv'
  <2>1. Nobody \notin Writer \cup Reader \cup {Committer}
    BY NamesAssumption DEF Nobody, Committer
  <2>2. UNCHANGED <<lh, active, step, tail>>
    BY DEF Release, thelog
  <2>3. ASSUME NEW t \in Sector, Holds(cache', t)
        PROVE  /\ Buf(cache', t).by \in Writer \cup Reader => t \in Data
               /\ Buf(cache', t).by \in Writer => Buf(cache', t).by \in active
               /\ Buf(cache', t).by = Committer => step # "none" /\ tail < Len(lh) /\ t = tail + 1
    <3>1. CASE t = s
      BY <1>4, <1>5, <2>1, <3>1 DEF Puts
    <3>2. CASE t # s
      BY <1>4, <2>3, <3>2 DEF Puts, IInv, BusyInv
    <3> QED BY <3>1, <3>2
  <2> QED BY <2>2, <2>3 DEF BusyInv
<1>9. CopyInv'
  BY DEF IInv, CopyInv, Release, thelog
<1> QED BY <1>6, <1>7, <1>8, <1>9 DEF IInv

\* log_write adds a block to lh once.
Added(q, s) == IF s \in Range(q) THEN q ELSE Append(q, s)

\* A block is added to lh at most once, and is in it then.
LEMMA AddBlock ==
  ASSUME NEW q \in Seq(Data), \A i, j \in 1 .. Len(q) : q[i] = q[j] => i = j, NEW s \in Data,
         NEW r, r = Added(q, s)
  PROVE  /\ r \in Seq(Data) /\ Len(r) <= Len(q) + 1
         /\ \A i, j \in 1 .. Len(r) : r[i] = r[j] => i = j
         /\ Range(r) = Range(q) \cup {s}
<1>1. Range(q) = {q[i] : i \in 1 .. Len(q)}
  BY DEF Range
<1>2. CASE s \in Range(q)
  BY <1>1, <1>2 DEF Added
<1>3. CASE s \notin Range(q)
  <2>1. /\ r \in Seq(Data) /\ Len(r) = Len(q) + 1 /\ Len(q) \in Nat
        /\ \A i \in 1 .. Len(q) : r[i] = q[i]
        /\ r[Len(q) + 1] = s
    BY <1>3, AppendProperties DEF Added
  <2>2. \A i \in 1 .. Len(q) : q[i] # s
    BY <1>1, <1>3
  <2>3. \A i, j \in 1 .. Len(r) : r[i] = r[j] => i = j
    BY <2>1, <2>2
  <2>4. Range(r) = Range(q) \cup {s}
    <3>1. \A i \in 1 .. Len(q) : i \in 1 .. Len(r) /\ r[i] = q[i]
      BY <2>1
    <3>2. Len(q) + 1 \in 1 .. Len(r)
      BY <2>1
    <3>3. \A i \in 1 .. Len(r) : i \in 1 .. Len(q) \/ i = Len(q) + 1
      BY <2>1
    <3>4. Range(r) = {r[i] : i \in 1 .. Len(r)}
      BY <2>1 DEF Range
    <3> QED BY <1>1, <2>1, <3>1, <3>2, <3>3, <3>4
  <2> QED BY <2>1, <2>3, <2>4
<1> QED BY <1>2, <1>3

\* log_write keeps the invariant: the block it pins is in lh.
LEMMA LogWriteOK ==
  ASSUME IInv, NEW p \in Writer, NEW s \in Data, NEW v \in Val, log_write(p, s, v)
  PROVE  IInv'
<1>1. TypeInv /\ DirtyInv /\ LatestInv /\ BusyInv /\ Good(cache) /\ s \in Sector
  BY Sectors DEF IInv, TypeInv
<1>2. p \in active /\ step = "none" /\ tail = 0 /\ step' = "none" /\ tail' = 0
  BY <1>1 DEF TypeInv, log_write
<1>3. Holds(cache, s) /\ Buf(cache, s).by = p
  <2>1. p # Nobody
    BY NamesAssumption
  <2> QED BY <1>1, <2>1, HeldIs DEF log_write, Writable, Held
<1> DEFINE b == [Buf(cache, s) EXCEPT !.data = v, !.dirty = TRUE]
<1>4. Puts(cache, cache', s, b)
  BY <1>1, <1>3, SetIs DEF log_write
<1>5. b.by = p /\ b.dirty = TRUE /\ b.data = v
  BY <1>1, <1>3, BufIs DEF Buffer
<1> HIDE DEF b
<1>6. /\ lh' \in Seq(Data) /\ Len(lh') <= Len(lh) + 1
      /\ \A i, j \in 1 .. Len(lh') : lh'[i] = lh'[j] => i = j
      /\ Range(lh') = Range(lh) \cup {s}
  <2>1. lh' = Added(lh, s)
    BY DEF log_write, Added
  <2>2. lh \in Seq(Data) /\ \A i, j \in 1 .. Len(lh) : lh[i] = lh[j] => i = j
    BY <1>1 DEF TypeInv
  <2> QED BY <2>1, <2>2, AddBlock
<1>7. TypeInv'
  <2>1. Len(lh) < LOGSIZE - 1 /\ Len(lh) \in Nat /\ Len(lh') \in Nat
    BY <1>1, <1>6, Sizes DEF log_write, TooBig, TypeInv
  <2>2. Len(lh') <= LOGSIZE - 1 /\ 0 \in 0 .. Len(lh')
    BY <2>1, <1>6, Sizes
  <2>3. image' \in [Sector -> Val] /\ latest' \in [Data -> Val] /\ Good(cache')
    BY <1>1, <1>4 DEF TypeInv, log_write, Puts
  <2>4. active' \in SUBSET Writer /\ IsFiniteSet(active') /\ outstanding' = Cardinality(active')
    BY <1>1 DEF TypeInv, log_write
  <2> QED BY <1>2, <1>6, <2>2, <2>3, <2>4 DEF TypeInv
<1>8. Pinned' = Pinned \cup {s}
  <2>1. Pinned = Range(lh)
    BY <1>1, <1>2 DEF Pinned, Range, TypeInv
  <2>2. Pinned' = Range(lh')
    BY <1>2, <1>6 DEF Pinned, Range
  <2> QED BY <2>1, <2>2, <1>6
<1>9. DirtyInv'
  <2>1. image' = image
    BY DEF log_write
  <2>2. ASSUME NEW t \in Sector
        PROVE  /\ Holds(cache', t) /\ Buf(cache', t).dirty <=> t \in Pinned \cup {s}
               /\ Holds(cache', t) /\ ~Buf(cache', t).dirty => Buf(cache', t).data = image[t]
    <3>1. CASE t = s
      BY <1>4, <1>5, <3>1 DEF Puts
    <3>2. CASE t # s
      BY <1>1, <1>4, <3>2 DEF Puts, DirtyInv, Recyclable
    <3> QED BY <3>1, <3>2
  <2> QED BY <1>8, <2>1, <2>2 DEF DirtyInv
<1>10. LatestInv'
  <2>1. image' = image /\ latest' = [latest EXCEPT ![s] = v] /\ latest \in [Data -> Val]
    BY <1>1 DEF log_write, TypeInv
  <2>2. ASSUME NEW t \in Data
        PROVE  latest'[t] = IF Holds(cache', t) THEN Buf(cache', t).data ELSE image[t]
    <3>0. t \in Sector
      BY Sectors
    <3>1. CASE t = s
      BY <1>4, <1>5, <2>1, <3>1 DEF Puts
    <3>2. CASE t # s
      BY <1>1, <1>4, <2>1, <3>0, <3>2 DEF Puts, DirtyInv, LatestInv, Recyclable
    <3> QED BY <3>1, <3>2
  <2> QED BY <2>1, <2>2 DEF LatestInv
<1>11. BusyInv'
  <2>1. p # Committer /\ active' = active
    BY NamesAssumption DEF log_write
  <2>2. ASSUME NEW t \in Sector, Holds(cache', t)
        PROVE  /\ Buf(cache', t).by \in Writer \cup Reader => t \in Data
               /\ Buf(cache', t).by \in Writer => Buf(cache', t).by \in active
               /\ Buf(cache', t).by # Committer
    <3>1. CASE t = s
      BY <1>2, <1>4, <1>5, <2>1, <3>1 DEF Puts
    <3>2. CASE t # s
      BY <1>1, <1>2, <1>4, <2>2, <3>2 DEF Puts, BusyInv
    <3> QED BY <3>1, <3>2
  <2> QED BY <2>1, <2>2 DEF BusyInv
<1>12. CopyInv'
  BY <1>2 DEF CopyInv
<1> QED BY <1>7, <1>9, <1>10, <1>11, <1>12 DEF IInv

\* Taking the buffer of a log block keeps the invariant.
LEMMA LogBlockOK ==
  ASSUME IInv, NEW at \in {"wlog", "install"}, LogBlock(at)
  PROVE  IInv'
<1> DEFINE s == tail + 1
<1>1. TypeInv /\ DirtyInv /\ LatestInv /\ BusyInv /\ Good(cache) /\ image \in [Sector -> Val]
  BY DEF IInv, TypeInv
<1>2. step # "none" /\ tail < Len(lh) /\ s \in Sector /\ s \notin Data
  <2>1. s \in 0 .. LOGSIZE - 1
    BY <1>1, Sizes DEF TypeInv, LogBlock
  <2> QED BY <2>1, Sectors DEF LogBlock
<1>3. UNCHANGED <<image, latest, lh, active, outstanding, step, tail>> /\ Pinned' = Pinned
  BY DEF LogBlock, thelog, Pinned
<1> DEFINE b == IF Holds(cache, s) THEN [Buf(cache, s) EXCEPT !.by = Committer]
                ELSE [sector |-> s, by |-> Committer, dirty |-> FALSE, data |-> image[s]]
<1>4. Puts(cache, cache', s, b)
  <2>1. ~NoBuffers(cache, s) /\ cache' = bget(cache, s, Committer)
    BY DEF LogBlock
  <2> HIDE DEF s
  <2> QED BY <1>1, <1>2, <2>1, BgetIs
<1>5. b.by = Committer
      /\ (Holds(cache, s) => b.dirty = Buf(cache, s).dirty /\ b.data = Buf(cache, s).data)
  <2>1. CASE Holds(cache, s)
    <3>1. Buf(cache, s) \in Buffer /\ b = [Buf(cache, s) EXCEPT !.by = Committer]
      BY <1>1, <1>2, <2>1, BufIs
    <3> HIDE DEF b
    <3> QED BY <3>1 DEF Buffer
  <2>2. CASE ~Holds(cache, s)
    BY <2>2
  <2> QED BY <2>1, <2>2
<1>6. ~Holds(cache, s) => b.dirty = FALSE /\ b.data = image[s]
  OBVIOUS
<1> HIDE DEF b
<1>7. DirtyInv' /\ LatestInv' /\ Good(cache')
  BY <1>1, <1>2, <1>3, <1>4, <1>5, <1>6, ReheldIs
<1>8. TypeInv'
  BY <1>1, <1>3, <1>7 DEF TypeInv
<1>9. BusyInv'
  <2>1. Committer \notin Writer \cup Reader
    BY NamesAssumption
  <2>2. ASSUME NEW t \in Sector, Holds(cache', t)
        PROVE  /\ Buf(cache', t).by \in Writer \cup Reader => t \in Data
               /\ Buf(cache', t).by \in Writer => Buf(cache', t).by \in active
               /\ Buf(cache', t).by = Committer => t = tail + 1
    <3>1. CASE t = s
      BY <1>4, <1>5, <2>1, <3>1 DEF Puts
    <3>2. CASE t # s
      BY <1>1, <1>4, <2>2, <3>2 DEF Puts, BusyInv
    <3> QED BY <3>1, <3>2
  <2> QED BY <1>2, <1>3, <2>2 DEF BusyInv
<1>10. CopyInv'
  BY <1>3 DEF IInv, CopyInv
<1> QED BY <1>7, <1>8, <1>9, <1>10 DEF IInv

\* What a round starts from: commit() holds the log block t, and the block's home
\* s is pinned.
LEMMA RoundStart ==
  ASSUME IInv, NEW at \in {"wlog", "install"}, NEW from, NEW to, Round(at, from, to),
         NEW s, s = lh[tail + 1], NEW t, t = tail + 1
  PROVE  /\ step = at /\ tail \in 0 .. Len(lh) - 1 /\ t \in 1 .. Len(lh)
         /\ s \in Data /\ s \in Sector /\ t \in Sector /\ t \notin Data /\ s # t
         /\ Holds(cache, t) /\ Buf(cache, t).by = Committer /\ ~Buf(cache, t).dirty
         /\ s \in Pinned /\ Holds(cache, s) /\ Buf(cache, s).dirty
         /\ Buf(cache, s) \in Buffer /\ Buf(cache, t) \in Buffer
         /\ Good(cache) /\ image \in [Sector -> Val]
         /\ \A u \in Sector : Holds(cache, u) /\ u # t => Buf(cache, u).by # Committer
<1>1. TypeInv /\ DirtyInv /\ BusyInv /\ Good(cache) /\ image \in [Sector -> Val]
  BY DEF IInv, TypeInv
<1>2. step = at /\ tail < Len(lh) /\ tail \in Nat /\ Len(lh) \in Nat /\ Len(lh) <= LOGSIZE - 1
  BY <1>1 DEF Round, TypeInv
<1>3. t \in 1 .. Len(lh) /\ t \in 0 .. LOGSIZE - 1 /\ t > tail /\ tail \in 0 .. Len(lh) - 1
  BY <1>2, Sizes
<1>4. s \in Data
  BY <1>1, <1>3 DEF TypeInv
<1>5. t \in Sector /\ t \notin Data /\ s \in Sector /\ s # t
  BY <1>3, <1>4, Sectors
<1>6. Holds(cache, t) /\ Buf(cache, t).by = Committer
  <2>1. Committer # Nobody
    BY DEF Committer, Nobody
  <2>2. PICK u \in Sector : Holds(cache, u) /\ Buf(cache, u).by = Committer
    BY <1>1, <2>1, HeldIs DEF Round, Held
  <2> QED BY <1>1, <2>2 DEF BusyInv
<1>7. s \in Pinned
  BY <1>3 DEF Pinned
<1>8. Holds(cache, s) /\ Buf(cache, s).dirty
  BY <1>1, <1>5, <1>7 DEF DirtyInv
<1>9. t \notin Pinned
  BY <1>1, <1>5, PinnedData
<1>10. ~Buf(cache, t).dirty
  BY <1>1, <1>5, <1>6, <1>9 DEF DirtyInv
<1>11. \A u \in Sector : Holds(cache, u) /\ u # t => Buf(cache, u).by # Committer
  BY <1>1 DEF BusyInv
<1>12. Buf(cache, s) \in Buffer /\ Buf(cache, t) \in Buffer
  BY <1>1, <1>5, <1>6, <1>8, BufIs
<1> QED BY <1>1, <1>2, <1>3, <1>4, <1>5, <1>6, <1>7, <1>8, <1>10, <1>11, <1>12

\* What a round does, to the cache and to the image.
Copies(s, t, from, to, v) ==
    /\ v \in Val /\ v = Buf(cache, from).data
    /\ image' = [image EXCEPT ![to] = v]
    /\ Rounds(cache, cache', s, t, from, to, v)

\* A round copies one buffer of the pair to the other one's block, by Rounds.
LEMMA RoundDoes ==
  ASSUME IInv, NEW at \in {"wlog", "install"},
         NEW s, s = lh[tail + 1], NEW t, t = tail + 1,
         NEW to \in {s, t}, NEW from \in {s, t}, from # to, Round(at, from, to)
  PROVE  Copies(s, t, from, to, Buf(cache, from).data)
<1>0. PICK v : v = Buf(cache, from).data
  OBVIOUS
<1>1. /\ s \in Sector /\ t \in Sector /\ s # t
      /\ Holds(cache, t) /\ Buf(cache, t).by = Committer /\ Holds(cache, s)
      /\ Buf(cache, s) \in Buffer /\ Buf(cache, t) \in Buffer
      /\ Good(cache) /\ image \in [Sector -> Val]
  BY RoundStart
<1> DEFINE d == bget(cache, s, Committer)
<1>2. Buf(d, from).data = v
  <2>1. \A u \in {s, t} : Buf(d, u).data = Buf(cache, u).data
    <3>1. d = bget(cache, s, Committer)
      OBVIOUS
    <3> HIDE DEF d
    <3> QED BY <1>1, <3>1, BgetHit
  <2> HIDE DEF d
  <2> QED BY <1>0, <2>1
<1>3. v \in Val
  BY <1>0, <1>1 DEF Buffer
<1>4. /\ cache' = brelse(brelse(bwrite(d, to, v), from), to)
      /\ image' = [image EXCEPT ![to] = v]
  <2>1. CopyIn(d, from, to)
    BY DEF Round
  <2> HIDE DEF d
  <2> QED BY <1>2, <2>1 DEF CopyIn, Copied, Buf
<1> HIDE DEF d
<1>5. cache' = brelse(brelse(bwrite(bget(cache, s, Committer), to, v), from), to)
  BY <1>4 DEF d
<1>6. Copies(s, t, from, to, v)
  <2>1. Rounds(cache, cache', s, t, from, to, v)
    BY <1>1, <1>3, <1>5, RoundIs
  <2> QED BY <1>0, <1>3, <1>4, <2>1 DEF Copies
<1> QED BY <1>0, <1>6

\* After a round commit() holds nothing, and nobody else's hold has changed.
LEMMA RoundBusy ==
  ASSUME IInv, NEW at \in {"wlog", "install"},
         NEW s, s = lh[tail + 1], NEW t, t = tail + 1,
         NEW to \in {s, t}, NEW from \in {s, t}, from # to, Round(at, from, to)
  PROVE  BusyInv'
<1>1. /\ s \in Sector /\ t \in Sector
      /\ \A u \in Sector : Holds(cache, u) /\ u # t => Buf(cache, u).by # Committer
  BY RoundStart
<1>2. /\ Buf(cache', to).by = Nobody
      /\ Holds(cache', from) => Buf(cache', from).by = Nobody
      /\ \A u \in Sector \ {s, t} : Holds(cache', u) => Holds(cache, u) /\ Buf(cache', u) = Buf(cache, u)
  <2>1. Copies(s, t, from, to, Buf(cache, from).data)
    BY RoundDoes
  <2> QED BY <2>1 DEF Copies, Rounds
<1>3. Nobody \notin Writer \cup Reader \cup {Committer}
  BY NamesAssumption DEF Nobody, Committer
<1>4. ASSUME NEW u \in Sector, Holds(cache', u)
      PROVE  /\ Buf(cache', u).by \in Writer \cup Reader => u \in Data
             /\ Buf(cache', u).by \in Writer => Buf(cache', u).by \in active
             /\ Buf(cache', u).by # Committer
  <2>1. CASE u \in {s, t}
    BY <1>2, <1>3, <1>4, <2>1
  <2>2. CASE u \notin {s, t}
    BY <1>1, <1>2, <1>4, <2>2 DEF IInv, BusyInv
  <2> QED BY <2>1, <2>2
<1>5. active' = active
  BY DEF Round
<1> QED BY <1>4, <1>5 DEF BusyInv

\* And the types stay.
LEMMA RoundType ==
  ASSUME IInv, NEW at \in {"wlog", "install"}, NEW from, NEW to, Round(at, from, to),
         Good(cache'), image' \in [Sector -> Val]
  PROVE  TypeInv'
<1>1. TypeInv /\ step = at /\ tail < Len(lh) /\ tail' = tail + 1
  BY DEF IInv, Round
<1>2. tail' \in 0 .. Len(lh)
  BY <1>1 DEF TypeInv
<1> QED BY <1>1, <1>2 DEF TypeInv, Round

\* write_log keeps the invariant: the log has what the home's buffer holds.
LEMMA WriteLogOK ==
  ASSUME IInv, write_log PROVE IInv'
<1>0. PICK s : s = lh[tail + 1]
  OBVIOUS
<1>1. PICK t : t = tail + 1
  OBVIOUS
<1>2. PICK v : v = Buf(cache, s).data
  OBVIOUS
<1>3. Round("wlog", s, t)
  BY <1>0, <1>1 DEF write_log
<1>4. /\ step = "wlog" /\ tail \in 0 .. Len(lh) - 1 /\ t \in 1 .. Len(lh)
      /\ s \in Data /\ s \in Sector /\ t \in Sector /\ t \notin Data /\ s # t
      /\ Holds(cache, t) /\ ~Buf(cache, t).dirty
      /\ Holds(cache, s) /\ Buf(cache, s).dirty
  BY <1>0, <1>1, <1>3, RoundStart
<1>5. /\ v \in Val /\ image' = [image EXCEPT ![t] = v]
      /\ Good(cache') /\ Holds(cache', t)
      /\ Buf(cache', t).data = v /\ ~Buf(cache', t).dirty
      /\ Holds(cache', s) => Buf(cache', s).data = v /\ Buf(cache', s).dirty = Buf(cache, s).dirty
      /\ ~Holds(cache', s) => ~Buf(cache, s).dirty
      /\ \A u \in Sector \ {s, t} :
           /\ Holds(cache', u) => Holds(cache, u) /\ Buf(cache', u) = Buf(cache, u)
           /\ Holds(cache, u) /\ ~Holds(cache', u) => Recyclable(Buf(cache, u))
  <2>1. Copies(s, t, s, t, v)
    BY <1>0, <1>1, <1>2, <1>3, <1>4, RoundDoes
  <2> QED BY <2>1 DEF Copies, Rounds
<1>6. UNCHANGED <<lh, step, latest>> /\ tail' = tail + 1
  BY <1>3 DEF Round
<1>7. image \in [Sector -> Val] /\ latest \in [Data -> Val] /\ lh \in Seq(Data) /\ Len(lh) \in Nat
      /\ Len(lh) <= LOGSIZE - 1
  BY DEF IInv, TypeInv
<1>8. image'[t] = v /\ \A u \in Sector : u # t => image'[u] = image[u]
  BY <1>4, <1>5, <1>7
<1>9. TypeInv'
  <2>1. image' \in [Sector -> Val]
    BY <1>5, <1>7
  <2> QED BY <1>3, <1>5, <2>1, RoundType
<1>10. BusyInv'
  BY <1>0, <1>1, <1>3, <1>4, RoundBusy
<1>11. DirtyInv'
  <2>1. Pinned' = Pinned
    BY <1>4, <1>6 DEF Pinned
  <2>2. t \notin Pinned
    BY <1>4, PinnedData DEF IInv
  <2>3. DirtyInv
    BY DEF IInv
  <2>4. ASSUME NEW u \in Sector
        PROVE  /\ Holds(cache', u) /\ Buf(cache', u).dirty <=> u \in Pinned
               /\ Holds(cache', u) /\ ~Buf(cache', u).dirty => Buf(cache', u).data = image'[u]
    <3>1. CASE u = t
      BY <1>5, <1>8, <2>2, <3>1
    <3>2. CASE u = s
      <4>1. Holds(cache', s) /\ Buf(cache', s).dirty
        BY <1>4, <1>5
      <4>2. s \in Pinned
        BY <1>4, <2>3 DEF DirtyInv
      <4> QED BY <3>2, <4>1, <4>2
    <3>3. CASE u \notin {s, t}
      <4>1. /\ Holds(cache, u) /\ Buf(cache, u).dirty <=> u \in Pinned
            /\ Holds(cache, u) /\ ~Buf(cache, u).dirty => Buf(cache, u).data = image[u]
        BY <2>3 DEF DirtyInv
      <4>2. /\ Holds(cache', u) => Holds(cache, u) /\ Buf(cache', u) = Buf(cache, u)
            /\ Holds(cache, u) /\ ~Holds(cache', u) => ~Buf(cache, u).dirty
        BY <1>5, <3>3 DEF Recyclable
      <4>3. image'[u] = image[u]
        BY <1>8, <3>3
      <4> QED BY <4>1, <4>2, <4>3
    <3> QED BY <3>1, <3>2, <3>3
  <2> QED BY <2>1, <2>4 DEF DirtyInv
<1>12. LatestInv'
  <2>1. LatestInv /\ DirtyInv
    BY DEF IInv
  <2>2. ASSUME NEW u \in Data
        PROVE  latest[u] = IF Holds(cache', u) THEN Buf(cache', u).data ELSE image'[u]
    <3>1. u \in Sector /\ u # t
      BY <1>4, Sectors
    <3>2. CASE u = s
      BY <1>2, <1>4, <1>5, <2>1, <3>2 DEF LatestInv
    <3>3. CASE u # s
      BY <1>5, <1>8, <2>1, <3>1, <3>3 DEF LatestInv, DirtyInv, Recyclable
    <3> QED BY <3>2, <3>3
  <2> QED BY <1>6, <2>2 DEF LatestInv
<1>13. CopyInv'
  <2>1. latest[s] = v
    BY <1>2, <1>4 DEF IInv, LatestInv
  <2>2. ASSUME NEW i \in 1 .. Len(lh), i <= tail + 1 PROVE image'[i] = latest[lh[i]]
    <3>1. i \in Sector
      BY <1>7, Sectors, Sizes
    <3>2. CASE i = t
      BY <1>0, <1>1, <1>8, <2>1, <3>2
    <3>3. CASE i # t
      <4>1. i <= tail
        BY <1>1, <1>4, <2>2, <3>3
      <4>2. image[i] = latest[lh[i]]
        BY <1>4, <4>1 DEF IInv, CopyInv
      <4> QED BY <1>8, <3>1, <3>3, <4>2
    <3> QED BY <3>2, <3>3
  <2> QED BY <1>4, <1>6, <2>2 DEF CopyInv
<1> QED BY <1>9, <1>10, <1>11, <1>12, <1>13 DEF IInv

\* install_trans keeps the invariant: what reaches home is what was last written.
LEMMA InstallOK ==
  ASSUME IInv, install_trans PROVE IInv'
<1>0. PICK s : s = lh[tail + 1]
  OBVIOUS
<1>1. PICK t : t = tail + 1
  OBVIOUS
<1>2. PICK v : v = Buf(cache, t).data
  OBVIOUS
<1>3. Round("install", t, s)
  BY <1>0, <1>1 DEF install_trans
<1>4. /\ step = "install" /\ tail \in 0 .. Len(lh) - 1 /\ t \in 1 .. Len(lh)
      /\ s \in Data /\ s \in Sector /\ t \in Sector /\ t \notin Data /\ s # t
      /\ Holds(cache, t) /\ ~Buf(cache, t).dirty
      /\ Holds(cache, s) /\ Buf(cache, s).dirty /\ s \in Pinned
  BY <1>0, <1>1, <1>3, RoundStart
<1>5. /\ v \in Val /\ image' = [image EXCEPT ![s] = v]
      /\ Good(cache') /\ Holds(cache', s)
      /\ Buf(cache', s).data = v /\ ~Buf(cache', s).dirty
      /\ Holds(cache', t) => Buf(cache', t).data = v /\ Buf(cache', t).dirty = Buf(cache, t).dirty
      /\ \A u \in Sector \ {s, t} :
           /\ Holds(cache', u) => Holds(cache, u) /\ Buf(cache', u) = Buf(cache, u)
           /\ Holds(cache, u) /\ ~Holds(cache', u) => Recyclable(Buf(cache, u))
  <2>1. Copies(s, t, t, s, v)
    BY <1>0, <1>1, <1>2, <1>3, <1>4, RoundDoes
  <2> QED BY <2>1 DEF Copies, Rounds
<1>6. UNCHANGED <<lh, step, latest>> /\ tail' = tail + 1
  BY <1>3 DEF Round
<1>7. /\ image \in [Sector -> Val] /\ latest \in [Data -> Val] /\ lh \in Seq(Data) /\ Len(lh) \in Nat
      /\ Len(lh) <= LOGSIZE - 1 /\ \A i, j \in 1 .. Len(lh) : lh[i] = lh[j] => i = j
  BY DEF IInv, TypeInv
<1>8. image'[s] = v /\ \A u \in Sector : u # s => image'[u] = image[u]
  BY <1>4, <1>5, <1>7
<1>9. TypeInv'
  <2>1. image' \in [Sector -> Val]
    BY <1>5, <1>7
  <2> QED BY <1>3, <1>5, <2>1, RoundType
<1>10. BusyInv'
  BY <1>0, <1>1, <1>3, <1>4, RoundBusy
\* The log block has what s was last set to.
<1>11. v = image[t] /\ v = latest[s]
  <2>1. v = image[t]
    BY <1>2, <1>4 DEF IInv, DirtyInv
  <2>2. image[t] = latest[lh[t]]
    BY <1>4 DEF IInv, CopyInv
  <2> QED BY <1>0, <1>1, <2>1, <2>2
<1>12. DirtyInv'
  <2>1. Pinned' = Pinned \ {s}
    <3>1. \A i \in 1 .. Len(lh) : i > tail + 1 <=> i > tail /\ lh[i] # s
      BY <1>0, <1>1, <1>4, <1>7
    <3>2. Pinned = {lh[i] : i \in {j \in 1 .. Len(lh) : j > tail}}
      BY <1>4 DEF Pinned
    <3>3. Pinned' = {lh[i] : i \in {j \in 1 .. Len(lh) : j > tail + 1}}
      BY <1>4, <1>6 DEF Pinned
    <3> QED BY <3>1, <3>2, <3>3
  <2>2. t \notin Pinned
    BY <1>4, PinnedData DEF IInv
  <2>3. DirtyInv
    BY DEF IInv
  <2>4. ASSUME NEW u \in Sector
        PROVE  /\ Holds(cache', u) /\ Buf(cache', u).dirty <=> u \in Pinned \ {s}
               /\ Holds(cache', u) /\ ~Buf(cache', u).dirty => Buf(cache', u).data = image'[u]
    <3>1. CASE u = t
      BY <1>4, <1>5, <1>8, <1>11, <2>2, <3>1
    <3>2. CASE u = s
      BY <1>5, <1>8, <3>2
    <3>3. CASE u \notin {s, t}
      BY <1>5, <1>8, <2>3, <3>3 DEF DirtyInv, Recyclable
    <3> QED BY <3>1, <3>2, <3>3
  <2> QED BY <2>1, <2>4 DEF DirtyInv
<1>13. LatestInv'
  <2>1. LatestInv /\ DirtyInv
    BY DEF IInv
  <2>2. ASSUME NEW u \in Data
        PROVE  latest[u] = IF Holds(cache', u) THEN Buf(cache', u).data ELSE image'[u]
    <3>1. u \in Sector /\ u # t
      BY <1>4, Sectors
    <3>2. CASE u = s
      BY <1>5, <1>11, <3>2
    <3>3. CASE u # s
      BY <1>5, <1>8, <2>1, <3>1, <3>3 DEF LatestInv, DirtyInv, Recyclable
    <3> QED BY <3>2, <3>3
  <2> QED BY <1>6, <2>2 DEF LatestInv
<1>14. CopyInv'
  <2>1. ASSUME NEW i \in 1 .. Len(lh) PROVE image'[i] = latest[lh[i]]
    <3>1. i \in Sector /\ i \notin Data
      BY <1>7, Sectors, Sizes
    <3>2. image[i] = latest[lh[i]]
      BY <1>4 DEF IInv, CopyInv
    <3> QED BY <1>4, <1>8, <3>1, <3>2
  <2> QED BY <1>6, <2>1 DEF CopyInv
<1> QED BY <1>9, <1>10, <1>12, <1>13, <1>14 DEF IInv

\* bget and brelse of one block: it is released, as it was or as it is on disk.
Passes(c, d, s, b) ==
    /\ Puts(c, d, s, b) /\ b.by = Nobody
    /\ Holds(c, s) => b.dirty = Buf(c, s).dirty /\ b.data = Buf(c, s).data
    /\ ~Holds(c, s) => b.dirty = FALSE /\ b.data = image[s]

\* Taking and releasing a buffer leaves it with nobody, and its content alone.
LEMMA PassIs ==
  ASSUME NEW c, Good(c), NEW s \in Sector, ~NoBuffers(c, s), image \in [Sector -> Val]
  PROVE  \E b : Passes(c, brelse(bget(c, s, Committer), s), s, b)
<1> DEFINE d == brelse(bget(c, s, Committer), s)
<1> DEFINE e == bget(c, s, Committer)
           b1 == IF Holds(c, s) THEN [Buf(c, s) EXCEPT !.by = Committer]
                 ELSE [sector |-> s, by |-> Committer, dirty |-> FALSE, data |-> image[s]]
           b == [b1 EXCEPT !.by = Nobody]
<1>1. Puts(c, e, s, b1)
  BY BgetIs
<1> HIDE DEF e
<1>2. Good(e) /\ Holds(e, s) /\ Buf(e, s) = b1
  BY <1>1 DEF Puts
<1>3. b1 \in Buffer /\ (Holds(c, s) => b1.dirty = Buf(c, s).dirty /\ b1.data = Buf(c, s).data)
  <2>1. CASE Holds(c, s)
    <3>1. Buf(c, s) \in Buffer /\ b1 = [Buf(c, s) EXCEPT !.by = Committer]
      BY <2>1, BufIs
    <3> HIDE DEF b1
    <3> QED BY <3>1 DEF Buffer
  <2>2. CASE ~Holds(c, s)
    BY <2>2 DEF Buffer
  <2> QED BY <2>1, <2>2
<1>4. ~Holds(c, s) => b1.dirty = FALSE /\ b1.data = image[s]
  OBVIOUS
<1> HIDE DEF b1
<1>5. Puts(e, d, s, b)
  <2>1. d = brelse(e, s)
    BY DEF e
  <2> HIDE DEF d
  <2> QED BY <1>2, <2>1, BrelseIs
<1> HIDE DEF d
<1>6. b.by = Nobody /\ b.dirty = b1.dirty /\ b.data = b1.data
  BY <1>3 DEF Buffer
<1> HIDE DEF b
<1>7. Puts(c, d, s, b)
  BY <1>1, <1>5 DEF Puts
<1>8. Passes(c, d, s, b)
  BY <1>3, <1>4, <1>6, <1>7 DEF Passes
<1> QED BY <1>8 DEF d

\* write_head keeps the invariant: after write_log nothing but the step changes,
\* and after install_trans no buffer is dirty any more.
LEMMA WriteHeadOK ==
  ASSUME IInv,
         \/ write_head("wlog", "install", Len(lh))
         \/ write_head("install", "none", 0)
  PROVE  IInv'
<1>1. TypeInv /\ DirtyInv /\ BusyInv /\ LatestInv /\ CopyInv
      /\ Good(cache) /\ image \in [Sector -> Val] /\ lh \in Seq(Data) /\ Len(lh) \in Nat
  BY DEF IInv, TypeInv
<1>2. /\ image' = image /\ latest' = latest /\ outstanding' = outstanding /\ active' = active
      /\ tail = Len(lh) /\ tail' = 0 /\ ~NoBuffers(cache, Header)
      /\ cache' = brelse(bget(cache, Header, Committer), Header)
  BY DEF write_head
<1>3. \/ step = "wlog" /\ step' = "install" /\ lh' = lh
      \/ step = "install" /\ step' = "none" /\ lh' = <<>>
  <2>1. SubSeq(lh, 1, Len(lh)) = lh
    BY <1>1, SubSeqFull
  <2>2. SubSeq(lh, 1, 0) = <<>>
    BY SubSeqEmpty
  <2> QED BY <2>1, <2>2 DEF write_head
<1>4. Pinned' = Pinned
  <2>1. CASE step = "wlog" /\ step' = "install" /\ lh' = lh
    <3>1. {j \in 1 .. Len(lh) : j > 0} = 1 .. Len(lh)
      BY <1>1
    <3>2. Pinned = {lh[i] : i \in 1 .. Len(lh)}
      BY <2>1 DEF Pinned
    <3>3. Pinned' = {lh[i] : i \in {j \in 1 .. Len(lh) : j > 0}}
      BY <1>2, <2>1 DEF Pinned
    <3> QED BY <3>1, <3>2, <3>3
  <2>2. CASE step = "install" /\ step' = "none" /\ lh' = <<>>
    <3>0. \A j \in 1 .. Len(lh) : ~(j > tail)
      BY <1>1, <1>2
    <3>1. Pinned = {}
      BY <2>2, <3>0 DEF Pinned
    <3>2. Pinned' = {}
      BY <2>2 DEF Pinned
    <3> QED BY <3>1, <3>2
  <2> QED BY <1>3, <2>1, <2>2
<1>5. PICK b : Passes(cache, cache', Header, b)
  BY <1>1, <1>2, Sectors, PassIs
<1>6. DirtyInv' /\ LatestInv' /\ Good(cache')
  BY <1>1, <1>2, <1>4, <1>5, Sectors, ReheldIs DEF Passes
<1>7. TypeInv'
  <2>1. active = {}
    BY <1>1, <1>3 DEF TypeInv
  <2>2. /\ lh' \in Seq(Data) /\ Len(lh') <= LOGSIZE - 1 /\ 0 \in 0 .. Len(lh')
        /\ \A i, j \in 1 .. Len(lh') : lh'[i] = lh'[j] => i = j
    <3>1. CASE lh' = lh
      BY <1>1, <3>1 DEF TypeInv
    <3>2. CASE lh' = <<>>
      BY <3>2, Sizes
    <3> QED BY <1>3, <3>1, <3>2
  <2> QED BY <1>1, <1>2, <1>3, <1>6, <2>1, <2>2 DEF TypeInv
<1>8. BusyInv'
  <2>1. Nobody \notin Writer \cup Reader \cup {Committer}
    BY NamesAssumption DEF Nobody, Committer
  <2>2. ASSUME NEW t \in Sector, Holds(cache', t)
        PROVE  /\ Buf(cache', t).by \in Writer \cup Reader => t \in Data
               /\ Buf(cache', t).by \in Writer => Buf(cache', t).by \in active
               /\ Buf(cache', t).by # Committer
    <3>1. CASE t = Header
      BY <1>5, <2>1, <3>1 DEF Puts, Passes
    <3>2. CASE t # Header
      <4>1. Holds(cache, t) /\ Buf(cache', t) = Buf(cache, t)
        BY <1>5, <2>2, <3>2 DEF Puts, Passes
      <4>2. Buf(cache, t).by # Committer
        BY <1>1, <1>2, <4>1 DEF BusyInv
      <4> QED BY <1>1, <4>1, <4>2 DEF BusyInv
    <3> QED BY <3>1, <3>2
  <2> QED BY <1>2, <2>2 DEF BusyInv
<1>9. CopyInv'
  BY <1>1, <1>2, <1>3 DEF CopyInv
<1> QED BY <1>6, <1>7, <1>8, <1>9 DEF IInv

\* Every step keeps the invariant.
LEMMA NextOK ==
  ASSUME IInv, [Next]_vars PROVE IInv'
<1>1. CASE \E p \in Writer : begin_op(p) \/ end_op(p)
  BY <1>1, BeginOK, EndOK
<1>2. CASE \E p \in Writer \cup Reader, s \in Data : bread(p, s) \/ Release(p, s)
  BY <1>2, BreadOK, ReleaseOK
<1>3. CASE \E p \in Writer, s \in Data, v \in Val : log_write(p, s, v)
  BY <1>3, LogWriteOK
<1>4. CASE LogBlock("wlog") \/ LogBlock("install")
  BY <1>4, LogBlockOK
<1>5. CASE write_log
  BY <1>5, WriteLogOK
<1>6. CASE install_trans
  BY <1>6, InstallOK
<1>7. CASE write_head("wlog", "install", Len(lh)) \/ write_head("install", "none", 0)
  BY <1>7, WriteHeadOK
<1>8. CASE UNCHANGED vars
  <2>1. Pinned' = Pinned
    BY <1>8 DEF vars, thelog, Pinned
  <2> QED BY <1>8, <2>1 DEF vars, thelog, IInv, TypeInv, DirtyInv, BusyInv, LatestInv, CopyInv
<1> QED BY <1>1, <1>2, <1>3, <1>4, <1>5, <1>6, <1>7, <1>8 DEF Next

\* The invariant holds in every state.
THEOREM Invariant == Spec => []IInv
<1>1. Init => IInv
  BY InitOK
<1>2. IInv /\ [Next]_vars => IInv'
  BY NextOK
<1> QED BY <1>1, <1>2, PTL DEF Spec

\* A block reads as it was last set, whatever buffers have been recycled
\* (LatestKept), with any number of writers and readers.
THEOREM Latest == Spec => []LatestKept
<1>1. IInv => LatestKept
  BY AtIs, Sectors DEF IInv, TypeInv, LatestInv, LatestKept, Contents, Buf
<1> QED BY <1>1, Invariant, PTL

\* When the header commits, and until it is erased, the log has what the
\* transaction last wrote (LogComplete), with any number of writers and readers.
THEOREM Complete == Spec => []LogComplete
<1>1. IInv => LogComplete
  BY DEF IInv, TypeInv, CopyInv, LogComplete
<1> QED BY <1>1, Invariant, PTL

-----------------------------------------------------------------------------
(* One writer: there is always a buffer, and room in the log. *)

JInv == IInv /\ OpInv /\ HoldInv

\* A thread holds no more than before unless it is given the buffer.
LEMMA HeldPuts ==
  ASSUME NEW c, Good(c), NEW d, NEW s \in Sector, NEW b, Puts(c, d, s, b), NEW q
  PROVE  /\ Held(d, q) \subseteq Held(c, q) \cup {s}
         /\ b.by # q => Held(d, q) \subseteq Held(c, q)
  BY DEF Puts, Held

\* Nobody holds too many buffers when nobody has taken one.
LEMMA HoldShrinks ==
  ASSUME Good(cache), HoldInv, \A q \in Writer \cup Reader : Held(cache', q) \subseteq Held(cache, q)
  PROVE  HoldInv'
<1> SUFFICES ASSUME NEW q \in Writer \cup Reader
             PROVE  Cardinality(Held(cache', q)) <= Hold(q)
  BY DEF HoldInv
<1>1. IsFiniteSet(Held(cache, q)) /\ Held(cache', q) \in SUBSET Held(cache, q)
  BY HeldFinite
<1>2. /\ Cardinality(Held(cache', q)) <= Cardinality(Held(cache, q))
      /\ Cardinality(Held(cache, q)) \in Nat /\ Cardinality(Held(cache', q)) \in Nat
  BY <1>1, FS_Subset, FS_CardinalityType
<1>3. Cardinality(Held(cache, q)) <= Hold(q) /\ Hold(q) \in Nat
  BY DEF HoldInv, Hold
<1> QED BY <1>2, <1>3

\* bread takes one buffer, and only when it is allowed another.
LEMMA HoldBread ==
  ASSUME IInv, HoldInv, NEW p \in Writer \cup Reader, NEW s \in Data, bread(p, s)
  PROVE  HoldInv'
<1>1. Good(cache) /\ s \in Sector /\ image \in [Sector -> Val]
  BY Sectors DEF IInv, TypeInv
<1>2. PICK b : Puts(cache, cache', s, b) /\ b.by = p
  <2>1. CASE Holds(cache, s)
    <3>1. Puts(cache, cache', s, [Buf(cache, s) EXCEPT !.by = p])
      BY <1>1, <2>1, BgetIs DEF bread
    <3>2. [Buf(cache, s) EXCEPT !.by = p].by = p
      BY <1>1, <2>1, BufIs DEF Buffer
    <3> QED BY <3>1, <3>2
  <2>2. CASE ~Holds(cache, s)
    <3>1. Puts(cache, cache', s, [sector |-> s, by |-> p, dirty |-> FALSE, data |-> image[s]])
      BY <1>1, <2>2, BgetIs DEF bread
    <3> QED BY <3>1
  <2> QED BY <2>1, <2>2
<1> SUFFICES ASSUME NEW q \in Writer \cup Reader
             PROVE  Cardinality(Held(cache', q)) <= Hold(q)
  BY DEF HoldInv
<1>3. IsFiniteSet(Held(cache, q)) /\ Cardinality(Held(cache, q)) \in Nat
  BY <1>1, HeldFinite, FS_CardinalityType
<1>4. Hold(q) \in Nat /\ Cardinality(Held(cache, q)) <= Hold(q)
  BY DEF HoldInv, Hold
<1>5. CASE q = p
  <2>1. Held(cache', q) \in SUBSET (Held(cache, q) \cup {s})
    BY <1>1, <1>2, HeldPuts
  <2>2. IsFiniteSet(Held(cache, q) \cup {s})
        /\ Cardinality(Held(cache, q) \cup {s}) <= Cardinality(Held(cache, q)) + 1
        /\ Cardinality(Held(cache, q) \cup {s}) \in Nat
    <3>1. /\ IsFiniteSet(Held(cache, q) \cup {s})
          /\ Cardinality(Held(cache, q) \cup {s})
               = IF s \in Held(cache, q) THEN Cardinality(Held(cache, q))
                 ELSE Cardinality(Held(cache, q)) + 1
      BY <1>3, FS_AddElement, Zenon
    <3> QED BY <1>3, <3>1
  <2>3. /\ Cardinality(Held(cache', q)) <= Cardinality(Held(cache, q) \cup {s})
        /\ Cardinality(Held(cache', q)) \in Nat
    BY <2>1, <2>2, FS_Subset, FS_CardinalityType
  <2>4. Cardinality(Held(cache, q)) < Hold(q)
    <3>1. p # Nobody
      BY NamesAssumption
    <3> QED BY <1>1, <1>5, <3>1, HeldIs DEF bread
  <2> QED BY <1>3, <1>4, <2>2, <2>3, <2>4
<1>6. CASE q # p
  <2>1. Held(cache', q) \in SUBSET Held(cache, q)
    BY <1>1, <1>2, <1>6, HeldPuts
  <2>2. /\ Cardinality(Held(cache', q)) <= Cardinality(Held(cache, q))
        /\ Cardinality(Held(cache', q)) \in Nat
    BY <1>3, <2>1, FS_Subset, FS_CardinalityType
  <2> QED BY <1>3, <1>4, <2>2
<1> QED BY <1>5, <1>6

\* A thread gives up what it holds by itself only.
LEMMA HoldOthers ==
  ASSUME IInv,
         \/ \E p \in Writer \cup Reader, s \in Data : Release(p, s)
         \/ \E p \in Writer, s \in Data, v \in Val : log_write(p, s, v)
         \/ LogBlock("wlog") \/ LogBlock("install") \/ write_log \/ install_trans
         \/ write_head("wlog", "install", Len(lh)) \/ write_head("install", "none", 0),
         NEW q \in Writer \cup Reader
  PROVE  Held(cache', q) \subseteq Held(cache, q)
<1>1. Good(cache) /\ image \in [Sector -> Val] /\ Data \subseteq Sector
  BY Sectors DEF IInv, TypeInv
<1>2. q # Nobody /\ q # Committer
  BY NamesAssumption
<1>3. ASSUME NEW p \in Writer \cup Reader, NEW s \in Data, Release(p, s)
      PROVE  Held(cache', q) \subseteq Held(cache, q)
  <2>1. p # Nobody
    BY NamesAssumption
  <2>2. s \in Sector /\ Holds(cache, s)
    BY <1>1, <1>3, <2>1, HeldIs DEF Release, Held
  <2>0. PICK b : b = [Buf(cache, s) EXCEPT !.by = Nobody]
    OBVIOUS
  <2>3. Puts(cache, cache', s, b)
    BY <1>1, <1>3, <2>0, <2>2, BrelseIs DEF Release
  <2>4. b.by = Nobody
    BY <1>1, <2>0, <2>2, BufIs DEF Buffer
  <2> QED BY <1>1, <1>2, <2>2, <2>3, <2>4, HeldPuts
<1>4. ASSUME NEW p \in Writer, NEW s \in Data, NEW v \in Val, log_write(p, s, v)
      PROVE  Held(cache', q) \subseteq Held(cache, q)
  <2>1. p # Nobody
    BY NamesAssumption
  <2>2. s \in Held(cache, p)
    BY <1>1, <1>4, <2>1, HeldIs DEF log_write, Writable
  <2>3. s \in Sector /\ Holds(cache, s) /\ Buf(cache, s).by = p
    BY <2>2 DEF Held
  <2>0. PICK b : b = [Buf(cache, s) EXCEPT !.data = v, !.dirty = TRUE]
    OBVIOUS
  <2>4. Puts(cache, cache', s, b)
    <3>1. Puts(cache, cache', s, [Buf(cache, s) EXCEPT !.data = v, !.dirty = TRUE])
      BY <1>1, <1>4, <2>3, SetIs DEF log_write
    <3> QED BY <2>0, <3>1
  <2>5. b.by = p
    BY <1>1, <2>0, <2>3, BufIs DEF Buffer
  <2>6. CASE q = p
    <3>1. Held(cache', q) \subseteq Held(cache, q) \cup {s}
      BY <1>1, <2>3, <2>4, HeldPuts
    <3> QED BY <2>2, <2>6, <3>1
  <2>7. CASE q # p
    BY <1>1, <2>3, <2>4, <2>5, <2>7, HeldPuts
  <2> QED BY <2>6, <2>7
<1>5. ASSUME NEW at \in {"wlog", "install"}, LogBlock(at)
      PROVE  Held(cache', q) \subseteq Held(cache, q)
  <2>1. PICK s : s = tail + 1
    OBVIOUS
  <2>2. s \in Sector
    <3>0. tail \in 0 .. Len(lh) /\ Len(lh) \in Nat /\ Len(lh) <= LOGSIZE - 1 /\ tail < Len(lh)
      <4>1. TypeInv /\ tail < Len(lh)
        BY <1>5 DEF IInv, LogBlock
      <4> QED BY <4>1 DEF TypeInv
    <3>1. s \in 0 .. LOGSIZE - 1
      BY <2>1, <3>0, Sizes
    <3> QED BY <3>1, Sectors
  <2>3. ~NoBuffers(cache, s) /\ cache' = bget(cache, s, Committer)
    BY <1>5, <2>1 DEF LogBlock
  <2>4. CASE Holds(cache, s)
    <3>0. PICK b : b = [Buf(cache, s) EXCEPT !.by = Committer]
      OBVIOUS
    <3>1. Puts(cache, cache', s, b)
      BY <1>1, <2>2, <2>3, <2>4, <3>0, BgetIs
    <3>2. b.by = Committer
      BY <1>1, <2>2, <2>4, <3>0, BufIs DEF Buffer
    <3> QED BY <1>1, <1>2, <2>2, <3>1, <3>2, HeldPuts
  <2>5. CASE ~Holds(cache, s)
    <3>1. PICK b : b = [sector |-> s, by |-> Committer, dirty |-> FALSE, data |-> image[s]]
      OBVIOUS
    <3>2. Puts(cache, cache', s, b) /\ b.by = Committer
      BY <1>1, <2>2, <2>3, <2>5, <3>1, BgetIs
    <3> QED BY <1>1, <1>2, <2>2, <3>2, HeldPuts
  <2> QED BY <2>4, <2>5
<1>6. ASSUME NEW at \in {"wlog", "install"},
             NEW s, s = lh[tail + 1], NEW t, t = tail + 1,
             NEW to \in {s, t}, NEW from \in {s, t}, from # to, Round(at, from, to)
      PROVE  Held(cache', q) \subseteq Held(cache, q)
  <2>1. Copies(s, t, from, to, Buf(cache, from).data)
    BY <1>6, RoundDoes
  <2> QED BY <1>2, <1>6, <2>1 DEF Copies, Rounds, Held
<1>7. ASSUME write_head("wlog", "install", Len(lh)) \/ write_head("install", "none", 0)
      PROVE  Held(cache', q) \subseteq Held(cache, q)
  <2>1. PICK b : Passes(cache, cache', Header, b)
    <3>1. ~NoBuffers(cache, Header) /\ cache' = brelse(bget(cache, Header, Committer), Header)
      BY <1>7 DEF write_head
    <3> QED BY <1>1, <3>1, Sectors, PassIs
  <2> QED BY <1>1, <1>2, <2>1, Sectors, HeldPuts DEF Passes
<1>8. ASSUME write_log \/ install_trans
      PROVE  Held(cache', q) \subseteq Held(cache, q)
  <2>1. PICK s : s = lh[tail + 1]
    OBVIOUS
  <2>2. PICK t : t = tail + 1
    OBVIOUS
  <2>3. Round("wlog", s, t) \/ Round("install", t, s)
    BY <1>8, <2>1, <2>2 DEF write_log, install_trans
  <2>4. s # t
    BY <2>1, <2>2, <2>3, RoundStart
  <2> QED BY <1>6, <2>1, <2>2, <2>3, <2>4
<1> QED BY <1>3, <1>4, <1>5, <1>7, <1>8

\* A sequence without repetitions is no longer than a set it is from.
LEMMA DistinctLen ==
  ASSUME NEW q \in Seq(Data), \A i, j \in 1 .. Len(q) : q[i] = q[j] => i = j,
         NEW S, IsFiniteSet(S), Range(q) \subseteq S
  PROVE  Len(q) \in Nat /\ Len(q) <= Cardinality(S)
<1>1. DOMAIN q = 1 .. Len(q) /\ Len(q) \in Nat
  OBVIOUS
<1>2. \A i \in 1 .. Len(q) : q[i] \in S
  BY <1>1 DEF Range
<1>3. q \in [1 .. Len(q) -> S]
  BY <1>1, <1>2
<1>4. q \in Injection(1 .. Len(q), S)
  BY <1>1, <1>3 DEF Injection, IsInjective
<1>5. Cardinality(1 .. Len(q)) <= Cardinality(S)
  BY <1>4, FS_Injection
<1>6. Cardinality(1 .. Len(q)) = Len(q)
  BY <1>1, FS_Interval
<1> QED BY <1>1, <1>5, <1>6

\* The log of one call is the blocks it wrote.
LEMMA OpNext ==
  ASSUME OneWriter, JInv, Next PROVE OpInv'
<1>1. TypeInv /\ OpInv
  BY DEF JInv, IInv
<1>2. ASSUME NEW p \in Writer, begin_op(p) PROVE OpInv'
  <2>1. active = {} /\ step = "none"
    BY <1>1, <1>2 DEF OneWriter, TypeInv, begin_op
  <2>2. lh = <<>>
    BY <1>1, <2>1 DEF OpInv
  <2>3. active' = {p} /\ lh' = lh /\ wrote' = [wrote EXCEPT ![p] = {}]
    BY <1>2, <2>1 DEF begin_op
  <2>4. Len(lh') = 0 /\ Range(lh') = {}
    BY <2>2, <2>3 DEF Range
  <2>5. /\ wrote' \in [Writer -> SUBSET Data] /\ wrote'[p] = {}
        /\ \A q \in Writer : IsFiniteSet(wrote'[q])
    BY <1>1, <2>3, FS_EmptySet DEF OpInv
  <2> QED BY <2>3, <2>4, <2>5, FS_EmptySet, Sizes DEF OpInv
<1>3. ASSUME NEW p \in Writer, end_op(p) PROVE OpInv'
  <2>1. active = {p} /\ active' = {} /\ step = "none"
    BY <1>1, <1>3 DEF OneWriter, TypeInv, end_op
  <2>2. outstanding = 1
    BY <1>1, <2>1, FS_Singleton DEF TypeInv
  <2> QED BY <1>1, <1>3, <2>1, <2>2 DEF OpInv, end_op
<1>4. ASSUME NEW p \in Writer, NEW s \in Data, NEW v \in Val, log_write(p, s, v) PROVE OpInv'
  <2>1. lh' = Added(lh, s)
    BY <1>4 DEF log_write, Added
  <2>2. lh \in Seq(Data) /\ \A i, j \in 1 .. Len(lh) : lh[i] = lh[j] => i = j
    BY <1>1 DEF TypeInv
  <2>3. /\ lh' \in Seq(Data) /\ Range(lh') = Range(lh) \cup {s}
        /\ \A i, j \in 1 .. Len(lh') : lh'[i] = lh'[j] => i = j
    BY <2>1, <2>2, AddBlock
  <2>4. /\ active' = active /\ p \in active /\ Cardinality(wrote[p] \cup {s}) <= MAXOPBLOCKS
        /\ wrote' = [wrote EXCEPT ![p] = @ \cup {s}]
    BY <1>4 DEF log_write, Writable
  <2>5. active = {p}
    BY <1>1, <2>4 DEF OneWriter, TypeInv
  <2>6. IsFiniteSet(wrote[p] \cup {s})
    BY <1>1, FS_AddElement DEF OpInv
  <2>7. /\ wrote' \in [Writer -> SUBSET Data] /\ wrote'[p] = wrote[p] \cup {s}
        /\ \A q \in Writer : IsFiniteSet(wrote'[q])
    BY <1>1, <2>4, <2>6 DEF OpInv
  <2>8. Range(lh') \subseteq wrote'[p]
    BY <1>1, <2>3, <2>4, <2>7 DEF OpInv
  <2>9. Len(lh') <= MAXOPBLOCKS
    <3>1. Len(lh') <= Cardinality(wrote'[p]) /\ Len(lh') \in Nat
      BY <2>3, <2>6, <2>7, <2>8, DistinctLen
    <3>2. Cardinality(wrote'[p]) <= MAXOPBLOCKS /\ Cardinality(wrote'[p]) \in Nat
      BY <2>4, <2>6, <2>7, FS_CardinalityType
    <3> QED BY <3>1, <3>2, Sizes
  <2> QED BY <2>4, <2>5, <2>7, <2>8, <2>9 DEF OpInv
<1>5. ASSUME UNCHANGED <<lh, active, wrote, step>> PROVE OpInv'
  BY <1>1, <1>5 DEF OpInv
<1>6. ASSUME write_head("wlog", "install", Len(lh)) PROVE OpInv'
  <2>1. lh' = lh
    BY <1>1, <1>6, SubSeqFull DEF write_head, TypeInv
  <2> QED BY <1>1, <1>6, <2>1 DEF write_head, OpInv
<1>7. ASSUME write_head("install", "none", 0) PROVE OpInv'
  <2>1. lh' = <<>>
    BY <1>7, SubSeqEmpty DEF write_head
  <2>2. active = {} /\ active' = {} /\ wrote' = wrote
    BY <1>1, <1>7 DEF write_head, TypeInv
  <2>3. Len(lh') = 0
    BY <2>1
  <2> QED BY <1>1, <2>1, <2>2, <2>3, Sizes DEF OpInv
<1> QED
  BY <1>2, <1>3, <1>4, <1>5, <1>6, <1>7
  DEF Next, bread, Release, LogBlock, write_log, install_trans, Round, thelog

\* Both parts are kept.
LEMMA JNext ==
  ASSUME OneWriter, JInv, [Next]_vars PROVE JInv'
<1>1. IInv'
  BY NextOK DEF JInv
<1>2. Good(cache) /\ IInv /\ HoldInv
  BY DEF JInv, IInv, TypeInv
<1>3. CASE Next
  <2>1. OpInv'
    BY <1>3, OpNext
  <2>2. HoldInv'
    <3>1. CASE \E p \in Writer : begin_op(p) \/ end_op(p)
      BY <1>2, <3>1 DEF begin_op, end_op, HoldInv
    <3>2. CASE \E p \in Writer \cup Reader, s \in Data : bread(p, s)
      BY <1>2, <3>2, HoldBread
    <3>3. CASE \/ \E p \in Writer \cup Reader, s \in Data : Release(p, s)
               \/ \E p \in Writer, s \in Data, v \in Val : log_write(p, s, v)
               \/ LogBlock("wlog") \/ LogBlock("install") \/ write_log \/ install_trans
               \/ write_head("wlog", "install", Len(lh)) \/ write_head("install", "none", 0)
      BY <1>2, <3>3, HoldOthers, HoldShrinks
    <3> QED BY <1>3, <3>1, <3>2, <3>3 DEF Next
  <2> QED BY <1>1, <2>1, <2>2 DEF JInv
<1>4. CASE UNCHANGED vars
  BY <1>1, <1>4 DEF JInv, OpInv, HoldInv, vars, thelog
<1> QED BY <1>3, <1>4

\* The stronger invariant holds when the process starts.
LEMMA JInit ==
  ASSUME Init PROVE JInv
<1>1. IInv
  BY InitOK
<1>2. Len(lh) = 0 /\ lh = <<>> /\ active = {} /\ wrote = [p \in Writer |-> {}]
  BY DEF Init
<1>3. OpInv
  BY <1>2, Sizes, FS_EmptySet DEF OpInv
<1>4. HoldInv
  <2>1. \A s \in Sector : ~Holds(cache, s)
    <3>1. PICK v \in Val : cache = [i \in 1 .. NBUF |-> Unused(v)]
      BY DEF Init
    <3>2. \A i \in 1 .. NBUF : cache[i].sector = NoSector
      BY <3>1 DEF Unused
    <3> QED BY <3>2, Sectors DEF Holds
  <2>2. \A p \in Writer \cup Reader : Held(cache, p) = {}
    BY <2>1 DEF Held
  <2> QED BY <2>2, FS_EmptySet DEF HoldInv, Hold
<1> QED BY <1>1, <1>3, <1>4 DEF JInv

\* When bget finds no buffer, all NBUF of them are busy or dirty.
LEMMA AllTaken ==
  ASSUME NEW c, Good(c), NEW s, NoBuffers(c, s),
         NEW S, IsFiniteSet(S),
         \A t \in Sector : Holds(c, t) /\ ~Recyclable(Buf(c, t)) => t \in S
  PROVE  NBUF <= Cardinality(S)
<1> DEFINE f == [i \in 1 .. NBUF |-> c[i].sector]
<1>1. \A i \in 1 .. NBUF : ~Recyclable(c[i])
  BY VictimIs DEF NoBuffers
<1>2. \A i \in 1 .. NBUF : c[i].sector \in Sector
  BY <1>1 DEF Good, Buffer
<1>3. \A i \in 1 .. NBUF : c[i].sector \in S
  BY <1>1, <1>2, BufIs DEF Holds
<1>4. \A i, j \in 1 .. NBUF : c[i].sector = c[j].sector => i = j
  BY <1>2, Sectors DEF Good
<1>5. f \in Injection(1 .. NBUF, S)
  BY <1>3, <1>4 DEF Injection, IsInjective
<1> HIDE DEF f
<1>6. Cardinality(1 .. NBUF) <= Cardinality(S)
  BY <1>5, FS_Injection
<1>7. Cardinality(1 .. NBUF) = NBUF
  BY Sizes, FS_Interval
<1> QED BY <1>6, <1>7

\* The size of a union.
LEMMA UnionCard ==
  ASSUME NEW A, NEW B, IsFiniteSet(A), IsFiniteSet(B)
  PROVE  /\ IsFiniteSet(A \cup B) /\ Cardinality(A \cup B) \in Nat
         /\ Cardinality(A \cup B) <= Cardinality(A) + Cardinality(B)
<1>1. IsFiniteSet(A \cup B) /\ IsFiniteSet(A \cap B)
      /\ Cardinality(A \cup B) = Cardinality(A) + Cardinality(B) - Cardinality(A \cap B)
  BY FS_Union, FS_Intersection
<1>2. Cardinality(A) \in Nat /\ Cardinality(B) \in Nat /\ Cardinality(A \cap B) \in Nat
      /\ Cardinality(A \cup B) \in Nat
  BY <1>1, FS_CardinalityType
<1> QED BY <1>1, <1>2

\* The counting of NeverPanics, on numbers.
LEMMA Sum ==
  ASSUME NEW l \in Nat, NEW w \in Nat, NEW h \in Nat, NEW r \in Nat, NEW lw \in Nat, NEW x \in Nat,
         l <= MAXOPBLOCKS, lw <= l + w, x <= lw + h, h <= r, MAXOPBLOCKS + w + r < NBUF
  PROVE  x < NBUF
  BY Sizes

\* The pinned blocks, those the writer or commit() holds (in W), and one for each
\* of the readers R that hold any, are too few for that.
LEMMA Room ==
  ASSUME IInv, HoldInv, Len(lh) <= MAXOPBLOCKS,
         NEW W, IsFiniteSet(W),
         \A t \in Sector : Holds(cache, t) /\ Buf(cache, t).by \in Writer \cup {Committer} => t \in W,
         NEW R \in SUBSET Reader, \A r \in Reader \ R : Held(cache, r) = {},
         MAXOPBLOCKS + Cardinality(W) + Cardinality(R) < NBUF,
         NEW s
  PROVE  ~NoBuffers(cache, s)
<1> DEFINE L == Range(lh)
           H == {t \in Sector : Holds(cache, t) /\ Buf(cache, t).by \in Reader}
           S == (L \cup W) \cup H
<1>1. Good(cache) /\ DirtyInv /\ lh \in Seq(Data) /\ Len(lh) \in Nat
  BY DEF IInv, TypeInv
<1>2. IsFiniteSet(R) /\ Cardinality(R) \in Nat /\ Cardinality(W) \in Nat
  BY NamesAssumption, FS_Subset, FS_CardinalityType
<1>3. IsFiniteSet(L) /\ Cardinality(L) \in Nat /\ Cardinality(L) <= MAXOPBLOCKS
  <2>1. lh \in Surjection(1 .. Len(lh), L)
    BY <1>1 DEF Range, Surjection
  <2>2. IsFiniteSet(1 .. Len(lh)) /\ Cardinality(1 .. Len(lh)) = Len(lh)
    BY <1>1, FS_Interval
  <2> HIDE DEF L
  <2>3. IsFiniteSet(L) /\ Cardinality(L) <= Len(lh)
    BY <2>1, <2>2, FS_Surjection
  <2>4. Cardinality(L) \in Nat
    BY <2>3, FS_CardinalityType
  <2> QED BY <1>1, <2>3, <2>4, Sizes
<1>4. IsFiniteSet(H) /\ Cardinality(H) \in Nat /\ Cardinality(H) <= Cardinality(R)
  <2> DEFINE f == [t \in H |-> Buf(cache, t).by]
  <2>1. ASSUME NEW t \in H PROVE Buf(cache, t).by \in R
    <3>1. Buf(cache, t).by \in Reader /\ t \in Held(cache, Buf(cache, t).by)
      BY DEF Held
    <3> QED BY <3>1
  <2>2. ASSUME NEW t \in H, NEW u \in H, Buf(cache, t).by = Buf(cache, u).by PROVE t = u
    <3>1. PICK r \in Reader : r = Buf(cache, t).by
      OBVIOUS
    <3>2. t \in Held(cache, r) /\ u \in Held(cache, r)
      BY <2>2, <3>1 DEF Held
    <3>3. IsFiniteSet(Held(cache, r)) /\ Cardinality(Held(cache, r)) \in Nat
      BY <1>1, HeldFinite, FS_CardinalityType
    <3>4. Cardinality(Held(cache, r)) <= 1
      BY NamesAssumption DEF HoldInv, Hold
    <3>5. Cardinality(Held(cache, r)) # 0
      BY <3>2, <3>3, FS_EmptySet
    <3>6. Cardinality(Held(cache, r)) = 1
      BY <3>3, <3>4, <3>5
    <3>7. \E x : Held(cache, r) = {x}
      BY <3>3, <3>6, FS_Singleton
    <3> QED BY <3>2, <3>7
  <2>3. f \in Injection(H, R)
    <3> HIDE DEF H
    <3> QED BY <2>1, <2>2 DEF Injection, IsInjective
  <2> HIDE DEF f, H
  <2>4. IsFiniteSet(H) /\ Cardinality(H) <= Cardinality(R)
    BY <1>2, <2>3, FS_Injection
  <2> QED BY <2>4, FS_CardinalityType
<1>5. \A t \in Sector : Holds(cache, t) /\ ~Recyclable(Buf(cache, t)) => t \in S
  <2> SUFFICES ASSUME NEW t \in Sector, Holds(cache, t), ~Recyclable(Buf(cache, t))
               PROVE  t \in S
    OBVIOUS
  <2>1. CASE Buf(cache, t).dirty
    <3>1. t \in Pinned
      BY <1>1, <2>1 DEF DirtyInv
    <3>2. PICK i \in 1 .. Len(lh) : t = lh[i]
      BY <3>1 DEF Pinned
    <3>3. i \in DOMAIN lh
      BY <1>1, <3>2
    <3>4. t \in L
      BY <3>2, <3>3 DEF Range
    <3> QED BY <3>4
  <2>2. CASE ~Buf(cache, t).dirty
    <3>0. Buf(cache, t) \in Buffer
      BY <1>1, BufIs
    <3>1. Buf(cache, t).by \in Writer \cup Reader \cup {Committer}
      BY <2>2, <3>0 DEF Recyclable, Buffer
    <3> QED BY <3>1
  <2> QED BY <2>1, <2>2
<1> HIDE DEF L, H
<1>6. /\ IsFiniteSet(L \cup W) /\ Cardinality(L \cup W) \in Nat
      /\ Cardinality(L \cup W) <= Cardinality(L) + Cardinality(W)
  BY <1>2, <1>3, UnionCard
<1>7. /\ IsFiniteSet(S) /\ Cardinality(S) \in Nat
      /\ Cardinality(S) <= Cardinality(L \cup W) + Cardinality(H)
  BY <1>4, <1>6, UnionCard
<1> HIDE DEF S
<1>8. Cardinality(S) < NBUF
  BY <1>2, <1>3, <1>4, <1>6, <1>7, Sum
<1> QED BY <1>1, <1>5, <1>7, <1>8, AllTaken, Sizes

\* With one writer, no state of the invariant is about to panic.
LEMMA JSafe ==
  ASSUME OneWriter, JInv PROVE NeverPanics
<1>1. IInv /\ HoldInv /\ TypeInv /\ BusyInv /\ OpInv /\ Good(cache) /\ Len(lh) <= MAXOPBLOCKS
  BY DEF JInv, IInv, OpInv, TypeInv
<1>2. Cardinality(Reader) \in Nat /\ MAXOPBLOCKS + 2 + Cardinality(Reader) <= NBUF
  BY Sizes, SizeAssumption
<1>3. \A q : q # Nobody => HeldBy(q) = Held(cache, q)
  BY <1>1, HeldIs
<1>4. ASSUME NEW p \in active, NEW s \in Data, Cardinality(HeldBy(p)) < Hold(p)
      PROVE  ~NoBuffers(cache, s)
  <2>1. p \in Writer /\ p # Nobody /\ step = "none" /\ \A q \in Writer : q = p
    BY <1>1, NamesAssumption DEF TypeInv, OneWriter
  <2>2. PICK W : W = Held(cache, p)
    OBVIOUS
  <2>3. IsFiniteSet(W) /\ Cardinality(W) \in Nat /\ Cardinality(W) < 2
    BY <1>1, <1>3, <1>4, <2>1, <2>2, HeldFinite, FS_CardinalityType DEF Hold
  <2>4. \A t \in Sector : Holds(cache, t) /\ Buf(cache, t).by \in Writer \cup {Committer} => t \in W
    BY <1>1, <2>1, <2>2 DEF BusyInv, Held
  <2>5. MAXOPBLOCKS + Cardinality(W) + Cardinality(Reader) < NBUF
    BY <1>2, <2>3, Sizes
  <2> QED BY <1>1, <2>3, <2>4, <2>5, Room
\* Between calls and during commit(), one buffer at most is held by commit().
<1>5. ASSUME active = {}
      PROVE  \A t \in Sector : Holds(cache, t) /\ Buf(cache, t).by \in Writer \cup {Committer}
                                 => t \in {tail + 1}
  BY <1>1, <1>5 DEF BusyInv
<1>6. IsFiniteSet({tail + 1}) /\ Cardinality({tail + 1}) = 1
  BY FS_Singleton
<1>7. ASSUME NEW p \in Reader, NEW s \in Data, Cardinality(HeldBy(p)) < Hold(p)
      PROVE  ~NoBuffers(cache, s)
  <2>1. p \notin Writer /\ p # Nobody
    BY NamesAssumption
  <2>2. Held(cache, p) = {}
    <3>1. Cardinality(Held(cache, p)) < 1
      BY <1>3, <1>7, <2>1 DEF Hold
    <3>2. IsFiniteSet(Held(cache, p)) /\ Cardinality(Held(cache, p)) \in Nat
      BY <1>1, HeldFinite, FS_CardinalityType
    <3>3. Cardinality(Held(cache, p)) = 0
      BY <3>1, <3>2
    <3> QED BY <3>2, <3>3, FS_EmptySet
  <2>3. PICK R : R = Reader \ {p}
    OBVIOUS
  <2>4. Cardinality(R) = Cardinality(Reader) - 1
    BY <2>3, NamesAssumption, FS_RemoveElement
  <2>5. R \in SUBSET Reader /\ \A r \in Reader \ R : Held(cache, r) = {}
    BY <2>2, <2>3
  <2>6. CASE active = {}
    <3>1. MAXOPBLOCKS + Cardinality({tail + 1}) + Cardinality(R) < NBUF
      BY <1>2, <1>6, <2>4, Sizes
    <3> QED BY <1>1, <1>5, <1>6, <2>5, <2>6, <3>1, Room
  <2>7. CASE active # {}
    <3>1. PICK w \in Writer : w \in active
      BY <1>1, <2>7 DEF TypeInv
    <3>2. step = "none" /\ \A q \in Writer : q = w
      BY <1>1, <3>1 DEF TypeInv, OneWriter
    <3>3. PICK W : W = Held(cache, w)
      OBVIOUS
    <3>4. IsFiniteSet(W) /\ Cardinality(W) \in Nat /\ Cardinality(W) <= 2
      BY <1>1, <3>3, HeldFinite, FS_CardinalityType DEF HoldInv, Hold
    <3>5. \A t \in Sector : Holds(cache, t) /\ Buf(cache, t).by \in Writer \cup {Committer} => t \in W
      BY <1>1, <3>2, <3>3 DEF BusyInv, Held
    <3>6. MAXOPBLOCKS + Cardinality(W) + Cardinality(R) < NBUF
      BY <1>2, <2>4, <3>4, Sizes
    <3> QED BY <1>1, <2>5, <3>4, <3>5, <3>6, Room
  <2> QED BY <2>6, <2>7
<1>8. ASSUME step # "none" PROVE \A s : ~NoBuffers(cache, s)
  <2>1. active = {}
    BY <1>1, <1>8 DEF TypeInv
  <2>2. MAXOPBLOCKS + Cardinality({tail + 1}) + Cardinality(Reader) < NBUF
    BY <1>2, <1>6, Sizes
  <2> QED BY <1>1, <1>5, <1>6, <2>1, <2>2, Room
<1>9. ~TooBig
  BY <1>1, Sizes DEF TooBig, TypeInv
<1> QED BY <1>4, <1>7, <1>8, <1>9 DEF NeverPanics

\* While one call writes at a time neither bget nor log_write panics
\* (NeverPanics), whatever the number of readers SizeAssumption leaves buffers for.
THEOREM Panics == OneWriter /\ Spec => []NeverPanics
<1>1. Init => JInv
  BY JInit
<1>2. OneWriter /\ JInv /\ [Next]_vars => JInv'
  BY JNext
<1>3. OneWriter /\ JInv => NeverPanics
  BY JSafe
<1>4. OneWriter => []OneWriter
  OBVIOUS
<1> QED BY <1>1, <1>2, <1>3, <1>4, PTL DEF Spec

=============================================================================
