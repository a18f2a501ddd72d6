---------------------------- MODULE TxnLogProofs ----------------------------
(***************************************************************************)
(* Transactions and group commit implement DiskSet, for any blocks, any    *)
(* values, any log length and any number of queued transactions.           *)
(*                                                                         *)
(* The disks of DiskSet are a recursion over the queue.  Its solution is   *)
(* shown to exist and to be the only one by the least number at which it   *)
(* would fail, so that to know the disks after a step is to exhibit a      *)
(* sequence that satisfies the recursion (Chain).  The invariant adds why  *)
(* the merged map may be flushed in place of the queue (MergedMap): all    *)
(* that was queued is in it, the newest value of each block first.         *)
(***************************************************************************)
EXTENDS TxnLog, FiniteSetTheorems, SequenceTheorems, WellFoundedInduction, TLAPS

\* Types, and what the operation under way may count on.
Typed ==
    /\ d \in [Addr -> Valuset(Val)]
    /\ MSTxn \in Maps /\ MSVMap \in Maps /\ MSTxns \in Seq(Maps)
    /\ k \in Nat /\ k <= Len(MSTxns)
    /\ pc \in {"idle", "merge", "each", "dwrite"}

Modes ==
    /\ pc # "each" => k = 0
    /\ pc = "merge" => Size(MSVMap) <= LogLen
    /\ pc = "idle" => dw = NoDwrite
    /\ dw # NoDwrite => dw.m \in Maps
    /\ pc = "dwrite" => dw # NoDwrite /\ DOMAIN dw.m \cap DOMAIN MSVMap = {}

MergedMap ==
    /\ \A j \in 1 .. Len(MSTxns) :
        Size(MSTxns[j]) <= LogLen /\ DOMAIN MSTxns[j] \subseteq DOMAIN MSVMap
    /\ Disks[Len(Disks)] = replay_disk(MSVMap, d)

IInv == Typed /\ Modes /\ MergedMap

-----------------------------------------------------------------------------
\* A set of numbers that is not empty has a least element.
LEMMA Least ==
    ASSUME NEW T \in SUBSET Nat, T # {}
    PROVE  \E m \in T : \A j \in T : m <= j
<1> DEFINE R == {ss \in Nat \X Nat : ss[1] < ss[2]}
<1>1. IsWellFoundedOn(R, Nat)
  BY NatLessThanWellFounded DEF OpToRel
<1>2. PICK m \in T : \A j \in T : ~(<<j, m>> \in R)
  BY <1>1, WFMin
<1>3. ASSUME NEW j \in T PROVE m <= j
  <2>1. j \in Nat /\ m \in Nat
    OBVIOUS
  <2>2. j < m => <<j, m>> \in R
    BY <2>1
  <2> QED BY <1>2, <2>1, <2>2
<1> QED BY <1>3

\* The recursion over a queue has a solution.
LEMMA AfterExists ==
    ASSUME NEW q, NEW dd, NEW n \in Nat
    PROVE  \E g : g = [i \in 0 .. n |-> IF i = 0 THEN dd ELSE replay_disk(q[i], g[i - 1])]
<1> DEFINE P(m, g) == g = [i \in 0 .. m |-> IF i = 0 THEN dd ELSE replay_disk(q[i], g[i - 1])]
           B == {m \in Nat : ~ \E g : P(m, g)}
<1> SUFFICES ASSUME n \in B PROVE FALSE
  OBVIOUS
<1>1. PICK m \in B : \A j \in B : m <= j
  <2> HIDE DEF P
  <2>1. B \in SUBSET Nat /\ B # {}
    OBVIOUS
  <2> HIDE DEF B
  <2> QED BY <2>1, Least
<1>2. CASE m = 0
  <2> DEFINE g == [i \in 0 .. 0 |-> dd]
  <2>1. P(0, g)
    OBVIOUS
  <2> QED BY <2>1, <1>1, <1>2
<1>3. CASE m # 0
  <2>1. m - 1 \in Nat /\ m - 1 \notin B
    <3> HIDE DEF P
    <3>1. m \in Nat
      OBVIOUS
    <3> HIDE DEF B
    <3> QED BY <1>1, <1>3, <3>1
  <2>2. PICK g : P(m - 1, g)
    BY <2>1
  <2> DEFINE h == [i \in 0 .. m |-> IF i = m THEN replay_disk(q[m], g[m - 1]) ELSE g[i]]
  <2>3. \A i \in 0 .. m - 1 : g[i] = IF i = 0 THEN dd ELSE replay_disk(q[i], g[i - 1])
    BY <2>2
  <2>4. ASSUME NEW i \in 0 .. m PROVE h[i] = IF i = 0 THEN dd ELSE replay_disk(q[i], h[i - 1])
    <3>1. CASE i = m
      BY <3>1, <1>1, <1>3
    <3>2. CASE i # m
      <4>1. i \in 0 .. m - 1 /\ (i # 0 => i - 1 \in 0 .. m - 1)
        BY <1>1, <3>2
      <4>2. h[i] = g[i] /\ (i # 0 => h[i - 1] = g[i - 1])
        BY <4>1
      <4> QED BY <4>1, <4>2, <2>3
    <3> QED BY <3>1, <3>2
  <2>5. P(m, h)
    <3>1. h = [i \in 0 .. m |-> h[i]]
      OBVIOUS
    <3> HIDE DEF h
    <3> QED BY <3>1, <2>4
  <2> QED BY <2>5, <1>1
<1> QED BY <1>2, <1>3

\* Disks as an operator of the queue and the durable disk.
DisksOf(q, dd) ==
    LET after[i \in 0 .. Len(q)] ==
            IF i = 0 THEN dd ELSE replay_disk(q[i], after[i - 1])
    IN  [i \in 1 .. Len(q) + 1 |-> after[i - 1]]

\* s satisfies the recursion over q, starting from dd.
Chain(s, q, dd) ==
    /\ s = [i \in 1 .. Len(q) + 1 |-> s[i]]
    /\ s[1] = dd
    /\ \A i \in 1 .. Len(q) : s[i + 1] = replay_disk(q[i], s[i])

LEMMA DisksIs == Disks = DisksOf(Queued, d) /\ Disks' = DisksOf(Queued', d')
  BY DEF Disks, DisksOf

LEMMA DisksChain ==
    ASSUME NEW q, Len(q) \in Nat, NEW dd
    PROVE  Chain(DisksOf(q, dd), q, dd)
<1> DEFINE after == CHOOSE g : g = [i \in 0 .. Len(q) |-> IF i = 0 THEN dd ELSE replay_disk(q[i], g[i - 1])]
<1>1. DisksOf(q, dd) = [i \in 1 .. Len(q) + 1 |-> after[i - 1]]
  BY DEF DisksOf
<1>2. after = [i \in 0 .. Len(q) |-> IF i = 0 THEN dd ELSE replay_disk(q[i], after[i - 1])]
  BY AfterExists
<1> HIDE DEF after
<1>3. \A i \in 0 .. Len(q) : after[i] = IF i = 0 THEN dd ELSE replay_disk(q[i], after[i - 1])
  BY <1>2
<1> DEFINE s == DisksOf(q, dd)
<1>4. s = [i \in 1 .. Len(q) + 1 |-> s[i]] /\ \A i \in 1 .. Len(q) + 1 : s[i] = after[i - 1]
  BY <1>1
<1> HIDE DEF s
<1>5. s[1] = dd
  BY <1>3, <1>4
<1>6. ASSUME NEW i \in 1 .. Len(q) PROVE s[i + 1] = replay_disk(q[i], s[i])
  BY <1>3, <1>4
<1> QED BY <1>4, <1>5, <1>6 DEF Chain, s

\* The solution is the only one.
LEMMA ChainUnique ==
    ASSUME NEW q, Len(q) \in Nat, NEW dd, NEW s, Chain(s, q, dd)
    PROVE  s = DisksOf(q, dd)
<1> DEFINE t == DisksOf(q, dd)
           B == {i \in 1 .. Len(q) + 1 : s[i] # t[i]}
<1>1. Chain(t, q, dd)
  BY DisksChain
<1> HIDE DEF t
<1>2. B = {}
  <2> SUFFICES ASSUME B # {} PROVE FALSE
    OBVIOUS
  <2>1. PICK m \in B : \A j \in B : m <= j
    <3>1. B \in SUBSET Nat
      OBVIOUS
    <3> HIDE DEF B
    <3> QED BY <3>1, Least
  <2>2. m # 1
    BY <1>1, <2>1 DEF Chain
  <2>3. m - 1 \in 1 .. Len(q) /\ m - 1 \notin B
    BY <2>1, <2>2
  <2>4. s[m - 1] = t[m - 1]
    BY <2>3
  <2>5. s[(m - 1) + 1] = t[(m - 1) + 1]
    BY <1>1, <2>3, <2>4 DEF Chain
  <2> QED BY <2>1, <2>3, <2>5
<1>3. s = t
  BY <1>1, <1>2 DEF Chain
<1> QED BY <1>3 DEF t

LEMMA ChainSeq ==
    ASSUME NEW q, Len(q) \in Nat, NEW dd, NEW s, Chain(s, q, dd)
    PROVE  /\ s \in Seq({s[i] : i \in 1 .. Len(q) + 1}) /\ Len(s) = Len(q) + 1
           /\ DOMAIN s = 1 .. Len(q) + 1
<1>1. s \in [1 .. Len(q) + 1 -> {s[i] : i \in 1 .. Len(q) + 1}] /\ Len(q) + 1 \in Nat
  BY DEF Chain
<1>2. s \in Seq({s[i] : i \in 1 .. Len(q) + 1})
  BY <1>1, SeqDef
<1> QED BY <1>1, <1>2

\* With nothing queued there is one disk.
LEMMA OneDisk ==
    ASSUME NEW q, Len(q) = 0, NEW dd
    PROVE  DisksOf(q, dd) = <<dd>>
<1>1. Chain(<<dd>>, q, dd)
  BY DEF Chain
<1> QED BY <1>1, ChainUnique

\* One more transaction in the queue is one more disk.
LEMMA ChainAppend ==
    ASSUME NEW n \in Nat, NEW q, Len(q) = n, NEW p, Len(p) = n + 1,
           \A i \in 1 .. n : p[i] = q[i], NEW dd, NEW s, Chain(s, q, dd),
           NEW x, x = replay_disk(p[n + 1], s[n + 1])
    PROVE  Chain(Append(s, x), p, dd)
<1> DEFINE t == Append(s, x)
           T == {s[i] : i \in 1 .. n + 1} \cup {x}
<1>1. Len(s) = n + 1 /\ s[1] = dd /\ \A i \in 1 .. n : s[i + 1] = replay_disk(q[i], s[i])
  BY ChainSeq DEF Chain
<1>2. s \in Seq(T) /\ x \in T
  <2>1. s \in [1 .. n + 1 -> T]
    BY DEF Chain
  <2> HIDE DEF T
  <2> QED BY <2>1, SeqDef DEF T
<1> HIDE DEF T
<1>3. /\ t \in Seq(T) /\ Len(t) = (n + 1) + 1 /\ t[(n + 1) + 1] = x
      /\ \A i \in 1 .. n + 1 : t[i] = s[i]
  BY <1>1, <1>2, AppendProperties
<1>4. t = [i \in 1 .. (n + 1) + 1 |-> t[i]]
  BY <1>3
<1> HIDE DEF t
<1>5. t[1] = dd
  BY <1>1, <1>3
<1>6. ASSUME NEW i \in 1 .. n + 1 PROVE t[i + 1] = replay_disk(p[i], t[i])
  <2>1. CASE i = n + 1
    BY <1>3, <2>1
  <2>2. CASE i \in 1 .. n
    <3>1. i + 1 \in 1 .. n + 1
      BY <2>2
    <3> QED BY <1>1, <1>3, <2>2, <3>1
  <2> QED BY <2>1, <2>2
<1> QED BY <1>4, <1>5, <1>6 DEF Chain, t

LEMMA TailDisks ==
    ASSUME NEW n \in Nat, NEW s, Len(s) = n + 2
    PROVE  LET t == SubSeq(s, 2, Len(s)) IN
           /\ t = [i \in 1 .. n + 1 |-> t[i]] /\ Len(t) = n + 1
           /\ \A i \in 1 .. n + 1 : t[i] = s[i + 1]
<1> DEFINE t == SubSeq(s, 2, Len(s))
           T == {s[i] : i \in 2 .. n + 2}
<1>1. \A i \in 2 .. n + 2 : s[i] \in T
  OBVIOUS
<1> HIDE DEF T
<1>2. /\ t \in Seq(T) /\ Len(t) = IF 2 <= n + 2 THEN (n + 2) - 2 + 1 ELSE 0
      /\ \A i \in 1 .. (n + 2) - 2 + 1 : t[i] = s[2 + i - 1]
  BY <1>1, SubSeqProperties
<1> HIDE DEF t
<1>3. Len(t) = n + 1 /\ \A i \in 1 .. n + 1 : t[i] = s[i + 1]
  BY <1>2
<1>4. t = [i \in 1 .. n + 1 |-> t[i]]
  BY <1>2, <1>3
<1> QED BY <1>3, <1>4 DEF t

\* One transaction flushed is one disk less, at the front.
LEMMA ChainTail ==
    ASSUME NEW n \in Nat, NEW q, Len(q) = n + 1, NEW p, Len(p) = n,
           \A i \in 1 .. n : p[i] = q[i + 1], NEW dd, NEW s, Chain(s, q, dd)
    PROVE  Chain(SubSeq(s, 2, Len(s)), p, s[2])
<1> DEFINE t == SubSeq(s, 2, Len(s))
<1>1. /\ Len(s) = n + 2
      /\ \A i \in 1 .. n + 1 : s[i + 1] = replay_disk(q[i], s[i])
  <2>1. Len(q) \in Nat /\ Len(q) + 1 = n + 2
    OBVIOUS
  <2>2. Len(s) = Len(q) + 1
    BY <2>1, ChainSeq
  <2> QED BY <2>1, <2>2 DEF Chain
<1>2. t = [i \in 1 .. n + 1 |-> t[i]] /\ \A i \in 1 .. n + 1 : t[i] = s[i + 1]
  BY <1>1, TailDisks
<1> HIDE DEF t
<1>3. t[1] = s[2]
  BY <1>2
<1>4. ASSUME NEW i \in 1 .. n PROVE t[i + 1] = replay_disk(p[i], t[i])
  <2>1. i + 1 \in 1 .. n + 1 /\ i \in 1 .. n + 1
    OBVIOUS
  <2>2. t[i + 1] = s[(i + 1) + 1] /\ t[i] = s[i + 1]
    BY <1>2, <2>1
  <2> QED BY <1>1, <2>1, <2>2
<1> QED BY <1>2, <1>3, <1>4 DEF Chain, t

\* The transactions that a flush has not reached yet.
LEMMA QueuedIs ==
    ASSUME NEW txns \in Seq(Maps), NEW n \in Nat, n <= Len(txns)
    PROVE  LET q == SubSeq(txns, n + 1, Len(txns)) IN
           /\ q \in Seq(Maps) /\ Len(q) = Len(txns) - n /\ Len(q) \in Nat
           /\ \A i \in 1 .. Len(txns) - n : q[i] = txns[n + i]
<1>1. \A i \in n + 1 .. Len(txns) : txns[i] \in Maps
  OBVIOUS
<1>2. n + 1 \in Int /\ Len(txns) \in Int
  OBVIOUS
<1> DEFINE q == SubSeq(txns, n + 1, Len(txns))
<1>3. /\ q \in Seq(Maps) /\ Len(q) = IF n + 1 <= Len(txns) THEN Len(txns) - (n + 1) + 1 ELSE 0
      /\ \A i \in 1 .. Len(txns) - (n + 1) + 1 : q[i] = txns[(n + 1) + i - 1]
  BY <1>1, <1>2, SubSeqProperties
<1> HIDE DEF q
<1>4. Len(q) = Len(txns) - n /\ \A i \in 1 .. Len(txns) - n : q[i] = txns[n + i]
  BY <1>2, <1>3
<1> QED BY <1>2, <1>3, <1>4 DEF q

-----------------------------------------------------------------------------
\* Maps are finite.
LEMMA MapsFinite ==
    ASSUME NEW m \in Maps
    PROVE  /\ DOMAIN m \subseteq Addr /\ m \in [DOMAIN m -> Val]
           /\ IsFiniteSet(DOMAIN m) /\ Size(m) \in Nat
<1>1. DOMAIN m \subseteq Addr /\ m \in [DOMAIN m -> Val]
  BY DEF Maps
<1>2. IsFiniteSet(DOMAIN m)
  BY <1>1, FiniteAssumption, FS_Subset
<1> QED BY <1>1, <1>2, FS_CardinalityType DEF Size

LEMMA EmptyMap == <<>> \in Maps /\ DOMAIN <<>> = {} /\ Size(<<>>) = 0
<1>1. DOMAIN <<>> = {} /\ <<>> \in [{} -> Val]
  OBVIOUS
<1>2. <<>> \in Maps
  BY <1>1 DEF Maps
<1> QED BY <1>1, <1>2, FS_EmptySet DEF Size

LEMMA ReplayMap ==
    ASSUME NEW m \in Maps, NEW l \in Maps
    PROVE  replay_mem(m, l) \in Maps /\ DOMAIN replay_mem(m, l) = DOMAIN m \cup DOMAIN l
<1>1. /\ DOMAIN replay_mem(m, l) = DOMAIN m \cup DOMAIN l
      /\ replay_mem(m, l) \in [DOMAIN m \cup DOMAIN l -> Val]
      /\ DOMAIN m \cup DOMAIN l \in SUBSET Addr
  BY MapsFinite DEF replay_mem
<1> QED BY <1>1 DEF Maps

\* Blocks of the right type stay so.
LEMMA BlockTypes ==
    /\ \A v \in Val : Synced(v) \in Valuset(Val)
    /\ \A v : Synced(v).cur = v /\ sync_addr(Synced(v)) = Synced(v)
    /\ \A vs \in Valuset(Val) :
        /\ vs.cur \in Val /\ vsmerge(vs) \subseteq Val /\ sync_addr(vs) \in Valuset(Val)
        /\ \A v \in Val : WriteTo(vs, v) \in Valuset(Val)
  BY DEF Valuset, Synced, sync_addr, WriteTo, vsmerge

LEMMA ReplayTyped ==
    ASSUME NEW D \in [Addr -> Valuset(Val)], NEW m \in Maps
    PROVE  replay_disk(m, D) \in [Addr -> Valuset(Val)]
  BY MapsFinite, BlockTypes DEF replay_disk

\* Replaying one map after another, and after itself.
LEMMA ReplayTwice ==
    ASSUME NEW m \in Maps, NEW l \in Maps, NEW D
    PROVE  /\ replay_disk(m, replay_disk(l, D)) = replay_disk(replay_mem(m, l), D)
           /\ DOMAIN m \subseteq DOMAIN l => replay_disk(l, replay_disk(m, D)) = replay_disk(l, D)
  BY DEF replay_disk, replay_mem

LEMMA ReplayNothing ==
    ASSUME NEW D \in [Addr -> Valuset(Val)]
    PROVE  replay_disk(<<>>, D) = D
  BY EmptyMap DEF replay_disk

\* The operators of the asynchronous disk are the same in the instance.
LEMMA SameDisk ==
    /\ \A v : S!Synced(v) = Synced(v)
    /\ \A vs : S!vsmerge(vs) = vsmerge(vs) /\ S!sync_addr(vs) = sync_addr(vs)
    /\ \A vs, v : S!WriteTo(vs, v) = WriteTo(vs, v)
    /\ S!NoDwrite = NoDwrite
    /\ \A m, D : S!Written(m, D) = replay_disk(m, D)
  BY DEF S!Synced, S!vsmerge, S!sync_addr, S!WriteTo, S!NoDwrite, S!Written,
         Synced, vsmerge, sync_addr, WriteTo, NoDwrite, replay_disk

LEMMA SameCrash == \A D : S!possible_crash(D) = possible_crash(D)
  BY DEF S!possible_crash, S!vsmerge, S!Synced, possible_crash, vsmerge, Synced

LEMMA SameSize == \A m : S!Cardinality(DOMAIN m) = Size(m)
<1>1. ASSUME NEW T PROVE S!Cardinality(T) = Cardinality(T)
  BY DEF S!Cardinality, Cardinality
<1> QED BY <1>1 DEF Size

\* A crash leaves blocks of the right type.
LEMMA CrashTyped ==
    ASSUME NEW D \in [Addr -> Valuset(Val)], NEW c \in possible_crash(D)
    PROVE  c \in [Addr -> Valuset(Val)]
<1>1. PICK g \in [Addr -> UNION {vsmerge(D[a]) : a \in Addr}] :
        (\A a \in Addr : g[a] \in vsmerge(D[a])) /\ c = [a \in Addr |-> Synced(g[a])]
  BY DEF possible_crash
<1>2. \A a \in Addr : g[a] \in Val
  BY <1>1, BlockTypes
<1> QED BY <1>1, <1>2, BlockTypes

-----------------------------------------------------------------------------
\* The queue and the disks in a state of the invariant.
LEMMA Facts ==
    ASSUME IInv
    PROVE  /\ Queued \in Seq(Maps) /\ Len(Queued) \in Nat /\ Len(Queued) = Len(MSTxns) - k
           /\ \A i \in 1 .. Len(Queued) :
                /\ Queued[i] = MSTxns[k + i] /\ Queued[i] \in Maps
                /\ Size(Queued[i]) <= LogLen /\ DOMAIN Queued[i] \subseteq DOMAIN MSVMap
           /\ Chain(Disks, Queued, d)
           /\ Len(Disks) = Len(Queued) + 1 /\ DOMAIN Disks = 1 .. Len(Queued) + 1
           /\ Disks \in Seq({Disks[i] : i \in 1 .. Len(Queued) + 1})
           /\ Disks[Len(Queued) + 1] = replay_disk(MSVMap, d)
<1>1. /\ MSTxns \in Seq(Maps) /\ k \in Nat /\ k <= Len(MSTxns)
  BY DEF IInv, Typed
<1>2. /\ Queued \in Seq(Maps) /\ Len(Queued) \in Nat /\ Len(Queued) = Len(MSTxns) - k
      /\ \A i \in 1 .. Len(MSTxns) - k : Queued[i] = MSTxns[k + i]
  BY <1>1, QueuedIs DEF Queued
<1>3. ASSUME NEW i \in 1 .. Len(Queued)
      PROVE  /\ Queued[i] = MSTxns[k + i] /\ Queued[i] \in Maps
             /\ Size(Queued[i]) <= LogLen /\ DOMAIN Queued[i] \subseteq DOMAIN MSVMap
  <2>1. k + i \in 1 .. Len(MSTxns) /\ Queued[i] = MSTxns[k + i]
    BY <1>1, <1>2
  <2> QED BY <1>1, <2>1 DEF IInv, MergedMap
<1>4. Chain(Disks, Queued, d)
  BY <1>2, DisksIs, DisksChain
<1>5. /\ Len(Disks) = Len(Queued) + 1 /\ DOMAIN Disks = 1 .. Len(Queued) + 1
      /\ Disks \in Seq({Disks[i] : i \in 1 .. Len(Queued) + 1})
  BY <1>2, <1>4, ChainSeq
<1> QED BY <1>2, <1>3, <1>4, <1>5 DEF IInv, MergedMap

\* Steps that touch neither the queue nor the disk keep the disks.
LEMMA DisksKept ==
    ASSUME IInv, MSTxns' = MSTxns, MSVMap' = MSVMap, k' = k, d' = d
    PROVE  Disks' = Disks /\ MergedMap'
<1>1. Disks' = Disks
  BY DEF Disks, Queued
<1> QED BY <1>1 DEF IInv, MergedMap, Size

\* When the queue has been written out, one disk is left.
LEMMA DisksOne ==
    ASSUME MSTxns' = <<>>, MSVMap' = <<>>, k' = 0, d' \in [Addr -> Valuset(Val)]
    PROVE  Disks' = <<d'>> /\ MergedMap'
<1>1. <<>> \in Seq(Maps) /\ Len(<<>>) = 0
  OBVIOUS
<1>2. Len(Queued') = 0
  BY <1>1, QueuedIs DEF Queued
<1>3. Disks' = <<d'>>
  BY <1>2, DisksIs, OneDisk
<1>4. Len(Disks') = 1 /\ Disks'[1] = d'
  BY <1>3
<1>5. 1 .. Len(MSTxns') = {}
  BY <1>1
<1> QED BY <1>3, <1>4, <1>5, ReplayNothing DEF MergedMap

\* LOG.write
LEMMA WriteStep ==
    ASSUME IInv, NEW a \in Addr, NEW v \in Val, Write(a, v)
    PROVE  IInv' /\ S!SWrite(a, v)
<1>1. /\ pc = "idle" /\ MSTxn' = replay_mem([b \in {a} |-> v], MSTxn) /\ ret' = <<"write">>
      /\ d' = d /\ MSVMap' = MSVMap /\ MSTxns' = MSTxns /\ k' = k /\ pc' = pc /\ dw' = dw
  BY DEF Write
<1>2. MSTxn' = [b \in DOMAIN MSTxn \cup {a} |-> IF b = a THEN v ELSE MSTxn[b]]
  BY <1>1 DEF replay_mem
<1>3. [b \in {a} |-> v] \in Maps
  <2>1. [b \in {a} |-> v] \in [{a} -> Val] /\ {a} \in SUBSET Addr
    OBVIOUS
  <2> QED BY <2>1 DEF Maps
<1>4. MSTxn' \in Maps
  BY <1>1, <1>3, ReplayMap DEF IInv, Typed
<1>5. Disks' = Disks /\ MergedMap'
  BY <1>1, DisksKept
<1>6. Typed' /\ Modes'
  BY <1>1, <1>4 DEF IInv, Typed, Modes, Size
<1>7. S!Idle
  BY <1>1, SameDisk DEF IInv, Modes, S!Idle
<1> QED BY <1>1, <1>2, <1>5, <1>6, <1>7 DEF IInv, S!SWrite

\* LOG.abort
LEMMA AbortStep ==
    ASSUME IInv, Abort
    PROVE  IInv' /\ S!SAbort
<1>1. /\ pc = "idle" /\ MSTxn' = <<>> /\ ret' = <<"abort">>
      /\ d' = d /\ MSVMap' = MSVMap /\ MSTxns' = MSTxns /\ k' = k /\ pc' = pc /\ dw' = dw
  BY DEF Abort
<1>2. Disks' = Disks /\ MergedMap'
  BY <1>1, DisksKept
<1>3. Typed' /\ Modes'
  BY <1>1, EmptyMap DEF IInv, Typed, Modes, Size
<1>4. S!Idle
  BY <1>1, SameDisk DEF IInv, Modes, S!Idle
<1> QED BY <1>1, <1>2, <1>3, <1>4 DEF IInv, S!SAbort

\* The disks after one more transaction is queued.
LEMMA DisksMore ==
    ASSUME IInv, k = 0, k' = 0, d' = d, MSTxns' = Append(MSTxns, MSTxn),
           MSVMap' = replay_mem(MSTxn, MSVMap), Size(MSTxn) <= LogLen
    PROVE  /\ Disks' = Append(Disks, replay_disk(MSTxn, Disks[Len(Disks)]))
           /\ MergedMap' /\ MSTxns' \in Seq(Maps)
<1> DEFINE n == Len(MSTxns)
           x == replay_disk(MSTxn, Disks[n + 1])
<1>1. /\ MSTxn \in Maps /\ MSVMap \in Maps /\ MSTxns \in Seq(Maps) /\ n \in Nat
      /\ Len(Queued) = n /\ Len(Disks) = n + 1
      /\ \A i \in 1 .. n : Queued[i] = MSTxns[i]
  BY Facts DEF IInv, Typed
<1>2. /\ MSTxns' \in Seq(Maps) /\ Len(MSTxns') = n + 1 /\ MSTxns'[n + 1] = MSTxn
      /\ \A i \in 1 .. n : MSTxns'[i] = MSTxns[i]
  BY <1>1
<1>3. Len(Queued') = n + 1 /\ \A i \in 1 .. n + 1 : Queued'[i] = MSTxns'[i]
  <2>1. LET q == SubSeq(MSTxns', 0 + 1, Len(MSTxns')) IN
        /\ Len(q) = Len(MSTxns') - 0
        /\ \A i \in 1 .. Len(MSTxns') - 0 : q[i] = MSTxns'[0 + i]
    BY <1>1, <1>2, QueuedIs
  <2> QED BY <1>1, <1>2, <2>1 DEF Queued
<1> HIDE DEF n
<1>4. Chain(Append(Disks, x), Queued', d)
  <2>1. /\ \A i \in 1 .. n : Queued'[i] = Queued[i]
        /\ x = replay_disk(Queued'[n + 1], Disks[n + 1])
    BY <1>1, <1>2, <1>3
  <2>2. Chain(Disks, Queued, d)
    BY Facts
  <2> QED BY <1>1, <1>3, <2>1, <2>2, ChainAppend
<1>5. Disks' = Append(Disks, x)
  <2> HIDE DEF x
  <2>1. Len(Queued') \in Nat
    BY <1>1, <1>3
  <2>2. Append(Disks, x) = DisksOf(Queued', d)
    BY <1>4, <2>1, ChainUnique
  <2> QED BY <2>2, DisksIs
<1>6. Len(Disks') = (n + 1) + 1 /\ Disks'[(n + 1) + 1] = x
  <2>1. Disks \in Seq({Disks[i] : i \in 1 .. n + 1} \cup {x})
    <3>1. Disks \in [1 .. n + 1 -> {Disks[i] : i \in 1 .. n + 1} \cup {x}]
      BY <1>1, Facts DEF Chain
    <3> QED BY <1>1, <3>1, SeqDef
  <2> HIDE DEF x
  <2> DEFINE T == {Disks[i] : i \in 1 .. n + 1} \cup {x}
  <2>2. Disks \in Seq(T) /\ x \in T
    BY <2>1
  <2> HIDE DEF T
  <2> QED BY <1>1, <1>5, <2>2, AppendProperties
<1>7. Disks'[Len(Disks')] = replay_disk(MSVMap', d')
  <2>1. Disks[n + 1] = replay_disk(MSVMap, d)
    BY <1>1, Facts
  <2> QED BY <1>1, <1>6, <2>1, ReplayTwice
<1>8. ASSUME NEW j \in 1 .. Len(MSTxns')
       PROVE  Size(MSTxns'[j]) <= LogLen /\ DOMAIN MSTxns'[j] \subseteq DOMAIN MSVMap'
  <2>1. DOMAIN MSVMap' = DOMAIN MSTxn \cup DOMAIN MSVMap
    BY <1>1, ReplayMap
  <2>2. CASE j = n + 1
    BY <1>2, <2>1, <2>2
  <2>3. CASE j \in 1 .. n
    BY <1>2, <2>1, <2>3 DEF IInv, MergedMap, n
  <2> QED BY <1>1, <1>2, <2>2, <2>3
<1>9. MergedMap'
  BY <1>7, <1>8 DEF MergedMap, Size
<1> QED BY <1>1, <1>2, <1>5, <1>9

\* LOG.commit
LEMMA CommitStep ==
    ASSUME IInv, Commit
    PROVE  IInv' /\ S!SCommit
<1>1. /\ pc = "idle" /\ MSTxn' = <<>> /\ d' = d /\ k' = k /\ pc' = pc /\ dw' = dw /\ k = 0
  BY DEF Commit, IInv, Modes
<1>2. S!Idle
  BY <1>1, SameDisk DEF IInv, Modes, S!Idle
<1>3. CASE /\ Size(MSTxn) <= LogLen /\ ret' = <<"committed">>
           /\ MSTxns' = Append(MSTxns, MSTxn) /\ MSVMap' = replay_mem(MSTxn, MSVMap)
  <2>1. /\ Disks' = Append(Disks, replay_disk(MSTxn, Disks[Len(Disks)]))
        /\ MergedMap' /\ MSTxns' \in Seq(Maps)
    BY <1>1, <1>3, DisksMore
  <2>2. MSVMap' \in Maps
    BY <1>3, ReplayMap DEF IInv, Typed
  <2>3. Typed'
    BY <1>1, <2>1, <2>2, EmptyMap DEF IInv, Typed
  <2>4. Modes'
    BY <1>1 DEF IInv, Modes
  <2> QED BY <1>1, <1>2, <1>3, <2>1, <2>3, <2>4, SameDisk, SameSize DEF IInv, S!SCommit
<1>4. CASE Size(MSTxn) > LogLen /\ ret' = <<"refused">> /\ MSTxns' = MSTxns /\ MSVMap' = MSVMap
  <2>1. Disks' = Disks /\ MergedMap'
    BY <1>1, <1>4, DisksKept
  <2>2. Typed' /\ Modes'
    BY <1>1, <1>4, EmptyMap DEF IInv, Typed, Modes, Size
  <2>3. ~(S!Cardinality(DOMAIN MSTxn) <= LogLen)
    BY <1>4, SameSize, MapsFinite, LenAssumption DEF IInv, Typed
  <2> QED BY <1>1, <1>2, <1>4, <2>1, <2>2, <2>3 DEF IInv, S!SCommit
<1> QED BY <1>3, <1>4 DEF Commit

\* LOG.flushall
LEMMA FlushallStep ==
    ASSUME IInv, Flushall
    PROVE  IInv' /\ S!SFlushBegin
<1>1. /\ pc = "idle" /\ pc' = FlushStart /\ ret' = ret
      /\ d' = d /\ MSTxn' = MSTxn /\ MSVMap' = MSVMap /\ MSTxns' = MSTxns /\ k' = k /\ dw' = dw
  BY DEF Flushall
<1>2. Disks' = Disks /\ MergedMap'
  BY <1>1, DisksKept
<1>3. pc' \in {"merge", "each"} /\ (pc' = "merge" => Size(MSVMap) <= LogLen)
  BY <1>1 DEF FlushStart
<1>4. Typed' /\ Modes'
  BY <1>1, <1>3 DEF IInv, Typed, Modes, Size
<1>5. S!Idle
  BY <1>1, SameDisk DEF IInv, Modes, S!Idle
<1> QED BY <1>1, <1>2, <1>3, <1>4, <1>5 DEF IInv, S!SFlushBegin

\* The end of a flush, once the newest of the disks is the durable one.
LEMMA FlushReturns ==
    ASSUME IInv, pc \in {"merge", "each"}, FlushDone, d' = Disks[Len(Disks)],
           d' \in [Addr -> Valuset(Val)], MSTxn' = MSTxn, dw' = dw
    PROVE  IInv' /\ S!SFlushReturn
<1>1. /\ MSVMap' = <<>> /\ MSTxns' = <<>> /\ k' = 0 /\ ret' = <<"flushed">>
      /\ pc' = IF dw = NoDwrite THEN "idle" ELSE "dwrite"
  BY DEF FlushDone
<1>2. Disks' = <<d'>> /\ MergedMap'
  BY <1>1, DisksOne
<1>3. Typed'
  BY <1>1, EmptyMap DEF IInv, Typed
<1>4. Modes'
  BY <1>1, EmptyMap DEF IInv, Modes
<1> QED BY <1>1, <1>2, <1>3, <1>4 DEF IInv, S!SFlushReturn

LEMMA FlushMergedStep ==
    ASSUME IInv, FlushMerged
    PROVE  IInv' /\ S!SFlushReturn
<1>1. pc = "merge" /\ d' = replay_disk(MSVMap, d) /\ FlushDone /\ MSTxn' = MSTxn /\ dw' = dw
  BY DEF FlushMerged, Flushed, FlushArg, IInv, Modes
<1>2. d' = Disks[Len(Disks)] /\ d' \in [Addr -> Valuset(Val)]
  BY <1>1, ReplayTyped DEF IInv, MergedMap, Typed
<1> QED BY <1>1, <1>2, FlushReturns

\* flushall_nomerge
LEMMA FlushEachDoneStep ==
    ASSUME IInv, FlushEachDone
    PROVE  IInv' /\ S!SFlushReturn
<1>1. pc = "each" /\ k = Len(MSTxns) /\ FlushDone /\ d' = d /\ MSTxn' = MSTxn /\ dw' = dw
  BY DEF FlushEachDone
<1>2. Len(Queued) = 0 /\ d \in [Addr -> Valuset(Val)]
  BY <1>1, Facts DEF IInv, Typed
<1>3. Disks = <<d>>
  BY <1>2, DisksIs, OneDisk
<1>4. d' = Disks[Len(Disks)]
  BY <1>1, <1>3
<1> QED BY <1>1, <1>2, <1>4, FlushReturns

\* The flush of the oldest transaction in the queue, as seen by the disks.
LEMMA OldestFlushed ==
    ASSUME IInv, pc = "each", k < Len(MSTxns)
    PROVE  /\ Size(FlushArg) <= LogLen /\ FlushArg \in Maps
           /\ DOMAIN FlushArg \subseteq DOMAIN MSVMap
           /\ Flushed(FlushArg) = Disks[2] /\ Len(Disks) \in Nat /\ 2 <= Len(Disks)
           /\ Disks[2] = replay_disk(FlushArg, d)
<1>1. /\ Len(Queued) = Len(MSTxns) - k /\ Len(MSTxns) \in Nat /\ k \in Nat
      /\ Len(Disks) = Len(Queued) + 1
  BY Facts DEF IInv, Typed
<1>2. 1 \in 1 .. Len(Queued)
  BY <1>1
<1>3. FlushArg = Queued[1]
  BY <1>2, Facts DEF FlushArg
<1>4. Size(FlushArg) <= LogLen /\ FlushArg \in Maps /\ DOMAIN FlushArg \subseteq DOMAIN MSVMap
  BY <1>2, <1>3, Facts
<1>5. Disks[1 + 1] = replay_disk(Queued[1], Disks[1]) /\ Disks[1] = d
  BY <1>2, Facts DEF Chain
<1>6. Disks[2] = replay_disk(FlushArg, d)
  BY <1>3, <1>5
<1> QED BY <1>1, <1>4, <1>6 DEF Flushed

LEMMA FlushEachStep ==
    ASSUME IInv, FlushEach
    PROVE  IInv' /\ S!SFlushProgress
<1> DEFINE n == Len(MSTxns) - (k + 1)
<1>1. /\ pc = "each" /\ k < Len(MSTxns) /\ d' = Flushed(FlushArg) /\ k' = k + 1 /\ ret' = ret
      /\ MSTxn' = MSTxn /\ MSVMap' = MSVMap /\ MSTxns' = MSTxns /\ pc' = pc /\ dw' = dw
  BY DEF FlushEach
<1>2. /\ d' = Disks[2] /\ d' = replay_disk(FlushArg, d) /\ FlushArg \in Maps
      /\ DOMAIN FlushArg \subseteq DOMAIN MSVMap /\ Len(Disks) \in Nat /\ 2 <= Len(Disks)
  BY <1>1, OldestFlushed
<1>3. /\ MSTxns \in Seq(Maps) /\ Len(MSTxns) \in Nat /\ k \in Nat /\ n \in Nat
      /\ d \in [Addr -> Valuset(Val)] /\ MSVMap \in Maps
  BY <1>1 DEF IInv, Typed
<1>4. Len(Queued) = n + 1 /\ \A i \in 1 .. n + 1 : Queued[i] = MSTxns[k + i]
  BY <1>3, Facts
<1>5. Len(Queued') = n /\ \A i \in 1 .. n : Queued'[i] = MSTxns[(k + 1) + i]
  <2>1. k + 1 \in Nat /\ k + 1 <= Len(MSTxns)
    BY <1>1, <1>3
  <2>2. LET q == SubSeq(MSTxns, (k + 1) + 1, Len(MSTxns)) IN
        /\ Len(q) = Len(MSTxns) - (k + 1)
        /\ \A i \in 1 .. Len(MSTxns) - (k + 1) : q[i] = MSTxns[(k + 1) + i]
    BY <1>3, <2>1, QueuedIs
  <2> QED BY <1>1, <2>2 DEF Queued
<1> HIDE DEF n
<1>6. \A i \in 1 .. n : Queued'[i] = Queued[i + 1]
  <2> TAKE i \in 1 .. n
  <2>1. i + 1 \in 1 .. n + 1 /\ (k + 1) + i = k + (i + 1)
    BY <1>3
  <2> QED BY <1>4, <1>5, <2>1
<1>7. Chain(SubSeq(Disks, 2, Len(Disks)), Queued', Disks[2])
  BY <1>3, <1>4, <1>5, <1>6, Facts, ChainTail
<1>8. Disks' = SubSeq(Disks, 2, Len(Disks))
  <2>1. SubSeq(Disks, 2, Len(Disks)) = DisksOf(Queued', Disks[2])
    BY <1>3, <1>5, <1>7, ChainUnique
  <2> QED BY <1>2, <2>1, DisksIs
<1>9. Disks'[Len(Disks')] = Disks[Len(Disks)]
  <2>1. Len(Disks) = n + 2
    BY <1>3, <1>4, Facts
  <2>2. Len(Disks') = n + 1 /\ \A i \in 1 .. n + 1 : Disks'[i] = Disks[i + 1]
    BY <1>3, <1>8, <2>1, TailDisks
  <2>3. n + 1 \in 1 .. n + 1 /\ (n + 1) + 1 = n + 2
    BY <1>3
  <2> QED BY <2>1, <2>2, <2>3
<1>10. MergedMap'
  <2>1. replay_disk(MSVMap, d') = replay_disk(MSVMap, d)
    BY <1>2, <1>3, ReplayTwice
  <2>2. Disks'[Len(Disks')] = replay_disk(MSVMap', d')
    BY <1>1, <1>9, <2>1 DEF IInv, MergedMap
  <2> QED BY <1>1, <2>2 DEF IInv, MergedMap, Size
<1>11. d' \in [Addr -> Valuset(Val)]
  BY <1>2, <1>3, ReplayTyped
<1>12. Typed' /\ Modes'
  BY <1>1, <1>3, <1>11 DEF IInv, Typed, Modes
<1>13. 2 \in 2 .. Len(Disks)
  BY <1>2
<1> QED BY <1>1, <1>8, <1>10, <1>12, <1>13 DEF IInv, S!SFlushProgress

-----------------------------------------------------------------------------
\* LOG.dwrite, up to the write itself
LEMMA DwriteStep ==
    ASSUME IInv, NEW avs \in Maps, NEW single \in BOOLEAN, Dwrite(avs, single)
    PROVE  /\ IInv'
           /\ \E D \in SUBSET Addr : \E a \in [D -> Val], drop \in SUBSET Addr : S!SDwriteCall(a, drop)
<1> DEFINE drop == IF single THEN DOMAIN avs ELSE Addr
<1>1. /\ pc = "idle" /\ avs # <<>> /\ dw' = [m |-> avs, drop |-> drop] /\ ret' = ret
      /\ pc' = IF DOMAIN avs \cap DOMAIN MSVMap = {} THEN "dwrite" ELSE FlushStart
      /\ d' = d /\ MSTxn' = MSTxn /\ MSVMap' = MSVMap /\ MSTxns' = MSTxns /\ k' = k
  BY DEF Dwrite
<1>2. Disks' = Disks /\ MergedMap'
  BY <1>1, DisksKept
<1>3. DOMAIN avs \in SUBSET Addr /\ avs \in [DOMAIN avs -> Val]
  BY MapsFinite
<1>4. drop \in SUBSET Addr /\ DOMAIN avs \subseteq drop
  BY <1>3
<1> HIDE DEF drop
<1>5. dw'.m = avs /\ dw' # NoDwrite
  BY <1>1 DEF NoDwrite
<1>6. /\ pc' \in {"merge", "each", "dwrite"} /\ (pc' = "merge" => Size(MSVMap) <= LogLen)
      /\ pc' = "dwrite" => DOMAIN avs \cap DOMAIN MSVMap = {}
  BY <1>1 DEF FlushStart
<1>7. Typed'
  BY <1>1, <1>6 DEF IInv, Typed
<1>8. Modes'
  BY <1>1, <1>5, <1>6 DEF IInv, Modes, Size
<1>9. S!Idle
  BY <1>1, SameDisk DEF IInv, Modes, S!Idle
<1>10. S!SDwriteCall(avs, drop)
  BY <1>1, <1>2, <1>4, <1>9 DEF S!SDwriteCall
<1> QED BY <1>2, <1>3, <1>4, <1>7, <1>8, <1>10 DEF IInv

\* A change of the durable disk that commutes with the replay of everything
\* queued is a change of every disk.
LEMMA DisksMapped ==
    ASSUME IInv, MSTxns' = MSTxns, MSVMap' = MSVMap, k' = k,
           NEW t, t = [i \in 1 .. Len(Queued) + 1 |-> t[i]], t[1] = d',
           \A i \in 1 .. Len(Queued) : t[i + 1] = replay_disk(Queued[i], t[i]),
           t[Len(Queued) + 1] = replay_disk(MSVMap, d')
    PROVE  Disks' = t /\ MergedMap'
<1>1. Queued' = Queued /\ Len(Queued) \in Nat
  BY Facts DEF Queued
<1>2. Chain(t, Queued', d')
  BY <1>1 DEF Chain
<1>3. Disks' = t /\ Len(t) = Len(Queued) + 1
  BY <1>1, <1>2, DisksIs, ChainUnique, ChainSeq
<1>4. Disks'[Len(Disks')] = replay_disk(MSVMap', d')
  BY <1>3
<1> QED BY <1>3, <1>4 DEF IInv, MergedMap, Size

\* A direct write commutes with the replay of a map of other blocks, a sync
\* with the replay of any.
LEMMA DirectCommutes ==
    ASSUME NEW m, NEW l, DOMAIN m \cap DOMAIN l = {}, NEW D
    PROVE  DirectWrite(m, replay_disk(l, D)) = replay_disk(l, DirectWrite(m, D))
  BY DEF DirectWrite, replay_disk

SyncedAt(al, disk) == [a \in Addr |-> IF a \in al THEN sync_addr(disk[a]) ELSE disk[a]]

LEMMA SyncCommutes ==
    ASSUME NEW al, NEW l, NEW D
    PROVE  SyncedAt(al, replay_disk(l, D)) = replay_disk(l, SyncedAt(al, D))
  BY BlockTypes DEF SyncedAt, replay_disk

\* dwrite', dwrite_vecs'
LEMMA DwriteDiskStep ==
    ASSUME IInv, DwriteDisk
    PROVE  IInv' /\ S!SDwrite
<1> DEFINE t == [i \in 1 .. Len(Queued) + 1 |-> DirectWrite(dw.m, Disks[i])]
<1>1. /\ pc = "dwrite" /\ pc' = "idle" /\ d' = DirectWrite(dw.m, d) /\ ret' = <<"dwrite">>
      /\ MSTxn' = [b \in DOMAIN MSTxn \ dw.drop |-> MSTxn[b]] /\ dw' = NoDwrite
      /\ MSVMap' = MSVMap /\ MSTxns' = MSTxns /\ k' = k
  BY DEF DwriteDisk
<1>2. dw.m \in Maps /\ dw # NoDwrite /\ DOMAIN dw.m \cap DOMAIN MSVMap = {}
  BY <1>1 DEF IInv, Modes
<1>3. Len(Queued) \in Nat /\ DOMAIN Disks = 1 .. Len(Queued) + 1
  BY Facts
<1>4. t = [i \in 1 .. Len(Queued) + 1 |-> t[i]]
      /\ \A i \in 1 .. Len(Queued) + 1 : t[i] = DirectWrite(dw.m, Disks[i])
  OBVIOUS
<1>5. t[1] = d'
  BY <1>1, <1>3, <1>4, Facts DEF Chain
<1>6. ASSUME NEW i \in 1 .. Len(Queued) PROVE t[i + 1] = replay_disk(Queued[i], t[i])
  <2> HIDE DEF t
  <2>1. i + 1 \in 1 .. Len(Queued) + 1 /\ i \in 1 .. Len(Queued) + 1
    BY <1>3
  <2>2. Disks[i + 1] = replay_disk(Queued[i], Disks[i])
    BY Facts DEF Chain
  <2>3. DOMAIN dw.m \cap DOMAIN Queued[i] = {}
    BY <1>2, Facts
  <2> QED BY <1>4, <2>1, <2>2, <2>3, DirectCommutes
<1>7. t[Len(Queued) + 1] = replay_disk(MSVMap, d')
  <2> HIDE DEF t
  <2>1. Len(Queued) + 1 \in 1 .. Len(Queued) + 1
    BY <1>3
  <2>2. t[Len(Queued) + 1] = DirectWrite(dw.m, replay_disk(MSVMap, d))
    BY <1>4, <2>1, Facts
  <2> QED BY <1>1, <1>2, <2>2, DirectCommutes
<1> HIDE DEF t
<1>8. Disks' = t /\ MergedMap'
  BY <1>1, <1>4, <1>5, <1>6, <1>7, DisksMapped
<1>9. Disks' = [i \in DOMAIN Disks |->
                 [a \in Addr |-> IF a \in DOMAIN dw.m THEN S!WriteTo(Disks[i][a], dw.m[a])
                                                      ELSE Disks[i][a]]]
  BY <1>3, <1>8, SameDisk DEF t, DirectWrite
<1>10. MSTxn' \in Maps
  <2>1. MSTxn' \in [DOMAIN MSTxn \ dw.drop -> Val] /\ DOMAIN MSTxn \ dw.drop \in SUBSET Addr
    BY <1>1, MapsFinite DEF IInv, Typed
  <2> QED BY <2>1 DEF Maps
<1>11. d' \in [Addr -> Valuset(Val)]
  <2>1. d \in [Addr -> Valuset(Val)] /\ \A a \in DOMAIN dw.m : dw.m[a] \in Val
    BY <1>2, MapsFinite DEF IInv, Typed
  <2>2. ASSUME NEW a \in Addr
        PROVE  (IF a \in DOMAIN dw.m THEN WriteTo(d[a], dw.m[a]) ELSE d[a]) \in Valuset(Val)
    BY <2>1, BlockTypes
  <2> QED BY <1>1, <2>2 DEF DirectWrite
<1>12. Typed' /\ Modes'
  BY <1>1, <1>10, <1>11 DEF IInv, Typed, Modes
<1> QED BY <1>1, <1>2, <1>8, <1>9, <1>12, SameDisk DEF IInv, S!SDwrite

\* LOG.dsync
LEMMA DsyncStep ==
    ASSUME IInv, NEW al \in SUBSET Addr, Dsync(al)
    PROVE  IInv' /\ S!SDsync(al)
<1> DEFINE t == [i \in 1 .. Len(Queued) + 1 |-> SyncedAt(al, Disks[i])]
<1>1. /\ pc = "idle" /\ d' = SyncedAt(al, d) /\ ret' = <<"dsync", al>>
      /\ MSTxn' = MSTxn /\ MSVMap' = MSVMap /\ MSTxns' = MSTxns /\ k' = k /\ pc' = pc /\ dw' = dw
  BY DEF Dsync, SyncedAt
<1>2. Len(Queued) \in Nat /\ DOMAIN Disks = 1 .. Len(Queued) + 1
  BY Facts
<1>3. t = [i \in 1 .. Len(Queued) + 1 |-> t[i]]
      /\ \A i \in 1 .. Len(Queued) + 1 : t[i] = SyncedAt(al, Disks[i])
  OBVIOUS
<1>4. t[1] = d'
  BY <1>1, <1>2, <1>3, Facts DEF Chain
<1>5. ASSUME NEW i \in 1 .. Len(Queued) PROVE t[i + 1] = replay_disk(Queued[i], t[i])
  <2> HIDE DEF t
  <2>1. i + 1 \in 1 .. Len(Queued) + 1 /\ i \in 1 .. Len(Queued) + 1
    BY <1>2
  <2>2. Disks[i + 1] = replay_disk(Queued[i], Disks[i])
    BY Facts DEF Chain
  <2> QED BY <1>3, <2>1, <2>2, SyncCommutes
<1>6. t[Len(Queued) + 1] = replay_disk(MSVMap, d')
  <2> HIDE DEF t
  <2>1. Len(Queued) + 1 \in 1 .. Len(Queued) + 1
    BY <1>2
  <2>2. t[Len(Queued) + 1] = SyncedAt(al, replay_disk(MSVMap, d))
    BY <1>3, <2>1, Facts
  <2> QED BY <1>1, <2>2, SyncCommutes
<1> HIDE DEF t
<1>7. Disks' = t /\ MergedMap'
  BY <1>1, <1>3, <1>4, <1>5, <1>6, DisksMapped
<1>8. Disks' = [i \in DOMAIN Disks |->
                 [a \in Addr |-> IF a \in al THEN S!sync_addr(Disks[i][a]) ELSE Disks[i][a]]]
  BY <1>2, <1>7, SameDisk DEF t, SyncedAt
<1>9. d' \in [Addr -> Valuset(Val)]
  BY <1>1, BlockTypes DEF IInv, Typed, SyncedAt
<1>10. Typed' /\ Modes'
  BY <1>1, <1>9 DEF IInv, Typed, Modes, Size
<1>11. S!Idle
  BY <1>1, SameDisk DEF IInv, Modes, S!Idle
<1> QED BY <1>1, <1>7, <1>8, <1>10, <1>11 DEF IInv, S!SDsync

\* A crash, and LOG.recover
LEMMA CrashStep ==
    ASSUME IInv, Crash
    PROVE  IInv' /\ S!SCrash
<1>1. /\ MSTxn' = <<>> /\ MSVMap' = <<>> /\ MSTxns' = <<>> /\ k' = 0 /\ pc' = "idle"
      /\ dw' = NoDwrite /\ ret' = <<"crash">>
  BY DEF Crash
<1>2. /\ d \in [Addr -> Valuset(Val)] /\ MSVMap \in Maps /\ Disks[1] = d
      /\ Len(Disks) = Len(Queued) + 1 /\ Len(Queued) \in Nat /\ DOMAIN Disks = 1 .. Len(Queued) + 1
  BY Facts DEF IInv, Typed, Chain
<1>3. PICK i \in DOMAIN Disks :
        /\ i > 1 => pc \in {"merge", "each"}
        /\ Disks[i] \in [Addr -> Valuset(Val)]
        /\ d' \in possible_crash(Disks[i])
  <2>1. CASE d' \in possible_crash(d)
    <3>1. 1 \in DOMAIN Disks /\ ~(1 > 1)
      BY <1>2
    <3> QED BY <1>2, <2>1, <3>1
  <2>2. CASE pc = "merge" /\ d' \in possible_crash(Flushed(FlushArg))
    <3>1. Flushed(FlushArg) = replay_disk(MSVMap, d)
      BY <2>2 DEF Flushed, FlushArg, IInv, Modes
    <3>2. Disks[Len(Disks)] = replay_disk(MSVMap, d) /\ Len(Disks) \in DOMAIN Disks
      BY <1>2 DEF IInv, MergedMap
    <3> QED BY <1>2, <2>2, <3>1, <3>2, ReplayTyped
  <2>3. CASE pc = "each" /\ k < Len(MSTxns) /\ d' \in possible_crash(Flushed(FlushArg))
    <3>1. /\ Flushed(FlushArg) = Disks[2] /\ 2 <= Len(Disks) /\ FlushArg \in Maps
          /\ Disks[2] = replay_disk(FlushArg, d)
      BY <2>3, OldestFlushed
    <3>2. 2 \in DOMAIN Disks
      BY <1>2, <3>1
    <3> QED BY <1>2, <2>3, <3>1, <3>2, ReplayTyped
  <2> QED BY <2>1, <2>2, <2>3 DEF Crash
<1>4. d' \in [Addr -> Valuset(Val)]
  BY <1>3, CrashTyped
<1>5. Disks' = <<d'>> /\ MergedMap'
  BY <1>1, <1>4, DisksOne
<1>6. Typed' /\ Modes'
  BY <1>1, <1>4, EmptyMap DEF Typed, Modes
<1>7. d' \in S!possible_crash(Disks[i])
  BY <1>3, SameCrash
<1> QED BY <1>1, <1>3, <1>5, <1>6, <1>7, SameDisk DEF IInv, S!SCrash

-----------------------------------------------------------------------------
LEMMA InitStep ==
    ASSUME Init
    PROVE  IInv /\ S!SInit
<1>1. /\ MSTxn = <<>> /\ MSVMap = <<>> /\ MSTxns = <<>> /\ k = 0
      /\ pc = "idle" /\ dw = NoDwrite /\ ret = <<"init">>
  BY DEF Init
<1>2. PICK f \in [Addr -> Val] : d = [a \in Addr |-> Synced(f[a])]
  BY DEF Init
<1>3. d \in [Addr -> Valuset(Val)]
  BY <1>2, BlockTypes
<1>4. <<>> \in Seq(Maps) /\ Len(<<>>) = 0
  OBVIOUS
<1>5. Len(Queued) = 0
  BY <1>1, <1>4, QueuedIs DEF Queued
<1>6. Disks = <<d>>
  BY <1>5, DisksIs, OneDisk
<1>7. MergedMap
  <2>1. Len(Disks) = 1 /\ Disks[1] = d /\ 1 .. Len(MSTxns) = {}
    BY <1>1, <1>4, <1>6
  <2> QED BY <1>1, <1>3, <2>1, ReplayNothing DEF MergedMap
<1>8. Typed /\ Modes
  BY <1>1, <1>3, EmptyMap DEF Typed, Modes
<1>9. Disks = <<[a \in Addr |-> S!Synced(f[a])]>>
  BY <1>2, <1>6, SameDisk
<1> QED BY <1>1, <1>7, <1>8, <1>9, SameDisk DEF IInv, S!SInit

LEMMA NextStep ==
    ASSUME IInv, [Next]_vars
    PROVE  IInv' /\ [S!SNext]_(S!svars)
<1>1. ASSUME NEW a \in Addr, NEW v \in Val, Write(a, v) PROVE IInv' /\ S!SNext
  BY <1>1, WriteStep DEF S!SNext
<1>2. CASE Abort
  BY <1>2, AbortStep DEF S!SNext
<1>3. CASE Commit
  BY <1>3, CommitStep DEF S!SNext
<1>4. CASE Flushall
  BY <1>4, FlushallStep DEF S!SNext
<1>5. CASE FlushMerged
  BY <1>5, FlushMergedStep DEF S!SNext
<1>6. CASE FlushEach
  BY <1>6, FlushEachStep DEF S!SNext
<1>7. CASE FlushEachDone
  BY <1>7, FlushEachDoneStep DEF S!SNext
<1>8. ASSUME NEW avs \in Maps, NEW single \in BOOLEAN, Dwrite(avs, single) PROVE IInv' /\ S!SNext
  BY <1>8, DwriteStep DEF S!SNext
<1>9. CASE DwriteDisk
  BY <1>9, DwriteDiskStep DEF S!SNext
<1>10. ASSUME NEW al \in SUBSET Addr, Dsync(al) PROVE IInv' /\ S!SNext
  BY <1>10, DsyncStep DEF S!SNext
<1>11. CASE Crash
  BY <1>11, CrashStep DEF S!SNext
<1>12. CASE UNCHANGED vars
  <2>1. /\ d' = d /\ MSTxn' = MSTxn /\ MSVMap' = MSVMap /\ MSTxns' = MSTxns /\ k' = k
        /\ pc' = pc /\ dw' = dw /\ ret' = ret
    BY <1>12 DEF vars
  <2>2. Disks' = Disks /\ MergedMap'
    BY <2>1, DisksKept
  <2>3. Typed' /\ Modes'
    BY <2>1 DEF IInv, Typed, Modes, Size
  <2> QED BY <2>1, <2>2, <2>3 DEF IInv, S!svars
<1> QED BY <1>1, <1>2, <1>3, <1>4, <1>5, <1>6, <1>7, <1>8, <1>9, <1>10, <1>11, <1>12 DEF Next

LEMMA Invariant == Spec => []IInv
<1>1. Init => IInv
  BY InitStep
<1>2. IInv /\ [Next]_vars => IInv'
  BY NextStep
<1> QED BY <1>1, <1>2, PTL DEF Spec

\* Every flush that flushall asks for fits in the log, so that the result it
\* ignores is never a refusal.
THEOREM FlushAlwaysFits == Spec => []FlushNeverFails
<1>1. IInv => FlushNeverFails
  <2> SUFFICES ASSUME IInv PROVE FlushNeverFails
    OBVIOUS
  <2>1. pc = "merge" => Size(FlushArg) <= LogLen
    BY DEF IInv, Modes, FlushArg
  <2>2. pc = "each" /\ k < Len(MSTxns) => Size(FlushArg) <= LogLen
    BY OldestFlushed
  <2> QED BY <2>1, <2>2 DEF FlushNeverFails
<1> QED BY <1>1, Invariant, PTL

\* LOG.read returns the newest value of a block wherever it is: in the active
\* transaction, in the merged map of the queue, or on the disk.
THEOREM TxnLogReads == Spec => []ReadsNewest
<1>1. IInv => ReadsNewest
  <2> SUFFICES ASSUME IInv, NEW a \in Addr
               PROVE  ReadValue(a) = IF a \in DOMAIN MSTxn THEN MSTxn[a] ELSE Disks[Len(Disks)][a].cur
    BY DEF ReadsNewest
  <2>1. Disks[Len(Disks)] = replay_disk(MSVMap, d)
    BY DEF IInv, MergedMap
  <2>2. Disks[Len(Disks)][a] = IF a \in DOMAIN MSVMap THEN Synced(MSVMap[a]) ELSE d[a]
    BY <2>1 DEF replay_disk
  <2> QED BY <2>2, BlockTypes DEF ReadValue
<1> QED BY <1>1, Invariant, PTL

\* Transactions, group commit, flushes in one piece or one by one, direct
\* writes and crashes are steps of the sequence of disks.
THEOREM TxnLogImplementsDiskSet == Spec => ImplementsDiskSet
<1>1. Init => S!SInit
  BY InitStep
<1>2. IInv /\ [Next]_vars => [S!SNext]_(S!svars)
  BY NextStep
<1> QED BY <1>1, <1>2, Invariant, PTL DEF Spec, ImplementsDiskSet, S!SSpec
=============================================================================
