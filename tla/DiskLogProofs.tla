---------------------------- MODULE DiskLogProofs ----------------------------
(***************************************************************************)
(* Crash atomicity of the on-disk log with one barrier, for any addresses  *)
(* and values, any size of descriptor blocks and of the log, and any lists *)
(* of entries: see the theorems at the end.                                *)
(*                                                                         *)
(* The invariant says for each header that may be on disk what recovery    *)
(* makes of it.  A header in force names blocks that are synced and match  *)
(* its checksum, so that no crash can change what it stands for (InForce). *)
(* The header an extension writes either matches, with all blocks of the   *)
(* new log on disk, or leads back to the length of the one before.         *)
(***************************************************************************)
EXTENDS DiskLog, TLAPS

\* Lengths a header may have: the data blocks fit in the descriptor blocks.
GoodLen(n) == n \in Lens /\ n.ndata <= n.ndesc * items_per_val
GoodHdr(h) == h = [prev |-> h.prev, len |-> h.len, sum |-> h.sum] /\ GoodLen(h.prev) /\ GoodLen(h.len)

\* The blocks of a prefix have one possible value each.
Kept(n) ==
    /\ \A i \in 0 .. n.ndesc - 1 : desc[i].old = {}
    /\ \A i \in 0 .. n.ndata - 1 : data[i].old = {}
AllKept == (\A i \in DescIdx : desc[i].old = {}) /\ (\A i \in DataIdx : data[i].old = {})

InForce(h) == Kept(h.len) /\ h.sum = Contents(h.len) /\ base = h.sum

Typed ==
    /\ desc \in [DescIdx -> Valuset(DescBlock)]
    /\ data \in [DataIdx -> Valuset(Val)]
    /\ hdr = [cur |-> hdr.cur, old |-> hdr.old]
    /\ \A h \in vsmerge(hdr) : GoodHdr(h)
    /\ arg \in Seq(Addr \X Val)
    /\ pc \in {"idle", "desc", "data", "hdr", "sync", "tsync", "crashed", "rsync"}

\* Up to the header write.
Extending ==
    /\ pc \in {"idle", "desc", "data", "hdr"} => hdr.old = {} /\ InForce(hdr.cur)
    /\ pc \in {"desc", "data", "hdr"} =>
        loglen_valid(Grown(hdr.cur.len, arg)) /\ goal = hash_list(base, hdr.cur.len, arg)
    /\ pc \in {"data", "hdr"} =>
        \A i \in DescIdx : hdr.cur.len.ndesc <= i /\ i < hdr.cur.len.ndesc + ndesc_log(arg) =>
            desc[i].cur = ipack(arg, i - hdr.cur.len.ndesc)
    /\ pc = "hdr" =>
        \A i \in DataIdx : hdr.cur.len.ndata <= i /\ i < hdr.cur.len.ndata + ndata_log(arg) =>
            data[i].cur = arg[i - hdr.cur.len.ndata + 1][2]

\* Two headers may be on disk, the one in force and the new one.
Committing ==
    pc \in {"sync", "tsync"} => \E h \in hdr.old :
        /\ hdr.old = {h} /\ InForce(h)
        /\ hdr.cur.prev = h.len /\ hdr.cur.sum = goal
        /\ pc = "sync" => Contents(hdr.cur.len) = goal
        /\ pc = "tsync" => hdr.cur.len = Len0 /\ goal = Empty

\* After a crash, and while a rollback may or may not be on disk.
CrashAtomic == pc = "crashed" => Recovered \in {base, goal}

Recovering ==
    /\ pc = "crashed" => hdr.old = {} /\ AllKept
    /\ CrashAtomic
    /\ pc = "rsync" => \E h \in hdr.old :
        /\ hdr.old = {h} /\ AllKept /\ h.sum # Contents(h.len)
        /\ hdr.cur.prev = h.prev /\ hdr.cur.len = h.prev /\ hdr.cur.sum = Contents(h.prev)
        /\ base = Contents(h.prev) /\ goal = base

IInv == Typed /\ Extending /\ Committing /\ Recovering

-----------------------------------------------------------------------------
\* The number of descriptor blocks a list takes: enough, and not one too many.
LEMMA DescNeeded ==
    ASSUME NEW n \in Nat
    PROVE  LET r == (n + items_per_val - 1) \div items_per_val IN
           /\ r \in Nat /\ n <= r * items_per_val
           /\ \A m \in Nat : r <= m <=> n <= m * items_per_val
<1> DEFINE c == items_per_val
           r == (n + c - 1) \div c
<1>1. c \in Nat /\ c > 0
  BY LayoutAssumption
<1>2. r \in Nat /\ r * c <= n + c - 1 /\ n + c - 1 < (r + 1) * c
  BY <1>1
<1> HIDE DEF c, r
<1>3. (r + 1) * c = r * c + c /\ r * c \in Nat
  BY <1>1, <1>2
<1>4. n <= r * c
  BY <1>1, <1>2, <1>3
<1>5. ASSUME NEW m \in Nat PROVE r <= m <=> n <= m * c
  <2>1. m * c \in Nat /\ (m + 1) * c = m * c + c
    BY <1>1
  <2>2. ASSUME r <= m PROVE n <= m * c
    <3>1. r * c <= m * c
      BY <1>1, <1>2, <2>2
    <3> QED BY <1>3, <1>4, <2>1, <3>1
  <2>3. ASSUME n <= m * c PROVE r <= m
    <3>1. r * c < (m + 1) * c
      BY <1>1, <1>2, <1>3, <2>1, <2>3
    <3>2. r < m + 1
      BY <1>1, <1>2, <3>1
    <3> QED BY <1>2, <3>2
  <2> QED BY <2>2, <2>3
<1> QED BY <1>2, <1>4, <1>5 DEF r, c

LEMMA Sizes ==
    /\ items_per_val \in Nat /\ items_per_val > 0 /\ LogDescLen \in Nat /\ LogLen \in Nat
    /\ LogLen = items_per_val * LogDescLen
  BY LayoutAssumption DEF LogLen

LEMMA LenTypes ==
    ASSUME NEW n, GoodLen(n)
    PROVE  /\ n.ndesc \in Nat /\ n.ndata \in Nat /\ n = [ndesc |-> n.ndesc, ndata |-> n.ndata]
           /\ n.ndesc <= LogDescLen /\ n.ndata <= LogLen /\ n.ndata <= n.ndesc * items_per_val
           /\ 0 .. n.ndesc - 1 \subseteq DescIdx /\ 0 .. n.ndata - 1 \subseteq DataIdx
  BY Sizes DEF GoodLen, Lens, DescIdx, DataIdx

LEMMA ListSizes ==
    ASSUME NEW l \in Seq(Addr \X Val)
    PROVE  ndesc_log(l) \in Nat /\ ndata_log(l) \in Nat /\ ndata_log(l) <= ndesc_log(l) * items_per_val
<1>1. Len(l) \in Nat
  OBVIOUS
<1> QED BY <1>1, DescNeeded DEF ndesc_log, ndata_log

\* A list that passes the capacity test leaves a length a header may have.
LEMMA GrownGood ==
    ASSUME NEW n, GoodLen(n), NEW l \in Seq(Addr \X Val), loglen_valid(Grown(n, l))
    PROVE  /\ GoodLen(Grown(n, l))
           /\ Grown(n, l).ndesc = n.ndesc + ndesc_log(l) /\ Grown(n, l).ndata = n.ndata + ndata_log(l)
<1> DEFINE c == items_per_val
<1>1. /\ n.ndesc \in Nat /\ n.ndata \in Nat /\ n.ndata <= n.ndesc * c
      /\ ndesc_log(l) \in Nat /\ ndata_log(l) \in Nat /\ ndata_log(l) <= ndesc_log(l) * c
      /\ c \in Nat /\ LogDescLen \in Nat /\ LogLen \in Nat
  BY LenTypes, ListSizes, Sizes
<1> DEFINE g == Grown(n, l)
<1>2. g = [ndesc |-> n.ndesc + ndesc_log(l), ndata |-> n.ndata + ndata_log(l)]
  BY DEF Grown
<1>3. g.ndesc <= LogDescLen /\ g.ndata <= LogLen
  BY DEF loglen_valid
<1> HIDE DEF g, c
<1>4. (n.ndesc + ndesc_log(l)) * c = n.ndesc * c + ndesc_log(l) * c
      /\ n.ndesc * c \in Nat /\ ndesc_log(l) * c \in Nat
  BY <1>1
<1>5. g.ndata <= g.ndesc * c
  <2>1. PICK x \in Nat, y \in Nat :
          n.ndata <= x /\ ndata_log(l) <= y /\ (n.ndesc + ndesc_log(l)) * c = x + y
    BY <1>1, <1>4
  <2>2. n.ndata + ndata_log(l) <= x + y /\ g.ndata = n.ndata + ndata_log(l)
    <3>1. n.ndata \in Nat /\ ndata_log(l) \in Nat
      BY <1>1
    <3> QED BY <1>2, <2>1, <3>1
  <2>3. g.ndesc * c = x + y
    BY <1>2, <2>1
  <2> QED BY <2>2, <2>3
<1>6. g \in Lens
  <2>1. g.ndesc \in Nat /\ g.ndata \in Nat /\ LogDescLen \in Nat /\ LogLen \in Nat
    <3>1. n.ndesc \in Nat /\ n.ndata \in Nat /\ ndesc_log(l) \in Nat /\ ndata_log(l) \in Nat
      BY <1>1
    <3> QED BY <1>1, <1>2, <3>1
  <2>2. g.ndesc \in 0 .. LogDescLen /\ g.ndata \in 0 .. LogLen
    BY <1>3, <2>1
  <2> QED BY <1>2, <2>2 DEF Lens
<1> QED BY <1>2, <1>5, <1>6 DEF GoodLen, g, c

\* The capacity test and avail agree.
LEMMA FitsIff ==
    ASSUME NEW n, GoodLen(n), NEW l \in Seq(Addr \X Val)
    PROVE  loglen_valid(Grown(n, l)) <=> Len(l) <= LogLen - n.ndesc * items_per_val
<1> DEFINE c == items_per_val
           m == LogDescLen - n.ndesc
<1>1. /\ n.ndesc \in Nat /\ n.ndata \in Nat /\ n.ndata <= n.ndesc * c /\ n.ndesc <= LogDescLen
      /\ c \in Nat /\ LogDescLen \in Nat /\ LogLen \in Nat /\ LogLen = c * LogDescLen
      /\ Len(l) \in Nat
  BY LenTypes, Sizes
<1>2. ndesc_log(l) \in Nat /\ \A q \in Nat : ndesc_log(l) <= q <=> Len(l) <= q * c
  BY <1>1, DescNeeded DEF ndesc_log
<1>3. m \in Nat
  BY <1>1
<1> HIDE DEF c
<1>4. m * c = LogLen - n.ndesc * c /\ n.ndesc * c \in Nat
  BY <1>1
<1>5. ndesc_log(l) <= m <=> Len(l) <= LogLen - n.ndesc * c
  BY <1>2, <1>3, <1>4
<1>6. Grown(n, l).ndesc = n.ndesc + ndesc_log(l) /\ Grown(n, l).ndata = n.ndata + Len(l)
  BY DEF Grown, ndata_log
<1>7. Grown(n, l).ndesc <= LogDescLen <=> ndesc_log(l) <= m
  <2>1. n.ndesc \in Nat /\ LogDescLen \in Nat /\ ndesc_log(l) \in Nat
    BY <1>1, <1>2
  <2> QED BY <1>6, <2>1
<1>8. Len(l) <= LogLen - n.ndesc * c => Grown(n, l).ndata <= LogLen
  BY <1>1, <1>4, <1>6
<1> QED BY <1>5, <1>7, <1>8 DEF loglen_valid, c

-----------------------------------------------------------------------------
\* The blocks of a prefix depend on that prefix only.
LEMMA BlocksEq ==
    ASSUME NEW n, NEW de, NEW da, NEW de2, NEW da2,
           \A i \in 0 .. n.ndesc - 1 : de2[i].cur = de[i].cur,
           \A i \in 0 .. n.ndata - 1 : da2[i].cur = da[i].cur
    PROVE  Blocks(n, de2, da2) = Blocks(n, de, da)
  BY DEF Blocks

LEMMA BlocksNone == \A de, da : Blocks(Len0, de, da) = Empty
<1>1. 0 .. Len0.ndesc - 1 = {} /\ 0 .. Len0.ndata - 1 = {} /\ 0 .. -1 = {}
  BY DEF Len0
<1>2. ASSUME NEW de, NEW da PROVE Blocks(Len0, de, da) = Empty
  <2>1. [i \in 0 .. Len0.ndesc - 1 |-> de[i].cur] = [i \in 0 .. -1 |-> i]
    BY <1>1
  <2>2. [i \in 0 .. Len0.ndata - 1 |-> da[i].cur] = [i \in 0 .. -1 |-> i]
    BY <1>1
  <2> QED BY <2>1, <2>2 DEF Blocks, Empty
<1> QED BY <1>2

LEMMA Len0Good == GoodLen(Len0)
  BY Sizes DEF GoodLen, Len0, Lens

\* What a crash does to blocks.
LEMMA CrashBlocks ==
    ASSUME NEW D, NEW c \in possible_crash(D)
    PROVE  /\ DOMAIN c = DOMAIN D /\ c = [a \in DOMAIN D |-> c[a]]
           /\ \A a \in DOMAIN D : c[a].old = {} /\ c[a] = Synced(c[a].cur) /\ c[a].cur \in vsmerge(D[a])
<1>1. PICK g \in [DOMAIN D -> UNION {vsmerge(D[a]) : a \in DOMAIN D}] :
        (\A a \in DOMAIN D : g[a] \in vsmerge(D[a])) /\ c = [a \in DOMAIN D |-> Synced(g[a])]
  BY DEF possible_crash
<1>2. \A v : Synced(v).cur = v /\ Synced(v).old = {}
  BY DEF Synced
<1> QED BY <1>1, <1>2

LEMMA BlockTypes ==
    ASSUME NEW V
    PROVE  /\ \A v \in V : Synced(v) \in Valuset(V)
           /\ \A vs \in Valuset(V) :
                /\ vsmerge(vs) \subseteq V /\ sync_addr(vs) \in Valuset(V)
                /\ \A v \in V : WriteTo(vs, v) \in Valuset(V)
  BY DEF Valuset, Synced, sync_addr, WriteTo, vsmerge

LEMMA CrashTyped ==
    ASSUME NEW I, NEW V, NEW D \in [I -> Valuset(V)], NEW c \in possible_crash(D)
    PROVE  c \in [I -> Valuset(V)]
<1>1. \A a \in I : c[a] = Synced(c[a].cur) /\ c[a].cur \in vsmerge(D[a])
  BY CrashBlocks
<1>2. \A a \in I : c[a] \in Valuset(V)
  BY <1>1, BlockTypes
<1>3. c = [a \in I |-> c[a]]
  BY CrashBlocks
<1> QED BY <1>2, <1>3

\* What a header in force stands for survives a crash.
LEMMA CrashKeeps ==
    ASSUME Typed, NEW n, GoodLen(n), Kept(n),
           desc' \in possible_crash(desc), data' \in possible_crash(data)
    PROVE  Blocks(n, desc', data') = Blocks(n, desc, data)
<1>1. DOMAIN desc = DescIdx /\ DOMAIN data = DataIdx
  BY DEF Typed
<1>2. 0 .. n.ndesc - 1 \subseteq DescIdx /\ 0 .. n.ndata - 1 \subseteq DataIdx
  BY LenTypes
<1>3. \A i \in 0 .. n.ndesc - 1 : desc'[i].cur \in vsmerge(desc[i]) /\ desc[i].old = {}
  BY <1>1, <1>2, CrashBlocks DEF Kept
<1>4. \A i \in 0 .. n.ndata - 1 : data'[i].cur \in vsmerge(data[i]) /\ data[i].old = {}
  BY <1>1, <1>2, CrashBlocks DEF Kept
<1>5. /\ \A i \in 0 .. n.ndesc - 1 : desc'[i].cur = desc[i].cur
      /\ \A i \in 0 .. n.ndata - 1 : data'[i].cur = data[i].cur
  BY <1>3, <1>4 DEF vsmerge
<1> QED BY <1>5, BlocksEq

\* If no block has a second value, that goes for every prefix.
LEMMA AllKeeps ==
    ASSUME AllKept, NEW n, GoodLen(n)
    PROVE  Kept(n)
  BY LenTypes DEF AllKept, Kept

\* After a crash no block has a second value.
LEMMA CrashKept ==
    ASSUME Typed, desc' \in possible_crash(desc), data' \in possible_crash(data)
    PROVE  AllKept'
<1>1. DOMAIN desc = DescIdx /\ DOMAIN data = DataIdx
  BY DEF Typed
<1>2. \A i \in DescIdx : desc'[i].old = {}
  BY <1>1, CrashBlocks
<1>3. \A i \in DataIdx : data'[i].old = {}
  BY <1>1, CrashBlocks
<1> QED BY <1>2, <1>3 DEF AllKept

\* The blocks extend writes are of the right type.
LEMMA EntryTypes ==
    ASSUME NEW l \in Seq(Addr \X Val), NEW i \in Nat
    PROVE  ipack(l, i) \in DescBlock /\ (i < Len(l) => l[i + 1][2] \in Val)
<1>1. Len(l) \in Nat /\ \A k \in 1 .. Len(l) : l[k][1] \in Addr /\ l[k][2] \in Val
  OBVIOUS
<1>2. ASSUME NEW j \in 0 .. items_per_val - 1
      PROVE  (IF i * items_per_val + j < Len(l) THEN l[i * items_per_val + j + 1][1] ELSE 0)
                \in Addr \cup {0}
  <2>1. i * items_per_val + j \in Nat
    <3>1. i * items_per_val \in Nat
      BY Sizes
    <3> QED BY <3>1, Sizes
  <2> DEFINE k == i * items_per_val + j
  <2> HIDE DEF k
  <2>2. k \in Nat /\ (IF k < Len(l) THEN l[k + 1][1] ELSE 0) \in Addr \cup {0}
    BY <1>1, <2>1 DEF k
  <2> QED BY <2>2 DEF k
<1>3. ipack(l, i) \in DescBlock
  BY <1>2 DEF ipack, DescBlock
<1>4. i < Len(l) => l[i + 1][2] \in Val
  BY <1>1
<1> QED BY <1>3, <1>4

\* The checksum carried on over the new blocks is the checksum of the blocks.
LEMMA HashIsBlocks ==
    ASSUME NEW n, GoodLen(n), NEW l \in Seq(Addr \X Val), loglen_valid(Grown(n, l)),
           NEW de, NEW da,
           \A i \in DescIdx : n.ndesc <= i /\ i < n.ndesc + ndesc_log(l) => de[i].cur = ipack(l, i - n.ndesc),
           \A i \in DataIdx : n.ndata <= i /\ i < n.ndata + ndata_log(l) => da[i].cur = l[i - n.ndata + 1][2]
    PROVE  Blocks(Grown(n, l), de, da) = hash_list(Blocks(n, de, da), n, l)
<1> DEFINE nd == n.ndesc + ndesc_log(l) - 1
           na == n.ndata + ndata_log(l) - 1
           b == Blocks(n, de, da)
<1>1. /\ n.ndesc \in Nat /\ n.ndata \in Nat /\ ndesc_log(l) \in Nat /\ ndata_log(l) \in Nat
      /\ Grown(n, l).ndesc - 1 = nd /\ Grown(n, l).ndata - 1 = na
      /\ 0 .. nd \subseteq DescIdx /\ 0 .. na \subseteq DataIdx
  BY LenTypes, ListSizes, GrownGood
<1>2. /\ b.addrs = [i \in 0 .. n.ndesc - 1 |-> de[i].cur]
      /\ b.vals = [i \in 0 .. n.ndata - 1 |-> da[i].cur]
  BY DEF Blocks
<1> HIDE DEF b
<1>3. ASSUME NEW i \in 0 .. nd
      PROVE  de[i].cur = IF i < n.ndesc THEN b.addrs[i] ELSE ipack(l, i - n.ndesc)
  <2>1. CASE i < n.ndesc
    BY <1>1, <1>2, <2>1
  <2>2. CASE ~(i < n.ndesc)
    <3>1. i \in DescIdx
      BY <1>1
    <3>2. n.ndesc \in Nat /\ ndesc_log(l) \in Nat
      BY <1>1
    <3>3. n.ndesc <= i /\ i < n.ndesc + ndesc_log(l)
      BY <2>2, <3>2
    <3> QED BY <2>2, <3>1, <3>3
  <2> QED BY <2>1, <2>2
<1>4. ASSUME NEW i \in 0 .. na
      PROVE  da[i].cur = IF i < n.ndata THEN b.vals[i] ELSE l[i - n.ndata + 1][2]
  <2>1. CASE i < n.ndata
    BY <1>1, <1>2, <2>1
  <2>2. CASE ~(i < n.ndata)
    <3>1. i \in DataIdx
      BY <1>1
    <3>2. n.ndata \in Nat /\ ndata_log(l) \in Nat
      BY <1>1
    <3>3. n.ndata <= i /\ i < n.ndata + ndata_log(l)
      BY <2>2, <3>2
    <3> QED BY <2>2, <3>1, <3>3
  <2> QED BY <2>1, <2>2
<1>5. [i \in 0 .. nd |-> de[i].cur]
        = [i \in 0 .. nd |-> IF i < n.ndesc THEN b.addrs[i] ELSE ipack(l, i - n.ndesc)]
  BY <1>3
<1>6. [i \in 0 .. na |-> da[i].cur]
        = [i \in 0 .. na |-> IF i < n.ndata THEN b.vals[i] ELSE l[i - n.ndata + 1][2]]
  BY <1>4
<1>7. Blocks(Grown(n, l), de, da)
        = [addrs |-> [i \in 0 .. nd |-> de[i].cur], vals |-> [i \in 0 .. na |-> da[i].cur]]
  BY <1>1 DEF Blocks
<1>8. hash_list(b, n, l)
        = [addrs |-> [i \in 0 .. nd |-> IF i < n.ndesc THEN b.addrs[i] ELSE ipack(l, i - n.ndesc)],
           vals |-> [i \in 0 .. na |-> IF i < n.ndata THEN b.vals[i] ELSE l[i - n.ndata + 1][2]]]
  BY DEF hash_list
<1> QED BY <1>5, <1>6, <1>7, <1>8 DEF b

-----------------------------------------------------------------------------
LEMMA InitStep == Init => IInv
<1> SUFFICES ASSUME Init PROVE IInv
  OBVIOUS
<1>1. /\ hdr = Synced([prev |-> Len0, len |-> Len0, sum |-> Empty])
      /\ pc = "idle" /\ arg = <<>> /\ base = Empty
  BY DEF Init
<1>2. PICK f \in [DescIdx -> DescBlock] : desc = [i \in DescIdx |-> Synced(f[i])]
  BY DEF Init
<1>3. PICK g \in [DataIdx -> Val] : data = [i \in DataIdx |-> Synced(g[i])]
  BY DEF Init
<1>4. desc \in [DescIdx -> Valuset(DescBlock)] /\ data \in [DataIdx -> Valuset(Val)]
  BY <1>2, <1>3, BlockTypes
<1>5. /\ hdr = [cur |-> hdr.cur, old |-> hdr.old] /\ hdr.old = {} /\ vsmerge(hdr) = {hdr.cur}
      /\ hdr.cur.prev = Len0 /\ hdr.cur.len = Len0 /\ hdr.cur.sum = Empty
      /\ hdr.cur = [prev |-> Len0, len |-> Len0, sum |-> Empty]
  BY <1>1 DEF Synced, vsmerge
<1>6. GoodHdr(hdr.cur)
  BY <1>5, Len0Good DEF GoodHdr
<1>7. Kept(Len0)
  BY DEF Kept, Len0
<1>8. InForce(hdr.cur)
  BY <1>1, <1>5, <1>7, BlocksNone DEF InForce, Contents
<1>9. arg \in Seq(Addr \X Val)
  BY <1>1
<1>10. Typed
  BY <1>1, <1>4, <1>5, <1>6, <1>9 DEF Typed
<1> QED BY <1>1, <1>5, <1>8, <1>10 DEF IInv, Extending, Committing, Recovering, CrashAtomic

\* extend, up to the capacity test
LEMMA ExtendBeginStep ==
    ASSUME IInv, NEW new \in NewLog, ExtendBegin(new)
    PROVE  IInv'
<1>1. /\ pc = "idle" /\ pc' = "desc" /\ arg' = new /\ loglen_valid(Grown(hdr.cur.len, new))
      /\ base' = Contents(hdr.cur.len) /\ goal' = hash_list(Contents(hdr.cur.len), hdr.cur.len, new)
      /\ hdr' = hdr /\ desc' = desc /\ data' = data
  BY DEF ExtendBegin, disk
<1>2. hdr.old = {} /\ InForce(hdr.cur)
  BY <1>1 DEF IInv, Extending
<1>3. base' = base
  BY <1>1, <1>2 DEF InForce
<1>4. InForce(hdr.cur)'
  BY <1>1, <1>2, <1>3 DEF InForce, Kept, Contents
<1>5. new \in Seq(Addr \X Val)
  BY NewLogAssumption
<1>6. Typed'
  BY <1>1, <1>5 DEF IInv, Typed
<1>7. Extending'
  BY <1>1, <1>2, <1>4 DEF Extending
<1> QED BY <1>1, <1>6, <1>7 DEF IInv, Committing, Recovering, CrashAtomic

\* Desc.write_aligned
LEMMA WriteDescStep ==
    ASSUME IInv, WriteDesc
    PROVE  IInv'
<1> DEFINE n == hdr.cur.len
<1>1. /\ pc = "desc" /\ pc' = "data" /\ hdr' = hdr /\ data' = data /\ arg' = arg
      /\ base' = base /\ goal' = goal
      /\ desc' = [i \in DescIdx |-> IF n.ndesc <= i /\ i < n.ndesc + ndesc_log(arg)
                                    THEN WriteTo(desc[i], ipack(arg, i - n.ndesc)) ELSE desc[i]]
  BY DEF WriteDesc
<1>2. /\ hdr.old = {} /\ InForce(hdr.cur) /\ loglen_valid(Grown(n, arg))
      /\ goal = hash_list(base, n, arg)
  BY <1>1 DEF IInv, Extending
<1>3. /\ GoodLen(n) /\ arg \in Seq(Addr \X Val) /\ desc \in [DescIdx -> Valuset(DescBlock)]
  BY DEF IInv, Typed, vsmerge, GoodHdr
<1>4. /\ n.ndesc \in Nat /\ n.ndata \in Nat /\ ndesc_log(arg) \in Nat
      /\ 0 .. n.ndesc - 1 \subseteq DescIdx /\ 0 .. n.ndata - 1 \subseteq DataIdx
      /\ DescIdx \subseteq Nat
  BY <1>3, LenTypes, ListSizes, Sizes DEF DescIdx
<1> HIDE DEF n
<1>5. \A i \in 0 .. n.ndesc - 1 : desc'[i] = desc[i]
  BY <1>1, <1>4
<1>6. Kept(n)'
  BY <1>1, <1>2, <1>5 DEF InForce, Kept, n
<1>7. Contents(n)' = Contents(n)
  <2>1. n' = n
    BY <1>1 DEF n
  <2> QED BY <1>1, <1>5, <2>1, BlocksEq DEF Contents
<1>8. InForce(hdr.cur)'
  BY <1>1, <1>2, <1>6, <1>7 DEF InForce, n
<1>9. \A i \in DescIdx : n.ndesc <= i /\ i < n.ndesc + ndesc_log(arg) =>
        desc'[i].cur = ipack(arg, i - n.ndesc)
  BY <1>1 DEF WriteTo
<1>10. desc' \in [DescIdx -> Valuset(DescBlock)]
  <2>1. ASSUME NEW i \in DescIdx, n.ndesc <= i PROVE ipack(arg, i - n.ndesc) \in DescBlock
    BY <1>3, <1>4, <2>1, EntryTypes
  <2>2. ASSUME NEW i \in DescIdx
        PROVE  (IF n.ndesc <= i /\ i < n.ndesc + ndesc_log(arg)
                THEN WriteTo(desc[i], ipack(arg, i - n.ndesc)) ELSE desc[i]) \in Valuset(DescBlock)
    BY <1>3, <2>1, BlockTypes
  <2> QED BY <1>1, <2>2
<1>11. Typed'
  BY <1>1, <1>10 DEF IInv, Typed
<1>12. Extending'
  BY <1>1, <1>2, <1>8, <1>9 DEF Extending, n
<1> QED BY <1>1, <1>11, <1>12 DEF IInv, Committing, Recovering, CrashAtomic

\* Data.write_aligned
LEMMA WriteDataStep ==
    ASSUME IInv, WriteData
    PROVE  IInv'
<1> DEFINE n == hdr.cur.len
<1>1. /\ pc = "data" /\ pc' = "hdr" /\ hdr' = hdr /\ desc' = desc /\ arg' = arg
      /\ base' = base /\ goal' = goal
      /\ data' = [i \in DataIdx |-> IF n.ndata <= i /\ i < n.ndata + ndata_log(arg)
                                    THEN WriteTo(data[i], arg[i - n.ndata + 1][2]) ELSE data[i]]
  BY DEF WriteData
<1>2. /\ hdr.old = {} /\ InForce(hdr.cur) /\ loglen_valid(Grown(n, arg))
      /\ goal = hash_list(base, n, arg)
      /\ \A i \in DescIdx : n.ndesc <= i /\ i < n.ndesc + ndesc_log(arg) =>
            desc[i].cur = ipack(arg, i - n.ndesc)
  BY <1>1 DEF IInv, Extending
<1>3. /\ GoodLen(n) /\ arg \in Seq(Addr \X Val) /\ data \in [DataIdx -> Valuset(Val)]
  BY DEF IInv, Typed, vsmerge, GoodHdr
<1>4. /\ n.ndesc \in Nat /\ n.ndata \in Nat /\ ndata_log(arg) \in Nat /\ ndata_log(arg) = Len(arg)
      /\ 0 .. n.ndesc - 1 \subseteq DescIdx /\ 0 .. n.ndata - 1 \subseteq DataIdx
      /\ DataIdx \subseteq Nat
  BY <1>3, LenTypes, ListSizes, Sizes DEF DataIdx, ndata_log
<1> HIDE DEF n
<1>5. \A i \in 0 .. n.ndata - 1 : data'[i] = data[i]
  BY <1>1, <1>4
<1>6. Kept(n)'
  BY <1>1, <1>2, <1>5 DEF InForce, Kept, n
<1>7. Contents(n)' = Contents(n)
  <2>1. n' = n
    BY <1>1 DEF n
  <2> QED BY <1>1, <1>5, <2>1, BlocksEq DEF Contents
<1>8. InForce(hdr.cur)'
  BY <1>1, <1>2, <1>6, <1>7 DEF InForce, n
<1>9. \A i \in DataIdx : n.ndata <= i /\ i < n.ndata + ndata_log(arg) =>
        data'[i].cur = arg[i - n.ndata + 1][2]
  BY <1>1 DEF WriteTo
<1>10. data' \in [DataIdx -> Valuset(Val)]
  <2>1. ASSUME NEW i \in DataIdx, n.ndata <= i, i < n.ndata + ndata_log(arg)
        PROVE  arg[i - n.ndata + 1][2] \in Val
    <3>1. i - n.ndata \in Nat /\ i - n.ndata < Len(arg)
      BY <1>4, <2>1
    <3> QED BY <1>3, <3>1, EntryTypes
  <2>2. ASSUME NEW i \in DataIdx
        PROVE  (IF n.ndata <= i /\ i < n.ndata + ndata_log(arg)
                THEN WriteTo(data[i], arg[i - n.ndata + 1][2]) ELSE data[i]) \in Valuset(Val)
    BY <1>3, <2>1, BlockTypes
  <2> QED BY <1>1, <2>2
<1>11. Typed'
  BY <1>1, <1>10 DEF IInv, Typed
<1>12. Extending'
  BY <1>1, <1>2, <1>8, <1>9 DEF Extending, n
<1> QED BY <1>1, <1>11, <1>12 DEF IInv, Committing, Recovering, CrashAtomic

\* Hdr.write
LEMMA WriteHdrStep ==
    ASSUME IInv, WriteHdr
    PROVE  IInv'
<1>1. PICK h : h = hdr.cur
  OBVIOUS
<1>2. PICK g : g = Grown(h.len, arg)
  OBVIOUS
<1>3. PICK new : new = [prev |-> h.len, len |-> g, sum |-> hash_list(h.sum, h.len, arg)]
  OBVIOUS
<1>4. /\ pc = "hdr" /\ pc' = "sync" /\ desc' = desc /\ data' = data /\ arg' = arg
      /\ base' = base /\ goal' = goal /\ hdr' = WriteTo(hdr, new)
  BY <1>1, <1>2, <1>3 DEF WriteHdr
<1>5. /\ hdr.old = {} /\ InForce(h) /\ loglen_valid(g) /\ goal = hash_list(base, h.len, arg)
      /\ \A i \in DescIdx : h.len.ndesc <= i /\ i < h.len.ndesc + ndesc_log(arg) =>
            desc[i].cur = ipack(arg, i - h.len.ndesc)
      /\ \A i \in DataIdx : h.len.ndata <= i /\ i < h.len.ndata + ndata_log(arg) =>
            data[i].cur = arg[i - h.len.ndata + 1][2]
  BY <1>4, <1>1, <1>2 DEF IInv, Extending
<1>6. GoodHdr(h) /\ GoodLen(h.len) /\ arg \in Seq(Addr \X Val)
  BY <1>1 DEF IInv, Typed, vsmerge, GoodHdr
<1>7. GoodLen(g)
  BY <1>5, <1>6, <1>2, GrownGood
<1>8. Contents(g) = goal
  BY <1>5, <1>6, <1>2, HashIsBlocks DEF Contents, InForce
<1>9. /\ hdr'.cur = new /\ hdr'.old = {h} /\ hdr' = [cur |-> hdr'.cur, old |-> hdr'.old]
      /\ vsmerge(hdr)' = {new, h}
  BY <1>4, <1>5, <1>1 DEF WriteTo, vsmerge
<1>10. new.prev = h.len /\ new.len = g /\ new.sum = goal /\ GoodHdr(new)
  BY <1>5, <1>6, <1>7, <1>3 DEF GoodHdr, InForce
<1>11. InForce(h)'
  BY <1>4, <1>5 DEF InForce, Kept, Contents
<1>12. Contents(g)' = goal'
  BY <1>4, <1>8 DEF Contents
<1>13. Typed'
  BY <1>4, <1>6, <1>9, <1>10 DEF IInv, Typed
<1>14. Committing'
  BY <1>4, <1>9, <1>10, <1>11, <1>12 DEF Committing
<1> QED BY <1>4, <1>13, <1>14 DEF IInv, Extending, Recovering, CrashAtomic

\* The barrier of extend
LEMMA ExtendSyncStep ==
    ASSUME IInv, ExtendSync
    PROVE  IInv'
<1>1. PICK c : c = hdr.cur
  OBVIOUS
<1>2. /\ pc = "sync" /\ pc' = "idle" /\ hdr' = sync_addr(hdr) /\ base' = goal /\ goal' = goal
      /\ arg' = arg
      /\ desc' = [i \in DescIdx |-> IF c.prev.ndesc <= i /\ i < c.len.ndesc
                                    THEN sync_addr(desc[i]) ELSE desc[i]]
      /\ data' = [i \in DataIdx |-> IF c.prev.ndata <= i /\ i < c.len.ndata
                                    THEN sync_addr(data[i]) ELSE data[i]]
  BY <1>1 DEF ExtendSync
<1>3. PICK h \in hdr.old : /\ InForce(h) /\ c.prev = h.len /\ c.sum = goal
                           /\ Contents(c.len) = goal
  BY <1>1, <1>2 DEF IInv, Committing
<1>4. /\ GoodHdr(c) /\ GoodLen(c.len) /\ GoodLen(c.prev)
      /\ desc \in [DescIdx -> Valuset(DescBlock)] /\ data \in [DataIdx -> Valuset(Val)]
  BY <1>1 DEF IInv, Typed, vsmerge, GoodHdr
<1>5. /\ hdr'.cur = c /\ hdr'.old = {} /\ hdr' = [cur |-> hdr'.cur, old |-> hdr'.old]
      /\ vsmerge(hdr)' = {c}
  BY <1>1, <1>2 DEF sync_addr, vsmerge, Synced
<1>6. /\ c.len.ndesc \in Nat /\ c.len.ndata \in Nat /\ c.prev.ndesc \in Nat /\ c.prev.ndata \in Nat
      /\ 0 .. c.len.ndesc - 1 \subseteq DescIdx /\ 0 .. c.len.ndata - 1 \subseteq DataIdx
  BY <1>4, LenTypes
<1>7. \A vs : sync_addr(vs).cur = vs.cur /\ sync_addr(vs).old = {}
  BY DEF sync_addr, Synced
<1>8. ASSUME NEW i \in 0 .. c.len.ndesc - 1
      PROVE  desc'[i].cur = desc[i].cur /\ desc'[i].old = {}
  <2>1. CASE c.prev.ndesc <= i
    BY <1>2, <1>6, <1>7, <2>1
  <2>2. CASE ~(c.prev.ndesc <= i)
    <3>1. i \in 0 .. h.len.ndesc - 1
      BY <1>3, <1>6, <2>2
    <3>2. desc[i].old = {}
      BY <1>3, <3>1 DEF InForce, Kept
    <3> QED BY <1>2, <1>6, <2>2, <3>2
  <2> QED BY <2>1, <2>2
<1>9. ASSUME NEW i \in 0 .. c.len.ndata - 1
      PROVE  data'[i].cur = data[i].cur /\ data'[i].old = {}
  <2>1. CASE c.prev.ndata <= i
    BY <1>2, <1>6, <1>7, <2>1
  <2>2. CASE ~(c.prev.ndata <= i)
    <3>1. i \in 0 .. h.len.ndata - 1
      BY <1>3, <1>6, <2>2
    <3>2. data[i].old = {}
      BY <1>3, <3>1 DEF InForce, Kept
    <3> QED BY <1>2, <1>6, <2>2, <3>2
  <2> QED BY <2>1, <2>2
<1>10. Kept(c.len)'
  BY <1>8, <1>9 DEF Kept
<1>11. Contents(c.len)' = Contents(c.len)
  BY <1>8, <1>9, BlocksEq DEF Contents
<1>12. InForce(c)'
  BY <1>2, <1>3, <1>10, <1>11 DEF InForce
<1>13. desc' \in [DescIdx -> Valuset(DescBlock)]
  BY <1>2, <1>4, BlockTypes
<1>14. data' \in [DataIdx -> Valuset(Val)]
  BY <1>2, <1>4, BlockTypes
<1>15. Typed'
  BY <1>2, <1>4, <1>5, <1>13, <1>14 DEF IInv, Typed
<1>16. Extending'
  BY <1>2, <1>5, <1>12 DEF Extending
<1> QED BY <1>2, <1>15, <1>16 DEF IInv, Committing, Recovering, CrashAtomic

\* trunc, the header write
LEMMA TruncWriteStep ==
    ASSUME IInv, TruncWrite
    PROVE  IInv'
<1>1. PICK h : h = hdr.cur
  OBVIOUS
<1>2. PICK new : new = [prev |-> h.len, len |-> Len0, sum |-> Empty]
  OBVIOUS
<1>3. /\ pc = "idle" /\ pc' = "tsync" /\ desc' = desc /\ data' = data /\ arg' = arg
      /\ base' = Contents(h.len) /\ goal' = Empty /\ hdr' = WriteTo(hdr, new)
  BY <1>1, <1>2 DEF TruncWrite
<1>4. hdr.old = {} /\ InForce(h)
  BY <1>1, <1>3 DEF IInv, Extending
<1>5. GoodHdr(h) /\ GoodLen(h.len)
  BY <1>1 DEF IInv, Typed, vsmerge, GoodHdr
<1>6. /\ hdr'.cur = new /\ hdr'.old = {h} /\ hdr' = [cur |-> hdr'.cur, old |-> hdr'.old]
      /\ vsmerge(hdr)' = {new, h}
  BY <1>1, <1>3, <1>4 DEF WriteTo, vsmerge
<1>7. new.prev = h.len /\ new.len = Len0 /\ new.sum = Empty /\ GoodHdr(new)
  BY <1>2, <1>5, Len0Good DEF GoodHdr
<1>8. InForce(h)'
  BY <1>3, <1>4 DEF InForce, Kept, Contents
<1>9. Typed'
  BY <1>3, <1>5, <1>6, <1>7 DEF IInv, Typed
<1>10. Committing'
  BY <1>3, <1>6, <1>7, <1>8 DEF Committing
<1> QED BY <1>3, <1>9, <1>10 DEF IInv, Extending, Recovering, CrashAtomic

\* trunc, the barrier
LEMMA TruncSyncStep ==
    ASSUME IInv, TruncSync
    PROVE  IInv'
<1>1. PICK c : c = hdr.cur
  OBVIOUS
<1>2. /\ pc = "tsync" /\ pc' = "idle" /\ hdr' = sync_addr(hdr) /\ base' = goal /\ goal' = goal
      /\ desc' = desc /\ data' = data /\ arg' = arg
  BY DEF TruncSync
<1>3. c.len = Len0 /\ c.sum = goal /\ goal = Empty
  BY <1>1, <1>2 DEF IInv, Committing
<1>4. GoodHdr(c)
  BY <1>1 DEF IInv, Typed, vsmerge
<1>5. /\ hdr'.cur = c /\ hdr'.old = {} /\ hdr' = [cur |-> hdr'.cur, old |-> hdr'.old]
      /\ vsmerge(hdr)' = {c}
  BY <1>1, <1>2 DEF sync_addr, vsmerge, Synced
<1>6. Kept(Len0)'
  BY DEF Kept, Len0
<1>7. Contents(Len0)' = Empty
  BY BlocksNone DEF Contents
<1>8. InForce(c)'
  BY <1>2, <1>3, <1>6, <1>7 DEF InForce
<1>9. Typed'
  BY <1>2, <1>4, <1>5 DEF IInv, Typed
<1>10. Extending'
  BY <1>2, <1>5, <1>8 DEF Extending
<1> QED BY <1>2, <1>9, <1>10 DEF IInv, Committing, Recovering, CrashAtomic

\* A crash, by the headers that may be found on disk.
LEMMA CrashStep ==
    ASSUME IInv, Crash
    PROVE  IInv'
<1>1. PICK h \in vsmerge(hdr) : hdr' = Synced(h)
  BY DEF Crash
<1>2. /\ pc' = "crashed" /\ arg' = arg /\ base' = base /\ goal' = goal
      /\ desc' \in possible_crash(desc) /\ data' \in possible_crash(data)
  BY DEF Crash
<1>3. /\ Typed /\ GoodHdr(h) /\ GoodLen(h.len) /\ GoodLen(h.prev)
      /\ desc \in [DescIdx -> Valuset(DescBlock)] /\ data \in [DataIdx -> Valuset(Val)]
  BY <1>1 DEF IInv, Typed, GoodHdr
<1>4. /\ hdr'.cur = h /\ hdr'.old = {} /\ hdr' = [cur |-> hdr'.cur, old |-> hdr'.old]
      /\ vsmerge(hdr)' = {h}
  BY <1>1 DEF vsmerge, Synced
<1>5. desc' \in [DescIdx -> Valuset(DescBlock)] /\ data' \in [DataIdx -> Valuset(Val)]
  BY <1>2, <1>3, CrashTyped
<1>6. Typed'
  BY <1>2, <1>3, <1>4, <1>5 DEF Typed
<1>7. AllKept'
  BY <1>2, <1>3, CrashKept
<1>8. ASSUME NEW n, GoodLen(n), Kept(n) PROVE Contents(n)' = Contents(n)
  BY <1>2, <1>3, <1>8, CrashKeeps DEF Contents
<1>9. Recovered' = IF h.sum = Contents(h.len)' THEN Contents(h.len)' ELSE Contents(h.prev)'
  BY <1>4 DEF Recovered, checksums_match, Contents
<1>10. ASSUME InForce(h) PROVE Recovered' = base
  BY <1>3, <1>8, <1>9, <1>10 DEF InForce
<1>11. Recovered' \in {base, goal}
  <2>1. CASE pc \in {"idle", "desc", "data", "hdr"}
    <3>1. h = hdr.cur /\ InForce(h)
      BY <1>1, <2>1 DEF IInv, Extending, vsmerge
    <3> QED BY <1>10, <3>1
  <2>2. CASE pc \in {"sync", "tsync"}
    <3>1. PICK p \in hdr.old : /\ hdr.old = {p} /\ InForce(p)
                               /\ hdr.cur.prev = p.len /\ hdr.cur.sum = goal
      BY <2>2 DEF IInv, Committing
    <3>2. CASE h = p
      BY <1>10, <3>1, <3>2
    <3>3. CASE h = hdr.cur
      <4>1. Contents(h.prev)' = Contents(h.prev)
        BY <1>3, <1>8, <3>1, <3>3 DEF InForce
      <4> QED BY <1>9, <3>1, <3>3, <4>1 DEF InForce
    <3> QED BY <1>1, <3>1, <3>2, <3>3 DEF vsmerge
  <2>3. CASE pc = "crashed"
    <3>1. h = hdr.cur /\ AllKept /\ Recovered \in {base, goal}
      BY <1>1, <2>3 DEF IInv, Recovering, CrashAtomic, vsmerge
    <3>2. Contents(h.len)' = Contents(h.len) /\ Contents(h.prev)' = Contents(h.prev)
      BY <1>3, <1>8, <3>1, AllKeeps
    <3> QED BY <1>9, <3>1, <3>2 DEF Recovered, checksums_match
  <2>4. CASE pc = "rsync"
    <3>1. PICK p \in hdr.old :
            /\ hdr.old = {p} /\ AllKept /\ p.sum # Contents(p.len)
            /\ hdr.cur.len = p.prev /\ hdr.cur.sum = Contents(p.prev) /\ base = Contents(p.prev)
      BY <2>4 DEF IInv, Recovering
    <3>2. Contents(h.len)' = Contents(h.len) /\ Contents(h.prev)' = Contents(h.prev)
      BY <1>3, <1>8, <3>1, AllKeeps
    <3>3. h = p \/ h = hdr.cur
      BY <1>1, <3>1 DEF vsmerge
    <3> QED BY <1>9, <3>1, <3>2, <3>3
  <2> QED BY <1>3, <2>1, <2>2, <2>3, <2>4 DEF Typed
<1>12. Recovering'
  BY <1>2, <1>4, <1>7, <1>11 DEF Recovering, CrashAtomic
<1> QED BY <1>2, <1>6, <1>12 DEF IInv, Extending, Committing

\* recover, when the checksum matches
LEMMA RecoverMatchStep ==
    ASSUME IInv, RecoverMatch
    PROVE  IInv'
<1>1. /\ pc = "crashed" /\ pc' = "idle" /\ hdr.cur.sum = Contents(hdr.cur.len)
      /\ base' = Contents(hdr.cur.len)
      /\ hdr' = hdr /\ desc' = desc /\ data' = data /\ arg' = arg
  BY DEF RecoverMatch, disk, checksums_match
<1>2. hdr.old = {} /\ AllKept /\ GoodLen(hdr.cur.len)
  BY <1>1 DEF IInv, Recovering, Typed, vsmerge, GoodHdr
<1>3. Kept(hdr.cur.len)
  BY <1>2, AllKeeps
<1>4. InForce(hdr.cur)'
  BY <1>1, <1>3 DEF InForce, Kept, Contents
<1>5. Typed'
  BY <1>1 DEF IInv, Typed
<1>6. Extending'
  BY <1>1, <1>2, <1>4 DEF Extending
<1> QED BY <1>1, <1>5, <1>6 DEF IInv, Committing, Recovering, CrashAtomic

\* recover, when it does not: the header of the previous length is written
LEMMA RecoverRollbackStep ==
    ASSUME IInv, RecoverRollback
    PROVE  IInv'
<1>1. PICK h : h = hdr.cur
  OBVIOUS
<1>2. PICK new : new = [prev |-> h.prev, len |-> h.prev, sum |-> Contents(h.prev)]
  OBVIOUS
<1>3. /\ pc = "crashed" /\ pc' = "rsync" /\ h.sum # Contents(h.len)
      /\ base' = Contents(h.prev) /\ goal' = base' /\ hdr' = WriteTo(hdr, new)
      /\ desc' = desc /\ data' = data /\ arg' = arg
  BY <1>1, <1>2 DEF RecoverRollback, checksums_match
<1>4. hdr.old = {} /\ AllKept /\ GoodHdr(h)
  BY <1>1, <1>3 DEF IInv, Recovering, Typed, vsmerge
<1>5. /\ hdr'.cur = new /\ hdr'.old = {h} /\ hdr' = [cur |-> hdr'.cur, old |-> hdr'.old]
      /\ vsmerge(hdr)' = {new, h}
  BY <1>1, <1>3, <1>4 DEF WriteTo, vsmerge
<1>6. new.prev = h.prev /\ new.len = h.prev /\ new.sum = Contents(h.prev) /\ GoodHdr(new)
  BY <1>2, <1>4 DEF GoodHdr
<1>7. AllKept' /\ Contents(h.len)' = Contents(h.len) /\ Contents(h.prev)' = Contents(h.prev)
  BY <1>3, <1>4 DEF AllKept, Contents
<1>8. Typed'
  BY <1>3, <1>4, <1>5, <1>6 DEF IInv, Typed
<1>9. Recovering'
  BY <1>3, <1>5, <1>6, <1>7 DEF Recovering, CrashAtomic
<1> QED BY <1>3, <1>8, <1>9 DEF IInv, Extending, Committing

\* recover, the barrier
LEMMA RecoverSyncStep ==
    ASSUME IInv, RecoverSync
    PROVE  IInv'
<1>1. PICK c : c = hdr.cur
  OBVIOUS
<1>2. /\ pc = "rsync" /\ pc' = "idle" /\ hdr' = sync_addr(hdr) /\ base' = base
      /\ desc' = desc /\ data' = data /\ arg' = arg
  BY DEF RecoverSync
<1>3. AllKept /\ c.sum = Contents(c.len) /\ base = c.sum
  BY <1>1, <1>2 DEF IInv, Recovering
<1>4. GoodHdr(c) /\ GoodLen(c.len)
  BY <1>1 DEF IInv, Typed, vsmerge, GoodHdr
<1>5. /\ hdr'.cur = c /\ hdr'.old = {} /\ hdr' = [cur |-> hdr'.cur, old |-> hdr'.old]
      /\ vsmerge(hdr)' = {c}
  BY <1>1, <1>2 DEF sync_addr, vsmerge, Synced
<1>6. Kept(c.len)
  BY <1>3, <1>4, AllKeeps
<1>7. InForce(c)'
  BY <1>2, <1>3, <1>6 DEF InForce, Kept, Contents
<1>8. Typed'
  BY <1>2, <1>4, <1>5 DEF IInv, Typed
<1>9. Extending'
  BY <1>2, <1>5, <1>7 DEF Extending
<1> QED BY <1>2, <1>8, <1>9 DEF IInv, Committing, Recovering, CrashAtomic

-----------------------------------------------------------------------------
LEMMA NextStep == IInv /\ [Next]_vars => IInv'
<1> SUFFICES ASSUME IInv, [Next]_vars PROVE IInv'
  OBVIOUS
<1>1. CASE \E new \in NewLog : ExtendBegin(new)
  BY <1>1, ExtendBeginStep
<1>2. CASE WriteDesc
  BY <1>2, WriteDescStep
<1>3. CASE WriteData
  BY <1>3, WriteDataStep
<1>4. CASE WriteHdr
  BY <1>4, WriteHdrStep
<1>5. CASE ExtendSync
  BY <1>5, ExtendSyncStep
<1>6. CASE TruncWrite
  BY <1>6, TruncWriteStep
<1>7. CASE TruncSync
  BY <1>7, TruncSyncStep
<1>8. CASE Crash
  BY <1>8, CrashStep
<1>9. CASE RecoverMatch
  BY <1>9, RecoverMatchStep
<1>10. CASE RecoverRollback
  BY <1>10, RecoverRollbackStep
<1>11. CASE RecoverSync
  BY <1>11, RecoverSyncStep
<1>12. CASE UNCHANGED vars
  BY <1>12 DEF vars, IInv, Typed, Extending, Committing, Recovering, CrashAtomic, InForce, Kept,
               AllKept, Contents, Recovered, checksums_match, vsmerge
<1> QED BY <1>1, <1>2, <1>3, <1>4, <1>5, <1>6, <1>7, <1>8, <1>9, <1>10, <1>11, <1>12 DEF Next

LEMMA Invariant == Spec => []IInv
  BY InitStep, NextStep, PTL DEF Spec

\* When an operation of the log has returned, its effect is on disk and no
\* crash can take it away: the header is synced, its checksum matches, and no
\* block of the log has a second value.
THEOREM LogDurable == Spec => []DurableOnReturn
<1>1. IInv => DurableOnReturn
  BY DEF IInv, Extending, InForce, Kept, DurableOnReturn, checksums_match
<1> QED BY <1>1, Invariant, PTL

\* The capacity test of extend, on whole descriptor blocks, and avail, which
\* the flush above consults first, agree on every list of entries.
THEOREM LogRefusesOnlyWhenFull == Spec => []RefusesOnlyWhenFull
<1>1. IInv => RefusesOnlyWhenFull
  <2> SUFFICES ASSUME IInv, NEW new \in NewLog
               PROVE  loglen_valid(Grown(hdr.cur.len, new)) <=> Len(new) <= avail
    BY DEF RefusesOnlyWhenFull
  <2>1. GoodLen(hdr.cur.len) /\ new \in Seq(Addr \X Val)
    BY NewLogAssumption DEF IInv, Typed, vsmerge, GoodHdr
  <2> QED BY <2>1, FitsIff DEF avail
<1> QED BY <1>1, Invariant, PTL

\* A crash at any step of extend or trunc, or of the recovery from a crash, and
\* however many crashes follow one another, leaves a disk from which recovery
\* settles on the log before the operation or on the log after it.
THEOREM CrashSettles == Spec => []CrashAtomic
<1>1. IInv => CrashAtomic
  BY DEF IInv, Recovering
<1> QED BY <1>1, Invariant, PTL
==============================================================================
