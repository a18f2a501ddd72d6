--------------------------- MODULE BufCacheProofs ---------------------------
(***************************************************************************)
(* The buffer cache keeps its count, its clean blocks match the device,    *)
(* and it implements the virtual disk, for every set of blocks and values  *)
(* and every cache size.                                                   *)
(***************************************************************************)
EXTENDS BufCache, FiniteSetTheorems, TLAPS

\* The inductive invariant.
IInv == TypeOK /\ SizeValid /\ CleanMatches

\* The same for a device d, a map m and a count n between two steps of an
\* operation, and the virtual disk they stand for.
Good(d, m, n) ==
    /\ d \in [Addr -> Valuset(Val)]
    /\ DOMAIN m \subseteq Addr
    /\ m \in [DOMAIN m -> Line]
    /\ IsFiniteSet(DOMAIN m)
    /\ n \in Nat /\ Cardinality(DOMAIN m) = n /\ n <= CSMaxCount
    /\ \A a \in DOMAIN m : ~m[a].dirty => m[a].v = d[a].cur

VirtOf(d, m) ==
    [a \in Addr |-> IF Dirty(a, m) THEN [cur |-> m[a].v, old |-> vsmerge(d[a])] ELSE d[a]]

\* The count after a block has been entered.
CountWith(m, a, n) == IF a \in DOMAIN m THEN n ELSE n + 1

\* What entering line l for block a preserves.
Entered(d, m, n, a, l) ==
    /\ Good(d, Add(m, a, l), CountWith(m, a, n))
    /\ \A b : b # a => (Dirty(b, Add(m, a, l)) <=> Dirty(b, m))
    /\ Dirty(a, Add(m, a, l)) <=> l.dirty
    /\ \A b \in Addr : b # a => VirtOf(d, Add(m, a, l))[b] = VirtOf(d, m)[b]

HandedOf(m) == {a \in Addr : ~Dirty(a, m)}

\* The invariant is Good of the state.
LEMMA GoodState == IInv <=> Good(disk, CSMap, CSCount) /\ out \in Reply
  BY DEF IInv, Good, TypeOK, SizeValid, CleanMatches, Cached

\* A write leaves a block well typed.
LEMMA WriteTyped ==
  ASSUME NEW vs \in Valuset(Val), NEW v \in Val
  PROVE  WriteTo(vs, v) \in Valuset(Val)
  BY DEF Valuset, WriteTo, vsmerge

\* Writing a block back does not change the virtual disk.
LEMMA WritebackGood ==
  ASSUME NEW d, NEW m, NEW n, Good(d, m, n), NEW a
  PROVE  /\ Good(WritebackDisk(a, d, m), WritebackMap(a, m), n)
         /\ VirtOf(WritebackDisk(a, d, m), WritebackMap(a, m)) = VirtOf(d, m)
         /\ \A b : Dirty(b, WritebackMap(a, m)) <=> Dirty(b, m) /\ b # a
         /\ DOMAIN WritebackMap(a, m) = DOMAIN m
         /\ \A b \in DOMAIN m : WritebackMap(a, m)[b].v = m[b].v
<1>1. CASE ~Dirty(a, m)
  BY <1>1 DEF WritebackDisk, WritebackMap
<1>2. CASE Dirty(a, m)
  <2> DEFINE e == WritebackDisk(a, d, m)
             k == WritebackMap(a, m)
  <2>1. a \in DOMAIN m /\ a \in Addr /\ m[a] \in Line /\ m[a].dirty
    BY <1>2 DEF Dirty, Good
  <2>2. e = [d EXCEPT ![a] = WriteTo(d[a], m[a].v)]
    BY <1>2 DEF WritebackDisk
  <2>3. k = Add(m, a, [v |-> m[a].v, dirty |-> FALSE])
    BY <1>2 DEF WritebackMap
  <2>4. /\ DOMAIN k = DOMAIN m
        /\ k[a] = [v |-> m[a].v, dirty |-> FALSE]
        /\ \A b \in DOMAIN m : b # a => k[b] = m[b]
    BY <2>1, <2>3 DEF Add
  <2>5. /\ WriteTo(d[a], m[a].v) \in Valuset(Val)
        /\ e \in [Addr -> Valuset(Val)]
        /\ e[a] = WriteTo(d[a], m[a].v)
        /\ \A b \in Addr : b # a => e[b] = d[b]
    BY <2>1, <2>2, WriteTyped DEF Good, Line
  <2>6. \A b : Dirty(b, k) <=> Dirty(b, m) /\ b # a
    BY <2>1, <2>4 DEF Dirty
  <2>7. Good(e, k, n)
    <3>1. k \in [DOMAIN k -> Line]
      <4>1. m \in [DOMAIN m -> Line] /\ [v |-> m[a].v, dirty |-> FALSE] \in Line
        BY <2>1 DEF Good, Line
      <4> QED
        BY <4>1, <2>1, <2>3 DEF Add
    <3>2. \A b \in DOMAIN k : ~k[b].dirty => k[b].v = e[b].cur
      BY <2>1, <2>4, <2>5 DEF Good, WriteTo
    <3> QED
      BY <3>1, <3>2, <2>4, <2>5 DEF Good
  <2>8. VirtOf(e, k) = VirtOf(d, m)
    <3> SUFFICES ASSUME NEW b \in Addr PROVE VirtOf(e, k)[b] = VirtOf(d, m)[b]
      BY DEF VirtOf
    <3>1. CASE b = a
      BY <3>1, <1>2, <2>1, <2>4, <2>5, <2>6 DEF VirtOf, WriteTo
    <3>2. CASE b # a
      <4>1. Dirty(b, k) <=> Dirty(b, m)
        BY <2>6, <3>2
      <4>2. Dirty(b, m) => k[b] = m[b]
        BY <2>4, <3>2 DEF Dirty
      <4> QED
        BY <4>1, <4>2, <3>2, <2>5 DEF VirtOf
    <3> QED
      BY <3>1, <3>2
  <2>9. \A b \in DOMAIN m : k[b].v = m[b].v
    BY <2>4
  <2> QED
    BY <2>4, <2>6, <2>7, <2>8, <2>9
<1> QED
  BY <1>1, <1>2

\* Removing a clean block changes nothing but the count.
LEMMA RemoveGood ==
  ASSUME NEW d, NEW m, NEW n, Good(d, m, n), NEW a \in DOMAIN m, ~Dirty(a, m)
  PROVE  /\ Good(d, Remove(m, a), n - 1)
         /\ VirtOf(d, Remove(m, a)) = VirtOf(d, m)
         /\ \A b : Dirty(b, Remove(m, a)) <=> Dirty(b, m)
<1> DEFINE k == Remove(m, a)
<1>1. DOMAIN k = DOMAIN m \ {a} /\ \A b \in DOMAIN k : k[b] = m[b]
  BY DEF Remove
<1>2. \A b : Dirty(b, k) <=> Dirty(b, m)
  BY <1>1 DEF Dirty
<1>3. IsFiniteSet(DOMAIN k) /\ Cardinality(DOMAIN k) = n - 1
  BY <1>1, FS_RemoveElement DEF Good
<1>4. Cardinality(DOMAIN k) \in Nat
  BY <1>3, FS_CardinalityType
<1>5. k \in [DOMAIN k -> Line]
  BY <1>1 DEF Good, Remove
<1>6. Good(d, k, n - 1)
  BY <1>1, <1>3, <1>4, <1>5, SizeAssumption DEF Good
<1>7. VirtOf(d, k) = VirtOf(d, m)
  <2> SUFFICES ASSUME NEW b \in Addr PROVE VirtOf(d, k)[b] = VirtOf(d, m)[b]
    BY DEF VirtOf
  <2>1. Dirty(b, m) => b \in DOMAIN k
    BY <1>2 DEF Dirty
  <2> QED
    BY <2>1, <1>1, <1>2 DEF VirtOf
<1> QED
  BY <1>2, <1>6, <1>7

\* maybe_evict makes room and hides behind the virtual disk.
LEMMA EvictGood ==
  ASSUME IInv, NEW e \in MaybeEvict
  PROVE  /\ Good(e.disk, e.map, e.n)
         /\ e.n < CSMaxCount
         /\ VirtOf(e.disk, e.map) = VirtOf(disk, CSMap)
         /\ \A b : Dirty(b, e.map) => Dirty(b, CSMap)
<1>1. Good(disk, CSMap, CSCount)
  BY GoodState
<1>2. CASE CSCount < CSMaxCount
  BY <1>1, <1>2 DEF MaybeEvict
<1>3. CASE Cached = {}
  <2>1. CSCount = 0
    BY <1>1, <1>3, FS_EmptySet DEF Good, Cached
  <2> QED
    BY <1>1, <1>3, <2>1, SizeAssumption DEF MaybeEvict
<1>4. CASE ~(CSCount < CSMaxCount) /\ Cached # {}
  <2>1. PICK a \in Victim : e = Evict(a)
    BY <1>4 DEF MaybeEvict
  <2>2. a \in DOMAIN CSMap
    BY <2>1 DEF Victim, Cached
  <2> DEFINE w == WritebackDisk(a, disk, CSMap)
             k == WritebackMap(a, CSMap)
  <2>3. e.disk = w /\ e.map = Remove(CSMap, a) /\ e.n = CSCount - 1
    BY <2>1 DEF Evict
  <2>4. /\ Good(w, k, CSCount)
        /\ VirtOf(w, k) = VirtOf(disk, CSMap)
        /\ \A b : Dirty(b, k) <=> Dirty(b, CSMap) /\ b # a
        /\ DOMAIN k = DOMAIN CSMap
    BY <1>1, WritebackGood
  <2>5. Remove(k, a) = Remove(CSMap, a)
    BY <2>2 DEF Remove, WritebackMap, Add
  <2>6. /\ Good(w, Remove(k, a), CSCount - 1)
        /\ VirtOf(w, Remove(k, a)) = VirtOf(w, k)
        /\ \A b : Dirty(b, Remove(k, a)) <=> Dirty(b, k)
    BY <2>2, <2>4, RemoveGood
  <2>7. CSCount - 1 < CSMaxCount
    BY <1>1, SizeAssumption DEF Good
  <2> QED
    BY <2>3, <2>4, <2>5, <2>6, <2>7
<1> QED
  BY <1>2, <1>3, <1>4

\* Entering a block keeps everything but that block's virtual contents.
LEMMA AddGood ==
  ASSUME NEW d, NEW m, NEW n, Good(d, m, n), n < CSMaxCount,
         NEW a \in Addr, NEW l \in Line, ~l.dirty => l.v = d[a].cur
  PROVE  Entered(d, m, n, a, l)
<1> DEFINE k == Add(m, a, l)
<1>1. /\ DOMAIN k = DOMAIN m \cup {a}
      /\ k[a] = l
      /\ \A b \in DOMAIN m : b # a => k[b] = m[b]
  BY DEF Add
<1>2. \A b : b # a => (Dirty(b, k) <=> Dirty(b, m))
  BY <1>1 DEF Dirty
<1>3. Dirty(a, k) <=> l.dirty
  BY <1>1 DEF Dirty
<1>4. \A b \in Addr : b # a => VirtOf(d, k)[b] = VirtOf(d, m)[b]
  <2> SUFFICES ASSUME NEW b \in Addr, b # a PROVE VirtOf(d, k)[b] = VirtOf(d, m)[b]
    OBVIOUS
  <2>1. Dirty(b, m) => k[b] = m[b]
    BY <1>1 DEF Dirty
  <2> QED
    BY <2>1, <1>2 DEF VirtOf
<1>5. IsFiniteSet(DOMAIN k) /\ Cardinality(DOMAIN k) = CountWith(m, a, n)
  BY <1>1, FS_AddElement DEF Good, CountWith
<1>6. k \in [DOMAIN k -> Line]
  BY <1>1 DEF Good, Add
<1>7. \A b \in DOMAIN k : ~k[b].dirty => k[b].v = d[b].cur
  BY <1>1 DEF Good
<1>8. CountWith(m, a, n) \in Nat /\ CountWith(m, a, n) <= CSMaxCount
  BY SizeAssumption DEF Good, CountWith
<1>9. Good(d, k, CountWith(m, a, n))
  BY <1>1, <1>5, <1>6, <1>7, <1>8 DEF Good
<1> QED
  BY <1>2, <1>3, <1>4, <1>9, Zenon DEF Entered

-----------------------------------------------------------------------------
\* The refinement mapping in terms of VirtOf.
LEMMA MappingIs ==
  /\ Virtual = VirtOf(disk, CSMap)
  /\ {a \in Addr : ~Dirty(a, CSMap)} = HandedOf(CSMap)
  BY DEF Virtual, VirtOf, HandedOf

\* The mapping after a step.
LEMMA MappingNext ==
  /\ Virtual' = VirtOf(disk', CSMap')
  /\ {a \in Addr : ~Dirty(a, CSMap)}' = HandedOf(CSMap')
  BY DEF Virtual, VirtOf, HandedOf, Dirty

\* The invariant after a step, likewise.
LEMMA GoodNext == IInv' <=> Good(disk', CSMap', CSCount') /\ out' \in Reply
  BY DEF IInv, Good, TypeOK, SizeValid, CleanMatches, Cached

\* Reading returns the virtual disk's newest value.
LEMMA ReadStep ==
  ASSUME IInv, NEW a \in Addr, Read(a)
  PROVE  IInv' /\ V!VRead(a)
<1>1. PICK e \in MaybeEvict :
        /\ disk' = e.disk
        /\ \/ a \in DOMAIN e.map /\ out' = <<"read", a, e.map[a].v>> /\ CSMap' = e.map /\ CSCount' = e.n
           \/ /\ a \notin DOMAIN e.map /\ out' = <<"read", a, e.disk[a].cur>>
              /\ CSMap' = Add(e.map, a, [v |-> e.disk[a].cur, dirty |-> FALSE])
              /\ CSCount' = e.n + 1
  BY DEF Read
<1>2. /\ Good(e.disk, e.map, e.n)
      /\ e.n < CSMaxCount
      /\ VirtOf(e.disk, e.map) = VirtOf(disk, CSMap)
      /\ \A b : Dirty(b, e.map) => Dirty(b, CSMap)
  BY EvictGood
<1>3. CASE a \in DOMAIN e.map
  <2>1. out' = <<"read", a, e.map[a].v>> /\ CSMap' = e.map /\ CSCount' = e.n /\ disk' = e.disk
    BY <1>1, <1>3
  <2>2. e.map[a] \in Line
    BY <1>2, <1>3 DEF Good
  <2>3. IInv'
    BY <2>1, <2>2, <1>2, GoodNext DEF Line, Reply
  <2>4. VirtOf(e.disk, e.map)[a].cur = e.map[a].v
    BY <1>2, <1>3 DEF Good, VirtOf, Dirty
  <2>5. out' = <<"read", a, Virtual[a].cur>>
    BY <2>1, <2>4, <1>2, MappingIs
  <2>6. Virtual' = Virtual
    BY <2>1, <1>2, MappingIs, MappingNext
  <2>7. HandedOf(CSMap) \subseteq HandedOf(CSMap') /\ HandedOf(CSMap') \subseteq Addr
    BY <2>1, <1>2 DEF HandedOf
  <2> QED
    BY <2>3, <2>5, <2>6, <2>7, MappingIs, MappingNext DEF V!VRead
<1>4. CASE a \notin DOMAIN e.map
  <2> DEFINE l == [v |-> e.disk[a].cur, dirty |-> FALSE]
  <2>1. out' = <<"read", a, e.disk[a].cur>> /\ CSMap' = Add(e.map, a, l) /\ CSCount' = e.n + 1 /\ disk' = e.disk
    BY <1>1, <1>4
  <2>2. e.disk[a].cur \in Val /\ l \in Line
    BY <1>2 DEF Good, Valuset, Line
  <2>3. /\ Good(e.disk, Add(e.map, a, l), e.n + 1)
        /\ \A b : b # a => (Dirty(b, Add(e.map, a, l)) <=> Dirty(b, e.map))
        /\ ~Dirty(a, Add(e.map, a, l))
        /\ \A b \in Addr : b # a => VirtOf(e.disk, Add(e.map, a, l))[b] = VirtOf(e.disk, e.map)[b]
    <3>1. ~l.dirty /\ l.v = e.disk[a].cur
      OBVIOUS
    <3> HIDE DEF l
    <3>a. ~l.dirty => l.v = e.disk[a].cur
      BY <3>1
    <3>b. Good(e.disk, e.map, e.n) /\ e.n < CSMaxCount
      BY <1>2
    <3>2. Entered(e.disk, e.map, e.n, a, l)
      BY <2>2, <3>a, <3>b, AddGood
    <3>3. CountWith(e.map, a, e.n) = e.n + 1
      BY <1>4 DEF CountWith
    <3> QED
      BY <3>1, <3>2, <3>3, Zenon DEF Entered
  <2>4. IInv'
    BY <2>1, <2>2, <2>3, GoodNext DEF Reply
  <2>5. ~Dirty(a, e.map)
    BY <1>4 DEF Dirty
  <2>6. VirtOf(e.disk, Add(e.map, a, l)) = VirtOf(e.disk, e.map)
    <3> SUFFICES ASSUME NEW b \in Addr
                 PROVE  VirtOf(e.disk, Add(e.map, a, l))[b] = VirtOf(e.disk, e.map)[b]
      BY DEF VirtOf
    <3>1. CASE b = a
      BY <3>1, <2>3, <2>5 DEF VirtOf
    <3> QED
      BY <3>1, <2>3
  <2>7. out' = <<"read", a, Virtual[a].cur>>
    BY <2>1, <2>5, <1>2, MappingIs DEF VirtOf
  <2>8. Virtual' = Virtual
    BY <2>1, <2>6, <1>2, MappingIs, MappingNext
  <2>9. HandedOf(CSMap) \subseteq HandedOf(CSMap') /\ HandedOf(CSMap') \subseteq Addr
    BY <2>1, <2>3, <1>2 DEF HandedOf
  <2> QED
    BY <2>4, <2>7, <2>8, <2>9, MappingIs, MappingNext DEF V!VRead
<1> QED
  BY <1>3, <1>4

\* Writing keeps the overwritten value possible, unless the device never had it.
LEMMA WriteStep ==
  ASSUME IInv, NEW a \in Addr, NEW v \in Val, Write(a, v)
  PROVE  IInv' /\ V!VWrite(a, v)
<1> DEFINE l == [v |-> v, dirty |-> TRUE]
<1>1. PICK e \in MaybeEvict :
        /\ disk' = e.disk
        /\ CSMap' = Add(e.map, a, l)
        /\ CSCount' = IF a \in DOMAIN e.map THEN e.n ELSE e.n + 1
        /\ out' = <<"write", a, v>>
  BY DEF Write
<1>2. /\ Good(e.disk, e.map, e.n)
      /\ e.n < CSMaxCount
      /\ VirtOf(e.disk, e.map) = VirtOf(disk, CSMap)
      /\ \A b : Dirty(b, e.map) => Dirty(b, CSMap)
  BY EvictGood
<1>3. l \in Line /\ l.dirty /\ l.v = v
  BY DEF Line
<1>4. /\ Good(e.disk, Add(e.map, a, l), CountWith(e.map, a, e.n))
      /\ \A b : b # a => (Dirty(b, Add(e.map, a, l)) <=> Dirty(b, e.map))
      /\ Dirty(a, Add(e.map, a, l))
      /\ \A b \in Addr : b # a => VirtOf(e.disk, Add(e.map, a, l))[b] = VirtOf(e.disk, e.map)[b]
  <2> HIDE DEF l
  <2>a. ~l.dirty => l.v = e.disk[a].cur
    BY <1>3
  <2>b. Good(e.disk, e.map, e.n) /\ e.n < CSMaxCount /\ l \in Line
    BY <1>2, <1>3
  <2>1. Entered(e.disk, e.map, e.n, a, l)
    BY <2>a, <2>b, AddGood
  <2> QED
    BY <1>3, <2>1, Zenon DEF Entered
<1>5. IInv'
  BY <1>1, <1>4, GoodNext DEF CountWith, Reply
<1>6. /\ Virtual \in [Addr -> {Virtual[b] : b \in Addr}]
      /\ Virtual' \in [Addr -> {Virtual'[b] : b \in Addr}]
  BY DEF Virtual
<1>7. \A b \in Addr : b # a => Virtual'[b] = Virtual[b]
  BY <1>1, <1>2, <1>4, MappingIs, MappingNext
<1>8. Virtual'[a] = [cur |-> v, old |-> vsmerge(e.disk[a])]
  <2>1. Add(e.map, a, l)[a] = l
    BY DEF Add
  <2> QED
    BY <2>1, <1>1, <1>3, <1>4, MappingNext DEF VirtOf
<1>9. CASE ~Dirty(a, e.map)
  <2>1. Virtual[a] = e.disk[a]
    BY <1>2, <1>9, MappingIs DEF VirtOf
  <2>2. Virtual'[a] = WriteTo(Virtual[a], v)
    BY <2>1, <1>8 DEF WriteTo
  <2>3. Virtual' = [Virtual EXCEPT ![a] = WriteTo(Virtual[a], v)]
    BY <2>2, <1>6, <1>7
  <2>4. HandedOf(CSMap) \ {a} \subseteq HandedOf(CSMap') /\ HandedOf(CSMap') \subseteq Addr \ {a}
    BY <1>1, <1>2, <1>4 DEF HandedOf
  <2> QED
    BY <2>3, <2>4, <1>1, <1>5, MappingIs, MappingNext DEF V!VWrite, WriteTo, V!WriteTo, vsmerge, V!vsmerge
<1>10. CASE Dirty(a, e.map)
  <2>1. Virtual[a] = [cur |-> e.map[a].v, old |-> vsmerge(e.disk[a])]
    BY <1>2, <1>10, MappingIs DEF VirtOf
  <2>2. Virtual' = [Virtual EXCEPT ![a] = [cur |-> v, old |-> Virtual[a].old]]
    BY <2>1, <1>6, <1>7, <1>8
  <2>3. Virtual' = [Virtual EXCEPT ![a].cur = v]
    BY <2>1, <2>2
  <2>4. HandedOf(CSMap) \ {a} \subseteq HandedOf(CSMap') /\ HandedOf(CSMap') \subseteq Addr \ {a}
    BY <1>1, <1>2, <1>4 DEF HandedOf
  <2>5. a \notin HandedOf(CSMap)
    BY <1>10, <1>2 DEF HandedOf
  <2> QED
    BY <2>3, <2>4, <2>5, <1>1, <1>5, MappingIs, MappingNext DEF V!VWrite
<1> QED
  BY <1>9, <1>10

\* sync only hands the block over.
LEMMA SyncStep ==
  ASSUME IInv, NEW a \in Addr, Sync(a)
  PROVE  IInv' /\ V!VSync(a)
<1>1. Good(disk, CSMap, CSCount) /\ out \in Reply
  BY GoodState
<1>2. /\ disk' = WritebackDisk(a, disk, CSMap) /\ CSMap' = WritebackMap(a, CSMap)
      /\ CSCount' = CSCount /\ out' = <<"sync", a>>
  BY DEF Sync
<1>3. /\ Good(disk', CSMap', CSCount)
      /\ VirtOf(disk', CSMap') = VirtOf(disk, CSMap)
      /\ \A b : Dirty(b, CSMap') <=> Dirty(b, CSMap) /\ b # a
  BY <1>1, <1>2, WritebackGood
<1>4. HandedOf(CSMap') = HandedOf(CSMap) \cup {a}
  BY <1>3 DEF HandedOf
<1> QED
  BY <1>1, <1>2, <1>3, <1>4, GoodNext, MappingIs, MappingNext DEF V!VSync, Reply

\* The barrier makes the blocks handed over durable.
LEMMA EndSyncStep ==
  ASSUME IInv, EndSync
  PROVE  IInv' /\ V!VEndSync
<1>1. Good(disk, CSMap, CSCount) /\ out \in Reply
  BY GoodState
<1>2. /\ disk' = [a \in Addr |-> Synced(disk[a].cur)]
      /\ CSMap' = CSMap /\ CSCount' = CSCount /\ out' = <<"end_sync">>
  BY <1>1 DEF EndSync, sync_mem, sync_addr, Good
<1>3. \A a \in Addr : Synced(disk[a].cur) \in Valuset(Val)
  BY <1>1 DEF Good, Valuset, Synced
<1>4. Good(disk', CSMap', CSCount')
  BY <1>1, <1>2, <1>3 DEF Good, Synced
<1>5. IInv'
  BY <1>1, <1>2, <1>4, GoodNext DEF Reply
<1> DEFINE o == [a \in Addr |-> IF Dirty(a, CSMap) THEN {disk[a].cur} ELSE {}]
<1>6. o \in [Addr -> SUBSET Val]
  BY <1>1 DEF Good, Valuset
<1>7. \A a \in Addr : IF a \in HandedOf(CSMap) THEN o[a] = {} ELSE o[a] \subseteq Virtual[a].old
  BY DEF HandedOf, Virtual, vsmerge
<1>8. Virtual' = [a \in Addr |-> [cur |-> Virtual[a].cur, old |-> o[a]]]
  <2> SUFFICES ASSUME NEW a \in Addr
               PROVE  VirtOf(disk', CSMap')[a] = [cur |-> Virtual[a].cur, old |-> o[a]]
    BY MappingNext DEF VirtOf
  <2>1. CASE Dirty(a, CSMap)
    BY <1>2, <2>1 DEF VirtOf, Virtual, vsmerge, Synced
  <2>2. CASE ~Dirty(a, CSMap)
    BY <1>2, <2>2 DEF VirtOf, Virtual, Synced
  <2> QED
    BY <2>1, <2>2
<1>9. \E q \in [Addr -> SUBSET Val] :
        /\ \A a \in Addr : IF a \in HandedOf(CSMap) THEN q[a] = {} ELSE q[a] \subseteq Virtual[a].old
        /\ Virtual' = [a \in Addr |-> [cur |-> Virtual[a].cur, old |-> q[a]]]
  <2> HIDE DEF o
  <2> QED
    BY <1>6, <1>7, <1>8
<1>10. {a \in Addr : ~Dirty(a, CSMap)}' = HandedOf(CSMap)
  BY <1>2, MappingNext
<1> QED
  BY <1>2, <1>5, <1>9, <1>10, MappingIs DEF V!VEndSync

\* What a crash leaves, as a choice of one value per block.
LEMMA CrashPicks ==
  ASSUME NEW D \in [Addr -> Valuset(Val)], NEW c \in possible_crash(D)
  PROVE  \E f \in [Addr -> Val] :
            /\ \A a \in Addr : f[a] \in vsmerge(D[a])
            /\ c = [a \in Addr |-> Synced(f[a])]
<1>1. \A a \in Addr : vsmerge(D[a]) \subseteq Val
  BY DEF Valuset, vsmerge
<1>2. PICK g \in [Addr -> UNION {vsmerge(D[a]) : a \in Addr}] :
        (\A a \in Addr : g[a] \in vsmerge(D[a])) /\ c = [a \in Addr |-> Synced(g[a])]
  BY DEF possible_crash
<1>3. g \in [Addr -> Val]
  BY <1>1, <1>2
<1> QED
  BY <1>2, <1>3

\* Conversely, every such choice is possible.
LEMMA CrashMay ==
  ASSUME NEW D, DOMAIN D = Addr, NEW f, \A a \in Addr : f[a] \in vsmerge(D[a])
  PROVE  [a \in Addr |-> Synced(f[a])] \in V!possible_crash(D)
<1> DEFINE g == [a \in Addr |-> f[a]]
<1>1. \A a \in Addr : vsmerge(D[a]) = V!vsmerge(D[a])
  BY DEF vsmerge, V!vsmerge
<1>2. g \in [Addr -> UNION {V!vsmerge(D[a]) : a \in Addr}]
  BY <1>1
<1>3. \A a \in Addr : g[a] \in V!vsmerge(D[a])
  BY <1>1
<1>4. [a \in Addr |-> Synced(f[a])] = [a \in Addr |-> V!Synced(g[a])]
  BY DEF Synced, V!Synced
<1> HIDE DEF g
<1> QED
  BY <1>2, <1>3, <1>4 DEF V!possible_crash

\* A crash of the cache is a crash of the virtual disk.
LEMMA CrashStep ==
  ASSUME IInv, Crash
  PROVE  IInv' /\ V!VCrash
<1>1. Good(disk, CSMap, CSCount) /\ out \in Reply
  BY GoodState
<1>2. PICK c \in possible_crash(disk) : disk' = sync_mem(c)
  BY DEF Crash
<1>3. PICK f \in [Addr -> Val] :
        /\ \A a \in Addr : f[a] \in vsmerge(disk[a])
        /\ c = [a \in Addr |-> Synced(f[a])]
  BY <1>1, CrashPicks DEF Good
<1>4. disk' = [a \in Addr |-> Synced(f[a])]
  BY <1>2, <1>3 DEF sync_mem, sync_addr, Synced
<1>5. CSMap' = <<>> /\ CSCount' = 0 /\ out' = <<"recover">> /\ DOMAIN CSMap' = {}
  BY DEF Crash
<1>6. \A a \in Addr : Synced(f[a]) \in Valuset(Val)
  BY DEF Synced, Valuset
<1>7. disk' \in [Addr -> Valuset(Val)]
  BY <1>4, <1>6
<1>8. IsFiniteSet({}) /\ Cardinality({}) = 0
  BY FS_EmptySet
<1>9. IInv'
  BY <1>1, <1>5, <1>7, <1>8, SizeAssumption
     DEF IInv, TypeOK, SizeValid, CleanMatches, Cached, Reply
<1>10. \A a : ~Dirty(a, CSMap')
  BY <1>5 DEF Dirty
<1>11. Virtual' = [a \in Addr |-> Synced(f[a])] /\ HandedOf(CSMap') = Addr
  BY <1>4, <1>10, MappingNext DEF VirtOf, HandedOf
<1>12. DOMAIN Virtual = Addr /\ \A a \in Addr : f[a] \in vsmerge(Virtual[a])
  BY <1>3 DEF Virtual, vsmerge
<1>13. Virtual' \in V!possible_crash(Virtual)
  BY <1>11, <1>12, CrashMay
<1> QED
  BY <1>5, <1>9, <1>11, <1>13, MappingNext DEF V!VCrash

-----------------------------------------------------------------------------
\* The initial states of the cache.
LEMMA InitGood == Init => IInv /\ V!VInit
<1> SUFFICES ASSUME Init PROVE IInv /\ V!VInit
  OBVIOUS
<1>1. PICK f \in [Addr -> Val] : disk = [a \in Addr |-> Synced(f[a])]
  BY DEF Init
<1>2. CSMap = <<>> /\ DOMAIN CSMap = {} /\ CSCount = 0 /\ out = <<"init">>
  BY DEF Init
<1>3. \A a \in Addr : Synced(f[a]) \in Valuset(Val)
  BY DEF Synced, Valuset
<1>4. IsFiniteSet({}) /\ Cardinality({}) = 0
  BY FS_EmptySet
<1>5. IInv
  BY <1>1, <1>2, <1>3, <1>4, SizeAssumption
     DEF IInv, TypeOK, SizeValid, CleanMatches, Cached, Reply
<1>6. \A a : ~Dirty(a, CSMap)
  BY <1>2 DEF Dirty
<1>7. Virtual = [a \in Addr |-> V!Synced(f[a])]
  BY <1>1, <1>6 DEF Virtual, Synced, V!Synced
<1> QED
  BY <1>2, <1>5, <1>6, <1>7 DEF V!VInit

\* Every step of the cache preserves the invariant and is a step of the
\* virtual disk or leaves it alone.
LEMMA StepGood == IInv /\ [Next]_vars => IInv' /\ [V!VNext]_V!vvars
<1> SUFFICES ASSUME IInv, [Next]_vars PROVE IInv' /\ [V!VNext]_V!vvars
  OBVIOUS
<1>1. ASSUME NEW a \in Addr, Read(a) PROVE IInv' /\ [V!VNext]_V!vvars
  BY <1>1, ReadStep DEF V!VNext
<1>2. ASSUME NEW a \in Addr, Sync(a) PROVE IInv' /\ [V!VNext]_V!vvars
  BY <1>2, SyncStep DEF V!VNext
<1>3. ASSUME NEW a \in Addr, NEW v \in Val, Write(a, v) PROVE IInv' /\ [V!VNext]_V!vvars
  BY <1>3, WriteStep DEF V!VNext
<1>4. CASE EndSync
  BY <1>4, EndSyncStep DEF V!VNext
<1>5. CASE Crash
  BY <1>5, CrashStep DEF V!VNext
<1>6. CASE UNCHANGED vars
  <2>1. disk' = disk /\ CSMap' = CSMap /\ CSCount' = CSCount /\ out' = out
    BY <1>6 DEF vars
  <2> QED
    BY <2>1, GoodState, GoodNext, MappingIs, MappingNext DEF V!vvars
<1> QED
  BY <1>1, <1>2, <1>3, <1>4, <1>5, <1>6 DEF Next

\* The cache keeps its types, its count and its clean blocks (Cache.v), for
\* every disk, every cache size and every sequence of operations and crashes.
THEOREM CacheInvariant == Spec => [](TypeOK /\ SizeValid /\ CleanMatches)
<1>1. Init => IInv
  BY InitGood
<1>2. IInv /\ [Next]_vars => IInv'
  BY StepGood
<1> QED
  BY <1>1, <1>2, PTL DEF Spec, IInv

\* The cache never holds more than CSMaxCount blocks and counts them right.
THEOREM CacheBounded == Spec => []SizeValid
  BY CacheInvariant, PTL

\* The buffer cache of Cache.v implements the asynchronous disk its clients
\* are promised.
THEOREM CacheImplementsDisk == Spec => ImplementsVirtualDisk
<1>1. Init => IInv /\ V!VInit
  BY InitGood
<1>2. IInv /\ [Next]_vars => IInv' /\ [V!VNext]_V!vvars
  BY StepGood
<1> QED
  BY <1>1, <1>2, PTL DEF Spec, ImplementsVirtualDisk, V!VSpec
=============================================================================
