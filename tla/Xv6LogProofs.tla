---------------------------- MODULE Xv6LogProofs ----------------------------
(***************************************************************************)
(* The redo log of xv6 implements GroupCommit, for any number of threads,  *)
(* any blocks and values and any log size: see the theorems at the end.    *)
(*                                                                         *)
(* The heart of the invariant is Recoverable: whichever of its possible    *)
(* values the header has after a crash, recovering from it yields the disk *)
(* GroupCommit calls durable (or, while the committing header may or may   *)
(* not be on disk, the one the calls see), because the log blocks it names *)
(* and the home blocks it does not name have one possible value each.      *)
(***************************************************************************)
EXTENDS Xv6Log, FiniteSetTheorems, TLAPS

Active == {p \in Proc : pc[p] = "op"}
Vis == IF Recovering THEN Durable ELSE [b \in Block |-> Current(b)]

Commit == {"wlog", "whead", "install", "clear", "wclear"}
Recovery == {"read", "rinstall", "rclear", "rflush"}

Typed ==
    /\ home \in [Block -> Valuset(Val)]
    /\ logblock \in [LogIdx -> Valuset(Val)]
    /\ dirty \in UNION {[S -> Val] : S \in SUBSET Block}
    /\ sector \in Seq(Block) /\ Len(sector) <= size - 1
    /\ outstanding \in Nat /\ committing \in BOOLEAN
    /\ pc \in [Proc -> {"out", "op"}]
    /\ step \in {"none"} \cup Commit \cup Recovery
    /\ tail \in Nat

\* b is in the sequence h.
Names(h, b) == \E i \in DOMAIN h : h[i] = b

\* Recovering with header h, log blocks lb and home blocks hm leaves D whatever
\* the crash has kept of unflushed writes.
Yields(h, lb, hm, D) ==
    /\ h \in Seq(Block) /\ Len(h) <= size - 1
    /\ \A i \in DOMAIN h : lb[i] = Synced(D[h[i]])
    /\ \A b \in Block : ~Names(h, b) => hm[b] = Synced(D[b])

Recoverable ==
    /\ Yields(head.cur, logblock, home, IF step = "whead" THEN Vis ELSE Durable)
    /\ \A h \in head.old : Yields(h, logblock, home, Durable)

\* The header on disk at each step.
HeadInv ==
    /\ head = [cur |-> head.cur, old |-> head.old]
    /\ step \notin {"whead", "wclear", "rflush"} => head.old = {}
    /\ step \in {"none", "wlog", "wclear", "rflush"} => head.cur = <<>>
    /\ step \in {"whead", "install", "rinstall"} => head.cur = sector

\* Calls, and who may be running.
CallInv ==
    /\ outstanding = Cardinality(Active)
    /\ committing <=> step \in Commit
    /\ step # "none" => outstanding = 0
    /\ step = "none" /\ outstanding = 0 => sector = <<>>

\* What the transaction in memory has to do with the disk.
TransInv ==
    /\ \A b \in DOMAIN dirty : Names(sector, b)
    /\ step \in Recovery => DOMAIN dirty = {}
    /\ step \in {"clear", "wclear", "read", "rclear", "rflush"} => sector = <<>>
    /\ step = "wlog" => /\ tail <= Len(sector)
                        /\ \A i \in 1 .. tail : logblock[i].cur = Current(sector[i])
    /\ step = "install" => \A b \in Block : Current(b) = Durable[b]
    /\ step \in {"install", "rinstall"} =>
        /\ tail <= Len(sector)
        /\ \A i \in 1 .. tail : home[sector[i]].cur = Durable[sector[i]]
                                /\ sector[i] \notin DOMAIN dirty
    /\ step \in {"clear", "rclear"} => \A b \in Block : home[b].cur = Durable[b]
    /\ step \in {"read"} => tail = 0

IInv == Typed /\ HeadInv /\ Recoverable /\ CallInv /\ TransInv

-----------------------------------------------------------------------------
\* Durable, as a function of the header, the log blocks and the home blocks.
DurOf(h, lb, hm) ==
    [b \in Block |-> IF Names(h, b) THEN lb[CHOOSE i \in DOMAIN h : h[i] = b].cur
                                    ELSE hm[b].cur]

LEMMA DurIs ==
    /\ Durable = DurOf(IF step = "whead" THEN <<>> ELSE head.cur, logblock, home)
    /\ Durable' = DurOf(IF step' = "whead" THEN <<>> ELSE head'.cur, logblock', home')
<1>1. \A b : ~Names(<<>>, b)
  BY DEF Names
<1> QED BY <1>1 DEF Durable, DurOf, Names

\* Without a header the home blocks are what a crash leaves.
LEMMA NoHeader ==
    ASSUME NEW lb, NEW hm
    PROVE  /\ DurOf(<<>>, lb, hm) = [b \in Block |-> hm[b].cur]
           /\ \A D : Yields(<<>>, lb, hm, D) <=> \A b \in Block : hm[b] = Synced(D[b])
<1>1. \A b : ~Names(<<>>, b)
  BY DEF Names
<1>2. <<>> \in Seq(Block) /\ Len(<<>>) <= size - 1 /\ DOMAIN <<>> = {}
  BY SizeAssumption DEF size
<1> QED BY <1>1, <1>2 DEF DurOf, Yields

LEMMA YieldsDur ==
    ASSUME NEW h, NEW lb, NEW hm, NEW D \in [Block -> Val], Yields(h, lb, hm, D)
    PROVE  DurOf(h, lb, hm) = D
<1>1. ASSUME NEW b \in Block, Names(h, b)
      PROVE  lb[CHOOSE i \in DOMAIN h : h[i] = b].cur = D[b]
  <2> DEFINE j == CHOOSE i \in DOMAIN h : h[i] = b
  <2>1. j \in DOMAIN h /\ h[j] = b
    BY <1>1 DEF Names
  <2> HIDE DEF j
  <2>2. lb[j] = Synced(D[b])
    BY <2>1 DEF Yields
  <2>3. lb[j].cur = D[b]
    BY <2>2 DEF Synced
  <2> QED BY <2>3 DEF j
<1>2. ASSUME NEW b \in Block, ~Names(h, b) PROVE hm[b].cur = D[b]
  <2>1. hm[b] = Synced(D[b])
    BY <1>2 DEF Yields
  <2> QED BY <2>1 DEF Synced
<1> QED BY <1>1, <1>2 DEF DurOf

\* Blocks of the right type stay so.
LEMMA BlockTypes ==
    /\ \A v \in Val : Synced(v) \in Valuset(Val)
    /\ \A v : Synced(v).cur = v /\ Synced(v).old = {} /\ vsmerge(Synced(v)) = {v}
    /\ \A vs \in Valuset(Val) :
        /\ vs.cur \in Val /\ vsmerge(vs) \subseteq Val /\ sync_addr(vs) = Synced(vs.cur)
        /\ \A v \in Val : WriteTo(vs, v) \in Valuset(Val) /\ WriteTo(vs, v).cur = v
  BY DEF Valuset, Synced, sync_addr, WriteTo, vsmerge

\* A flush leaves the newest value of every block.
LEMMA SyncMem ==
    ASSUME NEW S, NEW D \in [S -> Valuset(Val)]
    PROVE  /\ sync_mem(D) \in [S -> Valuset(Val)]
           /\ \A a \in S : sync_mem(D)[a] = Synced(D[a].cur)
           /\ \A a \in S : sync_mem(D)[a].cur = D[a].cur
  BY BlockTypes DEF sync_mem

\* A crash leaves one possible value of every block.
LEMMA CrashPicks ==
    ASSUME NEW S, NEW D \in [S -> Valuset(Val)], NEW c \in possible_crash(D)
    PROVE  /\ c \in [S -> Valuset(Val)]
           /\ \A a \in S : c[a] = Synced(c[a].cur)
           /\ \A v : \A a \in S : D[a] = Synced(v) => c[a] = Synced(v)
<1>1. PICK g \in [S -> UNION {vsmerge(D[a]) : a \in S}] :
        (\A a \in S : g[a] \in vsmerge(D[a])) /\ c = [a \in S |-> Synced(g[a])]
  BY DEF possible_crash
<1>2. \A a \in S : g[a] \in Val
  BY <1>1, BlockTypes
<1>3. \A a \in S : c[a] = Synced(g[a])
  BY <1>1
<1>4. c \in [S -> Valuset(Val)]
  BY <1>1, <1>2, BlockTypes
<1>5. ASSUME NEW a \in S, NEW v, D[a] = Synced(v) PROVE c[a] = Synced(v)
  BY <1>1, <1>3, <1>5, BlockTypes
<1>6. ASSUME NEW a \in S PROVE c[a] = Synced(c[a].cur)
  <2>1. c[a] = Synced(g[a])
    BY <1>3
  <2> QED BY <2>1 DEF Synced
<1> QED BY <1>4, <1>5, <1>6

\* What recovery yields does not depend on what the crash keeps.
LEMMA YieldsCrash ==
    ASSUME Typed, NEW h, NEW D, Yields(h, logblock, home, D),
           logblock' \in possible_crash(logblock), home' \in possible_crash(home)
    PROVE  Yields(h, logblock', home', D)
<1>1. DOMAIN h \subseteq LogIdx
  BY SizeAssumption DEF Yields, LogIdx, size
<1>2. ASSUME NEW i \in DOMAIN h PROVE logblock'[i] = Synced(D[h[i]])
  <2>1. i \in LogIdx /\ logblock[i] = Synced(D[h[i]]) /\ logblock \in [LogIdx -> Valuset(Val)]
    BY <1>1 DEF Yields, Typed
  <2> QED BY <2>1, CrashPicks
<1>3. ASSUME NEW b \in Block, ~Names(h, b) PROVE home'[b] = Synced(D[b])
  <2>1. home[b] = Synced(D[b]) /\ home \in [Block -> Valuset(Val)]
    BY <1>3 DEF Yields, Typed
  <2> QED BY <2>1, CrashPicks
<1> QED BY <1>2, <1>3 DEF Yields

\* Nor does a flush change it.
LEMMA YieldsSync ==
    ASSUME Typed, NEW h, NEW D, Yields(h, logblock, home, D),
           logblock' = sync_mem(logblock), home' = sync_mem(home)
    PROVE  Yields(h, logblock', home', D)
<1>1. DOMAIN h \subseteq LogIdx
  BY SizeAssumption DEF Yields, LogIdx, size
<1>2. ASSUME NEW i \in DOMAIN h PROVE logblock'[i] = Synced(D[h[i]])
  <2>1. i \in LogIdx /\ logblock[i] = Synced(D[h[i]]) /\ logblock \in [LogIdx -> Valuset(Val)]
    BY <1>1 DEF Yields, Typed
  <2> QED BY <2>1, SyncMem, BlockTypes
<1>3. ASSUME NEW b \in Block, ~Names(h, b) PROVE home'[b] = Synced(D[b])
  <2>1. home[b] = Synced(D[b]) /\ home \in [Block -> Valuset(Val)]
    BY <1>3 DEF Yields, Typed
  <2> QED BY <2>1, SyncMem, BlockTypes
<1> QED BY <1>2, <1>3 DEF Yields

\* The two disks GroupCommit speaks of hold values.
LEMMA DisksTyped ==
    ASSUME IInv
    PROVE  Durable \in [Block -> Val] /\ Vis \in [Block -> Val] /\ \A b \in Block : Current(b) \in Val
<1>1. \A b \in Block : home[b].cur \in Val /\ Current(b) \in Val
  BY BlockTypes DEF IInv, Typed, Current
<1>2. head.cur \in Seq(Block) /\ DOMAIN head.cur \subseteq LogIdx
  BY SizeAssumption DEF IInv, Recoverable, Yields, LogIdx, size
<1>3. ASSUME NEW b \in Block PROVE Durable[b] \in Val
  <2>1. CASE step # "whead" /\ \E i \in DOMAIN head.cur : head.cur[i] = b
    <3> DEFINE j == CHOOSE i \in DOMAIN head.cur : head.cur[i] = b
    <3>1. j \in LogIdx
      BY <1>2, <2>1
    <3>2. logblock[j].cur \in Val
      BY <3>1, BlockTypes DEF IInv, Typed
    <3> QED BY <2>1, <3>2 DEF Durable
  <2> QED BY <1>1, <2>1 DEF Durable
<1>4. Durable = [b \in Block |-> Durable[b]]
  BY DEF Durable
<1>5. Durable \in [Block -> Val]
  BY <1>3, <1>4
<1> QED BY <1>1, <1>5 DEF Vis

\* No call is in progress during a commit or a recovery.
LEMMA ActiveFinite ==
    ASSUME IInv
    PROVE  /\ IsFiniteSet(Active)
           /\ outstanding = 0 <=> Active = {}
           /\ \A p \in Proc : pc[p] = "op" => step = "none" /\ ~committing /\ outstanding # 0
<1>1. IsFiniteSet(Active)
  BY ProcAssumption, FS_Subset DEF Active
<1>2. outstanding = 0 <=> Active = {}
  BY <1>1, FS_EmptySet DEF IInv, CallInv
<1> QED BY <1>1, <1>2 DEF IInv, CallInv, Active, Commit

-----------------------------------------------------------------------------
\* begin_op is invisible but for one more call.
LEMMA BeginStep ==
    ASSUME IInv, NEW p \in Proc, begin_op(p)
    PROVE  IInv' /\ G!GBegin(p)
<1>1. /\ pc[p] = "out" /\ ~committing /\ ~Recovering
      /\ outstanding' = outstanding + 1 /\ pc' = [pc EXCEPT ![p] = "op"]
      /\ wrote' = [wrote EXCEPT ![p] = {}]
      /\ home' = home /\ logblock' = logblock /\ head' = head /\ dirty' = dirty
      /\ sector' = sector /\ committing' = committing /\ step' = step /\ tail' = tail
  BY DEF begin_op, Room, disk
<1>2. step = "none"
  BY <1>1 DEF IInv, CallInv, Typed, Recovering, Commit, Recovery
<1>3. Durable' = Durable /\ Vis' = Vis /\ \A b : Current(b)' = Current(b)
  BY <1>1 DEF Durable, Vis, Recovering, Current
<1>4. p \notin Active /\ Active' = Active \cup {p}
  BY <1>1 DEF Active, IInv, Typed
<1>5. Cardinality(Active') = outstanding + 1
  BY <1>4, ActiveFinite, FS_AddElement DEF IInv, CallInv
<1>6. Typed' /\ HeadInv' /\ Recoverable'
  BY <1>1, <1>3 DEF IInv, Typed, HeadInv, Recoverable, LogIdx, size
<1>7. CallInv' /\ TransInv'
  BY <1>1, <1>2, <1>3, <1>5 DEF IInv, CallInv, TransInv, Typed, Commit, Recovery
<1> QED BY <1>1, <1>3, <1>4, <1>6, <1>7 DEF IInv, G!GBegin, Vis, Active

\* log_write changes what the calls see, and nothing on disk.
LEMMA LogWriteStep ==
    ASSUME IInv, NEW p \in Proc, NEW b \in Block, NEW v \in Val, log_write(p, b, v)
    PROVE  IInv' /\ G!GWrite(p, b, v)
<1>1. /\ pc[p] = "op" /\ ~TooBig
      /\ dirty' = [c \in DOMAIN dirty \cup {b} |-> IF c = b THEN v ELSE dirty[c]]
      /\ sector' = IF Names(sector, b) THEN sector ELSE Append(sector, b)
      /\ wrote' = [wrote EXCEPT ![p] = @ \cup {b}]
      /\ home' = home /\ logblock' = logblock /\ head' = head /\ pc' = pc
      /\ outstanding' = outstanding /\ committing' = committing
      /\ step' = step /\ tail' = tail
  BY DEF log_write, disk, Names
<1>2. step = "none" /\ outstanding # 0
  BY <1>1, ActiveFinite
<1>3. Durable' = Durable
  BY <1>1 DEF Durable
<1>4. Vis' = [Vis EXCEPT ![b] = v]
  <2>1. ~Recovering /\ ~Recovering'
    BY <1>1, <1>2 DEF Recovering
  <2>2. \A c \in Block : Current(c)' = IF c = b THEN v ELSE Current(c)
    BY <1>1 DEF Current
  <2> QED BY <2>1, <2>2 DEF Vis
<1>5. /\ sector' \in Seq(Block) /\ Len(sector') <= size - 1
      /\ Names(sector', b) /\ \A c : Names(sector, c) => Names(sector', c)
  <2>1. CASE Names(sector, b)
    BY <1>1, <2>1 DEF IInv, Typed
  <2>2. CASE ~Names(sector, b)
    <3>1. sector' = Append(sector, b) /\ sector \in Seq(Block)
      BY <1>1, <2>2 DEF IInv, Typed
    <3>2. Len(sector) < size - 1 /\ size \in Nat
      BY <1>1, <3>1, SizeAssumption DEF TooBig, size
    <3>3. sector' \in Seq(Block) /\ Len(sector') <= size - 1
      BY <3>1, <3>2
    <3>4. /\ Len(sector') = Len(sector) + 1 /\ sector'[Len(sector) + 1] = b
          /\ \A i \in DOMAIN sector : i \in DOMAIN sector' /\ sector'[i] = sector[i]
          /\ Len(sector) + 1 \in DOMAIN sector'
      BY <3>1
    <3> QED BY <3>3, <3>4 DEF Names
  <2> QED BY <2>1, <2>2
<1>6. dirty' \in UNION {[S -> Val] : S \in SUBSET Block} /\ DOMAIN dirty' = DOMAIN dirty \cup {b}
  <2>1. DOMAIN dirty \cup {b} \in SUBSET Block
    BY DEF IInv, Typed
  <2>2. dirty' \in [DOMAIN dirty \cup {b} -> Val]
    BY <1>1 DEF IInv, Typed
  <2> QED BY <2>1, <2>2
<1>7. Typed'
  BY <1>1, <1>5, <1>6 DEF IInv, Typed, LogIdx, size
<1>8. HeadInv' /\ Recoverable'
  BY <1>1, <1>2, <1>3 DEF IInv, HeadInv, Recoverable
<1>9. Active' = Active
  BY <1>1 DEF Active
<1>10. CallInv' /\ TransInv'
  BY <1>1, <1>2, <1>5, <1>6, <1>9 DEF IInv, CallInv, TransInv, Commit, Recovery
<1> QED BY <1>1, <1>3, <1>4, <1>7, <1>8, <1>9, <1>10 DEF IInv, G!GWrite, Vis, Active

\* end_op is invisible but for one call less; the last one starts the commit.
LEMMA EndStep ==
    ASSUME IInv, NEW p \in Proc, end_op(p)
    PROVE  IInv' /\ G!GEnd(p)
<1>1. /\ pc[p] = "op" /\ pc' = [pc EXCEPT ![p] = "out"]
      /\ outstanding' = outstanding - 1 /\ tail' = 0
      /\ home' = home /\ logblock' = logblock /\ head' = head /\ dirty' = dirty
      /\ sector' = sector /\ wrote' = wrote
      /\ \/ outstanding = 1 /\ sector # <<>> /\ committing' = TRUE /\ step' = "wlog"
         \/ /\ ~(outstanding = 1 /\ sector # <<>>)
            /\ committing' = committing /\ step' = step
  BY DEF end_op, disk
<1>2. step = "none" /\ outstanding # 0 /\ ~committing
  BY <1>1, ActiveFinite
<1>3. Durable' = Durable /\ \A b : Current(b)' = Current(b)
  BY <1>1, <1>2 DEF Durable, Current
<1>4. Vis' = Vis
  BY <1>1, <1>2, <1>3 DEF Vis, Recovering
<1>5. p \in Active /\ Active' = Active \ {p}
  BY <1>1 DEF Active, IInv, Typed
<1>6. Cardinality(Active') = outstanding - 1 /\ outstanding - 1 \in Nat
  <2>1. outstanding \in Nat /\ outstanding = Cardinality(Active)
    BY DEF IInv, CallInv, Typed
  <2>2. Cardinality(Active \ {p}) = Cardinality(Active) - 1
    BY <1>5, ActiveFinite, FS_RemoveElement
  <2> QED BY <1>2, <1>5, <2>1, <2>2
<1>7. Typed'
  BY <1>1, <1>6 DEF IInv, Typed, LogIdx, size, Commit
<1>8. HeadInv' /\ Recoverable'
  BY <1>1, <1>2, <1>3 DEF IInv, HeadInv, Recoverable
<1>9. CallInv'
  BY <1>1, <1>2, <1>6 DEF IInv, CallInv, Typed, Commit
<1>10. TransInv'
  <2>1. step' \in {"none", "wlog"} /\ tail' <= Len(sector') /\ 1 .. tail' = {}
    BY <1>1, <1>2 DEF IInv, Typed
  <2>2. \A b \in DOMAIN dirty' : Names(sector', b)
    BY <1>1 DEF IInv, TransInv
  <2> QED BY <2>1, <2>2 DEF TransInv, Recovery
<1> QED BY <1>1, <1>3, <1>4, <1>5, <1>7, <1>8, <1>9, <1>10 DEF IInv, G!GEnd, Vis, Active

-----------------------------------------------------------------------------
\* Nothing that GroupCommit speaks of changes.
Invisible == Vis' = Vis /\ Durable' = Durable /\ Active' = Active /\ wrote' = wrote

\* A log block is written; the header does not name it yet.
LEMMA WriteLogStep ==
    ASSUME IInv, write_log
    PROVE  IInv' /\ Invisible
<1>1. /\ step = "wlog" /\ tail < Len(sector)
      /\ logblock' = [logblock EXCEPT ![tail + 1] = WriteTo(@, Current(sector[tail + 1]))]
      /\ tail' = tail + 1
      /\ home' = home /\ head' = head /\ dirty' = dirty /\ sector' = sector
      /\ outstanding' = outstanding /\ committing' = committing /\ pc' = pc
      /\ wrote' = wrote /\ step' = step
  BY DEF write_log
<1>2. head.cur = <<>> /\ head.old = {}
  BY <1>1 DEF IInv, HeadInv
<1>3. /\ tail + 1 \in DOMAIN sector /\ tail + 1 \in LogIdx /\ sector[tail + 1] \in Block
      /\ sector \in Seq(Block) /\ tail \in Nat
  BY <1>1, SizeAssumption DEF IInv, Typed, LogIdx, size
<1>4. Durable' = Durable /\ \A b : Current(b)' = Current(b)
  BY <1>1, <1>2, DurIs, NoHeader DEF Current
<1>5. Vis' = Vis /\ Active' = Active
  BY <1>1, <1>4 DEF Vis, Recovering, Active
<1>6. /\ logblock' \in [LogIdx -> Valuset(Val)]
      /\ logblock'[tail + 1].cur = Current(sector[tail + 1])
      /\ \A i \in LogIdx \ {tail + 1} : logblock'[i] = logblock[i]
  <2>1. logblock \in [LogIdx -> Valuset(Val)] /\ Current(sector[tail + 1]) \in Val
    BY <1>3, DisksTyped DEF IInv, Typed
  <2>2. /\ WriteTo(logblock[tail + 1], Current(sector[tail + 1])) \in Valuset(Val)
        /\ WriteTo(logblock[tail + 1], Current(sector[tail + 1])).cur = Current(sector[tail + 1])
    BY <1>3, <2>1, BlockTypes
  <2> QED BY <1>1, <1>3, <2>1, <2>2
<1>7. Typed'
  BY <1>1, <1>6 DEF IInv, Typed, LogIdx, size
<1>8. HeadInv' /\ CallInv'
  BY <1>1, <1>5 DEF IInv, HeadInv, CallInv
<1>9. Recoverable'
  <2>1. Yields(<<>>, logblock, home, Durable)
    BY <1>1, <1>2 DEF IInv, Recoverable
  <2>2. \A b \in Block : home[b] = Synced(Durable[b])
    BY <2>1 DEF Yields, Names
  <2>3. \A b \in Block : home'[b] = Synced(Durable'[b])
    BY <1>1, <1>4, <2>2
  <2>4. Yields(<<>>, logblock', home', Durable')
    BY <2>3, NoHeader
  <2> QED BY <1>1, <1>2, <2>4 DEF Recoverable
<1>10. ASSUME NEW i \in 1 .. tail + 1 PROVE logblock'[i].cur = Current(sector[i])
  <2>1. CASE i = tail + 1
    BY <1>6, <2>1
  <2>2. CASE i # tail + 1
    <3>1. i \in 1 .. tail /\ i \in LogIdx
      BY <1>3, <2>2, SizeAssumption DEF LogIdx, size
    <3> QED BY <1>1, <1>6, <2>2, <3>1 DEF IInv, TransInv
  <2> QED BY <2>1, <2>2
<1>11. TransInv'
  <2>1. tail' <= Len(sector')
    BY <1>1, <1>3
  <2>2. \A i \in 1 .. tail' : logblock'[i].cur = Current(sector[i])'
    BY <1>1, <1>10 DEF Current
  <2>3. \A b \in DOMAIN dirty' : Names(sector', b)
    BY <1>1 DEF IInv, TransInv
  <2> QED BY <1>1, <2>1, <2>2, <2>3 DEF TransInv, Recovery
<1> QED BY <1>1, <1>4, <1>5, <1>7, <1>8, <1>9, <1>11 DEF IInv, Invisible

\* A flush of the disk: what is on it now is what is read.
LEMMA Flushes ==
    ASSUME IInv, home' = sync_mem(home), logblock' = sync_mem(logblock)
    PROVE  /\ home' \in [Block -> Valuset(Val)] /\ logblock' \in [LogIdx -> Valuset(Val)]
           /\ \A b \in Block : home'[b] = Synced(home[b].cur) /\ home'[b].cur = home[b].cur
           /\ \A i \in LogIdx : logblock'[i] = Synced(logblock[i].cur)
           /\ dirty' = dirty => \A b \in Block : Current(b)' = Current(b)
<1>1. home \in [Block -> Valuset(Val)] /\ logblock \in [LogIdx -> Valuset(Val)]
  BY DEF IInv, Typed
<1> QED BY <1>1, SyncMem DEF Current

\* write_head of the committing header: both disks are possible now.
LEMMA CommitHeadStep ==
    ASSUME IInv, CommitHead
    PROVE  IInv' /\ Invisible
<1>1. /\ step = "wlog" /\ step' = "whead" /\ tail = Len(sector) /\ tail' = tail
      /\ home' = sync_mem(home) /\ logblock' = sync_mem(logblock)
      /\ head' = WriteTo(sync_addr(head), sector)
      /\ dirty' = dirty /\ sector' = sector /\ outstanding' = outstanding
      /\ committing' = committing /\ pc' = pc /\ wrote' = wrote
  BY DEF CommitHead, write_head
<1>2. head.cur = <<>> /\ head.old = {}
  BY <1>1 DEF IInv, HeadInv
<1>3. head' = [cur |-> sector, old |-> {<<>>}]
  BY <1>1, <1>2 DEF WriteTo, sync_addr, Synced, vsmerge
<1>4. /\ sector \in Seq(Block) /\ Len(sector) <= size - 1 /\ DOMAIN sector = 1 .. tail
      /\ DOMAIN sector \subseteq LogIdx
  BY <1>1, SizeAssumption DEF IInv, Typed, LogIdx, size
<1>5. \A b \in Block : Current(b)' = Current(b)
  BY <1>1, Flushes
<1>6. Durable = [b \in Block |-> home[b].cur] /\ Durable' = [b \in Block |-> home'[b].cur]
  BY <1>1, <1>2, DurIs, NoHeader
<1>7. Durable' = Durable /\ Active' = Active
  BY <1>1, <1>6, Flushes DEF Active
<1>8. Vis = [b \in Block |-> Current(b)] /\ Vis' = Vis
  BY <1>1, <1>5 DEF Vis, Recovering
<1>9. Yields(<<>>, logblock', home', Durable')
  <2>1. \A b \in Block : home'[b] = Synced(home'[b].cur)
    BY <1>1, Flushes
  <2>2. \A b \in Block : home'[b] = Synced(Durable'[b])
    BY <1>6, <2>1
  <2> QED BY <2>2, NoHeader
<1>10. Yields(sector, logblock', home', Vis')
  <2>1. ASSUME NEW i \in DOMAIN sector PROVE logblock'[i] = Synced(Vis[sector[i]])
    <3>1. \A k \in 1 .. tail : logblock[k].cur = Current(sector[k])
      BY <1>1 DEF IInv, TransInv
    <3>2. i \in LogIdx /\ i \in 1 .. tail /\ sector[i] \in Block
      <4>1. i \in LogIdx /\ i \in 1 .. tail
        BY <1>4, Zenon
      <4>2. sector[i] \in Block
        <5>1. sector \in Seq(Block)
          BY <1>4
        <5> QED BY <5>1
      <4> QED BY <4>1, <4>2
    <3>3. logblock[i].cur = Current(sector[i])
      BY <3>1, <3>2
    <3> QED BY <1>1, <1>8, <3>2, <3>3, Flushes
  <2>2. ASSUME NEW b \in Block, ~Names(sector, b) PROVE home'[b] = Synced(Vis[b])
    <3>1. b \notin DOMAIN dirty
      BY <2>2 DEF IInv, TransInv
    <3> QED BY <1>1, <1>8, <3>1, Flushes DEF Current
  <2> QED BY <1>4, <1>8, <2>1, <2>2 DEF Yields
<1>11. Recoverable' /\ HeadInv'
  BY <1>1, <1>3, <1>9, <1>10 DEF Recoverable, HeadInv
<1>12. Typed'
  BY <1>1, Flushes DEF IInv, Typed, LogIdx, size, Commit
<1>13. CallInv' /\ TransInv'
  BY <1>1, <1>7 DEF IInv, CallInv, TransInv, Commit, Recovery
<1> QED BY <1>1, <1>7, <1>8, <1>11, <1>12, <1>13 DEF IInv, Invisible

\* The committing header is on disk: what the calls see is durable.
LEMMA CommittedStep ==
    ASSUME IInv, Committed
    PROVE  IInv' /\ G!GCommit
<1>1. /\ step = "whead" /\ step' = "install" /\ tail' = 0
      /\ home' = sync_mem(home) /\ logblock' = sync_mem(logblock) /\ head' = sync_addr(head)
      /\ dirty' = dirty /\ sector' = sector /\ outstanding' = outstanding
      /\ committing' = committing /\ pc' = pc /\ wrote' = wrote
  BY DEF Committed, flush_head
<1>2. head.cur = sector /\ head' = [cur |-> sector, old |-> {}]
  BY <1>1 DEF IInv, HeadInv, sync_addr, Synced
<1>3. Yields(sector, logblock', home', Vis)
  <2>1. Yields(sector, logblock, home, Vis)
    BY <1>1, <1>2 DEF IInv, Recoverable
  <2> QED BY <1>1, <2>1, YieldsSync DEF IInv
<1>4. Durable' = Vis
  BY <1>1, <1>2, <1>3, DurIs, YieldsDur, DisksTyped
<1>5. \A b \in Block : Current(b)' = Current(b)
  BY <1>1, Flushes
<1>6. Vis = [b \in Block |-> Current(b)] /\ Vis' = Vis
  BY <1>1, <1>5 DEF Vis, Recovering
<1>7. Active' = Active /\ Active = {}
  BY <1>1, ActiveFinite DEF Active, IInv, CallInv
<1>8. Recoverable' /\ HeadInv'
  BY <1>1, <1>2, <1>3, <1>4 DEF Recoverable, HeadInv
<1>9. Typed'
  BY <1>1, Flushes DEF IInv, Typed, LogIdx, size, Commit
<1>10. CallInv'
  BY <1>1, <1>7 DEF IInv, CallInv, Commit
<1>11. TransInv'
  <2>1. tail' <= Len(sector') /\ 1 .. tail' = {}
    BY <1>1 DEF IInv, Typed
  <2>2. \A b \in Block : Current(b)' = Durable'[b]
    BY <1>4, <1>5, <1>6
  <2>3. \A b \in DOMAIN dirty' : Names(sector', b)
    BY <1>1 DEF IInv, TransInv
  <2> QED BY <1>1, <2>1, <2>2, <2>3 DEF TransInv, Recovery
<1> QED BY <1>1, <1>4, <1>6, <1>7, <1>8, <1>9, <1>10, <1>11 DEF IInv, G!GCommit, Vis, Active

-----------------------------------------------------------------------------
\* install_trans of one block: the header still names it, so nothing shows.
LEMMA InstallStep ==
    ASSUME IInv, NEW at \in {"install", "rinstall"}, install_trans(at)
    PROVE  IInv' /\ Invisible
<1> DEFINE b == sector[tail + 1]
<1>1. /\ step = at /\ step' = step /\ tail < Len(sector) /\ tail' = tail + 1
      /\ home' = [home EXCEPT ![b] = WriteTo(@, logblock[tail + 1].cur)]
      /\ dirty' = [c \in DOMAIN dirty \ {b} |-> dirty[c]]
      /\ logblock' = logblock /\ head' = head /\ sector' = sector
      /\ outstanding' = outstanding /\ committing' = committing /\ pc' = pc /\ wrote' = wrote
  BY DEF install_trans
<1>2. /\ head.cur = sector /\ head.old = {} /\ sector \in Seq(Block) /\ tail \in Nat
      /\ tail + 1 \in DOMAIN sector /\ b \in Block /\ Names(sector, b)
  BY <1>1 DEF IInv, HeadInv, Typed, Names
<1>3. Durable \in [Block -> Val] /\ home \in [Block -> Valuset(Val)]
  BY DisksTyped DEF IInv, Typed
<1>4. Yields(sector, logblock, home, Durable)
  BY <1>1, <1>2 DEF IInv, Recoverable
<1>5. logblock[tail + 1].cur = Durable[b]
  <2>1. logblock[tail + 1] = Synced(Durable[b])
    BY <1>2, <1>4 DEF Yields
  <2> QED BY <2>1, BlockTypes
<1> HIDE DEF b
<1>6. /\ home' \in [Block -> Valuset(Val)] /\ home'[b].cur = Durable[b]
      /\ \A c \in Block \ {b} : home'[c] = home[c]
  <2>1. /\ WriteTo(home[b], Durable[b]) \in Valuset(Val)
        /\ WriteTo(home[b], Durable[b]).cur = Durable[b]
    BY <1>2, <1>3, BlockTypes
  <2> QED BY <1>1, <1>2, <1>3, <1>5, <2>1
<1>7. Yields(sector, logblock', home', Durable)
  <2>1. \A c \in Block : ~Names(sector, c) => home'[c] = home[c]
    BY <1>2, <1>6
  <2> QED BY <1>1, <1>4, <2>1 DEF Yields
<1>8. Durable' = Durable
  BY <1>1, <1>2, <1>3, <1>7, DurIs, YieldsDur
<1>9. dirty' \in UNION {[S -> Val] : S \in SUBSET Block} /\ DOMAIN dirty' = DOMAIN dirty \ {b}
  <2>1. DOMAIN dirty \ {b} \in SUBSET Block /\ dirty' \in [DOMAIN dirty \ {b} -> Val]
    BY <1>1 DEF IInv, Typed
  <2> QED BY <2>1
<1>10. step = "install" => \A c \in Block : Current(c) = Durable[c] /\ Current(c)' = Durable[c]
  <2> SUFFICES ASSUME step = "install", NEW c \in Block
               PROVE  Current(c) = Durable[c] /\ Current(c)' = Durable[c]
    OBVIOUS
  <2>1. Current(c) = Durable[c]
    BY DEF IInv, TransInv
  <2>2. CASE c = b
    BY <1>6, <1>9, <2>1, <2>2 DEF Current
  <2>3. CASE c # b
    BY <1>1, <1>6, <1>9, <2>1, <2>3 DEF Current
  <2> QED BY <2>1, <2>2, <2>3
<1>11. Vis' = Vis /\ Active' = Active
  <2>1. CASE step = "install"
    BY <1>1, <1>10, <2>1 DEF Vis, Recovering, Active
  <2>2. CASE step = "rinstall"
    BY <1>1, <1>8, <2>2 DEF Vis, Recovering, Active
  <2> QED BY <1>1, <2>1, <2>2
<1>12. Typed'
  <2>1. tail' \in Nat /\ LogIdx' = LogIdx /\ size' = size
    BY <1>1, <1>2 DEF LogIdx, size
  <2> QED BY <1>1, <1>6, <1>9, <2>1 DEF IInv, Typed
<1>13. HeadInv' /\ CallInv'
  BY <1>1, <1>11 DEF IInv, HeadInv, CallInv
<1>14. Recoverable'
  BY <1>1, <1>2, <1>7, <1>8 DEF Recoverable
<1>15. TransInv'
  <2>1. ASSUME NEW i \in 1 .. tail + 1
        PROVE  home'[sector[i]].cur = Durable[sector[i]] /\ sector[i] \notin DOMAIN dirty'
    <3>1. sector[i] \in Block
      BY <1>2
    <3>2. CASE sector[i] = b
      BY <1>6, <1>9, <3>2
    <3>3. CASE sector[i] # b
      <4>1. i # tail + 1
        BY <3>3 DEF b
      <4>2. i \in 1 .. tail
        BY <1>2, <4>1
      <4>3. home[sector[i]].cur = Durable[sector[i]] /\ sector[i] \notin DOMAIN dirty
        BY <1>1, <4>2 DEF IInv, TransInv
      <4> QED BY <1>6, <1>9, <3>1, <3>3, <4>3
    <3> QED BY <3>2, <3>3
  <2>2. tail' <= Len(sector')
    BY <1>1, <1>2
  <2>3. \A c \in DOMAIN dirty' : Names(sector', c)
    BY <1>1, <1>9 DEF IInv, TransInv
  <2>4. step' \in Recovery => DOMAIN dirty' = {}
    BY <1>1, <1>9 DEF IInv, TransInv
  <2>5. step' = "install" => \A c \in Block : Current(c)' = Durable'[c]
    BY <1>1, <1>8, <1>10
  <2> QED BY <1>1, <1>8, <2>1, <2>2, <2>3, <2>4, <2>5 DEF TransInv
<1> QED BY <1>1, <1>8, <1>11, <1>12, <1>13, <1>14, <1>15 DEF IInv, Invisible

\* Everything is installed: the home blocks alone have the durable disk.
LEMMA ClearStep ==
    ASSUME IInv, NEW at, NEW to, ClearLh(at, to),
           \/ at = "install" /\ to = "clear"
           \/ at = "rinstall" /\ to = "rclear"
    PROVE  IInv' /\ Invisible
<1>1. /\ step = at /\ step' = to /\ tail = Len(sector) /\ sector' = <<>> /\ tail' = 0
      /\ home' = home /\ logblock' = logblock /\ head' = head /\ dirty' = dirty
      /\ outstanding' = outstanding /\ committing' = committing /\ pc' = pc /\ wrote' = wrote
  BY DEF ClearLh, disk
<1>2. head.cur = sector /\ head.old = {} /\ sector \in Seq(Block) /\ DOMAIN sector = 1 .. tail
  BY <1>1 DEF IInv, HeadInv, Typed
<1>3. Durable' = Durable /\ \A b : Current(b)' = Current(b)
  BY <1>1 DEF Durable, Current
<1>4. Vis' = Vis /\ Active' = Active
  BY <1>1, <1>3 DEF Vis, Recovering, Active
<1>5. \A i \in DOMAIN sector : home[sector[i]].cur = Durable[sector[i]] /\ sector[i] \notin DOMAIN dirty
  BY <1>1, <1>2 DEF IInv, TransInv
<1>6. DOMAIN dirty = {}
  BY <1>5 DEF IInv, TransInv, Names
<1>7. ASSUME NEW b \in Block PROVE home[b].cur = Durable[b]
  <2>1. CASE Names(sector, b)
    BY <1>5, <2>1 DEF Names
  <2>2. CASE ~Names(sector, b)
    BY <1>1, <1>2, <2>2 DEF Durable, Names
  <2> QED BY <2>1, <2>2
<1>8. Typed'
  <2>1. <<>> \in Seq(Block) /\ Len(<<>>) <= size - 1
    BY SizeAssumption DEF size
  <2> QED BY <1>1, <2>1 DEF IInv, Typed, LogIdx, size, Commit, Recovery
<1>9. HeadInv' /\ Recoverable'
  BY <1>1, <1>2, <1>3 DEF IInv, HeadInv, Recoverable
<1>10. CallInv' /\ TransInv'
  BY <1>1, <1>3, <1>4, <1>6, <1>7 DEF IInv, CallInv, TransInv, Commit, Recovery
<1> QED BY <1>1, <1>3, <1>4, <1>8, <1>9, <1>10 DEF IInv, Invisible

\* The empty header is written: with either header recovery yields the same.
LEMMA EraseStep ==
    ASSUME IInv, NEW from, NEW to, write_head(from, to), tail' = tail,
           \/ from = "clear" /\ to = "wclear"
           \/ from = "rclear" /\ to = "rflush"
    PROVE  IInv' /\ Invisible
<1>1. /\ step = from /\ step' = to
      /\ home' = sync_mem(home) /\ logblock' = sync_mem(logblock)
      /\ head' = WriteTo(sync_addr(head), sector)
      /\ dirty' = dirty /\ sector' = sector /\ outstanding' = outstanding
      /\ committing' = committing /\ pc' = pc /\ wrote' = wrote
  BY DEF write_head
<1>2. sector = <<>> /\ DOMAIN dirty = {} /\ \A b \in Block : home[b].cur = Durable[b]
  <2>1. TransInv /\ step \in {"clear", "rclear"}
    BY <1>1 DEF IInv
  <2>2. sector = <<>> /\ \A b \in Block : home[b].cur = Durable[b]
    BY <2>1 DEF TransInv
  <2>3. \A b \in DOMAIN dirty : Names(sector, b)
    BY <2>1, Zenon DEF TransInv
  <2>4. DOMAIN sector = {}
    BY <2>2
  <2> QED BY <2>2, <2>3, <2>4 DEF Names
<1>3. head' = [cur |-> <<>>, old |-> {head.cur}]
  BY <1>1, <1>2 DEF WriteTo, sync_addr, Synced, vsmerge
<1>4. Durable' = Durable
  <2>1. head'.cur = <<>>
    BY <1>3
  <2>2. Durable' = DurOf(<<>>, logblock', home')
    <3>1. (IF step' = "whead" THEN <<>> ELSE head'.cur) = <<>>
      BY <2>1
    <3> QED BY <3>1, DurIs
  <2>3. Durable' = [b \in Block |-> home'[b].cur]
    BY <2>2, NoHeader
  <2>4. Durable = [b \in Block |-> Durable[b]]
    BY DEF Durable
  <2> QED BY <1>1, <1>2, <2>3, <2>4, Flushes
<1>5. Vis' = Vis /\ Active' = Active
  BY <1>1, <1>4, Flushes DEF Vis, Recovering, Active
<1>6. Yields(<<>>, logblock', home', Durable')
  <2>1. \A b \in Block : home'[b] = Synced(home[b].cur)
    BY <1>1, Flushes
  <2>2. \A b \in Block : home'[b] = Synced(Durable'[b])
    BY <1>2, <1>4, <2>1
  <2> QED BY <2>2, NoHeader
<1>7. Yields(head.cur, logblock', home', Durable')
  <2>1. Yields(head.cur, logblock, home, Durable)
    BY <1>1 DEF IInv, Recoverable
  <2> QED BY <1>1, <1>4, <2>1, YieldsSync DEF IInv
<1>8. Recoverable' /\ HeadInv'
  <2>1. head'.cur = <<>> /\ head'.old = {head.cur} /\ head' = [cur |-> head'.cur, old |-> head'.old]
    BY <1>3
  <2>2. Recoverable'
    BY <1>1, <1>6, <1>7, <2>1 DEF Recoverable
  <2>3. HeadInv'
    BY <1>1, <1>2, <2>1 DEF HeadInv
  <2> QED BY <2>2, <2>3
<1>9. Typed'
  BY <1>1, Flushes DEF IInv, Typed, LogIdx, size, Commit, Recovery
<1>10. CallInv' /\ TransInv'
  BY <1>1, <1>2, <1>5 DEF IInv, CallInv, TransInv, Commit, Recovery
<1> QED BY <1>1, <1>4, <1>5, <1>8, <1>9, <1>10 DEF IInv, Invisible

\* The log is erased; commit or recovery is over.
LEMMA ErasedStep ==
    ASSUME IInv, step \in {"wclear", "rflush"}, step' = "none", committing' = FALSE,
           home' = sync_mem(home), logblock' = sync_mem(logblock), head' = sync_addr(head),
           UNCHANGED <<dirty, sector, outstanding, pc, wrote, tail>>
    PROVE  IInv' /\ Invisible
<1>1. sector = <<>> /\ DOMAIN dirty = {} /\ head.cur = <<>> /\ outstanding = 0
  <2>1. sector = <<>> /\ DOMAIN sector = {} /\ head.cur = <<>> /\ outstanding = 0
    BY DEF IInv, TransInv, HeadInv, CallInv
  <2>2. \A b \in DOMAIN dirty : Names(sector, b)
    BY DEF IInv, TransInv
  <2> QED BY <2>1, <2>2 DEF Names
<1>2. head' = [cur |-> <<>>, old |-> {}]
  BY <1>1 DEF sync_addr, Synced
<1>3. Durable = [b \in Block |-> home[b].cur] /\ Durable' = [b \in Block |-> home'[b].cur]
  BY <1>1, <1>2, DurIs, NoHeader
<1>4. Durable' = Durable /\ Active' = Active
  BY <1>3, Flushes DEF Active
<1>5. \A b \in Block : Current(b) = home[b].cur /\ Current(b)' = home[b].cur
  BY <1>1, Flushes DEF Current
<1>6. Vis' = Vis
  BY <1>3, <1>5 DEF Vis, Recovering
<1>7. Yields(<<>>, logblock', home', Durable')
  <2>1. \A b \in Block : home'[b] = Synced(Durable'[b])
    BY <1>3, <1>4, Flushes
  <2> QED BY <2>1, NoHeader
<1>8. Recoverable' /\ HeadInv'
  BY <1>2, <1>7 DEF Recoverable, HeadInv
<1>9. Typed'
  BY Flushes DEF IInv, Typed, LogIdx, size
<1>10. CallInv' /\ TransInv'
  BY <1>1, <1>4 DEF IInv, CallInv, TransInv, Commit, Recovery
<1> QED BY <1>4, <1>6, <1>8, <1>9, <1>10 DEF IInv, Invisible

-----------------------------------------------------------------------------
\* A crash at any step leaves a disk from which recovery yields the durable disk,
\* or the disk the calls saw if their commit was under way.
LEMMA CrashStep ==
    ASSUME IInv, Crash
    PROVE  IInv' /\ G!GCrash
<1>1. /\ home' \in possible_crash(home) /\ logblock' \in possible_crash(logblock)
      /\ dirty' = <<>> /\ sector' = <<>> /\ outstanding' = 0 /\ committing' = FALSE
      /\ pc' = [p \in Proc |-> "out"] /\ wrote' = [p \in Proc |-> {}]
      /\ step' = "read" /\ tail' = 0
  BY DEF Crash
<1>2. PICK h \in vsmerge(head) : head' = Synced(h)
  BY DEF Crash
<1>3. head' = [cur |-> h, old |-> {}]
  BY <1>2 DEF Synced
<1>4. PICK D \in {Durable, Vis} : /\ Yields(h, logblock, home, D)
                                  /\ D # Durable => Active = {}
  <2>1. CASE h \in head.old \/ step # "whead"
    BY <1>2, <2>1 DEF IInv, Recoverable, vsmerge
  <2>2. CASE h \notin head.old /\ step = "whead"
    <3>1. h = head.cur
      BY <1>2, <2>2 DEF vsmerge
    <3>2. Active = {}
      BY <2>2, ActiveFinite DEF IInv, CallInv
    <3> QED BY <2>2, <3>1, <3>2 DEF IInv, Recoverable
  <2> QED BY <2>1, <2>2
<1>5. D \in [Block -> Val]
  BY <1>4, DisksTyped
<1>6. Yields(h, logblock', home', D)
  BY <1>1, <1>4, YieldsCrash DEF IInv
<1>7. Durable' = D
  BY <1>1, <1>3, <1>5, <1>6, DurIs, YieldsDur
<1>8. Vis' = Durable' /\ Active' = {}
  BY <1>1 DEF Vis, Recovering, Active
<1>9. Recoverable' /\ HeadInv'
  BY <1>1, <1>3, <1>6, <1>7 DEF Recoverable, HeadInv
<1>10. DOMAIN dirty' = {} /\ dirty' \in UNION {[S -> Val] : S \in SUBSET Block}
  <2>1. DOMAIN <<>> = {} /\ <<>> \in [{} -> Val]
    OBVIOUS
  <2> QED BY <1>1, <2>1
<1>11. Typed'
  <2>1. <<>> \in Seq(Block) /\ Len(<<>>) <= size - 1
    BY SizeAssumption DEF size
  <2>2. home' \in [Block -> Valuset(Val)] /\ logblock' \in [LogIdx -> Valuset(Val)]
    BY <1>1, CrashPicks DEF IInv, Typed
  <2>3. size' = size /\ LogIdx' = LogIdx
    BY DEF LogIdx, size
  <2> QED BY <1>1, <1>10, <2>1, <2>2, <2>3 DEF Typed, Recovery
<1>12. CallInv'
  BY <1>1, <1>8, FS_EmptySet DEF CallInv, Commit
<1>13. TransInv'
  BY <1>1, <1>10 DEF TransInv
<1>14. Durable' = Durable \/ (Active = {} /\ Durable' = Vis)
  BY <1>4, <1>7
<1> QED BY <1>1, <1>8, <1>9, <1>11, <1>12, <1>13, <1>14 DEF IInv, G!GCrash, Vis, Active

\* read_head starts an installation of what the header names.
LEMMA ReadHeadStep ==
    ASSUME IInv, read_head
    PROVE  IInv' /\ Invisible
<1>1. /\ step = "read" /\ step' = "rinstall" /\ sector' = head.cur
      /\ home' = home /\ logblock' = logblock /\ head' = head /\ dirty' = dirty
      /\ outstanding' = outstanding /\ committing' = committing /\ pc' = pc
      /\ wrote' = wrote /\ tail' = tail
  BY DEF read_head, disk
<1>2. /\ tail = 0 /\ DOMAIN dirty = {}
      /\ head.cur \in Seq(Block) /\ Len(head.cur) <= size - 1
  BY <1>1 DEF IInv, TransInv, Recovery, Recoverable, Yields
<1>3. Durable' = Durable /\ Active' = Active
  BY <1>1 DEF Durable, Active
<1>4. Vis' = Vis
  BY <1>1, <1>3 DEF Vis, Recovering
<1>5. Typed'
  BY <1>1, <1>2 DEF IInv, Typed, LogIdx, size, Recovery
<1>6. HeadInv' /\ Recoverable' /\ CallInv'
  BY <1>1, <1>3 DEF IInv, HeadInv, Recoverable, CallInv, Commit
<1>7. TransInv'
  <2>1. tail' <= Len(sector') /\ 1 .. tail' = {} /\ DOMAIN dirty' = {}
    BY <1>1, <1>2
  <2> QED BY <1>1, <2>1 DEF TransInv
<1> QED BY <1>1, <1>3, <1>4, <1>5, <1>6, <1>7 DEF IInv, Invisible

\* An empty log.
LEMMA InitStep == Init => IInv /\ G!GInit
<1> SUFFICES ASSUME Init PROVE IInv /\ G!GInit
  OBVIOUS
<1>1. PICK f \in [Block -> Val] : home = [b \in Block |-> Synced(f[b])]
  BY DEF Init
<1>2. PICK v \in Val : logblock = [i \in LogIdx |-> Synced(v)]
  BY DEF Init
<1>3. /\ head = [cur |-> <<>>, old |-> {}] /\ dirty = <<>> /\ sector = <<>>
      /\ outstanding = 0 /\ committing = FALSE /\ pc = [p \in Proc |-> "out"]
      /\ wrote = [p \in Proc |-> {}] /\ step = "none" /\ tail = 0
  BY DEF Init, Synced
<1>4. \A b \in Block : home[b] = Synced(f[b]) /\ home[b].cur = f[b]
  BY <1>1, BlockTypes
<1>5. Durable = f
  <2>1. head.cur = <<>>
    BY <1>3
  <2>2. Durable = DurOf(<<>>, logblock, home)
    <3>1. (IF step = "whead" THEN <<>> ELSE head.cur) = <<>>
      BY <2>1
    <3> QED BY <3>1, DurIs
  <2>3. Durable = [b \in Block |-> home[b].cur]
    BY <2>2, NoHeader
  <2> QED BY <1>4, <2>3
<1>6. DOMAIN dirty = {} /\ dirty \in UNION {[S -> Val] : S \in SUBSET Block}
  <2>1. DOMAIN <<>> = {} /\ <<>> \in [{} -> Val]
    OBVIOUS
  <2> QED BY <1>3, <2>1
<1>7. Vis = f /\ Active = {}
  BY <1>3, <1>4, <1>6 DEF Vis, Recovering, Current, Active
<1>8. Typed
  <2>1. <<>> \in Seq(Block) /\ Len(<<>>) <= size - 1
    BY SizeAssumption DEF size
  <2>2. home \in [Block -> Valuset(Val)] /\ logblock \in [LogIdx -> Valuset(Val)]
    BY <1>1, <1>2, BlockTypes
  <2> QED BY <1>3, <1>6, <2>1, <2>2 DEF Typed
<1>9. Recoverable /\ HeadInv
  <2>1. Yields(<<>>, logblock, home, Durable)
    BY <1>4, <1>5, NoHeader
  <2> QED BY <1>3, <2>1 DEF Recoverable, HeadInv
<1>10. CallInv /\ TransInv
  BY <1>3, <1>6, <1>7, FS_EmptySet DEF CallInv, TransInv, Commit, Recovery
<1> QED BY <1>3, <1>5, <1>7, <1>8, <1>9, <1>10 DEF IInv, G!GInit, Vis, Active

\* Every step keeps the invariant, and is a step of GroupCommit or invisible.
LEMMA NextStep == IInv /\ [Next]_vars => IInv' /\ [G!GNext]_(G!gvars)
<1> SUFFICES ASSUME IInv, [Next]_vars PROVE IInv' /\ (G!GNext \/ UNCHANGED G!gvars)
  OBVIOUS
<1>1. ASSUME Invisible PROVE UNCHANGED G!gvars
  BY <1>1 DEF Invisible, G!gvars, Vis, Active
<1>2. ASSUME NEW p \in Proc, begin_op(p) \/ end_op(p) PROVE IInv' /\ G!GNext
  BY <1>2, BeginStep, EndStep DEF G!GNext
<1>3. ASSUME NEW p \in Proc, NEW b \in Block, NEW v \in Val, log_write(p, b, v)
      PROVE  IInv' /\ G!GNext
  BY <1>3, LogWriteStep DEF G!GNext
<1>4. CASE write_log \/ CommitHead \/ read_head
  BY <1>1, <1>4, WriteLogStep, CommitHeadStep, ReadHeadStep
<1>5. CASE Committed
  BY <1>5, CommittedStep DEF G!GNext
<1>6. CASE install_trans("install") \/ install_trans("rinstall")
  BY <1>1, <1>6, InstallStep
<1>7. CASE ClearLh("install", "clear") \/ ClearLh("rinstall", "rclear")
  BY <1>1, <1>7, ClearStep
<1>8. CASE EraseHead \/ RecoverErase
  BY <1>1, <1>8, EraseStep DEF EraseHead, RecoverErase
<1>9. CASE Erased
  BY <1>1, <1>9, ErasedStep DEF Erased
<1>10. CASE Recovered
  <2>1. step = "rflush" /\ ~committing
    BY <1>10 DEF Recovered, flush_head, IInv, CallInv, Commit
  <2>2. /\ step' = "none" /\ committing' = FALSE
        /\ home' = sync_mem(home) /\ logblock' = sync_mem(logblock) /\ head' = sync_addr(head)
        /\ UNCHANGED <<dirty, sector, outstanding, pc, wrote, tail>>
    BY <1>10, <2>1 DEF Recovered, flush_head, IInv, Typed
  <2> QED BY <1>1, <2>1, <2>2, ErasedStep
<1>11. CASE Crash
  BY <1>11, CrashStep DEF G!GNext
<1>12. CASE UNCHANGED vars
  <2>1. /\ home' = home /\ logblock' = logblock /\ head' = head /\ dirty' = dirty
        /\ sector' = sector /\ outstanding' = outstanding /\ committing' = committing
        /\ pc' = pc /\ wrote' = wrote /\ step' = step /\ tail' = tail
    BY <1>12 DEF vars
  <2>2. Durable' = Durable /\ Active' = Active /\ \A b : Current(b)' = Current(b)
    BY <2>1 DEF Durable, Active, Current
  <2>3. Vis' = Vis
    BY <2>1, <2>2 DEF Vis, Recovering
  <2>4. Typed' /\ HeadInv' /\ Recoverable' /\ CallInv'
    BY <2>1, <2>2, <2>3 DEF IInv, Typed, HeadInv, Recoverable, CallInv, LogIdx, size
  <2>5. TransInv'
    BY <2>1, <2>2 DEF IInv, TransInv, Current
  <2> QED BY <1>1, <2>1, <2>2, <2>3, <2>4, <2>5 DEF IInv, Invisible
<1> QED BY <1>2, <1>3, <1>4, <1>5, <1>6, <1>7, <1>8, <1>9, <1>10, <1>11, <1>12 DEF Next

\* The counter end_op decides on is the number of calls in progress, and a commit
\* runs only when there is none (the comment at log.c:14-15).
THEOREM LogCommitsAlone == Spec => []CommitsAlone
<1>1. IInv => CommitsAlone
  BY DEF IInv, CallInv, CommitsAlone, Active, Commit
<1> QED BY <1>1, InitStep, NextStep, PTL DEF Spec

\* When the last call has returned from end_op, everything it and the others wrote
\* is durable at home and the log is empty.
THEOREM LogDurableWhenQuiet == Spec => []DurableWhenQuiet
<1>1. IInv => DurableWhenQuiet
  <2> SUFFICES ASSUME IInv, step = "none", outstanding = 0
               PROVE  /\ dirty = <<>> /\ head = Synced(<<>>)
                      /\ \A b \in Block : home[b].old = {}
    BY DEF DurableWhenQuiet
  <2>1. head.cur = <<>> /\ head = [cur |-> <<>>, old |-> {}] /\ sector = <<>>
    BY DEF IInv, HeadInv, CallInv
  <2>2. \A b \in Block : home[b] = Synced(Durable[b])
    <3>1. Yields(<<>>, logblock, home, Durable)
      BY <2>1 DEF IInv, Recoverable
    <3> QED BY <3>1 DEF Yields, Names
  <2>3. DOMAIN sector = {} /\ \A b \in DOMAIN dirty : Names(sector, b)
    <3>1. TransInv
      BY DEF IInv
    <3>2. \A b \in DOMAIN dirty : Names(sector, b)
      BY <3>1, Zenon DEF TransInv
    <3>3. DOMAIN sector = {}
      BY <2>1
    <3> QED BY <3>2, <3>3
  <2>4. DOMAIN dirty = {} /\ dirty = [c \in DOMAIN dirty |-> dirty[c]]
    BY <2>3 DEF IInv, Typed, Names
  <2>5. dirty = <<>>
    BY <2>4
  <2>6. head = Synced(<<>>)
    BY <2>1 DEF Synced
  <2>7. \A b \in Block : home[b].old = {}
    <3>1. \A v : Synced(v).old = {}
      BY DEF Synced
    <3> QED BY <2>2, <3>1, Zenon
  <2> QED BY <2>5, <2>6, <2>7
<1> QED BY <1>1, InitStep, NextStep, PTL DEF Spec

\* The log is a group commit: no crash, at any step of a commit or of an earlier
\* recovery, leaves part of a call on disk or undoes a committed one.
THEOREM LogImplementsGroupCommit == Spec => ImplementsGroupCommit
<1>1. Spec => []IInv /\ G!GInit
  BY InitStep, NextStep, PTL DEF Spec
<1> QED BY <1>1, NextStep, PTL DEF Spec, ImplementsGroupCommit, G!GSpec
=============================================================================
