---------------------------- MODULE MemLogProofs ----------------------------
(***************************************************************************)
(* MemLog implements AtomicDisk, for any set of blocks, any values, any    *)
(* log length and any unit in which its space is taken.                    *)
(*                                                                         *)
(* The refinement needs to know why emptying the log loses nothing, why a  *)
(* flush that has applied the log fits if it ever could, and why a direct  *)
(* write that has applied it is not shadowed by it: Modes says so at each  *)
(* step of an operation.  Charged says that the space left is a multiple   *)
(* of the unit, without which rounding up could take more than is left.    *)
(***************************************************************************)
EXTENDS MemLog, FiniteSetTheorems, TLAPS

\* What holds at each step of an operation.
Modes ==
    /\ pc \in {"idle", "crashed"} \/ op.kind = "none" => op = NoOp
    /\ pc # "crashed" => MSInLog = log
    /\ pc = "extend" => op.kind = "flush" /\ (Size(op.m) <= na \/ na = LogLen)
    /\ pc = "dwrite" => op.kind = "dwrite" /\ DOMAIN op.m \cap DOMAIN log = {}
    /\ pc = "applysync" => \A a \in DOMAIN log : home[a].cur = log[a]
    /\ AppliedBeforeTrunc

\* Log space is left in whole units.
Charged == \E q \in Nat : na = q * items_per_val

IInv == TypeOK /\ Charged /\ Modes

-----------------------------------------------------------------------------
\* The space a flush takes covers its entries and no more than was left.
LEMMA RoundedFits ==
    ASSUME NEW n \in Nat, NEW q \in Nat, n <= q * items_per_val
    PROVE  /\ rounded(n) \in Nat /\ n <= rounded(n) /\ rounded(n) <= q * items_per_val
           /\ \E p \in Nat : q * items_per_val - rounded(n) = p * items_per_val
<1> DEFINE c == items_per_val
           r == (n + c - 1) \div c
<1>1. c \in Nat /\ c > 0
  BY LayoutAssumption
<1>2. r \in Nat /\ r * c <= n + c - 1 /\ n + c - 1 < (r + 1) * c
  BY <1>1
<1> HIDE DEF c, r
<1>3. (r + 1) * c = r * c + c /\ (q + 1) * c = q * c + c /\ r * c \in Nat /\ q * c \in Nat
  BY <1>1, <1>2
<1>4. n <= r * c
  BY <1>1, <1>2, <1>3
<1>5. r * c < (q + 1) * c
  BY <1>1, <1>2, <1>3 DEF c
<1>6. r < q + 1
  BY <1>1, <1>2, <1>5
<1>7. q - r \in Nat /\ (q - r) * c = q * c - r * c /\ r * c <= q * c
  BY <1>1, <1>2, <1>6
<1>8. rounded(n) = r * c
  BY DEF rounded, r, c
<1> QED BY <1>3, <1>4, <1>7, <1>8 DEF c

\* An empty log has a whole number of units.
LEMMA LogLenCharged == LogLen \in Nat /\ \E q \in Nat : LogLen = q * items_per_val
<1>1. LogLen \in Nat /\ items_per_val \in Nat /\ items_per_val > 0 /\ LogLen % items_per_val = 0
  BY LayoutAssumption
<1>2. /\ LogLen \div items_per_val \in Nat
      /\ LogLen = (LogLen \div items_per_val) * items_per_val
  BY <1>1
<1> QED BY <1>1, <1>2

\* Maps are finite.
LEMMA MapsFinite ==
    ASSUME NEW m \in Maps
    PROVE  /\ DOMAIN m \subseteq Addr /\ m \in [DOMAIN m -> Val]
           /\ IsFiniteSet(DOMAIN m) /\ Size(m) \in Nat
<1>1. DOMAIN m \subseteq Addr /\ m \in [DOMAIN m -> Val]
  BY DEF Maps
<1>2. IsFiniteSet(DOMAIN m)
  BY <1>1, FiniteAssumption, FS_Subset
<1> QED BY <1>1, <1>2, FS_CardinalityType DEF Size

LEMMA EmptyMap == <<>> \in Maps /\ DOMAIN <<>> = {} /\ Size(<<>>) = 0
<1>1. DOMAIN <<>> = {} /\ <<>> \in [{} -> Val]
  OBVIOUS
<1>2. <<>> \in Maps
  BY <1>1 DEF Maps
<1> QED BY <1>1, <1>2, FS_EmptySet DEF Size

\* Merging two maps gives one no larger than both together.
LEMMA ReplayMap ==
    ASSUME NEW m \in Maps, NEW l \in Maps
    PROVE  /\ replay_mem(m, l) \in Maps
           /\ DOMAIN replay_mem(m, l) = DOMAIN m \cup DOMAIN l
           /\ Size(replay_mem(m, l)) <= Size(m) + Size(l)
<1>1. DOMAIN replay_mem(m, l) = DOMAIN m \cup DOMAIN l
  BY DEF replay_mem
<1>2. replay_mem(m, l) \in [DOMAIN m \cup DOMAIN l -> Val]
  BY MapsFinite DEF replay_mem
<1>3. DOMAIN m \cup DOMAIN l \in SUBSET Addr
  BY MapsFinite
<1>4. replay_mem(m, l) \in Maps
  BY <1>2, <1>3 DEF Maps
<1>5. /\ IsFiniteSet(DOMAIN m \cap DOMAIN l)
      /\ Cardinality(DOMAIN m \cap DOMAIN l) \in Nat
  BY MapsFinite, FS_Intersection, FS_CardinalityType
<1>6. Cardinality(DOMAIN m \cup DOMAIN l) =
        Cardinality(DOMAIN m) + Cardinality(DOMAIN l) - Cardinality(DOMAIN m \cap DOMAIN l)
  BY MapsFinite, FS_Union
<1>7. Size(m) \in Nat /\ Size(l) \in Nat
  BY MapsFinite
<1>8. Size(replay_mem(m, l)) <= Size(m) + Size(l)
  BY <1>1, <1>5, <1>6, <1>7 DEF Size
<1> QED BY <1>1, <1>4, <1>8

\* Blocks of the right type stay so.
LEMMA BlockTypes ==
    /\ \A v \in Val : Synced(v) \in Valuset(Val) /\ Synced(v).cur = v
    /\ \A vs \in Valuset(Val) :
        /\ vs.cur \in Val /\ sync_addr(vs) \in Valuset(Val) /\ sync_addr(vs).cur = vs.cur
        /\ \A v \in Val : WriteTo(vs, v) \in Valuset(Val) /\ WriteTo(vs, v).cur = v
    /\ \A v : sync_addr(Synced(v)) = Synced(v) /\ vsmerge(Synced(v)) = {v}
  BY DEF Valuset, Synced, sync_addr, WriteTo, vsmerge

\* The operators of the asynchronous disk are the same in the instance.
LEMMA SameDisk ==
    /\ \A v : A!Synced(v) = Synced(v)
    /\ \A vs : A!vsmerge(vs) = vsmerge(vs) /\ A!sync_addr(vs) = sync_addr(vs)
    /\ \A vs, v : A!WriteTo(vs, v) = WriteTo(vs, v)
    /\ A!NoOp = NoOp /\ A!Maps = Maps
  BY DEF A!Synced, A!vsmerge, A!sync_addr, A!WriteTo, A!NoOp, A!Maps,
         Synced, vsmerge, sync_addr, WriteTo, NoOp, Maps

\* So is the size of a map.
LEMMA SameFits == \A m : A!Fits(m) <=> Size(m) <= LogLen
<1>1. ASSUME NEW S PROVE A!Cardinality(S) = Cardinality(S)
  BY DEF A!Cardinality, Cardinality
<1> QED BY <1>1 DEF A!Fits, Size

-----------------------------------------------------------------------------
\* Facts of the invariant in the form the steps use.
LEMMA Facts ==
    ASSUME IInv
    PROVE  /\ home \in [Addr -> Valuset(Val)] /\ log \in Maps /\ MSInLog \in Maps
           /\ DOMAIN log \subseteq Addr /\ DOMAIN MSInLog \subseteq Addr
           /\ \A a \in Addr : home[a].cur \in Val
           /\ \A a \in DOMAIN log : log[a] \in Val
           /\ \A a \in DOMAIN MSInLog : MSInLog[a] \in Val
           /\ Size(log) \in Nat /\ na \in Nat /\ na + Size(log) <= LogLen
           /\ LogLen \in Nat
           /\ op.kind \in {"none", "flush", "dwrite"} /\ op.m \in Maps
           /\ DOMAIN op.m \subseteq Addr /\ \A a \in DOMAIN op.m : op.m[a] \in Val
           /\ Size(op.m) \in Nat
<1>1. home \in [Addr -> Valuset(Val)] /\ log \in Maps /\ MSInLog \in Maps
      /\ op.kind \in {"none", "flush", "dwrite"} /\ op.m \in Maps
  BY DEF IInv, TypeOK
<1>2. Size(log) \in Nat /\ LogLen \in Nat
  BY <1>1, MapsFinite, LogLenCharged
<1>3. na \in Nat /\ na + Size(log) <= LogLen
  BY <1>2 DEF IInv, TypeOK
<1> QED BY <1>1, <1>2, <1>3, MapsFinite, BlockTypes

\* A flush is called.
LEMMA FlushStep ==
    ASSUME IInv, NEW m \in Maps, Flush(m)
    PROVE  IInv' /\ A!ACall("flush", m)
<1>1. /\ home' = home /\ log' = log /\ na' = na /\ MSInLog' = MSInLog /\ ret' = ret
      /\ op' = [kind |-> "flush", m |-> m] /\ pc = "idle"
      /\ pc' = IF na < Size(m) THEN "apply" ELSE "extend"
  BY DEF Flush
<1>2. TypeOK' /\ Charged'
  BY <1>1 DEF IInv, TypeOK, Charged, Size
<1>3. Size(m) \in Nat /\ na \in Nat
  BY Facts, MapsFinite
<1>4. Modes'
  BY <1>1, <1>3 DEF IInv, Modes, AppliedBeforeTrunc, Size
<1>5. Mapped' = Mapped /\ op = NoOp
  BY <1>1 DEF Mapped, IInv, Modes
<1> QED BY <1>1, <1>2, <1>4, <1>5, SameDisk DEF IInv, A!ACall

\* A direct write is called.
LEMMA DwriteStep ==
    ASSUME IInv, NEW m \in Maps, Dwrite(m)
    PROVE  IInv' /\ A!ACall("dwrite", m)
<1>1. /\ home' = home /\ log' = log /\ na' = na /\ MSInLog' = MSInLog /\ ret' = ret
      /\ op' = [kind |-> "dwrite", m |-> m] /\ pc = "idle"
      /\ pc' = IF DOMAIN m \cap DOMAIN MSInLog # {} THEN "apply" ELSE "dwrite"
  BY DEF Dwrite
<1>2. TypeOK' /\ Charged'
  BY <1>1 DEF IInv, TypeOK, Charged, Size
<1>3. Modes'
  BY <1>1 DEF IInv, Modes, AppliedBeforeTrunc
<1>4. Mapped' = Mapped /\ op = NoOp
  BY <1>1 DEF Mapped, IInv, Modes
<1> QED BY <1>1, <1>2, <1>3, <1>4, SameDisk DEF IInv, A!ACall

\* The map and the space after entries are added to the log.
LEMMA ExtendedLog ==
    ASSUME IInv, Size(op.m) <= na,
           log' = replay_mem(op.m, log), na' = na - rounded(Size(op.m))
    PROVE  /\ log' \in Maps /\ na' \in 0 .. LogLen - Size(log') /\ Charged'
           /\ DOMAIN log' = DOMAIN op.m \cup DOMAIN log /\ A!Fits(op.m)
<1>1. PICK q \in Nat : na = q * items_per_val
  BY DEF IInv, Charged
<1>2. /\ rounded(Size(op.m)) \in Nat /\ Size(op.m) <= rounded(Size(op.m))
      /\ rounded(Size(op.m)) <= na
      /\ \E p \in Nat : na - rounded(Size(op.m)) = p * items_per_val
  BY <1>1, Facts, RoundedFits
<1>3. Charged'
  BY <1>2 DEF Charged
<1>4. /\ log' \in Maps /\ DOMAIN log' = DOMAIN op.m \cup DOMAIN log
      /\ Size(log') <= Size(op.m) + Size(log) /\ Size(log') \in Nat
  BY Facts, ReplayMap, MapsFinite
<1>5. na' \in 0 .. LogLen - Size(log')
  BY <1>2, <1>4, Facts
<1>6. A!Fits(op.m)
  BY Facts, SameFits
<1> QED BY <1>3, <1>4, <1>5, <1>6

\* A flush returns: it fails only if it could never fit.
LEMMA ExtendStep ==
    ASSUME IInv, Extend
    PROVE  IInv' /\ A!AFlush
<1>1. /\ pc = "extend" /\ pc' = "idle" /\ op' = NoOp /\ home' = home
      /\ op.kind = "flush" /\ (Size(op.m) <= na \/ na = LogLen)
      /\ MSInLog = log
  BY DEF Extend, IInv, Modes
<1>2. NoOp \in [kind : {"none", "flush", "dwrite"}, m : Maps]
  BY EmptyMap DEF NoOp
<1>3. CASE /\ Size(op.m) <= na /\ ret' = <<"flushed">>
           /\ log' = replay_mem(op.m, log) /\ MSInLog' = replay_mem(op.m, MSInLog)
           /\ na' = na - rounded(Size(op.m))
  <2>1. /\ log' \in Maps /\ na' \in 0 .. LogLen - Size(log') /\ Charged'
        /\ DOMAIN log' = DOMAIN op.m \cup DOMAIN log /\ A!Fits(op.m)
    BY <1>3, ExtendedLog
  <2>4. Mapped' = A!replay_disk(op.m, Mapped)
    BY <1>1, <1>3, <2>1, SameDisk DEF Mapped, A!replay_disk, replay_mem
  <2>2. TypeOK'
    BY <1>1, <1>2, <1>3, <2>1, Facts DEF TypeOK, Size
  <2>3. Modes'
    BY <1>1, <1>3 DEF Modes, AppliedBeforeTrunc
  <2> QED BY <1>1, <1>3, <2>1, <2>2, <2>3, <2>4, SameDisk DEF IInv, A!AFlush
<1>4. CASE /\ Size(op.m) > na /\ ret' = <<"refused">>
           /\ log' = log /\ na' = na /\ MSInLog' = MSInLog
  <2>1. TypeOK' /\ Charged'
    BY <1>1, <1>2, <1>4 DEF IInv, TypeOK, Charged, Size
  <2>2. Modes'
    BY <1>1, <1>4 DEF Modes, AppliedBeforeTrunc
  <2>3. ~A!Fits(op.m)
    BY <1>1, <1>4, Facts, SameFits
  <2>4. Mapped' = Mapped
    BY <1>1, <1>4 DEF Mapped
  <2> QED BY <1>1, <1>4, <2>1, <2>2, <2>3, <2>4, SameDisk DEF IInv, A!AFlush
<1> QED BY <1>3, <1>4 DEF Extend

-----------------------------------------------------------------------------
\* apply is called, and writes the logged blocks: nothing a client can see.
LEMMA ApplyStep ==
    ASSUME IInv, Apply
    PROVE  IInv' /\ Mapped' = Mapped /\ op' = op /\ ret' = ret
<1>1. /\ home' = home /\ log' = log /\ na' = na /\ MSInLog' = MSInLog /\ ret' = ret
      /\ pc = "idle" /\ pc' = "apply" /\ op' = op /\ op = NoOp
  BY DEF Apply, IInv, Modes
<1>2. TypeOK' /\ Charged'
  BY <1>1 DEF IInv, TypeOK, Charged, Size
<1>3. Modes'
  BY <1>1 DEF IInv, Modes, AppliedBeforeTrunc
<1> QED BY <1>1, <1>2, <1>3 DEF IInv, Mapped

\* Writes to blocks that are in the log do not show.
LEMMA ApplyWriteStep ==
    ASSUME IInv, ApplyWrite
    PROVE  IInv' /\ Mapped' = Mapped /\ op' = op /\ ret' = ret
<1>1. /\ log' = log /\ na' = na /\ MSInLog' = MSInLog /\ ret' = ret /\ op' = op
      /\ pc = "apply" /\ pc' = "applysync" /\ MSInLog = log
      /\ home' = [a \in Addr |-> IF a \in DOMAIN log THEN WriteTo(home[a], log[a]) ELSE home[a]]
  BY DEF ApplyWrite, IInv, Modes
<1>2. /\ \A a \in DOMAIN log : home'[a] = WriteTo(home[a], log[a])
      /\ \A a \in Addr \ DOMAIN log : home'[a] = home[a]
      /\ home' = [a \in Addr |-> home'[a]]
  BY <1>1, Facts
<1>3. \A a \in DOMAIN log : home'[a].cur = log[a] /\ home'[a] \in Valuset(Val)
  BY <1>2, Facts, BlockTypes
<1>4. home' \in [Addr -> Valuset(Val)]
  BY <1>2, <1>3, Facts
<1>5. TypeOK' /\ Charged'
  BY <1>1, <1>4 DEF IInv, TypeOK, Charged, Size
<1>6. Modes'
  BY <1>1, <1>3 DEF IInv, Modes, AppliedBeforeTrunc
<1>7. Mapped' = Mapped
  BY <1>1, <1>2 DEF Mapped
<1> QED BY <1>1, <1>5, <1>6, <1>7 DEF IInv

\* Syncing them does not show either, and makes the log superfluous.
LEMMA ApplySyncStep ==
    ASSUME IInv, ApplySync
    PROVE  IInv' /\ Mapped' = Mapped /\ op' = op /\ ret' = ret
<1>1. /\ log' = log /\ na' = na /\ MSInLog' = MSInLog /\ ret' = ret /\ op' = op
      /\ pc = "applysync" /\ pc' = "trunc" /\ MSInLog = log
      /\ home' = [a \in Addr |-> IF a \in DOMAIN log THEN sync_addr(home[a]) ELSE home[a]]
      /\ \A a \in DOMAIN log : home[a].cur = log[a]
  BY DEF ApplySync, IInv, Modes
<1>2. /\ home' \in [Addr -> Valuset(Val)]
      /\ \A a \in Addr \ DOMAIN log : home'[a] = home[a]
  BY <1>1, Facts, BlockTypes
<1>3. \A a \in DOMAIN log : home'[a] = Synced(log[a])
  BY <1>1, Facts DEF sync_addr
<1>4. TypeOK' /\ Charged'
  BY <1>1, <1>2 DEF IInv, TypeOK, Charged, Size
<1>5. Modes'
  BY <1>1, <1>3 DEF IInv, Modes, AppliedBeforeTrunc
<1>6. Mapped' = Mapped
  BY <1>1, <1>2 DEF Mapped
<1> QED BY <1>1, <1>4, <1>5, <1>6 DEF IInv

\* The log as trunc leaves it.
LEMMA Emptied ==
    ASSUME log' = <<>>, na' = LogLen
    PROVE  /\ log' \in Maps /\ DOMAIN log' = {} /\ na' \in 0 .. LogLen - Size(log')
           /\ Charged'
<1>1. log' \in Maps /\ DOMAIN log' = {} /\ Size(log') = 0
  BY EmptyMap
<1> QED BY <1>1, LogLenCharged DEF Charged

\* Emptying the log does not show, since all its blocks are durable at home.
LEMMA TruncStep ==
    ASSUME IInv, Trunc
    PROVE  IInv' /\ Mapped' = Mapped /\ op' = op /\ ret' = ret
<1>1. /\ log' = <<>> /\ na' = LogLen /\ MSInLog' = <<>> /\ home' = home
      /\ ret' = ret /\ op' = op /\ pc = "trunc"
      /\ \A a \in DOMAIN log : home[a] = Synced(log[a])
  BY DEF Trunc, IInv, Modes, AppliedBeforeTrunc
<1>2. \/ op.kind = "flush" /\ pc' = "extend"
      \/ op.kind = "dwrite" /\ pc' = "dwrite"
      \/ op.kind = "none" /\ pc' = "idle"
  BY Facts DEF Trunc
<1>3. log' \in Maps /\ DOMAIN log' = {} /\ na' \in 0 .. LogLen - Size(log') /\ Charged'
  BY <1>1, Emptied
<1>4. TypeOK'
  BY <1>1, <1>2, <1>3 DEF IInv, TypeOK, Size
<1>5. Modes'
  BY <1>1, <1>2, <1>3 DEF IInv, Modes, AppliedBeforeTrunc
<1>6. Mapped' = Mapped
  BY <1>1, <1>3 DEF Mapped
<1> QED BY <1>1, <1>3, <1>4, <1>5, <1>6 DEF IInv

\* A direct write returns; the log does not shadow it.
LEMMA DwriteHomeStep ==
    ASSUME IInv, DwriteHome
    PROVE  IInv' /\ A!ADwrite
<1>1. /\ pc = "dwrite" /\ pc' = "idle" /\ op' = NoOp /\ ret' = <<"dwrite">>
      /\ log' = log /\ na' = na /\ MSInLog' = MSInLog /\ MSInLog = log
      /\ op.kind = "dwrite" /\ DOMAIN op.m \cap DOMAIN log = {}
      /\ home' = [a \in Addr |-> IF a \in DOMAIN op.m THEN WriteTo(home[a], op.m[a]) ELSE home[a]]
  BY DEF DwriteHome, IInv, Modes
<1>2. home' \in [Addr -> Valuset(Val)]
  BY <1>1, Facts, BlockTypes
<1>3. NoOp \in [kind : {"none", "flush", "dwrite"}, m : Maps]
  BY EmptyMap DEF NoOp
<1>4. TypeOK' /\ Charged'
  BY <1>1, <1>2, <1>3 DEF IInv, TypeOK, Charged, Size
<1>5. Modes'
  BY <1>1 DEF Modes, AppliedBeforeTrunc
<1>6. Mapped' = [a \in Addr |-> IF a \in DOMAIN op.m THEN A!WriteTo(Mapped[a], op.m[a])
                                                     ELSE Mapped[a]]
  BY <1>1, SameDisk DEF Mapped
<1> QED BY <1>1, <1>4, <1>5, <1>6, SameDisk DEF IInv, A!ADwrite

\* dsync: a logged block is durable already.
LEMMA DsyncStep ==
    ASSUME IInv, NEW al \in SUBSET Addr, Dsync(al)
    PROVE  IInv' /\ A!ADsync(al)
<1>1. /\ pc = "idle" /\ pc' = pc /\ op' = op /\ op = NoOp /\ ret' = <<"dsync", al>>
      /\ log' = log /\ na' = na /\ MSInLog' = MSInLog /\ MSInLog = log
      /\ home' = [a \in Addr |-> IF a \in al THEN sync_addr(home[a]) ELSE home[a]]
  BY DEF Dsync, IInv, Modes
<1>2. home' \in [Addr -> Valuset(Val)]
  BY <1>1, Facts, BlockTypes
<1>3. TypeOK' /\ Charged'
  BY <1>1, <1>2 DEF IInv, TypeOK, Charged, Size
<1>4. Modes'
  BY <1>1 DEF IInv, Modes, AppliedBeforeTrunc
<1>5. Mapped' = [a \in Addr |-> IF a \in al THEN A!sync_addr(Mapped[a]) ELSE Mapped[a]]
  BY <1>1, SameDisk, BlockTypes DEF Mapped
<1> QED BY <1>1, <1>3, <1>4, <1>5, SameDisk DEF IInv, A!ADsync

\* recover: the map in memory is the log again.
LEMMA RecoverStep ==
    ASSUME IInv, Recover
    PROVE  IInv' /\ Mapped' = Mapped /\ op' = op /\ ret' = ret
<1>1. /\ home' = home /\ log' = log /\ na' = na /\ MSInLog' = log /\ ret' = ret
      /\ pc = "crashed" /\ pc' = "idle" /\ op' = op /\ op = NoOp
  BY DEF Recover, IInv, Modes
<1>2. TypeOK' /\ Charged'
  BY <1>1 DEF IInv, TypeOK, Charged, Size
<1>3. Modes'
  BY <1>1 DEF IInv, Modes, AppliedBeforeTrunc
<1> QED BY <1>1, <1>2, <1>3 DEF IInv, Mapped

-----------------------------------------------------------------------------
\* A disk a crash leaves has, at every block, one of its possible values.
LEMMA CrashPicks ==
    ASSUME NEW D \in [Addr -> Valuset(Val)], NEW c \in possible_crash(D)
    PROVE  \E f \in [Addr -> Val] :
              /\ \A a \in Addr : f[a] \in vsmerge(D[a])
              /\ c = [a \in Addr |-> Synced(f[a])]
<1>1. \A a \in Addr : vsmerge(D[a]) \subseteq Val
  BY DEF Valuset, vsmerge
<1>2. PICK g \in [Addr -> UNION {vsmerge(D[a]) : a \in Addr}] :
        (\A a \in Addr : g[a] \in vsmerge(D[a])) /\ c = [a \in Addr |-> Synced(g[a])]
  BY DEF possible_crash
<1>3. g \in [Addr -> Val]
  BY <1>1, <1>2
<1> QED BY <1>2, <1>3

\* Every disk with such values is one a crash may leave.
LEMMA CrashMay ==
    ASSUME NEW D, DOMAIN D = Addr, NEW c, DOMAIN c = Addr, c = [a \in Addr |-> c[a]],
           \A a \in Addr : \E v \in vsmerge(D[a]) : c[a] = Synced(v)
    PROVE  c \in A!possible_crash(D)
<1> DEFINE g == [a \in Addr |-> c[a].cur]
<1>1. ASSUME NEW a \in Addr PROVE g[a] \in A!vsmerge(D[a]) /\ c[a] = A!Synced(g[a])
  <2>1. PICK v \in vsmerge(D[a]) : c[a] = Synced(v)
    OBVIOUS
  <2>2. g[a] = v
    BY <2>1 DEF Synced
  <2> QED BY <2>1, <2>2, SameDisk
<1>2. g \in [Addr -> UNION {A!vsmerge(D[a]) : a \in Addr}]
  BY <1>1
<1>3. c = [a \in Addr |-> A!Synced(g[a])]
  BY <1>1
<1> HIDE DEF g
<1> QED BY <1>1, <1>2, <1>3 DEF A!possible_crash

\* A crash that leaves the log as l does on disk what a crash of the abstract disk
\* D does, when D has the blocks of l durable and the others as at home.
LEMMA CrashMapped ==
    ASSUME IInv, home' \in possible_crash(home), NEW D, DOMAIN D = Addr,
           \A a \in Addr : D[a] = IF a \in DOMAIN log' THEN Synced(log'[a]) ELSE home[a]
    PROVE  Mapped' \in A!possible_crash(D) /\ home' \in [Addr -> Valuset(Val)]
<1>1. PICK f \in [Addr -> Val] : /\ \A a \in Addr : f[a] \in vsmerge(home[a])
                                /\ home' = [a \in Addr |-> Synced(f[a])]
  BY Facts, CrashPicks
<1>2. home' \in [Addr -> Valuset(Val)]
  BY <1>1, BlockTypes
<1> DEFINE c == Mapped'
<1>3. /\ DOMAIN c = Addr /\ c = [a \in Addr |-> c[a]]
      /\ \A a \in Addr : c[a] = IF a \in DOMAIN log' THEN Synced(log'[a]) ELSE Synced(f[a])
  BY <1>1 DEF Mapped
<1> HIDE DEF c
<1>4. ASSUME NEW a \in Addr PROVE \E v \in vsmerge(D[a]) : c[a] = Synced(v)
  <2>1. CASE a \in DOMAIN log'
    BY <2>1, <1>3, BlockTypes
  <2>2. CASE a \notin DOMAIN log'
    BY <2>2, <1>1, <1>3
  <2> QED BY <2>1, <2>2
<1>5. c \in A!possible_crash(D)
  BY <1>3, <1>4, CrashMay
<1> QED BY <1>2, <1>5 DEF c

\* A crash at any step is a crash of the abstract disk, or of that disk after the
\* flush under way.
LEMMA CrashStep ==
    ASSUME IInv, Crash
    PROVE  IInv' /\ A!ACrash
<1>1. /\ pc' = "crashed" /\ op' = NoOp /\ home' \in possible_crash(home)
      /\ MSInLog' = <<>> /\ ret' = <<"crash">>
  BY DEF Crash
<1>2. /\ NoOp \in [kind : {"none", "flush", "dwrite"}, m : Maps]
      /\ MSInLog' \in Maps
  BY <1>1, EmptyMap DEF NoOp
<1>3. DOMAIN Mapped = Addr
  BY DEF Mapped
<1>4. ASSUME home' \in [Addr -> Valuset(Val)], log' \in Maps,
             na' \in 0 .. LogLen - Size(log'), Charged'
      PROVE  IInv'
  <2>1. TypeOK'
    BY <1>1, <1>2, <1>4 DEF TypeOK, Size
  <2>2. Modes'
    BY <1>1 DEF Modes, AppliedBeforeTrunc
  <2> QED BY <1>4, <2>1, <2>2 DEF IInv
<1>5. CASE log' = log /\ na' = na
  <2>1. Mapped' \in A!possible_crash(Mapped) /\ home' \in [Addr -> Valuset(Val)]
    <3>1. \A a \in Addr : Mapped[a] = IF a \in DOMAIN log' THEN Synced(log'[a]) ELSE home[a]
      BY <1>5 DEF Mapped
    <3> QED BY <1>1, <1>3, <3>1, CrashMapped
  <2>2. log' \in Maps /\ na' \in 0 .. LogLen - Size(log') /\ Charged'
    BY <1>5 DEF IInv, TypeOK, Charged, Size
  <2> QED BY <1>1, <1>4, <2>1, <2>2, SameDisk DEF A!ACrash
<1>6. CASE /\ pc = "extend" /\ Size(op.m) <= na
           /\ log' = replay_mem(op.m, log) /\ na' = na - rounded(Size(op.m))
  <2>1. op.kind = "flush"
    BY <1>6 DEF IInv, Modes
  <2> DEFINE D == A!replay_disk(op.m, Mapped)
  <2>2. /\ log' \in Maps /\ na' \in 0 .. LogLen - Size(log') /\ Charged'
        /\ A!Fits(op.m) /\ DOMAIN log' = DOMAIN op.m \cup DOMAIN log
    BY <1>6, ExtendedLog
  <2>3. DOMAIN D = Addr
    BY DEF A!replay_disk
  <2>4. \A a \in Addr : D[a] = IF a \in DOMAIN log' THEN Synced(log'[a]) ELSE home[a]
    BY <1>6, <2>2, SameDisk DEF A!replay_disk, Mapped, replay_mem
  <2> HIDE DEF D
  <2>5. Mapped' \in A!possible_crash(D) /\ home' \in [Addr -> Valuset(Val)]
    BY <1>1, <2>3, <2>4, CrashMapped
  <2> QED BY <1>1, <1>4, <2>1, <2>2, <2>5, SameDisk DEF A!ACrash, D
<1>7. CASE pc = "trunc" /\ log' = <<>> /\ na' = LogLen
  <2>1. log' \in Maps /\ DOMAIN log' = {} /\ na' \in 0 .. LogLen - Size(log') /\ Charged'
    BY <1>7, Emptied
  <2>2. \A a \in Addr : Mapped[a] = IF a \in DOMAIN log' THEN Synced(log'[a]) ELSE home[a]
    BY <1>7, <2>1 DEF Mapped, IInv, Modes, AppliedBeforeTrunc
  <2>3. Mapped' \in A!possible_crash(Mapped) /\ home' \in [Addr -> Valuset(Val)]
    BY <1>1, <1>3, <2>2, CrashMapped
  <2> QED BY <1>1, <1>4, <2>1, <2>3, SameDisk DEF A!ACrash
<1> QED BY <1>5, <1>6, <1>7 DEF Crash

-----------------------------------------------------------------------------
\* An empty log satisfies the invariant.
LEMMA InitStep == Init => IInv /\ A!AInit
<1> SUFFICES ASSUME Init PROVE IInv /\ A!AInit
  OBVIOUS
<1>1. PICK f \in [Addr -> Val] : home = [a \in Addr |-> Synced(f[a])]
  BY DEF Init
<1>2. /\ log = <<>> /\ na = LogLen /\ MSInLog = <<>> /\ pc = "idle" /\ op = NoOp
      /\ ret = <<"init">>
  BY DEF Init
<1>3. home \in [Addr -> Valuset(Val)]
  BY <1>1, BlockTypes
<1>4. log \in Maps /\ DOMAIN log = {} /\ Size(log) = 0
  BY <1>2, EmptyMap
<1>5. TypeOK /\ Charged
  BY <1>2, <1>3, <1>4, EmptyMap, LogLenCharged DEF TypeOK, Charged, NoOp
<1>6. Modes
  BY <1>2 DEF Modes, AppliedBeforeTrunc
<1>7. Mapped = [a \in Addr |-> A!Synced(f[a])]
  BY <1>1, <1>4, SameDisk DEF Mapped
<1> QED BY <1>2, <1>5, <1>6, <1>7, SameDisk DEF IInv, A!AInit

\* Every step keeps the invariant, and is a step of the atomic disk or invisible.
LEMMA NextStep == IInv /\ [Next]_vars => IInv' /\ [A!ANext]_(A!avars)
<1> SUFFICES ASSUME IInv, [Next]_vars PROVE IInv' /\ (A!ANext \/ UNCHANGED A!avars)
  OBVIOUS
<1>1. ASSUME NEW m \in Maps, Flush(m) \/ Dwrite(m) PROVE IInv' /\ A!ANext
  BY <1>1, FlushStep, DwriteStep, SameDisk DEF A!ANext
<1>2. ASSUME NEW al \in SUBSET Addr, Dsync(al) PROVE IInv' /\ A!ANext
  BY <1>2, DsyncStep DEF A!ANext
<1>3. CASE Extend
  BY <1>3, ExtendStep DEF A!ANext
<1>4. CASE Apply \/ ApplyWrite \/ ApplySync \/ Trunc \/ Recover
  BY <1>4, ApplyStep, ApplyWriteStep, ApplySyncStep, TruncStep, RecoverStep DEF A!avars
<1>5. CASE DwriteHome
  BY <1>5, DwriteHomeStep DEF A!ANext
<1>6. CASE Crash
  BY <1>6, CrashStep DEF A!ANext
<1>7. CASE UNCHANGED vars
  <2>1. /\ home' = home /\ log' = log /\ na' = na /\ MSInLog' = MSInLog
        /\ pc' = pc /\ op' = op /\ ret' = ret
    BY <1>7 DEF vars
  <2>2. TypeOK' /\ Charged' /\ Modes'
    BY <2>1 DEF IInv, TypeOK, Charged, Modes, AppliedBeforeTrunc, Size
  <2> QED BY <2>1, <2>2 DEF IInv, A!avars, Mapped
<1> QED BY <1>1, <1>2, <1>3, <1>4, <1>5, <1>6, <1>7 DEF Next

\* The log is emptied only when all its blocks are durable at home: MLog.apply
\* syncs them before it calls DLog.trunc, whatever crashes came before.
THEOREM ApplyIsSafe == Spec => []AppliedBeforeTrunc
<1>1. IInv => AppliedBeforeTrunc
  BY DEF IInv, Modes
<1> QED BY <1>1, InitStep, NextStep, PTL DEF Spec

\* MLog.read returns the newest value of a block wherever it is.
THEOREM MemLogReads == Spec => []ReadsNewest
<1>1. IInv => ReadsNewest
  <2> SUFFICES ASSUME IInv, pc = "idle", NEW a \in Addr PROVE ReadValue(a) = Mapped[a].cur
    BY DEF ReadsNewest
  <2>1. MSInLog = log
    BY DEF IInv, Modes
  <2> QED BY <2>1, Facts, BlockTypes DEF ReadValue, Mapped
<1> QED BY <1>1, InitStep, NextStep, PTL DEF Spec

\* MLog is an atomic disk: a flush is all or nothing across crashes at every step,
\* fails only if it exceeds the log, and applying the log never shows.
THEOREM MemLogImplementsAtomicDisk == Spec => ImplementsAtomicDisk
<1>1. Spec => [](IInv) /\ A!AInit
  BY InitStep, NextStep, PTL DEF Spec
<1> QED BY <1>1, InitStep, NextStep, PTL DEF Spec, ImplementsAtomicDisk, A!ASpec
=============================================================================
