--------------------------- MODULE OpQueueProofs ---------------------------
(***************************************************************************)
(* Safety of the operation queue for any number of threads and any ring    *)
(* size: IInv of OpQueue is inductive and implies the properties that the  *)
(* runs of MCOpQueue check.                                                *)
(***************************************************************************)
EXTENDS OpQueue, TLAPS

-----------------------------------------------------------------------------
(* Arithmetic of the ring. *)

\* An index taken modulo the ring size is a slot.
LEMMA ModRange ==
  ASSUME NEW Q \in Nat \ {0}, NEW i \in Nat
  PROVE  i % Q \in 0 .. Q - 1
  OBVIOUS

\* Quotient and remainder determine the number.
LEMMA DivMod ==
  ASSUME NEW Q \in Nat \ {0}, NEW i \in Nat
  PROVE  (i \div Q) \in Int /\ i = Q * (i \div Q) + (i % Q)
  OBVIOUS

\* Different multiples of Q are at least Q apart.
LEMMA MultiplesApart ==
  ASSUME NEW Q \in Nat \ {0}, NEW a \in Int, NEW b \in Int, a < b
  PROVE  Q * b - Q * a >= Q
  <1>1. PICK k \in Nat : b = a + 1 + k
    OBVIOUS
  <1>2. Q * b - Q * a = Q + Q * k
    BY <1>1
  <1>3. Q * k >= 0
    OBVIOUS
  <1> QED BY <1>2, <1>3

\* Two positions less than Q apart are in different slots.
LEMMA SlotsDiffer ==
  ASSUME NEW Q \in Nat \ {0}, NEW i \in Nat, NEW j \in Nat, i < j, j < i + Q
  PROVE  i % Q # j % Q
  <1> SUFFICES ASSUME i % Q = j % Q PROVE FALSE
    OBVIOUS
  <1> DEFINE a == i \div Q
  <1> DEFINE b == j \div Q
  <1>1. a \in Int /\ b \in Int /\ i % Q \in Int
    BY DivMod, ModRange
  <1>2. i = Q * a + (i % Q) /\ j = Q * b + (j % Q)
    BY DivMod
  <1> HIDE DEF a, b
  <1>3. j - i = Q * b - Q * a
    BY <1>1, <1>2
  <1>4. CASE a < b
    BY <1>1, <1>3, <1>4, MultiplesApart
  <1>5. CASE a = b
    BY <1>1, <1>3, <1>5
  <1>6. CASE b < a
    <2>1. Q * a - Q * b >= Q
      BY <1>1, <1>6, MultiplesApart
    <2> QED BY <2>1, <1>1, <1>3
  <1> QED BY <1>1, <1>4, <1>5, <1>6

-----------------------------------------------------------------------------
(* Steps preserve the inductive invariant: one lemma per action. *)

\* A step that leaves the live slots, the operations workers hold and who is in
\* flight as they were keeps the three invariants about where operations are.
LEMMA RingFrame ==
  ASSUME QueueInv, HoldInv, NotLost,
         UNCHANGED <<puts, gets>>,
         \A i \in gets .. puts - 1 :
            ops'[i % QUEUE_MAX_SIZE] = ops[i % QUEUE_MAX_SIZE],
         \A d \in Client : /\ InFlight(d)' <=> InFlight(d)
                           /\ Waiting(d) => Waiting(d)',
         \A x \in Worker : /\ pc'[x] \in HoldPC <=> pc[x] \in HoldPC
                           /\ pc[x] \in HoldPC => cur'[x] = cur[x]
  PROVE  QueueInv' /\ HoldInv' /\ NotLost'
  <1>1. QueueInv'
    BY DEF QueueInv
  <1>2. HoldInv'
    BY DEF HoldInv
  <1>3. NotLost'
    BY DEF NotLost
  <1> QED BY <1>1, <1>2, <1>3


\* execute starts on an idle client: nothing of the ring is touched.
LEMMA ExecuteBeginStep ==
  ASSUME IInv, NEW c \in Client, ExecuteBegin(c)
  PROVE  IInv'
  <1> USE SizeAssumption, ThreadAssumption DEF IInv
  <1>1. TypeOK'
    BY DEF ExecuteBegin, opfuse, Goto, TypeOK, Thread, ClientPC, WorkerPC, Slot
  <1>2. RingBounded'
    BY DEF ExecuteBegin, opfuse, RingBounded
  <1>3. LockInv'
    BY DEF ExecuteBegin, opfuse, Goto, TypeOK, Thread, ClientPC, WorkerPC, LockInv, LockPC
  <1>4. CheckInv'
    BY DEF ExecuteBegin, opfuse, Goto, TypeOK, Thread, ClientPC, WorkerPC, CheckInv, LockInv, LockPC
  <1>5. QueueInv' /\ HoldInv' /\ NotLost'
    <2>1. UNCHANGED <<puts, gets>>
      BY DEF ExecuteBegin, opfuse
    <2>2. \A i \in gets .. puts - 1 :
            ops'[i % QUEUE_MAX_SIZE] = ops[i % QUEUE_MAX_SIZE]
      BY DEF ExecuteBegin, opfuse
    <2>3. \A d \in Client : /\ InFlight(d)' <=> InFlight(d)
                            /\ Waiting(d) => Waiting(d)'
      BY DEF ExecuteBegin, opfuse, Goto, TypeOK, Thread, ClientPC, WorkerPC, InFlight, Waiting, ResultInv
    <2>4. \A x \in Worker : /\ pc'[x] \in HoldPC <=> pc[x] \in HoldPC
                            /\ pc[x] \in HoldPC => cur'[x] = cur[x]
      BY DEF ExecuteBegin, opfuse, Goto, TypeOK, Thread, ClientPC, WorkerPC, HoldPC
    <2> QED BY <2>1, <2>2, <2>3, <2>4, RingFrame
  <1>6. ResultInv'
    BY DEF ExecuteBegin, opfuse, Goto, TypeOK, Thread, ClientPC, WorkerPC, ResultInv, HoldInv, HoldPC, Waiting
  <1>7. AnswersOwnCall'
    BY DEF ExecuteBegin, opfuse, Goto, TypeOK, Thread, ClientPC, WorkerPC, AnswersOwnCall, ResultInv, HoldInv, HoldPC, Waiting
  <1> QED BY <1>1, <1>2, <1>3, <1>4, <1>5, <1>6, <1>7 DEF IInv

\* The first load of the unlocked test in execute.
LEMMA PutLoadStep ==
  ASSUME IInv, NEW c \in Client, PutLoad(c)
  PROVE  IInv'
  <1> USE SizeAssumption, ThreadAssumption DEF IInv
  <1>1. TypeOK'
    BY DEF PutLoad, Goto, TypeOK, Thread, ClientPC, WorkerPC, Slot
  <1>2. RingBounded'
    BY DEF PutLoad, RingBounded
  <1>3. LockInv'
    BY DEF PutLoad, Goto, TypeOK, Thread, ClientPC, WorkerPC, LockInv, LockPC
  <1>4. CheckInv'
    BY DEF PutLoad, Goto, TypeOK, Thread, ClientPC, WorkerPC, CheckInv, LockInv, LockPC
  <1>5. QueueInv' /\ HoldInv' /\ NotLost'
    <2>1. UNCHANGED <<puts, gets>>
      BY DEF PutLoad
    <2>2. \A i \in gets .. puts - 1 :
            ops'[i % QUEUE_MAX_SIZE] = ops[i % QUEUE_MAX_SIZE]
      BY DEF PutLoad
    <2>3. \A d \in Client : /\ InFlight(d)' <=> InFlight(d)
                            /\ Waiting(d) => Waiting(d)'
      BY DEF PutLoad, Goto, TypeOK, Thread, ClientPC, WorkerPC, InFlight, Waiting, ResultInv
    <2>4. \A x \in Worker : /\ pc'[x] \in HoldPC <=> pc[x] \in HoldPC
                            /\ pc[x] \in HoldPC => cur'[x] = cur[x]
      BY DEF PutLoad, Goto, TypeOK, Thread, ClientPC, WorkerPC, HoldPC
    <2> QED BY <2>1, <2>2, <2>3, <2>4, RingFrame
  <1>6. ResultInv'
    BY DEF PutLoad, Goto, TypeOK, Thread, ClientPC, WorkerPC, ResultInv, HoldInv, HoldPC, Waiting
  <1>7. AnswersOwnCall'
    BY DEF PutLoad, Goto, TypeOK, Thread, ClientPC, WorkerPC, AnswersOwnCall, ResultInv, HoldInv, HoldPC, Waiting
  <1> QED BY <1>1, <1>2, <1>3, <1>4, <1>5, <1>6, <1>7 DEF IInv

\* The unlocked test in execute only moves the thread.
LEMMA PutTestStep ==
  ASSUME IInv, NEW c \in Client, PutTest(c)
  PROVE  IInv'
  <1> USE SizeAssumption, ThreadAssumption DEF IInv
  <1>1. TypeOK'
    BY DEF PutTest, Goto, TypeOK, Thread, ClientPC, WorkerPC, Slot
  <1>2. RingBounded'
    BY DEF PutTest, RingBounded
  <1>3. LockInv'
    BY DEF PutTest, Goto, TypeOK, Thread, ClientPC, WorkerPC, LockInv, LockPC
  <1>4. CheckInv'
    BY DEF PutTest, Goto, TypeOK, Thread, ClientPC, WorkerPC, CheckInv, LockInv, LockPC
  <1>5. QueueInv' /\ HoldInv' /\ NotLost'
    <2>1. UNCHANGED <<puts, gets>>
      BY DEF PutTest
    <2>2. \A i \in gets .. puts - 1 :
            ops'[i % QUEUE_MAX_SIZE] = ops[i % QUEUE_MAX_SIZE]
      BY DEF PutTest
    <2>3. \A d \in Client : /\ InFlight(d)' <=> InFlight(d)
                            /\ Waiting(d) => Waiting(d)'
      BY DEF PutTest, Goto, TypeOK, Thread, ClientPC, WorkerPC, InFlight, Waiting, ResultInv
    <2>4. \A x \in Worker : /\ pc'[x] \in HoldPC <=> pc[x] \in HoldPC
                            /\ pc[x] \in HoldPC => cur'[x] = cur[x]
      BY DEF PutTest, Goto, TypeOK, Thread, ClientPC, WorkerPC, HoldPC
    <2> QED BY <2>1, <2>2, <2>3, <2>4, RingFrame
  <1>6. ResultInv'
    BY DEF PutTest, Goto, TypeOK, Thread, ClientPC, WorkerPC, ResultInv, HoldInv, HoldPC, Waiting
  <1>7. AnswersOwnCall'
    BY DEF PutTest, Goto, TypeOK, Thread, ClientPC, WorkerPC, AnswersOwnCall, ResultInv, HoldInv, HoldPC, Waiting
  <1> QED BY <1>1, <1>2, <1>3, <1>4, <1>5, <1>6, <1>7 DEF IInv

\* execute takes the spin lock.
LEMMA PutLockStep ==
  ASSUME IInv, NEW c \in Client, PutLock(c)
  PROVE  IInv'
  <1> USE SizeAssumption, ThreadAssumption DEF IInv
  <1>1. TypeOK'
    BY DEF PutLock, Goto, TypeOK, Thread, ClientPC, WorkerPC, Slot
  <1>2. RingBounded'
    BY DEF PutLock, RingBounded
  <1>3. LockInv'
    BY DEF PutLock, Goto, TypeOK, Thread, ClientPC, WorkerPC, LockInv, LockPC
  <1>4. CheckInv'
    BY DEF PutLock, Goto, TypeOK, Thread, ClientPC, WorkerPC, CheckInv, LockInv, LockPC
  <1>5. QueueInv' /\ HoldInv' /\ NotLost'
    <2>1. UNCHANGED <<puts, gets>>
      BY DEF PutLock
    <2>2. \A i \in gets .. puts - 1 :
            ops'[i % QUEUE_MAX_SIZE] = ops[i % QUEUE_MAX_SIZE]
      BY DEF PutLock
    <2>3. \A d \in Client : /\ InFlight(d)' <=> InFlight(d)
                            /\ Waiting(d) => Waiting(d)'
      BY DEF PutLock, Goto, TypeOK, Thread, ClientPC, WorkerPC, InFlight, Waiting, ResultInv
    <2>4. \A x \in Worker : /\ pc'[x] \in HoldPC <=> pc[x] \in HoldPC
                            /\ pc[x] \in HoldPC => cur'[x] = cur[x]
      BY DEF PutLock, Goto, TypeOK, Thread, ClientPC, WorkerPC, HoldPC
    <2> QED BY <2>1, <2>2, <2>3, <2>4, RingFrame
  <1>6. ResultInv'
    BY DEF PutLock, Goto, TypeOK, Thread, ClientPC, WorkerPC, ResultInv, HoldInv, HoldPC, Waiting
  <1>7. AnswersOwnCall'
    BY DEF PutLock, Goto, TypeOK, Thread, ClientPC, WorkerPC, AnswersOwnCall, ResultInv, HoldInv, HoldPC, Waiting
  <1> QED BY <1>1, <1>2, <1>3, <1>4, <1>5, <1>6, <1>7 DEF IInv

\* The test under the lock in execute.
LEMMA PutRetestStep ==
  ASSUME IInv, NEW c \in Client, PutRetest(c)
  PROVE  IInv'
  <1> USE SizeAssumption, ThreadAssumption DEF IInv
  <1>1. TypeOK'
    <2>1. CASE puts - gets >= QUEUE_MAX_SIZE
      BY <2>1 DEF PutRetest, Goto, TypeOK, Thread, ClientPC, WorkerPC
    <2>2. CASE ~(puts - gets >= QUEUE_MAX_SIZE)
      BY <2>2 DEF PutRetest, Goto, TypeOK, Thread, ClientPC, WorkerPC
    <2> QED BY <2>1, <2>2
  <1>2. RingBounded'
    BY DEF PutRetest, RingBounded
  <1>3. LockInv'
    BY DEF PutRetest, Goto, TypeOK, Thread, ClientPC, WorkerPC, LockInv, LockPC
  <1>4. CheckInv'
    BY DEF PutRetest, Goto, TypeOK, Thread, ClientPC, WorkerPC, CheckInv, LockInv, LockPC
  <1>5. QueueInv' /\ HoldInv' /\ NotLost'
    <2>1. UNCHANGED <<puts, gets>>
      BY DEF PutRetest
    <2>2. \A i \in gets .. puts - 1 :
            ops'[i % QUEUE_MAX_SIZE] = ops[i % QUEUE_MAX_SIZE]
      BY DEF PutRetest
    <2>3. \A d \in Client : /\ InFlight(d)' <=> InFlight(d)
                            /\ Waiting(d) => Waiting(d)'
      BY DEF PutRetest, Goto, TypeOK, Thread, ClientPC, WorkerPC, InFlight, Waiting, ResultInv
    <2>4. \A x \in Worker : /\ pc'[x] \in HoldPC <=> pc[x] \in HoldPC
                            /\ pc[x] \in HoldPC => cur'[x] = cur[x]
      BY DEF PutRetest, Goto, TypeOK, Thread, ClientPC, WorkerPC, HoldPC
    <2> QED BY <2>1, <2>2, <2>3, <2>4, RingFrame
  <1>6. ResultInv'
    BY DEF PutRetest, Goto, TypeOK, Thread, ClientPC, WorkerPC, ResultInv, HoldInv, HoldPC, Waiting
  <1>7. AnswersOwnCall'
    BY DEF PutRetest, Goto, TypeOK, Thread, ClientPC, WorkerPC, AnswersOwnCall, ResultInv, HoldInv, HoldPC, Waiting
  <1> QED BY <1>1, <1>2, <1>3, <1>4, <1>5, <1>6, <1>7 DEF IInv

\* The store into the free slot disturbs no live slot.
LEMMA PutSlotStep ==
  ASSUME IInv, NEW c \in Client, PutSlot(c)
  PROVE  IInv'
  <1> USE SizeAssumption, ThreadAssumption DEF IInv
  <1>1. TypeOK'
    BY DEF PutSlot, Goto, TypeOK, Thread, ClientPC, WorkerPC, Slot
  <1>2. RingBounded'
    BY DEF PutSlot, RingBounded
  <1>3. LockInv'
    BY DEF PutSlot, Goto, TypeOK, Thread, ClientPC, WorkerPC, LockInv, LockPC
  <1>4. CheckInv'
    <2>1. puts % QUEUE_MAX_SIZE \in Slot
      BY ModRange DEF TypeOK, Slot
    <2>2. ops'[puts % QUEUE_MAX_SIZE] = c
      BY <2>1 DEF PutSlot, TypeOK
    <2>3. \A t \in Thread \ {c} : pc'[t] = pc[t] /\ pc[t] \notin LockPC
      BY DEF PutSlot, Goto, TypeOK, Thread, LockInv, LockPC
    <2> QED BY <2>2, <2>3 DEF PutSlot, Goto, TypeOK, Thread, CheckInv, LockPC
  <1>5. QueueInv' /\ HoldInv' /\ NotLost'
    <2>1. UNCHANGED <<puts, gets>>
      BY DEF PutSlot
    <2>2. \A i \in gets .. puts - 1 :
            ops'[i % QUEUE_MAX_SIZE] = ops[i % QUEUE_MAX_SIZE]
      <3>1. \A i \in gets .. puts - 1 : i \in Nat /\ i < puts /\ puts < i + QUEUE_MAX_SIZE
        BY DEF PutSlot, CheckInv, TypeOK
      <3>2. \A i \in gets .. puts - 1 : i % QUEUE_MAX_SIZE # puts % QUEUE_MAX_SIZE
        BY <3>1, SlotsDiffer DEF TypeOK
      <3>3. \A i \in gets .. puts - 1 : i % QUEUE_MAX_SIZE \in Slot
        BY <3>1, ModRange DEF Slot
      <3>4. ops' = [ops EXCEPT ![puts % QUEUE_MAX_SIZE] = c] /\ DOMAIN ops = Slot
        BY DEF PutSlot, TypeOK
      <3> QED BY <3>2, <3>3, <3>4
    <2>3. \A d \in Client : /\ InFlight(d)' <=> InFlight(d)
                            /\ Waiting(d) => Waiting(d)'
      BY DEF PutSlot, Goto, TypeOK, Thread, ClientPC, WorkerPC, InFlight, Waiting, ResultInv
    <2>4. \A x \in Worker : /\ pc'[x] \in HoldPC <=> pc[x] \in HoldPC
                            /\ pc[x] \in HoldPC => cur'[x] = cur[x]
      BY DEF PutSlot, Goto, TypeOK, Thread, ClientPC, WorkerPC, HoldPC
    <2> QED BY <2>1, <2>2, <2>3, <2>4, RingFrame
  <1>6. ResultInv'
    BY DEF PutSlot, Goto, TypeOK, Thread, ClientPC, WorkerPC, ResultInv, HoldInv, HoldPC, Waiting
  <1>7. AnswersOwnCall'
    BY DEF PutSlot, Goto, TypeOK, Thread, ClientPC, WorkerPC, AnswersOwnCall, ResultInv, HoldInv, HoldPC, Waiting
  <1> QED BY <1>1, <1>2, <1>3, <1>4, <1>5, <1>6, <1>7 DEF IInv

\* Counting the operation makes its slot live and the operation in flight.
LEMMA PutCountStep ==
  ASSUME IInv, NEW c \in Client, PutCount(c)
  PROVE  IInv'
  <1> USE SizeAssumption, ThreadAssumption DEF IInv
  <1>1. TypeOK'
    BY DEF PutCount, Goto, TypeOK, Thread, ClientPC, WorkerPC, Slot
  <1>2. RingBounded'
    BY DEF PutCount, RingBounded, CheckInv, TypeOK
  <1>3. LockInv'
    BY DEF PutCount, Goto, TypeOK, Thread, ClientPC, WorkerPC, LockInv, LockPC
  <1>4. CheckInv'
    BY DEF PutCount, Goto, TypeOK, Thread, ClientPC, WorkerPC, CheckInv, LockInv, LockPC
  <1>5. QueueInv'
    <2>1. ~InFlight(c) /\ InFlight(c)' /\ \A d \in Client \ {c} : InFlight(d)' <=> InFlight(d)
      BY DEF PutCount, Goto, TypeOK, Thread, InFlight, ResultInv
    <2>2. /\ ops' = ops /\ gets' = gets /\ puts' = puts + 1
          /\ ops[puts % QUEUE_MAX_SIZE] = c
      BY DEF PutCount, CheckInv
    <2>3. \A i \in gets' .. puts' - 1 : i = puts \/ i \in gets .. puts - 1
      BY <2>2 DEF TypeOK
    <2>4. \A i \in gets .. puts - 1 : ops[i % QUEUE_MAX_SIZE] # c
      BY <2>1 DEF QueueInv
    <2> QED BY <2>1, <2>2, <2>3, <2>4 DEF QueueInv
  <1>6. HoldInv'
    <2>1. ~Waiting(c) /\ \A d \in Client \ {c} : Waiting(d)' <=> Waiting(d)
      BY DEF PutCount, Goto, TypeOK, Thread, Waiting
    <2>2. /\ ops' = ops /\ gets' = gets /\ puts' = puts + 1 /\ cur' = cur
          /\ ops[puts % QUEUE_MAX_SIZE] = c
      BY DEF PutCount, CheckInv
    <2>3. \A x \in Worker : pc'[x] = pc[x]
      BY DEF PutCount, Goto, TypeOK, Thread
    <2>4. \A i \in gets' .. puts' - 1 : i = puts \/ i \in gets .. puts - 1
      BY <2>2 DEF TypeOK
    <2> QED BY <2>1, <2>2, <2>3, <2>4 DEF HoldInv
  <1>7. NotLost'
    <2>1. \A d \in Client \ {c} : InFlight(d)' <=> InFlight(d)
      BY DEF PutCount, Goto, TypeOK, Thread, InFlight
    <2>2. /\ ops' = ops /\ gets' = gets /\ puts' = puts + 1 /\ cur' = cur
          /\ ops[puts % QUEUE_MAX_SIZE] = c
      BY DEF PutCount, CheckInv
    <2>3. \A x \in Worker : pc'[x] = pc[x]
      BY DEF PutCount, Goto, TypeOK, Thread
    <2>4. puts \in gets' .. puts' - 1
      BY <2>2 DEF TypeOK, RingBounded
    <2>5. \A i \in gets .. puts - 1 : i \in gets' .. puts' - 1
      BY <2>2 DEF TypeOK
    <2> QED BY <2>1, <2>2, <2>3, <2>4, <2>5 DEF NotLost
  <1>8. ResultInv'
    BY DEF PutCount, Goto, TypeOK, Thread, ClientPC, WorkerPC, ResultInv, HoldInv, HoldPC, Waiting
  <1>9. AnswersOwnCall'
    BY DEF PutCount, Goto, TypeOK, Thread, ClientPC, WorkerPC, AnswersOwnCall, ResultInv, HoldInv, HoldPC, Waiting
  <1> QED BY <1>1, <1>2, <1>3, <1>4, <1>5, <1>6, <1>7, <1>8, <1>9 DEF IInv

\* execute releases the lock; its operation stays in flight.
LEMMA PutUnlockStep ==
  ASSUME IInv, NEW c \in Client, PutUnlock(c)
  PROVE  IInv'
  <1> USE SizeAssumption, ThreadAssumption DEF IInv
  <1>1. TypeOK'
    BY DEF PutUnlock, Goto, TypeOK, Thread, ClientPC, WorkerPC, Slot
  <1>2. RingBounded'
    BY DEF PutUnlock, RingBounded
  <1>3. LockInv'
    BY DEF PutUnlock, Goto, TypeOK, Thread, ClientPC, WorkerPC, LockInv, LockPC
  <1>4. CheckInv'
    BY DEF PutUnlock, Goto, TypeOK, Thread, ClientPC, WorkerPC, CheckInv, LockInv, LockPC
  <1>5. QueueInv' /\ HoldInv' /\ NotLost'
    <2>1. UNCHANGED <<puts, gets>>
      BY DEF PutUnlock
    <2>2. \A i \in gets .. puts - 1 :
            ops'[i % QUEUE_MAX_SIZE] = ops[i % QUEUE_MAX_SIZE]
      BY DEF PutUnlock
    <2>3. \A d \in Client : /\ InFlight(d)' <=> InFlight(d)
                            /\ Waiting(d) => Waiting(d)'
      BY DEF PutUnlock, Goto, TypeOK, Thread, ClientPC, WorkerPC, InFlight, Waiting, ResultInv
    <2>4. \A x \in Worker : /\ pc'[x] \in HoldPC <=> pc[x] \in HoldPC
                            /\ pc[x] \in HoldPC => cur'[x] = cur[x]
      BY DEF PutUnlock, Goto, TypeOK, Thread, ClientPC, WorkerPC, HoldPC
    <2> QED BY <2>1, <2>2, <2>3, <2>4, RingFrame
  <1>6. ResultInv'
    BY DEF PutUnlock, Goto, TypeOK, Thread, ClientPC, WorkerPC, ResultInv, HoldInv, HoldPC, Waiting
  <1>7. AnswersOwnCall'
    BY DEF PutUnlock, Goto, TypeOK, Thread, ClientPC, WorkerPC, AnswersOwnCall, ResultInv, HoldInv, HoldPC, Waiting
  <1> QED BY <1>1, <1>2, <1>3, <1>4, <1>5, <1>6, <1>7 DEF IInv

\* execute returns an answered operation, which is in no slot.
LEMMA ExecuteReturnStep ==
  ASSUME IInv, NEW c \in Client, ExecuteReturn(c)
  PROVE  IInv'
  <1> USE SizeAssumption, ThreadAssumption DEF IInv
  <1>1. TypeOK'
    BY DEF ExecuteReturn, Goto, TypeOK, Thread, ClientPC, WorkerPC, Slot
  <1>2. RingBounded'
    BY DEF ExecuteReturn, RingBounded
  <1>3. LockInv'
    BY DEF ExecuteReturn, Goto, TypeOK, Thread, ClientPC, WorkerPC, LockInv, LockPC
  <1>4. CheckInv'
    BY DEF ExecuteReturn, Goto, TypeOK, Thread, ClientPC, WorkerPC, CheckInv, LockInv, LockPC
  <1>5. QueueInv' /\ HoldInv' /\ NotLost'
    <2>1. UNCHANGED <<puts, gets>>
      BY DEF ExecuteReturn
    <2>2. \A i \in gets .. puts - 1 :
            ops'[i % QUEUE_MAX_SIZE] = ops[i % QUEUE_MAX_SIZE]
      BY DEF ExecuteReturn
    <2>3. \A d \in Client : /\ InFlight(d)' <=> InFlight(d)
                            /\ Waiting(d) => Waiting(d)'
      BY DEF ExecuteReturn, Goto, TypeOK, Thread, ClientPC, WorkerPC, InFlight, Waiting, ResultInv
    <2>4. \A x \in Worker : /\ pc'[x] \in HoldPC <=> pc[x] \in HoldPC
                            /\ pc[x] \in HoldPC => cur'[x] = cur[x]
      BY DEF ExecuteReturn, Goto, TypeOK, Thread, ClientPC, WorkerPC, HoldPC
    <2> QED BY <2>1, <2>2, <2>3, <2>4, RingFrame
  <1>6. ResultInv'
    BY DEF ExecuteReturn, Goto, TypeOK, Thread, ClientPC, WorkerPC, ResultInv, HoldInv, HoldPC, Waiting
  <1>7. AnswersOwnCall'
    BY DEF ExecuteReturn, Goto, TypeOK, Thread, ClientPC, WorkerPC, AnswersOwnCall, ResultInv, HoldInv, HoldPC, Waiting
  <1> QED BY <1>1, <1>2, <1>3, <1>4, <1>5, <1>6, <1>7 DEF IInv

\* The first load of the unlocked test in get_op.
LEMMA GetLoadStep ==
  ASSUME IInv, NEW w \in Worker, GetLoad(w)
  PROVE  IInv'
  <1> USE SizeAssumption, ThreadAssumption DEF IInv
  <1>1. TypeOK'
    BY DEF GetLoad, Goto, TypeOK, Thread, ClientPC, WorkerPC, Slot
  <1>2. RingBounded'
    BY DEF GetLoad, RingBounded
  <1>3. LockInv'
    BY DEF GetLoad, Goto, TypeOK, Thread, ClientPC, WorkerPC, LockInv, LockPC
  <1>4. CheckInv'
    BY DEF GetLoad, Goto, TypeOK, Thread, ClientPC, WorkerPC, CheckInv, LockInv, LockPC
  <1>5. QueueInv' /\ HoldInv' /\ NotLost'
    <2>1. UNCHANGED <<puts, gets>>
      BY DEF GetLoad
    <2>2. \A i \in gets .. puts - 1 :
            ops'[i % QUEUE_MAX_SIZE] = ops[i % QUEUE_MAX_SIZE]
      BY DEF GetLoad
    <2>3. \A d \in Client : /\ InFlight(d)' <=> InFlight(d)
                            /\ Waiting(d) => Waiting(d)'
      BY DEF GetLoad, Goto, TypeOK, Thread, ClientPC, WorkerPC, InFlight, Waiting, ResultInv
    <2>4. \A x \in Worker : /\ pc'[x] \in HoldPC <=> pc[x] \in HoldPC
                            /\ pc[x] \in HoldPC => cur'[x] = cur[x]
      BY DEF GetLoad, Goto, TypeOK, Thread, ClientPC, WorkerPC, HoldPC
    <2> QED BY <2>1, <2>2, <2>3, <2>4, RingFrame
  <1>6. ResultInv'
    BY DEF GetLoad, Goto, TypeOK, Thread, ClientPC, WorkerPC, ResultInv, HoldInv, HoldPC, Waiting
  <1>7. AnswersOwnCall'
    BY DEF GetLoad, Goto, TypeOK, Thread, ClientPC, WorkerPC, AnswersOwnCall, ResultInv, HoldInv, HoldPC, Waiting
  <1> QED BY <1>1, <1>2, <1>3, <1>4, <1>5, <1>6, <1>7 DEF IInv

\* The unlocked test in get_op only moves the thread.
LEMMA GetTestStep ==
  ASSUME IInv, NEW w \in Worker, GetTest(w)
  PROVE  IInv'
  <1> USE SizeAssumption, ThreadAssumption DEF IInv
  <1>1. TypeOK'
    BY DEF GetTest, Goto, TypeOK, Thread, ClientPC, WorkerPC, Slot
  <1>2. RingBounded'
    BY DEF GetTest, RingBounded
  <1>3. LockInv'
    BY DEF GetTest, Goto, TypeOK, Thread, ClientPC, WorkerPC, LockInv, LockPC
  <1>4. CheckInv'
    BY DEF GetTest, Goto, TypeOK, Thread, ClientPC, WorkerPC, CheckInv, LockInv, LockPC
  <1>5. QueueInv' /\ HoldInv' /\ NotLost'
    <2>1. UNCHANGED <<puts, gets>>
      BY DEF GetTest
    <2>2. \A i \in gets .. puts - 1 :
            ops'[i % QUEUE_MAX_SIZE] = ops[i % QUEUE_MAX_SIZE]
      BY DEF GetTest
    <2>3. \A d \in Client : /\ InFlight(d)' <=> InFlight(d)
                            /\ Waiting(d) => Waiting(d)'
      BY DEF GetTest, Goto, TypeOK, Thread, ClientPC, WorkerPC, InFlight, Waiting, ResultInv
    <2>4. \A x \in Worker : /\ pc'[x] \in HoldPC <=> pc[x] \in HoldPC
                            /\ pc[x] \in HoldPC => cur'[x] = cur[x]
      BY DEF GetTest, Goto, TypeOK, Thread, ClientPC, WorkerPC, HoldPC
    <2> QED BY <2>1, <2>2, <2>3, <2>4, RingFrame
  <1>6. ResultInv'
    BY DEF GetTest, Goto, TypeOK, Thread, ClientPC, WorkerPC, ResultInv, HoldInv, HoldPC, Waiting
  <1>7. AnswersOwnCall'
    BY DEF GetTest, Goto, TypeOK, Thread, ClientPC, WorkerPC, AnswersOwnCall, ResultInv, HoldInv, HoldPC, Waiting
  <1> QED BY <1>1, <1>2, <1>3, <1>4, <1>5, <1>6, <1>7 DEF IInv

\* get_op takes the spin lock.
LEMMA GetLockStep ==
  ASSUME IInv, NEW w \in Worker, GetLock(w)
  PROVE  IInv'
  <1> USE SizeAssumption, ThreadAssumption DEF IInv
  <1>1. TypeOK'
    BY DEF GetLock, Goto, TypeOK, Thread, ClientPC, WorkerPC, Slot
  <1>2. RingBounded'
    BY DEF GetLock, RingBounded
  <1>3. LockInv'
    BY DEF GetLock, Goto, TypeOK, Thread, ClientPC, WorkerPC, LockInv, LockPC
  <1>4. CheckInv'
    BY DEF GetLock, Goto, TypeOK, Thread, ClientPC, WorkerPC, CheckInv, LockInv, LockPC
  <1>5. QueueInv' /\ HoldInv' /\ NotLost'
    <2>1. UNCHANGED <<puts, gets>>
      BY DEF GetLock
    <2>2. \A i \in gets .. puts - 1 :
            ops'[i % QUEUE_MAX_SIZE] = ops[i % QUEUE_MAX_SIZE]
      BY DEF GetLock
    <2>3. \A d \in Client : /\ InFlight(d)' <=> InFlight(d)
                            /\ Waiting(d) => Waiting(d)'
      BY DEF GetLock, Goto, TypeOK, Thread, ClientPC, WorkerPC, InFlight, Waiting, ResultInv
    <2>4. \A x \in Worker : /\ pc'[x] \in HoldPC <=> pc[x] \in HoldPC
                            /\ pc[x] \in HoldPC => cur'[x] = cur[x]
      BY DEF GetLock, Goto, TypeOK, Thread, ClientPC, WorkerPC, HoldPC
    <2> QED BY <2>1, <2>2, <2>3, <2>4, RingFrame
  <1>6. ResultInv'
    BY DEF GetLock, Goto, TypeOK, Thread, ClientPC, WorkerPC, ResultInv, HoldInv, HoldPC, Waiting
  <1>7. AnswersOwnCall'
    BY DEF GetLock, Goto, TypeOK, Thread, ClientPC, WorkerPC, AnswersOwnCall, ResultInv, HoldInv, HoldPC, Waiting
  <1> QED BY <1>1, <1>2, <1>3, <1>4, <1>5, <1>6, <1>7 DEF IInv

\* The test under the lock in get_op.
LEMMA GetRetestStep ==
  ASSUME IInv, NEW w \in Worker, GetRetest(w)
  PROVE  IInv'
  <1> USE SizeAssumption, ThreadAssumption DEF IInv
  <1>1. TypeOK'
    <2>1. PICK l \in {"get_load", "get_slot"} : pc' = [pc EXCEPT ![w] = l]
      BY DEF GetRetest, Goto
    <2>2. /\ pc' \in [Thread -> ClientPC \cup WorkerPC]
          /\ \A c \in Client : pc'[c] \in ClientPC
          /\ \A v \in Worker : pc'[v] \in WorkerPC
      BY <2>1 DEF TypeOK, Thread, ClientPC, WorkerPC
    <2>3. spin' \in Thread \cup {NoOne}
      BY DEF GetRetest, TypeOK
    <2> QED BY <2>2, <2>3 DEF GetRetest, TypeOK
  <1>2. RingBounded'
    BY DEF GetRetest, RingBounded
  <1>3. LockInv'
    BY DEF GetRetest, Goto, TypeOK, Thread, ClientPC, WorkerPC, LockInv, LockPC
  <1>4. CheckInv'
    BY DEF GetRetest, Goto, TypeOK, Thread, ClientPC, WorkerPC, CheckInv, LockInv, LockPC
  <1>5. QueueInv' /\ HoldInv' /\ NotLost'
    <2>1. UNCHANGED <<puts, gets>>
      BY DEF GetRetest
    <2>2. \A i \in gets .. puts - 1 :
            ops'[i % QUEUE_MAX_SIZE] = ops[i % QUEUE_MAX_SIZE]
      BY DEF GetRetest
    <2>3. \A d \in Client : /\ InFlight(d)' <=> InFlight(d)
                            /\ Waiting(d) => Waiting(d)'
      BY DEF GetRetest, Goto, TypeOK, Thread, ClientPC, WorkerPC, InFlight, Waiting, ResultInv
    <2>4. \A x \in Worker : /\ pc'[x] \in HoldPC <=> pc[x] \in HoldPC
                            /\ pc[x] \in HoldPC => cur'[x] = cur[x]
      BY DEF GetRetest, Goto, TypeOK, Thread, ClientPC, WorkerPC, HoldPC
    <2> QED BY <2>1, <2>2, <2>3, <2>4, RingFrame
  <1>6. ResultInv'
    BY DEF GetRetest, Goto, TypeOK, Thread, ClientPC, WorkerPC, ResultInv, HoldInv, HoldPC, Waiting
  <1>7. AnswersOwnCall'
    BY DEF GetRetest, Goto, TypeOK, Thread, ClientPC, WorkerPC, AnswersOwnCall, ResultInv, HoldInv, HoldPC, Waiting
  <1> QED BY <1>1, <1>2, <1>3, <1>4, <1>5, <1>6, <1>7 DEF IInv

\* Loading the oldest slot does not take it yet.
LEMMA GetSlotStep ==
  ASSUME IInv, NEW w \in Worker, GetSlot(w)
  PROVE  IInv'
  <1> USE SizeAssumption, ThreadAssumption DEF IInv
  <1>1. TypeOK'
    BY DEF GetSlot, Goto, TypeOK, Thread, ClientPC, WorkerPC, Slot
  <1>2. RingBounded'
    BY DEF GetSlot, RingBounded
  <1>3. LockInv'
    BY DEF GetSlot, Goto, TypeOK, Thread, ClientPC, WorkerPC, LockInv, LockPC
  <1>4. CheckInv'
    BY DEF GetSlot, Goto, TypeOK, Thread, ClientPC, WorkerPC, CheckInv, LockInv, LockPC
  <1>5. QueueInv' /\ HoldInv' /\ NotLost'
    <2>1. UNCHANGED <<puts, gets>>
      BY DEF GetSlot
    <2>2. \A i \in gets .. puts - 1 :
            ops'[i % QUEUE_MAX_SIZE] = ops[i % QUEUE_MAX_SIZE]
      BY DEF GetSlot
    <2>3. \A d \in Client : /\ InFlight(d)' <=> InFlight(d)
                            /\ Waiting(d) => Waiting(d)'
      BY DEF GetSlot, Goto, TypeOK, Thread, ClientPC, WorkerPC, InFlight, Waiting, ResultInv
    <2>4. \A x \in Worker : /\ pc'[x] \in HoldPC <=> pc[x] \in HoldPC
                            /\ pc[x] \in HoldPC => cur'[x] = cur[x]
      BY DEF GetSlot, Goto, TypeOK, Thread, ClientPC, WorkerPC, HoldPC
    <2> QED BY <2>1, <2>2, <2>3, <2>4, RingFrame
  <1>6. ResultInv'
    BY DEF GetSlot, Goto, TypeOK, Thread, ClientPC, WorkerPC, ResultInv, HoldInv, HoldPC, Waiting
  <1>7. AnswersOwnCall'
    BY DEF GetSlot, Goto, TypeOK, Thread, ClientPC, WorkerPC, AnswersOwnCall, ResultInv, HoldInv, HoldPC, Waiting
  <1> QED BY <1>1, <1>2, <1>3, <1>4, <1>5, <1>6, <1>7 DEF IInv

\* Counting the get moves the operation from the ring to the worker.
LEMMA GetCountStep ==
  ASSUME IInv, NEW w \in Worker, GetCount(w)
  PROVE  IInv'
  <1> USE SizeAssumption, ThreadAssumption DEF IInv
  <1>1. TypeOK'
    BY DEF GetCount, Goto, TypeOK, Thread, ClientPC, WorkerPC, Slot
  <1>2. RingBounded'
    BY DEF GetCount, RingBounded, CheckInv, TypeOK
  <1>3. LockInv'
    BY DEF GetCount, Goto, TypeOK, Thread, ClientPC, WorkerPC, LockInv, LockPC
  <1>4. CheckInv'
    BY DEF GetCount, Goto, TypeOK, Thread, ClientPC, WorkerPC, CheckInv, LockInv, LockPC
  <1>5. QueueInv'
    <2>1. \A d \in Client : InFlight(d)' <=> InFlight(d)
      BY DEF GetCount, Goto, TypeOK, Thread, InFlight
    <2>2. ops' = ops /\ gets' = gets + 1 /\ puts' = puts
      BY DEF GetCount
    <2>3. \A i \in gets' .. puts' - 1 : i \in gets .. puts - 1
      BY <2>2 DEF TypeOK
    <2> QED BY <2>1, <2>2, <2>3 DEF QueueInv
  <1>6. HoldInv'
    <2>1. \A d \in Client : Waiting(d)' <=> Waiting(d)
      BY DEF GetCount, Goto, TypeOK, Thread, Waiting
    <2>2. ops' = ops /\ gets' = gets + 1 /\ puts' = puts /\ cur' = cur
      BY DEF GetCount
    <2>3. /\ gets \in gets .. puts - 1
          /\ cur[w] = ops[gets % QUEUE_MAX_SIZE]
      BY DEF GetCount, CheckInv, TypeOK
    <2>4. cur[w] \in Client /\ InFlight(cur[w])
      BY <2>3 DEF QueueInv
    <2>5. Waiting(cur[w])
      BY <2>4 DEF InFlight, Waiting, LockInv, LockPC, Thread, GetCount
    <2>6. \A x \in Worker \ {w} : pc'[x] = pc[x]
      BY DEF GetCount, Goto, TypeOK, Thread
    <2>7. pc[w] \notin HoldPC /\ pc'[w] \in HoldPC
      BY DEF GetCount, Goto, TypeOK, Thread, HoldPC
    <2>8. \A i \in gets' .. puts' - 1 : i \in gets .. puts - 1 /\ i # gets
      BY <2>2 DEF TypeOK
    <2>9. \A i \in gets' .. puts' - 1 : ops[i % QUEUE_MAX_SIZE] # cur[w]
      BY <2>3, <2>8 DEF QueueInv
    <2>10. \A x \in Worker : pc[x] \in HoldPC => cur[x] # cur[w]
      BY <2>3 DEF HoldInv
    <2> QED BY <2>1, <2>2, <2>4, <2>5, <2>6, <2>7, <2>8, <2>9, <2>10 DEF HoldInv
  <1>7. NotLost'
    <2>1. \A d \in Client : InFlight(d)' <=> InFlight(d)
      BY DEF GetCount, Goto, TypeOK, Thread, InFlight
    <2>2. ops' = ops /\ gets' = gets + 1 /\ puts' = puts /\ cur' = cur
      BY DEF GetCount
    <2>3. cur[w] = ops[gets % QUEUE_MAX_SIZE]
      BY DEF GetCount, CheckInv
    <2>4. pc'[w] \in HoldPC /\ \A x \in Worker \ {w} : pc'[x] = pc[x]
      BY DEF GetCount, Goto, TypeOK, Thread, HoldPC
    <2>5. pc[w] \notin HoldPC
      BY DEF GetCount, HoldPC
    <2>6. \A i \in gets .. puts - 1 : i = gets \/ i \in gets' .. puts' - 1
      BY <2>2 DEF TypeOK
    <2> QED BY <2>1, <2>2, <2>3, <2>4, <2>5, <2>6 DEF NotLost
  <1>8. ResultInv'
    BY DEF GetCount, Goto, TypeOK, Thread, ClientPC, WorkerPC, ResultInv, HoldInv, HoldPC, Waiting
  <1>9. AnswersOwnCall'
    BY DEF GetCount, Goto, TypeOK, Thread, ClientPC, WorkerPC, AnswersOwnCall, ResultInv, HoldInv, HoldPC, Waiting
  <1> QED BY <1>1, <1>2, <1>3, <1>4, <1>5, <1>6, <1>7, <1>8, <1>9 DEF IInv

\* get_op releases the lock and keeps the operation.
LEMMA GetUnlockStep ==
  ASSUME IInv, NEW w \in Worker, GetUnlock(w)
  PROVE  IInv'
  <1> USE SizeAssumption, ThreadAssumption DEF IInv
  <1>1. TypeOK'
    BY DEF GetUnlock, Goto, TypeOK, Thread, ClientPC, WorkerPC, Slot
  <1>2. RingBounded'
    BY DEF GetUnlock, RingBounded
  <1>3. LockInv'
    BY DEF GetUnlock, Goto, TypeOK, Thread, ClientPC, WorkerPC, LockInv, LockPC
  <1>4. CheckInv'
    BY DEF GetUnlock, Goto, TypeOK, Thread, ClientPC, WorkerPC, CheckInv, LockInv, LockPC
  <1>5. QueueInv' /\ HoldInv' /\ NotLost'
    <2>1. UNCHANGED <<puts, gets>>
      BY DEF GetUnlock
    <2>2. \A i \in gets .. puts - 1 :
            ops'[i % QUEUE_MAX_SIZE] = ops[i % QUEUE_MAX_SIZE]
      BY DEF GetUnlock
    <2>3. \A d \in Client : /\ InFlight(d)' <=> InFlight(d)
                            /\ Waiting(d) => Waiting(d)'
      BY DEF GetUnlock, Goto, TypeOK, Thread, ClientPC, WorkerPC, InFlight, Waiting, ResultInv
    <2>4. \A x \in Worker : /\ pc'[x] \in HoldPC <=> pc[x] \in HoldPC
                            /\ pc[x] \in HoldPC => cur'[x] = cur[x]
      BY DEF GetUnlock, Goto, TypeOK, Thread, ClientPC, WorkerPC, HoldPC
    <2> QED BY <2>1, <2>2, <2>3, <2>4, RingFrame
  <1>6. ResultInv'
    BY DEF GetUnlock, Goto, TypeOK, Thread, ClientPC, WorkerPC, ResultInv, HoldInv, HoldPC, Waiting
  <1>7. AnswersOwnCall'
    BY DEF GetUnlock, Goto, TypeOK, Thread, ClientPC, WorkerPC, AnswersOwnCall, ResultInv, HoldInv, HoldPC, Waiting
  <1> QED BY <1>1, <1>2, <1>3, <1>4, <1>5, <1>6, <1>7 DEF IInv

\* The handler reads its arguments from an operation in flight.
LEMMA HandleStep ==
  ASSUME IInv, NEW w \in Worker, Handle(w)
  PROVE  IInv'
  <1> USE SizeAssumption, ThreadAssumption DEF IInv
  <1>1. TypeOK'
    BY DEF Handle, Goto, TypeOK, Thread, ClientPC, WorkerPC, HoldInv, HoldPC
  <1>2. RingBounded'
    BY DEF Handle, RingBounded
  <1>3. LockInv'
    BY DEF Handle, Goto, TypeOK, Thread, ClientPC, WorkerPC, LockInv, LockPC
  <1>4. CheckInv'
    BY DEF Handle, Goto, TypeOK, Thread, ClientPC, WorkerPC, CheckInv, LockInv, LockPC
  <1>5. QueueInv' /\ HoldInv' /\ NotLost'
    <2>1. UNCHANGED <<puts, gets>>
      BY DEF Handle
    <2>2. \A i \in gets .. puts - 1 :
            ops'[i % QUEUE_MAX_SIZE] = ops[i % QUEUE_MAX_SIZE]
      BY DEF Handle
    <2>3. \A d \in Client : /\ InFlight(d)' <=> InFlight(d)
                            /\ Waiting(d) => Waiting(d)'
      BY DEF Handle, Goto, TypeOK, Thread, ClientPC, WorkerPC, InFlight, Waiting, ResultInv
    <2>4. \A x \in Worker : /\ pc'[x] \in HoldPC <=> pc[x] \in HoldPC
                            /\ pc[x] \in HoldPC => cur'[x] = cur[x]
      BY DEF Handle, Goto, TypeOK, Thread, ClientPC, WorkerPC, HoldPC
    <2> QED BY <2>1, <2>2, <2>3, <2>4, RingFrame
  <1>6. ResultInv'
    BY DEF Handle, Goto, TypeOK, Thread, ClientPC, WorkerPC, ResultInv, HoldInv, HoldPC, Waiting
  <1>7. AnswersOwnCall'
    BY DEF Handle, Goto, TypeOK, Thread, ClientPC, WorkerPC, AnswersOwnCall, ResultInv, HoldInv, HoldPC, Waiting
  <1> QED BY <1>1, <1>2, <1>3, <1>4, <1>5, <1>6, <1>7 DEF IInv

\* send_result stores the result into an operation in flight.
LEMMA SendErrStep ==
  ASSUME IInv, NEW w \in Worker, SendErr(w)
  PROVE  IInv'
  <1> USE SizeAssumption, ThreadAssumption DEF IInv
  <1>1. TypeOK'
    BY DEF SendErr, Goto, TypeOK, Thread, ClientPC, WorkerPC, Slot
  <1>2. RingBounded'
    BY DEF SendErr, RingBounded
  <1>3. LockInv'
    BY DEF SendErr, Goto, TypeOK, Thread, ClientPC, WorkerPC, LockInv, LockPC
  <1>4. CheckInv'
    BY DEF SendErr, Goto, TypeOK, Thread, ClientPC, WorkerPC, CheckInv, LockInv, LockPC
  <1>5. QueueInv' /\ HoldInv' /\ NotLost'
    <2>1. UNCHANGED <<puts, gets>>
      BY DEF SendErr
    <2>2. \A i \in gets .. puts - 1 :
            ops'[i % QUEUE_MAX_SIZE] = ops[i % QUEUE_MAX_SIZE]
      BY DEF SendErr
    <2>3. \A d \in Client : /\ InFlight(d)' <=> InFlight(d)
                            /\ Waiting(d) => Waiting(d)'
      BY DEF SendErr, Goto, TypeOK, Thread, ClientPC, WorkerPC, InFlight, Waiting, ResultInv
    <2>4. \A x \in Worker : /\ pc'[x] \in HoldPC <=> pc[x] \in HoldPC
                            /\ pc[x] \in HoldPC => cur'[x] = cur[x]
      BY DEF SendErr, Goto, TypeOK, Thread, ClientPC, WorkerPC, HoldPC
    <2> QED BY <2>1, <2>2, <2>3, <2>4, RingFrame
  <1>6. ResultInv'
    BY DEF SendErr, Goto, TypeOK, Thread, ClientPC, WorkerPC, ResultInv, HoldInv, HoldPC, Waiting
  <1>7. AnswersOwnCall'
    BY DEF SendErr, Goto, TypeOK, Thread, ClientPC, WorkerPC, AnswersOwnCall, ResultInv, HoldInv, HoldPC, Waiting
  <1> QED BY <1>1, <1>2, <1>3, <1>4, <1>5, <1>6, <1>7 DEF IInv

\* send_result answers the operation it holds, which leaves flight.
LEMMA SendDoneStep ==
  ASSUME IInv, NEW w \in Worker, SendDone(w)
  PROVE  IInv'
  <1> USE SizeAssumption, ThreadAssumption DEF IInv
  <1>1. TypeOK'
    BY DEF SendDone, Goto, TypeOK, Thread, ClientPC, WorkerPC, Slot
  <1>2. RingBounded'
    BY DEF SendDone, RingBounded
  <1>3. LockInv'
    BY DEF SendDone, Goto, TypeOK, Thread, ClientPC, WorkerPC, LockInv, LockPC
  <1>4. CheckInv'
    BY DEF SendDone, Goto, TypeOK, Thread, ClientPC, WorkerPC, CheckInv, LockInv, LockPC
  <1>5. QueueInv'
    <2>1. pc[w] \in HoldPC
      BY DEF SendDone, HoldPC
    <2>2. \A d \in Client \ {cur[w]} : InFlight(d)' <=> InFlight(d)
      BY DEF SendDone, Goto, TypeOK, Thread, InFlight
    <2>3. \A i \in gets .. puts - 1 : ops[i % QUEUE_MAX_SIZE] # cur[w]
      BY <2>1 DEF HoldInv
    <2>4. UNCHANGED <<ops, puts, gets>>
      BY DEF SendDone
    <2> QED BY <2>2, <2>3, <2>4 DEF QueueInv
  <1>6. HoldInv'
    <2>1. pc[w] \in HoldPC /\ pc'[w] \notin HoldPC
      BY DEF SendDone, Goto, TypeOK, Thread, HoldPC
    <2>2. \A d \in Client \ {cur[w]} : Waiting(d)' <=> Waiting(d)
      BY DEF SendDone, Goto, TypeOK, Thread, Waiting
    <2>3. \A x \in Worker \ {w} : pc'[x] = pc[x]
      BY DEF SendDone, Goto, TypeOK, Thread
    <2>4. UNCHANGED <<ops, puts, gets, cur>>
      BY DEF SendDone
    <2> QED BY <2>1, <2>2, <2>3, <2>4 DEF HoldInv
  <1>7. NotLost'
    <2>1. cur[w] \in Client /\ ~InFlight(cur[w])'
      BY DEF SendDone, TypeOK, InFlight, HoldInv, HoldPC
    <2>2. \A d \in Client \ {cur[w]} : InFlight(d)' <=> InFlight(d)
      BY DEF SendDone, Goto, TypeOK, Thread, InFlight
    <2>3. \A x \in Worker \ {w} : pc'[x] = pc[x]
      BY DEF SendDone, Goto, TypeOK, Thread
    <2>4. UNCHANGED <<ops, puts, gets, cur>>
      BY DEF SendDone
    <2> QED BY <2>1, <2>2, <2>3, <2>4 DEF NotLost
  <1>8. ResultInv'
    BY DEF SendDone, Goto, TypeOK, Thread, ClientPC, WorkerPC, ResultInv, HoldInv, HoldPC, Waiting
  <1>9. AnswersOwnCall'
    BY DEF SendDone, Goto, TypeOK, Thread, ClientPC, WorkerPC, AnswersOwnCall, ResultInv, HoldInv, HoldPC, Waiting
  <1> QED BY <1>1, <1>2, <1>3, <1>4, <1>5, <1>6, <1>7, <1>8, <1>9 DEF IInv

-----------------------------------------------------------------------------
(* The theorems. *)

\* The initial state of the queue satisfies the inductive invariant.
LEMMA InitInv == Init => IInv
  <1> SUFFICES ASSUME Init PROVE IInv
    OBVIOUS
  <1> USE SizeAssumption, ThreadAssumption
  <1>1. TypeOK /\ RingBounded
    BY DEF Init, TypeOK, RingBounded, Slot, Thread, ClientPC, WorkerPC
  <1>2. LockInv /\ CheckInv /\ HoldInv /\ ResultInv /\ AnswersOwnCall
    BY DEF Init, LockInv, CheckInv, HoldInv, ResultInv, AnswersOwnCall,
           LockPC, HoldPC, Thread
  <1>3. QueueInv /\ NotLost
    BY DEF Init, QueueInv, NotLost, InFlight, Thread
  <1> QED BY <1>1, <1>2, <1>3 DEF IInv

\* Every step of every thread preserves the inductive invariant.
LEMMA StepInv == IInv /\ [Next]_vars => IInv'
  <1> SUFFICES ASSUME IInv, [Next]_vars PROVE IInv'
    OBVIOUS
  <1>1. ASSUME NEW c \in Client, ExecuteBegin(c) \/ ClientStep(c)
        PROVE  IInv'
    BY <1>1, ExecuteBeginStep, PutLoadStep, PutTestStep, PutLockStep,
       PutRetestStep, PutSlotStep, PutCountStep, PutUnlockStep,
       ExecuteReturnStep DEF ClientStep
  <1>2. ASSUME NEW w \in Worker, WorkerStep(w)
        PROVE  IInv'
    BY <1>2, GetLoadStep, GetTestStep, GetLockStep, GetRetestStep,
       GetSlotStep, GetCountStep, GetUnlockStep, HandleStep, SendErrStep,
       SendDoneStep DEF WorkerStep
  <1>3. CASE UNCHANGED vars
    <2> USE <1>3 DEF vars, IInv
    <2>1. TypeOK' /\ RingBounded'
      BY DEF TypeOK, RingBounded
    <2>2. LockInv' /\ CheckInv'
      BY DEF LockInv, CheckInv
    <2>3. QueueInv' /\ HoldInv' /\ NotLost'
      BY DEF QueueInv, HoldInv, NotLost, InFlight, Waiting
    <2>4. ResultInv' /\ AnswersOwnCall'
      BY DEF ResultInv, AnswersOwnCall
    <2> QED BY <2>1, <2>2, <2>3, <2>4
  <1> QED BY <1>1, <1>2, <1>3 DEF Next

\* The inductive invariant holds in every reachable state of the queue.
THEOREM QueueInvariant == Spec => []IInv
  BY InitInv, StepInv, PTL DEF Spec

\* Every thread is at a statement of its own function and slots hold clients.
THEOREM QueueTyped == Spec => []TypeOK
  BY QueueInvariant, PTL DEF IInv

\* The ring never holds more operations than it has slots.
THEOREM RingNeverOverflows == Spec => []RingBounded
  BY QueueInvariant, PTL DEF IInv

\* execute returns the result of its own call.
THEOREM CallsGetTheirAnswer == Spec => []AnswersOwnCall
  BY QueueInvariant, PTL DEF IInv

\* A worker never touches an operation whose stack frame has been left.
THEOREM OperationsOutliveTheirUse == Spec => []NoDanglingOperation
  <1>1. IInv => NoDanglingOperation
    BY DEF IInv, HoldInv, NoDanglingOperation, Waiting, InFlight
  <1> QED BY <1>1, QueueInvariant, PTL

\* An operation in flight is in one slot or with one worker.
THEOREM NoLossNoDuplicate == Spec => []ExactlyOneHome
  <1>1. IInv => ExactlyOneHome
    <2> SUFFICES ASSUME IInv, NEW c \in Client, InFlight(c)
                 PROVE  \/ Holding(c) = {} /\ \E i \in Queued(c) : Queued(c) = {i}
                        \/ Queued(c) = {} /\ \E w \in Holding(c) : Holding(c) = {w}
      BY DEF ExactlyOneHome
    <2>1. CASE \E i \in gets .. puts - 1 : ops[i % QUEUE_MAX_SIZE] = c
      <3>1. PICK i \in gets .. puts - 1 : ops[i % QUEUE_MAX_SIZE] = c
        BY <2>1
      <3>2. Queued(c) = {i}
        BY <3>1 DEF Queued, IInv, QueueInv
      <3>3. Holding(c) = {}
        BY <3>1 DEF Holding, IInv, HoldInv
      <3> QED BY <3>2, <3>3
    <2>2. CASE \E w \in Worker : pc[w] \in HoldPC /\ cur[w] = c
      <3>1. PICK w \in Worker : pc[w] \in HoldPC /\ cur[w] = c
        BY <2>2
      <3>2. Holding(c) = {w}
        BY <3>1 DEF Holding, IInv, HoldInv
      <3>3. Queued(c) = {}
        BY <3>1 DEF Queued, IInv, HoldInv
      <3> QED BY <3>2, <3>3
    <2> QED BY <2>1, <2>2 DEF IInv, NotLost
  <1> QED BY <1>1, QueueInvariant, PTL
=============================================================================

