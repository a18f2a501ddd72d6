------------------------------ MODULE OpQueue ------------------------------
(***************************************************************************)
(* The queue between the FUSE threads and the threads of the Haskell       *)
(* runtime (src/src/hslib/opqueue.c), used when fscq.hs runs with          *)
(* useDowncalls.  A FUSE thread (a Client) puts a pointer to an operation  *)
(* that lives on its own stack into a ring of QUEUE_MAX_SIZE pointers and  *)
(* spins on op->done; a handler thread (a Worker) spins for an entry,      *)
(* takes it, runs the file-system call and stores op->err and op->done.    *)
(*                                                                         *)
(* Every load and store of a shared location is a step of its own.  A      *)
(* client has one operation at a time, so the client names the pointer.    *)
(***************************************************************************)
EXTENDS Integers, FiniteSets

CONSTANTS
    Client,         \* FUSE threads, callers of execute
    Worker,         \* Haskell threads started by startHandlingOps
    QUEUE_MAX_SIZE, \* slots of the ring
    MaxCalls,       \* bound: calls of execute by one client
    NoOne           \* not a thread: the free spin lock, the empty slot

ASSUME SizeAssumption == QUEUE_MAX_SIZE \in Nat \ {0}
ASSUME CallsAssumption == MaxCalls \in Nat
ASSUME ThreadAssumption ==
    /\ NoOne \notin Client \cup Worker
    /\ Client \cap Worker = {}

VARIABLES
    ops,    \* q.ops: slot -> client whose operation is queued there
    puts,   \* q.puts
    gets,   \* q.gets
    spin,   \* holder of q.spin
    pc,     \* next statement of every thread
    seen,   \* the counter loaded first by a thread's unlocked test
    cur,    \* the operation a worker holds
    done,   \* op->done of every client's operation
    err,    \* op->err: the number of the call it answers, 0 = unset
    call,   \* number of execute calls each client has started
    res     \* what a worker will send: the call it has read from the operation

vars == <<ops, puts, gets, spin, pc, seen, cur, done, err, call, res>>

Thread == Client \cup Worker
Slot == 0 .. QUEUE_MAX_SIZE - 1

Init ==
    /\ ops = [s \in Slot |-> NoOne]
    /\ puts = 0
    /\ gets = 0
    /\ spin = NoOne
    /\ pc = [t \in Thread |-> IF t \in Client THEN "idle" ELSE "get_load"]
    /\ seen = [t \in Thread |-> 0]
    /\ cur = [w \in Worker |-> NoOne]
    /\ done = [c \in Client |-> TRUE]
    /\ err = [c \in Client |-> 0]
    /\ call = [c \in Client |-> 0]
    /\ res = [w \in Worker |-> 0]

Goto(t, l) == pc' = [pc EXCEPT ![t] = l]

-----------------------------------------------------------------------------
(* execute, on a FUSE thread. *)

\* opfuse_getattr ... opfuse_create: every callback makes an operation of its
\* arguments on its own stack and hands it to execute.
opfuse(c) == call' = [call EXCEPT ![c] = @ + 1]

\* Mutant: execute does not clear op->done.
ExecuteBeginStaleDone(c) ==
    /\ pc[c] = "idle"
    /\ call[c] < MaxCalls
    /\ opfuse(c)
    /\ Goto(c, "put_load")
    /\ UNCHANGED <<ops, puts, gets, spin, seen, cur, done, err, res>>

\* The first store of execute is op->done = 0; op->err keeps what an earlier call
\* left on the stack.
ExecuteBegin(c) ==
    /\ pc[c] = "idle"
    /\ call[c] < MaxCalls
    /\ opfuse(c)
    /\ done' = [done EXCEPT ![c] = FALSE]
    /\ Goto(c, "put_load")
    /\ UNCHANGED <<ops, puts, gets, spin, seen, cur, err, res>>

\* The test of a full ring outside the lock: q.puts and q.gets are two loads.
PutLoad(c) ==
    /\ pc[c] = "put_load"
    /\ seen' = [seen EXCEPT ![c] = puts]
    /\ Goto(c, "put_test")
    /\ UNCHANGED <<ops, puts, gets, spin, cur, done, err, call, res>>

PutTest(c) ==
    /\ pc[c] = "put_test"
    /\ Goto(c, IF seen[c] - gets >= QUEUE_MAX_SIZE THEN "put_load" ELSE "put_lock")
    /\ UNCHANGED <<ops, puts, gets, spin, seen, cur, done, err, call, res>>

PutLock(c) ==
    /\ pc[c] = "put_lock"
    /\ spin = NoOne
    /\ spin' = c
    /\ Goto(c, "put_retest")
    /\ UNCHANGED <<ops, puts, gets, seen, cur, done, err, call, res>>

\* The second test, under the lock; a full ring unlocks and starts again.
PutRetest(c) ==
    /\ pc[c] = "put_retest"
    /\ IF puts - gets >= QUEUE_MAX_SIZE
       THEN spin' = NoOne /\ Goto(c, "put_load")
       ELSE spin' = spin /\ Goto(c, "put_slot")
    /\ UNCHANGED <<ops, puts, gets, seen, cur, done, err, call, res>>

PutSlot(c) ==
    /\ pc[c] = "put_slot"
    /\ ops' = [ops EXCEPT ![puts % QUEUE_MAX_SIZE] = c]
    /\ Goto(c, "put_count")
    /\ UNCHANGED <<puts, gets, spin, seen, cur, done, err, call, res>>

PutCount(c) ==
    /\ pc[c] = "put_count"
    /\ puts' = puts + 1
    /\ Goto(c, "put_unlock")
    /\ UNCHANGED <<ops, gets, spin, seen, cur, done, err, call, res>>

PutUnlock(c) ==
    /\ pc[c] = "put_unlock"
    /\ spin' = NoOne
    /\ Goto(c, "wait")
    /\ UNCHANGED <<ops, puts, gets, seen, cur, done, err, call, res>>

\* The loop on op->done ends; execute returns op->err and the callback
\* returns to FUSE, which ends the life of the operation.
ExecuteReturn(c) ==
    /\ pc[c] = "wait"
    /\ done[c]
    /\ Goto(c, "idle")
    /\ UNCHANGED <<ops, puts, gets, spin, seen, cur, done, err, call, res>>

-----------------------------------------------------------------------------
(* get_op and send_result, on a thread of the Haskell runtime. *)

GetLoad(w) ==
    /\ pc[w] = "get_load"
    /\ seen' = [seen EXCEPT ![w] = puts]
    /\ Goto(w, "get_test")
    /\ UNCHANGED <<ops, puts, gets, spin, cur, done, err, call, res>>

\* Mutant: get_op overlooks a ring that holds a single operation.
GetTestOffByOne(w) ==
    /\ pc[w] = "get_test"
    /\ Goto(w, IF seen[w] <= gets + 1 THEN "get_load" ELSE "get_lock")
    /\ UNCHANGED <<ops, puts, gets, spin, seen, cur, done, err, call, res>>

GetTest(w) ==
    /\ pc[w] = "get_test"
    /\ Goto(w, IF seen[w] <= gets THEN "get_load" ELSE "get_lock")
    /\ UNCHANGED <<ops, puts, gets, spin, seen, cur, done, err, call, res>>

\* Mutant: get_op reads the ring without the lock.
GetLockSkipped(w) ==
    /\ pc[w] = "get_lock"
    /\ Goto(w, "get_retest")
    /\ UNCHANGED <<ops, puts, gets, spin, seen, cur, done, err, call, res>>

GetLock(w) ==
    /\ pc[w] = "get_lock"
    /\ spin = NoOne
    /\ spin' = w
    /\ Goto(w, "get_retest")
    /\ UNCHANGED <<ops, puts, gets, seen, cur, done, err, call, res>>

GetRetest(w) ==
    /\ pc[w] = "get_retest"
    /\ IF puts <= gets
       THEN spin' = NoOne /\ Goto(w, "get_load")
       ELSE spin' = spin /\ Goto(w, "get_slot")
    /\ UNCHANGED <<ops, puts, gets, seen, cur, done, err, call, res>>

GetSlot(w) ==
    /\ pc[w] = "get_slot"
    /\ cur' = [cur EXCEPT ![w] = ops[gets % QUEUE_MAX_SIZE]]
    /\ Goto(w, "get_count")
    /\ UNCHANGED <<ops, puts, gets, spin, seen, done, err, call, res>>

GetCount(w) ==
    /\ pc[w] = "get_count"
    /\ gets' = gets + 1
    /\ Goto(w, "get_unlock")
    /\ UNCHANGED <<ops, puts, spin, seen, cur, done, err, call, res>>

GetUnlock(w) ==
    /\ pc[w] = "get_unlock"
    /\ spin' = NoOne
    /\ Goto(w, "handle")
    /\ UNCHANGED <<ops, puts, gets, seen, cur, done, err, call, res>>

\* handleOpcode reads the arguments through the pointer and runs the call.
Handle(w) ==
    /\ pc[w] = "handle"
    /\ res' = [res EXCEPT ![w] = call[cur[w]]]
    /\ Goto(w, "send_err")
    /\ UNCHANGED <<ops, puts, gets, spin, seen, cur, done, err, call>>

\* Mutant: op->done is stored before op->err.
SendErrLate(w) ==
    /\ pc[w] = "send_err"
    /\ done' = [done EXCEPT ![cur[w]] = TRUE]
    /\ Goto(w, "send_done")
    /\ UNCHANGED <<ops, puts, gets, spin, seen, cur, err, call, res>>

SendErr(w) ==
    /\ pc[w] = "send_err"
    /\ err' = [err EXCEPT ![cur[w]] = res[w]]
    /\ Goto(w, "send_done")
    /\ UNCHANGED <<ops, puts, gets, spin, seen, cur, done, call, res>>

SendDone(w) ==
    /\ pc[w] = "send_done"
    /\ done' = [done EXCEPT ![cur[w]] = TRUE]
    /\ Goto(w, "get_load")
    /\ UNCHANGED <<ops, puts, gets, spin, seen, cur, err, call, res>>

-----------------------------------------------------------------------------
ClientStep(c) ==
    \/ PutLoad(c) \/ PutTest(c) \/ PutLock(c) \/ PutRetest(c)
    \/ PutSlot(c) \/ PutCount(c) \/ PutUnlock(c) \/ ExecuteReturn(c)

WorkerStep(w) ==
    \/ GetLoad(w) \/ GetTest(w) \/ GetLock(w) \/ GetRetest(w)
    \/ GetSlot(w) \/ GetCount(w) \/ GetUnlock(w)
    \/ Handle(w) \/ SendErr(w) \/ SendDone(w)

Next ==
    \/ \E c \in Client : ExecuteBegin(c) \/ ClientStep(c)
    \/ \E w \in Worker : WorkerStep(w)

Spec == Init /\ [][Next]_vars

\* Threads are scheduled by the kernel, so each of them keeps taking steps.
\* Nothing makes FUSE call again, and the spin lock itself promises no order.
FairSpec ==
    /\ Spec
    /\ \A c \in Client : WF_vars(ClientStep(c))
    /\ \A w \in Worker : WF_vars(WorkerStep(w))

-----------------------------------------------------------------------------
ClientPC == {"idle", "put_load", "put_test", "put_lock", "put_retest",
             "put_slot", "put_count", "put_unlock", "wait"}
WorkerPC == {"get_load", "get_test", "get_lock", "get_retest", "get_slot",
             "get_count", "get_unlock", "handle", "send_err", "send_done"}

\* Type invariant: counters are naturals, slots hold clients, every thread
\* is at a statement of its own function.
TypeOK ==
    /\ ops \in [Slot -> Client \cup {NoOne}]
    /\ puts \in Nat
    /\ gets \in Nat
    /\ spin \in Thread \cup {NoOne}
    /\ pc \in [Thread -> ClientPC \cup WorkerPC]
    /\ \A c \in Client : pc[c] \in ClientPC
    /\ \A w \in Worker : pc[w] \in WorkerPC
    /\ seen \in [Thread -> Nat]
    /\ cur \in [Worker -> Client \cup {NoOne}]
    /\ done \in [Client -> BOOLEAN]
    /\ err \in [Client -> Nat]
    /\ call \in [Client -> Nat]
    /\ res \in [Worker -> Nat]

HoldPC == {"get_unlock", "handle", "send_err", "send_done"}

\* Where an unanswered operation can be: in slots not yet taken, or with
\* workers that have taken it.
Queued(c) == {i \in gets .. puts - 1 : ops[i % QUEUE_MAX_SIZE] = c}
Holding(c) == {w \in Worker : cur[w] = c /\ pc[w] \in HoldPC}

\* The caller has published its operation and spins on op->done unanswered.
InFlight(c) == pc[c] \in {"put_unlock", "wait"} /\ ~done[c]

\* A worker reads and writes an operation only while the frame it lives in
\* exists: the caller of execute is still spinning on op->done (opqueue.c:43-75).
NoDanglingOperation ==
    \A w \in Worker : pc[w] \in HoldPC => cur[w] \in Client /\ InFlight(cur[w])

\* No operation is lost in the ring and none is delivered twice: one that is
\* in flight is in exactly one slot, or held by exactly one worker.
ExactlyOneHome ==
    \A c \in Client : InFlight(c) =>
        \/ Holding(c) = {} /\ \E i \in Queued(c) : Queued(c) = {i}
        \/ Queued(c) = {} /\ \E w \in Holding(c) : Holding(c) = {w}

\* execute returns the result of this very call and never the leftover of an
\* earlier one: once op->done is seen, op->err answers the current call.
AnswersOwnCall ==
    \A c \in Client : pc[c] = "wait" /\ done[c] => err[c] = call[c]

\* The ring never holds more than QUEUE_MAX_SIZE operations, whatever stale
\* counters the unlocked tests have seen.
RingBounded == gets <= puts /\ puts - gets <= QUEUE_MAX_SIZE

\* Every FUSE request that entered execute returns.
EveryCallReturns ==
    \A c \in Client : pc[c] # "idle" ~> pc[c] = "idle"

-----------------------------------------------------------------------------
(* The inductive invariant behind the safety properties. *)

LockPC == {"put_retest", "put_slot", "put_count", "put_unlock",
           "get_retest", "get_slot", "get_count", "get_unlock"}

\* The spin lock: exactly its holder is between lock and unlock.
LockInv == \A t \in Thread : pc[t] \in LockPC <=> spin = t

\* What the test under the lock has established still holds at the stores.
CheckInv ==
    /\ \A c \in Client :
        /\ pc[c] \in {"put_slot", "put_count"} => puts - gets < QUEUE_MAX_SIZE
        /\ pc[c] = "put_count" => ops[puts % QUEUE_MAX_SIZE] = c
    /\ \A w \in Worker :
        /\ pc[w] \in {"get_slot", "get_count"} => gets < puts
        /\ pc[w] = "get_count" => cur[w] = ops[gets % QUEUE_MAX_SIZE]

\* The live slots hold different operations that are in flight.
QueueInv ==
    /\ \A i \in gets .. puts - 1 :
        ops[i % QUEUE_MAX_SIZE] \in Client /\ InFlight(ops[i % QUEUE_MAX_SIZE])
    /\ \A i, j \in gets .. puts - 1 :
        ops[i % QUEUE_MAX_SIZE] = ops[j % QUEUE_MAX_SIZE] => i = j

\* The caller has left the lock and spins on op->done unanswered.
Waiting(c) == pc[c] = "wait" /\ ~done[c]

\* An operation a worker holds is in no live slot and with no other worker.
HoldInv ==
    \A w \in Worker : pc[w] \in HoldPC =>
        /\ cur[w] \in Client /\ Waiting(cur[w])
        /\ \A i \in gets .. puts - 1 : ops[i % QUEUE_MAX_SIZE] # cur[w]
        /\ \A v \in Worker : pc[v] \in HoldPC /\ cur[v] = cur[w] => v = w

\* An operation in flight is in a live slot or with a worker.
NotLost ==
    \A c \in Client : InFlight(c) =>
        \/ \E i \in gets .. puts - 1 : ops[i % QUEUE_MAX_SIZE] = c
        \/ \E w \in Worker : pc[w] \in HoldPC /\ cur[w] = c

\* op->done is clear until the operation is answered, and what a worker is
\* about to send answers the current call.
ResultInv ==
    /\ \A c \in Client : pc[c] \notin {"idle", "wait"} => ~done[c]
    /\ \A w \in Worker :
        /\ pc[w] \in {"send_err", "send_done"} => res[w] = call[cur[w]]
        /\ pc[w] = "send_done" => err[cur[w]] = call[cur[w]]

IInv ==
    /\ TypeOK /\ RingBounded /\ LockInv /\ CheckInv
    /\ QueueInv /\ HoldInv /\ NotLost /\ ResultInv /\ AnswersOwnCall
=============================================================================
