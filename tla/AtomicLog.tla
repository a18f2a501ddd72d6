----------------------------- MODULE AtomicLog -----------------------------
(***************************************************************************)
(* What the on-disk log promises to the layers above it (the DLog          *)
(* specifications at the end of DiskLogHash.v): appending a list and       *)
(* emptying the log are atomic with respect to a crash, and complete once  *)
(* the operation has returned.                                             *)
(***************************************************************************)
EXTENDS Integers, Sequences

CONSTANTS NewLog   \* the lists of entries that may be appended

VARIABLES
    log,   \* the entries that are on disk, or will be after recovery
    pend,  \* what log becomes if the operation under way completes
    busy,  \* an operation is under way
    up     \* the system runs; FALSE from a crash until recovery ends

lvars == <<log, pend, busy, up>>

LInit == log = <<>> /\ pend = <<>> /\ busy = FALSE /\ up = TRUE

LExtend(new) ==
    /\ up /\ ~busy
    /\ pend' = log \o new /\ busy' = TRUE
    /\ UNCHANGED <<log, up>>

LTrunc ==
    /\ up /\ ~busy
    /\ pend' = <<>> /\ busy' = TRUE
    /\ UNCHANGED <<log, up>>

LReturn ==
    /\ busy
    /\ log' = pend /\ busy' = FALSE
    /\ UNCHANGED <<pend, up>>

\* A crash settles the operation one way or the other; a crash during
\* recovery changes nothing.
LCrash ==
    /\ log' \in {log, pend} /\ pend' = log'
    /\ busy' = FALSE /\ up' = FALSE

LRecover ==
    /\ ~up /\ up' = TRUE
    /\ UNCHANGED <<log, pend, busy>>

LNext ==
    \/ \E new \in NewLog : LExtend(new)
    \/ LTrunc \/ LReturn \/ LCrash \/ LRecover

LSpec == LInit /\ [][LNext]_lvars
=============================================================================
