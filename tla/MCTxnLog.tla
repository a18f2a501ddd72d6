------------------------------ MODULE MCTxnLog ------------------------------
(* Instance of TxnLog for TLC: two blocks and a log of one entry, so that a   *)
(* transaction may be too large, and two that fit may not fit merged.  No     *)
(* action and no property tells two blocks or two values apart.               *)
EXTENDS TxnLog, TLC

Symmetry == Permutations(Addr) \cup Permutations(Val)
=============================================================================
