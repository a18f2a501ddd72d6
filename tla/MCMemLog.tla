------------------------------ MODULE MCMemLog ------------------------------
(* Instance of MemLog for TLC: three blocks and a log of two entries, so that *)
(* a flush may fit, need an apply first, or never fit.  No action and no      *)
(* property tells two blocks or two values apart.                             *)
EXTENDS MemLog, TLC

Symmetry == Permutations(Addr) \cup Permutations(Val)
=============================================================================
