------------------------------ MODULE MCXv6Bio ------------------------------
(* Instance of Xv6Bio for TLC: one writer and one reader, as few buffers as   *)
(* SizeAssumption allows.                                                     *)
EXTENDS Xv6Bio, TLC

Symmetry == Permutations(Data) \cup Permutations(Val)
=============================================================================
