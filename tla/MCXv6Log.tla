------------------------------ MODULE MCXv6Log ------------------------------
(* Instance of Xv6Log for TLC: two calls of two blocks each, on three blocks, *)
(* so that a transaction can have the blocks of both and absorb one of them.  *)
EXTENDS Xv6Log
=============================================================================
