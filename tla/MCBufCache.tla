---------------------------- MODULE MCBufCache ----------------------------
(* Instance of BufCache for TLC.  Three blocks, one of them the block 0 that *)
(* eviction_choose prefers, and a cache that holds two.                      *)
EXTENDS BufCache
=============================================================================
