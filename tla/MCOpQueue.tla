----------------------------- MODULE MCOpQueue -----------------------------
(* Instance of OpQueue for TLC: two FUSE threads, two handler threads and a  *)
(* ring of one slot, so that both the full and the empty ring are contended. *)
EXTENDS OpQueue
=============================================================================
