----------------------------- MODULE MCXv6File -----------------------------
(* Small instances of Xv6File. *)
EXTENDS Xv6File

\* One empty host file, whose entry leaves room in the root's block for that of
\* a file created later; and two, whose entries fill it with "." and "..".
Images == {<<0>>, <<3, 0>>}
BigImages == {<<0>>}

\* ret is written and never read, and balloc zeroes a block it hands out: states
\* that differ in ret, or in what is left in free blocks, behave alike.  The last
\* element has TLC evaluate all of a state before it is stored.
Used(d) == [d EXCEPT !.blk = [b \in d.bitmap |-> d.blk[b]]]
View ==
    <<Used([bitmap |-> bitmap, blk |-> blk, dinode |-> dinode]), Used(disk),
      mem, beyond, panic, logged, cur, vars = vars>>
=============================================================================
