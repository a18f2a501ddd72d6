------------------------------ MODULE MCXv6Sys ------------------------------
(* Small instances of Xv6Sys: two names, directories of depth one. *)
EXTENDS Xv6Sys

Paths == {<<>>, <<"a">>, <<"b">>, <<"a", "b">>}

\* ret is written and never read: states that differ in it behave alike.
View == <<dinode, disk, icache, ftable, outstanding, panic, lost>>
=============================================================================
