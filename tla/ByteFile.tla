------------------------------ MODULE ByteFile ------------------------------
(***************************************************************************)
(* What the xv6 calls promise about the content of files: each file is a   *)
(* sequence of bytes.  A write is a zero fill up to its offset, if that    *)
(* lies behind the end, and then pieces of at most MaxWrite bytes; each is *)
(* atomic and durable when it is done, and a crash keeps the pieces done.  *)
(* cur is the write in progress, ret the last call that answered.          *)
(***************************************************************************)
EXTENDS Integers, Sequences

CONSTANTS Inum, MaxWrite, MaxLen

VARIABLES content, cur, ret
bvars == <<content, cur, ret>>

Least(a, b) == IF a < b THEN a ELSE b
Zero(n) == [c \in 1 .. n |-> 0]

\* The bytes of s with n bytes from offset off replaced by v.
Overwrite(s, off, n, v) ==
    [c \in 1 .. (IF off + n > Len(s) THEN off + n ELSE Len(s)) |->
       IF c - 1 \in off .. off + n - 1 THEN v ELSE s[c]]

\* Any content: mkfs has put files into the image.
BInit ==
    /\ DOMAIN content = Inum
    /\ cur = <<>> /\ ret = <<"mount">>

\* A write of n bytes v at off of file i has begun, d of them are done.
BBegin ==
    /\ cur = <<>> /\ cur' # <<>> /\ cur'.done = 0
    /\ UNCHANGED <<content, ret>>

BFill ==
    /\ cur # <<>> /\ cur.off > Len(content[cur.i]) /\ cur.done = 0
    /\ content' = [content EXCEPT ![cur.i] = @ \o Zero(cur.off - Len(@))]
    /\ UNCHANGED <<cur, ret>>

BPiece ==
    /\ cur # <<>> /\ cur.done < cur.n
    /\ LET m == Least(cur.n - cur.done, MaxWrite)
       IN  /\ cur.off <= Len(content[cur.i]) /\ cur.off + m <= MaxLen
           /\ content' = [content EXCEPT ![cur.i] = Overwrite(@, cur.off, m, cur.v)]
           /\ cur' = [cur EXCEPT !.off = @ + m, !.done = @ + m]
           /\ ret' = ret

BReturn ==
    /\ cur # <<>> /\ cur' = <<>> /\ UNCHANGED content
    /\ \/ cur.done = cur.n /\ ret' = <<"write", cur.i, cur.n>>
       \/ /\ cur.done < cur.n /\ ret' = <<"write", cur.i, -1>>
          /\ cur.off + Least(cur.n - cur.done, MaxWrite) > MaxLen

\* What a read of n bytes at off of file i answers: the bytes there are from the
\* offset on.
Answer(i, off, n) ==
    IF off > Len(content[i]) THEN <<-1>>
    ELSE SubSeq(content[i], off + 1, Least(off + n, Len(content[i])))

BRead ==
    /\ cur = <<>> /\ UNCHANGED <<content, cur>>
    /\ ret'[1] = "read" /\ ret'[5] = Answer(ret'[2], ret'[3], ret'[4])

BTruncate ==
    /\ cur = <<>> /\ UNCHANGED cur
    /\ \E i \in Inum : /\ content' = [content EXCEPT ![i] = <<>>]
                       /\ ret' = <<"truncate", i>>

\* The process stopped, or was started again.
BStop ==
    /\ cur' = <<>> /\ ret' \in {<<"panic">>, <<"mount">>, <<"readdir">>}
    /\ UNCHANGED content

BNext == BBegin \/ BFill \/ BPiece \/ BReturn \/ BRead \/ BTruncate \/ BStop

BSpec == BInit /\ [][BNext]_bvars
=============================================================================
