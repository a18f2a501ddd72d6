------------------------------ MODULE TreeSeq ------------------------------
(***************************************************************************)
(* What FSCQ promises its clients (TreeSeq.v): a sequence of trees, the    *)
(* first one durable.  A call on the tree adds a tree; tree_sync leaves    *)
(* only the newest one; a direct write changes one block of one file, in   *)
(* the newest trees that have it; a crash leaves one of the trees, with    *)
(* the data written and not yet synced in doubt.  Trees are made of files  *)
(* and directories only: no blocks, bitmaps or caches.                     *)
(***************************************************************************)
EXTENDS Integers, Sequences, AsyncDisk

CONSTANTS Root, BlockSize

VARIABLES
    ts,    \* the trees, oldest first: [file, dir], by inode number
    out    \* the call made last: <<call, open file, result, succeeded>>

tvars == <<ts, out>>

Newest(seq) == seq[Len(seq)]
Zero == [k \in 1 .. BlockSize |-> 0]
Without(f, i) == [j \in DOMAIN f \ {i} |-> f[j]]
With(f, i, v) == [j \in DOMAIN f \cup {i} |-> IF j = i THEN v ELSE f[j]]

\* The directory a path leads to.
At(t, path) ==
    IF path = <<>> THEN Root ELSE (CHOOSE e \in t.dir[Root] : e[1] = path[1])[2]
Named(t, d, n) == {e \in t.dir[d] : e[1] = n}

Resized(t, f, n) ==
    [t EXCEPT !.file[f].data =
        [k \in 1 .. n |-> IF k <= Len(@) THEN @[k] ELSE Synced(Zero)]]
SizeSet(t, f, sz) == [t EXCEPT !.file[f].sz = sz]

\* A block with cnt bytes from off on set to v.
Overwritten(c, off, cnt, v) ==
    [k \in 1 .. BlockSize |-> IF k - 1 \in off .. off + cnt - 1 THEN v ELSE c[k]]

Has(t, f, blk) == f \in DOMAIN t.file /\ blk < Len(t.file[f].data)
Content(t, f, blk) == t.file[f].data[blk + 1].cur
\* What a partial write may find around it: the bytes of the file, and past its
\* end what the block has there, or zeros.
Around(t, f, blk) ==
    {Content(t, f, blk),
     [k \in 1 .. BlockSize |-> IF blk * BlockSize + k > t.file[f].sz THEN 0 ELSE Content(t, f, blk)[k]]}
Logged(t, f, blk, c) == [t EXCEPT !.file[f].data[blk + 1] = Synced(c)]
Direct(t, f, blk, c) == [t EXCEPT !.file[f].data[blk + 1] = WriteTo(@, c)]

Linked(t, d, n, i, isdir) == [t EXCEPT !.dir[d] = @ \cup {<<n, i, isdir>>}]
Unlinked(t, d, n) == [t EXCEPT !.dir[d] = @ \ Named(t, d, n)]
Gone(t, i) == [file |-> Without(t.file, i), dir |-> Without(t.dir, i)]

Created(t, d, n, i, isdir) ==
    IF isdir THEN [Linked(t, d, n, i, TRUE) EXCEPT !.dir = With(@, i, {})]
    ELSE [Linked(t, d, n, i, FALSE) EXCEPT !.file = With(@, i, [sz |-> 0, data |-> <<>>])]
Deleted(t, d, n) == Gone(Unlinked(t, d, n), (CHOOSE e \in Named(t, d, n) : TRUE)[2])
Renamed(t, e, d, n) ==
    Linked(IF Named(t, d, n) = {} THEN t ELSE Deleted(t, d, n), d, n, e[2], e[3])
RenamedFrom(t, sd, sn, dpath, dn) ==
    Renamed(Unlinked(t, sd, sn), CHOOSE e \in Named(t, sd, sn) : TRUE,
            At(Unlinked(t, sd, sn), dpath), dn)

-----------------------------------------------------------------------------
\* The tree a successful call adds.
Fresh(t, i) == i \notin DOMAIN t.file \cup DOMAIN t.dir
Effect(t, c, f, v) ==
    CASE c[1] = "truncate" -> Resized(t, f, c[2])
      [] c[1] = "set_sz" -> SizeSet(t, f, c[2])
      [] c[1] = "copy_attr" -> SizeSet(t, f, t.file[c[2]].sz)
      [] c[1] \in {"create", "mkdir", "mksock"} -> Created(t, At(t, c[2]), c[3], v, c[1] = "mkdir")
      [] c[1] = "delete" -> Deleted(t, At(t, c[2]), c[3])
      [] c[1] = "rename" -> RenamedFrom(t, At(t, c[2]), c[3], c[4], c[5])

Adds == {"truncate", "set_sz", "copy_attr", "create", "mkdir", "mksock", "delete", "rename"}

Committed(old, new, o) ==
    /\ o[1][1] \in Adds /\ o[4]
    /\ o[1][1] \in {"create", "mkdir", "mksock"} => Fresh(Newest(old), o[3])
    /\ new = Append(old, Effect(Newest(old), o[1], o[2], o[3]))

LoggedWrite(old, new, c, f) ==
    /\ c[1] = "wlog" /\ Has(Newest(old), f, c[2])
    /\ \E x \in Around(Newest(old), f, c[2]) :
        new = Append(old, Logged(Newest(old), f, c[2], Overwritten(x, c[3], c[4], c[5])))

Nothing(old, new, o) ==
    /\ o[1][1] \in {"write", "open"} \/ (o[1][1] \in Adds /\ ~o[4])
    /\ new = old

\* The write happens in all trees from some tree on; those before have
\* another file, or none, in the place.  It may take a flush.
DirectFrom(old, new, f, blk, c) ==
    \E j \in 1 .. Len(old) :
        new = [k \in DOMAIN old |-> IF k >= j THEN Direct(old[k], f, blk, c) ELSE old[k]]
DirectWrite(old, new, f, blk, c) ==
    DirectFrom(old, new, f, blk, c) \/ DirectFrom(<<Newest(old)>>, new, f, blk, c)

\* A write to a block the file lacks is lost; a crash in the middle of an open
\* with O_TRUNC leaves such a file, with a size and no blocks.
Dwrite(old, new, c, f) ==
    \/ /\ c[1] = "wdir" /\ Has(Newest(old), f, c[2])
       /\ \E x \in Around(Newest(old), f, c[2]) :
            DirectWrite(old, new, f, c[2], Overwritten(x, c[3], c[4], c[5]))
    \/ c[1] = "wdir" /\ ~Has(Newest(old), f, c[2]) /\ new = old
    \/ c[1] = "copy_block" /\ DirectWrite(old, new, f, 0, Content(Newest(old), c[2], 0))

\* What file_sync leaves in a file: every block as it is or synced.
MaybeSynced(x, y) ==
    /\ x.sz = y.sz /\ Len(x.data) = Len(y.data)
    /\ \A k \in DOMAIN x.data : y.data[k] \in {x.data[k], sync_addr(x.data[k])}

FileSync(old, new, c, f) ==
    /\ c[1] = "file_sync"
    /\ DOMAIN new = DOMAIN old
    /\ \A k \in DOMAIN old :
        /\ new[k].dir = old[k].dir
        /\ DOMAIN new[k].file = DOMAIN old[k].file
        /\ \A i \in DOMAIN old[k].file :
            IF i = f THEN MaybeSynced(old[k].file[i], new[k].file[i])
                     ELSE new[k].file[i] = old[k].file[i]
    /\ \A b \in DOMAIN Newest(new).file[f].data : Newest(new).file[f].data[b].old = {}

TreeSync(old, new, c) == c[1] = "tree_sync" /\ new = <<Newest(old)>>

\* One tree, in which every block has its newest value, or if unflushed writes
\* may be lost, one it may have.
Survives(x, y, lossy) ==
    /\ y.dir = x.dir
    /\ DOMAIN y.file = DOMAIN x.file
    /\ \A i \in DOMAIN x.file :
        /\ y.file[i].sz = x.file[i].sz
        /\ DOMAIN y.file[i].data = DOMAIN x.file[i].data
        /\ \A k \in DOMAIN x.file[i].data :
            LET b == x.file[i].data[k] IN
            /\ y.file[i].data[k].old = {}
            /\ y.file[i].data[k].cur \in IF lossy THEN vsmerge(b) ELSE {b.cur}

Crash(old, new, c) ==
    /\ c[1] = "crash" /\ Len(new) = 1
    /\ \E k \in DOMAIN old : Survives(old[k], new[1], TRUE)
Umount(old, new, c) ==
    /\ c[1] = "umount" /\ Len(new) = 1
    /\ Survives(Newest(old), new[1], FALSE)

\* p is the call of this step, o the one before: a step that makes no call
\* changes nothing.
Steps(old, new, o, p) ==
    \/ new = old /\ p = o
    \/ /\ p # <<>>
       /\ \/ Committed(old, new, p) \/ LoggedWrite(old, new, p[1], p[2]) \/ Nothing(old, new, p)
          \/ Dwrite(old, new, p[1], p[2]) \/ FileSync(old, new, p[1], p[2])
          \/ TreeSync(old, new, p[1]) \/ Crash(old, new, p[1]) \/ Umount(old, new, p[1])

TInit == Len(ts) = 1 /\ out = <<>>
TNext == Steps(ts, ts', out, out')
TSpec == TInit /\ [][TNext]_tvars
=============================================================================
