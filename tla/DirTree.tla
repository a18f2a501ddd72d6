------------------------------ MODULE DirTree ------------------------------
(***************************************************************************)
(* Directories and the tree of FSCQ (Dir.v, DirName.v, DirCache.v,         *)
(* DirTree.v), as functions on the record of a running transaction (see    *)
(* BFile).  A directory is a file of entries <<name, inum, isdir>>; a      *)
(* block with anything else (zeros, dent0) is a free entry.  There is one  *)
(* entry per block, which makes every link extend the directory or reuse a *)
(* free entry, the two cases of the code.                                  *)
(***************************************************************************)
EXTENDS BFile

CONSTANTS
    LongName   \* a name that does not fit an entry (is_valid_sname)

\* An entry is told from the other contents of a block by its length.
ASSUME EntryAssumption == BlockSize # 3

Root == 1

IsEntry(v) == Len(v) = 3
Ents(s, d) == [k \in 1 .. Irec(s, d).len |-> s.d.data[getallbnum(s, d)[k]].cur]
\* readdir
EntrySet(ents) == {v \in Range(ents) : IsEntry(v)}

\* init_cache: name -> <<inum, isdir>>, and a hint where a free entry may be.
fill_cache(es) ==
    [m |-> [n \in {e[1] : e \in es} |-> LET e == CHOOSE e \in es : e[1] = n IN <<e[2], e[3]>>],
     hint |-> 0]

\* get_dcache
DGet(s, d) ==
    IF d \in DOMAIN s.m.dcache THEN s
    ELSE [IGet(s, d) EXCEPT
            !.m.dcache = [j \in DOMAIN @ \cup {d} |->
                            IF j = d THEN fill_cache(EntrySet(Ents(s, d))) ELSE @[j]]]

\* DirCache.lookup on a state whose cache of d is filled: <<>> if absent.
Found(s, d, n) ==
    IF n \in DOMAIN s.m.dcache[d].m THEN s.m.dcache[d].m[n] ELSE <<>>

CachePut(s, d, m, hint) == [s EXCEPT !.m.dcache[d] = [m |-> m, hint |-> hint]]

\* Dent.put at entry ix (from 0), through the log.
DentPut(s, d, ix, v) == BWrite(s, d, ix, v)

Without(m, n) == [k \in DOMAIN m \ {n} |-> m[k]]
With(m, n, v) == [k \in DOMAIN m \cup {n} |-> IF k = n THEN v ELSE m[k]]

\* Where a name is, and where there is room.
Named(ents, n) == {k \in DOMAIN ents : IsEntry(ents[k]) /\ ents[k][1] = n}
Vacant(ents) == {k \in DOMAIN ents : ~IsEntry(ents[k])}

\* Mutant: the name stays in the cache.
UnlinkKeepsName(s, d, n) ==
    LET ix == Min(Named(Ents(s, d), n)) - 1
    IN  CachePut(DentPut(s, d, ix, Zero), d, s.m.dcache[d].m, ix)

\* DirCache.unlink of a name that is cached: the directory is searched for it.
UnlinkAt(s, d, at) ==
    IF at = {} THEN [IGet(s, d) EXCEPT !.err = "ENOENT", !.v = 0]
    ELSE [DentPut(s, d, Min(at) - 1, Zero) EXCEPT !.v = Min(at) - 1]
UnlinkIn(s, d, m) == CachePut(s, d, m, s.v)
UnlinkFound(s, d, n) ==
    UnlinkIn(UnlinkAt(s, d, Named(Ents(s, d), n)), d, Without(s.m.dcache[d].m, n))

\* Where Dir.link puts an entry: the hinted slot if it is free, else the first
\* free one; -1 if the directory has to grow.
LinkSlot(ents, hint) ==
    IF hint < Len(ents) /\ ~IsEntry(ents[hint + 1]) THEN hint
    ELSE IF Vacant(ents) = {} THEN -1 ELSE Min(Vacant(ents)) - 1

\* DirCache.link' over SDIR.link, the cache of d being filled.
LinkAt(s, d, n, i, isdir, ix) ==
    IF ix >= 0
    THEN CachePut(DentPut(s, d, ix, <<n, i, isdir>>), d, With(s.m.dcache[d].m, n, <<i, isdir>>), ix + 1)
    ELSE LET t == Grow(s, d, <<n, i, isdir>>)
         IN  IF t.err # "OK" THEN t
             ELSE CachePut(t, d, With(s.m.dcache[d].m, n, <<i, isdir>>), 0)

\* DirCache.link
LinkIn(s, d, n, i, isdir) ==
    IF Found(s, d, n) # <<>> THEN [s EXCEPT !.err = "EEXIST"]
    ELSE IF n = LongName THEN [s EXCEPT !.err = "ENAMETOOLONG"]
    ELSE LinkAt(IGet(s, d), d, n, i, isdir, LinkSlot(Ents(s, d), s.m.dcache[d].hint))
Link(s, d, n, i, isdir) == LinkIn(DGet(s, d), d, n, i, isdir)

-----------------------------------------------------------------------------
(* DIRTREE *)

\* namei for the paths used here, the root and one name below it.  v is
\* <<inum, isdir>>.
NameiStep(s, n) ==
    LET r == Found(s, Root, n)
    IN  IF r = <<>> THEN [s EXCEPT !.err = "ENOENT"] ELSE [s EXCEPT !.v = r]
namei(s, path) ==
    IF path = <<>> THEN [s EXCEPT !.v = <<Root, TRUE>>] ELSE NameiStep(DGet(s, Root), path[1])

\* namei for a path that has to be a directory (the callers check isdir).
nameiDir(s, path) ==
    LET t == namei(s, path)
    IN  IF t.err = "OK" /\ ~t.v[2] THEN [t EXCEPT !.err = "ENOTDIR"] ELSE t

\* mkfile and mkdir: the inode is allocated first.
MkIn(s, d, n, isdir) ==
    IF s.v = 0 THEN [s EXCEPT !.err = "ENOSPCINODE"]
    ELSE LET i == s.v IN [Link(s, d, n, i, isdir) EXCEPT !.v = i]
Mk(s, d, n, isdir) == MkIn(IAlloc(s), d, n, isdir)

\* delete, with what lookup found.  A directory must be empty on disk.
DeleteUnlinked(s, i) == IF s.err # "OK" THEN s ELSE IFree(Reset(s, i), i)
DeleteFound(s, d, n, r) ==
    IF r = <<>> THEN [s EXCEPT !.err = "ENOENT"]
    ELSE IF r[2] /\ EntrySet(Ents(s, r[1])) # {}
    THEN [IGet(s, r[1]) EXCEPT !.err = "ENOTEMPTY"]
    ELSE DeleteUnlinked(UnlinkFound(s, d, n), r[1])
DeleteIn(s, d, n) == DeleteFound(s, d, n, Found(s, d, n))
Delete(s, d, n) == DeleteIn(DGet(s, d), d, n)

\* The end of rename: whatever has the name is deleted, then r is linked.
LinkUnlessErr(s, d, n, r) == IF s.err = "OK" THEN Link(s, d, n, r[1], r[2]) ELSE s
RenameInto(s, d, n, r) ==
    LinkUnlessErr(IF Found(s, d, n) = <<>> THEN s ELSE DeleteIn(s, d, n), d, n, r)
RenameTo(s, n, r) == IF s.err # "OK" THEN s ELSE RenameInto(DGet(s, s.v[1]), s.v[1], n, r)

\* Mutant: the destination is looked up before the source is unlinked.
RenameLooksUpFirst(s, sd, sn, dpath, dn) ==
    IF Found(s, sd, sn) = <<>> THEN [s EXCEPT !.err = "ENOENT"]
    ELSE LET t == nameiDir(s, dpath)
         IN  IF t.err # "OK" THEN t
             ELSE RenameTo([UnlinkFound(t, sd, sn) EXCEPT !.v = t.v], dn, Found(s, sd, sn))

\* rename, the source directory found: the source is unlinked, whatever unlink
\* returns, and only then is the destination directory looked up.
RenameFrom(s, sd, sn, dpath, dn) ==
    IF Found(s, sd, sn) = <<>> THEN [s EXCEPT !.err = "ENOENT"]
    ELSE RenameTo(nameiDir([UnlinkFound(s, sd, sn) EXCEPT !.err = "OK"], dpath), dn, Found(s, sd, sn))
RenameIn(s, sn, dpath, dn) ==
    IF s.err # "OK" THEN s ELSE RenameFrom(DGet(s, s.v[1]), s.v[1], sn, dpath, dn)
Rename(s, spath, sn, dpath, dn) == RenameIn(nameiDir(s, spath), sn, dpath, dn)
=============================================================================
