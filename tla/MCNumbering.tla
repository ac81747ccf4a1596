----------------------------- MODULE MCNumbering ----------------------------
(***************************************************************************)
(* Small objects for Numbering: a FILE instance over the whole file of     *)
(* Limit bytes, as AddFile makes first, then up to MaxInsts - 1            *)
(* declarations (empty ranges only in the smaller objects), or one         *)
(* declaration and a MODULE and a DIRECTORY instance.  Stated parents      *)
(* point backwards, as AddSymbol requires.                                 *)
(***************************************************************************)
EXTENDS Numbering

CONSTANTS Limit, MaxInsts

Ranges == {[start |-> s, end |-> e] : s \in 0..Limit, e \in 0..Limit}
Proper == {r \in Ranges : r.start <= r.end}

FileInst == [start |-> 0, end |-> Limit, rank |-> RankFile]
Decls(R) == {[start |-> r.start, end |-> r.end, rank |-> RankOther] : r \in R}
Nonempty == {r \in Proper : r.start < r.end}
Wide(rank) == [start |-> 0, end |-> Limit, rank |-> rank]

InstSeqs ==
    {<<FileInst>> \o s : s \in BoundedSeq(Decls(Proper), MaxInsts - 2)
                              \cup BoundedSeq(Decls(Nonempty), MaxInsts - 1)}
    \cup {<<FileInst, d, Wide(RankModule), Wide(RankDirectory)>> : d \in Decls(Proper)}
    \cup {<<>>}

Backwards(insts) ==
    {s \in UNION {[D -> 1..Len(insts)] : D \in SUBSET (2..Len(insts))} :
        \A x \in DOMAIN s : s[x] < x /\ insts[x].rank = RankOther}

(* Where a reference is placed depends on the stated parents only through  *)
(* the first root, so the largest objects have one or the other.           *)
AllRefs == {<<r>> : r \in Proper} \cup {<<[start |-> Limit, end |-> Limit + 1]>>, <<>>}
Refs(insts, stated) ==
    IF Len(insts) < MaxInsts \/ DOMAIN stated = {} THEN AllRefs ELSE {<<>>}

MCObjects ==
    UNION {{o \in [insts : {i}, stated : Backwards(i), refs : AllRefs] : o.refs \in Refs(i, o.stated)}
           : i \in InstSeqs}
=============================================================================
