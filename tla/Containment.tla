---------------------------- MODULE Containment -----------------------------
(***************************************************************************)
(* Which instance of an object contains which, from the instances' byte    *)
(* ranges and kinds.  An instance is a record of start, end and rank; a    *)
(* reference is a record of start and end; an object's instances are a     *)
(* sequence, and an instance is named by its index in it.                  *)
(***************************************************************************)
EXTENDS Integers, SequencesExt, TLC

(* Instances with one range nest module, directory, file, anything else. *)
RankModule == 0
RankDirectory == 1
RankFile == 2
RankOther == 3

Instance == [start : Int, end : Int, rank : Int]

SameRange(c, x) == c.start = x.start /\ c.end = x.end

Covers(c, x) == c.start <= x.start /\ x.end <= c.end

ContainsInst(c, x) ==
    /\ Covers(c, x)
    /\ SameRange(c, x) => c.rank < x.rank

(* Mutant: equal ranges contain each other whatever their kinds. *)
ContainsInstLoose(c, x) == Covers(c, x)

(* Mutant: the narrower of two instances with one start comes first. *)
BeforeNarrow(insts, i, j) ==
    LET a == insts[i]
        b == insts[j]
    IN  \/ a.start < b.start
        \/ a.start = b.start /\ a.end < b.end
        \/ SameRange(a, b) /\ a.rank < b.rank
        \/ SameRange(a, b) /\ a.rank = b.rank /\ i < j

(* The stable sort: start ascending, end descending, rank, then position. *)
Before(insts, i, j) ==
    LET a == insts[i]
        b == insts[j]
    IN  \/ a.start < b.start
        \/ a.start = b.start /\ a.end > b.end
        \/ SameRange(a, b) /\ a.rank < b.rank
        \/ SameRange(a, b) /\ a.rank = b.rank /\ i < j

(* The instances of S in that order. *)
Sorted(insts, S) ==
    [k \in 1 .. Cardinality(S) |->
        CHOOSE x \in S : Cardinality({y \in S : Before(insts, y, x)}) = k - 1]

(* All of them (SubSeq, so that TLC sorts once and keeps the result). *)
Order(insts) == SubSeq(Sorted(insts, DOMAIN insts), 1, Len(insts))

(* The sweep's stack once it has made room for instance x: the part below  *)
(* and including the topmost instance that contains x.                     *)
Unwind(insts, stack, x) ==
    SubSeq(stack, 1, SelectLastInSeq(stack, LAMBDA p : ContainsInst(insts[p], insts[x])))

(* The stack after the sweep has pushed the first k instances of order. *)
SweepStacks(insts, order) ==
    LET stack[k \in 0 .. Len(order)] ==
            IF k = 0 THEN <<>>
            ELSE Append(Unwind(insts, stack[k - 1], order[k]), order[k])
    IN  stack

NoParent == 0

(* The parent the sweep derives for each instance, or NoParent. *)
Derived(insts) ==
    LET order == Order(insts)
        stacks == SweepStacks(insts, order)
        Above(k) == Unwind(insts, stacks[k - 1], order[k])
        At(x) == CHOOSE k \in DOMAIN order : order[k] = x
    IN  [x \in DOMAIN insts |->
            IF Above(At(x)) = <<>> THEN NoParent ELSE Last(Above(At(x)))]

(* A stated parent wins over the derived one. *)
Overridden(derived, stated) ==
    [x \in DOMAIN derived |->
        IF x \in DOMAIN stated /\ stated[x] # x /\ stated[x] \in DOMAIN derived
        THEN stated[x] ELSE derived[x]]

(* Climbing n steps from x along parent. *)
Climb(parent, x, n) ==
    LET up[k \in Nat] == IF k = 0 THEN x
                         ELSE IF up[k - 1] = NoParent THEN NoParent ELSE parent[up[k - 1]]
    IN  up[n]

IsForest(parent) ==
    \A x \in DOMAIN parent : Climb(parent, x, Cardinality(DOMAIN parent)) = NoParent

(* The parents an object is numbered by: what was stated over the derived  *)
(* ones, or the derived ones alone when that is not a forest.              *)
Parents(insts, stated) ==
    LET p == Overridden(Derived(insts), stated)
    IN  IF IsForest(p) THEN p ELSE Derived(insts)

(* Children and roots of a parent function, outermost first. *)
Kids(insts, parent, p) == Sorted(insts, {x \in DOMAIN parent : parent[x] = p})

(* Mutant: a reference is placed before the instance it starts with. *)
OwnerEager(insts, ref) ==
    LET order == Order(insts)
        later == {k \in 2..Len(order) : insts[order[k]].start >= ref.start}
        upTo  == IF later = {} THEN Len(order)
                 ELSE (CHOOSE k \in later : \A l \in later : k <= l) - 1
        stack == SweepStacks(insts, order)[upTo]
        top   == SelectLastInSeq(stack, LAMBDA p : Covers(insts[p], ref))
    IN  IF top = 0 THEN NoParent ELSE stack[top]

(* The owner of a reference: the topmost instance on the sweep's stack that *)
(* covers it, when the sweep reaches the first instance that starts after   *)
(* it (the very first instance does not count, the stack being empty).      *)
Owner(insts, ref) ==
    LET order == Order(insts)
        later == {k \in 2..Len(order) : insts[order[k]].start > ref.start}
        upTo  == IF later = {} THEN Len(order)
                 ELSE (CHOOSE k \in later : \A l \in later : k <= l) - 1
        stack == SweepStacks(insts, order)[upTo]
        top   == SelectLastInSeq(stack, LAMBDA p : Covers(insts[p], ref))
    IN  IF top = 0 THEN NoParent ELSE stack[top]
=============================================================================
