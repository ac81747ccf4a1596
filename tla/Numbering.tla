------------------------------ MODULE Numbering -----------------------------
(***************************************************************************)
(* How one object is numbered: the sweep derives a parent for every        *)
(* instance, the stated parents override it, a preorder walk of the forest *)
(* gives every instance an interval [enter, exit), one stride per event,   *)
(* and every reference becomes a point of the same order.  If the stated   *)
(* parents leave instances the walk cannot reach, the object is numbered   *)
(* again from the derived parents alone.                                   *)
(***************************************************************************)
EXTENDS Containment

CONSTANTS
    Objects,   \* the objects to number: records of insts, stated and refs
    Stride     \* dfsStride

ASSUME StrideAssumption == Stride \in Nat /\ Stride > 1

(* A declaration or a use ends where it starts or later: both offsets are  *)
(* positions of one syntax node, and AddSymbol cuts both off at the end of *)
(* the file.  What is stated is arbitrary.                                 *)
ASSUME ObjectAssumption ==
    \A o \in Objects :
        /\ o.insts \in Seq(Instance)
        /\ \A x \in DOMAIN o.insts : o.insts[x].start <= o.insts[x].end
        /\ o.refs \in Seq([start : Int, end : Int])
        /\ \A r \in DOMAIN o.refs : o.refs[r].start <= o.refs[r].end

VARIABLES
    obj,       \* the object
    parent,    \* the parents in use
    stage,     \* "derive", "walk", "done"
    fellBack,  \* the derived parents are used alone
    roots,     \* roots the walk has not entered
    stack,     \* instances the walk is inside, innermost last
    rest,      \* children of each instance the walk has not entered
    counter,   \* the last number given
    enter, exit, level,   \* DfsEnter, DfsExit, NestingLevel of each instance
    owner      \* the instance each reference is placed in

numberingVars == <<obj, parent, stage, fellBack, roots, stack, rest, counter,
          enter, exit, level, owner>>

Nodes == DOMAIN obj.insts
Zero  == [x \in Nodes |-> 0]
Numbered == {x \in Nodes : enter[x] # 0}

NumberingInit ==
    /\ obj \in Objects
    /\ parent = [x \in Nodes |-> NoParent]
    /\ stage = "derive"
    /\ fellBack = FALSE
    /\ roots = <<>>
    /\ stack = <<>>
    /\ rest = [x \in Nodes |-> <<>>]
    /\ counter = 0
    /\ enter = Zero /\ exit = Zero /\ level = Zero
    /\ owner = [r \in DOMAIN obj.refs |-> NoParent]

(* The forest of parent function p is about to be walked. *)
StartWalk(p) ==
    /\ parent' = p
    /\ roots' = Kids(obj.insts, p, NoParent)
    /\ rest' = [x \in Nodes |-> Kids(obj.insts, p, x)]
    /\ stack' = <<>>
    /\ counter' = 0
    /\ enter' = Zero /\ exit' = Zero /\ level' = Zero
    /\ stage' = "walk"

Derive ==
    /\ stage = "derive"
    /\ obj.insts # <<>>
    /\ StartWalk(Overridden(Derived(obj.insts), obj.stated))
    /\ UNCHANGED <<obj, fellBack, owner>>

(* An object with no instance is left alone. *)
NothingToNumber ==
    /\ stage = "derive"
    /\ obj.insts = <<>>
    /\ stage' = "done"
    /\ UNCHANGED <<obj, parent, fellBack, roots, stack, rest, counter, enter,
                   exit, level, owner>>

EnterNode(x, depth) ==
    /\ counter' = counter + Stride
    /\ enter' = [enter EXCEPT ![x] = counter']
    /\ level' = [level EXCEPT ![x] = depth]
    /\ stack' = Append(stack, x)

EnterRoot ==
    /\ stage = "walk"
    /\ stack = <<>>
    /\ roots # <<>>
    /\ EnterNode(Head(roots), 0)
    /\ roots' = Tail(roots)
    /\ UNCHANGED <<obj, parent, stage, fellBack, rest, exit, owner>>

(* Mutant: a child is given the number its parent was given last. *)
DescendSameNumber ==
    /\ stage = "walk"
    /\ stack # <<>>
    /\ LET p == Last(stack)
       IN  /\ rest[p] # <<>>
           /\ enter' = [enter EXCEPT ![Head(rest[p])] = counter]
           /\ level' = [level EXCEPT ![Head(rest[p])] = level[p] + 1]
           /\ stack' = Append(stack, Head(rest[p]))
           /\ rest' = [rest EXCEPT ![p] = Tail(@)]
    /\ UNCHANGED <<obj, parent, stage, fellBack, roots, counter, exit, owner>>

Descend ==
    /\ stage = "walk"
    /\ stack # <<>>
    /\ LET p == Last(stack)
       IN  /\ rest[p] # <<>>
           /\ EnterNode(Head(rest[p]), level[p] + 1)
           /\ rest' = [rest EXCEPT ![p] = Tail(@)]
    /\ UNCHANGED <<obj, parent, stage, fellBack, roots, exit, owner>>

(* Mutant: the exit takes no stride of its own. *)
AscendNoStride ==
    /\ stage = "walk"
    /\ stack # <<>>
    /\ rest[Last(stack)] = <<>>
    /\ exit' = [exit EXCEPT ![Last(stack)] = counter]
    /\ stack' = Front(stack)
    /\ UNCHANGED <<obj, parent, stage, fellBack, roots, rest, counter, enter,
                   level, owner>>

Ascend ==
    /\ stage = "walk"
    /\ stack # <<>>
    /\ rest[Last(stack)] = <<>>
    /\ counter' = counter + Stride
    /\ exit' = [exit EXCEPT ![Last(stack)] = counter']
    /\ stack' = Front(stack)
    /\ UNCHANGED <<obj, parent, stage, fellBack, roots, rest, enter, level, owner>>

WalkOver == stage = "walk" /\ stack = <<>> /\ roots = <<>>

(* Mutant: the second walk is taken only if the first reached nothing. *)
NeedsFallbackEmpty == Numbered = {} /\ DOMAIN obj.stated # {} /\ ~fellBack

NeedsFallback == Numbered # Nodes /\ DOMAIN obj.stated # {} /\ ~fellBack

(* Mutant: the second walk does not clear what the first one wrote. *)
FallbackNoReset ==
    /\ WalkOver
    /\ NeedsFallback
    /\ fellBack' = TRUE
    /\ LET p == Derived(obj.insts)
       IN  /\ parent' = p
           /\ roots' = SelectSeq(Kids(obj.insts, p, NoParent),
                                 LAMBDA x : enter[x] = 0)
           /\ rest' = [x \in Nodes |-> Kids(obj.insts, p, x)]
    /\ UNCHANGED <<obj, stage, stack, counter, enter, exit, level, owner>>

(* Something stated is not a tree: number again from the derived parents. *)
Fallback ==
    /\ WalkOver
    /\ NeedsFallback
    /\ fellBack' = TRUE
    /\ StartWalk(Derived(obj.insts))
    /\ UNCHANGED <<obj, owner>>

(* numberRefs: the first root in order takes what no instance covers. *)
PlaceRefs ==
    /\ WalkOver
    /\ ~NeedsFallback
    /\ LET first == Kids(obj.insts, parent, NoParent)
       IN  owner' = [r \in DOMAIN obj.refs |->
                        IF first = <<>> THEN NoParent
                        ELSE IF Owner(obj.insts, obj.refs[r]) = NoParent
                             THEN Head(first)
                             ELSE Owner(obj.insts, obj.refs[r])]
    /\ stage' = "done"
    /\ UNCHANGED <<obj, parent, fellBack, roots, stack, rest, counter, enter,
                   exit, level>>

Done ==
    /\ stage = "done"
    /\ UNCHANGED numberingVars

NumberingNext ==
    \/ Derive \/ NothingToNumber \/ EnterRoot \/ Descend \/ Ascend
    \/ Fallback \/ PlaceRefs \/ Done

NumberingSpec == NumberingInit /\ [][NumberingNext]_numberingVars

-----------------------------------------------------------------------------
(* Properties *)

(* y is inside x, by the numbers alone: how a reader of the index asks.    *)
Inside(y, x) == enter[x] < enter[y] /\ enter[y] < exit[x]

(* What numberObjectTree leaves in the index when it is through.           *)
Finished == stage = "done" /\ obj.insts # <<>>

(* At every moment of the walk, the intervals of two instances that have   *)
(* been left are nested or disjoint, and each is at least a stride wide.   *)
Laminar ==
    \A x, y \in Nodes :
        exit[x] # 0 /\ exit[y] # 0 /\ x # y =>
            /\ exit[x] - enter[x] >= Stride
            /\ enter[x] # enter[y]
            /\ enter[x] < enter[y] => exit[x] < enter[y] \/ exit[y] < exit[x]

(* No instance is shipped without an interval, whatever was stated: it     *)
(* would be invisible to every query.                                      *)
EveryInstanceNumbered ==
    Finished => \A x \in Nodes : enter[x] # 0 /\ exit[x] # 0

(* The instances above y. *)
Ancestors(y) == {Climb(parent, y, n) : n \in 1 .. Len(obj.insts)} \ {NoParent}

(* The numbers say exactly what the parents say that Parents states, the   *)
(* stated ones unless they close a cycle: y is inside x when x is an       *)
(* ancestor of y, and the nesting level is the number of ancestors.        *)
NumbersEncodeParents ==
    Finished =>
        /\ parent = Parents(obj.insts, obj.stated)
        /\ \A y \in Nodes :
              /\ {x \in Nodes : Inside(y, x)} = Ancestors(y)
              /\ level[y] = Cardinality(Ancestors(y))

(* Reference definition of containment by ranges: the parent of an         *)
(* instance that states none contains it, and no other container of it is  *)
(* inside that parent, even where declarations overlap partially; an       *)
(* instance without a parent has no container.                             *)
Containers(x) ==
    {c \in Nodes : c # x /\ ContainsInst(obj.insts[c], obj.insts[x])}
DerivedIsInnermost ==
    Finished =>
        LET I == obj.insts
        IN  \A x \in Nodes :
               (fellBack \/ x \notin DOMAIN obj.stated) =>
                  \/ parent[x] = NoParent /\ Containers(x) = {}
                  \/ /\ parent[x] \in Containers(x)
                     /\ \A c \in Containers(x) : ~ContainsInst(I[parent[x]], I[c])

(* A reference sits in an instance that covers it, in no narrower one that *)
(* covers it too, and at the root only when nothing covers it.             *)
RefInInnermost ==
    Finished =>
        LET I == obj.insts
        IN  \A r \in DOMAIN obj.refs :
                LET covering == {x \in Nodes : Covers(I[x], obj.refs[r])}
                IN  IF covering = {} THEN parent[owner[r]] = NoParent
                    ELSE /\ owner[r] \in covering
                         /\ \A x \in covering : ~ContainsInst(I[owner[r]], I[x])

(* TestAStatedParentMustPrecedeItsChild: AddSymbol makes a cycle           *)
(* unstatable, because a stated parent only ever points backwards; so the  *)
(* fallback is not reached.                                                *)
NeverFallsBack == ~fellBack
=============================================================================
