-------------------------- MODULE NumberingProofs ---------------------------
(***************************************************************************)
(* Proofs about the numbering of one object.  The invariant speaks of the  *)
(* instances whose interval is open at the number an instance was entered  *)
(* with: they are the walk's stack when it is entered, they never change   *)
(* afterwards, and they are its ancestors.  What is not entered waits      *)
(* under its parent, so a walk that is over has left out only instances    *)
(* that have all their parents among themselves; a forest has none.        *)
(***************************************************************************)
EXTENDS Numbering, Lemmas

-----------------------------------------------------------------------------
(* The inductive invariant *)

(* The instances whose interval is open at the number y was entered with.  *)
Around ==
    [y \in Nodes |->
        {x \in Nodes : enter[x] # 0 /\ enter[x] < enter[y] /\ (exit[x] # 0 => enter[y] < exit[x])}]

(* The derived parents, and what the stated ones make of them.             *)
Derivation == Derived(obj.insts)
Preferred  == Overridden(Derivation, obj.stated)

(* The type of each variable.                                              *)
TypeOK ==
    /\ obj \in Objects
    /\ parent \in [Nodes -> Nodes \cup {NoParent}]
    /\ stage \in {"derive", "walk", "done"}
    /\ fellBack \in BOOLEAN
    /\ roots \in Seq(Nodes)
    /\ stack \in Seq(Nodes)
    /\ rest \in [Nodes -> Seq(Nodes)]
    /\ counter \in Nat
    /\ enter \in [Nodes -> Nat] /\ exit \in [Nodes -> Nat] /\ level \in [Nodes -> Nat]

(* Every number given so far is given once and is at most the counter, and *)
(* an interval that is closed is at least a stride wide.                   *)
NumbersOK ==
    /\ \A x \in Nodes : enter[x] <= counter /\ exit[x] <= counter
    /\ \A x \in Nodes : exit[x] # 0 => enter[x] # 0 /\ exit[x] - enter[x] >= Stride
    /\ \A x, y \in Nodes : enter[x] # 0 /\ enter[x] = enter[y] => x = y
    /\ \A x, y \in Nodes : exit[x] # 0 => exit[x] # enter[y]

(* The instances on the stack are those whose interval is open, and an     *)
(* instance on it was entered inside exactly the ones below it.            *)
StackOK ==
    /\ \A i \in 1 .. Len(stack) : enter[stack[i]] # 0 /\ exit[stack[i]] = 0
    /\ \A x \in Nodes : enter[x] # 0 /\ exit[x] = 0 => \E i \in 1 .. Len(stack) : stack[i] = x
    /\ \A i \in 1 .. Len(stack) : Around[stack[i]] = {stack[j] : j \in 1 .. i - 1}

(* An interval that was opened inside a closed one was closed before it;   *)
(* what is around an instance is its parent and what is around the parent; *)
(* and the level counts them.                                              *)
NestingOK ==
    /\ \A x, y \in Nodes : exit[x] # 0 /\ enter[y] # 0 /\ x \in Around[y] => exit[y] # 0 /\ exit[y] < exit[x]
    /\ \A y \in Nodes : enter[y] # 0 =>
          /\ level[y] = Cardinality(Around[y])
          /\ parent[y] = NoParent => Around[y] = {}
          /\ parent[y] # NoParent =>
                enter[parent[y]] # 0 /\ Around[y] = Around[parent[y]] \cup {parent[y]}

(* The instances under each parent that have not been entered.            *)
Waiting ==
    [p \in Nodes \cup {NoParent} |-> {x \in Nodes : parent[x] = p /\ enter[x] = 0}]

(* What the walk has left to enter: under every parent exactly the         *)
(* children it has not entered, and none under an instance it has left.    *)
WaitingOK ==
    /\ Enumerates(roots, Waiting[NoParent])
    /\ \A p \in Nodes :
          /\ Enumerates(rest[p], Waiting[p])
          /\ exit[p] # 0 => rest[p] = <<>>

(* The parents in use are the preferred ones, or, once the walk has fallen *)
(* back, the derived ones, the preferred ones being no forest.             *)
ParentsOK ==
    IF fellBack THEN parent = Derivation /\ ~IsForest(Preferred)
    ELSE parent = Preferred

(* What is true of an object when the numbering is through.                *)
DoneOK ==
    /\ stack = <<>> /\ roots = <<>>
    /\ ~NeedsFallback
    /\ owner = [r \in DOMAIN obj.refs |->
                   LET first == Kids(obj.insts, parent, NoParent)
                   IN  IF first = <<>> THEN NoParent
                       ELSE IF Owner(obj.insts, obj.refs[r]) = NoParent
                            THEN Head(first)
                            ELSE Owner(obj.insts, obj.refs[r])]

(* The inductive invariant of the numbering.                               *)
NumberingInv ==
    /\ TypeOK
    /\ NumbersOK
    /\ StackOK
    /\ NestingOK
    /\ stage # "derive" /\ obj.insts # <<>> => WaitingOK /\ ParentsOK
    /\ stage = "derive" => ~fellBack
    /\ Finished => DoneOK

(* Instances are named by the numbers from one.                            *)
LEMMA NodesLemma ==
    ASSUME TypeOK
    PROVE  /\ obj.insts \in Seq(Instance)
           /\ Nodes = 1 .. Len(obj.insts)
           /\ Nodes \subseteq Nat /\ NoParent \notin Nodes /\ IsFiniteSet(Nodes)
           /\ Stride \in Nat /\ Stride > 1
<1>1. obj.insts \in Seq(Instance)
  BY ObjectAssumption DEF TypeOK
<1>2. Nodes = 1 .. Len(obj.insts) /\ Len(obj.insts) \in Nat
  BY <1>1 DEF Nodes
<1>3. IsFiniteSet(1 .. Len(obj.insts))
  BY <1>2, FS_Interval
<1> QED BY <1>1, <1>2, <1>3, StrideAssumption DEF NoParent

(* An instance is entered: its surroundings are the stack, and nobody      *)
(* else's change.                                                          *)
LEMMA EnterAround ==
    ASSUME TypeOK, NumbersOK, StackOK, NEW x \in Nodes, enter[x] = 0, NEW d, EnterNode(x, d),
           UNCHANGED <<obj, exit>>
    PROVE  /\ Nodes' = Nodes
           /\ counter' \in Nat /\ counter' > counter /\ counter' # 0
           /\ enter' \in [Nodes -> Nat] /\ enter'[x] = counter'
           /\ \A y \in Nodes : y # x => enter'[y] = enter[y]
           /\ \A y \in Nodes : y # x => Around'[y] = Around[y]
           /\ Around'[x] = {stack[j] : j \in 1 .. Len(stack)}
<1>1. Nodes' = Nodes
  BY DEF Nodes
<1>2. Stride \in Nat /\ Stride > 1 /\ counter \in Nat
  BY NodesLemma DEF TypeOK
<1>3. counter' \in Nat /\ counter' > counter /\ counter' # 0 /\ counter' = counter + Stride
  BY <1>2 DEF EnterNode
<1>4. /\ enter \in [Nodes -> Nat] /\ exit \in [Nodes -> Nat] /\ stack \in Seq(Nodes)
  BY DEF TypeOK
<1>5. /\ enter' \in [Nodes -> Nat] /\ enter'[x] = counter'
      /\ \A y \in Nodes : y # x => enter'[y] = enter[y]
  <2>1. enter' = [enter EXCEPT ![x] = counter']
    BY DEF EnterNode
  <2> QED BY <1>3, <1>4, <2>1
<1>6. /\ exit' = exit /\ \A y \in Nodes : enter[y] <= counter /\ exit[y] <= counter
      /\ enter[x] = 0
  BY DEF NumbersOK
<1>7. ASSUME NEW y \in Nodes, y # x PROVE Around'[y] = Around[y]
  <2>1. ASSUME NEW z \in Nodes
        PROVE  (enter'[z] # 0 /\ enter'[z] < enter'[y] /\ (exit'[z] # 0 => enter'[y] < exit'[z]))
               <=> (enter[z] # 0 /\ enter[z] < enter[y] /\ (exit[z] # 0 => enter[y] < exit[z]))
    <3>1. enter[z] \in Nat /\ enter[y] \in Nat /\ exit[z] \in Nat /\ enter[y] <= counter
      BY <1>4, <1>6
    <3>2. CASE z = x
      BY <1>3, <1>5, <1>6, <1>7, <1>2, <3>1, <3>2
    <3>3. CASE z # x
      BY <1>5, <1>6, <1>7, <3>3
    <3> QED BY <3>2, <3>3
  <2> QED BY <1>1, <2>1 DEF Around
<1>8. Around'[x] = {stack[j] : j \in 1 .. Len(stack)}
  <2>1. ASSUME NEW z \in Nodes
        PROVE  (enter'[z] # 0 /\ enter'[z] < enter'[x] /\ (exit'[z] # 0 => enter'[x] < exit'[z]))
               <=> (enter[z] # 0 /\ exit[z] = 0)
    <3>1. enter[z] \in Nat /\ exit[z] \in Nat /\ exit[z] <= counter /\ enter[z] <= counter
      BY <1>4, <1>6
    <3>2. CASE z = x
      BY <1>3, <1>5, <1>6, <1>2, <3>1, <3>2
    <3>3. CASE z # x
      <4>1. enter'[z] = enter[z] /\ exit'[z] = exit[z]
        BY <1>5, <1>6, <3>3
      <4>2. enter[z] < counter' /\ ~(counter' < exit[z])
        BY <1>2, <1>3, <3>1
      <4> QED BY <1>5, <4>1, <4>2
    <3> QED BY <3>2, <3>3
  <2>2. Around'[x] = {z \in Nodes : enter[z] # 0 /\ exit[z] = 0}
    BY <1>1, <2>1 DEF Around
  <2>3. \A j \in 1 .. Len(stack) : stack[j] \in Nodes
    BY <1>4, ElementLemma
  <2>4. \A z \in Nodes : enter[z] # 0 /\ exit[z] = 0 <=> \E j \in 1 .. Len(stack) : stack[j] = z
    BY DEF StackOK
  <2> QED BY <2>2, <2>3, <2>4
<1> QED BY <1>1, <1>3, <1>5, <1>7, <1>8

(* Entering an instance gives it a number nobody has.                      *)
LEMMA EnterNumbers ==
    ASSUME TypeOK, NumbersOK, StackOK, NEW x \in Nodes, enter[x] = 0, NEW d, EnterNode(x, d),
           UNCHANGED <<obj, exit>>
    PROVE  NumbersOK'
<1>1. /\ Nodes' = Nodes
      /\ counter' \in Nat /\ counter' > counter /\ counter' # 0
      /\ enter' \in [Nodes -> Nat] /\ enter'[x] = counter'
      /\ \A y \in Nodes : y # x => enter'[y] = enter[y]
  BY EnterAround
<1>2. /\ exit' = exit /\ counter \in Nat /\ enter \in [Nodes -> Nat] /\ exit \in [Nodes -> Nat]
      /\ Stride \in Nat
      /\ \A z \in Nodes : enter[z] <= counter /\ exit[z] <= counter
      /\ \A z \in Nodes : exit[z] # 0 => enter[z] # 0 /\ exit[z] - enter[z] >= Stride
      /\ \A y, z \in Nodes : enter[y] # 0 /\ enter[y] = enter[z] => y = z
      /\ \A y, z \in Nodes : exit[y] # 0 => exit[y] # enter[z]
      /\ enter[x] = 0
  BY NodesLemma DEF NumbersOK, TypeOK
<1>3. ASSUME NEW y \in Nodes PROVE enter'[y] <= counter' /\ exit'[y] <= counter'
  <2>1. enter[y] \in Nat /\ exit[y] \in Nat /\ enter[y] <= counter /\ exit[y] <= counter
    BY <1>2
  <2>2. enter'[y] = counter' \/ enter'[y] = enter[y]
    BY <1>1
  <2> QED BY <1>1, <1>2, <2>1, <2>2
<1>4. ASSUME NEW y \in Nodes, exit'[y] # 0 PROVE enter'[y] # 0 /\ exit'[y] - enter'[y] >= Stride
  <2>1. exit[y] # 0 /\ y # x
    BY <1>2, <1>4
  <2> QED BY <1>1, <1>2, <2>1
<1>5. ASSUME NEW y \in Nodes, NEW z \in Nodes, enter'[y] # 0, enter'[y] = enter'[z] PROVE y = z
  <2>1. enter[y] \in Nat /\ enter[z] \in Nat /\ enter[y] <= counter /\ enter[z] <= counter
    BY <1>2
  <2>2. CASE y # x /\ z # x
    BY <1>1, <1>2, <1>5, <2>2
  <2>3. CASE y = x \/ z = x
    BY <1>1, <1>2, <1>5, <2>1, <2>3
  <2> QED BY <2>2, <2>3
<1>6. ASSUME NEW y \in Nodes, NEW z \in Nodes, exit'[y] # 0 PROVE exit'[y] # enter'[z]
  <2>1. exit[y] # 0 /\ exit[y] \in Nat /\ exit[y] <= counter
    BY <1>2, <1>6
  <2>2. CASE z = x
    BY <1>1, <1>2, <2>1, <2>2
  <2>3. CASE z # x
    BY <1>1, <1>2, <2>1, <2>3
  <2> QED BY <2>2, <2>3
<1> QED BY <1>1, <1>3, <1>4, <1>5, <1>6 DEF NumbersOK

(* An instance that is entered is on top of the stack.                     *)
LEMMA EnterStack ==
    ASSUME TypeOK, NumbersOK, StackOK, NEW x \in Nodes, enter[x] = 0, NEW d, EnterNode(x, d),
           UNCHANGED <<obj, exit>>
    PROVE  StackOK' /\ stack' \in Seq(Nodes)
<1>1. /\ Nodes' = Nodes
      /\ counter' # 0 /\ enter'[x] = counter'
      /\ \A y \in Nodes : y # x => enter'[y] = enter[y]
      /\ \A y \in Nodes : y # x => Around'[y] = Around[y]
      /\ Around'[x] = {stack[j] : j \in 1 .. Len(stack)}
  BY EnterAround
<1>2. stack \in Seq(Nodes) /\ stack' = Append(stack, x) /\ exit' = exit /\ exit[x] = 0
  BY DEF TypeOK, EnterNode, NumbersOK
<1>3. /\ stack' \in Seq(Nodes) /\ Len(stack') = Len(stack) + 1 /\ Len(stack) \in Nat
      /\ \A i \in 1 .. Len(stack) : stack'[i] = stack[i]
      /\ stack'[Len(stack) + 1] = x
  BY <1>2
<1>4. \A i \in 1 .. Len(stack) : stack[i] \in Nodes /\ stack[i] # x /\ exit[stack[i]] = 0 /\ enter[stack[i]] # 0
  <2>1. \A i \in 1 .. Len(stack) : stack[i] \in Nodes
    BY <1>2, ElementLemma
  <2> QED BY <2>1 DEF StackOK
<1>5. ASSUME NEW i \in 1 .. Len(stack') PROVE enter'[stack'[i]] # 0 /\ exit'[stack'[i]] = 0
  <2>1. CASE i = Len(stack) + 1
    BY <1>1, <1>2, <1>3, <2>1
  <2>2. CASE i # Len(stack) + 1
    <3>1. i \in 1 .. Len(stack)
      BY <1>3, <2>2
    <3> QED BY <1>1, <1>2, <1>3, <1>4, <3>1
  <2> QED BY <2>1, <2>2
<1>6. ASSUME NEW y \in Nodes, enter'[y] # 0, exit'[y] = 0
      PROVE  \E i \in 1 .. Len(stack') : stack'[i] = y
  <2>1. CASE y = x
    <3>1. Len(stack) + 1 \in 1 .. Len(stack')
      BY <1>3
    <3> QED BY <1>3, <2>1, <3>1
  <2>2. CASE y # x
    <3>1. enter[y] # 0 /\ exit[y] = 0
      BY <1>1, <1>2, <1>6, <2>2
    <3>2. PICK i \in 1 .. Len(stack) : stack[i] = y
      BY <3>1 DEF StackOK
    <3>3. i \in 1 .. Len(stack') /\ stack'[i] = y
      BY <1>3, <3>2
    <3> QED BY <3>3
  <2> QED BY <2>1, <2>2
<1>7. ASSUME NEW i \in 1 .. Len(stack') PROVE Around'[stack'[i]] = {stack'[j] : j \in 1 .. i - 1}
  <2>1. CASE i = Len(stack) + 1
    <3>1. stack'[i] = x /\ i - 1 = Len(stack)
      BY <1>3, <2>1
    <3>2. {stack'[j] : j \in 1 .. Len(stack)} = {stack[j] : j \in 1 .. Len(stack)}
      BY <1>3
    <3> QED BY <1>1, <3>1, <3>2
  <2>2. CASE i # Len(stack) + 1
    <3>1. i \in 1 .. Len(stack) /\ \A j \in 1 .. i - 1 : j \in 1 .. Len(stack)
      BY <1>3, <2>2
    <3>2. Around'[stack[i]] = Around[stack[i]] /\ stack'[i] = stack[i]
      BY <1>1, <1>3, <1>4, <3>1
    <3>3. Around[stack[i]] = {stack[j] : j \in 1 .. i - 1}
      BY <3>1 DEF StackOK
    <3>4. {stack'[j] : j \in 1 .. i - 1} = {stack[j] : j \in 1 .. i - 1}
      BY <1>3, <3>1
    <3> QED BY <3>2, <3>3, <3>4
  <2> QED BY <2>1, <2>2
<1> QED BY <1>1, <1>3, <1>5, <1>6, <1>7 DEF StackOK

(* The innermost instance on the stack and what is around it.              *)
LEMMA InnermostLemma ==
    ASSUME TypeOK, NumbersOK, StackOK, stack # <<>>
    PROVE  /\ Last(stack) \in Nodes /\ enter[Last(stack)] # 0 /\ exit[Last(stack)] = 0
           /\ Last(stack) = stack[Len(stack)] /\ Len(stack) > 0
           /\ Last(stack) \notin Around[Last(stack)]
           /\ {stack[j] : j \in 1 .. Len(stack)} = Around[Last(stack)] \cup {Last(stack)}
<1>1. stack \in Seq(Nodes) /\ Len(stack) \in Nat /\ Len(stack) > 0
  BY DEF TypeOK
<1>2. Last(stack) = stack[Len(stack)] /\ Len(stack) \in 1 .. Len(stack)
  BY <1>1 DEF Last
<1>3. Last(stack) \in Nodes /\ enter[Last(stack)] # 0 /\ exit[Last(stack)] = 0
  BY <1>1, <1>2, ElementLemma DEF StackOK
<1>4. Around[Last(stack)] = {stack[j] : j \in 1 .. Len(stack) - 1}
  BY <1>2 DEF StackOK
<1>5. Last(stack) \notin Around[Last(stack)]
  <2>1. enter[Last(stack)] \in Nat
    BY <1>3 DEF TypeOK
  <2> QED BY <1>3, <2>1 DEF Around
<1>6. {stack[j] : j \in 1 .. Len(stack)} = {stack[j] : j \in 1 .. Len(stack) - 1} \cup {stack[Len(stack)]}
  <2>1. ASSUME NEW z, z \in {stack[j] : j \in 1 .. Len(stack)}
        PROVE  z \in {stack[j] : j \in 1 .. Len(stack) - 1} \cup {stack[Len(stack)]}
    <3>1. PICK j \in 1 .. Len(stack) : z = stack[j]
      BY <2>1
    <3>2. j = Len(stack) \/ j \in 1 .. Len(stack) - 1
      BY <1>1, <3>1
    <3> QED BY <3>1, <3>2
  <2>2. ASSUME NEW j \in 1 .. Len(stack) - 1
        PROVE  stack[j] \in {stack[i] : i \in 1 .. Len(stack)}
    <3>1. j \in 1 .. Len(stack)
      BY <1>1
    <3> QED BY <3>1
  <2> QED BY <1>2, <2>1, <2>2
<1> QED BY <1>1, <1>2, <1>3, <1>4, <1>5, <1>6

(* An instance entered from its parent, the top of the stack, is inside    *)
(* its parent and what is around that; a root is inside nothing.           *)
LEMMA EnterNesting ==
    ASSUME TypeOK, NumbersOK, StackOK, NestingOK, NEW x \in Nodes, enter[x] = 0,
           NEW d, EnterNode(x, d), UNCHANGED <<obj, parent, exit>>,
           \/ stack = <<>> /\ parent[x] = NoParent /\ d = 0
           \/ stack # <<>> /\ parent[x] = Last(stack) /\ d = level[Last(stack)] + 1
    PROVE  NestingOK' /\ level' \in [Nodes -> Nat]
<1>1. /\ Nodes' = Nodes
      /\ counter' # 0 /\ enter'[x] = counter'
      /\ \A y \in Nodes : y # x => enter'[y] = enter[y]
      /\ \A y \in Nodes : y # x => Around'[y] = Around[y]
      /\ Around'[x] = {stack[j] : j \in 1 .. Len(stack)}
  BY EnterAround
<1>2. /\ parent' = parent /\ exit' = exit
      /\ level \in [Nodes -> Nat] /\ level' = [level EXCEPT ![x] = d]
      /\ parent \in [Nodes -> Nodes \cup {NoParent}]
      /\ exit \in [Nodes -> Nat] /\ stack \in Seq(Nodes)
  BY DEF TypeOK, EnterNode
<1>3. NoParent \notin Nodes /\ IsFiniteSet(Nodes)
  BY NodesLemma
<1>4. \A i \in 1 .. Len(stack) : stack[i] \in Nodes /\ exit[stack[i]] = 0
  BY <1>2, ElementLemma DEF StackOK
<1>5. ASSUME NEW y \in Nodes, NEW z \in Nodes, exit'[y] # 0, enter'[z] # 0, y \in Around'[z]
      PROVE  exit'[z] # 0 /\ exit'[z] < exit'[y]
  <2>1. CASE z = x
    BY <1>1, <1>2, <1>4, <1>5, <2>1
  <2>2. CASE z # x
    BY <1>1, <1>2, <1>5, <2>2 DEF NestingOK
  <2> QED BY <2>1, <2>2
<1>6. CASE stack = <<>> /\ parent[x] = NoParent /\ d = 0
  <2>1. Around'[x] = {}
    BY <1>1, <1>6
  <2>2. level' \in [Nodes -> Nat] /\ level'[x] = 0 /\ Cardinality({}) = 0
    BY <1>2, <1>6, FS_EmptySet
  <2>3. /\ level'[x] = Cardinality(Around'[x])
        /\ parent'[x] = NoParent /\ Around'[x] = {}
    BY <1>2, <1>6, <2>1, <2>2
  <2>4. ASSUME NEW y \in Nodes, y # x, enter'[y] # 0
        PROVE  /\ level'[y] = Cardinality(Around'[y])
               /\ parent'[y] = NoParent => Around'[y] = {}
               /\ parent'[y] # NoParent =>
                    enter'[parent'[y]] # 0 /\ Around'[y] = Around'[parent'[y]] \cup {parent'[y]}
    <3>1. enter[y] # 0 /\ level'[y] = level[y] /\ Around'[y] = Around[y]
      BY <1>1, <1>2, <2>4
    <3>2. parent[y] # NoParent => parent[y] \in Nodes /\ enter[parent[y]] # 0 /\ parent[y] # x
      BY <1>2, <3>1 DEF NestingOK
    <3>3. parent[y] # NoParent =>
             Around'[parent[y]] = Around[parent[y]] /\ enter'[parent[y]] = enter[parent[y]]
      BY <1>1, <3>2
    <3> QED BY <1>2, <3>1, <3>2, <3>3 DEF NestingOK
  <2> QED BY <1>1, <1>5, <2>2, <2>3, <2>4 DEF NestingOK
<1>7. CASE stack # <<>> /\ parent[x] = Last(stack) /\ d = level[Last(stack)] + 1
  <2> DEFINE p == Last(stack)
  <2>1. /\ p \in Nodes /\ enter[p] # 0 /\ p \notin Around[p]
        /\ Around'[x] = Around[p] \cup {p}
    BY <1>1, <1>7, InnermostLemma
  <2>2. level' \in [Nodes -> Nat] /\ level'[x] = level[p] + 1
    BY <1>2, <1>7, <2>1
  <2> HIDE DEF p
  <2>3. IsFiniteSet(Around[p])
    <3>1. Around[p] \subseteq Nodes
      BY <2>1 DEF Around
    <3> QED BY <1>3, <3>1, FS_Subset
  <2>4. Cardinality(Around[p] \cup {p}) = Cardinality(Around[p]) + 1
    BY <2>1, <2>3, FS_AddElement
  <2>5. level[p] = Cardinality(Around[p])
    BY <2>1 DEF NestingOK
  <2>6. parent'[x] = p /\ p # x /\ p # NoParent
    BY <1>2, <1>3, <1>7, <2>1 DEF p
  <2>7. /\ level'[x] = Cardinality(Around'[x])
        /\ parent'[x] # NoParent
        /\ enter'[parent'[x]] # 0 /\ Around'[x] = Around'[parent'[x]] \cup {parent'[x]}
    BY <1>1, <2>1, <2>2, <2>4, <2>5, <2>6
  <2>8. ASSUME NEW y \in Nodes, y # x, enter'[y] # 0
        PROVE  /\ level'[y] = Cardinality(Around'[y])
               /\ parent'[y] = NoParent => Around'[y] = {}
               /\ parent'[y] # NoParent =>
                    enter'[parent'[y]] # 0 /\ Around'[y] = Around'[parent'[y]] \cup {parent'[y]}
    <3>1. enter[y] # 0 /\ level'[y] = level[y] /\ Around'[y] = Around[y]
      BY <1>1, <1>2, <2>8
    <3>2. parent[y] # NoParent => parent[y] \in Nodes /\ enter[parent[y]] # 0 /\ parent[y] # x
      BY <1>2, <3>1 DEF NestingOK
    <3>3. parent[y] # NoParent =>
             Around'[parent[y]] = Around[parent[y]] /\ enter'[parent[y]] = enter[parent[y]]
      BY <1>1, <3>2
    <3> QED BY <1>2, <3>1, <3>2, <3>3 DEF NestingOK
  <2> QED BY <1>1, <1>5, <2>2, <2>7, <2>8 DEF NestingOK
<1> QED BY <1>6, <1>7

(* An instance that is entered waits no longer.                            *)
LEMMA EnterWaiting ==
    ASSUME TypeOK, NumbersOK, StackOK, NEW x \in Nodes, enter[x] = 0,
           NEW d, EnterNode(x, d), UNCHANGED <<obj, parent, exit>>
    PROVE  /\ Waiting'[parent[x]] = Waiting[parent[x]] \ {x}
           /\ \A p \in Nodes \cup {NoParent} : p # parent[x] => Waiting'[p] = Waiting[p]
<1>1. /\ Nodes' = Nodes
      /\ counter' # 0 /\ enter'[x] = counter'
      /\ \A y \in Nodes : y # x => enter'[y] = enter[y]
  BY EnterAround
<1>2. parent[x] \in Nodes \cup {NoParent} /\ parent' = parent
  BY DEF TypeOK
<1> QED BY <1>1, <1>2 DEF Waiting

(* Entering a root keeps the invariant.                                    *)
LEMMA EnterRootStep ==
    ASSUME NumberingInv, EnterRoot
    PROVE  NumberingInv'
<1> DEFINE x == Head(roots)
<1>1. /\ stage = "walk" /\ stack = <<>> /\ roots # <<>>
      /\ EnterNode(x, 0)
      /\ roots' = Tail(roots)
      /\ UNCHANGED <<obj, parent, exit>>
      /\ UNCHANGED <<stage, fellBack, rest, owner>>
  BY DEF EnterRoot
<1>2. /\ roots \in Seq(Nodes) /\ rest \in [Nodes -> Seq(Nodes)]
      /\ TypeOK /\ NumbersOK /\ StackOK /\ NestingOK
  BY DEF NumberingInv, TypeOK
<1>3. Nodes # {} /\ obj.insts # <<>>
  <2>1. roots[1] \in Nodes
    BY <1>1, <1>2
  <2> QED BY <2>1 DEF Nodes
<1>4. WaitingOK /\ ParentsOK
  BY <1>1, <1>3 DEF NumberingInv
<1>5. /\ x \in Nodes /\ x \in Waiting[NoParent]
      /\ Tail(roots) \in Seq(Nodes)
      /\ Enumerates(Tail(roots), Waiting[NoParent] \ {x})
  <2>1. Enumerates(roots, Waiting[NoParent])
    BY <1>4 DEF WaitingOK
  <2> QED BY <1>1, <1>2, <2>1, TailEnumerates
<1>6. enter[x] = 0 /\ parent[x] = NoParent
  BY <1>5 DEF Waiting
<1> HIDE DEF x
<1>7. /\ Nodes' = Nodes /\ counter' \in Nat /\ enter' \in [Nodes -> Nat]
      /\ NumbersOK' /\ StackOK' /\ NestingOK'
      /\ stack' \in Seq(Nodes) /\ level' \in [Nodes -> Nat]
  BY <1>1, <1>2, <1>5, <1>6, EnterAround, EnterNumbers, EnterStack, EnterNesting
<1>8. TypeOK'
  BY <1>1, <1>2, <1>5, <1>7 DEF TypeOK
<1>9. WaitingOK'
  <2>1. Enumerates(roots', Waiting'[NoParent])
    BY <1>1, <1>2, <1>5, <1>6, EnterWaiting
  <2>2. ASSUME NEW p \in Nodes
        PROVE  /\ Enumerates(rest'[p], Waiting'[p])
               /\ exit'[p] # 0 => rest'[p] = <<>>
    <3>1. p # NoParent /\ NoParent \notin Nodes
      BY <1>2, NodesLemma
    <3>2. Waiting'[p] = Waiting[p]
      BY <1>1, <1>2, <1>5, <1>6, <3>1, EnterWaiting
    <3>3. Enumerates(rest[p], Waiting[p]) /\ (exit[p] # 0 => rest[p] = <<>>)
      BY <1>4 DEF WaitingOK
    <3> QED BY <1>1, <3>2, <3>3
  <2> QED BY <1>7, <2>1, <2>2 DEF WaitingOK
<1>10. ParentsOK'
  BY <1>1, <1>4 DEF ParentsOK, Derivation, Preferred
<1>11. stage' = "walk"
  BY <1>1
<1> QED BY <1>7, <1>8, <1>9, <1>10, <1>11 DEF NumberingInv, Finished

(* Entering a child keeps the invariant.                                   *)
LEMMA DescendStep ==
    ASSUME NumberingInv, Descend
    PROVE  NumberingInv'
<1> DEFINE p == Last(stack)
           x == Head(rest[p])
           d == level[p] + 1
<1>1. /\ stage = "walk" /\ stack # <<>> /\ rest[p] # <<>>
      /\ EnterNode(x, d)
      /\ rest' = [rest EXCEPT ![p] = Tail(rest[p])]
      /\ UNCHANGED <<obj, parent, exit>>
      /\ UNCHANGED <<stage, fellBack, roots, owner>>
  BY DEF Descend
<1>2. /\ roots \in Seq(Nodes) /\ rest \in [Nodes -> Seq(Nodes)]
      /\ TypeOK /\ NumbersOK /\ StackOK /\ NestingOK
  BY DEF NumberingInv, TypeOK
<1>3. p \in Nodes /\ exit[p] = 0 /\ p # NoParent /\ NoParent \notin Nodes
  BY <1>1, <1>2, InnermostLemma, NodesLemma
<1>4. WaitingOK /\ ParentsOK
  <2>1. obj.insts # <<>>
    BY <1>3 DEF Nodes
  <2> QED BY <1>1, <2>1 DEF NumberingInv
<1> HIDE DEF p
<1>5. /\ x \in Nodes /\ x \in Waiting[p]
      /\ Tail(rest[p]) \in Seq(Nodes)
      /\ Enumerates(Tail(rest[p]), Waiting[p] \ {x})
  <2>1. Enumerates(rest[p], Waiting[p]) /\ rest[p] \in Seq(Nodes)
    BY <1>2, <1>3, <1>4 DEF WaitingOK
  <2> QED BY <1>1, <2>1, TailEnumerates
<1>6. enter[x] = 0 /\ parent[x] = p
  BY <1>3, <1>5 DEF Waiting
<1> HIDE DEF x
<1>7. /\ Nodes' = Nodes /\ counter' \in Nat /\ enter' \in [Nodes -> Nat]
      /\ NumbersOK' /\ StackOK' /\ NestingOK'
      /\ stack' \in Seq(Nodes) /\ level' \in [Nodes -> Nat]
  <2>1. stack # <<>> /\ parent[x] = Last(stack) /\ d = level[Last(stack)] + 1
    BY <1>1, <1>6 DEF p
  <2> HIDE DEF d
  <2> QED BY <1>1, <1>2, <1>5, <1>6, <2>1, EnterAround, EnterNumbers, EnterStack, EnterNesting
<1>8. rest' \in [Nodes -> Seq(Nodes)] /\ rest'[p] = Tail(rest[p])
      /\ \A q \in Nodes : q # p => rest'[q] = rest[q]
  BY <1>1, <1>2, <1>3, <1>5
<1>9. TypeOK'
  BY <1>1, <1>2, <1>7, <1>8 DEF TypeOK
<1>10. WaitingOK'
  <2>1. Enumerates(roots', Waiting'[NoParent])
    <3>1. Waiting'[NoParent] = Waiting[NoParent]
      BY <1>1, <1>2, <1>3, <1>5, <1>6, EnterWaiting
    <3> QED BY <1>1, <1>4, <3>1 DEF WaitingOK
  <2>2. ASSUME NEW q \in Nodes
        PROVE  /\ Enumerates(rest'[q], Waiting'[q])
               /\ exit'[q] # 0 => rest'[q] = <<>>
    <3>1. CASE q = p
      <4>1. Waiting'[p] = Waiting[p] \ {x}
        BY <1>1, <1>2, <1>5, <1>6, EnterWaiting
      <4> QED BY <1>1, <1>3, <1>5, <1>8, <3>1, <4>1
    <3>2. CASE q # p
      <4>1. Waiting'[q] = Waiting[q]
        BY <1>1, <1>2, <1>5, <1>6, <3>2, EnterWaiting
      <4>2. Enumerates(rest[q], Waiting[q]) /\ (exit[q] # 0 => rest[q] = <<>>)
        BY <1>4 DEF WaitingOK
      <4> QED BY <1>1, <1>8, <3>2, <4>1, <4>2
    <3> QED BY <3>1, <3>2
  <2> QED BY <1>7, <2>1, <2>2 DEF WaitingOK
<1>11. ParentsOK'
  BY <1>1, <1>4 DEF ParentsOK, Derivation, Preferred
<1>12. stage' = "walk"
  BY <1>1
<1> QED BY <1>7, <1>9, <1>10, <1>11, <1>12 DEF NumberingInv, Finished

(* Leaving an instance keeps the invariant: what is around nobody changes, *)
(* since every number given before is below the one it closes with.        *)
LEMMA AscendStep ==
    ASSUME NumberingInv, Ascend
    PROVE  NumberingInv'
<1> DEFINE x == Last(stack)
<1>1. /\ stage = "walk" /\ stack # <<>> /\ rest[x] = <<>>
      /\ counter' = counter + Stride
      /\ exit' = [exit EXCEPT ![x] = counter']
      /\ stack' = Front(stack)
      /\ UNCHANGED <<obj, parent, stage, fellBack, roots, rest, enter, level, owner>>
  BY DEF Ascend
<1>2. TypeOK /\ NumbersOK /\ StackOK /\ NestingOK
  BY DEF NumberingInv
<1>3. /\ x \in Nodes /\ enter[x] # 0 /\ exit[x] = 0 /\ x \notin Around[x]
      /\ x = stack[Len(stack)] /\ Len(stack) > 0
      /\ {stack[j] : j \in 1 .. Len(stack)} = Around[x] \cup {x}
      /\ Stride \in Nat /\ Stride > 1
  BY <1>1, <1>2, InnermostLemma, NodesLemma
<1>4. WaitingOK /\ ParentsOK
  <2>1. obj.insts # <<>>
    BY <1>3 DEF Nodes
  <2> QED BY <1>1, <2>1 DEF NumberingInv
<1> HIDE DEF x
<1>5. /\ Nodes' = Nodes /\ enter' = enter /\ parent' = parent /\ level' = level
      /\ counter \in Nat /\ counter' \in Nat /\ counter' > counter /\ counter' # 0
      /\ counter' - counter = Stride
      /\ enter \in [Nodes -> Nat] /\ exit \in [Nodes -> Nat] /\ stack \in Seq(Nodes)
      /\ parent \in [Nodes -> Nodes \cup {NoParent}]
  <2>1. /\ counter \in Nat /\ enter \in [Nodes -> Nat] /\ exit \in [Nodes -> Nat]
        /\ stack \in Seq(Nodes) /\ parent \in [Nodes -> Nodes \cup {NoParent}]
    BY <1>2 DEF TypeOK
  <2>2. Nodes' = Nodes /\ enter' = enter /\ parent' = parent /\ level' = level
    BY <1>1 DEF Nodes
  <2>3. counter' \in Nat /\ counter' > counter /\ counter' # 0 /\ counter' - counter = Stride
    BY <1>1, <1>3, <2>1
  <2> QED BY <2>1, <2>2, <2>3
<1>6. /\ exit' \in [Nodes -> Nat] /\ exit'[x] = counter'
      /\ \A y \in Nodes : y # x => exit'[y] = exit[y]
  BY <1>1, <1>3, <1>5
<1>7. /\ Len(stack) \in Nat /\ stack' \in Seq(Nodes) /\ Len(stack') = Len(stack) - 1
      /\ \A i \in 1 .. Len(stack) - 1 : stack'[i] = stack[i]
  <2>1. Len(stack) \in Nat /\ Len(stack) > 0 /\ stack \in Seq(Nodes) /\ stack' = Front(stack)
    BY <1>1, <1>3, <1>5
  <2> QED BY <2>1, FrontLemma
<1>8. /\ \A y \in Nodes : enter[y] <= counter /\ exit[y] <= counter
      /\ \A y \in Nodes : exit[y] # 0 => enter[y] # 0 /\ exit[y] - enter[y] >= Stride
      /\ \A y, z \in Nodes : enter[y] # 0 /\ enter[y] = enter[z] => y = z
      /\ \A y, z \in Nodes : exit[y] # 0 => exit[y] # enter[z]
  BY <1>2 DEF NumbersOK
<1>9. Around' = Around
  <2>1. ASSUME NEW y \in Nodes, NEW z \in Nodes
        PROVE  (enter'[z] # 0 /\ enter'[z] < enter'[y] /\ (exit'[z] # 0 => enter'[y] < exit'[z]))
               <=> (enter[z] # 0 /\ enter[z] < enter[y] /\ (exit[z] # 0 => enter[y] < exit[z]))
    <3>1. enter[z] \in Nat /\ enter[y] \in Nat /\ exit[z] \in Nat /\ enter[y] <= counter
      BY <1>5, <1>8
    <3>2. CASE z = x
      <4>1. exit[z] = 0 /\ exit'[z] = counter' /\ enter' = enter
        BY <1>3, <1>5, <1>6, <3>2
      <4>2. counter' # 0 /\ enter[y] < counter'
        BY <1>5, <3>1
      <4> QED BY <4>1, <4>2
    <3>3. CASE z # x
      BY <1>5, <1>6, <3>3
    <3> QED BY <3>2, <3>3
  <2> QED BY <1>5, <2>1 DEF Around
<1>10. NumbersOK'
  <2>1. ASSUME NEW y \in Nodes PROVE enter'[y] <= counter' /\ exit'[y] <= counter'
    <3>1. enter[y] \in Nat /\ exit[y] \in Nat /\ enter[y] <= counter /\ exit[y] <= counter
      BY <1>5, <1>8
    <3>2. exit'[y] = counter' \/ exit'[y] = exit[y]
      BY <1>6
    <3> QED BY <1>5, <3>1, <3>2
  <2>2. ASSUME NEW y \in Nodes, exit'[y] # 0
        PROVE  enter'[y] # 0 /\ exit'[y] - enter'[y] >= Stride
    <3>1. CASE y = x
      <4>1. enter[x] \in Nat /\ enter[x] <= counter
        BY <1>3, <1>5, <1>8
      <4>2. counter' - enter[x] >= Stride
        <5>1. Stride \in Nat /\ counter \in Nat /\ counter' \in Nat /\ counter' = counter + Stride
          BY <1>1, <1>3, <1>5
        <5> DEFINE e == enter[x]
        <5>2. e \in Nat /\ e <= counter
          BY <4>1
        <5> HIDE DEF e
        <5>3. counter' - e >= Stride
          BY <5>1, <5>2
        <5> QED BY <5>3 DEF e
      <4> QED BY <1>3, <1>5, <1>6, <3>1, <4>2
    <3>2. CASE y # x
      BY <1>5, <1>6, <1>8, <2>2, <3>2
    <3> QED BY <3>1, <3>2
  <2>3. ASSUME NEW y \in Nodes, NEW z \in Nodes, exit'[y] # 0
        PROVE  exit'[y] # enter'[z]
    <3>1. CASE y = x
      <4>1. enter[z] \in Nat /\ enter[z] <= counter
        BY <1>5, <1>8
      <4> QED BY <1>5, <1>6, <3>1, <4>1
    <3>2. CASE y # x
      BY <1>5, <1>6, <1>8, <2>3, <3>2
    <3> QED BY <3>1, <3>2
  <2> QED BY <1>5, <1>8, <2>1, <2>2, <2>3 DEF NumbersOK
<1>11. \A i \in 1 .. Len(stack) : i # Len(stack) => stack[i] # x
  <2> SUFFICES ASSUME NEW i \in 1 .. Len(stack), i # Len(stack), stack[i] = x PROVE FALSE
    OBVIOUS
  <2>1. i \in 1 .. Len(stack) - 1 /\ Len(stack) \in 1 .. Len(stack)
    BY <1>3, <1>7
  <2>2. stack[i] \in Around[stack[Len(stack)]]
    <3>1. Around[stack[Len(stack)]] = {stack[j] : j \in 1 .. Len(stack) - 1}
      BY <1>2, <2>1 DEF StackOK
    <3> QED BY <2>1, <3>1
  <2> QED BY <1>3, <2>2
<1>12. StackOK'
  <2>1. ASSUME NEW i \in 1 .. Len(stack')
        PROVE  i \in 1 .. Len(stack) /\ i # Len(stack) /\ stack'[i] = stack[i] /\ stack[i] \in Nodes
    <3>1. i \in 1 .. Len(stack) /\ i # Len(stack) /\ stack'[i] = stack[i]
      BY <1>7
    <3> QED BY <1>5, <3>1, ElementLemma
  <2>2. ASSUME NEW i \in 1 .. Len(stack') PROVE enter'[stack'[i]] # 0 /\ exit'[stack'[i]] = 0
    <3>1. enter[stack[i]] # 0 /\ exit[stack[i]] = 0
      BY <1>2, <2>1 DEF StackOK
    <3> QED BY <1>5, <1>6, <1>11, <2>1, <3>1
  <2>3. ASSUME NEW y \in Nodes, enter'[y] # 0, exit'[y] = 0
        PROVE  \E i \in 1 .. Len(stack') : stack'[i] = y
    <3>1. y # x
      BY <1>5, <1>6, <2>3
    <3>2. PICK i \in 1 .. Len(stack) : stack[i] = y
      BY <1>2, <1>5, <1>6, <2>3, <3>1 DEF StackOK
    <3>3. i \in 1 .. Len(stack')
      BY <1>3, <1>7, <3>1, <3>2
    <3>4. stack'[i] = y
      BY <1>7, <3>2, <3>3
    <3> QED BY <3>3, <3>4
  <2>4. ASSUME NEW i \in 1 .. Len(stack')
        PROVE  Around'[stack'[i]] = {stack'[j] : j \in 1 .. i - 1}
    <3>1. Around[stack[i]] = {stack[j] : j \in 1 .. i - 1}
      BY <1>2, <2>1 DEF StackOK
    <3>2. \A j \in 1 .. i - 1 : j \in 1 .. Len(stack) - 1
      BY <1>7
    <3>3. \A j \in 1 .. i - 1 : stack'[j] = stack[j]
      BY <1>7, <3>2
    <3>4. {stack'[j] : j \in 1 .. i - 1} = {stack[j] : j \in 1 .. i - 1}
      BY <3>3
    <3> QED BY <1>9, <2>1, <3>1, <3>4
  <2> QED BY <1>5, <2>2, <2>3, <2>4 DEF StackOK
<1>13. NestingOK'
  <2>1. ASSUME NEW y \in Nodes, NEW z \in Nodes, exit'[y] # 0, enter'[z] # 0, y \in Around'[z]
        PROVE  exit'[z] # 0 /\ exit'[z] < exit'[y]
    <3>1. y \in Around[z] /\ enter[z] # 0 /\ enter[y] < enter[z]
      BY <1>5, <1>9, <2>1 DEF Around
    <3>2. CASE y = x
      <4>1. z # x
        BY <1>3, <3>1, <3>2
      <4>2. exit[z] # 0
        <5> SUFFICES ASSUME exit[z] = 0 PROVE FALSE
          OBVIOUS
        <5>1. \E i \in 1 .. Len(stack) : stack[i] = z
          BY <1>2, <3>1 DEF StackOK
        <5>2. z \in Around[x]
          BY <1>3, <4>1, <5>1
        <5>3. enter[z] < enter[x]
          BY <1>3, <5>2 DEF Around
        <5> QED BY <1>5, <3>1, <3>2, <5>3
      <4>3. exit[z] \in Nat /\ exit[z] <= counter
        BY <1>5, <1>8
      <4> QED BY <1>5, <1>6, <3>2, <4>1, <4>2, <4>3
    <3>3. CASE y # x
      <4>1. exit[z] # 0 /\ exit[z] < exit[y]
        BY <1>2, <1>6, <2>1, <3>1, <3>3 DEF NestingOK
      <4> QED BY <1>3, <1>6, <3>3, <4>1
    <3> QED BY <3>2, <3>3
  <2> QED BY <1>2, <1>5, <1>9, <2>1 DEF NestingOK
<1>14. TypeOK'
  BY <1>1, <1>2, <1>5, <1>6, <1>7 DEF TypeOK
<1>15. WaitingOK'
  <2>1. Waiting' = Waiting
    BY <1>5 DEF Waiting
  <2>2. \A y \in Nodes : exit'[y] # 0 => rest'[y] = <<>>
    BY <1>1, <1>4, <1>6 DEF WaitingOK
  <2> QED BY <1>1, <1>4, <1>5, <2>1, <2>2 DEF WaitingOK
<1>16. ParentsOK'
  BY <1>1, <1>4 DEF ParentsOK, Derivation, Preferred
<1>17. stage' = "walk"
  BY <1>1
<1> QED BY <1>10, <1>12, <1>13, <1>14, <1>15, <1>16, <1>17 DEF NumberingInv, Finished

-----------------------------------------------------------------------------

(* A walk starts with nothing entered and everything waiting.              *)
LEMMA StartLemma ==
    ASSUME TypeOK, NEW p \in [Nodes -> Nodes \cup {NoParent}], StartWalk(p), obj' = obj
    PROVE  /\ Nodes' = Nodes /\ parent' = p /\ stage' = "walk"
           /\ roots' \in Seq(Nodes) /\ stack' \in Seq(Nodes) /\ rest' \in [Nodes -> Seq(Nodes)]
           /\ counter' \in Nat
           /\ enter' \in [Nodes -> Nat] /\ exit' \in [Nodes -> Nat] /\ level' \in [Nodes -> Nat]
           /\ NumbersOK' /\ StackOK' /\ NestingOK' /\ WaitingOK'
<1>1. /\ Nodes' = Nodes /\ parent' = p /\ stage' = "walk"
      /\ roots' = Kids(obj.insts, p, NoParent)
      /\ rest' = [x \in Nodes |-> Kids(obj.insts, p, x)]
      /\ stack' = <<>> /\ counter' = 0
      /\ enter' = Zero /\ exit' = Zero /\ level' = Zero
  BY DEF StartWalk, Nodes
<1>2. /\ enter' \in [Nodes -> Nat] /\ exit' \in [Nodes -> Nat] /\ level' \in [Nodes -> Nat]
      /\ \A x \in Nodes : enter'[x] = 0 /\ exit'[x] = 0
  BY <1>1 DEF Zero
<1>3. ASSUME NEW q \in Nodes \cup {NoParent}
      PROVE  /\ Kids(obj.insts, p, q) \in Seq(Nodes)
             /\ Enumerates(Kids(obj.insts, p, q), Waiting'[q])
  <2> DEFINE S == {x \in Nodes : p[x] = q}
             s == Sorted(obj.insts, S)
  <2>1. obj.insts \in Seq(Instance) /\ Nodes = DOMAIN obj.insts
    BY NodesLemma DEF Nodes
  <2>2. /\ s \in Seq(S)
        /\ \A x \in S : \E k \in 1 .. Len(s) : s[k] = x
        /\ \A i, j \in 1 .. Len(s) : s[i] = s[j] => i = j
    <3>1. S \subseteq DOMAIN obj.insts
      BY <2>1
    <3> HIDE DEF S
    <3> QED BY <2>1, <3>1, SortedLemma
  <2>3. Kids(obj.insts, p, q) = s
    <3>1. DOMAIN p = Nodes
      OBVIOUS
    <3> QED BY <3>1 DEF Kids
  <2>4. Waiting'[q] = S
    <3>1. q \in Nodes' \cup {NoParent}
      BY <1>1
    <3> QED BY <1>1, <1>2, <3>1 DEF Waiting
  <2>5. S \subseteq Nodes
    OBVIOUS
  <2> HIDE DEF S, s
  <2>6. s \in Seq(Nodes)
    BY <2>2, <2>5
  <2>7. \A i \in 1 .. Len(s) : s[i] \in S
    BY <2>2, ElementLemma
  <2> QED BY <2>2, <2>3, <2>4, <2>6, <2>7 DEF Enumerates
<1>4. NumbersOK'
  BY <1>1, <1>2 DEF NumbersOK
<1>5. StackOK'
  <2>1. Len(stack') = 0
    BY <1>1
  <2> QED BY <1>1, <1>2, <2>1 DEF StackOK
<1>6. NestingOK'
  BY <1>1, <1>2 DEF NestingOK
<1>7. WaitingOK'
  BY <1>1, <1>2, <1>3 DEF WaitingOK
<1>8. /\ roots' \in Seq(Nodes) /\ stack' \in Seq(Nodes) /\ rest' \in [Nodes -> Seq(Nodes)]
      /\ counter' \in Nat
  BY <1>1, <1>3
<1> QED BY <1>1, <1>2, <1>4, <1>5, <1>6, <1>7, <1>8

(* Both parent functions point to instances, and they agree where nothing  *)
(* is stated.                                                              *)
LEMMA PreferredLemma ==
    ASSUME TypeOK
    PROVE  /\ Derivation \in [Nodes -> Nodes \cup {NoParent}] /\ IsForest(Derivation)
           /\ Preferred \in [Nodes -> Nodes \cup {NoParent}]
           /\ DOMAIN obj.stated = {} => Preferred = Derivation
           /\ \A x \in Nodes : x \notin DOMAIN obj.stated => Preferred[x] = Derivation[x]
<1>1. obj.insts \in Seq(Instance)
  BY NodesLemma
<1>2. Derivation \in [Nodes -> Nodes \cup {NoParent}] /\ IsForest(Derivation)
  BY <1>1, DerivedForest DEF Derivation, Nodes
<1> QED BY <1>2, OverriddenLemma DEF Preferred

(* When the walk of a forest is over, every instance has been entered: the *)
(* ones that have not have all their parents among themselves.             *)
LEMMA AllEntered ==
    ASSUME TypeOK, NumbersOK, StackOK, WaitingOK, stack = <<>>, roots = <<>>, IsForest(parent)
    PROVE  \A x \in Nodes : enter[x] # 0 /\ exit[x] # 0
<1> DEFINE S == {x \in Nodes : enter[x] = 0}
<1>1. Len(stack) = 0 /\ Len(roots) = 0 /\ parent \in [Nodes -> Nodes \cup {NoParent}]
  BY DEF TypeOK
<1>2. ASSUME NEW x \in S PROVE parent[x] \in S
  <2>1. parent[x] # NoParent
    <3> SUFFICES ASSUME parent[x] = NoParent PROVE FALSE
      OBVIOUS
    <3>1. x \in Waiting[NoParent]
      BY DEF Waiting
    <3>2. \E i \in 1 .. Len(roots) : roots[i] = x
      BY <3>1 DEF WaitingOK, Enumerates
    <3> QED BY <1>1, <3>2
  <2>2. parent[x] \in Nodes
    BY <1>1, <2>1
  <2> DEFINE p == parent[x]
  <2>3. x \in Waiting[p]
    BY <2>2 DEF Waiting
  <2>4. \E i \in 1 .. Len(rest[p]) : rest[p][i] = x
    BY <2>2, <2>3 DEF WaitingOK, Enumerates
  <2>5. rest[p] # <<>>
    BY <2>4
  <2>6. exit[p] = 0
    BY <2>2, <2>5 DEF WaitingOK
  <2>7. ~(\E i \in 1 .. Len(stack) : stack[i] = p)
    BY <1>1
  <2>8. enter[p] = 0
    BY <2>2, <2>6, <2>7 DEF StackOK
  <2> QED BY <2>2, <2>8
<1>3. S = {}
  <2>1. IsFiniteSet(Nodes) /\ NoParent \notin Nodes /\ S \subseteq Nodes
    BY NodesLemma
  <2> HIDE DEF S
  <2> QED BY <1>1, <1>2, <2>1, ForestHasNoCycle
<1>4. ASSUME NEW x \in Nodes PROVE enter[x] # 0 /\ exit[x] # 0
  <2>1. enter[x] # 0
    BY <1>3
  <2>2. ~(\E i \in 1 .. Len(stack) : stack[i] = x)
    BY <1>1
  <2> QED BY <2>1, <2>2 DEF StackOK
<1> QED BY <1>4

(* The first walk starts in the invariant.                                 *)
LEMMA DeriveStep ==
    ASSUME NumberingInv, Derive
    PROVE  NumberingInv'
<1>1. /\ stage = "derive" /\ StartWalk(Preferred)
      /\ obj' = obj /\ fellBack' = fellBack /\ owner' = owner
      /\ TypeOK /\ ~fellBack
  BY DEF Derive, NumberingInv, Preferred, Derivation
<1>2. /\ Nodes' = Nodes /\ parent' = Preferred /\ stage' = "walk"
      /\ roots' \in Seq(Nodes) /\ stack' \in Seq(Nodes) /\ rest' \in [Nodes -> Seq(Nodes)]
      /\ counter' \in Nat
      /\ enter' \in [Nodes -> Nat] /\ exit' \in [Nodes -> Nat] /\ level' \in [Nodes -> Nat]
      /\ NumbersOK' /\ StackOK' /\ NestingOK' /\ WaitingOK'
      /\ Preferred \in [Nodes -> Nodes \cup {NoParent}]
  BY <1>1, StartLemma, PreferredLemma
<1>3. TypeOK'
  BY <1>1, <1>2 DEF TypeOK
<1>4. ParentsOK'
  <2>1. Preferred' = Preferred /\ ~fellBack'
    BY <1>1 DEF Preferred, Derivation
  <2> QED BY <1>2, <2>1 DEF ParentsOK
<1> QED BY <1>2, <1>3, <1>4 DEF NumberingInv, Finished

(* The second walk is taken only when the stated parents close a cycle:    *)
(* the walk of a forest leaves nothing to number.                          *)
LEMMA FallbackStep ==
    ASSUME NumberingInv, Fallback
    PROVE  NumberingInv'
<1>1. /\ stage = "walk" /\ stack = <<>> /\ roots = <<>> /\ Numbered # Nodes /\ ~fellBack
      /\ fellBack' = TRUE /\ StartWalk(Derivation)
      /\ obj' = obj /\ owner' = owner
      /\ TypeOK /\ NumbersOK /\ StackOK
  BY DEF Fallback, WalkOver, NeedsFallback, NumberingInv, Derivation
<1>2. /\ Nodes' = Nodes /\ parent' = Derivation /\ stage' = "walk"
      /\ roots' \in Seq(Nodes) /\ stack' \in Seq(Nodes) /\ rest' \in [Nodes -> Seq(Nodes)]
      /\ counter' \in Nat
      /\ enter' \in [Nodes -> Nat] /\ exit' \in [Nodes -> Nat] /\ level' \in [Nodes -> Nat]
      /\ NumbersOK' /\ StackOK' /\ NestingOK' /\ WaitingOK'
      /\ Derivation \in [Nodes -> Nodes \cup {NoParent}]
  BY <1>1, StartLemma, PreferredLemma
<1>3. TypeOK'
  BY <1>1, <1>2 DEF TypeOK
<1>4. ~IsForest(Preferred)
  <2>1. obj.insts # <<>>
    BY <1>1 DEF Numbered, Nodes
  <2>2. WaitingOK /\ parent = Preferred
    BY <1>1, <2>1 DEF NumberingInv, ParentsOK
  <2> SUFFICES ASSUME IsForest(Preferred) PROVE FALSE
    OBVIOUS
  <2>3. \A x \in Nodes : enter[x] # 0
    BY <1>1, <2>2, AllEntered
  <2> QED BY <1>1, <2>3 DEF Numbered
<1>5. ParentsOK'
  <2>1. Preferred' = Preferred /\ Derivation' = Derivation /\ fellBack'
    BY <1>1 DEF Preferred, Derivation
  <2> QED BY <1>2, <1>4, <2>1 DEF ParentsOK
<1> QED BY <1>2, <1>3, <1>5 DEF NumberingInv, Finished

(* A step that leaves the walk alone keeps the invariant.                  *)
LEMMA SameStep ==
    ASSUME NumberingInv,
           UNCHANGED <<obj, parent, fellBack, roots, stack, rest, counter, enter, exit, level>>,
           stage' \in {"derive", "walk", "done"},
           stage' = "derive" => stage = "derive",
           stage = "derive" => stage' = "derive" \/ obj.insts = <<>>,
           Finished' => DoneOK'
    PROVE  NumberingInv'
<1>1. Nodes' = Nodes
  BY DEF Nodes
<1>2. Around' = Around /\ Waiting' = Waiting
  BY <1>1 DEF Around, Waiting
<1>3. TypeOK' /\ NumbersOK' /\ StackOK' /\ NestingOK'
  <2>1. TypeOK /\ NumbersOK /\ StackOK /\ NestingOK
    BY DEF NumberingInv
  <2>2. TypeOK'
    BY <1>1, <2>1 DEF TypeOK
  <2>3. NumbersOK'
    BY <1>1, <2>1 DEF NumbersOK
  <2>4. StackOK'
    <3>1. stack' = stack /\ enter' = enter /\ exit' = exit
      OBVIOUS
    <3>2. \A i \in 1 .. Len(stack') : enter'[stack'[i]] # 0 /\ exit'[stack'[i]] = 0
      BY <2>1, <3>1 DEF StackOK
    <3>3. \A x \in Nodes' : enter'[x] # 0 /\ exit'[x] = 0 =>
              \E i \in 1 .. Len(stack') : stack'[i] = x
      BY <1>1, <2>1, <3>1 DEF StackOK
    <3>4. \A i \in 1 .. Len(stack') : Around'[stack'[i]] = {stack'[j] : j \in 1 .. i - 1}
      <4> DEFINE Chain(a, s) == \A i \in 1 .. Len(s) : a[s[i]] = {s[j] : j \in 1 .. i - 1}
      <4>1. Chain(Around, stack)
        BY <2>1 DEF StackOK
      <4>2. Chain(Around', stack')
        <5> HIDE DEF Chain
        <5> QED BY <1>2, <3>1, <4>1
      <4> QED BY <4>2
    <3> QED BY <3>2, <3>3, <3>4 DEF StackOK
  <2>5. NestingOK'
    BY <1>1, <1>2, <2>1 DEF NestingOK
  <2> QED BY <2>2, <2>3, <2>4, <2>5
<1>4. ASSUME stage' # "derive", obj'.insts # <<>> PROVE WaitingOK' /\ ParentsOK'
  <2>1. WaitingOK /\ ParentsOK
    BY <1>4 DEF NumberingInv
  <2>2. WaitingOK'
    BY <1>1, <1>2, <2>1 DEF WaitingOK
  <2>3. ParentsOK'
    BY <2>1 DEF ParentsOK, Preferred, Derivation
  <2> QED BY <2>2, <2>3
<1>5. stage' = "derive" => ~fellBack'
  BY DEF NumberingInv
<1> QED BY <1>3, <1>4, <1>5 DEF NumberingInv

(* Placing the references keeps the invariant.                             *)
LEMMA PlaceRefsStep ==
    ASSUME NumberingInv, PlaceRefs
    PROVE  NumberingInv'
<1>1. /\ stage = "walk" /\ stack = <<>> /\ roots = <<>> /\ ~NeedsFallback
      /\ UNCHANGED <<obj, parent, fellBack, roots, stack, rest, counter, enter, exit, level>>
      /\ stage' = "done"
  BY DEF PlaceRefs, WalkOver
<1>2. ~NeedsFallback'
  BY <1>1 DEF NeedsFallback, Numbered, Nodes
<1>3. DoneOK'
  BY <1>1, <1>2 DEF DoneOK, PlaceRefs
<1> QED BY <1>1, <1>3, SameStep

(* Every state numberObjectTree and numberForest go through satisfies the  *)
(* invariant: numbers are handed out once, the open intervals are the      *)
(* walk's stack, and what is not entered still waits under its parent.     *)
THEOREM NumberingInvariant == NumberingSpec => []NumberingInv
<1>1. NumberingInit => NumberingInv
  <2> SUFFICES ASSUME NumberingInit PROVE NumberingInv
    OBVIOUS
  <2>1. obj \in Objects /\ obj.insts \in Seq(Instance)
    BY ObjectAssumption DEF NumberingInit
  <2>2. /\ parent = [x \in Nodes |-> NoParent] /\ stage = "derive" /\ fellBack = FALSE
        /\ roots = <<>> /\ stack = <<>> /\ rest = [x \in Nodes |-> <<>>] /\ counter = 0
        /\ enter = [x \in Nodes |-> 0] /\ exit = [x \in Nodes |-> 0] /\ level = [x \in Nodes |-> 0]
    BY DEF NumberingInit, Zero
  <2>3. TypeOK
    <3> DEFINE e == <<>>
    <3>1. e \in Seq(Nodes)
      OBVIOUS
    <3>2. roots = e /\ stack = e /\ rest = [x \in Nodes |-> e]
      BY <2>2
    <3> HIDE DEF e
    <3>3. roots \in Seq(Nodes) /\ stack \in Seq(Nodes) /\ rest \in [Nodes -> Seq(Nodes)]
      BY <3>1, <3>2
    <3> QED BY <2>1, <2>2, <3>3 DEF TypeOK
  <2>4. NumbersOK
    BY <2>2 DEF NumbersOK
  <2>5. StackOK
    <3>1. Len(stack) = 0
      BY <2>2
    <3> QED BY <2>2, <3>1 DEF StackOK
  <2>6. NestingOK
    BY <2>2 DEF NestingOK
  <2> QED BY <2>2, <2>3, <2>4, <2>5, <2>6 DEF NumberingInv, Finished
<1>2. NumberingInv /\ [NumberingNext]_numberingVars => NumberingInv'
  <2> SUFFICES ASSUME NumberingInv, [NumberingNext]_numberingVars PROVE NumberingInv'
    OBVIOUS
  <2>1. CASE Derive
    BY <2>1, DeriveStep
  <2>2. CASE NothingToNumber
    <3>1. obj.insts = <<>> /\ obj'.insts = <<>>
      BY <2>2 DEF NothingToNumber
    <3> QED BY <2>2, <3>1, SameStep DEF NothingToNumber, Finished
  <2>3. CASE EnterRoot
    BY <2>3, EnterRootStep
  <2>4. CASE Descend
    BY <2>4, DescendStep
  <2>5. CASE Ascend
    BY <2>5, AscendStep
  <2>6. CASE Fallback
    BY <2>6, FallbackStep
  <2>7. CASE PlaceRefs
    BY <2>7, PlaceRefsStep
  <2>8. CASE Done \/ UNCHANGED numberingVars
    <3>1. UNCHANGED numberingVars
      BY <2>8 DEF Done
    <3>2. Finished => DoneOK
      BY DEF NumberingInv
    <3>3. Finished' => DoneOK'
      BY <3>1, <3>2 DEF numberingVars, Finished, DoneOK, NeedsFallback, Numbered, Nodes
    <3>4. stage' = stage /\ stage \in {"derive", "walk", "done"}
      BY <3>1 DEF numberingVars, NumberingInv, TypeOK
    <3> QED BY <3>1, <3>3, <3>4, SameStep DEF numberingVars
  <2> QED BY <2>1, <2>2, <2>3, <2>4, <2>5, <2>6, <2>7, <2>8 DEF NumberingNext
<1> QED BY <1>1, <1>2, PTL DEF NumberingSpec

(* At every moment of the walk of numberForest the intervals of two        *)
(* instances that have been left are nested or disjoint, and each is at    *)
(* least dfsStride wide: no query sees two of them cross.                  *)
THEOREM LaminarTheorem == NumberingSpec => []Laminar
<1>1. NumberingInv => Laminar
  <2> SUFFICES ASSUME NumberingInv, NEW x \in Nodes, NEW y \in Nodes, exit[x] # 0, exit[y] # 0, x # y
               PROVE  /\ exit[x] - enter[x] >= Stride
                      /\ enter[x] # enter[y]
                      /\ enter[x] < enter[y] => exit[x] < enter[y] \/ exit[y] < exit[x]
    BY DEF Laminar
  <2>1. /\ exit[x] - enter[x] >= Stride /\ enter[x] # 0 /\ enter[y] # 0 /\ enter[x] # enter[y]
        /\ exit[x] # enter[y]
    BY DEF NumberingInv, NumbersOK
  <2>2. enter[x] \in Nat /\ enter[y] \in Nat /\ exit[x] \in Nat /\ exit[y] \in Nat
    BY DEF NumberingInv, TypeOK
  <2>3. ASSUME enter[x] < enter[y] PROVE exit[x] < enter[y] \/ exit[y] < exit[x]
    <3>1. CASE enter[y] < exit[x]
      <4>1. x \in Around[y]
        BY <2>1, <2>3, <3>1 DEF Around
      <4> QED BY <2>1, <4>1 DEF NumberingInv, NestingOK
    <3>2. CASE ~(enter[y] < exit[x])
      BY <2>1, <2>2, <3>2
    <3> QED BY <3>1, <3>2
  <2> QED BY <2>1, <2>3
<1> QED BY <1>1, NumberingInvariant, PTL

(* A finished object: everything is entered and left, and the parents in   *)
(* use are the ones Parents states.                                        *)
LEMMA FinishedLemma ==
    ASSUME NumberingInv, Finished
    PROVE  /\ \A x \in Nodes : enter[x] # 0 /\ exit[x] # 0
           /\ parent = Parents(obj.insts, obj.stated)
           /\ IsForest(parent)
           /\ \A x \in Nodes : fellBack \/ x \notin DOMAIN obj.stated => parent[x] = Derivation[x]
<1>1. TypeOK /\ NumbersOK /\ StackOK /\ NestingOK /\ WaitingOK /\ ParentsOK /\ DoneOK
  BY DEF NumberingInv, Finished
<1>2. stack = <<>> /\ roots = <<>> /\ ~NeedsFallback
  BY <1>1 DEF DoneOK
<1>3. /\ IsForest(Derivation) /\ (DOMAIN obj.stated = {} => Preferred = Derivation)
      /\ \A x \in Nodes : x \notin DOMAIN obj.stated => Preferred[x] = Derivation[x]
  BY <1>1, PreferredLemma
<1>4. IsForest(parent)
  <2>1. CASE fellBack \/ DOMAIN obj.stated = {}
    BY <1>1, <1>3, <2>1 DEF ParentsOK
  <2>2. CASE Numbered = Nodes
    <3>1. \A x \in Nodes : enter[x] # 0
      BY <2>2 DEF Numbered
    <3>2. ASSUME NEW x \in Nodes, parent[x] # NoParent PROVE enter[parent[x]] < enter[x]
      <4>1. parent[x] \in Around[x]
        BY <1>1, <3>1, <3>2 DEF NestingOK
      <4> QED BY <4>1 DEF Around
    <3>3. /\ IsFiniteSet(Nodes) /\ NoParent \notin Nodes
          /\ parent \in [Nodes -> Nodes \cup {NoParent}] /\ enter \in [Nodes -> Nat]
      BY <1>1, NodesLemma DEF TypeOK
    <3> QED BY <3>2, <3>3, ForestLemma
  <2> QED BY <1>2, <2>1, <2>2 DEF NeedsFallback
<1>5. \A x \in Nodes : enter[x] # 0 /\ exit[x] # 0
  BY <1>1, <1>2, <1>4, AllEntered
<1>6. parent = Parents(obj.insts, obj.stated)
  BY <1>1, <1>4 DEF ParentsOK, Parents, Preferred, Derivation
<1>7. ASSUME NEW x \in Nodes, fellBack \/ x \notin DOMAIN obj.stated
      PROVE  parent[x] = Derivation[x]
  BY <1>1, <1>3, <1>7 DEF ParentsOK
<1> QED BY <1>4, <1>5, <1>6, <1>7

(* When numberObjectTree returns, every instance has an interval, whatever *)
(* parents were stated: cycles are caught by the second walk.              *)
THEOREM EveryInstanceNumberedTheorem == NumberingSpec => []EveryInstanceNumbered
<1>1. NumberingInv => EveryInstanceNumbered
  BY FinishedLemma DEF EveryInstanceNumbered
<1> QED BY <1>1, NumberingInvariant, PTL

(* The instances around y are the ones above it.                           *)
LEMMA AncestorsLemma ==
    ASSUME NumberingInv, Finished
    PROVE  \A y \in Nodes : Around[y] = Ancestors(y)
<1>1. /\ TypeOK /\ NestingOK /\ IsForest(parent)
      /\ \A x \in Nodes : enter[x] # 0
  BY FinishedLemma DEF NumberingInv
<1>2. /\ parent \in [Nodes -> Nodes \cup {NoParent}] /\ enter \in [Nodes -> Nat]
      /\ NoParent \notin Nodes /\ Nodes = 1 .. Len(obj.insts) /\ Nodes \subseteq Nat
      /\ Len(obj.insts) \in Nat
  <2>1. obj.insts \in Seq(Instance)
    BY <1>1, NodesLemma
  <2> QED BY <1>1, <2>1, NodesLemma DEF TypeOK
<1> DEFINE n == Len(obj.insts)
           C(y, k) == Climb(parent, y, k)
           A(y) == {C(y, k) : k \in Nat \ {0}} \ {NoParent}
<1>3. ASSUME NEW y \in Nodes
      PROVE  /\ C(y, 0) = y
             /\ \A k \in Nat : /\ C(y, k) \in Nodes \cup {NoParent}
                               /\ C(y, k + 1) = IF C(y, k) = NoParent THEN NoParent
                                                ELSE parent[C(y, k)]
  <2>1. y \in Nodes \cup {NoParent}
    OBVIOUS
  <2>2. NoParent \notin Nodes /\ parent \in [Nodes -> Nodes \cup {NoParent}]
    BY <1>2
  <2> QED BY <2>1, <2>2, ClimbLemma
<1>4. ASSUME NEW y \in Nodes PROVE C(y, n) = NoParent
  <2>1. Cardinality(Nodes) = n
    <3>1. Cardinality(1 .. n) = IF 1 > n THEN 0 ELSE n - 1 + 1
      BY <1>2, FS_Interval
    <3> QED BY <1>2, <3>1
  <2>2. DOMAIN parent = Nodes
    BY <1>2
  <2> QED BY <1>1, <2>1, <2>2 DEF IsForest
<1> HIDE DEF C
<1>5. ASSUME NEW y \in Nodes PROVE Ancestors(y) = A(y)
  <2>1. ASSUME NEW k \in Nat PROVE C(y, n + k) = NoParent
    <3> DEFINE T == {j \in Nat : C(y, n + j) = NoParent}
    <3>1. 0 \in T
      BY <1>2, <1>4
    <3>2. ASSUME NEW j \in Nat, j \in T PROVE j + 1 \in T
      <4>1. n + j \in Nat /\ n + (j + 1) = (n + j) + 1
        <5>1. n \in Nat
          BY <1>2
        <5> HIDE DEF n
        <5> QED BY <5>1
      <4> QED BY <1>3, <3>2, <4>1
    <3>3. k \in T
      <4> HIDE DEF T
      <4> QED BY <3>1, <3>2, SetInduction
    <3> QED BY <3>3
  <2>2. ASSUME NEW k \in Nat \ {0}, C(y, k) # NoParent PROVE k \in 1 .. n
    <3>1. ~(k > n)
      <4> SUFFICES ASSUME k > n PROVE FALSE
        OBVIOUS
      <4>1. k - n \in Nat /\ n + (k - n) = k
        BY <1>2
      <4>2. C(y, n + (k - n)) = NoParent
        BY <2>1, <4>1
      <4> QED BY <2>2, <4>1, <4>2
    <3> QED BY <1>2, <3>1
  <2>3. Ancestors(y) = {C(y, k) : k \in 1 .. n} \ {NoParent}
    BY DEF Ancestors, C
  <2>4. \A k \in 1 .. n : k \in Nat \ {0}
    BY <1>2
  <2> QED BY <2>2, <2>3, <2>4
<1>6. ASSUME NEW y \in Nodes, NEW k \in Nat, parent[y] \in Nodes
      PROVE  C(y, k + 1) = C(parent[y], k)
  <2> DEFINE T == {j \in Nat : C(y, j + 1) = C(parent[y], j)}
  <2>1. 0 \in T
    <3>1. C(y, 0) = y /\ y # NoParent /\ C(parent[y], 0) = parent[y]
      BY <1>2, <1>3, <1>6
    <3>2. C(y, 0 + 1) = parent[y]
      BY <1>3, <3>1
    <3> QED BY <3>1, <3>2
  <2>2. ASSUME NEW j \in Nat, j \in T PROVE j + 1 \in T
    <3>1. j + 1 \in Nat
      OBVIOUS
    <3>2. C(y, (j + 1) + 1) = IF C(y, j + 1) = NoParent THEN NoParent ELSE parent[C(y, j + 1)]
      BY <1>3, <3>1
    <3>3. C(parent[y], j + 1) =
             IF C(parent[y], j) = NoParent THEN NoParent ELSE parent[C(parent[y], j)]
      BY <1>3, <1>6
    <3> QED BY <2>2, <3>1, <3>2, <3>3
  <2>3. k \in T
    <3> HIDE DEF T
    <3> QED BY <2>1, <2>2, SetInduction
  <2> QED BY <2>3
<1>7. ASSUME NEW y \in Nodes, parent[y] \in Nodes PROVE A(y) = A(parent[y]) \cup {parent[y]}
  <2>1. parent[y] # NoParent /\ C(parent[y], 0) = parent[y]
    BY <1>2, <1>3, <1>7
  <2>2. ASSUME NEW k \in Nat \ {0}, C(y, k) # NoParent PROVE C(y, k) \in A(parent[y]) \cup {parent[y]}
    <3>1. k - 1 \in Nat /\ (k - 1) + 1 = k
      OBVIOUS
    <3>2. C(y, k) = C(parent[y], k - 1)
      BY <1>6, <1>7, <3>1
    <3>3. CASE k - 1 = 0
      BY <2>1, <3>2, <3>3
    <3>4. CASE k - 1 # 0
      BY <2>2, <3>1, <3>2, <3>4
    <3> QED BY <3>3, <3>4
  <2>3. ASSUME NEW k \in Nat, C(parent[y], k) # NoParent PROVE C(parent[y], k) \in A(y)
    <3>1. k + 1 \in Nat \ {0} /\ C(y, k + 1) = C(parent[y], k)
      BY <1>6, <1>7
    <3> QED BY <2>3, <3>1
  <2>4. A(y) \subseteq A(parent[y]) \cup {parent[y]}
    BY <2>2
  <2>5. A(parent[y]) \subseteq A(y)
    BY <2>3
  <2>6. parent[y] \in A(y)
    <3>1. C(parent[y], 0) \in A(y)
      BY <2>1, <2>3
    <3> QED BY <2>1, <3>1
  <2> HIDE DEF A
  <2> QED BY <2>4, <2>5, <2>6
<1>8. ASSUME NEW y \in Nodes, parent[y] = NoParent PROVE A(y) = {}
  <2>1. C(y, 0) = y /\ y # NoParent
    BY <1>2, <1>3
  <2>2. C(y, 0 + 1) = NoParent
    BY <1>3, <1>8, <2>1
  <2> DEFINE T == {k \in Nat : C(y, k + 1) = NoParent}
  <2>3. 0 \in T
    BY <2>2
  <2>4. ASSUME NEW k \in Nat, k \in T PROVE k + 1 \in T
    <3>1. k + 1 \in Nat
      OBVIOUS
    <3> QED BY <1>3, <2>4, <3>1
  <2>5. Nat \subseteq T
    <3> HIDE DEF T
    <3> QED BY <2>3, <2>4, SetInduction
  <2>6. ASSUME NEW k \in Nat \ {0} PROVE C(y, k) = NoParent
    <3>1. k - 1 \in Nat /\ (k - 1) + 1 = k
      OBVIOUS
    <3> QED BY <2>5, <3>1
  <2> QED BY <2>6
<1> HIDE DEF A, n
<1>9. \A y \in Nodes : Around[y] = A(y)
  <2> DEFINE Bad == {y \in Nodes : Around[y] # A(y)}
             M == {enter[y] : y \in Bad}
  <2> SUFFICES ASSUME Bad # {} PROVE FALSE
    OBVIOUS
  <2>1. M \subseteq Nat /\ M # {}
    BY <1>2
  <2>2. PICK m \in M : \A k \in M : m <= k
    <3> HIDE DEF M
    <3> QED BY <2>1, LeastNat
  <2>3. PICK y \in Bad : enter[y] = m
    BY <2>2
  <2>4. parent[y] \in Nodes
    <3> SUFFICES ASSUME parent[y] = NoParent PROVE FALSE
      BY <1>2, <2>3
    <3>1. Around[y] = {}
      BY <1>1, <2>3 DEF NestingOK
    <3> QED BY <1>8, <2>3, <3>1
  <2> DEFINE p == parent[y]
  <2>5. Around[y] = Around[p] \cup {p}
    BY <1>1, <1>2, <2>3, <2>4 DEF NestingOK
  <2>6. enter[p] < enter[y]
    <3>1. p \in Around[y]
      BY <2>5
    <3> QED BY <2>3, <3>1 DEF Around
  <2>7. p \notin Bad
    <3> SUFFICES ASSUME p \in Bad PROVE FALSE
      OBVIOUS
    <3>1. enter[p] \in M
      OBVIOUS
    <3>2. enter[y] <= enter[p]
      BY <2>2, <2>3, <3>1
    <3>3. enter[p] \in Nat /\ enter[y] \in Nat
      BY <1>2, <2>3, <2>4
    <3> QED BY <2>6, <3>2, <3>3
  <2>8. Around[p] = A(p)
    BY <2>4, <2>7
  <2> QED BY <1>7, <2>3, <2>4, <2>5, <2>8
<1> QED BY <1>5, <1>9

(* When numberObjectTree returns, one instance is inside another by its    *)
(* DfsEnter and DfsExit exactly when the other is an ancestor of it by the *)
(* parents in use, and its NestingLevel is the number of its ancestors.    *)
THEOREM NumbersEncodeParentsTheorem == NumberingSpec => []NumbersEncodeParents
<1>1. NumberingInv => NumbersEncodeParents
  <2> SUFFICES ASSUME NumberingInv, Finished
               PROVE  /\ parent = Parents(obj.insts, obj.stated)
                      /\ \A y \in Nodes :
                            /\ {x \in Nodes : Inside(y, x)} = Ancestors(y)
                            /\ level[y] = Cardinality(Ancestors(y))
    BY DEF NumbersEncodeParents
  <2>1. parent = Parents(obj.insts, obj.stated) /\ \A x \in Nodes : enter[x] # 0 /\ exit[x] # 0
    BY FinishedLemma
  <2>2. ASSUME NEW y \in Nodes
        PROVE  {x \in Nodes : Inside(y, x)} = Ancestors(y) /\ level[y] = Cardinality(Ancestors(y))
    <3>1. Around[y] = Ancestors(y)
      BY AncestorsLemma
    <3>2. Around[y] = {x \in Nodes : Inside(y, x)}
      BY <2>1 DEF Around, Inside
    <3>3. level[y] = Cardinality(Around[y])
      BY <2>1 DEF NumberingInv, NestingOK
    <3> QED BY <3>1, <3>2, <3>3
  <2> QED BY <2>1, <2>2
<1> QED BY <1>1, NumberingInvariant, PTL

(* No instance of an object ends before it starts. *)
LEMMA ProperLemma ==
    ASSUME TypeOK
    PROVE  Proper(obj.insts)
  BY ObjectAssumption DEF TypeOK, Proper

(* The sweep of deriveParents gives an instance the narrowest one that     *)
(* contains it for a parent, also where ranges overlap partially.          *)
THEOREM DerivedIsInnermostTheorem == NumberingSpec => []DerivedIsInnermost
<1>1. NumberingInv => DerivedIsInnermost
  <2> SUFFICES ASSUME NumberingInv, Finished,
                      NEW x \in Nodes, fellBack \/ x \notin DOMAIN obj.stated
               PROVE  \/ parent[x] = NoParent /\ Containers(x) = {}
                      \/ /\ parent[x] \in Containers(x)
                         /\ \A c \in Containers(x) :
                               ~ContainsInst(obj.insts[parent[x]], obj.insts[c])
    BY DEF DerivedIsInnermost
  <2>1. TypeOK /\ obj.insts \in Seq(Instance) /\ Nodes = DOMAIN obj.insts /\ Proper(obj.insts)
    BY NodesLemma, ProperLemma DEF NumberingInv, Nodes
  <2>2. parent[x] = Derived(obj.insts)[x]
    BY FinishedLemma DEF Derivation
  <2>3. /\ \/ parent[x] = NoParent
           \/ parent[x] \in Nodes /\ ContainsInst(obj.insts[parent[x]], obj.insts[x])
        /\ \A c \in Nodes : ContainsInst(obj.insts[c], obj.insts[x]) =>
              parent[x] # NoParent /\ ~ContainsInst(obj.insts[parent[x]], obj.insts[c])
    BY <2>1, <2>2, DerivedLemma
  <2>4. ~ContainsInst(obj.insts[x], obj.insts[x])
    BY <2>1, ContainsLemma
  <2> QED BY <2>3, <2>4 DEF Containers
<1> QED BY <1>1, NumberingInvariant, PTL

(* numberRefs places a reference in an instance that covers it and in no   *)
(* wider one than it must, and at a root only when nothing covers it.      *)
THEOREM RefInInnermostTheorem == NumberingSpec => []RefInInnermost
<1>1. NumberingInv => RefInInnermost
  <2> SUFFICES ASSUME NumberingInv, Finished,
                      NEW r \in DOMAIN obj.refs
               PROVE  LET covering == {x \in Nodes : Covers(obj.insts[x], obj.refs[r])}
                      IN  IF covering = {} THEN parent[owner[r]] = NoParent
                          ELSE /\ owner[r] \in covering
                               /\ \A x \in covering :
                                     ~ContainsInst(obj.insts[owner[r]], obj.insts[x])
    BY DEF RefInInnermost
  <2> DEFINE o == Owner(obj.insts, obj.refs[r])
             first == Kids(obj.insts, parent, NoParent)
             S == {x \in Nodes : parent[x] = NoParent}
  <2>1. /\ TypeOK /\ obj.insts \in Seq(Instance) /\ Nodes = DOMAIN obj.insts
        /\ Proper(obj.insts) /\ parent \in [Nodes -> Nodes \cup {NoParent}]
    BY NodesLemma, ProperLemma DEF NumberingInv, TypeOK, Nodes
  <2>2. /\ obj.refs[r] \in [start : Int, end : Int]
        /\ obj.refs[r].start <= obj.refs[r].end
    <3>1. obj.refs \in Seq([start : Int, end : Int])
      BY <2>1, ObjectAssumption DEF TypeOK
    <3>2. obj.refs[r].start <= obj.refs[r].end
      BY <2>1, ObjectAssumption DEF TypeOK
    <3>3. r \in 1 .. Len(obj.refs)
      BY <3>1
    <3> QED BY <3>1, <3>2, <3>3, ElementLemma
  <2>3. /\ \/ o = NoParent
           \/ o \in Nodes /\ Covers(obj.insts[o], obj.refs[r])
        /\ \A c \in Nodes : Covers(obj.insts[c], obj.refs[r]) =>
              o # NoParent /\ ~ContainsInst(obj.insts[o], obj.insts[c])
    BY <2>1, <2>2, OwnerLemma
  <2>4. first \in Seq(S) /\ \A x \in S : \E k \in 1 .. Len(first) : first[k] = x
    <3>1. DOMAIN parent = Nodes /\ S \subseteq DOMAIN obj.insts
      BY <2>1
    <3>2. first = Sorted(obj.insts, S)
      BY <3>1 DEF Kids
    <3>3. obj.insts \in Seq(Instance) /\ S \subseteq DOMAIN obj.insts
      BY <2>1, <3>1
    <3> HIDE DEF S, first
    <3> DEFINE s == Sorted(obj.insts, S)
    <3>4. s \in Seq(S) /\ \A x \in S : \E k \in 1 .. Len(s) : s[k] = x
      BY <3>3, SortedLemma
    <3> QED BY <3>2, <3>4
  <2>5. S # {}
    <3> SUFFICES ASSUME S = {} PROVE FALSE
      OBVIOUS
    <3>1. \A x \in Nodes : parent[x] \in Nodes
      BY <2>1
    <3>2. IsForest(parent) /\ IsFiniteSet(Nodes) /\ NoParent \notin Nodes
      BY <2>1, FinishedLemma, NodesLemma
    <3>3. Nodes = {}
      BY <2>1, <3>1, <3>2, ForestHasNoCycle
    <3>4. 1 \notin Nodes
      BY <3>3
    <3>5. obj.insts \in Seq(Instance) /\ obj.insts # <<>> /\ Nodes = DOMAIN obj.insts
      BY <2>1 DEF Finished
    <3>6. 1 \in DOMAIN obj.insts
      BY <3>5
    <3> QED BY <3>4, <3>5, <3>6
  <2>6. first # <<>> /\ Head(first) \in S
    <3> HIDE DEF S, first
    <3>1. first # <<>>
      BY <2>4, <2>5
    <3> QED BY <2>4, <3>1
  <2>7. owner[r] = IF o = NoParent THEN Head(first) ELSE o
    <3>1. owner = [q \in DOMAIN obj.refs |->
                     IF first = <<>> THEN NoParent
                     ELSE IF Owner(obj.insts, obj.refs[q]) = NoParent THEN Head(first)
                          ELSE Owner(obj.insts, obj.refs[q])]
      BY DEF NumberingInv, DoneOK
    <3> HIDE DEF first
    <3> QED BY <2>6, <3>1
  <2>8. NoParent \notin Nodes
    BY <2>1, NodesLemma
  <2> HIDE DEF o, first
  <2> QED BY <2>3, <2>6, <2>7, <2>8
<1> QED BY <1>1, NumberingInvariant, PTL
=============================================================================
