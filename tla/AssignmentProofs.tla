-------------------------- MODULE AssignmentProofs --------------------------
(***************************************************************************)
(* What the two traversals of an assignment parser connect, for every file *)
(* and any number of values at a node.  A traversal holds a front: nodes   *)
(* in the order of the source, none above another.  What it has done is    *)
(* before the front, and what it has yet to do is at or below it; a body   *)
(* is done by the inner traversal while its declaration is at the head of  *)
(* the outer one.                                                          *)
(*                                                                         *)
(* And what one node connects, for every set of types and any number of    *)
(* slots and values: a slot is connected with nothing but what it is owed, *)
(* nothing that is certain is missing, and nothing that compiles is        *)
(* refused without one of three reasons.                                   *)
(***************************************************************************)
EXTENDS AssignmentWalk, ValueFlow, Lemmas

Tree ==
    /\ parent \in [Nodes -> Nodes] /\ parent[1] = 1
    /\ \A n \in Nodes \ {1} : parent[n] < n
    /\ kind \in [Nodes -> Kinds \cup {"file"}]
    /\ \A n \in Nodes : kind[n] = "file" <=> n = 1
    /\ WellFormed

(* A front of a traversal, and the nodes it has yet to reach from it. *)
IsFront(s) == \A i, j \in DOMAIN s : i < j => s[i] < s[j] /\ s[i] \notin Above[s[j]]
Ahead(n, s) == \E k \in DOMAIN s : n = s[k] \/ s[k] \in Above[n]

BodyNodes == [k \in DOMAIN body |-> body[k].node]

IsFunctionOf(f, n) == f \in Above[n] \cap Functions /\ \A g \in Above[n] \cap Functions : g <= f

TypesOK ==
    /\ fails \in [Nodes -> 0 .. Slots] /\ continueOnError \in BOOLEAN
    /\ todo \in Seq(Nodes) /\ decl \in 0 .. Size
    /\ body \in Seq([node : Nodes, function : Nodes])
    /\ log \in Seq([node : Nodes, slot : 1 .. Slots, function : 0 .. Size])
    /\ err \in BOOLEAN /\ result \in {"none", "ok", "error"}

(* Below the front there is no operand of a plain call, before an error.   *)
OuterOK ==
    /\ IsFront(todo)
    /\ ~err => \A k \in DOMAIN todo : \A m \in Above[todo[k]] : kind[m] # "plaincall"

(* The inner traversal is in the body of the declaration that the outer    *)
(* one is at, and knows the function of each node before it.               *)
InnerOK ==
    /\ IsFront(BodyNodes)
    /\ decl = 0 => body = <<>>
    /\ decl # 0 => ~err /\ todo # <<>> /\ decl = Head(todo) /\ kind[decl] = "func"
    /\ \A k \in DOMAIN body :
          decl \in Above[body[k].node] /\ IsFunctionOf(body[k].function, body[k].node)

(* A node the traversal that connects it has gone past: the outer one, or, *)
(* for a return, the inner one of its declaration.                         *)
Passed(n) ==
    /\ kind[n] \in Connecting => \A k \in DOMAIN todo : n < todo[k]
    /\ kind[n] = "return" =>
          \A f \in Above[n] : kind[f] = "func" =>
              \/ \A k \in DOMAIN todo : f < todo[k]
              \/ f = decl /\ \A k \in DOMAIN body : n < body[k].node

LogOK ==
    \A k \in DOMAIN log :
        /\ log[k].node \in Reached
        /\ Passed(log[k].node)
        /\ ~err => fails[log[k].node] = 0

(* What is yet to be connected is ahead of the traversal that connects it. *)
Pending(n) ==
    IF kind[n] = "return"
    THEN \A f \in Above[n] : kind[f] = "func" => IF f = decl THEN Ahead(n, BodyNodes) ELSE Ahead(f, todo)
    ELSE Ahead(n, todo)

Full(n) == \A s \in 1 .. Slots : \E k \in DOMAIN log : log[k].node = n /\ log[k].slot = s

NothingMissed == ~err => \A n \in Reached : Full(n) \/ Pending(n)

EndOK ==
    /\ err => \E n \in Reached : fails[n] # 0
    /\ result # "none" => todo = <<>> /\ result = IF err /\ ~continueOnError THEN "error" ELSE "ok"

IInv ==
    /\ Tree /\ TypesOK /\ OuterOK /\ InnerOK /\ LogOK
    /\ ReturnsOfOwnFunction /\ ConnectedOnce /\ NothingMissed /\ EndOK

-----------------------------------------------------------------------------
(* The tree *)

LEMMA NodesAreNumbers == Nodes \subseteq Nat \ {0} /\ 1 \in Nodes /\ Size \in Nat /\ Slots \in Nat \ {0}
  BY WalkAssumption DEF Nodes

(* The file is a tree. *)
LEMMA IsTreeLemma == ASSUME Tree PROVE IsTree(Size, parent, Above)
<1>1. /\ Size \in Nat /\ Nodes = 1 .. Size
      /\ \A n \in 1 .. Size : n # 1 => parent[n] \in 1 .. n - 1
  <2>1. ASSUME NEW n \in Nodes, n # 1 PROVE parent[n] \in 1 .. n - 1
    <3>1. parent[n] \in Nodes /\ parent[n] < n
      BY <2>1 DEF Tree
    <3> QED BY <3>1 DEF Nodes
  <2> QED BY <2>1, NodesAreNumbers DEF Nodes
<1>2. PICK g \in [1 .. Size -> SUBSET (1 .. Size)] : AreAbove(Size, parent, g)
  <2>1. ParentsFirst(Size, parent)
    BY <1>1 DEF ParentsFirst
  <2> QED BY <1>1, <2>1, AncestorsExist, Zenon
<1> DEFINE D(a) == [n \in DOMAIN parent |-> IF n = 1 THEN {} ELSE {parent[n]} \cup a[parent[n]]]
<1>3. DOMAIN parent = 1 .. Size
  BY <1>1 DEF Tree
<1>4. g = D(g)
  BY <1>2, <1>3 DEF AreAbove
<1>5. Above = CHOOSE a : a = D(a)
  BY DEF Above, AncestorsIn
<1>6. Above = D(Above)
  <2> HIDE DEF D
  <2> QED BY <1>4, <1>5
<1>7. \A n \in 1 .. Size : Above[n] = IF n = 1 THEN {} ELSE {parent[n]} \cup Above[parent[n]]
  BY <1>3, <1>6
<1>8. \A n \in 1 .. Size : n # 1 => parent[n] \in {n - 1} \cup Above[n - 1]
  BY <1>1 DEF Tree, WellFormed
<1> QED BY <1>1, <1>7, <1>8 DEF IsTree, ParentsFirst, AreAbove

(* What is above a node: itself before it, with all that is above it, and  *)
(* above everything between the two; and one of its children is on the way *)
(* to the node.                                                            *)
LEMMA TreeLemma ==
    ASSUME Tree
    PROVE  /\ \A n \in Nodes : Above[n] \in SUBSET Nodes
           /\ Above[1] = {}
           /\ \A n \in Nodes \ {1} : parent[n] \in Nodes /\ Above[n] = {parent[n]} \cup Above[parent[n]]
           /\ \A n \in Nodes : \A a \in Above[n] : a < n /\ Above[a] \subseteq Above[n]
           /\ \A a, m, c \in Nodes : a \in Above[c] /\ a < m /\ m <= c => a \in Above[m]
           /\ \A n \in Nodes : \A a \in Above[n] :
                 \E k \in Nodes \ {1} : parent[k] = a /\ (k = n \/ k \in Above[n])
<1>1. Size \in Nat \ {0} /\ Nodes = 1 .. Size
  BY WalkAssumption DEF Nodes
<1> QED BY <1>1, IsTreeLemma, TreeOrder

(* Declarations are in the file, so a node is below one of them at most.   *)
LEMMA DeclarationsApart ==
    ASSUME Tree
    PROVE  /\ \A f \in Nodes : kind[f] = "func" => f # 1 /\ Above[f] = {1}
           /\ \A n \in Nodes : \A f, g \in Above[n] : kind[f] = "func" /\ kind[g] = "func" => f = g
<1>1. ASSUME NEW f \in Nodes, kind[f] = "func" PROVE f # 1 /\ Above[f] = {1}
  <2>1. f # 1
    BY <1>1 DEF Tree
  <2>2. parent[f] = 1
    BY <1>1, <2>1 DEF Tree, WellFormed
  <2> QED BY <2>1, <2>2, TreeLemma
<1>2. ASSUME NEW n \in Nodes, NEW f \in Above[n], NEW g \in Above[n], kind[f] = "func", kind[g] = "func", f < g
      PROVE  FALSE
  <2>1. f \in Nodes /\ g \in Nodes /\ g < n /\ n \in Nat /\ g \in Nat
    BY TreeLemma, NodesAreNumbers
  <2>2. f \in Above[g]
    BY <1>2, <2>1, TreeLemma
  <2> QED BY <1>1, <1>2, <2>1, <2>2
<1>3. ASSUME NEW n \in Nodes, NEW f \in Above[n], NEW g \in Above[n], kind[f] = "func", kind[g] = "func"
      PROVE  f = g
  <2>1. f \in Nat /\ g \in Nat
    BY TreeLemma, NodesAreNumbers
  <2>2. ~(f < g) /\ ~(g < f)
    BY <1>2, <1>3
  <2> QED BY <2>1, <2>2
<1> QED BY <1>1, <1>3

(* A node's own function is the innermost above it.                        *)
LEMMA FunctionOfLemma ==
    ASSUME Tree, NEW n \in Nodes, NEW f, IsFunctionOf(f, n)
    PROVE  f \in Nodes /\ FunctionOf(n) = f
<1>1. \A g \in Above[n] : g \in Nat /\ g \in Nodes
  BY TreeLemma, NodesAreNumbers
<1>2. \A g : IsFunctionOf(g, n) => g = f
  BY <1>1 DEF IsFunctionOf
<1>3. FunctionOf(n) = CHOOSE g : g \in Above[n] \cap Functions /\ \A h \in Above[n] \cap Functions : h <= g
  BY DEF FunctionOf
<1> QED BY <1>1, <1>2, <1>3 DEF IsFunctionOf

-----------------------------------------------------------------------------
(* Fronts *)

LEMMA InOrderLemma ==
    ASSUME NEW S, S \subseteq Nodes
    PROVE  /\ InOrder(S) \in Seq(Nodes)
           /\ \A k \in DOMAIN InOrder(S) : InOrder(S)[k] \in S
           /\ \A x \in S : \E k \in DOMAIN InOrder(S) : InOrder(S)[k] = x
           /\ \A i, j \in DOMAIN InOrder(S) : i < j => InOrder(S)[i] < InOrder(S)[j]
<1>1. S \subseteq Nat /\ IsFiniteSet(S)
  <2>1. IsFiniteSet(Nodes)
    BY OneTo, NodesAreNumbers DEF Nodes
  <2> QED BY <2>1, FS_Subset, NodesAreNumbers
<1> DEFINE s == InOrder(S)
<1>2. ByPlace(S, s)
  BY DEF ByPlace, InOrder
<1> HIDE DEF s
<1>3. /\ s \in Seq(S)
      /\ \A x \in S : \E k \in DOMAIN s : s[k] = x
      /\ \A i, j \in DOMAIN s : i < j => s[i] < s[j]
  <2>1. Listing(S, s)
    BY <1>1, <1>2, InOrderListing, Zenon
  <2> QED BY <2>1 DEF Listing, Ascends
<1>4. s \in Seq(Nodes)
  BY <1>3
<1> QED BY <1>3, <1>4 DEF s

(* The children of a node, in order.                                       *)
LEMMA KidsLemma ==
    ASSUME Tree, NEW n \in Nodes
    PROVE  /\ KidsOf(n) \in Seq(Nodes)
           /\ \A k \in DOMAIN KidsOf(n) : KidsOf(n)[k] # 1 /\ parent[KidsOf(n)[k]] = n
           /\ \A x \in Nodes \ {1} : parent[x] = n => \E k \in DOMAIN KidsOf(n) : KidsOf(n)[k] = x
           /\ \A i, j \in DOMAIN KidsOf(n) : i < j => KidsOf(n)[i] < KidsOf(n)[j]
<1> DEFINE K == {k \in Nodes \ {1} : parent[k] = n}
<1>1. K \subseteq Nodes /\ KidsOf(n) = InOrder(K)
  BY DEF KidsOf
<1>2. \A x \in K : x \in Nodes /\ x # 1 /\ parent[x] = n
  OBVIOUS
<1>3. \A x \in Nodes \ {1} : parent[x] = n => x \in K
  OBVIOUS
<1> HIDE DEF K
<1> QED BY <1>1, <1>2, <1>3, InOrderLemma

(* One step of a traversal: it leaves the head of its front, with or       *)
(* without its children.  The front stays one, all of it behind the head,  *)
(* and with the children it loses nothing but the head.                    *)
LEMMA StepLemma ==
    ASSUME Tree, NEW s \in Seq(Nodes), s # <<>>, IsFront(s), NEW into \in BOOLEAN
    PROVE  LET h == Head(s)
               t == IF into THEN KidsOf(h) \o Tail(s) ELSE Tail(s)
           IN  /\ h \in Nodes /\ 1 \in DOMAIN s /\ s[1] = h
               /\ t \in Seq(Nodes) /\ IsFront(t)
               /\ \A k \in DOMAIN t : h < t[k]
               /\ \A k \in DOMAIN t : \/ t[k] # 1 /\ parent[t[k]] = h /\ into
                                      \/ \E j \in DOMAIN s : j # 1 /\ t[k] = s[j]
               /\ \A n \in Nodes : Ahead(n, s) => n = h \/ h \in Above[n] \/ Ahead(n, t)
               /\ into => \A n \in Nodes : Ahead(n, s) => n = h \/ Ahead(n, t)
<1> DEFINE h == Head(s)
           a == IF into THEN KidsOf(h) ELSE <<>>
           t == IF into THEN KidsOf(h) \o Tail(s) ELSE Tail(s)
<1>1. /\ a \in Seq(Nodes)
      /\ \A k \in DOMAIN a : into /\ a[k] # 1 /\ parent[a[k]] = h
      /\ into => \A x \in Nodes \ {1} : parent[x] = h => \E k \in DOMAIN a : a[k] = x
      /\ \A i, j \in DOMAIN a : i < j => a[i] < a[j]
  <2>1. CASE into
    <3> DEFINE K == KidsOf(h)
    <3>1. a = K
      BY <2>1
    <3>2. /\ K \in Seq(Nodes)
          /\ \A k \in DOMAIN K : K[k] # 1 /\ parent[K[k]] = h
          /\ \A x \in Nodes \ {1} : parent[x] = h => \E k \in DOMAIN K : K[k] = x
          /\ \A i, j \in DOMAIN K : i < j => K[i] < K[j]
      <4>1. h \in Nodes
        BY HeadTailLemma
      <4> HIDE DEF h
      <4> QED BY <4>1, KidsLemma
    <3> HIDE DEF a, K, h, t
    <3> QED BY <2>1, <3>1, <3>2
  <2>2. CASE ~into
    <3>1. a = <<>> /\ DOMAIN a = {}
      BY <2>2
    <3> QED BY <2>2, <3>1
  <2> QED BY <2>1, <2>2
<1>2. Size \in Nat \ {0} /\ Nodes = 1 .. Size
  BY WalkAssumption DEF Nodes
<1>3. t = a \o Tail(s)
  BY <1>1
<1>4. InFront(Above, s)
  BY DEF IsFront, InFront
<1>5. /\ h \in Nodes /\ 1 \in DOMAIN s /\ s[1] = h
      /\ t \in Seq(Nodes) /\ InFront(Above, t)
      /\ \A k \in DOMAIN t : h < t[k]
      /\ \A k \in DOMAIN t : \/ \E i \in DOMAIN a : t[k] = a[i]
                             \/ \E j \in DOMAIN s : j # 1 /\ t[k] = s[j]
      /\ \A n \in Nodes : Reaches(Above, s, n) => n = h \/ h \in Above[n] \/ Reaches(Above, t, n)
      /\ \A i \in DOMAIN a : \E k \in DOMAIN t : t[k] = a[i]
  <2> HIDE DEF a
  <2>1. s \in Seq(1 .. Size) /\ a \in Seq(1 .. Size) /\ ChildrenIn(parent, Head(s), a)
    BY <1>1, <1>2 DEF ChildrenIn, Ascends
  <2>2. LeavesFirst(Size, Above, s, a)
    BY <1>2, <1>4, <2>1, IsTreeLemma, FrontStep, Zenon
  <2>3. LeavesFirst(Size, Above, s, a) <=>
            /\ h \in 1 .. Size /\ 1 \in DOMAIN s /\ s[1] = h
            /\ t \in Seq(1 .. Size) /\ InFront(Above, t)
            /\ \A k \in DOMAIN t : h < t[k]
            /\ \A k \in DOMAIN t : \/ \E i \in DOMAIN a : t[k] = a[i]
                                   \/ \E j \in DOMAIN s : j # 1 /\ t[k] = s[j]
            /\ \A n \in 1 .. Size : Reaches(Above, s, n) => n = h \/ h \in Above[n] \/ Reaches(Above, t, n)
            /\ \A i \in DOMAIN a : \E k \in DOMAIN t : t[k] = a[i]
            /\ \A n \in 1 .. Size : Reaches(Above, t, n) => Reaches(Above, s, n) /\ h < n
    <3> HIDE DEF t
    <3> QED BY <1>3, Zenon DEF LeavesFirst
  <2> HIDE DEF t, h
  <2> QED BY <1>2, <2>2, <2>3
<1> HIDE DEF t, a, h
<1>6. IsFront(t)
  BY <1>5 DEF IsFront, InFront
<1>7. \A k \in DOMAIN t : \/ t[k] # 1 /\ parent[t[k]] = h /\ into
                          \/ \E j \in DOMAIN s : j # 1 /\ t[k] = s[j]
  BY <1>1, <1>5
<1>8. \A n \in Nodes : Ahead(n, s) => n = h \/ h \in Above[n] \/ Ahead(n, t)
  BY <1>5 DEF Ahead, Reaches
<1>9. ASSUME into, NEW n \in Nodes, h \in Above[n] PROVE Ahead(n, t)
  <2>1. PICK x \in Nodes \ {1} : parent[x] = h /\ (x = n \/ x \in Above[n])
    BY <1>9, TreeLemma
  <2>2. PICK i \in DOMAIN a : a[i] = x
    BY <1>1, <1>9, <2>1
  <2>3. PICK k \in DOMAIN t : t[k] = x
    BY <1>5, <2>2
  <2> QED BY <2>1, <2>3 DEF Ahead
<1>10. into => \A n \in Nodes : Ahead(n, s) => n = h \/ Ahead(n, t)
  BY <1>8, <1>9
<1> QED BY <1>5, <1>6, <1>7, <1>8, <1>10 DEF h, t

-----------------------------------------------------------------------------
(* Steps *)

(* What belongs to the file stays.                                         *)
LEMMA GivenKept ==
    ASSUME given' = given
    PROVE  /\ parent' = parent /\ kind' = kind /\ fails' = fails /\ continueOnError' = continueOnError
           /\ Above' = Above /\ Functions' = Functions /\ Reached' = Reached
           /\ \A n : FunctionOf(n)' = FunctionOf(n)
           /\ \A n, f : IsFunctionOf(f, n)' <=> IsFunctionOf(f, n)
           /\ \A n : KidsOf(n)' = KidsOf(n)
           /\ Tree => Tree'
<1>1. parent' = parent /\ kind' = kind /\ fails' = fails /\ continueOnError' = continueOnError
  BY DEF given
<1>2. Above' = Above
  BY <1>1 DEF Above
<1>3. Functions' = Functions
  BY <1>1 DEF Functions
<1>4. Reached' = Reached
  BY <1>1, <1>2 DEF Reached
<1>5. \A n : FunctionOf(n)' = FunctionOf(n)
  BY <1>2, <1>3 DEF FunctionOf
<1>6. \A n, f : IsFunctionOf(f, n)' <=> IsFunctionOf(f, n)
  BY <1>2, <1>3 DEF IsFunctionOf
<1>7. \A n : KidsOf(n)' = KidsOf(n)
  BY <1>1 DEF KidsOf
<1>8. Tree => Tree'
  BY <1>1, <1>2, <1>3 DEF Tree, WellFormed
<1> QED BY <1>1, <1>2, <1>3, <1>4, <1>5, <1>6, <1>7, <1>8

(* The nodes of what the inner traversal has before it.                    *)
LEMMA BodyNodesLemma ==
    ASSUME TypesOK
    PROVE  /\ BodyNodes \in Seq(Nodes) /\ DOMAIN BodyNodes = DOMAIN body
           /\ \A k \in DOMAIN body : /\ BodyNodes[k] = body[k].node
                                     /\ body[k].node \in Nodes /\ body[k].function \in Nodes
           /\ body # <<>> => BodyNodes # <<>> /\ Head(BodyNodes) = Head(body).node
           /\ body = <<>> => \A n : ~Ahead(n, BodyNodes)
<1> DEFINE E == [node : Nodes, function : Nodes]
<1>1. body \in Seq(E)
  BY DEF TypesOK
<1>2. DOMAIN body = 1 .. Len(body) /\ Len(body) \in Nat /\ \A k \in DOMAIN body : body[k] \in E
  <2> HIDE DEF E
  <2> QED BY <1>1
<1>3. \A k \in DOMAIN body : body[k].node \in Nodes /\ body[k].function \in Nodes
  BY <1>2
<1> HIDE DEF E
<1>4. /\ BodyNodes \in [1 .. Len(body) -> Nodes] /\ DOMAIN BodyNodes = DOMAIN body
      /\ \A k \in DOMAIN body : BodyNodes[k] = body[k].node
  BY <1>2, <1>3 DEF BodyNodes
<1>5. BodyNodes \in Seq(Nodes) /\ Len(BodyNodes) = Len(body)
  BY <1>2, <1>4
<1>6. ASSUME body # <<>> PROVE BodyNodes # <<>> /\ Head(BodyNodes) = Head(body).node
  <2>1. Len(body) > 0 /\ Head(body) = body[1] /\ 1 \in DOMAIN body
    BY <1>1, <1>2, <1>6
  <2>2. BodyNodes # <<>> /\ Head(BodyNodes) = BodyNodes[1]
    BY <1>5, <2>1
  <2> QED BY <1>4, <2>1, <2>2
<1>7. ASSUME body = <<>>, NEW n PROVE ~Ahead(n, BodyNodes)
  <2>1. DOMAIN body = {}
    BY <1>7
  <2> QED BY <1>4, <2>1 DEF Ahead
<1> QED BY <1>3, <1>4, <1>5, <1>6, <1>7

(* The outer traversal leaves the head of its front, outside of a body or  *)
(* at the end of one.                                                      *)
LEMMA OuterStep ==
    ASSUME IInv, given' = given, todo # <<>>, NEW into \in BOOLEAN, Enter(into),
           decl' = 0, body' = <<>>
    PROVE  /\ Head(todo) \in Nodes /\ todo' \in Seq(Nodes) /\ IsFront(todo)' /\ InnerOK'
           /\ \A k \in DOMAIN todo' : Head(todo) < todo'[k]
           /\ 1 \in DOMAIN todo /\ todo[1] = Head(todo)
           /\ \A n \in Nodes : Passed(n) => Passed(n)'
           /\ ~err /\ (into => kind[Head(todo)] # "plaincall") =>
                 \A k \in DOMAIN todo' : \A m \in Above[todo'[k]] : kind[m] # "plaincall"
           /\ (into \/ kind[Head(todo)] = "plaincall")
              /\ body = <<>> /\ (kind[Head(todo)] = "func" => decl = Head(todo)) =>
                 \A n \in Reached : Pending(n) => Pending(n)' \/ (n = Head(todo) /\ kind[n] # "return")
           /\ result = "none"
<1> DEFINE h == Head(todo)
           t == IF into THEN KidsOf(h) \o Tail(todo) ELSE Tail(todo)
<1> USE DEF IInv
<1>1. Tree /\ todo \in Seq(Nodes) /\ IsFront(todo)
  BY DEF TypesOK, OuterOK
<1>2. /\ h \in Nodes /\ 1 \in DOMAIN todo /\ todo[1] = h
      /\ t \in Seq(Nodes) /\ IsFront(t)
      /\ \A k \in DOMAIN t : h < t[k]
      /\ \A k \in DOMAIN t : \/ t[k] # 1 /\ parent[t[k]] = h /\ into
                             \/ \E j \in DOMAIN todo : j # 1 /\ t[k] = todo[j]
      /\ \A n \in Nodes : Ahead(n, todo) => n = h \/ h \in Above[n] \/ Ahead(n, t)
      /\ into => \A n \in Nodes : Ahead(n, todo) => n = h \/ Ahead(n, t)
  BY <1>1, StepLemma
<1>3. todo' = t
  BY DEF Enter
<1> HIDE DEF t, h
<1>4. kind' = kind /\ Above' = Above
  BY GivenKept
<1>5. IsFront(todo)'
  BY <1>2, <1>3, <1>4 DEF IsFront
<1>6. InnerOK'
  <2>1. IsFront(BodyNodes)'
    BY DEF IsFront, BodyNodes
  <2> QED BY <2>1 DEF InnerOK
<1>7. \A k \in DOMAIN todo' : todo'[k] \in Nodes /\ todo'[k] \in Nat
  <2>1. \A k \in DOMAIN todo' : todo'[k] \in Nodes
    BY <1>2, <1>3
  <2> QED BY <2>1, NodesAreNumbers
<1>8. ASSUME NEW n \in Nodes, Passed(n) PROVE Passed(n)'
  <2>1. h \in Nat /\ n \in Nat
    BY <1>2, NodesAreNumbers
  <2>2. kind[n] \in Connecting => \A k \in DOMAIN todo' : n < todo'[k]
    <3> SUFFICES ASSUME kind[n] \in Connecting, NEW k \in DOMAIN todo' PROVE n < todo'[k]
      OBVIOUS
    <3>1. n < h /\ h < todo'[k]
      BY <1>2, <1>3, <1>8 DEF Passed
    <3> QED BY <1>7, <2>1, <3>1
  <2>3. kind[n] = "return" =>
            \A f \in Above[n] : kind[f] = "func" => \A k \in DOMAIN todo' : f < todo'[k]
    <3> SUFFICES ASSUME kind[n] = "return", NEW f \in Above[n], kind[f] = "func", NEW k \in DOMAIN todo'
                 PROVE  f < todo'[k]
      OBVIOUS
    <3>1. f \in Nat /\ f \in Nodes /\ f # 0
      BY <1>1, TreeLemma, NodesAreNumbers
    <3>2. (\A j \in DOMAIN todo : f < todo[j]) \/ f = decl
      BY <1>8 DEF Passed
    <3>3. f < h \/ f = h
      BY <1>2, <3>1, <3>2 DEF InnerOK, h
    <3> QED BY <1>2, <1>3, <1>7, <2>1, <3>1, <3>3
  <2> QED BY <1>4, <2>2, <2>3 DEF Passed
<1>9. ASSUME ~err, into => kind[h] # "plaincall", NEW k \in DOMAIN todo', NEW m \in Above[todo'[k]]
      PROVE  kind[m] # "plaincall"
  <2>1. CASE todo'[k] # 1 /\ parent[todo'[k]] = h /\ into
    <3>1. m = h \/ m \in Above[h]
      BY <1>1, <1>7, <2>1, TreeLemma
    <3> QED BY <1>2, <1>9, <2>1, <3>1 DEF OuterOK
  <2>2. CASE \E j \in DOMAIN todo : j # 1 /\ todo'[k] = todo[j]
    BY <1>9, <2>2 DEF OuterOK
  <2> QED BY <1>2, <1>3, <2>1, <2>2
<1>10. ASSUME into \/ kind[h] = "plaincall", body = <<>>, kind[h] = "func" => decl = h,
              NEW n \in Reached, Pending(n), ~(n = h /\ kind[n] # "return")
       PROVE  Pending(n)'
  <2>1. n \in Nodes
    BY DEF Reached
  <2>2. \A m : Ahead(m, t) => Ahead(m, todo)'
    BY <1>3, <1>4 DEF Ahead
  <2>3. CASE kind[n] = "return"
    <3> SUFFICES ASSUME NEW f \in Above[n], kind[f] = "func" PROVE f # decl' /\ Ahead(f, todo)'
      BY <1>4, <2>3 DEF Pending
    <3>1. f \in Nodes /\ f # 0 /\ Above[f] = {1}
      BY <1>1, <2>1, TreeLemma, DeclarationsApart, NodesAreNumbers
    <3>2. f # decl /\ Ahead(f, todo)
      BY <1>10, <2>3, BodyNodesLemma DEF Pending
    <3>3. f # h
      BY <1>10, <3>2
    <3>4. h \notin Above[f] \/ into
      <4>1. kind[1] = "file"
        BY NodesAreNumbers DEF Tree
      <4> QED BY <1>10, <3>1, <4>1
    <3> QED BY <1>2, <2>2, <3>1, <3>2, <3>3, <3>4
  <2>4. CASE kind[n] # "return"
    <3>1. n # h /\ Ahead(n, todo)
      BY <1>10, <2>4 DEF Pending
    <3>2. into \/ h \notin Above[n]
      BY <1>10, <2>4 DEF Reached
    <3>3. Ahead(n, t)
      BY <1>2, <2>1, <3>1, <3>2
    <3> QED BY <1>4, <2>2, <2>4, <3>3 DEF Pending
  <2> QED BY <2>3, <2>4
<1>11. result = "none"
  BY DEF EndOK
<1> QED BY <1>2, <1>3, <1>5, <1>6, <1>8, <1>9, <1>10, <1>11 DEF h

(* The inner traversal goes into the node it is at, in the function of the *)
(* node, or as a function of its own.                                      *)
LEMMA InnerStep ==
    ASSUME IInv, given' = given, Inner, NEW f,
           f = IF kind[Head(body).node] = "lit" THEN Head(body).node ELSE Head(body).function,
           EnterInner(f),
           todo' = todo, decl' = decl, err' = err
    PROVE  /\ Head(body).node \in Nodes /\ Head(body).function \in Nodes
           /\ decl \in Above[Head(body).node]
           /\ IsFunctionOf(Head(body).function, Head(body).node)
           /\ 1 \in DOMAIN body /\ body[1] = Head(body)
           /\ body' \in Seq([node : Nodes, function : Nodes]) /\ InnerOK'
           /\ \A k \in DOMAIN body' : Head(body).node < body'[k].node
           /\ \A n \in Nodes : Passed(n) => Passed(n)'
           /\ \A n \in Reached :
                 Pending(n) => Pending(n)' \/ (n = Head(body).node /\ kind[n] = "return")
<1> DEFINE E == [node : Nodes, function : Nodes]
           h == Head(body).node
           K == KidsOf(h)
           B == BodyNodes
           a == BodyOf(h, f)
           b == Tail(body)
           t == K \o Tail(B)
<1>1. Tree /\ TypesOK /\ InnerOK /\ body \in Seq(E) /\ body # <<>> /\ decl # 0 /\ IsFront(B)
  BY DEF IInv, TypesOK, InnerOK, Inner
<1>2. /\ B \in Seq(Nodes) /\ DOMAIN B = DOMAIN body
      /\ \A k \in DOMAIN body : /\ B[k] = body[k].node
                                /\ body[k].node \in Nodes /\ body[k].function \in Nodes
      /\ B # <<>> /\ Head(B) = h
  BY <1>1, BodyNodesLemma
<1>3. /\ h \in Nodes /\ 1 \in DOMAIN B /\ B[1] = h
      /\ t \in Seq(Nodes) /\ IsFront(t)
      /\ \A k \in DOMAIN t : h < t[k]
      /\ \A n \in Nodes : Ahead(n, B) => n = h \/ Ahead(n, t)
  <2> HIDE DEF B
  <2>1. TRUE \in BOOLEAN
    OBVIOUS
  <2> DEFINE u == KidsOf(Head(B)) \o Tail(B)
  <2>2. /\ Head(B) \in Nodes /\ 1 \in DOMAIN B /\ B[1] = Head(B)
        /\ u \in Seq(Nodes) /\ IsFront(u)
        /\ \A k \in DOMAIN u : Head(B) < u[k]
        /\ \A n \in Nodes : Ahead(n, B) => n = Head(B) \/ Ahead(n, u)
    BY <1>1, <1>2, <2>1, StepLemma
  <2>3. u = t
    BY <1>2
  <2> HIDE DEF u, t
  <2> QED BY <1>2, <2>2, <2>3
<1>4. 1 \in DOMAIN body /\ body[1] = Head(body) /\ Head(body) \in E
  <2> HIDE DEF E
  <2>1. DOMAIN body = 1 .. Len(body) /\ Len(body) \in Nat /\ Len(body) > 0 /\ Head(body) = body[1] /\ Head(body) \in E
    BY <1>1, HeadTailLemma
  <2> QED BY <2>1
<1>5. Head(body).function \in Nodes
  BY <1>4
<1>6. decl \in Above[h] /\ IsFunctionOf(Head(body).function, h)
  BY <1>1, <1>4 DEF InnerOK
<1>7. f \in Nodes
  BY <1>3, <1>5
<1>8. /\ K \in Seq(Nodes)
      /\ \A k \in DOMAIN K : K[k] # 1 /\ parent[K[k]] = h
  BY <1>1, <1>3, KidsLemma
<1>9. DOMAIN K = 1 .. Len(K) /\ Len(K) \in Nat /\ \A k \in DOMAIN K : K[k] \in Nodes
  BY <1>8
<1>10. a = [k \in DOMAIN K |-> [node |-> K[k], function |-> f]]
  BY DEF BodyOf
<1> HIDE DEF a, K, B, h
<1>11. a \in Seq(E) /\ Len(a) = Len(K) /\ DOMAIN a = DOMAIN K
       /\ \A k \in DOMAIN a : a[k].node = K[k] /\ a[k].function = f
  <2>1. a \in [DOMAIN K -> E]
    BY <1>7, <1>9, <1>10
  <2>2. a \in Seq(E) /\ Len(a) = Len(K)
    <3> HIDE DEF E
    <3> QED BY <1>9, <2>1
  <2> QED BY <1>10, <2>2
<1>12. /\ b \in Seq(E) /\ Len(b) = Len(body) - 1 /\ DOMAIN b = 1 .. Len(body) - 1 /\ Len(body) \in Nat
       /\ \A i \in 1 .. Len(body) - 1 : b[i] = body[i + 1]
       /\ DOMAIN body = 1 .. Len(body)
  <2> HIDE DEF E
  <2>1. b \in Seq(E) /\ Len(b) = Len(body) - 1 /\ \A i \in 1 .. Len(body) - 1 : b[i] = body[i + 1]
    BY <1>1, HeadTailLemma
  <2> QED BY <1>1, <2>1
<1>13. /\ Tail(B) \in Seq(Nodes) /\ Len(Tail(B)) = Len(b) /\ DOMAIN Tail(B) = DOMAIN b
       /\ \A i \in DOMAIN b : Tail(B)[i] = b[i].node
  <2>1. Len(B) = Len(body)
    BY <1>1, <1>2, <1>12
  <2>2. Tail(B) \in Seq(Nodes) /\ Len(Tail(B)) = Len(B) - 1
        /\ \A i \in 1 .. Len(B) - 1 : Tail(B)[i] = B[i + 1]
    BY <1>2, HeadTailLemma
  <2>3. \A i \in DOMAIN b : i + 1 \in DOMAIN body
    BY <1>12
  <2> QED BY <1>2, <1>12, <2>1, <2>2, <2>3
<1> HIDE DEF b, E
<1>14. body' = a \o b
  BY DEF EnterInner, a, b, h
<1>15. /\ body' \in Seq(E)
       /\ \A k \in DOMAIN body' : \/ k \in DOMAIN a /\ body'[k] = a[k]
                                  \/ \E j \in DOMAIN b : k = Len(a) + j /\ body'[k] = b[j]
       /\ DOMAIN body' = 1 .. (Len(a) + Len(b))
  <2>1. a \in Seq(E) /\ b \in Seq(E)
    BY <1>11, <1>12
  <2> DEFINE c == a \o b
  <2>2. /\ c \in Seq(E) /\ DOMAIN c = 1 .. (Len(a) + Len(b))
        /\ \A k \in DOMAIN a : c[k] = a[k]
        /\ \A j \in DOMAIN b : c[Len(a) + j] = b[j]
        /\ \A k \in DOMAIN c : k \in DOMAIN a \/ \E j \in DOMAIN b : k = Len(a) + j
    BY <2>1, ConcatLemma, ConcatAt
  <2>3. body' = c
    BY <1>14
  <2> HIDE DEF c
  <2> QED BY <2>2, <2>3
<1>16. DOMAIN t = DOMAIN body' /\ \A k \in DOMAIN body' : t[k] = body'[k].node
  <2>1. /\ DOMAIN t = 1 .. (Len(K) + Len(Tail(B)))
        /\ \A k \in DOMAIN K : t[k] = K[k]
        /\ \A k \in DOMAIN Tail(B) : t[Len(K) + k] = Tail(B)[k]
    BY <1>8, <1>13, ConcatLemma, ConcatAt
  <2>2. DOMAIN t = DOMAIN body'
    BY <1>11, <1>13, <1>15, <2>1
  <2>3. ASSUME NEW k \in DOMAIN body' PROVE t[k] = body'[k].node
    <3>1. CASE k \in DOMAIN a /\ body'[k] = a[k]
      BY <1>11, <2>1, <3>1
    <3>2. CASE \E j \in DOMAIN b : k = Len(a) + j /\ body'[k] = b[j]
      <4>1. PICK j \in DOMAIN b : k = Len(a) + j /\ body'[k] = b[j]
        BY <3>2
      <4>2. j \in DOMAIN Tail(B) /\ Tail(B)[j] = b[j].node
        BY <1>13
      <4>3. t[Len(K) + j] = Tail(B)[j]
        BY <2>1, <4>2
      <4>4. Len(K) + j = k
        BY <1>11, <4>1
      <4> QED BY <4>1, <4>2, <4>3, <4>4
    <3> QED BY <1>15, <3>1, <3>2
  <2> QED BY <2>2, <2>3
<1> HIDE DEF t
<1>17. kind' = kind /\ Above' = Above /\ Functions' = Functions
  BY GivenKept
<1>18. BodyNodes' = t
  <2>1. BodyNodes' = [k \in DOMAIN body' |-> body'[k].node]
    BY DEF BodyNodes
  <2>2. t = [k \in DOMAIN t |-> t[k]]
    BY <1>3
  <2> QED BY <1>16, <2>1, <2>2
<1>19. /\ kind[h] \in {"func", "lit"} => kind[h] = "lit" /\ f = h
       /\ kind[h] \notin {"func", "lit"} => f = Head(body).function
  <2>1. kind[h] # "func"
    <3>1. decl \in Nodes /\ decl # 1 /\ kind[decl] = "func"
      BY <1>1, <1>3, <1>6, TreeLemma, DeclarationsApart DEF InnerOK
    <3> QED BY <1>1, <1>3, <1>6, <3>1, DeclarationsApart
  <2> QED BY <2>1 DEF h
<1>20. ASSUME NEW x \in Nodes \ {1}, parent[x] = h
       PROVE  decl \in Above[x] /\ IsFunctionOf(f, x)
  <2>1. Above[x] = {h} \cup Above[h] /\ h \in Nat /\ \A m \in Above[h] : m < h /\ m \in Nat
    BY <1>1, <1>3, <1>20, TreeLemma, NodesAreNumbers
  <2>2. CASE kind[h] \in {"func", "lit"}
    <3>1. h \in Functions /\ f = h
      BY <1>3, <1>19, <2>2 DEF Functions
    <3> QED BY <1>6, <2>1, <3>1 DEF IsFunctionOf
  <2>3. CASE kind[h] \notin {"func", "lit"}
    <3>1. h \notin Functions /\ f = Head(body).function
      BY <1>19, <2>3 DEF Functions
    <3> QED BY <1>6, <2>1, <3>1 DEF IsFunctionOf
  <2> QED BY <2>2, <2>3
<1>21. \A k \in DOMAIN body' : decl \in Above[body'[k].node] /\ IsFunctionOf(body'[k].function, body'[k].node)
  <2> SUFFICES ASSUME NEW k \in DOMAIN body'
               PROVE  decl \in Above[body'[k].node] /\ IsFunctionOf(body'[k].function, body'[k].node)
    OBVIOUS
  <2>1. CASE k \in DOMAIN a /\ body'[k] = a[k]
    <3>1. body'[k].node \in Nodes \ {1} /\ parent[body'[k].node] = h /\ body'[k].function = f
      <4>1. k \in DOMAIN K /\ a[k].node = K[k] /\ a[k].function = f
        BY <1>11, <2>1
      <4>2. K[k] \in Nodes /\ K[k] # 1 /\ parent[K[k]] = h
        BY <1>8, <1>9, <4>1
      <4> QED BY <2>1, <4>1, <4>2
    <3> QED BY <1>20, <3>1
  <2>2. CASE \E j \in DOMAIN b : k = Len(a) + j /\ body'[k] = b[j]
    <3>1. PICK j \in DOMAIN b : body'[k] = b[j]
      BY <2>2
    <3>2. j + 1 \in DOMAIN body /\ body'[k] = body[j + 1]
      BY <1>12, <3>1
    <3> QED BY <1>1, <3>2 DEF InnerOK
  <2> QED BY <1>15, <2>1, <2>2
<1>22. InnerOK'
  <2>1. IsFront(BodyNodes)'
    BY <1>3, <1>17, <1>18 DEF IsFront
  <2>2. decl' # 0 => ~err' /\ todo' # <<>> /\ decl' = Head(todo') /\ kind'[decl'] = "func"
    BY <1>1, <1>17 DEF InnerOK
  <2>3. (\A k \in DOMAIN body : decl \in Above[body[k].node] /\ IsFunctionOf(body[k].function, body[k].node))'
    BY <1>17, <1>21 DEF IsFunctionOf
  <2>4. decl' # 0
    BY <1>1
  <2> QED BY <2>1, <2>2, <2>3, <2>4 DEF InnerOK
<1>23. \A k \in DOMAIN body' : h < body'[k].node /\ body'[k].node \in Nodes
  <2>1. \A k \in DOMAIN t : t[k] \in Nodes
    BY <1>3
  <2> QED BY <1>3, <1>16, <2>1
<1>24. ASSUME NEW n \in Nodes, Passed(n) PROVE Passed(n)'
  <2> SUFFICES ASSUME kind[n] = "return", NEW g \in Above[n], kind[g] = "func",
                      g = decl, \A k \in DOMAIN body : n < body[k].node,
                      NEW k \in DOMAIN body'
               PROVE  n < body'[k].node
    BY <1>17, <1>24 DEF Passed
  <2>1. n < h
    BY <1>4 DEF h
  <2>2. n \in Nat /\ h \in Nat /\ body'[k].node \in Nat
    BY <1>3, <1>23, NodesAreNumbers
  <2>3. h < body'[k].node
    BY <1>23
  <2> HIDE DEF h
  <2> QED BY <2>1, <2>2, <2>3
<1>25. ASSUME NEW n \in Reached, Pending(n), ~(n = h /\ kind[n] = "return") PROVE Pending(n)'
  <2>1. n \in Nodes
    BY DEF Reached
  <2>2. CASE kind[n] = "return"
    <3>1. Ahead(n, B) => Ahead(n, t)
      BY <1>3, <1>25, <2>1, <2>2
    <3>2. Ahead(n, t) => Ahead(n, BodyNodes)'
      BY <1>17, <1>18 DEF Ahead
    <3>3. \A g : Ahead(g, todo)' <=> Ahead(g, todo)
      BY <1>17 DEF Ahead
    <3> SUFFICES ASSUME NEW g \in Above[n], kind[g] = "func"
                 PROVE  IF g = decl THEN Ahead(n, BodyNodes)' ELSE Ahead(g, todo)'
      BY <1>17, <2>2 DEF Pending
    <3>4. IF g = decl THEN Ahead(n, B) ELSE Ahead(g, todo)
      BY <1>25, <2>2 DEF Pending, B
    <3> QED BY <3>1, <3>2, <3>3, <3>4
  <2>3. CASE kind[n] # "return"
    <3>1. Ahead(n, todo)' <=> Ahead(n, todo)
      BY <1>17 DEF Ahead
    <3> QED BY <1>17, <1>25, <2>3, <3>1 DEF Pending
  <2> QED BY <2>2, <2>3
<1> QED BY <1>3, <1>4, <1>5, <1>6, <1>15, <1>22, <1>23, <1>24, <1>25 DEF h, E

(* The values of a node are connected.                                     *)
LEMMA LogStep ==
    ASSUME IInv, given' = given, NEW n \in Nodes, NEW f \in 0 .. Size,
           n \in Reached, n \notin ConnectedNodes,
           kind[n] = "return" => f = FunctionOf(n),
           log' = Connected(n, f)
    PROVE  /\ log' \in Seq([node : Nodes, slot : 1 .. Slots, function : 0 .. Size])
           /\ ReturnsOfOwnFunction' /\ ConnectedOnce'
           /\ \A k \in DOMAIN log' : log'[k].node = n \/ \E j \in DOMAIN log : log'[k] = log[j]
           /\ \A m \in Nodes : Full(m) => Full(m)'
           /\ fails[n] = 0 => Full(n)'
<1> DEFINE E == [node : Nodes, slot : 1 .. Slots, function : 0 .. Size]
           m == IF fails[n] = 0 THEN Slots ELSE fails[n] - 1
           new == [k \in 1 .. m |-> [node |-> n, slot |-> k, function |-> f]]
<1>1. log \in Seq(E) /\ fails[n] \in 0 .. Slots /\ Slots \in Nat
      /\ ReturnsOfOwnFunction /\ ConnectedOnce
  BY NodesAreNumbers DEF IInv, TypesOK
<1>2. m \in 0 .. Slots
  BY <1>1
<1>3. log' = log \o new
  BY DEF Connected
<1> HIDE DEF m
<1>4. /\ DOMAIN new = 1 .. m
      /\ \A k \in 1 .. m : new[k].node = n /\ new[k].slot = k /\ new[k].function = f
  OBVIOUS
<1>5. new \in Seq(E)
  <2>1. new \in [1 .. m -> E] /\ m \in Nat
    BY <1>1, <1>2
  <2> HIDE DEF E, new
  <2> QED BY <2>1
<1> HIDE DEF new
<1>6. /\ log' \in Seq(E)
      /\ \A i \in DOMAIN log : i \in DOMAIN log' /\ log'[i] = log[i]
      /\ \A j \in DOMAIN new : Len(log) + j \in DOMAIN log' /\ log'[Len(log) + j] = new[j]
      /\ \A i \in DOMAIN log' : i \in DOMAIN log \/ \E j \in DOMAIN new : i = Len(log) + j
  <2> HIDE DEF E
  <2> QED BY <1>1, <1>3, <1>5, ConcatAt
<1>7. kind' = kind /\ \A x : FunctionOf(x)' = FunctionOf(x)
  BY GivenKept
<1>8. ReturnsOfOwnFunction'
  <2> SUFFICES ASSUME NEW k \in DOMAIN log', kind[log'[k].node] = "return"
               PROVE  log'[k].function = FunctionOf(log'[k].node)
    BY <1>7 DEF ReturnsOfOwnFunction
  <2>1. CASE k \in DOMAIN log
    BY <1>1, <1>6, <2>1 DEF ReturnsOfOwnFunction
  <2>2. CASE k \notin DOMAIN log
    <3>1. PICK j \in DOMAIN new : k = Len(log) + j
      BY <1>6, <2>2
    <3> QED BY <1>4, <1>6, <3>1
  <2> QED BY <2>1, <2>2
<1>9. ConnectedOnce'
  <2> SUFFICES ASSUME NEW k \in DOMAIN log', NEW l \in DOMAIN log',
                      log'[k].node = log'[l].node, log'[k].slot = log'[l].slot
               PROVE  k = l
    BY DEF ConnectedOnce
  <2>1. \A j \in DOMAIN log : log'[j].node # n
    BY <1>6 DEF ConnectedNodes
  <2>2. \A i \in DOMAIN log' \ DOMAIN log : \E j \in DOMAIN new : i = Len(log) + j /\ log'[i].node = n /\ log'[i].slot = j
    <3> SUFFICES ASSUME NEW i \in DOMAIN log' \ DOMAIN log
                 PROVE  \E j \in DOMAIN new : i = Len(log) + j /\ log'[i].node = n /\ log'[i].slot = j
      OBVIOUS
    <3>1. PICK j \in DOMAIN new : i = Len(log) + j
      BY <1>6
    <3>2. log'[i] = new[j]
      BY <1>6, <3>1
    <3>3. new[j].node = n /\ new[j].slot = j
      BY <1>4
    <3> QED BY <3>1, <3>2, <3>3
  <2>3. CASE k \in DOMAIN log
    <3>1. l \in DOMAIN log
      BY <2>1, <2>2, <2>3
    <3> QED BY <1>1, <1>6, <2>3, <3>1 DEF ConnectedOnce
  <2>4. CASE k \notin DOMAIN log
    <3>1. l \notin DOMAIN log
      BY <2>1, <2>2, <2>4
    <3> QED BY <2>2, <2>4, <3>1
  <2> QED BY <2>3, <2>4
<1>10. \A k \in DOMAIN log' : log'[k].node = n \/ \E j \in DOMAIN log : log'[k] = log[j]
  BY <1>4, <1>6
<1>11. \A x \in Nodes : Full(x) => Full(x)'
  BY <1>6 DEF Full
<1>12. ASSUME fails[n] = 0 PROVE Full(n)'
  <2>1. m = Slots
    BY <1>12 DEF m
  <2>2. \A k \in 1 .. Slots : k \in DOMAIN new
    BY <1>4, <2>1
  <2> SUFFICES ASSUME NEW k \in 1 .. Slots
               PROVE  \E l \in DOMAIN log' : log'[l].node = n /\ log'[l].slot = k
    BY DEF Full
  <2>3. Len(log) + k \in DOMAIN log' /\ log'[Len(log) + k] = new[k] /\ new[k].node = n /\ new[k].slot = k
    BY <1>4, <1>6, <2>2
  <2> QED BY <2>3
<1> QED BY <1>6, <1>8, <1>9, <1>10, <1>11, <1>12

-----------------------------------------------------------------------------
(* The invariant is inductive *)

LEMMA InitLemma == Init => IInv
<1> SUFFICES ASSUME Init PROVE IInv
  OBVIOUS
<1>1. /\ todo = <<1>> /\ decl = 0 /\ body = <<>> /\ log = <<>> /\ err = FALSE /\ result = "none"
  BY DEF Init
<1>2. Tree
  BY NodesAreNumbers DEF Init, Tree
<1>3. TypesOK
  <2>1. /\ todo \in Seq(Nodes) /\ body \in Seq([node : Nodes, function : Nodes])
        /\ log \in Seq([node : Nodes, slot : 1 .. Slots, function : 0 .. Size])
    BY <1>1, NodesAreNumbers
  <2>2. decl \in 0 .. Size /\ err \in BOOLEAN /\ result \in {"none", "ok", "error"}
    <3>1. 0 \in 0 .. Size
      BY NodesAreNumbers
    <3> QED BY <1>1, <3>1
  <2>3. fails \in [Nodes -> 0 .. Slots] /\ continueOnError \in BOOLEAN
    BY DEF Init
  <2> QED BY <2>1, <2>2, <2>3 DEF TypesOK
<1>4. DOMAIN todo = {1} /\ todo[1] = 1 /\ DOMAIN body = {} /\ DOMAIN log = {}
  BY <1>1
<1>5. Above[1] = {}
  BY <1>2, TreeLemma
<1>6. OuterOK /\ InnerOK
  <2>1. IsFront(todo)
    BY <1>4 DEF IsFront
  <2>2. IsFront(BodyNodes)
    BY <1>4 DEF IsFront, BodyNodes
  <2> QED BY <1>1, <1>4, <1>5, <2>1, <2>2 DEF OuterOK, InnerOK
<1>7. LogOK /\ ReturnsOfOwnFunction /\ ConnectedOnce
  BY <1>4 DEF LogOK, ReturnsOfOwnFunction, ConnectedOnce
<1>8. \A n \in Nodes : Ahead(n, todo)
  <2> SUFFICES ASSUME NEW n \in Nodes, n # 1 PROVE 1 \in Above[n]
    BY <1>4 DEF Ahead
  <2>1. /\ 1 \in Nodes /\ Above[n] \in SUBSET Nodes /\ parent[n] \in Nodes
        /\ Above[n] = {parent[n]} \cup Above[parent[n]]
        /\ \A m \in Above[n] : Above[m] \subseteq Above[n]
        /\ \A m \in Nodes \ {1} : parent[m] \in Above[m]
    BY <1>2, TreeLemma, NodesAreNumbers
  <2>2. \E m \in Above[n] : \A x \in Above[n] : m <= x
    BY <2>1, LeastNat, NodesAreNumbers
  <2>3. PICK m \in Above[n] : \A x \in Above[n] : m <= x
    BY <2>2
  <2>4. m \in Nodes /\ m \in Nat /\ (m # 1 => parent[m] \in Above[n] /\ parent[m] < m /\ parent[m] \in Nat)
    <3>1. m \in Nodes /\ m \in Nat
      BY <2>1, NodesAreNumbers
    <3> SUFFICES ASSUME m # 1 PROVE parent[m] \in Above[n] /\ parent[m] < m /\ parent[m] \in Nat
      BY <3>1
    <3>2. parent[m] \in Above[n]
      BY <2>1, <3>1
    <3>3. parent[m] \in Nat
      BY <2>1, <3>2, NodesAreNumbers
    <3> QED BY <1>2, <3>1, <3>2, <3>3 DEF Tree
  <2>5. m = 1
    BY <2>3, <2>4
  <2> QED BY <2>5
<1>9. NothingMissed
  <2> SUFFICES ASSUME NEW n \in Reached PROVE Pending(n)
    BY DEF NothingMissed
  <2>1. n \in Nodes
    BY DEF Reached
  <2>2. \A f \in Above[n] : f \in Nodes /\ f # 0
    BY <1>2, <2>1, TreeLemma, NodesAreNumbers
  <2> QED BY <1>1, <1>8, <2>1, <2>2 DEF Pending
<1>10. EndOK
  BY <1>1 DEF EndOK
<1> QED BY <1>2, <1>3, <1>6, <1>7, <1>9, <1>10 DEF IInv

(* The connections stay when the log does.                                 *)
LEMMA SameLog ==
    ASSUME IInv, given' = given, log' = log
    PROVE  /\ ReturnsOfOwnFunction' /\ ConnectedOnce'
           /\ log' \in Seq([node : Nodes, slot : 1 .. Slots, function : 0 .. Size])
           /\ \A n : Full(n)' <=> Full(n)
           /\ fails' \in [Nodes -> 0 .. Slots] /\ continueOnError' \in BOOLEAN
           /\ Tree' /\ Reached' = Reached /\ Reached \subseteq Nodes /\ fails' = fails /\ kind' = kind
           /\ \A k \in DOMAIN log : log[k].node \in Reached
<1>1. kind' = kind /\ fails' = fails /\ continueOnError' = continueOnError /\ Tree' /\ Reached' = Reached
      /\ \A n : FunctionOf(n)' = FunctionOf(n)
  BY GivenKept DEF IInv
<1>2. ReturnsOfOwnFunction'
  BY <1>1 DEF IInv, ReturnsOfOwnFunction
<1>3. ConnectedOnce'
  BY DEF IInv, ConnectedOnce
<1>4. \A n : Full(n)' <=> Full(n)
  BY DEF Full
<1>5. log' \in Seq([node : Nodes, slot : 1 .. Slots, function : 0 .. Size])
      /\ fails' \in [Nodes -> 0 .. Slots] /\ continueOnError' \in BOOLEAN
  BY <1>1 DEF IInv, TypesOK
<1>6. Reached \subseteq Nodes
  BY DEF Reached
<1>7. \A k \in DOMAIN log : log[k].node \in Reached
  BY DEF IInv, LogOK
<1> QED BY <1>1, <1>2, <1>3, <1>4, <1>5, <1>6, <1>7

(* Steps of the outer traversal that connect nothing.                      *)
LEMMA PassLemma ==
    ASSUME IInv, given' = given, todo # <<>>, NEW into \in BOOLEAN, Enter(into),
           decl' = 0, body = <<>>, body' = <<>>, log' = log, err' = err, result' = result,
           ~err => /\ into \/ kind[Head(todo)] = "plaincall"
                   /\ into => kind[Head(todo)] # "plaincall"
                   /\ kind[Head(todo)] = "func" => decl = Head(todo)
                   /\ kind[Head(todo)] \notin Connecting
    PROVE  IInv'
<1> DEFINE h == Head(todo)
<1>1. /\ todo' \in Seq(Nodes) /\ IsFront(todo)' /\ InnerOK'
      /\ \A n \in Nodes : Passed(n) => Passed(n)'
      /\ ~err /\ (into => kind[h] # "plaincall") =>
            \A k \in DOMAIN todo' : \A m \in Above[todo'[k]] : kind[m] # "plaincall"
      /\ (into \/ kind[h] = "plaincall") /\ (kind[h] = "func" => decl = h) =>
            \A n \in Reached : Pending(n) => Pending(n)' \/ (n = h /\ kind[n] # "return")
      /\ result = "none"
  BY OuterStep
<1> HIDE DEF h
<1>2. kind' = kind /\ fails' = fails /\ Above' = Above /\ Reached' = Reached /\ Tree'
  BY GivenKept DEF IInv
<1>3. TypesOK'
  <2>1. 0 \in 0 .. Size /\ body' \in Seq([node : Nodes, function : Nodes])
    BY NodesAreNumbers
  <2>2. err' \in BOOLEAN /\ result' \in {"none", "ok", "error"}
    BY DEF IInv, TypesOK
  <2> QED BY <1>1, <2>1, <2>2, SameLog DEF TypesOK
<1>4. OuterOK'
  BY <1>1, <1>2 DEF h, OuterOK
<1>5. LogOK'
  BY <1>1, <1>2, SameLog DEF IInv, LogOK
<1>6. NothingMissed'
  <2> SUFFICES ASSUME ~err, NEW n \in Reached, ~Full(n) PROVE Pending(n)'
    BY <1>2, SameLog DEF NothingMissed
  <2>1. Pending(n)
    BY DEF IInv, NothingMissed
  <2>2. kind[n] \in Connecting \cup {"return"}
    BY DEF Reached
  <2>3. kind[h] \notin Connecting /\ (into \/ kind[h] = "plaincall") /\ (kind[h] = "func" => decl = h)
    BY DEF h
  <2> QED BY <1>1, <2>1, <2>2, <2>3
<1>7. EndOK'
  BY <1>1, <1>2 DEF IInv, EndOK
<1> QED BY <1>1, <1>2, <1>3, <1>4, <1>5, <1>6, <1>7, SameLog DEF IInv

LEMMA OuterFacts ==
    ASSUME IInv, Outer
    PROVE  body = <<>> /\ todo # <<>> /\ decl = 0 /\ Head(todo) \in Nodes /\ 1 \in DOMAIN todo /\ todo[1] = Head(todo)
<1>1. todo \in Seq(Nodes) /\ todo # <<>> /\ decl = 0
  BY DEF IInv, TypesOK, Outer
<1>2. body = <<>>
  BY <1>1 DEF IInv, InnerOK
<1>3. Head(todo) \in Nodes /\ Len(todo) > 0 /\ Head(todo) = todo[1] /\ 1 \in DOMAIN todo
  BY <1>1, HeadTailLemma
<1> QED BY <1>1, <1>2, <1>3

LEMMA AfterErrorKeeps == IInv /\ AfterError => IInv'
<1> SUFFICES ASSUME IInv, AfterError PROVE IInv'
  OBVIOUS
<1>1. /\ given' = given /\ Outer /\ err /\ Enter(continueOnError)
      /\ decl' = decl /\ body' = body /\ log' = log /\ err' = err /\ result' = result
  BY DEF AfterError, given
<1>2. body = <<>> /\ todo # <<>> /\ decl = 0
  BY <1>1, OuterFacts
<1>3. continueOnError \in BOOLEAN
  BY DEF IInv, TypesOK
<1> QED BY <1>1, <1>2, <1>3, PassLemma

LEMMA PlainCallKeeps == IInv /\ PlainCall => IInv'
<1> SUFFICES ASSUME IInv, PlainCall PROVE IInv'
  OBVIOUS
<1>1. /\ given' = given /\ Outer /\ ~err /\ kind[Head(todo)] = "plaincall" /\ Enter(FALSE)
      /\ decl' = decl /\ body' = body /\ log' = log /\ err' = err /\ result' = result
  BY DEF PlainCall, given
<1>2. body = <<>> /\ todo # <<>> /\ decl = 0
  BY <1>1, OuterFacts
<1>3. FALSE \in BOOLEAN /\ "plaincall" \notin Connecting
  BY DEF Connecting
<1> QED BY <1>1, <1>2, <1>3, PassLemma

LEMMA PassKeeps == IInv /\ Pass => IInv'
<1> SUFFICES ASSUME IInv, Pass PROVE IInv'
  OBVIOUS
<1>1. /\ given' = given /\ Outer /\ ~err /\ kind[Head(todo)] \in {"file", "block", "lit", "return"}
      /\ Enter(TRUE)
      /\ decl' = decl /\ body' = body /\ log' = log /\ err' = err /\ result' = result
  BY DEF Pass, given
<1>2. body = <<>> /\ todo # <<>> /\ decl = 0
  BY <1>1, OuterFacts
<1>3. TRUE \in BOOLEAN /\ kind[Head(todo)] \notin Connecting
      /\ kind[Head(todo)] # "func" /\ kind[Head(todo)] # "plaincall"
  BY <1>1 DEF Connecting
<1> QED BY <1>1, <1>2, <1>3, PassLemma

LEMMA LeaveBodyKeeps == IInv /\ LeaveBody => IInv'
<1> SUFFICES ASSUME IInv, LeaveBody PROVE IInv'
  OBVIOUS
<1>1. /\ given' = given /\ decl # 0 /\ body = <<>> /\ decl' = 0 /\ body' = <<>> /\ err' = FALSE
      /\ Enter(~FALSE \/ continueOnError) /\ log' = log /\ result' = result
  BY DEF LeaveBody, EndBody, given
<1>2. ~err /\ todo # <<>> /\ decl = Head(todo) /\ kind[Head(todo)] = "func"
  BY <1>1 DEF IInv, InnerOK
<1>3. Enter(TRUE)
  BY <1>1 DEF Enter
<1>4. err' = err
  BY <1>1, <1>2 DEF IInv, TypesOK
<1>5. TRUE \in BOOLEAN /\ "func" \notin Connecting /\ "func" # "plaincall"
  BY DEF Connecting
<1> QED BY <1>1, <1>2, <1>3, <1>4, <1>5, PassLemma

LEMMA ConnectKeeps == IInv /\ Connect => IInv'
<1> SUFFICES ASSUME IInv, Connect PROVE IInv'
  OBVIOUS
<1>0. Head(todo) \in Nodes
  BY OuterFacts DEF Connect
<1> PICK h \in Nodes : h = Head(todo)
  BY <1>0
<1> DEFINE into == fails[h] = 0 \/ continueOnError
<1>1. /\ given' = given /\ Outer /\ ~err /\ kind[h] \in Connecting
      /\ log' = Connected(h, 0) /\ err' = (fails[h] # 0) /\ Enter(into)
      /\ decl' = decl /\ body' = body /\ result' = result
  BY DEF Connect, given
<1>2. body = <<>> /\ todo # <<>> /\ decl = 0 /\ h \in Nodes /\ 1 \in DOMAIN todo /\ todo[1] = h
  BY <1>1, OuterFacts
<1>3. kind[h] # "return" /\ kind[h] # "plaincall" /\ kind[h] # "func"
  BY <1>1 DEF Connecting
<1>4. into \in BOOLEAN
  BY DEF IInv, TypesOK
<1> HIDE DEF into
<1>5. /\ todo' \in Seq(Nodes) /\ IsFront(todo)' /\ InnerOK'
      /\ \A k \in DOMAIN todo' : h < todo'[k]
      /\ \A n \in Nodes : Passed(n) => Passed(n)'
      /\ \A k \in DOMAIN todo' : \A m \in Above[todo'[k]] : kind[m] # "plaincall"
      /\ into => \A n \in Reached : Pending(n) => Pending(n)' \/ (n = h /\ kind[n] # "return")
      /\ result = "none"
  BY <1>1, <1>2, <1>3, <1>4, OuterStep
<1>6. kind' = kind /\ fails' = fails /\ Above' = Above /\ Reached' = Reached /\ Tree'
      /\ continueOnError' = continueOnError
  BY <1>1, GivenKept DEF IInv
<1>7. h \in Reached
  <2>1. \A m \in Above[h] : kind[m] # "plaincall"
    BY <1>1, <1>2 DEF IInv, OuterOK
  <2> QED BY <1>1, <1>2, <2>1 DEF Reached
<1>8. h \notin ConnectedNodes
  <2> SUFFICES ASSUME NEW k \in DOMAIN log, log[k].node = h PROVE FALSE
    BY DEF ConnectedNodes
  <2>1. Passed(h)
    BY DEF IInv, LogOK
  <2>2. h < h
    BY <1>1, <1>2, <2>1 DEF Passed
  <2> QED BY <1>2, <2>2, NodesAreNumbers
<1>9. /\ log' \in Seq([node : Nodes, slot : 1 .. Slots, function : 0 .. Size])
      /\ ReturnsOfOwnFunction' /\ ConnectedOnce'
      /\ \A k \in DOMAIN log' : log'[k].node = h \/ \E j \in DOMAIN log : log'[k] = log[j]
      /\ \A m \in Nodes : Full(m) => Full(m)'
      /\ fails[h] = 0 => Full(h)'
  <2>1. 0 \in 0 .. Size
    BY NodesAreNumbers
  <2> QED BY <1>1, <1>2, <1>3, <1>7, <1>8, <2>1, LogStep
<1>10. TypesOK'
  <2>1. err' \in BOOLEAN /\ fails' \in [Nodes -> 0 .. Slots] /\ continueOnError' \in BOOLEAN
    BY <1>1, <1>6 DEF IInv, TypesOK
  <2>2. /\ decl' \in 0 .. Size /\ body' \in Seq([node : Nodes, function : Nodes])
        /\ result' \in {"none", "ok", "error"}
    BY <1>1 DEF IInv, TypesOK
  <2> QED BY <1>5, <1>9, <2>1, <2>2 DEF TypesOK
<1>11. OuterOK'
  BY <1>5, <1>6 DEF OuterOK
<1>12. Passed(h)'
  BY <1>3, <1>5, <1>6 DEF Passed
<1>13. LogOK'
  <2> SUFFICES ASSUME NEW k \in DOMAIN log'
               PROVE  /\ log'[k].node \in Reached
                      /\ Passed(log[k].node)'
                      /\ ~err' => fails[log'[k].node] = 0
    BY <1>6 DEF LogOK
  <2>1. CASE log'[k].node = h
    BY <1>1, <1>7, <1>12, <2>1
  <2>2. CASE \E j \in DOMAIN log : log'[k] = log[j]
    <3>1. PICK j \in DOMAIN log : log'[k] = log[j]
      BY <2>2
    <3>2. log[j].node \in Reached /\ Passed(log[j].node) /\ fails[log[j].node] = 0
      BY <1>1 DEF IInv, LogOK
    <3>3. log[j].node \in Nodes
      BY <3>2 DEF Reached
    <3> QED BY <1>5, <3>1, <3>2, <3>3
  <2> QED BY <1>9, <2>1, <2>2
<1>14. NothingMissed'
  <2> SUFFICES ASSUME fails[h] = 0, NEW n \in Reached PROVE Full(n)' \/ Pending(n)'
    BY <1>1, <1>6 DEF NothingMissed
  <2>1. n \in Nodes /\ into
    BY DEF Reached, into
  <2>2. Full(n) \/ Pending(n)
    BY <1>1 DEF IInv, NothingMissed
  <2> QED BY <1>5, <1>9, <2>1, <2>2
<1>15. EndOK'
  BY <1>1, <1>5, <1>6, <1>7 DEF EndOK
<1> QED BY <1>5, <1>6, <1>9, <1>10, <1>11, <1>13, <1>14, <1>15 DEF IInv

LEMMA FuncDeclKeeps == IInv /\ FuncDecl => IInv'
<1> SUFFICES ASSUME IInv, FuncDecl PROVE IInv'
  OBVIOUS
<1> DEFINE h == Head(todo)
           K == KidsOf(h)
           E == [node : Nodes, function : Nodes]
<1>1. /\ given' = given /\ Outer /\ ~err /\ kind[h] = "func"
      /\ decl' = h /\ body' = BodyOf(h, h)
      /\ todo' = todo /\ log' = log /\ err' = err /\ result' = result
  BY DEF FuncDecl, given
<1>2. Tree /\ body = <<>> /\ todo # <<>> /\ decl = 0 /\ h \in Nodes /\ h \in 0 .. Size
  <2>1. body = <<>> /\ todo # <<>> /\ decl = 0 /\ h \in Nodes
    BY <1>1, OuterFacts
  <2> QED BY <2>1, NodesAreNumbers DEF IInv, Nodes
<1> HIDE DEF h
<1>3. /\ K \in Seq(Nodes) /\ DOMAIN K = 1 .. Len(K) /\ Len(K) \in Nat
      /\ \A k \in DOMAIN K : K[k] \in Nodes \ {1} /\ parent[K[k]] = h
  <2>1. K \in Seq(Nodes) /\ \A k \in DOMAIN K : K[k] # 1 /\ parent[K[k]] = h
    BY <1>2, KidsLemma
  <2> HIDE DEF K
  <2> QED BY <2>1
<1>4. IsFront(K) /\ \A n \in Nodes : h \in Above[n] => Ahead(n, K)
  <2> DEFINE s == <<h>>
  <2>1. s \in Seq(Nodes) /\ s # <<>> /\ Head(s) = h /\ Tail(s) = <<>> /\ DOMAIN s = {1} /\ s[1] = h
    BY <1>2
  <2> HIDE DEF s, K
  <2>2. IsFront(s) /\ TRUE \in BOOLEAN
    BY <2>1 DEF IsFront
  <2>3. K \o Tail(s) = K
    BY <1>3, <2>1
  <2>4. IsFront(K) /\ \A n \in Nodes : Ahead(n, s) => n = h \/ Ahead(n, K)
    <3> DEFINE u == KidsOf(Head(s)) \o Tail(s)
    <3>1. IsFront(u) /\ \A n \in Nodes : Ahead(n, s) => n = Head(s) \/ Ahead(n, u)
      BY <1>2, <2>1, <2>2, StepLemma
    <3>2. u = K
      BY <2>1, <2>3 DEF K
    <3> HIDE DEF u
    <3> QED BY <2>1, <3>1, <3>2
  <2>5. \A n \in Nodes : h \in Above[n] => Ahead(n, s) /\ n # h
    <3>1. h \in Nat /\ ~(h < h)
      BY <1>2, NodesAreNumbers
    <3> QED BY <1>2, <2>1, <3>1, TreeLemma DEF Ahead
  <2> QED BY <2>4, <2>5
<1>5. body' = [k \in DOMAIN K |-> [node |-> K[k], function |-> h]]
  BY <1>1 DEF BodyOf
<1> HIDE DEF K
<1>6. DOMAIN body' = DOMAIN K /\ \A k \in DOMAIN K : body'[k].node = K[k] /\ body'[k].function = h
  BY <1>5
<1>7. body' \in Seq(E)
  <2>1. body' \in [DOMAIN K -> E]
    BY <1>2, <1>3, <1>5
  <2> HIDE DEF E
  <2> QED BY <1>3, <2>1
<1>8. kind' = kind /\ fails' = fails /\ Above' = Above /\ Functions' = Functions /\ Reached' = Reached /\ Tree'
  BY <1>1, GivenKept DEF IInv
<1>9. BodyNodes' = K
  <2>1. BodyNodes' = [k \in DOMAIN body' |-> body'[k].node]
    BY DEF BodyNodes
  <2>2. K = [k \in DOMAIN K |-> K[k]]
    BY <1>3
  <2> QED BY <1>6, <2>1, <2>2
<1>10. \A x \in Nodes \ {1} : parent[x] = h => h \in Above[x] /\ IsFunctionOf(h, x)
  <2> SUFFICES ASSUME NEW x \in Nodes \ {1}, parent[x] = h PROVE h \in Above[x] /\ IsFunctionOf(h, x)
    OBVIOUS
  <2>1. Above[x] = {h} \cup Above[h] /\ h \in Nat /\ \A m \in Above[h] : m < h /\ m \in Nat
    BY <1>2, TreeLemma, NodesAreNumbers
  <2>2. h \in Functions
    BY <1>1, <1>2 DEF Functions, h
  <2> QED BY <2>1, <2>2 DEF IsFunctionOf
<1>11. InnerOK'
  <2>1. IsFront(BodyNodes)'
    BY <1>4, <1>8, <1>9 DEF IsFront
  <2>2. decl' # 0
    BY <1>1, <1>2, NodesAreNumbers
  <2>3. ~err' /\ todo' # <<>> /\ decl' = Head(todo') /\ kind'[decl'] = "func"
    BY <1>1, <1>2, <1>8 DEF h
  <2>4. (\A k \in DOMAIN body : decl \in Above[body[k].node] /\ IsFunctionOf(body[k].function, body[k].node))'
    BY <1>1, <1>3, <1>6, <1>8, <1>10 DEF IsFunctionOf
  <2> QED BY <2>1, <2>2, <2>3, <2>4 DEF InnerOK
<1>12. TypesOK'
  <2>1. err' \in BOOLEAN /\ todo' \in Seq(Nodes) /\ decl' \in 0 .. Size /\ result' \in {"none", "ok", "error"}
    BY <1>1, <1>2 DEF IInv, TypesOK
  <2> QED BY <1>1, <1>7, <2>1, SameLog DEF TypesOK
<1>13. OuterOK'
  BY <1>1, <1>8 DEF IInv, OuterOK, IsFront
<1>14. ASSUME NEW n \in Nodes, Passed(n) PROVE Passed(n)'
  <2>1. \A f \in Above[n] : f # decl
    BY <1>2, TreeLemma, NodesAreNumbers
  <2> QED BY <1>1, <1>8, <1>14, <2>1 DEF Passed
<1>15. LogOK'
  <2> SUFFICES ASSUME NEW k \in DOMAIN log PROVE Passed(log[k].node)' /\ (~err' => fails[log[k].node] = 0)
    BY <1>1, <1>8, SameLog DEF LogOK
  <2>1. log[k].node \in Nodes
    BY <1>1, SameLog
  <2> QED BY <1>1, <1>14, <2>1 DEF IInv, LogOK
<1>16. ASSUME NEW n \in Reached, Pending(n) PROVE Pending(n)'
  <2>1. n \in Nodes
    BY DEF Reached
  <2>2. \A m : Ahead(m, todo)' <=> Ahead(m, todo)
    BY <1>1, <1>8 DEF Ahead
  <2>3. \A m : Ahead(m, BodyNodes)' <=> Ahead(m, K)
    BY <1>8, <1>9 DEF Ahead
  <2>4. CASE kind[n] = "return"
    <3> SUFFICES ASSUME NEW f \in Above[n], kind[f] = "func"
                 PROVE  IF f = h THEN Ahead(n, BodyNodes)' ELSE Ahead(f, todo)'
      BY <1>1, <1>8, <2>4 DEF Pending
    <3>1. f # decl
      BY <1>2, <2>1, TreeLemma, NodesAreNumbers
    <3>2. Ahead(f, todo)
      BY <1>16, <2>4, <3>1 DEF Pending
    <3>3. f = h => Ahead(n, K)
      BY <1>4, <2>1
    <3> QED BY <2>2, <2>3, <3>2, <3>3
  <2>5. CASE kind[n] # "return"
    BY <1>8, <1>16, <2>2, <2>5 DEF Pending
  <2> QED BY <2>4, <2>5
<1>17. NothingMissed'
  BY <1>1, <1>8, <1>16, SameLog DEF IInv, NothingMissed
<1>18. EndOK'
  <2>1. continueOnError' = continueOnError
    BY <1>1, GivenKept
  <2> QED BY <1>1, <1>8, <2>1 DEF IInv, EndOK
<1> QED BY <1>1, <1>8, <1>11, <1>12, <1>13, <1>15, <1>17, <1>18, SameLog DEF IInv

(* Steps of the inner traversal that connect nothing.                      *)
LEMMA InnerPassLemma ==
    ASSUME IInv, given' = given, Inner, NEW f,
           f = IF kind[Head(body).node] = "lit" THEN Head(body).node ELSE Head(body).function,
           EnterInner(f), kind[Head(body).node] # "return",
           todo' = todo, decl' = decl, log' = log, err' = err, result' = result
    PROVE  IInv'
<1>1. /\ body' \in Seq([node : Nodes, function : Nodes]) /\ InnerOK'
      /\ \A n \in Nodes : Passed(n) => Passed(n)'
      /\ \A n \in Reached : Pending(n) => Pending(n)' \/ (n = Head(body).node /\ kind[n] = "return")
  BY InnerStep
<1>2. kind' = kind /\ fails' = fails /\ Above' = Above /\ Reached' = Reached /\ Tree'
      /\ continueOnError' = continueOnError
  BY GivenKept DEF IInv
<1>3. TypesOK'
  <2>1. todo' \in Seq(Nodes) /\ decl' \in 0 .. Size /\ err' \in BOOLEAN /\ result' \in {"none", "ok", "error"}
    BY DEF IInv, TypesOK
  <2> QED BY <1>1, <2>1, SameLog DEF TypesOK
<1>4. OuterOK'
  BY <1>2 DEF IInv, OuterOK, IsFront
<1>5. LogOK'
  BY <1>1, <1>2, SameLog DEF IInv, LogOK
<1>6. NothingMissed'
  <2> SUFFICES ASSUME ~err, NEW n \in Reached, ~Full(n) PROVE Pending(n)'
    BY <1>2, SameLog DEF NothingMissed
  <2>1. Pending(n)
    BY DEF IInv, NothingMissed
  <2>2. ~(n = Head(body).node /\ kind[n] = "return")
    OBVIOUS
  <2> QED BY <1>1, <2>1, <2>2
<1>7. EndOK'
  BY <1>2 DEF IInv, EndOK
<1> QED BY <1>1, <1>2, <1>3, <1>4, <1>5, <1>6, <1>7, SameLog DEF IInv

LEMMA FuncLitKeeps == IInv /\ FuncLit => IInv'
<1> SUFFICES ASSUME IInv, FuncLit PROVE IInv'
  OBVIOUS
<1>1. /\ given' = given /\ Inner /\ kind[Head(body).node] = "lit" /\ EnterInner(Head(body).node)
      /\ todo' = todo /\ decl' = decl /\ log' = log /\ err' = err /\ result' = result
  BY DEF FuncLit, given
<1>2. Head(body).node = IF kind[Head(body).node] = "lit" THEN Head(body).node ELSE Head(body).function
  BY <1>1
<1>3. kind[Head(body).node] # "return"
  BY <1>1
<1> QED BY <1>1, <1>2, <1>3, InnerPassLemma

LEMMA PassInBodyKeeps == IInv /\ PassInBody => IInv'
<1> SUFFICES ASSUME IInv, PassInBody PROVE IInv'
  OBVIOUS
<1>1. /\ given' = given /\ Inner /\ kind[Head(body).node] \notin {"lit", "return"}
      /\ EnterInner(Head(body).function)
      /\ todo' = todo /\ decl' = decl /\ log' = log /\ err' = err /\ result' = result
  BY DEF PassInBody, given
<1>2. Head(body).function = IF kind[Head(body).node] = "lit" THEN Head(body).node ELSE Head(body).function
  BY <1>1
<1>3. kind[Head(body).node] # "return"
  BY <1>1
<1> QED BY <1>1, <1>2, <1>3, InnerPassLemma

(* A return below the declaration the inner traversal is in, not connected *)
(* before.                                                                 *)
LEMMA ReturnFacts ==
    ASSUME IInv, Inner, NEW n, n = Head(body).node, kind[n] = "return"
    PROVE  /\ n \in Nodes /\ n \in Reached /\ n \notin ConnectedNodes
           /\ decl \in Above[n] /\ kind[decl] = "func" /\ ~err /\ todo # <<>> /\ decl = Head(todo)
           /\ Head(body).function = FunctionOf(n) /\ Head(body).function \in 0 .. Size
           /\ \A f \in Above[n] : kind[f] = "func" => f = decl
<1>1. /\ Tree /\ TypesOK /\ decl # 0 /\ body # <<>> /\ 1 \in DOMAIN body /\ Head(body) = body[1]
      /\ Head(body) \in [node : Nodes, function : Nodes]
  <2> DEFINE E == [node : Nodes, function : Nodes]
  <2>1. body \in Seq(E) /\ body # <<>> /\ decl # 0 /\ Tree /\ TypesOK
    BY DEF IInv, TypesOK, Inner
  <2> HIDE DEF E
  <2>2. Head(body) \in E /\ Head(body) = body[1] /\ Len(body) > 0 /\ DOMAIN body = 1 .. Len(body) /\ Len(body) \in Nat
    BY <2>1, HeadTailLemma
  <2> QED BY <2>1, <2>2 DEF E
<1>2. n \in Nodes /\ Head(body).function \in Nodes
  BY <1>1
<1>3. decl \in Above[n] /\ IsFunctionOf(Head(body).function, n)
  BY <1>1 DEF IInv, InnerOK
<1>4. ~err /\ todo # <<>> /\ decl = Head(todo) /\ kind[decl] = "func"
  BY <1>1 DEF IInv, InnerOK
<1>5. n \in Reached
  BY <1>2, <1>3, <1>4 DEF Reached
<1>6. \A f \in Above[n] : kind[f] = "func" => f = decl
  BY <1>1, <1>2, <1>3, <1>4, DeclarationsApart
<1>7. n \notin ConnectedNodes
  <2> SUFFICES ASSUME NEW k \in DOMAIN log, log[k].node = n PROVE FALSE
    BY DEF ConnectedNodes
  <2>1. Passed(n)
    BY DEF IInv, LogOK
  <2>2. (\A j \in DOMAIN todo : decl < todo[j]) \/ \A j \in DOMAIN body : n < body[j].node
    BY <1>3, <1>4, <2>1 DEF Passed
  <2>3. 1 \in DOMAIN todo /\ todo[1] = decl /\ decl \in Nodes
    <3>1. todo \in Seq(Nodes)
      BY <1>1 DEF TypesOK
    <3> QED BY <1>4, <3>1, HeadTailLemma
  <2>4. decl < decl \/ n < n
    BY <1>1, <2>2, <2>3
  <2> QED BY <1>2, <2>3, <2>4, NodesAreNumbers
<1>8. Head(body).function = FunctionOf(n) /\ Head(body).function \in 0 .. Size
  <2>1. \A x \in Nodes : x \in 0 .. Size
    BY DEF Nodes
  <2> QED BY <1>1, <1>2, <1>3, <2>1, FunctionOfLemma
<1> QED BY <1>2, <1>3, <1>4, <1>5, <1>6, <1>7, <1>8

LEMMA ReturnStmtKeeps == IInv /\ ReturnStmt => IInv'
<1> SUFFICES ASSUME IInv, ReturnStmt PROVE IInv'
  OBVIOUS
<1>0. Inner /\ Head(body).node \in Nodes /\ Head(body).function \in 0 .. Size
  BY ReturnFacts DEF ReturnStmt
<1> PICK n \in Nodes, f \in 0 .. Size : n = Head(body).node /\ f = Head(body).function
  BY <1>0
<1>1. /\ given' = given /\ kind[n] = "return" /\ log' = Connected(n, f) /\ result' = result
      /\ IF fails[n] # 0 THEN EndBody(TRUE)
         ELSE EnterInner(f) /\ todo' = todo /\ decl' = decl /\ err' = err
  BY DEF ReturnStmt, given
<1>2. /\ n \in Reached /\ n \notin ConnectedNodes
      /\ decl \in Above[n] /\ kind[decl] = "func" /\ ~err /\ todo # <<>> /\ decl = Head(todo)
      /\ f = FunctionOf(n)
      /\ \A g \in Above[n] : kind[g] = "func" => g = decl
  BY <1>0, <1>1, ReturnFacts
<1>3. kind' = kind /\ fails' = fails /\ Above' = Above /\ Reached' = Reached /\ Tree'
      /\ continueOnError' = continueOnError
  BY <1>1, GivenKept DEF IInv
<1>4. /\ log' \in Seq([node : Nodes, slot : 1 .. Slots, function : 0 .. Size])
      /\ ReturnsOfOwnFunction' /\ ConnectedOnce'
      /\ \A k \in DOMAIN log' : log'[k].node = n \/ \E j \in DOMAIN log : log'[k] = log[j]
      /\ \A m \in Nodes : Full(m) => Full(m)'
      /\ fails[n] = 0 => Full(n)'
  BY <1>1, <1>2, LogStep
<1>5. fails' \in [Nodes -> 0 .. Slots] /\ continueOnError' \in BOOLEAN /\ result' \in {"none", "ok", "error"}
  BY <1>1, <1>3 DEF IInv, TypesOK
<1>6. ASSUME Passed(n)', \A m \in Nodes : Passed(m) => Passed(m)', err' = (fails[n] # 0) PROVE LogOK'
  <2> SUFFICES ASSUME NEW k \in DOMAIN log'
               PROVE  /\ log'[k].node \in Reached
                      /\ Passed(log[k].node)'
                      /\ ~err' => fails[log'[k].node] = 0
    BY <1>3 DEF LogOK
  <2>1. CASE log'[k].node = n
    BY <1>2, <1>6, <2>1
  <2>2. CASE \E j \in DOMAIN log : log'[k] = log[j]
    <3>1. PICK j \in DOMAIN log : log'[k] = log[j]
      BY <2>2
    <3>2. log[j].node \in Reached /\ Passed(log[j].node) /\ fails[log[j].node] = 0
      BY <1>2 DEF IInv, LogOK
    <3>3. log[j].node \in Nodes
      BY <3>2 DEF Reached
    <3> QED BY <1>6, <3>1, <3>2, <3>3
  <2> QED BY <1>4, <2>1, <2>2
<1>7. CASE fails[n] # 0
  <2> DEFINE into == ~TRUE \/ continueOnError
  <2>1. decl' = 0 /\ body' = <<>> /\ err' = TRUE /\ Enter(into)
    BY <1>1, <1>7 DEF EndBody
  <2>2. into \in BOOLEAN
    BY DEF IInv, TypesOK
  <2> HIDE DEF into
  <2>3. /\ todo' \in Seq(Nodes) /\ IsFront(todo)' /\ InnerOK'
        /\ \A k \in DOMAIN todo' : decl < todo'[k]
        /\ \A m \in Nodes : Passed(m) => Passed(m)'
        /\ result = "none"
    BY <1>1, <1>2, <2>1, <2>2, OuterStep
  <2>4. Passed(n)'
    <3>1. "return" \notin Connecting
      BY DEF Connecting
    <3> QED BY <1>1, <1>2, <1>3, <2>3, <3>1 DEF Passed
  <2>5. TypesOK'
    <3>1. 0 \in 0 .. Size /\ body' \in Seq([node : Nodes, function : Nodes]) /\ err' \in BOOLEAN
      BY <2>1, NodesAreNumbers
    <3> QED BY <1>4, <1>5, <2>1, <2>3, <3>1 DEF TypesOK
  <2>6. OuterOK' /\ NothingMissed'
    BY <2>1, <2>3 DEF OuterOK, NothingMissed
  <2>7. LogOK'
    BY <1>6, <1>7, <2>1, <2>3, <2>4
  <2>8. EndOK'
    BY <1>1, <1>2, <1>3, <1>7, <2>3 DEF EndOK
  <2> QED BY <1>3, <1>4, <2>3, <2>5, <2>6, <2>7, <2>8 DEF IInv
<1>8. CASE fails[n] = 0
  <2>1. EnterInner(f) /\ todo' = todo /\ decl' = decl /\ err' = err
    BY <1>1, <1>8
  <2>2. f = IF kind[Head(body).node] = "lit" THEN Head(body).node ELSE Head(body).function
    BY <1>1
  <2>3. /\ body' \in Seq([node : Nodes, function : Nodes]) /\ InnerOK'
        /\ \A k \in DOMAIN body' : n < body'[k].node
        /\ \A m \in Nodes : Passed(m) => Passed(m)'
        /\ \A m \in Reached : Pending(m) => Pending(m)' \/ (m = n /\ kind[m] = "return")
    BY <1>0, <1>1, <2>1, <2>2, InnerStep
  <2>4. Passed(n)'
    <3>1. "return" \notin Connecting
      BY DEF Connecting
    <3> QED BY <1>1, <1>2, <1>3, <2>1, <2>3, <3>1 DEF Passed
  <2>5. TypesOK'
    <3>1. todo' \in Seq(Nodes) /\ decl' \in 0 .. Size /\ err' \in BOOLEAN
      BY <2>1 DEF IInv, TypesOK
    <3> QED BY <1>4, <1>5, <2>3, <3>1 DEF TypesOK
  <2>6. OuterOK'
    BY <1>3, <2>1 DEF IInv, OuterOK, IsFront
  <2>7. LogOK'
    <3>1. err' = (fails[n] # 0)
      BY <1>2, <1>8, <2>1 DEF IInv, TypesOK
    <3> QED BY <1>6, <2>3, <2>4, <3>1
  <2>8. NothingMissed'
    <3> SUFFICES ASSUME NEW m \in Reached PROVE Full(m)' \/ Pending(m)'
      BY <1>3 DEF NothingMissed
    <3>1. m \in Nodes
      BY DEF Reached
    <3>2. Full(m) \/ Pending(m)
      BY <1>2 DEF IInv, NothingMissed
    <3> QED BY <1>4, <1>8, <2>3, <3>1, <3>2
  <2>9. EndOK'
    BY <1>1, <1>2, <1>3, <2>1 DEF IInv, EndOK
  <2> QED BY <1>3, <1>4, <2>3, <2>5, <2>6, <2>7, <2>8, <2>9 DEF IInv
<1> QED BY <1>7, <1>8

LEMMA QuietKeeps ==
    ASSUME IInv, given' = given, todo' = todo, decl' = decl, body' = body, log' = log, err' = err,
           result' = result \/ (todo = <<>> /\ result' = IF err /\ ~continueOnError THEN "error" ELSE "ok")
    PROVE  IInv'
<1>1. kind' = kind /\ fails' = fails /\ Above' = Above /\ Reached' = Reached /\ Tree'
      /\ continueOnError' = continueOnError
      /\ \A x, f : IsFunctionOf(f, x)' <=> IsFunctionOf(f, x)
  BY GivenKept DEF IInv
<1>2. TypesOK'
  <2>1. /\ todo' \in Seq(Nodes) /\ decl' \in 0 .. Size /\ err' \in BOOLEAN /\ result' \in {"none", "ok", "error"}
        /\ body' \in Seq([node : Nodes, function : Nodes])
    BY DEF IInv, TypesOK
  <2> QED BY <2>1, SameLog DEF TypesOK
<1>3. BodyNodes' = BodyNodes /\ \A m, s : Ahead(m, s)' <=> Ahead(m, s)
  BY <1>1 DEF BodyNodes, Ahead
<1>4. OuterOK' /\ InnerOK'
  BY <1>1, <1>3 DEF IInv, OuterOK, InnerOK, IsFront
<1>5. \A n : (Passed(n)' <=> Passed(n)) /\ (Pending(n)' <=> Pending(n))
  <2>1. \A n : Passed(n)' <=> Passed(n)
    BY <1>1 DEF Passed
  <2>2. \A n : Ahead(n, todo)' <=> Ahead(n, todo)
    BY <1>1 DEF Ahead
  <2>3. \A n : Ahead(n, BodyNodes)' <=> Ahead(n, BodyNodes)
    BY <1>1, <1>3 DEF Ahead
  <2>4. \A n : Pending(n)' <=> Pending(n)
    BY <1>1, <2>2, <2>3 DEF Pending
  <2> QED BY <2>1, <2>4
<1>6. LogOK' /\ NothingMissed'
  BY <1>1, <1>5, SameLog DEF IInv, LogOK, NothingMissed
<1>7. EndOK'
  BY <1>1 DEF IInv, EndOK
<1> QED BY <1>1, <1>2, <1>4, <1>6, <1>7, SameLog DEF IInv

LEMMA NextLemma == IInv /\ [Next]_vars => IInv'
<1> SUFFICES ASSUME IInv, [Next]_vars PROVE IInv'
  OBVIOUS
<1>1. CASE Return
  BY <1>1, QuietKeeps DEF Return, given
<1>2. CASE Over \/ UNCHANGED vars
  BY <1>2, QuietKeeps DEF Over, vars, given
<1> QED BY <1>1, <1>2, AfterErrorKeeps, ConnectKeeps, PlainCallKeeps, PassKeeps, FuncDeclKeeps,
           FuncLitKeeps, ReturnStmtKeeps, PassInBodyKeeps, LeaveBodyKeeps DEF Next

(* The fronts, what is behind them and what is ahead, in every state.      *)
THEOREM WalkInvariant == Spec => []IInv
<1>1. Init => IInv
  BY InitLemma
<1>2. IInv /\ [Next]_vars => IInv'
  BY NextLemma
<1> QED BY <1>1, <1>2, PTL DEF Spec

-----------------------------------------------------------------------------
(* The properties *)

(* At the end of a traversal without errors nothing is ahead, so all that  *)
(* had to be reached was connected.                                        *)
LEMMA NothingAhead ==
    ASSUME IInv, todo = <<>>, ~err
    PROVE  \A n \in Reached : Full(n) /\ fails[n] = 0
<1>1. Tree /\ NothingMissed /\ InnerOK /\ LogOK
  BY DEF IInv
<1>2. decl = 0
  BY <1>1 DEF InnerOK
<1>3. \A n : ~Ahead(n, todo)
  <2>1. DOMAIN todo = {}
    OBVIOUS
  <2> QED BY <2>1 DEF Ahead
<1>4. ASSUME NEW n \in Reached PROVE Full(n)
  <2>1. n \in Nodes /\ (kind[n] = "return" => \E f \in Above[n] : kind[f] = "func")
    BY DEF Reached, Connecting
  <2>2. \A f \in Above[n] : f # decl
    BY <1>1, <1>2, <2>1, TreeLemma, NodesAreNumbers
  <2>3. ~Pending(n)
    BY <1>3, <2>1, <2>2 DEF Pending
  <2> QED BY <1>1, <2>3 DEF NothingMissed
<1>5. ASSUME NEW n \in Reached PROVE fails[n] = 0
  <2>1. 1 \in 1 .. Slots
    BY NodesAreNumbers
  <2>2. PICK k \in DOMAIN log : log[k].node = n
    BY <1>4, <2>1 DEF Full
  <2> QED BY <1>1, <2>2 DEF LogOK
<1> QED BY <1>4, <1>5

(* A return is connected with the results of the innermost function it     *)
(* stands in, a literal's where it stands in one (functionBodyParser).     *)
THEOREM ReturnsGoToTheirFunction == Spec => []ReturnsOfOwnFunction
<1>1. IInv => ReturnsOfOwnFunction
  BY DEF IInv
<1> QED BY <1>1, WalkInvariant, PTL

(* Though every body is traversed twice, no value of a node is connected a *)
(* second time.                                                            *)
THEOREM NothingConnectedTwice == Spec => []ConnectedOnce
<1>1. IInv => ConnectedOnce
  BY DEF IInv
<1> QED BY <1>1, WalkInvariant, PTL

(* What is connected is what should be: every value of every node that is  *)
(* not an operand of a plain call or a return outside of declarations.     *)
THEOREM AllAndOnlyReached == Spec => []ReachedExactly
<1>1. ASSUME IInv PROVE ReachedExactly
  <2>1. ConnectedNodes \subseteq Reached
    BY <1>1 DEF IInv, LogOK, ConnectedNodes
  <2>2. ASSUME result = "ok", ~err
        PROVE  \A n \in Reached : \A s \in 1 .. Slots : \E k \in DOMAIN log : log[k].node = n /\ log[k].slot = s
    <3>1. todo = <<>>
      BY <1>1, <2>2 DEF IInv, EndOK
    <3> QED BY <1>1, <2>2, <3>1, NothingAhead DEF Full
  <2> QED BY <2>1, <2>2 DEF ReachedExactly
<1> QED BY <1>1, WalkInvariant, PTL

(* No error is lost: Parse fails exactly for a file with a value that      *)
(* cannot be connected, unless told to continue.                           *)
THEOREM NoErrorIsLost == Spec => []ErrorsAreReported
<1>1. ASSUME IInv PROVE ErrorsAreReported
  <2> SUFFICES ASSUME result # "none"
               PROVE  result = "error" <=> ~continueOnError /\ \E n \in Reached : fails[n] # 0
    BY DEF ErrorsAreReported
  <2>1. todo = <<>> /\ result = IF err /\ ~continueOnError THEN "error" ELSE "ok"
    BY <1>1 DEF IInv, EndOK
  <2>2. err => \E n \in Reached : fails[n] # 0
    BY <1>1 DEF IInv, EndOK
  <2>3. ~err => \A n \in Reached : fails[n] = 0
    BY <1>1, <2>1, NothingAhead
  <2> QED BY <2>1, <2>2, <2>3
<1> QED BY <1>1, WalkInvariant, PTL

-----------------------------------------------------------------------------
(* The slots of one node *)

(* A slot of interface type has a value of its own, of a type that can be  *)
(* assigned to it.                                                         *)
LEMMA ValueOfSlot ==
    ASSUME NodeOK, NEW i \in InterfaceSlots
    PROVE  /\ i \in DOMAIN node.given /\ node.given[i] \in Types
           /\ node.slots[i].of \in Interfaces /\ node.slots[i].as # "pointer"
           /\ Assignable(node.given[i], node.slots[i])
<1>1. /\ i \in 1 .. Len(node.slots) /\ node.slots[i] \in SlotTypes
      /\ node.slots[i].as # "pointer" /\ node.slots[i].of \in Interfaces
  BY DEF NodeOK, InterfaceSlots, IsInterface
<1>2. PlainType.of \notin Interfaces
  BY BaseAssumption DEF PlainType, Interfaces
<1>3. i \in 1 .. Len(node.given)
  <2>1. CASE node.variadic
    <3>1. node.slots[Len(node.slots)] = PlainType /\ Len(node.given) >= Len(node.slots) - 1
      BY <2>1 DEF NodeOK, Compiles, Last
    <3>2. i # Len(node.slots)
      BY <1>1, <1>2, <3>1
    <3> QED BY <1>1, <3>1, <3>2 DEF NodeOK
  <2>2. CASE ~node.variadic
    BY <1>1, <2>2 DEF NodeOK, Compiles
  <2> QED BY <2>1, <2>2
<1>4. node.given[i] \in Types /\ i \in DOMAIN node.given /\ i \in DOMAIN node.slots
  BY <1>1, <1>3 DEF NodeOK
<1>5. Assignable(node.given[i], node.slots[i])
  BY <1>4 DEF NodeOK, Fits, InterfaceSlots
<1> QED BY <1>1, <1>4, <1>5

LEMMA PlainIsContainer == PlainType \in Containers
<1>1. PlainType \in Types /\ Bases[PlainType.of].kind = "plain" /\ PlainType.as # "pointer"
  BY BaseAssumption DEF Types, PlainType
<1> QED BY <1>1 DEF Containers

(* The values are counted right unless a call is spread over a variadic    *)
(* one.                                                                    *)
LEMMA Counted ==
    ASSUME NodeOK, NEW i \in InterfaceSlots
    PROVE  ~Mismatch
<1>1. i \in 1 .. Len(node.slots) /\ i \in 1 .. Len(node.given) /\ Len(node.slots) \in Nat /\ Len(node.given) \in Nat
  BY ValueOfSlot DEF NodeOK, InterfaceSlots
<1>2. CASE node.way = "each"
  <2>1. Values = Len(node.given)
    BY <1>2 DEF Values
  <2>2. CASE node.variadic
    BY <2>1, <2>2, <1>1 DEF Mismatch, Total, NodeOK, Compiles
  <2>3. CASE ~node.variadic
    BY <2>1, <2>3, <1>1 DEF Mismatch, Total, NodeOK, Compiles
  <2> QED BY <2>2, <2>3
<1>3. CASE node.way # "each"
  BY <1>3 DEF Mismatch, Values
<1> QED BY <1>2, <1>3

(* The type found for a slot that is not refused: that of its value, or    *)
(* that of the first value where its own has no methods, or the container. *)
LEMMA Found ==
    ASSUME NodeOK, NEW i \in InterfaceSlots, ReturnType(i) # Tuple, ~FromContainer
    PROVE  \/ ReturnType(i) = node.given[i]
           \/ node.given[i] = PlainType /\ ReturnType(i) \in Types
<1>1. i \in 1 .. Len(node.slots) /\ i \in 1 .. Len(node.given) /\ Len(node.slots) \in Nat /\ Len(node.given) \in Nat
  BY ValueOfSlot DEF NodeOK, InterfaceSlots
<1>2. CASE node.way \in {"each", "call"}
  BY <1>2 DEF ReturnType, FromContainer
<1>3. CASE node.way = "assert"
  <2>1. Len(node.given) = 2 /\ node.given[2] = PlainType /\ node.given[1] \in Types
    BY <1>3, <1>1 DEF NodeOK, Compiles, CommaOk
  <2>2. ReturnType(i) \in {node.given[1], node.given[i]}
    BY <1>3 DEF ReturnType, FromContainer
  <2>3. i = 1 \/ i = 2
    BY <1>1, <2>1
  <2> QED BY <2>1, <2>2, <2>3
<1>4. node.way \in {"each", "call", "assert"}
  BY DEF NodeOK, Ways, CommaOk, FromContainer
<1> QED BY <1>2, <1>3, <1>4

(* A value that is assigned has every method of the slot's interface, and  *)
(* is of the slot's type if that is a type parameter.                      *)
LEMMA ValueHas ==
    ASSUME NodeOK, NEW i \in InterfaceSlots
    PROVE  \/ node.given[i] = node.slots[i]
           \/ DOMAIN Bases[node.slots[i].of].methods \subseteq DOMAIN Bases[node.given[i].of].methods
<1>1. Assignable(node.given[i], node.slots[i])
  BY ValueOfSlot
<1> QED BY <1>1 DEF Assignable, MethodSet

(* What a slot is connected with is owed, and all that is certain is in    *)
(* it, if the type found is that of the value.                             *)
LEMMA GivesOwed ==
    ASSUME NodeOK, NEW i \in InterfaceSlots, ReturnType(i) # Tuple, ~FromContainer
    PROVE  /\ References(i, ReturnType(i)) \subseteq Owed(i)
           /\ Certain(i) \subseteq References(i, ReturnType(i))
<1> DEFINE t == node.given[i]
           from == Bases[node.slots[i].of].methods
           to == Bases[t.of].methods
<1>1. t \in Types /\ node.slots[i].of \in Interfaces
  BY ValueOfSlot
<1>2. CASE ReturnType(i) = t
  <2>1. References(i, t) \subseteq Owed(i)
    BY DEF References, Owed, SameName
  <2>2. ASSUME NEW r \in Certain(i) PROVE r \in References(i, t)
    <3>1. PICK m \in DOMAIN from : from[m] # to[m] /\ r = [slot |-> i, method |-> m, of |-> to[m]]
      BY <2>2 DEF Certain, Owed
    <3>2. m \in DOMAIN to
      <4>1. CASE t = node.slots[i]
        BY <3>1, <4>1
      <4> QED BY <4>1, ValueHas
    <3>3. CASE Bases[t.of].kind = "defined" /\ r.of = t.of
      <4>1. to[m] = t.of
        BY <3>1, <3>3
      <4>2. m \in Methods(t)
        BY <3>2, <3>3, <4>1 DEF Methods
      <4>3. Bases[to[m]].kind # "anonymous"
        BY <3>3, <4>1
      <4>4. ~SameName(from[m], to[m])
        BY <3>1, <4>3 DEF SameName
      <4> QED BY <3>1, <4>2, <4>4 DEF References
    <3>4. CASE Bases[t.of].kind = "anonymous" /\ ~SameName(from[r.method], r.of)
      <4>1. m \in Methods(t)
        BY <3>2, <3>4 DEF Methods
      <4>2. ~SameName(from[m], to[m])
        BY <3>1, <3>4
      <4> QED BY <3>1, <4>1, <4>2 DEF References
    <3> QED BY <2>2, <3>3, <3>4 DEF Certain
  <2> QED BY <1>2, <2>1, <2>2
<1>3. CASE t = PlainType
  <2>1. t.of = Plain /\ DOMAIN to = {} /\ t # node.slots[i]
    BY <1>1, <1>3, BaseAssumption DEF PlainType, Interfaces
  <2>2. DOMAIN from = {}
    BY <2>1, ValueHas
  <2>3. References(i, ReturnType(i)) = {} /\ Owed(i) = {}
    BY <2>2 DEF References, Owed
  <2> QED BY <2>3 DEF Certain
<1> QED BY <1>2, <1>3, Found

(* The type found for a slot is that of a value or that of the container.  *)
LEMMA FoundAmong ==
    ASSUME NodeOK, NEW i \in InterfaceSlots, ReturnType(i) # Tuple
    PROVE  ReturnType(i) \in {node.over} \cup Range(node.given)
<1>1. i \in DOMAIN node.given /\ i \in 1 .. Len(node.given) /\ Len(node.given) \in Nat
  BY ValueOfSlot DEF NodeOK
<1>2. 1 \in DOMAIN node.given
  BY <1>1 DEF NodeOK
<1>3. ReturnType(i) \in {node.over, node.given[1], node.given[i]}
  BY DEF ReturnType
<1> QED BY <1>1, <1>2, <1>3 DEF Range

(* A reference is refused for an interface that is not in the index, or    *)
(* for a method without a position of an interface without a name.         *)
LEMMA UnplacedReason ==
    ASSUME NodeOK, NEW i \in InterfaceSlots, ReturnType(i) # Tuple,
           NEW r \in References(i, ReturnType(i)), Unplaced(r)
    PROVE  \/ Declarers(node.slots[i].of) \cap unindexed # {}
           \/ \E t \in {node.over} \cup Range(node.given) :
                 /\ Bases[t.of].kind = "anonymous"
                 /\ \E m \in DOMAIN Bases[node.slots[i].of].methods \cap DOMAIN Bases[t.of].methods :
                       Bases[t.of].methods[m] \in Placeless
<1> DEFINE t == ReturnType(i)
           from == Bases[node.slots[i].of].methods
           to == Bases[t.of].methods
<1>1. PICK m \in DOMAIN from \cap Methods(t) : r = [slot |-> i, method |-> m, of |-> to[m]]
  BY DEF References
<1>2. CASE from[m] \in unindexed
  BY <1>1, <1>2 DEF Declarers
<1>3. CASE to[m] \in Placeless
  <2>1. Bases[to[m]].kind = "interface"
    BY <1>3, BaseAssumption
  <2>2. Bases[t.of].kind = "anonymous" /\ m \in DOMAIN to
    BY <1>1, <2>1 DEF Methods
  <2>3. t \in {node.over} \cup Range(node.given)
    BY FoundAmong
  <2> QED BY <1>1, <1>3, <2>2, <2>3
<1>4. r.slot = i /\ r.method = m /\ r.of = to[m]
  BY <1>1
<1> QED BY <1>2, <1>3, <1>4 DEF Unplaced

(* The tuple of a call is taken for a value only where the results are     *)
(* spread over a variadic call.                                            *)
LEMMA TupleOnlySpread ==
    ASSUME NodeOK, NEW i \in InterfaceSlots, ReturnType(i) = Tuple
    PROVE  node.way = "call" /\ node.variadic
<1>1. i \in 1 .. Len(node.slots) /\ i \in 1 .. Len(node.given) /\ Len(node.slots) \in Nat /\ Len(node.given) \in Nat
  BY ValueOfSlot DEF NodeOK, InterfaceSlots
<1>2. \A t \in Types : t # Tuple
  BY BaseAssumption DEF Types, Tuple, Interfaces
<1>3. node.given[i] # Tuple /\ node.given[1] # Tuple /\ node.over # Tuple
  BY <1>1, <1>2, PlainIsContainer DEF NodeOK, OverOf, Containers
<1>4. node.way = "call" /\ ~(Total > 1 /\ Values = 1)
  BY <1>3 DEF ReturnType, FromContainer
<1>5. Values = 1 /\ Len(node.given) > 1
  BY <1>4 DEF Values, NodeOK, Compiles
<1>6. CASE ~node.variadic
  BY <1>1, <1>4, <1>5, <1>6 DEF Total, NodeOK, Compiles
<1> QED BY <1>4, <1>6 DEF NodeOK

-----------------------------------------------------------------------------
(* The first state. *)
LEMMA FlowStarts == FlowInit => FlowIInv
<1> SUFFICES ASSUME FlowInit PROVE FlowIInv
  OBVIOUS
<1>1. NodeOK
  <2>1. PICK slots \in BoundedSeq(SlotTypes, MaxSlots) :
        \E values \in {g \in BoundedSeq(Types, MaxValues) : Fits(slots, g)} :
        \E way \in Ways :
          node \in {n \in [form : {"assign", "spec", "call", "return"}, slots : {slots}, given : {values},
                           way : {way}, over : OverOf(way), variadic : BOOLEAN] : Compiles(n)}
    BY DEF FlowInit
  <2>2. PICK values \in BoundedSeq(Types, MaxValues) :
          /\ Fits(slots, values)
          /\ \E way \in Ways :
               node \in {n \in [form : {"assign", "spec", "call", "return"}, slots : {slots}, given : {values},
                                way : {way}, over : OverOf(way), variadic : BOOLEAN] : Compiles(n)}
    BY <2>1
  <2>3. slots \in Seq(SlotTypes) /\ values \in Seq(Types)
    BY BaseAssumption DEF BoundedSeq, SeqOf
  <2>4. node.slots = slots /\ node.given = values
    BY <2>2
  <2> QED BY <2>2, <2>3, <2>4 DEF NodeOK
<1>2. Len(node.slots) \in Nat
  BY <1>1 DEF NodeOK
<1>3. Progress
  BY <1>2 DEF FlowInit, Progress
<1>4. MadeIsOwed /\ CertainIsMade
  BY <1>2 DEF FlowInit, MadeIsOwed, CertainIsMade, InterfaceSlots
<1>5. RefusedForAReason
  BY DEF FlowInit, RefusedForAReason
<1> QED BY <1>1, <1>3, <1>4, <1>5 DEF FlowIInv

(* What the properties say of a node does not change with the state.       *)
LEMMA NodeKept ==
    ASSUME UNCHANGED node
    PROVE  /\ InterfaceSlots' = InterfaceSlots /\ FromContainer' = FromContainer
           /\ NodeOK' = NodeOK
           /\ \A i : AliasResult(i)' = AliasResult(i) /\ Owed(i)' = Owed(i) /\ Certain(i)' = Certain(i)
<1>1. \A i : Owed(i)' = Owed(i)
  BY DEF Owed
<1> QED BY <1>1 DEF InterfaceSlots, FromContainer, NodeOK, AliasResult, Certain

(* A step that makes only references that are owed, and passes a slot only *)
(* with what is certain, keeps the invariant.                              *)
LEMMA StepKeeps ==
    ASSUME FlowIInv, UNCHANGED <<node, unindexed>>, Progress', RefusedForAReason',
           NEW S, made' = made \cup S,
           \A r \in S : r.slot \in InterfaceSlots /\ (FromContainer \/ r \in Owed(r.slot)),
           \/ slot' = slot
           \/ /\ slot' = slot + 1
              /\ slot \in InterfaceSlots =>
                    FromContainer \/ AliasResult(slot) \/ Certain(slot) \subseteq S
    PROVE  FlowIInv'
<1>1. NodeOK' /\ slot \in Nat /\ InterfaceSlots \subseteq Nat
  BY NodeKept DEF FlowIInv, Progress, InterfaceSlots, NodeOK
<1>2. MadeIsOwed'
  BY NodeKept DEF FlowIInv, MadeIsOwed
<1>3. CertainIsMade'
  <2> SUFFICES ASSUME NEW i \in InterfaceSlots, i < slot'
               PROVE  FromContainer \/ AliasResult(i) \/ Certain(i) \subseteq made'
    BY NodeKept DEF CertainIsMade
  <2>1. CASE i < slot
    BY <2>1 DEF FlowIInv, CertainIsMade
  <2>2. CASE ~(i < slot)
    <3>1. i = slot /\ slot' = slot + 1
      BY <1>1, <2>2
    <3> QED BY <3>1
  <2> QED BY <2>1, <2>2
<1> QED BY <1>1, <1>2, <1>3 DEF FlowIInv

LEMMA NothingMade ==
    ASSUME FlowIInv, UNCHANGED <<node, unindexed, made>>, Progress', RefusedForAReason',
           \/ slot' = slot
           \/ /\ slot' = slot + 1
              /\ slot \in InterfaceSlots => AliasResult(slot) \/ Certain(slot) = {}
    PROVE  FlowIInv'
<1> DEFINE S == {}
<1>1. made' = made \cup S /\ UNCHANGED <<node, unindexed>>
  OBVIOUS
<1>2. \A r \in S : r.slot \in InterfaceSlots /\ (FromContainer \/ r \in Owed(r.slot))
  OBVIOUS
<1>3. \/ slot' = slot
      \/ /\ slot' = slot + 1
         /\ slot \in InterfaceSlots => FromContainer \/ AliasResult(slot) \/ Certain(slot) \subseteq S
  OBVIOUS
<1> HIDE DEF S
<1> QED BY <1>1, <1>2, <1>3, StepKeeps

LEMMA StepInvariant == FlowIInv /\ [FlowNext]_FlowVars => FlowIInv'
<1> SUFFICES ASSUME FlowIInv, [FlowNext]_FlowVars PROVE FlowIInv'
  OBVIOUS
<1>a. Len(node.slots) \in Nat /\ NodeOK /\ Progress
  BY DEF FlowIInv, NodeOK
<1>1. CASE SkipSlot
  <2>1. slot \in InterfaceSlots => AliasResult(slot) \/ Certain(slot) = {}
    <3> SUFFICES ASSUME slot \in InterfaceSlots PROVE AliasResult(slot) \/ Certain(slot) = {}
      OBVIOUS
    <3>1. node.slots[slot] \in SlotTypes /\ IsInterface(node.slots[slot])
      BY DEF InterfaceSlots, FlowIInv, NodeOK
    <3>2. node.form = "return" /\ node.slots[slot].as # "plain"
      BY <1>1, <3>1 DEF SkipSlot, Looked, IsInterface
    <3>3. CASE node.slots[slot].as = "param"
      <4>1. node.given[slot] = node.slots[slot]
        BY <1>a, <3>3, ValueOfSlot DEF Assignable
      <4> QED BY <4>1 DEF Certain, Owed
    <3>4. CASE node.slots[slot].as # "param"
      BY <3>1, <3>2, <3>4 DEF SlotTypes, PlainType, AliasResult
    <3> QED BY <3>3, <3>4
  <2>2. AtSlot /\ slot' = slot + 1 /\ UNCHANGED <<node, unindexed, outcome>> /\ made' = made
    BY <1>1 DEF SkipSlot
  <2>3. Progress' /\ RefusedForAReason'
    BY <1>a, <2>2 DEF AtSlot, Progress, RefusedForAReason
  <2> QED BY <2>1, <2>2, <2>3, NothingMade
<1>2. CASE ConnectSlot
  <2>1. slot \in InterfaceSlots /\ ReturnType(slot) # Tuple
    BY <1>2 DEF ConnectSlot, AtSlot, Looked, InterfaceSlots, IsInterface, Untyped
  <2>2. \A r \in References(slot, ReturnType(slot)) : r.slot = slot
    BY DEF References
  <2>3. /\ slot' = slot + 1 /\ UNCHANGED <<node, unindexed, outcome>> /\ outcome = "none"
        /\ slot \in DOMAIN node.slots /\ made' = made \cup References(slot, ReturnType(slot))
    BY <1>2 DEF ConnectSlot, AtSlot
  <2>4. Progress' /\ RefusedForAReason'
    BY <1>a, <2>3 DEF NodeOK, Progress, RefusedForAReason
  <2> QED BY <1>a, <2>1, <2>2, <2>3, <2>4, GivesOwed, StepKeeps
<1>3. CASE RefuseSlot
  <2>1. slot \in InterfaceSlots /\ Untyped(slot)
    BY <1>3 DEF RefuseSlot, AtSlot, Looked, InterfaceSlots, IsInterface
  <2>2. node.way = "call" /\ node.variadic
    BY <1>a, <2>1, Counted, TupleOnlySpread DEF Untyped
  <2>3. UNCHANGED <<node, unindexed, slot>> /\ made' = made /\ outcome' = "error"
    BY <1>3 DEF RefuseSlot
  <2>4. Progress' /\ RefusedForAReason'
    BY <1>a, <2>2, <2>3 DEF Progress, RefusedForAReason
  <2> QED BY <2>3, <2>4, NothingMade
<1>4. CASE FailSlot
  <2>1. slot \in InterfaceSlots /\ ReturnType(slot) # Tuple
    BY <1>4 DEF FailSlot, AtSlot, Looked, InterfaceSlots, IsInterface, Untyped
  <2>2. PICK r \in References(slot, ReturnType(slot)) : Unplaced(r)
    BY <1>4 DEF FailSlot
  <2>3. PICK before \in SUBSET {q \in References(slot, ReturnType(slot)) : ~Unplaced(q)} :
            made' = made \cup before
    BY <1>4 DEF FailSlot
  <2>4. UNCHANGED <<node, unindexed, slot>> /\ outcome' = "error"
    BY <1>4 DEF FailSlot
  <2>6. Progress'
    BY <1>a, <2>4 DEF Progress
  <2>7. RefusedForAReason'
    BY <1>a, <1>4, <2>1, <2>2, <2>4, UnplacedReason, NodeKept DEF RefusedForAReason
  <2>8. \A q \in before : q.slot = slot /\ (FromContainer \/ q \in Owed(slot))
    BY <1>a, <2>1, GivesOwed DEF References
  <2> QED BY <2>1, <2>3, <2>4, <2>6, <2>7, <2>8, StepKeeps
<1>5. CASE Finish
  <2>1. UNCHANGED <<node, unindexed, slot>> /\ made' = made /\ outcome' = "ok" /\ slot = Len(node.slots) + 1
    BY <1>5, <1>a DEF Finish, Progress
  <2>2. Progress' /\ RefusedForAReason'
    BY <1>a, <2>1 DEF Progress, RefusedForAReason
  <2> QED BY <2>1, <2>2, NothingMade
<1>6. CASE UNCHANGED FlowVars
  <2>1. UNCHANGED <<node, unindexed, slot, outcome, made>>
    BY <1>6 DEF FlowVars
  <2>2. Progress' /\ RefusedForAReason'
    BY <1>a, <2>1, NodeKept DEF FlowIInv, Progress, RefusedForAReason
  <2> QED BY <2>1, <2>2, NothingMade
<1> QED BY <1>1, <1>2, <1>3, <1>4, <1>5, <1>6 DEF FlowNext, FlowOver

(* What has been made is owed, and nothing certain is missing from the     *)
(* slots passed so far.                                                    *)
THEOREM FlowInvariant == FlowSpec => []FlowIInv
<1> QED BY FlowStarts, StepInvariant, PTL DEF FlowSpec

(* Whatever form an assignment, spec, call or return has, an interface is  *)
(* connected with nothing but the methods of the type that the language    *)
(* gives it, and with all that the type declares (extractReturnType,       *)
(* createInterfaceReferences).                                             *)
THEOREM FlowConnectedAsOwed == FlowSpec => []ConnectedAsOwed
<1>1. FlowIInv => ConnectedAsOwed
  <2> SUFFICES ASSUME FlowIInv PROVE ConnectedAsOwed
    OBVIOUS
  <2>1. outcome = "ok" => \A i \in InterfaceSlots : i < slot
    BY DEF FlowIInv, NodeOK, Progress, InterfaceSlots
  <2> QED BY <2>1 DEF FlowIInv, MadeIsOwed, CertainIsMade, ConnectedAsOwed
<1> QED BY <1>1, FlowInvariant, PTL

(* Only an interface that is not indexed, a method without a position, or  *)
(* results spread over a variadic call, make code that compiles an error.  *)
THEOREM FlowRefusedForAReason == FlowSpec => []RefusedForAReason
<1>1. FlowIInv => RefusedForAReason
  BY DEF FlowIInv
<1> QED BY <1>1, FlowInvariant, PTL
=============================================================================
