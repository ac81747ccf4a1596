--------------------------- MODULE FileWalkProofs ---------------------------
(***************************************************************************)
(* The walk over one file, for every file of the grammar: each function    *)
(* literal and each interface is declared once, by whichever traversal     *)
(* meets it first, and a literal is named after the symbol it is in.       *)
(*                                                                         *)
(* The traversals form two fronts, that of the file and that of the        *)
(* functions; on each nothing is at or below anything else.  What is on    *)
(* neither is claimed by the values of names.                              *)
(***************************************************************************)
EXTENDS FileWalk, Lemmas

IsFile ==
    /\ \E shape \in Shapes : tree \in TreesOf(shape)
    /\ about \in AllNames(tree)

Child(c, n) == c \in DOMAIN tree \ {1} /\ tree[c].up = n
Below(a, n) == n = a \/ a \in Above(tree)[n]
Apart(a, b) == ~Below(a, b) /\ ~Below(b, a)

(* The functions around a node, and the nodes that are to be declared.     *)
Within(n) == Above(tree)[n] \cap Functions
Declarable == Functions \cup (Interfaces \ Hidden)
SymbolOf(n) == <<n, IF n \in Functions THEN 0 ELSE 1>>
DoneIn(ds) == {n \in Declarable : \E i \in DOMAIN ds : ds[i].symbol = SymbolOf(n)}
Done == DoneIn(declared)

-----------------------------------------------------------------------------
(* The file *)

Nodes ==
    /\ DOMAIN tree = 1 .. Len(tree) /\ Len(tree) \in Nat \ {0}
    /\ IsTree(Len(tree), UpOf(tree), Above(tree))
    /\ tree[1].up = 0 /\ Kind(1) = "file"
    /\ \A n \in DOMAIN tree \ {1} : UpOf(tree)[n] = tree[n].up /\ tree[n].up \in DOMAIN tree

(* What the grammar says of a node and the one it stands in.               *)
MayStand(kind, up) ==
    /\ kind # "file" /\ up # "use"
    /\ kind \in {"gen", "func"} => up = "file"
    /\ kind = "spec" => up = "gen"
    /\ kind = "param" => up \in {"func", "lit"}
    /\ up = "gen" => kind = "spec"
    /\ up \in {"param", "iface", "named"} => kind = "iface"
Standing == \A n \in DOMAIN tree \ {1} : MayStand(Kind(n), Kind(tree[n].up))

LEMMA NodesHold == ASSUME IsFile PROVE Nodes /\ Standing
<1>1. PICK shape \in Shapes : tree \in TreesOf(shape)
  BY DEF IsFile
<1> DEFINE g == shape.grammar
           kinds == DOMAIN g
<1>2. /\ shape.size \in Nat \ {0} /\ "file" \in kinds
      /\ \A k \in kinds : g[k] \subseteq kinds
      /\ \A k \in kinds : \A j \in g[k] : MayStand(j, k)
  <2>1. /\ shape.size \in Nat \ {0} /\ "file" \in kinds
        /\ \A k \in kinds :
              /\ g[k] \subseteq kinds \ {"file"}
              /\ g[k] \cap {"gen", "func"} # {} => k = "file"
              /\ "spec" \in g[k] => k = "gen"
              /\ "param" \in g[k] => k \in {"func", "lit"}
              /\ k = "gen" => g[k] \subseteq {"spec"}
              /\ k \in {"param", "iface", "named"} => g[k] \subseteq {"iface"}
              /\ k = "use" => g[k] = {}
    BY GrammarAssumption
  <2> HIDE DEF g
  <2>2. ASSUME NEW k \in kinds, NEW j \in g[k] PROVE MayStand(j, k)
    BY <2>1 DEF MayStand
  <2> QED BY <2>1, <2>2
<1>3. tree \in Syntax!TreesOf(shape)
  BY <1>1 DEF TreesOf, Syntax!TreesOf, Above, Syntax!Above
<1>4. IsGrown(kinds, g, tree)
  <2> HIDE DEF kinds
  <2> QED BY <1>2, <1>3, TreesAreGrown
<1>5. /\ tree \in Seq(NodesWith(kinds)) /\ tree # <<>> /\ tree[1] = [up |-> 0, kind |-> "file"]
      /\ IsTree(Len(tree), UpOf(tree), Above(tree))
      /\ \A n \in DOMAIN tree : n # 1 => tree[n].kind \in g[tree[tree[n].up].kind]
  <2>1. Above(tree) = Syntax!Above(tree)
    BY DEF Above, Syntax!Above
  <2> QED BY <1>4, <2>1 DEF IsGrown
<1> HIDE DEF g, kinds
<1>6. Len(tree) \in Nat \ {0} /\ DOMAIN tree = 1 .. Len(tree) /\ 1 \in DOMAIN tree
  BY <1>5
<1>7. ASSUME NEW n \in DOMAIN tree \ {1}
      PROVE  UpOf(tree)[n] = tree[n].up /\ tree[n].up \in DOMAIN tree
  <2>1. UpOf(tree)[n] = tree[n].up
    BY DEF UpOf
  <2>2. UpOf(tree)[n] \in 1 .. n - 1
    BY <1>5, <1>6 DEF IsTree, ParentsFirst
  <2> QED BY <1>6, <2>1, <2>2
<1>8. \A n \in DOMAIN tree : Kind(n) \in kinds
  <2> TAKE n \in DOMAIN tree
  <2>1. tree[n] \in NodesWith(kinds)
    BY <1>5
  <2> QED BY <2>1 DEF NodesWith, Kind
<1>9. Standing
  BY <1>2, <1>5, <1>7, <1>8 DEF Standing, Kind
<1>10. tree[1].up = 0 /\ Kind(1) = "file"
  BY <1>5 DEF Kind
<1>11. Nodes
  BY <1>5, <1>6, <1>7, <1>10 DEF Nodes
<1> QED BY <1>9, <1>11

(* Being below a node.                                                     *)
Belows ==
    /\ \A n \in DOMAIN tree : Above(tree)[n] \subseteq DOMAIN tree
    /\ \A a, m, c \in DOMAIN tree : Below(a, m) /\ Below(m, c) => Below(a, c)
    /\ \A a, b, n \in DOMAIN tree : Below(a, n) /\ Below(b, n) => Below(a, b) \/ Below(b, a)
    /\ \A a, n \in DOMAIN tree : Below(a, n) => a <= n /\ (a # n => a < n /\ ~Below(n, a))
    /\ \A a, n \in DOMAIN tree : a \in Above(tree)[n] <=> a # n /\ Below(a, n)
    /\ Above(tree)[1] = {}
Childs ==
    /\ \A c, n \in DOMAIN tree : Child(c, n) => n < c /\ c # 1 /\ Below(n, c) /\ ~Below(c, n)
    /\ \A c, n, m \in DOMAIN tree : Child(c, n) => (Below(m, c) <=> m = c \/ Below(m, n))
    /\ \A n, m \in DOMAIN tree : Below(n, m) => m = n \/ \E c \in DOMAIN tree : Child(c, n) /\ Below(c, m)
    /\ \A c, d, n \in DOMAIN tree : Child(c, n) /\ Child(d, n) /\ c # d => Apart(c, d)
    /\ \A c, n \in DOMAIN tree : Child(c, n) => MayStand(Kind(c), Kind(n))

LEMMA TreeFacts == ASSUME IsFile PROVE Nodes /\ Belows /\ Childs
<1> DEFINE up == UpOf(tree)  above == Above(tree)  N == DOMAIN tree  B(a, n) == n = a \/ a \in above[n]
<1>1. /\ Len(tree) \in Nat \ {0} /\ N = 1 .. Len(tree)
      /\ IsTree(Len(tree), up, above)
      /\ \A n \in N \ {1} : up[n] = tree[n].up /\ tree[n].up \in N
  BY NodesHold DEF Nodes
<1> HIDE DEF up, above, N
<1>2. /\ \A n \in N : above[n] \in SUBSET N
      /\ above[1] = {}
      /\ \A n \in N : n # 1 => up[n] \in N /\ above[n] = {up[n]} \cup above[up[n]]
      /\ \A n \in N : \A a \in above[n] : a < n /\ above[a] \subseteq above[n]
      /\ \A a, m, c \in N : a \in above[c] /\ a < m /\ m <= c => a \in above[m]
      /\ \A n \in N : \A a \in above[n] : \E k \in N \ {1} : up[k] = a /\ (k = n \/ k \in above[n])
  BY <1>1, TreeOrder
<1>3. \A n \in N : n \in Nat
  BY <1>1
<1>4. \A n \in N : above[n] \subseteq N
  BY <1>2
<1>5. ASSUME NEW a \in N, NEW m \in N, NEW c \in N, B(a, m), B(m, c) PROVE B(a, c)
  BY <1>2, <1>5
<1>6. ASSUME NEW a \in N, NEW b \in N, NEW n \in N, B(a, n), B(b, n) PROVE B(a, b) \/ B(b, a)
  <2>1. CASE a = n \/ b = n
    BY <1>6, <2>1
  <2>2. CASE a \in above[n] /\ b \in above[n]
    <3>1. a < n /\ b < n /\ a \in Nat /\ b \in Nat /\ n \in Nat
      BY <1>2, <1>3, <2>2
    <3>2. CASE a < b
      BY <1>2, <2>2, <3>1, <3>2
    <3>3. CASE b < a
      BY <1>2, <2>2, <3>1, <3>3
    <3> QED BY <3>1, <3>2, <3>3
  <2> QED BY <1>6, <2>1, <2>2
<1>7. ASSUME NEW a \in N, NEW n \in N, B(a, n)
      PROVE  a <= n /\ (a # n => a < n /\ ~B(n, a))
  BY <1>2, <1>3, <1>7
<1>8. \A a, n \in N : a \in above[n] <=> a # n /\ B(a, n)
  BY <1>2, <1>3
<1>9. Belows
  BY <1>2, <1>4, <1>5, <1>6, <1>7, <1>8 DEF Belows, Below, above, N
<1>10. ASSUME NEW c \in N, NEW n \in N, Child(c, n)
       PROVE  c # 1 /\ above[c] = {n} \cup above[n] /\ n < c /\ ~B(c, n)
  <2>1. c # 1 /\ up[c] = n
    BY <1>1, <1>10 DEF Child, N
  <2>2. above[c] = {n} \cup above[n] /\ n < c
    BY <1>2, <2>1
  <2> QED BY <1>2, <1>3, <2>1, <2>2
<1>11. ASSUME NEW c \in N, NEW n \in N, NEW m \in N, Child(c, n) PROVE B(m, c) <=> m = c \/ B(m, n)
  BY <1>10, <1>11
<1>12. ASSUME NEW n \in N, NEW m \in N, B(n, m), m # n PROVE \E c \in N : Child(c, n) /\ B(c, m)
  <2>1. PICK k \in N \ {1} : up[k] = n /\ (k = m \/ k \in above[m])
    BY <1>2, <1>12
  <2>2. Child(k, n)
    BY <1>1, <2>1 DEF Child, N
  <2> QED BY <2>1, <2>2
<1>13. ASSUME NEW c \in N, NEW d \in N, NEW n \in N, Child(c, n), Child(d, n), c # d
       PROVE  ~B(c, d)
  BY <1>10, <1>11, <1>13
<1>14. \A c, n \in N : Child(c, n) => MayStand(Kind(c), Kind(n))
  BY NodesHold DEF Standing, Child, N
<1>15. Childs
  BY <1>10, <1>11, <1>12, <1>13, <1>14 DEF Childs, Below, Apart, above, N
<1> QED BY <1>9, <1>15, NodesHold

(* Functions around a node, and what types contain.                        *)
Withins ==
    /\ Functions \subseteq DOMAIN tree
    /\ \A n, m \in DOMAIN tree : Below(n, m) => Within(n) \subseteq Within(m)
    /\ \A n, f \in DOMAIN tree : f \in Within(n) <=> f \in Functions /\ f # n /\ Below(f, n)
    /\ \A c, n \in DOMAIN tree : Child(c, n) => Within(c) = Within(n) \cup ({n} \cap Functions)
Types ==
    /\ \A n, m \in DOMAIN tree : Below(m, n) /\ m # n =>
          /\ Kind(m) \in {"param", "iface", "named"} => Kind(n) = "iface" /\ Within(n) = Within(m)
          /\ Kind(n) = "spec" => Kind(m) \in {"gen", "file"}
          /\ Kind(m) # "use"
          /\ Kind(m) = "named" => n \in Hidden
    /\ \A c, n \in DOMAIN tree : Child(c, n) =>
          IF Kind(n) = "lit" /\ Kind(c) = "param" THEN \A m \in DOMAIN tree : Below(c, m) => m \in Hidden
          ELSE n \notin Hidden /\ Kind(n) # "named" => c \notin Hidden
Sorts ==
    /\ \A n \in Declarable : n \in DOMAIN tree /\ Kind(n) \in {"func", "lit", "iface", "param", "named"}
    /\ \A n \in Functions : n \in Declarable /\ n \notin Hidden /\ Kind(n) \in {"func", "lit"}
    /\ \A n \in Interfaces : n \notin Functions /\ Kind(n) \in {"iface", "param", "named"}
    /\ Literals \subseteq Functions /\ Hidden \subseteq Interfaces /\ \A n \in Hidden : n \notin Declarable
    /\ \A n \in Interfaces : n \notin Hidden => n \in Declarable

LEMMA SortFacts == Sorts
  BY DEF Sorts, Declarable, Functions, Interfaces, Literals, Hidden, NodesOf, Kind

LEMMA WithinFacts == ASSUME IsFile PROVE Withins /\ Types
<1> DEFINE N == DOMAIN tree
<1>1. N = 1 .. Len(tree) /\ Len(tree) \in Nat \ {0} /\ \A n \in N : n \in Nat
  BY TreeFacts DEF Nodes
<1>2. Belows /\ Childs
  BY TreeFacts
<1>3. Functions \subseteq N
  BY DEF Functions, NodesOf
<1>4. \A n, f \in N : f \in Within(n) <=> f \in Functions /\ f # n /\ Below(f, n)
  BY <1>2 DEF Within, Belows
<1>5. \A n \in N : Within(n) \subseteq N
  BY <1>3 DEF Within
<1>6. ASSUME NEW n \in N, NEW m \in N, Below(n, m) PROVE Within(n) \subseteq Within(m)
  <2> SUFFICES ASSUME NEW f \in Within(n) PROVE f \in Within(m)
    OBVIOUS
  <2>1. f \in N /\ f \in Functions /\ f # n /\ Below(f, n)
    BY <1>4, <1>5
  <2>2. Below(f, m) /\ f # m
    BY <1>2, <1>6, <2>1 DEF Belows
  <2> QED BY <1>4, <2>1, <2>2
<1>7. ASSUME NEW c \in N, NEW n \in N, Child(c, n) PROVE Within(c) = Within(n) \cup ({n} \cap Functions)
  <2>1. ASSUME NEW f \in N PROVE f \in Within(c) <=> f \in Within(n) \cup ({n} \cap Functions)
    <3>1. /\ Below(f, c) <=> f = c \/ Below(f, n)
          /\ ~Below(c, n) /\ n # c /\ Below(n, n)
      BY <1>1, <1>2, <1>7 DEF Childs, Below
    <3> QED BY <1>4, <3>1
  <2> QED BY <1>3, <1>5, <2>1
<1>8. Withins
  BY <1>3, <1>4, <1>6, <1>7 DEF Withins
<1> DEFINE typed == {"param", "iface", "named"}
<1>9. \A n, m \in N : Below(m, n) /\ m # n /\ Kind(m) \in typed => Kind(n) = "iface"
  <2> DEFINE W == {n \in N : ~ \A m \in N : Below(m, n) /\ m # n /\ Kind(m) \in typed => Kind(n) = "iface"}
  <2> SUFFICES ASSUME W # {} PROVE FALSE
    OBVIOUS
  <2>1. PICK n \in W : \A k \in W : n <= k
    <3>1. W \subseteq Nat
      BY <1>1
    <3> HIDE DEF W
    <3> QED BY <3>1, LeastNat
  <2>2. PICK m \in N : Below(m, n) /\ m # n /\ Kind(m) \in typed /\ Kind(n) # "iface"
    BY <2>1
  <2>3. n \in N /\ n # 1
    BY <1>2, <2>1, <2>2 DEF Belows, Below
  <2> DEFINE p == tree[n].up
  <2>4. p \in N /\ Child(n, p)
    BY <2>3, TreeFacts DEF Nodes, Child
  <2> HIDE DEF p
  <2>5. p < n /\ p \in Nat /\ n \in Nat /\ Below(m, p)
    BY <1>1, <1>2, <2>2, <2>3, <2>4 DEF Childs
  <2>6. p \notin W
    BY <2>1, <2>5
  <2>7. Kind(p) \in typed
    <3>1. CASE p = m
      BY <2>2, <3>1
    <3>2. CASE p # m
      BY <2>2, <2>4, <2>5, <2>6, <3>2
    <3> QED BY <3>1, <3>2
  <2>8. MayStand(Kind(n), Kind(p))
    BY <1>2, <2>3, <2>4 DEF Childs
  <2> QED BY <2>2, <2>7, <2>8 DEF MayStand
<1>10. ASSUME NEW n \in N, NEW m \in N, Below(m, n), m # n, Kind(m) \in typed PROVE Within(n) = Within(m)
  <2>1. ASSUME NEW f \in Within(n) PROVE f \in Within(m)
    <3>1. f \in N /\ f \in Functions /\ f # n /\ Below(f, n)
      BY <1>4, <1>5
    <3>2. Kind(f) \in {"func", "lit"}
      BY <3>1, SortFacts DEF Sorts
    <3>3. Below(f, m) \/ Below(m, f)
      BY <1>2, <1>10, <3>1 DEF Belows
    <3>4. f # m /\ ~Below(m, f)
      BY <1>9, <1>10, <3>1, <3>2
    <3> QED BY <1>4, <3>1, <3>3, <3>4
  <2> QED BY <1>6, <1>10, <2>1
<1>11. ASSUME NEW n \in N, NEW m \in N, Below(m, n), m # n, Kind(n) = "spec" PROVE Kind(m) \in {"gen", "file"}
  <2>1. PICK c \in N : Child(c, m) /\ Below(c, n)
    BY <1>2, <1>11 DEF Childs
  <2>2. n \in N \ {1} /\ Child(n, tree[n].up) /\ tree[n].up \in N
    BY <1>11, TreeFacts DEF Nodes, Child
  <2>3. Kind(tree[n].up) = "gen" /\ Below(m, tree[n].up)
    BY <1>2, <1>11, <2>2 DEF Childs, MayStand
  <2> DEFINE p == tree[n].up
  <2>4. CASE p = m
    BY <2>3, <2>4
  <2>5. CASE p # m
    <3>1. p \in N \ {1} /\ Child(p, tree[p].up) /\ tree[p].up \in N
      BY <2>2, <2>3, TreeFacts DEF Nodes, Child
    <3>2. Kind(tree[p].up) = "file" /\ Below(m, tree[p].up)
      <4> HIDE DEF p
      <4>1. Kind(p) = "gen" /\ Below(m, p)
        BY <2>3 DEF p
      <4> QED BY <1>2, <2>5, <3>1, <4>1 DEF Childs, MayStand
    <3>3. tree[p].up = 1
      <4> DEFINE q == tree[p].up
      <4> SUFFICES ASSUME q # 1 PROVE FALSE
        OBVIOUS
      <4>1. q \in N \ {1} /\ Child(q, tree[q].up) /\ tree[q].up \in N
        BY <3>1, TreeFacts DEF Nodes, Child
      <4> QED BY <1>2, <3>2, <4>1 DEF Childs, MayStand
    <3>4. m = 1
      BY <1>2, <3>2, <3>3 DEF Belows, Below
    <3> QED BY <3>4, TreeFacts DEF Nodes
  <2> QED BY <2>4, <2>5
<1>12. ASSUME NEW n \in N, NEW m \in N, Below(m, n), m # n
       PROVE  Kind(m) # "use" /\ (Kind(m) = "named" => n \in Hidden)
  <2>1. PICK c \in N : Child(c, m)
    BY <1>2, <1>12 DEF Childs
  <2>2. Kind(m) # "use"
    BY <1>2, <2>1 DEF Childs, MayStand
  <2>3. ASSUME Kind(m) = "named" PROVE n \in Hidden
    <3>1. Kind(n) = "iface" /\ m \in Above(tree)[n]
      BY <1>2, <1>9, <1>12, <2>3 DEF Belows
    <3>2. n \in Interfaces
      BY <3>1 DEF Interfaces, NodesOf, Kind
    <3> QED BY <1>12, <2>3, <3>1, <3>2 DEF Hidden
  <2> QED BY <2>2, <2>3
<1>13. ASSUME NEW c \in N, NEW n \in N, Child(c, n), Kind(n) = "lit", Kind(c) = "param",
              NEW m \in N, Below(c, m)
       PROVE  m \in Hidden
  <2>1. tree[c].up = n
    BY <1>13 DEF Child
  <2>2. Kind(m) \in {"param", "iface"}
    BY <1>9, <1>13
  <2>3. m \in Interfaces
    BY <2>2 DEF Interfaces, NodesOf, Kind
  <2>4. c \in Above(tree)[m] \cup {m}
    BY <1>13 DEF Below
  <2> QED BY <1>13, <2>1, <2>3, <2>4 DEF Hidden
<1>14. ASSUME NEW c \in N, NEW n \in N, Child(c, n), ~(Kind(n) = "lit" /\ Kind(c) = "param"),
              n \notin Hidden, Kind(n) # "named", c \in Hidden
       PROVE  FALSE
  <2>1. tree[c].up = n
    BY <1>14 DEF Child
  <2>2. PICK m \in Above(tree)[c] \cup {c} :
              \/ Kind(m) = "param" /\ Kind(tree[m].up) = "lit"
              \/ Kind(m) = "named" /\ m # c
    BY <1>14 DEF Hidden
  <2>3. m # c /\ m \in N /\ Below(m, c)
    BY <1>2, <1>14, <2>1, <2>2 DEF Belows
  <2>4. Below(m, n)
    BY <1>2, <1>14, <2>3 DEF Childs
  <2>5. Kind(m) \in typed
    BY <2>2
  <2>6. n \in Interfaces
    BY <1>9, <2>3, <2>4, <2>5 DEF Interfaces, NodesOf, Kind
  <2>7. m # n \/ Kind(m) # "named"
    BY <1>14
  <2>8. m \in Above(tree)[n] \cup {n}
    BY <2>4 DEF Below
  <2> QED BY <1>14, <2>2, <2>6, <2>7, <2>8 DEF Hidden
<1>15. Types
  BY <1>9, <1>10, <1>11, <1>12, <1>13, <1>14 DEF Types
<1> QED BY <1>8, <1>15

(* What the nodes name. *)
LEMMA NamesAre ==
    ASSUME NEW t, Len(t) \in Nat, NEW a \in AllNames(t)
    PROVE  DOMAIN a = 1 .. Len(t) /\ \A n \in 1 .. Len(t) : a[n] \in Names(t, n)
<1> DEFINE L == Len(t)
           U == UNION {Names(t, n) : n \in Nat}
           S == SUBSET Seq(U)
           longer(A, n) == {Append(b, x) : b \in A, x \in Names(t, n)}
           step == [n \in Nat |-> [A \in S |-> longer(A, n + 1)]]
           D(f) == [n \in 0 .. L |-> IF n = 0 THEN {<<>>} ELSE longer(f[n - 1], n)]
           named == CHOOSE f : f = D(f)
<1>1. AllNames(t) = named[L]
  BY DEF AllNames
<1>2. L \in Nat
  OBVIOUS
<1>3. \A n \in Nat : Names(t, n) \subseteq U
  OBVIOUS
<1> HIDE DEF U
<1>4. {<<>>} \in S
  OBVIOUS
<1>5. IsStep(S, step)
  <2> SUFFICES ASSUME NEW n \in Nat, NEW A \in S PROVE longer(A, n + 1) \in S
    BY DEF IsStep
  <2>1. ASSUME NEW b \in A, NEW x \in Names(t, n + 1) PROVE Append(b, x) \in Seq(U)
    BY <1>3, AppendLemma
  <2> QED BY <2>1
<1>6. PICK f : f \in [Nat -> S] /\ Iterates(f, {<<>>}, step)
  <2> HIDE DEF S, step
  <2> QED BY <1>4, <1>5, Recursion
<1>7. f[0] = {<<>>} /\ \A n \in Nat : f[n] \in S /\ f[n + 1] = longer(f[n], n + 1)
  <2>1. f[0] = {<<>>} /\ \A n \in Nat : f[n] \in S /\ f[n + 1] = step[n][f[n]]
    <3> HIDE DEF S, step
    <3> QED BY <1>6 DEF Iterates
  <2> HIDE DEF longer, S
  <2>2. \A n \in Nat, A \in S : step[n][A] = longer(A, n + 1)
    OBVIOUS
  <2> HIDE DEF step
  <2> QED BY <2>1, <2>2
<1> DEFINE h == [n \in 0 .. L |-> f[n]]
<1>8. h = D(h)
  <2> HIDE DEF longer
  <2> SUFFICES ASSUME NEW n \in 0 .. L, n # 0 PROVE f[n] = longer(h[n - 1], n)
    BY <1>7
  <2>1. n - 1 \in Nat /\ n - 1 \in 0 .. L /\ (n - 1) + 1 = n
    OBVIOUS
  <2>2. h[n - 1] = f[n - 1]
    BY <2>1
  <2> HIDE DEF h
  <2> QED BY <1>7, <2>1, <2>2
<1>9. named = D(named)
  <2> HIDE DEF D, h
  <2> QED BY <1>8
<1> HIDE DEF named
<1> DEFINE T == {n \in Nat : n <= L => \A b \in named[n] :
                    b \in Seq(U) /\ Len(b) = n /\ \A m \in 1 .. n : b[m] \in Names(t, m)}
<1>10. 0 \in T
  <2>1. named[0] = {<<>>}
    BY <1>2, <1>9
  <2>2. <<>> \in Seq(U) /\ Len(<<>>) = 0
    OBVIOUS
  <2>3. \A b \in named[0] : b \in Seq(U) /\ Len(b) = 0 /\ \A m \in 1 .. 0 : b[m] \in Names(t, m)
    BY <2>1, <2>2
  <2> QED BY <2>3
<1>11. ASSUME NEW n \in Nat, n \in T PROVE n + 1 \in T
  <2> SUFFICES ASSUME n + 1 <= L, NEW b \in named[n + 1]
               PROVE  b \in Seq(U) /\ Len(b) = n + 1 /\ \A m \in 1 .. n + 1 : b[m] \in Names(t, m)
    OBVIOUS
  <2>1. named[n + 1] = longer(named[n], n + 1)
    <3>1. n + 1 \in 0 .. L /\ n + 1 # 0 /\ (n + 1) - 1 = n
      BY <1>2
    <3> HIDE DEF longer
    <3> QED BY <1>9, <3>1
  <2>2. PICK c \in named[n], x \in Names(t, n + 1) : b = Append(c, x)
    BY <2>1
  <2>3. n <= L /\ n + 1 \in Nat
    BY <1>2
  <2>4. c \in Seq(U) /\ Len(c) = n /\ \A m \in 1 .. n : c[m] \in Names(t, m)
    BY <1>11, <2>3
  <2>5. x \in U
    BY <1>3, <2>3
  <2>6. b \in Seq(U) /\ Len(b) = n + 1 /\ (\A m \in 1 .. n : b[m] = c[m]) /\ b[n + 1] = x
    BY <2>2, <2>4, <2>5, AppendLemma
  <2>7. ASSUME NEW m \in 1 .. n + 1 PROVE b[m] \in Names(t, m)
    <3>1. CASE m = n + 1
      BY <2>6, <3>1
    <3>2. CASE m # n + 1
      <4>1. m \in 1 .. n
        BY <3>2
      <4> QED BY <2>4, <2>6, <4>1
    <3> QED BY <3>1, <3>2
  <2> QED BY <2>6, <2>7
<1>12. L \in T
  <2> HIDE DEF T
  <2>1. Nat \subseteq T
    BY <1>10, <1>11, SetInduction
  <2> QED BY <1>2, <2>1
<1>13. a \in named[L] /\ L <= L
  BY <1>1, <1>2
<1>14. a \in Seq(U) /\ Len(a) = L /\ \A m \in 1 .. L : a[m] \in Names(t, m)
  BY <1>12, <1>13
<1> QED BY <1>14 DEF L

(* The nodes of S in their order. *)
LEMMA InOrderIs ==
    ASSUME Nodes, NEW S, S \subseteq DOMAIN tree
    PROVE  /\ InOrder(S) \in Seq(S) /\ Ascends(InOrder(S))
           /\ \A i \in DOMAIN InOrder(S) : InOrder(S)[i] \in S
           /\ \A i, j \in DOMAIN InOrder(S) : InOrder(S)[i] = InOrder(S)[j] => i = j
           /\ \A x \in S : \E k \in DOMAIN InOrder(S) : InOrder(S)[k] = x
<1> DEFINE s == InOrder(S)
           size == Len(tree)
<1>1. size \in Nat /\ S \subseteq 1 .. size /\ S \subseteq Nat
  BY DEF Nodes
<1>2. ByPlace(S, s)
  BY DEF ByPlace, InOrder
<1> HIDE DEF s, size
<1>3. Listing(S, s)
  BY <1>1, <1>2, NodesInOrder
<1>4. s \in Seq(S) /\ Ascends(s) /\ \A x \in S : \E k \in DOMAIN s : s[k] = x
  BY <1>3 DEF Listing
<1>5. \A i \in DOMAIN s : s[i] \in S
  BY <1>4
<1>6. ASSUME NEW i \in DOMAIN s, NEW j \in DOMAIN s, s[i] = s[j] PROVE i = j
  <2>1. i \in Nat /\ j \in Nat /\ s[i] \in Nat
    BY <1>1, <1>4, <1>5
  <2> QED BY <1>4, <1>6, <2>1 DEF Ascends
<1> QED BY <1>4, <1>5, <1>6 DEF s

(* The names of specs and assignments. *)
LEMMA SpecNamesAre ==
    ASSUME IsFile, NEW n \in DOMAIN tree
    PROVE  /\ Kind(n) = "spec" => /\ about[n] \in Seq({Name, Blank})
                                  /\ about[n] = <<Name>> => Len(Values(n)) \in {0, 1}
           /\ Kind(n) = "assign" => about[n] \in Seq(LocalVars \cup ForeignVars \cup
                                       UNION {{<<s, k>> : k \in 1 .. 2} : s \in NodesOf(tree, {"spec"})})
<1>1. Nodes
  BY TreeFacts
<1>2. about[n] \in Names(tree, n)
  <2>1. n \in 1 .. Len(tree) /\ Len(tree) \in Nat
    BY <1>1 DEF Nodes
  <2> QED BY <2>1, NamesAre DEF IsFile
<1>3. ASSUME Kind(n) = "spec"
      PROVE  about[n] \in Seq({Name, Blank}) /\ (about[n] = <<Name>> => Len(Values(n)) \in {0, 1})
  <2>1. /\ about[n] \in SpecNames
        /\ Len(Values(n)) \in {0, Len(about[n])} \/ Len(Values(n)) = 1
    BY <1>2, <1>3 DEF Names, Kind, Values
  <2>2. about[n] \in Seq({Name, Blank})
    BY <2>1, WalkAssumption
  <2> QED BY <2>1, <2>2
<1>4. ASSUME Kind(n) = "assign"
      PROVE  about[n] \in Seq(LocalVars \cup ForeignVars \cup
                                  UNION {{<<s, k>> : k \in 1 .. 2} : s \in NodesOf(tree, {"spec"})})
  <2> DEFINE all == LocalVars \cup ForeignVars \cup
                    UNION {{<<s, k>> : k \in 1 .. 2} : s \in NodesOf(tree, {"spec"})}
             m == Len(ValuesIn(tree, n))
  <2>1. m \in Nat
    <3> DEFINE K == {k \in DOMAIN tree : tree[k].up = n /\ tree[k].kind # "iface"}
    <3>1. ValuesIn(tree, n) = InOrder(K) /\ K \subseteq DOMAIN tree
      BY DEF ValuesIn
    <3> HIDE DEF K
    <3> QED BY <1>1, <3>1, InOrderIs
  <2>2. about[n] \in [1 .. m -> all]
    BY <1>2, <1>4 DEF Names, Kind
  <2> HIDE DEF m, all
  <2>3. about[n] \in Seq(all)
    BY <2>1, <2>2
  <2> QED BY <2>3 DEF all
<1> QED BY <1>3, <1>4

-----------------------------------------------------------------------------
(* What holds of the items s before the traversals while the nodes of D    *)
(* are declared. *)

Hows == {"file", "value", "name", "left", "signature", "body"}
ItemsHere == [at : DOMAIN tree, how : Hows, owner : Nat \X Nat, k : Nat]
Inner == {"signature", "body"}

(* Traversals of functions are in those that are declared.                 *)
ItemOK(x, D) ==
    /\ x.how \in {"file", "value", "name"} => Within(x.at) = {}
    /\ x.how = "file" => x.at \notin Hidden /\ x.owner = Package
    /\ x.how = "value" => x.owner # Unstated
    /\ x.how = "name" => Kind(x.at) = "spec" /\ x.k \in DOMAIN about[x.at]
    /\ x.how \in Inner =>
          /\ x.at \notin Hidden
          /\ Within(x.at) # {} /\ Within(x.at) \subseteq D
          /\ x.owner = <<Max(Within(x.at)), 0>>
ItemsOK(s, D) == s \in Seq(ItemsHere) /\ \A i \in DOMAIN s : ItemOK(s[i], D)

SameFront(x, y) == (x.how = "file" /\ y.how = "file") \/ (x.how \in Inner /\ y.how \in Inner)
FrontsApart(s) == \A i, j \in DOMAIN s : i # j /\ SameFront(s[i], s[j]) => Apart(s[i].at, s[j].at)

(* What a traversal is the first to declare is not declared yet.  Literals *)
(* outside functions may have been claimed.                                *)
DeclaresFirst(x, n) ==
    /\ n \in Declarable /\ Below(x.at, n)
    /\ x.how \in Inner \/ (x.how = "file" /\ Within(n) = {} /\ n \notin Literals)
Undeclared(s, D) == \A i \in DOMAIN s : \A n \in DOMAIN tree : DeclaresFirst(s[i], n) => n \notin D
OutsideFirst(D) == D \subseteq Declarable /\ \A n \in D : Within(n) \subseteq D

(* What is not declared is before one of the traversals.                   *)
Reached(s, hows, n) == \E i \in DOMAIN s : s[i].how \in hows /\ Below(s[i].at, n)
NothingMissed(s, D) ==
    \A n \in Declarable \ D :
        IF Within(n) = {} THEN Reached(s, {"file"}, n)
        ELSE Within(n) \subseteq D => Reached(s, Inner, n)

(* A literal in a spec with one name waits for that name: the spec m is    *)
(* not reached yet, or the name and its value come before the file's       *)
(* traversal goes into the spec.                                           *)
LoneName(m, l) == m \in Above(tree)[l] /\ Kind(m) = "spec" /\ about[m] = <<Name>>
ClaimedBy(x, m, l) ==
    \/ x.how = "name" /\ x.at = m
    \/ x.how = "value" /\ Below(x.at, l)
FileAbove(s, m) == \E i \in DOMAIN s : s[i].how = "file" /\ s[i].at \in Above(tree)[m]
ClaimedInTime(s, m, l) ==
    \E j \in DOMAIN s :
        /\ ClaimedBy(s[j], m, l)
        /\ \A i \in DOMAIN s : s[i].how = "file" /\ Below(m, s[i].at) => j < i
ClaimsFirst(s, D) ==
    \A l \in Literals \ D : Within(l) = {} =>
        \A m \in DOMAIN tree : LoneName(m, l) => FileAbove(s, m) \/ ClaimedInTime(s, m, l)

Walks(s, D) ==
    /\ ItemsOK(s, D) /\ FrontsApart(s) /\ Undeclared(s, D) /\ OutsideFirst(D)
    /\ NothingMissed(s, D) /\ ClaimsFirst(s, D)

(* The first item x gives way to the items of a, and the nodes of new are  *)
(* declared.  A front goes on to children, or into a function.             *)
Entered(n, D) == n \in Functions \ D /\ Within(n) = {}
Follows(x, a, D) ==
    /\ \A i \in DOMAIN a :
          /\ a[i].how = "file" => x.how = "file" /\ Child(a[i].at, x.at)
          /\ a[i].how \in Inner => Child(a[i].at, x.at) /\ (x.how \in Inner \/ Entered(x.at, D))
    /\ \A i, j \in DOMAIN a : i # j /\ SameFront(a[i], a[j]) => a[i].at # a[j].at
DeclaresNow(x, new) ==
    /\ new \subseteq {x.at} \cap Declarable
    /\ new # {} => x.how \in {"file", "signature", "body"} \/ (x.how = "value" /\ x.at \in Literals)
Passes(x, a, D, new) ==
    \A n \in Declarable \ (D \cup new) : Below(x.at, n) =>
        /\ x.how = "file" /\ Within(n) = {} => Reached(a, {"file"}, n)
        /\ (x.how \in Inner \/ x.at \in new) /\ Within(n) # {} /\ Within(n) \subseteq D \cup new =>
              Reached(a, Inner, n)
Claims(x, a, D, new) ==
    \A l \in Literals \ (D \cup new) : Within(l) = {} =>
        \A m \in DOMAIN tree : LoneName(m, l) =>
            /\ x.how = "file" /\ x.at \in Above(tree)[m] => FileAbove(a, m) \/ ClaimedInTime(a, m, l)
            /\ ClaimedBy(x, m, l) => \E j \in DOMAIN a : ClaimedBy(a[j], m, l)
Replaces(x, a, D, new) ==
    /\ ItemsOK(a, D \cup new) /\ Follows(x, a, D) /\ DeclaresNow(x, new)
    /\ Passes(x, a, D, new) /\ Claims(x, a, D, new)

(* Where the items of a and the rest of s are in the new sequence.         *)
OntoTail(s, a, t) ==
    /\ 1 \in DOMAIN s /\ Head(s) = s[1]
    /\ \A i \in DOMAIN a : i \in DOMAIN t /\ t[i] = a[i] /\ i \in Nat
    /\ \A j \in DOMAIN s : j \in Nat /\ (j # 1 =>
          /\ Len(a) + j - 1 \in DOMAIN t /\ t[Len(a) + j - 1] = s[j]
          /\ \A i \in DOMAIN a : i < Len(a) + j - 1)
    /\ \A k \in DOMAIN t : k \in DOMAIN a \/ \E j \in DOMAIN s : j # 1 /\ k = Len(a) + j - 1

LEMMA OntoTailLemma ==
    ASSUME NEW S, NEW s \in Seq(S), s # <<>>, NEW a \in Seq(S)
    PROVE  a \o Tail(s) \in Seq(S) /\ OntoTail(s, a, a \o Tail(s)) /\ Len(a) \in Nat
<1> DEFINE b == Tail(s)
           t == a \o b
<1>1. /\ b \in Seq(S) /\ Len(s) > 0 /\ Len(s) \in Nat /\ Len(b) = Len(s) - 1 /\ Head(s) = s[1]
      /\ \A i \in 1 .. Len(s) - 1 : b[i] = s[i + 1]
      /\ DOMAIN s = 1 .. Len(s) /\ DOMAIN b = 1 .. Len(s) - 1
  BY HeadTailLemma
<1> HIDE DEF b
<1>2. DOMAIN a = 1 .. Len(a) /\ Len(a) \in Nat
  OBVIOUS
<1>3. /\ t \in Seq(S)
      /\ \A i \in DOMAIN a : i \in DOMAIN t /\ t[i] = a[i]
      /\ \A j \in DOMAIN b : Len(a) + j \in DOMAIN t /\ t[Len(a) + j] = b[j]
      /\ \A i \in DOMAIN t : i \in DOMAIN a \/ \E j \in DOMAIN b : i = Len(a) + j
  <2>1. a \in Seq(S) /\ b \in Seq(S)
    BY <1>1
  <2>2. t \in Seq(S) /\ \A i \in DOMAIN a : i \in DOMAIN t /\ t[i] = a[i]
    BY <2>1, ConcatAt
  <2>3. \A j \in DOMAIN b : Len(a) + j \in DOMAIN t /\ t[Len(a) + j] = b[j]
    BY <2>1, ConcatAt
  <2>4. \A i \in DOMAIN t : i \in DOMAIN a \/ \E j \in DOMAIN b : i = Len(a) + j
    BY <2>1, ConcatAt
  <2> HIDE DEF t
  <2> QED BY <2>2, <2>3, <2>4
<1> HIDE DEF t
<1>4. ASSUME NEW j \in DOMAIN s, j # 1
      PROVE  /\ Len(a) + j - 1 \in DOMAIN t /\ t[Len(a) + j - 1] = s[j]
             /\ \A i \in DOMAIN a : i < Len(a) + j - 1
  <2>1. j - 1 \in DOMAIN b /\ (j - 1) + 1 = j /\ Len(a) + (j - 1) = Len(a) + j - 1 /\ j > 1 /\ j \in Nat
    BY <1>1, <1>2, <1>4
  <2>2. b[j - 1] = s[j]
    BY <1>1, <2>1
  <2>3. t[Len(a) + (j - 1)] = b[j - 1] /\ Len(a) + (j - 1) \in DOMAIN t
    BY <1>3, <2>1
  <2> QED BY <1>2, <2>1, <2>2, <2>3
<1>5. ASSUME NEW k \in DOMAIN t, k \notin DOMAIN a PROVE \E j \in DOMAIN s : j # 1 /\ k = Len(a) + j - 1
  <2>1. PICK i \in DOMAIN b : k = Len(a) + i
    BY <1>3, <1>5
  <2>2. i + 1 \in DOMAIN s /\ i + 1 # 1 /\ k = Len(a) + (i + 1) - 1
    BY <1>1, <1>2, <2>1
  <2> QED BY <2>2
<1>6. 1 \in DOMAIN s /\ \A j \in DOMAIN s : j \in Nat
  BY <1>1
<1>7. \A i \in DOMAIN a : i \in Nat
  BY <1>2
<1>8. OntoTail(s, a, t)
  BY <1>1, <1>3, <1>4, <1>5, <1>6, <1>7 DEF OntoTail
<1> QED BY <1>2, <1>3, <1>8 DEF t, b

LEMMA WalksOn ==
    ASSUME IsFile, NEW s, NEW D, Walks(s, D), s # <<>>, NEW a, NEW new, Replaces(Head(s), a, D, new)
    PROVE  Walks(a \o Tail(s), D \cup new)
<1> DEFINE x == Head(s)
           t == a \o Tail(s)
           E == D \cup new
           N == DOMAIN tree
           P(j) == Len(a) + j - 1
<1>1. /\ Belows /\ Childs /\ Withins /\ Types /\ Sorts
      /\ \A n \in N : n \in Nat
  BY TreeFacts, WithinFacts, SortFacts DEF Nodes
<1>2. /\ ItemsOK(s, D) /\ FrontsApart(s) /\ Undeclared(s, D) /\ OutsideFirst(D)
      /\ NothingMissed(s, D) /\ ClaimsFirst(s, D)
      /\ ItemsOK(a, E) /\ Follows(x, a, D) /\ DeclaresNow(x, new)
      /\ Passes(x, a, D, new) /\ Claims(x, a, D, new)
  BY DEF Walks, Replaces
<1>3. /\ t \in Seq(ItemsHere) /\ OntoTail(s, a, t) /\ Len(a) \in Nat
      /\ s \in Seq(ItemsHere) /\ a \in Seq(ItemsHere)
  BY <1>2, OntoTailLemma DEF ItemsOK
<1> HIDE DEF t, x
<1>4. /\ 1 \in DOMAIN s /\ x = s[1]
      /\ \A i \in DOMAIN a : i \in DOMAIN t /\ t[i] = a[i] /\ i \in Nat
      /\ \A j \in DOMAIN s : j \in Nat /\ (j # 1 => P(j) \in DOMAIN t /\ t[P(j)] = s[j])
      /\ \A j \in DOMAIN s : j # 1 => \A i \in DOMAIN a : i < P(j)
      /\ \A k \in DOMAIN t : k \in DOMAIN a \/ \E j \in DOMAIN s : j # 1 /\ k = P(j)
  BY <1>3 DEF OntoTail, x
<1>5. /\ \A i \in DOMAIN s : s[i].at \in N /\ s[i].how \in Hows
      /\ \A i \in DOMAIN a : a[i].at \in N /\ a[i].how \in Hows
      /\ x.at \in N /\ x.how \in Hows
  <2>1. \A y \in ItemsHere : y.at \in N /\ y.how \in Hows
    BY DEF ItemsHere
  <2>2. \A i \in DOMAIN s : s[i] \in ItemsHere
    BY <1>3
  <2>3. \A i \in DOMAIN a : a[i] \in ItemsHere
    BY <1>3
  <2> QED BY <1>4, <2>1, <2>2, <2>3
<1>6. /\ \A i \in DOMAIN s : ItemOK(s[i], D)
      /\ \A i \in DOMAIN a : ItemOK(a[i], E)
      /\ ItemOK(x, D)
      /\ D \subseteq Declarable /\ (\A n \in D : Within(n) \subseteq D) /\ Declarable \subseteq N
      /\ new \subseteq {x.at} /\ new \subseteq Declarable
  BY <1>1, <1>2, <1>4 DEF ItemsOK, OutsideFirst, DeclaresNow, Sorts
<1>7. \A n \in new : n = x.at /\ (x.how \in Inner \/ x.how = "file" \/ (x.how = "value" /\ n \in Literals))
  BY <1>2, <1>6 DEF DeclaresNow, Inner
<1>8. \A k \in DOMAIN t : \/ k \in DOMAIN a /\ t[k] = a[k]
                          \/ \E j \in DOMAIN s : j # 1 /\ k = P(j) /\ t[k] = s[j]
  BY <1>4
<1>9. \A i \in DOMAIN a :
         /\ a[i].how = "file" => x.how = "file" /\ Child(a[i].at, x.at)
         /\ a[i].how \in Inner => Child(a[i].at, x.at) /\ (x.how \in Inner \/ Entered(x.at, D))
  BY <1>2 DEF Follows
<1> HIDE DEF P, E
<1>10. ItemsOK(t, E)
  <2> SUFFICES ASSUME NEW k \in DOMAIN t PROVE ItemOK(t[k], E)
    BY <1>3 DEF ItemsOK
  <2>1. \A y : ItemOK(y, D) => ItemOK(y, E)
    BY DEF ItemOK, E
  <2> QED BY <1>6, <1>8, <2>1
<1>11. ASSUME NEW i \in DOMAIN a, NEW j \in DOMAIN s, j # 1, SameFront(a[i], s[j])
       PROVE  Apart(a[i].at, s[j].at)
  <2> DEFINE c == a[i].at
             m == s[j].at
  <2>1. c \in N /\ m \in N /\ Child(c, x.at)
    BY <1>5, <1>9, <1>11 DEF SameFront
  <2>2. Below(x.at, c) /\ (Below(m, c) <=> m = c \/ Below(m, x.at))
    BY <1>1, <1>5, <2>1 DEF Childs
  <2>3. Below(c, m) => Below(x.at, m)
    BY <1>1, <1>5, <2>1, <2>2 DEF Belows
  <2>4. CASE SameFront(x, s[j])
    <3>1. Apart(x.at, s[j].at)
      BY <1>2, <1>4, <1>11, <2>4 DEF FrontsApart
    <3>2. m # c
      BY <2>2, <3>1 DEF Apart
    <3> QED BY <2>2, <2>3, <3>1, <3>2 DEF Apart
  <2>5. CASE ~SameFront(x, s[j])
    <3>1. a[i].how \in Inner /\ s[j].how \in Inner /\ Entered(x.at, D)
      BY <1>9, <1>11, <2>5 DEF SameFront, Inner
    <3>2. Within(m) # {} /\ Within(m) \subseteq D
      BY <1>6, <3>1 DEF ItemOK
    <3>3. x.at \in Functions /\ x.at \notin D /\ Within(x.at) = {}
      BY <3>1 DEF Entered
    <3>4. x.at # m
      BY <3>2, <3>3
    <3>5. ~Below(x.at, m)
      BY <1>1, <1>5, <2>1, <3>2, <3>3, <3>4 DEF Withins
    <3>6. ~Below(m, x.at)
      BY <1>1, <1>5, <2>1, <3>2, <3>3 DEF Withins
    <3>7. m # c
      BY <2>2, <3>5
    <3> QED BY <2>2, <2>3, <3>5, <3>6, <3>7 DEF Apart
  <2> QED BY <2>4, <2>5
<1>12. ASSUME NEW i \in DOMAIN a, NEW j \in DOMAIN a, i # j, SameFront(a[i], a[j])
       PROVE  Apart(a[i].at, a[j].at)
  <2>1. a[i].at # a[j].at
    BY <1>2, <1>12 DEF Follows
  <2>2. Child(a[i].at, x.at) /\ Child(a[j].at, x.at)
    BY <1>9, <1>12 DEF SameFront
  <2> QED BY <1>1, <1>5, <2>1, <2>2 DEF Childs
<1>13. FrontsApart(t)
  <2> SUFFICES ASSUME NEW k \in DOMAIN t, NEW l \in DOMAIN t, k # l, SameFront(t[k], t[l])
               PROVE  Apart(t[k].at, t[l].at)
    BY DEF FrontsApart
  <2>1. \A y, z : (SameFront(y, z) <=> SameFront(z, y)) /\ (Apart(y, z) <=> Apart(z, y))
    BY DEF SameFront, Apart
  <2>2. CASE k \in DOMAIN a /\ l \in DOMAIN a
    BY <1>4, <1>12, <2>2
  <2>3. CASE k \in DOMAIN a /\ l \notin DOMAIN a
    BY <1>4, <1>8, <1>11, <2>3
  <2>4. CASE k \notin DOMAIN a /\ l \in DOMAIN a
    BY <1>4, <1>8, <1>11, <2>1, <2>4
  <2>5. CASE k \notin DOMAIN a /\ l \notin DOMAIN a
    <3>1. PICK i \in DOMAIN s : i # 1 /\ k = P(i) /\ t[k] = s[i]
      BY <1>8, <2>5
    <3>2. PICK j \in DOMAIN s : j # 1 /\ l = P(j) /\ t[l] = s[j]
      BY <1>8, <2>5
    <3>3. i # j
      BY <3>1, <3>2
    <3> QED BY <1>2, <3>1, <3>2, <3>3 DEF FrontsApart
  <2> QED BY <2>2, <2>3, <2>4, <2>5
<1>14. Undeclared(t, E)
  <2> SUFFICES ASSUME NEW k \in DOMAIN t, NEW n \in N, DeclaresFirst(t[k], n), n \in E PROVE FALSE
    BY DEF Undeclared
  <2>1. CASE k \in DOMAIN a
    <3> DEFINE c == a[k].at
    <3>1. /\ n \in Declarable /\ Below(c, n)
          /\ a[k].how \in Inner \/ (a[k].how = "file" /\ Within(n) = {} /\ n \notin Literals)
      BY <1>4, <2>1 DEF DeclaresFirst
    <3>2. c \in N /\ Child(c, x.at)
      BY <1>5, <1>9, <2>1, <3>1
    <3>3. Below(x.at, c) /\ ~Below(c, x.at)
      BY <1>1, <1>5, <3>2 DEF Childs
    <3>4. n # x.at /\ Below(x.at, n)
      BY <1>1, <1>5, <3>1, <3>2, <3>3 DEF Belows
    <3>5. n \in D
      BY <1>7, <3>4 DEF E
    <3>6. ~DeclaresFirst(x, n)
      BY <1>2, <1>4, <3>5 DEF Undeclared
    <3>7. a[k].how \in Inner /\ Entered(x.at, D)
      BY <1>9, <2>1, <3>1, <3>4, <3>6 DEF DeclaresFirst
    <3>8. x.at \in Within(n) /\ x.at \notin D
      BY <1>1, <1>5, <3>4, <3>7 DEF Withins, Entered
    <3> QED BY <1>6, <3>5, <3>8
  <2>2. CASE k \notin DOMAIN a
    <3>1. PICK j \in DOMAIN s : j # 1 /\ t[k] = s[j]
      BY <1>8, <2>2
    <3> DEFINE y == s[j]
    <3>2. DeclaresFirst(y, n) /\ y.at \in N
      BY <1>5, <3>1
    <3>3. n \notin D
      BY <1>2, <3>2 DEF Undeclared
    <3>4. n \in new /\ n = x.at
      BY <1>7, <3>3 DEF E
    <3>5. Below(y.at, x.at)
      BY <3>2, <3>4 DEF DeclaresFirst
    <3>6. ~SameFront(x, y)
      <4> SUFFICES ASSUME SameFront(x, y) PROVE FALSE
        OBVIOUS
      <4>1. Apart(x.at, y.at)
        BY <1>2, <1>4, <3>1 DEF FrontsApart
      <4> QED BY <3>5, <4>1 DEF Apart
    <3>7. CASE y.how \in Inner
      <4>1. x.how \in {"file", "value"}
        BY <1>7, <3>4, <3>6, <3>7 DEF SameFront
      <4>2. Within(x.at) = {}
        BY <1>6, <4>1 DEF ItemOK
      <4>3. Within(y.at) # {}
        BY <1>6, <3>1, <3>7 DEF ItemOK
      <4> QED BY <1>1, <1>5, <3>2, <3>5, <4>2, <4>3 DEF Withins
    <3>8. CASE y.how \notin Inner
      <4>1. y.how = "file" /\ Within(x.at) = {} /\ x.at \notin Literals
        BY <3>2, <3>4, <3>8 DEF DeclaresFirst
      <4>2. x.how \in Inner
        BY <1>7, <3>4, <3>6, <4>1 DEF SameFront
      <4> QED BY <1>6, <4>1, <4>2 DEF ItemOK
    <3> QED BY <3>7, <3>8
  <2> QED BY <2>1, <2>2
<1>15. OutsideFirst(E)
  <2>1. ASSUME NEW n \in new PROVE Within(n) \subseteq D
    BY <1>6, <1>7, <2>1 DEF ItemOK
  <2> QED BY <1>6, <2>1 DEF OutsideFirst, E
<1>16. ASSUME NEW hows, NEW n, Reached(s, hows, n), ~(x.how \in hows /\ Below(x.at, n)) PROVE Reached(t, hows, n)
  <2>1. PICK j \in DOMAIN s : s[j].how \in hows /\ Below(s[j].at, n)
    BY <1>16 DEF Reached
  <2>2. j # 1
    BY <1>4, <1>16, <2>1
  <2> QED BY <1>4, <2>1, <2>2 DEF Reached
<1>17. ASSUME NEW hows, NEW n, Reached(a, hows, n) PROVE Reached(t, hows, n)
  BY <1>4, <1>17 DEF Reached
<1>18. NothingMissed(t, E)
  <2> SUFFICES ASSUME NEW n \in Declarable \ E
               PROVE  IF Within(n) = {} THEN Reached(t, {"file"}, n)
                      ELSE Within(n) \subseteq E => Reached(t, Inner, n)
    BY DEF NothingMissed
  <2>1. n \in N /\ n \in Declarable \ D /\ n \in Declarable \ (D \cup new)
    BY <1>6 DEF E
  <2>2. Below(x.at, n) =>
           /\ x.how = "file" /\ Within(n) = {} => Reached(a, {"file"}, n)
           /\ (x.how \in Inner \/ x.at \in new) /\ Within(n) # {} /\ Within(n) \subseteq E =>
                 Reached(a, Inner, n)
    BY <1>2, <2>1 DEF Passes, E
  <2>3. IF Within(n) = {} THEN Reached(s, {"file"}, n) ELSE Within(n) \subseteq D => Reached(s, Inner, n)
    BY <1>2, <2>1 DEF NothingMissed
  <2>4. CASE Within(n) = {}
    BY <1>16, <1>17, <2>2, <2>3, <2>4
  <2>5. ASSUME Within(n) # {}, Within(n) \subseteq E PROVE Reached(t, Inner, n)
    <3>1. CASE Within(n) \subseteq D
      BY <1>16, <1>17, <2>2, <2>3, <2>5, <3>1
    <3>2. CASE ~(Within(n) \subseteq D)
      <4>1. PICK f \in Within(n) : f \in new /\ f = x.at
        BY <1>7, <2>5, <3>2 DEF E
      <4>2. Below(x.at, n)
        BY <1>1, <1>5, <2>1, <4>1 DEF Withins
      <4> QED BY <1>17, <2>2, <2>5, <4>1, <4>2
    <3> QED BY <3>1, <3>2
  <2> QED BY <2>4, <2>5
<1>19. ClaimsFirst(t, E)
  <2> SUFFICES ASSUME NEW l \in Literals \ E, Within(l) = {}, NEW m \in N, LoneName(m, l)
               PROVE  FileAbove(t, m) \/ ClaimedInTime(t, m, l)
    BY DEF ClaimsFirst
  <2>1. l \in N /\ l \in Literals \ D /\ l \in Literals \ (D \cup new)
    BY <1>1 DEF E, Sorts, Withins
  <2>2. /\ x.how = "file" /\ x.at \in Above(tree)[m] => FileAbove(a, m) \/ ClaimedInTime(a, m, l)
        /\ ClaimedBy(x, m, l) => \E j \in DOMAIN a : ClaimedBy(a[j], m, l)
    BY <1>2, <2>1 DEF Claims
  <2>3. FileAbove(s, m) \/ ClaimedInTime(s, m, l)
    BY <1>2, <2>1 DEF ClaimsFirst
  <2>4. CASE FileAbove(a, m)
    BY <1>4, <2>4 DEF FileAbove
  <2>5. CASE ClaimedInTime(a, m, l)
    <3>1. PICK j \in DOMAIN a :
              /\ ClaimedBy(a[j], m, l)
              /\ \A i \in DOMAIN a : a[i].how = "file" /\ Below(m, a[i].at) => j < i
      BY <2>5 DEF ClaimedInTime
    <3>2. ASSUME NEW k \in DOMAIN t, t[k].how = "file" /\ Below(m, t[k].at) PROVE j < k
      BY <1>4, <1>8, <3>1, <3>2
    <3> QED BY <1>4, <3>1, <3>2 DEF ClaimedInTime
  <2>6. CASE ~(x.how = "file" /\ x.at \in Above(tree)[m])
    <3>1. CASE FileAbove(s, m)
      <4>1. PICK i \in DOMAIN s : s[i].how = "file" /\ s[i].at \in Above(tree)[m]
        BY <3>1 DEF FileAbove
      <4>2. i # 1
        BY <1>4, <2>6, <4>1
      <4> QED BY <1>4, <4>1, <4>2 DEF FileAbove
    <3>2. CASE ClaimedInTime(s, m, l)
      <4>1. PICK j \in DOMAIN s :
                /\ ClaimedBy(s[j], m, l)
                /\ \A i \in DOMAIN s : s[i].how = "file" /\ Below(m, s[i].at) => j < i
        BY <3>2 DEF ClaimedInTime
      <4>2. CASE j = 1
        <5>1. x.how \notin {"file"} /\ ClaimedBy(x, m, l)
          BY <1>4, <4>1, <4>2 DEF ClaimedBy
        <5>2. PICK i \in DOMAIN a : ClaimedBy(a[i], m, l)
          BY <2>2, <5>1
        <5>3. ASSUME NEW k \in DOMAIN t, t[k].how = "file" PROVE i < k
          BY <1>4, <1>8, <1>9, <5>1, <5>2, <5>3
        <5> QED BY <1>4, <5>2, <5>3 DEF ClaimedInTime
      <4>3. CASE j # 1
        <5>1. ~(x.how = "file" /\ Below(m, x.at))
          <6>1. ~(j < 1)
            BY <1>3, <4>3
          <6> QED BY <1>4, <4>1, <6>1
        <5>2. ASSUME NEW i \in DOMAIN a, a[i].how = "file", Below(m, a[i].at) PROVE FALSE
          <6>1. x.how = "file" /\ Child(a[i].at, x.at) /\ a[i].at \in N
            BY <1>5, <1>9, <5>2
          <6>2. m = a[i].at
            BY <1>1, <1>5, <5>1, <5>2, <6>1 DEF Childs
          <6>3. x.at \in Above(tree)[m]
            BY <1>1, <1>5, <6>1, <6>2 DEF Childs, Belows
          <6> QED BY <2>6, <6>1, <6>3
        <5>3. ASSUME NEW k \in DOMAIN t, t[k].how = "file", Below(m, t[k].at) PROVE P(j) < k
          <6>1. k \notin DOMAIN a
            BY <1>4, <5>2, <5>3
          <6>2. PICK i \in DOMAIN s : i # 1 /\ k = P(i) /\ t[k] = s[i]
            BY <1>8, <6>1
          <6>3. j < i
            BY <4>1, <5>3, <6>2
          <6> QED BY <1>3, <1>4, <6>2, <6>3 DEF P
        <5> QED BY <1>4, <4>1, <4>3, <5>3 DEF ClaimedInTime
      <4> QED BY <4>2, <4>3
    <3> QED BY <2>3, <3>1, <3>2
  <2> QED BY <2>2, <2>4, <2>5, <2>6
<1> QED BY <1>10, <1>13, <1>14, <1>15, <1>18, <1>19 DEF Walks, t, E

(* The items of q are for the nodes of S, one for each. *)
ItemsFor(q, S, how, owner) ==
    /\ q \in Seq(ItemsHere)
    /\ \A i \in DOMAIN q : q[i].at \in S /\ q[i].how = how /\ q[i].owner = owner
    /\ \A i, j \in DOMAIN q : q[i].at = q[j].at => i = j
    /\ \A c \in S : \E i \in DOMAIN q : q[i].at = c

LEMMA ItemsOf ==
    ASSUME Nodes, NEW S, S \subseteq DOMAIN tree, NEW how \in Hows, NEW owner \in Nat \X Nat
    PROVE  ItemsFor(Items(InOrder(S), how, owner), S, how, owner)
<1> DEFINE s == InOrder(S)
           q == Items(s, how, owner)
<1>1. /\ s \in Seq(S)
      /\ \A i \in DOMAIN s : s[i] \in S
      /\ \A i, j \in DOMAIN s : s[i] = s[j] => i = j
      /\ \A x \in S : \E k \in DOMAIN s : s[k] = x
  BY InOrderIs
<1> HIDE DEF s
<1>2. q = [i \in DOMAIN s |-> [at |-> s[i], how |-> how, owner |-> owner, k |-> 0]]
  BY DEF Items, Item
<1> HIDE DEF q
<1>3. \A i \in DOMAIN s : q[i].at = s[i] /\ q[i].how = how /\ q[i].owner = owner
  BY <1>2
<1>4. q \in Seq(ItemsHere)
  <2>1. \A i \in DOMAIN s : [at |-> s[i], how |-> how, owner |-> owner, k |-> 0] \in ItemsHere
    BY <1>1 DEF ItemsHere
  <2>2. q \in [DOMAIN s -> ItemsHere]
    BY <1>2, <2>1
  <2> QED BY <1>1, <2>2, MapLemma
<1>5. /\ \A i \in DOMAIN q : q[i].at \in S /\ q[i].how = how /\ q[i].owner = owner
      /\ \A i, j \in DOMAIN q : q[i].at = q[j].at => i = j
      /\ \A c \in S : \E i \in DOMAIN q : q[i].at = c
  BY <1>1, <1>2, <1>3
<1> QED BY <1>4, <1>5 DEF ItemsFor, q, s

(* Going on into all children, after the names in p. *)
LEMMA GoingOn ==
    ASSUME IsFile, NEW s, NEW D, Walks(s, D), s # <<>>, NEW new, DeclaresNow(Head(s), new),
           Head(s).how \in {"file", "value", "signature", "body"},
           Kind(Head(s).at) \notin {"func", "lit", "named"},
           Head(s).how # "value" => Head(s).at \notin Declarable \ (D \cup new),
           NEW p \in Seq(ItemsHere),
           \A i \in DOMAIN p : p[i].how \in {"name", "left"} /\ ItemOK(p[i], D \cup new),
           \A c \in DOMAIN tree : Child(c, Head(s).at) /\ Kind(c) = "spec" /\ about[c] = <<Name>> =>
               \E i \in DOMAIN p : p[i].how = "name" /\ p[i].at = c
    PROVE  Walks(p \o Items(Children(tree, Head(s).at), Head(s).how, Head(s).owner) \o Tail(s), D \cup new)
<1> DEFINE x == Head(s)
           E == D \cup new
           N == DOMAIN tree
           K == {k \in N : tree[k].up = x.at}
           q == Items(Children(tree, x.at), x.how, x.owner)
           a == p \o q
<1>1. /\ Nodes /\ Belows /\ Childs /\ Withins /\ Types /\ Sorts
      /\ \A n \in N : n \in Nat
  BY TreeFacts, WithinFacts, SortFacts DEF Nodes
<1>2. x \in ItemsHere /\ ItemOK(x, D) /\ D \subseteq Declarable
  <2>1. s \in Seq(ItemsHere) /\ (\A i \in DOMAIN s : ItemOK(s[i], D)) /\ D \subseteq Declarable
    BY DEF Walks, ItemsOK, OutsideFirst
  <2>2. x = s[1] /\ 1 \in DOMAIN s /\ x \in ItemsHere
    BY <2>1
  <2> QED BY <2>1, <2>2
<1> HIDE DEF x
<1>3. x.at \in N /\ x.how \in Hows /\ x.owner \in Nat \X Nat
  BY <1>2 DEF ItemsHere
<1>4. \A c \in N : c \in K <=> Child(c, x.at)
  <2>1. tree[1].up # x.at
    BY <1>1, <1>3 DEF Nodes
  <2> QED BY <2>1 DEF Child
<1>5. /\ q \in Seq(ItemsHere)
      /\ \A i \in DOMAIN q : q[i].at \in K /\ q[i].how = x.how /\ q[i].owner = x.owner
      /\ \A i, j \in DOMAIN q : q[i].at = q[j].at => i = j
      /\ \A c \in K : \E i \in DOMAIN q : q[i].at = c
  <2>1. K \subseteq N /\ Children(tree, x.at) = InOrder(K)
    BY DEF Children
  <2>2. q = Items(InOrder(K), x.how, x.owner)
    BY <2>1
  <2> HIDE DEF K, q
  <2>3. ItemsFor(q, K, x.how, x.owner)
    BY <1>1, <1>3, <2>1, <2>2, ItemsOf
  <2> QED BY <2>3 DEF ItemsFor
<1> HIDE DEF q
<1>6. /\ a \in Seq(ItemsHere)
      /\ \A i \in DOMAIN p : i \in DOMAIN a /\ a[i] = p[i]
      /\ \A j \in DOMAIN q : Len(p) + j \in DOMAIN a /\ a[Len(p) + j] = q[j] /\ \A i \in DOMAIN p : i < Len(p) + j
      /\ \A i \in DOMAIN a : i \in DOMAIN p \/ \E j \in DOMAIN q : i = Len(p) + j
  <2>1. \A i \in DOMAIN p, j \in DOMAIN q : i < Len(p) + j
    BY <1>5
  <2> QED BY <1>5, <2>1, ConcatAt
<1> HIDE DEF a, K
<1>6a. \A i \in DOMAIN p : p[i].how \in {"name", "left"} /\ ItemOK(p[i], E)
  OBVIOUS
<1> HIDE DEF E
<1>7. \A i \in DOMAIN a : \/ i \in DOMAIN p /\ a[i] = p[i] /\ a[i].how \in {"name", "left"} /\ ItemOK(a[i], E)
                          \/ \E j \in DOMAIN q : i = Len(p) + j /\ a[i] = q[j]
  BY <1>6, <1>6a
<1>8. ASSUME NEW j \in DOMAIN q PROVE ItemOK(q[j], E) /\ Child(q[j].at, x.at) /\ q[j].at \in N
  <2> DEFINE c == q[j].at
  <2>1. c \in N /\ Child(c, x.at)
    BY <1>4, <1>5 DEF K
  <2>2. x.at \notin Functions
    BY <1>1 DEF Sorts, x
  <2>3. Within(c) = Within(x.at)
    <3>1. Within(c) = Within(x.at) \cup ({x.at} \cap Functions)
      <4> HIDE DEF c
      <4> QED BY <1>1, <1>3, <2>1 DEF Withins
    <3> HIDE DEF c
    <3> QED BY <2>2, <3>1
  <2>4. x.at \notin Hidden => c \notin Hidden
    BY <1>1, <1>3, <2>1 DEF Types, x
  <2>5. x.how \in {"file", "value", "signature", "body"}
    BY DEF x
  <2>7. D \subseteq E
    BY DEF E
  <2> QED BY <1>2, <1>5, <2>1, <2>3, <2>4, <2>5, <2>7 DEF ItemOK, Inner
<1>9. ItemsOK(a, E)
  BY <1>6, <1>7, <1>8 DEF ItemsOK
<1>10. Follows(x, a, D)
  <2>1. ASSUME NEW i \in DOMAIN a, a[i].how \in {"file", "signature", "body"}
        PROVE  \E j \in DOMAIN q : i = Len(p) + j /\ a[i] = q[j] /\ Child(a[i].at, x.at) /\ a[i].how = x.how
    BY <1>5, <1>7, <1>8, <2>1
  <2>2. ASSUME NEW i \in DOMAIN a, NEW j \in DOMAIN a, i # j, SameFront(a[i], a[j]) PROVE a[i].at # a[j].at
    <3>1. a[i].how \in {"file", "signature", "body"} /\ a[j].how \in {"file", "signature", "body"}
      BY <2>2 DEF SameFront, Inner
    <3>2. PICK k \in DOMAIN q : i = Len(p) + k /\ a[i] = q[k]
      BY <2>1, <3>1
    <3>3. PICK l \in DOMAIN q : j = Len(p) + l /\ a[j] = q[l]
      BY <2>1, <3>1
    <3> QED BY <1>5, <2>2, <3>2, <3>3
  <2> QED BY <2>1, <2>2 DEF Follows, Inner
<1>11. ASSUME NEW n \in N, Below(x.at, n), n # x.at
       PROVE  \E i \in DOMAIN a : a[i].how = x.how /\ Below(a[i].at, n) /\ Child(a[i].at, x.at)
  <2>1. PICK c \in N : Child(c, x.at) /\ Below(c, n)
    BY <1>1, <1>3, <1>11 DEF Childs
  <2>2. PICK j \in DOMAIN q : q[j].at = c
    BY <1>4, <1>5, <2>1
  <2>3. Len(p) + j \in DOMAIN a /\ a[Len(p) + j] = q[j]
    BY <1>6
  <2>4. q[j].how = x.how
    BY <1>5
  <2> QED BY <2>1, <2>2, <2>3, <2>4
<1>12. Passes(x, a, D, new)
  <2> SUFFICES ASSUME NEW n \in Declarable \ (D \cup new), Below(x.at, n)
               PROVE  /\ x.how = "file" /\ Within(n) = {} => Reached(a, {"file"}, n)
                      /\ (x.how \in Inner \/ x.at \in new) /\ Within(n) # {}
                            /\ Within(n) \subseteq D \cup new => Reached(a, Inner, n)
    BY DEF Passes
  <2>1. n \in N
    BY <1>1 DEF Sorts
  <2>2. x.how = "value" \/ n # x.at
    BY DEF x
  <2>3. x.how = "file" => Reached(a, {"file"}, n)
    BY <1>11, <2>1, <2>2 DEF Reached
  <2>4. x.how \in Inner => Reached(a, Inner, n)
    BY <1>11, <2>1, <2>2 DEF Reached, Inner
  <2>5. ASSUME x.how \notin Inner, x.at \in new, Within(n) # {} PROVE FALSE
    <3>1. x.at \in Declarable /\ n # x.at
      BY <2>5 DEF DeclaresNow, x
    <3>2. Kind(x.at) \in {"param", "iface"}
      BY <1>1, <3>1 DEF Sorts, x
    <3>3. Within(n) = Within(x.at)
      BY <1>1, <1>3, <2>1, <3>1, <3>2 DEF Types
    <3>4. x.how \in {"file", "value"}
      BY <2>5 DEF x, Inner
    <3> QED BY <1>2, <2>5, <3>3, <3>4 DEF ItemOK
  <2> QED BY <2>3, <2>4, <2>5
<1>13. Claims(x, a, D, new)
  <2> SUFFICES ASSUME NEW l \in Literals, NEW m \in N, LoneName(m, l)
               PROVE  /\ x.how = "file" /\ x.at \in Above(tree)[m] => FileAbove(a, m) \/ ClaimedInTime(a, m, l)
                      /\ ClaimedBy(x, m, l) => \E j \in DOMAIN a : ClaimedBy(a[j], m, l)
    BY DEF Claims
  <2>1. l \in N /\ Kind(l) = "lit" /\ Kind(m) = "spec" /\ about[m] = <<Name>>
    BY DEF Literals, NodesOf, Kind, LoneName
  <2>2. ASSUME x.how = "file", x.at \in Above(tree)[m] PROVE FileAbove(a, m) \/ ClaimedInTime(a, m, l)
    <3>1. Below(x.at, m) /\ m # x.at
      BY <1>1, <1>3, <2>2 DEF Belows
    <3>2. PICK i \in DOMAIN a : a[i].how = x.how /\ Below(a[i].at, m) /\ Child(a[i].at, x.at)
      BY <1>11, <3>1
    <3>3. a[i].at \in N
      BY <3>2 DEF Child
    <3>4. CASE a[i].at # m
      BY <1>1, <2>2, <3>2, <3>3, <3>4 DEF FileAbove, Belows
    <3>5. CASE a[i].at = m
      <4>1. PICK k \in DOMAIN p : p[k].how = "name" /\ p[k].at = m
        BY <2>1, <3>2, <3>5 DEF x
      <4>2. k \in DOMAIN a /\ ClaimedBy(a[k], m, l)
        BY <1>6, <4>1 DEF ClaimedBy
      <4>3. \A j \in DOMAIN a : a[j].how = "file" => k < j
        BY <1>6, <1>7, <4>1
      <4> QED BY <4>2, <4>3 DEF ClaimedInTime
    <3> QED BY <3>4, <3>5
  <2>3. ASSUME ClaimedBy(x, m, l) PROVE \E j \in DOMAIN a : ClaimedBy(a[j], m, l)
    <3>1. x.how = "value" /\ Below(x.at, l)
      BY <2>3 DEF ClaimedBy, x
    <3>2. l # x.at
      BY <2>1 DEF x
    <3>3. PICK i \in DOMAIN a : a[i].how = x.how /\ Below(a[i].at, l)
      BY <1>11, <2>1, <3>1, <3>2
    <3> QED BY <3>1, <3>3 DEF ClaimedBy
  <2> QED BY <2>2, <2>3
<1>14. Replaces(x, a, D, new)
  BY <1>9, <1>10, <1>12, <1>13 DEF Replaces, x, E
<1>15. Walks(a \o Tail(s), E)
  BY <1>14, WalksOn DEF x, E
<1> QED BY <1>15 DEF a, q, x, E

(* The first item. *)
LEMMA FirstItem ==
    ASSUME IsFile, NEW s, NEW D, Walks(s, D), s # <<>>
    PROVE  /\ Nodes /\ Belows /\ Childs /\ Withins /\ Types /\ Sorts
           /\ Head(s) \in ItemsHere /\ Head(s) = s[1] /\ 1 \in DOMAIN s /\ ItemOK(Head(s), D)
           /\ Head(s).at \in DOMAIN tree /\ Head(s).how \in Hows /\ Head(s).owner \in Nat \X Nat /\ Head(s).k \in Nat
           /\ D \subseteq Declarable
<1>1. s \in Seq(ItemsHere) /\ (\A i \in DOMAIN s : ItemOK(s[i], D)) /\ D \subseteq Declarable
  BY DEF Walks, ItemsOK, OutsideFirst
<1>2. Head(s) = s[1] /\ 1 \in DOMAIN s /\ Head(s) \in ItemsHere
  BY <1>1
<1>3. Nodes /\ Belows /\ Childs /\ Withins /\ Types /\ Sorts
  BY TreeFacts, WithinFacts, SortFacts
<1> QED BY <1>1, <1>2, <1>3 DEF ItemsHere

(* A traversal meets an interface, or one of a function a literal, before  *)
(* it is declared. *)
LEMMA MeetsFirst ==
    ASSUME IsFile, NEW s, NEW D, Walks(s, D), s # <<>>, Head(s).at \in Declarable,
           \/ Head(s).how \in Inner
           \/ Head(s).how = "file" /\ Head(s).at \notin Literals
    PROVE  Head(s).at \notin D
<1> DEFINE x == Head(s)
<1>1. x = s[1] /\ 1 \in DOMAIN s /\ ItemOK(x, D) /\ x.at \in DOMAIN tree
  BY FirstItem
<1>2. Undeclared(s, D)
  BY DEF Walks
<1>3. Below(x.at, x.at)
  BY DEF Below
<1> HIDE DEF x
<1>4. DeclaresFirst(x, x.at)
  BY <1>1, <1>3 DEF DeclaresFirst, ItemOK, x
<1> QED BY <1>1, <1>2, <1>4 DEF Undeclared, x

(* Into a function that is declared now, all but the parameters of a       *)
(* literal. *)
LEMMA Entering ==
    ASSUME IsFile, NEW s, NEW D, Walks(s, D), s # <<>>,
           Head(s).at \in Functions \ D, Head(s).how \in {"file", "value", "signature", "body"},
           Head(s).how = "value" => Head(s).at \in Literals,
           NEW a \in Seq(ItemsHere),
           \A i \in DOMAIN a :
              /\ a[i].how \in Inner /\ a[i].owner = <<Head(s).at, 0>> /\ Child(a[i].at, Head(s).at)
              /\ ~(Kind(Head(s).at) = "lit" /\ Kind(a[i].at) = "param"),
           \A i, j \in DOMAIN a : i # j => a[i].at # a[j].at,
           \A c \in DOMAIN tree : Child(c, Head(s).at) =>
              \/ Kind(Head(s).at) = "lit" /\ Kind(c) = "param"
              \/ \E i \in DOMAIN a : a[i].at = c
    PROVE  Walks(a \o Tail(s), D \cup {Head(s).at})
<1> DEFINE x == Head(s)
           f == x.at
           E == D \cup {f}
           N == DOMAIN tree
<1>1. /\ Nodes /\ Belows /\ Childs /\ Withins /\ Types /\ Sorts
      /\ ItemOK(x, D) /\ x.at \in N /\ D \subseteq Declarable
  BY FirstItem
<1> HIDE DEF x
<1>2. /\ f \in Functions /\ f \notin D /\ f \in Declarable /\ f \notin Hidden /\ Kind(f) \in {"func", "lit"}
      /\ f \in Nat /\ x.how \in {"file", "value", "signature", "body"}
  BY <1>1 DEF Sorts, Nodes, x
<1>3. Within(f) \subseteq D /\ (x.how \notin Inner => Within(f) = {})
  BY <1>1, <1>2 DEF ItemOK, Inner
<1>4. ASSUME NEW i \in DOMAIN a PROVE ItemOK(a[i], E)
  <2> DEFINE c == a[i].at
  <2>1. Child(c, f) /\ c \in N /\ ~(Kind(f) = "lit" /\ Kind(c) = "param")
    BY DEF Child, x
  <2>2. a[i].how \in Inner /\ a[i].owner = <<f, 0>>
    BY DEF x
  <2> HIDE DEF c
  <2>3. c \notin Hidden
    BY <1>1, <1>2, <2>1 DEF Types
  <2>4. Within(c) = Within(f) \cup ({f} \cap Functions)
    BY <1>1, <2>1 DEF Withins
  <2>5. Within(c) = Within(f) \cup {f}
    BY <1>2, <2>4
  <2>6. Max(Within(c)) = f
    <3>1. \A g \in Within(c) : g \in 0 .. f
      <4> SUFFICES ASSUME NEW g \in Within(f) PROVE g \in 0 .. f
        BY <1>2, <2>5
      <4>1. g \in N /\ g \in Functions /\ g # f /\ Below(g, f)
        BY <1>1 DEF Withins, Within
      <4> QED BY <1>1, <1>2, <4>1 DEF Belows, Nodes
    <3>2. Within(c) \subseteq 0 .. f /\ Within(c) # {} /\ f \in Within(c)
      BY <2>5, <3>1
    <3>3. Max(Within(c)) \in Within(c) /\ f <= Max(Within(c))
      BY <1>2, <3>2, Greatest
    <3> QED BY <1>2, <3>1, <3>3
  <2>7. Within(c) \subseteq E /\ Within(c) # {}
    BY <1>3, <2>5
  <2> QED BY <2>2, <2>3, <2>6, <2>7 DEF ItemOK, Inner, c
<1>5. ItemsOK(a, E)
  BY <1>4 DEF ItemsOK
<1>6. Follows(x, a, D)
  <2>1. x.how \in Inner \/ Entered(f, D)
    BY <1>2, <1>3 DEF Entered
  <2> QED BY <2>1 DEF Follows, Inner, x
<1>7. DeclaresNow(x, {f})
  BY <1>2 DEF DeclaresNow, x
<1>8. Passes(x, a, D, {f})
  <2> SUFFICES ASSUME NEW n \in Declarable \ (D \cup {f}), Below(f, n)
               PROVE  Within(n) # {} /\ Reached(a, Inner, n)
    BY DEF Passes
  <2>1. n \in N /\ n # f /\ n \notin Hidden
    BY <1>1 DEF Sorts
  <2>2. f \in Within(n)
    BY <1>1, <1>2, <2>1 DEF Withins
  <2>3. PICK c \in N : Child(c, f) /\ Below(c, n)
    BY <1>1, <2>1 DEF Childs
  <2>4. ~(Kind(f) = "lit" /\ Kind(c) = "param")
    BY <1>1, <2>1, <2>3 DEF Types
  <2>5. PICK i \in DOMAIN a : a[i].at = c /\ a[i].how \in Inner
    BY <2>3, <2>4 DEF x
  <2> QED BY <2>2, <2>3, <2>5 DEF Reached
<1>9. Claims(x, a, D, {f})
  <2> SUFFICES ASSUME NEW l \in Literals \ (D \cup {f}), Within(l) = {}, NEW m \in N, LoneName(m, l)
               PROVE  ~(f \in Above(tree)[m]) /\ ~ClaimedBy(x, m, l)
    BY DEF Claims
  <2>1. l \in N /\ l # f /\ Kind(m) = "spec"
    BY DEF Literals, NodesOf, LoneName
  <2>2. ~(f \in Above(tree)[m])
    BY <1>1, <1>2, <2>1 DEF Types, Belows
  <2>3. ~Below(f, l)
    BY <1>1, <1>2, <2>1 DEF Withins
  <2> QED BY <1>2, <2>2, <2>3 DEF ClaimedBy
<1>10. Replaces(x, a, D, {f})
  BY <1>5, <1>6, <1>7, <1>8, <1>9 DEF Replaces
<1> QED BY <1>10, WalksOn DEF x

(* Not going on. *)
LEMMA Leaving ==
    ASSUME IsFile, NEW s, NEW D, Walks(s, D), s # <<>>, NEW new, DeclaresNow(Head(s), new),
           Passes(Head(s), <<>>, D, new), Claims(Head(s), <<>>, D, new)
    PROVE  Walks(<<>> \o Tail(s), D \cup new)
<1>1. ItemsOK(<<>>, D \cup new)
  BY DEF ItemsOK
<1>2. Follows(Head(s), <<>>, D)
  BY DEF Follows
<1> QED BY <1>1, <1>2, WalksOn DEF Replaces

(* Nothing waits for a traversal that is not on the way to a spec.         *)
LEMMA ClaimsNothing ==
    ASSUME IsFile, NEW s, NEW D, Walks(s, D), s # <<>>, NEW new, NEW a,
           Head(s).how = "file" => Kind(Head(s).at) \notin {"file", "gen"},
           Head(s).how # "name",
           Head(s).how = "value" => Head(s).at \in Literals /\ Head(s).at \in D \cup new
    PROVE  Claims(Head(s), a, D, new)
<1> DEFINE x == Head(s)
           N == DOMAIN tree
<1>1. Belows /\ Types /\ Withins /\ Sorts /\ x.at \in N
  BY FirstItem
<1> HIDE DEF x
<1> SUFFICES ASSUME NEW l \in Literals \ (D \cup new), Within(l) = {}, NEW m \in N, LoneName(m, l)
             PROVE  ~(x.how = "file" /\ x.at \in Above(tree)[m]) /\ ~ClaimedBy(x, m, l)
  BY DEF Claims, x
<1>2. l \in N /\ Kind(m) = "spec"
  BY DEF Literals, NodesOf, LoneName
<1>3. ~(x.how = "file" /\ x.at \in Above(tree)[m])
  BY <1>1, <1>2 DEF Types, Belows, x
<1>4. x.how = "value" => ~Below(x.at, l)
  BY <1>1, <1>2 DEF Withins, Sorts, x
<1> QED BY <1>3, <1>4 DEF ClaimedBy, x

-----------------------------------------------------------------------------
(* What holds of the symbols declared. *)

Entries == [symbol : Nat \X Nat, under : Nat \X Nat, parent : Nat \X Nat]
WellPlaced(e) ==
    e.symbol[1] \in Literals =>
        e.under = IF e.parent # Unstated THEN e.parent ELSE Around(e.symbol[1])
SymbolsIn(ds) ==
    /\ ds \in Seq(Entries)
    /\ \A i \in DOMAIN ds :
          /\ ds[i].symbol[1] \in DOMAIN tree
          /\ ds[i].symbol[1] \in Declarable \/ Kind(ds[i].symbol[1]) = "spec"
    /\ \A n \in Declarable : \A i, j \in DOMAIN ds :
          ds[i].symbol = SymbolOf(n) /\ ds[j].symbol = SymbolOf(n) => i = j
    /\ \A i \in DOMAIN ds : WellPlaced(ds[i])

(* A node that was not declared is. *)
LEMMA AddSymbol ==
    ASSUME IsFile, NEW ds, SymbolsIn(ds), NEW n \in Declarable \ DoneIn(ds),
           NEW e \in Entries, e.symbol = SymbolOf(n), WellPlaced(e)
    PROVE  SymbolsIn(Append(ds, e)) /\ DoneIn(Append(ds, e)) = DoneIn(ds) \cup {n}
<1> DEFINE d == Append(ds, e)
<1>1. /\ ds \in Seq(Entries)
      /\ \A i \in DOMAIN ds :
            /\ ds[i].symbol[1] \in DOMAIN tree
            /\ ds[i].symbol[1] \in Declarable \/ Kind(ds[i].symbol[1]) = "spec"
      /\ \A m \in Declarable : \A i, j \in DOMAIN ds :
            ds[i].symbol = SymbolOf(m) /\ ds[j].symbol = SymbolOf(m) => i = j
      /\ \A i \in DOMAIN ds : WellPlaced(ds[i])
  BY DEF SymbolsIn
<1>2. /\ d \in Seq(Entries) /\ DOMAIN d = DOMAIN ds \cup {Len(ds) + 1} /\ Len(ds) + 1 \notin DOMAIN ds
      /\ \A i \in DOMAIN ds : d[i] = ds[i]
      /\ d[Len(ds) + 1] = e
  BY <1>1, AppendAt
<1> HIDE DEF d
<1>3. \A m : SymbolOf(m)[1] = m /\ (SymbolOf(m) = SymbolOf(n) => m = n)
  BY DEF SymbolOf
<1>4. n \in DOMAIN tree
  BY SortFacts DEF Sorts
<1>5. \A i \in DOMAIN ds : ds[i].symbol # SymbolOf(n)
  BY DEF DoneIn
<1>6. \A i \in DOMAIN d : /\ d[i].symbol[1] \in DOMAIN tree
                          /\ d[i].symbol[1] \in Declarable \/ Kind(d[i].symbol[1]) = "spec"
                          /\ WellPlaced(d[i])
  <2> SUFFICES ASSUME NEW i \in DOMAIN d
               PROVE  /\ d[i].symbol[1] \in DOMAIN tree
                      /\ d[i].symbol[1] \in Declarable \/ Kind(d[i].symbol[1]) = "spec"
                      /\ WellPlaced(d[i])
    OBVIOUS
  <2>1. CASE i \in DOMAIN ds
    <3>1. d[i] = ds[i]
      BY <1>2, <2>1
    <3> QED BY <1>1, <2>1, <3>1
  <2>2. CASE i \notin DOMAIN ds
    <3>1. d[i] = e
      BY <1>2, <2>2
    <3>2. e.symbol[1] = n
      BY <1>3
    <3> QED BY <1>4, <3>1, <3>2
  <2> QED BY <2>1, <2>2
<1>7. ASSUME NEW m \in Declarable, NEW i \in DOMAIN d, NEW j \in DOMAIN d,
             d[i].symbol = SymbolOf(m), d[j].symbol = SymbolOf(m)
      PROVE  i = j
  <2>1. CASE m = n
    BY <1>2, <1>5, <1>7, <2>1
  <2>2. CASE m # n
    <3>1. i \in DOMAIN ds /\ j \in DOMAIN ds
      BY <1>2, <1>3, <1>7, <2>2
    <3> QED BY <1>1, <1>2, <1>7, <3>1
  <2> QED BY <2>1, <2>2
<1>8. SymbolsIn(d)
  BY <1>2, <1>6, <1>7 DEF SymbolsIn
<1>9. ASSUME NEW m \in Declarable
      PROVE  (\E i \in DOMAIN d : d[i].symbol = SymbolOf(m)) <=>
                 m = n \/ \E i \in DOMAIN ds : ds[i].symbol = SymbolOf(m)
  BY <1>2, <1>3
<1>10. DoneIn(d) = DoneIn(ds) \cup {n}
  BY <1>9 DEF DoneIn
<1> QED BY <1>8, <1>10 DEF d

(* Something else is. *)
LEMMA AddOther ==
    ASSUME IsFile, NEW ds, SymbolsIn(ds), NEW e \in Entries, e.symbol[1] \in DOMAIN tree,
           e.symbol[1] \in Declarable \/ Kind(e.symbol[1]) = "spec", e.symbol[1] \notin Literals,
           \A n \in Declarable : e.symbol # SymbolOf(n)
    PROVE  SymbolsIn(Append(ds, e)) /\ DoneIn(Append(ds, e)) = DoneIn(ds)
<1> DEFINE d == Append(ds, e)
<1>1. /\ ds \in Seq(Entries)
      /\ \A i \in DOMAIN ds :
            /\ ds[i].symbol[1] \in DOMAIN tree
            /\ ds[i].symbol[1] \in Declarable \/ Kind(ds[i].symbol[1]) = "spec"
      /\ \A m \in Declarable : \A i, j \in DOMAIN ds :
            ds[i].symbol = SymbolOf(m) /\ ds[j].symbol = SymbolOf(m) => i = j
      /\ \A i \in DOMAIN ds : WellPlaced(ds[i])
  BY DEF SymbolsIn
<1>2. /\ d \in Seq(Entries) /\ DOMAIN d = DOMAIN ds \cup {Len(ds) + 1} /\ Len(ds) + 1 \notin DOMAIN ds
      /\ \A i \in DOMAIN ds : d[i] = ds[i]
      /\ d[Len(ds) + 1] = e
  BY <1>1, AppendAt
<1> HIDE DEF d
<1>3. WellPlaced(e)
  BY DEF WellPlaced
<1>4. \A i \in DOMAIN d : (i \in DOMAIN ds /\ d[i] = ds[i]) \/ d[i] = e
  BY <1>2
<1>5. \A i \in DOMAIN d : /\ d[i].symbol[1] \in DOMAIN tree
                          /\ d[i].symbol[1] \in Declarable \/ Kind(d[i].symbol[1]) = "spec"
                          /\ WellPlaced(d[i])
  BY <1>1, <1>3, <1>4
<1>6. \A i \in DOMAIN d : \A n \in Declarable : d[i].symbol = SymbolOf(n) => i \in DOMAIN ds /\ ds[i].symbol = SymbolOf(n)
  BY <1>4
<1>7. SymbolsIn(d)
  BY <1>1, <1>2, <1>5, <1>6 DEF SymbolsIn
<1>8. DoneIn(d) = DoneIn(ds)
  BY <1>2, <1>6 DEF DoneIn
<1> QED BY <1>7, <1>8 DEF d

-----------------------------------------------------------------------------
(* The invariant *)

Results == result \in {"none", "ok", "error"} /\ (result # "none" => todo = <<>>)

IInv ==
    /\ IsFile /\ Results
    /\ SymbolsIn(declared) /\ anonFuncByPos = Literals \cap Done
    /\ result # "error" => Walks(todo, Done)

(* The file stays. *)
LEMMA FileStays ==
    ASSUME UNCHANGED given
    PROVE  /\ IsFile <=> IsFile'
           /\ Literals' = Literals /\ Declarable' = Declarable
           /\ Done' = DoneIn(declared')
           /\ SymbolsIn(declared') => SymbolsIn(declared)'
           /\ Walks(todo', Done') => Walks(todo, Done)'
<1>1. tree' = tree /\ about' = about
  BY DEF given
<1>2. IsFile <=> IsFile'
  BY <1>1 DEF IsFile
<1>3. Functions' = Functions /\ Interfaces' = Interfaces /\ Literals' = Literals
  BY <1>1 DEF Functions, Interfaces, Literals
<1>4. Hidden' = Hidden
  BY <1>1, <1>3 DEF Hidden, Kind
<1>5. Declarable' = Declarable
  BY <1>3, <1>4 DEF Declarable
<1>6. Done' = DoneIn(declared')
  BY <1>3, <1>5 DEF Done, DoneIn, SymbolOf
<1>7. ASSUME SymbolsIn(declared') PROVE SymbolsIn(declared)'
  <2>1. \A n : Around(n)' = Around(n)
    BY <1>1, <1>3 DEF Around, HasExtent, Kind
  <2> QED BY <1>1, <1>3, <1>5, <1>7, <2>1 DEF SymbolsIn, WellPlaced, Kind, SymbolOf
<1>8. ASSUME Walks(todo', Done') PROVE Walks(todo, Done)'
  <2>1. \A n : Within(n)' = Within(n)
    BY <1>1, <1>3 DEF Within
  <2>2. ItemsOK(todo, Done)'
    BY <1>1, <1>4, <1>8, <2>1 DEF Walks, ItemsOK, ItemOK, ItemsHere, Kind
  <2>3. FrontsApart(todo)'
    BY <1>1, <1>8 DEF Walks, FrontsApart, SameFront, Apart, Below
  <2>4. Undeclared(todo, Done)'
    BY <1>1, <1>3, <1>5, <1>8, <2>1 DEF Walks, Undeclared, DeclaresFirst, Below
  <2>5. OutsideFirst(Done)'
    BY <1>5, <1>8, <2>1 DEF Walks, OutsideFirst
  <2>6. NothingMissed(todo, Done)'
    BY <1>1, <1>5, <1>8, <2>1 DEF Walks, NothingMissed, Reached, Below
  <2>7. ClaimsFirst(todo, Done)'
    BY <1>1, <1>3, <1>8, <2>1 DEF Walks, ClaimsFirst, LoneName, FileAbove, ClaimedInTime, ClaimedBy, Below, Kind
  <2> QED BY <2>2, <2>3, <2>4, <2>5, <2>6, <2>7 DEF Walks
<1> QED BY <1>2, <1>3, <1>5, <1>6, <1>7, <1>8

LEMMA Onward ==
    ASSUME IInv, result = "none", UNCHANGED <<given, result>>, NEW new,
           Walks(todo', Done \cup new), SymbolsIn(declared'), DoneIn(declared') = Done \cup new,
           anonFuncByPos' = anonFuncByPos \cup (Literals \cap new)
    PROVE  IInv'
<1>1. UNCHANGED given
  OBVIOUS
<1>2. /\ IsFile <=> IsFile'
      /\ Literals' = Literals /\ Done' = DoneIn(declared')
      /\ SymbolsIn(declared') => SymbolsIn(declared)'
      /\ Walks(todo', Done') => Walks(todo, Done)'
  BY <1>1, FileStays
<1>3. Done' = Done \cup new
  BY <1>2
<1>4. anonFuncByPos' = Literals' \cap Done'
  BY <1>2, <1>3 DEF IInv
<1>5. Results'
  BY DEF Results
<1> QED BY <1>2, <1>3, <1>4, <1>5 DEF IInv

(* At an item. *)
LEMMA AtItem ==
    ASSUME IInv, todo # <<>>
    PROVE  /\ IsFile /\ result = "none" /\ Walks(todo, Done) /\ SymbolsIn(declared)
           /\ anonFuncByPos = Literals \cap Done
           /\ Nodes /\ Belows /\ Childs /\ Withins /\ Types /\ Sorts
           /\ Now \in ItemsHere /\ ItemOK(Now, Done)
           /\ Now.at \in DOMAIN tree /\ Now.how \in Hows /\ Now.owner \in Nat \X Nat /\ Now.k \in Nat
<1>1. IsFile /\ result = "none" /\ Walks(todo, Done) /\ SymbolsIn(declared) /\ anonFuncByPos = Literals \cap Done
  BY DEF IInv, Results
<1> QED BY <1>1, FirstItem DEF Now

(* Nothing is declared. *)
LEMMA NothingNew ==
    ASSUME IInv, todo # <<>>, UNCHANGED <<given, declared, anonFuncByPos, result>>, Walks(todo', Done \cup {})
    PROVE  IInv'
<1>1. /\ result = "none" /\ SymbolsIn(declared') /\ DoneIn(declared') = Done \cup {}
      /\ anonFuncByPos' = anonFuncByPos \cup (Literals \cap {})
  BY AtItem DEF Done
<1> QED BY <1>1, Onward

(* Going on into all children, with nothing before them. *)
LEMMA GoingOnAlone ==
    ASSUME IInv, todo # <<>>, GoOn, NEW new, DeclaresNow(Now, new),
           Now.how \in {"file", "value", "signature", "body"},
           Kind(Now.at) \notin {"func", "lit", "named", "gen"},
           Now.how # "value" => Now.at \notin Declarable \ (Done \cup new)
    PROVE  Walks(todo', Done \cup new)
<1> DEFINE q == Items(Children(tree, Now.at), Now.how, Now.owner)
           K == {k \in DOMAIN tree : tree[k].up = Now.at}
           p == <<>>
<1>1. /\ IsFile /\ Walks(todo, Done) /\ Nodes /\ Childs
      /\ Now.at \in DOMAIN tree /\ Now.how \in Hows /\ Now.owner \in Nat \X Nat
  BY AtItem
<1>2. todo' = q \o Tail(todo)
  BY DEF GoOn, Into
<1>3. q \in Seq(ItemsHere)
  <2>1. q = Items(InOrder(K), Now.how, Now.owner) /\ K \subseteq DOMAIN tree
    BY DEF Children
  <2> HIDE DEF q, K
  <2>2. ItemsFor(q, K, Now.how, Now.owner)
    BY <1>1, <2>1, ItemsOf
  <2> QED BY <2>2 DEF ItemsFor
<1>4. /\ p \in Seq(ItemsHere)
      /\ \A i \in DOMAIN p : p[i].how \in {"name", "left"} /\ ItemOK(p[i], Done \cup new)
  OBVIOUS
<1>5. \A c \in DOMAIN tree : ~(Child(c, Now.at) /\ Kind(c) = "spec")
  BY <1>1 DEF Childs, MayStand
<1>6. <<>> \o q = q
  <2> HIDE DEF q
  <2> QED BY <1>3
<1> HIDE DEF p
<1>7. Walks(p \o q \o Tail(todo), Done \cup new)
  BY <1>1, <1>4, <1>5, GoingOn DEF Now
<1>8. p \o q = q
  BY <1>6 DEF p
<1> QED BY <1>2, <1>7, <1>8

LEMMA StepPass == ASSUME IInv, Pass PROVE IInv'
<1>1. /\ todo # <<>> /\ GoOn /\ UNCHANGED <<given, declared, anonFuncByPos, result>>
      /\ \/ Now.how \in {"file", "value", "body"} /\ Kind(Now.at) \in {"file", "spec", "block"}
         \/ Now.how = "value" /\ Kind(Now.at) = "iface"
  BY DEF Pass, At
<1>2. Sorts
  BY SortFacts
<1>3. DeclaresNow(Now, {})
  BY DEF DeclaresNow
<1>4. Walks(todo', Done \cup {})
  BY <1>1, <1>2, <1>3, GoingOnAlone DEF Sorts
<1> QED BY <1>1, <1>4, NothingNew

LEMMA StepCallExpr == ASSUME IInv, CallExpr PROVE IInv'
<1>1. /\ todo # <<>> /\ GoOn /\ UNCHANGED <<given, declared, anonFuncByPos, result>>
      /\ Now.how = "body" /\ Kind(Now.at) = "call"
  BY DEF CallExpr, At
<1>2. Sorts
  BY SortFacts
<1>3. DeclaresNow(Now, {})
  BY DEF DeclaresNow
<1>4. Walks(todo', Done \cup {})
  BY <1>1, <1>2, <1>3, GoingOnAlone DEF Sorts
<1> QED BY <1>1, <1>4, NothingNew

(* Declare adds a node that is not declared yet. *)
LEMMA DeclareNode ==
    ASSUME IInv, NEW n \in Declarable \ Done, NEW under \in Nat \X Nat, NEW parent \in Nat \X Nat,
           n \in Literals => under = IF parent # Unstated THEN parent ELSE Around(n),
           Declare(SymbolOf(n), under, parent)
    PROVE  SymbolsIn(declared') /\ DoneIn(declared') = Done \cup {n}
<1> DEFINE e == [symbol |-> SymbolOf(n), under |-> under, parent |-> parent]
<1>1. IsFile /\ SymbolsIn(declared)
  BY DEF IInv
<1>2. \A i \in DOMAIN declared : declared[i].symbol # SymbolOf(n)
  BY DEF Done, DoneIn
<1>3. declared' = Append(declared, e)
  BY <1>2 DEF Declare
<1>4. SymbolOf(n) \in Nat \X Nat /\ SymbolOf(n)[1] = n
  BY <1>1, SortFacts, TreeFacts DEF SymbolOf, Sorts, Nodes
<1>5. e \in Entries /\ e.symbol = SymbolOf(n) /\ WellPlaced(e)
  BY <1>4 DEF Entries, WellPlaced
<1> HIDE DEF e
<1> QED BY <1>1, <1>3, <1>5, AddSymbol DEF Done

LEMMA StepInterfaceType == ASSUME IInv, InterfaceType PROVE IInv'
<1> DEFINE n == Now.at
<1>1. /\ todo # <<>> /\ GoOn /\ UNCHANGED <<given, anonFuncByPos, result>>
      /\ Now.how \in {"file", "signature", "body"} /\ Kind(n) \in {"iface", "param"}
      /\ Declare(<<n, 1>>, Package, Unstated)
  BY DEF InterfaceType, At
<1>2. /\ IsFile /\ Walks(todo, Done) /\ result = "none" /\ ItemOK(Now, Done) /\ n \in DOMAIN tree /\ Sorts
  BY <1>1, AtItem
<1> HIDE DEF n
<1>3. n \in Interfaces /\ n \notin Functions /\ n \notin Literals
  BY <1>1, <1>2 DEF Interfaces, Functions, Literals, NodesOf, Kind
<1>4. n \notin Hidden
  BY <1>1, <1>2 DEF ItemOK, Inner, n
<1>5. n \in Declarable
  BY <1>3, <1>4 DEF Declarable
<1>6. n \notin Done
  BY <1>1, <1>2, <1>3, <1>5, MeetsFirst DEF Now, n, Inner
<1>7. SymbolsIn(declared') /\ DoneIn(declared') = Done \cup {n}
  <2>1. SymbolOf(n) = <<n, 1>>
    BY <1>3 DEF SymbolOf
  <2>2. Package \in Nat \X Nat /\ Unstated \in Nat \X Nat
    BY DEF Package, Unstated
  <2>3. n \in Declarable \ Done /\ n \notin Literals /\ Declare(SymbolOf(n), Package, Unstated)
    BY <1>1, <1>3, <1>5, <1>6, <2>1
  <2> QED BY <2>2, <2>3, DeclareNode
<1>8. DeclaresNow(Now, {n})
  BY <1>1, <1>5 DEF DeclaresNow, n
<1>9. Walks(todo', Done \cup {n})
  <2>1. Kind(Now.at) \notin {"func", "lit", "named", "gen"}
    BY <1>1 DEF n
  <2> QED BY <1>1, <1>8, <2>1, GoingOnAlone DEF n
<1>10. anonFuncByPos' = anonFuncByPos \cup (Literals \cap {n})
  BY <1>1, <1>3
<1> QED BY <1>1, <1>2, <1>7, <1>9, <1>10, Onward

(* A function is declared and entered. *)
LEMMA StepFuncDecl == ASSUME IInv, FuncDecl PROVE IInv'
<1> DEFINE f == Now.at
           S1 == {k \in DOMAIN tree : tree[k].up = f /\ Kind(k) = "param"}
           S2 == {k \in DOMAIN tree : tree[k].up = f /\ Kind(k) # "param"}
           q1 == Items(Params(f), "signature", <<f, 0>>)
           q2 == Items(Body(f), "body", <<f, 0>>)
           a == q1 \o q2
<1>1. /\ todo # <<>> /\ UNCHANGED <<given, anonFuncByPos, result>>
      /\ Now.how = "file" /\ Kind(f) = "func"
      /\ Declare(<<f, 0>>, Package, Unstated)
      /\ todo' = a \o Tail(todo)
  BY DEF FuncDecl, At, Into
<1>2. /\ IsFile /\ Walks(todo, Done) /\ result = "none" /\ f \in DOMAIN tree /\ Sorts /\ Nodes /\ Childs
  BY <1>1, AtItem
<1>4. /\ q1 \in Seq(ItemsHere)
      /\ \A i \in DOMAIN q1 : q1[i].at \in S1 /\ q1[i].how = "signature" /\ q1[i].owner = <<f, 0>>
      /\ \A i, j \in DOMAIN q1 : q1[i].at = q1[j].at => i = j
      /\ \A c \in S1 : \E i \in DOMAIN q1 : q1[i].at = c
  <2>1. q1 = Items(InOrder(S1), "signature", <<f, 0>>) /\ S1 \subseteq DOMAIN tree
    BY DEF Params
  <2>2. "signature" \in Hows /\ <<f, 0>> \in Nat \X Nat /\ Nodes
    BY <1>2 DEF Hows, Nodes
  <2> HIDE DEF q1, S1, f
  <2>3. ItemsFor(q1, S1, "signature", <<f, 0>>)
    BY <2>1, <2>2, ItemsOf
  <2> QED BY <2>3 DEF ItemsFor
<1>5. /\ q2 \in Seq(ItemsHere)
      /\ \A i \in DOMAIN q2 : q2[i].at \in S2 /\ q2[i].how = "body" /\ q2[i].owner = <<f, 0>>
      /\ \A i, j \in DOMAIN q2 : q2[i].at = q2[j].at => i = j
      /\ \A c \in S2 : \E i \in DOMAIN q2 : q2[i].at = c
  <2>1. q2 = Items(InOrder(S2), "body", <<f, 0>>) /\ S2 \subseteq DOMAIN tree
    BY DEF Body
  <2>2. "body" \in Hows /\ <<f, 0>> \in Nat \X Nat /\ Nodes
    BY <1>2 DEF Hows, Nodes
  <2> HIDE DEF q2, S2, f
  <2>3. ItemsFor(q2, S2, "body", <<f, 0>>)
    BY <2>1, <2>2, ItemsOf
  <2> QED BY <2>3 DEF ItemsFor
<1>6. \A c \in DOMAIN tree : Child(c, f) <=> c \in S1 \cup S2
  <2>1. tree[1].up # f
    BY <1>2 DEF Nodes
  <2> QED BY <2>1 DEF Child
<1>7. S1 \cap S2 = {} /\ S1 \cup S2 \subseteq DOMAIN tree
  OBVIOUS
<1> HIDE DEF q1, q2, S1, S2
<1>8. /\ a \in Seq(ItemsHere)
      /\ \A i \in DOMAIN q1 : i \in DOMAIN a /\ a[i] = q1[i]
      /\ \A j \in DOMAIN q2 : Len(q1) + j \in DOMAIN a /\ a[Len(q1) + j] = q2[j]
      /\ \A i \in DOMAIN a : i \in DOMAIN q1 \/ \E j \in DOMAIN q2 : i = Len(q1) + j
  BY <1>4, <1>5, ConcatAt
<1> HIDE DEF a, f
<1>9. \A i \in DOMAIN a : \/ i \in DOMAIN q1 /\ a[i] = q1[i]
                          \/ \E j \in DOMAIN q2 : i = Len(q1) + j /\ a[i] = q2[j]
  BY <1>8
<1>10. \A i \in DOMAIN a : a[i].how \in Inner /\ a[i].owner = <<f, 0>> /\ Child(a[i].at, f)
  BY <1>4, <1>5, <1>6, <1>7, <1>9 DEF Inner
<1>11. \A i, j \in DOMAIN a : i # j => a[i].at # a[j].at
  <2> SUFFICES ASSUME NEW i \in DOMAIN a, NEW j \in DOMAIN a, a[i].at = a[j].at PROVE i = j
    OBVIOUS
  <2>1. CASE i \in DOMAIN q1 /\ j \in DOMAIN q1
    BY <1>4, <1>8, <2>1
  <2>2. CASE i \notin DOMAIN q1 /\ j \notin DOMAIN q1
    <3>1. PICK k \in DOMAIN q2 : i = Len(q1) + k /\ a[i] = q2[k]
      BY <1>9, <2>2
    <3>2. PICK l \in DOMAIN q2 : j = Len(q1) + l /\ a[j] = q2[l]
      BY <1>9, <2>2
    <3> QED BY <1>5, <3>1, <3>2
  <2>3. CASE i \in DOMAIN q1 /\ j \notin DOMAIN q1
    <3>1. a[i].at \in S1 /\ a[j].at \in S2
      BY <1>4, <1>5, <1>8, <1>9, <2>3
    <3> QED BY <1>7, <3>1
  <2>4. CASE i \notin DOMAIN q1 /\ j \in DOMAIN q1
    <3>1. a[i].at \in S2 /\ a[j].at \in S1
      BY <1>4, <1>5, <1>8, <1>9, <2>4
    <3> QED BY <1>7, <3>1
  <2> QED BY <2>1, <2>2, <2>3, <2>4
<1>12. \A c \in DOMAIN tree : Child(c, f) => \E i \in DOMAIN a : a[i].at = c
  <2> SUFFICES ASSUME NEW c \in S1 \cup S2 PROVE \E i \in DOMAIN a : a[i].at = c
    BY <1>6
  <2>1. CASE c \in S1
    BY <1>4, <1>8, <2>1
  <2>2. CASE c \in S2
    BY <1>5, <1>8, <2>2
  <2> QED BY <2>1, <2>2
<1>13. f \in Functions /\ f \notin Literals /\ f \in Declarable
  BY <1>1, <1>2 DEF Functions, Literals, NodesOf, Kind, Sorts
<1>14. f \notin Done
  BY <1>1, <1>2, <1>13, MeetsFirst DEF Now, f
<1>15. SymbolsIn(declared') /\ DoneIn(declared') = Done \cup {f}
  <2>1. SymbolOf(f) = <<f, 0>>
    BY <1>13 DEF SymbolOf
  <2>2. Package \in Nat \X Nat /\ Unstated \in Nat \X Nat
    BY DEF Package, Unstated
  <2>3. f \in Declarable \ Done /\ f \notin Literals /\ Declare(SymbolOf(f), Package, Unstated)
    BY <1>1, <1>13, <1>14, <2>1
  <2> QED BY <2>2, <2>3, DeclareNode
<1>16. Walks(a \o Tail(todo), Done \cup {f})
  <2>1. Kind(f) # "lit"
    BY <1>1
  <2> QED BY <1>1, <1>2, <1>8, <1>10, <1>11, <1>12, <1>13, <1>14, <2>1, Entering DEF Now, f
<1>17. anonFuncByPos' = anonFuncByPos \cup (Literals \cap {f})
  BY <1>1, <1>13
<1> QED BY <1>1, <1>2, <1>15, <1>16, <1>17, Onward

(* The symbol around a literal is the function it is in, or the variable   *)
(* that claims it; the file's traversal meets none that a name claims.     *)
LEMMA PlaceInFunction ==
    ASSUME IsFile, NEW l \in Literals, Within(l) # {}
    PROVE  Around(l) = <<Max(Within(l)), 0>>
<1> DEFINE outer == {m \in Above(tree)[l] : HasExtent(m)}
           f == Max(outer)
<1>1. Nodes /\ Belows /\ Withins /\ Types /\ Sorts /\ l \in DOMAIN tree /\ l \in Nat
  BY TreeFacts, WithinFacts, SortFacts DEF Literals, NodesOf, Nodes
<1>2. Within(l) \subseteq outer
  BY DEF Within, HasExtent
<1>3. \A m \in outer : m \in DOMAIN tree /\ m \in 0 .. l /\ m \in Nat /\ m # l /\ Below(m, l)
  <2> SUFFICES ASSUME NEW m \in Above(tree)[l] PROVE m \in DOMAIN tree /\ m \in 0 .. l /\ m \in Nat /\ m # l /\ Below(m, l)
    OBVIOUS
  <2>1. m \in DOMAIN tree
    BY <1>1 DEF Belows
  <2> QED BY <1>1, <2>1 DEF Belows, Nodes
<1>4. \A m \in outer : m \in Functions \/ Kind(m) = "spec"
  BY DEF HasExtent
<1>5. \A m \in outer : m \in Functions => m \in Within(l)
  BY <1>1, <1>3 DEF Withins
<1> HIDE DEF outer
<1>6. f \in outer /\ \A m \in outer : m <= f
  <2>1. outer \subseteq 0 .. l /\ outer # {}
    BY <1>2, <1>3
  <2> QED BY <1>1, <2>1, Greatest
<1>7. Max(Within(l)) \in Within(l) /\ \A m \in Within(l) : m <= Max(Within(l))
  <2>1. Within(l) \subseteq 0 .. l
    BY <1>2, <1>3
  <2> QED BY <1>1, <2>1, Greatest
<1> DEFINE g == Max(Within(l))
<1> HIDE DEF f, g
<1>8. g \in Within(l) /\ (\A m \in Within(l) : m <= g) /\ g \in outer /\ g \in Functions
  BY <1>2, <1>7 DEF g, Within
<1>9. Kind(f) # "spec"
  <2> SUFFICES ASSUME Kind(f) = "spec" PROVE FALSE
    OBVIOUS
  <2>1. g <= f /\ g # f
    BY <1>1, <1>6, <1>8 DEF Sorts
  <2>2. Below(g, f) \/ Below(f, g)
    BY <1>1, <1>3, <1>6, <1>8 DEF Belows
  <2>3. f \in DOMAIN tree /\ g \in DOMAIN tree /\ f \in Nat /\ g \in Nat
    BY <1>3, <1>6, <1>8
  <2>4. Below(g, f)
    BY <1>1, <2>1, <2>2, <2>3 DEF Belows
  <2>5. Kind(g) \in {"gen", "file"}
    BY <1>1, <2>1, <2>3, <2>4 DEF Types
  <2> QED BY <1>1, <1>8, <2>5 DEF Sorts
<1>10. f \in Within(l)
  BY <1>4, <1>5, <1>6, <1>9
<1>11. f = g
  <2>1. f <= g /\ g <= f /\ f \in Nat /\ g \in Nat
    BY <1>3, <1>6, <1>8, <1>10
  <2> QED BY <2>1
<1>12. Around(l) = <<f, 0>>
  <2>1. outer # {}
    BY <1>6
  <2>2. Around(l) = IF outer = {} THEN Package ELSE <<Max(outer), IF Kind(Max(outer)) = "spec" THEN 1 ELSE 0>>
    BY DEF Around, outer
  <2> QED BY <1>9, <2>1, <2>2 DEF f
<1> QED BY <1>11, <1>12 DEF g

LEMMA PlaceInFile ==
    ASSUME IsFile, NEW s, NEW D, Walks(s, D), s # <<>>, Head(s).how = "file", Head(s).at \in Literals \ D
    PROVE  Around(Head(s).at) = Package
<1> DEFINE l == Head(s).at
<1>1. /\ Nodes /\ Belows /\ Withins /\ l \in DOMAIN tree
      /\ Head(s) = s[1] /\ 1 \in DOMAIN s /\ ItemOK(Head(s), D)
  BY FirstItem
<1>2. FrontsApart(s) /\ ClaimsFirst(s, D) /\ s \in Seq(ItemsHere)
  BY DEF Walks, ItemsOK
<1>3. Within(l) = {}
  BY <1>1 DEF ItemOK
<1>4. \A i \in DOMAIN s : s[i].how = "file" => ~Below(s[i].at, l) \/ i = 1
  BY <1>1, <1>2 DEF FrontsApart, SameFront, Apart
<1> HIDE DEF l
<1>5. ASSUME NEW m \in DOMAIN tree, LoneName(m, l) PROVE FALSE
  <2>1. Below(m, l) /\ m # l
    BY <1>1, <1>5 DEF LoneName, Belows
  <2>2. ~FileAbove(s, m)
    <3> SUFFICES ASSUME NEW i \in DOMAIN s, s[i].how = "file", s[i].at \in Above(tree)[m] PROVE FALSE
      BY DEF FileAbove
    <3>1. s[i].at \in DOMAIN tree
      BY <1>1 DEF Belows
    <3>2. Below(s[i].at, m) /\ s[i].at # m
      BY <1>1, <3>1 DEF Belows
    <3>3. Below(s[i].at, l)
      BY <1>1, <2>1, <3>1, <3>2 DEF Belows
    <3>4. s[i].at = l
      BY <1>1, <1>4, <3>3 DEF l
    <3> QED BY <1>1, <2>1, <3>2, <3>4 DEF Belows
  <2>3. ~ClaimedInTime(s, m, l)
    <3> SUFFICES ASSUME NEW j \in DOMAIN s, \A i \in DOMAIN s : s[i].how = "file" /\ Below(m, s[i].at) => j < i
                 PROVE  FALSE
      BY DEF ClaimedInTime
    <3>1. j < 1
      BY <1>1, <2>1 DEF l
    <3> QED BY <1>2, <3>1
  <2>4. l \in Literals \ D
    BY DEF l
  <2> QED BY <1>2, <1>3, <1>5, <2>2, <2>3, <2>4 DEF ClaimsFirst
<1>6. \A m \in Above(tree)[l] : ~HasExtent(m)
  <2> SUFFICES ASSUME NEW m \in Above(tree)[l], HasExtent(m) PROVE FALSE
    OBVIOUS
  <2>1. m \notin Functions
    BY <1>3 DEF Within
  <2>2. m \in DOMAIN tree
    BY <1>1 DEF Belows
  <2> QED BY <1>5, <2>1, <2>2 DEF HasExtent, LoneName
<1> QED BY <1>6 DEF Around, l

(* A declaration: the names of its specs come before their nodes.          *)
LEMMA StepGenDecl == ASSUME IInv, GenDecl PROVE IInv'
<1> DEFINE g == Now.at
           K == {k \in DOMAIN tree : tree[k].up = g}
           ch == Children(tree, g)
           names(s) == [k \in DOMAIN about[s] |-> Item(s, "name", Package, k)]
           ss == [i \in DOMAIN ch |-> names(ch[i])]
           p == FlattenSeq(ss)
<1>1. /\ todo # <<>> /\ Now.how = "file" /\ Kind(g) = "gen"
      /\ UNCHANGED <<given, declared, anonFuncByPos, result>>
      /\ todo' = p \o Items(ch, "file", Package) \o Tail(todo)
  BY DEF GenDecl, At, Into
<1>2. /\ IsFile /\ Walks(todo, Done) /\ ItemOK(Now, Done) /\ g \in DOMAIN tree
      /\ Nodes /\ Childs /\ Withins /\ Sorts
  BY <1>1, AtItem
<1>3. Now.owner = Package /\ Within(g) = {} /\ g \notin Functions
  BY <1>1, <1>2 DEF ItemOK, Sorts
<1>4. ch \in Seq(K) /\ (\A i \in DOMAIN ch : ch[i] \in K) /\ \A c \in K : \E i \in DOMAIN ch : ch[i] = c
  <2>1. ch = InOrder(K) /\ K \subseteq DOMAIN tree
    BY DEF Children
  <2> HIDE DEF ch, K
  <2> QED BY <1>2, <2>1, InOrderIs
<1> HIDE DEF ch, g
<1>5. \A c \in DOMAIN tree : c \in K <=> Child(c, g)
  <2>1. tree[1].up # g
    BY <1>2 DEF Nodes
  <2> QED BY <2>1 DEF Child
<1> HIDE DEF K
<1>6. ASSUME NEW c \in K
      PROVE  /\ c \in DOMAIN tree /\ Kind(c) = "spec" /\ Within(c) = {} /\ about[c] \in Seq({Name, Blank})
  <2>1. c \in DOMAIN tree
    BY DEF K
  <2>2. Child(c, g)
    BY <1>5, <2>1
  <2>3. Kind(c) = "spec"
    BY <1>1, <1>2, <2>1, <2>2 DEF Childs, MayStand, g
  <2>4. Within(c) = Within(g) \cup ({g} \cap Functions)
    BY <1>2, <2>1, <2>2 DEF Withins, g
  <2>5. Within(c) = {}
    BY <1>3, <2>4 DEF g
  <2>6. about[c] \in Seq({Name, Blank})
    BY <1>2, <2>1, <2>3, SpecNamesAre
  <2> QED BY <2>1, <2>3, <2>5, <2>6
<1>7. ASSUME NEW c \in K, NEW k \in DOMAIN about[c]
      PROVE  /\ names(c)[k] \in ItemsHere /\ ItemOK(names(c)[k], Done \cup {})
             /\ names(c)[k].how = "name" /\ names(c)[k].at = c
  <2>1. names(c)[k] = [at |-> c, how |-> "name", owner |-> Package, k |-> k]
    BY DEF Item
  <2>2. k \in Nat
    BY <1>6
  <2> HIDE DEF names
  <2>3. names(c)[k] \in ItemsHere
    BY <1>6, <2>1, <2>2 DEF ItemsHere, Hows, Package
  <2> QED BY <1>6, <2>1, <2>3 DEF ItemOK, Inner
<1>8. ASSUME NEW c \in K PROVE names(c) \in Seq(ItemsHere) /\ DOMAIN names(c) = DOMAIN about[c]
  <2>1. DOMAIN names(c) = DOMAIN about[c]
    OBVIOUS
  <2>2. DOMAIN about[c] = 1 .. Len(about[c]) /\ Len(about[c]) \in Nat
    BY <1>6
  <2>3. names(c) \in [DOMAIN about[c] -> ItemsHere]
    <3>1. \A k \in DOMAIN about[c] : Item(c, "name", Package, k) \in ItemsHere
      BY <1>7
    <3> QED BY <3>1
  <2> HIDE DEF names
  <2>4. names(c) \in Seq(ItemsHere)
    BY <2>2, <2>3
  <2> QED BY <2>1, <2>4
<1> HIDE DEF names
<1>9. ss \in Seq(Seq(ItemsHere)) /\ DOMAIN ss = DOMAIN ch /\ \A i \in DOMAIN ss : ss[i] = names(ch[i])
  <2>1. DOMAIN ch = 1 .. Len(ch) /\ Len(ch) \in Nat
    BY <1>4
  <2>2. \A i \in DOMAIN ch : names(ch[i]) \in Seq(ItemsHere)
    BY <1>4, <1>8
  <2> QED BY <2>1, <2>2
<1> HIDE DEF ss
<1>10. /\ p \in Seq(ItemsHere)
       /\ \A k \in DOMAIN p : \E i \in DOMAIN ss : \E j \in DOMAIN ss[i] : p[k] = ss[i][j]
       /\ \A i \in DOMAIN ss : \A j \in DOMAIN ss[i] : \E k \in DOMAIN p : p[k] = ss[i][j]
  BY <1>9, FlattenLemma
<1> HIDE DEF p
<1>11. \A k \in DOMAIN p : p[k].how \in {"name", "left"} /\ ItemOK(p[k], Done \cup {})
  <2> TAKE k \in DOMAIN p
  <2>1. PICK i \in DOMAIN ss : \E j \in DOMAIN ss[i] : p[k] = ss[i][j]
    BY <1>10
  <2>2. ch[i] \in K /\ ss[i] = names(ch[i]) /\ DOMAIN ss[i] = DOMAIN about[ch[i]]
    BY <1>4, <1>8, <1>9
  <2> QED BY <1>7, <2>1, <2>2
<1>12. ASSUME NEW c \in DOMAIN tree, Child(c, g), about[c] = <<Name>>
       PROVE  \E i \in DOMAIN p : p[i].how = "name" /\ p[i].at = c
  <2>1. c \in K
    BY <1>5, <1>12
  <2>2. PICK i \in DOMAIN ch : ch[i] = c
    BY <1>4, <2>1
  <2>3. 1 \in DOMAIN about[c]
    BY <1>12
  <2>4. i \in DOMAIN ss /\ ss[i] = names(c) /\ 1 \in DOMAIN ss[i]
    BY <1>8, <1>9, <2>1, <2>2, <2>3
  <2>5. PICK k \in DOMAIN p : p[k] = names(c)[1]
    BY <1>10, <2>4
  <2> QED BY <1>7, <2>1, <2>3, <2>5
<1>13. Walks(p \o Items(ch, "file", Package) \o Tail(todo), Done \cup {})
  <2>1. DeclaresNow(Now, {}) /\ Now.at \notin Declarable
    BY <1>1, <1>2 DEF DeclaresNow, Sorts, g
  <2>2. Walks(p \o Items(Children(tree, Now.at), Now.how, Now.owner) \o Tail(todo), Done \cup {})
    BY <1>1, <1>2, <1>10, <1>11, <1>12, <2>1, GoingOn DEF Now, g
  <2> QED BY <1>1, <1>3, <2>2 DEF ch, g
<1> QED BY <1>1, <1>13, NothingNew

(* The values of a spec, in which its literals are. *)
LEMMA ValuesAre ==
    ASSUME IsFile, NEW s \in DOMAIN tree, Kind(s) = "spec"
    PROVE  /\ DOMAIN Values(s) = 1 .. Len(Values(s)) /\ Len(Values(s)) \in Nat
           /\ \A i \in DOMAIN Values(s) : Child(Values(s)[i], s)
           /\ \A l \in Literals : s \in Above(tree)[l] => \E i \in DOMAIN Values(s) : Below(Values(s)[i], l)
<1> DEFINE V == {k \in DOMAIN tree : tree[k].up = s /\ tree[k].kind # "iface"}
           v == Values(s)
<1>1. Nodes /\ Belows /\ Childs /\ Types
  BY TreeFacts, WithinFacts
<1>2. v \in Seq(V) /\ (\A i \in DOMAIN v : v[i] \in V) /\ \A c \in V : \E i \in DOMAIN v : v[i] = c
  <2>1. v = InOrder(V) /\ V \subseteq DOMAIN tree
    BY DEF Values, ValuesIn
  <2> HIDE DEF v, V
  <2> QED BY <1>1, <2>1, InOrderIs
<1> HIDE DEF v
<1>3. DOMAIN v = 1 .. Len(v) /\ Len(v) \in Nat
  BY <1>2
<1>4. \A c \in V : Child(c, s)
  <2>1. tree[1].up # s
    BY <1>1 DEF Nodes
  <2> QED BY <2>1 DEF Child
<1>5. ASSUME NEW l \in Literals, s \in Above(tree)[l] PROVE \E i \in DOMAIN v : Below(v[i], l)
  <2>1. l \in DOMAIN tree /\ Kind(l) = "lit"
    BY DEF Literals, NodesOf, Kind
  <2>2. Below(s, l) /\ l # s
    BY <1>1, <1>5, <2>1 DEF Belows
  <2>3. PICK c \in DOMAIN tree : Child(c, s) /\ Below(c, l)
    BY <1>1, <2>1, <2>2 DEF Childs
  <2>4. Kind(c) # "iface"
    BY <1>1, <2>1, <2>3 DEF Types
  <2>5. c \in V
    BY <2>3, <2>4 DEF Child, Kind
  <2> QED BY <1>2, <2>3, <2>5
<1> QED BY <1>2, <1>3, <1>4, <1>5 DEF v

(* A name of a spec is declared; its value comes next, if it has one of    *)
(* its own.  A lone name has one if there is a literal in the spec.        *)
LEMMA StepDeclareName == ASSUME IInv, DeclareName PROVE IInv'
<1> DEFINE s == Now.at
           k == Now.k
<1>1. /\ todo # <<>> /\ Now.how = "name" /\ Kind(s) = "spec"
      /\ UNCHANGED <<given, anonFuncByPos, result>>
      /\ IF about[s][k] = Blank
         THEN todo' = <<>> \o Tail(todo) /\ UNCHANGED declared
         ELSE Declare(<<s, k>>, Package, Unstated) /\ todo' = Claimed(s, k) \o Tail(todo)
  BY DEF DeclareName, At, Into
<1>2. /\ IsFile /\ Walks(todo, Done) /\ ItemOK(Now, Done) /\ s \in DOMAIN tree /\ result = "none"
      /\ SymbolsIn(declared) /\ Nodes /\ Childs /\ Withins /\ Sorts
  BY <1>1, AtItem
<1>3. Within(s) = {} /\ k \in DOMAIN about[s]
  BY <1>1, <1>2 DEF ItemOK
<1> HIDE DEF s, k
<1>4. /\ about[s] \in Seq({Name, Blank}) /\ (about[s] = <<Name>> => Len(Values(s)) \in {0, 1})
      /\ k \in Nat \ {0} /\ s \in Nat \ {0}
  <2>1. about[s] \in Seq({Name, Blank}) /\ (about[s] = <<Name>> => Len(Values(s)) \in {0, 1})
    BY <1>1, <1>2, SpecNamesAre
  <2>2. k \in Nat \ {0}
    BY <1>3, <2>1
  <2> QED BY <1>2, <2>1, <2>2 DEF Nodes
<1>5. DeclaresNow(Now, {}) /\ \A a : Passes(Now, a, Done, {})
  BY <1>1 DEF DeclaresNow, Passes, Inner
<1>6. ASSUME NEW l \in Literals, NEW m, LoneName(m, l), ClaimedBy(Now, m, l)
      PROVE  /\ m = s /\ k = 1 /\ about[s][k] = Name
             /\ Len(Values(s)) = 1 /\ Len(about[s]) = 1 /\ Below(Values(s)[1], l)
  <2>1. m = s /\ about[s] = <<Name>> /\ s \in Above(tree)[l]
    BY <1>1, <1>6 DEF ClaimedBy, LoneName, s
  <2>2. k = 1 /\ about[s][k] = Name /\ Len(about[s]) = 1
    BY <1>3, <2>1
  <2>3. PICK i \in 1 .. Len(Values(s)) : Below(Values(s)[i], l)
    BY <1>1, <1>2, <2>1, ValuesAre
  <2>4. Len(Values(s)) \in {0, 1}
    BY <1>4, <2>1
  <2> DEFINE N == Len(Values(s))
  <2> HIDE DEF N
  <2>5. N \in {0, 1} /\ i \in 1 .. N
    BY <2>3, <2>4 DEF N
  <2>6. N = 1 /\ i = 1
    BY <2>5
  <2> QED BY <2>1, <2>2, <2>3, <2>6 DEF N
<1>7. CASE about[s][k] = Blank
  <2>1. Claims(Now, <<>>, Done, {})
    BY <1>1, <1>6, <1>7, WalkAssumption DEF Claims
  <2>2. Walks(<<>> \o Tail(todo), Done \cup {})
    BY <1>1, <1>2, <1>5, <2>1, Leaving DEF Now
  <2>3. UNCHANGED <<given, declared, anonFuncByPos, result>> /\ Walks(todo', Done \cup {})
    BY <1>1, <1>7, <2>2
  <2> QED BY <1>1, <2>3, NothingNew
<1>8. CASE about[s][k] # Blank
  <2> DEFINE a == Claimed(s, k)
             v == Values(s)[k]
             e == [symbol |-> <<s, k>>, under |-> Package, parent |-> Unstated]
  <2>1. SymbolsIn(declared') /\ DoneIn(declared') = Done
    <3>1. declared' = declared \/ declared' = Append(declared, e)
      BY <1>1, <1>8 DEF Declare
    <3>2. /\ e \in Entries /\ e.symbol[1] \in DOMAIN tree /\ Kind(e.symbol[1]) = "spec"
          /\ e.symbol[1] \notin Literals
      BY <1>1, <1>2, <1>4 DEF Entries, Package, Unstated, Literals, NodesOf, Kind
    <3>3. \A n \in Declarable : e.symbol # SymbolOf(n)
      BY <1>1, <1>2 DEF Sorts, SymbolOf
    <3> HIDE DEF e
    <3>4. SymbolsIn(Append(declared, e)) /\ DoneIn(Append(declared, e)) = DoneIn(declared)
      BY <1>2, <3>2, <3>3, AddOther
    <3> QED BY <1>2, <3>1, <3>4 DEF Done
  <2>2. ASSUME Len(Values(s)) = Len(about[s]) PROVE Walks(a \o Tail(todo), Done \cup {})
    <3>1. a = <<[at |-> v, how |-> "value", owner |-> <<s, k>>, k |-> 0]>>
      BY <2>2 DEF Claimed, Item
    <3>2. k \in DOMAIN Values(s) /\ Child(v, s)
      <4>1. k \in DOMAIN Values(s)
        BY <1>1, <1>2, <1>3, <1>4, <2>2, ValuesAre
      <4> QED BY <1>1, <1>2, <4>1, ValuesAre
    <3>3. v \in DOMAIN tree /\ Within(v) = {}
      <4>1. v \in DOMAIN tree
        BY <3>2 DEF Child
      <4>2. Within(v) = Within(s) \cup ({s} \cap Functions)
        <5> HIDE DEF v
        <5> QED BY <1>2, <3>2, <4>1 DEF Withins
      <4>3. s \notin Functions
        BY <1>1, <1>2 DEF Sorts
      <4> HIDE DEF v
      <4> QED BY <1>3, <4>1, <4>2, <4>3
    <3> HIDE DEF a, v
    <3>4. /\ a[1].at = v /\ a[1].how = "value" /\ a[1].owner = <<s, k>> /\ a[1] \in ItemsHere
          /\ DOMAIN a = {1} /\ a \in Seq(ItemsHere)
      <4> DEFINE x == [at |-> v, how |-> "value", owner |-> <<s, k>>, k |-> 0]
      <4>1. x \in ItemsHere
        BY <1>4, <3>3 DEF ItemsHere, Hows
      <4>2. x.at = v /\ x.how = "value" /\ x.owner = <<s, k>>
        OBVIOUS
      <4> HIDE DEF x
      <4>3. a = <<x>>
        BY <3>1 DEF x
      <4> QED BY <4>1, <4>2, <4>3
    <3>5. ItemOK(a[1], Done \cup {})
      BY <1>4, <3>3, <3>4 DEF ItemOK, Inner, Unstated
    <3>6. ItemsOK(a, Done \cup {}) /\ Follows(Now, a, Done)
      BY <3>4, <3>5 DEF ItemsOK, Follows, Inner
    <3>7. Claims(Now, a, Done, {})
      <4> SUFFICES ASSUME NEW l \in Literals, NEW m \in DOMAIN tree, LoneName(m, l), ClaimedBy(Now, m, l)
                   PROVE  \E j \in DOMAIN a : ClaimedBy(a[j], m, l)
        BY <1>1 DEF Claims
      <4>1. k = 1 /\ Below(Values(s)[1], l)
        BY <1>6
      <4>2. ClaimedBy(a[1], m, l)
        BY <3>4, <4>1 DEF ClaimedBy, v
      <4> QED BY <3>4, <4>2
    <3>8. Walks(a \o Tail(todo), Done \cup {})
      <4>1. Replaces(Head(todo), a, Done, {})
        BY <1>5, <3>6, <3>7 DEF Replaces, Now
      <4> QED BY <1>1, <1>2, <4>1, WalksOn
    <3> QED BY <3>8
  <2>3. ASSUME Len(Values(s)) # Len(about[s]) PROVE Walks(a \o Tail(todo), Done \cup {})
    <3>1. a = <<>>
      BY <2>3 DEF Claimed
    <3>2. Claims(Now, <<>>, Done, {})
      BY <1>1, <1>6, <2>3 DEF Claims
    <3>3. Walks(<<>> \o Tail(todo), Done \cup {})
      BY <1>1, <1>2, <1>5, <3>2, Leaving DEF Now
    <3> QED BY <3>1, <3>3
  <2>4. Walks(a \o Tail(todo), Done \cup {})
    BY <2>2, <2>3
  <2>5. todo' = a \o Tail(todo)
    BY <1>1, <1>8
  <2> HIDE DEF a
  <2>6. anonFuncByPos' = anonFuncByPos \cup (Literals \cap {}) /\ DoneIn(declared') = Done \cup {}
    BY <1>1, <2>1
  <2>7. Walks(todo', Done \cup {})
    BY <2>4, <2>5
  <2> QED BY <1>1, <1>2, <2>1, <2>6, <2>7, Onward
<1> QED BY <1>7, <1>8

(* A literal that is to be named is declared and entered. *)
LEMMA StepFuncLit == ASSUME IInv, FuncLit PROVE IInv'
<1> DEFINE l == Now.at
           S == {k \in DOMAIN tree : tree[k].up = l /\ Kind(k) # "param"}
           a == Items(Body(l), "body", <<l, 0>>)
<1>1. /\ todo # <<>> /\ Now.how \in {"file", "value", "body"} /\ Kind(l) = "lit"
      /\ Now.how = "body" \/ l \notin anonFuncByPos
      /\ UNCHANGED <<given, result>>
      /\ Declare(<<l, 0>>, Now.owner, StatedParent(Now))
      /\ anonFuncByPos' = anonFuncByPos \cup {l}
      /\ todo' = a \o Tail(todo)
  BY DEF FuncLit, ToBeNamed, At, Into
<1>2. /\ IsFile /\ Walks(todo, Done) /\ ItemOK(Now, Done) /\ l \in DOMAIN tree /\ result = "none"
      /\ Now.owner \in Nat \X Nat /\ anonFuncByPos = Literals \cap Done
      /\ Nodes /\ Childs /\ Sorts
  BY <1>1, AtItem
<1>3. l \in Literals /\ l \in Functions /\ l \in Declarable
  BY <1>1, <1>2 DEF Literals, NodesOf, Kind, Sorts
<1>4. l \notin Done
  <2>1. CASE Now.how = "body"
    BY <1>1, <1>2, <1>3, <2>1, MeetsFirst DEF Now, Inner
  <2>2. CASE Now.how # "body"
    BY <1>1, <1>2, <1>3, <2>2
  <2> QED BY <2>1, <2>2
<1>5. Now.owner = IF StatedParent(Now) # Unstated THEN StatedParent(Now) ELSE Around(l)
  <2>1. CASE Now.how = "value"
    BY <1>2, <2>1 DEF ItemOK, StatedParent
  <2>2. CASE Now.how = "body"
    <3>1. Within(l) # {} /\ Now.owner = <<Max(Within(l)), 0>>
      BY <1>2, <2>2 DEF ItemOK, Inner
    <3>2. Around(l) = <<Max(Within(l)), 0>>
      BY <1>2, <1>3, <3>1, PlaceInFunction
    <3> QED BY <2>2, <3>1, <3>2 DEF StatedParent
  <2>3. CASE Now.how = "file"
    <3>1. Now.owner = Package
      BY <1>2, <2>3 DEF ItemOK
    <3>2. Around(l) = Package
      BY <1>1, <1>2, <1>3, <1>4, <2>3, PlaceInFile DEF Now
    <3> QED BY <2>3, <3>1, <3>2 DEF StatedParent
  <2> QED BY <1>1, <2>1, <2>2, <2>3
<1>6. SymbolsIn(declared') /\ DoneIn(declared') = Done \cup {l}
  <2>1. SymbolOf(l) = <<l, 0>>
    BY <1>3 DEF SymbolOf
  <2>2. StatedParent(Now) \in Nat \X Nat
    BY <1>2 DEF StatedParent, Unstated
  <2> HIDE DEF l
  <2>3. l \in Declarable \ Done /\ Now.owner \in Nat \X Nat /\ Declare(SymbolOf(l), Now.owner, StatedParent(Now))
    BY <1>1, <1>2, <1>3, <1>4, <2>1
  <2> QED BY <1>5, <2>2, <2>3, DeclareNode
<1>7. /\ a \in Seq(ItemsHere)
      /\ \A i \in DOMAIN a : a[i].at \in S /\ a[i].how = "body" /\ a[i].owner = <<l, 0>>
      /\ \A i, j \in DOMAIN a : a[i].at = a[j].at => i = j
      /\ \A c \in S : \E i \in DOMAIN a : a[i].at = c
  <2>1. a = Items(InOrder(S), "body", <<l, 0>>) /\ S \subseteq DOMAIN tree
    BY DEF Body
  <2>2. "body" \in Hows /\ <<l, 0>> \in Nat \X Nat /\ Nodes
    BY <1>2 DEF Hows, Nodes
  <2> HIDE DEF a, S, l
  <2>3. ItemsFor(a, S, "body", <<l, 0>>)
    BY <2>1, <2>2, ItemsOf
  <2> QED BY <2>3 DEF ItemsFor
<1>8. \A c \in DOMAIN tree : c \in S <=> Child(c, l) /\ Kind(c) # "param"
  <2>1. tree[1].up # l
    BY <1>2 DEF Nodes
  <2> QED BY <2>1 DEF Child
<1>9. S \subseteq DOMAIN tree
  OBVIOUS
<1> HIDE DEF a, S, l
<1>10. Walks(a \o Tail(todo), Done \cup {l})
  <2>1. \A i \in DOMAIN a : /\ a[i].how \in Inner /\ a[i].owner = <<l, 0>> /\ Child(a[i].at, l)
                            /\ ~(Kind(l) = "lit" /\ Kind(a[i].at) = "param")
    BY <1>7, <1>8, <1>9 DEF Inner
  <2>2. \A c \in DOMAIN tree : Child(c, l) =>
           \/ Kind(l) = "lit" /\ Kind(c) = "param"
           \/ \E i \in DOMAIN a : a[i].at = c
    BY <1>1, <1>7, <1>8
  <2>3. \A i, j \in DOMAIN a : i # j => a[i].at # a[j].at
    BY <1>7
  <2> QED BY <1>1, <1>2, <1>3, <1>4, <1>7, <2>1, <2>2, <2>3, Entering DEF Now, l
<1>11. anonFuncByPos' = anonFuncByPos \cup (Literals \cap {l})
  BY <1>1, <1>3
<1> QED BY <1>1, <1>2, <1>6, <1>10, <1>11, Onward

(* A literal that has a name is not looked into again. *)
LEMMA StepLeaveFuncLit == ASSUME IInv, LeaveFuncLit PROVE IInv'
<1> DEFINE l == Now.at
<1>1. /\ todo # <<>> /\ Now.how \in {"file", "value"} /\ Kind(l) = "lit" /\ l \in anonFuncByPos
      /\ UNCHANGED <<given, declared, anonFuncByPos, result>>
      /\ todo' = <<>> \o Tail(todo)
  BY DEF LeaveFuncLit, ToBeNamed, At, Into
<1>2. /\ IsFile /\ Walks(todo, Done) /\ l \in DOMAIN tree /\ anonFuncByPos = Literals \cap Done
      /\ Withins /\ Sorts
  BY <1>1, AtItem
<1>3. l \in Done /\ l \in Literals /\ l \in Functions
  BY <1>1, <1>2 DEF Sorts
<1>4. DeclaresNow(Now, {})
  BY DEF DeclaresNow
<1>5. Passes(Now, <<>>, Done, {})
  <2> SUFFICES ASSUME NEW n \in Declarable \ Done, Below(l, n) PROVE Within(n) # {}
    BY <1>1 DEF Passes, Inner
  <2>1. l \in Within(n)
    BY <1>2, <1>3 DEF Withins, Sorts
  <2> QED BY <2>1
<1>6. Claims(Now, <<>>, Done, {})
  BY <1>1, <1>2, <1>3, ClaimsNothing DEF Now
<1>7. Walks(<<>> \o Tail(todo), Done \cup {})
  BY <1>1, <1>2, <1>4, <1>5, <1>6, Leaving DEF Now
<1> QED BY <1>1, <1>7, NothingNew

(* A named interface: the type and its method are declared. *)
LEMMA StepTypeSpec == ASSUME IInv, TypeSpec PROVE IInv'
<1> DEFINE n == Now.at
           e0 == [symbol |-> <<n, 0>>, under |-> Now.owner, parent |-> Unstated]
           e1 == [symbol |-> <<n, 1>>, under |-> Package, parent |-> Unstated]
           d == Append(declared, e0)
<1>1. /\ todo # <<>> /\ Now.how \in {"file", "body"} /\ Kind(n) = "named"
      /\ UNCHANGED <<given, anonFuncByPos, result>>
      /\ declared' = declared \o <<e0, e1>>
      /\ todo' = <<>> \o Tail(todo)
  BY DEF TypeSpec, At, Into
<1>2. /\ IsFile /\ Walks(todo, Done) /\ ItemOK(Now, Done) /\ n \in DOMAIN tree /\ result = "none"
      /\ Now.owner \in Nat \X Nat /\ SymbolsIn(declared)
      /\ Nodes /\ Belows /\ Types /\ Sorts
  BY <1>1, AtItem
<1>3. n \in Interfaces /\ n \notin Functions /\ n \notin Literals /\ n \in Nat
  BY <1>1, <1>2 DEF Interfaces, Functions, Literals, NodesOf, Kind, Nodes
<1>4. n \in Declarable
  BY <1>1, <1>2, <1>3 DEF ItemOK, Inner, Declarable
<1>5. n \notin Done
  BY <1>1, <1>2, <1>3, <1>4, MeetsFirst DEF Now, Inner
<1>6. SymbolOf(n) = <<n, 1>> /\ \A m : SymbolOf(m)[1] = m
  BY <1>3 DEF SymbolOf
<1>7. /\ e0 \in Entries /\ e0.symbol = <<n, 0>> /\ e0.symbol[1] = n
      /\ e1 \in Entries /\ e1.symbol = <<n, 1>> /\ e1.symbol[1] = n
  BY <1>2, <1>3 DEF Entries, Package, Unstated
<1> HIDE DEF e0, e1, n
<1>8. \A m \in Declarable : e0.symbol # SymbolOf(m)
  <2> SUFFICES ASSUME NEW m \in Declarable, e0.symbol = SymbolOf(m) PROVE FALSE
    OBVIOUS
  <2>1. m = n
    BY <1>6, <1>7
  <2>2. e0.symbol[2] = 0 /\ SymbolOf(n)[2] = 1
    BY <1>6, <1>7
  <2> QED BY <2>1, <2>2
<1>9. SymbolsIn(d) /\ DoneIn(d) = DoneIn(declared)
  BY <1>2, <1>3, <1>4, <1>7, <1>8, AddOther
<1>10. SymbolsIn(Append(d, e1)) /\ DoneIn(Append(d, e1)) = DoneIn(d) \cup {n}
  <2>1. WellPlaced(e1)
    BY <1>3, <1>7 DEF WellPlaced
  <2>2. n \in Declarable \ DoneIn(d)
    BY <1>4, <1>5, <1>9 DEF Done
  <2>3. e1.symbol = SymbolOf(n)
    BY <1>6, <1>7
  <2> HIDE DEF d
  <2> QED BY <1>2, <1>7, <1>9, <2>1, <2>2, <2>3, AddSymbol
<1>11. declared \o <<e0, e1>> = Append(d, e1)
  <2>1. declared \in Seq(Entries)
    BY <1>2 DEF SymbolsIn
  <2> QED BY <1>7, <2>1
<1>12. SymbolsIn(declared') /\ DoneIn(declared') = Done \cup {n}
  BY <1>1, <1>9, <1>10, <1>11 DEF Done
<1>13. DeclaresNow(Now, {n})
  BY <1>1, <1>4 DEF DeclaresNow, n
<1>14. Passes(Now, <<>>, Done, {n})
  <2> SUFFICES ASSUME NEW m \in Declarable \ (Done \cup {n}), Below(n, m) PROVE FALSE
    BY DEF Passes, n
  <2>1. m \in DOMAIN tree /\ m \notin Hidden
    BY <1>2 DEF Sorts
  <2> QED BY <1>1, <1>2, <2>1 DEF Types
<1>15. Claims(Now, <<>>, Done, {n})
  <2>1. Now.how # "name" /\ Now.how # "value" /\ Kind(Now.at) \notin {"file", "gen"}
    BY <1>1 DEF n
  <2> QED BY <1>1, <1>2, <2>1, ClaimsNothing DEF Now
<1>16. Walks(<<>> \o Tail(todo), Done \cup {n})
  BY <1>1, <1>2, <1>13, <1>14, <1>15, Leaving DEF Now
<1>17. anonFuncByPos' = anonFuncByPos \cup (Literals \cap {n})
  BY <1>1, <1>3
<1>18. Walks(todo', Done \cup {n})
  BY <1>1, <1>16
<1> QED BY <1>1, <1>2, <1>12, <1>17, <1>18, Onward

(* An assignment: its variables come before its nodes. *)
LEMMA StepAssignStmt == ASSUME IInv, AssignStmt PROVE IInv'
<1> DEFINE n == Now.at
           p == [k \in DOMAIN about[n] |-> Item(n, "left", Now.owner, k)]
<1>1. /\ todo # <<>> /\ Now.how = "body" /\ Kind(n) = "assign"
      /\ UNCHANGED <<given, declared, anonFuncByPos, result>>
      /\ todo' = p \o Items(Children(tree, n), "body", Now.owner) \o Tail(todo)
  BY DEF AssignStmt, At, Into
<1>2. /\ IsFile /\ Walks(todo, Done) /\ n \in DOMAIN tree /\ Now.owner \in Nat \X Nat
      /\ Childs /\ Sorts
  BY <1>1, AtItem
<1> HIDE DEF n
<1>3. DOMAIN about[n] = 1 .. Len(about[n]) /\ Len(about[n]) \in Nat
  <2> DEFINE V == LocalVars \cup ForeignVars \cup
                  UNION {{<<s, k>> : k \in 1 .. 2} : s \in NodesOf(tree, {"spec"})}
  <2>1. about[n] \in Seq(V)
    BY <1>1, <1>2, SpecNamesAre
  <2> HIDE DEF V
  <2> QED BY <2>1
<1>4. \A k \in DOMAIN about[n] :
         /\ Item(n, "left", Now.owner, k) \in ItemsHere
         /\ Item(n, "left", Now.owner, k).how = "left"
  BY <1>2, <1>3 DEF Item, ItemsHere, Hows
<1>5. p \in Seq(ItemsHere) /\ \A k \in DOMAIN p : p[k].how = "left"
  BY <1>3, <1>4
<1> HIDE DEF p
<1>6. \A k \in DOMAIN p : p[k].how \in {"name", "left"} /\ ItemOK(p[k], Done \cup {})
  BY <1>5 DEF ItemOK, Inner
<1>7. \A c \in DOMAIN tree : ~(Child(c, n) /\ Kind(c) = "spec")
  BY <1>1, <1>2 DEF Childs, MayStand
<1>8. DeclaresNow(Now, {}) /\ n \notin Declarable
  BY <1>1, <1>2 DEF DeclaresNow, Sorts
<1>9. Walks(p \o Items(Children(tree, Now.at), Now.how, Now.owner) \o Tail(todo), Done \cup {})
  BY <1>1, <1>2, <1>5, <1>6, <1>7, <1>8, GoingOn DEF Now, n
<1>10. Walks(todo', Done \cup {})
  BY <1>1, <1>9 DEF n
<1> QED BY <1>1, <1>10, NothingNew

(* An identifier. *)
LEMMA StepIdent == ASSUME IInv, Ident PROVE IInv'
<1> DEFINE n == Now.at
<1>1. /\ todo # <<>> /\ \/ Now.how = "body" /\ Kind(n) = "use"
                        \/ Now.how = "left" /\ Kind(n) = "assign"
      /\ UNCHANGED <<given, declared, anonFuncByPos, result>>
      /\ todo' = <<>> \o Tail(todo)
  BY DEF Ident, At, Into
<1>2. /\ IsFile /\ Walks(todo, Done) /\ n \in DOMAIN tree /\ Types /\ Sorts
  BY <1>1, AtItem
<1>3. DeclaresNow(Now, {})
  BY DEF DeclaresNow
<1>4. Passes(Now, <<>>, Done, {})
  <2> SUFFICES ASSUME NEW m \in Declarable, Below(n, m), Now.how = "body" PROVE FALSE
    BY <1>1 DEF Passes, Inner
  <2>1. m \in DOMAIN tree /\ m # n
    BY <1>1, <1>2 DEF Sorts
  <2> QED BY <1>1, <1>2, <2>1 DEF Types
<1>5. Claims(Now, <<>>, Done, {})
  BY <1>1, <1>2, ClaimsNothing DEF Now
<1>6. Walks(<<>> \o Tail(todo), Done \cup {})
  BY <1>1, <1>2, <1>3, <1>4, <1>5, Leaving DEF Now
<1> QED BY <1>1, <1>6, NothingNew

(* The end, good or bad. *)
LEMMA StepEnd == ASSUME IInv, Fail \/ Return \/ UNCHANGED vars PROVE IInv'
<1>1. /\ UNCHANGED <<given, declared, anonFuncByPos>>
      /\ \/ todo' = <<>> /\ result' = "error"
         \/ todo = <<>> /\ result = "none" /\ todo' = todo /\ result' = "ok"
         \/ todo' = todo /\ result' = result
  BY DEF Fail, Return, vars
<1>2. /\ IsFile <=> IsFile'
      /\ Literals' = Literals /\ Done' = DoneIn(declared')
      /\ SymbolsIn(declared') => SymbolsIn(declared)'
      /\ Walks(todo', Done') => Walks(todo, Done)'
  BY <1>1, FileStays
<1>3. Done' = Done
  BY <1>1, <1>2 DEF Done
<1>4. Results'
  BY <1>1 DEF IInv, Results
<1>5. (result # "error" => Walks(todo, Done))'
  BY <1>1, <1>2, <1>3 DEF IInv
<1> QED BY <1>1, <1>2, <1>3, <1>4, <1>5 DEF IInv

LEMMA StepIInv == ASSUME IInv, [Next]_vars PROVE IInv'
<1>1. CASE Pass
  BY <1>1, StepPass
<1>2. CASE GenDecl
  BY <1>2, StepGenDecl
<1>3. CASE DeclareName
  BY <1>3, StepDeclareName
<1>4. CASE FuncDecl
  BY <1>4, StepFuncDecl
<1>5. CASE FuncLit
  BY <1>5, StepFuncLit
<1>6. CASE LeaveFuncLit
  BY <1>6, StepLeaveFuncLit
<1>7. CASE InterfaceType
  BY <1>7, StepInterfaceType
<1>8. CASE TypeSpec
  BY <1>8, StepTypeSpec
<1>9. CASE AssignStmt
  BY <1>9, StepAssignStmt
<1>10. CASE Ident
  BY <1>10, StepIdent
<1>11. CASE CallExpr
  BY <1>11, StepCallExpr
<1>12. CASE Fail \/ Return \/ UNCHANGED vars
  BY <1>12, StepEnd
<1> QED BY <1>1, <1>2, <1>3, <1>4, <1>5, <1>6, <1>7, <1>8, <1>9, <1>10, <1>11, <1>12 DEF Next, Over

(* Every node is below the file. *)
LEMMA BelowFile == ASSUME IsFile PROVE \A n \in DOMAIN tree : Below(1, n)
<1> DEFINE N == DOMAIN tree
           W == {n \in N : ~Below(1, n)}
<1>1. Nodes /\ Childs /\ (\A n \in N : n \in Nat) /\ 1 \in N
  BY TreeFacts DEF Nodes
<1> SUFFICES ASSUME W # {} PROVE FALSE
  OBVIOUS
<1>2. PICK n \in W : \A k \in W : n <= k
  <2>1. W \subseteq Nat
    BY <1>1
  <2> HIDE DEF W
  <2> QED BY <2>1, LeastNat
<1>3. n \in N /\ n # 1
  BY <1>2 DEF Below
<1> DEFINE p == tree[n].up
<1>4. p \in N /\ Child(n, p)
  BY <1>1, <1>3 DEF Nodes, Child
<1> HIDE DEF p
<1>5. p < n /\ (Below(1, n) <=> 1 = n \/ Below(1, p))
  BY <1>1, <1>3, <1>4 DEF Childs
<1>6. p \notin W
  BY <1>1, <1>2, <1>3, <1>4, <1>5
<1> QED BY <1>2, <1>4, <1>5, <1>6

LEMMA InitIInv == ASSUME Init PROVE IInv
<1> DEFINE x == [at |-> 1, how |-> "file", owner |-> Package, k |-> 0]
           s == <<x>>
<1>1. /\ \E shape \in Shapes : tree \in TreesOf(shape)
      /\ about \in AllNames(tree)
      /\ todo = s /\ declared = <<>> /\ anonFuncByPos = {} /\ result = "none"
  BY DEF Init, Item
<1>2. IsFile
  BY <1>1 DEF IsFile
<1>3. Nodes /\ Belows /\ Withins /\ Sorts /\ 1 \in DOMAIN tree /\ Kind(1) = "file"
  BY <1>2, TreeFacts, WithinFacts, SortFacts DEF Nodes
<1>4. \A n \in DOMAIN tree : Below(1, n)
  BY <1>2, BelowFile
<1>5. x.at = 1 /\ x.how = "file" /\ x.owner = Package /\ x \in ItemsHere
  BY <1>3 DEF ItemsHere, Hows, Package
<1> HIDE DEF x
<1>6. s \in Seq(ItemsHere) /\ DOMAIN s = {1} /\ s[1] = x
  BY <1>5
<1> HIDE DEF s
<1>7. Done = {} /\ SymbolsIn(declared)
  <2>1. declared \in Seq(Entries) /\ DOMAIN declared = {}
    BY <1>1
  <2> QED BY <2>1 DEF Done, DoneIn, SymbolsIn
<1>8. ItemOK(x, {})
  <2>1. Within(1) = {}
    BY <1>3 DEF Belows, Within
  <2>2. 1 \notin Hidden
    BY <1>3 DEF Sorts
  <2> QED BY <1>5, <2>1, <2>2 DEF ItemOK, Inner
<1>9. ItemsOK(s, {}) /\ FrontsApart(s) /\ Undeclared(s, {}) /\ OutsideFirst({})
  BY <1>6, <1>8 DEF ItemsOK, FrontsApart, Undeclared, OutsideFirst
<1>10. NothingMissed(s, {})
  <2> SUFFICES ASSUME NEW n \in Declarable, Within(n) = {} PROVE Reached(s, {"file"}, n)
    BY DEF NothingMissed
  <2>1. Below(1, n)
    BY <1>3, <1>4 DEF Sorts
  <2> QED BY <1>5, <1>6, <2>1 DEF Reached
<1>11. ClaimsFirst(s, {})
  <2> SUFFICES ASSUME NEW l, NEW m \in DOMAIN tree, LoneName(m, l) PROVE FileAbove(s, m)
    BY DEF ClaimsFirst
  <2>1. m # 1
    BY <1>3 DEF LoneName
  <2>2. 1 \in Above(tree)[m]
    BY <1>4, <2>1 DEF Below
  <2> QED BY <1>5, <1>6, <2>2 DEF FileAbove
<1>12. Walks(todo, Done)
  BY <1>1, <1>7, <1>9, <1>10, <1>11 DEF Walks
<1>13. Results
  BY <1>1 DEF Results
<1> QED BY <1>1, <1>2, <1>7, <1>12, <1>13 DEF IInv

-----------------------------------------------------------------------------
(* When the walk is through, all is declared. *)
LEMMA AllDone == ASSUME IInv, Parsed PROVE Declarable \subseteq Done
<1>1. IsFile /\ todo = <<>> /\ NothingMissed(todo, Done)
  BY DEF IInv, Results, Parsed, Walks
<1>2. Belows /\ Withins /\ Sorts /\ Nodes
  BY <1>1, TreeFacts, WithinFacts, SortFacts
<1>3. \A hows, n : ~Reached(todo, hows, n)
  BY <1>1 DEF Reached
<1> SUFFICES ASSUME Declarable \ Done # {} PROVE FALSE
  OBVIOUS
<1> DEFINE W == Declarable \ Done
<1>4. PICK n \in W : \A k \in W : n <= k
  <2>1. W \subseteq Nat
    BY <1>2 DEF Sorts, Nodes
  <2> HIDE DEF W
  <2> QED BY <2>1, LeastNat DEF W
<1>5. n \in DOMAIN tree /\ n \in Nat
  BY <1>2, <1>4 DEF Sorts, Nodes
<1>6. ASSUME NEW f \in Within(n) PROVE f \in Done
  <2>1. f \in DOMAIN tree /\ f \in Functions /\ f \in Nat
    BY <1>2 DEF Withins, Within, Nodes
  <2>2. f < n
    BY <1>2, <1>5, <2>1 DEF Withins, Belows
  <2>3. f \in Declarable
    BY <1>2, <2>1 DEF Sorts
  <2> QED BY <1>4, <1>5, <2>1, <2>2, <2>3
<1> QED BY <1>1, <1>3, <1>4, <1>6 DEF NothingMissed

(* Each node is declared at most once, and one that is done was declared.  *)
LEMMA DeclaredOnce ==
    ASSUME IInv, NEW n \in Declarable
    PROVE  /\ Cardinality(DeclarationsOf(SymbolOf(n))) <= 1
           /\ n \in Done => DeclarationsOf(SymbolOf(n)) # {}
<1> DEFINE D == DeclarationsOf(SymbolOf(n))
<1>1. \A i, j \in D : i = j
  BY DEF IInv, SymbolsIn, DeclarationsOf
<1>2. n \in Done => D # {}
  BY DEF Done, DoneIn, DeclarationsOf
<1> HIDE DEF D
<1>3. CASE D = {}
  <2>1. Cardinality(D) = 0
    BY <1>3, FS_EmptySet
  <2> QED BY <1>2, <2>1 DEF D
<1>4. CASE D # {}
  <2>1. PICK i \in D : D = {i}
    BY <1>1, <1>4
  <2>2. Cardinality(D) = 1
    BY <2>1, FS_Singleton
  <2> QED BY <1>2, <2>2 DEF D
<1> QED BY <1>3, <1>4

-----------------------------------------------------------------------------
(* The invariant of the walk: two fronts, on each of which nothing is at   *)
(* or below anything else, before what is not declared; and the claims of  *)
(* names before the file's traversal of their specs.                       *)
THEOREM FileWalkInvariant == Spec => []IInv
<1>1. Init => IInv
  BY InitIInv
<1>2. IInv /\ [Next]_vars => IInv'
  BY StepIInv
<1> QED BY <1>1, <1>2, PTL DEF Spec

(* Whichever traversals meet a literal, it is declared under one name, and *)
(* every literal is when Parse returns (valueDeclParser,                   *)
(* functionBodyParser, Parse).                                             *)
THEOREM LiteralsDeclaredOnce == Spec => []LiteralsOnce
<1>1. ASSUME IInv PROVE LiteralsOnce
  <2> SUFFICES ASSUME NEW l \in Literals
               PROVE  /\ Cardinality(DeclarationsOf(<<l, 0>>)) <= 1
                      /\ Parsed => DeclarationsOf(<<l, 0>>) # {}
    BY DEF LiteralsOnce
  <2>1. l \in Functions /\ l \in Declarable
    BY SortFacts DEF Sorts
  <2>2. SymbolOf(l) = <<l, 0>>
    BY <2>1 DEF SymbolOf
  <2>3. Parsed => l \in Done
    BY <1>1, <2>1, AllDone
  <2> QED BY <1>1, <2>1, <2>2, <2>3, DeclaredOnce
<1> QED BY <1>1, FileWalkInvariant, PTL

(* Every interface that a traversal looks at has its methods declared,     *)
(* once, and a hidden one is not declared by accident                      *)
(* (addInterfaceMethods, typeSpecParser).                                  *)
THEOREM InterfacesDeclared == Spec => []InterfacesReached
<1>1. ASSUME IInv PROVE InterfacesReached
  <2>1. ASSUME NEW n \in Interfaces \ Hidden
        PROVE  /\ Cardinality(DeclarationsOf(<<n, 1>>)) <= 1
               /\ Parsed => DeclarationsOf(<<n, 1>>) # {}
    <3>1. n \notin Functions /\ n \in Declarable
      BY SortFacts DEF Sorts
    <3>2. SymbolOf(n) = <<n, 1>>
      BY <3>1 DEF SymbolOf
    <3>3. Parsed => n \in Done
      BY <1>1, <3>1, AllDone
    <3> QED BY <1>1, <3>1, <3>2, <3>3, DeclaredOnce
  <2>2. ASSUME NEW n \in Hidden PROVE Cardinality(DeclarationsOf(<<n, 1>>)) <= 0
    <3>1. n \in Interfaces /\ n \notin Declarable /\ Kind(n) # "spec"
      BY SortFacts DEF Sorts
    <3>2. DeclarationsOf(<<n, 1>>) = {}
      BY <1>1, <3>1 DEF IInv, SymbolsIn, DeclarationsOf
    <3>3. Cardinality({}) = 0
      BY FS_EmptySet
    <3> QED BY <3>2, <3>3
  <2> QED BY <2>1, <2>2 DEF InterfacesReached
<1> QED BY <1>1, FileWalkInvariant, PTL

(* A literal is named after the symbol that it is in in the containment    *)
(* tree, by its stated parent or by its range (funcLitParser, addSymbol).  *)
THEOREM NamesFromPlaces == Spec => []NameAgreesWithPlace
<1>1. IInv => NameAgreesWithPlace
  BY DEF IInv, SymbolsIn, WellPlaced, NameAgreesWithPlace
<1> QED BY <1>1, FileWalkInvariant, PTL
=============================================================================
