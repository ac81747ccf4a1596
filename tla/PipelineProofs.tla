--------------------------- MODULE PipelineProofs ---------------------------
(***************************************************************************)
(* What the command makes of its arguments, for every file system, list of *)
(* arguments and placement of go.mod files.  Each loop has its invariant:  *)
(* what the iterations so far have done; and what a phase has finished     *)
(* holds from then on.                                                     *)
(***************************************************************************)
EXTENDS Pipeline, Lemmas

AfterGit == {"finish", "write", "written"}
AfterModules == {"git"} \cup AfterGit
AfterGroup == {"modules"} \cup AfterModules
AfterRoot == {"group"} \cup AfterGroup
AfterExpand == {"root", "ancestor"} \cup AfterRoot

Inputs == Arguments \cup {[kind |-> "path", path |-> Cwd]}

TypesOK ==
    /\ inputs \in Seq(Inputs) /\ gomods \in ModSets
    /\ phase \in {"start", "expand", "failed"} \cup AfterExpand /\ i \in Nat \ {0}
    /\ resolved \in Seq(Dirs) /\ order \in Seq(Dirs)

(* The first n arguments are expanded. *)
ExpandedTo(n) ==
    /\ ToSet(resolved) = UNION {Named(inputs[k]) : k \in 1 .. n}
    /\ IsInjective(resolved)
    /\ \A a, b \in DOMAIN resolved : a < b => NamedFirst(resolved[a]) <= NamedFirst(resolved[b])
    /\ n # 0 => resolved # <<>>

ExpandOK ==
    /\ phase = "start" => i = 1 /\ resolved = <<>>
    /\ phase = "expand" => inputs # <<>> /\ i <= Len(inputs) + 1 /\ ExpandedTo(i - 1)
    /\ phase \in AfterExpand => inputs # <<>> /\ ExpandedTo(Len(inputs))

(* root holds the first n paths, and whatever holds all of them holds it.  *)
AncestorTo(n) ==
    /\ \A k \in 1 .. n : IsPrefix(root, resolved[k])
    /\ \A d \in Dirs : (\A k \in DOMAIN resolved : IsPrefix(d, resolved[k])) => IsPrefix(d, root)

RootOK ==
    /\ error # "ancestor"
    /\ phase = "ancestor" =>
          rootFlag = NoPath /\ root \in Dirs /\ i <= Len(resolved) + 1 /\ AncestorTo(i - 1)
    /\ phase \in AfterRoot /\ rootFlag = NoPath => AncestorTo(Len(resolved))

(* The first n paths are in the groups of their modules. *)
GroupedTo(n) ==
    /\ IsInjective(order) /\ DOMAIN byRoot = ToSet(order)
    /\ \A k \in 1 .. n : \E r \in ToSet(order) : Nearest(resolved[k], r)
    /\ \A r \in ToSet(order) :
          /\ byRoot[r] \in Seq(Dirs)
          /\ ToSet(byRoot[r]) = {resolved[k] : k \in {l \in 1 .. n : Nearest(resolved[l], r)}}
          /\ InOrderOf(byRoot[r], resolved)

GroupOK ==
    /\ phase \in {"start", "expand", "root", "ancestor"} => order = <<>> /\ byRoot = <<>>
    /\ phase = "group" => i <= Len(resolved) + 1 /\ GroupedTo(i - 1)
    /\ phase \in AfterGroup => GroupedTo(Len(resolved))

(* The files of the first n module roots are in the index. *)
ParsedTo(n) == \A j \in 1 .. n : FilesOf(byRoot[order[j]]) \subseteq DOMAIN objects

IndexOK ==
    /\ phase = "modules" => i <= Len(order) + 1 /\ ParsedTo(i - 1)
    /\ phase \in AfterModules => ParsedTo(Len(order))
    /\ phase \in AfterGit /\ includeGit => \A f \in Files : IsPrefix(RepoRoot, f) => f \in DOMAIN objects

DiskOK ==
    /\ disk = "new" => phase = "written"
    /\ disk = "damaged" => phase = "failed" /\ error = "write"

IInv == TypesOK /\ ExpandOK /\ RootOK /\ GroupOK /\ IndexOK /\ DiskOK

-----------------------------------------------------------------------------
(* Prefixes *)

LEMMA PrefixAt ==
    ASSUME NEW S, NEW a \in Seq(S), NEW b \in Seq(S)
    PROVE  IsPrefix(a, b) <=> Len(a) <= Len(b) /\ \A k \in 1 .. Len(a) : a[k] = b[k]
<1>1. Len(a) \in Nat /\ Len(b) \in Nat /\ DOMAIN a = 1 .. Len(a) /\ DOMAIN b = 1 .. Len(b)
  OBVIOUS
<1>2. SubSeq(a, 1, Len(a)) = a
  OBVIOUS
<1>3. ASSUME Len(a) <= Len(b)
      PROVE  /\ SubSeq(b, 1, Len(a)) \in Seq(S)
             /\ Len(SubSeq(b, 1, Len(a))) = Len(a)
             /\ \A k \in 1 .. Len(a) : SubSeq(b, 1, Len(a))[k] = b[k]
  <2> DEFINE n == Len(a)
  <2>1. n \in 0 .. Len(b)
    BY <1>1, <1>3
  <2> HIDE DEF n
  <2>2. SubSeq(b, 1, n) \in Seq(S) /\ Len(SubSeq(b, 1, n)) = n /\ \A k \in 1 .. n : SubSeq(b, 1, n)[k] = b[k]
    BY <2>1
  <2> QED BY <2>2 DEF n
<1>4. ASSUME Len(a) <= Len(b), \A k \in 1 .. Len(a) : a[k] = b[k] PROVE a = SubSeq(b, 1, Len(a))
  <2> DEFINE c == SubSeq(b, 1, Len(a))
  <2>1. c \in Seq(S) /\ Len(c) = Len(a) /\ \A k \in 1 .. Len(a) : c[k] = a[k]
    BY <1>3, <1>4
  <2> HIDE DEF c
  <2>2. a = c
    BY <1>1, <2>1
  <2> QED BY <2>2 DEF c
<1> QED BY <1>2, <1>3, <1>4 DEF IsPrefix

(* The first n names of a path, its prefixes and its parent directory.     *)
LEMMA FirstNames ==
    ASSUME NEW S, NEW p \in Seq(S), NEW n \in 0 .. Len(p)
    PROVE  /\ SubSeq(p, 1, n) \in Seq(S) /\ Len(SubSeq(p, 1, n)) = n
           /\ \A k \in 1 .. n : SubSeq(p, 1, n)[k] = p[k]
           /\ IsPrefix(SubSeq(p, 1, n), p)
           /\ \A q \in Seq(S) : IsPrefix(q, p) /\ Len(q) = n => q = SubSeq(p, 1, n)
<1> DEFINE c == SubSeq(p, 1, n)
<1>1. c \in Seq(S) /\ Len(c) = n /\ \A k \in 1 .. n : c[k] = p[k]
  OBVIOUS
<1> HIDE DEF c
<1>2. IsPrefix(c, p)
  BY <1>1, PrefixAt
<1>3. ASSUME NEW q \in Seq(S), IsPrefix(q, p), Len(q) = n PROVE q = c
  <2>1. \A k \in 1 .. n : q[k] = p[k]
    BY <1>3, PrefixAt
  <2> QED BY <1>1, <1>3, <2>1
<1> QED BY <1>1, <1>2, <1>3 DEF c

LEMMA PrefixOrder ==
    ASSUME NEW S
    PROVE  /\ \A a \in Seq(S) : IsPrefix(a, a)
           /\ \A a, b, c \in Seq(S) : IsPrefix(a, b) /\ IsPrefix(b, c) => IsPrefix(a, c)
           /\ \A a, b, c \in Seq(S) : IsPrefix(a, c) /\ IsPrefix(b, c) /\ Len(a) <= Len(b) => IsPrefix(a, b)
           /\ \A a, b, c \in Seq(S) : IsPrefix(a, c) /\ IsPrefix(b, c) /\ Len(a) = Len(b) => a = b
<1>1. ASSUME NEW a \in Seq(S) PROVE IsPrefix(a, a)
  BY PrefixAt
<1>2. ASSUME NEW a \in Seq(S), NEW b \in Seq(S), NEW c \in Seq(S), IsPrefix(a, b), IsPrefix(b, c)
      PROVE  IsPrefix(a, c)
  <2>1. Len(a) <= Len(b) /\ Len(b) <= Len(c) /\ Len(a) \in Nat /\ Len(b) \in Nat /\ Len(c) \in Nat
    BY <1>2, PrefixAt
  <2>2. ASSUME NEW k \in 1 .. Len(a) PROVE a[k] = c[k]
    <3>1. k \in 1 .. Len(b)
      BY <2>1
    <3> QED BY <1>2, <3>1, PrefixAt
  <2>3. Len(a) <= Len(c)
    BY <2>1
  <2> QED BY <2>2, <2>3, PrefixAt
<1>3. ASSUME NEW a \in Seq(S), NEW b \in Seq(S), NEW c \in Seq(S), IsPrefix(a, c), IsPrefix(b, c),
             Len(a) <= Len(b)
      PROVE  IsPrefix(a, b)
  <2>1. Len(a) \in Nat /\ Len(b) \in Nat
    OBVIOUS
  <2>2. ASSUME NEW k \in 1 .. Len(a) PROVE a[k] = b[k]
    <3>1. k \in 1 .. Len(b)
      BY <1>3, <2>1
    <3>2. a[k] = c[k] /\ b[k] = c[k]
      BY <1>3, <3>1, PrefixAt
    <3> QED BY <3>2
  <2> QED BY <1>3, <2>2, PrefixAt
<1>4. ASSUME NEW a \in Seq(S), NEW b \in Seq(S), NEW c \in Seq(S), IsPrefix(a, c), IsPrefix(b, c),
             Len(a) = Len(b)
      PROVE  a = b
  <2>1. Len(b) \in 0 .. Len(c)
    <3>1. Len(b) <= Len(c) /\ Len(b) \in Nat /\ Len(c) \in Nat
      BY <1>4, PrefixAt
    <3> QED BY <3>1
  <2> QED BY <1>4, <2>1, FirstNames
<1> QED BY <1>1, <1>2, <1>3, <1>4

(* The longest common prefix of two paths: the longest of their prefixes.  *)
LEMMA LongestLemma ==
    ASSUME NEW S, NEW a \in Seq(S), NEW b \in Seq(S)
    PROVE  /\ LongestCommonPrefix({a, b}) \in Seq(S)
           /\ IsPrefix(LongestCommonPrefix({a, b}), a) /\ IsPrefix(LongestCommonPrefix({a, b}), b)
           /\ \A c \in Seq(S) : IsPrefix(c, a) /\ IsPrefix(c, b) => Len(c) <= Len(LongestCommonPrefix({a, b}))
<1> DEFINE C == CommonPrefixes({a, b})
<1>1. \A x \in {a, b} : \A c \in Prefixes(x) : c \in Seq(S)
  <2>1. \A x \in {a, b} : x \in Seq(S) /\ \A l \in 0 .. Len(x) : SubSeq(x, 1, l) \in Seq(S)
    BY FirstNames
  <2> QED BY <2>1 DEF Prefixes
<1>2. \A c \in C : c \in Seq(S) /\ IsPrefix(c, a) /\ IsPrefix(c, b)
  BY <1>1 DEF CommonPrefixes
<1>3. ASSUME NEW c \in Seq(S), IsPrefix(c, a), IsPrefix(c, b) PROVE c \in C
  <2>1. Len(c) \in 0 .. Len(a)
    <3>1. Len(c) <= Len(a) /\ Len(c) \in Nat /\ Len(a) \in Nat
      BY <1>3, PrefixAt
    <3> QED BY <3>1
  <2>2. c = SubSeq(a, 1, Len(c))
    BY <1>3, <2>1, FirstNames
  <2>3. c \in Prefixes(a)
    BY <2>1, <2>2 DEF Prefixes
  <2> QED BY <1>3, <2>3 DEF CommonPrefixes
<1>4. \E c \in C : \A d \in C : Len(d) <= Len(c)
  <2> DEFINE W == {n \in Nat : \E c \in C : n = Len(a) - Len(c)}
  <2>1. \A c \in C : Len(c) \in Nat /\ Len(a) \in Nat /\ Len(c) <= Len(a) /\ Len(a) - Len(c) \in Nat
    <3> SUFFICES ASSUME NEW c \in C
                 PROVE  Len(c) \in Nat /\ Len(a) \in Nat /\ Len(c) <= Len(a) /\ Len(a) - Len(c) \in Nat
      OBVIOUS
    <3>1. c \in Seq(S) /\ IsPrefix(c, a)
      BY <1>2
    <3>2. Len(c) \in Nat /\ Len(a) \in Nat /\ Len(c) <= Len(a)
      BY <3>1, PrefixAt
    <3> QED BY <3>2
  <2>2. W # {}
    <3> DEFINE e == SubSeq(a, 1, 0)
    <3>1. 0 \in 0 .. Len(a) /\ Len(b) \in Nat
      OBVIOUS
    <3>2. e \in Seq(S) /\ Len(e) = 0
      BY <3>1, FirstNames
    <3> HIDE DEF e
    <3>3. IsPrefix(e, a) /\ IsPrefix(e, b)
      <4>1. Len(e) <= Len(a) /\ Len(e) <= Len(b) /\ \A k \in 1 .. Len(e) : FALSE
        BY <3>1, <3>2
      <4> QED BY <3>2, <4>1, PrefixAt
    <3>4. e \in C
      BY <1>3, <3>2, <3>3
    <3> HIDE DEF C
    <3> QED BY <2>1, <3>4
  <2> HIDE DEF C
  <2>3. PICK n \in W : \A m \in W : n <= m
    BY <2>2, LeastNat
  <2>4. PICK c \in C : n = Len(a) - Len(c)
    BY <2>3
  <2>5. ASSUME NEW d \in C PROVE Len(d) <= Len(c)
    <3>1. n <= Len(a) - Len(d)
      BY <2>1, <2>3
    <3> QED BY <2>1, <2>4, <3>1
  <2> QED BY <2>5
<1>5. LongestCommonPrefix({a, b}) = CHOOSE c \in C : \A d \in C : Len(d) <= Len(c)
  BY DEF LongestCommonPrefix
<1> HIDE DEF C
<1>6. LongestCommonPrefix({a, b}) \in C /\ \A d \in C : Len(d) <= Len(LongestCommonPrefix({a, b}))
  BY <1>4, <1>5
<1> QED BY <1>2, <1>3, <1>6

(* The test with filepath.Rel is whether dir is a prefix.                  *)
LEMMA WithinLemma ==
    ASSUME NEW c \in Seq(STRING), NEW d \in Seq(STRING), \A k \in DOMAIN c : c[k] # ".."
    PROVE  IsWithinDir(c, d) <=> IsPrefix(d, c)
<1> DEFINE L == LongestCommonPrefix({d, c})
           n == Len(L)
           up == [k \in 1 .. Len(d) - n |-> ".."]
           down == SubSeq(c, n + 1, Len(c))
           rel == up \o down
           S == STRING \cup {".."}
<1>0. c \in Seq(S) /\ d \in Seq(S)
  OBVIOUS
<1> HIDE DEF S
<1>1. /\ L \in Seq(S) /\ IsPrefix(L, d) /\ IsPrefix(L, c)
      /\ \A x \in Seq(S) : IsPrefix(x, d) /\ IsPrefix(x, c) => Len(x) <= n
  BY <1>0, LongestLemma
<1> HIDE DEF L
<1>2. n \in Nat /\ Len(d) \in Nat /\ Len(c) \in Nat /\ n <= Len(d) /\ n <= Len(c)
  BY <1>0, <1>1, PrefixAt
<1>3. IsPrefix(d, c) <=> n = Len(d)
  <2>1. ASSUME IsPrefix(d, c) PROVE n = Len(d)
    <3>1. Len(d) <= n
      BY <1>0, <1>1, <2>1, PrefixOrder
    <3> HIDE DEF n
    <3> QED BY <1>2, <3>1
  <2>2. ASSUME n = Len(d) PROVE IsPrefix(d, c)
    <3>1. L = d
      BY <1>0, <1>1, <2>2, PrefixOrder
    <3> QED BY <1>1, <3>1
  <2> QED BY <2>1, <2>2
<1>4. Rel(d, c) = rel
  BY DEF Rel, L
<1> HIDE DEF n
<1>5. up \in Seq(S) /\ Len(up) = Len(d) - n
  <2>1. Len(d) - n \in Nat
    BY <1>2
  <2>2. ".." \in S
    BY DEF S
  <2>3. up \in [1 .. Len(d) - n -> S]
    BY <2>2
  <2> HIDE DEF up
  <2> QED BY <2>1, <2>3
<1>6. down \in Seq(S) /\ Len(down) = Len(c) - n /\ \A k \in 1 .. Len(c) - n : down[k] = c[n + k]
  <2>1. n + 1 \in 1 .. Len(c) + 1
    BY <1>2
  <2> DEFINE m == n + 1
  <2>2. m \in Nat \ {0} /\ m <= Len(c) + 1 /\ n = m - 1
    BY <1>2
  <2> HIDE DEF m
  <2>3. SubSeq(c, m, Len(c)) \in Seq(S) /\ Len(SubSeq(c, m, Len(c))) = Len(c) - m + 1
        /\ \A k \in 1 .. Len(c) - m + 1 : SubSeq(c, m, Len(c))[k] = c[m + k - 1]
    BY <1>0, <2>2
  <2>4. Len(c) - m + 1 = Len(c) - n /\ \A k \in 1 .. Len(c) - n : m + k - 1 = n + k
    BY <1>2, <2>2
  <2> QED BY <2>3, <2>4 DEF m
<1>7. \A k \in 1 .. Len(up) : up[k] = ".."
  BY <1>5
<1> HIDE DEF up, down
<1>8. /\ rel \in Seq(S) /\ Len(rel) = Len(up) + Len(down)
      /\ \A j \in 1 .. Len(up) : rel[j] = up[j]
      /\ \A j \in 1 .. Len(down) : rel[Len(up) + j] = down[j]
  <2>1. up \in Seq(S) /\ down \in Seq(S)
    BY <1>5, <1>6
  <2> QED BY <2>1, ConcatLemma
<1> HIDE DEF rel
<1>9. rel # <<>> => Head(rel) = rel[1] /\ Len(rel) > 0
  BY <1>8
<1>10. CASE n = Len(d)
  <2>1. Len(up) = 0 /\ Len(rel) = Len(c) - n /\ \A j \in 1 .. Len(c) - n : rel[j] = c[n + j]
    <3>1. Len(up) = 0
      BY <1>2, <1>5, <1>10
    <3>2. \A j \in 1 .. Len(down) : Len(up) + j = j
      BY <1>6, <3>1
    <3> QED BY <1>2, <1>6, <1>8, <3>1, <3>2
  <2>2. rel # <<>> => rel[1] # ".."
    <3> SUFFICES ASSUME rel # <<>> PROVE rel[1] # ".."
      OBVIOUS
    <3>1. 1 \in 1 .. Len(c) - n /\ n + 1 \in DOMAIN c
      BY <1>0, <1>2, <1>9, <2>1
    <3> QED BY <2>1, <3>1
  <2> QED BY <1>3, <1>4, <1>9, <1>10, <2>2 DEF IsWithinDir
<1>11. CASE n # Len(d)
  <2>1. 1 \in 1 .. Len(up) /\ Len(rel) > 0
    <3>1. Len(d) - n > 0 /\ Len(c) - n >= 0 /\ Len(d) - n \in Nat /\ Len(c) - n \in Nat
      BY <1>2, <1>11
    <3> QED BY <1>5, <1>6, <1>8, <3>1
  <2>2. rel # <<>> /\ rel[1] = ".."
    BY <1>7, <1>8, <2>1
  <2> QED BY <1>3, <1>4, <1>9, <1>11, <2>2 DEF IsWithinDir
<1> QED BY <1>10, <1>11

-----------------------------------------------------------------------------
(* The loops that are one step of the model *)

(* The paths that are new are added, each once, behind those there are.    *)
LEMMA AddLemma ==
    ASSUME NEW D, NEW s \in Seq(D), IsInjective(s), NEW p \in D
    PROVE  /\ AddPackageDir(s, p) \in Seq(D) /\ IsInjective(AddPackageDir(s, p))
           /\ ToSet(AddPackageDir(s, p)) = ToSet(s) \cup {p}
           /\ \A k \in DOMAIN s : k \in DOMAIN AddPackageDir(s, p) /\ AddPackageDir(s, p)[k] = s[k]
           /\ \A k \in DOMAIN AddPackageDir(s, p) \ DOMAIN s : k \notin DOMAIN s /\ AddPackageDir(s, p)[k] \notin ToSet(s)
<1>1. DOMAIN s = 1 .. Len(s) /\ (Contains(s, p) <=> p \in ToSet(s))
  <2>1. DOMAIN s = 1 .. Len(s)
    OBVIOUS
  <2> QED BY <2>1 DEF Contains, ToSet
<1>2. CASE p \in ToSet(s)
  <2>1. AddPackageDir(s, p) = s
    BY <1>1, <1>2 DEF AddPackageDir
  <2> QED BY <1>2, <2>1
<1>3. CASE p \notin ToSet(s)
  <2> DEFINE t == Append(s, p)
  <2>1. AddPackageDir(s, p) = t
    BY <1>1, <1>3 DEF AddPackageDir
  <2>2. /\ t \in Seq(D) /\ DOMAIN t = DOMAIN s \cup {Len(s) + 1} /\ Len(s) + 1 \notin DOMAIN s
        /\ \A k \in DOMAIN s : t[k] = s[k]
        /\ t[Len(s) + 1] = p /\ ToSet(t) = ToSet(s) \cup {p}
    BY AppendAt, AppendLemma
  <2> HIDE DEF t
  <2>3. \A k \in DOMAIN s : s[k] # p
    BY <1>3 DEF ToSet
  <2>4. IsInjective(t)
    BY <2>2, <2>3 DEF IsInjective
  <2> QED BY <1>3, <2>1, <2>2, <2>4
<1> QED BY <1>2, <1>3

LEMMA AddAllLemma ==
    ASSUME NEW D, NEW s \in Seq(D), IsInjective(s), NEW more \in Seq(D)
    PROVE  LET t == AddPackageDirs(s, more)
           IN  /\ t \in Seq(D) /\ IsInjective(t)
               /\ ToSet(t) = ToSet(s) \cup ToSet(more)
               /\ \A k \in DOMAIN s : k \in DOMAIN t /\ t[k] = s[k]
               /\ \A k \in DOMAIN t \ DOMAIN s : t[k] \notin ToSet(s)
<1> DEFINE n == Len(more)
           I == {t \in Seq(D) : IsInjective(t)}
           Add(k, t) == AddPackageDir(t, more[k])
           step == [k \in Nat |-> [t \in I |-> IF k + 1 <= n THEN Add(k + 1, t) ELSE t]]
           Def(f) == f = [k \in 0 .. n |-> IF k = 0 THEN s ELSE Add(k, f[k - 1])]
           f == CHOOSE f : Def(f)
<1>1. n \in Nat /\ DOMAIN more = 1 .. n /\ (\A k \in 1 .. n : more[k] \in D) /\ s \in I
  OBVIOUS
<1>2. \A k \in 1 .. n, t \in I : Add(k, t) \in I
  BY <1>1, AddLemma
<1>3. IsStep(I, step)
  <2> HIDE DEF Add, I, n
  <2>1. \A k \in Nat : k + 1 <= n => k + 1 \in 1 .. n
    BY <1>1
  <2> QED BY <1>2, <2>1 DEF IsStep
<1>4. PICK g : g \in [Nat -> I] /\ Iterates(g, s, step)
  <2> HIDE DEF step, I
  <2> QED BY <1>1, <1>3, Recursion
<1>5. g \in [Nat -> I] /\ g[0] = s /\ \A k \in Nat : g[k + 1] = step[k][g[k]]
  <2> HIDE DEF step, I
  <2> QED BY <1>4 DEF Iterates
<1>6. ASSUME NEW k \in 1 .. n PROVE g[k] = Add(k, g[k - 1])
  <2> HIDE DEF Add, I
  <2>1. k - 1 \in Nat /\ (k - 1) + 1 = k /\ k <= n
    BY <1>1
  <2>2. g[k - 1] \in I
    BY <1>5, <2>1
  <2>3. g[k] = step[k - 1][g[k - 1]]
    <3> HIDE DEF step
    <3> QED BY <1>5, <2>1
  <2> QED BY <2>1, <2>2, <2>3
<1>7. \E h : Def(h)
  <2> DEFINE h == [k \in 0 .. n |-> g[k]]
  <2>1. \A k \in 0 .. n : h[k] = IF k = 0 THEN s ELSE Add(k, h[k - 1])
    <3> HIDE DEF Add
    <3>1. \A k \in 0 .. n : k # 0 => k \in 1 .. n /\ k - 1 \in 0 .. n
      BY <1>1
    <3> QED BY <1>5, <1>6, <3>1
  <2>2. Def(h)
    <3> HIDE DEF Add
    <3> QED BY <2>1
  <2> HIDE DEF Def
  <2> QED BY <2>2
<1>8. AddPackageDirs(s, more) = f[n]
  BY DEF AddPackageDirs
<1>9. Def(f)
  <2> HIDE DEF Def
  <2> QED BY <1>7
<1>10. f[0] = s /\ \A k \in 1 .. n : f[k] = Add(k, f[k - 1])
  <2> HIDE DEF f, Add
  <2>1. 0 \in 0 .. n /\ \A k \in 1 .. n : k \in 0 .. n /\ k # 0
    BY <1>1
  <2> QED BY <1>9, <2>1
<1> HIDE DEF f, Def, step
<1> DEFINE R(k, t) == /\ t \in Seq(D) /\ IsInjective(t)
                      /\ ToSet(t) = ToSet(s) \cup {more[j] : j \in 1 .. k}
                      /\ \A j \in DOMAIN s : j \in DOMAIN t /\ t[j] = s[j]
                      /\ \A j \in DOMAIN t \ DOMAIN s : t[j] \notin ToSet(s)
           T == {k \in Nat : k <= n => R(k, f[k])}
<1>11. 0 \in T
  <2>1. {more[j] : j \in 1 .. 0} = {}
    OBVIOUS
  <2> QED BY <1>10, <2>1
<1>12. ASSUME NEW k \in Nat, k \in T PROVE k + 1 \in T
  <2> SUFFICES ASSUME k + 1 <= n PROVE R(k + 1, f[k + 1])
    <3> HIDE DEF R
    <3> QED OBVIOUS
  <2> DEFINE t == f[k]
             u == AddPackageDir(t, more[k + 1])
  <2>1. k <= n /\ k + 1 \in 1 .. n /\ (k + 1) - 1 = k
    BY <1>1
  <2>2. R(k, t)
    <3> HIDE DEF R
    <3> QED BY <1>12, <2>1
  <2>3. f[k + 1] = u
    BY <1>10, <2>1
  <2> HIDE DEF t
  <2>4. /\ u \in Seq(D) /\ IsInjective(u)
        /\ ToSet(u) = ToSet(t) \cup {more[k + 1]}
        /\ \A j \in DOMAIN t : j \in DOMAIN u /\ u[j] = t[j]
        /\ \A j \in DOMAIN u \ DOMAIN t : u[j] \notin ToSet(t)
    <3>1. t \in Seq(D) /\ IsInjective(t) /\ more[k + 1] \in D
      BY <1>1, <2>1, <2>2
    <3> QED BY <3>1, AddLemma
  <2> HIDE DEF u
  <2>5. {more[j] : j \in 1 .. k + 1} = {more[j] : j \in 1 .. k} \cup {more[k + 1]}
    <3>1. 1 .. k + 1 = (1 .. k) \cup {k + 1}
      OBVIOUS
    <3> QED BY <3>1
  <2>6. \A j \in DOMAIN s : j \in DOMAIN u /\ u[j] = s[j]
    BY <2>2, <2>4
  <2>7. \A j \in DOMAIN u \ DOMAIN s : u[j] \notin ToSet(s)
    BY <2>2, <2>4
  <2> QED BY <2>2, <2>3, <2>4, <2>5, <2>6, <2>7
<1>13. n \in T
  <2> HIDE DEF T
  <2> QED BY <1>1, <1>11, <1>12, SetInduction
<1>14. R(n, f[n])
  <2> HIDE DEF R
  <2> QED BY <1>1, <1>13
<1>15. ToSet(more) = {more[j] : j \in 1 .. n}
  BY <1>1 DEF ToSet
<1> QED BY <1>8, <1>14, <1>15

(* Going up from p finds the innermost go.mod, if there is one.            *)
LEMMA FindGoModLemma ==
    ASSUME NEW p \in Seq(STRING), gomods \subseteq Seq(STRING), NoPath \notin gomods
    PROVE  /\ FindGoModPath(p) # NoPath => Nearest(p, FindGoModPath(p))
           /\ FindGoModPath(p) = NoPath => \A q \in gomods : ~IsPrefix(q, p)
<1> DEFINE n == Len(p)
           S == Seq(STRING) \cup {NoPath}
           At(k, x) == IF SubSeq(p, 1, k) \in gomods THEN SubSeq(p, 1, k) ELSE x
           step == [k \in Nat |-> [x \in S |-> IF k + 1 <= n THEN At(k + 1, x) ELSE x]]
           Def(f) == f = [k \in 0 .. n |-> IF SubSeq(p, 1, k) \in gomods THEN SubSeq(p, 1, k)
                                            ELSE IF k = 0 THEN NoPath ELSE f[k - 1]]
           f == CHOOSE f : Def(f)
<1>1. n \in Nat
  OBVIOUS
<1>2. \A k \in 0 .. n, x \in S : At(k, x) \in S
  OBVIOUS
<1>3. IsStep(S, step) /\ At(0, NoPath) \in S
  <2>1. \A k \in Nat : k + 1 <= n => k + 1 \in 0 .. n
    BY <1>1
  <2>2. NoPath \in S /\ 0 \in 0 .. n
    BY <1>1
  <2> HIDE DEF At, S, n
  <2> QED BY <1>2, <2>1, <2>2 DEF IsStep
<1>4. PICK g : g \in [Nat -> S] /\ Iterates(g, At(0, NoPath), step)
  <2> HIDE DEF step, S, At
  <2> QED BY <1>3, Recursion
<1>5. g \in [Nat -> S] /\ g[0] = At(0, NoPath) /\ \A k \in Nat : g[k + 1] = step[k][g[k]]
  <2> HIDE DEF step, S, At
  <2> QED BY <1>4 DEF Iterates
<1>6. ASSUME NEW k \in 1 .. n PROVE g[k] = At(k, g[k - 1])
  <2> HIDE DEF At, S
  <2>1. k - 1 \in Nat /\ (k - 1) + 1 = k /\ k <= n
    BY <1>1
  <2>2. g[k - 1] \in S
    BY <1>5, <2>1
  <2>3. g[k] = step[k - 1][g[k - 1]]
    <3> HIDE DEF step
    <3> QED BY <1>5, <2>1
  <2> QED BY <2>1, <2>2, <2>3
<1>7. \E h : Def(h)
  <2> DEFINE h == [k \in 0 .. n |-> g[k]]
  <2>1. \A k \in 0 .. n : h[k] = IF SubSeq(p, 1, k) \in gomods THEN SubSeq(p, 1, k)
                                 ELSE IF k = 0 THEN NoPath ELSE h[k - 1]
    <3>1. \A k \in 0 .. n : k # 0 => k \in 1 .. n /\ k - 1 \in 0 .. n
      BY <1>1
    <3> HIDE DEF n
    <3> QED BY <1>5, <1>6, <3>1
  <2>2. Def(h)
    <3> HIDE DEF n
    <3> QED BY <2>1
  <2> HIDE DEF Def
  <2> QED BY <2>2
<1>8. FindGoModPath(p) = f[n]
  BY DEF FindGoModPath
<1>9. Def(f)
  <2> HIDE DEF Def
  <2> QED BY <1>7
<1>10. \A k \in 0 .. n : f[k] = IF SubSeq(p, 1, k) \in gomods THEN SubSeq(p, 1, k)
                                ELSE IF k = 0 THEN NoPath ELSE f[k - 1]
  <2> HIDE DEF f, n
  <2> QED BY <1>9
<1> HIDE DEF f, Def, step, S, At
<1> DEFINE R(k, r) == \/ /\ r \in gomods /\ IsPrefix(r, p)
                         /\ \A q \in gomods : IsPrefix(q, p) /\ Len(q) <= k => Len(q) <= Len(r)
                      \/ r = NoPath /\ \A q \in gomods : ~(IsPrefix(q, p) /\ Len(q) <= k)
           T == {k \in Nat : k <= n => R(k, f[k])}
<1>11. ASSUME NEW k \in 0 .. n, SubSeq(p, 1, k) \in gomods PROVE R(k, f[k])
  <2>1. f[k] = SubSeq(p, 1, k)
    BY <1>10, <1>11
  <2> QED BY <1>11, <2>1, FirstNames
<1>12. ASSUME NEW k \in 0 .. n, SubSeq(p, 1, k) \notin gomods
       PROVE  \A q \in gomods : IsPrefix(q, p) /\ Len(q) <= k => Len(q) <= k - 1
  <2> SUFFICES ASSUME NEW q \in gomods, IsPrefix(q, p), Len(q) <= k PROVE Len(q) <= k - 1
    OBVIOUS
  <2>1. q \in Seq(STRING) /\ Len(q) \in Nat
    OBVIOUS
  <2>2. Len(q) # k
    BY <1>12, <2>1, FirstNames
  <2> HIDE DEF n
  <2> QED BY <1>1, <2>1, <2>2
<1>13. 0 \in T
  <2>1. 0 \in 0 .. n
    BY <1>1
  <2> SUFFICES R(0, f[0])
    <3> HIDE DEF R
    <3> QED OBVIOUS
  <2>2. CASE SubSeq(p, 1, 0) \in gomods
    <3> HIDE DEF R
    <3> QED BY <1>11, <2>1, <2>2
  <2>3. CASE SubSeq(p, 1, 0) \notin gomods
    <3>1. f[0] = NoPath
      BY <1>10, <2>1, <2>3
    <3>2. \A q \in gomods : Len(q) \in Nat
      OBVIOUS
    <3>3. \A q \in gomods : ~(IsPrefix(q, p) /\ Len(q) <= 0)
      BY <1>12, <2>1, <2>3, <3>2
    <3> QED BY <3>1, <3>3
  <2> QED BY <2>2, <2>3
<1>14. ASSUME NEW k \in Nat, k \in T PROVE k + 1 \in T
  <2> SUFFICES ASSUME k + 1 <= n PROVE R(k + 1, f[k + 1])
    <3> HIDE DEF R
    <3> QED OBVIOUS
  <2>1. k <= n /\ k + 1 \in 0 .. n /\ (k + 1) - 1 = k /\ k + 1 # 0
    BY <1>1
  <2>2. R(k, f[k])
    <3> HIDE DEF R
    <3> QED BY <1>14, <2>1
  <2>3. CASE SubSeq(p, 1, k + 1) \in gomods
    <3> HIDE DEF R
    <3> QED BY <1>11, <2>1, <2>3
  <2>4. CASE SubSeq(p, 1, k + 1) \notin gomods
    <3>1. f[k + 1] = f[k]
      BY <1>10, <2>1, <2>4
    <3>2. \A q \in gomods : IsPrefix(q, p) /\ Len(q) <= k + 1 => Len(q) <= k
      BY <1>12, <2>1, <2>4
    <3> QED BY <2>2, <3>1, <3>2
  <2> QED BY <2>3, <2>4
<1>15. R(n, f[n])
  <2>1. n \in T
    <3> HIDE DEF T
    <3> QED BY <1>1, <1>13, <1>14, SetInduction
  <2> HIDE DEF R
  <2> QED BY <1>1, <2>1
<1>16. \A q \in gomods : IsPrefix(q, p) => Len(q) <= n
  BY PrefixAt
<1> QED BY <1>8, <1>15, <1>16 DEF Nearest

-----------------------------------------------------------------------------
(* The invariant is inductive *)

LEMMA DirFacts ==
    /\ Dirs \subseteq Seq(STRING) /\ IsFiniteSet(Dirs) /\ NoPath \notin Dirs
    /\ \A p \in Dirs : \A k \in DOMAIN p : p[k] # ".."
    /\ \A p \in Dirs : p # <<>> => Front(p) \in Dirs
    /\ \A f \in Files : f \in Seq(STRING)
    /\ \A mods \in ModSets : mods \subseteq Dirs
    /\ Cwd \in Dirs
  BY FileSystem

LEMMA InitLemma == Init => IInv
<1> SUFFICES ASSUME Init PROVE IInv
  OBVIOUS
<1>1. /\ gomods \in ModSets /\ phase = "start" /\ i = 1 /\ resolved = <<>>
      /\ order = <<>> /\ byRoot = <<>> /\ disk = "old" /\ error = "none"
  BY DEF Init
<1>2. inputs \in Seq(Inputs)
  <2>1. PICK m \in 0 .. MaxArguments : inputs \in [1 .. m -> Arguments]
    BY DEF Init, SeqOf
  <2>2. m \in Nat /\ Arguments \subseteq Inputs
    BY <2>1 DEF Inputs
  <2>3. inputs \in [1 .. m -> Inputs]
    BY <2>1, <2>2
  <2> HIDE DEF Inputs
  <2> QED BY <2>2, <2>3
<1>3. TypesOK
  BY <1>1, <1>2 DEF TypesOK
<1> QED BY <1>1, <1>3 DEF IInv, ExpandOK, RootOK, GroupOK, IndexOK, DiskOK,
           AfterExpand, AfterRoot, AfterGroup, AfterModules, AfterGit

(* What an iteration or a phase has done stays done.                       *)
LEMMA Frame ==
    /\ inputs' = inputs /\ resolved' = resolved => \A n : ExpandedTo(n) => ExpandedTo(n)'
    /\ resolved' = resolved /\ root' = root => \A n : AncestorTo(n) => AncestorTo(n)'
    /\ resolved' = resolved /\ order' = order /\ byRoot' = byRoot /\ gomods' = gomods =>
          \A n : GroupedTo(n) => GroupedTo(n)'
    /\ order' = order /\ byRoot' = byRoot /\ DOMAIN objects \subseteq DOMAIN objects' =>
          \A n : ParsedTo(n) => ParsedTo(n)'
<1>1. ASSUME inputs' = inputs, resolved' = resolved, NEW n, ExpandedTo(n) PROVE ExpandedTo(n)'
  BY <1>1 DEF ExpandedTo, Named, NamedFirst
<1>2. ASSUME resolved' = resolved, root' = root, NEW n, AncestorTo(n) PROVE AncestorTo(n)'
  BY <1>2 DEF AncestorTo
<1>3. ASSUME resolved' = resolved, order' = order, byRoot' = byRoot, gomods' = gomods, NEW n, GroupedTo(n)
      PROVE  GroupedTo(n)'
  <2>1. \A x, r : Nearest(x, r)' <=> Nearest(x, r)
    BY <1>3 DEF Nearest
  <2> QED BY <1>3, <2>1 DEF GroupedTo
<1>4. ASSUME order' = order, byRoot' = byRoot, DOMAIN objects \subseteq DOMAIN objects', NEW n, ParsedTo(n)
      PROVE  ParsedTo(n)'
  BY <1>4 DEF ParsedTo
<1> QED BY <1>1, <1>2, <1>3, <1>4

(* A step between two phases, or one that only counts.                     *)
LEMMA MoveLemma ==
    ASSUME IInv, given' = given, resolved' = resolved, root' = root, order' = order, byRoot' = byRoot,
           DOMAIN objects \subseteq DOMAIN objects', disk' = disk, error' = error, i' \in Nat \ {0},
           \/ phase = "expand" /\ i > Len(inputs) /\ phase' = "root" /\ i' = i
           \/ phase = "ancestor" /\ i <= Len(resolved) /\ IsPrefix(root, resolved[i])
              /\ phase' = phase /\ i' = i + 1
           \/ phase = "ancestor" /\ i > Len(resolved) /\ phase' = "group" /\ i' = 1
           \/ phase = "group" /\ i > Len(resolved) /\ phase' = "modules" /\ i' = 1
           \/ phase = "modules" /\ i > Len(order) /\ phase' = IF includeGit THEN "git" ELSE "finish"
           \/ phase = "finish" /\ phase' = "write"
           \/ phase' = phase /\ i' = i
    PROVE  IInv'
<1>1. /\ inputs' = inputs /\ rootFlag' = rootFlag /\ includeGit' = includeGit /\ gomods' = gomods
  BY DEF given
<1>2. /\ TypesOK /\ ExpandOK /\ RootOK /\ GroupOK /\ IndexOK /\ DiskOK
      /\ Len(inputs) \in Nat /\ Len(resolved) \in Nat /\ Len(order) \in Nat /\ i \in Nat \ {0}
  <2>1. /\ TypesOK /\ ExpandOK /\ RootOK /\ GroupOK /\ IndexOK /\ DiskOK
    BY DEF IInv
  <2> QED BY <2>1 DEF TypesOK
<1>3. TypesOK'
  BY <1>1, <1>2 DEF TypesOK, AfterExpand, AfterRoot, AfterGroup, AfterModules, AfterGit
<1>4. ExpandOK'
  <2>1. \A n : ExpandedTo(n) => ExpandedTo(n)'
    BY <1>1, Frame
  <2>2. phase = "expand" /\ i > Len(inputs) => i - 1 = Len(inputs)
    BY <1>2 DEF ExpandOK
  <2>3. (phase' = "start" => phase = "start" /\ i' = i) /\ (phase' = "expand" => phase = "expand" /\ i' = i)
        /\ (phase' \in AfterExpand => phase \in AfterExpand \/ (phase = "expand" /\ i > Len(inputs)))
    BY DEF AfterExpand, AfterRoot, AfterGroup, AfterModules, AfterGit
  <2> QED BY <1>1, <1>2, <2>1, <2>2, <2>3 DEF ExpandOK
<1>5. RootOK'
  <2>1. \A n : AncestorTo(n) => AncestorTo(n)'
    BY Frame
  <2>2. phase = "ancestor" /\ i > Len(resolved) => i - 1 = Len(resolved)
    BY <1>2 DEF RootOK
  <2>3. ASSUME phase = "ancestor", i <= Len(resolved), IsPrefix(root, resolved[i]) PROVE AncestorTo(i)
    <3>1. 1 .. i = (1 .. i - 1) \cup {i}
      BY <1>2, <2>3
    <3> QED BY <1>2, <2>3, <3>1 DEF RootOK, AncestorTo
  <2>4. phase' = "ancestor" =>
           \/ phase = "ancestor" /\ i' = i
           \/ phase = "ancestor" /\ i <= Len(resolved) /\ IsPrefix(root, resolved[i]) /\ i' = i + 1
    OBVIOUS
  <2>5. phase' \in AfterRoot => phase \in AfterRoot \/ (phase = "ancestor" /\ i > Len(resolved))
    BY DEF AfterRoot, AfterGroup, AfterModules, AfterGit
  <2>6. (i + 1) - 1 = i
    BY <1>2
  <2>7. phase' = "ancestor" => rootFlag' = NoPath /\ root' \in Dirs /\ i' <= Len(resolved') + 1 /\ AncestorTo(i - 1)'
    BY <1>1, <1>2, <2>1, <2>3, <2>4, <2>6 DEF RootOK
  <2>8. phase' \in AfterRoot /\ rootFlag' = NoPath => AncestorTo(Len(resolved))'
    BY <1>1, <1>2, <2>1, <2>2, <2>5 DEF RootOK
  <2> QED BY <1>2, <2>7, <2>8 DEF RootOK
<1>6. GroupOK'
  <2>1. \A n : GroupedTo(n) => GroupedTo(n)'
    BY <1>1, Frame
  <2>2. phase = "group" /\ i > Len(resolved) => i - 1 = Len(resolved)
    BY <1>2 DEF GroupOK
  <2>3. phase' \in {"start", "expand", "root", "ancestor"} => phase \in {"start", "expand", "root", "ancestor"}
    OBVIOUS
  <2>4. phase' = "group" => (phase = "group" /\ i' = i) \/ (phase = "ancestor" /\ i' = 1)
    OBVIOUS
  <2>5. phase' \in AfterGroup => phase \in AfterGroup \/ (phase = "group" /\ i > Len(resolved))
    BY DEF AfterGroup, AfterModules, AfterGit
  <2>6. ASSUME phase = "ancestor" PROVE GroupedTo(0)
    <3>1. order = <<>> /\ byRoot = <<>>
      BY <1>2, <2>6 DEF GroupOK
    <3> QED BY <3>1, EmptyLemma DEF GroupedTo, IsInjective
  <2>7. 1 - 1 = 0 /\ 1 <= Len(resolved) + 1
    BY <1>2
  <2>8. phase' = "group" => i' <= Len(resolved') + 1 /\ GroupedTo(i - 1)'
    BY <1>2, <2>1, <2>4, <2>6, <2>7 DEF GroupOK
  <2>9. phase' \in AfterGroup => GroupedTo(Len(resolved))'
    BY <1>2, <2>1, <2>2, <2>5 DEF GroupOK
  <2> QED BY <1>2, <2>3, <2>8, <2>9 DEF GroupOK
<1>7. IndexOK'
  <2>1. \A n : ParsedTo(n) => ParsedTo(n)'
    BY Frame
  <2>2. phase = "modules" /\ i > Len(order) => i - 1 = Len(order)
    BY <1>2 DEF IndexOK
  <2>3. phase' = "modules" => (phase = "modules" /\ i' = i) \/ (phase = "group" /\ i' = 1)
    OBVIOUS
  <2>4. phase' \in AfterModules => phase \in AfterModules \/ (phase = "modules" /\ i > Len(order))
    BY DEF AfterModules, AfterGit
  <2>5. phase' \in AfterGit => phase \in AfterGit \/ ~includeGit
    BY DEF AfterGit
  <2>6. ParsedTo(0) /\ 1 - 1 = 0 /\ 1 <= Len(order) + 1
    BY <1>2 DEF ParsedTo
  <2>7. phase' = "modules" => i' <= Len(order') + 1 /\ ParsedTo(i - 1)'
    BY <1>2, <2>1, <2>3, <2>6 DEF IndexOK
  <2>8. phase' \in AfterModules => ParsedTo(Len(order))'
    BY <1>2, <2>1, <2>2, <2>4 DEF IndexOK
  <2>9. phase' \in AfterGit /\ includeGit' => \A f \in Files : IsPrefix(RepoRoot, f) => f \in DOMAIN objects'
    BY <1>1, <1>2, <2>5 DEF IndexOK
  <2> QED BY <2>7, <2>8, <2>9 DEF IndexOK
<1>8. DiskOK'
  BY <1>2 DEF DiskOK
<1> QED BY <1>3, <1>4, <1>5, <1>6, <1>7, <1>8 DEF IInv

(* An error leaves everything as it is, the old file too.                  *)
LEMMA FailKeeps ==
    ASSUME IInv, phase \notin {"written", "failed"}, NEW why, why # "ancestor", Fail(why)
    PROVE  IInv'
<1>1. /\ phase' = "failed" /\ error' = why /\ disk' = disk
      /\ inputs' = inputs /\ gomods' = gomods /\ i' = i /\ resolved' = resolved /\ order' = order
  BY DEF Fail, given
<1>2. "failed" \notin AfterExpand /\ "failed" \notin AfterRoot /\ "failed" \notin AfterGroup
      /\ "failed" \notin AfterModules /\ "failed" \notin AfterGit
  BY DEF AfterExpand, AfterRoot, AfterGroup, AfterModules, AfterGit
<1>3. TypesOK'
  BY <1>1 DEF IInv, TypesOK
<1>4. DiskOK'
  BY <1>1 DEF IInv, DiskOK
<1> QED BY <1>1, <1>2, <1>3, <1>4 DEF IInv, ExpandOK, RootOK, GroupOK, IndexOK

(* The first argument that names a path. *)
LEMMA NamedFirstLemma ==
    ASSUME NEW p, inputs \in Seq(Inputs), NEW k \in 1 .. Len(inputs), p \in Named(inputs[k])
    PROVE  /\ NamedFirst(p) \in 1 .. k /\ p \in Named(inputs[NamedFirst(p)])
           /\ \A l \in 1 .. NamedFirst(p) - 1 : p \notin Named(inputs[l])
<1> DEFINE T == {n \in Nat : n \in 1 .. Len(inputs) /\ p \in Named(inputs[n])}
           Good(n) == p \in Named(inputs[n]) /\ \A l \in 1 .. n - 1 : p \notin Named(inputs[l])
<1>1. Len(inputs) \in Nat /\ DOMAIN inputs = 1 .. Len(inputs) /\ k \in Nat
  OBVIOUS
<1>2. k \in T
  BY <1>1
<1>3. PICK n \in T : \A m \in T : n <= m
  BY <1>2, LeastNat
<1>4. \A l \in 1 .. n - 1 : l \notin T /\ l \in Nat /\ l \in 1 .. Len(inputs)
  <2> SUFFICES ASSUME NEW l \in 1 .. n - 1 PROVE l \notin T /\ l \in Nat /\ l \in 1 .. Len(inputs)
    OBVIOUS
  <2>1. n \in Nat /\ n <= Len(inputs)
    BY <1>1, <1>3
  <2>2. l \in Nat /\ l < n /\ l \in 1 .. Len(inputs)
    BY <1>1, <2>1
  <2> HIDE DEF T
  <2> QED BY <1>3, <2>1, <2>2
<1>5. n \in DOMAIN inputs /\ Good(n)
  BY <1>1, <1>3, <1>4
<1>6. NamedFirst(p) = CHOOSE m \in DOMAIN inputs : Good(m)
  BY DEF NamedFirst
<1>7. NamedFirst(p) \in DOMAIN inputs /\ Good(NamedFirst(p))
  <2> HIDE DEF Good
  <2> QED BY <1>5, <1>6
<1>8. NamedFirst(p) <= k
  <2>1. ASSUME k < NamedFirst(p) PROVE FALSE
    <3>1. k \in 1 .. NamedFirst(p) - 1
      BY <1>1, <1>7, <2>1
    <3> QED BY <1>7, <3>1
  <2> QED BY <1>1, <1>7, <2>1
<1> QED BY <1>1, <1>7, <1>8

(* An iteration over the arguments.                                        *)
LEMMA ExpandKeeps ==
    ASSUME IInv, phase = "expand", i <= Len(inputs), Named(inputs[i]) # {},
           NEW t \in Seq(Dirs), IsInjective(t), ToSet(t) = ToSet(resolved) \cup Named(inputs[i]),
           \A k \in DOMAIN resolved : k \in DOMAIN t /\ t[k] = resolved[k],
           \A k \in DOMAIN t \ DOMAIN resolved : t[k] \notin ToSet(resolved),
           Expanded(t)
    PROVE  IInv'
<1>1. /\ inputs' = inputs /\ rootFlag' = rootFlag /\ gomods' = gomods /\ phase' = "expand" /\ i' = i + 1
      /\ resolved' = t /\ order' = order /\ byRoot' = byRoot /\ disk' = disk /\ error' = error
  BY DEF Expanded, given
<1>2. /\ TypesOK /\ inputs \in Seq(Inputs) /\ i \in Nat \ {0} /\ i \in 1 .. Len(inputs)
      /\ Len(inputs) \in Nat /\ resolved \in Seq(Dirs)
  BY DEF IInv, TypesOK
<1>3. /\ ToSet(resolved) = UNION {Named(inputs[k]) : k \in 1 .. i - 1}
      /\ \A a, b \in DOMAIN resolved : a < b => NamedFirst(resolved[a]) <= NamedFirst(resolved[b])
  BY DEF IInv, ExpandOK, ExpandedTo
<1>4. ToSet(t) = UNION {Named(inputs[k]) : k \in 1 .. i}
  <2>1. 1 .. i = (1 .. i - 1) \cup {i}
    BY <1>2
  <2> QED BY <1>3, <2>1
<1>5. \A p \in ToSet(t) : NamedFirst(p) \in 1 .. i
  <2> SUFFICES ASSUME NEW p \in ToSet(t) PROVE NamedFirst(p) \in 1 .. i
    OBVIOUS
  <2>1. PICK k \in 1 .. i : p \in Named(inputs[k])
    BY <1>4
  <2>2. k \in 1 .. Len(inputs)
    BY <1>2
  <2>3. NamedFirst(p) \in 1 .. k
    BY <1>2, <2>1, <2>2, NamedFirstLemma
  <2> QED BY <1>2, <2>2, <2>3
<1>6. \A p \in ToSet(t) \ ToSet(resolved) : NamedFirst(p) = i
  <2> SUFFICES ASSUME NEW p \in ToSet(t), p \notin ToSet(resolved) PROVE NamedFirst(p) = i
    OBVIOUS
  <2>1. NamedFirst(p) \in 1 .. i /\ p \in Named(inputs[i])
    BY <1>5
  <2>2. p \in Named(inputs[NamedFirst(p)])
    BY <1>2, <2>1, NamedFirstLemma
  <2>3. NamedFirst(p) \notin 1 .. i - 1
    BY <1>3, <2>2
  <2> QED BY <1>2, <2>1, <2>3
<1>7. \A a, b \in DOMAIN t : a < b => NamedFirst(t[a]) <= NamedFirst(t[b])
  <2> SUFFICES ASSUME NEW a \in DOMAIN t, NEW b \in DOMAIN t, a < b
               PROVE  NamedFirst(t[a]) <= NamedFirst(t[b])
    OBVIOUS
  <2>1. t[a] \in ToSet(t) /\ t[b] \in ToSet(t)
    BY DEF ToSet
  <2>2. CASE b \in DOMAIN resolved
    <3>1. a \in DOMAIN resolved
      BY <1>2, <2>2
    <3> QED BY <1>3, <2>2, <3>1
  <2>3. CASE b \notin DOMAIN resolved
    BY <1>2, <1>5, <1>6, <2>1, <2>3
  <2> QED BY <2>2, <2>3
<1>8. t # <<>>
  BY EmptyLemma
<1>9. TypesOK'
  BY <1>1, <1>2 DEF TypesOK
<1>10. ExpandOK'
  <2>1. \A p : NamedFirst(p)' = NamedFirst(p)
    BY <1>1 DEF NamedFirst, Named
  <2>2. \A k : Named(inputs[k])' = Named(inputs[k])
    BY <1>1 DEF Named
  <2>3. i' - 1 = i /\ i' <= Len(inputs') + 1
    BY <1>1, <1>2
  <2>4. ExpandedTo(i - 1)'
    <3>1. (ToSet(resolved) = UNION {Named(inputs[k]) : k \in 1 .. i - 1})'
      BY <1>1, <1>4, <2>2, <2>3
    <3>2. (\A a, b \in DOMAIN resolved : a < b => NamedFirst(resolved[a]) <= NamedFirst(resolved[b]))'
      BY <1>1, <1>7, <2>1
    <3>3. IsInjective(resolved)' /\ resolved' # <<>>
      BY <1>1, <1>8
    <3> QED BY <3>1, <3>2, <3>3 DEF ExpandedTo
  <2>5. inputs # <<>>
    BY DEF IInv, ExpandOK
  <2>6. "expand" \notin AfterExpand
    BY DEF AfterExpand, AfterRoot, AfterGroup, AfterModules, AfterGit
  <2> QED BY <1>1, <2>3, <2>4, <2>5, <2>6 DEF ExpandOK
<1>11. RootOK' /\ GroupOK' /\ IndexOK' /\ DiskOK'
  BY <1>1 DEF IInv, RootOK, GroupOK, IndexOK, DiskOK, AfterRoot, AfterGroup, AfterModules, AfterGit
<1> QED BY <1>9, <1>10, <1>11 DEF IInv

LEMMA StartKeeps == IInv /\ Start => IInv'
<1> SUFFICES ASSUME IInv, Start PROVE IInv'
  OBVIOUS
<1> DEFINE this == [kind |-> "path", path |-> Cwd]
<1>1. /\ phase = "start" /\ phase' = "expand" /\ i' = i /\ gomods' = gomods /\ rootFlag' = rootFlag
      /\ inputs' = IF inputs = <<>> THEN <<this>> ELSE inputs
      /\ resolved' = resolved /\ order' = order /\ byRoot' = byRoot /\ disk' = disk /\ error' = error
  BY DEF Start
<1>2. TypesOK /\ i = 1 /\ resolved = <<>>
  BY <1>1 DEF IInv, ExpandOK
<1>3. inputs' \in Seq(Inputs) /\ inputs' # <<>>
  <2>1. this \in Inputs
    BY DEF Inputs
  <2> HIDE DEF this
  <2>2. <<this>> \in Seq(Inputs) /\ <<this>> # <<>>
    BY <2>1
  <2> QED BY <1>1, <1>2, <2>2 DEF TypesOK
<1>4. TypesOK'
  BY <1>1, <1>2, <1>3 DEF TypesOK
<1>5. ExpandOK'
  <2>1. i' - 1 = 0 /\ i' <= Len(inputs') + 1
    BY <1>1, <1>2, <1>3
  <2>2. ExpandedTo(i - 1)'
    BY <1>1, <1>2, <2>1, EmptyLemma DEF ExpandedTo, IsInjective
  <2>3. "expand" \notin AfterExpand
    BY DEF AfterExpand, AfterRoot, AfterGroup, AfterModules, AfterGit
  <2> QED BY <1>1, <1>3, <2>1, <2>2, <2>3 DEF ExpandOK
<1>6. RootOK' /\ GroupOK' /\ IndexOK' /\ DiskOK'
  BY <1>1 DEF IInv, RootOK, GroupOK, IndexOK, DiskOK, AfterRoot, AfterGroup, AfterModules, AfterGit
<1> QED BY <1>4, <1>5, <1>6 DEF IInv

LEMMA ExpandPathKeeps == IInv /\ ExpandPath => IInv'
<1> SUFFICES ASSUME IInv, ExpandPath PROVE IInv'
  OBVIOUS
<1> DEFINE p == Abs(inputs[i].path)
           t == AddPackageDir(resolved, p)
<1>1. phase = "expand" /\ i <= Len(inputs) /\ inputs[i].kind = "path"
      /\ IF p \in Dirs THEN Expanded(t) ELSE Fail("path")
  BY DEF ExpandPath
<1>2. Named(inputs[i]) = {p}
  BY <1>1 DEF Named
<1>3. resolved \in Seq(Dirs) /\ IsInjective(resolved)
  BY <1>1 DEF IInv, TypesOK, ExpandOK, ExpandedTo
<1> HIDE DEF p
<1>4. CASE p \in Dirs
  <2>1. /\ t \in Seq(Dirs) /\ IsInjective(t) /\ ToSet(t) = ToSet(resolved) \cup {p}
        /\ \A k \in DOMAIN resolved : k \in DOMAIN t /\ t[k] = resolved[k]
        /\ \A k \in DOMAIN t \ DOMAIN resolved : t[k] \notin ToSet(resolved)
    BY <1>3, <1>4, AddLemma
  <2>2. Expanded(t)
    BY <1>1, <1>4
  <2> HIDE DEF t
  <2> QED BY <1>1, <1>2, <2>1, <2>2, ExpandKeeps
<1>5. CASE p \notin Dirs
  BY <1>1, <1>5, FailKeeps
<1> QED BY <1>4, <1>5

LEMMA ExpandGlobKeeps == IInv /\ ExpandGlob => IInv'
<1> SUFFICES ASSUME IInv, ExpandGlob PROVE IInv'
  OBVIOUS
<1> DEFINE matches == Children(Abs(inputs[i].path)) \cap Dirs
<1>1. phase = "expand" /\ i <= Len(inputs) /\ inputs[i].kind = "glob"
      /\ IF matches = {} THEN Fail("glob")
         ELSE \E sorted \in SetToSeqs(matches) : Expanded(AddPackageDirs(resolved, sorted))
  BY DEF ExpandGlob
<1>2. Named(inputs[i]) = matches
  BY <1>1 DEF Named, Children
<1>3. resolved \in Seq(Dirs) /\ IsInjective(resolved)
  BY <1>1 DEF IInv, TypesOK, ExpandOK, ExpandedTo
<1>4. matches \subseteq Dirs /\ IsFiniteSet(matches)
  BY DirFacts, FS_Subset
<1> HIDE DEF matches
<1>5. CASE matches = {}
  BY <1>1, <1>5, FailKeeps
<1>6. CASE matches # {}
  <2>1. PICK sorted \in SetToSeqs(matches) : Expanded(AddPackageDirs(resolved, sorted))
    BY <1>1, <1>6
  <2>2. sorted \in Seq(Dirs) /\ ToSet(sorted) = matches
    <3>1. sorted \in Seq(matches) /\ Enumerates(sorted, matches)
      BY <1>4, ListingLemma
    <3>2. ToSet(sorted) = matches
      BY <3>1 DEF Enumerates, ToSet
    <3> QED BY <1>4, <3>1, <3>2
  <2> DEFINE t == AddPackageDirs(resolved, sorted)
  <2>3. /\ t \in Seq(Dirs) /\ IsInjective(t) /\ ToSet(t) = ToSet(resolved) \cup matches
        /\ \A k \in DOMAIN resolved : k \in DOMAIN t /\ t[k] = resolved[k]
        /\ \A k \in DOMAIN t \ DOMAIN resolved : t[k] \notin ToSet(resolved)
    BY <1>3, <2>2, AddAllLemma
  <2>4. Expanded(t)
    BY <2>1
  <2> HIDE DEF t
  <2> QED BY <1>1, <1>2, <1>6, <2>3, <2>4, ExpandKeeps
<1> QED BY <1>5, <1>6

LEMMA UseRootFlagKeeps == IInv /\ UseRootFlag => IInv'
<1> SUFFICES ASSUME IInv, UseRootFlag PROVE IInv'
  OBVIOUS
<1>1. phase = "root" /\ rootFlag # NoPath
  BY DEF UseRootFlag
<1>2. CASE rootFlag \notin Dirs
  BY <1>1, <1>2, FailKeeps DEF UseRootFlag
<1>3. CASE rootFlag \in Dirs
  <2>1. /\ phase' = "group" /\ i' = 1 /\ inputs' = inputs /\ rootFlag' = rootFlag /\ gomods' = gomods
        /\ resolved' = resolved /\ order' = order /\ byRoot' = byRoot /\ disk' = disk /\ error' = error
    BY <1>3 DEF UseRootFlag, given
  <2>2. phase \in AfterExpand /\ TypesOK /\ order = <<>> /\ byRoot = <<>>
    BY <1>1 DEF IInv, GroupOK, AfterExpand
  <2>3. "group" \in AfterExpand /\ "group" \notin AfterGroup /\ "group" \notin AfterModules /\ "group" \notin AfterGit
    BY DEF AfterExpand, AfterRoot, AfterGroup, AfterModules, AfterGit
  <2>4. TypesOK'
    BY <2>1, <2>2, <2>3 DEF TypesOK
  <2>5. ExpandOK'
    <3>1. inputs # <<>> /\ ExpandedTo(Len(inputs))
      BY <2>2 DEF IInv, ExpandOK
    <3>2. ExpandedTo(Len(inputs))'
      BY <2>1, <3>1, Frame
    <3> QED BY <2>1, <3>1, <3>2 DEF ExpandOK
  <2>6. GroupOK'
    <3>1. i' - 1 = 0 /\ i' <= Len(resolved') + 1
      BY <2>1, <2>2 DEF TypesOK
    <3>2. GroupedTo(i - 1)'
      BY <2>1, <2>2, <3>1, EmptyLemma DEF GroupedTo, IsInjective
    <3> QED BY <2>1, <2>3, <3>1, <3>2 DEF GroupOK
  <2>7. RootOK' /\ IndexOK' /\ DiskOK'
    BY <1>1, <2>1, <2>3 DEF IInv, RootOK, IndexOK, DiskOK
  <2> QED BY <2>4, <2>5, <2>6, <2>7 DEF IInv
<1> QED BY <1>2, <1>3

(* A step of the search for the common ancestor to another candidate.      *)
LEMMA AncestorKeeps ==
    ASSUME IInv, phase \in {"root", "ancestor"}, rootFlag = NoPath, phase' = "ancestor", given' = given,
           resolved' = resolved, order' = order, byRoot' = byRoot, disk' = disk, error' = error,
           root' \in Dirs, i' \in Nat \ {0}, i' <= Len(resolved) + 1, AncestorTo(i - 1)'
    PROVE  IInv'
<1>1. inputs' = inputs /\ rootFlag' = rootFlag /\ gomods' = gomods
  BY DEF given
<1>2. phase \in AfterExpand /\ TypesOK /\ order = <<>> /\ byRoot = <<>>
  BY DEF IInv, GroupOK, AfterExpand
<1>3. /\ "ancestor" \in AfterExpand /\ "ancestor" \notin AfterRoot /\ "ancestor" \notin AfterGroup
      /\ "ancestor" \notin AfterModules /\ "ancestor" \notin AfterGit
  BY DEF AfterExpand, AfterRoot, AfterGroup, AfterModules, AfterGit
<1>4. TypesOK'
  BY <1>1, <1>2, <1>3 DEF TypesOK
<1>5. ExpandOK'
  <2>1. inputs # <<>> /\ ExpandedTo(Len(inputs))
    BY <1>2 DEF IInv, ExpandOK
  <2>2. ExpandedTo(Len(inputs))'
    BY <1>1, <2>1, Frame
  <2> QED BY <1>1, <2>1, <2>2 DEF ExpandOK
<1>6. RootOK'
  BY <1>1, <1>3 DEF IInv, RootOK
<1>7. GroupOK' /\ IndexOK' /\ DiskOK'
  BY <1>2, <1>3 DEF IInv, GroupOK, IndexOK, DiskOK
<1> QED BY <1>4, <1>5, <1>6, <1>7 DEF IInv

LEMMA StartAncestorKeeps == IInv /\ StartAncestor => IInv'
<1> SUFFICES ASSUME IInv, StartAncestor PROVE IInv'
  OBVIOUS
<1>1. /\ phase = "root" /\ rootFlag = NoPath /\ root' = resolved[1] /\ phase' = "ancestor" /\ i' = 2
      /\ given' = given /\ resolved' = resolved /\ order' = order /\ byRoot' = byRoot /\ disk' = disk
      /\ error' = error
  BY DEF StartAncestor
<1>2. resolved \in Seq(Dirs) /\ resolved # <<>>
  <2>1. phase \in AfterExpand /\ inputs \in Seq(Inputs) /\ resolved \in Seq(Dirs)
    BY <1>1 DEF IInv, TypesOK, AfterExpand
  <2>2. inputs # <<>> /\ ExpandedTo(Len(inputs))
    BY <2>1 DEF IInv, ExpandOK
  <2>3. Len(inputs) # 0
    BY <2>1, <2>2
  <2> QED BY <2>1, <2>2, <2>3 DEF ExpandedTo
<1>3. 1 \in DOMAIN resolved /\ resolved[1] \in Dirs /\ 2 <= Len(resolved) + 1 /\ i' - 1 = 1
  BY <1>1, <1>2
<1>4. AncestorTo(i - 1)'
  <2>1. IsPrefix(resolved[1], resolved[1])
    BY <1>3, DirFacts, PrefixOrder
  <2> QED BY <1>1, <1>3, <2>1 DEF AncestorTo
<1> QED BY <1>1, <1>3, <1>4, AncestorKeeps

LEMMA GoUpKeeps == IInv /\ GoUp => IInv'
<1> SUFFICES ASSUME IInv, GoUp PROVE IInv'
  OBVIOUS
<1>1. /\ phase = "ancestor" /\ i <= Len(resolved) /\ ~IsWithinDir(resolved[i], root)
      /\ IF Dir(root) = root THEN Fail("ancestor")
         ELSE /\ root' = Dir(root)
              /\ UNCHANGED <<given, phase, i, resolved, order, byRoot, objects, disk, error>>
  BY DEF GoUp
<1>2. /\ resolved \in Seq(Dirs) /\ i \in Nat \ {0} /\ rootFlag = NoPath /\ root \in Dirs
      /\ i <= Len(resolved) + 1 /\ AncestorTo(i - 1)
  BY <1>1 DEF IInv, TypesOK, RootOK
<1>3. i \in DOMAIN resolved /\ resolved[i] \in Dirs /\ Len(resolved) \in Nat
  BY <1>1, <1>2
<1>4. resolved[i] \in Seq(STRING) /\ root \in Seq(STRING) /\ \A k \in DOMAIN resolved[i] : resolved[i][k] # ".."
  BY <1>2, <1>3, DirFacts
<1>5. ~IsPrefix(root, resolved[i])
  BY <1>1, <1>4, WithinLemma
<1>6. root # <<>>
  <2>1. Len(<<>>) = 0 /\ <<>> \in Seq(STRING) /\ Len(resolved[i]) \in Nat
    BY <1>4
  <2>2. Len(<<>>) <= Len(resolved[i]) /\ \A k \in 1 .. Len(<<>>) : <<>>[k] = resolved[i][k]
    BY <2>1
  <2>3. IsPrefix(<<>>, resolved[i])
    BY <1>4, <2>1, <2>2, PrefixAt
  <2> QED BY <1>5, <2>3
<1>7. /\ Dir(root) = Front(root) /\ Front(root) \in Dirs /\ Front(root) \in Seq(STRING)
      /\ Len(root) \in Nat /\ Len(root) > 0 /\ Len(Front(root)) = Len(root) - 1
      /\ IsPrefix(Front(root), root)
  <2>1. Len(root) \in Nat /\ Len(root) > 0
    BY <1>4, <1>6
  <2>2. /\ Front(root) \in Seq(STRING) /\ Len(Front(root)) = Len(root) - 1
        /\ \A k \in 1 .. Len(root) - 1 : Front(root)[k] = root[k]
    BY <1>4, <2>1, FrontLemma
  <2>3. IsPrefix(Front(root), root)
    <3> DEFINE F == Front(root)
    <3>1. F \in Seq(STRING) /\ Len(F) <= Len(root) /\ \A k \in 1 .. Len(F) : F[k] = root[k]
      BY <2>1, <2>2
    <3> HIDE DEF F
    <3>2. IsPrefix(F, root)
      BY <1>4, <3>1, PrefixAt
    <3> QED BY <3>2 DEF F
  <2> QED BY <1>2, <1>6, <2>1, <2>2, <2>3, DirFacts DEF Dir
<1>8. Dir(root) # root
  BY <1>7
<1>9. /\ root' = Front(root) /\ phase' = "ancestor" /\ given' = given /\ i' = i /\ resolved' = resolved
      /\ order' = order /\ byRoot' = byRoot /\ disk' = disk /\ error' = error
  BY <1>1, <1>7, <1>8
<1>10. \A k \in 1 .. i - 1 : IsPrefix(Front(root), resolved[k])
  <2> SUFFICES ASSUME NEW k \in 1 .. i - 1 PROVE IsPrefix(Front(root), resolved[k])
    OBVIOUS
  <2>1. k \in DOMAIN resolved
    BY <1>2, <1>3
  <2>2. resolved[k] \in Seq(STRING) /\ IsPrefix(root, resolved[k])
    BY <1>2, <2>1, DirFacts DEF AncestorTo
  <2> QED BY <1>4, <1>7, <2>2, PrefixOrder
<1>11. ASSUME NEW d \in Dirs, \A k \in DOMAIN resolved : IsPrefix(d, resolved[k])
       PROVE  IsPrefix(d, Front(root))
  <2>1. d \in Seq(STRING) /\ IsPrefix(d, root) /\ d # root
    BY <1>2, <1>3, <1>5, <1>11, DirFacts DEF AncestorTo
  <2>2. Len(d) <= Len(root) /\ Len(d) \in Nat
    BY <1>4, <2>1, PrefixAt
  <2>3. IsPrefix(root, root)
    BY <1>4, PrefixOrder
  <2>4. Len(d) # Len(root)
    BY <1>4, <2>1, <2>3, PrefixOrder
  <2>5. Len(d) <= Len(Front(root))
    BY <1>7, <2>2, <2>4
  <2> QED BY <1>4, <1>7, <2>1, <2>5, PrefixOrder
<1>12. AncestorTo(i - 1)'
  BY <1>9, <1>10, <1>11 DEF AncestorTo
<1>13. i' \in Nat \ {0} /\ i' <= Len(resolved) + 1
  BY <1>2, <1>9
<1> QED BY <1>1, <1>2, <1>7, <1>9, <1>12, <1>13, AncestorKeeps

LEMMA NextCandidateKeeps == IInv /\ NextCandidate => IInv'
<1> SUFFICES ASSUME IInv, NextCandidate PROVE IInv'
  OBVIOUS
<1>1. /\ phase = "ancestor" /\ i <= Len(resolved) /\ IsWithinDir(resolved[i], root)
      /\ i' = i + 1
      /\ UNCHANGED <<given, phase, resolved, root, order, byRoot, objects, disk, error>>
  BY DEF NextCandidate
<1>2. resolved \in Seq(Dirs) /\ i \in Nat \ {0} /\ root \in Dirs
  BY <1>1 DEF IInv, TypesOK, RootOK
<1>3. resolved[i] \in Dirs /\ i + 1 \in Nat \ {0}
  BY <1>1, <1>2
<1>4. resolved[i] \in Seq(STRING) /\ root \in Seq(STRING) /\ \A k \in DOMAIN resolved[i] : resolved[i][k] # ".."
  BY <1>2, <1>3, DirFacts
<1>5. IsPrefix(root, resolved[i])
  BY <1>1, <1>4, WithinLemma
<1> QED BY <1>1, <1>3, <1>5, MoveLemma

(* The innermost module a path is in is only one. *)
LEMMA OneNearest ==
    ASSUME NEW p \in Seq(STRING), gomods \subseteq Seq(STRING), NEW q, NEW r, Nearest(p, q), Nearest(p, r)
    PROVE  q = r
<1>1. q \in Seq(STRING) /\ r \in Seq(STRING) /\ IsPrefix(q, p) /\ IsPrefix(r, p)
      /\ Len(q) <= Len(r) /\ Len(r) <= Len(q)
  BY DEF Nearest
<1>2. Len(q) = Len(r)
  <2>1. Len(q) \in Nat /\ Len(r) \in Nat
    BY <1>1
  <2> QED BY <1>1, <2>1
<1> QED BY <1>1, <1>2, PrefixOrder

LEMMA ConcatOne ==
    ASSUME NEW D, NEW t \in Seq(D), NEW p \in D
    PROVE  /\ t \o <<p>> \in Seq(D) /\ DOMAIN (t \o <<p>>) = 1 .. Len(t) + 1
           /\ \A a \in 1 .. Len(t) : (t \o <<p>>)[a] = t[a]
           /\ (t \o <<p>>)[Len(t) + 1] = p
<1> DEFINE one == <<p>>
<1>0. one \in Seq(D)
  OBVIOUS
<1>1. Len(one) = 1 /\ one[1] = p /\ 1 \in 1 .. Len(one)
  OBVIOUS
<1> HIDE DEF one
<1>2. /\ t \o one \in Seq(D) /\ DOMAIN (t \o one) = 1 .. (Len(t) + Len(one))
      /\ \A j \in 1 .. Len(t) : (t \o one)[j] = t[j]
      /\ \A j \in 1 .. Len(one) : (t \o one)[Len(t) + j] = one[j]
  BY <1>0, ConcatLemma
<1>3. t \o one = t \o <<p>>
  BY DEF one
<1> QED BY <1>1, <1>2, <1>3

(* The path of this iteration goes to the end of the group of its module.  *)
LEMMA JoinLemma ==
    ASSUME NEW D, NEW s \in Seq(D), NEW p \in D, NEW t \in Seq(D), NEW n \in DOMAIN s, s[n] = p,
           InOrderOf(t, s), ToSet(t) \subseteq {s[k] : k \in 1 .. n - 1}
    PROVE  /\ t \o <<p>> \in Seq(D) /\ ToSet(t \o <<p>>) = ToSet(t) \cup {p}
           /\ InOrderOf(t \o <<p>>, s)
<1> DEFINE u == t \o <<p>>
<1>1. Len(t) \in Nat /\ DOMAIN t = 1 .. Len(t) /\ DOMAIN s = 1 .. Len(s) /\ n \in 1 .. Len(s)
  OBVIOUS
<1>2. u \in Seq(D) /\ DOMAIN u = 1 .. Len(t) + 1 /\ u[Len(t) + 1] = p /\ \A a \in 1 .. Len(t) : u[a] = t[a]
  BY ConcatOne
<1> HIDE DEF u
<1>3. DOMAIN u = (1 .. Len(t)) \cup {Len(t) + 1} /\ u[Len(t) + 1] = p
  <2>1. 1 .. Len(t) + 1 = (1 .. Len(t)) \cup {Len(t) + 1}
    BY <1>1
  <2> QED BY <1>1, <1>2, <2>1
<1>4. ToSet(u) = ToSet(t) \cup {p}
  BY <1>1, <1>2, <1>3 DEF ToSet
<1>5. ASSUME NEW a \in DOMAIN u, NEW b \in DOMAIN u, a < b
      PROVE  \E k, l \in DOMAIN s : k < l /\ s[k] = u[a] /\ s[l] = u[b]
  <2>1. CASE b \in 1 .. Len(t)
    <3>1. a \in 1 .. Len(t)
      BY <1>1, <1>3, <1>5, <2>1
    <3> QED BY <1>1, <1>2, <1>5, <2>1, <3>1 DEF InOrderOf
  <2>2. CASE b = Len(t) + 1
    <3>1. a \in 1 .. Len(t)
      BY <1>1, <1>3, <1>5, <2>2
    <3>2. u[a] \in ToSet(t)
      BY <1>1, <1>2, <3>1 DEF ToSet
    <3>3. PICK k \in 1 .. n - 1 : u[a] = s[k]
      BY <3>2
    <3>4. k \in DOMAIN s /\ k < n /\ u[b] = s[n]
      BY <1>1, <1>3, <2>2, <3>3
    <3> QED BY <3>3, <3>4
  <2> QED BY <1>3, <2>1, <2>2
<1>6. InOrderOf(u, s)
  BY <1>5 DEF InOrderOf
<1> QED BY <1>2, <1>4, <1>6 DEF u

LEMMA GroupedMore ==
    ASSUME NEW n \in DOMAIN resolved, resolved \in Seq(Dirs), order \in Seq(Dirs), GroupedTo(n - 1),
           gomods \in ModSets, NEW r, r = FindGoModPath(resolved[n]), r # NoPath,
           order' = IF r \in DOMAIN byRoot THEN order ELSE Append(order, r),
           byRoot' = [q \in DOMAIN byRoot \cup {r} |->
                         (IF q \in DOMAIN byRoot THEN byRoot[q] ELSE <<>>)
                         \o (IF q = r THEN <<resolved[n]>> ELSE <<>>)],
           resolved' = resolved, gomods' = gomods
    PROVE  order' \in Seq(Dirs) /\ GroupedTo(n)'
<1> DEFINE p == resolved[n]
           Earlier(q) == {k \in 1 .. n - 1 : Nearest(resolved[k], q)}
           Upto(q) == {k \in 1 .. n : Nearest(resolved[k], q)}
           base == IF r \in DOMAIN byRoot THEN byRoot[r] ELSE <<>>
<1>1. /\ gomods \subseteq Dirs /\ gomods \subseteq Seq(STRING) /\ NoPath \notin gomods
      /\ \A k \in DOMAIN resolved : resolved[k] \in Dirs /\ resolved[k] \in Seq(STRING)
      /\ p \in Dirs /\ n \in Nat \ {0} /\ n <= Len(resolved) /\ Len(resolved) \in Nat
      /\ DOMAIN resolved = 1 .. Len(resolved)
  <2>1. gomods \subseteq Dirs /\ gomods \subseteq Seq(STRING) /\ NoPath \notin gomods
    BY DirFacts
  <2>2. DOMAIN resolved = 1 .. Len(resolved) /\ Len(resolved) \in Nat
    OBVIOUS
  <2> QED BY <2>1, <2>2, DirFacts
<1>2. Nearest(p, r) /\ r \in Dirs
  <2>1. Nearest(p, r)
    BY <1>1, FindGoModLemma
  <2> QED BY <1>1, <2>1 DEF Nearest
<1>3. \A q : Nearest(p, q) => q = r
  BY <1>1, <1>2, OneNearest
<1>4. 1 .. n = (1 .. n - 1) \cup {n} /\ \A k \in 1 .. n - 1 : k \in DOMAIN resolved
  BY <1>1
<1>5. /\ IsInjective(order) /\ DOMAIN byRoot = ToSet(order)
      /\ \A k \in 1 .. n - 1 : \E q \in ToSet(order) : Nearest(resolved[k], q)
      /\ \A q \in ToSet(order) : /\ byRoot[q] \in Seq(Dirs) /\ ToSet(byRoot[q]) = {resolved[k] : k \in Earlier(q)}
                                 /\ InOrderOf(byRoot[q], resolved)
  BY DEF GroupedTo
<1>6. order' \in Seq(Dirs) /\ IsInjective(order') /\ ToSet(order') = ToSet(order) \cup {r}
  <2>1. CASE r \in ToSet(order)
    BY <1>5, <2>1
  <2>2. CASE r \notin ToSet(order)
    <3> DEFINE t == Append(order, r)
    <3>1. /\ t \in Seq(Dirs) /\ DOMAIN t = DOMAIN order \cup {Len(order) + 1} /\ Len(order) + 1 \notin DOMAIN order
          /\ \A k \in DOMAIN order : t[k] = order[k]
          /\ t[Len(order) + 1] = r /\ ToSet(t) = ToSet(order) \cup {r}
      BY <1>2, AppendAt, AppendLemma
    <3>2. order' = t
      BY <1>5, <2>2
    <3> HIDE DEF t
    <3>3. \A k \in DOMAIN order : order[k] # r
      BY <2>2 DEF ToSet
    <3>4. IsInjective(t)
      BY <1>5, <3>1, <3>3 DEF IsInjective
    <3> QED BY <3>1, <3>2, <3>4
  <2> QED BY <2>1, <2>2
<1>7. DOMAIN byRoot' = ToSet(order')
  BY <1>5, <1>6
<1>8. /\ base \in Seq(Dirs) /\ ToSet(base) = {resolved[k] : k \in Earlier(r)} /\ InOrderOf(base, resolved)
  <2>1. CASE r \in ToSet(order)
    BY <1>5, <2>1
  <2>2. CASE r \notin ToSet(order)
    <3>1. Earlier(r) = {}
      <4> SUFFICES ASSUME NEW k \in 1 .. n - 1, Nearest(resolved[k], r) PROVE FALSE
        OBVIOUS
      <4>1. PICK q \in ToSet(order) : Nearest(resolved[k], q)
        BY <1>5
      <4>2. q = r
        BY <1>1, <1>4, <4>1, OneNearest
      <4> QED BY <2>2, <4>2
    <3>2. base = <<>>
      BY <1>5, <2>2
    <3> HIDE DEF Earlier, base
    <3> QED BY <3>1, <3>2, EmptyLemma DEF InOrderOf
  <2> QED BY <2>1, <2>2
<1>9. byRoot'[r] = base \o <<p>>
  BY <1>5
<1> HIDE DEF base
<1>10. ASSUME NEW q \in ToSet(order')
       PROVE  byRoot'[q] \in Seq(Dirs) /\ ToSet(byRoot'[q]) = {resolved[k] : k \in Upto(q)}
              /\ InOrderOf(byRoot'[q], resolved)
  <2>1. CASE q # r
    <3>1. q \in ToSet(order) /\ byRoot[q] \in Seq(Dirs)
      BY <1>5, <1>6, <2>1
    <3>2. byRoot'[q] = byRoot[q]
      <4>1. byRoot'[q] = byRoot[q] \o <<>>
        BY <1>5, <2>1, <3>1
      <4> QED BY <3>1, <4>1
    <3>3. Upto(q) = Earlier(q)
      BY <1>3, <1>4, <2>1
    <3> QED BY <1>5, <3>1, <3>2, <3>3
  <2>2. CASE q = r
    <3>1. ToSet(base) \subseteq {resolved[k] : k \in 1 .. n - 1}
      BY <1>8
    <3>2. /\ base \o <<p>> \in Seq(Dirs) /\ ToSet(base \o <<p>>) = ToSet(base) \cup {p}
          /\ InOrderOf(base \o <<p>>, resolved)
      BY <1>1, <1>8, <3>1, JoinLemma
    <3>3. Upto(r) = Earlier(r) \cup {n}
      BY <1>2, <1>4
    <3>4. {resolved[k] : k \in Upto(r)} = {resolved[k] : k \in Earlier(r)} \cup {p}
      <4> HIDE DEF Upto, Earlier
      <4> QED BY <3>3
    <3> HIDE DEF Upto, Earlier
    <3> QED BY <1>8, <1>9, <2>2, <3>2, <3>4
  <2> QED BY <2>1, <2>2
<1>11. \A k \in 1 .. n : \E q \in ToSet(order') : Nearest(resolved[k], q)
  BY <1>2, <1>4, <1>5, <1>6
<1>12. \A k, q : (Nearest(resolved[k], q))' <=> Nearest(resolved[k], q)
  BY DEF Nearest
<1>13. \A q \in ToSet(order') : {k \in 1 .. n : (Nearest(resolved[k], q))'} = Upto(q)
  BY <1>12
<1>14. (\A q \in ToSet(order) :
           /\ byRoot[q] \in Seq(Dirs)
           /\ ToSet(byRoot[q]) = {resolved[k] : k \in {l \in 1 .. n : Nearest(resolved[l], q)}}
           /\ InOrderOf(byRoot[q], resolved))'
  <2> HIDE DEF Upto
  <2> SUFFICES ASSUME NEW q \in ToSet(order')
               PROVE  /\ byRoot'[q] \in Seq(Dirs)
                      /\ ToSet(byRoot'[q]) = {resolved'[k] : k \in {l \in 1 .. n : (Nearest(resolved[l], q))'}}
                      /\ InOrderOf(byRoot'[q], resolved')
    OBVIOUS
  <2>1. {resolved'[k] : k \in {l \in 1 .. n : (Nearest(resolved[l], q))'}} = {resolved[k] : k \in Upto(q)}
    BY <1>13
  <2> QED BY <1>10, <2>1
<1>15. (\A k \in 1 .. n : \E q \in ToSet(order) : Nearest(resolved[k], q))'
  BY <1>11, <1>12
<1>16. GroupedTo(n)'
  BY <1>6, <1>7, <1>14, <1>15 DEF GroupedTo
<1> QED BY <1>6, <1>16

LEMMA GroupKeeps == IInv /\ Group => IInv'
<1> SUFFICES ASSUME IInv, Group PROVE IInv'
  OBVIOUS
<1> DEFINE r == FindGoModPath(resolved[i])
<1>1. /\ phase = "group" /\ i <= Len(resolved)
      /\ IF r = NoPath THEN Fail("gomod")
         ELSE /\ order' = IF r \in DOMAIN byRoot THEN order ELSE Append(order, r)
              /\ byRoot' = [q \in DOMAIN byRoot \cup {r} |->
                               (IF q \in DOMAIN byRoot THEN byRoot[q] ELSE <<>>)
                               \o (IF q = r THEN <<resolved[i]>> ELSE <<>>)]
              /\ i' = i + 1
              /\ UNCHANGED <<given, phase, resolved, root, objects, disk, error>>
  BY DEF Group
<1>2. TypesOK /\ GroupedTo(i - 1)
  BY <1>1 DEF IInv, GroupOK
<1>3. CASE r = NoPath
  BY <1>1, <1>3, FailKeeps
<1>4. CASE r # NoPath
  <2>1. /\ phase' = "group" /\ i' = i + 1 /\ inputs' = inputs /\ rootFlag' = rootFlag /\ gomods' = gomods
        /\ resolved' = resolved /\ root' = root /\ disk' = disk /\ error' = error
    BY <1>1, <1>4 DEF given
  <2>2. PICK n : n = i
    OBVIOUS
  <2>3. n \in DOMAIN resolved /\ resolved \in Seq(Dirs) /\ order \in Seq(Dirs) /\ gomods \in ModSets
        /\ i \in Nat \ {0} /\ Len(resolved) \in Nat
    BY <1>1, <1>2, <2>2 DEF TypesOK
  <2>4. order' \in Seq(Dirs) /\ GroupedTo(n)'
    BY <1>1, <1>2, <1>4, <2>1, <2>2, <2>3, GroupedMore
  <2>5. i' - 1 = n /\ i' <= Len(resolved') + 1 /\ i' \in Nat \ {0}
    BY <1>1, <2>1, <2>2, <2>3
  <2>6. GroupedTo(i - 1)'
    BY <2>4, <2>5
  <2>7. /\ "group" \in AfterExpand /\ "group" \in AfterRoot /\ "group" \notin AfterGroup
        /\ "group" \notin AfterModules /\ "group" \notin AfterGit
    BY DEF AfterExpand, AfterRoot, AfterGroup, AfterModules, AfterGit
  <2>8. TypesOK'
    BY <1>2, <2>1, <2>4, <2>5, <2>7 DEF TypesOK
  <2>9. ExpandOK'
    <3>1. inputs # <<>> /\ ExpandedTo(Len(inputs))
      BY <1>1, <2>7 DEF IInv, ExpandOK
    <3>2. ExpandedTo(Len(inputs))'
      BY <2>1, <3>1, Frame
    <3> QED BY <2>1, <3>1, <3>2 DEF ExpandOK
  <2>10. RootOK'
    <3>1. rootFlag = NoPath => AncestorTo(Len(resolved))
      BY <1>1, <2>7 DEF IInv, RootOK
    <3>2. rootFlag = NoPath => AncestorTo(Len(resolved))'
      BY <2>1, <3>1, Frame
    <3> QED BY <2>1, <3>2 DEF IInv, RootOK
  <2>11. GroupOK'
    BY <2>1, <2>5, <2>6, <2>7 DEF GroupOK
  <2>12. IndexOK' /\ DiskOK'
    BY <1>1, <2>1, <2>7 DEF IInv, IndexOK, DiskOK
  <2> QED BY <2>8, <2>9, <2>10, <2>11, <2>12 DEF IInv
<1> QED BY <1>3, <1>4

(* What the parser and git add is in the index; nothing is taken out.      *)
LEMMA IndexGrows ==
    ASSUME IInv, given' = given, resolved' = resolved, root' = root, order' = order, byRoot' = byRoot,
           disk' = disk, error' = error, i' \in Nat \ {0}, DOMAIN objects \subseteq DOMAIN objects',
           \/ /\ phase = "modules" /\ i <= Len(order) /\ phase' = phase /\ i' = i + 1
              /\ FilesOf(byRoot[order[i]]) \subseteq DOMAIN objects'
           \/ /\ phase = "git" /\ phase' = "finish"
              /\ \A f \in Files : IsPrefix(RepoRoot, f) => f \in DOMAIN objects'
    PROVE  IInv'
<1>1. /\ inputs' = inputs /\ rootFlag' = rootFlag /\ includeGit' = includeGit /\ gomods' = gomods
  BY DEF given
<1>2. /\ TypesOK /\ i \in Nat \ {0} /\ Len(order) \in Nat
      /\ phase \in AfterGroup /\ phase \in AfterRoot /\ phase \in AfterExpand
      /\ phase' \in AfterGroup /\ phase' \in AfterRoot /\ phase' \in AfterExpand
      /\ phase' \in {"modules", "finish"}
  BY DEF IInv, TypesOK, AfterExpand, AfterRoot, AfterGroup, AfterModules, AfterGit
<1>3. TypesOK'
  BY <1>1, <1>2 DEF TypesOK
<1>4. ExpandOK'
  <2>1. inputs # <<>> /\ ExpandedTo(Len(inputs))
    BY <1>2 DEF IInv, ExpandOK
  <2>2. ExpandedTo(Len(inputs))'
    BY <1>1, <2>1, Frame
  <2> QED BY <1>1, <1>2, <2>1, <2>2 DEF ExpandOK
<1>5. RootOK'
  <2>1. rootFlag = NoPath => AncestorTo(Len(resolved))
    BY <1>2 DEF IInv, RootOK
  <2>2. rootFlag = NoPath => AncestorTo(Len(resolved))'
    BY <2>1, Frame
  <2> QED BY <1>1, <1>2, <2>2 DEF IInv, RootOK
<1>6. GroupOK'
  <2>1. GroupedTo(Len(resolved))
    BY <1>2 DEF IInv, GroupOK
  <2>2. GroupedTo(Len(resolved))'
    BY <1>1, <2>1, Frame
  <2> QED BY <1>2, <2>2 DEF GroupOK
<1>7. IndexOK'
  <2>1. \A n : ParsedTo(n) => ParsedTo(n)'
    BY Frame
  <2>2. CASE phase = "modules"
    <3>1. /\ i <= Len(order) /\ phase' = "modules" /\ i' = i + 1 /\ ParsedTo(i - 1)
          /\ FilesOf(byRoot[order[i]]) \subseteq DOMAIN objects'
      BY <2>2 DEF IInv, IndexOK
    <3>2. PICK n : n = i
      OBVIOUS
    <3>3. 1 .. n = (1 .. n - 1) \cup {n} /\ i' - 1 = n /\ i' <= Len(order) + 1
      BY <1>2, <3>1, <3>2
    <3>4. \A j \in 1 .. n - 1 : FilesOf(byRoot'[order'[j]]) \subseteq DOMAIN objects'
      BY <3>1, <3>2 DEF ParsedTo
    <3>5. ParsedTo(n)'
      BY <3>1, <3>2, <3>3, <3>4 DEF ParsedTo
    <3>6. ParsedTo(i - 1)'
      BY <3>3, <3>5
    <3>7. "modules" \notin AfterModules /\ "modules" \notin AfterGit
      BY DEF AfterModules, AfterGit
    <3> QED BY <3>1, <3>3, <3>6, <3>7 DEF IndexOK
  <2>3. CASE phase = "git"
    <3>1. ParsedTo(Len(order))
      BY <2>3 DEF IInv, IndexOK, AfterModules
    <3>2. ParsedTo(Len(order))'
      BY <2>1, <3>1
    <3> QED BY <2>3, <3>2 DEF IndexOK
  <2> QED BY <2>2, <2>3
<1>8. DiskOK'
  BY <1>2 DEF IInv, DiskOK
<1> QED BY <1>3, <1>4, <1>5, <1>6, <1>7, <1>8 DEF IInv

LEMMA ParseModuleRootKeeps == IInv /\ ParseModuleRoot => IInv'
<1> SUFFICES ASSUME IInv, ParseModuleRoot PROVE IInv'
  OBVIOUS
<1>1. /\ phase = "modules" /\ i <= Len(order) /\ i' = i + 1
      /\ UNCHANGED <<given, phase, resolved, root, order, byRoot, disk, error>>
  BY DEF ParseModuleRoot
<1>2. PICK more \in SUBSET Imported : objects' = AddedByParser(FilesOf(byRoot[order[i]]) \cup more)
  BY DEF ParseModuleRoot
<1>3. DOMAIN objects' = DOMAIN objects \cup (FilesOf(byRoot[order[i]]) \cup more)
  BY <1>2 DEF AddedByParser
<1>4. i' \in Nat \ {0}
  BY <1>1 DEF IInv, TypesOK
<1> QED BY <1>1, <1>3, <1>4, IndexGrows

LEMMA AddGitTrackedFilesKeeps == IInv /\ AddGitTrackedFiles => IInv'
<1> SUFFICES ASSUME IInv, AddGitTrackedFiles PROVE IInv'
  OBVIOUS
<1>1. /\ phase = "git" /\ phase' = "finish"
      /\ UNCHANGED <<given, i, resolved, root, order, byRoot, disk, error>>
  BY DEF AddGitTrackedFiles
<1>2. DOMAIN objects' = DOMAIN objects \cup {g \in Files : IsPrefix(RepoRoot, g)}
  BY DEF AddGitTrackedFiles
<1>3. i' \in Nat \ {0}
  BY <1>1 DEF IInv, TypesOK
<1> QED BY <1>1, <1>2, <1>3, IndexGrows

(* The write, whole or not; it is the last step.                           *)
LEMMA WriteKeeps == IInv /\ (WriteFile \/ WriteFileFails) => IInv'
<1> SUFFICES ASSUME IInv, WriteFile \/ WriteFileFails PROVE IInv'
  OBVIOUS
<1>1. /\ inputs' = inputs /\ rootFlag' = rootFlag /\ includeGit' = includeGit /\ gomods' = gomods
      /\ i' = i /\ resolved' = resolved /\ root' = root /\ order' = order /\ byRoot' = byRoot
      /\ objects' = objects /\ phase = "write"
      /\ \/ phase' = "written" /\ disk' = "new" /\ error' = error
         \/ phase' = "failed" /\ disk' \in {"old", "damaged"} /\ error' = "write"
  BY DEF WriteFile, WriteFileFails, given
<1>2. /\ phase \in AfterGit /\ phase \in AfterModules /\ phase \in AfterGroup /\ phase \in AfterRoot
      /\ phase \in AfterExpand
      /\ "failed" \notin AfterExpand /\ "failed" \notin AfterRoot /\ "failed" \notin AfterGroup
      /\ "failed" \notin AfterModules /\ "failed" \notin AfterGit /\ "written" \in AfterExpand
  BY <1>1 DEF AfterExpand, AfterRoot, AfterGroup, AfterModules, AfterGit
<1>3. TypesOK'
  BY <1>1, <1>2 DEF IInv, TypesOK
<1>4. ExpandOK'
  <2>1. inputs # <<>> /\ ExpandedTo(Len(inputs))
    BY <1>2 DEF IInv, ExpandOK
  <2>2. ExpandedTo(Len(inputs))'
    BY <1>1, <2>1, Frame
  <2> QED BY <1>1, <2>1, <2>2 DEF ExpandOK
<1>5. RootOK'
  <2>1. rootFlag = NoPath => AncestorTo(Len(resolved))
    BY <1>2 DEF IInv, RootOK
  <2>2. rootFlag = NoPath => AncestorTo(Len(resolved))'
    BY <1>1, <2>1, Frame
  <2> QED BY <1>1, <2>2 DEF IInv, RootOK
<1>6. GroupOK'
  <2>1. GroupedTo(Len(resolved))
    BY <1>2 DEF IInv, GroupOK
  <2>2. GroupedTo(Len(resolved))'
    BY <1>1, <2>1, Frame
  <2> QED BY <1>1, <2>2 DEF GroupOK
<1>7. IndexOK'
  <2>1. ParsedTo(Len(order))
    BY <1>2 DEF IInv, IndexOK
  <2>2. ParsedTo(Len(order))'
    BY <1>1, <2>1, Frame
  <2> QED BY <1>1, <1>2, <2>2 DEF IInv, IndexOK
<1>8. DiskOK'
  BY <1>1 DEF DiskOK
<1> QED BY <1>3, <1>4, <1>5, <1>6, <1>7, <1>8 DEF IInv

LEMMA MoveActionsKeep ==
    IInv /\ (EndExpand \/ EndAncestor \/ EndGroup \/ EndModules \/ Finish \/ UNCHANGED vars) => IInv'
<1>0. IInv => i \in Nat \ {0}
  BY DEF IInv, TypesOK
<1>1. IInv /\ EndExpand => IInv'
  BY <1>0, MoveLemma DEF EndExpand
<1>2. IInv /\ EndAncestor => IInv'
  BY <1>0, MoveLemma DEF EndAncestor
<1>3. IInv /\ EndGroup => IInv'
  BY <1>0, MoveLemma DEF EndGroup
<1>4. IInv /\ EndModules => IInv'
  <2> SUFFICES ASSUME IInv, EndModules PROVE IInv'
    OBVIOUS
  <2>1. i \in Nat /\ Len(order) \in Nat
    BY DEF IInv, TypesOK
  <2>2. i > Len(order)
    BY <2>1 DEF EndModules, MoreModuleRoots
  <2> QED BY <1>0, <2>2, MoveLemma DEF EndModules
<1>5. IInv /\ Finish => IInv'
  BY <1>0, MoveLemma DEF Finish
<1>6. IInv /\ UNCHANGED vars => IInv'
  BY <1>0, MoveLemma DEF vars
<1> QED BY <1>1, <1>2, <1>3, <1>4, <1>5, <1>6

LEMMA FailActionsKeep == IInv /\ (ModuleRootFails \/ GitFails \/ FinishFails) => IInv'
  BY FailKeeps DEF ModuleRootFails, GitFails, FinishFails

LEMMA NextKeeps == IInv /\ [Next]_vars => IInv'
  BY StartKeeps, ExpandPathKeeps, ExpandGlobKeeps, UseRootFlagKeeps, StartAncestorKeeps, GoUpKeeps,
     NextCandidateKeeps, GroupKeeps, ParseModuleRootKeeps, AddGitTrackedFilesKeeps, WriteKeeps,
     MoveActionsKeep, FailActionsKeep DEF Next, Over

(* Every loop does what it is for: its invariant holds while it runs, and  *)
(* what a phase has finished holds until the end.                          *)
THEOREM PipelineInvariant == Spec => []IInv
  BY InitLemma, NextKeeps, PTL DEF Spec

-----------------------------------------------------------------------------
(* What it is for                                                          *)

(* The package paths are the directories the arguments name, each once, in *)
(* the order of the arguments (ResolvePackagePaths).                       *)
THEOREM PathsResolved == Spec => []ResolvedExactly
<1>1. IInv => ResolvedExactly
  <2> SUFFICES ASSUME IInv, phase \notin {"start", "expand", "failed"}
               PROVE  /\ ToSet(resolved) = UNION {Named(inputs[k]) : k \in DOMAIN inputs}
                      /\ IsInjective(resolved)
                      /\ \A a, b \in DOMAIN resolved : a < b => NamedFirst(resolved[a]) <= NamedFirst(resolved[b])
    BY DEF ResolvedExactly
  <2>1. phase \in AfterExpand /\ inputs \in Seq(Inputs)
    BY DEF IInv, TypesOK
  <2>2. ExpandedTo(Len(inputs))
    BY <2>1 DEF IInv, ExpandOK
  <2>3. DOMAIN inputs = 1 .. Len(inputs)
    BY <2>1
  <2> QED BY <2>2, <2>3 DEF ExpandedTo
<1> QED BY <1>1, PipelineInvariant, PTL

(* The root is the deepest directory that all package paths are in, and    *)
(* the search for it never fails (commonAncestor).                         *)
THEOREM RootResolved == Spec => []RootIsDeepest
<1>1. IInv => RootIsDeepest
  <2> SUFFICES ASSUME IInv, rootFlag = NoPath, phase \notin {"start", "expand", "root", "ancestor", "failed"}
               PROVE  /\ \A k \in DOMAIN resolved : IsPrefix(root, resolved[k])
                      /\ \A d \in Dirs : (\A k \in DOMAIN resolved : IsPrefix(d, resolved[k])) =>
                                            Len(d) <= Len(root)
    BY DEF RootIsDeepest, IInv, RootOK
  <2>1. phase \in AfterRoot /\ DOMAIN resolved = 1 .. Len(resolved)
    BY DEF IInv, TypesOK, AfterExpand
  <2>2. AncestorTo(Len(resolved))
    BY <2>1 DEF IInv, RootOK
  <2> QED BY <2>1, <2>2 DEF AncestorTo, IsPrefix
<1> QED BY <1>1, PipelineInvariant, PTL

(* Every package path is with the innermost module it is in, once, and     *)
(* only with it (groupPackagePathsByModuleRoot).                           *)
THEOREM PathsGrouped == Spec => []GroupedByModule
<1>1. IInv => GroupedByModule
  <2> SUFFICES ASSUME IInv, phase \in AfterGroup
               PROVE  /\ IsInjective(order)
                      /\ \A k \in DOMAIN resolved : \E r \in ToSet(order) : Nearest(resolved[k], r)
                      /\ \A r \in ToSet(order) :
                            /\ ToSet(byRoot[r]) = {p \in ToSet(resolved) : Nearest(p, r)}
                            /\ InOrderOf(byRoot[r], resolved)
    BY DEF GroupedByModule, AfterGroup, AfterModules, AfterGit
  <2>1. GroupedTo(Len(resolved)) /\ DOMAIN resolved = 1 .. Len(resolved)
    BY DEF IInv, TypesOK, GroupOK
  <2>2. \A r : {resolved[k] : k \in {l \in 1 .. Len(resolved) : Nearest(resolved[l], r)}}
               = {p \in ToSet(resolved) : Nearest(p, r)}
    BY <2>1 DEF ToSet
  <2> QED BY <2>1, <2>2 DEF GroupedTo
<1> QED BY <1>1, PipelineInvariant, PTL

(* The file is replaced by nothing less than the index of all package      *)
(* paths, and only an error of the write itself can damage it.             *)
THEOREM WholeIndexWritten == Spec => []OnlyWholeIndex
<1>1. IInv => OnlyWholeIndex
  <2> SUFFICES ASSUME IInv PROVE OnlyWholeIndex
    OBVIOUS
  <2>1. disk = "damaged" => error = "write"
    BY DEF IInv, DiskOK
  <2>2. ASSUME disk = "new"
        PROVE  /\ phase \in AfterExpand /\ phase \in AfterGroup /\ phase \in AfterModules /\ phase \in AfterGit
               /\ inputs \in Seq(Inputs) /\ resolved \in Seq(Dirs) /\ order \in Seq(Dirs)
    BY <2>2 DEF IInv, TypesOK, DiskOK, AfterExpand, AfterRoot, AfterGroup, AfterModules, AfterGit
  <2>3. ASSUME disk = "new", includeGit PROVE \A f \in Files : IsPrefix(RepoRoot, f) => f \in DOMAIN objects
    BY <2>2, <2>3 DEF IInv, IndexOK
  <2>4. ASSUME disk = "new", NEW k \in DOMAIN inputs, NEW f \in Files, Front(f) \in Named(inputs[k])
        PROVE  f \in DOMAIN objects
    <3>1. ExpandedTo(Len(inputs)) /\ GroupedTo(Len(resolved)) /\ ParsedTo(Len(order))
      BY <2>2, <2>4 DEF IInv, ExpandOK, GroupOK, IndexOK
    <3>2. /\ DOMAIN inputs = 1 .. Len(inputs) /\ DOMAIN resolved = 1 .. Len(resolved)
          /\ DOMAIN order = 1 .. Len(order)
      BY <2>2, <2>4
    <3>3. Front(f) \in ToSet(resolved)
      BY <2>4, <3>1, <3>2 DEF ExpandedTo
    <3>4. PICK n \in 1 .. Len(resolved) : resolved[n] = Front(f)
      BY <3>2, <3>3 DEF ToSet
    <3>5. PICK r \in ToSet(order) : Nearest(resolved[n], r)
      BY <3>1, <3>4 DEF GroupedTo
    <3>6. Front(f) \in ToSet(byRoot[r])
      BY <3>1, <3>4, <3>5 DEF GroupedTo
    <3>7. PICK j \in 1 .. Len(order) : order[j] = r
      BY <3>2, <3>5 DEF ToSet
    <3>8. byRoot[r] \in Seq(Dirs)
      BY <3>1, <3>5 DEF GroupedTo
    <3>9. Contains(byRoot[r], Front(f))
      BY <3>6, <3>8 DEF Contains, ToSet
    <3>10. f \in FilesOf(byRoot[order[j]])
      BY <3>7, <3>9 DEF FilesOf
    <3> QED BY <3>1, <3>7, <3>10 DEF ParsedTo
  <2> QED BY <2>1, <2>3, <2>4 DEF OnlyWholeIndex
<1> QED BY <1>1, PipelineInvariant, PTL
=============================================================================
