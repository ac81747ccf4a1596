------------------------------- MODULE Lemmas -------------------------------
(***************************************************************************)
(* Facts about data that the proofs of several components share: what the  *)
(* operators on sequences do to their length and elements, induction and   *)
(* recursion on the natural numbers, places in a finite ordered set.  And  *)
(* what the operators of Containment compute, for every sequence of        *)
(* instances: the order lists each of them once; the stack of the sweep is *)
(* a chain of instances that contain one another; the derived parents      *)
(* contain their children and form a forest, together with the stated      *)
(* ones; and a reference is placed by the same stack.                      *)
(***************************************************************************)
EXTENDS Containment, Integers, FiniteSetTheorems, FunctionTheorems,
        WellFoundedInduction, TLAPS

-----------------------------------------------------------------------------
(* Sequences *)

(* Append adds one element at the end. *)
LEMMA AppendLemma ==
    ASSUME NEW S, NEW s \in Seq(S), NEW x \in S
    PROVE  /\ Append(s, x) \in Seq(S)
           /\ Len(Append(s, x)) = Len(s) + 1
           /\ \A i \in 1..Len(s) : Append(s, x)[i] = s[i]
           /\ Append(s, x)[Len(s) + 1] = x
           /\ ToSet(Append(s, x)) = ToSet(s) \cup {x}
<1>1. /\ Append(s, x) \in Seq(S)
      /\ Len(Append(s, x)) = Len(s) + 1
      /\ DOMAIN Append(s, x) = 1..(Len(s) + 1)
      /\ DOMAIN s = 1..Len(s)
      /\ Len(s) \in Nat
      /\ \A i \in 1..Len(s) : Append(s, x)[i] = s[i]
      /\ Append(s, x)[Len(s) + 1] = x
  OBVIOUS
<1>2. ToSet(Append(s, x)) \subseteq ToSet(s) \cup {x}
  <2> SUFFICES ASSUME NEW i \in 1..(Len(s) + 1)
               PROVE  Append(s, x)[i] \in ToSet(s) \cup {x}
    BY <1>1 DEF ToSet
  <2>1. CASE i \in 1..Len(s)
    BY <2>1, <1>1 DEF ToSet
  <2>2. CASE i = Len(s) + 1
    BY <2>2, <1>1
  <2> QED
    BY <2>1, <2>2, <1>1
<1>3. ToSet(s) \subseteq ToSet(Append(s, x))
  <2> SUFFICES ASSUME NEW i \in 1..Len(s)
               PROVE  s[i] \in ToSet(Append(s, x))
    BY <1>1 DEF ToSet
  <2>1. i \in 1..(Len(s) + 1) /\ s[i] = Append(s, x)[i]
    BY <1>1
  <2> QED
    BY <2>1, <1>1 DEF ToSet
<1>4. x \in ToSet(Append(s, x))
  <2>1. Len(s) + 1 \in DOMAIN Append(s, x)
    BY <1>1
  <2> QED
    BY <2>1, <1>1 DEF ToSet
<1> QED
  BY <1>1, <1>2, <1>3, <1>4

(* A sequence that is not empty is its head and its tail. *)
LEMMA HeadTailLemma ==
    ASSUME NEW S, NEW s \in Seq(S), s # <<>>
    PROVE  /\ Head(s) \in S
           /\ Tail(s) \in Seq(S)
           /\ Len(s) > 0
           /\ Len(Tail(s)) = Len(s) - 1
           /\ Head(s) = s[1]
           /\ \A i \in 1..(Len(s) - 1) : Tail(s)[i] = s[i + 1]
           /\ ToSet(s) = {Head(s)} \cup ToSet(Tail(s))
<1>1. /\ Head(s) \in S
      /\ Tail(s) \in Seq(S)
      /\ Len(s) \in Nat
      /\ Len(s) > 0
      /\ Len(Tail(s)) = Len(s) - 1
      /\ Head(s) = s[1]
      /\ DOMAIN s = 1..Len(s)
      /\ DOMAIN Tail(s) = 1..(Len(s) - 1)
      /\ \A i \in 1..(Len(s) - 1) : Tail(s)[i] = s[i + 1]
  OBVIOUS
<1>2. ToSet(s) \subseteq {Head(s)} \cup ToSet(Tail(s))
  <2> SUFFICES ASSUME NEW i \in 1..Len(s)
               PROVE  s[i] \in {Head(s)} \cup ToSet(Tail(s))
    BY <1>1 DEF ToSet
  <2>1. CASE i = 1
    BY <2>1, <1>1
  <2>2. CASE i > 1
    <3>1. i - 1 \in 1..(Len(s) - 1) /\ Tail(s)[i - 1] = s[i]
      BY <2>2, <1>1
    <3> QED
      BY <3>1, <1>1 DEF ToSet
  <2> QED
    BY <2>1, <2>2
<1>3. ToSet(Tail(s)) \subseteq ToSet(s)
  <2> SUFFICES ASSUME NEW i \in 1..(Len(s) - 1)
               PROVE  Tail(s)[i] \in ToSet(s)
    BY <1>1 DEF ToSet
  <2>1. i + 1 \in 1..Len(s)
    BY <1>1
  <2> QED
    BY <2>1, <1>1 DEF ToSet
<1>4. Head(s) \in ToSet(s)
  <2>1. 1 \in DOMAIN s
    BY <1>1
  <2> QED
    BY <2>1, <1>1 DEF ToSet
<1> QED
  BY <1>1, <1>2, <1>3, <1>4

(* Concatenation keeps both sequences, one after the other. *)
LEMMA ConcatLemma ==
    ASSUME NEW S, NEW a \in Seq(S), NEW b \in Seq(S)
    PROVE  /\ a \o b \in Seq(S)
           /\ Len(a \o b) = Len(a) + Len(b)
           /\ DOMAIN (a \o b) = 1..(Len(a) + Len(b))
           /\ \A j \in 1..Len(a) : (a \o b)[j] = a[j]
           /\ \A j \in 1..Len(b) : (a \o b)[Len(a) + j] = b[j]
<1>1. /\ Len(a) \in Nat /\ Len(b) \in Nat
      /\ a \o b \in Seq(S)
      /\ Len(a \o b) = Len(a) + Len(b)
      /\ DOMAIN (a \o b) = 1..(Len(a) + Len(b))
  OBVIOUS
<1>2. ASSUME NEW j \in 1..Len(a) PROVE (a \o b)[j] = a[j]
  BY <1>1
<1>3. ASSUME NEW j \in 1..Len(b) PROVE (a \o b)[Len(a) + j] = b[j]
  BY <1>1
<1> QED
  BY <1>1, <1>2, <1>3

(* RemoveAt takes out the element at i and keeps every other one. *)
LEMMA RemoveAtLemma ==
    ASSUME NEW S, NEW s \in Seq(S), NEW i \in DOMAIN s
    PROVE  /\ RemoveAt(s, i) \in Seq(S)
           /\ Len(RemoveAt(s, i)) = Len(s) - 1
           /\ Len(s) > 0
           /\ s[i] \in S
           /\ ToSet(s) = {s[i]} \cup ToSet(RemoveAt(s, i))
<1> DEFINE n == Len(s)
           l == SubSeq(s, 1, i - 1)
           r == SubSeq(s, i + 1, n)
           t == l \o r
<1>1. /\ n \in Nat /\ DOMAIN s = 1..n /\ i \in 1..n /\ n > 0
      /\ \A j \in 1..n : s[j] \in S
  OBVIOUS
<1>2. /\ l \in Seq(S) /\ Len(l) = i - 1
      /\ \A j \in 1..(i - 1) : l[j] = s[j]
  BY <1>1
<1>3. /\ r \in Seq(S) /\ Len(r) = n - i
      /\ \A j \in 1..(n - i) : r[j] = s[i + j]
  BY <1>1
<1>4. /\ t \in Seq(S) /\ Len(t) = n - 1 /\ DOMAIN t = 1..(n - 1)
      /\ \A j \in 1..(i - 1) : t[j] = s[j]
      /\ \A j \in i..(n - 1) : t[j] = s[j + 1]
  <2>0. l \in Seq(S) /\ r \in Seq(S)
    BY <1>2, <1>3
  <2> HIDE DEF l, r
  <2>1. /\ t \in Seq(S) /\ Len(t) = Len(l) + Len(r)
        /\ DOMAIN t = 1..(Len(l) + Len(r))
        /\ \A j \in 1..Len(l) : t[j] = l[j]
        /\ \A j \in 1..Len(r) : t[Len(l) + j] = r[j]
    <3>1. t \in Seq(S)
      BY <2>0, ConcatLemma
    <3>2. Len(t) = Len(l) + Len(r)
      BY <2>0, ConcatLemma
    <3>3. DOMAIN t = 1..(Len(l) + Len(r))
      BY <2>0, ConcatLemma
    <3>4. \A j \in 1..Len(l) : t[j] = l[j]
      BY <2>0, ConcatLemma
    <3>5. \A j \in 1..Len(r) : t[Len(l) + j] = r[j]
      BY <2>0, ConcatLemma
    <3> QED
      BY <3>1, <3>2, <3>3, <3>4, <3>5
  <2>2. ASSUME NEW j \in i..(n - 1) PROVE t[j] = s[j + 1]
    <3>1. j - (i - 1) \in 1..Len(r) /\ Len(l) + (j - (i - 1)) = j
      <4>1. Len(l) = i - 1 /\ Len(r) = n - i /\ n \in Nat /\ i \in 1 .. n
        BY <1>1, <1>2, <1>3
      <4>2. j \in Int /\ i <= j /\ j <= n - 1
        BY <4>1
      <4>3. 1 <= j - (i - 1) /\ j - (i - 1) <= n - i /\ j - (i - 1) \in Int
        BY <4>1, <4>2
      <4> QED BY <4>1, <4>2, <4>3
    <3>2. t[j] = r[j - (i - 1)]
      BY <3>1, <2>1
    <3>3. r[j - (i - 1)] = s[i + (j - (i - 1))]
      BY <3>1, <1>3
    <3>4. i + (j - (i - 1)) = j + 1
      BY <1>1
    <3> QED
      BY <3>2, <3>3, <3>4
  <2> QED
    BY <2>1, <2>2, <1>1, <1>2, <1>3, SMTT(30)
<1>5. RemoveAt(s, i) = t
  BY DEF RemoveAt
<1> HIDE DEF t
<1>6. ToSet(s) \subseteq {s[i]} \cup ToSet(t)
  <2> SUFFICES ASSUME NEW j \in 1..n PROVE s[j] \in {s[i]} \cup ToSet(t)
    BY <1>1 DEF ToSet
  <2>1. CASE j < i
    <3>1. j \in DOMAIN t /\ t[j] = s[j]
      BY <2>1, <1>1, <1>4
    <3> QED BY <3>1 DEF ToSet
  <2>2. CASE j > i
    <3>1. j - 1 \in DOMAIN t /\ t[j - 1] = s[j]
      BY <2>2, <1>1, <1>4
    <3> QED BY <3>1 DEF ToSet
  <2> QED
    BY <2>1, <2>2, <1>1
<1>7. ToSet(t) \subseteq ToSet(s)
  <2> SUFFICES ASSUME NEW j \in 1..(n - 1) PROVE t[j] \in ToSet(s)
    BY <1>4 DEF ToSet
  <2>1. CASE j < i
    <3>1. j \in DOMAIN s /\ t[j] = s[j]
      BY <2>1, <1>1, <1>4
    <3> QED BY <3>1 DEF ToSet
  <2>2. CASE j >= i
    <3>1. j + 1 \in DOMAIN s /\ t[j] = s[j + 1]
      BY <2>2, <1>1, <1>4
    <3> QED BY <3>1 DEF ToSet
  <2> QED
    BY <2>1, <2>2, <1>1
<1>8. s[i] \in ToSet(s)
  BY DEF ToSet
<1> QED
  BY <1>1, <1>4, <1>5, <1>6, <1>7, <1>8

(* Nothing is in the empty sequence. *)
LEMMA EmptyLemma == ToSet(<<>>) = {} /\ Len(<<>>) = 0
  BY DEF ToSet

(* The elements of a sequence are in the set it is over. *)
LEMMA ElementLemma ==
    ASSUME NEW S, NEW s \in Seq(S)
    PROVE  \A i \in 1 .. Len(s) : s[i] \in S
  OBVIOUS

(* Front drops the last element. *)
LEMMA FrontLemma ==
    ASSUME NEW S, NEW s \in Seq(S), Len(s) > 0
    PROVE  /\ Front(s) \in Seq(S) /\ Len(Front(s)) = Len(s) - 1
           /\ \A i \in 1 .. Len(s) - 1 : Front(s)[i] = s[i]
<1> DEFINE m == Len(s) - 1
<1>1. m \in 0 .. Len(s)
  OBVIOUS
<1>2. Front(s) = SubSeq(s, 1, m)
  BY DEF Front
<1> HIDE DEF m
<1>3. /\ SubSeq(s, 1, m) \in Seq(S)
      /\ Len(SubSeq(s, 1, m)) = m
      /\ \A i \in 1 .. m : SubSeq(s, 1, m)[i] = s[i]
  BY <1>1
<1> QED BY <1>2, <1>3 DEF m

(* seq lists the elements of S, each once.                                 *)
Enumerates(seq, S) ==
    /\ \A i \in 1 .. Len(seq) : seq[i] \in S
    /\ \A i, j \in 1 .. Len(seq) : seq[i] = seq[j] => i = j
    /\ \A x \in S : \E i \in 1 .. Len(seq) : seq[i] = x

(* The tail lists the rest. *)
LEMMA TailEnumerates ==
    ASSUME NEW N, NEW S, NEW seq \in Seq(N), seq # <<>>, Enumerates(seq, S)
    PROVE  /\ Head(seq) \in N /\ Head(seq) \in S
           /\ Tail(seq) \in Seq(N)
           /\ Enumerates(Tail(seq), S \ {Head(seq)})
<1> DEFINE t == Tail(seq)
           h == Head(seq)
<1>1. /\ Len(seq) \in Nat /\ Len(seq) > 0 /\ h = seq[1] /\ h \in N
      /\ t \in Seq(N) /\ Len(t) = Len(seq) - 1
      /\ \A i \in 1 .. Len(seq) - 1 : t[i] = seq[i + 1]
  OBVIOUS
<1> HIDE DEF t, h
<1>2. /\ \A i \in 1 .. Len(seq) : seq[i] \in S
      /\ \A i, j \in 1 .. Len(seq) : seq[i] = seq[j] => i = j
      /\ \A x \in S : \E i \in 1 .. Len(seq) : seq[i] = x
  BY DEF Enumerates
<1>3. h \in S
  BY <1>1, <1>2
<1>4. ASSUME NEW i \in 1 .. Len(t) PROVE t[i] \in S \ {h}
  <2>1. i + 1 \in 1 .. Len(seq) /\ t[i] = seq[i + 1] /\ i + 1 # 1 /\ 1 \in 1 .. Len(seq)
    BY <1>1
  <2> QED BY <1>1, <1>2, <2>1
<1>5. ASSUME NEW i \in 1 .. Len(t), NEW j \in 1 .. Len(t), t[i] = t[j] PROVE i = j
  <2>1. /\ i + 1 \in 1 .. Len(seq) /\ t[i] = seq[i + 1]
        /\ j + 1 \in 1 .. Len(seq) /\ t[j] = seq[j + 1]
    BY <1>1
  <2>2. i + 1 = j + 1
    BY <1>2, <1>5, <2>1
  <2> QED BY <2>2
<1>6. ASSUME NEW x \in S \ {h} PROVE \E i \in 1 .. Len(t) : t[i] = x
  <2>1. PICK k \in 1 .. Len(seq) : seq[k] = x
    BY <1>2
  <2>2. k # 1
    BY <1>1, <2>1
  <2>3. k - 1 \in 1 .. Len(t) /\ (k - 1) + 1 = k /\ k - 1 \in 1 .. Len(seq) - 1
    BY <1>1, <2>1, <2>2
  <2>4. t[k - 1] = x
    BY <1>1, <2>1, <2>3
  <2> QED BY <2>3, <2>4
<1>7. Enumerates(t, S \ {h})
  BY <1>4, <1>5, <1>6 DEF Enumerates
<1> QED BY <1>1, <1>3, <1>7 DEF t, h

-----------------------------------------------------------------------------
(* Induction and recursion on the natural numbers *)

(* A set of natural numbers that is not empty has a least one.             *)
LEMMA LeastNat ==
    ASSUME NEW T, T \subseteq Nat, T # {}
    PROVE  \E n \in T : \A m \in T : n <= m
<1>1. IsWellFoundedOn(OpToRel(<, Nat), Nat)
  BY NatLessThanWellFounded, Zenon
<1>2. PICK n \in T : \A m \in T : ~(<<m, n>> \in OpToRel(<, Nat))
  BY <1>1, WFMin, Zenon
<1>3. ASSUME NEW m \in T PROVE n <= m
  <2>1. m \in Nat /\ n \in Nat
    OBVIOUS
  <2>2. ~(m < n)
    <3> SUFFICES ASSUME m < n PROVE FALSE OBVIOUS
    <3>1. <<m, n>> \in Nat \X Nat /\ <<m, n>>[1] = m /\ <<m, n>>[2] = n
      BY <2>1
    <3>2. <<m, n>> \in {ss \in Nat \X Nat : ss[1] < ss[2]}
      BY <3>1
    <3> QED BY <3>2, <1>2, Zenon DEF OpToRel
  <2> QED BY <2>1, <2>2
<1> QED BY <1>3

(* Induction, for the set of the numbers a statement holds of.             *)
LEMMA SetInduction ==
    ASSUME NEW T, 0 \in T, \A n \in Nat : n \in T => n + 1 \in T
    PROVE  Nat \subseteq T
<1>1. SUFFICES ASSUME Nat \ T # {} PROVE FALSE
  OBVIOUS
<1>2. PICK n \in Nat \ T : \A m \in Nat \ T : n <= m
  BY <1>1, LeastNat
<1>3. n - 1 \in Nat /\ n - 1 \in T
  BY <1>2
<1> QED BY <1>2, <1>3

(* f starts at base and takes a step from every number to the next, inside *)
(* S.                                                                      *)
IsStep(S, step) == \A n \in Nat, s \in S : step[n][s] \in S
Iterates(f, base, step) == f[0] = base /\ \A n \in Nat : f[n + 1] = step[n][f[n]]

(* Such a function exists: a recursive definition is one.                  *)
LEMMA Recursion ==
    ASSUME NEW S, NEW base, NEW step, base \in S, IsStep(S, step)
    PROVE  \E f : f \in [Nat -> S] /\ Iterates(f, base, step)
<1> USE DEF IsStep
<1> DEFINE G(n, g) == /\ g \in [0 .. n -> S] /\ g[0] = base
                      /\ \A m \in 0 .. n - 1 : g[m + 1] = step[m][g[m]]
           T == {n \in Nat : \E g : G(n, g)}
<1>1. Nat \subseteq T
  <2>1. 0 \in T
    <3>1. G(0, [m \in 0 .. 0 |-> base])
      OBVIOUS
    <3> QED BY <3>1
  <2>2. ASSUME NEW n \in Nat, n \in T PROVE n + 1 \in T
    <3>1. PICK g : G(n, g)
      BY <2>2
    <3> DEFINE h == [m \in 0 .. n + 1 |-> IF m <= n THEN g[m] ELSE step[n][g[n]]]
    <3>2. G(n + 1, h)
      <4>1. g[n] \in S /\ step[n][g[n]] \in S
        BY <3>1
      <4>2. h \in [0 .. n + 1 -> S]
        BY <3>1, <4>1
      <4>3. ASSUME NEW m \in 0 .. n PROVE h[m + 1] = step[m][h[m]]
        <5>1. CASE m = n
          BY <5>1
        <5>2. CASE m # n
          <6>1. m \in 0 .. n - 1 /\ m + 1 \in 0 .. n + 1
            BY <5>2
          <6>2. h[m + 1] = g[m + 1] /\ h[m] = g[m]
            BY <6>1
          <6> QED BY <6>1, <6>2, <3>1
        <5> QED BY <5>1, <5>2
      <4> QED BY <4>2, <4>3, <3>1
    <3> HIDE DEF G
    <3> QED BY <3>2
  <2> HIDE DEF T
  <2> QED BY <2>1, <2>2, SetInduction
<1>2. ASSUME NEW n \in Nat, NEW g, NEW h, G(n, g), G(n + 1, h) PROVE g[n] = h[n]
  <2> DEFINE U == {m \in Nat : m <= n => g[m] = h[m]}
  <2>1. 0 \in U
    BY <1>2
  <2>2. ASSUME NEW m \in Nat, m \in U PROVE m + 1 \in U
    BY <1>2, <2>2
  <2>3. Nat \subseteq U
    <3> HIDE DEF U
    <3> QED BY <2>1, <2>2, SetInduction
  <2> QED BY <2>3
<1> DEFINE c == [n \in Nat |-> CHOOSE g : G(n, g)]
<1>3. ASSUME NEW n \in Nat PROVE G(n, c[n])
  <2>1. \E g : G(n, g)
    BY <1>1
  <2>2. c[n] = CHOOSE g : G(n, g)
    OBVIOUS
  <2> HIDE DEF G, c
  <2> QED BY <2>1, <2>2
<1> DEFINE f == [n \in Nat |-> c[n][n]]
<1> HIDE DEF c
<1>4. f \in [Nat -> S]
  <2> SUFFICES ASSUME NEW n \in Nat PROVE c[n][n] \in S
    OBVIOUS
  <2> QED BY <1>3
<1>5. f[0] = base
  BY <1>3
<1>6. ASSUME NEW n \in Nat PROVE f[n + 1] = step[n][f[n]]
  <2>1. c[n][n] = c[n + 1][n]
    <3>1. n + 1 \in Nat
      OBVIOUS
    <3>2. G(n, c[n]) /\ G(n + 1, c[n + 1])
      BY <1>3, <3>1
    <3> HIDE DEF G
    <3> QED BY <1>2, <3>2
  <2>2. c[n + 1][n + 1] = step[n][c[n + 1][n]]
    <3>1. n + 1 \in Nat
      OBVIOUS
    <3>2. G(n + 1, c[n + 1])
      BY <1>3, <3>1
    <3>3. n \in 0 .. (n + 1) - 1
      OBVIOUS
    <3> QED BY <3>2, <3>3
  <2>3. f[n] = c[n][n] /\ f[n + 1] = c[n + 1][n + 1]
    OBVIOUS
  <2> HIDE DEF f, G
  <2> QED BY <2>1, <2>2, <2>3
<1>7. Iterates(f, base, step)
  <2> HIDE DEF f
  <2> QED BY <1>5, <1>6 DEF Iterates
<1> HIDE DEF f
<1> QED BY <1>4, <1>7

(* The greatest of some of the numbers up to n. *)
LEMMA Greatest ==
    ASSUME NEW n \in Nat, NEW I, I \subseteq 0 .. n, I # {}
    PROVE  /\ Max(I) \in I
           /\ \A i \in I : i <= Max(I)
<1> DEFINE J == {n - i : i \in I}
<1>1. J \subseteq Nat /\ J # {}
  <2>1. ASSUME NEW i \in I PROVE n - i \in Nat
    OBVIOUS
  <2>2. PICK i \in I : TRUE
    OBVIOUS
  <2>3. n - i \in J
    BY <2>2
  <2> QED BY <2>1, <2>3
<1>2. PICK j \in J : \A k \in J : j <= k
  BY <1>1, LeastNat
<1>3. PICK m \in I : j = n - m
  BY <1>2
<1>4. \A i \in I : m >= i
  <2> SUFFICES ASSUME NEW i \in I PROVE m >= i
    OBVIOUS
  <2>1. n - i \in J
    OBVIOUS
  <2>2. n - m <= n - i
    BY <1>2, <1>3, <2>1
  <2> QED BY <2>2
<1>5. \E x \in I : \A y \in I : x >= y
  BY <1>4
<1>6. Max(I) \in I /\ \A y \in I : Max(I) >= y
  BY <1>5 DEF Max
<1> QED BY <1>6

(* In a finite set with a strict total order, the number of elements below *)
(* one of them is its place.                                               *)
LEMMA Places ==
    ASSUME NEW S, IsFiniteSet(S), NEW below \in [S -> SUBSET S],
           \A x \in S : x \notin below[x],
           \A x, y \in S : y \in below[x] => below[y] \subseteq below[x],
           \A x, y \in S : x # y => x \in below[y] \/ y \in below[x]
    PROVE  /\ \A x \in S : Cardinality(below[x]) \in 0 .. Cardinality(S) - 1
           /\ \A x, y \in S : Cardinality(below[x]) < Cardinality(below[y]) <=> x \in below[y]
           /\ \A k \in 0 .. Cardinality(S) - 1 : \E x \in S : Cardinality(below[x]) = k
<1> DEFINE card(x) == Cardinality(below[x])
           n == Cardinality(S)
<1>1. \A x \in S : IsFiniteSet(below[x]) /\ card(x) \in Nat
  BY FS_Subset, FS_CardinalityType
<1>2. n \in Nat
  BY FS_CardinalityType
<1>3. ASSUME NEW x \in S, NEW y \in S, x \in below[y] PROVE card(x) < card(y)
  <2>1. below[x] \cup {x} \in SUBSET below[y]
    BY <1>3
  <2>2. IsFiniteSet(below[x] \cup {x}) /\ Cardinality(below[x] \cup {x}) = card(x) + 1
    BY <1>1, FS_AddElement
  <2>3. card(x) + 1 <= card(y)
    BY <1>1, <2>1, <2>2, FS_Subset
  <2> QED BY <1>1, <2>3
<1>4. ASSUME NEW x \in S PROVE card(x) \in 0 .. n - 1
  <2>1. below[x] \cup {x} \in SUBSET S
    OBVIOUS
  <2>2. IsFiniteSet(below[x] \cup {x}) /\ Cardinality(below[x] \cup {x}) = card(x) + 1
    BY <1>1, FS_AddElement
  <2>3. card(x) + 1 <= n
    BY <2>1, <2>2, FS_Subset
  <2> QED BY <1>1, <1>2, <2>3
<1>5. ASSUME NEW x \in S, NEW y \in S PROVE card(x) < card(y) <=> x \in below[y]
  <2>1. CASE x = y
    BY <1>1, <2>1
  <2>2. CASE x # y
    BY <1>1, <1>3, <2>2
  <2> QED BY <2>1, <2>2
<1>6. ASSUME NEW k \in 0 .. n - 1 PROVE \E x \in S : card(x) = k
  <2> DEFINE place == [x \in S |-> card(x)]
  <2>1. place \in [S -> 0 .. n - 1]
    BY <1>4
  <2>2. ASSUME NEW x \in S, NEW y \in S, place[x] = place[y] PROVE x = y
    <3>1. card(x) = card(y)
      BY <2>2
    <3>2. ~(card(x) < card(y)) /\ ~(card(y) < card(x))
      BY <1>1, <3>1
    <3> QED BY <1>5, <3>2
  <2>3. place \in Injection(S, 0 .. n - 1)
    <3> HIDE DEF place
    <3> QED BY <2>1, <2>2 DEF Injection, IsInjective
  <2>4. IsFiniteSet(0 .. n - 1) /\ Cardinality(0 .. n - 1) = n
    <3>1. n - 1 \in Int /\ 0 \in Int /\ n >= 0
      BY <1>2
    <3> QED BY <3>1, FS_Interval, <1>2
  <2>5. place \in Surjection(S, 0 .. n - 1)
    <3> HIDE DEF place
    <3> QED BY <2>3, <2>4, FS_Injection
  <2>6. \E x \in S : place[x] = k
    <3> HIDE DEF place
    <3> QED BY <2>5 DEF Surjection
  <2> QED BY <2>6
<1> QED BY <1>4, <1>5, <1>6

-----------------------------------------------------------------------------
(* Sequences by their domains, and listings of finite sets *)

(* Append and concatenation by their domains. *)
LEMMA AppendAt ==
    ASSUME NEW S, NEW s \in Seq(S), NEW x \in S
    PROVE  /\ Append(s, x) \in Seq(S)
           /\ DOMAIN Append(s, x) = DOMAIN s \cup {Len(s) + 1}
           /\ Len(s) + 1 \notin DOMAIN s
           /\ \A i \in DOMAIN s : Append(s, x)[i] = s[i]
           /\ Append(s, x)[Len(s) + 1] = x
<1>1. DOMAIN s = 1 .. Len(s) /\ Len(s) \in Nat
  OBVIOUS
<1>2. Append(s, x) \in Seq(S) /\ Len(Append(s, x)) = Len(s) + 1
      /\ DOMAIN Append(s, x) = 1 .. (Len(s) + 1)
  OBVIOUS
<1>3. DOMAIN Append(s, x) = DOMAIN s \cup {Len(s) + 1} /\ Len(s) + 1 \notin DOMAIN s
  BY <1>1, <1>2
<1> QED BY <1>1, <1>2, <1>3, AppendLemma

(* Concatenation by its domain: places of the first, then those of the     *)
(* second.                                                                 *)
LEMMA ConcatAt ==
    ASSUME NEW S, NEW a \in Seq(S), NEW b \in Seq(S)
    PROVE  /\ a \o b \in Seq(S)
           /\ \A i \in DOMAIN a : i \in DOMAIN (a \o b) /\ (a \o b)[i] = a[i]
           /\ \A j \in DOMAIN b : /\ Len(a) + j \in DOMAIN (a \o b)
                                  /\ Len(a) + j \notin DOMAIN a
                                  /\ (a \o b)[Len(a) + j] = b[j]
           /\ \A i \in DOMAIN (a \o b) : i \in DOMAIN a \/ \E j \in DOMAIN b : i = Len(a) + j
           /\ \A i, j \in DOMAIN b : Len(a) + i = Len(a) + j => i = j
<1> DEFINE c == a \o b
<1>1. /\ DOMAIN a = 1 .. Len(a) /\ Len(a) \in Nat /\ DOMAIN b = 1 .. Len(b) /\ Len(b) \in Nat
  OBVIOUS
<1>2. /\ c \in Seq(S) /\ DOMAIN c = 1 .. (Len(a) + Len(b))
      /\ \A j \in 1 .. Len(a) : c[j] = a[j]
      /\ \A j \in 1 .. Len(b) : c[Len(a) + j] = b[j]
  BY ConcatLemma
<1> HIDE DEF c
<1>3. ASSUME NEW i \in DOMAIN c PROVE i \in DOMAIN a \/ \E j \in DOMAIN b : i = Len(a) + j
  <2>1. CASE i <= Len(a)
    BY <1>1, <1>2, <2>1
  <2>2. CASE ~(i <= Len(a))
    <3>1. i - Len(a) \in DOMAIN b /\ i = Len(a) + (i - Len(a))
      BY <1>1, <1>2, <2>2
    <3> QED BY <3>1
  <2> QED BY <2>1, <2>2
<1>4. \A j \in DOMAIN b : Len(a) + j \in DOMAIN c /\ Len(a) + j \notin DOMAIN a
  BY <1>1, <1>2
<1>5. \A i, j \in DOMAIN b : Len(a) + i = Len(a) + j => i = j
  BY <1>1
<1>6. \A i \in DOMAIN a : i \in DOMAIN c
  BY <1>1, <1>2
<1> QED BY <1>1, <1>2, <1>3, <1>4, <1>5, <1>6 DEF c

(* Flattening keeps the elements of all sequences. *)
LEMMA FlattenLemma ==
    ASSUME NEW S, NEW ss \in Seq(Seq(S))
    PROVE  /\ FlattenSeq(ss) \in Seq(S)
           /\ \A k \in DOMAIN FlattenSeq(ss) :
                 \E i \in DOMAIN ss : \E j \in DOMAIN ss[i] : FlattenSeq(ss)[k] = ss[i][j]
           /\ \A i \in DOMAIN ss : \A j \in DOMAIN ss[i] :
                 \E k \in DOMAIN FlattenSeq(ss) : FlattenSeq(ss)[k] = ss[i][j]
<1> DEFINE L == Len(ss)
           D(f) == [i \in 1 .. L |-> IF i = 1 THEN ss[i] ELSE f[i - 1] \o ss[i]]
           flat == CHOOSE f : f = D(f)
<1>1. L \in Nat /\ DOMAIN ss = 1 .. L /\ \A i \in 1 .. L : ss[i] \in Seq(S)
  OBVIOUS
<1>2. CASE L = 0
  <2>1. FlattenSeq(ss) = ss /\ ss = <<>>
    BY <1>2 DEF FlattenSeq
  <2>2. DOMAIN ss = {} /\ ss \in Seq(S)
    BY <2>1
  <2> QED BY <2>1, <2>2
<1>3. CASE L # 0
  <2>1. FlattenSeq(ss) = flat[L]
    BY <1>3 DEF FlattenSeq
  <2>2. flat = D(flat)
    <3> DEFINE step == [n \in Nat |-> [s \in Seq(S) |-> IF n + 2 \in 1 .. L THEN s \o ss[n + 2] ELSE s]]
    <3>1. IsStep(Seq(S), step)
      <4> SUFFICES ASSUME NEW n \in Nat, NEW s \in Seq(S) PROVE step[n][s] \in Seq(S)
        BY DEF IsStep
      <4>1. n + 2 \in 1 .. L => s \o ss[n + 2] \in Seq(S)
        BY <1>1
      <4> QED BY <4>1
    <3>2. \A n \in Nat, s \in Seq(S) : n + 2 \in 1 .. L => step[n][s] = s \o ss[n + 2]
      OBVIOUS
    <3> HIDE DEF step
    <3>3. PICK g : g \in [Nat -> Seq(S)] /\ Iterates(g, ss[1], step)
      <4>1. ss[1] \in Seq(S)
        BY <1>1, <1>3
      <4> QED BY <3>1, <4>1, Recursion
    <3> DEFINE f == [i \in 1 .. L |-> g[i - 1]]
    <3>4. ASSUME NEW i \in 1 .. L PROVE g[i - 1] = IF i = 1 THEN ss[i] ELSE f[i - 1] \o ss[i]
      <4>1. CASE i = 1
        BY <3>3, <4>1 DEF Iterates
      <4>2. CASE i # 1
        <5>1. i - 2 \in Nat /\ (i - 2) + 1 = i - 1 /\ (i - 2) + 2 = i /\ i - 1 \in 1 .. L /\ (i - 1) - 1 = i - 2
          BY <1>1, <4>2
        <5>2. f[i - 1] = g[i - 2]
          BY <5>1
        <5>3. g[i - 1] = step[i - 2][g[i - 2]]
          BY <3>3, <5>1 DEF Iterates
        <5>4. g[i - 2] \in Seq(S)
          BY <3>3, <5>1
        <5>5. step[i - 2][g[i - 2]] = g[i - 2] \o ss[i]
          BY <3>2, <5>1, <5>4
        <5> QED BY <4>2, <5>2, <5>3, <5>5
      <4> QED BY <4>1, <4>2
    <3>5. f = D(f)
      BY <3>4
    <3> HIDE DEF f, D
    <3> QED BY <3>5
  <2> HIDE DEF flat
  <2>3. \A i \in 1 .. L : flat[i] = IF i = 1 THEN ss[i] ELSE flat[i - 1] \o ss[i]
    BY <2>2
  <2> HIDE DEF L, D
  <2> DEFINE Keeps(m, e) == /\ e \in Seq(S)
                            /\ \A k \in DOMAIN e : \E i \in 1 .. m : \E j \in DOMAIN ss[i] : e[k] = ss[i][j]
                            /\ \A i \in 1 .. m : \A j \in DOMAIN ss[i] : \E k \in DOMAIN e : e[k] = ss[i][j]
             T == {n \in Nat : n + 1 <= L => Keeps(n + 1, flat[n + 1])}
  <2>4. 0 \in T
    <3>1. 1 \in 1 .. L
      BY <1>1, <1>3
    <3>2. flat[1] = ss[1] /\ ss[1] \in Seq(S)
      BY <1>1, <2>3, <3>1
    <3>3. \A i \in 1 .. 1 : i = 1
      OBVIOUS
    <3>4. 1 \in 1 .. 1
      OBVIOUS
    <3>5. Keeps(1, flat[1])
      BY <3>2, <3>3, <3>4
    <3> HIDE DEF Keeps
    <3> QED BY <3>5
  <2>5. ASSUME NEW n \in Nat, n \in T PROVE n + 1 \in T
    <3> SUFFICES ASSUME n + 2 <= L PROVE Keeps(n + 2, flat[n + 2])
      <4>1. (n + 1) + 1 = n + 2
        OBVIOUS
      <4> HIDE DEF Keeps
      <4> QED BY <4>1
    <3> DEFINE f == flat[n + 1]  b == ss[n + 2]
    <3>1. Keeps(n + 1, f)
      <4>1. n + 1 <= L
        BY <1>1
      <4> HIDE DEF Keeps
      <4> QED BY <2>5, <4>1
    <3>2. flat[n + 2] = f \o b /\ b \in Seq(S) /\ f \in Seq(S)
      <4>1. n + 2 \in 1 .. L /\ n + 2 # 1 /\ (n + 2) - 1 = n + 1
        BY <1>1
      <4> QED BY <1>1, <2>3, <3>1, <4>1
    <3> HIDE DEF f
    <3> DEFINE c == f \o b
    <3>3. /\ c \in Seq(S)
          /\ \A i \in DOMAIN f : i \in DOMAIN c /\ c[i] = f[i]
          /\ \A j \in DOMAIN b : Len(f) + j \in DOMAIN c /\ c[Len(f) + j] = b[j]
          /\ \A i \in DOMAIN c : i \in DOMAIN f \/ \E j \in DOMAIN b : i = Len(f) + j
      BY <3>2, ConcatAt
    <3> HIDE DEF c
    <3>4. \A i \in 1 .. n + 2 : i \in 1 .. n + 1 \/ i = n + 2
      OBVIOUS
    <3>5. n + 2 \in 1 .. n + 2 /\ \A i \in 1 .. n + 1 : i \in 1 .. n + 2
      OBVIOUS
    <3>6. ASSUME NEW k \in DOMAIN c PROVE \E i \in 1 .. n + 2 : \E j \in DOMAIN ss[i] : c[k] = ss[i][j]
      <4>1. CASE k \in DOMAIN f
        BY <3>1, <3>3, <3>5, <4>1
      <4>2. CASE k \notin DOMAIN f
        BY <3>3, <3>5, <4>2
      <4> QED BY <4>1, <4>2
    <3>7. ASSUME NEW i \in 1 .. n + 2, NEW j \in DOMAIN ss[i] PROVE \E k \in DOMAIN c : c[k] = ss[i][j]
      <4>1. CASE i \in 1 .. n + 1
        BY <3>1, <3>3, <4>1
      <4>2. CASE i = n + 2
        BY <3>3, <4>2
      <4> QED BY <3>4, <4>1, <4>2
    <3>8. Keeps(n + 2, c)
      BY <3>3, <3>6, <3>7
    <3> HIDE DEF Keeps
    <3> QED BY <3>2, <3>8 DEF c
  <2> HIDE DEF T
  <2>6. Nat \subseteq T
    BY <2>4, <2>5, SetInduction
  <2>7. L - 1 \in Nat /\ (L - 1) + 1 = L
    BY <1>1, <1>3
  <2>8. L - 1 \in T
    BY <2>6, <2>7
  <2>9. Keeps(L, flat[L])
    <3> HIDE DEF Keeps
    <3> QED BY <1>1, <2>7, <2>8 DEF T
  <2> DEFINE all == flat[L]
  <2>10. /\ all \in Seq(S)
         /\ \A k \in DOMAIN all : \E i \in 1 .. L : \E j \in DOMAIN ss[i] : all[k] = ss[i][j]
         /\ \A i \in 1 .. L : \A j \in DOMAIN ss[i] : \E k \in DOMAIN all : all[k] = ss[i][j]
    BY <2>9
  <2>11. FlattenSeq(ss) = all
    BY <2>1
  <2> HIDE DEF all, Keeps
  <2>12. /\ all \in Seq(S)
         /\ \A k \in DOMAIN all : \E i \in DOMAIN ss : \E j \in DOMAIN ss[i] : all[k] = ss[i][j]
         /\ \A i \in DOMAIN ss : \A j \in DOMAIN ss[i] : \E k \in DOMAIN all : all[k] = ss[i][j]
    <3>1. DOMAIN ss = 1 .. L
      BY <1>1 DEF L
    <3> QED BY <2>10, <3>1, Zenon
  <2> QED BY <2>11, <2>12, Zenon
<1> QED BY <1>2, <1>3

(* What SetToSeq and SetToSeqs give for a finite set. *)
LEMMA ListingLemma ==
    ASSUME NEW S, IsFiniteSet(S)
    PROVE  /\ \A f \in SetToSeqs(S) : f \in Seq(S) /\ Enumerates(f, S)
           /\ SetToSeq(S) \in SetToSeqs(S)
<1> DEFINE n == Cardinality(S)
<1>1. n \in Nat /\ IsFiniteSet(1 .. n) /\ Cardinality(1 .. n) = n
  <2>1. n \in Nat
    BY FS_CardinalityType
  <2>2. 1 \in Int /\ n \in Int /\ ~(1 > n) => n - 1 + 1 = n
    BY <2>1
  <2>3. IsFiniteSet(1 .. n) /\ Cardinality(1 .. n) = (IF 1 > n THEN 0 ELSE n - 1 + 1)
    <3> HIDE DEF n
    <3> QED BY <2>1, FS_Interval
  <2>4. (IF 1 > n THEN 0 ELSE n - 1 + 1) = n
    BY <2>1
  <2> QED BY <2>1, <2>3, <2>4
<1>2. ASSUME NEW f \in SetToSeqs(S) PROVE f \in Seq(S) /\ Enumerates(f, S)
  <2>1. f \in [1 .. n -> S] /\ \A i, j \in 1 .. n : f[i] = f[j] => i = j
    BY DEF SetToSeqs
  <2>2. f \in Injection(1 .. n, S)
    <3> HIDE DEF n
    <3> QED BY <2>1 DEF Injection, IsInjective
  <2>3. f \in Surjection(1 .. n, S)
    <3> HIDE DEF n
    <3>1. Cardinality(1 .. n) = Cardinality(S)
      BY <1>1 DEF n
    <3> QED BY <1>1, <2>2, <3>1, FS_Injection
  <2>4. \A x \in S : \E i \in 1 .. n : f[i] = x
    <3> HIDE DEF n
    <3> QED BY <2>3 DEF Surjection
  <2>5. f \in Seq(S) /\ Len(f) = n
    <3> HIDE DEF n
    <3> QED BY <1>1, <2>1
  <2> HIDE DEF n
  <2>6. \A i \in 1 .. n : f[i] \in S
    BY <2>1
  <2> QED BY <2>1, <2>4, <2>5, <2>6 DEF Enumerates
<1>3. SetToSeq(S) \in SetToSeqs(S)
  <2>1. \E f \in [1 .. n -> S] : IsInjective(f)
    <3>1. PICK f : f \in Bijection(1 .. n, S)
      BY FS_CardinalityType DEF ExistsBijection
    <3> HIDE DEF n
    <3>2. f \in [1 .. n -> S] /\ \A i, j \in 1 .. n : f[i] = f[j] => i = j
      BY <3>1 DEF Bijection, Injection, IsInjective
    <3> QED BY <3>2 DEF IsInjective
  <2>2. SetToSeq(S) \in [1 .. n -> S] /\ IsInjective(SetToSeq(S))
    BY <2>1 DEF SetToSeq
  <2>3. \A i, j \in 1 .. n : i # j => SetToSeq(S)[i] # SetToSeq(S)[j]
    <3> HIDE DEF n
    <3> QED BY <2>2 DEF IsInjective
  <2> QED BY <2>2, <2>3 DEF SetToSeqs
<1> QED BY <1>2, <1>3

(* A sequence given element by element. *)
LEMMA MapLemma ==
    ASSUME NEW S, NEW T, NEW s \in Seq(T), NEW t \in [DOMAIN s -> S]
    PROVE  t \in Seq(S) /\ Len(t) = Len(s)
<1>1. DOMAIN s = 1 .. Len(s) /\ Len(s) \in Nat
  OBVIOUS
<1> QED BY <1>1

(* Two sequences without duplicates and without a common element make one. *)
LEMMA ConcatInjective ==
    ASSUME NEW S, NEW a \in Seq(S), NEW b \in Seq(S), IsInjective(a), IsInjective(b),
           \A i \in DOMAIN a, j \in DOMAIN b : a[i] # b[j]
    PROVE  IsInjective(a \o b)
<1> DEFINE c == a \o b
           n == Len(a)
<1>1. /\ \A i \in DOMAIN a : i \in DOMAIN c /\ c[i] = a[i]
      /\ \A j \in DOMAIN b : c[n + j] = b[j]
      /\ \A i \in DOMAIN c : i \in DOMAIN a \/ \E j \in DOMAIN b : i = n + j
  BY ConcatAt
<1>2. /\ \A i, j \in DOMAIN a : a[i] = a[j] => i = j
      /\ \A i, j \in DOMAIN b : b[i] = b[j] => i = j
  BY DEF IsInjective
<1> HIDE DEF c, n
<1> SUFFICES ASSUME NEW x \in DOMAIN c, NEW y \in DOMAIN c, c[x] = c[y]
             PROVE  x = y
  BY DEF IsInjective, c
<1>3. CASE x \in DOMAIN a /\ y \in DOMAIN a
  BY <1>1, <1>2, <1>3
<1>4. CASE x \in DOMAIN a /\ y \notin DOMAIN a
  BY <1>1, <1>4
<1>5. CASE x \notin DOMAIN a /\ y \in DOMAIN a
  BY <1>1, <1>5
<1>6. CASE x \notin DOMAIN a /\ y \notin DOMAIN a
  BY <1>1, <1>2, <1>6
<1> QED BY <1>3, <1>4, <1>5, <1>6

(* The first n numbers are n.                                              *)
LEMMA OneTo ==
    ASSUME NEW n \in Nat
    PROVE  IsFiniteSet(1 .. n) /\ Cardinality(1 .. n) = n
<1>1. 1 \in Int /\ n \in Int /\ ~(1 > n) => n - 1 + 1 = n
  OBVIOUS
<1>2. IsFiniteSet(1 .. n) /\ Cardinality(1 .. n) = (IF 1 > n THEN 0 ELSE n - 1 + 1)
  BY FS_Interval
<1>3. (IF 1 > n THEN 0 ELSE n - 1 + 1) = n
  OBVIOUS
<1> QED BY <1>2, <1>3

-----------------------------------------------------------------------------
(* Trees *)

Ascends(s) == \A i, j \in DOMAIN s : i < j => s[i] < s[j]
Listing(S, s) == s \in Seq(S) /\ Ascends(s) /\ \A x \in S : \E k \in DOMAIN s : s[k] = x
ByPlace(S, s) ==
    s = [k \in 1 .. Cardinality(S) |-> CHOOSE x \in S : Cardinality({y \in S : y < x}) = k - 1]

(* The elements of a set of numbers in their order.                        *)
LEMMA InOrderListing ==
    ASSUME NEW S, S \subseteq Nat, IsFiniteSet(S), NEW s, ByPlace(S, s)
    PROVE  Listing(S, s)
<1> DEFINE below == [x \in S |-> {y \in S : y < x}]
           n == Cardinality(S)
<1>1. n \in Nat
  BY FS_CardinalityType
<1>2. \A x \in S : x \in Nat
  OBVIOUS
<1>3. below \in [S -> SUBSET S]
  OBVIOUS
<1>4. /\ \A x \in S : x \notin below[x]
      /\ \A x, y \in S : y \in below[x] => below[y] \subseteq below[x]
      /\ \A x, y \in S : x # y => x \in below[y] \/ y \in below[x]
  <2>1. \A x \in S : \A y : y \in below[x] <=> y \in S /\ y < x
    OBVIOUS
  <2> HIDE DEF below
  <2>2. \A x \in S : x \notin below[x]
    BY <1>2, <2>1
  <2>3. \A x, y \in S : y \in below[x] => below[y] \subseteq below[x]
    <3> SUFFICES ASSUME NEW x \in S, NEW y \in S, y \in below[x], NEW z \in below[y]
                 PROVE  z \in below[x]
      OBVIOUS
    <3>1. z \in S /\ z < y /\ y < x
      BY <2>1
    <3>2. z \in Nat /\ y \in Nat /\ x \in Nat
      <4>1. z \in S /\ y \in S /\ x \in S
        BY <3>1
      <4> QED BY <1>2, <4>1, Zenon
    <3>3. z < x
      BY <3>1, <3>2
    <3> QED BY <2>1, <3>1, <3>3
  <2>4. \A x, y \in S : x # y => x \in below[y] \/ y \in below[x]
    BY <1>2, <2>1
  <2> QED BY <2>2, <2>3, <2>4
<1>5. \A x \in S : below[x] = {y \in S : y < x}
  OBVIOUS
<1>6. \A x, y \in S : x \in below[y] <=> x < y
  OBVIOUS
<1> HIDE DEF below
<1>7. /\ \A x \in S : Cardinality(below[x]) \in 0 .. n - 1
      /\ \A x, y \in S : Cardinality(below[x]) < Cardinality(below[y]) <=> x \in below[y]
      /\ \A k \in 0 .. n - 1 : \E x \in S : Cardinality(below[x]) = k
  BY <1>3, <1>4, Places
<1>8. s = [k \in 1 .. n |-> CHOOSE x \in S : Cardinality({y \in S : y < x}) = k - 1]
  BY DEF ByPlace
<1> HIDE DEF n
<1>9. DOMAIN s = 1 .. n
  BY <1>8
<1>10. ASSUME NEW k \in 1 .. n PROVE s[k] \in S /\ Cardinality(below[s[k]]) = k - 1
  <2>1. s[k] = CHOOSE x \in S : Cardinality({y \in S : y < x}) = k - 1
    BY <1>8
  <2>2. k - 1 \in 0 .. n - 1
    BY <1>1
  <2>3. \E x \in S : Cardinality({y \in S : y < x}) = k - 1
    BY <1>5, <1>7, <2>2
  <2>4. s[k] \in S /\ Cardinality({y \in S : y < s[k]}) = k - 1
    BY <2>1, <2>3
  <2> QED BY <1>5, <2>4
<1>11. s \in Seq(S)
  <2>1. s \in [1 .. n -> S]
    BY <1>8, <1>10
  <2>2. \A f \in [1 .. n -> S] : f \in Seq(S)
    BY <1>1
  <2> QED BY <2>1, <2>2
<1>12. ASSUME NEW x \in S PROVE \E k \in 1 .. n : s[k] = x
  <2> DEFINE c == Cardinality(below[x])
  <2>1. c \in 0 .. n - 1
    BY <1>7
  <2>2. c + 1 \in 1 .. n /\ (c + 1) - 1 = c
    BY <1>1, <2>1
  <2>3. s[c + 1] \in S /\ Cardinality(below[s[c + 1]]) = c
    BY <1>10, <2>2
  <2>4. ~(c < c)
    BY <2>1
  <2>5. s[c + 1] = x
    BY <1>4, <1>7, <2>3, <2>4
  <2> QED BY <2>2, <2>5
<1>13. ASSUME NEW i \in 1 .. n, NEW j \in 1 .. n, i < j PROVE s[i] < s[j]
  <2>1. i - 1 < j - 1
    BY <1>1, <1>13
  <2>2. s[i] \in below[s[j]]
    BY <1>7, <1>10, <2>1
  <2> QED BY <1>6, <1>10, <2>2
<1> QED BY <1>9, <1>11, <1>12, <1>13 DEF Listing, Ascends

(* The nodes are numbered in the order of the source.  up is the node that *)
(* each but the first stands in, above all the nodes it stands in.         *)
ParentsFirst(size, up) == \A n \in 1 .. size : n # 1 => up[n] \in 1 .. n - 1
AreAbove(size, up, above) ==
    \A n \in 1 .. size : above[n] = IF n = 1 THEN {} ELSE {up[n]} \cup above[up[n]]
IsTree(size, up, above) ==
    /\ ParentsFirst(size, up) /\ AreAbove(size, up, above)
    /\ \A n \in 1 .. size : n # 1 => up[n] \in {n - 1} \cup above[n - 1]

(* The recursion over parents has a value: parents come first.             *)
LEMMA AncestorsExist ==
    ASSUME NEW size \in Nat, NEW up, ParentsFirst(size, up)
    PROVE  \E g \in [1 .. size -> SUBSET (1 .. size)] : AreAbove(size, up, g)
<1> DEFINE N == 1 .. size
           G(n, g) == /\ g \in [1 .. n -> SUBSET N]
                      /\ \A m \in 1 .. n : g[m] = IF m = 1 THEN {} ELSE {up[m]} \cup g[up[m]]
           T == {n \in Nat : n <= size => \E g : G(n, g)}
<1>1. 0 \in T
  <2>1. G(0, [m \in 1 .. 0 |-> {}])
    OBVIOUS
  <2> QED BY <2>1
<1>2. ASSUME NEW n \in Nat, n \in T PROVE n + 1 \in T
  <2> SUFFICES ASSUME n + 1 <= size PROVE \E g : G(n + 1, g)
    <3> HIDE DEF G
    <3> QED OBVIOUS
  <2>1. n <= size
    OBVIOUS
  <2>2. PICK g : G(n, g)
    BY <1>2, <2>1
  <2> DEFINE new == IF n + 1 = 1 THEN {} ELSE {up[n + 1]} \cup g[up[n + 1]]
             h == [m \in 1 .. n + 1 |-> IF m = n + 1 THEN new ELSE g[m]]
  <2>3. n + 1 \in N /\ (n + 1 # 1 => up[n + 1] \in 1 .. n /\ up[n + 1] \in N)
    BY <2>1 DEF ParentsFirst
  <2>4. new \in SUBSET N
    BY <2>2, <2>3
  <2> HIDE DEF new
  <2>5. h \in [1 .. n + 1 -> SUBSET N]
    BY <2>2, <2>4
  <2>6. \A m \in 1 .. n : h[m] = g[m] /\ m \in N /\ (m # 1 => up[m] \in 1 .. n)
    BY <2>1 DEF ParentsFirst
  <2>7. h[n + 1] = new
    OBVIOUS
  <2> HIDE DEF h
  <2>8. ASSUME NEW m \in 1 .. n + 1 PROVE h[m] = IF m = 1 THEN {} ELSE {up[m]} \cup h[up[m]]
    <3>1. CASE m = n + 1
      BY <2>3, <2>6, <2>7, <3>1 DEF new
    <3>2. CASE m # n + 1
      <4>1. m \in 1 .. n
        BY <3>2
      <4> QED BY <2>2, <2>6, <4>1
    <3> QED BY <3>1, <3>2
  <2> QED BY <2>5, <2>8
<1>3. size \in T
  <2>1. Nat \subseteq T
    <3> HIDE DEF T
    <3> QED BY <1>1, <1>2, SetInduction
  <2> QED BY <2>1
<1>4. PICK g : G(size, g)
  <2> HIDE DEF G
  <2> QED BY <1>3
<1> QED BY <1>4 DEF AreAbove

(* And but one value.                                                      *)
LEMMA UniqueAncestors ==
    ASSUME NEW size \in Nat, NEW up, ParentsFirst(size, up),
           NEW a, AreAbove(size, up, a), NEW b, AreAbove(size, up, b)
    PROVE  \A n \in 1 .. size : a[n] = b[n]
<1> DEFINE W == {n \in 1 .. size : a[n] # b[n]}
<1> SUFFICES ASSUME W # {} PROVE FALSE
  OBVIOUS
<1>1. PICK n \in W : \A m \in W : n <= m
  <2>1. W \subseteq Nat
    OBVIOUS
  <2> HIDE DEF W
  <2> QED BY <2>1, LeastNat
<1>2. n # 1 /\ n \in 1 .. size
  BY <1>1 DEF AreAbove
<1>3. up[n] \in 1 .. size /\ up[n] < n /\ n \in Nat /\ up[n] \in Nat
  <2>1. up[n] \in 1 .. n - 1
    BY <1>2 DEF ParentsFirst
  <2> QED BY <1>2, <2>1
<1>4. up[n] \notin W
  BY <1>1, <1>3
<1>5. a[n] = {up[n]} \cup a[up[n]] /\ b[n] = {up[n]} \cup b[up[n]]
  BY <1>2 DEF AreAbove
<1> QED BY <1>1, <1>3, <1>4, <1>5

(* What is above a node: itself before it, with all that is above it, and  *)
(* above everything between the two; and one of its children is on the way *)
(* to the node.                                                            *)
LEMMA TreeOrder ==
    ASSUME NEW size \in Nat \ {0}, NEW up, NEW above, IsTree(size, up, above)
    PROVE  /\ \A n \in 1 .. size : above[n] \in SUBSET (1 .. size)
           /\ above[1] = {}
           /\ \A n \in 1 .. size : n # 1 => up[n] \in 1 .. size /\ above[n] = {up[n]} \cup above[up[n]]
           /\ \A n \in 1 .. size : \A a \in above[n] : a < n /\ above[a] \subseteq above[n]
           /\ \A a, m, c \in 1 .. size : a \in above[c] /\ a < m /\ m <= c => a \in above[m]
           /\ \A n \in 1 .. size : \A a \in above[n] :
                 \E k \in (1 .. size) \ {1} : up[k] = a /\ (k = n \/ k \in above[n])
<1> DEFINE N == 1 .. size
<1>0. N \subseteq Nat /\ 1 \in N
  OBVIOUS
<1>1. /\ \A n \in N : n # 1 => up[n] \in N /\ up[n] < n
      /\ \A n \in N : n # 1 => up[n] \in {n - 1} \cup above[n - 1]
      /\ \A n \in N : above[n] = IF n = 1 THEN {} ELSE {up[n]} \cup above[up[n]]
  <2>1. ASSUME NEW n \in N, n # 1 PROVE up[n] \in N /\ up[n] < n
    <3>1. up[n] \in 1 .. n - 1
      BY <2>1 DEF IsTree, ParentsFirst
    <3> QED BY <3>1
  <2> QED BY <2>1 DEF IsTree, AreAbove
<1>2. \A n \in N : above[n] \in SUBSET N
  <2> DEFINE W == {n \in N : above[n] \notin SUBSET N}
  <2> SUFFICES ASSUME W # {} PROVE FALSE
    OBVIOUS
  <2>1. PICK n \in W : \A m \in W : n <= m
    BY <1>0, LeastNat
  <2>2. n # 1 /\ up[n] \in N /\ up[n] < n /\ up[n] \in Nat /\ n \in Nat
    BY <1>0, <1>1
  <2>3. up[n] \notin W
    BY <2>1, <2>2
  <2> QED BY <1>1, <2>2, <2>3
<1>2a. /\ above[1] = {}
       /\ \A n \in N : n # 1 => up[n] \in N /\ above[n] = {up[n]} \cup above[up[n]]
  BY <1>0, <1>1
<1>3. \A n \in N : \A a \in above[n] : a < n /\ above[a] \subseteq above[n]
  <2> DEFINE W == {n \in N : ~ \A a \in above[n] : a < n /\ above[a] \subseteq above[n]}
  <2> SUFFICES ASSUME W # {} PROVE FALSE
    OBVIOUS
  <2>1. PICK n \in W : \A m \in W : n <= m
    BY <1>0, LeastNat
  <2>2. PICK a \in above[n] : ~(a < n /\ above[a] \subseteq above[n])
    BY <2>1
  <2>3. n # 1 /\ up[n] \in N /\ up[n] < n /\ up[n] \in Nat /\ n \in Nat /\ a \in Nat
    BY <1>0, <1>1, <1>2, <1>2a
  <2>4. up[n] \notin W
    BY <2>1, <2>3
  <2>5. a = up[n] \/ a \in above[up[n]]
    BY <1>2a, <2>3
  <2> HIDE DEF N
  <2> QED BY <1>2a, <2>2, <2>3, <2>4, <2>5
<1>4. \A a, m, c \in N : a \in above[c] /\ a < m /\ m <= c => a \in above[m]
  <2> DEFINE W == {c \in N : ~ \A a, m \in N : a \in above[c] /\ a < m /\ m <= c => a \in above[m]}
  <2> SUFFICES ASSUME W # {} PROVE FALSE
    OBVIOUS
  <2>1. PICK c \in W : \A m \in W : c <= m
    BY <1>0, LeastNat
  <2>2. PICK a \in N, m \in N : a \in above[c] /\ a < m /\ m <= c /\ a \notin above[m]
    BY <2>1
  <2>3. c # 1 /\ m # c /\ a \in Nat /\ m \in Nat /\ c \in Nat /\ c \in N
    BY <1>0, <1>2a, <2>2
  <2>4. c - 1 \in N /\ m <= c - 1 /\ a < c - 1
    BY <2>2, <2>3
  <2>5. a = up[c] \/ a \in above[up[c]]
    BY <1>2a, <2>2, <2>3
  <2>6. up[c] \in {c - 1} \cup above[c - 1]
    BY <1>1, <2>3
  <2>7. a \in above[c - 1]
    <3> HIDE DEF N
    <3> QED BY <1>3, <2>3, <2>4, <2>5, <2>6
  <2>8. c - 1 \notin W
    BY <2>1, <2>3
  <2> QED BY <2>2, <2>4, <2>7, <2>8
<1>5. \A n \in N : \A a \in above[n] :
         \E k \in N \ {1} : up[k] = a /\ (k = n \/ k \in above[n])
  <2> DEFINE R(n, a) == \E k \in N \ {1} : up[k] = a /\ (k = n \/ k \in above[n])
             W == {n \in N : ~ \A a \in above[n] : R(n, a)}
  <2> SUFFICES ASSUME W # {} PROVE FALSE
    OBVIOUS
  <2>1. PICK n \in W : \A m \in W : n <= m
    BY <1>0, LeastNat
  <2>2. PICK a \in above[n] : ~R(n, a)
    BY <2>1
  <2>3. n \in N \ {1} /\ up[n] \in N /\ up[n] < n /\ up[n] \in Nat /\ n \in Nat
    BY <1>0, <1>1, <1>2a
  <2>4. up[n] \notin W
    BY <2>1, <2>3
  <2>5. a \in above[up[n]]
    <3> HIDE DEF N
    <3> QED BY <1>2a, <2>2, <2>3
  <2>6. PICK k \in N \ {1} : up[k] = a /\ (k = up[n] \/ k \in above[up[n]])
    BY <2>3, <2>4, <2>5
  <2>7. k \in above[n]
    BY <1>2a, <2>3, <2>6
  <2> QED BY <2>2, <2>6, <2>7
<1> QED BY <1>2, <1>2a, <1>3, <1>4, <1>5

(* What a traversal has before it: nodes in their order, none above        *)
(* another.  It reaches them and what is below them.                       *)
InFront(above, s) == \A i, j \in DOMAIN s : i < j => s[i] < s[j] /\ s[i] \notin above[s[j]]
Reaches(above, s, n) == \E k \in DOMAIN s : n = s[k] \/ s[k] \in above[n]

ChildrenIn(up, h, a) == Ascends(a) /\ \A k \in DOMAIN a : a[k] # 1 /\ up[a[k]] = h

(* It leaves the first of them and goes into some of its children, a: what *)
(* it has before it then lies behind that node, and is part of what it had.*)
LeavesFirst(size, above, s, a) ==
    LET h == Head(s)
        t == a \o Tail(s)
    IN  /\ h \in 1 .. size /\ 1 \in DOMAIN s /\ s[1] = h
        /\ t \in Seq(1 .. size) /\ InFront(above, t)
        /\ \A k \in DOMAIN t : h < t[k]
        /\ \A k \in DOMAIN t : \/ \E i \in DOMAIN a : t[k] = a[i]
                               \/ \E j \in DOMAIN s : j # 1 /\ t[k] = s[j]
        /\ \A n \in 1 .. size : Reaches(above, s, n) => n = h \/ h \in above[n] \/ Reaches(above, t, n)
        /\ \A i \in DOMAIN a : \E k \in DOMAIN t : t[k] = a[i]
        /\ \A n \in 1 .. size : Reaches(above, t, n) => Reaches(above, s, n) /\ h < n

LEMMA FrontStep ==
    ASSUME NEW size \in Nat \ {0}, NEW up, NEW above, IsTree(size, up, above),
           NEW s \in Seq(1 .. size), s # <<>>, InFront(above, s),
           NEW a \in Seq(1 .. size), ChildrenIn(up, Head(s), a)
    PROVE  LeavesFirst(size, above, s, a)
<1> DEFINE N == 1 .. size
           h == Head(s)
           b == Tail(s)
           t == a \o Tail(s)
<1>0. N \subseteq Nat
  OBVIOUS
<1>1. /\ h \in N /\ s[1] = h /\ b \in Seq(N) /\ Len(s) \in Nat /\ Len(s) > 0
      /\ DOMAIN s = 1 .. Len(s) /\ DOMAIN b = 1 .. Len(s) - 1
      /\ \A k \in DOMAIN b : b[k] = s[k + 1]
  BY HeadTailLemma
<1>2. \A k \in DOMAIN b : k + 1 \in DOMAIN s /\ k + 1 # 1 /\ 1 < k + 1
  BY <1>1
<1>3. \A j \in DOMAIN s : j = 1 \/ \E k \in DOMAIN b : s[j] = b[k]
  <2> SUFFICES ASSUME NEW j \in DOMAIN s, j # 1 PROVE \E k \in DOMAIN b : s[j] = b[k]
    OBVIOUS
  <2>1. j - 1 \in DOMAIN b /\ (j - 1) + 1 = j
    BY <1>1
  <2> QED BY <1>1, <2>1
<1>4. /\ a \in Seq(N)
      /\ \A k \in DOMAIN a : a[k] # 1 /\ up[a[k]] = h
      /\ \A i, j \in DOMAIN a : i < j => a[i] < a[j]
  BY DEF ChildrenIn, Ascends
<1>5. t = a \o b
  OBVIOUS
<1>6a. \A n \in N : n # 1 => above[n] = {up[n]} \cup above[up[n]]
  BY TreeOrder
<1>6. /\ \A n \in N : \A x \in above[n] : x < n /\ x \in N /\ above[x] \subseteq above[n]
      /\ \A x, m, c \in N : x \in above[c] /\ x < m /\ m <= c => x \in above[m]
  BY TreeOrder
<1>7. \A i, j \in DOMAIN s : i < j => s[i] < s[j] /\ s[i] \notin above[s[j]]
  BY DEF InFront
<1> HIDE DEF t, b, h, N
<1>8. \A k \in DOMAIN a : a[k] \in N /\ h \in above[a[k]] /\ above[a[k]] = {h} \cup above[h]
  <2> TAKE k \in DOMAIN a
  <2>1. a[k] \in N
    BY <1>4
  <2>2. a[k] # 1 /\ up[a[k]] = h
    BY <1>4
  <2>3. above[a[k]] = {h} \cup above[h]
    BY <1>6a, <2>1, <2>2
  <2> QED BY <2>1, <2>3
<1>9. \A k \in DOMAIN b : b[k] \in N /\ h < b[k] /\ h \notin above[b[k]]
  <2> TAKE k \in DOMAIN b
  <2>1. 1 \in DOMAIN s /\ k + 1 \in DOMAIN s /\ 1 < k + 1
    BY <1>1, <1>2
  <2>2. b[k] \in N /\ b[k] = s[k + 1] /\ h = s[1]
    BY <1>1
  <2> QED BY <1>7, <2>1, <2>2
<1>10. \A i, j \in DOMAIN b : i < j => b[i] < b[j] /\ b[i] \notin above[b[j]]
  <2> SUFFICES ASSUME NEW i \in DOMAIN b, NEW j \in DOMAIN b, i < j
               PROVE  b[i] < b[j] /\ b[i] \notin above[b[j]]
    OBVIOUS
  <2>1. i + 1 \in DOMAIN s /\ j + 1 \in DOMAIN s /\ i + 1 < j + 1
    BY <1>1, <1>2
  <2> QED BY <1>1, <1>7, <2>1
<1>11. \A i, j \in DOMAIN a : i < j => a[i] < a[j] /\ a[i] \notin above[a[j]]
  <2> SUFFICES ASSUME NEW i \in DOMAIN a, NEW j \in DOMAIN a, i < j PROVE a[i] \notin above[a[j]]
    BY <1>4
  <2>1. h < a[i] /\ h \in Nat /\ a[i] \in Nat
    <3>1. a[i] \in N /\ h \in above[a[i]] /\ h \in N
      BY <1>1, <1>8
    <3> QED BY <1>0, <1>6, <3>1
  <2>2. \A x \in {h} \cup above[h] : x <= h /\ x \in Nat
    BY <1>0, <1>1, <1>6
  <2> QED BY <1>8, <2>1, <2>2
<1>12. \A i \in DOMAIN a, j \in DOMAIN b : a[i] < b[j] /\ a[i] \notin above[b[j]]
  <2> SUFFICES ASSUME NEW i \in DOMAIN a, NEW j \in DOMAIN b PROVE a[i] < b[j] /\ a[i] \notin above[b[j]]
    OBVIOUS
  <2>1. a[i] \in Nat /\ b[j] \in Nat /\ h \in Nat
    BY <1>0, <1>1, <1>8, <1>9
  <2>2. ~(b[j] <= a[i])
    BY <1>1, <1>6, <1>8, <1>9
  <2>3. a[i] \notin above[b[j]]
    BY <1>6, <1>8, <1>9
  <2> QED BY <2>1, <2>2, <2>3
<1>13. /\ t \in Seq(N)
       /\ \A k \in DOMAIN a : k \in DOMAIN t /\ t[k] = a[k]
       /\ \A k \in DOMAIN b : Len(a) + k \in DOMAIN t /\ t[Len(a) + k] = b[k]
       /\ \A k \in DOMAIN t : k \in DOMAIN a \/ \E j \in DOMAIN b : k = Len(a) + j
  <2>1. a \in Seq(N) /\ b \in Seq(N)
    BY <1>1, <1>4
  <2> QED BY <1>5, <2>1, ConcatAt, SMTT(30)
<1>14. DOMAIN a = 1 .. Len(a) /\ Len(a) \in Nat /\ DOMAIN b \subseteq Nat \ {0}
  BY <1>1, <1>4
<1>15. InFront(above, t)
  <2> SUFFICES ASSUME NEW i \in DOMAIN t, NEW j \in DOMAIN t, i < j
               PROVE  t[i] < t[j] /\ t[i] \notin above[t[j]]
    BY DEF InFront
  <2>1. CASE i \in DOMAIN a /\ j \in DOMAIN a
    BY <1>11, <1>13, <2>1
  <2>2. CASE i \in DOMAIN a /\ j \notin DOMAIN a
    <3>1. PICK l \in DOMAIN b : j = Len(a) + l
      BY <1>13, <2>2
    <3> QED BY <1>12, <1>13, <2>2, <3>1
  <2>3. CASE i \notin DOMAIN a
    <3>1. PICK k \in DOMAIN b : i = Len(a) + k
      BY <1>13, <2>3
    <3>2. j \notin DOMAIN a
      BY <1>14, <3>1
    <3>3. PICK l \in DOMAIN b : j = Len(a) + l
      BY <1>13, <3>2
    <3>4. k < l
      BY <1>14, <3>1, <3>3
    <3> QED BY <1>10, <1>13, <3>1, <3>3, <3>4
  <2> QED BY <2>1, <2>2, <2>3
<1>16. \A k \in DOMAIN t : h < t[k] /\ t[k] \in N
  <2> TAKE k \in DOMAIN t
  <2>1. CASE k \in DOMAIN a
    BY <1>6, <1>8, <1>13, <2>1
  <2>2. CASE k \notin DOMAIN a
    BY <1>9, <1>13, <2>2
  <2> QED BY <2>1, <2>2
<1>17. \A k \in DOMAIN t : \/ \E i \in DOMAIN a : t[k] = a[i]
                           \/ \E j \in DOMAIN s : j # 1 /\ t[k] = s[j]
  <2> TAKE k \in DOMAIN t
  <2>1. CASE k \in DOMAIN a
    BY <1>13, <2>1
  <2>2. CASE k \notin DOMAIN a
    <3>1. PICK j \in DOMAIN b : k = Len(a) + j
      BY <1>13, <2>2
    <3>2. t[k] = s[j + 1] /\ j + 1 \in DOMAIN s /\ j + 1 # 1
      BY <1>1, <1>2, <1>13, <3>1
    <3> QED BY <3>2
  <2> QED BY <2>1, <2>2
<1>18. ASSUME NEW n \in N, Reaches(above, s, n) PROVE n = h \/ h \in above[n] \/ Reaches(above, t, n)
  <2>1. PICK j \in DOMAIN s : n = s[j] \/ s[j] \in above[n]
    BY <1>18 DEF Reaches
  <2>2. CASE j = 1
    BY <1>1, <2>1, <2>2
  <2>3. CASE j # 1
    <3>1. PICK k \in DOMAIN b : s[j] = b[k]
      BY <1>3, <2>3
    <3> QED BY <1>13, <2>1, <3>1 DEF Reaches
  <2> QED BY <2>2, <2>3
<1>19. ASSUME NEW n \in N, Reaches(above, t, n) PROVE Reaches(above, s, n) /\ h < n
  <2>1. PICK k \in DOMAIN t : n = t[k] \/ t[k] \in above[n]
    BY <1>19 DEF Reaches
  <2>2. h < n
    <3>1. t[k] \in Nat /\ n \in Nat /\ h \in Nat /\ h < t[k]
      BY <1>0, <1>1, <1>16
    <3>2. t[k] <= n
      BY <1>6, <2>1, <3>1
    <3> QED BY <3>1, <3>2
  <2>3. CASE \E i \in DOMAIN a : t[k] = a[i]
    <3>1. t[k] \in N /\ h \in above[t[k]]
      BY <1>8, <2>3
    <3>2. h \in above[n]
      BY <1>6, <2>1, <3>1
    <3>3. 1 \in DOMAIN s /\ s[1] \in above[n]
      BY <1>1, <3>2
    <3>4. Reaches(above, s, n)
      BY <3>3, Zenon DEF Reaches
    <3> QED BY <2>2, <3>4
  <2>4. CASE \E j \in DOMAIN s : j # 1 /\ t[k] = s[j]
    <3>1. PICK j \in DOMAIN s : t[k] = s[j]
      BY <2>4
    <3>2. n = s[j] \/ s[j] \in above[n]
      BY <2>1, <3>1
    <3>3. Reaches(above, s, n)
      BY <3>2, Zenon DEF Reaches
    <3> QED BY <2>2, <3>3
  <2> QED BY <1>17, <2>3, <2>4
<1>20. h \in N /\ 1 \in DOMAIN s /\ s[1] = h
  BY <1>1
<1>21. \A i \in DOMAIN a : \E k \in DOMAIN t : t[k] = a[i]
  BY <1>13
<1> QED BY <1>13, <1>15, <1>16, <1>17, <1>18, <1>19, <1>20, <1>21 DEF h, t, N, LeavesFirst

-----------------------------------------------------------------------------
(* Syntax trees *)

Syntax == INSTANCE SyntaxTree

NodesWith(kinds) == [up : Nat, kind : kinds]
UpOf(t) == [n \in DOMAIN t |-> t[n].up]

(* A tree of a grammar of these kinds of nodes. *)
IsGrown(kinds, g, t) ==
    /\ t \in Seq(NodesWith(kinds)) /\ t # <<>>
    /\ t[1] = [up |-> 0, kind |-> "file"]
    /\ IsTree(Len(t), UpOf(t), Syntax!Above(t))
    /\ \A n \in DOMAIN t : n # 1 => t[n].kind \in g[t[t[n].up].kind]

(* Above gives what its definition says, as parents come first.            *)
LEMMA AboveIs ==
    ASSUME NEW kinds, NEW t \in Seq(NodesWith(kinds)), t # <<>>, t[1].up = 0,
           ParentsFirst(Len(t), UpOf(t))
    PROVE  AreAbove(Len(t), UpOf(t), Syntax!Above(t))
<1>1. Len(t) \in Nat /\ DOMAIN t = 1 .. Len(t)
  OBVIOUS
<1> DEFINE up == UpOf(t)
<1>2. \A n \in DOMAIN t : up[n] = t[n].up
  BY DEF UpOf
<1>3. \A n \in DOMAIN t : t[n].up = 0 <=> n = 1
  <2> TAKE n \in DOMAIN t
  <2>1. CASE n # 1
    <3>1. up[n] \in 1 .. n - 1
      BY <1>1, <2>1 DEF ParentsFirst
    <3> QED BY <1>2, <2>1, <3>1
  <2> QED BY <2>1
<1> HIDE DEF up
<1>4. PICK g \in [1 .. Len(t) -> SUBSET (1 .. Len(t))] : AreAbove(Len(t), up, g)
  <2>1. ParentsFirst(Len(t), up)
    BY DEF up
  <2> QED BY <1>1, <2>1, AncestorsExist, Zenon
<1> DEFINE D(a) == [n \in DOMAIN t |-> IF t[n].up = 0 THEN {} ELSE {t[n].up} \cup a[t[n].up]]
<1>5. g = D(g)
  BY <1>1, <1>2, <1>3, <1>4 DEF AreAbove
<1>6. Syntax!Above(t) = CHOOSE a : a = D(a)
  BY DEF Syntax!Above
<1>7. Syntax!Above(t) = D(Syntax!Above(t))
  <2> HIDE DEF D
  <2> QED BY <1>5, <1>6
<1>8. \A n \in DOMAIN t : Syntax!Above(t)[n] = IF t[n].up = 0 THEN {} ELSE {t[n].up} \cup Syntax!Above(t)[t[n].up]
  BY <1>7
<1>9. AreAbove(Len(t), up, Syntax!Above(t))
  <2> SUFFICES ASSUME NEW n \in 1 .. Len(t)
               PROVE  Syntax!Above(t)[n] = IF n = 1 THEN {} ELSE {up[n]} \cup Syntax!Above(t)[up[n]]
    BY DEF AreAbove
  <2>1. n \in DOMAIN t
    BY <1>1
  <2>2. up[n] = t[n].up /\ (t[n].up = 0 <=> n = 1)
    BY <1>2, <1>3, <2>1
  <2> QED BY <1>8, <2>1, <2>2
<1> QED BY <1>9 DEF up

(* A tree grows by a node in its last one or in one above that.            *)
LEMMA GrowsByOne ==
    ASSUME NEW kinds, NEW g, NEW t, IsGrown(kinds, g, t), NEW u \in {Len(t)} \cup Syntax!Above(t)[Len(t)],
           NEW k \in g[t[u].kind], k \in kinds
    PROVE  IsGrown(kinds, g, Append(t, [up |-> u, kind |-> k])) /\ Len(Append(t, [up |-> u, kind |-> k])) = Len(t) + 1
<1> DEFINE x == [up |-> u, kind |-> k]
           s == Append(t, x)
           n == Len(t)
<1>1. t \in Seq(NodesWith(kinds)) /\ n \in Nat \ {0} /\ DOMAIN t = 1 .. n
  BY DEF IsGrown
<1>2. IsTree(n, UpOf(t), Syntax!Above(t))
  BY DEF IsGrown
<1>3. /\ \A m \in 1 .. n : Syntax!Above(t)[m] \in SUBSET (1 .. n)
      /\ ParentsFirst(n, UpOf(t)) /\ AreAbove(n, UpOf(t), Syntax!Above(t))
      /\ \A m \in 1 .. n : m # 1 => UpOf(t)[m] \in {m - 1} \cup Syntax!Above(t)[m - 1]
  BY <1>1, <1>2, TreeOrder DEF IsTree
<1>4. u \in 1 .. n
  BY <1>1, <1>3
<1>5. x \in NodesWith(kinds) /\ x.up = u /\ x.kind = k
  BY <1>4 DEF NodesWith
<1> HIDE DEF x
<1>6. /\ s \in Seq(NodesWith(kinds)) /\ Len(s) = n + 1 /\ DOMAIN s = 1 .. n + 1
      /\ \A m \in 1 .. n : s[m] = t[m]
      /\ s[n + 1] = x
  BY <1>1, <1>5, AppendLemma
<1> HIDE DEF s
<1>7. /\ \A m \in 1 .. n : UpOf(s)[m] = UpOf(t)[m]
      /\ UpOf(s)[n + 1] = u
  BY <1>1, <1>5, <1>6 DEF UpOf
<1>8. ParentsFirst(n + 1, UpOf(s)) /\ ParentsFirst(n, UpOf(s))
  <2>1. ASSUME NEW m \in 1 .. n + 1, m # 1 PROVE UpOf(s)[m] \in 1 .. m - 1
    <3>1. CASE m = n + 1
      <4>1. m - 1 = n
        BY <1>1, <3>1
      <4> QED BY <1>4, <1>7, <3>1, <4>1
    <3>2. CASE m # n + 1
      <4>1. m \in 1 .. n
        BY <1>1, <3>2
      <4> QED BY <1>3, <1>7, <2>1, <4>1 DEF ParentsFirst
    <3> QED BY <3>1, <3>2
  <2>2. \A m \in 1 .. n : m \in 1 .. n + 1
    BY <1>1
  <2> QED BY <2>1, <2>2 DEF ParentsFirst
<1>9. s # <<>> /\ s[1] = [up |-> 0, kind |-> "file"]
  BY <1>1, <1>6 DEF IsGrown
<1>10. AreAbove(n + 1, UpOf(s), Syntax!Above(s))
  BY <1>6, <1>8, <1>9, AboveIs
<1>11. \A m \in 1 .. n : Syntax!Above(s)[m] = Syntax!Above(t)[m]
  <2>1. AreAbove(n, UpOf(s), Syntax!Above(s))
    <3> SUFFICES ASSUME NEW m \in 1 .. n
                 PROVE  Syntax!Above(s)[m] = IF m = 1 THEN {} ELSE {UpOf(s)[m]} \cup Syntax!Above(s)[UpOf(s)[m]]
      BY DEF AreAbove
    <3>1. m \in 1 .. n + 1
      BY <1>1
    <3> QED BY <1>10, <3>1 DEF AreAbove
  <2>2. AreAbove(n, UpOf(s), Syntax!Above(t))
    <3> SUFFICES ASSUME NEW m \in 1 .. n
                 PROVE  Syntax!Above(t)[m] = IF m = 1 THEN {} ELSE {UpOf(s)[m]} \cup Syntax!Above(t)[UpOf(s)[m]]
      BY DEF AreAbove
    <3>1. UpOf(s)[m] = UpOf(t)[m]
      BY <1>7
    <3>2. Syntax!Above(t)[m] = IF m = 1 THEN {} ELSE {UpOf(t)[m]} \cup Syntax!Above(t)[UpOf(t)[m]]
      BY <1>3 DEF AreAbove
    <3> QED BY <3>1, <3>2
  <2> QED BY <1>1, <1>8, <2>1, <2>2, UniqueAncestors
<1>12. \A m \in 1 .. n + 1 : m # 1 => UpOf(s)[m] \in {m - 1} \cup Syntax!Above(s)[m - 1]
  <2> SUFFICES ASSUME NEW m \in 1 .. n + 1, m # 1 PROVE UpOf(s)[m] \in {m - 1} \cup Syntax!Above(s)[m - 1]
    OBVIOUS
  <2>1. m - 1 \in 1 .. n
    BY <1>1
  <2>2. CASE m = n + 1
    <3>1. m - 1 = n
      BY <1>1, <2>2
    <3> QED BY <1>7, <1>11, <2>1, <2>2, <3>1
  <2>3. CASE m # n + 1
    <3>1. m \in 1 .. n
      BY <1>1, <2>3
    <3> QED BY <1>3, <1>7, <1>11, <2>1, <3>1
  <2> QED BY <2>2, <2>3
<1>13. \A m \in DOMAIN s : m # 1 => s[m].kind \in g[s[s[m].up].kind]
  <2> SUFFICES ASSUME NEW m \in 1 .. n + 1, m # 1 PROVE s[m].kind \in g[s[s[m].up].kind]
    BY <1>6
  <2>1. CASE m = n + 1
    BY <1>4, <1>5, <1>6, <2>1
  <2>2. CASE m # n + 1
    <3>1. m \in 1 .. n /\ s[m] = t[m]
      BY <1>1, <1>6, <2>2
    <3>2. t[m].up \in 1 .. n
      <4>1. UpOf(t)[m] \in 1 .. m - 1 /\ UpOf(t)[m] = t[m].up
        BY <1>1, <1>3, <2>2, <3>1 DEF ParentsFirst, UpOf
      <4> QED BY <1>1, <3>1, <4>1
    <3> QED BY <1>1, <1>6, <3>1, <3>2 DEF IsGrown
  <2> QED BY <2>1, <2>2
<1>14. IsTree(Len(s), UpOf(s), Syntax!Above(s))
  BY <1>6, <1>8, <1>10, <1>12 DEF IsTree
<1>15. IsGrown(kinds, g, s) /\ Len(s) = n + 1
  BY <1>6, <1>9, <1>13, <1>14 DEF IsGrown
<1> QED BY <1>15 DEF s, x

(* All trees of a family are trees of its grammar.                         *)
LEMMA TreesAreGrown ==
    ASSUME NEW shape, NEW kinds, NEW t \in Syntax!TreesOf(shape), shape.size \in Nat \ {0},
           "file" \in kinds, \A k \in kinds : shape.grammar[k] \subseteq kinds
    PROVE  IsGrown(kinds, shape.grammar, t)
<1> DEFINE g == shape.grammar
           size == shape.size
           wider(n, ts) ==
               {Append(p[1], p[2]) :
                  p \in {q \in ts \X [up : 1 .. n - 1, kind : DOMAIN g] :
                           /\ q[2].up \in {n - 1} \cup Syntax!Above(q[1])[n - 1]
                           /\ q[2].kind \in g[q[1][q[2].up].kind]}}
           larger(n, ts) ==
               IF n = 1 THEN {<<[up |-> 0, kind |-> "file"]>>} ELSE wider(n, ts)
           D(f) == [n \in 1 .. size |-> larger(n, f[n - 1])]
           G(n, f) == DOMAIN f = 1 .. n /\ \A m \in 1 .. n : f[m] = larger(m, f[m - 1])
           T == {n \in Nat : n <= size => \E f : G(n, f)}
           grown == CHOOSE f : f = D(f)
<1>1. size \in Nat \ {0} /\ \A k \in kinds : g[k] \subseteq kinds
  OBVIOUS
<1>2. size \in T
  <2>1. 0 \in T
    <3>1. G(0, [m \in 1 .. 0 |-> {}])
      <4> HIDE DEF larger
      <4> QED OBVIOUS
    <3> HIDE DEF G
    <3> QED BY <3>1
  <2>2. ASSUME NEW n \in Nat, n \in T PROVE n + 1 \in T
    <3> HIDE DEF larger
    <3> SUFFICES ASSUME n + 1 <= size PROVE \E f : G(n + 1, f)
      <4> HIDE DEF G
      <4> QED OBVIOUS
    <3>1. PICK f : G(n, f)
      <4> HIDE DEF G
      <4> QED BY <1>1, <2>2
    <3> DEFINE h == [m \in 1 .. n + 1 |-> IF m = n + 1 THEN larger(m, f[m - 1]) ELSE f[m]]
    <3>2. ASSUME NEW m \in 1 .. n + 1 PROVE h[m] = larger(m, h[m - 1])
      <4>1. larger(1, h[1 - 1]) = larger(1, f[1 - 1])
        <5> HIDE DEF h
        <5> QED BY DEF larger
      <4>2. CASE m = 1
        BY <3>1, <4>1, <4>2
      <4>3. CASE m # 1
        <5>1. m - 1 \in 1 .. n
          BY <4>3
        <5>2. h[m - 1] = f[m - 1]
          BY <5>1
        <5> QED BY <3>1, <5>2
      <4> QED BY <4>2, <4>3
    <3>3. G(n + 1, h)
      BY <3>2
    <3> HIDE DEF G, h
    <3> QED BY <3>3
  <2> HIDE DEF T
  <2>3. Nat \subseteq T
    BY <2>1, <2>2, SetInduction
  <2> QED BY <1>1, <2>3
<1>3. grown = D(grown)
  <2> HIDE DEF larger
  <2>1. PICK f : G(size, f)
    <3> HIDE DEF G
    <3> QED BY <1>1, <1>2
  <2> DEFINE h == [m \in 1 .. size |-> f[m]]
  <2>2. h = D(h)
    <3>1. ASSUME NEW m \in 1 .. size PROVE f[m] = larger(m, h[m - 1])
      <4>1. CASE m = 1
        <5>1. larger(1, h[1 - 1]) = larger(1, f[1 - 1])
          <6> HIDE DEF h
          <6> QED BY DEF larger
        <5> QED BY <2>1, <4>1, <5>1
      <4>2. CASE m # 1
        <5>1. h[m - 1] = f[m - 1]
          BY <1>1, <4>2
        <5> QED BY <2>1, <5>1
      <4> QED BY <4>1, <4>2
    <3> QED BY <3>1
  <2> HIDE DEF D, h
  <2> QED BY <2>2
<1>4. Syntax!TreesOf(shape) = grown[size]
  BY DEF Syntax!TreesOf
<1> HIDE DEF grown
<1> DEFINE Good == {n \in Nat : n + 1 <= size => \A s \in grown[n + 1] : IsGrown(kinds, g, s) /\ Len(s) = n + 1}
<1>5. 0 \in Good
  <2> DEFINE s == <<[up |-> 0, kind |-> "file"]>>
  <2>1. grown[1] = {s}
    BY <1>1, <1>3
  <2>2. s \in Seq(NodesWith(kinds)) /\ s # <<>> /\ s[1] = [up |-> 0, kind |-> "file"] /\ Len(s) = 1 /\ DOMAIN s = 1 .. 1
    <3>1. [up |-> 0, kind |-> "file"] \in NodesWith(kinds)
      BY DEF NodesWith
    <3> QED BY <3>1
  <2> HIDE DEF s
  <2>3. ParentsFirst(Len(s), UpOf(s))
    BY <2>2 DEF ParentsFirst
  <2>4. AreAbove(Len(s), UpOf(s), Syntax!Above(s))
    <3>1. s[1].up = 0
      BY <2>2
    <3> QED BY <2>2, <2>3, <3>1, AboveIs
  <2>5. IsGrown(kinds, g, s)
    BY <2>2, <2>3, <2>4 DEF IsGrown, IsTree
  <2> QED BY <2>1, <2>2, <2>5
<1>6. ASSUME NEW n \in Nat, n \in Good PROVE n + 1 \in Good
  <2> SUFFICES ASSUME n + 1 + 1 <= size, NEW s \in grown[n + 1 + 1]
               PROVE  IsGrown(kinds, g, s) /\ Len(s) = n + 1 + 1
    OBVIOUS
  <2>1. grown[n + 2] = larger(n + 2, grown[n + 1])
    <3>1. n + 2 \in 1 .. size /\ (n + 2) - 1 = n + 1 /\ n + 1 + 1 = n + 2
      BY <1>1
    <3> HIDE DEF larger
    <3> QED BY <1>3, <3>1
  <2>2. PICK r \in grown[n + 1] : \E u \in {n + 1} \cup Syntax!Above(r)[n + 1] : \E k \in g[r[u].kind] :
                s = Append(r, [up |-> u, kind |-> k])
    <3>1. n + 1 + 1 = n + 2 /\ (n + 2) - 1 = n + 1 /\ n + 2 # 1
      OBVIOUS
    <3>2. s \in larger(n + 2, grown[n + 1])
      <4> HIDE DEF larger
      <4> QED BY <2>1, <3>1
    <3>3. s \in wider(n + 2, grown[n + 1])
      <4> HIDE DEF wider
      <4> QED BY <3>1, <3>2
    <3> HIDE DEF larger, g
    <3>4. PICK p \in grown[n + 1] \X [up : 1 .. (n + 2) - 1, kind : DOMAIN g] :
              /\ s = Append(p[1], p[2])
              /\ p[2].up \in {(n + 2) - 1} \cup Syntax!Above(p[1])[(n + 2) - 1]
              /\ p[2].kind \in g[p[1][p[2].up].kind]
      BY <3>3, Zenon
    <3>5. p[1] \in grown[n + 1] /\ p[2] = [up |-> p[2].up, kind |-> p[2].kind]
      BY <3>4
    <3> QED BY <3>1, <3>4, <3>5
  <2>3. PICK u \in {n + 1} \cup Syntax!Above(r)[n + 1] : \E k \in g[r[u].kind] :
                s = Append(r, [up |-> u, kind |-> k])
    BY <2>2
  <2>4. PICK k \in g[r[u].kind] : s = Append(r, [up |-> u, kind |-> k])
    BY <2>3
  <2>5. IsGrown(kinds, g, r) /\ Len(r) = n + 1
    BY <1>1, <1>6
  <2>6. k \in kinds
    <3>1. r \in Seq(NodesWith(kinds)) /\ DOMAIN r = 1 .. n + 1
      BY <2>5 DEF IsGrown
    <3>2. u \in 1 .. n + 1
      <4>1. IsTree(n + 1, UpOf(r), Syntax!Above(r))
        BY <2>5 DEF IsGrown
      <4>2. Syntax!Above(r)[n + 1] \in SUBSET (1 .. n + 1)
        <5>1. n + 1 \in Nat \ {0} /\ n + 1 \in 1 .. n + 1
          OBVIOUS
        <5>2. \A m \in 1 .. n + 1 : Syntax!Above(r)[m] \in SUBSET (1 .. n + 1)
          BY ONLY <4>1, <5>1, TreeOrder
        <5> QED BY <5>1, <5>2
      <4> QED BY <4>2
    <3>3. r[u].kind \in kinds
      <4>1. r[u] \in NodesWith(kinds)
        BY <3>1, <3>2
      <4> QED BY <4>1 DEF NodesWith
    <3> QED BY <1>1, <3>3
  <2>7. IsGrown(kinds, g, s) /\ Len(s) = Len(r) + 1
    BY <2>4, <2>5, <2>6, GrowsByOne
  <2> QED BY <2>5, <2>7
<1>7. Nat \subseteq Good
  <2> HIDE DEF Good
  <2> QED BY <1>5, <1>6, SetInduction
<1>8. size - 1 \in Nat /\ (size - 1) + 1 = size
  BY <1>1
<1> QED BY <1>1, <1>4, <1>7, <1>8

(* The order of the source. *)
LEMMA NodesInOrder ==
    ASSUME NEW size \in Nat, NEW S, S \subseteq 1 .. size, NEW s, ByPlace(S, s)
    PROVE  /\ IsFiniteSet(S) /\ Listing(S, s) /\ s \in Seq(S)
           /\ \A x : S = {x} => s = <<x>>
           /\ S = {} => s = <<>>
<1>1. S \subseteq Nat
  OBVIOUS
<1>2. IsFiniteSet(S)
  <2>1. IsFiniteSet(1 .. size)
    BY OneTo
  <2> QED BY <2>1, FS_Subset
<1>3. DOMAIN s = 1 .. Cardinality(S)
  BY DEF ByPlace
<1>4. Listing(S, s)
  BY <1>1, <1>2, InOrderListing, Zenon
<1>5. s \in Seq(S)
  BY <1>4 DEF Listing
<1>6. ASSUME NEW x, S = {x} PROVE s = <<x>>
  <2>1. Cardinality(S) = 1
    BY <1>6, FS_Singleton
  <2>2. s[1] = x
    <3>1. s \in Seq({x}) /\ 1 \in DOMAIN s
      BY <1>3, <1>5, <1>6, <2>1
    <3> QED BY <3>1
  <2> QED BY <1>3, <1>5, <2>1, <2>2
<1>7. ASSUME S = {} PROVE s = <<>>
  <2>1. Cardinality(S) = 0
    BY <1>7, FS_EmptySet
  <2> QED BY <1>3, <1>5, <2>1
<1> QED BY <1>2, <1>4, <1>5, <1>6, <1>7

-----------------------------------------------------------------------------
(* Sorting *)

(* The order of the sort is a strict total one, whatever the ranges.       *)
LEMMA BeforeIsTotal ==
    ASSUME NEW insts \in Seq(Instance)
    PROVE  /\ \A x \in DOMAIN insts : ~Before(insts, x, x)
           /\ \A x, y, z \in DOMAIN insts : Before(insts, x, y) /\ Before(insts, y, z) => Before(insts, x, z)
           /\ \A x, y \in DOMAIN insts : x = y \/ Before(insts, x, y) \/ Before(insts, y, x)
<1>1. DOMAIN insts \subseteq Nat /\ \A x \in DOMAIN insts :
          insts[x].start \in Int /\ insts[x].end \in Int /\ insts[x].rank \in Int
  <2>1. DOMAIN insts \subseteq Nat /\ \A x \in DOMAIN insts : insts[x] \in Instance
    OBVIOUS
  <2> QED BY <2>1 DEF Instance
<1>2. ASSUME NEW x \in DOMAIN insts PROVE ~Before(insts, x, x)
  BY <1>1 DEF Before, SameRange
<1>3. ASSUME NEW x \in DOMAIN insts, NEW y \in DOMAIN insts, NEW z \in DOMAIN insts,
             Before(insts, x, y), Before(insts, y, z)
      PROVE  Before(insts, x, z)
  <2> DEFINE a == insts[x]
             b == insts[y]
             c == insts[z]
  <2>1. /\ a.start \in Int /\ a.end \in Int /\ a.rank \in Int
        /\ b.start \in Int /\ b.end \in Int /\ b.rank \in Int
        /\ c.start \in Int /\ c.end \in Int /\ c.rank \in Int
        /\ x \in Int /\ y \in Int /\ z \in Int
    BY <1>1
  <2>2. \/ a.start < b.start
        \/ a.start = b.start /\ a.end > b.end
        \/ a.start = b.start /\ a.end = b.end /\ a.rank < b.rank
        \/ a.start = b.start /\ a.end = b.end /\ a.rank = b.rank /\ x < y
    BY <1>3 DEF Before, SameRange
  <2>3. \/ b.start < c.start
        \/ b.start = c.start /\ b.end > c.end
        \/ b.start = c.start /\ b.end = c.end /\ b.rank < c.rank
        \/ b.start = c.start /\ b.end = c.end /\ b.rank = c.rank /\ y < z
    BY <1>3 DEF Before, SameRange
  <2> HIDE DEF a, b, c
  <2>4. \/ a.start < c.start
        \/ a.start = c.start /\ a.end > c.end
        \/ a.start = c.start /\ a.end = c.end /\ a.rank < c.rank
        \/ a.start = c.start /\ a.end = c.end /\ a.rank = c.rank /\ x < z
    BY <2>1, <2>2, <2>3, SMTT(30)
  <2> QED BY <2>4 DEF Before, SameRange, a, c
<1>4. ASSUME NEW x \in DOMAIN insts, NEW y \in DOMAIN insts
      PROVE  x = y \/ Before(insts, x, y) \/ Before(insts, y, x)
  BY <1>1 DEF Before, SameRange
<1> QED BY <1>2, <1>3, <1>4

(* Sorted enumerates a set of instances once each, in the order.           *)
LEMMA SortedLemma ==
    ASSUME NEW insts \in Seq(Instance), NEW S, S \subseteq DOMAIN insts
    PROVE  /\ Sorted(insts, S) \in Seq(S)
           /\ Len(Sorted(insts, S)) = Cardinality(S)
           /\ \A x \in S : \E k \in 1 .. Len(Sorted(insts, S)) : Sorted(insts, S)[k] = x
           /\ \A i, j \in 1 .. Len(Sorted(insts, S)) :
                 i < j => Before(insts, Sorted(insts, S)[i], Sorted(insts, S)[j])
           /\ \A i, j \in 1 .. Len(Sorted(insts, S)) :
                 Sorted(insts, S)[i] = Sorted(insts, S)[j] => i = j
<1> DEFINE below == [x \in S |-> {y \in S : Before(insts, y, x)}]
           card(x) == Cardinality({y \in S : Before(insts, y, x)})
           n == Cardinality(S)
           s == Sorted(insts, S)
<1>1. IsFiniteSet(S) /\ n \in Nat
  <2>1. IsFiniteSet(DOMAIN insts)
    <3>1. DOMAIN insts = 1 .. Len(insts) /\ Len(insts) \in Int /\ 1 \in Int
      OBVIOUS
    <3> QED BY <3>1, FS_Interval
  <2> QED BY <2>1, FS_Subset, FS_CardinalityType
<1>2. /\ \A x \in S : Cardinality(below[x]) \in 0 .. n - 1
      /\ \A x, y \in S : Cardinality(below[x]) < Cardinality(below[y]) <=> x \in below[y]
      /\ \A k \in 0 .. n - 1 : \E x \in S : Cardinality(below[x]) = k
  <2>1. below \in [S -> SUBSET S]
    OBVIOUS
  <2>2. \A x \in S : x \notin below[x]
    BY BeforeIsTotal
  <2>3. \A x, y \in S : y \in below[x] => below[y] \subseteq below[x]
    BY BeforeIsTotal
  <2>4. \A x, y \in S : x # y => x \in below[y] \/ y \in below[x]
    BY BeforeIsTotal
  <2> HIDE DEF below
  <2> QED BY <1>1, <2>1, <2>2, <2>3, <2>4, Places
<1>3. \A x \in S : below[x] = {y \in S : Before(insts, y, x)}
  OBVIOUS
<1>4. \A k \in 1 .. n : s[k] \in S /\ Cardinality(below[s[k]]) = k - 1
  <2> SUFFICES ASSUME NEW k \in 1 .. n PROVE s[k] \in S /\ Cardinality(below[s[k]]) = k - 1
    OBVIOUS
  <2>1. s[k] = CHOOSE x \in S : card(x) = k - 1
    BY DEF Sorted
  <2>2. \E x \in S : card(x) = k - 1
    <3>1. k - 1 \in 0 .. n - 1
      BY <1>1
    <3> HIDE DEF below
    <3> QED BY <1>2, <1>3, <3>1
  <2>3. s[k] \in S /\ card(s[k]) = k - 1
    <3> HIDE DEF card, s
    <3> QED BY <2>1, <2>2
  <2> QED BY <2>3
<1>5. s \in [1 .. n -> S]
  BY <1>4 DEF Sorted
<1>6. s \in Seq(S) /\ Len(s) = n
  <2> HIDE DEF s
  <2> QED BY <1>1, <1>5
<1>7. ASSUME NEW x \in S PROVE \E k \in 1 .. n : s[k] = x
  <2> DEFINE k == Cardinality(below[x]) + 1
  <2>1. k \in 1 .. n
    <3> HIDE DEF below
    <3> QED BY <1>1, <1>2
  <2>2. Cardinality(below[s[k]]) = Cardinality(below[x]) /\ s[k] \in S
    <3>1. Cardinality(below[x]) \in Int
      <4> HIDE DEF below
      <4> QED BY <1>2
    <3> HIDE DEF below, s
    <3> QED BY <1>4, <2>1, <3>1
  <2>3. s[k] = x
    <3>1. s[k] \notin below[x] /\ x \notin below[s[k]]
      <4> HIDE DEF below, s, k
      <4> QED BY <1>2, <2>2
    <3> QED BY <2>2, <3>1, BeforeIsTotal
  <2> QED BY <2>1, <2>3
<1>8. ASSUME NEW i \in 1 .. n, NEW j \in 1 .. n PROVE i < j => Before(insts, s[i], s[j])
  <2>1. i < j => s[i] \in below[s[j]]
    <3> HIDE DEF below, s
    <3> QED BY <1>2, <1>4, SMTT(30)
  <2> QED BY <1>4, <2>1
<1>9. ASSUME NEW i \in 1 .. n, NEW j \in 1 .. n, s[i] = s[j] PROVE i = j
  <2>1. i - 1 = j - 1
    <3> HIDE DEF below, s
    <3> QED BY <1>4, <1>9
  <2> QED BY <2>1
<1> QED BY <1>6, <1>7, <1>8, <1>9, Zenon
-----------------------------------------------------------------------------
(* The sweep *)

(* Unwind keeps the stack up to its topmost element that contains x.       *)
LEMMA UnwindLemma ==
    ASSUME NEW insts, NEW N, NEW stack \in Seq(N), NEW x
    PROVE  /\ Unwind(insts, stack, x) \in Seq(N)
           /\ \E m \in 0 .. Len(stack) :
                 /\ Len(Unwind(insts, stack, x)) = m
                 /\ \A i \in 1 .. m : Unwind(insts, stack, x)[i] = stack[i]
                 /\ m > 0 => ContainsInst(insts[stack[m]], insts[x])
                 /\ \A i \in m + 1 .. Len(stack) : ~ContainsInst(insts[stack[i]], insts[x])
<1> DEFINE I == {i \in 1 .. Len(stack) : ContainsInst(insts[stack[i]], insts[x])}
           m == IF I # {} THEN Max(I) ELSE 0
<1>1. Unwind(insts, stack, x) = SubSeq(stack, 1, m)
  BY DEF Unwind, SelectLastInSeq
<1>2. /\ m \in 0 .. Len(stack)
      /\ m > 0 => m \in I
      /\ \A i \in m + 1 .. Len(stack) : i \notin I
  <2>1. CASE I = {}
    BY <2>1
  <2>2. CASE I # {}
    <3>1. Len(stack) \in Nat /\ I \subseteq 0 .. Len(stack)
      OBVIOUS
    <3>2. Max(I) \in I /\ \A i \in I : i <= Max(I)
      <4> HIDE DEF I
      <4> QED BY <2>2, <3>1, Greatest
    <3>3. m = Max(I)
      BY <2>2
    <3>4. m \in 1 .. Len(stack)
      BY <3>2, <3>3
    <3> HIDE DEF m, I
    <3> QED BY <3>1, <3>2, <3>3, <3>4
  <2> QED BY <2>1, <2>2
<1> HIDE DEF m
<1>3. /\ SubSeq(stack, 1, m) \in Seq(N)
      /\ Len(SubSeq(stack, 1, m)) = m
      /\ \A i \in 1 .. m : SubSeq(stack, 1, m)[i] = stack[i]
  BY <1>2
<1> QED BY <1>1, <1>2, <1>3

(* The stack of the sweep after each instance.                             *)
LEMMA SweepLemma ==
    ASSUME NEW insts, NEW N, NEW order \in Seq(N)
    PROVE  /\ SweepStacks(insts, order)[0] = <<>>
           /\ \A k \in 1 .. Len(order) :
                 SweepStacks(insts, order)[k] =
                     Append(Unwind(insts, SweepStacks(insts, order)[k - 1], order[k]), order[k])
           /\ \A k \in 0 .. Len(order) : SweepStacks(insts, order)[k] \in Seq(N)
<1> DEFINE n == Len(order)
           Push(k, s) == Append(Unwind(insts, s, order[k]), order[k])
           step == [k \in Nat |-> [s \in Seq(N) |-> IF k + 1 <= n THEN Push(k + 1, s) ELSE s]]
           e == <<>>
           Def(f) == f = [k \in 0 .. n |-> IF k = 0 THEN e ELSE Push(k, f[k - 1])]
<1>1. n \in Nat
  OBVIOUS
<1>2. IsStep(Seq(N), step)
  <2>1. ASSUME NEW k \in 1 .. n, NEW s \in Seq(N) PROVE Push(k, s) \in Seq(N)
    <3>1. order[k] \in N
      BY <1>1
    <3>2. Unwind(insts, s, order[k]) \in Seq(N)
      BY UnwindLemma, Zenon
    <3> QED BY <3>1, <3>2
  <2>2. ASSUME NEW k \in Nat, NEW s \in Seq(N)
        PROVE  (IF k + 1 <= n THEN Push(k + 1, s) ELSE s) \in Seq(N)
    <3> HIDE DEF Push
    <3> QED BY <1>1, <2>1
  <2> HIDE DEF Push
  <2> QED BY <2>2 DEF IsStep
<1>3. PICK g : g \in [Nat -> Seq(N)] /\ Iterates(g, e, step)
  <2>1. e \in Seq(N)
    OBVIOUS
  <2> HIDE DEF step, e
  <2> QED BY <1>2, <2>1, Recursion
<1>3b. g \in [Nat -> Seq(N)] /\ g[0] = e /\ \A k \in Nat : g[k + 1] = step[k][g[k]]
  <2> HIDE DEF step, e
  <2> QED BY <1>3 DEF Iterates
<1>4. ASSUME NEW k \in 1 .. n PROVE g[k] = Push(k, g[k - 1])
  <2>1. k - 1 \in Nat /\ (k - 1) + 1 = k /\ k <= n
    BY <1>1
  <2>2. g[k - 1] \in Seq(N)
    BY <1>3b, <2>1
  <2>3. g[k] = step[k - 1][g[k - 1]]
    <3> HIDE DEF step
    <3> QED BY <1>3b, <2>1
  <2>4. step[k - 1][g[k - 1]] = Push(k, g[k - 1])
    <3> HIDE DEF Push
    <3> QED BY <2>1, <2>2
  <2> QED BY <2>3, <2>4
<1> DEFINE h == [k \in 0 .. n |-> g[k]]
<1>5. Def(h)
  <2>1. ASSUME NEW k \in 0 .. n PROVE h[k] = IF k = 0 THEN e ELSE Push(k, h[k - 1])
    <3>1. CASE k = 0
      BY <1>3b, <3>1
    <3>2. CASE k # 0
      <4>1. k \in 1 .. n /\ k - 1 \in 0 .. n
        BY <3>2
      <4>2. h[k] = g[k] /\ h[k - 1] = g[k - 1]
        BY <4>1
      <4> HIDE DEF Push, h
      <4> QED BY <1>4, <4>1, <4>2, <3>2
    <3> QED BY <3>1, <3>2
  <2> HIDE DEF Push
  <2> QED BY <2>1
<1>6. SweepStacks(insts, order) = CHOOSE f : Def(f)
  BY DEF SweepStacks
<1>7. Def(SweepStacks(insts, order))
  <2> HIDE DEF Def, h
  <2> QED BY <1>5, <1>6
<1> DEFINE stacks == SweepStacks(insts, order)
<1>8. stacks[0] = e /\ \A k \in 1 .. n : stacks[k] = Push(k, stacks[k - 1])
  <2>1. ASSUME NEW f, Def(f) PROVE f[0] = e /\ \A k \in 1 .. n : f[k] = Push(k, f[k - 1])
    <3> HIDE DEF Push, e
    <3>1. \A k \in 0 .. n : f[k] = IF k = 0 THEN e ELSE Push(k, f[k - 1])
      BY <2>1, Zenon
    <3>2. f[0] = e
      BY <1>1, <3>1
    <3>3. ASSUME NEW k \in 1 .. n PROVE f[k] = Push(k, f[k - 1])
      BY <1>1, <3>1
    <3> QED BY <3>2, <3>3
  <2> HIDE DEF Push, Def, stacks
  <2>2. Def(stacks)
    BY <1>7 DEF stacks
  <2> QED BY <2>1, <2>2
<1> DEFINE T == {k \in Nat : k <= n => stacks[k] = g[k]}
<1>9. Nat \subseteq T
  <2>1. 0 \in T
    BY <1>3b, <1>8
  <2>2. ASSUME NEW k \in Nat, k \in T PROVE k + 1 \in T
    <3>1. CASE k + 1 <= n
      <4>1. k + 1 \in 1 .. n /\ k <= n /\ (k + 1) - 1 = k
        BY <1>1, <3>1
      <4>2. stacks[k] = g[k]
        BY <2>2, <4>1
      <4> HIDE DEF Push, stacks
      <4>3. stacks[k + 1] = Push(k + 1, stacks[k])
        BY <1>8, <4>1
      <4>4. g[k + 1] = Push(k + 1, g[k])
        BY <1>4, <4>1
      <4> QED BY <4>2, <4>3, <4>4
    <3>2. CASE ~(k + 1 <= n)
      BY <3>2
    <3> QED BY <3>1, <3>2
  <2> HIDE DEF T
  <2> QED BY <2>1, <2>2, SetInduction
<1>10. \A k \in 0 .. n : stacks[k] \in Seq(N)
  <2> SUFFICES ASSUME NEW k \in 0 .. n PROVE stacks[k] \in Seq(N)
    OBVIOUS
  <2>1. stacks[k] = g[k] /\ k \in Nat
    <3> HIDE DEF stacks
    <3> QED BY <1>1, <1>9
  <2> HIDE DEF stacks
  <2> QED BY <1>3b, <2>1
<1> QED BY <1>8, <1>10

(* Containment of instances is a strict order, and goes with the sort:     *)
(* what contains an instance comes before it.                              *)
LEMMA ContainsLemma ==
    ASSUME NEW insts \in Seq(Instance)
    PROVE  /\ \A x \in DOMAIN insts : ~ContainsInst(insts[x], insts[x])
           /\ \A x, y, z \in DOMAIN insts :
                 ContainsInst(insts[x], insts[y]) /\ ContainsInst(insts[y], insts[z])
                     => ContainsInst(insts[x], insts[z])
           /\ \A x, y \in DOMAIN insts :
                 ContainsInst(insts[x], insts[y]) => Before(insts, x, y)
<1>1. \A x \in DOMAIN insts :
          insts[x].start \in Int /\ insts[x].end \in Int /\ insts[x].rank \in Int
  <2>1. \A x \in DOMAIN insts : insts[x] \in Instance
    OBVIOUS
  <2> QED BY <2>1 DEF Instance
<1>2. ASSUME NEW x \in DOMAIN insts PROVE ~ContainsInst(insts[x], insts[x])
  BY <1>1 DEF ContainsInst, SameRange
<1>3. ASSUME NEW x \in DOMAIN insts, NEW y \in DOMAIN insts, NEW z \in DOMAIN insts,
             ContainsInst(insts[x], insts[y]), ContainsInst(insts[y], insts[z])
      PROVE  ContainsInst(insts[x], insts[z])
  BY <1>1, <1>3, SMTT(30) DEF ContainsInst, SameRange, Covers
<1>4. ASSUME NEW x \in DOMAIN insts, NEW y \in DOMAIN insts, ContainsInst(insts[x], insts[y])
      PROVE  Before(insts, x, y)
  <2> DEFINE a == insts[x]
             b == insts[y]
  <2>1. /\ a.start \in Int /\ a.end \in Int /\ a.rank \in Int
        /\ b.start \in Int /\ b.end \in Int /\ b.rank \in Int
    BY <1>1
  <2>2. /\ a.start <= b.start /\ b.end <= a.end
        /\ a.start = b.start /\ a.end = b.end => a.rank < b.rank
    BY <1>4 DEF ContainsInst, SameRange, Covers
  <2> HIDE DEF a, b
  <2>3. \/ a.start < b.start
        \/ a.start = b.start /\ a.end > b.end
        \/ a.start = b.start /\ a.end = b.end /\ a.rank < b.rank
    BY <2>1, <2>2
  <2> QED BY <2>3 DEF Before, SameRange, a, b
<1> QED BY <1>2, <1>3, <1>4

(* The sweep's stack is a chain: every instance on it contains the ones    *)
(* above it, and the instance pushed last is on top.                       *)
StackShape(insts, order, k) ==
    LET s == SweepStacks(insts, order)[k]
    IN  /\ \A i \in 1 .. Len(s) : \E l \in 1 .. k : s[i] = order[l]
        /\ \A i, j \in 1 .. Len(s) : i < j => ContainsInst(insts[s[i]], insts[s[j]])
        /\ k > 0 => Len(s) > 0 /\ s[Len(s)] = order[k]

(* One push of the sweep, on a stack that is a chain.                      *)
LEMMA PushLemma ==
    ASSUME NEW insts \in Seq(Instance), NEW order \in Seq(DOMAIN insts),
           NEW k \in 1 .. Len(order)
    PROVE  LET s == SweepStacks(insts, order)[k - 1]
               t == SweepStacks(insts, order)[k]
           IN  /\ s \in Seq(DOMAIN insts) /\ t \in Seq(DOMAIN insts)
               /\ \E m \in 0 .. Len(s) :
                     /\ Len(t) = m + 1
                     /\ \A i \in 1 .. m : t[i] = s[i]
                     /\ t[m + 1] = order[k]
                     /\ m > 0 => ContainsInst(insts[s[m]], insts[order[k]])
                     /\ \A i \in m + 1 .. Len(s) : ~ContainsInst(insts[s[i]], insts[order[k]])
<1> DEFINE s == SweepStacks(insts, order)[k - 1]
           t == SweepStacks(insts, order)[k]
           u == Unwind(insts, s, order[k])
<1>1. s \in Seq(DOMAIN insts) /\ t \in Seq(DOMAIN insts) /\ t = Append(u, order[k])
  <2>1. k - 1 \in 0 .. Len(order) /\ k \in 0 .. Len(order)
    OBVIOUS
  <2> QED BY <2>1, SweepLemma
<1> HIDE DEF s, t
<1>2. /\ u \in Seq(DOMAIN insts)
      /\ \E m \in 0 .. Len(s) :
            /\ Len(u) = m
            /\ \A i \in 1 .. m : u[i] = s[i]
            /\ m > 0 => ContainsInst(insts[s[m]], insts[order[k]])
            /\ \A i \in m + 1 .. Len(s) : ~ContainsInst(insts[s[i]], insts[order[k]])
  BY <1>1, UnwindLemma, Zenon
<1> HIDE DEF u
<1>3. PICK m \in 0 .. Len(s) :
            /\ Len(u) = m
            /\ \A i \in 1 .. m : u[i] = s[i]
            /\ m > 0 => ContainsInst(insts[s[m]], insts[order[k]])
            /\ \A i \in m + 1 .. Len(s) : ~ContainsInst(insts[s[i]], insts[order[k]])
  BY <1>2
<1>4. order[k] \in DOMAIN insts
  OBVIOUS
<1>5. Len(t) = m + 1 /\ t[m + 1] = order[k] /\ \A i \in 1 .. m : t[i] = s[i]
  <2>1. DOMAIN u = 1 .. m /\ m \in Nat /\ m = Len(u)
    BY <1>2, <1>3
  <2>2. /\ Len(t) = Len(u) + 1 /\ t[Len(u) + 1] = order[k]
        /\ \A i \in 1 .. Len(u) : t[i] = u[i]
    BY <1>1, <1>2, <1>4, SMTT(30)
  <2> QED BY <1>3, <2>1, <2>2
<1> QED BY <1>1, <1>3, <1>5 DEF s, t

(* The stack has that shape after every push.                              *)
LEMMA StackLemma ==
    ASSUME NEW insts \in Seq(Instance), NEW order \in Seq(DOMAIN insts)
    PROVE  \A k \in 0 .. Len(order) : StackShape(insts, order, k)
<1> DEFINE S(k) == SweepStacks(insts, order)[k]
           T == {k \in Nat : k <= Len(order) => StackShape(insts, order, k)}
<1>1. 0 \in T
  <2>1. S(0) = <<>>
    BY SweepLemma
  <2>2. StackShape(insts, order, 0)
    BY <2>1 DEF StackShape
  <2> QED BY <2>2
<1>2. ASSUME NEW k0 \in Nat, k0 \in T PROVE k0 + 1 \in T
  <2> SUFFICES ASSUME k0 + 1 <= Len(order) PROVE StackShape(insts, order, k0 + 1)
    OBVIOUS
  <2> DEFINE k == k0 + 1
             s == S(k - 1)
             t == S(k)
  <2>1. k \in 1 .. Len(order) /\ k - 1 = k0 /\ StackShape(insts, order, k0) /\ k \in Nat
    BY <1>2
  <2>2. /\ s \in Seq(DOMAIN insts) /\ t \in Seq(DOMAIN insts)
        /\ \E m \in 0 .. Len(s) :
              /\ Len(t) = m + 1
              /\ \A i \in 1 .. m : t[i] = s[i]
              /\ t[m + 1] = order[k]
              /\ m > 0 => ContainsInst(insts[s[m]], insts[order[k]])
    <3> HIDE DEF k
    <3> QED BY <2>1, PushLemma
  <2>3. /\ \A i \in 1 .. Len(s) : \E l \in 1 .. k - 1 : s[i] = order[l]
        /\ \A i, j \in 1 .. Len(s) : i < j => ContainsInst(insts[s[i]], insts[s[j]])
    BY <2>1 DEF StackShape
  <2> HIDE DEF k, s, t
  <2>4. PICK m \in 0 .. Len(s) :
              /\ Len(t) = m + 1
              /\ \A i \in 1 .. m : t[i] = s[i]
              /\ t[m + 1] = order[k]
              /\ m > 0 => ContainsInst(insts[s[m]], insts[order[k]])
    BY <2>2
  <2>5. ASSUME NEW i \in 1 .. Len(t) PROVE \E l \in 1 .. k : t[i] = order[l]
    <3>1. CASE i = m + 1
      BY <2>1, <2>4, <3>1
    <3>2. CASE i # m + 1
      <4>1. i \in 1 .. m /\ i \in 1 .. Len(s)
        BY <2>2, <2>4, <3>2
      <4>2. PICK l \in 1 .. k - 1 : s[i] = order[l]
        BY <2>3, <4>1
      <4>3. l \in 1 .. k /\ t[i] = order[l]
        BY <2>1, <2>4, <4>1, <4>2
      <4> QED BY <4>3
    <3> QED BY <3>1, <3>2
  <2>6. ASSUME NEW i \in 1 .. Len(t), NEW j \in 1 .. Len(t), i < j
        PROVE  ContainsInst(insts[t[i]], insts[t[j]])
    <3>0. Len(s) \in Nat /\ Len(t) = m + 1
      BY <2>2, <2>4
    <3>1. i \in 1 .. m /\ i \in 1 .. Len(s) /\ m > 0 /\ m \in 1 .. Len(s) /\ t[i] = s[i]
      <4>1. i \in 1 .. m
        BY <3>0, <2>6
      <4> QED BY <3>0, <2>4, <4>1
    <3>2. CASE j = m + 1
      <4>1. ContainsInst(insts[s[m]], insts[t[j]])
        BY <2>4, <3>1, <3>2
      <4>2. CASE i = m
        BY <3>1, <4>1, <4>2
      <4>3. CASE i # m
        <5>1. ContainsInst(insts[s[i]], insts[s[m]])
          <6>1. i < m /\ i \in 1 .. Len(s) /\ m \in 1 .. Len(s)
            BY <3>1, <4>3
          <6> QED BY <2>3, <6>1
        <5>2. s[i] \in DOMAIN insts /\ s[m] \in DOMAIN insts /\ t[j] \in DOMAIN insts
          <6>1. s \in Seq(DOMAIN insts) /\ t \in Seq(DOMAIN insts)
            BY <2>2
          <6> QED BY <6>1, <3>1, ElementLemma
        <5> QED BY <3>1, <4>1, <5>1, <5>2, ContainsLemma, Zenon
      <4> QED BY <4>2, <4>3
    <3>3. CASE j # m + 1
      <4>1. j \in 1 .. m /\ j \in 1 .. Len(s) /\ t[j] = s[j]
        <5>1. j \in 1 .. m
          BY <3>0, <3>3
        <5> QED BY <3>0, <2>4, <5>1
      <4>2. ContainsInst(insts[s[i]], insts[s[j]])
        BY <2>3, <2>6, <3>1, <4>1
      <4> QED BY <3>1, <4>1, <4>2
    <3> QED BY <3>2, <3>3
  <2>7. Len(t) > 0 /\ t[Len(t)] = order[k]
    BY <2>4, <2>2
  <2>8. StackShape(insts, order, k)
    BY <2>5, <2>6, <2>7 DEF StackShape, t
  <2> QED BY <2>8 DEF k
<1>3. Nat \subseteq T
  <2> HIDE DEF T
  <2> QED BY <1>1, <1>2, SetInduction
<1> QED BY <1>3

(* A set of instances the sweep keeps: an instance of it only leaves the   *)
(* stack for another one of it.                                            *)
KeptBySweep(insts, order, T, n) ==
    \A i, j \in 1 .. n :
        i < j /\ order[i] \in T /\ ~ContainsInst(insts[order[i]], insts[order[j]])
            => order[j] \in T

(* The order is ascending.                                                 *)
Ascending(insts, order) ==
    \A i, j \in 1 .. Len(order) : i < j => Before(insts, order[i], order[j])

(* The stack holds, for every instance of such a set met so far, an        *)
(* instance of the set that does not contain it.                           *)
LEMMA KeptLemma ==
    ASSUME NEW insts \in Seq(Instance), NEW order \in Seq(DOMAIN insts),
           Ascending(insts, order),
           NEW n \in 0 .. Len(order), NEW T, KeptBySweep(insts, order, T, n)
    PROVE  LET s == SweepStacks(insts, order)[n]
           IN  \A l \in 1 .. n : order[l] \in T =>
                   \E i \in 1 .. Len(s) : s[i] \in T /\ ~ContainsInst(insts[s[i]], insts[order[l]])
<1> DEFINE S(k) == SweepStacks(insts, order)[k]
           Has(k, l) == \E i \in 1 .. Len(S(k)) :
                           S(k)[i] \in T /\ ~ContainsInst(insts[S(k)[i]], insts[order[l]])
           U == {k \in Nat : k <= n => \A l \in 1 .. k : order[l] \in T => Has(k, l)}
<1>1. 0 \in U
  <2> HIDE DEF Has
  <2> QED OBVIOUS
<1>2. ASSUME NEW k0 \in Nat, k0 \in U PROVE k0 + 1 \in U
  <2> SUFFICES ASSUME k0 + 1 <= n, NEW l \in 1 .. k0 + 1, order[l] \in T
               PROVE  Has(k0 + 1, l)
    <3> HIDE DEF Has
    <3> QED OBVIOUS
  <2> DEFINE k == k0 + 1
             s == S(k - 1)
             t == S(k)
             z == order[k]
  <2>1. /\ k \in 1 .. Len(order) /\ k \in Nat /\ k - 1 = k0 /\ k0 <= n /\ k \in 1 .. n
        /\ k - 1 \in 0 .. Len(order) /\ l \in 1 .. k /\ n \in Nat
    OBVIOUS
  <2>2. /\ s \in Seq(DOMAIN insts) /\ t \in Seq(DOMAIN insts)
        /\ \E m \in 0 .. Len(s) :
              /\ Len(t) = m + 1
              /\ \A i \in 1 .. m : t[i] = s[i]
              /\ t[m + 1] = z
              /\ \A i \in m + 1 .. Len(s) : ~ContainsInst(insts[s[i]], insts[z])
    <3> HIDE DEF k
    <3> QED BY <2>1, PushLemma
  <2>3. \A i \in 1 .. Len(s) : \E j \in 1 .. k - 1 : s[i] = order[j]
    <3> HIDE DEF k
    <3> QED BY <2>1, StackLemma DEF StackShape
  <2>4. l # k /\ order[l] \in T => Has(k - 1, l)
    <3>1. l # k => l \in 1 .. k0
      OBVIOUS
    <3>2. \A j \in 1 .. k0 : order[j] \in T => Has(k0, j)
      <4> HIDE DEF Has
      <4> QED BY <1>2, <2>1
    <3> HIDE DEF Has, k
    <3> QED BY <2>1, <3>1, <3>2
  <2> SUFFICES Has(k, l)
    OBVIOUS
  <2>5. \A x \in DOMAIN insts : ~ContainsInst(insts[x], insts[x])
    BY ContainsLemma
  <2> HIDE DEF k, Has
  <2>6. Len(s) \in Nat /\ Len(t) \in Nat /\ z \in DOMAIN insts /\ order[l] \in DOMAIN insts
    <3>1. k \in 1 .. Len(order) /\ l \in 1 .. Len(order)
      BY <2>1
    <3>2. z \in DOMAIN insts /\ order[l] \in DOMAIN insts
      BY <3>1, ElementLemma
    <3>3. Len(s) \in Nat /\ Len(t) \in Nat
      <4> HIDE DEF s, t
      <4> QED BY <2>2
    <3> QED BY <3>2, <3>3
  <2> HIDE DEF s, t, z
  <2>7. PICK m \in 0 .. Len(s) :
              /\ Len(t) = m + 1
              /\ \A i \in 1 .. m : t[i] = s[i]
              /\ t[m + 1] = z
              /\ \A i \in m + 1 .. Len(s) : ~ContainsInst(insts[s[i]], insts[z])
    BY <2>2
  <2>8. m + 1 \in 1 .. Len(t)
    BY <2>6, <2>7
  <2>9. CASE l = k
    <3>1. t[m + 1] \in T /\ ~ContainsInst(insts[t[m + 1]], insts[order[l]])
      BY <2>5, <2>6, <2>7, <2>9 DEF z
    <3> QED BY <2>8, <3>1 DEF Has, t
  <2>10. CASE l # k
    <3>1. PICK i \in 1 .. Len(s) : s[i] \in T /\ ~ContainsInst(insts[s[i]], insts[order[l]])
      BY <2>4, <2>10 DEF Has, s
    <3>2. CASE i <= m
      <4>1. i \in 1 .. Len(t) /\ t[i] = s[i]
        BY <2>6, <2>7, <3>1, <3>2
      <4> QED BY <3>1, <4>1 DEF Has, t
    <3>3. CASE ~(i <= m)
      <4>1. ~ContainsInst(insts[s[i]], insts[z])
        BY <2>6, <2>7, <3>1, <3>3
      <4>2. PICK j \in 1 .. k - 1 : s[i] = order[j]
        BY <2>3, <3>1
      <4>3. z \in T
        <5>1. j \in 1 .. n /\ j < k
          <6>1. k \in Nat /\ n \in Nat /\ k <= n
            BY <2>1
          <6>2. \A p \in Nat, q \in Nat : p <= q => \A r \in 1 .. p - 1 : r \in 1 .. q /\ r < p
            OBVIOUS
          <6> HIDE DEF S, s, U, Has
          <6>3. j \in 1 .. k - 1
            OBVIOUS
          <6> QED BY <6>1, <6>2, <6>3
        <5>2. \A p, q \in 1 .. n : p < q /\ order[p] \in T /\ ~ContainsInst(insts[order[p]], insts[order[q]])
                  => order[q] \in T
          BY DEF KeptBySweep
        <5>3. order[j] \in T /\ ~ContainsInst(insts[order[j]], insts[order[k]])
          BY <3>1, <4>1, <4>2 DEF z
        <5>4. k \in 1 .. n
          BY <2>1
        <5> QED BY <5>1, <5>2, <5>3, <5>4 DEF z
      <4>4. Before(insts, order[l], z)
        <5>1. l \in 1 .. Len(order) /\ k \in 1 .. Len(order) /\ l < k
          BY <2>1, <2>10
        <5> QED BY <5>1 DEF Ascending, z
      <4>5. ~ContainsInst(insts[z], insts[order[l]])
        BY <2>6, <4>4, ContainsLemma, BeforeIsTotal
      <4>6. t[m + 1] \in T /\ ~ContainsInst(insts[t[m + 1]], insts[order[l]])
        BY <2>7, <4>3, <4>5
      <4> QED BY <2>8, <4>6 DEF Has, t
    <3> QED BY <3>2, <3>3
  <2> QED BY <2>9, <2>10
<1>3. Nat \subseteq U
  <2> HIDE DEF U
  <2> QED BY <1>1, <1>2, SetInduction
<1>4. \A l \in 1 .. n : order[l] \in T => Has(n, l)
  <2>1. n \in U
    BY <1>3
  <2> HIDE DEF Has
  <2> QED BY <2>1
<1> QED BY <1>4

(* The topmost instance of such a set on the stack is innermost in it: it  *)
(* contains no instance of the set met so far; and if there is none on the *)
(* stack, none of the set has been met.                                    *)
LEMMA TopmostLemma ==
    ASSUME NEW insts \in Seq(Instance), NEW order \in Seq(DOMAIN insts),
           Ascending(insts, order),
           NEW n \in 0 .. Len(order), NEW T, KeptBySweep(insts, order, T, n),
           NEW top \in 0 .. Len(SweepStacks(insts, order)[n]),
           top > 0 => SweepStacks(insts, order)[n][top] \in T,
           \A i \in top + 1 .. Len(SweepStacks(insts, order)[n]) :
               SweepStacks(insts, order)[n][i] \notin T
    PROVE  \A l \in 1 .. n : order[l] \in T =>
               /\ top > 0
               /\ ~ContainsInst(insts[SweepStacks(insts, order)[n][top]], insts[order[l]])
<1> DEFINE s == SweepStacks(insts, order)[n]
<1>1. s \in Seq(DOMAIN insts) /\ Len(s) \in Nat
  BY SweepLemma
<1>2. \A i, j \in 1 .. Len(s) : i < j => ContainsInst(insts[s[i]], insts[s[j]])
  BY StackLemma DEF StackShape
<1>3. ASSUME NEW l \in 1 .. n, order[l] \in T
      PROVE  top > 0 /\ ~ContainsInst(insts[s[top]], insts[order[l]])
  <2>1. PICK i \in 1 .. Len(s) : s[i] \in T /\ ~ContainsInst(insts[s[i]], insts[order[l]])
    BY <1>3, KeptLemma
  <2> HIDE DEF s
  <2>2. i <= top /\ top > 0 /\ top \in 1 .. Len(s)
    BY <1>1, <2>1, SMTT(30) DEF s
  <2>3. l \in 1 .. Len(order)
    OBVIOUS
  <2>4. s[i] \in DOMAIN insts /\ s[top] \in DOMAIN insts /\ order[l] \in DOMAIN insts
    BY <1>1, <2>2, <2>3, ElementLemma
  <2>5. CASE i = top
    BY <2>1, <2>2, <2>5
  <2>6. CASE i # top
    <3>1. ContainsInst(insts[s[i]], insts[s[top]])
      <4>1. i \in Nat /\ top \in Nat /\ i < top
        BY <1>1, <2>2, <2>6
      <4> HIDE DEF s
      <4>2. \A p, q \in 1 .. Len(s) : p < q => ContainsInst(insts[s[p]], insts[s[q]])
        BY <1>2
      <4> QED BY <2>2, <4>1, <4>2
    <3> QED BY <2>1, <2>2, <2>4, <3>1, ContainsLemma
  <2> QED BY <2>5, <2>6
<1> QED BY <1>3

(* The order of the sweep: every instance once, each after the ones before *)
(* it.                                                                     *)
LEMMA OrderLemma ==
    ASSUME NEW insts \in Seq(Instance)
    PROVE  /\ Order(insts) \in Seq(DOMAIN insts)
           /\ Len(Order(insts)) = Len(insts)
           /\ Ascending(insts, Order(insts))
           /\ \A x \in DOMAIN insts : \E k \in 1 .. Len(insts) : Order(insts)[k] = x
           /\ \A i, j \in 1 .. Len(insts) : Order(insts)[i] = Order(insts)[j] => i = j
<1>1. Cardinality(DOMAIN insts) = Len(insts)
  <2>1. DOMAIN insts = 1 .. Len(insts) /\ Len(insts) \in Nat /\ 1 \in Int /\ Len(insts) \in Int
    OBVIOUS
  <2>2. Cardinality(1 .. Len(insts)) = IF 1 > Len(insts) THEN 0 ELSE Len(insts) - 1 + 1
    BY <2>1, FS_Interval
  <2> QED BY <2>1, <2>2
<1>2. DOMAIN insts \subseteq DOMAIN insts
  OBVIOUS
<1>3. /\ Sorted(insts, DOMAIN insts) \in Seq(DOMAIN insts)
      /\ Len(Sorted(insts, DOMAIN insts)) = Len(insts)
  BY <1>1, <1>2, SortedLemma
<1>4. \A s \in Seq(DOMAIN insts) : SubSeq(s, 1, Len(s)) = s
  OBVIOUS
<1>5. Order(insts) = Sorted(insts, DOMAIN insts)
  BY <1>3, <1>4 DEF Order
<1> DEFINE order == Sorted(insts, DOMAIN insts)
<1>6. /\ \A i, j \in 1 .. Len(insts) : i < j => Before(insts, order[i], order[j])
      /\ \A x \in DOMAIN insts : \E k \in 1 .. Len(insts) : order[k] = x
      /\ \A i, j \in 1 .. Len(insts) : order[i] = order[j] => i = j
  <2>1. /\ \A x \in DOMAIN insts : \E k \in 1 .. Len(order) : order[k] = x
        /\ \A i, j \in 1 .. Len(order) : i < j => Before(insts, order[i], order[j])
        /\ \A i, j \in 1 .. Len(order) : order[i] = order[j] => i = j
    BY <1>2, SortedLemma, Zenon
  <2> HIDE DEF order
  <2>2. Len(order) = Len(insts)
    BY <1>3 DEF order
  <2> QED BY <2>1, <2>2
<1> HIDE DEF order
<1>7. Order(insts) = order /\ order \in Seq(DOMAIN insts) /\ Len(order) = Len(insts)
  BY <1>3, <1>5 DEF order
<1> QED BY <1>6, <1>7 DEF Ascending

(* No instance ends before it starts. *)
Proper(insts) == \A x \in DOMAIN insts : insts[x].start <= insts[x].end

(* What covers a range is kept by the sweep as far as it has not gone past *)
(* the range's start: an instance that pops a covering one covers too.     *)
LEMMA CoveringKept ==
    ASSUME NEW insts \in Seq(Instance),
           NEW c \in DOMAIN insts, NEW z \in DOMAIN insts, Before(insts, c, z),
           NEW from \in Int, NEW to \in Int, from <= to,
           insts[c].start <= from, to <= insts[c].end,
           ~ContainsInst(insts[c], insts[z]),
           insts[z].start <= from
    PROVE  /\ to <= insts[z].end
           /\ \/ SameRange(insts[c], insts[z]) /\ insts[c].rank = insts[z].rank
              \/ to < insts[z].end
<1>1. \A x \in DOMAIN insts :
          insts[x].start \in Int /\ insts[x].end \in Int /\ insts[x].rank \in Int
  <2>1. \A x \in DOMAIN insts : insts[x] \in Instance
    OBVIOUS
  <2> QED BY <2>1 DEF Instance
<1> QED BY <1>1 DEF Before, ContainsInst, Covers, SameRange

(* The derived parent of an instance is an instance that contains it.      *)
LEMMA DerivedLemma ==
    ASSUME NEW insts \in Seq(Instance), NEW x \in DOMAIN insts
    PROVE  /\ DOMAIN Derived(insts) = DOMAIN insts
           /\ \/ Derived(insts)[x] = NoParent
              \/ /\ Derived(insts)[x] \in DOMAIN insts
                 /\ ContainsInst(insts[Derived(insts)[x]], insts[x])
           /\ Proper(insts) =>
                 \A c \in DOMAIN insts : ContainsInst(insts[c], insts[x]) =>
                     /\ Derived(insts)[x] # NoParent
                     /\ ~ContainsInst(insts[Derived(insts)[x]], insts[c])
<1> DEFINE order == Order(insts)
           stacks == SweepStacks(insts, order)
           At(y) == CHOOSE k \in DOMAIN order : order[k] = y
           k == At(x)
           s == stacks[k - 1]
           u == Unwind(insts, s, order[k])
           d == IF u = <<>> THEN NoParent ELSE Last(u)
<1>1. DOMAIN Derived(insts) = DOMAIN insts /\ Derived(insts)[x] = d
  BY DEF Derived
<1>2. /\ order \in Seq(DOMAIN insts) /\ Len(order) = Len(insts) /\ Ascending(insts, order)
      /\ DOMAIN order = 1 .. Len(order)
  BY OrderLemma
<1>3. k \in 1 .. Len(order) /\ order[k] = x
  <2>1. \E j \in DOMAIN order : order[j] = x
    <3> HIDE DEF order
    <3> QED BY <1>2, OrderLemma DEF order
  <2> HIDE DEF order
  <2> QED BY <1>2, <2>1
<1> HIDE DEF k, At, d
<1>4. s \in Seq(DOMAIN insts) /\ StackShape(insts, order, k - 1)
  <2>1. k - 1 \in 0 .. Len(order)
    BY <1>3
  <2> HIDE DEF order
  <2> QED BY <1>2, <2>1, SweepLemma, StackLemma
<1>5. /\ u \in Seq(DOMAIN insts)
      /\ \E m \in 0 .. Len(s) :
            /\ Len(u) = m
            /\ \A i \in 1 .. m : u[i] = s[i]
            /\ m > 0 => ContainsInst(insts[s[m]], insts[order[k]])
            /\ \A i \in m + 1 .. Len(s) : ~ContainsInst(insts[s[i]], insts[order[k]])
  <2> HIDE DEF s, order
  <2> QED BY <1>4, UnwindLemma, Zenon DEF u
<1> HIDE DEF s, u, stacks, order
<1>6. PICK m \in 0 .. Len(s) :
            /\ Len(u) = m
            /\ \A i \in 1 .. m : u[i] = s[i]
            /\ m > 0 => ContainsInst(insts[s[m]], insts[x])
            /\ \A i \in m + 1 .. Len(s) : ~ContainsInst(insts[s[i]], insts[x])
  BY <1>3, <1>5
<1>7. (m = 0 => d = NoParent) /\ (m > 0 => d = s[m] /\ d \in DOMAIN insts)
  <2>1. CASE m = 0
    <3>1. u = <<>>
      BY <1>5, <1>6, <2>1
    <3> QED BY <2>1, <3>1 DEF d
  <2>2. CASE m > 0
    <3>1. u # <<>> /\ Last(u) = u[m] /\ m \in 1 .. m /\ m \in 1 .. Len(s)
      BY <1>4, <1>5, <1>6, <2>2 DEF Last
    <3>2. s[m] \in DOMAIN insts
      BY <1>4, <3>1, ElementLemma
    <3> QED BY <1>6, <2>2, <3>1, <3>2 DEF d
  <2>3. m = 0 \/ m > 0
    BY <1>4
  <2> QED BY <2>1, <2>2, <2>3
<1>8. m = 0 \/ m > 0
  BY <1>4
<1>9. ASSUME Proper(insts), NEW c \in DOMAIN insts, ContainsInst(insts[c], insts[x])
      PROVE  d # NoParent /\ ~ContainsInst(insts[d], insts[c])
  <2> DEFINE T == {y \in DOMAIN insts : ContainsInst(insts[y], insts[x])}
             n == k - 1
  <2>1. n \in 0 .. Len(order) /\ n + 1 = k /\ n \in Nat
    BY <1>3
  <2>2. ASSUME NEW i \in 1 .. n, NEW j \in 1 .. n,
               i < j, order[i] \in T, ~ContainsInst(insts[order[i]], insts[order[j]])
        PROVE  order[j] \in T
    <3>1. i \in 1 .. Len(order) /\ j \in 1 .. Len(order) /\ j < k
      BY <1>3
    <3>2. order[i] \in DOMAIN insts /\ order[j] \in DOMAIN insts
      BY <1>2, <3>1, ElementLemma
    <3>3. Before(insts, order[i], order[j]) /\ Before(insts, order[j], x)
      BY <1>2, <1>3, <2>2, <3>1 DEF Ascending
    <3>4. \A y \in DOMAIN insts :
             insts[y].start \in Int /\ insts[y].end \in Int /\ insts[y].rank \in Int
      <4>1. \A y \in DOMAIN insts : insts[y] \in Instance
        OBVIOUS
      <4> QED BY <4>1 DEF Instance
    <3>5. ContainsInst(insts[order[i]], insts[x])
      BY <2>2
    <3> DEFINE a == order[i]
               z == order[j]
    <3> HIDE DEF a, z, T, n
    <3>6. insts[x].start <= insts[x].end /\ insts[z].start <= insts[x].start
      BY <1>9, <3>2, <3>3, <3>4 DEF Proper, Before, SameRange, z
    <3>7. /\ insts[x].end <= insts[z].end
          /\ \/ SameRange(insts[a], insts[z]) /\ insts[a].rank = insts[z].rank
             \/ insts[x].end < insts[z].end
      <4>1. /\ a \in DOMAIN insts /\ z \in DOMAIN insts /\ Before(insts, a, z)
            /\ ~ContainsInst(insts[a], insts[z]) /\ ContainsInst(insts[a], insts[x])
        BY <2>2, <3>2, <3>3, <3>5 DEF a, z
      <4>2. insts[a].start <= insts[x].start /\ insts[x].end <= insts[a].end
        BY <4>1 DEF ContainsInst, Covers
      <4> QED BY <1>9, <3>4, <3>6, <4>1, <4>2, CoveringKept
    <3>8. ContainsInst(insts[z], insts[x])
      <4>1. a \in DOMAIN insts /\ z \in DOMAIN insts /\ ContainsInst(insts[a], insts[x])
        BY <3>2, <3>5 DEF a, z
      <4> QED BY <3>4, <3>6, <3>7, <4>1 DEF ContainsInst, Covers, SameRange
    <3> QED BY <3>2, <3>8 DEF T, z
  <2>3. KeptBySweep(insts, order, T, n)
    <3> HIDE DEF T, n
    <3> QED BY <2>2 DEF KeptBySweep
  <2>4. \E l \in 1 .. n : order[l] = c
    <3>1. PICK l \in 1 .. Len(order) : order[l] = c
      BY <1>2, OrderLemma DEF order
    <3>2. Before(insts, c, x)
      BY <1>9, ContainsLemma
    <3>3. ~(k <= l)
      <4> SUFFICES ASSUME k <= l PROVE FALSE
        OBVIOUS
      <4>1. k = l \/ Before(insts, x, c)
        <5>1. k # l => k < l
          BY <1>3, <3>1
        <5>2. k < l => Before(insts, order[k], order[l])
          BY <1>2, <1>3, <3>1 DEF Ascending
        <5> QED BY <1>3, <3>1, <5>1, <5>2
      <4> QED BY <1>3, <3>1, <3>2, <4>1, BeforeIsTotal
    <3>4. l \in 1 .. n
      BY <1>3, <3>1, <3>3
    <3> QED BY <3>1, <3>4
  <2>5. s = SweepStacks(insts, order)[n]
    BY DEF s, stacks
  <2>6. (m > 0 => s[m] \in T) /\ \A i \in m + 1 .. Len(s) : s[i] \notin T
    <3>1. m > 0 => s[m] \in DOMAIN insts
      BY <1>7
    <3> QED BY <1>6, <3>1
  <2>7. c \in T
    BY <1>9
  <2> HIDE DEF T, n
  <2>8. \A l \in 1 .. n : order[l] \in T =>
             m > 0 /\ ~ContainsInst(insts[s[m]], insts[order[l]])
    BY <1>2, <1>6, <2>1, <2>3, <2>5, <2>6, TopmostLemma
  <2>9. m > 0 /\ ~ContainsInst(insts[s[m]], insts[c])
    BY <2>4, <2>7, <2>8
  <2>10. \A y \in DOMAIN insts : y # NoParent
    BY DEF NoParent
  <2> QED BY <1>7, <2>9, <2>10
<1>10. d = NoParent \/ (d \in DOMAIN insts /\ ContainsInst(insts[d], insts[x]))
  BY <1>6, <1>7, <1>8
<1> QED BY <1>1, <1>9, <1>10

(* The owner of a reference is an instance that covers it, and the         *)
(* innermost one that does when the instances do not overlap partially.    *)
LEMMA OwnerLemma ==
    ASSUME NEW insts \in Seq(Instance), NEW ref \in [start : Int, end : Int]
    PROVE  /\ \/ Owner(insts, ref) = NoParent
              \/ /\ Owner(insts, ref) \in DOMAIN insts
                 /\ Covers(insts[Owner(insts, ref)], ref)
           /\ Proper(insts) /\ ref.start <= ref.end =>
                 \A c \in DOMAIN insts : Covers(insts[c], ref) =>
                     /\ Owner(insts, ref) # NoParent
                     /\ ~ContainsInst(insts[Owner(insts, ref)], insts[c])
<1> DEFINE order == Order(insts)
           Late(k) == insts[order[k]].start > ref.start
           later == {k \in 2 .. Len(order) : Late(k)}
           first == CHOOSE k \in later : \A l \in later : k <= l
           n == IF later = {} THEN Len(order) ELSE first - 1
           s == SweepStacks(insts, order)[n]
           I == {i \in 1 .. Len(s) : Covers(insts[s[i]], ref)}
           top == IF I # {} THEN Max(I) ELSE 0
           o == IF top = 0 THEN NoParent ELSE s[top]
<1>1. Owner(insts, ref) = o
  BY DEF Owner, SelectLastInSeq
<1>2. order \in Seq(DOMAIN insts) /\ Len(order) = Len(insts) /\ Ascending(insts, order)
      /\ Len(order) \in Nat
  BY OrderLemma
<1>3. /\ \A y \in DOMAIN insts :
             insts[y].start \in Int /\ insts[y].end \in Int /\ insts[y].rank \in Int
      /\ ref.start \in Int /\ ref.end \in Int
  <2>1. \A y \in DOMAIN insts : insts[y] \in Instance
    OBVIOUS
  <2> QED BY <2>1 DEF Instance
<1> HIDE DEF order
<1>4. later = {} \/ (first \in later /\ \A l \in later : first <= l)
  <2>1. later \subseteq Nat
    OBVIOUS
  <2>2. later = {} \/ \E k \in later : \A l \in later : k <= l
    <3> HIDE DEF later
    <3> QED BY <2>1, LeastNat
  <2> HIDE DEF later
  <2> QED BY <2>2
<1> HIDE DEF first
<1>5. /\ n \in 0 .. Len(order)
      /\ \A j \in 2 .. n : ~Late(j)
      /\ \A l \in n + 1 .. Len(order) :
            l = first \/ (first < l /\ first \in 1 .. Len(order))
      /\ n < Len(order) => Late(first)
  <2>1. CASE later = {}
    <3>1. n = Len(order)
      BY <2>1
    <3>2. \A j \in 2 .. Len(order) : ~Late(j)
      BY <2>1
    <3> HIDE DEF n, later, Late
    <3> QED BY <1>2, <3>1, <3>2
  <2>2. CASE later # {}
    <3>1. first \in 2 .. Len(order) /\ Late(first)
      BY <1>4, <2>2
    <3>2. n = first - 1
      BY <2>2
    <3>3. \A j \in 2 .. Len(order) : Late(j) => first <= j
      BY <1>4, <2>2
    <3> HIDE DEF n, later, Late
    <3>4. \A j \in 2 .. n : ~Late(j)
      BY <1>2, <3>1, <3>2, <3>3
    <3> QED BY <1>2, <3>1, <3>2, <3>4
  <2> QED BY <2>1, <2>2
<1> HIDE DEF n, later
<1>6. s \in Seq(DOMAIN insts) /\ Len(s) \in Nat
  BY <1>2, <1>5, SweepLemma
<1> HIDE DEF s
<1>7. /\ top \in 0 .. Len(s)
      /\ top > 0 => Covers(insts[s[top]], ref) /\ s[top] \in DOMAIN insts
      /\ \A i \in top + 1 .. Len(s) : ~Covers(insts[s[i]], ref)
  <2>1. CASE I = {}
    <3>1. top = 0
      BY <2>1
    <3>2. \A i \in 1 .. Len(s) : i \notin I
      BY <2>1
    <3>3. \A i \in 1 .. Len(s) : ~Covers(insts[s[i]], ref)
      BY <3>2
    <3> HIDE DEF top, I
    <3>4. top \in 0 .. Len(s) /\ ~(top > 0) /\ top + 1 = 1
      BY <1>6, <3>1
    <3> QED BY <3>3, <3>4
  <2>2. CASE I # {}
    <3>1. I \subseteq 0 .. Len(s)
      BY <1>6
    <3>2. Max(I) \in I /\ \A i \in I : i <= Max(I)
      <4> HIDE DEF I
      <4> QED BY <1>6, <2>2, <3>1, Greatest
    <3>3. top = Max(I)
      BY <2>2
    <3> HIDE DEF top
    <3>4. top \in 1 .. Len(s) /\ Covers(insts[s[top]], ref)
      BY <3>2, <3>3
    <3>5. \A i \in 1 .. Len(s) : Covers(insts[s[i]], ref) => i <= top
      BY <3>2, <3>3
    <3>6. s[top] \in DOMAIN insts
      BY <1>6, <3>4, ElementLemma
    <3> HIDE DEF I
    <3> QED BY <1>6, <3>4, <3>5, <3>6
  <2> QED BY <2>1, <2>2
<1> HIDE DEF top, I
<1>8. top \in Nat /\ (top = 0 => o = NoParent) /\ (top > 0 => o = s[top])
  BY <1>6, <1>7
<1>9. ASSUME Proper(insts), ref.start <= ref.end, NEW c \in DOMAIN insts, Covers(insts[c], ref)
      PROVE  o # NoParent /\ ~ContainsInst(insts[o], insts[c])
  <2> DEFINE T == {y \in DOMAIN insts : Covers(insts[y], ref)}
  <2>1. ASSUME NEW i \in 1 .. n, NEW j \in 1 .. n,
               i < j, order[i] \in T, ~ContainsInst(insts[order[i]], insts[order[j]])
        PROVE  order[j] \in T
    <3>1. i \in 1 .. Len(order) /\ j \in 1 .. Len(order) /\ j \in 2 .. n
      <4>1. n \in 0 .. Len(order)
        BY <1>5
      <4>2. i < j /\ Len(order) \in Nat
        BY <1>2, <2>1
      <4> HIDE DEF T
      <4> QED BY <4>1, <4>2
    <3> DEFINE a == order[i]
               z == order[j]
    <3>2. a \in DOMAIN insts /\ z \in DOMAIN insts /\ Before(insts, a, z)
      BY <1>2, <2>1, <3>1, ElementLemma DEF Ascending
    <3>3. /\ ~ContainsInst(insts[a], insts[z])
          /\ insts[a].start <= ref.start /\ ref.end <= insts[a].end
      BY <2>1 DEF Covers
    <3>4. ~(insts[z].start > ref.start)
      BY <1>5, <3>1
    <3> HIDE DEF a, z, T
    <3>5. insts[z].start <= ref.start
      BY <1>3, <3>2, <3>4
    <3>6. ref.end <= insts[z].end
      BY <1>3, <1>9, <3>2, <3>3, <3>5, CoveringKept
    <3> QED BY <3>2, <3>5, <3>6 DEF T, Covers, z
  <2>2. KeptBySweep(insts, order, T, n)
    <3> HIDE DEF T
    <3> QED BY <2>1 DEF KeptBySweep
  <2>3. \E l \in 1 .. n : order[l] = c
    <3>1. PICK l \in 1 .. Len(order) : order[l] = c
      BY <1>2, OrderLemma DEF order
    <3>2. insts[c].start <= ref.start
      BY <1>9 DEF Covers
    <3>3. ~(l > n)
      <4> SUFFICES ASSUME l > n PROVE FALSE
        OBVIOUS
      <4>1. n < Len(order) /\ l \in n + 1 .. Len(order)
        BY <1>2, <1>5, <3>1
      <4>2. insts[order[first]].start > ref.start
        BY <1>5, <4>1
      <4>3. CASE l = first
        BY <1>3, <3>1, <3>2, <4>2, <4>3
      <4>4. CASE first < l /\ first \in 1 .. Len(order)
        <5>1. order[first] \in DOMAIN insts /\ Before(insts, order[first], c)
          BY <1>2, <3>1, <4>4, ElementLemma DEF Ascending
        <5>2. insts[order[first]].start <= insts[c].start
          BY <1>3, <5>1 DEF Before, SameRange
        <5> QED BY <1>3, <3>2, <4>2, <5>1, <5>2
      <4> QED BY <1>5, <4>1, <4>3, <4>4
    <3>4. l \in 1 .. n
      BY <1>2, <1>5, <3>1, <3>3
    <3> QED BY <3>1, <3>4
  <2>4. (top > 0 => s[top] \in T) /\ \A i \in top + 1 .. Len(s) : s[i] \notin T
    BY <1>7
  <2>5. c \in T
    BY <1>9
  <2> HIDE DEF T
  <2>6. \A l \in 1 .. n : order[l] \in T =>
             top > 0 /\ ~ContainsInst(insts[s[top]], insts[order[l]])
    BY <1>2, <1>5, <1>7, <2>2, <2>4, TopmostLemma DEF s
  <2>7. top > 0 /\ ~ContainsInst(insts[s[top]], insts[c])
    BY <2>3, <2>5, <2>6
  <2>8. \A y \in DOMAIN insts : y # NoParent
    BY DEF NoParent
  <2> HIDE DEF o
  <2> QED BY <1>7, <1>8, <2>7, <2>8
<1>10. o = NoParent \/ (o \in DOMAIN insts /\ Covers(insts[o], ref))
  <2> HIDE DEF o
  <2> QED BY <1>7, <1>8
<1> HIDE DEF o
<1> QED BY <1>1, <1>9, <1>10

(* Climbing, step by step.                                                 *)
LEMMA ClimbLemma ==
    ASSUME NEW N, NoParent \notin N, NEW parent \in [N -> N \cup {NoParent}],
           NEW x \in N \cup {NoParent}
    PROVE  /\ Climb(parent, x, 0) = x
           /\ \A n \in Nat :
                 /\ Climb(parent, x, n) \in N \cup {NoParent}
                 /\ Climb(parent, x, n + 1) =
                       IF Climb(parent, x, n) = NoParent THEN NoParent
                       ELSE parent[Climb(parent, x, n)]
<1> DEFINE S == N \cup {NoParent}
           Up(y) == IF y = NoParent THEN NoParent ELSE parent[y]
           step == [n \in Nat |-> [y \in S |-> Up(y)]]
           Def(f) == f = [k \in Nat |-> IF k = 0 THEN x ELSE Up(f[k - 1])]
           up == CHOOSE f : Def(f)
<1>1. \A y \in S : Up(y) \in S
  OBVIOUS
<1>2. IsStep(S, step)
  <2> HIDE DEF S, Up
  <2> QED BY <1>1 DEF IsStep
<1>3. PICK g : g \in [Nat -> S] /\ Iterates(g, x, step)
  <2> HIDE DEF step
  <2> QED BY <1>2, Recursion
<1> HIDE DEF S, Up
<1>4. g[0] = x /\ \A n \in Nat : g[n] \in S /\ g[n + 1] = Up(g[n])
  <2>1. g[0] = x /\ \A n \in Nat : g[n + 1] = step[n][g[n]]
    <3> HIDE DEF step
    <3> QED BY <1>3 DEF Iterates
  <2>2. ASSUME NEW n \in Nat PROVE g[n] \in S /\ g[n + 1] = Up(g[n])
    <3>1. g[n] \in S
      BY <1>3
    <3> QED BY <2>1, <3>1
  <2> QED BY <2>1, <2>2
<1>5. g = [k \in Nat |-> IF k = 0 THEN x ELSE Up(g[k - 1])]
  <2>1. ASSUME NEW k \in Nat PROVE g[k] = IF k = 0 THEN x ELSE Up(g[k - 1])
    <3>1. CASE k = 0
      BY <1>4, <3>1
    <3>2. CASE k # 0
      <4>1. k - 1 \in Nat /\ (k - 1) + 1 = k
        BY <3>2
      <4>2. g[(k - 1) + 1] = Up(g[k - 1])
        BY <1>4, <4>1
      <4> QED BY <3>2, <4>1, <4>2
    <3> QED BY <3>1, <3>2
  <2> HIDE DEF step
  <2> QED BY <1>3, <2>1
<1>6. Def(up)
  <2>1. Def(g)
    BY <1>5
  <2> HIDE DEF Def
  <2> QED BY <2>1
<1> HIDE DEF up
<1>7. \A n \in Nat : Climb(parent, x, n) = up[n]
  BY DEF Climb, up, Up
<1>8. \A n \in Nat : up[n] = IF n = 0 THEN x ELSE Up(up[n - 1])
  BY <1>6, Zenon
<1>9. \A n \in Nat : up[n] = g[n]
  <2> DEFINE T == {n \in Nat : up[n] = g[n]}
  <2>1. 0 \in T
    BY <1>4, <1>8
  <2>2. ASSUME NEW n \in Nat, n \in T PROVE n + 1 \in T
    <3>1. n + 1 \in Nat /\ n + 1 # 0 /\ (n + 1) - 1 = n
      OBVIOUS
    <3>2. up[n + 1] = Up(up[n])
      BY <1>8, <3>1
    <3> QED BY <1>4, <2>2, <3>1, <3>2
  <2>3. Nat \subseteq T
    <3> HIDE DEF T
    <3> QED BY <2>1, <2>2, SetInduction
  <2> QED BY <2>3
<1>10. ASSUME NEW n \in Nat
       PROVE  /\ Climb(parent, x, n) \in N \cup {NoParent}
              /\ Climb(parent, x, n + 1) = Up(Climb(parent, x, n))
  <2>1. n + 1 \in Nat
    OBVIOUS
  <2>2. Climb(parent, x, n) = g[n] /\ Climb(parent, x, n + 1) = g[n + 1]
    BY <1>7, <1>9, <2>1
  <2> QED BY <1>4, <2>2 DEF S
<1>11. Climb(parent, x, 0) = x
  BY <1>4, <1>7, <1>9
<1> QED BY <1>10, <1>11 DEF Up

(* Parents that come first, in any numbering of the instances, make a      *)
(* forest.                                                                 *)
LEMMA ForestLemma ==
    ASSUME NEW N, IsFiniteSet(N), NoParent \notin N, NEW parent \in [N -> N \cup {NoParent}],
           NEW f \in [N -> Nat], \A x \in N : parent[x] # NoParent => f[parent[x]] < f[x]
    PROVE  IsForest(parent)
<1> DEFINE below(x) == {y \in N : f[y] < f[x]}
           r == [x \in N |-> Cardinality(below(x))]
           n == Cardinality(N)
<1>1. n \in Nat /\ DOMAIN parent = N
  BY FS_CardinalityType
<1>2. ASSUME NEW x \in N PROVE IsFiniteSet(below(x)) /\ r[x] \in Nat /\ r[x] < n
  <2>1. below(x) \subseteq N /\ x \notin below(x)
    OBVIOUS
  <2>2. IsFiniteSet(below(x)) /\ r[x] \in Nat
    <3> HIDE DEF below
    <3> QED BY <2>1, FS_Subset, FS_CardinalityType
  <2>3. below(x) # N
    BY <2>1
  <2> HIDE DEF below
  <2>4. Cardinality(below(x)) < Cardinality(N)
    BY <1>1, <2>1, <2>2, <2>3, FS_Subset, FS_CardinalityType
  <2> QED BY <2>2, <2>4
<1>3. ASSUME NEW x \in N, parent[x] # NoParent PROVE r[parent[x]] < r[x]
  <2>1. parent[x] \in N /\ f[parent[x]] < f[x]
    BY <1>3
  <2>2. below(parent[x]) \subseteq below(x) /\ parent[x] \in below(x)
        /\ parent[x] \notin below(parent[x])
    <3>1. \A y \in N : f[y] \in Nat
      OBVIOUS
    <3> QED BY <2>1, <3>1
  <2>3. IsFiniteSet(below(x)) /\ below(parent[x]) # below(x)
    BY <1>2, <2>2
  <2> HIDE DEF below
  <2>4. Cardinality(below(parent[x])) < Cardinality(below(x))
    BY <2>2, <2>3, FS_Subset, FS_CardinalityType
  <2> QED BY <2>1, <2>4
<1> HIDE DEF r, n, below
<1>4. ASSUME NEW x \in N PROVE Climb(parent, x, n) = NoParent
  <2> DEFINE C(k) == Climb(parent, x, k)
             T == {k \in Nat : C(k) = NoParent \/ (C(k) \in N /\ r[C(k)] + k < n)}
  <2>0. /\ C(0) = x
        /\ \A k \in Nat : C(k) \in N \cup {NoParent}
        /\ \A k \in Nat : C(k + 1) = IF C(k) = NoParent THEN NoParent ELSE parent[C(k)]
    BY ClimbLemma
  <2> HIDE DEF C
  <2>1. 0 \in T
    BY <1>1, <1>2, <2>0
  <2>2. ASSUME NEW k \in Nat, k \in T PROVE k + 1 \in T
    <3>1. CASE C(k) = NoParent
      BY <2>0, <3>1
    <3>2. CASE C(k) # NoParent
      <4>1. C(k) \in N /\ r[C(k)] + k < n /\ C(k + 1) = parent[C(k)]
        BY <2>0, <2>2, <3>2
      <4>2. CASE parent[C(k)] = NoParent
        BY <4>1, <4>2
      <4>3. CASE parent[C(k)] # NoParent
        <5>1. C(k + 1) \in N /\ r[C(k + 1)] < r[C(k)] /\ r[C(k + 1)] \in Nat /\ r[C(k)] \in Nat
          BY <1>2, <1>3, <4>1, <4>3
        <5> QED BY <1>1, <4>1, <5>1
      <4> QED BY <4>2, <4>3
    <3> QED BY <3>1, <3>2
  <2>3. n \in T
    <3> HIDE DEF T
    <3> QED BY <1>1, <2>1, <2>2, SetInduction
  <2>4. ~(C(n) \in N /\ r[C(n)] + n < n)
    <3>1. \A y \in N : ~(r[y] + n < n)
      BY <1>1, <1>2
    <3> QED BY <3>1
  <2> QED BY <2>3, <2>4 DEF C
<1> QED BY <1>1, <1>4 DEF IsForest, n

(* In a forest no instances have all their parents among themselves.       *)
LEMMA ForestHasNoCycle ==
    ASSUME NEW N, IsFiniteSet(N), NoParent \notin N, NEW parent \in [N -> N \cup {NoParent}],
           IsForest(parent), NEW S, S \subseteq N, \A x \in S : parent[x] \in S
    PROVE  S = {}
<1> SUFFICES ASSUME NEW x \in S PROVE FALSE
  OBVIOUS
<1> DEFINE C(k) == Climb(parent, x, k)
           T == {k \in Nat : C(k) \in S}
<1>1. /\ C(0) = x
      /\ \A k \in Nat : C(k + 1) = IF C(k) = NoParent THEN NoParent ELSE parent[C(k)]
  BY ClimbLemma
<1>2. C(Cardinality(N)) = NoParent /\ Cardinality(N) \in Nat
  BY FS_CardinalityType DEF IsForest
<1> HIDE DEF C
<1>3. 0 \in T
  BY <1>1
<1>4. ASSUME NEW k \in Nat, k \in T PROVE k + 1 \in T
  BY <1>1, <1>4
<1>5. Cardinality(N) \in T
  <2> HIDE DEF T
  <2> QED BY <1>2, <1>3, <1>4, SetInduction
<1> QED BY <1>2, <1>5

(* The derived parents are instances and form a forest: a derived parent   *)
(* comes earlier in the order than its child, so every way up ends.        *)
LEMMA DerivedForest ==
    ASSUME NEW insts \in Seq(Instance)
    PROVE  /\ Derived(insts) \in [DOMAIN insts -> DOMAIN insts \cup {NoParent}]
           /\ IsForest(Derived(insts))
<1> DEFINE N == DOMAIN insts
           d == Derived(insts)
           order == Order(insts)
           f == [x \in N |-> CHOOSE k \in 1 .. Len(insts) : order[k] = x]
<1>1. IsFiniteSet(N) /\ NoParent \notin N /\ Len(insts) \in Nat
  <2>1. N = 1 .. Len(insts) /\ Len(insts) \in Nat
    OBVIOUS
  <2>2. IsFiniteSet(1 .. Len(insts))
    BY <2>1, FS_Interval
  <2> QED BY <2>1, <2>2 DEF NoParent
<1>2. d \in [N -> N \cup {NoParent}]
  <2>1. d = [x \in N |-> d[x]]
    BY DEF Derived
  <2>2. \A x \in N : d[x] \in N \cup {NoParent}
    BY DerivedLemma
  <2> HIDE DEF d
  <2> QED BY <2>1, <2>2
<1>3. \A x \in N : f[x] \in 1 .. Len(insts) /\ order[f[x]] = x
  <2> SUFFICES ASSUME NEW x \in N PROVE f[x] \in 1 .. Len(insts) /\ order[f[x]] = x
    OBVIOUS
  <2>1. \E k \in 1 .. Len(insts) : order[k] = x
    BY OrderLemma
  <2> HIDE DEF order
  <2> QED BY <2>1
<1> HIDE DEF f
<1>4. f \in [N -> Nat]
  <2>1. f = [x \in N |-> f[x]]
    BY DEF f
  <2> QED BY <1>3, <2>1
<1>5. ASSUME NEW x \in N, d[x] # NoParent PROVE f[d[x]] < f[x]
  <2>1. d[x] \in N /\ ContainsInst(insts[d[x]], insts[x])
    BY <1>5, DerivedLemma
  <2> HIDE DEF d
  <2>2. Before(insts, d[x], x)
    BY <2>1, ContainsLemma
  <2>3. \A i, j \in 1 .. Len(insts) : i < j => Before(insts, order[i], order[j])
    BY OrderLemma DEF Ascending
  <2>4. f[x] \in 1 .. Len(insts) /\ f[d[x]] \in 1 .. Len(insts)
        /\ order[f[x]] = x /\ order[f[d[x]]] = d[x]
    BY <1>3, <2>1
  <2>5. ~(f[x] < f[d[x]])
    BY <2>1, <2>2, <2>3, <2>4, BeforeIsTotal
  <2>6. f[x] # f[d[x]]
    BY <2>1, <2>2, <2>4, BeforeIsTotal
  <2> QED BY <2>4, <2>5, <2>6
<1> HIDE DEF d
<1>6. IsForest(d)
  BY <1>1, <1>2, <1>4, <1>5, ForestLemma
<1> QED BY <1>2, <1>6 DEF d

(* Stated parents are instances too.                                       *)
LEMMA OverriddenLemma ==
    ASSUME NEW N, NEW derived \in [N -> N \cup {NoParent}], NEW stated
    PROVE  /\ Overridden(derived, stated) \in [N -> N \cup {NoParent}]
           /\ DOMAIN stated = {} => Overridden(derived, stated) = derived
           /\ \A x \in N : x \notin DOMAIN stated => Overridden(derived, stated)[x] = derived[x]
  BY DEF Overridden

-----------------------------------------------------------------------------
(* What is above an instance, when the instances of containers reach over  *)
(* the whole object. *)

AboveIn(parent, x) == {Climb(parent, x, n) : n \in 1 .. Cardinality(DOMAIN parent)} \ {NoParent}

(* From NoParent there is no way up, and one step up comes first.          *)
LEMMA ClimbFirst ==
    ASSUME NEW N, NoParent \notin N, NEW parent \in [N -> N \cup {NoParent}], NEW x \in N
    PROVE  \A n \in Nat : /\ Climb(parent, NoParent, n) = NoParent
                          /\ Climb(parent, x, n + 1) = Climb(parent, parent[x], n)
<1> DEFINE p == parent[x]
           Z(n) == Climb(parent, NoParent, n)
           C(n) == Climb(parent, x, n)
           D(n) == Climb(parent, p, n)
           T == {n \in Nat : Z(n) = NoParent /\ C(n + 1) = D(n)}
<1>1. p \in N \cup {NoParent} /\ x # NoParent
  OBVIOUS
<1>2. /\ Z(0) = NoParent
      /\ \A n \in Nat : Z(n + 1) = IF Z(n) = NoParent THEN NoParent ELSE parent[Z(n)]
  BY ClimbLemma
<1>3. /\ C(0) = x
      /\ \A n \in Nat : C(n + 1) = IF C(n) = NoParent THEN NoParent ELSE parent[C(n)]
  BY ClimbLemma
<1>4. /\ D(0) = p
      /\ \A n \in Nat : D(n + 1) = IF D(n) = NoParent THEN NoParent ELSE parent[D(n)]
  <2> HIDE DEF p
  <2> QED BY <1>1, ClimbLemma
<1> HIDE DEF Z, C, D
<1>5. 0 \in T
  <2>1. C(0 + 1) = p
    BY <1>1, <1>3
  <2> QED BY <1>2, <1>4, <2>1
<1>6. ASSUME NEW n \in Nat, n \in T PROVE n + 1 \in T
  BY <1>2, <1>3, <1>4, <1>6
<1>7. Nat \subseteq T
  <2> HIDE DEF T
  <2> QED BY <1>5, <1>6, SetInduction
<1> QED BY <1>7 DEF Z, C, D

(* What is above an instance is its parent and what is above that.         *)
LEMMA AboveLemma ==
    ASSUME NEW N, IsFiniteSet(N), NoParent \notin N, NEW parent \in [N -> N \cup {NoParent}],
           IsForest(parent), NEW x \in N
    PROVE  /\ AboveIn(parent, x) \subseteq N
           /\ AboveIn(parent, x) = IF parent[x] = NoParent THEN {}
                                   ELSE {parent[x]} \cup AboveIn(parent, parent[x])
<1> DEFINE m == Cardinality(N)
           C(n) == Climb(parent, x, n)
           D(n) == Climb(parent, parent[x], n)
<1>1. DOMAIN parent = N /\ m \in Nat /\ parent[x] \in N \cup {NoParent}
  BY FS_CardinalityType
<1>2. \A n \in Nat : C(n + 1) = D(n)
  BY ClimbFirst
<1>3. \A n \in Nat : parent[x] = NoParent => D(n) = NoParent
  BY ClimbFirst
<1>4. \A n \in Nat : C(n) \in N \cup {NoParent}
  BY ClimbLemma
<1>5. C(0) = x /\ C(m) = NoParent
  BY <1>1, ClimbLemma DEF IsForest
<1>6. D(0) = parent[x]
  <2> HIDE DEF m
  <2>1. \A y \in N \cup {NoParent} : Climb(parent, y, 0) = y
    BY ClimbLemma
  <2> QED BY <1>1, <2>1
<1>7. parent[x] # NoParent => D(m) = NoParent
  BY <1>1 DEF IsForest
<1>8. m >= 1
  BY <1>1, <1>5
<1>9. /\ AboveIn(parent, x) = {C(n) : n \in 1 .. m} \ {NoParent}
      /\ AboveIn(parent, parent[x]) = {D(n) : n \in 1 .. m} \ {NoParent}
  BY <1>1 DEF AboveIn
<1> HIDE DEF C, D, m
<1>10. AboveIn(parent, x) \subseteq N
  BY <1>1, <1>4, <1>9
<1>11. \A n \in 1 .. m : n - 1 \in 0 .. m /\ C(n) = D(n - 1)
  <2> SUFFICES ASSUME NEW n \in 1 .. m PROVE n - 1 \in 0 .. m /\ C(n) = D(n - 1)
    OBVIOUS
  <2>1. n - 1 \in Nat /\ (n - 1) + 1 = n
    BY <1>1
  <2> QED BY <1>1, <1>2, <2>1
<1>12. ASSUME parent[x] = NoParent PROVE AboveIn(parent, x) = {}
  BY <1>1, <1>3, <1>9, <1>11, <1>12
<1>13. ASSUME parent[x] # NoParent
       PROVE  AboveIn(parent, x) = {parent[x]} \cup AboveIn(parent, parent[x])
  <2>1. \A y \in AboveIn(parent, x) : y = parent[x] \/ y \in AboveIn(parent, parent[x])
    <3> SUFFICES ASSUME NEW n \in 1 .. m, C(n) # NoParent
                 PROVE  C(n) = parent[x] \/ C(n) \in AboveIn(parent, parent[x])
      BY <1>9
    <3>1. CASE n = 1
      BY <1>6, <1>11, <3>1
    <3>2. CASE n # 1
      <4>1. n - 1 \in 1 .. m
        BY <1>1, <3>2
      <4> QED BY <1>9, <1>11, <4>1
    <3> QED BY <3>1, <3>2
  <2>2. parent[x] \in AboveIn(parent, x)
    <3>1. 1 \in 1 .. m /\ C(1) = D(0)
      BY <1>1, <1>8, <1>11
    <3> QED BY <1>6, <1>9, <1>13, <3>1
  <2>3. ASSUME NEW n \in 1 .. m, D(n) # NoParent PROVE D(n) \in AboveIn(parent, x)
    <3>1. n # m
      BY <1>7, <1>13, <2>3
    <3>2. n + 1 \in 1 .. m /\ n \in Nat
      BY <1>1, <3>1
    <3>3. C(n + 1) = D(n)
      BY <1>2, <3>2
    <3> QED BY <1>9, <2>3, <3>2, <3>3
  <2>4. AboveIn(parent, parent[x]) \subseteq AboveIn(parent, x)
    BY <1>9, <2>3
  <2> QED BY <1>13, <2>1, <2>2, <2>4
<1> QED BY <1>10, <1>12, <1>13

-----------------------------------------------------------------------------
(* The chain of containers *)

(* Every instance is inside [0, len], and one of a container is all of it. *)
InExtent(insts, len) ==
    \A x \in DOMAIN insts :
        /\ 0 <= insts[x].start /\ insts[x].start <= insts[x].end /\ insts[x].end <= len
        /\ insts[x].rank \in RankModule .. RankOther
        /\ insts[x].rank # RankOther => insts[x].start = 0 /\ insts[x].end = len

(* What is stated is that a declaration is in another.                     *)
StatesDeclarations(insts, stated) ==
    \A x \in DOMAIN insts \cap DOMAIN stated :
        /\ insts[x].rank = RankOther
        /\ stated[x] \in DOMAIN insts => insts[stated[x]].rank = RankOther

(* The derived parent of a container is the innermost of the others, and a *)
(* declaration has one when there is a container.                          *)
LEMMA ContainerParent ==
    ASSUME NEW insts \in Seq(Instance), NEW len \in Int, InExtent(insts, len), NEW x \in DOMAIN insts
    PROVE  /\ Derived(insts)[x] \in DOMAIN insts \cup {NoParent}
           /\ Derived(insts)[x] = NoParent \/ insts[x].rank = RankOther
                 \/ insts[Derived(insts)[x]].rank < insts[x].rank
           /\ \A c \in DOMAIN insts :
                 insts[c].rank # RankOther /\ insts[c].rank < insts[x].rank =>
                     /\ Derived(insts)[x] # NoParent
                     /\ insts[c].rank <= insts[Derived(insts)[x]].rank
<1> DEFINE d == Derived(insts)[x]
<1>1. Proper(insts)
  BY DEF Proper, InExtent
<1>2. \/ d = NoParent
      \/ d \in DOMAIN insts /\ ContainsInst(insts[d], insts[x])
  BY DerivedLemma
<1>3. \A c \in DOMAIN insts : ContainsInst(insts[c], insts[x]) =>
          d # NoParent /\ ~ContainsInst(insts[d], insts[c])
  BY <1>1, DerivedLemma
<1> HIDE DEF d
<1>4. \A y \in DOMAIN insts :
          insts[y].start \in Int /\ insts[y].end \in Int /\ insts[y].rank \in Int
  <2>1. \A y \in DOMAIN insts : insts[y] \in Instance
    OBVIOUS
  <2> QED BY <2>1 DEF Instance
<1>5. ASSUME d # NoParent, insts[x].rank # RankOther PROVE insts[d].rank < insts[x].rank
  <2>1. d \in DOMAIN insts /\ ContainsInst(insts[d], insts[x])
    BY <1>2, <1>5
  <2> QED BY <1>4, <1>5, <2>1 DEF InExtent, ContainsInst, Covers, SameRange
<1>6. ASSUME NEW c \in DOMAIN insts, insts[c].rank # RankOther, insts[c].rank < insts[x].rank
      PROVE  d # NoParent /\ insts[c].rank <= insts[d].rank
  <2>1. ContainsInst(insts[c], insts[x])
    BY <1>4, <1>6 DEF InExtent, ContainsInst, Covers, SameRange
  <2>2. d # NoParent /\ ~ContainsInst(insts[d], insts[c]) /\ d \in DOMAIN insts
    BY <1>2, <1>3, <2>1
  <2>3. ASSUME insts[d].rank < insts[c].rank PROVE FALSE
    <3>1. insts[d].rank # RankOther
      <4>1. insts[c].rank <= RankOther
        BY <1>6 DEF InExtent, RankModule, RankOther
      <4>2. insts[c].rank \in Int /\ insts[d].rank \in Int
        BY <1>4, <1>6, <2>2
      <4> QED BY <2>3, <4>1, <4>2 DEF RankOther
    <3> QED BY <1>4, <1>6, <2>2, <2>3, <3>1 DEF InExtent, ContainsInst, Covers, SameRange
  <2> QED BY <1>4, <2>2, <2>3
<1> QED BY <1>2, <1>5, <1>6 DEF d

(* The parents an object is numbered by are a forest over its instances,   *)
(* and only declarations have one that was stated.                         *)
LEMMA ParentsLemma ==
    ASSUME NEW insts \in Seq(Instance), NEW stated, StatesDeclarations(insts, stated)
    PROVE  /\ Parents(insts, stated) \in [DOMAIN insts -> DOMAIN insts \cup {NoParent}]
           /\ IsForest(Parents(insts, stated))
           /\ \A x \in DOMAIN insts :
                 \/ Parents(insts, stated)[x] = Derived(insts)[x]
                 \/ /\ insts[x].rank = RankOther /\ Parents(insts, stated)[x] \in DOMAIN insts
                    /\ insts[Parents(insts, stated)[x]].rank = RankOther
<1> DEFINE N == DOMAIN insts
           d == Derived(insts)
           p == Overridden(d, stated)
<1>1. d \in [N -> N \cup {NoParent}] /\ IsForest(d)
  BY DerivedForest
<1> HIDE DEF d
<1>2. p \in [N -> N \cup {NoParent}]
  BY <1>1, OverriddenLemma
<1>3. ASSUME NEW x \in N, p[x] # d[x]
      PROVE  insts[x].rank = RankOther /\ p[x] \in N /\ insts[p[x]].rank = RankOther
  BY <1>1, <1>3 DEF Overridden, StatesDeclarations
<1>4. Parents(insts, stated) = IF IsForest(p) THEN p ELSE d
  BY DEF Parents, d
<1> HIDE DEF p
<1> QED BY <1>1, <1>2, <1>3, <1>4 DEF d

(* The ranks of what is above an instance, and those that exist below one. *)
RanksAbove(insts, parent, x) == {insts[y].rank : y \in AboveIn(parent, x)}
RanksBelow(insts, r) == {r2 \in {insts[y].rank : y \in DOMAIN insts} : r2 < r}

(* Above a container there are the outer containers, and above a           *)
(* declaration there is the file.                                          *)
LEMMA ChainLemma ==
    ASSUME NEW insts \in Seq(Instance), NEW len \in Int, InExtent(insts, len),
           NEW stated, StatesDeclarations(insts, stated),
           \E f \in DOMAIN insts : insts[f].rank = RankFile
    PROVE  \A x \in DOMAIN insts :
               IF insts[x].rank = RankOther
               THEN RankFile \in RanksAbove(insts, Parents(insts, stated), x)
               ELSE RanksAbove(insts, Parents(insts, stated), x) = RanksBelow(insts, insts[x].rank)
<1> DEFINE N == DOMAIN insts
           d == Derived(insts)
           p == Parents(insts, stated)
           R(x) == insts[x].rank
           A(x) == RanksAbove(insts, p, x)
<1>1. IsFiniteSet(N) /\ NoParent \notin N
  <2>1. N = 1 .. Len(insts) /\ Len(insts) \in Nat
    OBVIOUS
  <2>2. IsFiniteSet(1 .. Len(insts))
    BY <2>1, FS_Interval
  <2> QED BY <2>1, <2>2 DEF NoParent
<1>2. /\ p \in [N -> N \cup {NoParent}] /\ IsForest(p)
      /\ \A x \in N : \/ p[x] = d[x]
                      \/ R(x) = RankOther /\ p[x] \in N /\ R(p[x]) = RankOther
  BY ParentsLemma
<1>3. \A x \in N :
          /\ d[x] \in N \cup {NoParent}
          /\ d[x] = NoParent \/ R(x) = RankOther \/ R(d[x]) < R(x)
          /\ \A c \in N : R(c) # RankOther /\ R(c) < R(x) => d[x] # NoParent /\ R(c) <= R(d[x])
  BY ContainerParent
<1>4. \A x \in N : R(x) \in 0 .. 3
  BY DEF InExtent, RankModule, RankOther
<1> HIDE DEF d, p
<1>5. ASSUME NEW x \in N
      PROVE  A(x) = IF p[x] = NoParent THEN {} ELSE {R(p[x])} \cup A(p[x])
  <2>1. AboveIn(p, x) = IF p[x] = NoParent THEN {} ELSE {p[x]} \cup AboveIn(p, p[x])
    BY <1>1, <1>2, AboveLemma
  <2> QED BY <2>1 DEF RanksAbove
<1> HIDE DEF A
<1>6. ASSUME NEW r \in 0 .. 2,
             \A y \in N : R(y) < r => A(y) = RanksBelow(insts, R(y)),
             NEW x \in N, R(x) = r
      PROVE  A(x) = RanksBelow(insts, r)
  <2>1. R(x) # RankOther /\ p[x] = d[x]
    BY <1>2, <1>6 DEF RankOther
  <2>2. CASE p[x] = NoParent
    <3>1. \A c \in N : ~(R(c) < r)
      <4> SUFFICES ASSUME NEW c \in N, R(c) < r PROVE FALSE
        OBVIOUS
      <4>1. R(c) # RankOther /\ R(c) < R(x)
        BY <1>4, <1>6 DEF RankOther
      <4> QED BY <1>3, <1>6, <2>2, <4>1, <2>1
    <3>2. RanksBelow(insts, r) = {}
      BY <3>1 DEF RanksBelow
    <3> QED BY <1>5, <1>6, <2>2, <3>2
  <2>3. CASE p[x] # NoParent
    <3>1. p[x] \in N /\ R(p[x]) < r
      BY <1>2, <1>3, <1>6, <2>1, <2>3
    <3>2. A(x) = {R(p[x])} \cup RanksBelow(insts, R(p[x]))
      BY <1>5, <1>6, <2>3, <3>1
    <3>3. \A c \in N : R(c) < r => R(c) <= R(p[x])
      BY <1>3, <1>4, <1>6, <2>1 DEF RankOther
    <3>4. R(p[x]) \in 0 .. 3 /\ \A c \in N : R(c) \in 0 .. 3
      BY <1>4, <3>1
    <3>5. \A c \in N : R(c) < r <=> R(c) = R(p[x]) \/ R(c) < R(p[x])
      BY <3>1, <3>3, <3>4, SMTT(30)
    <3>6. RanksBelow(insts, r) = {R(p[x])} \cup RanksBelow(insts, R(p[x]))
      <4> HIDE DEF R
      <4> QED BY <3>1, <3>5 DEF RanksBelow, R
    <3> QED BY <3>2, <3>6
  <2> QED BY <2>2, <2>3
<1>7. \A x \in N : R(x) # RankOther => A(x) = RanksBelow(insts, R(x))
  <2>1. \A y \in N : ~(R(y) < 0) /\ (R(y) < 1 => R(y) = 0) /\ (R(y) < 2 => R(y) \in {0, 1})
                    /\ (R(y) # RankOther => R(y) \in {0, 1, 2})
    BY <1>4 DEF RankOther
  <2>2. \A x \in N : R(x) = 0 => A(x) = RanksBelow(insts, 0)
    BY <1>6, <2>1
  <2>3. \A x \in N : R(x) = 1 => A(x) = RanksBelow(insts, 1)
    BY <1>6, <2>1, <2>2
  <2>4. \A x \in N : R(x) = 2 => A(x) = RanksBelow(insts, 2)
    BY <1>6, <2>1, <2>2, <2>3
  <2> QED BY <2>1, <2>2, <2>3, <2>4
<1> DEFINE S == {x \in N : R(x) = RankOther /\ RankFile \notin A(x)}
<1>8. ASSUME NEW x \in S PROVE p[x] \in S
  <2>1. x \in N /\ R(x) = RankOther /\ RankFile \notin A(x)
    OBVIOUS
  <2>2. PICK f \in N : R(f) = RankFile
    OBVIOUS
  <2>3. d[x] # NoParent /\ d[x] \in N /\ RankFile <= R(d[x])
    BY <1>3, <2>1, <2>2 DEF RankFile, RankOther
  <2>4. p[x] \in N /\ p[x] # NoParent /\ R(p[x]) \in {RankFile, RankOther}
    <3>1. R(d[x]) \in {RankFile, RankOther}
      BY <1>4, <2>3 DEF RankFile, RankOther
    <3> QED BY <1>1, <1>2, <2>1, <2>3, <3>1
  <2>5. A(x) = {R(p[x])} \cup A(p[x])
    BY <1>5, <2>1, <2>4
  <2> QED BY <2>1, <2>4, <2>5
<1>9. S = {}
  <2>1. S \subseteq N
    OBVIOUS
  <2> HIDE DEF S
  <2> QED BY <1>1, <1>2, <1>8, <2>1, ForestHasNoCycle
<1> QED BY <1>7, <1>9 DEF A, p
=============================================================================
