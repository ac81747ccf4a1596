--------------------------- MODULE TypeRefsProofs ---------------------------
(***************************************************************************)
(* References to types, for every set of files, workers and declarations:  *)
(* the references a stage leaves do not depend on the interleaving of its  *)
(* workers, and those of a declaration go to each type it uses, at its     *)
(* first use.                                                              *)
(***************************************************************************)
EXTENDS DeferredRefs, TypeWalk, Lemmas

(* The reference a worker is at is one of the references its file meets.   *)
LEMMA RefAt ==
    ASSUME TypeOK, NEW w \in Workers, AtRef(w)
    PROVE  /\ file[w] \in Files /\ pos[w] \in DOMAIN RefsOf[file[w]]
           /\ Ref(w) \in Refs /\ pos[w] \in Nat
           /\ \A f \in Files : \A k \in DOMAIN RefsOf[f] : RefsOf[f][k] \in Refs /\ k \in Nat
<1>1. \A f \in Files : \A k \in DOMAIN RefsOf[f] : RefsOf[f][k] \in Refs /\ k \in Nat
  <2> TAKE f \in Files
  <2>1. RefsOf[f] \in Seq(Refs)
    BY RefAssumption
  <2> QED BY <2>1
<1>2. file[w] \in Files /\ pos[w] \in Nat
  BY DEF TypeOK, AtRef
<1>3. pos[w] \in DOMAIN RefsOf[file[w]]
  BY DEF AtRef
<1> QED BY <1>1, <1>2, <1>3 DEF Ref

(* A step in which worker w passes its reference and puts it in one place, *)
(* the log or one of the lists, keeps the account of all references.       *)
LEMMA Passing ==
    ASSUME IInv, NEW w \in Workers, AtRef(w), Advance(w),
           UNCHANGED <<parsed, file, broken, phase>>,
           TypeOK',
           \A r \in Refs : Count(r)' = IF r = Ref(w) THEN Count(r) + 1 ELSE Count(r)
    PROVE  CountedOnce' /\ OnlyMet' /\ NotYet' /\ Dealt'
<1> USE RefAssumption
<1> DEFINE f0 == file[w]  k0 == pos[w]  r0 == Ref(w)
<1>1. f0 \in Files /\ k0 \in DOMAIN RefsOf[f0] /\ r0 \in Refs /\ r0 = RefsOf[f0][k0] /\ k0 \in Nat
  BY RefAt DEF IInv, Ref
<1>2. \A f \in Files : \A k \in DOMAIN RefsOf[f] : RefsOf[f][k] \in Refs /\ k \in Nat
  BY RefAt DEF IInv
<1>3. f0 \in parsed /\ f0 \in StageFiles
  BY <1>1, RefAssumption DEF IInv, WorkersApart, TypeOK
<1>4. \A r \in Refs : Count(r) \in Nat
  BY DEF IInv, TypeOK, Count
<1>5. Count(r0) = 0
  BY <1>1 DEF IInv, NotYet, Ahead
<1>6. \A f \in Files : \A k \in DOMAIN RefsOf[f] : RefsOf[f][k] = r0 => f = f0 /\ k = k0
  BY <1>1, PositionAssumption
<1>7. \A v \in Workers : file[v] = f0 => v = w
  BY <1>1 DEF IInv, WorkersApart
<1>8. pos'[w] = k0 + 1 /\ \A v \in Workers : v # w => pos'[v] = pos[v]
  BY DEF Advance, IInv, TypeOK
<1>9. CountedOnce'
  <2> SUFFICES ASSUME NEW r \in Refs PROVE Count(r)' <= 1
    BY DEF CountedOnce
  <2>1. CASE r = r0
    BY <2>1, <1>5
  <2>2. CASE r # r0
    BY <2>2, <1>4 DEF IInv, CountedOnce
  <2> QED BY <2>1, <2>2
<1>10. OnlyMet'
  <2> SUFFICES ASSUME NEW r \in Refs, Count(r)' # 0 PROVE r \in Met
    BY DEF OnlyMet, Met
  <2>1. CASE r = r0
    BY <2>1, <1>1, <1>3 DEF Met
  <2>2. CASE r # r0
    BY <2>2 DEF IInv, OnlyMet
  <2> QED BY <2>1, <2>2
<1>11. NotYet'
  <2> SUFFICES ASSUME NEW f \in Files, NEW k \in DOMAIN RefsOf[f],
                      f \notin parsed \/ \E v \in Workers : Ahead(v, f, k)'
               PROVE  Count(RefsOf[f][k])' = 0
    BY DEF NotYet
  <2>1. f \notin parsed \/ \E v \in Workers : Ahead(v, f, k)
    <3>1. CASE f \notin parsed
      BY <3>1
    <3>2. ASSUME NEW v \in Workers, Ahead(v, f, k)' PROVE Ahead(v, f, k)
      <4>1. file[v] = f /\ k >= pos'[v]
        BY <3>2 DEF Ahead
      <4>2. k >= pos[v]
        <5>1. CASE v = w
          BY <5>1, <4>1, <1>8, <1>1, <1>2
        <5>2. CASE v # w
          BY <5>2, <4>1, <1>8
        <5> QED BY <5>1, <5>2
      <4> QED BY <4>1, <4>2 DEF Ahead
    <3> QED BY <3>1, <3>2
  <2>2. Count(RefsOf[f][k]) = 0
    BY <2>1 DEF IInv, NotYet
  <2>3. RefsOf[f][k] # r0
    <3> SUFFICES ASSUME RefsOf[f][k] = r0 PROVE FALSE
      OBVIOUS
    <3>1. f = f0 /\ k = k0
      BY <1>6
    <3>2. PICK v \in Workers : Ahead(v, f, k)'
      BY <3>1, <1>3
    <3>3. v = w /\ k >= pos'[v]
      BY <3>1, <3>2, <1>7 DEF Ahead
    <3> QED BY <3>1, <3>3, <1>8, <1>1
  <2> QED BY <2>2, <2>3, <1>2
<1>12. Dealt'
  <2> SUFFICES ASSUME phase = "stage", ~broken, NEW f \in parsed, NEW k \in DOMAIN RefsOf[f]
               PROVE  (\E v \in Workers : Ahead(v, f, k)') \/ Count(RefsOf[f][k])' = 1
    BY DEF Dealt
  <2>1. f \in Files /\ RefsOf[f][k] \in Refs /\ k \in Nat
    BY <1>2 DEF IInv, TypeOK
  <2>2. CASE RefsOf[f][k] = r0
    BY <2>2, <1>5, <1>1
  <2>3. CASE RefsOf[f][k] # r0
    <3>1. CASE Count(RefsOf[f][k]) = 1
      BY <3>1, <2>1, <2>3
    <3>2. ASSUME NEW v \in Workers, Ahead(v, f, k) PROVE Ahead(v, f, k)'
      <4>1. CASE v # w
        BY <4>1, <3>2, <1>8 DEF Ahead
      <4>2. CASE v = w
        <5>1. f = f0 /\ k >= k0
          BY <4>2, <3>2 DEF Ahead
        <5>2. k # k0
          BY <5>1, <2>3, <1>1
        <5> QED BY <4>2, <5>1, <5>2, <2>1, <1>1, <1>8 DEF Ahead
      <4> QED BY <4>1, <4>2
    <3>3. Count(RefsOf[f][k]) = 1 \/ \E v \in Workers : Ahead(v, f, k)
      BY DEF IInv, Dealt
    <3> QED BY <3>1, <3>2, <3>3
  <2> QED BY <2>2, <2>3
<1> QED BY <1>9, <1>10, <1>11, <1>12

-----------------------------------------------------------------------------
LEMMA InitIInv == Init => IInv
<1> SUFFICES ASSUME Init PROVE IInv
  OBVIOUS
<1>1. TypeOK
  <2>1. typeRefs = NoRefs /\ receiverRefs = NoRefs /\ log = NoRefs /\ NoRefs \in [Refs -> Nat]
    BY DEF Init, NoRefs
  <2>2. \A r \in Refs : receiverRefs[r] = 0
    BY <2>1 DEF NoRefs
  <2>3. file \in [Workers -> Files \cup {NoFile}] /\ found \in [Workers -> {"ask", "yes", "no"}]
    BY DEF Init
  <2>4. pos \in [Workers -> Nat \ {0}]
    BY DEF Init
  <2>5. indexed \subseteq Files /\ parsed \subseteq StageFiles /\ broken \in BOOLEAN /\ phase = "stage"
    BY DEF Init
  <2> QED BY <2>1, <2>2, <2>3, <2>4, <2>5 DEF TypeOK
<1>2. \A r \in Refs : log[r] = 0 /\ typeRefs[r] = 0 /\ receiverRefs[r] = 0 /\ Count(r) = 0
  BY DEF Init, NoRefs, Count
<1>3. \A f \in Files : \A k \in DOMAIN RefsOf[f] : RefsOf[f][k] \in Refs
  <2> TAKE f \in Files
  <2>1. RefsOf[f] \in Seq(Refs)
    BY RefAssumption
  <2> QED BY <2>1
<1>4. WorkersApart /\ Lookups
  BY DEF Init, WorkersApart, Lookups
<1>5. TargetsIndexed /\ CountedOnce /\ OnlyMet
  BY <1>2 DEF TargetsIndexed, CountedOnce, OnlyMet
<1>6. NotYet
  BY <1>2, <1>3 DEF NotYet
<1>7. Dealt /\ Settled
  BY DEF Init, Dealt, Settled
<1> QED BY <1>1, <1>4, <1>5, <1>6, <1>7 DEF IInv

(* The parts of the invariant that speak of counts survive a step that     *)
(* moves no reference, puts no file back and starts no phase.              *)
LEMMA StillCounted ==
    ASSUME IInv, UNCHANGED <<typeRefs, receiverRefs, log>>
    PROVE  (\A r \in Refs : Count(r)' = Count(r)) /\ CountedOnce' /\ OnlyMet'
<1>1. \A r \in Refs : Count(r)' = Count(r)
  BY DEF Count
<1> QED BY <1>1 DEF IInv, CountedOnce, OnlyMet, Met

LEMMA StepNewFileParser ==
    ASSUME IInv, NEW f \in Files, NewFileParser(f) PROVE IInv'
<1> USE DEF NewFileParser
<1>1. TypeOK'
  BY DEF IInv, TypeOK
<1>2. CountedOnce' /\ OnlyMet' /\ \A r \in Refs : Count(r)' = Count(r)
  BY StillCounted
<1>3. WorkersApart'
  BY DEF IInv, WorkersApart
<1>4. Lookups'
  BY DEF IInv, Lookups, Ref
<1>5. TargetsIndexed'
  BY DEF IInv, TargetsIndexed
<1>6. NotYet'
  BY DEF IInv, NotYet, Ahead, Count
<1>7. Dealt'
  BY DEF IInv, Dealt, Ahead, Count
<1>8. Settled'
  BY DEF Settled
<1> QED BY <1>1, <1>2, <1>3, <1>4, <1>5, <1>6, <1>7, <1>8 DEF IInv

LEMMA StepFailPackage ==
    ASSUME IInv, NEW f \in Files, FailPackage(f) PROVE IInv'
<1> USE DEF FailPackage
<1>1. TypeOK'
  BY DEF IInv, TypeOK
<1>2. CountedOnce' /\ OnlyMet'
  BY StillCounted
<1>3. WorkersApart' /\ Lookups' /\ TargetsIndexed'
  BY DEF IInv, WorkersApart, Lookups, Ref, TargetsIndexed
<1>4. NotYet'
  BY DEF IInv, NotYet, Ahead, Count
<1>5. Dealt' /\ Settled'
  BY DEF Dealt, Settled
<1> QED BY <1>1, <1>2, <1>3, <1>4, <1>5 DEF IInv

LEMMA StepStartFile ==
    ASSUME IInv, NEW w \in Workers, NEW f \in Files, StartFile(w, f) PROVE IInv'
<1> USE DEF StartFile
<1>1. TypeOK'
  BY DEF IInv, TypeOK
<1>2. CountedOnce' /\ OnlyMet' /\ \A r \in Refs : Count(r)' = Count(r)
  BY StillCounted
<1>3. f \notin parsed /\ f # NoFile /\ \A v \in Workers : file[v] # f
  BY RefAssumption DEF IInv, WorkersApart
<1>4. file'[w] = f /\ pos'[w] = 1 /\ \A v \in Workers : v # w => file'[v] = file[v] /\ pos'[v] = pos[v]
  BY DEF IInv, TypeOK
<1>5. WorkersApart'
  BY <1>3, <1>4 DEF IInv, WorkersApart
<1>6. Lookups'
  <2> SUFFICES ASSUME NEW v \in Workers, found[v] # "ask"
               PROVE  /\ file'[v] # NoFile /\ pos'[v] \in DOMAIN RefsOf[file'[v]]
                      /\ found[v] = "yes" => Target[Ref(v)'] \in indexed
    BY DEF Lookups
  <2>1. v # w
    BY DEF IInv, Lookups
  <2> QED BY <2>1, <1>4 DEF IInv, Lookups, Ref
<1>7. TargetsIndexed'
  BY DEF IInv, TargetsIndexed
<1>8. NotYet'
  <2> SUFFICES ASSUME NEW g \in Files, NEW k \in DOMAIN RefsOf[g],
                      g \notin parsed' \/ \E v \in Workers : Ahead(v, g, k)'
               PROVE  Count(RefsOf[g][k])' = 0
    BY DEF NotYet
  <2>1. g \notin parsed \/ \E v \in Workers : Ahead(v, g, k)
    BY <1>3, <1>4 DEF Ahead
  <2> QED BY <2>1 DEF IInv, NotYet, Count
<1>9. Dealt'
  <2> SUFFICES ASSUME ~broken, NEW g \in parsed', NEW k \in DOMAIN RefsOf[g]
               PROVE  (\E v \in Workers : Ahead(v, g, k)') \/ Count(RefsOf[g][k])' = 1
    BY DEF Dealt
  <2>1. CASE g = f
    <3>1. RefsOf[f] \in Seq(Refs) /\ k \in DOMAIN RefsOf[f]
      BY <2>1, RefAssumption
    <3>2. k >= 1
      BY <3>1
    <3> QED BY <2>1, <3>2, <1>4 DEF Ahead
  <2>2. CASE g \in parsed
    <3>1. (\E v \in Workers : Ahead(v, g, k)) \/ Count(RefsOf[g][k]) = 1
      BY <2>2 DEF IInv, Dealt
    <3>2. ASSUME NEW v \in Workers, Ahead(v, g, k) PROVE Ahead(v, g, k)'
      <4>1. v # w
        BY <3>2, <2>2, RefAssumption DEF Ahead, IInv, TypeOK
      <4> QED BY <3>2, <4>1, <1>4 DEF Ahead
    <3> QED BY <3>1, <3>2 DEF Count
  <2> QED BY <2>1, <2>2
<1>10. Settled'
  BY DEF Settled
<1> QED BY <1>1, <1>2, <1>5, <1>6, <1>7, <1>8, <1>9, <1>10 DEF IInv

(* The three steps that pass a reference.  What is particular to each is   *)
(* the place it puts the reference in; the rest is the lemma on Passing.   *)
LEMMA Passed ==
    ASSUME IInv, NEW w \in Workers, AtRef(w), Advance(w),
           UNCHANGED <<indexed, parsed, file, broken, phase>>,
           typeRefs' \in [Refs -> Nat], receiverRefs' \in [Refs -> Nat], log' \in [Refs -> Nat],
           \A r \in Refs : receiverRefs'[r] # 0 => r \in ReceiverRefs,
           TargetsIndexed',
           \A r \in Refs : Count(r)' = IF r = Ref(w) THEN Count(r) + 1 ELSE Count(r)
    PROVE  IInv'
<1>1. phase = "stage"
  BY DEF AtRef
<1>2. pos' \in [Workers -> Nat \ {0}] /\ found' \in [Workers -> {"ask", "yes", "no"}]
  BY DEF Advance, IInv, TypeOK
<1>3. TypeOK'
  BY <1>2 DEF IInv, TypeOK
<1>4. CountedOnce' /\ OnlyMet' /\ NotYet' /\ Dealt'
  BY <1>3, Passing
<1>5. WorkersApart'
  BY DEF IInv, WorkersApart
<1>6. Lookups'
  <2> SUFFICES ASSUME NEW v \in Workers, found'[v] # "ask"
               PROVE  /\ file[v] # NoFile /\ pos'[v] \in DOMAIN RefsOf[file[v]]
                      /\ found'[v] = "yes" => Target[Ref(v)'] \in indexed
    BY DEF Lookups
  <2>1. v # w
    BY DEF Advance, IInv, TypeOK
  <2>2. found'[v] = found[v] /\ pos'[v] = pos[v]
    BY <2>1 DEF Advance, IInv, TypeOK
  <2>3. Ref(v)' = Ref(v)
    BY <2>2 DEF Ref
  <2> QED BY <2>2, <2>3 DEF IInv, Lookups
<1>7. Settled'
  BY <1>1 DEF Settled
<1> QED BY <1>3, <1>4, <1>5, <1>6, <1>7 DEF IInv

(* One more of a reference in a bag. *)
LEMMA PlusOne ==
    ASSUME NEW bag \in [Refs -> Nat], NEW r \in Refs
    PROVE  /\ Plus(bag, r) \in [Refs -> Nat]
           /\ \A q \in Refs : Plus(bag, r)[q] = IF q = r THEN bag[q] + 1 ELSE bag[q]
BY DEF Plus

LEMMA StepAddReceiverRef ==
    ASSUME IInv, NEW w \in Workers, AddReceiverRef(w) PROVE IInv'
<1> USE DEF AddReceiverRef
<1>1. typeRefs \in [Refs -> Nat] /\ receiverRefs \in [Refs -> Nat] /\ log \in [Refs -> Nat]
  BY DEF IInv, TypeOK
<1>2. Ref(w) \in Refs
  BY RefAt DEF IInv
<1>3. /\ receiverRefs' \in [Refs -> Nat]
      /\ \A q \in Refs : receiverRefs'[q] = IF q = Ref(w) THEN receiverRefs[q] + 1 ELSE receiverRefs[q]
  BY <1>1, <1>2, PlusOne
<1>4. \A r \in Refs : receiverRefs'[r] # 0 => r \in ReceiverRefs
  BY <1>3 DEF IInv, TypeOK
<1>5. TargetsIndexed'
  BY DEF IInv, TargetsIndexed
<1>6. \A r \in Refs : Count(r)' = IF r = Ref(w) THEN Count(r) + 1 ELSE Count(r)
  BY <1>1, <1>3 DEF Count
<1> QED BY <1>1, <1>3, <1>4, <1>5, <1>6, Passed

LEMMA StepAddDeferredTypeRef ==
    ASSUME IInv, NEW w \in Workers, AddDeferredTypeRef(w) PROVE IInv'
<1> USE DEF AddDeferredTypeRef
<1>1. typeRefs \in [Refs -> Nat] /\ receiverRefs \in [Refs -> Nat] /\ log \in [Refs -> Nat]
  BY DEF IInv, TypeOK
<1>2. Ref(w) \in Refs
  BY RefAt DEF IInv
<1>3. /\ typeRefs' \in [Refs -> Nat]
      /\ \A q \in Refs : typeRefs'[q] = IF q = Ref(w) THEN typeRefs[q] + 1 ELSE typeRefs[q]
  BY <1>1, <1>2, PlusOne
<1>4. \A r \in Refs : receiverRefs'[r] # 0 => r \in ReceiverRefs
  BY DEF IInv, TypeOK
<1>5. TargetsIndexed'
  BY DEF IInv, TargetsIndexed
<1>6. \A r \in Refs : Count(r)' = IF r = Ref(w) THEN Count(r) + 1 ELSE Count(r)
  BY <1>1, <1>3 DEF Count
<1> QED BY <1>1, <1>3, <1>4, <1>5, <1>6, Passed

LEMMA StepAddTypeRef ==
    ASSUME IInv, NEW w \in Workers, AddTypeRef(w) PROVE IInv'
<1> USE DEF AddTypeRef
<1>1. typeRefs \in [Refs -> Nat] /\ receiverRefs \in [Refs -> Nat] /\ log \in [Refs -> Nat]
  BY DEF IInv, TypeOK
<1>2. Ref(w) \in Refs
  BY RefAt DEF IInv
<1>3. /\ log' \in [Refs -> Nat]
      /\ \A q \in Refs : log'[q] = IF q = Ref(w) THEN log[q] + 1 ELSE log[q]
  BY <1>1, <1>2, PlusOne
<1>4. \A r \in Refs : receiverRefs'[r] # 0 => r \in ReceiverRefs
  BY DEF IInv, TypeOK
<1>5. TargetsIndexed'
  <2>1. Target[Ref(w)] \in indexed
    BY DEF IInv, Lookups
  <2> QED BY <2>1, <1>3 DEF IInv, TargetsIndexed
<1>6. \A r \in Refs : Count(r)' = IF r = Ref(w) THEN Count(r) + 1 ELSE Count(r)
  BY <1>1, <1>3 DEF Count
<1> QED BY <1>1, <1>3, <1>4, <1>5, <1>6, Passed

LEMMA StepFindTarget ==
    ASSUME IInv, NEW w \in Workers, FindTarget(w) PROVE IInv'
<1> USE DEF FindTarget
<1>1. TypeOK'
  BY DEF IInv, TypeOK
<1>2. CountedOnce' /\ OnlyMet' /\ \A r \in Refs : Count(r)' = Count(r)
  BY StillCounted
<1>3. WorkersApart'
  BY DEF IInv, WorkersApart
<1>4. Lookups'
  <2> SUFFICES ASSUME NEW v \in Workers, found'[v] # "ask"
               PROVE  /\ file[v] # NoFile /\ pos[v] \in DOMAIN RefsOf[file[v]]
                      /\ found'[v] = "yes" => Target[Ref(v)] \in indexed
    BY DEF Lookups, Ref
  <2>1. CASE v = w
    BY <2>1 DEF AtRef, IInv, TypeOK
  <2>2. CASE v # w
    BY <2>2 DEF IInv, TypeOK, Lookups
  <2> QED BY <2>1, <2>2
<1>5. TargetsIndexed'
  BY DEF IInv, TargetsIndexed
<1>6. NotYet'
  BY DEF IInv, NotYet, Ahead, Count
<1>7. Dealt'
  BY DEF IInv, Dealt, Ahead, Count
<1>8. Settled'
  BY DEF AtRef, Settled
<1> QED BY <1>1, <1>2, <1>3, <1>4, <1>5, <1>6, <1>7, <1>8 DEF IInv

(* A worker that puts its file down, at its end or after an error: NotYet  *)
(* only loses cases, and so do Lookups, for the worker had asked nothing.  *)
LEMMA PutDown ==
    ASSUME IInv, NEW w \in Workers, phase = "stage", found[w] = "ask",
           file' = [file EXCEPT ![w] = NoFile],
           UNCHANGED <<indexed, parsed, pos, found, typeRefs, receiverRefs, log, phase>>
    PROVE  WorkersApart' /\ Lookups' /\ TargetsIndexed' /\ NotYet' /\ Settled'
<1>1. file'[w] = NoFile /\ \A v \in Workers : v # w => file'[v] = file[v]
  BY DEF IInv, TypeOK
<1>2. WorkersApart'
  BY <1>1 DEF IInv, WorkersApart
<1>3. Lookups'
  BY <1>1 DEF IInv, Lookups, Ref
<1>4. TargetsIndexed'
  BY DEF IInv, TargetsIndexed
<1>5. NotYet'
  <2> SUFFICES ASSUME NEW f \in Files, NEW k \in DOMAIN RefsOf[f],
                      f \notin parsed \/ \E v \in Workers : Ahead(v, f, k)'
               PROVE  Count(RefsOf[f][k])' = 0
    BY DEF NotYet
  <2>1. f \notin parsed \/ \E v \in Workers : Ahead(v, f, k)
    BY <1>1, RefAssumption DEF Ahead
  <2> QED BY <2>1 DEF IInv, NotYet, Count
<1>6. Settled'
  BY DEF Settled
<1> QED BY <1>2, <1>3, <1>4, <1>5, <1>6

LEMMA StepEndFile ==
    ASSUME IInv, NEW w \in Workers, EndFile(w) PROVE IInv'
<1> USE DEF EndFile
<1>1. TypeOK'
  BY DEF IInv, TypeOK
<1>2. CountedOnce' /\ OnlyMet' /\ \A r \in Refs : Count(r)' = Count(r)
  BY StillCounted
<1>3. file[w] \in Files /\ RefsOf[file[w]] \in Seq(Refs) /\ pos[w] \in Nat
  BY RefAssumption DEF IInv, TypeOK
<1>4. pos[w] \notin DOMAIN RefsOf[file[w]]
  BY <1>3
<1>5. found[w] = "ask"
  BY <1>4 DEF IInv, Lookups
<1>6. WorkersApart' /\ Lookups' /\ TargetsIndexed' /\ NotYet' /\ Settled'
  BY <1>5, PutDown
<1>7. Dealt'
  <2> SUFFICES ASSUME ~broken, NEW g \in parsed, NEW k \in DOMAIN RefsOf[g]
               PROVE  (\E v \in Workers : Ahead(v, g, k)') \/ Count(RefsOf[g][k])' = 1
    BY DEF Dealt
  <2>1. (\E v \in Workers : Ahead(v, g, k)) \/ Count(RefsOf[g][k]) = 1
    BY DEF IInv, Dealt
  <2>2. ASSUME NEW v \in Workers, Ahead(v, g, k) PROVE Ahead(v, g, k)'
    <3>1. v # w
      <4> SUFFICES ASSUME v = w PROVE FALSE
        OBVIOUS
      <4>1. k \in DOMAIN RefsOf[file[w]] /\ k >= pos[w]
        BY <2>2 DEF Ahead
      <4> QED BY <4>1, <1>3
    <3>2. file'[v] = file[v]
      BY <3>1 DEF IInv, TypeOK
    <3> QED BY <2>2, <3>2 DEF Ahead
  <2> QED BY <2>1, <2>2 DEF Count
<1> QED BY <1>1, <1>2, <1>6, <1>7 DEF IInv

LEMMA StepFailFile ==
    ASSUME IInv, NEW w \in Workers, FailFile(w) PROVE IInv'
<1> USE DEF FailFile
<1>1. TypeOK'
  BY DEF IInv, TypeOK
<1>2. CountedOnce' /\ OnlyMet'
  BY StillCounted
<1>3. WorkersApart' /\ Lookups' /\ TargetsIndexed' /\ NotYet' /\ Settled'
  BY PutDown
<1>4. Dealt'
  BY DEF Dealt
<1> QED BY <1>1, <1>2, <1>3, <1>4 DEF IInv

LEMMA StepWaitStage == ASSUME IInv, WaitStage PROVE IInv'
<1> USE DEF WaitStage
<1>1. TypeOK'
  BY DEF IInv, TypeOK
<1>2. CountedOnce' /\ OnlyMet' /\ \A r \in Refs : Count(r)' = Count(r)
  BY StillCounted
<1>3. WorkersApart' /\ Lookups' /\ TargetsIndexed'
  BY DEF IInv, WorkersApart, Lookups, Ref, TargetsIndexed
<1>4. NotYet'
  BY DEF IInv, NotYet, Ahead, Count
<1>5. Dealt'
  BY DEF Dealt
<1>6. Settled'
  <2> SUFFICES ASSUME ~broken, NEW r \in Met PROVE Count(r)' = 1
    BY DEF Settled, Met
  <2>1. PICK f \in StageFiles : \E k \in DOMAIN RefsOf[f] : r = RefsOf[f][k]
    BY DEF Met
  <2>2. PICK k \in DOMAIN RefsOf[f] : r = RefsOf[f][k]
    BY <2>1
  <2>3. f \in parsed /\ ~\E v \in Workers : Ahead(v, f, k)
    BY RefAssumption DEF Ahead
  <2>4. Count(r) = 1
    BY <2>2, <2>3 DEF IInv, Dealt
  <2> QED BY <2>4 DEF Count
<1> QED BY <1>1, <1>2, <1>3, <1>4, <1>5, <1>6 DEF IInv

-----------------------------------------------------------------------------
(* Taking a list: what it held of a reference goes to the log, or nowhere. *)
LEMMA Resolving ==
    ASSUME IInv, NEW bag \in [Refs -> Nat], log' = Recorded(bag), phase # "stage",
           \A r \in Refs : Count(r)' = IF Recordable(r) THEN Count(r) ELSE Count(r) - bag[r],
           \A r \in Refs : bag[r] <= Count(r),
           phase' \in {"types", "resolved"}, phase \in {"receivers", "types"},
           UNCHANGED <<indexed, parsed, file, pos, found, broken>>
    PROVE  /\ log' \in [Refs -> Nat]
           /\ WorkersApart' /\ Lookups' /\ TargetsIndexed' /\ CountedOnce'
           /\ OnlyMet' /\ NotYet' /\ Dealt'
           /\ \A r \in Met : Count(r)' = 1 \/ Target[r] \notin indexed
<1>1. \A r \in Refs : Count(r) \in Nat /\ log[r] \in Nat /\ bag[r] \in Nat
  BY DEF IInv, TypeOK, Count
<1>2. \A r \in Refs : log'[r] = log[r] + IF Recordable(r) THEN bag[r] ELSE 0
  BY DEF Recorded
<1>3. log' \in [Refs -> Nat]
  BY <1>1 DEF Recorded
<1>4. \A r \in Refs : Count(r)' \in Nat /\ Count(r)' <= Count(r)
  BY <1>1
<1>5. WorkersApart' /\ Lookups'
  BY DEF IInv, WorkersApart, Lookups, Ref
<1>6. TargetsIndexed'
  <2> SUFFICES ASSUME NEW r \in Refs, log'[r] # 0 PROVE Target[r] \in indexed
    BY DEF TargetsIndexed
  <2>1. CASE Recordable(r)
    BY <2>1 DEF Recordable
  <2>2. CASE ~Recordable(r)
    BY <2>2, <1>1, <1>2 DEF IInv, TargetsIndexed
  <2> QED BY <2>1, <2>2
<1>7. CountedOnce'
  BY <1>1, <1>4 DEF IInv, CountedOnce
<1>8. OnlyMet'
  BY <1>1, <1>4 DEF IInv, OnlyMet, Met
<1>9. \A f \in Files : \A k \in DOMAIN RefsOf[f] : RefsOf[f][k] \in Refs
  <2> TAKE f \in Files
  <2>1. RefsOf[f] \in Seq(Refs)
    BY RefAssumption
  <2> QED BY <2>1
<1>10. NotYet'
  <2> SUFFICES ASSUME NEW f \in Files, NEW k \in DOMAIN RefsOf[f],
                      f \notin parsed \/ \E v \in Workers : Ahead(v, f, k)
               PROVE  Count(RefsOf[f][k])' = 0
    BY DEF NotYet, Ahead
  <2>1. Count(RefsOf[f][k]) = 0
    BY DEF IInv, NotYet
  <2>2. RefsOf[f][k] \in Refs
    BY <1>9
  <2> QED BY <2>1, <2>2, <1>4
<1>11. Dealt'
  BY DEF Dealt
<1>12. \A r \in Met : Count(r)' = 1 \/ Target[r] \notin indexed
  BY DEF Recordable, IInv, Settled, Met
<1> QED BY <1>3, <1>5, <1>6, <1>7, <1>8, <1>10, <1>11, <1>12

LEMMA StepResolveReceivers == ASSUME IInv, ResolveReceivers PROVE IInv'
<1> USE DEF ResolveReceivers
<1>1. typeRefs \in [Refs -> Nat] /\ receiverRefs \in [Refs -> Nat] /\ log \in [Refs -> Nat]
  BY DEF IInv, TypeOK
<1>2. NoRefs \in [Refs -> Nat] /\ \A r \in Refs : NoRefs[r] = 0
  BY DEF NoRefs
<1>3. \A r \in Refs : Count(r)' = IF Recordable(r) THEN Count(r) ELSE Count(r) - receiverRefs[r]
  BY <1>1, <1>2 DEF Count, Recorded
<1>4. \A r \in Refs : receiverRefs[r] <= Count(r)
  BY <1>1 DEF Count
<1>5. /\ log' \in [Refs -> Nat]
      /\ WorkersApart' /\ Lookups' /\ TargetsIndexed' /\ CountedOnce'
      /\ OnlyMet' /\ NotYet' /\ Dealt'
      /\ \A r \in Met : Count(r)' = 1 \/ Target[r] \notin indexed
  BY <1>1, <1>3, <1>4, Resolving
<1>6. TypeOK'
  BY <1>2, <1>5 DEF IInv, TypeOK
<1>7. Settled'
  BY <1>5 DEF Settled, Met, NoRefs
<1> QED BY <1>5, <1>6, <1>7 DEF IInv

LEMMA StepResolveTypes == ASSUME IInv, ResolveTypes PROVE IInv'
<1> USE DEF ResolveTypes
<1>1. typeRefs \in [Refs -> Nat] /\ receiverRefs \in [Refs -> Nat] /\ log \in [Refs -> Nat]
  BY DEF IInv, TypeOK
<1>2. NoRefs \in [Refs -> Nat] /\ \A r \in Refs : NoRefs[r] = 0
  BY DEF NoRefs
<1>3. \A r \in Refs : Count(r)' = IF Recordable(r) THEN Count(r) ELSE Count(r) - typeRefs[r]
  BY <1>1, <1>2 DEF Count, Recorded
<1>4. \A r \in Refs : typeRefs[r] <= Count(r)
  BY <1>1 DEF Count
<1>5. /\ log' \in [Refs -> Nat]
      /\ WorkersApart' /\ Lookups' /\ TargetsIndexed' /\ CountedOnce'
      /\ OnlyMet' /\ NotYet' /\ Dealt'
      /\ \A r \in Met : Count(r)' = 1 \/ Target[r] \notin indexed
  BY <1>1, <1>3, <1>4, Resolving
<1>6. TypeOK'
  BY <1>2, <1>5 DEF IInv, TypeOK
<1>7. receiverRefs' = NoRefs' /\ typeRefs' = NoRefs'
  BY DEF IInv, Settled, NoRefs
<1>8. Settled'
  BY <1>5, <1>7 DEF Settled, Met
<1> QED BY <1>5, <1>6, <1>8 DEF IInv

LEMMA Stutter == ASSUME IInv, UNCHANGED vars PROVE IInv'
BY DEF IInv, vars, TypeOK, WorkersApart, Lookups, Ref, TargetsIndexed, CountedOnce,
       OnlyMet, Met, NotYet, Dealt, Settled, Ahead, Count, NoRefs

-----------------------------------------------------------------------------
LEMMA StepIInv == IInv /\ [Next]_vars => IInv'
<1> SUFFICES ASSUME IInv, [Next]_vars PROVE IInv'
  OBVIOUS
<1>1. ASSUME NEW f \in Files, NewFileParser(f) PROVE IInv'
  BY <1>1, StepNewFileParser
<1>2. ASSUME NEW w \in Workers, NEW f \in Files, StartFile(w, f) PROVE IInv'
  BY <1>2, StepStartFile
<1>3. ASSUME NEW w \in Workers, AddReceiverRef(w) PROVE IInv'
  BY <1>3, StepAddReceiverRef
<1>4. ASSUME NEW w \in Workers, FindTarget(w) PROVE IInv'
  BY <1>4, StepFindTarget
<1>5. ASSUME NEW w \in Workers, AddDeferredTypeRef(w) PROVE IInv'
  BY <1>5, StepAddDeferredTypeRef
<1>6. ASSUME NEW w \in Workers, AddTypeRef(w) PROVE IInv'
  BY <1>6, StepAddTypeRef
<1>7. ASSUME NEW w \in Workers, EndFile(w) PROVE IInv'
  BY <1>7, StepEndFile
<1>8. ASSUME NEW w \in Workers, FailFile(w) PROVE IInv'
  BY <1>8, StepFailFile
<1>9. CASE WaitStage
  BY <1>9, StepWaitStage
<1>10. CASE ResolveReceivers
  BY <1>10, StepResolveReceivers
<1>11. CASE ResolveTypes
  BY <1>11, StepResolveTypes
<1>12. ASSUME NEW f \in Files, FailPackage(f) PROVE IInv'
  BY <1>12, StepFailPackage
<1>13. CASE Over \/ UNCHANGED vars
  BY <1>13, Stutter DEF Over
<1> QED BY <1>1, <1>2, <1>3, <1>4, <1>5, <1>6, <1>7, <1>8, <1>9, <1>10, <1>11, <1>12, <1>13 DEF Next

(* Every reference a file of the stage meets is in exactly one of the log  *)
(* and the two lists from the moment its parse passes it.                  *)
THEOREM DeferredInvariant == Spec => []IInv
BY InitIInv, StepIInv, PTL DEF Spec

(* The state stays well formed, and only receivers are in receiverRefs.    *)
THEOREM DeferredTypes == Spec => []TypeOK
<1>1. IInv => TypeOK
  BY DEF IInv
<1> QED BY <1>1, DeferredInvariant, PTL

(* AddReference never gets a target in a file the index lacks.             *)
THEOREM DeferredTargets == Spec => []TargetsIndexed
<1>1. IInv => TargetsIndexed
  BY DEF IInv
<1> QED BY <1>1, DeferredInvariant, PTL

(* The references of a stage do not depend on how its workers interleave:  *)
(* after resolveDeferredRefs they are those whose target is in the index.  *)
THEOREM DeferredSameAsInOrder == Spec => []SameAsInOrder
<1>1. IInv => SameAsInOrder
  <2> SUFFICES ASSUME IInv, phase = "resolved", NEW r \in Refs
               PROVE  log[r] # 0 <=> r \in Met /\ Target[r] \in indexed
    BY DEF SameAsInOrder, Met
  <2>1. typeRefs = NoRefs /\ receiverRefs = NoRefs /\ log \in [Refs -> Nat]
    BY DEF IInv, TypeOK, Settled
  <2>2. Count(r) = log[r]
    BY <2>1 DEF Count, NoRefs
  <2>3. log[r] # 0 => r \in Met /\ Target[r] \in indexed
    BY <2>2 DEF IInv, OnlyMet, TargetsIndexed
  <2>4. r \in Met /\ Target[r] \in indexed => log[r] # 0
    BY <2>2 DEF IInv, Settled
  <2> QED BY <2>3, <2>4
<1> QED BY <1>1, DeferredInvariant, PTL

(* No use of a type is recorded twice, however its look-up raced.          *)
THEOREM DeferredRecordedOnce == Spec => []RecordedOnce
<1>1. IInv => RecordedOnce
  <2> SUFFICES ASSUME IInv, NEW r \in Refs PROVE log[r] <= 1
    BY DEF RecordedOnce
  <2>1. log[r] \in Nat /\ typeRefs[r] \in Nat /\ receiverRefs[r] \in Nat
    BY DEF IInv, TypeOK
  <2>2. Count(r) <= 1
    BY DEF IInv, CountedOnce
  <2> QED BY <2>1, <2>2 DEF Count
<1> QED BY <1>1, DeferredInvariant, PTL
-----------------------------------------------------------------------------
(* Declarations *)

Kinds == {"file", "constraint", "method"} \cup Expressions

(* What a family's grammar allows in a node, and what the node then is.    *)
LEMMA GrammarKinds ==
    ASSUME NEW shape \in Shapes
    PROVE  /\ \A k \in Kinds : shape.grammar[k] \subseteq Kinds \ {"file"}
           /\ \A k \in Kinds : "constraint" \in shape.grammar[k] => k = "file"
           /\ \A k \in Kinds : "method" \in shape.grammar[k] => k = "iface"
           /\ shape.grammar["name"] = {}
           /\ shape.size \in Nat \ {0}
<1> DEFINE g == shape.grammar
<1>1. /\ g["file"] \subseteq {"constraint"} \cup Expressions
      /\ g["iface"] \subseteq {"method"} \cup Expressions
      /\ \A k \in {"constraint", "method", "parts", "struct", "generic"} : g[k] \subseteq Expressions
      /\ g["name"] = {}
  BY GrammarAssumption
<1>2. shape.size \in Nat \ {0}
  BY GrammarAssumption
<1> HIDE DEF g
<1>3. /\ \A k \in Kinds : g[k] \subseteq Kinds \ {"file"}
      /\ \A k \in Kinds : "constraint" \in g[k] => k = "file"
      /\ \A k \in Kinds : "method" \in g[k] => k = "iface"
  BY <1>1 DEF Kinds, Expressions
<1> QED BY <1>1, <1>2, <1>3 DEF g

-----------------------------------------------------------------------------
(* The walkers of a declaration.  A walker has a front of its expressions   *)
(* before it; of the leaves it can come to it has visited those before the *)
(* front, and reaches the others from it.                                  *)

IsDeclaration ==
    /\ \E shape \in Shapes : tree \in TreesOf(shape)
    /\ WellFormed(tree)
    /\ typeAt \in [Leaves(tree) -> PackageTypes \cup Builtins \cup OtherTypes]
    /\ form \in [names : 0 .. MaxNames, declared : 0 .. MaxNames]
    /\ form.declared <= form.names
    /\ IsType \/ KidsOf(1, {"constraint"}) = <<>>

Plan == IF IsType THEN TypeSpecCalls ELSE ValueSpecCalls

Barred(walker) == IF walker = "named" THEN {"method"} ELSE {"generic", "iface", "method", "constraint"}
WantedBy(walker) == IF walker = "named" THEN PackageTypes ELSE Builtins

(* The leaves a walker may come to, and those it comes to from a front.    *)
OpenTo(walker) == {n \in Leaves(tree) : \A m \in Above(tree)[n] : Kind(m) \notin Barred(walker)}
From(walker, s) == {n \in OpenTo(walker) : Reaches(Above(tree), s, n)}
Goal(d) == From(Plan[d].walker, Plan[d].exprs)

(* Expressions that a walker may be at.                                    *)
IsReady(walker, s) ==
    /\ s \in Seq(DOMAIN tree) /\ InFront(Above(tree), s)
    /\ \A k \in DOMAIN s :
          /\ Kind(s[k]) \in Expressions
          /\ \A m \in Above(tree)[s[k]] : Kind(m) \notin Barred(walker)

Visited(d) == IF d < walk.call THEN Goal(d) ELSE Goal(d) \ From(walk.walker, walk.todo)

MadeBy(d, uses) ==
    {r \in [call : {d}, type : WantedBy(Plan[d].walker), at : uses] :
        r.type = typeAt[r.at] /\ FirstOf(r.at, uses)}

CallsOK ==
    /\ walk.call \in 0 .. Len(Plan)
    /\ calls = SubSeq(Plan, walk.call + 1, Len(Plan))
    /\ walk.call = 0 => walk = Idle
    /\ walk.call # 0 => walk.walker = Plan[walk.call].walker

WalkOK ==
    LET d == walk.call
    IN  d # 0 =>
        /\ IsReady(walk.walker, walk.todo)
        /\ From(walk.walker, walk.todo) \subseteq Goal(d)
        /\ \A n \in Visited(d), k \in DOMAIN walk.todo : n < walk.todo[k]
        /\ walk.seen = {typeAt[n] : n \in Visited(d)}

RefsOK == refs = UNION {MadeBy(d, Visited(d)) : d \in 1 .. walk.call}

AllWalked == done => calls = <<>> /\ walk.todo = <<>>

WalkIInv ==
    /\ IsDeclaration
    /\ walk = [call |-> walk.call, walker |-> walk.walker, todo |-> walk.todo, seen |-> walk.seen]
    /\ CallsOK /\ WalkOK /\ RefsOK /\ AllWalked

(* What the calls of a declaration come to together.                       *)
UsesIn(constraints) == {n \in Uses : InConstraint(n) = constraints}
AnswersForAll ==
    /\ \A d \in DOMAIN Plan : Plan[d].walker \in {"named", "builtin"} /\ IsReady(Plan[d].walker, Plan[d].exprs)
    /\ \A d \in DOMAIN Plan : Plan[d].walker = "named" => \E b \in BOOLEAN : Goal(d) = UsesIn(b)
    /\ \A d \in DOMAIN Plan : Plan[d].walker = "builtin" => Goal(d) = PlainUses
    /\ \A d, e \in DOMAIN Plan : Plan[d].walker = Plan[e].walker /\ Goal(d) \cap Goal(e) # {} => d = e
    /\ \A n \in Leaves(tree) :
          (\E d \in DOMAIN Plan : Plan[d].walker = "named" /\ n \in Goal(d))
              <=> n \in Uses /\ (IsType \/ form.declared > 0)
    /\ (\E d \in DOMAIN Plan : Plan[d].walker = "builtin") <=> WantsBuiltins

TreeFacts ==
    /\ Len(tree) \in Nat \ {0} /\ DOMAIN tree = 1 .. Len(tree)
    /\ IsTree(Len(tree), UpOf(tree), Above(tree))
    /\ tree[1].up = 0
    /\ \A n \in DOMAIN tree : Kind(n) \in Kinds /\ (Kind(n) = "file" <=> n = 1)
    /\ \A n \in DOMAIN tree \ {1} :
          /\ UpOf(tree)[n] = tree[n].up /\ tree[n].up \in DOMAIN tree /\ tree[n].up # 0
          /\ Kind(n) = "constraint" => tree[n].up = 1
          /\ Kind(n) = "method" => Kind(tree[n].up) = "iface"
          /\ Kind(tree[n].up) # "name"

LEMMA TreeFactsHold == ASSUME IsDeclaration PROVE TreeFacts
<1>1. PICK shape \in Shapes : tree \in TreesOf(shape)
  BY DEF IsDeclaration
<1> DEFINE g == shape.grammar
<1>2. /\ tree \in Seq(NodesWith(Kinds)) /\ tree # <<>> /\ tree[1] = [up |-> 0, kind |-> "file"]
      /\ IsTree(Len(tree), UpOf(tree), Above(tree))
      /\ \A n \in DOMAIN tree : n # 1 => tree[n].kind \in g[tree[tree[n].up].kind]
  <2>1. /\ shape.size \in Nat \ {0} /\ "file" \in Kinds
        /\ \A k \in Kinds : g[k] \subseteq Kinds
    <3>1. shape.size \in Nat \ {0} /\ \A k \in Kinds : g[k] \subseteq Kinds
      BY GrammarKinds
    <3> QED BY <3>1 DEF Kinds
  <2>2. tree \in Syntax!TreesOf(shape)
    BY <1>1 DEF TreesOf, Syntax!TreesOf, Above, Syntax!Above
  <2>3. IsGrown(Kinds, g, tree)
    <3> HIDE DEF Kinds
    <3> QED BY <2>1, <2>2, TreesAreGrown
  <2>4. Above(tree) = Syntax!Above(tree)
    BY DEF Above, Syntax!Above
  <2> QED BY <2>3, <2>4 DEF IsGrown
<1>3. /\ \A k \in Kinds : g[k] \subseteq Kinds \ {"file"}
      /\ \A k \in Kinds : "constraint" \in g[k] => k = "file"
      /\ \A k \in Kinds : "method" \in g[k] => k = "iface"
      /\ g["name"] = {}
  BY GrammarKinds
<1> HIDE DEF g
<1>4. Len(tree) \in Nat \ {0} /\ DOMAIN tree = 1 .. Len(tree) /\ 1 \in DOMAIN tree
  BY <1>2
<1>5. \A n \in DOMAIN tree : Kind(n) \in Kinds
  <2> TAKE n \in DOMAIN tree
  <2>1. tree[n] \in NodesWith(Kinds)
    BY <1>2
  <2> QED BY <2>1 DEF NodesWith, Kind
<1>6. ASSUME NEW n \in DOMAIN tree \ {1}
      PROVE  UpOf(tree)[n] = tree[n].up /\ tree[n].up \in DOMAIN tree /\ tree[n].up # 0
  <2>1. UpOf(tree)[n] = tree[n].up
    BY DEF UpOf
  <2>2. UpOf(tree)[n] \in 1 .. n - 1
    BY <1>2, <1>4 DEF IsTree, ParentsFirst
  <2> QED BY <1>4, <2>1, <2>2
<1>7. \A n \in DOMAIN tree \ {1} : Kind(n) \in g[Kind(tree[n].up)] /\ Kind(tree[n].up) \in Kinds
  BY <1>2, <1>5, <1>6 DEF Kind
<1>8. \A n \in DOMAIN tree : Kind(n) = "file" <=> n = 1
  BY <1>2, <1>3, <1>7 DEF Kind
<1>9. tree[1].up = 0
  BY <1>2
<1>10. ASSUME NEW n \in DOMAIN tree \ {1}
       PROVE  /\ Kind(n) = "constraint" => tree[n].up = 1
              /\ Kind(n) = "method" => Kind(tree[n].up) = "iface"
              /\ Kind(tree[n].up) # "name"
  BY <1>3, <1>6, <1>7, <1>8
<1> QED BY <1>2, <1>4, <1>5, <1>6, <1>8, <1>9, <1>10 DEF TreeFacts

(* What is above a node of the declaration.                                *)
LEMMA AboveFacts ==
    ASSUME TreeFacts
    PROVE  /\ \A n \in DOMAIN tree : Above(tree)[n] \subseteq DOMAIN tree
           /\ Above(tree)[1] = {}
           /\ \A n \in DOMAIN tree \ {1} : Above(tree)[n] = {tree[n].up} \cup Above(tree)[tree[n].up]
           /\ \A n \in DOMAIN tree : \A a \in Above(tree)[n] : a < n /\ Above(tree)[a] \subseteq Above(tree)[n]
           /\ \A a, m, c \in DOMAIN tree : a \in Above(tree)[c] /\ a < m /\ m <= c => a \in Above(tree)[m]
           /\ \A n \in DOMAIN tree : \A a \in Above(tree)[n] :
                 \E k \in DOMAIN tree \ {1} : tree[k].up = a /\ (k = n \/ k \in Above(tree)[n])
           /\ \A n \in DOMAIN tree : \A a \in Above(tree)[n] : Kind(a) # "name"
<1> DEFINE up == UpOf(tree)  above == Above(tree)  N == DOMAIN tree
<1>1. /\ Len(tree) \in Nat \ {0} /\ N = 1 .. Len(tree)
      /\ IsTree(Len(tree), up, above)
      /\ \A n \in N \ {1} : up[n] = tree[n].up
  BY DEF TreeFacts
<1> HIDE DEF up, above, N
<1>2. /\ \A n \in N : above[n] \in SUBSET N
      /\ above[1] = {}
      /\ \A n \in N : n # 1 => up[n] \in N /\ above[n] = {up[n]} \cup above[up[n]]
      /\ \A n \in N : \A a \in above[n] : a < n /\ above[a] \subseteq above[n]
      /\ \A a, m, c \in N : a \in above[c] /\ a < m /\ m <= c => a \in above[m]
      /\ \A n \in N : \A a \in above[n] : \E k \in N \ {1} : up[k] = a /\ (k = n \/ k \in above[n])
  BY <1>1, TreeOrder
<1>3. \A n \in N : \A a \in above[n] : \E k \in N \ {1} : tree[k].up = a /\ (k = n \/ k \in above[n])
  <2> SUFFICES ASSUME NEW n \in N, NEW a \in above[n]
               PROVE  \E k \in N \ {1} : tree[k].up = a /\ (k = n \/ k \in above[n])
    OBVIOUS
  <2>1. PICK k \in N \ {1} : up[k] = a /\ (k = n \/ k \in above[n])
    BY <1>2
  <2>2. up[k] = tree[k].up
    BY <1>1
  <2> QED BY <2>1, <2>2
<1>4. \A n \in N : \A a \in above[n] : Kind(a) # "name"
  BY <1>3 DEF TreeFacts, N
<1>5. \A n \in N \ {1} : above[n] = {tree[n].up} \cup above[tree[n].up]
  BY <1>1, <1>2
<1> QED BY <1>2, <1>3, <1>4, <1>5 DEF above, N

LEMMA InOrderIs ==
    ASSUME TreeFacts, NEW S, S \subseteq DOMAIN tree
    PROVE  /\ IsFiniteSet(S) /\ Listing(S, InOrder(S)) /\ InOrder(S) \in Seq(DOMAIN tree)
           /\ \A x : S = {x} => InOrder(S) = <<x>>
           /\ S = {} => InOrder(S) = <<>>
<1> DEFINE s == InOrder(S)
           size == Len(tree)
<1>1. size \in Nat /\ S \subseteq 1 .. size
  BY DEF TreeFacts
<1>2. ByPlace(S, s)
  BY DEF ByPlace, InOrder
<1> HIDE DEF s, size
<1>3. IsFiniteSet(S) /\ Listing(S, s) /\ s \in Seq(S)
  BY <1>1, <1>2, NodesInOrder
<1>4. \A x : S = {x} => s = <<x>>
  <2> SUFFICES ASSUME NEW x, S = {x} PROVE s = <<x>>
    OBVIOUS
  <2> QED BY <1>1, <1>2, NodesInOrder
<1>5. ASSUME S = {} PROVE s = <<>>
  <2>1. s \in Seq({})
    BY <1>3, <1>5
  <2> QED BY <2>1
<1>6. s \in Seq(DOMAIN tree)
  BY <1>3
<1> QED BY <1>3, <1>4, <1>5, <1>6 DEF s

(* What stands in a node.                                                  *)
LEMMA KidsFacts ==
    ASSUME TreeFacts, NEW n \in DOMAIN tree, NEW kinds
    PROVE  LET K == {k \in DOMAIN tree : tree[k].up = n /\ Kind(k) \in kinds}
           IN  /\ KidsOf(n, kinds) \in Seq(DOMAIN tree) /\ ChildrenIn(UpOf(tree), n, KidsOf(n, kinds))
               /\ \A i \in DOMAIN KidsOf(n, kinds) : KidsOf(n, kinds)[i] \in K
               /\ \A k \in K : \E i \in DOMAIN KidsOf(n, kinds) : KidsOf(n, kinds)[i] = k
               /\ \A x : K = {x} => KidsOf(n, kinds) = <<x>>
               /\ K = {} => KidsOf(n, kinds) = <<>>
<1> DEFINE K == {k \in DOMAIN tree : tree[k].up = n /\ Kind(k) \in kinds}
           s == KidsOf(n, kinds)
<1>1. s = InOrder(K) /\ K \subseteq DOMAIN tree
  BY DEF KidsOf
<1>2. \A k \in K : k \in DOMAIN tree /\ k # 1 /\ UpOf(tree)[k] = n
  <2> SUFFICES ASSUME NEW k \in K PROVE k # 1 /\ UpOf(tree)[k] = n
    OBVIOUS
  <2>1. tree[1].up = 0 /\ n # 0
    BY DEF TreeFacts
  <2>2. k \in DOMAIN tree /\ tree[k].up = n
    OBVIOUS
  <2>3. k # 1
    BY <2>1, <2>2
  <2> QED BY <2>2, <2>3 DEF TreeFacts
<1> HIDE DEF K, s
<1>3. /\ Listing(K, s) /\ s \in Seq(DOMAIN tree)
      /\ \A x : K = {x} => s = <<x>>
      /\ K = {} => s = <<>>
  BY <1>1, InOrderIs
<1>4. s \in Seq(K) /\ Ascends(s) /\ \A x \in K : \E k \in DOMAIN s : s[k] = x
  BY <1>3 DEF Listing
<1>5. \A i \in DOMAIN s : s[i] \in K
  BY <1>4
<1>6. ChildrenIn(UpOf(tree), n, s)
  BY <1>2, <1>4, <1>5 DEF ChildrenIn
<1> QED BY <1>3, <1>4, <1>5, <1>6 DEF K, s

LEMMA ChildrenAre ==
    ASSUME TreeFacts, NEW n \in DOMAIN tree
    PROVE  Children(tree, n) = KidsOf(n, Kinds)
<1>1. {k \in DOMAIN tree : tree[k].up = n} = {k \in DOMAIN tree : tree[k].up = n /\ Kind(k) \in Kinds}
  BY DEF TreeFacts
<1> QED BY <1>1 DEF Children, KidsOf

TheType == KidsOf(1, Expressions)[1]
Below(a, n) == n = a \/ a \in Above(tree)[n]

(* A declaration has one type, and the rest of it are constraints.         *)
LEMMA TheTypeIs ==
    ASSUME IsDeclaration, TreeFacts
    PROVE  /\ KidsOf(1, Expressions) = <<TheType>>
           /\ TheType \in DOMAIN tree \ {1} /\ tree[TheType].up = 1 /\ Kind(TheType) \in Expressions
           /\ Above(tree)[TheType] = {1}
           /\ \A n \in DOMAIN tree \ {1} : Below(TheType, n) <=> Kind(n) # "constraint" /\ ~InConstraint(n)
<1> DEFINE N == DOMAIN tree
           top == {n \in N : tree[n].up = 1 /\ tree[n].kind # "constraint"}
           above == Above(tree)
<1>1. /\ N \subseteq Nat /\ 1 \in N
      /\ tree[1].up = 0
      /\ \A n \in N : Kind(n) \in Kinds /\ (Kind(n) = "file" <=> n = 1)
      /\ \A n \in N \ {1} :
            /\ tree[n].up \in N
            /\ Kind(n) = "constraint" => tree[n].up = 1
            /\ Kind(n) = "method" => Kind(tree[n].up) = "iface"
  BY DEF TreeFacts
<1>2. /\ \A n \in N : above[n] \subseteq N
      /\ above[1] = {}
      /\ \A n \in N \ {1} : above[n] = {tree[n].up} \cup above[tree[n].up]
      /\ \A n \in N : \A a \in above[n] : a < n
      /\ \A a, m, c \in N : a \in above[c] /\ a < m /\ m <= c => a \in above[m]
      /\ \A n \in N : \A a \in above[n] : \E k \in N \ {1} : tree[k].up = a /\ (k = n \/ k \in above[n])
  BY AboveFacts
<1>3. IsFiniteSet(top) /\ Cardinality(top) = 1 /\ \A n \in N : tree[n].up = 1 => n <= Max(top)
  <2>1. WellFormed(tree)
    BY DEF IsDeclaration
  <2>2. top \subseteq DOMAIN tree
    OBVIOUS
  <2>3. IsFiniteSet(top)
    <3> HIDE DEF top
    <3> QED BY <2>2, InOrderIs
  <2> QED BY <2>1, <2>3 DEF WellFormed
<1> HIDE DEF above
<1>4. PICK T : top = {T}
  <2> HIDE DEF top
  <2> QED BY <1>3, FS_Singleton
<1>5. T \in N \ {1} /\ tree[T].up = 1 /\ Kind(T) # "constraint"
  BY <1>1, <1>4 DEF Kind
<1>6. \A k \in N : tree[k].up = 1 => k # 1 /\ (Kind(k) \in Expressions \/ Kind(k) = "constraint")
  BY <1>1 DEF Kinds
<1>7. {k \in N : tree[k].up = 1 /\ Kind(k) \in Expressions} = {T}
  <2>1. Kind(T) \in Expressions
    BY <1>5, <1>6
  <2>2. \A k \in N : tree[k].up = 1 /\ Kind(k) \in Expressions => k = T
    BY <1>4 DEF Kind, Expressions
  <2> QED BY <1>5, <2>1, <2>2
<1>8. KidsOf(1, Expressions) = <<T>>
  BY <1>1, <1>7, KidsFacts
<1>9. TheType = T
  BY <1>8 DEF TheType
<1>10. above[T] = {1}
  BY <1>2, <1>5
<1>11. \A n \in N : tree[n].up = 1 => n <= T
  <2>1. Max({T}) = T
    <3>1. \A y \in {T} : T >= y
      BY <1>1, <1>5
    <3> QED BY <3>1 DEF Max
  <2> QED BY <1>3, <1>4, <2>1
<1>12. \A n \in N \ {1} : 1 \in above[n]
  <2> DEFINE W == {n \in N \ {1} : 1 \notin above[n]}
  <2> SUFFICES ASSUME W # {} PROVE FALSE
    OBVIOUS
  <2>1. PICK n \in W : \A m \in W : n <= m
    <3>1. W \subseteq Nat
      BY <1>1
    <3> HIDE DEF W
    <3> QED BY <3>1, LeastNat
  <2>2. n \in N \ {1} /\ tree[n].up \in above[n] /\ tree[n].up \in N
    BY <1>1, <1>2
  <2>3. tree[n].up < n /\ n \in Nat /\ tree[n].up \in Nat
    BY <1>1, <1>2, <2>2
  <2>4. tree[n].up \notin W
    BY <2>1, <2>3
  <2> QED BY <1>2, <2>1, <2>2, <2>4
<1> HIDE DEF top
<1>13. ASSUME NEW n \in N \ {1}, Kind(n) # "constraint", ~InConstraint(n) PROVE Below(T, n)
  <2>1. PICK k \in N \ {1} : tree[k].up = 1 /\ (k = n \/ k \in above[n])
    BY <1>2, <1>12
  <2>2. Kind(k) # "constraint"
    BY <1>13, <2>1 DEF InConstraint, above
  <2>3. k = T
    BY <1>4, <2>1, <2>2 DEF top, Kind
  <2> QED BY <2>1, <2>3 DEF Below, above
<1>14. ASSUME NEW n \in N \ {1}, Below(T, n), NEW c \in N, c = n \/ c \in above[n], Kind(c) = "constraint"
       PROVE  FALSE
  <2>1. c # 1 /\ tree[c].up = 1 /\ c # T
    BY <1>1, <1>5, <1>14
  <2>2. above[c] = {1} /\ c <= T /\ c \in Nat /\ T \in Nat /\ n \in Nat
    BY <1>1, <1>2, <1>5, <1>11, <2>1
  <2>3. c < T
    BY <2>1, <2>2
  <2>4. T = n \/ T \in above[n]
    BY <1>14 DEF Below, above
  <2>5. c \in above[n]
    BY <1>5, <1>14, <2>1, <2>2, <2>4
  <2>6. T <= n
    BY <1>2, <2>2, <2>4
  <2>7. c \in above[T]
    BY <1>2, <1>5, <2>3, <2>5, <2>6
  <2> QED BY <1>10, <2>1, <2>7
<1>15. \A n \in N \ {1} : Below(T, n) <=> Kind(n) # "constraint" /\ ~InConstraint(n)
  <2> SUFFICES ASSUME NEW n \in N \ {1}, Below(T, n) PROVE Kind(n) # "constraint" /\ ~InConstraint(n)
    BY <1>13
  <2>1. \A c \in N : c = n \/ c \in above[n] => Kind(c) # "constraint"
    BY <1>14
  <2> QED BY <1>2, <2>1 DEF InConstraint, above
<1>16. Kind(T) \in Expressions
  BY <1>7
<1> QED BY <1>5, <1>8, <1>9, <1>10, <1>15, <1>16 DEF above

(* A constraint is one expression.                                         *)
LEMMA ConstraintIs ==
    ASSUME IsDeclaration, TreeFacts, NEW c \in DOMAIN tree, Kind(c) = "constraint"
    PROVE  LET x == Children(tree, c)[1]
           IN  /\ x \in DOMAIN tree \ {1} /\ tree[x].up = c /\ Kind(x) \in Expressions
               /\ Above(tree)[x] = {1, c}
               /\ \A n \in DOMAIN tree : c \in Above(tree)[n] => Below(x, n)
               /\ \A n \in DOMAIN tree : Below(x, n) => c \in Above(tree)[n]
<1> DEFINE N == DOMAIN tree
           K == {k \in N : tree[k].up = c}
           above == Above(tree)
<1>1. /\ \A n \in N : Kind(n) \in Kinds /\ (Kind(n) = "file" <=> n = 1)
      /\ \A n \in N \ {1} :
            /\ tree[n].up \in N
            /\ Kind(n) = "constraint" => tree[n].up = 1
            /\ Kind(n) = "method" => Kind(tree[n].up) = "iface"
      /\ tree[1].up = 0 /\ 0 \notin N
  BY DEF TreeFacts
<1>2. /\ above[1] = {}
      /\ \A n \in N \ {1} : above[n] = {tree[n].up} \cup above[tree[n].up]
      /\ \A n \in N : \A a \in above[n] : above[a] \subseteq above[n]
      /\ \A n \in N : \A a \in above[n] : \E k \in N \ {1} : tree[k].up = a /\ (k = n \/ k \in above[n])
  BY AboveFacts
<1>3. c # 1 /\ tree[c].up = 1
  BY <1>1
<1>4. IsFiniteSet(K) /\ Cardinality(K) = 1 /\ K \subseteq N
  <2>1. WellFormed(tree)
    BY DEF IsDeclaration
  <2>2. IsFiniteSet(K)
    <3>1. K \subseteq DOMAIN tree
      OBVIOUS
    <3> HIDE DEF K
    <3> QED BY <3>1, InOrderIs
  <2> QED BY <2>1, <2>2 DEF WellFormed, Kind
<1>5. PICK x : K = {x}
  <2> HIDE DEF K
  <2> QED BY <1>4, FS_Singleton
<1>6. Children(tree, c) = <<x>>
  <2>1. Children(tree, c) = InOrder(K)
    BY DEF Children
  <2> HIDE DEF K
  <2> QED BY <1>4, <1>5, <2>1, InOrderIs
<1>7. x \in N \ {1} /\ tree[x].up = c
  BY <1>1, <1>5
<1>8. \A k \in N : tree[k].up = c => k = x
  BY <1>5
<1> HIDE DEF K, above
<1>9. Kind(x) \in Expressions
  BY <1>1, <1>3, <1>7 DEF Kinds
<1>10. above[x] = {1, c}
  BY <1>2, <1>3, <1>7
<1>11. ASSUME NEW n \in N, c \in above[n] PROVE Below(x, n)
  BY <1>2, <1>8, <1>11 DEF Below, above
<1>12. ASSUME NEW n \in N, Below(x, n) PROVE c \in above[n]
  BY <1>2, <1>10, <1>12 DEF Below, above
<1> QED BY <1>6, <1>7, <1>9, <1>10, <1>11, <1>12 DEF above

(* The children of a node are a front, where their kinds allow it.         *)
AreExpressions(s) == \A k \in DOMAIN s : Kind(s[k]) \in Expressions
Enters(walker, h) == \A m \in {h} \cup Above(tree)[h] : Kind(m) \notin Barred(walker)

LEMMA ChildrenReady ==
    ASSUME TreeFacts, NEW h \in DOMAIN tree, NEW walker, NEW s \in Seq(DOMAIN tree),
           ChildrenIn(UpOf(tree), h, s), AreExpressions(s), Enters(walker, h)
    PROVE  IsReady(walker, s)
<1> DEFINE N == DOMAIN tree
           above == Above(tree)
<1>1. /\ N \subseteq Nat
      /\ \A n \in N \ {1} : UpOf(tree)[n] = tree[n].up
  BY DEF TreeFacts
<1>2. /\ \A n \in N \ {1} : above[n] = {tree[n].up} \cup above[tree[n].up]
      /\ \A n \in N : \A a \in above[n] : a < n /\ a \in N
  BY AboveFacts
<1>3. \A k \in DOMAIN s : s[k] \in N
  OBVIOUS
<1>4. /\ \A k \in DOMAIN s : s[k] # 1 /\ UpOf(tree)[s[k]] = h
      /\ \A i, j \in DOMAIN s : i < j => s[i] < s[j]
  BY DEF ChildrenIn, Ascends
<1> HIDE DEF N, above
<1>5. ASSUME NEW k \in DOMAIN s PROVE s[k] # 1 /\ tree[s[k]].up = h /\ above[s[k]] = {h} \cup above[h]
  <2>1. s[k] \in N \ {1} /\ UpOf(tree)[s[k]] = h
    BY <1>3, <1>4
  <2> QED BY <1>1, <1>2, <2>1
<1>6. ASSUME NEW i \in DOMAIN s, NEW j \in DOMAIN s PROVE s[i] \notin above[s[j]]
  <2>1. h < s[i] /\ s[i] \in Nat /\ h \in Nat /\ h \in N
    BY <1>1, <1>2, <1>3, <1>5 DEF N
  <2>2. s[i] \notin above[h]
    <3>1. \A a \in above[h] : a < h /\ a \in Nat
      BY <1>1, <1>2, <2>1 DEF N
    <3> QED BY <2>1, <3>1
  <2> QED BY <1>5, <2>1, <2>2
<1>7. InFront(above, s)
  BY <1>4, <1>6 DEF InFront
<1>8. \A k \in DOMAIN s : \A m \in above[s[k]] : Kind(m) \notin Barred(walker)
  BY <1>5 DEF Enters, above
<1> QED BY <1>7, <1>8 DEF IsReady, AreExpressions, above

LEMMA FromIs ==
    ASSUME TreeFacts
    PROVE  /\ OpenTo("named") = Uses /\ OpenTo("builtin") = PlainUses
           /\ \A walker, s, n : n \in From(walker, s) <=> n \in OpenTo(walker) /\ \E k \in DOMAIN s : Below(s[k], n)
           /\ \A walker : OpenTo(walker) \subseteq Leaves(tree) /\ From(walker, <<>>) = {}
           /\ Leaves(tree) \subseteq DOMAIN tree \ {1} /\ \A n \in Leaves(tree) : Kind(n) = "name"
           /\ UsesIn(TRUE) \cap UsesIn(FALSE) = {} /\ Uses = UsesIn(TRUE) \cup UsesIn(FALSE)
<1>1. OpenTo("named") = Uses
  BY DEF OpenTo, Uses, Barred
<1>2. OpenTo("builtin") = PlainUses
  BY DEF OpenTo, PlainUses, Barred
<1>3. \A walker, s, n : n \in From(walker, s) <=> n \in OpenTo(walker) /\ \E k \in DOMAIN s : Below(s[k], n)
  BY DEF From, Reaches, Below
<1>4. \A walker : OpenTo(walker) \subseteq Leaves(tree) /\ From(walker, <<>>) = {}
  BY <1>3 DEF OpenTo
<1>5. \A n \in Leaves(tree) : n \in DOMAIN tree /\ Kind(n) = "name"
  BY DEF Leaves, Kind
<1>6. Leaves(tree) \subseteq DOMAIN tree \ {1}
  BY <1>5 DEF TreeFacts
<1>7. \A n : InConstraint(n) \in BOOLEAN
  BY DEF InConstraint
<1>8. UsesIn(TRUE) \cap UsesIn(FALSE) = {} /\ Uses = UsesIn(TRUE) \cup UsesIn(FALSE)
  BY <1>7 DEF UsesIn
<1> QED BY <1>1, <1>2, <1>3, <1>4, <1>5, <1>6, <1>8

(* The calls of a declaration: of its constraints, of its type, and for    *)
(* the builtin types of it.                                                *)
Calls == [walker : {"named", "builtin"}, exprs : Seq(DOMAIN tree)]
IsCall(c, role) ==
    /\ c \in Calls /\ IsReady(c.walker, c.exprs)
    /\ role = "constraints" => c.walker = "named" /\ From(c.walker, c.exprs) = UsesIn(TRUE)
    /\ role = "type" => c.walker = "named" /\ From(c.walker, c.exprs) = UsesIn(FALSE)
    /\ role = "builtins" => c.walker = "builtin" /\ From(c.walker, c.exprs) = PlainUses

LEMMA ConstraintsCall ==
    ASSUME IsDeclaration, TreeFacts
    PROVE  LET constraints == KidsOf(1, {"constraint"})
           IN  IsCall(Named([i \in DOMAIN constraints |-> Children(tree, constraints[i])[1]]), "constraints")
<1> DEFINE N == DOMAIN tree
           above == Above(tree)
           K == {k \in N : tree[k].up = 1 /\ Kind(k) \in {"constraint"}}
           cs == KidsOf(1, {"constraint"})
           x(c) == Children(tree, c)[1]
           s == [i \in DOMAIN cs |-> x(cs[i])]
<1>1. /\ N \subseteq Nat /\ 1 \in N
      /\ \A n \in N : Kind(n) = "constraint" => n # 1 /\ tree[n].up = 1
      /\ Kind(1) = "file"
  BY DEF TreeFacts
<1>2. /\ cs \in Seq(N)
      /\ \A i \in DOMAIN cs : cs[i] \in K
      /\ \A k \in K : \E i \in DOMAIN cs : cs[i] = k
      /\ Ascends(cs)
  BY <1>1, KidsFacts DEF ChildrenIn
<1>3. \A c \in N : Kind(c) = "constraint" =>
          /\ x(c) \in N \ {1} /\ Kind(x(c)) \in Expressions /\ above[x(c)] = {1, c}
          /\ \A n \in N : c \in above[n] <=> Below(x(c), n)
  BY ConstraintIs
<1>4. /\ \A n \in N : \A a \in above[n] : a < n /\ a \in N
      /\ \A a, m, c \in N : a \in above[c] /\ a < m /\ m <= c => a \in above[m]
  BY AboveFacts
<1>5. \A i \in DOMAIN cs : cs[i] \in N /\ Kind(cs[i]) = "constraint" /\ cs[i] # 1
  BY <1>1, <1>2
<1>6. \A n : n \in From("named", s) <=> n \in Uses /\ \E k \in DOMAIN s : Below(s[k], n)
  BY FromIs
<1>7. \A n \in Uses : n \in N
  BY FromIs
<1> HIDE DEF x, above, N, K, cs
<1>8. /\ DOMAIN s = DOMAIN cs
      /\ \A i \in DOMAIN cs : s[i] = x(cs[i])
  OBVIOUS
<1>9. \A i \in DOMAIN cs : /\ s[i] \in N /\ s[i] # 1 /\ Kind(s[i]) \in Expressions
                           /\ above[s[i]] = {1, cs[i]}
                           /\ \A n \in N : cs[i] \in above[n] <=> Below(s[i], n)
  BY <1>3, <1>5
<1>10. s \in Seq(N)
  <2>1. s \in [DOMAIN cs -> N]
    BY <1>9
  <2> QED BY <1>2, <2>1, MapLemma
<1> HIDE DEF s
<1>11. ASSUME NEW i \in DOMAIN s, NEW j \in DOMAIN s, i < j PROVE s[i] < s[j] /\ s[i] \notin above[s[j]]
  <2>1. cs[i] < cs[j]
    BY <1>2, <1>8, <1>11 DEF Ascends
  <2>2. s[i] # cs[j]
    BY <1>5, <1>8, <1>9 DEF Expressions
  <2>3. s[i] \notin above[s[j]]
    BY <1>8, <1>9, <2>2
  <2>4. cs[i] \in above[s[i]] /\ cs[j] \in above[s[j]]
    BY <1>8, <1>9
  <2>5. cs[j] < s[j] /\ s[i] \in Nat /\ s[j] \in Nat /\ cs[i] \in Nat /\ cs[j] \in Nat
    BY <1>1, <1>4, <1>5, <1>8, <1>9, <2>4
  <2>6. ~(s[j] <= s[i])
    <3> SUFFICES ASSUME s[j] <= s[i] PROVE FALSE
      OBVIOUS
    <3>1. cs[i] < s[j]
      BY <2>1, <2>5
    <3>2. cs[i] \in N /\ s[i] \in N /\ s[j] \in N
      BY <1>5, <1>8, <1>9
    <3>3. cs[i] \in above[s[j]]
      BY <1>4, <2>4, <3>1, <3>2
    <3>4. cs[i] # cs[j]
      BY <2>1, <2>5
    <3> QED BY <1>5, <1>8, <1>9, <3>3, <3>4
  <2> QED BY <2>3, <2>5, <2>6
<1>12. IsReady("named", s)
  <2>1. InFront(above, s)
    BY <1>11 DEF InFront
  <2>2. ASSUME NEW k \in DOMAIN s PROVE /\ Kind(s[k]) \in Expressions
                                        /\ \A m \in above[s[k]] : Kind(m) \notin Barred("named")
    BY <1>1, <1>5, <1>8, <1>9 DEF Barred
  <2> QED BY <1>10, <2>1, <2>2 DEF IsReady, above, N
<1>13. From("named", s) = UsesIn(TRUE)
  <2>1. ASSUME NEW n \in Uses PROVE InConstraint(n) <=> \E k \in DOMAIN s : Below(s[k], n)
    <3>1. n \in N
      BY <1>7
    <3>2. ASSUME NEW k \in DOMAIN s, Below(s[k], n) PROVE InConstraint(n)
      <4>1. cs[k] \in above[n] /\ Kind(cs[k]) = "constraint"
        BY <1>5, <1>8, <1>9, <3>1, <3>2
      <4> QED BY <4>1 DEF InConstraint, above
    <3>3. ASSUME InConstraint(n) PROVE \E k \in DOMAIN s : Below(s[k], n)
      <4>1. PICK c \in above[n] : Kind(c) = "constraint"
        BY <3>3 DEF InConstraint, above
      <4>2. c \in K
        BY <1>1, <1>4, <3>1, <4>1 DEF K
      <4>3. PICK k \in DOMAIN cs : cs[k] = c
        BY <1>2, <4>2
      <4> QED BY <1>8, <1>9, <3>1, <4>1, <4>3
    <3> QED BY <3>2, <3>3
  <2>2. \A n : InConstraint(n) \in BOOLEAN
    BY DEF InConstraint
  <2> QED BY <1>6, <2>1, <2>2 DEF UsesIn
<1>14. Named(s) = [walker |-> "named", exprs |-> s]
  BY DEF Named
<1>15. IsCall(Named(s), "constraints")
  <2>1. Named(s) \in Calls /\ Named(s).walker = "named" /\ Named(s).exprs = s
    BY <1>10, <1>14 DEF Calls, N
  <2> QED BY <1>12, <1>13, <2>1 DEF IsCall
<1> QED BY <1>15 DEF s, cs, x

(* The type as a whole, and the parts of an interface or a struct.         *)
LEMMA TypeCall ==
    ASSUME IsDeclaration, TreeFacts
    PROVE  /\ IsCall(Named(<<TheType>>), "type")
           /\ IsCall(Builtin(<<TheType>>), "builtins")
           /\ Kind(TheType) = "iface" => IsCall(Named(KidsOf(TheType, Expressions)), "type")
           /\ Kind(TheType) = "struct" => IsCall(Builtin(Children(tree, TheType)), "builtins")
<1> DEFINE N == DOMAIN tree
           above == Above(tree)
           T == TheType
<1>1. /\ \A n \in N : Kind(n) \in Kinds /\ (Kind(n) = "file" <=> n = 1)
      /\ \A n \in N \ {1} :
            /\ Kind(n) = "constraint" => tree[n].up = 1
            /\ Kind(n) = "method" => Kind(tree[n].up) = "iface"
      /\ 1 \in N
  BY DEF TreeFacts
<1>2. /\ T \in N \ {1} /\ Kind(T) \in Expressions /\ above[T] = {1}
      /\ \A n \in N \ {1} : Below(T, n) <=> Kind(n) # "constraint" /\ ~InConstraint(n)
  BY TheTypeIs
<1>3. /\ OpenTo("named") = Uses /\ OpenTo("builtin") = PlainUses
      /\ \A walker, s, n : n \in From(walker, s) <=> n \in OpenTo(walker) /\ \E k \in DOMAIN s : Below(s[k], n)
      /\ \A n \in Leaves(tree) : n \in N \ {1} /\ Kind(n) = "name"
      /\ \A walker : OpenTo(walker) \subseteq Leaves(tree)
  BY FromIs
<1>4. /\ \A n \in N : \A a \in above[n] : above[a] \subseteq above[n]
      /\ \A n \in N : \A a \in above[n] : \E k \in N \ {1} : tree[k].up = a /\ (k = n \/ k \in above[n])
      /\ \A n \in N \ {1} : above[n] = {tree[n].up} \cup above[tree[n].up]
  BY AboveFacts
<1> HIDE DEF T, above, N
<1>5. \A n \in Leaves(tree) : Below(T, n) <=> ~InConstraint(n)
  BY <1>2, <1>3
<1>6. \A n \in PlainUses : n \in Leaves(tree) /\ ~InConstraint(n)
  BY DEF PlainUses, InConstraint
<1>7. \A n : n \in UsesIn(FALSE) <=> n \in Uses /\ Below(T, n)
  <2>1. \A n : InConstraint(n) \in BOOLEAN
    BY DEF InConstraint
  <2>2. Uses \subseteq Leaves(tree)
    BY <1>3
  <2> QED BY <1>5, <2>1, <2>2 DEF UsesIn
<1>8. /\ <<T>> \in Seq(N) /\ DOMAIN <<T>> = {1} /\ <<T>>[1] = T
  BY <1>2
<1>9. ASSUME NEW walker PROVE IsReady(walker, <<T>>)
  <2>1. InFront(above, <<T>>)
    BY <1>8 DEF InFront
  <2>2. Kind(1) \notin Barred(walker)
    BY <1>1 DEF Barred
  <2> QED BY <1>2, <1>8, <2>1, <2>2 DEF IsReady, above, N
<1>10. IsCall(Named(<<T>>), "type")
  <2>1. From("named", <<T>>) = UsesIn(FALSE)
    <3>1. \A n : n \in From("named", <<T>>) <=> n \in Uses /\ Below(T, n)
      BY <1>3, <1>8
    <3> QED BY <1>7, <3>1
  <2> QED BY <1>8, <1>9, <2>1 DEF IsCall, Calls, Named, N
<1>11. IsCall(Builtin(<<T>>), "builtins")
  <2>1. From("builtin", <<T>>) = PlainUses
    BY <1>3, <1>5, <1>6, <1>8
  <2> QED BY <1>8, <1>9, <2>1 DEF IsCall, Calls, Builtin, N
<1>12. \A k \in N \ {1} : tree[k].up = T => Kind(k) \in Expressions \/ (Kind(k) = "method" /\ Kind(T) = "iface")
  BY <1>1, <1>2 DEF Kinds
<1>13. \A n \in Leaves(tree) : Below(T, n) /\ Kind(T) # "name" =>
           \E k \in N \ {1} : tree[k].up = T /\ Below(k, n)
  <2> SUFFICES ASSUME NEW n \in Leaves(tree), Below(T, n), Kind(T) # "name"
               PROVE  \E k \in N \ {1} : tree[k].up = T /\ Below(k, n)
    OBVIOUS
  <2>1. n \in N /\ T \in above[n]
    BY <1>3 DEF Below, above
  <2> QED BY <1>4, <2>1 DEF Below, above
<1>14. \A n \in Leaves(tree), k \in N \ {1} : tree[k].up = T /\ Below(k, n) => Below(T, n)
  <2> SUFFICES ASSUME NEW n \in Leaves(tree), NEW k \in N \ {1}, tree[k].up = T, Below(k, n) PROVE T \in above[n]
    BY DEF Below, above
  <2>1. n \in N /\ T \in above[k]
    BY <1>3, <1>4
  <2> QED BY <1>4, <2>1 DEF Below, above
<1>15. ASSUME Kind(T) = "iface" PROVE IsCall(Named(KidsOf(T, Expressions)), "type")
  <2> DEFINE s == KidsOf(T, Expressions)
             K == {k \in N : tree[k].up = T /\ Kind(k) \in Expressions}
  <2>1. /\ s \in Seq(N) /\ ChildrenIn(UpOf(tree), T, s)
        /\ \A i \in DOMAIN s : s[i] \in K
        /\ \A k \in K : \E i \in DOMAIN s : s[i] = k
    <3>1. T \in DOMAIN tree
      BY <1>2 DEF N
    <3> QED BY <3>1, KidsFacts DEF N
  <2> HIDE DEF s
  <2>2. AreExpressions(s)
    BY <2>1 DEF AreExpressions
  <2>3. Enters("named", T)
    BY <1>1, <1>2, <1>15 DEF Enters, Barred, above
  <2>4. /\ IsReady("named", s)
        /\ \A k \in DOMAIN s : s[k] # 1 /\ tree[s[k]].up = T
    <3>1. T \in DOMAIN tree /\ s \in Seq(DOMAIN tree)
      BY <1>2, <2>1 DEF N
    <3>2. IsReady("named", s)
      BY <2>1, <2>2, <2>3, <3>1, ChildrenReady, Zenon
    <3> QED BY <2>1, <3>2 DEF ChildrenIn
  <2>5. ASSUME NEW n \in Uses PROVE (\E k \in DOMAIN s : Below(s[k], n)) <=> Below(T, n)
    <3>1. n \in Leaves(tree) /\ \A m \in above[n] : Kind(m) # "method"
      BY DEF Uses, above
    <3>2. ASSUME NEW k \in DOMAIN s, Below(s[k], n) PROVE Below(T, n)
      <4>1. s[k] \in N \ {1} /\ tree[s[k]].up = T
        BY <2>1, <2>4
      <4> QED BY <1>14, <3>1, <3>2, <4>1
    <3>3. ASSUME Below(T, n) PROVE \E k \in DOMAIN s : Below(s[k], n)
      <4>1. PICK k \in N \ {1} : tree[k].up = T /\ Below(k, n)
        BY <1>13, <1>15, <3>1, <3>3
      <4>2. Kind(k) # "method"
        BY <1>3, <3>1, <4>1 DEF Below, above
      <4>3. k \in K
        BY <1>12, <4>1, <4>2
      <4> QED BY <2>1, <4>1, <4>3
    <3> QED BY <3>2, <3>3
  <2>6. From("named", s) = UsesIn(FALSE)
    BY <1>3, <1>7, <2>5
  <2>7. IsCall(Named(s), "type")
    BY <2>1, <2>4, <2>6 DEF IsCall, Calls, Named, N
  <2> QED BY <2>7 DEF s
<1>16. ASSUME Kind(T) = "struct" PROVE IsCall(Builtin(Children(tree, T)), "builtins")
  <2> DEFINE s == Children(tree, T)
             K == {k \in N : tree[k].up = T /\ Kind(k) \in Kinds}
  <2>1. /\ s \in Seq(N) /\ ChildrenIn(UpOf(tree), T, s)
        /\ \A i \in DOMAIN s : s[i] \in K
        /\ \A k \in K : \E i \in DOMAIN s : s[i] = k
    <3>1. T \in DOMAIN tree
      BY <1>2 DEF N
    <3>2. s = KidsOf(T, Kinds)
      BY <3>1, ChildrenAre
    <3> HIDE DEF s
    <3> QED BY <3>1, <3>2, KidsFacts DEF N
  <2> HIDE DEF s
  <2>2. AreExpressions(s)
    <3> SUFFICES ASSUME NEW k \in DOMAIN s PROVE Kind(s[k]) \in Expressions
      BY DEF AreExpressions
    <3>1. s[k] \in N /\ tree[s[k]].up = T /\ s[k] # 1
      BY <2>1 DEF ChildrenIn
    <3> QED BY <1>12, <1>16, <3>1
  <2>3. Enters("builtin", T)
    BY <1>1, <1>2, <1>16 DEF Enters, Barred, above
  <2>4. IsReady("builtin", s)
    <3>1. T \in DOMAIN tree /\ s \in Seq(DOMAIN tree)
      BY <1>2, <2>1 DEF N
    <3> QED BY <2>1, <2>2, <2>3, <3>1, ChildrenReady, Zenon
  <2>5. ASSUME NEW n \in PlainUses PROVE \E k \in DOMAIN s : Below(s[k], n)
    <3>1. PICK k \in N \ {1} : tree[k].up = T /\ Below(k, n)
      BY <1>5, <1>6, <1>13, <1>16
    <3>2. k \in K
      BY <1>1, <3>1
    <3> QED BY <2>1, <3>1, <3>2
  <2>6. From("builtin", s) = PlainUses
    BY <1>3, <2>5
  <2>7. IsCall(Builtin(s), "builtins")
    BY <2>1, <2>4, <2>6 DEF IsCall, Calls, Builtin, N
  <2> QED BY <2>7 DEF s
<1> QED BY <1>10, <1>11, <1>15, <1>16 DEF T

Occurs(roles, role) == \E d \in DOMAIN roles : roles[d] = role
Fills(cs, roles) ==
    /\ cs \in Seq(Calls) /\ roles \in Seq({"constraints", "type", "builtins"}) /\ Len(roles) = Len(cs)
    /\ \A d \in DOMAIN cs : IsCall(cs[d], roles[d])
    /\ IsInjective(roles)

LEMMA TwoInARow ==
    ASSUME NEW S, NEW x \in S, NEW y \in S
    PROVE  <<x, y>> = <<x>> \o <<y>>
<1>1. <<x>> \in Seq(S) /\ <<y>> \in Seq(S) /\ <<x, y>> \in Seq(S) /\ Len(<<x>>) = 1 /\ Len(<<y>>) = 1
  OBVIOUS
<1> DEFINE a == <<x>>  b == <<y>>  c == a \o b
<1>2. a[1] = x /\ b[1] = y
  OBVIOUS
<1>3. c \in Seq(S) /\ Len(c) = 2 /\ c[1] = x /\ c[2] = y
  <2> HIDE DEF a, b
  <2>1. a \in Seq(S) /\ b \in Seq(S) /\ Len(a) = 1 /\ Len(b) = 1
    BY <1>1 DEF a, b
  <2>2. 1 \in DOMAIN a /\ 1 \in DOMAIN b /\ c \in Seq(S) /\ Len(c) = 2
    BY <2>1
  <2>3. c[1] = a[1] /\ c[Len(a) + 1] = b[1]
    <3> HIDE DEF c
    <3> QED BY <2>1, <2>2, ConcatAt DEF c
  <2> QED BY <1>2, <2>1, <2>2, <2>3
<1> HIDE DEF c
<1>4. c = <<x, y>>
  BY <1>3
<1> QED BY <1>4 DEF c

LEMMA FillsOne ==
    ASSUME NEW c, NEW role \in {"constraints", "type", "builtins"}, IsCall(c, role)
    PROVE  Fills(<<c>>, <<role>>) /\ \A r : Occurs(<<role>>, r) <=> r = role
<1>1. <<c>> \in Seq(Calls)
  BY DEF IsCall
<1>2. /\ <<role>> \in Seq({"constraints", "type", "builtins"}) /\ Len(<<role>>) = Len(<<c>>)
      /\ DOMAIN <<c>> = {1} /\ DOMAIN <<role>> = {1} /\ <<c>>[1] = c /\ <<role>>[1] = role
  OBVIOUS
<1>3. IsInjective(<<role>>)
  BY <1>2 DEF IsInjective
<1> QED BY <1>1, <1>2, <1>3 DEF Fills, Occurs

LEMMA FillsNone == Fills(<<>>, <<>>) /\ \A r : ~Occurs(<<>>, r)
<1>1. <<>> \in Seq(Calls) /\ <<>> \in Seq({"constraints", "type", "builtins"}) /\ Len(<<>>) = 0 /\ DOMAIN <<>> = {}
  OBVIOUS
<1>2. IsInjective(<<>>)
  BY <1>1 DEF IsInjective
<1> QED BY <1>1, <1>2 DEF Fills, Occurs

LEMMA FillsBoth ==
    ASSUME NEW a, NEW ra, Fills(a, ra), NEW b, NEW rb, Fills(b, rb), \A r : ~(Occurs(ra, r) /\ Occurs(rb, r))
    PROVE  Fills(a \o b, ra \o rb) /\ \A r : Occurs(ra \o rb, r) <=> Occurs(ra, r) \/ Occurs(rb, r)
<1> DEFINE c == a \o b
           rc == ra \o rb
           Roles == {"constraints", "type", "builtins"}
<1>1. /\ a \in Seq(Calls) /\ b \in Seq(Calls) /\ ra \in Seq(Roles) /\ rb \in Seq(Roles)
      /\ Len(ra) = Len(a) /\ Len(rb) = Len(b) /\ IsInjective(ra) /\ IsInjective(rb)
      /\ \A d \in DOMAIN a : IsCall(a[d], ra[d])
      /\ \A d \in DOMAIN b : IsCall(b[d], rb[d])
  BY DEF Fills
<1>2. DOMAIN a = DOMAIN ra /\ DOMAIN b = DOMAIN rb
  BY <1>1
<1>3. /\ c \in Seq(Calls)
      /\ \A i \in DOMAIN a : i \in DOMAIN c /\ c[i] = a[i]
      /\ \A j \in DOMAIN b : Len(a) + j \in DOMAIN c /\ c[Len(a) + j] = b[j]
      /\ \A i \in DOMAIN c : i \in DOMAIN a \/ \E j \in DOMAIN b : i = Len(a) + j
  BY <1>1, ConcatAt
<1>4. /\ rc \in Seq(Roles)
      /\ \A i \in DOMAIN ra : i \in DOMAIN rc /\ rc[i] = ra[i]
      /\ \A j \in DOMAIN rb : Len(a) + j \in DOMAIN rc /\ rc[Len(a) + j] = rb[j]
      /\ \A i \in DOMAIN rc : i \in DOMAIN ra \/ \E j \in DOMAIN rb : i = Len(a) + j
  <2> HIDE DEF Roles
  <2> QED BY <1>1, ConcatAt
<1>5. Len(rc) = Len(c)
  <2>1. Len(c) = Len(a) + Len(b)
    BY <1>1
  <2>2. Len(rc) = Len(ra) + Len(rb)
    <3> HIDE DEF Roles
    <3>1. ra \in Seq(Roles) /\ rb \in Seq(Roles)
      BY <1>1
    <3> QED BY <3>1
  <2> HIDE DEF c, rc
  <2> QED BY <1>1, <2>1, <2>2
<1>6. \A i \in DOMAIN ra, j \in DOMAIN rb : ra[i] # rb[j]
  BY DEF Occurs
<1> HIDE DEF Roles
<1>7. IsInjective(rc)
  BY <1>1, <1>6, ConcatInjective
<1> HIDE DEF c, rc
<1>8. \A d \in DOMAIN c : IsCall(c[d], rc[d])
  <2> TAKE d \in DOMAIN c
  <2>1. CASE d \in DOMAIN a
    BY <1>1, <1>2, <1>3, <1>4, <2>1
  <2>2. CASE d \notin DOMAIN a
    <3>1. PICK j \in DOMAIN b : d = Len(a) + j
      BY <1>3, <2>2
    <3> QED BY <1>1, <1>2, <1>3, <1>4, <3>1
  <2> QED BY <2>1, <2>2
<1>9. Fills(c, rc)
  BY <1>1, <1>3, <1>4, <1>5, <1>7, <1>8 DEF Fills, Roles
<1>10. ASSUME NEW r PROVE Occurs(rc, r) <=> Occurs(ra, r) \/ Occurs(rb, r)
  BY <1>4 DEF Occurs
<1> QED BY <1>9, <1>10 DEF c, rc

(* What the calls are for.                                                 *)
PlanIs(roles) ==
    /\ Fills(Plan, roles)
    /\ IsType \/ form.declared > 0 =>
          /\ Occurs(roles, "constraints") \/ UsesIn(TRUE) = {}
          /\ Occurs(roles, "type") \/ UsesIn(FALSE) = {}
    /\ ~(IsType \/ form.declared > 0) => ~Occurs(roles, "constraints") /\ ~Occurs(roles, "type")
    /\ Occurs(roles, "builtins") <=> WantsBuiltins

LEMMA TypeSpecPlan ==
    ASSUME IsDeclaration, TreeFacts, IsType
    PROVE  \E roles : PlanIs(roles)
<1> DEFINE cs == KidsOf(1, {"constraint"})
           T == TheType
           a == NonEmpty(Named([i \in DOMAIN cs |-> Children(tree, cs[i])[1]]))
           b == CASE Kind(T) = "iface"  -> NonEmpty(Named(KidsOf(T, Expressions)))
                  [] Kind(T) = "struct" -> <<Named(<<T>>), Builtin(Children(tree, T))>>
                  [] OTHER                 -> <<Named(<<T>>)>>
<1>1. Plan = a \o b
  BY DEF Plan, TypeSpecCalls, TheType
<1>2. \E ra : Fills(a, ra) /\ (\A r : Occurs(ra, r) => r = "constraints") /\ (Occurs(ra, "constraints") \/ UsesIn(TRUE) = {})
  <2> DEFINE s == [i \in DOMAIN cs |-> Children(tree, cs[i])[1]]
  <2>1. IsCall(Named(s), "constraints")
    BY ConstraintsCall
  <2> HIDE DEF s
  <2>2. Named(s).walker = "named" /\ Named(s).exprs = s
    BY DEF Named
  <2>3. CASE s = <<>>
    <3>1. a = <<>>
      BY <2>2, <2>3 DEF NonEmpty, s
    <3>2. UsesIn(TRUE) = {}
      <4>1. From("named", <<>>) = UsesIn(TRUE)
        BY <2>1, <2>2, <2>3 DEF IsCall
      <4> QED BY <4>1, FromIs
    <3> HIDE DEF a
    <3> QED BY <3>1, <3>2, FillsNone
  <2>4. CASE s # <<>>
    <3>1. a = <<Named(s)>>
      BY <2>2, <2>4 DEF NonEmpty, s
    <3>2. Fills(<<Named(s)>>, <<"constraints">>) /\ \A r : Occurs(<<"constraints">>, r) <=> r = "constraints"
      BY <2>1, FillsOne
    <3> HIDE DEF a
    <3> QED BY <3>1, <3>2
  <2> QED BY <2>3, <2>4
<1>3. KidsOf(1, Expressions)[1] = T
  BY DEF TheType
<1>4. \E rb : /\ Fills(b, rb) /\ ~Occurs(rb, "constraints")
              /\ Occurs(rb, "type") \/ UsesIn(FALSE) = {}
              /\ Occurs(rb, "builtins") <=> Kind(T) = "struct"
  <2>1. CASE Kind(T) = "iface"
    <3> DEFINE s == KidsOf(T, Expressions)
    <3>1. IsCall(Named(s), "type") /\ b = NonEmpty(Named(s))
      BY <2>1, TypeCall
    <3> HIDE DEF s, b
    <3>2. Named(s).walker = "named" /\ Named(s).exprs = s
      BY DEF Named
    <3>3. CASE s = <<>>
      <4>1. b = <<>>
        BY <3>1, <3>2, <3>3 DEF NonEmpty
      <4>2. UsesIn(FALSE) = {}
        <5>1. From("named", <<>>) = UsesIn(FALSE)
          BY <3>1, <3>2, <3>3 DEF IsCall
        <5> QED BY <5>1, FromIs
      <4> QED BY <2>1, <4>1, <4>2, FillsNone
    <3>4. CASE s # <<>>
      <4>1. b = <<Named(s)>>
        BY <3>1, <3>2, <3>4 DEF NonEmpty
      <4>2. Fills(<<Named(s)>>, <<"type">>) /\ \A r : Occurs(<<"type">>, r) <=> r = "type"
        BY <3>1, FillsOne
      <4> QED BY <2>1, <4>1, <4>2
    <3> QED BY <3>3, <3>4
  <2>2. CASE Kind(T) = "struct"
    <3> DEFINE x == Named(<<T>>)  y == Builtin(Children(tree, T))
    <3>1. b = <<x, y>> /\ IsCall(x, "type") /\ IsCall(y, "builtins")
      BY <2>2, TypeCall
    <3> HIDE DEF x, y, b
    <3>2. Fills(<<x>>, <<"type">>) /\ \A r : Occurs(<<"type">>, r) <=> r = "type"
      BY <3>1, FillsOne
    <3>3. Fills(<<y>>, <<"builtins">>) /\ \A r : Occurs(<<"builtins">>, r) <=> r = "builtins"
      BY <3>1, FillsOne
    <3>4. b = <<x>> \o <<y>>
      <4>1. x \in Calls /\ y \in Calls
        BY <3>1 DEF IsCall
      <4> QED BY <3>1, <4>1, TwoInARow
    <3> DEFINE ra == <<"type">>  rb == <<"builtins">>
    <3>5. /\ Fills(<<x>>, ra) /\ \A r : Occurs(ra, r) <=> r = "type"
      BY <3>2
    <3>6. /\ Fills(<<y>>, rb) /\ \A r : Occurs(rb, r) <=> r = "builtins"
      BY <3>3
    <3> HIDE DEF ra, rb
    <3>7. Fills(<<x>> \o <<y>>, ra \o rb) /\ \A r : Occurs(ra \o rb, r) <=> Occurs(ra, r) \/ Occurs(rb, r)
      <4>1. \A r : ~(Occurs(ra, r) /\ Occurs(rb, r))
        BY <3>5, <3>6
      <4> QED BY <3>5, <3>6, <4>1, FillsBoth
    <3>8. Occurs(ra \o rb, "type") /\ Occurs(ra \o rb, "builtins") /\ ~Occurs(ra \o rb, "constraints")
      BY <3>5, <3>6, <3>7
    <3> QED BY <2>2, <3>4, <3>7, <3>8
  <2>3. CASE Kind(T) # "iface" /\ Kind(T) # "struct"
    <3>1. b = <<Named(<<T>>)>> /\ IsCall(Named(<<T>>), "type")
      BY <2>3, TypeCall
    <3>2. Fills(<<Named(<<T>>)>>, <<"type">>) /\ \A r : Occurs(<<"type">>, r) <=> r = "type"
      BY <3>1, FillsOne
    <3> HIDE DEF b
    <3> QED BY <2>3, <3>1, <3>2
  <2> QED BY <2>1, <2>2, <2>3
<1> HIDE DEF a, b
<1>5. PICK ra : Fills(a, ra) /\ (\A r : Occurs(ra, r) => r = "constraints") /\ (Occurs(ra, "constraints") \/ UsesIn(TRUE) = {})
  BY <1>2
<1>6. PICK rb : /\ Fills(b, rb) /\ ~Occurs(rb, "constraints")
                /\ Occurs(rb, "type") \/ UsesIn(FALSE) = {}
                /\ Occurs(rb, "builtins") <=> Kind(T) = "struct"
  BY <1>4
<1>7. Fills(a \o b, ra \o rb) /\ \A r : Occurs(ra \o rb, r) <=> Occurs(ra, r) \/ Occurs(rb, r)
  <2>1. \A r : ~(Occurs(ra, r) /\ Occurs(rb, r))
    BY <1>5, <1>6
  <2> QED BY <1>5, <1>6, <2>1, FillsBoth
<1>8. WantsBuiltins <=> Kind(T) = "struct"
  BY <1>3 DEF WantsBuiltins
<1> DEFINE roles == ra \o rb
<1>9. /\ Fills(Plan, roles)
      /\ Occurs(roles, "constraints") \/ UsesIn(TRUE) = {}
      /\ Occurs(roles, "type") \/ UsesIn(FALSE) = {}
      /\ Occurs(roles, "builtins") <=> WantsBuiltins
  BY <1>1, <1>5, <1>6, <1>7, <1>8
<1> HIDE DEF roles
<1>10. PlanIs(roles)
  BY <1>9 DEF PlanIs
<1> QED BY <1>10

LEMMA ValueSpecPlan ==
    ASSUME IsDeclaration, TreeFacts, ~IsType
    PROVE  \E roles : PlanIs(roles)
<1>1. form.declared \in Nat
  BY TypeAssumption DEF IsDeclaration
<1>2. WantsBuiltins <=> form.declared > 0
  BY DEF WantsBuiltins
<1>3. UsesIn(TRUE) = {}
  <2>1. KidsOf(1, {"constraint"}) = <<>>
    BY DEF IsDeclaration
  <2>2. IsCall(Named(<<>>), "constraints")
    <3> DEFINE cs == KidsOf(1, {"constraint"})
               s == [i \in DOMAIN cs |-> Children(tree, cs[i])[1]]
    <3>1. IsCall(Named(s), "constraints")
      BY ConstraintsCall
    <3>2. s = <<>>
      BY <2>1
    <3> QED BY <3>1, <3>2
  <2>3. From("named", <<>>) = UsesIn(TRUE)
    BY <2>2 DEF IsCall, Named
  <2> QED BY <2>3, FromIs
<1>4. CASE form.declared = 0
  <2>1. Plan = <<>>
    BY <1>4 DEF Plan, ValueSpecCalls
  <2>2. PlanIs(<<>>)
    <3>1. ~(form.declared > 0)
      BY <1>4
    <3>2. Fills(Plan, <<>>) /\ \A r : ~Occurs(<<>>, r)
      BY <2>1, FillsNone
    <3> QED BY <1>2, <3>1, <3>2, Zenon DEF PlanIs
  <2> QED BY <2>2
<1>5. CASE form.declared # 0
  <2> DEFINE x == Named(<<TheType>>)  y == Builtin(<<TheType>>)
             ra == <<"type">>  rb == <<"builtins">>
  <2>1. KidsOf(1, Expressions) = <<TheType>> /\ IsCall(x, "type") /\ IsCall(y, "builtins")
    BY TheTypeIs, TypeCall
  <2>2. Plan = <<x, y>>
    BY <1>5, <2>1 DEF Plan, ValueSpecCalls
  <2> HIDE DEF x, y
  <2>3. Plan = <<x>> \o <<y>>
    <3>1. x \in Calls /\ y \in Calls
      BY <2>1 DEF IsCall
    <3> QED BY <2>2, <3>1, TwoInARow
  <2>4. Fills(<<x>>, ra) /\ \A r : Occurs(ra, r) <=> r = "type"
    BY <2>1, FillsOne
  <2>5. Fills(<<y>>, rb) /\ \A r : Occurs(rb, r) <=> r = "builtins"
    BY <2>1, FillsOne
  <2> HIDE DEF ra, rb
  <2>6. Fills(<<x>> \o <<y>>, ra \o rb) /\ \A r : Occurs(ra \o rb, r) <=> Occurs(ra, r) \/ Occurs(rb, r)
    <3>1. \A r : ~(Occurs(ra, r) /\ Occurs(rb, r))
      BY <2>4, <2>5
    <3> QED BY <2>4, <2>5, <3>1, FillsBoth
  <2> DEFINE roles == ra \o rb
  <2>7. Fills(Plan, roles) /\ Occurs(roles, "type") /\ Occurs(roles, "builtins") /\ ~Occurs(roles, "constraints")
    BY <2>3, <2>4, <2>5, <2>6
  <2> HIDE DEF roles
  <2>8. form.declared > 0
    BY <1>1, <1>5
  <2>9. PlanIs(roles)
    BY <1>2, <1>3, <2>7, <2>8 DEF PlanIs
  <2> QED BY <2>9
<1> QED BY <1>4, <1>5

(* Together the calls answer for all uses, each for its own.               *)
LEMMA AnswersLemma ==
    ASSUME IsDeclaration, TreeFacts
    PROVE  AnswersForAll /\ Plan \in Seq(Calls)
<1>1. PICK roles : PlanIs(roles)
  BY TypeSpecPlan, ValueSpecPlan
<1>2. /\ Plan \in Seq(Calls) /\ roles \in Seq({"constraints", "type", "builtins"}) /\ Len(roles) = Len(Plan)
      /\ \A d \in DOMAIN Plan : IsCall(Plan[d], roles[d])
      /\ IsInjective(roles)
  BY <1>1 DEF PlanIs, Fills
<1>3. DOMAIN roles = DOMAIN Plan /\ \A d \in DOMAIN Plan : roles[d] \in {"constraints", "type", "builtins"}
  BY <1>2
<1>4. \A d \in DOMAIN Plan :
          /\ Plan[d].walker \in {"named", "builtin"} /\ IsReady(Plan[d].walker, Plan[d].exprs)
          /\ roles[d] = "constraints" => Plan[d].walker = "named" /\ Goal(d) = UsesIn(TRUE)
          /\ roles[d] = "type" => Plan[d].walker = "named" /\ Goal(d) = UsesIn(FALSE)
          /\ roles[d] = "builtins" => Plan[d].walker = "builtin" /\ Goal(d) = PlainUses
  BY <1>2 DEF IsCall, Calls, Goal
<1>5. /\ UsesIn(TRUE) \cap UsesIn(FALSE) = {} /\ Uses = UsesIn(TRUE) \cup UsesIn(FALSE)
  BY FromIs
<1>6. ASSUME NEW d \in DOMAIN Plan, Plan[d].walker = "named" PROVE \E b \in BOOLEAN : Goal(d) = UsesIn(b)
  BY <1>3, <1>4, <1>6
<1>7. ASSUME NEW d \in DOMAIN Plan, Plan[d].walker = "builtin" PROVE Goal(d) = PlainUses /\ roles[d] = "builtins"
  BY <1>3, <1>4, <1>7
<1>8. ASSUME NEW d \in DOMAIN Plan, NEW e \in DOMAIN Plan, Plan[d].walker = Plan[e].walker, Goal(d) \cap Goal(e) # {}
      PROVE  d = e
  <2>1. roles[d] = roles[e]
    <3>1. PICK n : n \in Goal(d) /\ n \in Goal(e)
      BY <1>8
    <3>2. CASE Plan[d].walker = "builtin"
      BY <1>7, <1>8, <3>2
    <3>3. CASE Plan[d].walker # "builtin"
      <4>1. roles[d] \in {"constraints", "type"} /\ roles[e] \in {"constraints", "type"}
        BY <1>3, <1>4, <1>8, <3>3
      <4>2. ~(n \in UsesIn(TRUE) /\ n \in UsesIn(FALSE))
        BY <1>5
      <4> QED BY <1>4, <3>1, <4>1, <4>2
    <3> QED BY <3>2, <3>3
  <2> QED BY <1>2, <1>3, <2>1 DEF IsInjective
<1>9. ASSUME NEW n \in Leaves(tree)
      PROVE  (\E d \in DOMAIN Plan : Plan[d].walker = "named" /\ n \in Goal(d))
                 <=> n \in Uses /\ (IsType \/ form.declared > 0)
  <2>1. ASSUME NEW d \in DOMAIN Plan, Plan[d].walker = "named", n \in Goal(d)
        PROVE  n \in Uses /\ (IsType \/ form.declared > 0)
    <3>1. roles[d] = "constraints" \/ roles[d] = "type"
      BY <1>3, <1>4, <2>1
    <3>2. IsType \/ form.declared > 0
      BY <1>1, <1>3, <3>1 DEF PlanIs, Occurs
    <3> QED BY <1>4, <1>5, <2>1, <3>1, <3>2
  <2>2. ASSUME n \in Uses, IsType \/ form.declared > 0
        PROVE  \E d \in DOMAIN Plan : Plan[d].walker = "named" /\ n \in Goal(d)
    <3>1. CASE n \in UsesIn(TRUE)
      BY <1>1, <1>3, <1>4, <2>2, <3>1 DEF PlanIs, Occurs
    <3>2. CASE n \in UsesIn(FALSE)
      BY <1>1, <1>3, <1>4, <2>2, <3>2 DEF PlanIs, Occurs
    <3> QED BY <1>5, <2>2, <3>1, <3>2
  <2> QED BY <2>1, <2>2
<1>10. (\E d \in DOMAIN Plan : Plan[d].walker = "builtin") <=> WantsBuiltins
  <2>1. (\E d \in DOMAIN Plan : Plan[d].walker = "builtin") <=> Occurs(roles, "builtins")
    BY <1>3, <1>4, <1>7 DEF Occurs
  <2> QED BY <1>1, <2>1 DEF PlanIs
<1>11. AnswersForAll
  BY <1>4, <1>6, <1>7, <1>8, <1>9, <1>10 DEF AnswersForAll
<1> QED BY <1>2, <1>11

-----------------------------------------------------------------------------
(* Steps of a walker *)

(* Children that it goes into: no leaf it may come to is lost.             *)
Keeps(walker, h, a) ==
    \A n \in OpenTo(walker) : h \in Above(tree)[n] => \E k \in DOMAIN a : Below(a[k], n)
GoesOn(walker, s, a) ==
    LET t == a \o Tail(s)
    IN  /\ IsReady(walker, t) /\ From(walker, t) = From(walker, s) \ {Head(s)}
        /\ \A k \in DOMAIN t : Head(s) < t[k]
        /\ \A n \in From(walker, t) : Head(s) < n

LEMMA GoesOnLemma ==
    ASSUME TreeFacts, NEW walker, NEW s, s # <<>>, IsReady(walker, s),
           NEW a \in Seq(DOMAIN tree), ChildrenIn(UpOf(tree), Head(s), a), AreExpressions(a),
           a # <<>> => Enters(walker, Head(s)), Keeps(walker, Head(s), a)
    PROVE  GoesOn(walker, s, a)
<1> DEFINE N == DOMAIN tree
           above == Above(tree)
           h == Head(s)
           t == a \o Tail(s)
           size == Len(tree)
<1>1. /\ size \in Nat \ {0} /\ N = 1 .. size
      /\ IsTree(size, UpOf(tree), above)
  BY DEF TreeFacts
<1>2. /\ s \in Seq(N) /\ InFront(above, s)
      /\ \A k \in DOMAIN s : Kind(s[k]) \in Expressions /\ \A m \in above[s[k]] : Kind(m) \notin Barred(walker)
  BY DEF IsReady
<1>3. /\ h \in N /\ 1 \in DOMAIN s /\ s[1] = h
      /\ t \in Seq(N) /\ InFront(above, t)
      /\ \A k \in DOMAIN t : h < t[k]
      /\ \A k \in DOMAIN t : \/ \E i \in DOMAIN a : t[k] = a[i]
                             \/ \E j \in DOMAIN s : j # 1 /\ t[k] = s[j]
      /\ \A n \in N : Reaches(above, s, n) => n = h \/ h \in above[n] \/ Reaches(above, t, n)
      /\ \A i \in DOMAIN a : \E k \in DOMAIN t : t[k] = a[i]
      /\ \A n \in N : Reaches(above, t, n) => Reaches(above, s, n) /\ h < n
  <2>1. s \in Seq(1 .. size) /\ a \in Seq(1 .. size)
    BY <1>1, <1>2
  <2>2. LeavesFirst(size, above, s, a)
    <3> HIDE DEF size, above
    <3> QED BY <1>1, <1>2, <2>1, FrontStep, Zenon
  <2>3. LeavesFirst(size, above, s, a) <=>
            /\ h \in 1 .. size /\ 1 \in DOMAIN s /\ s[1] = h
            /\ t \in Seq(1 .. size) /\ InFront(above, t)
            /\ \A k \in DOMAIN t : h < t[k]
            /\ \A k \in DOMAIN t : \/ \E i \in DOMAIN a : t[k] = a[i]
                                   \/ \E j \in DOMAIN s : j # 1 /\ t[k] = s[j]
            /\ \A n \in 1 .. size : Reaches(above, s, n) => n = h \/ h \in above[n] \/ Reaches(above, t, n)
            /\ \A i \in DOMAIN a : \E k \in DOMAIN t : t[k] = a[i]
            /\ \A n \in 1 .. size : Reaches(above, t, n) => Reaches(above, s, n) /\ h < n
    BY Zenon DEF LeavesFirst
  <2> HIDE DEF t, h, size, N, above
  <2> QED BY <1>1, <2>2, <2>3
<1>4. \A n \in N : \A x \in above[n] : above[x] \subseteq above[n] /\ x < n /\ x \in N
  BY AboveFacts
<1>5. \A w, r, n : n \in From(w, r) <=> n \in OpenTo(w) /\ Reaches(above, r, n)
  BY DEF From
<1>6. \A n \in OpenTo(walker) : n \in N /\ n \in Nat /\ \A m \in above[n] : Kind(m) \notin Barred(walker)
  BY <1>1 DEF OpenTo, Leaves
<1>7. \A i \in DOMAIN a : above[a[i]] = {h} \cup above[h] /\ Kind(a[i]) \in Expressions
  <2> SUFFICES ASSUME NEW i \in DOMAIN a PROVE above[a[i]] = {h} \cup above[h]
    BY DEF AreExpressions
  <2>1. a[i] \in N /\ a[i] # 1 /\ UpOf(tree)[a[i]] = h
    BY DEF ChildrenIn
  <2>2. tree[a[i]].up = h
    BY <2>1 DEF TreeFacts
  <2> QED BY <2>1, <2>2, AboveFacts
<1>8. \A i \in DOMAIN a : \A m \in above[a[i]] : Kind(m) \notin Barred(walker)
  <2> SUFFICES ASSUME NEW i \in DOMAIN a, NEW m \in above[a[i]] PROVE Kind(m) \notin Barred(walker)
    OBVIOUS
  <2>1. a # <<>>
    OBVIOUS
  <2> QED BY <1>7, <2>1 DEF Enters
<1>9. Keeps(walker, h, a) <=> \A n \in OpenTo(walker) : h \in above[n] => \E k \in DOMAIN a : Below(a[k], n)
  BY DEF Keeps
<1> HIDE DEF h, t, above, N
<1>10. IsReady(walker, t)
  <2>1. ASSUME NEW k \in DOMAIN t
        PROVE  Kind(t[k]) \in Expressions /\ \A m \in above[t[k]] : Kind(m) \notin Barred(walker)
    <3>1. CASE \E i \in DOMAIN a : t[k] = a[i]
      BY <1>7, <1>8, <3>1
    <3>2. CASE \E j \in DOMAIN s : j # 1 /\ t[k] = s[j]
      BY <1>2, <3>2
    <3> QED BY <1>3, <3>1, <3>2
  <2> QED BY <1>3, <2>1 DEF IsReady, N, above
<1>11. From(walker, t) = From(walker, s) \ {h}
  <2>1. ASSUME NEW n \in From(walker, t) PROVE n \in From(walker, s) /\ n # h
    <3>1. n \in OpenTo(walker) /\ Reaches(above, t, n) /\ n \in N /\ n \in Nat
      BY <1>5, <1>6
    <3>2. Reaches(above, s, n) /\ h < n
      BY <1>3, <3>1
    <3>3. ~(n < n)
      BY <3>1
    <3> QED BY <1>5, <3>1, <3>2, <3>3
  <2>2. ASSUME NEW n \in From(walker, s), n # h PROVE n \in From(walker, t)
    <3>1. n \in OpenTo(walker) /\ Reaches(above, s, n) /\ n \in N
      BY <1>5, <1>6
    <3>2. CASE h \in above[n]
      <4>1. PICK k \in DOMAIN a : Below(a[k], n)
        BY <1>9, <3>1, <3>2 DEF h
      <4>2. PICK j \in DOMAIN t : t[j] = a[k]
        BY <1>3
      <4>3. Reaches(above, t, n)
        BY <4>1, <4>2 DEF Reaches, Below, above
      <4> QED BY <1>5, <3>1, <4>3
    <3>3. CASE h \notin above[n]
      BY <1>3, <1>5, <2>2, <3>1, <3>3
    <3> QED BY <3>2, <3>3
  <2> QED BY <2>1, <2>2
<1>12. \A n \in From(walker, t) : h < n
  BY <1>3, <1>5, <1>6
<1> QED BY <1>3, <1>10, <1>11, <1>12 DEF GoesOn, h, t

(* A leaf has nothing in it.                                               *)
LEMMA LeafStep ==
    ASSUME TreeFacts, NEW walker, NEW s, s # <<>>, IsReady(walker, s), Kind(Head(s)) = "name"
    PROVE  GoesOn(walker, s, <<>>) /\ Head(s) \in From(walker, s)
<1>1. <<>> \in Seq(DOMAIN tree) /\ DOMAIN <<>> = {}
  OBVIOUS
<1>2. ChildrenIn(UpOf(tree), Head(s), <<>>) /\ AreExpressions(<<>>)
  BY <1>1 DEF ChildrenIn, Ascends, AreExpressions
<1>3. OpenTo(walker) \subseteq DOMAIN tree
  BY DEF OpenTo, Leaves
<1>4. Keeps(walker, Head(s), <<>>)
  BY <1>3, AboveFacts DEF Keeps
<1>5. GoesOn(walker, s, <<>>)
  BY <1>1, <1>2, <1>4, GoesOnLemma, Zenon
<1>6. s \in Seq(DOMAIN tree) /\ 1 \in DOMAIN s /\ Head(s) = s[1] /\ s[1] \in DOMAIN tree
  BY DEF IsReady
<1>7. Head(s) \in OpenTo(walker)
  BY <1>6 DEF IsReady, OpenTo, Leaves, Kind
<1>8. Reaches(Above(tree), s, Head(s))
  BY <1>6 DEF Reaches
<1> QED BY <1>5, <1>7, <1>8 DEF From

(* What a walker goes into at an expression that is no leaf.               *)
IntoFrom(walker, n) ==
    CASE Kind(n) \in {"parts", "struct"} -> Children(tree, n)
      [] walker = "named" /\ Kind(n) = "generic" -> Children(tree, n)
      [] walker = "named" /\ Kind(n) = "iface" -> KidsOf(n, Expressions)
      [] OTHER -> <<>>

LEMMA ExpressionStep ==
    ASSUME TreeFacts, NEW walker \in {"named", "builtin"}, NEW s, s # <<>>, IsReady(walker, s), Kind(Head(s)) # "name"
    PROVE  GoesOn(walker, s, IntoFrom(walker, Head(s))) /\ Head(s) \notin From(walker, s)
<1> DEFINE N == DOMAIN tree
           above == Above(tree)
           h == Head(s)
           a == IntoFrom(walker, h)
<1>1. /\ s \in Seq(N) /\ h = s[1] /\ h \in N
      /\ Kind(h) \in Expressions /\ \A m \in above[h] : Kind(m) \notin Barred(walker)
  <2>1. s \in Seq(N) /\ 1 \in DOMAIN s /\ h = s[1]
    BY DEF IsReady
  <2> QED BY <2>1 DEF IsReady
<1>2. h \notin From(walker, s)
  BY DEF From, OpenTo, Leaves, Kind
<1>3. /\ \A n \in N : Kind(n) \in Kinds /\ (Kind(n) = "file" <=> n = 1)
      /\ \A n \in N \ {1} :
            /\ Kind(n) = "constraint" => tree[n].up = 1
            /\ Kind(n) = "method" => Kind(tree[n].up) = "iface"
  BY DEF TreeFacts
<1>4. \A n \in OpenTo(walker) : n \in N /\ Kind(n) = "name" /\ \A m \in above[n] : Kind(m) \notin Barred(walker)
  BY DEF OpenTo, Leaves, Kind
<1>5. \A n \in N : \A x \in above[n] : \E k \in N \ {1} : tree[k].up = x /\ (k = n \/ k \in above[n])
  BY AboveFacts
<1>6. h # 1
  BY <1>1, <1>3 DEF Expressions
<1>7. \A k \in N \ {1} : tree[k].up = h => Kind(k) \in Expressions \/ (Kind(k) = "method" /\ Kind(h) = "iface")
  BY <1>3, <1>6 DEF Kinds
<1>8. Kind(h) \notin Barred(walker) => Enters(walker, h)
  BY <1>1 DEF Enters
<1> HIDE DEF N, above, h
<1>9. \A n \in OpenTo(walker) : h \in above[n] => \E k \in N \ {1} : tree[k].up = h /\ Below(k, n)
  BY <1>4, <1>5 DEF Below, above
<1>10. \A n \in OpenTo(walker), k \in N : Below(k, n) => Kind(k) \notin Barred(walker) \/ Kind(k) = "name"
  BY <1>4 DEF Below, above
<1>11. CASE Kind(h) \in {"parts", "struct"} \/ (walker = "named" /\ Kind(h) = "generic")
  <2> DEFINE c == KidsOf(h, Kinds)
  <2>1. a = Children(tree, h)
    BY <1>11 DEF IntoFrom
  <2>2. a = c
    BY <1>1, <2>1, ChildrenAre DEF N
  <2>3. /\ c \in Seq(N) /\ ChildrenIn(UpOf(tree), h, c)
        /\ \A i \in DOMAIN c : c[i] \in {k \in N : tree[k].up = h /\ Kind(k) \in Kinds}
        /\ \A k \in {k \in N : tree[k].up = h /\ Kind(k) \in Kinds} : \E i \in DOMAIN c : c[i] = k
    BY <1>1, KidsFacts DEF N
  <2> HIDE DEF a, c
  <2>4. AreExpressions(c)
    <3> SUFFICES ASSUME NEW i \in DOMAIN c PROVE Kind(c[i]) \in Expressions
      BY DEF AreExpressions
    <3>1. c[i] \in N \ {1} /\ tree[c[i]].up = h
      BY <2>3 DEF ChildrenIn
    <3> QED BY <1>7, <1>11, <3>1
  <2>5. Enters(walker, h)
    BY <1>8, <1>11 DEF Barred
  <2>6. Keeps(walker, h, c)
    <3> SUFFICES ASSUME NEW n \in OpenTo(walker), h \in above[n] PROVE \E i \in DOMAIN c : Below(c[i], n)
      BY DEF Keeps, above
    <3>1. PICK k \in N \ {1} : tree[k].up = h /\ Below(k, n)
      BY <1>9
    <3>2. k \in {x \in N : tree[x].up = h /\ Kind(x) \in Kinds}
      BY <1>3, <3>1
    <3> QED BY <2>3, <3>1, <3>2
  <2>7. GoesOn(walker, s, c)
    BY <2>3, <2>4, <2>5, <2>6, GoesOnLemma, Zenon DEF h, N
  <2> QED BY <1>2, <2>2, <2>7 DEF a, h
<1>12. CASE walker = "named" /\ Kind(h) = "iface"
  <2> DEFINE c == KidsOf(h, Expressions)
  <2>1. a = c
    BY <1>12 DEF IntoFrom
  <2>2. /\ c \in Seq(N) /\ ChildrenIn(UpOf(tree), h, c)
        /\ \A i \in DOMAIN c : c[i] \in {k \in N : tree[k].up = h /\ Kind(k) \in Expressions}
        /\ \A k \in {k \in N : tree[k].up = h /\ Kind(k) \in Expressions} : \E i \in DOMAIN c : c[i] = k
    BY <1>1, KidsFacts DEF N
  <2> HIDE DEF a, c
  <2>3. AreExpressions(c)
    BY <2>2 DEF AreExpressions
  <2>4. Enters(walker, h)
    BY <1>8, <1>12 DEF Barred
  <2>5. Keeps(walker, h, c)
    <3> SUFFICES ASSUME NEW n \in OpenTo(walker), h \in above[n] PROVE \E i \in DOMAIN c : Below(c[i], n)
      BY DEF Keeps, above
    <3>1. PICK k \in N \ {1} : tree[k].up = h /\ Below(k, n)
      BY <1>9
    <3>2. Kind(k) # "method"
      BY <1>10, <1>12, <3>1 DEF Barred
    <3>3. k \in {x \in N : tree[x].up = h /\ Kind(x) \in Expressions}
      BY <1>7, <3>1, <3>2
    <3> QED BY <2>2, <3>1, <3>3
  <2>6. GoesOn(walker, s, c)
    BY <2>2, <2>3, <2>4, <2>5, GoesOnLemma, Zenon DEF h, N
  <2> QED BY <1>2, <2>1, <2>6 DEF a, h
<1>13. CASE walker # "named" /\ Kind(h) \in {"generic", "iface"}
  <2>1. a = <<>>
    BY <1>13 DEF IntoFrom
  <2>2. <<>> \in Seq(N) /\ DOMAIN <<>> = {}
    OBVIOUS
  <2>3. ChildrenIn(UpOf(tree), h, <<>>) /\ AreExpressions(<<>>)
    BY <2>2 DEF ChildrenIn, Ascends, AreExpressions
  <2>4. Keeps(walker, h, <<>>)
    BY <1>4, <1>13 DEF Keeps, Barred, above
  <2>5. GoesOn(walker, s, <<>>)
    BY <2>2, <2>3, <2>4, GoesOnLemma, Zenon DEF h, N
  <2> HIDE DEF a
  <2> QED BY <1>2, <2>1, <2>5 DEF a, h
<1> QED BY <1>1, <1>11, <1>12, <1>13 DEF Expressions, h

-----------------------------------------------------------------------------
(* The invariant *)

LEMMA GivenStays ==
    ASSUME UNCHANGED given
    PROVE  /\ (IsDeclaration <=> IsDeclaration') /\ Plan' = Plan /\ typeAt' = typeAt
           /\ \A d : Goal(d)' = Goal(d)
           /\ From(walk.walker, walk.todo)' = From(walk'.walker, walk'.todo)
           /\ IsReady(walk.walker, walk.todo)' <=> IsReady(walk'.walker, walk'.todo)
           /\ \A d : MadeBy(d, Visited(d))' = MadeBy(d, Visited(d)')
<1>1. tree' = tree /\ typeAt' = typeAt /\ form' = form
  BY DEF given
<1>2. IsDeclaration <=> IsDeclaration'
  BY <1>1 DEF IsDeclaration, Leaves, IsType, KidsOf, Kind
<1>3. Plan' = Plan
  BY <1>1 DEF Plan, IsType, TypeSpecCalls, ValueSpecCalls, KidsOf, Kind
<1>4. \A d : Goal(d)' = Goal(d)
  BY <1>1, <1>3 DEF Goal, From, OpenTo, Leaves, Kind
<1>5. From(walk.walker, walk.todo)' = From(walk'.walker, walk'.todo)
  BY <1>1 DEF From, OpenTo, Leaves, Kind
<1>6. IsReady(walk.walker, walk.todo)' <=> IsReady(walk'.walker, walk'.todo)
  BY <1>1 DEF IsReady, Kind
<1>7. \A d : MadeBy(d, Visited(d))' = MadeBy(d, Visited(d)')
  BY <1>1, <1>3 DEF MadeBy, FirstOf
<1> QED BY <1>1, <1>2, <1>3, <1>4, <1>5, <1>6, <1>7

LEMMA InitWalk == WalkInit => WalkIInv
<1> SUFFICES ASSUME WalkInit PROVE WalkIInv
  OBVIOUS
<1>1. IsDeclaration
  BY DEF WalkInit, IsDeclaration, given
<1>2. calls = Plan /\ walk = Idle /\ refs = {} /\ done = FALSE
  BY DEF WalkInit, Plan
<1>3. Plan \in Seq(Calls)
  BY <1>1, TreeFactsHold, AnswersLemma
<1>4. walk.call = 0 /\ walk.todo = <<>> /\ walk = [call |-> walk.call, walker |-> walk.walker, todo |-> walk.todo, seen |-> walk.seen]
  BY <1>2 DEF Idle
<1>5. CallsOK
  <2>1. Len(Plan) \in Nat /\ SubSeq(Plan, 1, Len(Plan)) = Plan
    BY <1>3
  <2> QED BY <1>2, <1>4, <2>1 DEF CallsOK
<1>6. WalkOK /\ AllWalked
  BY <1>2, <1>4 DEF WalkOK, AllWalked
<1>7. RefsOK
  BY <1>2, <1>4 DEF RefsOK
<1> QED BY <1>1, <1>4, <1>5, <1>6, <1>7 DEF WalkIInv

(* What the invariant says of a call under way. *)
LEMMA AtCall ==
    ASSUME WalkIInv
    PROVE  /\ TreeFacts /\ AnswersForAll /\ Plan \in Seq(Calls) /\ Len(Plan) \in Nat /\ DOMAIN Plan = 1 .. Len(Plan)
           /\ walk.todo # <<>> => walk.call # 0
           /\ walk.call \in 0 .. Len(Plan)
           /\ walk.call # 0 => /\ walk.walker = Plan[walk.call].walker /\ walk.walker \in {"named", "builtin"}
                               /\ walk.call \in DOMAIN Plan
           /\ \A d \in DOMAIN Plan : Goal(d) \subseteq Leaves(tree)
           /\ Leaves(tree) \subseteq Nat
           /\ \A d \in DOMAIN Plan : Visited(d) \subseteq Goal(d)
           /\ walk.todo = <<>> => \A d \in DOMAIN Plan : d <= walk.call => Visited(d) = Goal(d)
<1>1. TreeFacts /\ IsDeclaration
  BY TreeFactsHold DEF WalkIInv
<1>2. AnswersForAll /\ Plan \in Seq(Calls)
  BY <1>1, AnswersLemma DEF WalkIInv
<1>3. Len(Plan) \in Nat /\ DOMAIN Plan = 1 .. Len(Plan)
  BY <1>2
<1>4. walk.call \in 0 .. Len(Plan) /\ (walk.call = 0 => walk = Idle) /\ (walk.call # 0 => walk.walker = Plan[walk.call].walker)
  BY DEF WalkIInv, CallsOK
<1>5. walk.call = 0 => walk.todo = <<>>
  BY <1>4 DEF Idle
<1>6. walk.call # 0 => walk.call \in DOMAIN Plan /\ Plan[walk.call].walker \in {"named", "builtin"}
  BY <1>2, <1>3, <1>4 DEF AnswersForAll
<1>7. \A d \in DOMAIN Plan : Goal(d) \subseteq Leaves(tree)
  BY <1>1, FromIs DEF Goal, From
<1>8. Leaves(tree) \subseteq Nat
  BY <1>1 DEF TreeFacts, Leaves
<1>9. \A d \in DOMAIN Plan : Visited(d) \subseteq Goal(d)
  BY DEF Visited
<1>10. ASSUME walk.todo = <<>> PROVE \A d \in DOMAIN Plan : d <= walk.call => Visited(d) = Goal(d)
  BY <1>1, <1>10, FromIs DEF Visited
<1> QED BY <1>1, <1>2, <1>3, <1>4, <1>5, <1>6, <1>7, <1>8, <1>9, <1>10

(* A further leaf makes a reference unless its type was seen before.       *)
LEMMA OneMore ==
    ASSUME NEW d, NEW V, V \subseteq Nat, NEW h \in Nat, \A n \in V : n < h
    PROVE  MadeBy(d, V \cup {h}) =
               IF typeAt[h] \in WantedBy(Plan[d].walker) \ {typeAt[n] : n \in V}
               THEN MadeBy(d, V) \cup {[call |-> d, type |-> typeAt[h], at |-> h]}
               ELSE MadeBy(d, V)
<1> DEFINE W == WantedBy(Plan[d].walker)
           seen == {typeAt[n] : n \in V}
           r0 == [call |-> d, type |-> typeAt[h], at |-> h]
<1>1. \A n \in V : FirstOf(n, V \cup {h}) <=> FirstOf(n, V)
  <2> SUFFICES ASSUME NEW n \in V PROVE FirstOf(n, V \cup {h}) <=> FirstOf(n, V)
    OBVIOUS
  <2>1. ~(h < n)
    OBVIOUS
  <2> QED BY <2>1 DEF FirstOf
<1>2. FirstOf(h, V \cup {h}) <=> typeAt[h] \notin seen
  <2>1. ~(h < h)
    OBVIOUS
  <2> QED BY <2>1 DEF FirstOf
<1>3. h \notin V
  OBVIOUS
<1>4. \A U, r : r \in MadeBy(d, U) <=> \E n \in U : /\ r = [call |-> d, type |-> typeAt[n], at |-> n]
                                                    /\ typeAt[n] \in W /\ FirstOf(n, U)
  BY DEF MadeBy
<1> HIDE DEF W, seen
<1>5. \A r : r \in MadeBy(d, V \cup {h}) <=> r \in MadeBy(d, V) \/ (r = r0 /\ typeAt[h] \in W /\ typeAt[h] \notin seen)
  <2> TAKE r
  <2>1. r \in MadeBy(d, V \cup {h}) <=>
            \/ \E n \in V : /\ r = [call |-> d, type |-> typeAt[n], at |-> n]
                            /\ typeAt[n] \in W /\ FirstOf(n, V \cup {h})
            \/ r = r0 /\ typeAt[h] \in W /\ FirstOf(h, V \cup {h})
    BY <1>4
  <2>2. r \in MadeBy(d, V) <=> \E n \in V : /\ r = [call |-> d, type |-> typeAt[n], at |-> n]
                                            /\ typeAt[n] \in W /\ FirstOf(n, V)
    BY <1>4
  <2> HIDE DEF r0
  <2> QED BY <1>1, <1>2, <2>1, <2>2
<1>6. MadeBy(d, V \cup {h}) = IF typeAt[h] \in W \ seen THEN MadeBy(d, V) \cup {r0} ELSE MadeBy(d, V)
  <2> HIDE DEF r0
  <2> QED BY <1>5
<1> QED BY <1>6 DEF W, seen

(* What is left of a sequence, and of that.                                *)
LEMMA RestOf ==
    ASSUME NEW S, NEW p \in Seq(S), NEW c \in 0 .. Len(p)
    PROVE  LET q == SubSeq(p, c + 1, Len(p))
           IN  /\ q = <<>> => c = Len(p)
               /\ q # <<>> => c + 1 \in 1 .. Len(p) /\ Head(q) = p[c + 1] /\ Tail(q) = SubSeq(p, c + 2, Len(p))
<1> DEFINE n == Len(p)
           q == SubSeq(p, c + 1, n)
           r == SubSeq(p, c + 2, n)
<1>1. n \in Nat /\ c \in Nat /\ c <= n
  OBVIOUS
<1>2. q \in Seq(S) /\ Len(q) = n - c /\ \A i \in 1 .. n - c : q[i] = p[c + i]
  <2>1. \A i \in 1 .. n - c : (c + 1) + i - 1 = c + i
    BY <1>1
  <2>2. \A i \in c + 1 .. n : p[i] \in S
    OBVIOUS
  <2> QED BY <1>1, <2>1, <2>2
<1>3. ASSUME q # <<>> PROVE c + 1 \in 1 .. n /\ Head(q) = p[c + 1] /\ Tail(q) = r
  <2> HIDE DEF q
  <2>1. n - c > 0 /\ Head(q) = q[1]
    BY <1>1, <1>2, <1>3
  <2>2. Tail(q) \in Seq(S) /\ Len(Tail(q)) = n - c - 1 /\ \A i \in 1 .. n - c - 1 : Tail(q)[i] = q[i + 1]
    BY <1>1, <1>2, <2>1
  <2>3. r \in Seq(S) /\ Len(r) = n - c - 1 /\ \A i \in 1 .. n - c - 1 : r[i] = p[c + 1 + i]
    <3>1. \A i \in 1 .. n - c - 1 : (c + 2) + i - 1 = c + 1 + i
      BY <1>1
    <3>2. \A i \in c + 2 .. n : p[i] \in S
      BY <1>1
    <3> QED BY <1>1, <2>1, <3>1, <3>2
  <2> HIDE DEF r
  <2>4. \A i \in 1 .. n - c - 1 : Tail(q)[i] = r[i]
    <3> TAKE i \in 1 .. n - c - 1
    <3>1. i + 1 \in 1 .. n - c /\ c + (i + 1) = c + 1 + i
      BY <1>1
    <3> QED BY <1>2, <2>2, <2>3, <3>1
  <2>5. Tail(q) = r
    <3> DEFINE x == Tail(q)
               m == n - c - 1
    <3>1. x \in Seq(S) /\ r \in Seq(S) /\ Len(x) = m /\ Len(r) = m /\ m \in Nat
          /\ \A i \in 1 .. m : x[i] = r[i]
      BY <1>1, <2>1, <2>2, <2>3, <2>4
    <3> HIDE DEF x, m
    <3>2. x = r
      BY <3>1
    <3> QED BY <3>2 DEF x
  <2>6. q[1] = p[c + 1]
    BY <1>1, <1>2, <2>1
  <2> QED BY <1>1, <2>1, <2>5, <2>6
<1>4. q = <<>> => c = n
  <2> HIDE DEF q
  <2> QED BY <1>1, <1>2
<1> QED BY <1>3, <1>4

LEMMA StepStartCall == ASSUME WalkIInv, StartCall PROVE WalkIInv'
<1>0. PICK c : c = walk.call
  OBVIOUS
<1> USE <1>0
<1>1. /\ TreeFacts /\ AnswersForAll /\ Len(Plan) \in Nat /\ DOMAIN Plan = 1 .. Len(Plan) /\ Plan \in Seq(Calls)
      /\ c \in 0 .. Len(Plan)
      /\ \A d \in DOMAIN Plan : d <= c => Visited(d) = Goal(d)
  BY AtCall DEF StartCall
<1>2. UNCHANGED given /\ refs' = refs /\ done' = done /\ calls # <<>> /\ calls' = Tail(calls) /\ walk.todo = <<>>
  BY DEF StartCall
<1>3. calls = SubSeq(Plan, c + 1, Len(Plan))
  BY DEF WalkIInv, CallsOK
<1>4. c + 1 \in DOMAIN Plan /\ Head(calls) = Plan[c + 1] /\ calls' = SubSeq(Plan, c + 1 + 1, Len(Plan))
  <2>1. c + 1 \in 1 .. Len(Plan) /\ Head(calls) = Plan[c + 1] /\ Tail(calls) = SubSeq(Plan, c + 2, Len(Plan))
    BY <1>1, <1>2, <1>3, RestOf
  <2>2. c + 1 + 1 = c + 2
    BY <1>1
  <2> QED BY <1>1, <1>2, <2>1, <2>2
<1>5. /\ walk' = [call |-> c + 1, walker |-> Plan[c + 1].walker, todo |-> Plan[c + 1].exprs, seen |-> {}]
      /\ walk'.call = c + 1 /\ walk'.walker = Plan[c + 1].walker /\ walk'.todo = Plan[c + 1].exprs /\ walk'.seen = {}
      /\ walk' = [call |-> walk'.call, walker |-> walk'.walker, todo |-> walk'.todo, seen |-> walk'.seen]
  BY <1>4 DEF StartCall
<1>6. /\ IsDeclaration' /\ Plan' = Plan
      /\ \A d : Goal(d)' = Goal(d)
      /\ From(walk.walker, walk.todo)' = From(walk'.walker, walk'.todo)
      /\ IsReady(walk.walker, walk.todo)' <=> IsReady(walk'.walker, walk'.todo)
      /\ \A d : MadeBy(d, Visited(d))' = MadeBy(d, Visited(d)')
  BY <1>2, GivenStays DEF WalkIInv
<1>7. From(walk.walker, walk.todo)' = Goal(c + 1)
  BY <1>5, <1>6 DEF Goal
<1>8. Visited(c + 1)' = {}
  BY <1>1, <1>5, <1>6, <1>7 DEF Visited
<1>9. \A d \in 1 .. c : Visited(d)' = Visited(d)
  <2> SUFFICES ASSUME NEW d \in 1 .. c PROVE Visited(d)' = Visited(d)
    OBVIOUS
  <2>1. d < c + 1 /\ d <= c /\ d \in DOMAIN Plan
    BY <1>1
  <2> QED BY <1>1, <1>5, <1>6, <2>1 DEF Visited
<1>10. CallsOK'
  <2>1. c + 1 \in 0 .. Len(Plan) /\ c + 1 # 0
    BY <1>1, <1>4
  <2> QED BY <1>4, <1>5, <1>6, <2>1 DEF CallsOK
<1>11. WalkOK'
  <2>1. IsReady(walk.walker, walk.todo)'
    BY <1>1, <1>4, <1>5, <1>6 DEF AnswersForAll
  <2>2. From(walk.walker, walk.todo)' \subseteq Goal(walk.call)'
    BY <1>5, <1>6, <1>7
  <2>3. Visited(walk.call)' = {}
    BY <1>5, <1>8
  <2> QED BY <1>5, <2>1, <2>2, <2>3 DEF WalkOK
<1>12. RefsOK'
  <2>1. refs = UNION {MadeBy(d, Visited(d)) : d \in 1 .. c}
    BY DEF WalkIInv, RefsOK
  <2>2. \A d \in 1 .. c : MadeBy(d, Visited(d))' = MadeBy(d, Visited(d))
    BY <1>6, <1>9
  <2>3. MadeBy(c + 1, Visited(c + 1))' = {}
    BY <1>6, <1>8 DEF MadeBy
  <2>4. 1 .. c + 1 = (1 .. c) \cup {c + 1}
    BY <1>1
  <2>5. UNION {MadeBy(d, Visited(d))' : d \in 1 .. c + 1} = refs
    BY <2>1, <2>2, <2>3, <2>4
  <2> QED BY <1>2, <1>5, <2>5 DEF RefsOK
<1>13. AllWalked'
  <2>1. ~done
    BY <1>2 DEF WalkIInv, AllWalked
  <2> QED BY <1>2, <2>1 DEF AllWalked
<1> QED BY <1>5, <1>6, <1>10, <1>11, <1>12, <1>13 DEF WalkIInv

(* A step at an expression: the walker goes on with some of its children,  *)
(* and what it does with a leaf is remembered and recorded.                *)
LEMMA StepAt ==
    ASSUME WalkIInv, walk.todo # <<>>, UNCHANGED <<given, calls, done>>,
           NEW a, GoesOn(walk.walker, walk.todo, a),
           NEW seen,
           walk' = [call |-> walk.call, walker |-> walk.walker, todo |-> a \o Tail(walk.todo), seen |-> seen],
           seen = IF At \in From(walk.walker, walk.todo) THEN walk.seen \cup {typeAt[At]} ELSE walk.seen,
           refs' = IF At \in From(walk.walker, walk.todo) /\ typeAt[At] \in Wanted \ walk.seen
                   THEN refs \cup {[call |-> walk.call, type |-> typeAt[At], at |-> At]}
                   ELSE refs
    PROVE  WalkIInv'
<1>0. PICK c : c = walk.call
  OBVIOUS
<1> USE <1>0
<1> DEFINE h == At
           w == walk.walker
           s == walk.todo
           t == a \o Tail(walk.todo)
           V == Visited(c)
<1>1. /\ TreeFacts /\ Len(Plan) \in Nat /\ DOMAIN Plan = 1 .. Len(Plan)
      /\ c # 0 /\ c \in DOMAIN Plan /\ w = Plan[c].walker /\ w \in {"named", "builtin"}
      /\ Goal(c) \subseteq Nat /\ Goal(c) \subseteq Leaves(tree)
  BY AtCall
<1>2. /\ IsReady(w, s) /\ From(w, s) \subseteq Goal(c)
      /\ \A n \in V, k \in DOMAIN s : n < s[k]
      /\ walk.seen = {typeAt[n] : n \in V}
  BY <1>1 DEF WalkIInv, WalkOK
<1>3. /\ IsReady(w, t) /\ From(w, t) = From(w, s) \ {h}
      /\ \A k \in DOMAIN t : h < t[k]
      /\ \A n \in From(w, t) : h < n
  BY DEF GoesOn, At
<1>4. /\ walk' = [call |-> c, walker |-> w, todo |-> t, seen |-> seen]
      /\ walk'.call = c /\ walk'.walker = w /\ walk'.todo = t /\ walk'.seen = seen
      /\ walk' = [call |-> walk'.call, walker |-> walk'.walker, todo |-> walk'.todo, seen |-> walk'.seen]
  <2>1. walk' = [call |-> c, walker |-> w, todo |-> t, seen |-> seen]
    OBVIOUS
  <2> HIDE DEF t, w
  <2>2. walk'.call = c /\ walk'.walker = w /\ walk'.todo = t /\ walk'.seen = seen
    <3>1. walk'.call = c
      BY ONLY <2>1
    <3>2. walk'.walker = w
      BY ONLY <2>1
    <3>3. walk'.todo = t
      BY ONLY <2>1
    <3>4. walk'.seen = seen
      BY ONLY <2>1
    <3> QED BY <3>1, <3>2, <3>3, <3>4
  <2> QED BY <2>1, <2>2, Zenon
<1>5. /\ IsDeclaration' /\ Plan' = Plan
      /\ \A d : Goal(d)' = Goal(d)
      /\ From(walk.walker, walk.todo)' = From(walk'.walker, walk'.todo)
      /\ IsReady(walk.walker, walk.todo)' <=> IsReady(walk'.walker, walk'.todo)
      /\ \A d : MadeBy(d, Visited(d))' = MadeBy(d, Visited(d)')
  BY GivenStays DEF WalkIInv
<1>6. V = Goal(c) \ From(w, s)
  BY <1>1 DEF Visited
<1>7. /\ h = s[1] /\ 1 \in DOMAIN s /\ h \in Nat
      /\ \A k \in DOMAIN t : t[k] \in Nat
  <2>1. s \in Seq(DOMAIN tree) /\ t \in Seq(DOMAIN tree) /\ DOMAIN tree \subseteq Nat
    BY <1>1, <1>2, <1>3 DEF IsReady, TreeFacts
  <2> HIDE DEF t
  <2> QED BY <2>1 DEF At
<1> HIDE DEF V, t, h, w, s
<1>8. V \subseteq Nat /\ \A n \in V : n < h
  BY <1>1, <1>2, <1>6, <1>7
<1>9. Visited(c)' = IF h \in From(w, s) THEN V \cup {h} ELSE V
  <2>1. Visited(c)' = Goal(c) \ From(w, t)
    BY <1>1, <1>4, <1>5 DEF Visited, w, t
  <2> QED BY <1>2, <1>3, <1>6, <2>1
<1>10. \A d \in 1 .. c : d # c => Visited(d)' = Visited(d)
  <2> SUFFICES ASSUME NEW d \in 1 .. c, d # c PROVE Visited(d)' = Visited(d)
    OBVIOUS
  <2>1. d < c
    BY <1>1
  <2> QED BY <1>4, <1>5, <2>1 DEF Visited
<1>11. CallsOK'
  <2>1. c \in 0 .. Len(Plan)
    BY <1>1
  <2>2. calls = SubSeq(Plan, c + 1, Len(Plan))
    BY DEF WalkIInv, CallsOK
  <2> QED BY <1>1, <1>4, <1>5, <2>1, <2>2 DEF CallsOK, w
<1>12. WalkOK'
  <2>1. IsReady(walk.walker, walk.todo)'
    BY <1>3, <1>4, <1>5
  <2>2. From(walk.walker, walk.todo)' \subseteq Goal(walk.call)'
    <3>1. From(walk.walker, walk.todo)' = From(w, t)
      BY <1>4, <1>5
    <3>2. Goal(walk.call)' = Goal(c)
      BY <1>4, <1>5
    <3> QED BY <1>2, <1>3, <3>1, <3>2
  <2>3. \A n \in Visited(c)', k \in DOMAIN t : n < t[k]
    <3> SUFFICES ASSUME NEW n \in Visited(c)', NEW k \in DOMAIN t PROVE n < t[k]
      OBVIOUS
    <3>1. n = h \/ n \in V
      BY <1>9
    <3>2. h < t[k] /\ t[k] \in Nat
      BY <1>3, <1>7
    <3>3. n = h \/ (n \in Nat /\ n < h)
      BY <1>8, <3>1
    <3> HIDE <1>0
    <3> QED BY <1>7, <3>2, <3>3
  <2>4. seen = {typeAt[n] : n \in Visited(c)'}
    <3>1. seen = IF h \in From(w, s) THEN walk.seen \cup {typeAt[h]} ELSE walk.seen
      BY DEF h, w, s
    <3> QED BY <1>2, <1>9, <3>1
  <2>5. walk'.seen = {typeAt'[n] : n \in Visited(c)'}
    BY <1>4, <2>4 DEF given
  <2> QED BY <1>4, <2>1, <2>2, <2>3, <2>5 DEF WalkOK
<1>13. RefsOK'
  <2> DEFINE new == IF h \in From(w, s) /\ typeAt[h] \in Wanted \ walk.seen
                    THEN {[call |-> c, type |-> typeAt[h], at |-> h]} ELSE {}
  <2>1. refs = UNION {MadeBy(d, Visited(d)) : d \in 1 .. c} /\ refs' = refs \cup new
    BY DEF WalkIInv, RefsOK, h, w, s
  <2>2. \A d \in 1 .. c : d # c => MadeBy(d, Visited(d))' = MadeBy(d, Visited(d))
    BY <1>5, <1>10
  <2>3. Wanted = WantedBy(Plan[c].walker)
    BY <1>1 DEF Wanted, WantedBy, w
  <2>4. MadeBy(c, Visited(c))' = MadeBy(c, V) \cup new
    <3>1. CASE h \in From(w, s)
      <4>1. MadeBy(c, Visited(c))' = MadeBy(c, V \cup {h})
        BY <1>5, <1>9, <3>1
      <4>2. MadeBy(c, V \cup {h}) = IF typeAt[h] \in WantedBy(Plan[c].walker) \ {typeAt[n] : n \in V}
                                    THEN MadeBy(c, V) \cup {[call |-> c, type |-> typeAt[h], at |-> h]}
                                    ELSE MadeBy(c, V)
        BY <1>7, <1>8, OneMore
      <4> QED BY <1>2, <2>3, <3>1, <4>1, <4>2
    <3>2. CASE h \notin From(w, s)
      BY <1>5, <1>9, <3>2
    <3> QED BY <3>1, <3>2
  <2> HIDE DEF new
  <2>5. MadeBy(c, Visited(c)) = MadeBy(c, V) /\ c \in 1 .. c
    BY <1>1 DEF V
  <2>6. refs' = UNION {MadeBy(d, Visited(d))' : d \in 1 .. c}
    BY <2>1, <2>2, <2>4, <2>5
  <2> QED BY <1>4, <2>6 DEF RefsOK
<1>14. AllWalked'
  <2>1. ~done
    BY DEF WalkIInv, AllWalked
  <2> QED BY <2>1 DEF AllWalked
<1> QED BY <1>4, <1>5, <1>11, <1>12, <1>13, <1>14 DEF WalkIInv

LEMMA StepTryAdd == ASSUME WalkIInv, TryAdd PROVE WalkIInv'
<1>1. /\ walk.todo # <<>> /\ Kind(At) = "name"
      /\ refs' = IF typeAt[At] \in Wanted \ walk.seen
                 THEN refs \cup {[call |-> walk.call, type |-> typeAt[At], at |-> At]}
                 ELSE refs
      /\ walk' = [walk EXCEPT !.todo = Tail(walk.todo), !.seen = walk.seen \cup {typeAt[At]}]
      /\ UNCHANGED <<given, calls, done>>
  BY DEF TryAdd
<1>2. TreeFacts /\ walk.call # 0
  BY <1>1, AtCall
<1>3. IsReady(walk.walker, walk.todo)
  BY <1>2 DEF WalkIInv, WalkOK
<1>4. GoesOn(walk.walker, walk.todo, <<>>) /\ At \in From(walk.walker, walk.todo)
  BY <1>1, <1>2, <1>3, LeafStep DEF At
<1>5. Tail(walk.todo) = <<>> \o Tail(walk.todo)
  <2>1. walk.todo \in Seq(DOMAIN tree)
    BY <1>3 DEF IsReady
  <2> QED BY <1>1, <2>1
<1> DEFINE seen == walk.seen \cup {typeAt[At]}
<1>6. walk' = [call |-> walk.call, walker |-> walk.walker, todo |-> <<>> \o Tail(walk.todo), seen |-> seen]
  <2> DEFINE t == Tail(walk.todo)
  <2>1. walk = [call |-> walk.call, walker |-> walk.walker, todo |-> walk.todo, seen |-> walk.seen]
    BY DEF WalkIInv
  <2>2. walk' = [walk EXCEPT !.todo = t, !.seen = seen]
    BY <1>1
  <2> HIDE DEF t, seen
  <2>3. walk' = [call |-> walk.call, walker |-> walk.walker, todo |-> t, seen |-> seen]
    BY <2>1, <2>2
  <2> QED BY <1>5, <2>3 DEF t
<1>7. /\ seen = IF At \in From(walk.walker, walk.todo) THEN walk.seen \cup {typeAt[At]} ELSE walk.seen
      /\ refs' = IF At \in From(walk.walker, walk.todo) /\ typeAt[At] \in Wanted \ walk.seen
                 THEN refs \cup {[call |-> walk.call, type |-> typeAt[At], at |-> At]}
                 ELSE refs
  BY <1>1, <1>4
<1> HIDE DEF seen
<1> QED BY <1>1, <1>4, <1>6, <1>7, StepAt

LEMMA StepWalk == ASSUME WalkIInv, Walk PROVE WalkIInv'
<1>1. /\ walk.todo # <<>> /\ Kind(At) # "name"
      /\ walk' = [walk EXCEPT !.todo = GoesInto(At) \o Tail(walk.todo)]
      /\ refs' = refs /\ UNCHANGED <<given, calls, done>>
  BY DEF Walk
<1>2. TreeFacts /\ walk.call # 0 /\ walk.walker \in {"named", "builtin"}
  BY <1>1, AtCall
<1>3. IsReady(walk.walker, walk.todo)
  BY <1>2 DEF WalkIInv, WalkOK
<1>4. GoesInto(At) = IntoFrom(walk.walker, At)
  BY DEF GoesInto, IntoFrom
<1>5. GoesOn(walk.walker, walk.todo, IntoFrom(walk.walker, At)) /\ At \notin From(walk.walker, walk.todo)
  BY <1>1, <1>2, <1>3, ExpressionStep DEF At
<1> DEFINE a == IntoFrom(walk.walker, At)
           seen == walk.seen
<1>6. walk' = [call |-> walk.call, walker |-> walk.walker, todo |-> a \o Tail(walk.todo), seen |-> seen]
  <2>1. walk = [call |-> walk.call, walker |-> walk.walker, todo |-> walk.todo, seen |-> walk.seen]
    BY DEF WalkIInv
  <2> DEFINE t == a \o Tail(walk.todo)
  <2>2. walk' = [walk EXCEPT !.todo = t]
    BY <1>1, <1>4
  <2> HIDE DEF t
  <2>3. walk' = [call |-> walk.call, walker |-> walk.walker, todo |-> t, seen |-> walk.seen]
    BY <2>1, <2>2
  <2> QED BY <2>3 DEF t
<1>7. GoesOn(walk.walker, walk.todo, a)
  BY <1>5
<1>8. /\ seen = IF At \in From(walk.walker, walk.todo) THEN walk.seen \cup {typeAt[At]} ELSE walk.seen
      /\ refs' = IF At \in From(walk.walker, walk.todo) /\ typeAt[At] \in Wanted \ walk.seen
                 THEN refs \cup {[call |-> walk.call, type |-> typeAt[At], at |-> At]}
                 ELSE refs
  BY <1>1, <1>5
<1> HIDE DEF a, seen
<1> QED BY <1>1, <1>6, <1>7, <1>8, StepAt

(* A step that leaves the walk and the references alone.                   *)
LEMMA StepElse ==
    ASSUME WalkIInv, UNCHANGED <<given, calls, walk, refs>>, done' => calls = <<>> /\ walk.todo = <<>>
    PROVE  WalkIInv'
<1>1. /\ IsDeclaration' /\ Plan' = Plan
      /\ \A d : Goal(d)' = Goal(d)
      /\ From(walk.walker, walk.todo)' = From(walk'.walker, walk'.todo)
      /\ IsReady(walk.walker, walk.todo)' <=> IsReady(walk'.walker, walk'.todo)
      /\ \A d : MadeBy(d, Visited(d))' = MadeBy(d, Visited(d)')
  BY GivenStays DEF WalkIInv
<1>2. walk' = walk /\ calls' = calls /\ refs' = refs /\ typeAt' = typeAt
  BY DEF given
<1>3. From(walk.walker, walk.todo)' = From(walk.walker, walk.todo)
  BY <1>1, <1>2
<1>4. \A d : Visited(d)' = Visited(d)
  BY <1>1, <1>2, <1>3 DEF Visited
<1>5. \A d : MadeBy(d, Visited(d))' = MadeBy(d, Visited(d))
  BY <1>1, <1>4
<1>6. CallsOK'
  BY <1>1, <1>2 DEF WalkIInv, CallsOK
<1>7. WalkOK'
  <2>1. IsReady(walk.walker, walk.todo)' <=> IsReady(walk.walker, walk.todo)
    BY <1>1, <1>2
  <2>2. /\ walk'.call = walk.call
        /\ Goal(walk.call)' = Goal(walk.call)
        /\ Visited(walk.call)' = Visited(walk.call)
    BY <1>1, <1>2, <1>4
  <2> QED BY <1>2, <1>3, <2>1, <2>2 DEF WalkIInv, WalkOK
<1>8. RefsOK'
  BY <1>2, <1>5 DEF WalkIInv, RefsOK
<1>9. AllWalked'
  BY <1>2 DEF AllWalked
<1> QED BY <1>1, <1>2, <1>6, <1>7, <1>8, <1>9 DEF WalkIInv

LEMMA StepWalkIInv == WalkIInv /\ [WalkNext]_walkVars => WalkIInv'
<1> SUFFICES ASSUME WalkIInv, [WalkNext]_walkVars PROVE WalkIInv'
  OBVIOUS
<1>1. CASE StartCall
  BY <1>1, StepStartCall
<1>2. CASE TryAdd
  BY <1>2, StepTryAdd
<1>3. CASE Walk
  BY <1>3, StepWalk
<1>4. CASE Finish
  BY <1>4, StepElse DEF Finish
<1>5. CASE WalkOver \/ UNCHANGED walkVars
  <2>1. UNCHANGED <<given, calls, walk, refs>> /\ done' = done
    BY <1>5 DEF WalkOver, walkVars
  <2> QED BY <2>1, StepElse DEF WalkIInv, AllWalked
<1> QED BY <1>1, <1>2, <1>3, <1>4, <1>5 DEF WalkNext

-----------------------------------------------------------------------------
(* What the invariant says at the end *)

(* The records of a leaf: from which calls. *)
LEMMA RecordsAre ==
    ASSUME WalkIInv
    PROVE  \A n, r : r \in RecordedAt(n) <=>
               \E d \in 1 .. walk.call : /\ r = [call |-> d, type |-> typeAt[n], at |-> n]
                                         /\ n \in Visited(d)
                                         /\ typeAt[n] \in WantedBy(Plan[d].walker)
                                         /\ FirstOf(n, Visited(d))
<1>1. refs = UNION {MadeBy(d, Visited(d)) : d \in 1 .. walk.call}
  BY DEF WalkIInv, RefsOK
<1>2. \A d, U, r : r \in MadeBy(d, U) <=> \E m \in U : /\ r = [call |-> d, type |-> typeAt[m], at |-> m]
                                                       /\ typeAt[m] \in WantedBy(Plan[d].walker) /\ FirstOf(m, U)
  BY DEF MadeBy
<1> SUFFICES ASSUME NEW n, NEW r
             PROVE  r \in RecordedAt(n) <=>
                        \E d \in 1 .. walk.call : /\ r = [call |-> d, type |-> typeAt[n], at |-> n]
                                                  /\ n \in Visited(d)
                                                  /\ typeAt[n] \in WantedBy(Plan[d].walker)
                                                  /\ FirstOf(n, Visited(d))
  OBVIOUS
<1>3. r \in RecordedAt(n) <=> r.at = n /\ \E d \in 1 .. walk.call : r \in MadeBy(d, Visited(d))
  BY <1>1 DEF RecordedAt
<1>4. ASSUME NEW d PROVE r \in MadeBy(d, Visited(d)) /\ r.at = n <=>
                             /\ r = [call |-> d, type |-> typeAt[n], at |-> n]
                             /\ n \in Visited(d)
                             /\ typeAt[n] \in WantedBy(Plan[d].walker)
                             /\ FirstOf(n, Visited(d))
  BY <1>2
<1> QED BY <1>3, <1>4

LEMMA SetOfOne ==
    ASSUME NEW S, \A x, y \in S : x = y
    PROVE  Cardinality(S) <= 1
<1>1. CASE S = {}
  BY <1>1, FS_EmptySet
<1>2. CASE S # {}
  <2>1. PICK x : x \in S
    BY <1>2
  <2>2. S = {x}
    BY <2>1
  <2>3. Cardinality({x}) = 1
    BY FS_Singleton
  <2> QED BY <2>2, <2>3
<1> QED BY <1>1, <1>2

(* A leaf is recorded once, and exactly if it is the first of its type in  *)
(* what the calls of its walker are owed.                                  *)
FirstsRecorded ==
    /\ \A n \in Leaves(tree) : Cardinality(RecordedAt(n)) <= 1
    /\ done => \A n \in Leaves(tree) :
          CASE typeAt[n] \in PackageTypes ->
                  RecordedAt(n) # {} <=>
                      /\ n \in Uses /\ (IsType \/ form.declared > 0)
                      /\ FirstOf(n, {m \in Uses : InConstraint(m) = InConstraint(n)})
            [] typeAt[n] \in Builtins ->
                  RecordedAt(n) # {} <=>
                      /\ n \in PlainUses /\ WantsBuiltins
                      /\ FirstOf(n, PlainUses)
            [] OTHER -> RecordedAt(n) = {}

LEMMA FirstsAreRecorded == WalkIInv => FirstsRecorded
<1> SUFFICES ASSUME WalkIInv PROVE FirstsRecorded
  OBVIOUS
<1>1. /\ AnswersForAll /\ Plan \in Seq(Calls) /\ Len(Plan) \in Nat /\ DOMAIN Plan = 1 .. Len(Plan)
      /\ walk.call \in 0 .. Len(Plan)
      /\ \A d \in DOMAIN Plan : Visited(d) \subseteq Goal(d)
      /\ walk.todo = <<>> => \A d \in DOMAIN Plan : d <= walk.call => Visited(d) = Goal(d)
  BY AtCall
<1>2. /\ \A d \in DOMAIN Plan : Plan[d].walker \in {"named", "builtin"}
      /\ \A d \in DOMAIN Plan : Plan[d].walker = "named" => \E b \in BOOLEAN : Goal(d) = UsesIn(b)
      /\ \A d \in DOMAIN Plan : Plan[d].walker = "builtin" => Goal(d) = PlainUses
      /\ \A d, e \in DOMAIN Plan : Plan[d].walker = Plan[e].walker /\ Goal(d) \cap Goal(e) # {} => d = e
      /\ \A n \in Leaves(tree) :
            (\E d \in DOMAIN Plan : Plan[d].walker = "named" /\ n \in Goal(d))
                <=> n \in Uses /\ (IsType \/ form.declared > 0)
      /\ (\E d \in DOMAIN Plan : Plan[d].walker = "builtin") <=> WantsBuiltins
  BY <1>1 DEF AnswersForAll
<1>3. /\ \A n \in Leaves(tree) : typeAt[n] \in PackageTypes \cup Builtins \cup OtherTypes
      /\ PackageTypes \cap Builtins = {} /\ (PackageTypes \cup Builtins) \cap OtherTypes = {}
  BY TypeAssumption DEF WalkIInv, IsDeclaration
<1>4. \A d \in DOMAIN Plan : /\ Plan[d].walker = "named" => WantedBy(Plan[d].walker) = PackageTypes
                             /\ Plan[d].walker = "builtin" => WantedBy(Plan[d].walker) = Builtins
  BY DEF WantedBy
<1>5. \A n, r : r \in RecordedAt(n) <=>
          \E d \in 1 .. walk.call : /\ r = [call |-> d, type |-> typeAt[n], at |-> n]
                                    /\ n \in Visited(d)
                                    /\ typeAt[n] \in WantedBy(Plan[d].walker)
                                    /\ FirstOf(n, Visited(d))
  BY RecordsAre
<1>6. 1 .. walk.call \subseteq DOMAIN Plan
  BY <1>1
<1>7. ASSUME NEW n \in Leaves(tree) PROVE Cardinality(RecordedAt(n)) <= 1
  <2>1. ASSUME NEW x \in RecordedAt(n), NEW y \in RecordedAt(n) PROVE x = y
    <3>1. PICK d \in DOMAIN Plan : /\ x = [call |-> d, type |-> typeAt[n], at |-> n]
                                   /\ n \in Goal(d) /\ typeAt[n] \in WantedBy(Plan[d].walker)
      BY <1>1, <1>5, <1>6
    <3>2. PICK e \in DOMAIN Plan : /\ y = [call |-> e, type |-> typeAt[n], at |-> n]
                                   /\ n \in Goal(e) /\ typeAt[n] \in WantedBy(Plan[e].walker)
      BY <1>1, <1>5, <1>6
    <3>3. Plan[d].walker = Plan[e].walker
      BY <1>2, <1>3, <1>4, <3>1, <3>2
    <3>4. d = e
      BY <1>2, <3>1, <3>2, <3>3
    <3> QED BY <3>1, <3>2, <3>4
  <2> QED BY <2>1, SetOfOne
<1>8. ASSUME done, NEW n \in Leaves(tree)
      PROVE  CASE typeAt[n] \in PackageTypes ->
                     RecordedAt(n) # {} <=>
                         /\ n \in Uses /\ (IsType \/ form.declared > 0)
                         /\ FirstOf(n, {m \in Uses : InConstraint(m) = InConstraint(n)})
               [] typeAt[n] \in Builtins ->
                     RecordedAt(n) # {} <=>
                         /\ n \in PlainUses /\ WantsBuiltins
                         /\ FirstOf(n, PlainUses)
               [] OTHER -> RecordedAt(n) = {}
  <2>1. calls = <<>> /\ walk.todo = <<>> /\ calls = SubSeq(Plan, walk.call + 1, Len(Plan))
    BY <1>8 DEF WalkIInv, AllWalked, CallsOK
  <2>2. walk.call = Len(Plan)
    BY <1>1, <2>1, RestOf
  <2>3. 1 .. walk.call = DOMAIN Plan /\ \A d \in DOMAIN Plan : Visited(d) = Goal(d)
    BY <1>1, <2>1, <2>2
  <2>4. RecordedAt(n) # {} <=>
            \E d \in DOMAIN Plan : n \in Goal(d) /\ typeAt[n] \in WantedBy(Plan[d].walker) /\ FirstOf(n, Goal(d))
    BY <1>5, <2>3
  <2>5. ASSUME typeAt[n] \in PackageTypes
        PROVE  RecordedAt(n) # {} <=>
                   /\ n \in Uses /\ (IsType \/ form.declared > 0)
                   /\ FirstOf(n, {m \in Uses : InConstraint(m) = InConstraint(n)})
    <3>1. RecordedAt(n) # {} <=>
              \E d \in DOMAIN Plan : n \in Goal(d) /\ Plan[d].walker = "named" /\ FirstOf(n, Goal(d))
      BY <1>2, <1>3, <1>4, <2>4, <2>5
    <3>2. ASSUME NEW d \in DOMAIN Plan, n \in Goal(d), Plan[d].walker = "named"
          PROVE  Goal(d) = {m \in Uses : InConstraint(m) = InConstraint(n)}
      <4>1. PICK b \in BOOLEAN : Goal(d) = UsesIn(b)
        BY <1>2, <3>2
      <4>2. InConstraint(n) = b
        BY <3>2, <4>1 DEF UsesIn
      <4> QED BY <4>1, <4>2 DEF UsesIn
    <3> DEFINE alike == {m \in Uses : InConstraint(m) = InConstraint(n)}
    <3>3. \A d \in DOMAIN Plan : n \in Goal(d) /\ Plan[d].walker = "named" => Goal(d) = alike
      BY <3>2
    <3> HIDE DEF alike
    <3>4. RecordedAt(n) # {} <=>
              (\E d \in DOMAIN Plan : Plan[d].walker = "named" /\ n \in Goal(d)) /\ FirstOf(n, alike)
      BY <3>1, <3>3
    <3>5. RecordedAt(n) # {} <=> n \in Uses /\ (IsType \/ form.declared > 0) /\ FirstOf(n, alike)
      BY <1>2, <3>4
    <3> QED BY <3>5 DEF alike
  <2>6. ASSUME typeAt[n] \in Builtins
        PROVE  RecordedAt(n) # {} <=> n \in PlainUses /\ WantsBuiltins /\ FirstOf(n, PlainUses)
    <3>1. RecordedAt(n) # {} <=>
              \E d \in DOMAIN Plan : n \in Goal(d) /\ Plan[d].walker = "builtin" /\ FirstOf(n, Goal(d))
      BY <1>2, <1>3, <1>4, <2>4, <2>6
    <3> QED BY <1>2, <3>1
  <2>7. ASSUME typeAt[n] \notin PackageTypes, typeAt[n] \notin Builtins PROVE RecordedAt(n) = {}
    BY <1>2, <1>4, <2>4, <2>7
  <2>8. ~(typeAt[n] \in PackageTypes /\ typeAt[n] \in Builtins)
    BY <1>3
  <2> QED BY <2>5, <2>6, <2>7, <2>8
<1> QED BY <1>7, <1>8 DEF FirstsRecorded

LEMMA FirstUses == WalkIInv => FirstUseOfEach
<1> SUFFICES ASSUME WalkIInv PROVE FirstUseOfEach
  OBVIOUS
<1>1. FirstsRecorded /\ PackageTypes \cap Builtins = {}
  BY FirstsAreRecorded, TypeAssumption
<1>2. PlainUses \subseteq Leaves(tree) /\ Leaves(tree) \subseteq Nat
  <2>1. Leaves(tree) \subseteq 1 .. Len(tree) /\ Len(tree) \in Nat
    BY TreeFactsHold DEF WalkIInv, TreeFacts, Leaves
  <2> QED BY <2>1 DEF PlainUses
<1>3. ASSUME done, NEW n \in Leaves(tree), typeAt[n] \in Builtins
      PROVE  RecordedAt(n) # {} <=> n \in PlainUses /\ WantsBuiltins /\ FirstOf(n, PlainUses)
  BY <1>1, <1>3 DEF FirstsRecorded
<1>4. ASSUME done, NEW n \in Leaves(tree), typeAt[n] \in Builtins, RecordedAt(n) # {}
      PROVE  /\ n \in Uses /\ ~InConstraint(n) /\ WantsBuiltins
             /\ \A m \in Leaves(tree) \ {n} : typeAt[m] = typeAt[n] => RecordedAt(m) = {}
  <2>1. n \in PlainUses /\ WantsBuiltins /\ FirstOf(n, PlainUses)
    BY <1>3, <1>4
  <2>2. n \in Uses /\ ~InConstraint(n)
    BY <2>1 DEF PlainUses, Uses, InConstraint
  <2>3. ASSUME NEW m \in Leaves(tree) \ {n}, typeAt[m] = typeAt[n], RecordedAt(m) # {} PROVE FALSE
    <3>1. m \in PlainUses /\ FirstOf(m, PlainUses)
      BY <1>3, <1>4, <2>3
    <3>2. ~(m < n) /\ ~(n < m)
      BY <2>1, <2>3, <3>1 DEF FirstOf
    <3>3. m \in Nat /\ n \in Nat /\ m # n
      BY <1>2, <2>3
    <3> QED BY <3>2, <3>3
  <2> QED BY <2>1, <2>2, <2>3
<1>5. ASSUME done, NEW n \in PlainUses, typeAt[n] \in Builtins, WantsBuiltins
      PROVE  \E m \in Leaves(tree) : m <= n /\ typeAt[m] = typeAt[n] /\ RecordedAt(m) # {}
  <2> DEFINE alike == {m \in PlainUses : typeAt[m] = typeAt[n]}
  <2>1. alike \subseteq Nat /\ n \in alike
    BY <1>1, <1>2
  <2>2. PICK m \in alike : \A k \in alike : m <= k
    <3> HIDE DEF alike
    <3> QED BY <2>1, LeastNat
  <2>3. m \in Nat /\ m <= n
    BY <2>1, <2>2
  <2>4. FirstOf(m, PlainUses)
    <3> SUFFICES ASSUME NEW k \in PlainUses, k < m, typeAt[k] = typeAt[m] PROVE FALSE
      BY DEF FirstOf
    <3>1. k \in alike /\ k \in Nat
      BY <1>1, <1>2, <2>2
    <3> QED BY <2>2, <2>3, <3>1
  <2>5. m \in Leaves(tree) /\ typeAt[m] = typeAt[n] /\ m \in PlainUses
    BY <1>2, <2>2
  <2> QED BY <1>3, <1>5, <2>3, <2>4, <2>5
<1>6. ASSUME done, NEW n \in Leaves(tree)
      PROVE  CASE typeAt[n] \in PackageTypes ->
                     RecordedAt(n) # {} <=>
                         /\ n \in Uses /\ (IsType \/ form.declared > 0)
                         /\ FirstOf(n, {m \in Uses : InConstraint(m) = InConstraint(n)})
               [] typeAt[n] \in Builtins ->
                     /\ RecordedAt(n) # {} =>
                           /\ n \in Uses /\ ~InConstraint(n) /\ WantsBuiltins
                           /\ \A m \in Leaves(tree) \ {n} : typeAt[m] = typeAt[n] => RecordedAt(m) = {}
                     /\ n \in PlainUses /\ WantsBuiltins =>
                           \E m \in Leaves(tree) : m <= n /\ typeAt[m] = typeAt[n] /\ RecordedAt(m) # {}
               [] OTHER -> RecordedAt(n) = {}
  <2>1. CASE typeAt[n] \in Builtins
    BY <1>1, <1>4, <1>5, <1>6, <2>1
  <2>2. CASE typeAt[n] \notin Builtins
    BY <1>1, <1>6, <2>2 DEF FirstsRecorded
  <2> QED BY <2>1, <2>2
<1>7. \A n \in Leaves(tree) : Cardinality(RecordedAt(n)) <= 1
  BY <1>1 DEF FirstsRecorded
<1> QED BY <1>6, <1>7 DEF FirstUseOfEach

-----------------------------------------------------------------------------
(* Theorems *)

(* A walker has visited exactly the leaves before its front, and made a    *)
(* reference for the first of them of each type it is after.               *)
THEOREM TypeWalkInvariant == WalkSpec => []WalkIInv
BY InitWalk, StepWalkIInv, PTL DEF WalkSpec

(* A declaration refers to every type it uses at its first use, and        *)
(* records no leaf twice, however it is nested and whatever its calls are. *)
THEOREM TypesAtFirstUse == WalkSpec => []FirstUseOfEach
BY TypeWalkInvariant, FirstUses, PTL
=============================================================================
