---------------------------- MODULE IndexProofs -----------------------------
(***************************************************************************)
(* What the index holds, for any files, declarations, references and       *)
(* imports.  With the calls in any order: every slot that was remembered   *)
(* is the slot of its instance, every stated parent is the instance the    *)
(* caller named, nothing is there twice, and every instance lies inside    *)
(* its object, those of containers at its ends.  The invariant is stated of *)
(* any index (modules, symbols, objects, declared instances), so that the  *)
(* passes of Publish can be followed one by one.                           *)
(*                                                                         *)
(* And what one run leaves in the index it writes: every file has its      *)
(* containers, the directories are a tree, every use and every import that *)
(* was recorded is there once, and the containers are nested around the    *)
(* declarations.  That invariant says what the index holds in each phase:  *)
(* while it is filled, between its references and its publication, and     *)
(* once it is made.                                                        *)
(***************************************************************************)
EXTENDS IndexingRun, Lemmas

-----------------------------------------------------------------------------
(* The invariant of the index, of any index: what a pass of Publish has    *)
(* made but the next one has not seen yet is one too.                      *)

(* Types, with every name, scope and hash that can come up. *)
Names  == ModuleNames \cup {f.path : f \in Files} \cup Dirs \cup {d.name : d \in Declarations}
Scopes == {Unspecified} \cup {d.scope : d \in Declarations}
Hashes == {f.hash : f \in Files} \cup Dirs

ModuleType   == [name : ModuleNames, symbol : Nat]
SymbolType   == [name : Names, scope : Scopes, rank : RankModule .. RankOther]
PlacedType   == [symbol : Nat, start : Nat, end : Nat]
RefType      == [to : Nat, start : Nat, end : Nat]
ObjectType   == [path : DOMAIN ParentDir, sentinel : BOOLEAN, hash : Hashes, len : Nat,
                 module : Nat, insts : Seq(PlacedType), refs : Seq(RefType)]
DeclaredType == [symbol : Nat, object : Nat, start : Nat, end : Nat, slot : Nat, asked : Nat]

IndexTypes(mods, syms, objs, decl) ==
    /\ mods \in Seq(ModuleType)
    /\ syms \in Seq(SymbolType)
    /\ objs \in Seq(ObjectType)
    /\ decl \in Seq(DeclaredType)

(* A module is there once, and its symbol, once it has one, is its own. *)
ModuleSymbolOf(mods, syms, m) ==
    /\ mods[m].symbol \in DOMAIN syms
    /\ syms[mods[m].symbol] =
           [name |-> mods[m].name, scope |-> Unspecified, rank |-> RankModule]

ModulesOK(mods, syms) ==
    /\ \A m, n \in DOMAIN mods : mods[m].name = mods[n].name => m = n
    /\ \A m \in DOMAIN mods : mods[m].symbol # NoSymbol => ModuleSymbolOf(mods, syms, m)

(* No two symbols are the same in name, scope and rank; a container symbol *)
(* belongs to a module, to the pass over directories, to a file.           *)
SymbolsOK(mods, syms, objs, dirs) ==
    /\ IsInjective(syms)
    /\ \A s \in DOMAIN syms :
          /\ syms[s].rank = RankModule => \E m \in DOMAIN mods : mods[m].symbol = s
          /\ syms[s].rank = RankDirectory => dirs
          /\ syms[s].rank = RankFile =>
                \E o \in DOMAIN objs : ~objs[o].sentinel /\ objs[o].path = syms[s].name

(* A file is there once, and no instance twice in it; every instance is of *)
(* a symbol, and of a declaration only where AddSymbol put one.            *)
ObjectsOK(syms, objs, decl) ==
    /\ \A o, q \in DOMAIN objs :
          ~objs[o].sentinel /\ ~objs[q].sentinel /\ objs[o].path = objs[q].path => o = q
    /\ \A o \in DOMAIN objs :
          /\ IsInjective(objs[o].insts)
          /\ \A k \in DOMAIN objs[o].insts :
                /\ objs[o].insts[k].symbol \in DOMAIN syms
                /\ syms[objs[o].insts[k].symbol].rank = RankOther =>
                      \E i \in DOMAIN decl : decl[i].object = o /\ decl[i].slot = k

(* The slot of what AddSymbol made holds it. *)
SlotHolds(syms, objs, d) ==
    /\ d.object \in DOMAIN objs
    /\ d.slot \in DOMAIN objs[d.object].insts
    /\ objs[d.object].insts[d.slot] = [symbol |-> d.symbol, start |-> d.start, end |-> d.end]
    /\ syms[d.symbol].rank = RankOther

DeclaredOK(syms, objs, decl) == \A i \in DOMAIN decl : SlotHolds(syms, objs, decl[i])

IndexOK(mods, syms, objs, decl, dirs) ==
    /\ IndexTypes(mods, syms, objs, decl)
    /\ ModulesOK(mods, syms)
    /\ SymbolsOK(mods, syms, objs, dirs)
    /\ ObjectsOK(syms, objs, decl)
    /\ DeclaredOK(syms, objs, decl)

-----------------------------------------------------------------------------
(* What may be added to an index *)

(* A module without a symbol. *)
LEMMA ModuleAdded ==
    ASSUME NEW mods, NEW syms, NEW objs, NEW decl, NEW dirs, IndexOK(mods, syms, objs, decl, dirs),
           NEW name \in ModuleNames, \A m \in DOMAIN mods : mods[m].name # name
    PROVE  IndexOK(Append(mods, [name |-> name, symbol |-> NoSymbol]), syms, objs, decl, dirs)
<1> DEFINE x == [name |-> name, symbol |-> NoSymbol]
           new == Append(mods, x)
           n == Len(mods) + 1
<1>1. /\ mods \in Seq(ModuleType) /\ ModulesOK(mods, syms) /\ SymbolsOK(mods, syms, objs, dirs)
  BY DEF IndexOK, IndexTypes
<1>2. x \in ModuleType
  BY DEF ModuleType, NoSymbol
<1> HIDE DEF x
<1>3. /\ new \in Seq(ModuleType) /\ DOMAIN new = DOMAIN mods \cup {n}
      /\ \A i \in DOMAIN mods : new[i] = mods[i]
      /\ new[n] = x
  BY <1>1, <1>2, AppendAt
<1>4. x.name = name /\ x.symbol = NoSymbol
  BY DEF x
<1> HIDE DEF new, n
<1>5. ModulesOK(new, syms)
  <2>1. \A m \in DOMAIN new : new[m].symbol # NoSymbol => ModuleSymbolOf(new, syms, m)
    BY <1>1, <1>3, <1>4 DEF ModulesOK, ModuleSymbolOf
  <2>2. \A m, k \in DOMAIN new : new[m].name = new[k].name => m = k
    BY <1>1, <1>3, <1>4 DEF ModulesOK
  <2> QED BY <2>1, <2>2 DEF ModulesOK
<1>6. SymbolsOK(new, syms, objs, dirs)
  <2>1. ASSUME NEW s \in DOMAIN syms, syms[s].rank = RankModule
        PROVE  \E m \in DOMAIN new : new[m].symbol = s
    <3>1. PICK m \in DOMAIN mods : mods[m].symbol = s
      BY <1>1, <2>1 DEF SymbolsOK
    <3> QED BY <1>3, <3>1
  <2> QED BY <1>1, <2>1 DEF SymbolsOK
<1> QED BY <1>3, <1>5, <1>6 DEF IndexOK, IndexTypes, new, x

(* What changes only references. *)
SameButRefs(objs, new) ==
    /\ DOMAIN new = DOMAIN objs
    /\ \A o \in DOMAIN objs :
          /\ new[o].path = objs[o].path /\ new[o].sentinel = objs[o].sentinel
          /\ new[o].insts = objs[o].insts

(* Other references of the objects do not matter to the invariant.         *)
LEMMA ReferencesAdded ==
    ASSUME NEW mods, NEW syms, NEW objs, NEW decl, NEW dirs, IndexOK(mods, syms, objs, decl, dirs),
           NEW new \in Seq(ObjectType), SameButRefs(objs, new)
    PROVE  IndexOK(mods, syms, new, decl, dirs)
<1>1. /\ SymbolsOK(mods, syms, objs, dirs) /\ ObjectsOK(syms, objs, decl) /\ DeclaredOK(syms, objs, decl)
  BY DEF IndexOK
<1>2. /\ DOMAIN new = DOMAIN objs
      /\ \A o \in DOMAIN objs :
          /\ new[o].path = objs[o].path /\ new[o].sentinel = objs[o].sentinel
          /\ new[o].insts = objs[o].insts
  BY DEF SameButRefs
<1>3. SymbolsOK(mods, syms, new, dirs)
  BY <1>1, <1>2 DEF SymbolsOK
<1>4. ObjectsOK(syms, new, decl)
  BY <1>1, <1>2 DEF ObjectsOK
<1>5. DeclaredOK(syms, new, decl)
  BY <1>1, <1>2 DEF DeclaredOK, SlotHolds
<1> QED BY <1>3, <1>4, <1>5 DEF IndexOK, IndexTypes

(* A symbol of a declaration. *)
LEMMA SymbolAdded ==
    ASSUME NEW mods, NEW syms, NEW objs, NEW decl, NEW dirs, IndexOK(mods, syms, objs, decl, dirs),
           NEW x \in SymbolType, x.rank = RankOther, \A s \in DOMAIN syms : syms[s] # x
    PROVE  IndexOK(mods, Append(syms, x), objs, decl, dirs)
<1> DEFINE new == Append(syms, x)
           n == Len(syms) + 1
<1>1. /\ syms \in Seq(SymbolType) /\ ModulesOK(mods, syms) /\ SymbolsOK(mods, syms, objs, dirs)
      /\ ObjectsOK(syms, objs, decl) /\ DeclaredOK(syms, objs, decl)
  BY DEF IndexOK, IndexTypes
<1>2. /\ new \in Seq(SymbolType) /\ DOMAIN new = DOMAIN syms \cup {n}
      /\ \A i \in DOMAIN syms : new[i] = syms[i]
      /\ new[n] = x
  BY <1>1, AppendAt
<1> HIDE DEF new, n
<1>3. ModulesOK(mods, new)
  BY <1>1, <1>2 DEF ModulesOK, ModuleSymbolOf
<1>4. SymbolsOK(mods, new, objs, dirs)
  <2>1. IsInjective(new)
    BY <1>1, <1>2 DEF SymbolsOK, IsInjective
  <2>2. RankOther # RankModule /\ RankOther # RankFile /\ RankOther # RankDirectory
    BY DEF RankOther, RankModule, RankFile, RankDirectory
  <2> QED BY <1>1, <1>2, <2>1, <2>2 DEF SymbolsOK
<1>5. ObjectsOK(new, objs, decl)
  BY <1>1, <1>2 DEF ObjectsOK
<1>6. DeclaredOK(new, objs, decl)
  <2>1. ASSUME NEW i \in DOMAIN decl PROVE SlotHolds(new, objs, decl[i])
    <3>1. SlotHolds(syms, objs, decl[i])
      BY <1>1 DEF DeclaredOK
    <3>2. decl[i].symbol \in DOMAIN syms
      <4>1. objs[decl[i].object].insts[decl[i].slot].symbol \in DOMAIN syms
        BY <1>1, <3>1 DEF ObjectsOK, SlotHolds
      <4> QED BY <3>1, <4>1 DEF SlotHolds
    <3> QED BY <1>2, <3>1, <3>2 DEF SlotHolds
  <2> QED BY <2>1 DEF DeclaredOK
<1> QED BY <1>2, <1>3, <1>4, <1>5, <1>6 DEF IndexOK, IndexTypes, new

(* A file with the instance of itself. *)
LEMMA FileAdded ==
    ASSUME NEW mods, NEW syms, NEW objs, NEW decl, NEW dirs, IndexOK(mods, syms, objs, decl, dirs),
           NEW f \in ObjectType, ~f.sentinel, f.path \in Names,
           \A o \in DOMAIN objs : ~objs[o].sentinel => objs[o].path # f.path,
           f.insts = <<[symbol |-> Len(syms) + 1, start |-> 0, end |-> f.len]>>
    PROVE  IndexOK(mods, Append(syms, [name |-> f.path, scope |-> Unspecified, rank |-> RankFile]),
                   Append(objs, f), decl, dirs)
<1> DEFINE x == [name |-> f.path, scope |-> Unspecified, rank |-> RankFile]
           s2 == Append(syms, x)
           n == Len(syms) + 1
           o2 == Append(objs, f)
           q == Len(objs) + 1
<1>1. /\ syms \in Seq(SymbolType) /\ objs \in Seq(ObjectType)
      /\ ModulesOK(mods, syms) /\ SymbolsOK(mods, syms, objs, dirs)
      /\ ObjectsOK(syms, objs, decl) /\ DeclaredOK(syms, objs, decl)
  BY DEF IndexOK, IndexTypes
<1>2. x \in SymbolType
  BY DEF SymbolType, Scopes, RankFile, RankModule, RankOther
<1>3. x.name = f.path /\ x.rank = RankFile
  OBVIOUS
<1>4. /\ f.insts = <<[symbol |-> n, start |-> 0, end |-> f.len]>>
      /\ DOMAIN f.insts = {1} /\ f.insts[1].symbol = n
  OBVIOUS
<1> HIDE DEF x
<1>5. /\ s2 \in Seq(SymbolType) /\ DOMAIN s2 = DOMAIN syms \cup {n} /\ n \notin DOMAIN syms
      /\ \A i \in DOMAIN syms : s2[i] = syms[i]
      /\ s2[n] = x
  BY <1>1, <1>2, AppendAt
<1>6. /\ o2 \in Seq(ObjectType) /\ DOMAIN o2 = DOMAIN objs \cup {q} /\ q \notin DOMAIN objs
      /\ \A i \in DOMAIN objs : o2[i] = objs[i]
      /\ o2[q] = f
  BY <1>1, AppendAt
<1> HIDE DEF s2, o2, n, q
<1>7. /\ RankFile # RankModule /\ RankFile # RankOther /\ RankFile # RankDirectory
  BY DEF RankOther, RankModule, RankFile, RankDirectory
<1>8. ModulesOK(mods, s2)
  BY <1>1, <1>5 DEF ModulesOK, ModuleSymbolOf
<1>9. SymbolsOK(mods, s2, o2, dirs)
  <2>1. ASSUME NEW s \in DOMAIN syms PROVE syms[s] # x
    <3> SUFFICES ASSUME syms[s] = x PROVE FALSE
      OBVIOUS
    <3>1. \E o \in DOMAIN objs : ~objs[o].sentinel /\ objs[o].path = x.name
      BY <1>1, <1>3 DEF SymbolsOK
    <3> QED BY <1>3, <3>1
  <2>2. IsInjective(s2)
    BY <1>1, <1>5, <2>1 DEF SymbolsOK, IsInjective
  <2>3. ASSUME NEW s \in DOMAIN s2
        PROVE /\ s2[s].rank = RankModule => \E m \in DOMAIN mods : mods[m].symbol = s
              /\ s2[s].rank = RankDirectory => dirs
    BY <1>1, <1>3, <1>5, <1>7 DEF SymbolsOK
  <2>4. ASSUME NEW s \in DOMAIN s2, s2[s].rank = RankFile
        PROVE  \E o \in DOMAIN o2 : ~o2[o].sentinel /\ o2[o].path = s2[s].name
    <3>1. CASE s = n
      BY <1>3, <1>5, <1>6, <3>1
    <3>2. CASE s \in DOMAIN syms
      <4>1. PICK o \in DOMAIN objs : ~objs[o].sentinel /\ objs[o].path = syms[s].name
        BY <1>1, <1>5, <2>4, <3>2 DEF SymbolsOK
      <4> QED BY <1>5, <1>6, <3>2, <4>1
    <3> QED BY <1>5, <3>1, <3>2
  <2> QED BY <2>2, <2>3, <2>4 DEF SymbolsOK
<1>10. ObjectsOK(s2, o2, decl)
  <2>1. ASSUME NEW o \in DOMAIN o2, NEW p \in DOMAIN o2,
               ~o2[o].sentinel, ~o2[p].sentinel, o2[o].path = o2[p].path
        PROVE  o = p
    BY <1>1, <1>6, <2>1 DEF ObjectsOK
  <2>2. ASSUME NEW o \in DOMAIN o2
        PROVE  /\ IsInjective(o2[o].insts)
               /\ \A k \in DOMAIN o2[o].insts :
                     /\ o2[o].insts[k].symbol \in DOMAIN s2
                     /\ s2[o2[o].insts[k].symbol].rank = RankOther =>
                          \E i \in DOMAIN decl : decl[i].object = o /\ decl[i].slot = k
    <3>1. CASE o = q
      BY <1>3, <1>4, <1>5, <1>6, <1>7, <3>1 DEF IsInjective
    <3>2. CASE o \in DOMAIN objs
      BY <1>1, <1>5, <1>6, <3>2 DEF ObjectsOK
    <3> QED BY <1>6, <3>1, <3>2
  <2> QED BY <2>1, <2>2 DEF ObjectsOK
<1>11. DeclaredOK(s2, o2, decl)
  <2>1. ASSUME NEW i \in DOMAIN decl PROVE SlotHolds(s2, o2, decl[i])
    <3>1. SlotHolds(syms, objs, decl[i])
      BY <1>1 DEF DeclaredOK
    <3>2. decl[i].symbol \in DOMAIN syms
      <4>1. objs[decl[i].object].insts[decl[i].slot].symbol \in DOMAIN syms
        BY <1>1, <3>1 DEF ObjectsOK, SlotHolds
      <4> QED BY <3>1, <4>1 DEF SlotHolds
    <3> QED BY <1>5, <1>6, <3>1, <3>2 DEF SlotHolds
  <2> QED BY <2>1 DEF DeclaredOK
<1>12. IndexTypes(mods, s2, o2, decl)
  BY <1>5, <1>6 DEF IndexOK, IndexTypes
<1> QED BY <1>8, <1>9, <1>10, <1>11, <1>12 DEF IndexOK, s2, o2, x
(* The symbol of a declared instance is in the index. *)
LEMMA DeclaredSymbol ==
    ASSUME NEW syms, NEW objs, NEW decl, ObjectsOK(syms, objs, decl), DeclaredOK(syms, objs, decl)
    PROVE  \A i \in DOMAIN decl : decl[i].symbol \in DOMAIN syms
<1> SUFFICES ASSUME NEW i \in DOMAIN decl PROVE decl[i].symbol \in DOMAIN syms
  OBVIOUS
<1>1. SlotHolds(syms, objs, decl[i])
  BY DEF DeclaredOK
<1>2. objs[decl[i].object].insts[decl[i].slot].symbol \in DOMAIN syms
  BY <1>1 DEF ObjectsOK, SlotHolds
<1> QED BY <1>1, <1>2 DEF SlotHolds

(* An object with other instances or other references. *)
WithInsts(r, insts) == [r EXCEPT !.insts = insts]
WithReferences(r, refs) == [r EXCEPT !.refs = refs]

(* Only the instances are others.                                          *)
LEMMA WithInstsLemma ==
    ASSUME NEW r \in ObjectType, NEW insts \in Seq(PlacedType)
    PROVE  LET q == WithInsts(r, insts)
           IN  /\ q \in ObjectType
               /\ q.insts = insts /\ q.refs = r.refs
               /\ q.path = r.path /\ q.sentinel = r.sentinel /\ q.hash = r.hash
               /\ q.len = r.len /\ q.module = r.module
  BY DEF ObjectType, WithInsts

(* Only the references are others.                                         *)
LEMMA WithReferencesLemma ==
    ASSUME NEW r \in ObjectType, NEW refs \in Seq(RefType)
    PROVE  LET q == WithReferences(r, refs)
           IN  /\ q \in ObjectType
               /\ q.insts = r.insts /\ q.refs = refs
               /\ q.path = r.path /\ q.sentinel = r.sentinel /\ q.hash = r.hash
               /\ q.len = r.len /\ q.module = r.module
  BY DEF ObjectType, WithReferences

(* A declared instance that is not there yet. *)
LEMMA InstanceAdded ==
    ASSUME NEW mods, NEW syms, NEW objs, NEW decl, NEW dirs, IndexOK(mods, syms, objs, decl, dirs),
           NEW d \in DeclaredType, d.object \in DOMAIN objs,
           d.symbol \in DOMAIN syms, syms[d.symbol].rank = RankOther,
           d.slot = Len(objs[d.object].insts) + 1,
           \A i \in DOMAIN decl :
               ~(/\ decl[i].symbol = d.symbol /\ decl[i].object = d.object
                 /\ decl[i].start = d.start /\ decl[i].end = d.end),
           NEW new,
           new = [objs EXCEPT ![d.object].insts =
                     Append(@, [symbol |-> d.symbol, start |-> d.start, end |-> d.end])]
    PROVE  /\ IndexOK(mods, syms, new, Append(decl, d), dirs)
           /\ DOMAIN new = DOMAIN objs
<1> DEFINE o == d.object
           x == [symbol |-> d.symbol, start |-> d.start, end |-> d.end]
           old == objs[o].insts
           insts == Append(old, x)
           n == Len(old) + 1
           dec == Append(decl, d)
           e == Len(decl) + 1
<1>1. /\ objs \in Seq(ObjectType) /\ decl \in Seq(DeclaredType)
      /\ ModulesOK(mods, syms) /\ SymbolsOK(mods, syms, objs, dirs)
      /\ ObjectsOK(syms, objs, decl) /\ DeclaredOK(syms, objs, decl)
  BY DEF IndexOK, IndexTypes
<1>2. \A p \in DOMAIN objs : objs[p] \in ObjectType
  BY <1>1
<1>3. old \in Seq(PlacedType)
  BY <1>2 DEF ObjectType
<1>4. x \in PlacedType
  BY DEF PlacedType, DeclaredType
<1>5. x.symbol = d.symbol /\ x.start = d.start /\ x.end = d.end
  OBVIOUS
<1>6. d.slot = n /\ o \in DOMAIN objs
  OBVIOUS
<1>7. new = [objs EXCEPT ![o].insts = insts]
  OBVIOUS
<1>8. x = [symbol |-> d.symbol, start |-> d.start, end |-> d.end]
  OBVIOUS
<1> HIDE DEF x
<1>9. /\ insts \in Seq(PlacedType) /\ DOMAIN insts = DOMAIN old \cup {n} /\ n \notin DOMAIN old
      /\ \A i \in DOMAIN old : insts[i] = old[i]
      /\ insts[n] = x
  BY <1>3, <1>4, AppendAt
<1>10. /\ dec \in Seq(DeclaredType) /\ DOMAIN dec = DOMAIN decl \cup {e} /\ e \notin DOMAIN decl
       /\ \A i \in DOMAIN decl : dec[i] = decl[i]
       /\ dec[e] = d
  BY <1>1, AppendAt
<1> HIDE DEF insts, n, dec, e
<1>11. /\ DOMAIN new = DOMAIN objs /\ new \in Seq(ObjectType)
       /\ \A p \in DOMAIN objs :
             /\ new[p].path = objs[p].path /\ new[p].sentinel = objs[p].sentinel
             /\ p # o => new[p] = objs[p]
       /\ new[o].insts = insts
  <2> HIDE DEF o
  <2>1. DOMAIN new = DOMAIN objs /\ \A p \in DOMAIN objs : p # o => new[p] = objs[p]
    BY <1>7
  <2>2. new[o] = WithInsts(objs[o], insts)
    BY <1>6, <1>7, Zenon DEF WithInsts
  <2>3. new[o].insts = insts /\ new[o].path = objs[o].path /\ new[o].sentinel = objs[o].sentinel
        /\ new[o] \in ObjectType
    <3>1. objs[o] \in ObjectType
      BY <1>2, <1>6
    <3>2. insts \in Seq(PlacedType)
      BY <1>9
    <3>3. LET q == WithInsts(objs[o], insts)
          IN  q \in ObjectType /\ q.insts = insts /\ q.path = objs[o].path /\ q.sentinel = objs[o].sentinel
      BY <3>1, <3>2, WithInstsLemma, Zenon
    <3> QED BY <2>2, <3>3
  <2>4. new \in Seq(ObjectType)
    <3>1. new \in [DOMAIN objs -> ObjectType]
      <4>1. \A p \in DOMAIN objs : new[p] \in ObjectType
        BY <1>2, <2>1, <2>3
      <4> QED BY <1>7, <2>1, <4>1
    <3> QED BY <1>1, <3>1, MapLemma
  <2> QED BY <2>1, <2>3, <2>4
<1>12. SymbolsOK(mods, syms, new, dirs)
  BY <1>1, <1>11 DEF SymbolsOK
<1>13. \A i \in DOMAIN old : old[i] # x
  <2> SUFFICES ASSUME NEW i \in DOMAIN old, old[i] = x PROVE FALSE
    OBVIOUS
  <2>1. PICK j \in DOMAIN decl : decl[j].object = o /\ decl[j].slot = i
    BY <1>1, <1>5, <1>6 DEF ObjectsOK
  <2>2. objs[decl[j].object].insts[decl[j].slot]
            = [symbol |-> decl[j].symbol, start |-> decl[j].start, end |-> decl[j].end]
    BY <1>1, <2>1 DEF DeclaredOK, SlotHolds
  <2>3. x = [symbol |-> decl[j].symbol, start |-> decl[j].start, end |-> decl[j].end]
    BY <2>1, <2>2
  <2>4. x.symbol = decl[j].symbol /\ x.start = decl[j].start /\ x.end = decl[j].end
    BY <2>3
  <2> QED BY <1>5, <2>1, <2>4
<1>14. ObjectsOK(syms, new, dec)
  <2>1. ASSUME NEW p \in DOMAIN new PROVE IsInjective(new[p].insts)
    <3>1. CASE p = o
      <4>1. \A a, b \in DOMAIN old : old[a] = old[b] => a = b
        BY <1>1, <1>6 DEF ObjectsOK, IsInjective
      <4> HIDE DEF old, o
      <4>2. \A a, b \in DOMAIN insts : insts[a] = insts[b] => a = b
        BY <1>9, <1>13, <4>1
      <4>3. new[p].insts = insts
        BY <1>11, <3>1
      <4> QED BY <4>2, <4>3 DEF IsInjective
    <3>2. CASE p # o
      BY <1>1, <1>11, <3>2 DEF ObjectsOK
    <3> QED BY <3>1, <3>2
  <2>2. ASSUME NEW p \in DOMAIN new, NEW k \in DOMAIN new[p].insts
        PROVE  /\ new[p].insts[k].symbol \in DOMAIN syms
               /\ syms[new[p].insts[k].symbol].rank = RankOther =>
                     \E i \in DOMAIN dec : dec[i].object = p /\ dec[i].slot = k
    <3>1. CASE p = o /\ k = n
      <4>1. new[p].insts[k] = x
        BY <1>9, <1>11, <3>1
      <4>2. e \in DOMAIN dec /\ dec[e].object = p /\ dec[e].slot = k
        BY <1>6, <1>10, <3>1
      <4> QED BY <1>5, <4>1, <4>2
    <3>2. CASE ~(p = o /\ k = n)
      <4>1. k \in DOMAIN objs[p].insts /\ new[p].insts[k] = objs[p].insts[k]
        <5>1. CASE p = o
          <6>1. k \in DOMAIN insts /\ k # n
            BY <1>11, <3>2, <5>1
          <6> QED BY <1>9, <1>11, <5>1, <6>1
        <5>2. CASE p # o
          BY <1>11, <5>2
        <5> QED BY <5>1, <5>2
      <4>2. /\ objs[p].insts[k].symbol \in DOMAIN syms
            /\ syms[objs[p].insts[k].symbol].rank = RankOther =>
                  \E i \in DOMAIN decl : decl[i].object = p /\ decl[i].slot = k
        BY <1>1, <1>11, <4>1 DEF ObjectsOK
      <4> QED BY <1>10, <4>1, <4>2
    <3> QED BY <3>1, <3>2
  <2>3. \A p, q \in DOMAIN new :
          ~new[p].sentinel /\ ~new[q].sentinel /\ new[p].path = new[q].path => p = q
    BY <1>1, <1>11 DEF ObjectsOK
  <2> QED BY <2>1, <2>2, <2>3 DEF ObjectsOK
<1>15. DeclaredOK(syms, new, dec)
  <2>1. SlotHolds(syms, new, d)
    BY <1>6, <1>8, <1>9, <1>11 DEF SlotHolds
  <2>2. ASSUME NEW i \in DOMAIN decl PROVE SlotHolds(syms, new, decl[i])
    <3>1. SlotHolds(syms, objs, decl[i])
      BY <1>1 DEF DeclaredOK
    <3>2. /\ decl[i].object \in DOMAIN objs
          /\ decl[i].slot \in DOMAIN objs[decl[i].object].insts
      BY <3>1 DEF SlotHolds
    <3>3. /\ decl[i].slot \in DOMAIN new[decl[i].object].insts
          /\ new[decl[i].object].insts[decl[i].slot] = objs[decl[i].object].insts[decl[i].slot]
      <4>1. CASE decl[i].object = o
        BY <1>9, <1>11, <3>2, <4>1
      <4>2. CASE decl[i].object # o
        <5>1. new[decl[i].object] = objs[decl[i].object]
          <6> HIDE DEF o
          <6> QED BY <1>11, <3>2, <4>2
        <5> QED BY <3>2, <5>1
      <4> QED BY <4>1, <4>2
    <3> QED BY <1>11, <3>1, <3>2, <3>3 DEF SlotHolds
  <2> QED BY <1>10, <2>1, <2>2 DEF DeclaredOK
<1>16. IndexTypes(mods, syms, new, dec)
  BY <1>10, <1>11 DEF IndexOK, IndexTypes
<1> QED BY <1>1, <1>11, <1>12, <1>14, <1>15, <1>16 DEF IndexOK, dec

(* Containers: at most one instance more on each object, of a symbol no    *)
(* instance of the object has, that no declaration gives.                  *)
PlacedOnce(syms, old, new) ==
    \/ new = old
    \/ \E x \in PlacedType :
          /\ new = Append(old, x)
          /\ x.symbol \in DOMAIN syms /\ syms[x.symbol].rank # RankOther
          /\ \A k \in DOMAIN old : old[k].symbol # x.symbol

(* Objects that get at most one instance more, of a container whose symbol *)
(* no instance of theirs has.                                              *)
LEMMA ContainersAdded ==
    ASSUME NEW mods, NEW syms, NEW objs, NEW decl, NEW dirs, IndexOK(mods, syms, objs, decl, dirs),
           NEW new \in Seq(ObjectType), DOMAIN new = DOMAIN objs,
           \A o \in DOMAIN objs :
               /\ new[o].path = objs[o].path /\ new[o].sentinel = objs[o].sentinel
               /\ PlacedOnce(syms, objs[o].insts, new[o].insts)
    PROVE  IndexOK(mods, syms, new, decl, dirs)
<1>1. /\ objs \in Seq(ObjectType) /\ decl \in Seq(DeclaredType)
      /\ ModulesOK(mods, syms) /\ SymbolsOK(mods, syms, objs, dirs)
      /\ ObjectsOK(syms, objs, decl) /\ DeclaredOK(syms, objs, decl)
  BY DEF IndexOK, IndexTypes
<1>2. ASSUME NEW o \in DOMAIN objs
      PROVE  /\ \A k \in DOMAIN objs[o].insts :
                   k \in DOMAIN new[o].insts /\ new[o].insts[k] = objs[o].insts[k]
             /\ IsInjective(new[o].insts)
             /\ \A k \in DOMAIN new[o].insts :
                   /\ new[o].insts[k].symbol \in DOMAIN syms
                   /\ syms[new[o].insts[k].symbol].rank = RankOther => k \in DOMAIN objs[o].insts
  <2> DEFINE old == objs[o].insts
             now == new[o].insts
  <2>1. /\ old \in Seq(PlacedType) /\ IsInjective(old)
        /\ \A k \in DOMAIN old : old[k].symbol \in DOMAIN syms
    <3>1. objs[o] \in ObjectType
      BY <1>1
    <3> QED BY <1>1, <3>1 DEF ObjectType, ObjectsOK
  <2>2. PlacedOnce(syms, old, now)
    OBVIOUS
  <2> HIDE DEF old, now
  <2>3. CASE now = old
    BY <2>1, <2>3 DEF old, now
  <2>4. CASE now # old
    <3>1. PICK x \in PlacedType :
              /\ now = Append(old, x)
              /\ x.symbol \in DOMAIN syms /\ syms[x.symbol].rank # RankOther
              /\ \A k \in DOMAIN old : old[k].symbol # x.symbol
      BY <2>2, <2>4 DEF PlacedOnce
    <3>2. PICK n : /\ DOMAIN now = DOMAIN old \cup {n} /\ n \notin DOMAIN old
                   /\ \A i \in DOMAIN old : now[i] = old[i]
                   /\ now[n] = x
      BY <2>1, <3>1, AppendAt
    <3>3. IsInjective(now)
      BY <2>1, <3>1, <3>2 DEF IsInjective
    <3>4. ASSUME NEW k \in DOMAIN now
          PROVE  /\ now[k].symbol \in DOMAIN syms
                 /\ syms[now[k].symbol].rank = RankOther => k \in DOMAIN old
      BY <2>1, <3>1, <3>2
    <3> QED BY <3>2, <3>3, <3>4 DEF old, now
  <2> QED BY <2>3, <2>4
<1>3. SymbolsOK(mods, syms, new, dirs)
  BY <1>1 DEF SymbolsOK
<1>4. ObjectsOK(syms, new, decl)
  <2>1. ASSUME NEW o \in DOMAIN new, NEW k \in DOMAIN new[o].insts,
               syms[new[o].insts[k].symbol].rank = RankOther
        PROVE  \E i \in DOMAIN decl : decl[i].object = o /\ decl[i].slot = k
    <3>1. k \in DOMAIN objs[o].insts /\ new[o].insts[k] = objs[o].insts[k]
      BY <1>2, <2>1
    <3> QED BY <1>1, <2>1, <3>1 DEF ObjectsOK
  <2>2. \A p, q \in DOMAIN new :
          ~new[p].sentinel /\ ~new[q].sentinel /\ new[p].path = new[q].path => p = q
    BY <1>1 DEF ObjectsOK
  <2> QED BY <1>2, <2>1, <2>2 DEF ObjectsOK
<1>5. DeclaredOK(syms, new, decl)
  <2>1. ASSUME NEW i \in DOMAIN decl PROVE SlotHolds(syms, new, decl[i])
    <3>1. SlotHolds(syms, objs, decl[i])
      BY <1>1 DEF DeclaredOK
    <3> QED BY <1>2, <3>1 DEF SlotHolds
  <2> QED BY <2>1 DEF DeclaredOK
<1> QED BY <1>1, <1>3, <1>4, <1>5 DEF IndexOK, IndexTypes
(* Symbols of containers: new ones, all different, of one rank.            *)
LEMMA SymbolsAppended ==
    ASSUME NEW mods, NEW syms, NEW objs, NEW decl, NEW dirs, IndexOK(mods, syms, objs, decl, dirs),
           NEW more \in Seq(SymbolType), NEW m2, NEW dirs2,
           IsInjective(more),
           \A i \in DOMAIN syms, j \in DOMAIN more : syms[i] # more[j],
           m2 \in Seq(ModuleType), ModulesOK(m2, syms \o more),
           \A m \in DOMAIN mods : m \in DOMAIN m2 /\ (mods[m].symbol # NoSymbol => m2[m].symbol = mods[m].symbol),
           dirs => dirs2,
           \A j \in DOMAIN more :
               \/ more[j].rank = RankModule /\ \E m \in DOMAIN m2 : m2[m].symbol = Len(syms) + j
               \/ more[j].rank = RankDirectory /\ dirs2
    PROVE  IndexOK(m2, syms \o more, objs, decl, dirs2)
<1> DEFINE new == syms \o more
           n == Len(syms)
<1>1. /\ syms \in Seq(SymbolType) /\ ModulesOK(mods, syms) /\ SymbolsOK(mods, syms, objs, dirs)
      /\ ObjectsOK(syms, objs, decl) /\ DeclaredOK(syms, objs, decl)
  BY DEF IndexOK, IndexTypes
<1>2. /\ new \in Seq(SymbolType)
      /\ \A i \in DOMAIN syms : i \in DOMAIN new /\ new[i] = syms[i]
      /\ \A j \in DOMAIN more : n + j \in DOMAIN new /\ n + j \notin DOMAIN syms /\ new[n + j] = more[j]
      /\ \A i \in DOMAIN new : i \in DOMAIN syms \/ \E j \in DOMAIN more : i = n + j
  BY <1>1, ConcatAt
<1>3. ModulesOK(m2, new)
  OBVIOUS
<1> HIDE DEF new, n
<1>4. SymbolsOK(m2, new, objs, dirs2)
  <2>1. IsInjective(new)
    <3>1. \A i, j \in DOMAIN syms : syms[i] = syms[j] => i = j
      BY <1>1 DEF SymbolsOK, IsInjective
    <3>2. \A i, j \in DOMAIN more : more[i] = more[j] => i = j
      BY DEF IsInjective
    <3> SUFFICES ASSUME NEW a \in DOMAIN new, NEW b \in DOMAIN new, new[a] = new[b]
                 PROVE  a = b
      BY DEF IsInjective
    <3>3. CASE a \in DOMAIN syms /\ b \in DOMAIN syms
      BY <1>2, <3>1, <3>3
    <3>4. CASE a \in DOMAIN syms /\ b \notin DOMAIN syms
      BY <1>2, <3>4
    <3>5. CASE a \notin DOMAIN syms /\ b \in DOMAIN syms
      BY <1>2, <3>5
    <3>6. CASE a \notin DOMAIN syms /\ b \notin DOMAIN syms
      BY <1>2, <3>2, <3>6
    <3> QED BY <3>3, <3>4, <3>5, <3>6
  <2>2. RankModule # RankFile /\ RankModule # RankDirectory /\ RankFile # RankDirectory
    BY DEF RankModule, RankFile, RankDirectory
  <2>3. ASSUME NEW s \in DOMAIN new
        PROVE  /\ new[s].rank = RankModule => \E m \in DOMAIN m2 : m2[m].symbol = s
               /\ new[s].rank = RankDirectory => dirs2
               /\ new[s].rank = RankFile =>
                    \E o \in DOMAIN objs : ~objs[o].sentinel /\ objs[o].path = new[s].name
    <3>1. CASE s \in DOMAIN syms
      <4>1. new[s] = syms[s]
        BY <1>2, <3>1
      <4>2. syms[s].rank = RankModule => \E m \in DOMAIN m2 : m2[m].symbol = s
        <5> SUFFICES ASSUME syms[s].rank = RankModule PROVE \E m \in DOMAIN m2 : m2[m].symbol = s
          OBVIOUS
        <5>1. PICK m \in DOMAIN mods : mods[m].symbol = s
          BY <1>1, <3>1 DEF SymbolsOK
        <5>2. s # NoSymbol
          BY <1>1, <3>1 DEF NoSymbol
        <5> QED BY <5>1, <5>2
      <4> QED BY <1>1, <3>1, <4>1, <4>2 DEF SymbolsOK
    <3>2. CASE s \notin DOMAIN syms
      <4>1. PICK j \in DOMAIN more : s = n + j
        BY <1>2, <3>2
      <4>2. new[s] = more[j]
        BY <1>2, <4>1
      <4>3. \/ more[j].rank = RankModule /\ (\E m \in DOMAIN m2 : m2[m].symbol = s)
            \/ more[j].rank = RankDirectory /\ dirs2
        BY <4>1 DEF n
      <4> QED BY <2>2, <4>2, <4>3
    <3> QED BY <3>1, <3>2
  <2> QED BY <2>1, <2>3 DEF SymbolsOK
<1>5. ObjectsOK(new, objs, decl)
  BY <1>1, <1>2 DEF ObjectsOK
<1>6. DeclaredOK(new, objs, decl)
  <2>1. ASSUME NEW i \in DOMAIN decl PROVE SlotHolds(new, objs, decl[i])
    <3>1. SlotHolds(syms, objs, decl[i])
      BY <1>1 DEF DeclaredOK
    <3>2. decl[i].symbol \in DOMAIN syms
      BY <1>1, DeclaredSymbol
    <3> QED BY <1>2, <3>1, <3>2 DEF SlotHolds
  <2> QED BY <2>1 DEF DeclaredOK
<1> QED BY <1>2, <1>3, <1>4, <1>5, <1>6 DEF IndexOK, IndexTypes, new

(* Objects of directories.                                                 *)
LEMMA SentinelsAdded ==
    ASSUME NEW mods, NEW syms, NEW objs, NEW decl, NEW dirs, IndexOK(mods, syms, objs, decl, dirs),
           NEW more \in Seq(ObjectType),
           \A j \in DOMAIN more :
               /\ more[j].sentinel
               /\ \E s \in DOMAIN syms :
                     /\ syms[s].rank # RankOther
                     /\ more[j].insts = <<[symbol |-> s, start |-> 0, end |-> 0]>>
    PROVE  IndexOK(mods, syms, objs \o more, decl, dirs)
<1> DEFINE new == objs \o more
           n == Len(objs)
<1>1. /\ objs \in Seq(ObjectType) /\ ModulesOK(mods, syms) /\ SymbolsOK(mods, syms, objs, dirs)
      /\ ObjectsOK(syms, objs, decl) /\ DeclaredOK(syms, objs, decl)
  BY DEF IndexOK, IndexTypes
<1>2. /\ new \in Seq(ObjectType)
      /\ \A i \in DOMAIN objs : i \in DOMAIN new /\ new[i] = objs[i]
      /\ \A j \in DOMAIN more : n + j \in DOMAIN new /\ n + j \notin DOMAIN objs /\ new[n + j] = more[j]
      /\ \A i \in DOMAIN new : i \in DOMAIN objs \/ \E j \in DOMAIN more : i = n + j
  BY <1>1, ConcatAt
<1> HIDE DEF new, n
<1>3. ASSUME NEW o \in DOMAIN new, o \notin DOMAIN objs
      PROVE  /\ new[o].sentinel
             /\ IsInjective(new[o].insts)
             /\ \A k \in DOMAIN new[o].insts :
                   /\ new[o].insts[k].symbol \in DOMAIN syms
                   /\ syms[new[o].insts[k].symbol].rank # RankOther
  <2>1. PICK j \in DOMAIN more : o = n + j
    BY <1>2, <1>3
  <2>2. new[o] = more[j]
    BY <1>2, <2>1
  <2>3. PICK s \in DOMAIN syms :
              /\ syms[s].rank # RankOther
              /\ more[j].insts = <<[symbol |-> s, start |-> 0, end |-> 0]>>
    OBVIOUS
  <2>4. DOMAIN more[j].insts = {1} /\ more[j].insts[1].symbol = s
    BY <2>3
  <2> QED BY <2>2, <2>3, <2>4 DEF IsInjective
<1>4. SymbolsOK(mods, syms, new, dirs)
  <2>1. ASSUME NEW s \in DOMAIN syms, syms[s].rank = RankFile
        PROVE  \E o \in DOMAIN new : ~new[o].sentinel /\ new[o].path = syms[s].name
    <3>1. PICK o \in DOMAIN objs : ~objs[o].sentinel /\ objs[o].path = syms[s].name
      BY <1>1, <2>1 DEF SymbolsOK
    <3> QED BY <1>2, <3>1
  <2> QED BY <1>1, <2>1 DEF SymbolsOK
<1>5. ObjectsOK(syms, new, decl)
  <2>1. \A p, q \in DOMAIN new :
          ~new[p].sentinel /\ ~new[q].sentinel /\ new[p].path = new[q].path => p = q
    BY <1>1, <1>2, <1>3 DEF ObjectsOK
  <2>2. ASSUME NEW o \in DOMAIN new
        PROVE  /\ IsInjective(new[o].insts)
               /\ \A k \in DOMAIN new[o].insts :
                     /\ new[o].insts[k].symbol \in DOMAIN syms
                     /\ syms[new[o].insts[k].symbol].rank = RankOther =>
                          \E i \in DOMAIN decl : decl[i].object = o /\ decl[i].slot = k
    <3>1. CASE o \in DOMAIN objs
      BY <1>1, <1>2, <3>1 DEF ObjectsOK
    <3>2. CASE o \notin DOMAIN objs
      BY <1>3, <3>2
    <3> QED BY <3>1, <3>2
  <2> QED BY <2>1, <2>2 DEF ObjectsOK
<1>6. DeclaredOK(syms, new, decl)
  <2>1. ASSUME NEW i \in DOMAIN decl PROVE SlotHolds(syms, new, decl[i])
    <3>1. SlotHolds(syms, objs, decl[i])
      BY <1>1 DEF DeclaredOK
    <3> QED BY <1>2, <3>1 DEF SlotHolds
  <2> QED BY <2>1 DEF DeclaredOK
<1> QED BY <1>2, <1>4, <1>5, <1>6 DEF IndexOK, IndexTypes, new

-----------------------------------------------------------------------------
(* Adding the references of a log *)

(* One more reference, unless it is there.                                 *)
LEMMA AddNewLemma ==
    ASSUME NEW S, NEW s \in Seq(S), NEW x \in S, IsInjective(s)
    PROVE  /\ AddNew(s, x) \in Seq(S)
           /\ IsInjective(AddNew(s, x))
           /\ \A i \in DOMAIN s : i \in DOMAIN AddNew(s, x) /\ AddNew(s, x)[i] = s[i]
           /\ \A i \in DOMAIN AddNew(s, x) : i \in DOMAIN s \/ AddNew(s, x)[i] = x
           /\ \E i \in DOMAIN AddNew(s, x) : AddNew(s, x)[i] = x
<1> DEFINE t == AddNew(s, x)
<1>1. \A i, j \in DOMAIN s : s[i] = s[j] => i = j
  BY DEF IsInjective
<1>2. CASE Contains(s, x)
  <2>1. \E i \in DOMAIN s : s[i] = x
    BY <1>2 DEF Contains
  <2> QED BY <1>2, <2>1 DEF AddNew
<1>3. CASE ~Contains(s, x)
  <2>1. \A i \in DOMAIN s : s[i] # x
    BY <1>3 DEF Contains
  <2>2. t = Append(s, x)
    BY <1>3 DEF AddNew
  <2>3. /\ t \in Seq(S) /\ DOMAIN t = DOMAIN s \cup {Len(s) + 1}
        /\ \A i \in DOMAIN s : t[i] = s[i]
        /\ t[Len(s) + 1] = x
    BY <2>2, AppendAt
  <2> HIDE DEF t
  <2>4. IsInjective(t)
    BY <1>1, <2>1, <2>3 DEF IsInjective
  <2> QED BY <2>3, <2>4 DEF t
<1> QED BY <1>2, <1>3

(* The entry k of the log adds a reference to object o, and which.         *)
Adds(log, to, o, k) == log[k].from = o /\ to[k] # NoSymbol
Entry(log, to, k) == [to |-> to[k], start |-> log[k].start, end |-> log[k].end]

(* What a log adds to an object: each entry of it that has a target, once, *)
(* and nothing else.                                                       *)
LEMMA RefsAddedLemma ==
    ASSUME NEW log, NEW to, NEW o, Len(log) \in Nat,
           \A k \in 1 .. Len(log) : Entry(log, to, k) \in RefType
    PROVE  LET refs == RefsAdded(log, to, o)
           IN  /\ refs \in Seq(RefType)
               /\ IsInjective(refs)
               /\ \A i \in DOMAIN refs : \E k \in 1 .. Len(log) :
                     Adds(log, to, o, k) /\ refs[i] = Entry(log, to, k)
               /\ \A k \in 1 .. Len(log) :
                     Adds(log, to, o, k) => \E i \in DOMAIN refs : refs[i] = Entry(log, to, k)
<1> DEFINE n == Len(log)
           S == {s \in Seq(RefType) : IsInjective(s)}
           Push(k, s) == IF log[k].from = o /\ to[k] # NoSymbol
                         THEN AddNew(s, [to |-> to[k], start |-> log[k].start, end |-> log[k].end])
                         ELSE s
           step == [k \in Nat |-> [s \in S |-> IF k + 1 <= n THEN Push(k + 1, s) ELSE s]]
           e == <<>>
           Def(f) == f = [k \in 0 .. n |-> IF k = 0 THEN e ELSE Push(k, f[k - 1])]
<1>1. n \in Nat
  OBVIOUS
<1>2. ASSUME NEW k \in 1 .. n, NEW s \in S
      PROVE  /\ Push(k, s) \in S
             /\ \A i \in DOMAIN s : i \in DOMAIN Push(k, s) /\ Push(k, s)[i] = s[i]
             /\ \A i \in DOMAIN Push(k, s) :
                   i \in DOMAIN s \/ (Adds(log, to, o, k) /\ Push(k, s)[i] = Entry(log, to, k))
             /\ Adds(log, to, o, k) => \E i \in DOMAIN Push(k, s) : Push(k, s)[i] = Entry(log, to, k)
  <2> DEFINE x == Entry(log, to, k)
  <2>1. x \in RefType /\ s \in Seq(RefType) /\ IsInjective(s)
    OBVIOUS
  <2>2. Push(k, s) = IF Adds(log, to, o, k) THEN AddNew(s, x) ELSE s
    BY DEF Adds, Entry
  <2> HIDE DEF x, Push, n, S
  <2>3. CASE Adds(log, to, o, k)
    <3>1. Push(k, s) = AddNew(s, x)
      BY <2>2, <2>3
    <3> DEFINE t == AddNew(s, x)
    <3>2. t \in Seq(RefType) /\ IsInjective(t)
      BY <2>1, AddNewLemma
    <3>3. \A i \in DOMAIN s : i \in DOMAIN t /\ t[i] = s[i]
      BY <2>1, AddNewLemma
    <3>4. \A i \in DOMAIN t : i \in DOMAIN s \/ t[i] = x
      BY <2>1, AddNewLemma
    <3>5. \E i \in DOMAIN t : t[i] = x
      BY <2>1, AddNewLemma
    <3> HIDE DEF t
    <3>6. Push(k, s) = t
      BY <3>1 DEF t
    <3> QED BY <2>3, <3>2, <3>3, <3>4, <3>5, <3>6 DEF x, S
  <2>4. CASE ~Adds(log, to, o, k)
    BY <2>2, <2>4
  <2> QED BY <2>3, <2>4 DEF x
<1>3. e \in S
  <2>1. e \in Seq(RefType) /\ DOMAIN e = {}
    OBVIOUS
  <2> HIDE DEF e
  <2> QED BY <2>1 DEF IsInjective
<1> HIDE DEF S
<1>4. IsStep(S, step)
  <2>1. ASSUME NEW k \in Nat, NEW s \in S
        PROVE  (IF k + 1 <= n THEN Push(k + 1, s) ELSE s) \in S
    <3> HIDE DEF Push
    <3> QED BY <1>1, <1>2
  <2> HIDE DEF Push
  <2> QED BY <2>1 DEF IsStep
<1>5. PICK g : g \in [Nat -> S] /\ Iterates(g, e, step)
  <2> HIDE DEF step, e
  <2> QED BY <1>3, <1>4, Recursion
<1>6. g \in [Nat -> S] /\ g[0] = e /\ \A k \in Nat : g[k + 1] = step[k][g[k]]
  <2> HIDE DEF step, e
  <2> QED BY <1>5 DEF Iterates
<1>7. ASSUME NEW k \in 1 .. n PROVE g[k - 1] \in S /\ g[k] = Push(k, g[k - 1])
  <2>1. k - 1 \in Nat /\ (k - 1) + 1 = k /\ k <= n
    BY <1>1
  <2>2. g[k - 1] \in S
    BY <1>6, <2>1
  <2>3. g[k] = step[k - 1][g[k - 1]]
    <3> HIDE DEF step
    <3> QED BY <1>6, <2>1
  <2>4. step[k - 1][g[k - 1]] = Push(k, g[k - 1])
    <3> HIDE DEF Push
    <3> QED BY <2>1, <2>2
  <2> QED BY <2>2, <2>3, <2>4
<1> DEFINE h == [k \in 0 .. n |-> g[k]]
<1>8. Def(h)
  <2>1. ASSUME NEW k \in 0 .. n PROVE h[k] = IF k = 0 THEN e ELSE Push(k, h[k - 1])
    <3>1. CASE k = 0
      BY <1>6, <3>1
    <3>2. CASE k # 0
      <4>1. k \in 1 .. n /\ k - 1 \in 0 .. n
        BY <3>2
      <4>2. h[k] = g[k] /\ h[k - 1] = g[k - 1]
        BY <4>1
      <4> HIDE DEF Push, h
      <4> QED BY <1>7, <4>1, <4>2, <3>2
    <3> QED BY <3>1, <3>2
  <2> HIDE DEF Push
  <2> QED BY <2>1
<1> DEFINE f == CHOOSE f : Def(f)
<1>9. RefsAdded(log, to, o) = f[n]
  BY DEF RefsAdded
<1>10. Def(f)
  <2> HIDE DEF Def, h
  <2> QED BY <1>8
<1>11. f[0] = e /\ \A k \in 1 .. n : f[k] = Push(k, f[k - 1])
  <2>1. ASSUME NEW a, Def(a) PROVE a[0] = e /\ \A k \in 1 .. n : a[k] = Push(k, a[k - 1])
    <3> HIDE DEF Push, e
    <3>1. \A k \in 0 .. n : a[k] = IF k = 0 THEN e ELSE Push(k, a[k - 1])
      BY <2>1, Zenon
    <3>2. a[0] = e
      BY <1>1, <3>1
    <3>3. ASSUME NEW k \in 1 .. n PROVE a[k] = Push(k, a[k - 1])
      BY <1>1, <3>1
    <3> QED BY <3>2, <3>3
  <2> HIDE DEF Push, Def, f
  <2> QED BY <1>10, <2>1
<1> HIDE DEF f
<1> DEFINE From(j, s) == \A i \in DOMAIN s : \E k \in 1 .. j :
                             Adds(log, to, o, k) /\ s[i] = Entry(log, to, k)
           Has(j, s) == \A k \in 1 .. j :
                             Adds(log, to, o, k) => \E i \in DOMAIN s : s[i] = Entry(log, to, k)
           T == {j \in Nat : j <= n => f[j] \in S /\ From(j, f[j]) /\ Has(j, f[j])}
<1>12. 0 \in T
  <2>1. f[0] = <<>> /\ DOMAIN f[0] = {}
    BY <1>11
  <2> QED BY <1>3, <2>1
<1>13. ASSUME NEW j \in Nat, j \in T PROVE j + 1 \in T
  <2> SUFFICES ASSUME j + 1 <= n PROVE f[j + 1] \in S /\ From(j + 1, f[j + 1]) /\ Has(j + 1, f[j + 1])
    OBVIOUS
  <2> DEFINE s == f[j]
             t == f[j + 1]
             m == j + 1
  <2>1. m \in 1 .. n /\ m - 1 = j /\ j <= n /\ \A k \in 1 .. j : k \in 1 .. m
    BY <1>1
  <2>2. \A k \in 1 .. m : k = m \/ k \in 1 .. j
    OBVIOUS
  <2>3. s \in S /\ From(j, s) /\ Has(j, s)
    BY <1>13, <2>1
  <2>4. t = Push(m, s)
    <3> HIDE DEF Push
    <3> QED BY <1>11, <2>1
  <2>5. m \in 1 .. m
    OBVIOUS
  <2> HIDE DEF s, m, Push, From, Has
  <2>6. /\ t \in S
        /\ \A i \in DOMAIN s : i \in DOMAIN t /\ t[i] = s[i]
        /\ \A i \in DOMAIN t : i \in DOMAIN s \/ (Adds(log, to, o, m) /\ t[i] = Entry(log, to, m))
        /\ Adds(log, to, o, m) => \E i \in DOMAIN t : t[i] = Entry(log, to, m)
    BY <1>2, <2>1, <2>3, <2>4
  <2> HIDE DEF t
  <2>7. From(m, t)
    BY <2>1, <2>3, <2>5, <2>6 DEF From
  <2>8. Has(m, t)
    BY <2>2, <2>3, <2>6 DEF Has
  <2> QED BY <2>6, <2>7, <2>8 DEF m, t
<1>14. Nat \subseteq T
  <2> HIDE DEF T
  <2> QED BY <1>12, <1>13, SetInduction
<1>15. f[n] \in S /\ From(n, f[n]) /\ Has(n, f[n])
  BY <1>1, <1>14
<1> QED BY <1>9, <1>15 DEF S

-----------------------------------------------------------------------------
(* The pass over the modules *)

(* What the index must be for the passes that finish it.                   *)
Stored == IndexOK(modules, symbols, objects, declared, dirsDone)

(* The names the pass gives its symbols. *)
MadeSymbol(m) == [name |-> modules[m].name, scope |-> Unspecified, rank |-> RankModule]

(* An order of the modules without a symbol. *)
LEMMA PendingOrder ==
    ASSUME Stored, NEW order \in Orders(Pending)
    PROVE  /\ order \in Seq(Pending) /\ DOMAIN order = 1 .. Len(order)
           /\ \A k \in DOMAIN order : order[k] \in Pending
           /\ \A i, j \in DOMAIN order : order[i] = order[j] => i = j
           /\ \A m \in Pending : PositionIn(order, m) \in DOMAIN order /\ order[PositionIn(order, m)] = m
           /\ \A k \in DOMAIN order : PositionIn(order, order[k]) = k
<1>1. IsFiniteSet(Pending)
  <2>1. modules \in Seq(ModuleType)
    BY DEF Stored, IndexOK, IndexTypes
  <2>2. Len(modules) \in Nat /\ DOMAIN modules = 1 .. Len(modules)
    BY <2>1
  <2>3. Pending \subseteq 1 .. Len(modules)
    BY <2>2 DEF Pending
  <2>4. IsFiniteSet(1 .. Len(modules))
    BY <2>2, FS_Interval
  <2> QED BY <2>3, <2>4, FS_Subset
<1>2. order \in Seq(Pending) /\ Enumerates(order, Pending)
  BY <1>1, ListingLemma DEF Orders
<1>3. DOMAIN order = 1 .. Len(order)
  BY <1>2
<1>4. /\ \A k \in DOMAIN order : order[k] \in Pending
      /\ \A i, j \in DOMAIN order : order[i] = order[j] => i = j
      /\ \A m \in Pending : \E k \in DOMAIN order : order[k] = m
  BY <1>2, <1>3 DEF Enumerates
<1>5. \A m \in Pending : PositionIn(order, m) \in DOMAIN order /\ order[PositionIn(order, m)] = m
  BY <1>4 DEF PositionIn
<1> QED BY <1>2, <1>3, <1>4, <1>5

(* createModuleSymbols: the modules and their symbols. *)
LEMMA ModulesMadeLemma ==
    ASSUME Stored, NEW order \in Orders(Pending)
    PROVE  LET m2 == ModulesMade(order)
               s2 == ModuleSymbolsMade(order)
           IN  /\ IndexOK(m2, s2, objects, declared, dirsDone)
               /\ DOMAIN m2 = DOMAIN modules
               /\ \A m \in DOMAIN modules :
                     /\ m2[m].name = modules[m].name
                     /\ m2[m].symbol # NoSymbol
                     /\ m \in Pending => m2[m].symbol \notin DOMAIN symbols
               /\ \A s \in DOMAIN symbols : s \in DOMAIN s2 /\ s2[s] = symbols[s]
               /\ \A s \in DOMAIN s2 : s \notin DOMAIN symbols => s2[s].rank = RankModule
<1> DEFINE m2 == ModulesMade(order)
           more == [k \in DOMAIN order |-> MadeSymbol(order[k])]
           s2 == symbols \o more
           n == Len(symbols)
           at(m) == PositionIn(order, m)
<1>1. /\ modules \in Seq(ModuleType) /\ symbols \in Seq(SymbolType) /\ n \in Nat
      /\ DOMAIN symbols = 1 .. n
      /\ ModulesOK(modules, symbols) /\ SymbolsOK(modules, symbols, objects, dirsDone)
  BY DEF Stored, IndexOK, IndexTypes
<1>2. /\ order \in Seq(Pending) /\ DOMAIN order = 1 .. Len(order)
      /\ \A k \in DOMAIN order : order[k] \in Pending
      /\ \A i, j \in DOMAIN order : order[i] = order[j] => i = j
      /\ \A m \in Pending : at(m) \in DOMAIN order /\ order[at(m)] = m
      /\ \A k \in DOMAIN order : at(order[k]) = k
  BY PendingOrder
<1>3. Pending \subseteq DOMAIN modules /\ \A m \in DOMAIN modules : m \in Pending <=> modules[m].symbol = NoSymbol
  BY DEF Pending
<1>4. \A m \in DOMAIN modules : modules[m].name \in ModuleNames /\ modules[m].symbol \in Nat
  <2>1. \A m \in DOMAIN modules : modules[m] \in ModuleType
    BY <1>1
  <2> QED BY <2>1 DEF ModuleType
<1>5. \A m \in Pending : /\ MadeSymbol(m) \in SymbolType /\ MadeSymbol(m).rank = RankModule
                         /\ MadeSymbol(m).name = modules[m].name
  <2>1. RankModule \in RankModule .. RankOther
    BY DEF RankModule, RankOther
  <2> QED BY <1>3, <1>4, <2>1 DEF MadeSymbol, SymbolType, Names, Scopes
<1>6. /\ more \in Seq(SymbolType) /\ DOMAIN more = DOMAIN order
      /\ \A k \in DOMAIN order : more[k] = MadeSymbol(order[k])
  <2>1. more \in [DOMAIN order -> SymbolType]
    BY <1>2, <1>5
  <2> QED BY <1>2, <2>1, MapLemma
<1>7. s2 = ModuleSymbolsMade(order)
  BY DEF ModuleSymbolsMade, MadeSymbol
<1> HIDE DEF more, at
<1>8. /\ s2 \in Seq(SymbolType)
      /\ \A i \in DOMAIN symbols : i \in DOMAIN s2 /\ s2[i] = symbols[i]
      /\ \A j \in DOMAIN more : n + j \in DOMAIN s2 /\ n + j \notin DOMAIN symbols /\ s2[n + j] = more[j]
      /\ \A i \in DOMAIN s2 : i \in DOMAIN symbols \/ \E j \in DOMAIN more : i = n + j
  BY <1>1, <1>6, ConcatAt
<1> HIDE DEF s2, n
<1>9. /\ DOMAIN m2 = DOMAIN modules
      /\ \A m \in DOMAIN modules :
            /\ m2[m].name = modules[m].name
            /\ m \in Pending => m2[m].symbol = n + at(m)
            /\ m \notin Pending => m2[m].symbol = modules[m].symbol
  <2>1. \A m \in DOMAIN modules : modules[m] \in ModuleType
    BY <1>1
  <2> QED BY <2>1 DEF ModulesMade, ModuleType, at, n
<1>10. m2 \in Seq(ModuleType)
  <2>1. ASSUME NEW m \in DOMAIN modules PROVE m2[m] \in ModuleType
    <3>1. modules[m] \in ModuleType
      BY <1>1
    <3>2. CASE m \in Pending
      <4>1. n + at(m) \in Nat
        BY <1>1, <1>2, <3>2
      <4>2. m2[m] = [modules[m] EXCEPT !.symbol = n + at(m)]
        BY <3>2 DEF ModulesMade, at, n
      <4> QED BY <3>1, <4>1, <4>2 DEF ModuleType
    <3>3. CASE m \notin Pending
      <4>1. m2[m] = modules[m]
        BY <3>3 DEF ModulesMade
      <4> QED BY <3>1, <4>1
    <3> QED BY <3>2, <3>3
  <2>2. m2 \in [DOMAIN modules -> ModuleType]
    BY <2>1 DEF ModulesMade
  <2> QED BY <1>1, <2>2, MapLemma
<1> HIDE DEF m2
<1>11. \A m \in Pending : n + at(m) \in DOMAIN s2 /\ s2[n + at(m)] = MadeSymbol(m)
                          /\ n + at(m) \notin DOMAIN symbols
  BY <1>2, <1>6, <1>8
<1>12. ModulesOK(m2, s2)
  <2>1. \A m, k \in DOMAIN m2 : m2[m].name = m2[k].name => m = k
    BY <1>1, <1>9 DEF ModulesOK
  <2>2. ASSUME NEW m \in DOMAIN m2, m2[m].symbol # NoSymbol
        PROVE  ModuleSymbolOf(m2, s2, m)
    <3>1. CASE m \in Pending
      BY <1>9, <1>11, <3>1 DEF ModuleSymbolOf, MadeSymbol
    <3>2. CASE m \notin Pending
      <4>1. ModuleSymbolOf(modules, symbols, m)
        BY <1>1, <1>9, <2>2, <3>2 DEF ModulesOK
      <4> QED BY <1>8, <1>9, <3>2, <4>1 DEF ModuleSymbolOf
    <3> QED BY <3>1, <3>2
  <2> QED BY <2>1, <2>2 DEF ModulesOK
<1>13. IsInjective(more)
  <2> SUFFICES ASSUME NEW i \in DOMAIN more, NEW j \in DOMAIN more, more[i] = more[j]
               PROVE  i = j
    BY DEF IsInjective
  <2>1. modules[order[i]].name = modules[order[j]].name
    BY <1>2, <1>5, <1>6
  <2>2. order[i] = order[j]
    BY <1>1, <1>2, <1>3, <1>6, <2>1 DEF ModulesOK
  <2> QED BY <1>2, <1>6, <2>2
<1>14. ASSUME NEW i \in DOMAIN symbols, NEW j \in DOMAIN more, symbols[i] = more[j]
       PROVE  FALSE
  <2>1. order[j] \in Pending /\ symbols[i] = MadeSymbol(order[j])
    BY <1>2, <1>6, <1>14
  <2>2. symbols[i].rank = RankModule /\ symbols[i].name = modules[order[j]].name
    BY <1>5, <2>1
  <2>3. PICK m \in DOMAIN modules : modules[m].symbol = i
    BY <1>1, <2>2 DEF SymbolsOK
  <2>4. i # NoSymbol
    BY <1>1 DEF NoSymbol
  <2>5. symbols[i].name = modules[m].name
    <3>1. ModuleSymbolOf(modules, symbols, m)
      BY <1>1, <2>3, <2>4 DEF ModulesOK
    <3> QED BY <2>3, <3>1 DEF ModuleSymbolOf
  <2>6. m = order[j]
    BY <1>1, <1>3, <2>1, <2>2, <2>5 DEF ModulesOK
  <2> QED BY <1>3, <2>1, <2>3, <2>4, <2>6
<1>15. ASSUME NEW j \in DOMAIN more
       PROVE  more[j].rank = RankModule /\ \E m \in DOMAIN m2 : m2[m].symbol = n + j
  <2>1. order[j] \in Pending /\ at(order[j]) = j /\ more[j].rank = RankModule
    BY <1>2, <1>5, <1>6
  <2> QED BY <1>3, <1>9, <2>1
<1>16. \A m \in DOMAIN modules : m \in DOMAIN m2 /\ (modules[m].symbol # NoSymbol => m2[m].symbol = modules[m].symbol)
  BY <1>3, <1>9
<1>17. IndexOK(m2, s2, objects, declared, dirsDone)
  <2>1. IndexOK(modules, symbols, objects, declared, dirsDone)
    BY DEF Stored
  <2>2. ModulesOK(m2, symbols \o more) /\ \A j \in DOMAIN more : \E m \in DOMAIN m2 : m2[m].symbol = Len(symbols) + j
    BY <1>12, <1>15 DEF s2, n
  <2>3. IndexOK(m2, symbols \o more, objects, declared, dirsDone)
    BY <1>6, <1>10, <1>13, <1>14, <1>15, <1>16, <2>1, <2>2, SymbolsAppended
  <2> QED BY <2>3 DEF s2
<1>18. \A m \in DOMAIN modules : /\ m2[m].symbol # NoSymbol
                                 /\ m \in Pending => m2[m].symbol \notin DOMAIN symbols
  <2>1. \A m \in Pending : n + at(m) # NoSymbol
    <3>1. \A m \in Pending : at(m) \in 1 .. Len(order)
      BY <1>2
    <3> QED BY <1>1, <1>2, <3>1 DEF NoSymbol
  <2> QED BY <1>3, <1>9, <1>11, <2>1
<1>19. \A s \in DOMAIN s2 : s \notin DOMAIN symbols => s2[s].rank = RankModule
  BY <1>8, <1>15
<1> QED BY <1>7, <1>8, <1>9, <1>17, <1>18, <1>19 DEF m2, s2

(* What the logs hold, and what a name of a file stands for.               *)
UseType    == [from : Nat, to : {r.to : r \in References},
               name : {r.name : r \in References}, start : Nat, end : Nat]
ImportType == [from : Nat, module : {i.module : i \in Imports}, start : Nat, end : Nat]

LogTypes == refLog \in Seq(UseType) /\ importLog \in Seq(ImportType)

NamesPoint ==
    \A key \in DOMAIN byFileAndName :
        /\ byFileAndName[key] \in DOMAIN symbols
        /\ symbols[byFileAndName[key]].rank = RankOther
        /\ symbols[byFileAndName[key]].name = key[2]
        /\ \E i \in DOMAIN declared :
              /\ declared[i].symbol = byFileAndName[key]
              /\ objects[declared[i].object].path = key[1]

(* The symbol of the module an import names, when there is one.            *)
LEMMA ModuleSymbolLemma ==
    ASSUME NEW mods \in Seq(ModuleType), NEW syms \in Seq(SymbolType), ModulesOK(mods, syms), NEW i
    PROVE  /\ ModuleSymbol(i, mods) \in Nat
           /\ ModuleSymbol(i, mods) # NoSymbol =>
                 /\ ModuleSymbol(i, mods) \in DOMAIN syms
                 /\ syms[ModuleSymbol(i, mods)].rank = RankModule
           /\ \A m \in DOMAIN mods : mods[m].name = i.module => ModuleSymbol(i, mods) = mods[m].symbol
<1> DEFINE s == ModuleSymbol(i, mods)
<1>1. ASSUME NEW m \in DOMAIN mods
      PROVE  /\ mods[m].symbol \in Nat
             /\ mods[m].symbol # NoSymbol =>
                   mods[m].symbol \in DOMAIN syms /\ syms[mods[m].symbol].rank = RankModule
  <2>1. mods[m] \in ModuleType
    OBVIOUS
  <2>2. mods[m].symbol # NoSymbol => ModuleSymbolOf(mods, syms, m)
    BY DEF ModulesOK
  <2> QED BY <2>1, <2>2 DEF ModuleType, ModuleSymbolOf
<1>2. CASE Targets(i, mods) = {}
  <2>1. s = NoSymbol
    BY <1>2 DEF ModuleSymbol
  <2>2. \A m \in DOMAIN mods : mods[m].name # i.module
    BY <1>2 DEF Targets
  <2> QED BY <2>1, <2>2 DEF NoSymbol
<1>3. CASE Targets(i, mods) # {}
  <2>1. PICK m : m = CHOOSE t \in Targets(i, mods) : TRUE
    OBVIOUS
  <2>2. m \in Targets(i, mods)
    BY <1>3, <2>1
  <2>3. m \in DOMAIN mods /\ mods[m].name = i.module
    BY <2>2 DEF Targets
  <2>4. s = mods[m].symbol
    BY <1>3, <2>1 DEF ModuleSymbol
  <2>5. \A k \in DOMAIN mods : mods[k].name = i.module => k = m
    BY <2>3 DEF ModulesOK
  <2> QED BY <1>1, <2>3, <2>4, <2>5
<1> QED BY <1>2, <1>3

(* The reference an import leads to, once its module has a symbol.         *)
ImportIn(refs, i, mod) ==
    mod.name = i.module /\ mod.symbol # NoSymbol =>
        \E j \in DOMAIN refs : refs[j] = [to |-> mod.symbol, start |-> i.start, end |-> i.end]

(* resolveModuleImports: references to symbols of modules.                 *)
LEMMA ImportRefsLemma ==
    ASSUME LogTypes, NEW mods \in Seq(ModuleType), NEW syms \in Seq(SymbolType),
           ModulesOK(mods, syms), NEW o
    PROVE  /\ ImportRefs(mods, o) \in Seq(RefType)
           /\ IsInjective(ImportRefs(mods, o))
           /\ \A k \in DOMAIN ImportRefs(mods, o) :
                 /\ importLog # <<>>
                 /\ ImportRefs(mods, o)[k].to \in DOMAIN syms
                 /\ syms[ImportRefs(mods, o)[k].to].rank = RankModule
           /\ \A k \in DOMAIN importLog : \A m \in DOMAIN mods :
                 importLog[k].from = o => ImportIn(ImportRefs(mods, o), importLog[k], mods[m])
<1> DEFINE to == [k \in DOMAIN importLog |-> ModuleSymbol(importLog[k], mods)]
           refs == ImportRefs(mods, o)
<1>1. /\ Len(importLog) \in Nat /\ DOMAIN importLog = 1 .. Len(importLog)
      /\ \A k \in DOMAIN importLog : importLog[k] \in ImportType
  BY DEF LogTypes
<1>2. refs = RefsAdded(importLog, to, o)
  BY DEF ImportRefs
<1>3. \A k \in DOMAIN importLog : to[k] = ModuleSymbol(importLog[k], mods)
  OBVIOUS
<1> HIDE DEF to, refs
<1>4. ASSUME NEW k \in DOMAIN importLog
      PROVE  /\ Entry(importLog, to, k) \in RefType /\ Entry(importLog, to, k).to = to[k]
             /\ to[k] # NoSymbol => to[k] \in DOMAIN syms /\ syms[to[k]].rank = RankModule
             /\ \A m \in DOMAIN mods : mods[m].name = importLog[k].module => to[k] = mods[m].symbol
  <2>1. /\ to[k] \in Nat
        /\ to[k] # NoSymbol => to[k] \in DOMAIN syms /\ syms[to[k]].rank = RankModule
        /\ \A m \in DOMAIN mods : mods[m].name = importLog[k].module => to[k] = mods[m].symbol
    BY <1>3, ModuleSymbolLemma
  <2>2. importLog[k].start \in Nat /\ importLog[k].end \in Nat
    BY <1>1 DEF ImportType
  <2> QED BY <2>1, <2>2 DEF Entry, RefType
<1>5. /\ refs \in Seq(RefType)
      /\ IsInjective(refs)
      /\ \A i \in DOMAIN refs : \E k \in 1 .. Len(importLog) :
            Adds(importLog, to, o, k) /\ refs[i] = Entry(importLog, to, k)
      /\ \A k \in 1 .. Len(importLog) :
            Adds(importLog, to, o, k) => \E i \in DOMAIN refs : refs[i] = Entry(importLog, to, k)
  <2>1. \A k \in 1 .. Len(importLog) : Entry(importLog, to, k) \in RefType
    BY <1>1, <1>4
  <2> QED BY <1>1, <1>2, <2>1, RefsAddedLemma
<1>6. ASSUME NEW i \in DOMAIN refs
      PROVE  importLog # <<>> /\ refs[i].to \in DOMAIN syms /\ syms[refs[i].to].rank = RankModule
  <2>1. PICK k \in DOMAIN importLog : Adds(importLog, to, o, k) /\ refs[i] = Entry(importLog, to, k)
    BY <1>1, <1>5
  <2>2. to[k] # NoSymbol
    BY <2>1 DEF Adds
  <2>3. importLog # <<>>
    BY <2>1
  <2> QED BY <1>4, <2>1, <2>2, <2>3
<1>7. ASSUME NEW k \in DOMAIN importLog, NEW m \in DOMAIN mods, importLog[k].from = o
      PROVE  ImportIn(refs, importLog[k], mods[m])
  <2> SUFFICES ASSUME mods[m].name = importLog[k].module, mods[m].symbol # NoSymbol
               PROVE  \E j \in DOMAIN refs :
                         refs[j] = [to |-> mods[m].symbol, start |-> importLog[k].start, end |-> importLog[k].end]
    BY DEF ImportIn
  <2>1. to[k] = mods[m].symbol
    BY <1>4, <1>7
  <2>2. Adds(importLog, to, o, k)
    BY <1>7, <2>1 DEF Adds
  <2>3. PICK j \in DOMAIN refs : refs[j] = Entry(importLog, to, k)
    BY <1>1, <1>5, <2>2
  <2> QED BY <2>1, <2>3 DEF Entry
<1> QED BY <1>5, <1>6, <1>7 DEF refs

(* createModuleSymbols and resolveModuleImports: the objects. *)
LEMMA ModuleObjectsMadeLemma ==
    ASSUME Stored, LogTypes, NEW order \in Orders(Pending)
    PROVE  LET m2 == ModulesMade(order)
               o2 == ModuleObjectsMade(order)
           IN  /\ IndexOK(m2, ModuleSymbolsMade(order), o2, declared, dirsDone)
               /\ DOMAIN o2 = DOMAIN objects
               /\ \A o \in DOMAIN objects :
                     /\ o2[o].path = objects[o].path /\ o2[o].sentinel = objects[o].sentinel
                     /\ o2[o].len = objects[o].len /\ o2[o].module = objects[o].module
                     /\ o2[o].refs = objects[o].refs \o ImportRefs(m2, o)
                     /\ o2[o].insts =
                           IF objects[o].module \in Pending
                           THEN Append(objects[o].insts, WholeFile(m2[objects[o].module].symbol, objects[o]))
                           ELSE objects[o].insts
<1> DEFINE m2 == ModulesMade(order)
           s2 == ModuleSymbolsMade(order)
           o2 == ModuleObjectsMade(order)
           Insts(o) == IF objects[o].module \in Pending
                       THEN Append(objects[o].insts, WholeFile(m2[objects[o].module].symbol, objects[o]))
                       ELSE objects[o].insts
           Refs(o) == objects[o].refs \o ImportRefs(m2, o)
<1>1. /\ IndexOK(m2, s2, objects, declared, dirsDone)
      /\ DOMAIN m2 = DOMAIN modules
      /\ \A m \in DOMAIN modules :
            /\ m2[m].symbol # NoSymbol
            /\ m \in Pending => m2[m].symbol \notin DOMAIN symbols
      /\ \A s \in DOMAIN s2 : s \notin DOMAIN symbols => s2[s].rank = RankModule
  BY ModulesMadeLemma
<1> HIDE DEF m2, s2
<1>2. /\ m2 \in Seq(ModuleType) /\ s2 \in Seq(SymbolType) /\ objects \in Seq(ObjectType)
      /\ ModulesOK(m2, s2) /\ ObjectsOK(symbols, objects, declared)
  BY <1>1 DEF Stored, IndexOK, IndexTypes
<1>3. \A m \in Pending : /\ m \in DOMAIN m2 /\ m2[m].symbol \in Nat /\ m2[m].symbol \in DOMAIN s2
                         /\ s2[m2[m].symbol].rank = RankModule
                         /\ m2[m].symbol \notin DOMAIN symbols
  <2> SUFFICES ASSUME NEW m \in Pending
               PROVE  /\ m \in DOMAIN m2 /\ m2[m].symbol \in Nat /\ m2[m].symbol \in DOMAIN s2
                      /\ s2[m2[m].symbol].rank = RankModule
                      /\ m2[m].symbol \notin DOMAIN symbols
    OBVIOUS
  <2>1. m \in DOMAIN modules
    BY DEF Pending
  <2>2. m2[m] \in ModuleType /\ ModuleSymbolOf(m2, s2, m)
    BY <1>1, <1>2, <2>1 DEF ModulesOK
  <2> QED BY <1>1, <2>1, <2>2 DEF ModuleType, ModuleSymbolOf
<1>4. ASSUME NEW o \in DOMAIN objects
      PROVE  /\ Insts(o) \in Seq(PlacedType) /\ Refs(o) \in Seq(RefType)
             /\ PlacedOnce(s2, objects[o].insts, Insts(o))
  <2>1. objects[o] \in ObjectType
    BY <1>2
  <2>2. objects[o].insts \in Seq(PlacedType) /\ objects[o].refs \in Seq(RefType) /\ objects[o].len \in Nat
    BY <2>1 DEF ObjectType
  <2>3. Refs(o) \in Seq(RefType)
    <3>1. ImportRefs(m2, o) \in Seq(RefType)
      BY <1>2, ImportRefsLemma
    <3> QED BY <2>2, <3>1
  <2>4. CASE objects[o].module \in Pending
    <3> DEFINE x == WholeFile(m2[objects[o].module].symbol, objects[o])
    <3>1. x \in PlacedType /\ x.symbol = m2[objects[o].module].symbol
      BY <1>3, <2>2, <2>4 DEF WholeFile, PlacedType
    <3>2. \A k \in DOMAIN objects[o].insts : objects[o].insts[k].symbol \in DOMAIN symbols
      BY <1>2 DEF ObjectsOK
    <3>3. Insts(o) = Append(objects[o].insts, x)
      BY <2>4
    <3> HIDE DEF x, Insts
    <3>4. Insts(o) \in Seq(PlacedType)
      BY <2>2, <3>1, <3>3
    <3>5. RankModule # RankOther
      BY DEF RankModule, RankOther
    <3>6. x.symbol \in DOMAIN s2 /\ s2[x.symbol].rank # RankOther /\ x.symbol \notin DOMAIN symbols
      BY <1>3, <2>4, <3>1, <3>5
    <3>7. PlacedOnce(s2, objects[o].insts, Insts(o))
      BY <3>1, <3>2, <3>3, <3>6 DEF PlacedOnce
    <3> QED BY <2>3, <3>4, <3>7
  <2>5. CASE objects[o].module \notin Pending
    BY <2>2, <2>3, <2>5 DEF PlacedOnce
  <2> QED BY <2>4, <2>5
<1>5. DOMAIN o2 = DOMAIN objects /\ \A o \in DOMAIN objects : o2[o] = WithReferences(WithInsts(objects[o], Insts(o)), Refs(o))
  <2>1. ASSUME NEW o \in DOMAIN objects
        PROVE  o2[o] = WithReferences(WithInsts(objects[o], Insts(o)), Refs(o))
    <3>1. o2[o] = [objects[o] EXCEPT !.insts = Insts(o), !.refs = Refs(o)]
      BY DEF ModuleObjectsMade, m2
    <3>2. objects[o] \in ObjectType
      BY <1>2
    <3> HIDE DEF o2, Insts, Refs
    <3> QED BY <3>1, <3>2 DEF WithReferences, WithInsts
  <2> QED BY <2>1 DEF ModuleObjectsMade
<1>6. ASSUME NEW o \in DOMAIN objects
      PROVE  /\ o2[o] \in ObjectType
             /\ o2[o].path = objects[o].path /\ o2[o].sentinel = objects[o].sentinel
             /\ o2[o].len = objects[o].len /\ o2[o].module = objects[o].module
             /\ o2[o].refs = Refs(o) /\ o2[o].insts = Insts(o)
  <2>1. objects[o] \in ObjectType /\ Insts(o) \in Seq(PlacedType) /\ Refs(o) \in Seq(RefType)
    BY <1>2, <1>4
  <2>2. o2[o] = WithReferences(WithInsts(objects[o], Insts(o)), Refs(o))
    BY <1>5
  <2> DEFINE a == Insts(o)
             b == Refs(o)
             p == WithInsts(objects[o], a)
             q == WithReferences(p, b)
  <2> HIDE DEF Insts, Refs, o2
  <2>3. /\ p \in ObjectType /\ p.insts = a
        /\ p.path = objects[o].path /\ p.sentinel = objects[o].sentinel
        /\ p.len = objects[o].len /\ p.module = objects[o].module
    <3> HIDE DEF a, p
    <3>1. a \in Seq(PlacedType) /\ p = WithInsts(objects[o], a)
      BY <2>1 DEF a, p
    <3> QED BY <2>1, <3>1, WithInstsLemma
  <2> HIDE DEF p
  <2>4. /\ q \in ObjectType /\ q.insts = p.insts /\ q.refs = b
        /\ q.path = p.path /\ q.sentinel = p.sentinel
        /\ q.len = p.len /\ q.module = p.module
    <3> HIDE DEF b, q
    <3>1. b \in Seq(RefType) /\ q = WithReferences(p, b)
      BY <2>1 DEF b, q
    <3> QED BY <2>3, <3>1, WithReferencesLemma
  <2>5. o2[o] = q
    BY <2>2 DEF p
  <2> HIDE DEF q
  <2> QED BY <2>3, <2>4, <2>5
<1>7. o2 \in Seq(ObjectType)
  <2>1. o2 \in [DOMAIN objects -> ObjectType]
    BY <1>6 DEF ModuleObjectsMade
  <2> QED BY <1>2, <2>1, MapLemma
<1> HIDE DEF o2, Insts, Refs
<1>8. IndexOK(m2, s2, o2, declared, dirsDone)
  BY <1>1, <1>4, <1>5, <1>6, <1>7, ContainersAdded
<1> QED BY <1>5, <1>6, <1>8 DEF m2, s2, o2, Insts, Refs

-----------------------------------------------------------------------------
(* The pass over the directories *)

(* What createDirectorySymbols makes for a directory.                      *)
DirectorySymbol(d)           == [name |-> d, scope |-> Unspecified, rank |-> RankDirectory]
SymbolOf(syms, order, d)     == Len(syms) + PositionIn(order, d)
ToDirectory(syms, order, d)  == [to |-> SymbolOf(syms, order, d), start |-> 0, end |-> 0]
Below(order, d)              == {c \in Range(order) : c # d /\ ParentDir[c] = d}
RefsToChildren(syms, order, d) ==
    [k \in DOMAIN SetToSeq(Below(order, d)) |-> ToDirectory(syms, order, SetToSeq(Below(order, d))[k])]
SentinelOf(syms, order, d) ==
    [path |-> d, sentinel |-> TRUE, hash |-> d, len |-> 0, module |-> NoModule,
     insts |-> <<[symbol |-> SymbolOf(syms, order, d), start |-> 0, end |-> 0]>>,
     refs |-> RefsToChildren(syms, order, d)]
InDirectory(syms, order, r) ==
    IF r.sentinel THEN r
    ELSE WithInsts(r, Append(r.insts, WholeFile(SymbolOf(syms, order, ParentDir[r.path]), r)))

(* All directories above the files are made, and with each the one above.  *)
LEMMA DirSetLemma ==
    /\ DirSet \subseteq Dirs /\ IsFiniteSet(DirSet)
    /\ \A o \in FileIds : objects[o].path \in DOMAIN ParentDir => ParentDir[objects[o].path] \in DirSet
    /\ \A d \in DirSet : d \in DOMAIN ParentDir /\ ParentDir[d] \in DirSet
<1>1. DirSet \subseteq Dirs
  BY DEF DirSet
<1>2. IsFiniteSet(DirSet)
  BY <1>1, InputAssumption, FS_Subset
<1>3. ASSUME NEW o \in FileIds, objects[o].path \in DOMAIN ParentDir
      PROVE  ParentDir[objects[o].path] \in DirSet
  <2>1. ParentDir[objects[o].path] \in Dirs
    BY <1>3, DirAssumption
  <2>2. \A S \in SUBSET Dirs : ClosedUpwards(S) => ParentDir[objects[o].path] \in S
    BY <1>3 DEF ClosedUpwards
  <2> QED BY <2>1, <2>2 DEF DirSet
<1>4. ASSUME NEW d \in DirSet PROVE d \in DOMAIN ParentDir /\ ParentDir[d] \in DirSet
  <2>1. d \in DOMAIN ParentDir /\ ParentDir[d] \in Dirs
    BY <1>1, DirAssumption
  <2>2. ASSUME NEW S \in SUBSET Dirs, ClosedUpwards(S) PROVE ParentDir[d] \in S
    <3>1. d \in S
      BY <2>2 DEF DirSet
    <3> QED BY <2>2, <3>1 DEF ClosedUpwards
  <2> QED BY <2>1, <2>2 DEF DirSet
<1> QED BY <1>1, <1>2, <1>3, <1>4

(* An order of the directories. *)
LEMMA DirOrder ==
    ASSUME NEW order \in Orders(DirSet)
    PROVE  /\ order \in Seq(DirSet) /\ DOMAIN order = 1 .. Len(order) /\ Range(order) = DirSet
           /\ \A k \in DOMAIN order : order[k] \in DirSet
           /\ \A i, j \in DOMAIN order : order[i] = order[j] => i = j
           /\ \A d \in DirSet : PositionIn(order, d) \in DOMAIN order /\ order[PositionIn(order, d)] = d
           /\ \A k \in DOMAIN order : PositionIn(order, order[k]) = k
<1>1. order \in Seq(DirSet) /\ Enumerates(order, DirSet)
  BY DirSetLemma, ListingLemma DEF Orders
<1>2. DOMAIN order = 1 .. Len(order)
  BY <1>1
<1>3. /\ \A k \in DOMAIN order : order[k] \in DirSet
      /\ \A i, j \in DOMAIN order : order[i] = order[j] => i = j
      /\ \A d \in DirSet : \E k \in DOMAIN order : order[k] = d
  BY <1>1, <1>2 DEF Enumerates
<1>4. \A d \in DirSet : PositionIn(order, d) \in DOMAIN order /\ order[PositionIn(order, d)] = d
  BY <1>3 DEF PositionIn
<1>5. Range(order) = DirSet
  BY <1>3 DEF Range
<1> QED BY <1>1, <1>2, <1>3, <1>4, <1>5

(* The references of a sentinel lead to the directories right below it.    *)
LEMMA ChildrenLemma ==
    ASSUME NEW order \in Orders(DirSet), NEW syms \in Seq(SymbolType), NEW d
    PROVE  /\ RefsToChildren(syms, order, d) \in Seq(RefType)
           /\ IsInjective(RefsToChildren(syms, order, d))
           /\ \A k \in DOMAIN RefsToChildren(syms, order, d) : \E c \in Below(order, d) :
                 RefsToChildren(syms, order, d)[k] = ToDirectory(syms, order, c)
           /\ \A c \in Below(order, d) : \E k \in DOMAIN RefsToChildren(syms, order, d) :
                 RefsToChildren(syms, order, d)[k] = ToDirectory(syms, order, c)
<1> DEFINE B == Below(order, d)
           cs == SetToSeq(B)
           refs == RefsToChildren(syms, order, d)
           to(c) == ToDirectory(syms, order, c)
<1>1. B \subseteq DirSet /\ IsFiniteSet(B)
  <2>1. B \subseteq DirSet
    BY DirOrder DEF Below
  <2> QED BY <2>1, DirSetLemma, FS_Subset
<1>2. cs \in Seq(B) /\ Enumerates(cs, B)
  <2> HIDE DEF B
  <2> QED BY <1>1, ListingLemma
<1>3. /\ DOMAIN cs = 1 .. Len(cs)
      /\ \A k \in DOMAIN cs : cs[k] \in B
      /\ \A i, j \in DOMAIN cs : cs[i] = cs[j] => i = j
      /\ \A c \in B : \E k \in DOMAIN cs : cs[k] = c
  <2>1. DOMAIN cs = 1 .. Len(cs)
    BY <1>2
  <2> HIDE DEF cs
  <2> QED BY <1>2, <2>1 DEF Enumerates
<1>4. DOMAIN refs = DOMAIN cs /\ \A k \in DOMAIN cs : refs[k] = to(cs[k])
  BY DEF RefsToChildren
<1>5. ASSUME NEW c \in B
      PROVE  /\ to(c) \in RefType /\ to(c).to = Len(syms) + PositionIn(order, c)
             /\ PositionIn(order, c) \in Nat /\ order[PositionIn(order, c)] = c
  <2>1. PositionIn(order, c) \in DOMAIN order /\ order[PositionIn(order, c)] = c /\ DOMAIN order = 1 .. Len(order)
    BY <1>1, DirOrder
  <2>2. PositionIn(order, c) \in Nat /\ Len(syms) \in Nat
    BY <2>1
  <2>3. Len(syms) + PositionIn(order, c) \in Nat
    BY <2>2
  <2> QED BY <2>1, <2>2, <2>3 DEF ToDirectory, SymbolOf, RefType
<1>6. refs \in Seq(RefType)
  <2>1. refs \in [DOMAIN cs -> RefType]
    <3>1. \A k \in DOMAIN cs : to(cs[k]) \in RefType
      BY <1>3, <1>5
    <3> HIDE DEF to
    <3>2. refs = [k \in DOMAIN cs |-> to(cs[k])]
      BY DEF RefsToChildren, to
    <3> HIDE DEF refs, cs
    <3> QED BY <3>1, <3>2
  <2> HIDE DEF cs, B, refs
  <2> QED BY <1>2, <2>1, MapLemma
<1> HIDE DEF cs, refs, B
<1>7. IsInjective(refs)
  <2> SUFFICES ASSUME NEW i \in DOMAIN refs, NEW j \in DOMAIN refs, refs[i] = refs[j]
               PROVE  i = j
    BY DEF IsInjective
  <2> DEFINE a == PositionIn(order, cs[i])
             b == PositionIn(order, cs[j])
  <2>1. cs[i] \in B /\ cs[j] \in B /\ to(cs[i]) = to(cs[j])
    BY <1>3, <1>4
  <2>2. a \in Nat /\ b \in Nat /\ order[a] = cs[i] /\ order[b] = cs[j] /\ Len(syms) + a = Len(syms) + b
    BY <1>5, <2>1
  <2> HIDE DEF a, b
  <2>3. a = b
    BY <2>2
  <2> QED BY <1>3, <1>4, <2>2, <2>3
<1> HIDE DEF to
<1>8. \A k \in DOMAIN refs : \E c \in B : refs[k] = to(c)
  BY <1>3, <1>4
<1>9. \A c \in B : \E k \in DOMAIN refs : refs[k] = to(c)
  BY <1>3, <1>4
<1> QED BY <1>6, <1>7, <1>8, <1>9 DEF B, refs, to

(* The symbols of the directories.                                         *)
LEMMA DirectorySymbolsLemma ==
    ASSUME NEW mods, NEW syms, NEW objs, NEW decl, IndexOK(mods, syms, objs, decl, FALSE),
           NEW order \in Orders(DirSet)
    PROVE  LET s3 == DirectorySymbolsMade(syms, order)
           IN  /\ IndexOK(mods, s3, objs, decl, TRUE)
               /\ \A s \in DOMAIN syms : s \in DOMAIN s3 /\ s3[s] = syms[s]
               /\ \A d \in DirSet :
                     /\ SymbolOf(syms, order, d) \in DOMAIN s3
                     /\ SymbolOf(syms, order, d) \notin DOMAIN syms
                     /\ s3[SymbolOf(syms, order, d)] = DirectorySymbol(d)
               /\ \A s \in DOMAIN s3 : s \notin DOMAIN syms => \E d \in DirSet : s = SymbolOf(syms, order, d)
<1> DEFINE more == [k \in DOMAIN order |-> DirectorySymbol(order[k])]
           s3 == syms \o more
           n == Len(syms)
           at(d) == PositionIn(order, d)
<1>1. /\ syms \in Seq(SymbolType) /\ mods \in Seq(ModuleType)
      /\ ModulesOK(mods, syms) /\ SymbolsOK(mods, syms, objs, FALSE)
  BY DEF IndexOK, IndexTypes
<1>2. /\ order \in Seq(DirSet) /\ DOMAIN order = 1 .. Len(order)
      /\ \A k \in DOMAIN order : order[k] \in DirSet
      /\ \A i, j \in DOMAIN order : order[i] = order[j] => i = j
      /\ \A d \in DirSet : at(d) \in DOMAIN order /\ order[at(d)] = d
      /\ \A k \in DOMAIN order : at(order[k]) = k
  BY DirOrder
<1>3. \A d \in DirSet : /\ DirectorySymbol(d) \in SymbolType
                        /\ DirectorySymbol(d).rank = RankDirectory /\ DirectorySymbol(d).name = d
  <2>1. RankDirectory \in RankModule .. RankOther
    BY DEF RankModule, RankOther, RankDirectory
  <2>2. DirSet \subseteq Dirs
    BY DirSetLemma
  <2> QED BY <2>1, <2>2 DEF DirectorySymbol, SymbolType, Names, Scopes
<1>4. /\ more \in Seq(SymbolType) /\ DOMAIN more = DOMAIN order
      /\ \A k \in DOMAIN order : more[k] = DirectorySymbol(order[k])
  <2>1. more \in [DOMAIN order -> SymbolType]
    BY <1>2, <1>3
  <2> QED BY <1>2, <2>1, MapLemma
<1>5. s3 = DirectorySymbolsMade(syms, order)
  BY DEF DirectorySymbolsMade, DirectorySymbol
<1>6. \A d : SymbolOf(syms, order, d) = n + at(d)
  BY DEF SymbolOf
<1> HIDE DEF more, at
<1>7. /\ s3 \in Seq(SymbolType)
      /\ \A i \in DOMAIN syms : i \in DOMAIN s3 /\ s3[i] = syms[i]
      /\ \A j \in DOMAIN more : n + j \in DOMAIN s3 /\ n + j \notin DOMAIN syms /\ s3[n + j] = more[j]
      /\ \A i \in DOMAIN s3 : i \in DOMAIN syms \/ \E j \in DOMAIN more : i = n + j
  BY <1>1, <1>4, ConcatAt
<1>8. IsInjective(more)
  BY <1>2, <1>3, <1>4 DEF IsInjective
<1>9. ASSUME NEW i \in DOMAIN syms, NEW j \in DOMAIN more PROVE syms[i] # more[j]
  <2>1. more[j].rank = RankDirectory
    BY <1>2, <1>3, <1>4
  <2>2. syms[i].rank # RankDirectory
    BY <1>1 DEF SymbolsOK
  <2> QED BY <2>1, <2>2
<1>10. ModulesOK(mods, s3)
  <2> HIDE DEF s3
  <2> QED BY <1>1, <1>7 DEF ModulesOK, ModuleSymbolOf
<1>11. \A j \in DOMAIN more : more[j].rank = RankDirectory /\ TRUE
  BY <1>2, <1>3, <1>4
<1>12. IndexOK(mods, s3, objs, decl, TRUE)
  <2>1. \A m \in DOMAIN mods : m \in DOMAIN mods /\ (mods[m].symbol # NoSymbol => mods[m].symbol = mods[m].symbol)
    OBVIOUS
  <2> QED BY <1>1, <1>4, <1>8, <1>9, <1>10, <1>11, <2>1, SymbolsAppended
<1> HIDE DEF s3, n
<1>13. ASSUME NEW d \in DirSet
       PROVE  /\ SymbolOf(syms, order, d) \in DOMAIN s3
              /\ SymbolOf(syms, order, d) \notin DOMAIN syms
              /\ s3[SymbolOf(syms, order, d)] = DirectorySymbol(d)
  BY <1>2, <1>4, <1>6, <1>7
<1>14. ASSUME NEW s \in DOMAIN s3, s \notin DOMAIN syms
       PROVE  \E d \in DirSet : s = SymbolOf(syms, order, d)
  <2>1. PICK j \in DOMAIN more : s = n + j
    BY <1>7, <1>14
  <2>2. order[j] \in DirSet /\ j = at(order[j])
    BY <1>2, <1>4
  <2> QED BY <1>6, <2>1, <2>2
<1>15. \A s \in DOMAIN syms : s \in DOMAIN s3 /\ s3[s] = syms[s]
  BY <1>7
<1> QED BY <1>5, <1>12, <1>13, <1>14, <1>15, Zenon

(* The objects of the files, with their directories, and of the            *)
(* directories.                                                            *)
DirectoriesIn(syms, objs, order, o3) ==
    /\ \A o \in DOMAIN objs : o \in DOMAIN o3 /\ o3[o] = InDirectory(syms, order, objs[o])
    /\ \A d \in DirSet : \E o \in DOMAIN o3 \ DOMAIN objs : o3[o] = SentinelOf(syms, order, d)
    /\ \A o \in DOMAIN o3 \ DOMAIN objs :
          \E d \in DirSet : /\ o3[o] = SentinelOf(syms, order, d)
                            /\ o = Len(objs) + PositionIn(order, d)

(* createDirectorySymbols: the files get an instance of their directory,   *)
(* and every directory becomes a sentinel object.                          *)
LEMMA DirectoryObjectsLemma ==
    ASSUME NEW mods, NEW syms, NEW objs, NEW decl, IndexOK(mods, syms, objs, decl, FALSE),
           DOMAIN objs = DOMAIN objects,
           \A o \in DOMAIN objs : objs[o].path = objects[o].path /\ objs[o].sentinel = objects[o].sentinel,
           NEW order \in Orders(DirSet)
    PROVE  /\ IndexOK(mods, DirectorySymbolsMade(syms, order), DirectoryObjectsMade(syms, objs, order), decl, TRUE)
           /\ DirectoriesIn(syms, objs, order, DirectoryObjectsMade(syms, objs, order))
<1> DEFINE o3 == DirectoryObjectsMade(syms, objs, order)
           s3 == DirectorySymbolsMade(syms, order)
           files == [o \in DOMAIN objs |-> InDirectory(syms, order, objs[o])]
           more == [k \in DOMAIN order |-> SentinelOf(syms, order, order[k])]
           sym(d) == SymbolOf(syms, order, d)
<1>1. o3 = files \o more
  BY DEF DirectoryObjectsMade, InDirectory, WithInsts, SentinelOf, RefsToChildren, Below, ToDirectory,
         SymbolOf
<1>2. /\ IndexOK(mods, s3, objs, decl, TRUE)
      /\ \A s \in DOMAIN syms : s \in DOMAIN s3 /\ s3[s] = syms[s]
      /\ \A d \in DirSet : sym(d) \in DOMAIN s3 /\ sym(d) \notin DOMAIN syms /\ s3[sym(d)] = DirectorySymbol(d)
  <2>1. IndexOK(mods, s3, objs, decl, TRUE)
    BY DirectorySymbolsLemma
  <2>2. \A s \in DOMAIN syms : s \in DOMAIN s3 /\ s3[s] = syms[s]
    BY DirectorySymbolsLemma
  <2>3. ASSUME NEW d \in DirSet
        PROVE  sym(d) \in DOMAIN s3 /\ sym(d) \notin DOMAIN syms /\ s3[sym(d)] = DirectorySymbol(d)
    <3>1. \A c \in DirSet :
              /\ SymbolOf(syms, order, c) \in DOMAIN DirectorySymbolsMade(syms, order)
              /\ SymbolOf(syms, order, c) \notin DOMAIN syms
              /\ DirectorySymbolsMade(syms, order)[SymbolOf(syms, order, c)] = DirectorySymbol(c)
      BY DirectorySymbolsLemma
    <3> QED BY <3>1
  <2> HIDE DEF s3, sym
  <2> QED BY <2>1, <2>2, <2>3
<1> HIDE DEF s3, o3, sym
<1>3. /\ objs \in Seq(ObjectType) /\ syms \in Seq(SymbolType) /\ s3 \in Seq(SymbolType)
      /\ ObjectsOK(syms, objs, decl)
  BY <1>2 DEF IndexOK, IndexTypes
<1>4. /\ order \in Seq(DirSet) /\ DOMAIN order = 1 .. Len(order)
      /\ \A k \in DOMAIN order : order[k] \in DirSet /\ PositionIn(order, order[k]) = k
      /\ \A d \in DirSet : PositionIn(order, d) \in DOMAIN order /\ order[PositionIn(order, d)] = d
  BY DirOrder
<1>5. \A d \in DirSet : sym(d) \in Nat /\ s3[sym(d)].rank = RankDirectory
  <2>1. \A s \in DOMAIN s3 : s \in Nat
    BY <1>3
  <2>2. \A d \in DirSet : DirectorySymbol(d).rank = RankDirectory
    BY DEF DirectorySymbol
  <2> QED BY <1>2, <2>1, <2>2
<1>6. RankDirectory # RankOther
  BY DEF RankDirectory, RankOther
<1>7. ASSUME NEW o \in DOMAIN objs
      PROVE  /\ files[o] \in ObjectType
             /\ files[o].path = objs[o].path /\ files[o].sentinel = objs[o].sentinel
             /\ PlacedOnce(s3, objs[o].insts, files[o].insts)
  <2>1. objs[o] \in ObjectType
    BY <1>3
  <2>2. CASE objs[o].sentinel
    BY <2>1, <2>2 DEF InDirectory, PlacedOnce
  <2>3. CASE ~objs[o].sentinel
    <3> DEFINE d == ParentDir[objs[o].path]
               x == WholeFile(sym(d), objs[o])
               insts == Append(objs[o].insts, x)
    <3>1. objs[o].insts \in Seq(PlacedType) /\ objs[o].len \in Nat /\ objs[o].path \in DOMAIN ParentDir
      BY <2>1 DEF ObjectType
    <3>2. d \in DirSet
      <4>1. o \in FileIds /\ objects[o].path = objs[o].path
        BY <2>3 DEF FileIds
      <4> QED BY <3>1, <4>1, DirSetLemma
    <3> HIDE DEF d
    <3>3. x \in PlacedType /\ x.symbol = sym(d)
      BY <1>5, <3>1, <3>2 DEF WholeFile, PlacedType
    <3>4. files[o] = WithInsts(objs[o], insts)
      BY <2>3 DEF InDirectory, sym, d
    <3> HIDE DEF x, files
    <3>5. insts \in Seq(PlacedType)
      BY <3>1, <3>3
    <3>6. \A k \in DOMAIN objs[o].insts : objs[o].insts[k].symbol # x.symbol
      BY <1>2, <1>3, <3>2, <3>3 DEF ObjectsOK
    <3>7. PlacedOnce(s3, objs[o].insts, insts)
      <4>1. x.symbol \in DOMAIN s3 /\ s3[x.symbol].rank # RankOther
        BY <1>2, <1>5, <1>6, <3>2, <3>3
      <4> QED BY <3>3, <3>6, <4>1 DEF PlacedOnce
    <3> HIDE DEF insts
    <3>8. files[o] \in ObjectType /\ files[o].insts = insts
          /\ files[o].path = objs[o].path /\ files[o].sentinel = objs[o].sentinel
      BY <2>1, <3>4, <3>5, WithInstsLemma
    <3> QED BY <3>7, <3>8
  <2> QED BY <2>2, <2>3
<1>8. files \in Seq(ObjectType) /\ DOMAIN files = DOMAIN objs /\ Len(files) = Len(objs)
  <2>1. files \in [DOMAIN objs -> ObjectType]
    <3>1. \A o \in DOMAIN objs : InDirectory(syms, order, objs[o]) \in ObjectType
      BY <1>7
    <3> QED BY <3>1
  <2> HIDE DEF files
  <2>2. files \in Seq(ObjectType) /\ Len(files) = Len(objs)
    BY <1>3, <2>1, MapLemma
  <2> QED BY <2>1, <2>2
<1>9. \A o \in DOMAIN objs : files[o] = InDirectory(syms, order, objs[o])
  OBVIOUS
<1>10. /\ DOMAIN more = DOMAIN order
      /\ \A k \in DOMAIN order : more[k] = SentinelOf(syms, order, order[k])
  OBVIOUS
<1>11. ASSUME NEW d \in DirSet
       PROVE  /\ SentinelOf(syms, order, d) \in ObjectType
              /\ SentinelOf(syms, order, d).sentinel
              /\ SentinelOf(syms, order, d).insts = <<[symbol |-> sym(d), start |-> 0, end |-> 0]>>
  <2> DEFINE refs == RefsToChildren(syms, order, d)
             insts == <<[symbol |-> sym(d), start |-> 0, end |-> 0]>>
  <2>1. refs \in Seq(RefType)
    BY <1>3, ChildrenLemma
  <2>2. insts \in Seq(PlacedType)
    BY <1>5 DEF PlacedType
  <2>3. d \in DOMAIN ParentDir /\ d \in Hashes
    BY DirSetLemma DEF Hashes
  <2> HIDE DEF refs, insts
  <2>4. SentinelOf(syms, order, d) =
            [path |-> d, sentinel |-> TRUE, hash |-> d, len |-> 0, module |-> NoModule,
             insts |-> insts, refs |-> refs]
    BY DEF SentinelOf, refs, insts, sym
  <2>5. SentinelOf(syms, order, d) \in ObjectType
    BY <2>1, <2>2, <2>3, <2>4 DEF ObjectType, NoModule
  <2> QED BY <2>4, <2>5 DEF insts
<1>12. more \in Seq(ObjectType)
  <2>1. more \in [DOMAIN order -> ObjectType]
    <3>1. \A k \in DOMAIN order : SentinelOf(syms, order, order[k]) \in ObjectType
      BY <1>4, <1>11
    <3> QED BY <3>1
  <2> HIDE DEF more
  <2> QED BY <1>4, <2>1, MapLemma
<1> HIDE DEF files, more
<1>13. IndexOK(mods, s3, files, decl, TRUE)
  BY <1>2, <1>7, <1>8, ContainersAdded
<1>14. \A j \in DOMAIN more :
               /\ more[j].sentinel
               /\ \E s \in DOMAIN s3 :
                     /\ s3[s].rank # RankOther
                     /\ more[j].insts = <<[symbol |-> s, start |-> 0, end |-> 0]>>
  <2> SUFFICES ASSUME NEW j \in DOMAIN more
               PROVE  /\ more[j].sentinel
                      /\ \E s \in DOMAIN s3 :
                            /\ s3[s].rank # RankOther
                            /\ more[j].insts = <<[symbol |-> s, start |-> 0, end |-> 0]>>
    OBVIOUS
  <2>1. more[j] = SentinelOf(syms, order, order[j]) /\ order[j] \in DirSet
    BY <1>4, <1>10
  <2>2. sym(order[j]) \in DOMAIN s3 /\ s3[sym(order[j])].rank # RankOther
    BY <1>2, <1>5, <1>6, <2>1
  <2> QED BY <1>11, <2>1, <2>2
<1>15. IndexOK(mods, s3, o3, decl, TRUE)
  BY <1>1, <1>12, <1>13, <1>14, SentinelsAdded
<1> DEFINE n == Len(objs)
<1>16. /\ \A i \in DOMAIN objs : i \in DOMAIN o3 /\ o3[i] = files[i]
       /\ \A j \in DOMAIN more : n + j \in DOMAIN o3 /\ n + j \notin DOMAIN objs /\ o3[n + j] = more[j]
       /\ \A i \in DOMAIN o3 : i \in DOMAIN objs \/ \E j \in DOMAIN more : i = n + j
  <2>1. /\ \A i \in DOMAIN files : i \in DOMAIN (files \o more) /\ (files \o more)[i] = files[i]
        /\ \A j \in DOMAIN more : /\ Len(files) + j \in DOMAIN (files \o more)
                                  /\ Len(files) + j \notin DOMAIN files
                                  /\ (files \o more)[Len(files) + j] = more[j]
        /\ \A i \in DOMAIN (files \o more) : i \in DOMAIN files \/ \E j \in DOMAIN more : i = Len(files) + j
    BY <1>8, <1>12, ConcatAt
  <2> QED BY <1>1, <1>8, <2>1
<1> HIDE DEF n
<1>17. \A o \in DOMAIN objs : o \in DOMAIN o3 /\ o3[o] = InDirectory(syms, order, objs[o])
  BY <1>9, <1>16
<1>18. ASSUME NEW d \in DirSet
       PROVE  \E o \in DOMAIN o3 \ DOMAIN objs : o3[o] = SentinelOf(syms, order, d)
  <2> DEFINE j == PositionIn(order, d)
  <2>1. j \in DOMAIN more /\ more[j] = SentinelOf(syms, order, d)
    BY <1>4, <1>10
  <2> QED BY <1>16, <2>1
<1>19. ASSUME NEW o \in DOMAIN o3 \ DOMAIN objs
       PROVE  \E d \in DirSet : o3[o] = SentinelOf(syms, order, d) /\ o = n + PositionIn(order, d)
  <2>1. PICK j \in DOMAIN more : o = n + j
    BY <1>16
  <2>2. o3[o] = SentinelOf(syms, order, order[j]) /\ order[j] \in DirSet /\ PositionIn(order, order[j]) = j
    BY <1>4, <1>10, <1>16, <2>1
  <2> QED BY <2>1, <2>2
<1> QED BY <1>15, <1>17, <1>18, <1>19, Zenon DEF o3, s3, n, DirectoriesIn

-----------------------------------------------------------------------------
(* From one state to the next *)

(* What every operation keeps: the stored sequences fit together, stated    *)
(* parents are instances of the same file, the logs hold what the calls    *)
(* were given, and a name of a file stands for a symbol declared in it.    *)
IndexInv == Stored /\ StatedParentsAreReal /\ LogTypes /\ NamesPoint

(* Symbols, objects and declared instances are added to, never changed but *)
(* for the instances and the references of an object.                      *)
Grows ==
    /\ \A s \in DOMAIN symbols : s \in DOMAIN symbols' /\ symbols'[s] = symbols[s]
    /\ \A i \in DOMAIN declared : i \in DOMAIN declared' /\ declared'[i] = declared[i]
    /\ \A o \in DOMAIN objects :
          /\ o \in DOMAIN objects'
          /\ objects'[o].path = objects[o].path /\ objects'[o].sentinel = objects[o].sentinel
          /\ objects'[o].len = objects[o].len /\ objects'[o].module = objects[o].module

(* The names of a file stand for what they stood for.                      *)
LEMMA NamesKept ==
    ASSUME Stored, NamesPoint, Grows, byFileAndName' = byFileAndName
    PROVE  NamesPoint'
<1> SUFFICES ASSUME NEW key \in DOMAIN byFileAndName
             PROVE  /\ byFileAndName[key] \in DOMAIN symbols'
                    /\ symbols'[byFileAndName[key]].rank = RankOther
                    /\ symbols'[byFileAndName[key]].name = key[2]
                    /\ \E i \in DOMAIN declared' :
                          /\ declared'[i].symbol = byFileAndName[key]
                          /\ objects'[declared'[i].object].path = key[1]
  BY DEF NamesPoint
<1>1. /\ byFileAndName[key] \in DOMAIN symbols
      /\ symbols[byFileAndName[key]].rank = RankOther
      /\ symbols[byFileAndName[key]].name = key[2]
  BY DEF NamesPoint
<1>2. PICK i \in DOMAIN declared : /\ declared[i].symbol = byFileAndName[key]
                                   /\ objects[declared[i].object].path = key[1]
  BY DEF NamesPoint
<1>3. declared[i].object \in DOMAIN objects
  BY DEF Stored, IndexOK, DeclaredOK, SlotHolds
<1>4. i \in DOMAIN declared' /\ declared'[i] = declared[i]
      /\ objects'[declared[i].object].path = objects[declared[i].object].path
  BY <1>2, <1>3 DEF Grows
<1>5. /\ byFileAndName[key] \in DOMAIN symbols'
      /\ symbols'[byFileAndName[key]] = symbols[byFileAndName[key]]
  BY <1>1 DEF Grows
<1> QED BY <1>1, <1>2, <1>4, <1>5

(* The stated parents stay what they are when no instance is declared.     *)
LEMMA StatedKept ==
    ASSUME StatedParentsAreReal, declared' = declared, stated' = stated
    PROVE  StatedParentsAreReal'
  BY DEF StatedParentsAreReal

-----------------------------------------------------------------------------
(* Every call keeps the index what it must be. *)

(* The empty index.                                                        *)
LEMMA InitIndex == Init => IndexInv
<1> SUFFICES ASSUME Init PROVE IndexInv
  OBVIOUS
<1> USE DEF Init
<1>1. IndexTypes(modules, symbols, objects, declared)
  BY DEF IndexTypes
<1>2. /\ ModulesOK(modules, symbols) /\ SymbolsOK(modules, symbols, objects, dirsDone)
      /\ ObjectsOK(symbols, objects, declared) /\ DeclaredOK(symbols, objects, declared)
  BY DEF ModulesOK, SymbolsOK, ObjectsOK, DeclaredOK, IsInjective
<1>3. StatedParentsAreReal /\ LogTypes /\ NamesPoint
  BY DEF StatedParentsAreReal, LogTypes, NamesPoint
<1> QED BY <1>1, <1>2, <1>3 DEF IndexInv, Stored, IndexOK

(* AddModule appends a module that has no symbol yet.                      *)
LEMMA AddModuleStep ==
    ASSUME IndexInv, NEW name \in ModuleNames, AddModule(name)
    PROVE  IndexInv' /\ Grows
<1>1. Stored'
  <2>1. IndexOK(Append(modules, [name |-> name, symbol |-> NoSymbol]), symbols, objects, declared, dirsDone)
    BY ModuleAdded DEF IndexInv, Stored, AddModule
  <2> QED BY <2>1 DEF Stored, AddModule
<1>2. Grows
  BY DEF Grows, AddModule
<1>3. NamesPoint'
  BY <1>2, NamesKept DEF IndexInv, AddModule
<1> QED BY <1>1, <1>2, <1>3, StatedKept DEF IndexInv, AddModule, LogTypes

(* AddFile appends an object and its FILE symbol, which no other file has. *)
LEMMA AddFileStep ==
    ASSUME IndexInv, NEW f \in Files, NEW m \in DOMAIN modules \cup {NoModule}, AddFile(m, f)
    PROVE  IndexInv' /\ Grows
<1> DEFINE insts == <<[symbol |-> Len(symbols) + 1, start |-> 0, end |-> f.len]>>
           x == [path |-> f.path, sentinel |-> FALSE, hash |-> f.hash, len |-> f.len, module |-> m,
                 insts |-> insts, refs |-> <<>>]
           s == [name |-> f.path, scope |-> Unspecified, rank |-> RankFile]
<1>1. /\ modules \in Seq(ModuleType) /\ symbols \in Seq(SymbolType) /\ objects \in Seq(ObjectType)
  BY DEF IndexInv, Stored, IndexOK, IndexTypes
<1>2. f.path \in DOMAIN ParentDir /\ f.len \in Nat
  BY InputAssumption
<1>3. insts \in Seq(PlacedType)
  BY <1>1, <1>2 DEF PlacedType
<1>4. m \in Nat /\ f.hash \in Hashes /\ f.path \in Names
  BY <1>1 DEF NoModule, Hashes, Names
<1>5. x \in ObjectType
  <2>1. <<>> \in Seq(RefType)
    OBVIOUS
  <2> HIDE DEF insts
  <2> QED BY <1>2, <1>3, <1>4, <2>1 DEF ObjectType
<1>6. x.path = f.path /\ ~x.sentinel /\ x.len = f.len /\ x.insts = insts
  OBVIOUS
<1>7. symbols' = Append(symbols, s) /\ objects' = Append(objects, x)
      /\ UNCHANGED <<modules, byFileAndName, declared, stated, refLog, importLog, dirsDone, tree>>
  BY DEF AddFile
<1>8. \A o \in DOMAIN objects : ~objects[o].sentinel => objects[o].path # x.path
  BY <1>6 DEF AddFile, FileId, FileIds
<1>9. x.insts = <<[symbol |-> Len(symbols) + 1, start |-> 0, end |-> x.len]>>
  BY <1>6
<1>10. s = [name |-> x.path, scope |-> Unspecified, rank |-> RankFile] /\ s \in SymbolType
  <2>1. RankFile \in RankModule .. RankOther
    BY DEF RankFile, RankModule, RankOther
  <2> QED BY <1>4, <2>1 DEF SymbolType, Scopes
<1> HIDE DEF x, s, insts
<1>11. Stored'
  <2>1. IndexOK(modules, symbols, objects, declared, dirsDone)
    BY DEF IndexInv, Stored
  <2>2. ~x.sentinel /\ x.path \in Names
    BY <1>4, <1>6
  <2>3. IndexOK(modules, Append(symbols, [name |-> x.path, scope |-> Unspecified, rank |-> RankFile]),
                Append(objects, x), declared, dirsDone)
    BY <1>5, <1>8, <1>9, <2>1, <2>2, FileAdded, Zenon
  <2>4. IndexOK(modules, Append(symbols, s), Append(objects, x), declared, dirsDone)
    BY <1>10, <2>3
  <2> QED BY <1>7, <2>4 DEF Stored
<1>12. Grows
  <2>1. \A i \in DOMAIN symbols : i \in DOMAIN symbols' /\ symbols'[i] = symbols[i]
    BY <1>1, <1>7, <1>10, AppendAt
  <2>2. \A i \in DOMAIN objects : i \in DOMAIN objects' /\ objects'[i] = objects[i]
    BY <1>1, <1>5, <1>7, AppendAt
  <2> QED BY <1>7, <2>1, <2>2 DEF Grows
<1>13. NamesPoint'
  BY <1>7, <1>12, NamesKept DEF IndexInv
<1> QED BY <1>7, <1>11, <1>12, <1>13, StatedKept DEF IndexInv, LogTypes

(* AddReference appends to a log.                                          *)
LEMMA AddReferenceStep ==
    ASSUME IndexInv, NEW r \in References, NEW o \in FileId(r.from), AddReference(o, r)
    PROVE  IndexInv' /\ Grows
<1> DEFINE x == [from |-> o, to |-> r.to, name |-> r.name, start |-> r.start, end |-> r.end]
<1>1. x \in UseType
  <2>1. o \in Nat
    BY DEF FileId, FileIds, IndexInv, Stored, IndexOK, IndexTypes
  <2>2. r.start \in Nat /\ r.end \in Nat
    BY InputAssumption
  <2> QED BY <2>1, <2>2 DEF UseType
<1>2. refLog' = Append(refLog, x)
  BY DEF AddReference
<1> HIDE DEF x
<1>3. LogTypes'
  BY <1>1, <1>2 DEF IndexInv, LogTypes, AddReference
<1>4. Grows
  BY DEF Grows, AddReference
<1>5. Stored'
  BY DEF IndexInv, Stored, AddReference
<1>6. NamesPoint'
  BY <1>4, NamesKept DEF IndexInv, AddReference
<1> QED BY <1>3, <1>4, <1>5, <1>6, StatedKept DEF IndexInv, AddReference

(* AddModuleImport appends to a log.                                       *)
LEMMA AddModuleImportStep ==
    ASSUME IndexInv, NEW i \in Imports, NEW o \in FileId(i.from), AddModuleImport(o, i)
    PROVE  IndexInv' /\ Grows
<1> DEFINE x == [from |-> o, module |-> i.module, start |-> i.start, end |-> i.end]
<1>1. x \in ImportType
  <2>1. o \in Nat
    BY DEF FileId, FileIds, IndexInv, Stored, IndexOK, IndexTypes
  <2>2. i.start \in Nat /\ i.end \in Nat
    BY InputAssumption
  <2> QED BY <2>1, <2>2 DEF ImportType
<1>2. importLog' = Append(importLog, x)
  BY DEF AddModuleImport
<1> HIDE DEF x
<1>3. LogTypes'
  BY <1>1, <1>2 DEF IndexInv, LogTypes, AddModuleImport
<1>4. Grows
  BY DEF Grows, AddModuleImport
<1>5. Stored'
  BY DEF IndexInv, Stored, AddModuleImport
<1>6. NamesPoint'
  BY <1>4, NamesKept DEF IndexInv, AddModuleImport
<1> QED BY <1>3, <1>4, <1>5, <1>6, StatedKept DEF IndexInv, AddModuleImport

(* The symbol of a declaration, found or made.                             *)
LEMMA FindOrCreateLemma ==
    ASSUME Stored, NEW d \in Declarations
    PROVE  /\ IndexOK(modules, SymbolsWith(d), objects, declared, dirsDone)
           /\ FindOrCreate(d) \in DOMAIN SymbolsWith(d)
           /\ SymbolsWith(d)[FindOrCreate(d)] = [name |-> d.name, scope |-> d.scope, rank |-> RankOther]
           /\ SymbolsWith(d)[FindOrCreate(d)].rank = RankOther
           /\ \A s \in DOMAIN symbols : s \in DOMAIN SymbolsWith(d) /\ SymbolsWith(d)[s] = symbols[s]
<1> DEFINE x == [name |-> d.name, scope |-> d.scope, rank |-> RankOther]
           S == SymbolIds(d.name, d.scope)
<1>1. /\ symbols \in Seq(SymbolType) /\ IndexOK(modules, symbols, objects, declared, dirsDone)
  BY DEF Stored, IndexOK, IndexTypes
<1>2. x \in SymbolType /\ x.rank = RankOther
  <2>1. RankOther \in RankModule .. RankOther
    BY DEF RankModule, RankOther
  <2> QED BY <2>1 DEF SymbolType, Names, Scopes
<1>3. \A s \in DOMAIN symbols : s \in S <=> symbols[s] = x
  <2> SUFFICES ASSUME NEW s \in DOMAIN symbols PROVE s \in S <=> symbols[s] = x
    OBVIOUS
  <2>1. symbols[s] \in SymbolType
    BY <1>1
  <2>2. symbols[s] = [name |-> symbols[s].name, scope |-> symbols[s].scope, rank |-> symbols[s].rank]
    BY <2>1 DEF SymbolType
  <2> QED BY <2>2 DEF SymbolIds
<1>4. S \subseteq DOMAIN symbols
  BY DEF SymbolIds
<1>5. CASE S # {}
  <2>1. PICK s : s = CHOOSE t \in S : TRUE
    OBVIOUS
  <2>2. s \in S
    BY <1>5, <2>1
  <2>3. FindOrCreate(d) = s /\ SymbolsWith(d) = symbols
    BY <1>5, <2>1 DEF FindOrCreate, SymbolsWith
  <2> QED BY <1>1, <1>3, <1>4, <2>2, <2>3
<1>6. CASE S = {}
  <2>1. FindOrCreate(d) = Len(symbols) + 1 /\ SymbolsWith(d) = Append(symbols, x)
    BY <1>6 DEF FindOrCreate, SymbolsWith
  <2>2. \A s \in DOMAIN symbols : symbols[s] # x
    BY <1>3, <1>6
  <2> HIDE DEF x, S
  <2>3. IndexOK(modules, Append(symbols, x), objects, declared, dirsDone)
    BY <1>1, <1>2, <2>2, SymbolAdded
  <2>4. /\ DOMAIN Append(symbols, x) = DOMAIN symbols \cup {Len(symbols) + 1}
        /\ \A i \in DOMAIN symbols : Append(symbols, x)[i] = symbols[i]
        /\ Append(symbols, x)[Len(symbols) + 1] = x
    BY <1>1, <1>2, AppendAt
  <2> QED BY <2>1, <2>3, <2>4 DEF x
<1> QED BY <1>5, <1>6

(* symbolByFileAndName with the name of one more declaration.              *)
LEMMA NotedLemma ==
    ASSUME NEW o, NEW d
    PROVE  /\ DOMAIN Noted(o, d) = DOMAIN byFileAndName \cup {<<objects[o].path, d.name>>}
           /\ Noted(o, d)[<<objects[o].path, d.name>>] = FindOrCreate(d)
           /\ \A key \in DOMAIN byFileAndName :
                 key # <<objects[o].path, d.name>> => Noted(o, d)[key] = byFileAndName[key]
  BY DEF Noted, Put

(* The name a declaration gets stands for its symbol, in its file.         *)
LEMMA NamesNoted ==
    ASSUME Stored, NamesPoint, Grows, NEW d \in Declarations, NEW o,
           byFileAndName' = Noted(o, d), symbols' = SymbolsWith(d),
           objects'[o].path = objects[o].path,
           \E i \in DOMAIN declared' : declared'[i].symbol = FindOrCreate(d) /\ declared'[i].object = o
    PROVE  NamesPoint'
<1> SUFFICES ASSUME NEW key \in DOMAIN byFileAndName'
             PROVE  /\ byFileAndName'[key] \in DOMAIN symbols'
                    /\ symbols'[byFileAndName'[key]].rank = RankOther
                    /\ symbols'[byFileAndName'[key]].name = key[2]
                    /\ \E i \in DOMAIN declared' :
                          /\ declared'[i].symbol = byFileAndName'[key]
                          /\ objects'[declared'[i].object].path = key[1]
  BY DEF NamesPoint
<1> DEFINE new == <<objects[o].path, d.name>>
<1>1. /\ DOMAIN byFileAndName' = DOMAIN byFileAndName \cup {new}
      /\ byFileAndName'[new] = FindOrCreate(d)
      /\ \A k \in DOMAIN byFileAndName : k # new => byFileAndName'[k] = byFileAndName[k]
  BY NotedLemma
<1>2. CASE key = new
  <2>1. FindOrCreate(d) \in DOMAIN symbols'
        /\ symbols'[FindOrCreate(d)] = [name |-> d.name, scope |-> d.scope, rank |-> RankOther]
    BY FindOrCreateLemma
  <2>2. key[1] = objects[o].path /\ key[2] = d.name
    BY <1>2
  <2> QED BY <1>1, <1>2, <2>1, <2>2
<1>3. CASE key # new
  <2>1. key \in DOMAIN byFileAndName /\ byFileAndName'[key] = byFileAndName[key]
    BY <1>1, <1>3
  <2>2. /\ byFileAndName[key] \in DOMAIN symbols
        /\ symbols[byFileAndName[key]].rank = RankOther
        /\ symbols[byFileAndName[key]].name = key[2]
    BY <2>1 DEF NamesPoint
  <2>3. PICK i \in DOMAIN declared : /\ declared[i].symbol = byFileAndName[key]
                                     /\ objects[declared[i].object].path = key[1]
    BY <2>1 DEF NamesPoint
  <2>4. declared[i].object \in DOMAIN objects
    BY DEF Stored, IndexOK, DeclaredOK, SlotHolds
  <2>5. i \in DOMAIN declared' /\ declared'[i] = declared[i]
        /\ objects'[declared[i].object].path = objects[declared[i].object].path
    BY <2>3, <2>4 DEF Grows
  <2>6. /\ byFileAndName[key] \in DOMAIN symbols'
        /\ symbols'[byFileAndName[key]] = symbols[byFileAndName[key]]
    BY <2>2 DEF Grows
  <2> QED BY <2>1, <2>2, <2>3, <2>5, <2>6
<1> QED BY <1>2, <1>3

(* An extent cut off at the end of the object is one.                      *)
LEMMA ClampLemma ==
    ASSUME NEW o, objects[o].len \in Nat, NEW d \in Declarations
    PROVE  /\ ClampedStart(o, d) \in Nat /\ ClampedEnd(o, d) \in Nat
           /\ ClampedStart(o, d) <= ClampedEnd(o, d)
           /\ ClampedEnd(o, d) <= objects[o].len
<1>1. d.start \in Nat /\ d.end \in Nat /\ d.start <= d.end
  BY InputAssumption
<1> QED BY <1>1 DEF ClampedStart, ClampedEnd

(* The slot stated for an instance that is added.                          *)
LEMMA StatedLemma ==
    ASSUME NEW o, NEW p
    PROVE  \A key \in DOMAIN StatedWith(o, p) :
              \/ key \in DOMAIN stated /\ StatedWith(o, p)[key] = stated[key]
              \/ /\ key = <<o, NextSlot(o)>> /\ StatedWith(o, p)[key] = declared[p].slot
                 /\ p # NoParent /\ Acceptable(o, p)
  BY DEF StatedWith, Put

(* AddSymbol puts an instance in the next slot of its object, and states   *)
(* as its parent one that is in an earlier slot.                           *)
LEMMA AddSymbolStep ==
    ASSUME IndexInv, NEW d \in Declarations, NEW o \in FileId(d.path), NEW p \in ParentIds(d),
           AddSymbol(o, d, p)
    PROVE  IndexInv' /\ Grows
<1> DEFINE e == [symbol |-> FindOrCreate(d), object |-> o, start |-> ClampedStart(o, d),
                 end |-> ClampedEnd(o, d), slot |-> NextSlot(o), asked |-> p]
           n == Len(declared) + 1
<1>1. /\ symbols \in Seq(SymbolType) /\ objects \in Seq(ObjectType) /\ declared \in Seq(DeclaredType)
  BY DEF IndexInv, Stored, IndexOK, IndexTypes
<1>2. /\ IndexOK(modules, SymbolsWith(d), objects, declared, dirsDone)
      /\ FindOrCreate(d) \in DOMAIN SymbolsWith(d)
      /\ SymbolsWith(d)[FindOrCreate(d)].rank = RankOther
      /\ \A s \in DOMAIN symbols : s \in DOMAIN SymbolsWith(d) /\ SymbolsWith(d)[s] = symbols[s]
  <2>1. Stored
    BY DEF IndexInv
  <2>2. SymbolsWith(d)[FindOrCreate(d)].rank = RankOther
    BY <2>1, FindOrCreateLemma
  <2> QED BY <2>1, <2>2, FindOrCreateLemma
<1>3. /\ symbols' = SymbolsWith(d) /\ byFileAndName' = Noted(o, d) /\ stated' = StatedWith(o, p)
      /\ declared' = Append(declared, e)
      /\ objects' = [objects EXCEPT ![o].insts = Append(@,
            [symbol |-> FindOrCreate(d), start |-> ClampedStart(o, d), end |-> ClampedEnd(o, d)])]
      /\ UNCHANGED <<modules, refLog, importLog, dirsDone, tree>>
      /\ SameInstance(o, d) = {}
  BY DEF AddSymbol
<1>4. o \in DOMAIN objects
  BY DEF FileId, FileIds
<1>5. objects[o] \in ObjectType /\ objects[o].len \in Nat /\ objects[o].insts \in Seq(PlacedType)
  <2>1. objects[o] \in ObjectType
    BY <1>1, <1>4
  <2> QED BY <2>1 DEF ObjectType
<1>6. p \in Nat /\ (p # NoParent => p \in DOMAIN declared)
  BY <1>1 DEF ParentIds, NoParent
<1>7. e \in DeclaredType
  <2>1. ClampedStart(o, d) \in Nat /\ ClampedEnd(o, d) \in Nat
    BY <1>5, ClampLemma
  <2>2. NextSlot(o) \in Nat /\ o \in Nat
    BY <1>1, <1>4, <1>5 DEF NextSlot
  <2>3. FindOrCreate(d) \in Nat
    <3>1. SymbolsWith(d) \in Seq(SymbolType)
      BY <1>2 DEF IndexOK, IndexTypes
    <3> QED BY <1>2, <3>1
  <2> QED BY <1>6, <2>1, <2>2, <2>3 DEF DeclaredType
<1>8. /\ e.symbol = FindOrCreate(d) /\ e.object = o /\ e.start = ClampedStart(o, d)
      /\ e.end = ClampedEnd(o, d) /\ e.slot = NextSlot(o) /\ e.asked = p
  OBVIOUS
<1> HIDE DEF e
<1>9. \A i \in DOMAIN declared :
         ~(/\ declared[i].symbol = e.symbol /\ declared[i].object = e.object
           /\ declared[i].start = e.start /\ declared[i].end = e.end)
  BY <1>3, <1>8 DEF SameInstance
<1>10. IndexOK(modules, SymbolsWith(d), objects', Append(declared, e), dirsDone) /\ DOMAIN objects' = DOMAIN objects
  <2>1. e.slot = Len(objects[e.object].insts) + 1
    BY <1>8 DEF NextSlot
  <2>2. objects' = [objects EXCEPT ![e.object].insts =
                     Append(@, [symbol |-> e.symbol, start |-> e.start, end |-> e.end])]
    BY <1>3, <1>8
  <2>3. /\ e.object \in DOMAIN objects /\ e.symbol \in DOMAIN SymbolsWith(d)
        /\ SymbolsWith(d)[e.symbol].rank = RankOther
    BY <1>2, <1>4, <1>8
  <2>4. IndexOK(modules, SymbolsWith(d), objects, declared, dirsDone)
    BY <1>2
  <2> QED BY <1>7, <1>9, <2>1, <2>2, <2>3, <2>4, InstanceAdded
<1>11. Stored'
  BY <1>3, <1>10 DEF Stored
<1>12. /\ DOMAIN declared' = DOMAIN declared \cup {n} /\ n \notin DOMAIN declared
       /\ \A i \in DOMAIN declared : declared'[i] = declared[i]
       /\ declared'[n] = e
  BY <1>1, <1>3, <1>7, AppendAt
<1> HIDE DEF n
<1>13. \A q \in DOMAIN objects : /\ objects'[q].path = objects[q].path
                                 /\ objects'[q].sentinel = objects[q].sentinel
                                 /\ objects'[q].len = objects[q].len
                                 /\ objects'[q].module = objects[q].module
  <2> SUFFICES ASSUME NEW q \in DOMAIN objects
               PROVE  /\ objects'[q].path = objects[q].path
                      /\ objects'[q].sentinel = objects[q].sentinel
                      /\ objects'[q].len = objects[q].len
                      /\ objects'[q].module = objects[q].module
    OBVIOUS
  <2>1. objects[q] \in ObjectType
    BY <1>1
  <2> QED BY <1>3, <2>1 DEF ObjectType
<1>14. Grows
  BY <1>2, <1>3, <1>10, <1>12, <1>13 DEF Grows
<1>15. NamesPoint'
  BY <1>3, <1>4, <1>8, <1>12, <1>13, <1>14, NamesNoted DEF IndexInv
<1>16. StatedParentsAreReal'
  <2> SUFFICES ASSUME NEW key \in DOMAIN stated'
               PROVE  \E i, q \in DOMAIN declared' :
                         /\ <<declared'[i].object, declared'[i].slot>> = key
                         /\ declared'[i].asked = q
                         /\ declared'[q].object = declared'[i].object
                         /\ declared'[q].slot = stated'[key]
                         /\ q < i
    BY DEF StatedParentsAreReal
  <2>1. CASE key \in DOMAIN stated /\ stated'[key] = stated[key]
    <3>1. PICK i \in DOMAIN declared, q \in DOMAIN declared :
             /\ <<declared[i].object, declared[i].slot>> = key
             /\ declared[i].asked = q
             /\ declared[q].object = declared[i].object
             /\ declared[q].slot = stated[key]
             /\ q < i
      BY <2>1 DEF IndexInv, StatedParentsAreReal
    <3>2. i \in DOMAIN declared' /\ q \in DOMAIN declared' /\ declared'[i] = declared[i] /\ declared'[q] = declared[q]
      BY <1>12
    <3> QED BY <2>1, <3>1, <3>2
  <2>2. CASE /\ key = <<o, NextSlot(o)>> /\ stated'[key] = declared[p].slot
             /\ p # NoParent /\ Acceptable(o, p)
    <3>1. p \in DOMAIN declared /\ n \in DOMAIN declared' /\ p \in DOMAIN declared'
      BY <1>6, <1>12, <2>2
    <3>2. p < n
      BY <1>1, <3>1 DEF n
    <3>3. declared'[n] = e /\ declared'[p] = declared[p]
      BY <1>12, <3>1
    <3>4. declared[p].object = o
      BY <2>2 DEF Acceptable
    <3> QED BY <1>8, <2>2, <3>1, <3>2, <3>3, <3>4
  <2> QED BY <1>3, <2>1, <2>2, StatedLemma
<1> QED BY <1>3, <1>11, <1>14, <1>15, <1>16 DEF IndexInv, LogTypes

(* AddSymbol of what exists only notes the name.                           *)
LEMMA AddSymbolAgainStep ==
    ASSUME IndexInv, NEW d \in Declarations, NEW o \in FileId(d.path), AddSymbolAgain(o, d)
    PROVE  IndexInv' /\ Grows
<1>1. /\ symbols' = SymbolsWith(d) /\ byFileAndName' = Noted(o, d)
      /\ UNCHANGED <<modules, objects, declared, stated, refLog, importLog, dirsDone, tree>>
      /\ SameInstance(o, d) # {}
  BY DEF AddSymbolAgain
<1>2. Stored'
  BY <1>1, FindOrCreateLemma DEF IndexInv, Stored
<1>3. Grows
  BY <1>1, FindOrCreateLemma DEF IndexInv, Grows
<1>4. \E i \in DOMAIN declared' : declared'[i].symbol = FindOrCreate(d) /\ declared'[i].object = o
  BY <1>1 DEF SameInstance
<1>5. NamesPoint'
  BY <1>1, <1>3, <1>4, NamesNoted DEF IndexInv
<1> QED BY <1>1, <1>2, <1>3, <1>5, StatedKept DEF IndexInv, LogTypes

(* The reference a use leads to, when its name is known. *)
UseIn(refs, r) ==
    Resolvable(r) =>
        \E j \in DOMAIN refs : refs[j] = [to |-> byFileAndName[<<r.to, r.name>>], start |-> r.start, end |-> r.end]

(* What resolving adds to an object: references to declared symbols.       *)
LEMMA ResolvedLemma ==
    ASSUME Stored, NamesPoint, NEW log \in Seq(UseType), NEW o
    PROVE  /\ Resolved(log, o) \in Seq(RefType)
           /\ IsInjective(Resolved(log, o))
           /\ \A k \in DOMAIN Resolved(log, o) :
                 /\ Resolved(log, o)[k].to \in DOMAIN symbols
                 /\ symbols[Resolved(log, o)[k].to].rank = RankOther
           /\ \A k \in DOMAIN log : log[k].from = o => UseIn(Resolved(log, o), log[k])
<1> DEFINE to == [k \in DOMAIN log |-> TargetOf(log[k])]
           refs == Resolved(log, o)
<1>1. /\ Len(log) \in Nat /\ DOMAIN log = 1 .. Len(log)
      /\ \A k \in DOMAIN log : log[k] \in UseType
  OBVIOUS
<1>2. refs = RefsAdded(log, to, o)
  BY DEF Resolved
<1>3. \A k \in DOMAIN log : to[k] = TargetOf(log[k])
  OBVIOUS
<1>4. symbols \in Seq(SymbolType)
  BY DEF Stored, IndexOK, IndexTypes
<1> HIDE DEF to, refs
<1>5. ASSUME NEW k \in DOMAIN log
      PROVE  /\ Entry(log, to, k) \in RefType /\ Entry(log, to, k).to = to[k]
             /\ to[k] # NoSymbol => to[k] \in DOMAIN symbols /\ symbols[to[k]].rank = RankOther
             /\ Resolvable(log[k]) => to[k] = byFileAndName[<<log[k].to, log[k].name>>] /\ to[k] # NoSymbol
  <2>1. CASE Resolvable(log[k])
    <3>1. to[k] = byFileAndName[<<log[k].to, log[k].name>>]
      BY <1>3, <2>1 DEF TargetOf
    <3>2. to[k] \in DOMAIN symbols /\ symbols[to[k]].rank = RankOther
      BY <2>1, <3>1 DEF NamesPoint, Resolvable
    <3>3. to[k] \in Nat /\ to[k] # NoSymbol
      BY <1>4, <3>2 DEF NoSymbol
    <3>4. log[k].start \in Nat /\ log[k].end \in Nat
      BY <1>1 DEF UseType
    <3> QED BY <3>1, <3>2, <3>3, <3>4 DEF Entry, RefType
  <2>2. CASE ~Resolvable(log[k])
    <3>1. to[k] = NoSymbol
      BY <1>3, <2>2 DEF TargetOf
    <3>2. log[k].start \in Nat /\ log[k].end \in Nat
      BY <1>1 DEF UseType
    <3> QED BY <2>2, <3>1, <3>2 DEF Entry, RefType, NoSymbol
  <2> QED BY <2>1, <2>2
<1>6. /\ refs \in Seq(RefType)
      /\ IsInjective(refs)
      /\ \A i \in DOMAIN refs : \E k \in 1 .. Len(log) :
            Adds(log, to, o, k) /\ refs[i] = Entry(log, to, k)
      /\ \A k \in 1 .. Len(log) :
            Adds(log, to, o, k) => \E i \in DOMAIN refs : refs[i] = Entry(log, to, k)
  <2>1. \A k \in 1 .. Len(log) : Entry(log, to, k) \in RefType
    BY <1>1, <1>5
  <2> QED BY <1>1, <1>2, <2>1, RefsAddedLemma
<1>7. ASSUME NEW i \in DOMAIN refs
      PROVE  refs[i].to \in DOMAIN symbols /\ symbols[refs[i].to].rank = RankOther
  <2>1. PICK k \in DOMAIN log : Adds(log, to, o, k) /\ refs[i] = Entry(log, to, k)
    BY <1>1, <1>6
  <2>2. to[k] # NoSymbol
    BY <2>1 DEF Adds
  <2> QED BY <1>5, <2>1, <2>2
<1>8. ASSUME NEW k \in DOMAIN log, log[k].from = o
      PROVE  UseIn(refs, log[k])
  <2> SUFFICES ASSUME Resolvable(log[k])
               PROVE  \E j \in DOMAIN refs :
                         refs[j] = [to |-> byFileAndName[<<log[k].to, log[k].name>>],
                                    start |-> log[k].start, end |-> log[k].end]
    BY DEF UseIn
  <2>1. Adds(log, to, o, k)
    BY <1>5, <1>8 DEF Adds
  <2>2. PICK j \in DOMAIN refs : refs[j] = Entry(log, to, k)
    BY <1>1, <1>6, <2>1
  <2> QED BY <1>5, <1>8, <2>2 DEF Entry
<1> QED BY <1>6, <1>7, <1>8 DEF refs

(* Resolving changes nothing of an object but its references.              *)
LEMMA WithRefsLemma ==
    ASSUME Stored, NamesPoint, NEW log \in Seq(UseType)
    PROVE  /\ WithRefs(log) \in Seq(ObjectType)
           /\ DOMAIN WithRefs(log) = DOMAIN objects
           /\ \A o \in DOMAIN objects :
                 /\ WithRefs(log)[o].path = objects[o].path
                 /\ WithRefs(log)[o].sentinel = objects[o].sentinel
                 /\ WithRefs(log)[o].insts = objects[o].insts
                 /\ WithRefs(log)[o].len = objects[o].len
                 /\ WithRefs(log)[o].module = objects[o].module
                 /\ WithRefs(log)[o].refs = objects[o].refs \o Resolved(log, o)
           /\ IndexOK(modules, symbols, WithRefs(log), declared, dirsDone)
<1> DEFINE new == WithRefs(log)
<1>1. objects \in Seq(ObjectType)
  BY DEF Stored, IndexOK, IndexTypes
<1>2. ASSUME NEW o \in DOMAIN objects
      PROVE  /\ new[o] \in ObjectType
             /\ new[o].path = objects[o].path /\ new[o].sentinel = objects[o].sentinel
             /\ new[o].insts = objects[o].insts /\ new[o].len = objects[o].len
             /\ new[o].module = objects[o].module
             /\ new[o].refs = objects[o].refs \o Resolved(log, o)
  <2> DEFINE refs == objects[o].refs \o Resolved(log, o)
  <2>1. objects[o] \in ObjectType
    BY <1>1
  <2>2. refs \in Seq(RefType)
    <3>1. objects[o].refs \in Seq(RefType)
      BY <2>1 DEF ObjectType
    <3>2. Resolved(log, o) \in Seq(RefType)
      BY ResolvedLemma
    <3> QED BY <3>1, <3>2
  <2>3. new[o] = WithReferences(objects[o], refs)
    BY DEF WithRefs, WithReferences
  <2> HIDE DEF refs, new
  <2>4. /\ new[o] \in ObjectType
        /\ new[o].path = objects[o].path /\ new[o].sentinel = objects[o].sentinel
        /\ new[o].insts = objects[o].insts /\ new[o].len = objects[o].len
        /\ new[o].module = objects[o].module
        /\ new[o].refs = refs
    BY <2>1, <2>2, <2>3, WithReferencesLemma
  <2> QED BY <2>4 DEF refs
<1>3. new \in [DOMAIN objects -> ObjectType]
  BY <1>2 DEF WithRefs
<1> HIDE DEF new
<1>4. new \in Seq(ObjectType) /\ DOMAIN new = DOMAIN objects
  BY <1>1, <1>3, MapLemma
<1>5. SameButRefs(objects, new)
  BY <1>2, <1>4 DEF SameButRefs
<1>6. IndexOK(modules, symbols, new, declared, dirsDone)
  <2>1. IndexOK(modules, symbols, objects, declared, dirsDone)
    BY DEF Stored
  <2> QED BY <1>4, <1>5, <2>1, ReferencesAdded
<1> QED BY <1>2, <1>4, <1>6 DEF new

(* ResolveReferences adds references only.                                 *)
LEMMA ResolveReferencesStep ==
    ASSUME IndexInv, ResolveReferences
    PROVE  IndexInv' /\ Grows
<1>1. /\ objects' = WithRefs(refLog) /\ refLog' = <<>>
      /\ UNCHANGED <<modules, symbols, byFileAndName, declared, stated, importLog, dirsDone, tree>>
  BY DEF ResolveReferences
<1>2. Stored /\ NamesPoint /\ refLog \in Seq(UseType)
  BY DEF IndexInv, LogTypes
<1>3. Stored'
  BY <1>1, <1>2, WithRefsLemma DEF Stored
<1>4. Grows
  BY <1>1, <1>2, WithRefsLemma DEF Grows
<1>5. LogTypes'
  BY <1>1 DEF IndexInv, LogTypes
<1> QED BY <1>1, <1>2, <1>3, <1>4, <1>5, NamesKept, StatedKept DEF IndexInv

(* What ResolveReferences had added when it failed is a part of the log.   *)
LEMMA FailsAfter ==
    ASSUME refLog \in Seq(UseType), ResolveReferencesFails
    PROVE  SubSeq(refLog, 1, Min(Unresolved) - 1) \in Seq(UseType)
<1> DEFINE m == Min(Unresolved)
<1>1. m \in 1 .. Len(refLog)
  <2>1. Len(refLog) \in Nat /\ Unresolved \subseteq 1 .. Len(refLog) /\ Unresolved # {}
    BY DEF Unresolved, ResolveReferencesFails
  <2>2. Unresolved \subseteq Nat
    BY <2>1
  <2>3. \E n \in Unresolved : \A i \in Unresolved : n <= i
    BY <2>1, <2>2, LeastNat
  <2>4. m \in Unresolved
    BY <2>3 DEF Min
  <2> QED BY <2>1, <2>4
<1> HIDE DEF m
<1>2. SubSeq(refLog, 1, m - 1) \in Seq(UseType)
  BY <1>1
<1> QED BY <1>2 DEF m

(* So does one that stops on the way.                                      *)
LEMMA ResolveReferencesFailsStep ==
    ASSUME IndexInv, ResolveReferencesFails
    PROVE  IndexInv' /\ Grows
<1> DEFINE log == SubSeq(refLog, 1, Min(Unresolved) - 1)
<1>1. /\ objects' = WithRefs(log)
      /\ UNCHANGED <<modules, symbols, byFileAndName, declared, stated, refLog, importLog, dirsDone, tree>>
  BY DEF ResolveReferencesFails
<1>2. Stored /\ NamesPoint /\ refLog \in Seq(UseType)
  BY DEF IndexInv, LogTypes
<1>3. log \in Seq(UseType)
  BY <1>2, FailsAfter
<1> HIDE DEF log
<1>4. Stored'
  BY <1>1, <1>2, <1>3, WithRefsLemma DEF Stored
<1>5. Grows
  BY <1>1, <1>2, <1>3, WithRefsLemma DEF Grows
<1>6. LogTypes'
  BY <1>1 DEF IndexInv, LogTypes
<1> QED BY <1>1, <1>2, <1>4, <1>5, <1>6, NamesKept, StatedKept DEF IndexInv

(* GetAllReferencesNames makes the module symbols.                         *)
LEMMA GetAllReferencesNamesStep ==
    ASSUME IndexInv, GetAllReferencesNames
    PROVE  IndexInv' /\ Grows
<1>1. PICK order \in Orders(Pending) :
          /\ modules' = ModulesMade(order)
          /\ symbols' = ModuleSymbolsMade(order)
          /\ objects' = ModuleObjectsMade(order)
  BY DEF GetAllReferencesNames
<1>2. importLog' = <<>> /\ UNCHANGED <<byFileAndName, declared, stated, refLog, dirsDone, tree>>
  BY DEF GetAllReferencesNames
<1>3. Stored /\ LogTypes /\ NamesPoint
  BY DEF IndexInv
<1>4. Stored'
  BY <1>1, <1>2, <1>3, ModuleObjectsMadeLemma DEF Stored
<1>5. Grows
  <2>1. \A s \in DOMAIN symbols : s \in DOMAIN symbols' /\ symbols'[s] = symbols[s]
    BY <1>1, <1>3, ModulesMadeLemma
  <2>2. \A o \in DOMAIN objects :
          /\ o \in DOMAIN objects'
          /\ objects'[o].path = objects[o].path /\ objects'[o].sentinel = objects[o].sentinel
          /\ objects'[o].len = objects[o].len /\ objects'[o].module = objects[o].module
    BY <1>1, <1>3, ModuleObjectsMadeLemma
  <2> QED BY <1>2, <2>1, <2>2 DEF Grows
<1>6. LogTypes'
  BY <1>2, <1>3 DEF LogTypes
<1>7. NamesPoint'
  BY <1>2, <1>3, <1>5, NamesKept
<1> QED BY <1>2, <1>4, <1>5, <1>6, <1>7, StatedKept DEF IndexInv

(* There is one order of nothing, and it makes nothing.                    *)
LEMMA NoOrder ==
    /\ \A order \in Orders({}) : order = <<>>
    /\ \A syms : DirectorySymbolsMade(syms, <<>>) = syms \o <<>>
<1>1. ASSUME NEW order \in Orders({}) PROVE order = <<>>
  <2>1. order \in Seq({}) /\ Enumerates(order, {})
    BY FS_EmptySet, ListingLemma DEF Orders
  <2>2. Len(order) \in Nat /\ ~(1 <= Len(order))
    <3>1. Len(order) \in Nat
      BY <2>1
    <3>2. ASSUME 1 <= Len(order) PROVE FALSE
      <4>1. 1 \in 1 .. Len(order)
        BY <3>1, <3>2
      <4> QED BY <2>1, <4>1 DEF Enumerates
    <3> QED BY <3>1, <3>2
  <2> QED BY <2>1, <2>2
<1>2. ASSUME NEW syms PROVE DirectorySymbolsMade(syms, <<>>) = syms \o <<>>
  <2>1. [k \in DOMAIN <<>> |-> [name |-> <<>>[k], scope |-> Unspecified, rank |-> RankDirectory]] = <<>>
    OBVIOUS
  <2> QED BY <2>1 DEF DirectorySymbolsMade
<1> QED BY <1>1, <1>2

(* The orders an index is published in.                                    *)
PublishedIn(mo, do) ==
    /\ modules' = ModulesMade(mo)
    /\ symbols' = DirectorySymbolsMade(ModuleSymbolsMade(mo), do)
    /\ objects' = IF MakesDirectories THEN DirectoryObjectsMade(ModuleSymbolsMade(mo), ModuleObjectsMade(mo), do)
                  ELSE ModuleObjectsMade(mo)

(* Publish, without its LET.                                               *)
LEMMA PublishOrders ==
    ASSUME Publish
    PROVE  /\ \E mo \in Orders(Pending), do \in Orders(IF MakesDirectories THEN DirSet ELSE {}) : PublishedIn(mo, do)
           /\ dirsDone' = (dirsDone \/ MakesDirectories)
           /\ importLog' = <<>>
           /\ tree' = TreeOf(symbols', objects')
           /\ UNCHANGED <<byFileAndName, declared, stated, refLog>>
  BY DEF Publish, PublishedIn

(* Publish makes the modules, then the directories of what it has then.    *)
LEMMA PublishStep ==
    ASSUME IndexInv, Publish
    PROVE  IndexInv' /\ Grows
<1>1. PICK mo \in Orders(Pending), do \in Orders(IF MakesDirectories THEN DirSet ELSE {}) : PublishedIn(mo, do)
  BY PublishOrders
<1>2. /\ dirsDone' = (dirsDone \/ MakesDirectories)
      /\ importLog' = <<>>
      /\ UNCHANGED <<byFileAndName, declared, stated, refLog>>
  BY PublishOrders
<1> DEFINE m2 == ModulesMade(mo)
           s2 == ModuleSymbolsMade(mo)
           o2 == ModuleObjectsMade(mo)
<1>3. Stored /\ LogTypes /\ NamesPoint
  BY DEF IndexInv
<1>4. \A s \in DOMAIN symbols : s \in DOMAIN s2 /\ s2[s] = symbols[s]
  BY <1>3, ModulesMadeLemma
<1>5. /\ IndexOK(m2, s2, o2, declared, dirsDone)
      /\ DOMAIN o2 = DOMAIN objects
      /\ \A o \in DOMAIN objects : /\ o2[o].path = objects[o].path /\ o2[o].sentinel = objects[o].sentinel
                                   /\ o2[o].len = objects[o].len /\ o2[o].module = objects[o].module
  BY <1>3, ModuleObjectsMadeLemma
<1> HIDE DEF m2, s2, o2
<1>6. modules' = m2
  BY <1>1 DEF PublishedIn, m2
<1>7. ASSUME MakesDirectories PROVE Stored' /\ Grows
  <2> DEFINE s3 == DirectorySymbolsMade(s2, do)
             o3 == DirectoryObjectsMade(s2, o2, do)
  <2>1. symbols' = s3 /\ objects' = o3 /\ do \in Orders(DirSet)
    BY <1>1, <1>7 DEF PublishedIn, s2, o2
  <2>2. IndexOK(m2, s2, o2, declared, FALSE) /\ dirsDone' = TRUE
    <3>1. dirsDone = FALSE
      BY <1>7, <1>2 DEF MakesDirectories
    <3> QED BY <1>2, <1>5, <1>7, <3>1
  <2>3. \A s \in DOMAIN s2 : s \in DOMAIN s3 /\ s3[s] = s2[s]
    BY <2>1, <2>2, DirectorySymbolsLemma
  <2>4. /\ IndexOK(m2, s3, o3, declared, TRUE)
        /\ \A o \in DOMAIN o2 : o \in DOMAIN o3 /\ o3[o] = InDirectory(s2, do, o2[o])
    <3>1. /\ DOMAIN o2 = DOMAIN objects
          /\ \A o \in DOMAIN o2 : o2[o].path = objects[o].path /\ o2[o].sentinel = objects[o].sentinel
      BY <1>5
    <3>2. IndexOK(m2, s3, o3, declared, TRUE)
      BY <2>1, <2>2, <3>1, DirectoryObjectsLemma
    <3>3. DirectoriesIn(s2, o2, do, o3)
      BY <2>1, <2>2, <3>1, DirectoryObjectsLemma
    <3> HIDE DEF s3, o3
    <3> QED BY <3>2, <3>3 DEF DirectoriesIn
  <2>5. ASSUME NEW r, r \in ObjectType
        PROVE  LET q == InDirectory(s2, do, r)
               IN  q.path = r.path /\ q.sentinel = r.sentinel /\ q.len = r.len /\ q.module = r.module
    BY <2>5 DEF InDirectory, WithInsts, ObjectType
  <2> HIDE DEF s3, o3
  <2>6. Stored'
    BY <1>2, <1>6, <2>1, <2>2, <2>4 DEF Stored
  <2>7. Grows
    <3>1. \A o \in DOMAIN o2 : o2[o] \in ObjectType
      BY <1>5 DEF IndexOK, IndexTypes
    <3>2. \A o \in DOMAIN objects :
            /\ o \in DOMAIN o3
            /\ o3[o].path = objects[o].path /\ o3[o].sentinel = objects[o].sentinel
            /\ o3[o].len = objects[o].len /\ o3[o].module = objects[o].module
      BY <1>5, <2>4, <2>5, <3>1
    <3> QED BY <1>2, <1>4, <2>1, <2>3, <3>2 DEF Grows
  <2> QED BY <2>6, <2>7
<1>8. ASSUME ~MakesDirectories PROVE Stored' /\ Grows
  <2>1. symbols' = s2 /\ objects' = o2
    <3>1. do = <<>> /\ objects' = o2
      BY <1>1, <1>8, NoOrder DEF PublishedIn, o2
    <3>2. symbols' = s2 \o <<>>
      BY <1>1, <3>1, NoOrder DEF PublishedIn, s2
    <3>3. s2 \in Seq(SymbolType)
      BY <1>5 DEF IndexOK, IndexTypes
    <3> QED BY <3>1, <3>2, <3>3
  <2>2. Stored'
    <3>1. IndexOK(m2, s2, o2, declared, dirsDone')
      BY <1>2, <1>5 DEF IndexOK, SymbolsOK
    <3> QED BY <1>2, <1>6, <2>1, <3>1 DEF Stored
  <2>3. Grows
    BY <1>2, <1>4, <1>5, <2>1 DEF Grows
  <2> QED BY <2>2, <2>3
<1>9. IndexInv'
  <2>1. Stored' /\ Grows
    BY <1>7, <1>8
  <2>2. NamesPoint'
    BY <1>2, <1>3, <2>1, NamesKept
  <2>3. LogTypes'
    BY <1>2, <1>3 DEF LogTypes
  <2> QED BY <1>2, <2>1, <2>2, <2>3, StatedKept DEF IndexInv
<1> QED BY <1>7, <1>8, <1>9

-----------------------------------------------------------------------------
(* The invariant of the store, for the calls in any order.                 *)

(* The calls of the workers.                                               *)
LEMMA FillStep ==
    ASSUME IndexInv, Fill
    PROVE  IndexInv' /\ (Grows \/ UNCHANGED vars)
<1>1. CASE \E name \in ModuleNames : AddModule(name)
  BY <1>1, AddModuleStep
<1>2. CASE \E f \in Files : \E m \in DOMAIN modules \cup {NoModule} : AddFile(m, f)
  BY <1>2, AddFileStep
<1>3. CASE \E f \in Files : AddFileAgain(f)
  BY <1>3 DEF AddFileAgain, vars, IndexInv, Stored, StatedParentsAreReal, LogTypes, NamesPoint
<1>4. CASE \E d \in Declarations : \E o \in FileId(d.path) : \E p \in ParentIds(d) : AddSymbol(o, d, p)
  BY <1>4, AddSymbolStep
<1>5. CASE \E d \in Declarations : \E o \in FileId(d.path) : AddSymbolAgain(o, d)
  BY <1>5, AddSymbolAgainStep
<1>6. CASE \E r \in References : \E o \in FileId(r.from) : AddReference(o, r)
  BY <1>6, AddReferenceStep
<1>7. CASE \E i \in Imports : \E o \in FileId(i.from) : AddModuleImport(o, i)
  BY <1>7, AddModuleImportStep
<1> QED BY <1>1, <1>2, <1>3, <1>4, <1>5, <1>6, <1>7 DEF Fill

(* Nothing happens.                                                        *)
LEMMA StutterStep ==
    ASSUME IndexInv, UNCHANGED vars
    PROVE  IndexInv'
  BY DEF vars, IndexInv, Stored, StatedParentsAreReal, LogTypes, NamesPoint

(* Every step keeps the invariant.                                         *)
LEMMA IndexStep ==
    ASSUME IndexInv, [Next]_vars
    PROVE  IndexInv'
<1>1. CASE Fill
  BY <1>1, FillStep
<1>2. CASE ResolveReferences
  BY <1>2, ResolveReferencesStep
<1>3. CASE ResolveReferencesFails
  BY <1>3, ResolveReferencesFailsStep
<1>4. CASE GetAllReferencesNames
  BY <1>4, GetAllReferencesNamesStep
<1>5. CASE Publish
  BY <1>5, PublishStep
<1>6. CASE UNCHANGED vars
  BY <1>6, StutterStep
<1> QED BY <1>1, <1>2, <1>3, <1>4, <1>5, <1>6 DEF Next

(* The invariant is what the properties need.                              *)
LEMMA IndexSafe == IndexInv => SlotsPointHome /\ StatedParentsAreReal /\ NoDuplicates
<1> SUFFICES ASSUME IndexInv PROVE SlotsPointHome /\ StatedParentsAreReal /\ NoDuplicates
  OBVIOUS
<1>1. /\ SymbolsOK(modules, symbols, objects, dirsDone) /\ ObjectsOK(symbols, objects, declared)
      /\ DeclaredOK(symbols, objects, declared)
  BY DEF IndexInv, Stored, IndexOK
<1>2. SlotsPointHome
  BY <1>1 DEF SlotsPointHome, DeclaredOK, SlotHolds
<1>3. NoDuplicates
  BY <1>1 DEF NoDuplicates, ObjectsOK, SymbolsOK, FileIds
<1> QED BY <1>2, <1>3 DEF IndexInv

(* The invariant holds in every state, whatever the order of the calls.    *)
THEOREM IndexInvariant == Spec => []IndexInv
<1>1. Init => IndexInv
  BY InitIndex
<1>2. IndexInv /\ [Next]_vars => IndexInv'
  BY IndexStep
<1> QED BY <1>1, <1>2, PTL DEF Spec

(* The slot remembered for a declaration (instanceSlotByID) is where its   *)
(* instance is, however many FILE, MODULE and DIRECTORY instances were     *)
(* appended to the object before, between and after: numberObjectTrees     *)
(* finds the parents that were stated.                                     *)
THEOREM SlotsTheorem == Spec => []SlotsPointHome
  BY IndexInvariant, IndexSafe, PTL

(* A parent that AddSymbol accepted is the instance the caller named, in   *)
(* the same object and declared before its child.                          *)
THEOREM StatedParentsTheorem == Spec => []StatedParentsAreReal
  BY IndexInvariant, IndexSafe, PTL

(* Workers that describe one file, symbol or instance any number of times  *)
(* leave one of it.                                                        *)
THEOREM NoDuplicatesTheorem == Spec => []NoDuplicates
  BY IndexInvariant, IndexSafe, PTL

-----------------------------------------------------------------------------
(* Where instances begin and end: inside their object, and those of        *)
(* containers at its ends.                                                 *)
Extent(syms, obj, x) ==
    /\ x.start <= x.end /\ x.end <= obj.len
    /\ syms[x.symbol].rank # RankOther => x.start = 0 /\ x.end = obj.len

ExtentsOK(syms, objs) ==
    \A o \in DOMAIN objs : \A k \in DOMAIN objs[o].insts : Extent(syms, objs[o], objs[o].insts[k])

(* Where every instance of new is one of objs or has an extent of its own. *)
LEMMA ExtentsKept ==
    ASSUME NEW syms, NEW objs, NEW decl, ObjectsOK(syms, objs, decl), ExtentsOK(syms, objs),
           NEW syms2, \A s \in DOMAIN syms : s \in DOMAIN syms2 /\ syms2[s] = syms[s],
           NEW new,
           \A o \in DOMAIN new : \A k \in DOMAIN new[o].insts :
              \/ /\ o \in DOMAIN objs /\ k \in DOMAIN objs[o].insts
                 /\ new[o].insts[k] = objs[o].insts[k] /\ new[o].len = objs[o].len
              \/ Extent(syms2, new[o], new[o].insts[k])
    PROVE  ExtentsOK(syms2, new)
<1> SUFFICES ASSUME NEW o \in DOMAIN new, NEW k \in DOMAIN new[o].insts
             PROVE  Extent(syms2, new[o], new[o].insts[k])
  BY DEF ExtentsOK
<1>1. CASE /\ o \in DOMAIN objs /\ k \in DOMAIN objs[o].insts
           /\ new[o].insts[k] = objs[o].insts[k] /\ new[o].len = objs[o].len
  <2>1. Extent(syms, objs[o], objs[o].insts[k])
    BY <1>1 DEF ExtentsOK
  <2>2. objs[o].insts[k].symbol \in DOMAIN syms
    BY <1>1 DEF ObjectsOK
  <2> QED BY <1>1, <2>1, <2>2 DEF Extent
<1> QED BY <1>1

(* WholeFile reaches from one end of the file to the other.                *)
LEMMA WholeFileExtent ==
    ASSUME NEW syms, NEW s \in Nat, NEW f, f.len \in Nat, NEW obj, obj.len = f.len
    PROVE  Extent(syms, obj, WholeFile(s, f))
  BY DEF Extent, WholeFile

(* The first instance of a file is the FILE one.                           *)
FileFirst(syms, obj) == 1 \in DOMAIN obj.insts /\ syms[obj.insts[1].symbol].rank = RankFile

FilesFirst(syms, objs) == \A o \in DOMAIN objs : ~objs[o].sentinel => FileFirst(syms, objs[o])

PlacesOK(syms, objs) == ExtentsOK(syms, objs) /\ FilesFirst(syms, objs)
PlacesInv == IndexInv /\ PlacesOK(symbols, objects)

(* Extents depend on instances and lengths only.                           *)
LEMMA ExtentsStay ==
    ASSUME PlacesInv, Grows,
           \A o \in DOMAIN objects' : /\ o \in DOMAIN objects
                                      /\ objects'[o].insts = objects[o].insts /\ objects'[o].len = objects[o].len
    PROVE  ExtentsOK(symbols', objects')
<1>1. ObjectsOK(symbols, objects, declared) /\ ExtentsOK(symbols, objects)
  BY DEF PlacesInv, PlacesOK, IndexInv, Stored, IndexOK
<1>2. \A s \in DOMAIN symbols : s \in DOMAIN symbols' /\ symbols'[s] = symbols[s]
  BY DEF Grows
<1> QED BY <1>1, <1>2, ExtentsKept

(* The FILE instance of a new file is all of it.                           *)
LEMMA FileExtents ==
    ASSUME PlacesInv, NEW f \in Files, NEW m \in DOMAIN modules \cup {NoModule}, AddFile(m, f)
    PROVE  ExtentsOK(symbols', objects')
<1> DEFINE y == [symbol |-> Len(symbols) + 1, start |-> 0, end |-> f.len]
           x == [path |-> f.path, sentinel |-> FALSE, hash |-> f.hash, len |-> f.len, module |-> m,
                 insts |-> <<y>>, refs |-> <<>>]
<1>1. Grows /\ IndexInv'
  BY AddFileStep DEF PlacesInv, PlacesOK
<1>2. objects \in Seq(ObjectType) /\ objects' \in Seq(ObjectType) /\ f.len \in Nat
  BY <1>1, InputAssumption DEF PlacesInv, PlacesOK, IndexInv, Stored, IndexOK, IndexTypes
<1>3. x.len = f.len /\ x.insts = <<y>> /\ y.start = 0 /\ y.end = f.len /\ objects' = Append(objects, x)
  BY DEF AddFile
<1> HIDE DEF x, y
<1>4. \A o \in DOMAIN objects' : (o \in DOMAIN objects /\ objects'[o] = objects[o]) \/ objects'[o] = x
  BY <1>2, <1>3
<1>5. \A k \in DOMAIN x.insts : x.insts[k] = y
  BY <1>3
<1>6. Extent(symbols', x, y)
  BY <1>2, <1>3 DEF Extent
<1>7. ObjectsOK(symbols, objects, declared) /\ ExtentsOK(symbols, objects)
      /\ \A s \in DOMAIN symbols : s \in DOMAIN symbols' /\ symbols'[s] = symbols[s]
  BY <1>1 DEF PlacesInv, PlacesOK, IndexInv, Stored, IndexOK, Grows
<1>8. \A o \in DOMAIN objects' : \A k \in DOMAIN objects'[o].insts :
          \/ /\ o \in DOMAIN objects /\ k \in DOMAIN objects[o].insts
             /\ objects'[o].insts[k] = objects[o].insts[k] /\ objects'[o].len = objects[o].len
          \/ Extent(symbols', objects'[o], objects'[o].insts[k])
  BY <1>4, <1>5, <1>6
<1> QED BY <1>7, <1>8, ExtentsKept

(* AddSymbol cuts an extent off at the end of the object.                  *)
LEMMA SymbolExtents ==
    ASSUME PlacesInv, NEW d \in Declarations, NEW o \in FileId(d.path), NEW p \in ParentIds(d),
           AddSymbol(o, d, p)
    PROVE  ExtentsOK(symbols', objects')
<1> DEFINE x == [symbol |-> FindOrCreate(d), start |-> ClampedStart(o, d), end |-> ClampedEnd(o, d)]
           a == objects[o].insts
<1>1. Grows /\ IndexInv'
  BY AddSymbolStep DEF PlacesInv, PlacesOK
<1>2. /\ objects \in Seq(ObjectType) /\ o \in DOMAIN objects /\ Stored
  BY DEF PlacesInv, PlacesOK, IndexInv, Stored, IndexOK, IndexTypes, FileId, FileIds
<1>3. objects[o] \in ObjectType /\ objects[o].len \in Nat /\ a \in Seq(PlacedType)
      /\ \A q \in DOMAIN objects : objects[q] \in ObjectType
  <2>1. \A q \in DOMAIN objects : objects[q] \in ObjectType
    BY <1>2
  <2> QED BY <1>2, <2>1 DEF ObjectType
<1>4. objects' = [objects EXCEPT ![o].insts = Append(a, x)] /\ symbols' = SymbolsWith(d)
  BY DEF AddSymbol
<1>5. /\ x.symbol = FindOrCreate(d) /\ x.start = ClampedStart(o, d) /\ x.end = ClampedEnd(o, d)
  OBVIOUS
<1> HIDE DEF x, a
<1>6. /\ DOMAIN objects' = DOMAIN objects
      /\ \A q \in DOMAIN objects : /\ objects'[q].len = objects[q].len
                                   /\ q # o => objects'[q].insts = objects[q].insts
      /\ objects'[o].insts = Append(a, x)
  BY <1>2, <1>3, <1>4 DEF ObjectType
<1>7. \A k \in DOMAIN Append(a, x) : (k \in DOMAIN a /\ Append(a, x)[k] = a[k]) \/ Append(a, x)[k] = x
  BY <1>3
<1>8. Extent(symbols', objects'[o], x)
  <2>1. ClampedStart(o, d) <= ClampedEnd(o, d) /\ ClampedEnd(o, d) <= objects[o].len
    BY <1>3, ClampLemma
  <2>2. symbols'[x.symbol].rank = RankOther
    BY <1>2, <1>4, <1>5, FindOrCreateLemma
  <2> QED BY <1>2, <1>5, <1>6, <2>1, <2>2 DEF Extent
<1>9. ObjectsOK(symbols, objects, declared) /\ ExtentsOK(symbols, objects)
      /\ \A s \in DOMAIN symbols : s \in DOMAIN symbols' /\ symbols'[s] = symbols[s]
  BY <1>1 DEF PlacesInv, PlacesOK, IndexInv, Stored, IndexOK, Grows
<1>10. ASSUME NEW q \in DOMAIN objects', NEW k \in DOMAIN objects'[q].insts
       PROVE  \/ /\ q \in DOMAIN objects /\ k \in DOMAIN objects[q].insts
                 /\ objects'[q].insts[k] = objects[q].insts[k] /\ objects'[q].len = objects[q].len
              \/ Extent(symbols', objects'[q], objects'[q].insts[k])
  <2>1. CASE q = o
    BY <1>2, <1>6, <1>7, <1>8, <1>10, <2>1 DEF a
  <2>2. CASE q # o
    BY <1>6, <1>10, <2>2
  <2> QED BY <2>1, <2>2
<1> QED BY <1>9, <1>10, ExtentsKept

(* The pass over the modules gives the files one more instance each.       *)
LEMMA ModuleExtents ==
    ASSUME PlacesInv, NEW order \in Orders(Pending)
    PROVE  ExtentsOK(ModuleSymbolsMade(order), ModuleObjectsMade(order))
<1> DEFINE m2 == ModulesMade(order)
           s2 == ModuleSymbolsMade(order)
           o2 == ModuleObjectsMade(order)
<1>1. Stored /\ LogTypes /\ ExtentsOK(symbols, objects) /\ ObjectsOK(symbols, objects, declared)
      /\ objects \in Seq(ObjectType)
  BY DEF PlacesInv, PlacesOK, IndexInv, Stored, IndexOK, IndexTypes
<1>2. \A s \in DOMAIN symbols : s \in DOMAIN s2 /\ s2[s] = symbols[s]
  BY <1>1, ModulesMadeLemma
<1>3. /\ IndexOK(m2, s2, o2, declared, dirsDone)
      /\ DOMAIN o2 = DOMAIN objects
      /\ \A o \in DOMAIN objects :
            /\ o2[o].len = objects[o].len
            /\ o2[o].insts = IF objects[o].module \in Pending
                             THEN Append(objects[o].insts, WholeFile(m2[objects[o].module].symbol, objects[o]))
                             ELSE objects[o].insts
  BY <1>1, ModuleObjectsMadeLemma
<1> HIDE DEF m2, s2, o2
<1>4. m2 \in Seq(ModuleType) /\ DOMAIN m2 = DOMAIN modules
  BY <1>1, <1>3, ModulesMadeLemma DEF IndexOK, IndexTypes, m2
<1>5. ASSUME NEW o \in DOMAIN o2, NEW k \in DOMAIN o2[o].insts
      PROVE  \/ /\ o \in DOMAIN objects /\ k \in DOMAIN objects[o].insts
                /\ o2[o].insts[k] = objects[o].insts[k] /\ o2[o].len = objects[o].len
             \/ Extent(s2, o2[o], o2[o].insts[k])
  <2> DEFINE m == objects[o].module
             x == WholeFile(m2[m].symbol, objects[o])
             a == objects[o].insts
  <2>1. o \in DOMAIN objects /\ objects[o] \in ObjectType /\ o2[o].len = objects[o].len
    BY <1>1, <1>3, <1>5
  <2>2. objects[o].len \in Nat /\ a \in Seq(PlacedType)
    BY <2>1 DEF ObjectType
  <2>3. CASE m \notin Pending
    BY <1>3, <1>5, <2>1, <2>3
  <2>4. CASE m \in Pending
    <3>1. m \in DOMAIN m2
      BY <1>4, <2>4 DEF Pending
    <3>2. m2[m].symbol \in Nat
      <4>1. m2[m] \in ModuleType
        BY <1>4, <3>1
      <4> QED BY <4>1 DEF ModuleType
    <3>3. Extent(s2, o2[o], x)
      <4> HIDE DEF m
      <4>1. o2[o].len = objects[o].len /\ objects[o].len \in Nat
        BY <2>1, <2>2
      <4> QED BY <3>2, <4>1, WholeFileExtent
    <3>4. o2[o].insts = Append(a, x)
      BY <1>3, <2>1, <2>4
    <3> HIDE DEF x, m, a
    <3>5. (k \in DOMAIN a /\ Append(a, x)[k] = a[k]) \/ Append(a, x)[k] = x
      BY <1>5, <2>2, <3>4
    <3> QED BY <2>1, <3>3, <3>4, <3>5 DEF a
  <2> QED BY <2>3, <2>4
<1>6. ExtentsOK(s2, o2)
  BY <1>1, <1>2, <1>5, ExtentsKept
<1> QED BY <1>6 DEF s2, o2

(* The instance of the directory is all of the file, and that of a         *)
(* sentinel is empty, as the sentinel is.                                  *)
LEMMA DirectoryExtents ==
    ASSUME NEW mods, NEW syms, NEW objs, NEW decl, IndexOK(mods, syms, objs, decl, FALSE),
           DOMAIN objs = DOMAIN objects,
           \A o \in DOMAIN objs : objs[o].path = objects[o].path /\ objs[o].sentinel = objects[o].sentinel,
           NEW order \in Orders(DirSet),
           ExtentsOK(syms, objs)
    PROVE  ExtentsOK(DirectorySymbolsMade(syms, order), DirectoryObjectsMade(syms, objs, order))
<1> DEFINE s3 == DirectorySymbolsMade(syms, order)
           o3 == DirectoryObjectsMade(syms, objs, order)
<1>1. DirectoriesIn(syms, objs, order, o3)
  BY DirectoryObjectsLemma
<1>2. \A s \in DOMAIN syms : s \in DOMAIN s3 /\ s3[s] = syms[s]
  BY DirectorySymbolsLemma
<1>3. \A d \in DirSet : SymbolOf(syms, order, d) \in DOMAIN s3
  BY DirectorySymbolsLemma
<1>4. s3 \in Seq(SymbolType)
  <2>1. IndexOK(mods, s3, objs, decl, TRUE)
    BY DirectorySymbolsLemma
  <2> QED BY <2>1 DEF IndexOK, IndexTypes
<1>5. objs \in Seq(ObjectType) /\ ObjectsOK(syms, objs, decl)
  BY DEF IndexOK, IndexTypes
<1> HIDE DEF s3, o3
<1>6. \A d \in DirSet : SymbolOf(syms, order, d) \in Nat
  BY <1>3, <1>4
<1>7. ASSUME NEW o \in DOMAIN o3, NEW k \in DOMAIN o3[o].insts
      PROVE  \/ /\ o \in DOMAIN objs /\ k \in DOMAIN objs[o].insts
                /\ o3[o].insts[k] = objs[o].insts[k] /\ o3[o].len = objs[o].len
             \/ Extent(s3, o3[o], o3[o].insts[k])
  <2>1. CASE o \in DOMAIN objs
    <3> DEFINE d == ParentDir[objs[o].path]
               x == WholeFile(SymbolOf(syms, order, d), objs[o])
               a == objs[o].insts
    <3>1. objs[o] \in ObjectType /\ o3[o] = InDirectory(syms, order, objs[o])
      BY <1>1, <1>5, <2>1 DEF DirectoriesIn
    <3>2. objs[o].len \in Nat /\ a \in Seq(PlacedType) /\ objs[o].path \in DOMAIN ParentDir
      BY <3>1 DEF ObjectType
    <3>3. CASE objs[o].sentinel
      BY <1>7, <2>1, <3>1, <3>3 DEF InDirectory
    <3>4. CASE ~objs[o].sentinel
      <4>1. o3[o].insts = Append(a, x) /\ o3[o].len = objs[o].len
        BY <3>1, <3>4 DEF InDirectory, WithInsts, ObjectType
      <4>2. d \in DirSet
        <5>1. o \in FileIds /\ objects[o].path = objs[o].path
          BY <2>1, <3>4 DEF FileIds
        <5> QED BY <3>2, <5>1, DirSetLemma
      <4>3. Extent(s3, o3[o], x)
        <5> HIDE DEF d
        <5>1. SymbolOf(syms, order, d) \in Nat
          BY <1>6, <4>2
        <5> QED BY <3>2, <4>1, <5>1, WholeFileExtent
      <4> HIDE DEF x, d, a
      <4>4. (k \in DOMAIN a /\ Append(a, x)[k] = a[k]) \/ Append(a, x)[k] = x
        BY <1>7, <3>2, <4>1
      <4> QED BY <2>1, <4>1, <4>3, <4>4 DEF a
    <3> QED BY <3>3, <3>4
  <2>2. CASE o \notin DOMAIN objs
    <3>1. PICK d \in DirSet : o3[o] = SentinelOf(syms, order, d)
      BY <1>1, <2>2 DEF DirectoriesIn
    <3> DEFINE y == [symbol |-> SymbolOf(syms, order, d), start |-> 0, end |-> 0]
    <3>2. o3[o].insts = <<y>> /\ o3[o].len = 0
      BY <3>1 DEF SentinelOf
    <3>3. y.start = 0 /\ y.end = 0
      OBVIOUS
    <3> HIDE DEF y
    <3>4. o3[o].insts[k] = y
      BY <1>7, <3>2
    <3> QED BY <3>2, <3>3, <3>4 DEF Extent
  <2> QED BY <2>1, <2>2
<1>8. ExtentsOK(s3, o3)
  BY <1>2, <1>5, <1>7, ExtentsKept
<1> QED BY <1>8 DEF s3, o3

FirstStays(a, b) == 1 \in DOMAIN a => 1 \in DOMAIN b /\ b[1] = a[1]

(* Where the first instance of every file stays, or is the FILE one.       *)
LEMMA FirstsKept ==
    ASSUME NEW syms, NEW objs, NEW decl, ObjectsOK(syms, objs, decl), FilesFirst(syms, objs),
           NEW syms2, \A s \in DOMAIN syms : s \in DOMAIN syms2 /\ syms2[s] = syms[s],
           NEW new,
           \A o \in DOMAIN new : ~new[o].sentinel =>
              \/ /\ o \in DOMAIN objs /\ ~objs[o].sentinel
                 /\ FirstStays(objs[o].insts, new[o].insts)
              \/ FileFirst(syms2, new[o])
    PROVE  FilesFirst(syms2, new)
<1> SUFFICES ASSUME NEW o \in DOMAIN new, o \in DOMAIN objs, ~objs[o].sentinel,
                    FirstStays(objs[o].insts, new[o].insts)
             PROVE  FileFirst(syms2, new[o])
  BY DEF FilesFirst
<1>1. FileFirst(syms, objs[o])
  BY DEF FilesFirst
<1>2. objs[o].insts[1].symbol \in DOMAIN syms
  BY <1>1 DEF ObjectsOK, FileFirst
<1> QED BY <1>1, <1>2 DEF FileFirst, FirstStays

(* Appending leaves the first element alone.                               *)
LEMMA FirstOfLonger ==
    ASSUME NEW S, NEW a \in Seq(S), NEW x
    PROVE  FirstStays(a, Append(a, x)) /\ FirstStays(a, a)
  BY DEF FirstStays

(* The first instance depends on the instances only.                       *)
LEMMA FirstsStay ==
    ASSUME PlacesInv, Grows,
           \A o \in DOMAIN objects' : /\ o \in DOMAIN objects /\ objects'[o].sentinel = objects[o].sentinel
                                      /\ objects'[o].insts = objects[o].insts
    PROVE  FilesFirst(symbols', objects')
<1>1. ObjectsOK(symbols, objects, declared) /\ FilesFirst(symbols, objects)
  BY DEF PlacesInv, PlacesOK, IndexInv, Stored, IndexOK
<1>2. \A s \in DOMAIN symbols : s \in DOMAIN symbols' /\ symbols'[s] = symbols[s]
  BY DEF Grows
<1>3. \A o \in DOMAIN objects' : ~objects'[o].sentinel =>
          /\ o \in DOMAIN objects /\ ~objects[o].sentinel
          /\ FirstStays(objects[o].insts, objects'[o].insts)
  BY DEF FirstStays
<1> QED BY <1>1, <1>2, <1>3, FirstsKept

(* AddFile gives a file its FILE instance at once.                         *)
LEMMA FileFirsts ==
    ASSUME PlacesInv, NEW f \in Files, NEW m \in DOMAIN modules \cup {NoModule}, AddFile(m, f)
    PROVE  FilesFirst(symbols', objects')
<1> DEFINE y == [symbol |-> Len(symbols) + 1, start |-> 0, end |-> f.len]
           x == [path |-> f.path, sentinel |-> FALSE, hash |-> f.hash, len |-> f.len, module |-> m,
                 insts |-> <<y>>, refs |-> <<>>]
           z == [name |-> f.path, scope |-> Unspecified, rank |-> RankFile]
<1>1. Grows
  BY AddFileStep DEF PlacesInv, PlacesOK
<1>2. objects \in Seq(ObjectType) /\ symbols \in Seq(SymbolType)
      /\ ObjectsOK(symbols, objects, declared) /\ FilesFirst(symbols, objects)
  BY DEF PlacesInv, PlacesOK, IndexInv, Stored, IndexOK, IndexTypes
<1>3. /\ x.insts = <<y>> /\ objects' = Append(objects, x)
      /\ symbols' = Append(symbols, z) /\ y.symbol = Len(symbols) + 1 /\ z.rank = RankFile
  BY DEF AddFile
<1> HIDE DEF x, y, z
<1>4. \A o \in DOMAIN objects' : (o \in DOMAIN objects /\ objects'[o] = objects[o]) \/ objects'[o] = x
  BY <1>2, <1>3
<1>5. symbols'[y.symbol] = z
  BY <1>2, <1>3
<1>6. FileFirst(symbols', x)
  BY <1>3, <1>5 DEF FileFirst
<1>7. \A s \in DOMAIN symbols : s \in DOMAIN symbols' /\ symbols'[s] = symbols[s]
  BY <1>1 DEF Grows
<1>8. \A o \in DOMAIN objects' : ~objects'[o].sentinel =>
          \/ /\ o \in DOMAIN objects /\ ~objects[o].sentinel
             /\ FirstStays(objects[o].insts, objects'[o].insts)
          \/ FileFirst(symbols', objects'[o])
  BY <1>4, <1>6 DEF FirstStays
<1> QED BY <1>2, <1>7, <1>8, FirstsKept

(* AddSymbol appends after it.                                             *)
LEMMA SymbolFirsts ==
    ASSUME PlacesInv, NEW d \in Declarations, NEW o \in FileId(d.path), NEW p \in ParentIds(d),
           AddSymbol(o, d, p)
    PROVE  FilesFirst(symbols', objects')
<1> DEFINE x == [symbol |-> FindOrCreate(d), start |-> ClampedStart(o, d), end |-> ClampedEnd(o, d)]
           a == objects[o].insts
<1>1. Grows
  BY AddSymbolStep DEF PlacesInv, PlacesOK
<1>2. objects \in Seq(ObjectType) /\ o \in DOMAIN objects
      /\ ObjectsOK(symbols, objects, declared) /\ FilesFirst(symbols, objects)
  BY DEF PlacesInv, PlacesOK, IndexInv, Stored, IndexOK, IndexTypes, FileId, FileIds
<1>3. \A q \in DOMAIN objects : objects[q] \in ObjectType /\ objects[q].insts \in Seq(PlacedType)
  <2>1. \A q \in DOMAIN objects : objects[q] \in ObjectType
    BY <1>2
  <2> QED BY <2>1 DEF ObjectType
<1>4. objects' = [objects EXCEPT ![o].insts = Append(a, x)]
  BY DEF AddSymbol
<1> HIDE DEF x, a
<1>5. /\ DOMAIN objects' = DOMAIN objects
      /\ \A q \in DOMAIN objects : /\ objects'[q].sentinel = objects[q].sentinel
                                   /\ q # o => objects'[q].insts = objects[q].insts
      /\ objects'[o].insts = Append(a, x)
  BY <1>2, <1>3, <1>4 DEF ObjectType
<1>6. ASSUME NEW q \in DOMAIN objects'
      PROVE  FirstStays(objects[q].insts, objects'[q].insts)
  <2>1. FirstStays(a, Append(a, x)) /\ FirstStays(objects[q].insts, objects[q].insts)
    BY <1>2, <1>3, <1>5, FirstOfLonger DEF a
  <2> QED BY <1>5, <2>1 DEF a
<1>7. \A s \in DOMAIN symbols : s \in DOMAIN symbols' /\ symbols'[s] = symbols[s]
  BY <1>1 DEF Grows
<1> QED BY <1>2, <1>5, <1>6, <1>7, FirstsKept

(* So does the pass over the modules.                                      *)
LEMMA ModuleFirsts ==
    ASSUME PlacesInv, NEW order \in Orders(Pending)
    PROVE  FilesFirst(ModuleSymbolsMade(order), ModuleObjectsMade(order))
<1> DEFINE m2 == ModulesMade(order)
           s2 == ModuleSymbolsMade(order)
           o2 == ModuleObjectsMade(order)
<1>1. Stored /\ LogTypes /\ FilesFirst(symbols, objects) /\ ObjectsOK(symbols, objects, declared)
      /\ objects \in Seq(ObjectType)
  BY DEF PlacesInv, PlacesOK, IndexInv, Stored, IndexOK, IndexTypes
<1>2. \A s \in DOMAIN symbols : s \in DOMAIN s2 /\ s2[s] = symbols[s]
  BY <1>1, ModulesMadeLemma
<1>3. /\ DOMAIN o2 = DOMAIN objects
      /\ \A o \in DOMAIN objects :
            /\ o2[o].sentinel = objects[o].sentinel
            /\ o2[o].insts = IF objects[o].module \in Pending
                             THEN Append(objects[o].insts, WholeFile(m2[objects[o].module].symbol, objects[o]))
                             ELSE objects[o].insts
  BY <1>1, ModuleObjectsMadeLemma
<1> HIDE DEF m2, s2, o2
<1>4. \A o \in DOMAIN objects : objects[o].insts \in Seq(PlacedType)
  <2>1. \A q \in DOMAIN objects : objects[q] \in ObjectType
    BY <1>1
  <2> QED BY <2>1 DEF ObjectType
<1>5. ASSUME NEW o \in DOMAIN objects
      PROVE  FirstStays(objects[o].insts, o2[o].insts)
  BY <1>3, <1>4, FirstOfLonger
<1>6. FilesFirst(s2, o2)
  BY <1>1, <1>2, <1>3, <1>5, FirstsKept
<1> QED BY <1>6 DEF s2, o2

(* So does the pass over the directories; a sentinel is no file.           *)
LEMMA DirectoryFirsts ==
    ASSUME NEW mods, NEW syms, NEW objs, NEW decl, IndexOK(mods, syms, objs, decl, FALSE),
           DOMAIN objs = DOMAIN objects,
           \A o \in DOMAIN objs : objs[o].path = objects[o].path /\ objs[o].sentinel = objects[o].sentinel,
           NEW order \in Orders(DirSet),
           FilesFirst(syms, objs)
    PROVE  FilesFirst(DirectorySymbolsMade(syms, order), DirectoryObjectsMade(syms, objs, order))
<1> DEFINE s3 == DirectorySymbolsMade(syms, order)
           o3 == DirectoryObjectsMade(syms, objs, order)
<1>1. DirectoriesIn(syms, objs, order, o3)
  BY DirectoryObjectsLemma
<1>2. \A s \in DOMAIN syms : s \in DOMAIN s3 /\ s3[s] = syms[s]
  BY DirectorySymbolsLemma
<1>3. objs \in Seq(ObjectType) /\ ObjectsOK(syms, objs, decl)
  BY DEF IndexOK, IndexTypes
<1> HIDE DEF s3, o3
<1>4. ASSUME NEW o \in DOMAIN o3, ~o3[o].sentinel
      PROVE  /\ o \in DOMAIN objs /\ ~objs[o].sentinel
             /\ FirstStays(objs[o].insts, o3[o].insts)
  <2>1. o \in DOMAIN objs
    <3>1. CASE o \notin DOMAIN objs
      <4>1. PICK d \in DirSet : o3[o] = SentinelOf(syms, order, d)
        BY <1>1, <3>1, <1>4 DEF DirectoriesIn
      <4>2. o3[o].sentinel
        BY <4>1 DEF SentinelOf
      <4> QED BY <1>4, <4>2
    <3> QED BY <3>1
  <2> DEFINE x == WholeFile(SymbolOf(syms, order, ParentDir[objs[o].path]), objs[o])
             a == objs[o].insts
  <2>2. objs[o] \in ObjectType /\ o3[o] = InDirectory(syms, order, objs[o])
    BY <1>1, <1>3, <2>1 DEF DirectoriesIn
  <2>3. a \in Seq(PlacedType)
    BY <2>2 DEF ObjectType
  <2>4. ~objs[o].sentinel
    BY <1>4, <2>2 DEF InDirectory
  <2>5. o3[o].insts = Append(a, x)
    BY <2>2, <2>4 DEF InDirectory, WithInsts, ObjectType
  <2> HIDE DEF x
  <2> QED BY <2>1, <2>3, <2>4, <2>5, FirstOfLonger
<1>5. FilesFirst(s3, o3)
  BY <1>2, <1>3, <1>4, FirstsKept
<1> QED BY <1>5 DEF s3, o3

-----------------------------------------------------------------------------
(* Both, step by step *)

(* Places depend on instances, lengths and kinds of objects only.          *)
LEMMA PlacesStay ==
    ASSUME PlacesInv, Grows,
           \A o \in DOMAIN objects' :
               /\ o \in DOMAIN objects /\ objects'[o].sentinel = objects[o].sentinel
               /\ objects'[o].insts = objects[o].insts /\ objects'[o].len = objects[o].len
    PROVE  PlacesOK(symbols', objects')
  BY ExtentsStay, FirstsStay DEF PlacesOK

(* Nothing happens to them.                                                *)
LEMMA PlacesUnchanged ==
    ASSUME PlacesInv, UNCHANGED <<symbols, objects>>
    PROVE  PlacesOK(symbols', objects')
  BY DEF PlacesInv

(* AddFile.                                                                *)
LEMMA FilePlaces ==
    ASSUME PlacesInv, NEW f \in Files, NEW m \in DOMAIN modules \cup {NoModule}, AddFile(m, f)
    PROVE  PlacesOK(symbols', objects')
  BY FileExtents, FileFirsts DEF PlacesOK

(* AddSymbol.                                                              *)
LEMMA SymbolPlaces ==
    ASSUME PlacesInv, NEW d \in Declarations, NEW o \in FileId(d.path), NEW p \in ParentIds(d),
           AddSymbol(o, d, p)
    PROVE  PlacesOK(symbols', objects')
  BY SymbolExtents, SymbolFirsts DEF PlacesOK

(* AddSymbol of what exists.                                               *)
LEMMA SymbolAgainPlaces ==
    ASSUME PlacesInv, NEW d \in Declarations, NEW o \in FileId(d.path), AddSymbolAgain(o, d)
    PROVE  PlacesOK(symbols', objects')
<1>1. Grows
  BY AddSymbolAgainStep DEF PlacesInv
<1>2. objects' = objects
  BY DEF AddSymbolAgain
<1> QED BY <1>1, <1>2, PlacesStay

(* References have no place among the instances.                           *)
LEMMA RefsPlaces ==
    ASSUME PlacesInv, NEW log \in Seq(UseType), objects' = WithRefs(log), UNCHANGED <<symbols, declared>>
    PROVE  PlacesOK(symbols', objects')
<1>1. Stored /\ NamesPoint
  BY DEF PlacesInv, IndexInv
<1>2. /\ DOMAIN objects' = DOMAIN objects
      /\ \A o \in DOMAIN objects :
            /\ objects'[o].path = objects[o].path
            /\ objects'[o].sentinel = objects[o].sentinel
            /\ objects'[o].insts = objects[o].insts
            /\ objects'[o].len = objects[o].len
            /\ objects'[o].module = objects[o].module
  BY <1>1, WithRefsLemma
<1>3. Grows
  BY <1>2 DEF Grows
<1> QED BY <1>2, <1>3, PlacesStay

(* ResolveReferences.                                                      *)
LEMMA ResolvePlaces ==
    ASSUME PlacesInv, ResolveReferences \/ ResolveReferencesFails
    PROVE  PlacesOK(symbols', objects')
<1>1. refLog \in Seq(UseType)
  BY DEF PlacesInv, IndexInv, LogTypes
<1>2. CASE ResolveReferences
  BY <1>1, <1>2, RefsPlaces DEF ResolveReferences
<1>3. CASE ResolveReferencesFails
  <2>1. SubSeq(refLog, 1, Min(Unresolved) - 1) \in Seq(UseType)
    BY <1>1, <1>3, FailsAfter
  <2> QED BY <1>3, <2>1, RefsPlaces DEF ResolveReferencesFails
<1> QED BY <1>2, <1>3

(* GetAllReferencesNames.                                                  *)
LEMMA NamesPlaces ==
    ASSUME PlacesInv, GetAllReferencesNames
    PROVE  PlacesOK(symbols', objects')
<1>1. PICK order \in Orders(Pending) :
          symbols' = ModuleSymbolsMade(order) /\ objects' = ModuleObjectsMade(order)
  BY DEF GetAllReferencesNames
<1> QED BY <1>1, ModuleExtents, ModuleFirsts DEF PlacesOK

(* Publish: the modules, then the directories.                             *)
LEMMA PublishPlaces ==
    ASSUME PlacesInv, Publish
    PROVE  PlacesOK(symbols', objects')
<1>1. PICK mo \in Orders(Pending), do \in Orders(IF MakesDirectories THEN DirSet ELSE {}) : PublishedIn(mo, do)
  BY PublishOrders
<1> DEFINE m2 == ModulesMade(mo)
           s2 == ModuleSymbolsMade(mo)
           o2 == ModuleObjectsMade(mo)
<1>2. ExtentsOK(s2, o2) /\ FilesFirst(s2, o2)
  BY ModuleExtents, ModuleFirsts DEF PlacesOK
<1>3. /\ IndexOK(m2, s2, o2, declared, dirsDone)
      /\ DOMAIN o2 = DOMAIN objects
      /\ \A o \in DOMAIN objects : o2[o].path = objects[o].path /\ o2[o].sentinel = objects[o].sentinel
  <2>1. Stored /\ LogTypes
    BY DEF PlacesInv, IndexInv
  <2> QED BY <2>1, ModuleObjectsMadeLemma
<1> HIDE DEF m2, s2, o2
<1>4. CASE MakesDirectories
  <2>1. symbols' = DirectorySymbolsMade(s2, do) /\ objects' = DirectoryObjectsMade(s2, o2, do)
        /\ do \in Orders(DirSet)
    BY <1>1, <1>4 DEF PublishedIn, s2, o2
  <2>2. IndexOK(m2, s2, o2, declared, FALSE)
    BY <1>3, <1>4 DEF MakesDirectories, IndexOK, SymbolsOK
  <2>3. \A o \in DOMAIN o2 : o2[o].path = objects[o].path /\ o2[o].sentinel = objects[o].sentinel
    BY <1>3
  <2>4. ExtentsOK(DirectorySymbolsMade(s2, do), DirectoryObjectsMade(s2, o2, do))
    BY <1>2, <1>3, <2>1, <2>2, <2>3, DirectoryExtents
  <2>5. FilesFirst(DirectorySymbolsMade(s2, do), DirectoryObjectsMade(s2, o2, do))
    BY <1>2, <1>3, <2>1, <2>2, <2>3, DirectoryFirsts
  <2> QED BY <2>1, <2>4, <2>5 DEF PlacesOK
<1>5. CASE ~MakesDirectories
  <2>1. do = <<>> /\ objects' = o2
    BY <1>1, <1>5, NoOrder DEF PublishedIn, o2
  <2>2. symbols' = s2 \o <<>>
    BY <1>1, <2>1, NoOrder DEF PublishedIn, s2
  <2>3. s2 \in Seq(SymbolType)
    BY <1>3 DEF IndexOK, IndexTypes
  <2>4. symbols' = s2
    BY <2>2, <2>3
  <2> QED BY <1>2, <2>1, <2>4 DEF PlacesOK
<1> QED BY <1>4, <1>5

(* Every step keeps the instances in their places.                         *)
LEMMA PlacesStep ==
    ASSUME PlacesInv, [Next]_vars
    PROVE  PlacesInv'
<1> SUFFICES PlacesOK(symbols', objects')
  BY IndexStep DEF PlacesInv
<1>1. CASE \E name \in ModuleNames : AddModule(name)
  BY <1>1, PlacesUnchanged DEF AddModule
<1>2. CASE \E f \in Files : \E m \in DOMAIN modules \cup {NoModule} : AddFile(m, f)
  BY <1>2, FilePlaces
<1>3. CASE \E f \in Files : AddFileAgain(f)
  BY <1>3, PlacesUnchanged DEF AddFileAgain, vars
<1>4. CASE \E d \in Declarations : \E o \in FileId(d.path) : \E p \in ParentIds(d) : AddSymbol(o, d, p)
  BY <1>4, SymbolPlaces
<1>5. CASE \E d \in Declarations : \E o \in FileId(d.path) : AddSymbolAgain(o, d)
  BY <1>5, SymbolAgainPlaces
<1>6. CASE \E r \in References : \E o \in FileId(r.from) : AddReference(o, r)
  BY <1>6, PlacesUnchanged DEF AddReference
<1>7. CASE \E i \in Imports : \E o \in FileId(i.from) : AddModuleImport(o, i)
  BY <1>7, PlacesUnchanged DEF AddModuleImport
<1>8. CASE ResolveReferences \/ ResolveReferencesFails
  BY <1>8, ResolvePlaces
<1>9. CASE GetAllReferencesNames
  BY <1>9, NamesPlaces
<1>10. CASE Publish
  BY <1>10, PublishPlaces
<1>11. CASE UNCHANGED vars
  BY <1>11, PlacesUnchanged DEF vars
<1> QED BY <1>1, <1>2, <1>3, <1>4, <1>5, <1>6, <1>7, <1>8, <1>9, <1>10, <1>11 DEF Next, Fill

(* Every instance lies inside its object, that of a container from end to  *)
(* end, and the first of a file is its FILE instance, in every state.      *)
THEOREM PlacesInvariant == Spec => []PlacesInv
<1>1. Init => PlacesInv
  <2> SUFFICES ASSUME Init PROVE PlacesInv
    OBVIOUS
  <2>1. IndexInv /\ objects = <<>>
    BY InitIndex DEF Init
  <2> QED BY <2>1 DEF PlacesInv, PlacesOK, ExtentsOK, FilesFirst
<1>2. PlacesInv /\ [Next]_vars => PlacesInv'
  BY PlacesStep
<1> QED BY <1>1, <1>2, PTL DEF Spec

-----------------------------------------------------------------------------
(* What the sweep makes of an object *)

(* The instances of an object as the sweep sees them: a sequence of ranges *)
(* inside the object, and only declarations are stated to be in another.   *)
LEMMA RankedLemma ==
    ASSUME PlacesInv, NEW o \in DOMAIN objects
    PROVE  /\ Ranked(symbols, objects[o].insts) \in Seq(Instance)
           /\ DOMAIN Ranked(symbols, objects[o].insts) = DOMAIN objects[o].insts
           /\ objects[o].len \in Nat
           /\ InExtent(Ranked(symbols, objects[o].insts), objects[o].len)
           /\ StatesDeclarations(Ranked(symbols, objects[o].insts), StatedIn(o))
<1> DEFINE insts == objects[o].insts
           ranked == Ranked(symbols, insts)
<1>1. /\ objects \in Seq(ObjectType) /\ symbols \in Seq(SymbolType)
      /\ ObjectsOK(symbols, objects, declared) /\ DeclaredOK(symbols, objects, declared)
      /\ StatedParentsAreReal /\ ExtentsOK(symbols, objects)
  BY DEF PlacesInv, PlacesOK, IndexInv, Stored, IndexOK, IndexTypes
<1>2. objects[o].len \in Nat /\ insts \in Seq(PlacedType)
  <2>1. objects[o] \in ObjectType
    BY <1>1
  <2> QED BY <2>1 DEF ObjectType
<1>3. \A k \in DOMAIN insts : /\ insts[k].start \in Nat /\ insts[k].end \in Nat
                              /\ symbols[insts[k].symbol].rank \in RankModule .. RankOther
                              /\ Extent(symbols, objects[o], insts[k])
  <2> SUFFICES ASSUME NEW k \in DOMAIN insts
               PROVE  /\ insts[k].start \in Nat /\ insts[k].end \in Nat
                      /\ symbols[insts[k].symbol].rank \in RankModule .. RankOther
                      /\ Extent(symbols, objects[o], insts[k])
    OBVIOUS
  <2>1. insts[k] \in PlacedType
    BY <1>2
  <2>2. insts[k].symbol \in DOMAIN symbols
    BY <1>1 DEF ObjectsOK
  <2>3. symbols[insts[k].symbol] \in SymbolType
    BY <1>1, <2>2
  <2>4. Extent(symbols, objects[o], insts[k])
    BY <1>1 DEF ExtentsOK
  <2> QED BY <2>1, <2>3, <2>4 DEF PlacedType, SymbolType
<1>4. /\ DOMAIN ranked = DOMAIN insts
      /\ \A k \in DOMAIN insts : /\ ranked[k].start = insts[k].start /\ ranked[k].end = insts[k].end
                                 /\ ranked[k].rank = symbols[insts[k].symbol].rank
  BY DEF Ranked
<1>5. ranked \in Seq(Instance)
  <2>1. \A r \in RankModule .. RankOther : r \in Int
    BY DEF RankModule, RankOther
  <2>2. \A k \in DOMAIN insts :
            [start |-> insts[k].start, end |-> insts[k].end, rank |-> symbols[insts[k].symbol].rank] \in Instance
    BY <1>3, <2>1 DEF Instance
  <2>3. ranked \in [DOMAIN insts -> Instance]
    BY <2>2 DEF Ranked
  <2> HIDE DEF ranked, insts
  <2> QED BY <1>2, <2>3, MapLemma
<1>6. InExtent(ranked, objects[o].len)
  <2> HIDE DEF ranked, insts
  <2> QED BY <1>3, <1>4 DEF InExtent, Extent
<1>7. StatesDeclarations(ranked, StatedIn(o))
  <2>1. ASSUME NEW k \in DOMAIN StatedIn(o)
        PROVE  /\ k \in DOMAIN insts /\ symbols[insts[k].symbol].rank = RankOther
               /\ symbols[insts[StatedIn(o)[k]].symbol].rank = RankOther
    <3>1. k \in DOMAIN insts /\ <<o, k>> \in DOMAIN stated /\ StatedIn(o)[k] = stated[<<o, k>>]
      BY DEF StatedIn
    <3>2. PICK i, p \in DOMAIN declared :
              /\ <<declared[i].object, declared[i].slot>> = <<o, k>>
              /\ declared[p].object = declared[i].object
              /\ declared[p].slot = stated[<<o, k>>]
      BY <1>1, <3>1 DEF StatedParentsAreReal
    <3>3. SlotHolds(symbols, objects, declared[i]) /\ SlotHolds(symbols, objects, declared[p])
      BY <1>1 DEF DeclaredOK
    <3>4. /\ declared[i].object = o /\ declared[i].slot = k
          /\ declared[p].object = o /\ declared[p].slot = StatedIn(o)[k]
      BY <3>1, <3>2
    <3>5. /\ insts[k].symbol = declared[i].symbol /\ symbols[declared[i].symbol].rank = RankOther
          /\ insts[StatedIn(o)[k]].symbol = declared[p].symbol /\ symbols[declared[p].symbol].rank = RankOther
      BY <3>3, <3>4 DEF SlotHolds
    <3> QED BY <3>1, <3>5
  <2> HIDE DEF ranked, insts
  <2> QED BY <1>4, <2>1 DEF StatesDeclarations
<1> QED BY <1>2, <1>4, <1>5, <1>6, <1>7

-----------------------------------------------------------------------------
(* A run is a behaviour of the index *)

(* A run only makes the calls of the index: each of its steps is one of    *)
(* them or leaves the index alone.                                         *)
LEMMA RunCallsStore == [RunNext]_runVars => [Next]_vars
<1> SUFFICES ASSUME [RunNext]_runVars PROVE Next \/ UNCHANGED vars
  OBVIOUS
<1>1. CASE Parse
  BY <1>1 DEF Parse, Next, Fill
<1>2. CASE AddGitTrackedFile
  BY <1>2 DEF AddGitTrackedFile, Next, Fill
<1>3. CASE ParseFails \/ ParseEnds \/ GitFails \/ GitEnds
  BY <1>3 DEF ParseFails, ParseEnds, GitFails, GitEnds
<1>4. CASE Resolve
  BY <1>4 DEF Resolve, Next
<1>5. CASE Marshal
  BY <1>5 DEF Marshal, Next
<1>6. CASE Upload
  BY <1>6 DEF Upload, Next
<1>7. CASE UNCHANGED runVars
  BY <1>7 DEF runVars
<1> QED BY <1>1, <1>2, <1>3, <1>4, <1>5, <1>6, <1>7 DEF RunNext

(* So what holds of the index whatever the order of the calls holds in a   *)
(* run.                                                                    *)
THEOREM RunIsStore == RunSpec => Spec
<1>1. RunInit => Init
  BY DEF RunInit
<1> QED BY <1>1, RunCallsStore, PTL DEF RunSpec, Spec

-----------------------------------------------------------------------------
(* What a run keeps of the uses and imports it was asked to record.        *)

(* Object of a file and a reference of it. *)
HasRef(objs, path, to, x) ==
    \E o \in DOMAIN objs :
        /\ ~objs[o].sentinel /\ objs[o].path = path
        /\ \E k \in DOMAIN objs[o].refs : objs[o].refs[k] = [to |-> to, start |-> x.start, end |-> x.end]

RefsExtend(objs, new) ==
    \A o \in DOMAIN objs :
        /\ o \in DOMAIN new /\ new[o].sentinel = objs[o].sentinel /\ new[o].path = objs[o].path
        /\ \A k \in DOMAIN objs[o].refs : k \in DOMAIN new[o].refs /\ new[o].refs[k] = objs[o].refs[k]

ImportKept(mods, objs, i) ==
    \A m \in DOMAIN mods : mods[m].name = i.module => HasRef(objs, i.from, mods[m].symbol, i)

UseKept(syms, objs, decl, r) ==
    \/ r.name \in CNames
    \/ \E s \in DOMAIN syms :
          /\ HasRef(objs, r.from, s, r) /\ syms[s].name = r.name
          /\ \E i \in DOMAIN decl : /\ decl[i].symbol = s /\ decl[i].object \in DOMAIN objs
                                    /\ objs[decl[i].object].path = r.to

(* No reference twice; as long as imports wait, none leads to a container. *)
RefsOnce(syms, objs, log) ==
    \A o \in DOMAIN objs :
        /\ IsInjective(objs[o].refs)
        /\ \A k \in DOMAIN objs[o].refs :
              /\ objs[o].refs[k].to \in DOMAIN syms
              /\ log # <<>> => syms[objs[o].refs[k].to].rank = RankOther

(* A reference stays when references are added.                            *)
LEMMA HasRefKept ==
    ASSUME NEW objs, NEW new, RefsExtend(objs, new), NEW path, NEW to, NEW x, HasRef(objs, path, to, x)
    PROVE  HasRef(new, path, to, x)
<1>1. PICK o \in DOMAIN objs :
        /\ ~objs[o].sentinel /\ objs[o].path = path
        /\ \E k \in DOMAIN objs[o].refs : objs[o].refs[k] = [to |-> to, start |-> x.start, end |-> x.end]
  BY DEF HasRef
<1>2. PICK k \in DOMAIN objs[o].refs : objs[o].refs[k] = [to |-> to, start |-> x.start, end |-> x.end]
  BY <1>1
<1>3. /\ o \in DOMAIN new /\ new[o].sentinel = objs[o].sentinel /\ new[o].path = objs[o].path
      /\ k \in DOMAIN new[o].refs /\ new[o].refs[k] = objs[o].refs[k]
  BY DEF RefsExtend
<1> QED BY <1>1, <1>2, <1>3 DEF HasRef

(* So does what is kept of an import.                                      *)
LEMMA ImportStaysKept ==
    ASSUME NEW mods, NEW objs, NEW new, RefsExtend(objs, new), NEW i, ImportKept(mods, objs, i)
    PROVE  ImportKept(mods, new, i)
<1> SUFFICES ASSUME NEW m \in DOMAIN mods, mods[m].name = i.module
             PROVE  HasRef(new, i.from, mods[m].symbol, i)
  BY DEF ImportKept
<1>1. HasRef(objs, i.from, mods[m].symbol, i)
  BY DEF ImportKept
<1> QED BY <1>1, HasRefKept

(* So does what is kept of a use.                                          *)
LEMMA UseStaysKept ==
    ASSUME NEW syms, NEW syms2, \A s \in DOMAIN syms : s \in DOMAIN syms2 /\ syms2[s] = syms[s],
           NEW objs, NEW new, RefsExtend(objs, new), NEW decl, NEW r, UseKept(syms, objs, decl, r)
    PROVE  UseKept(syms2, new, decl, r)
<1> SUFFICES ASSUME r.name \notin CNames PROVE UseKept(syms2, new, decl, r)
  BY DEF UseKept
<1>1. PICK s \in DOMAIN syms :
          /\ HasRef(objs, r.from, s, r) /\ syms[s].name = r.name
          /\ \E i \in DOMAIN decl : /\ decl[i].symbol = s /\ decl[i].object \in DOMAIN objs
                                    /\ objs[decl[i].object].path = r.to
  BY DEF UseKept
<1>2. HasRef(new, r.from, s, r)
  BY <1>1, HasRefKept
<1>3. s \in DOMAIN syms2 /\ syms2[s].name = r.name
  BY <1>1
<1>4. \E i \in DOMAIN decl : /\ decl[i].symbol = s /\ decl[i].object \in DOMAIN new
                             /\ new[decl[i].object].path = r.to
  BY <1>1 DEF RefsExtend
<1> QED BY <1>2, <1>3, <1>4 DEF UseKept

(* Two sequences without a repetition and without a common element.        *)
(* The pass over the modules adds the imports, each once.                  *)
LEMMA ImportsAdded ==
    ASSUME Stored, LogTypes, NEW order \in Orders(Pending), RefsOnce(symbols, objects, importLog)
    PROVE  /\ RefsOnce(ModuleSymbolsMade(order), ModuleObjectsMade(order), <<>>)
           /\ RefsExtend(objects, ModuleObjectsMade(order))
<1> DEFINE m2 == ModulesMade(order)
           s2 == ModuleSymbolsMade(order)
           o2 == ModuleObjectsMade(order)
<1>1. \A s \in DOMAIN symbols : s \in DOMAIN s2 /\ s2[s] = symbols[s]
  BY ModulesMadeLemma
<1>2. /\ IndexOK(m2, s2, o2, declared, dirsDone)
      /\ DOMAIN o2 = DOMAIN objects
      /\ \A o \in DOMAIN objects :
            /\ o2[o].path = objects[o].path /\ o2[o].sentinel = objects[o].sentinel
            /\ o2[o].refs = objects[o].refs \o ImportRefs(m2, o)
  BY ModuleObjectsMadeLemma
<1> HIDE DEF m2, s2, o2
<1>3. m2 \in Seq(ModuleType) /\ s2 \in Seq(SymbolType) /\ ModulesOK(m2, s2) /\ objects \in Seq(ObjectType)
  BY <1>2 DEF IndexOK, IndexTypes, Stored
<1>4. ASSUME NEW o \in DOMAIN objects
      PROVE  /\ IsInjective(o2[o].refs)
             /\ \A k \in DOMAIN o2[o].refs : o2[o].refs[k].to \in DOMAIN s2
             /\ \A k \in DOMAIN objects[o].refs : k \in DOMAIN o2[o].refs /\ o2[o].refs[k] = objects[o].refs[k]
  <2> DEFINE a == objects[o].refs
             b == ImportRefs(m2, o)
  <2>1. a \in Seq(RefType) /\ IsInjective(a)
    <3>1. objects[o] \in ObjectType
      BY <1>3
    <3> QED BY <3>1 DEF ObjectType, RefsOnce
  <2>2. /\ b \in Seq(RefType) /\ IsInjective(b)
        /\ \A k \in DOMAIN b : importLog # <<>> /\ b[k].to \in DOMAIN s2 /\ s2[b[k].to].rank = RankModule
    BY <1>3, ImportRefsLemma
  <2>3. \A k \in DOMAIN a : /\ a[k].to \in DOMAIN symbols
                            /\ importLog # <<>> => symbols[a[k].to].rank = RankOther
    BY DEF RefsOnce
  <2>4. o2[o].refs = a \o b
    BY <1>2
  <2> HIDE DEF a, b
  <2>5. RankModule # RankOther
    BY DEF RankModule, RankOther
  <2>6. \A i \in DOMAIN a, j \in DOMAIN b : a[i] # b[j]
    BY <1>1, <2>2, <2>3, <2>5
  <2>7. IsInjective(a \o b)
    BY <2>1, <2>2, <2>6, ConcatInjective
  <2>8. /\ \A i \in DOMAIN a : i \in DOMAIN (a \o b) /\ (a \o b)[i] = a[i]
        /\ \A j \in DOMAIN b : (a \o b)[Len(a) + j] = b[j]
        /\ \A i \in DOMAIN (a \o b) : i \in DOMAIN a \/ \E j \in DOMAIN b : i = Len(a) + j
    BY <2>1, <2>2, ConcatAt
  <2>9. \A i \in DOMAIN (a \o b) : (a \o b)[i].to \in DOMAIN s2
    BY <1>1, <2>2, <2>3, <2>8
  <2> QED BY <2>4, <2>7, <2>8, <2>9 DEF a
<1>5. RefsOnce(s2, o2, <<>>)
  BY <1>2, <1>4 DEF RefsOnce
<1>6. RefsExtend(objects, o2)
  BY <1>2, <1>4 DEF RefsExtend
<1> QED BY <1>5, <1>6 DEF s2, o2

(* The pass over the directories leaves the references of the files, and   *)
(* gives the sentinels one for each directory below them.                  *)
LEMMA DirectoriesAdded ==
    ASSUME NEW mods, NEW syms, NEW objs, NEW decl, IndexOK(mods, syms, objs, decl, FALSE),
           DOMAIN objs = DOMAIN objects,
           \A o \in DOMAIN objs : objs[o].path = objects[o].path /\ objs[o].sentinel = objects[o].sentinel,
           NEW order \in Orders(DirSet),
           RefsOnce(syms, objs, <<>>)
    PROVE  /\ RefsOnce(DirectorySymbolsMade(syms, order), DirectoryObjectsMade(syms, objs, order), <<>>)
           /\ RefsExtend(objs, DirectoryObjectsMade(syms, objs, order))
<1> DEFINE s3 == DirectorySymbolsMade(syms, order)
           o3 == DirectoryObjectsMade(syms, objs, order)
<1>1. DirectoriesIn(syms, objs, order, o3)
  BY DirectoryObjectsLemma
<1>2. \A s \in DOMAIN syms : s \in DOMAIN s3
  BY DirectorySymbolsLemma
<1>3. \A d \in DirSet : SymbolOf(syms, order, d) \in DOMAIN s3
  BY DirectorySymbolsLemma
<1>4. syms \in Seq(SymbolType) /\ objs \in Seq(ObjectType)
  BY DEF IndexOK, IndexTypes
<1> HIDE DEF s3, o3
<1>5. ASSUME NEW o \in DOMAIN objs
      PROVE  /\ o \in DOMAIN o3 /\ o3[o].refs = objs[o].refs
             /\ o3[o].sentinel = objs[o].sentinel /\ o3[o].path = objs[o].path
  <2>1. objs[o] \in ObjectType
    BY <1>4
  <2>2. o \in DOMAIN o3 /\ o3[o] = InDirectory(syms, order, objs[o])
    BY <1>1 DEF DirectoriesIn
  <2> QED BY <2>1, <2>2 DEF InDirectory, WithInsts, ObjectType
<1>6. ASSUME NEW o \in DOMAIN o3, o \notin DOMAIN objs
      PROVE  IsInjective(o3[o].refs) /\ \A k \in DOMAIN o3[o].refs : o3[o].refs[k].to \in DOMAIN s3
  <2>1. PICK d \in DirSet : o3[o] = SentinelOf(syms, order, d)
    BY <1>1, <1>6 DEF DirectoriesIn
  <2>2. o3[o].refs = RefsToChildren(syms, order, d)
    BY <2>1 DEF SentinelOf
  <2>3. Below(order, d) \subseteq DirSet
    BY DirOrder DEF Below
  <2>4. ASSUME NEW k \in DOMAIN o3[o].refs PROVE o3[o].refs[k].to \in DOMAIN s3
    <3>1. PICK c \in Below(order, d) : o3[o].refs[k] = ToDirectory(syms, order, c)
      BY <1>4, <2>2, ChildrenLemma
    <3>2. o3[o].refs[k].to = SymbolOf(syms, order, c)
      BY <3>1 DEF ToDirectory
    <3> QED BY <1>3, <2>3, <3>2
  <2>5. IsInjective(o3[o].refs)
    BY <1>4, <2>2, ChildrenLemma
  <2> QED BY <2>4, <2>5
<1>7. RefsOnce(s3, o3, <<>>)
  <2>1. ASSUME NEW o \in DOMAIN o3
        PROVE  IsInjective(o3[o].refs) /\ \A k \in DOMAIN o3[o].refs : o3[o].refs[k].to \in DOMAIN s3
    <3>1. CASE o \in DOMAIN objs
      BY <1>2, <1>5, <3>1 DEF RefsOnce
    <3> QED BY <1>6, <3>1
  <2> QED BY <2>1 DEF RefsOnce
<1>8. RefsExtend(objs, o3)
  BY <1>5 DEF RefsExtend
<1> QED BY <1>7, <1>8 DEF s3, o3

(* Object o has an instance of a container over all of it. *)
Carries(syms, objs, o, rank, name) ==
    \E k \in DOMAIN objs[o].insts :
        /\ syms[objs[o].insts[k].symbol].rank = rank
        /\ syms[objs[o].insts[k].symbol].name = name
        /\ objs[o].insts[k].start = 0 /\ objs[o].insts[k].end = objs[o].len

(* Before the pass over the modules: what parsers asked for is in the logs. *)
UseLogged(r) == \E k \in DOMAIN refLog :
    /\ refLog[k].from \in FileId(r.from) /\ refLog[k].to = r.to /\ refLog[k].name = r.name
    /\ refLog[k].start = r.start /\ refLog[k].end = r.end
UsesLogged == \A r \in asked \cap References : UseLogged(r)
ImportLogged(i) == \E k \in DOMAIN importLog :
    /\ importLog[k].from \in FileId(i.from) /\ importLog[k].module = i.module
    /\ importLog[k].start = i.start /\ importLog[k].end = i.end
ImportsLogged == \A i \in asked \cap Imports : ImportLogged(i)

Unnamed ==
    /\ \A m \in DOMAIN modules : modules[m].symbol = NoSymbol
    /\ \A o \in DOMAIN objects : objects[o].module # NoModule => objects[o].module \in DOMAIN modules
    /\ ImportsLogged

(* After it. *)
Named(mods, syms, objs, log) ==
    /\ log = <<>>
    /\ \A m \in DOMAIN mods : mods[m].symbol # NoSymbol
    /\ \A o \in DOMAIN objs : objs[o].module # NoModule =>
          /\ objs[o].module \in DOMAIN mods
          /\ Carries(syms, objs, o, RankModule, mods[objs[o].module].name)
    /\ \A i \in asked \cap Imports : ImportKept(mods, objs, i)

(* The pass over the modules gives every module its symbol, every file in  *)
(* a module the instance of it, and every import that waits its reference. *)
LEMMA NamedByPass ==
    ASSUME Stored, LogTypes, Unnamed, NEW order \in Orders(Pending)
    PROVE  Named(ModulesMade(order), ModuleSymbolsMade(order), ModuleObjectsMade(order), <<>>)
<1> DEFINE m2 == ModulesMade(order)
           s2 == ModuleSymbolsMade(order)
           o2 == ModuleObjectsMade(order)
<1>1. /\ DOMAIN m2 = DOMAIN modules
      /\ \A m \in DOMAIN modules : m2[m].name = modules[m].name /\ m2[m].symbol # NoSymbol
  BY ModulesMadeLemma
<1>2. /\ IndexOK(m2, s2, o2, declared, dirsDone)
      /\ DOMAIN o2 = DOMAIN objects
      /\ \A o \in DOMAIN objects :
            /\ o2[o].path = objects[o].path /\ o2[o].sentinel = objects[o].sentinel
            /\ o2[o].len = objects[o].len /\ o2[o].module = objects[o].module
            /\ o2[o].refs = objects[o].refs \o ImportRefs(m2, o)
            /\ objects[o].module \in Pending =>
                  o2[o].insts = Append(objects[o].insts, WholeFile(m2[objects[o].module].symbol, objects[o]))
  BY ModuleObjectsMadeLemma
<1> HIDE DEF m2, s2, o2
<1>3. /\ m2 \in Seq(ModuleType) /\ s2 \in Seq(SymbolType) /\ ModulesOK(m2, s2) /\ objects \in Seq(ObjectType)
  BY <1>2 DEF IndexOK, IndexTypes, Stored
<1>4. ASSUME NEW o \in DOMAIN objects, o2[o].module # NoModule
      PROVE  o2[o].module \in DOMAIN m2 /\ Carries(s2, o2, o, RankModule, m2[o2[o].module].name)
  <2> DEFINE m == objects[o].module
             x == WholeFile(m2[m].symbol, objects[o])
             n == Len(objects[o].insts) + 1
  <2>1. o2[o].module = m /\ m \in DOMAIN modules /\ m \in DOMAIN m2 /\ m \in Pending
    BY <1>1, <1>2, <1>4 DEF Unnamed, Pending
  <2>2. ModuleSymbolOf(m2, s2, m)
    BY <1>1, <1>3, <2>1 DEF ModulesOK
  <2>3. objects[o] \in ObjectType
    BY <1>3
  <2>4. objects[o].insts \in Seq(PlacedType) /\ objects[o].len \in Nat
    BY <2>3 DEF ObjectType
  <2>5. x \in PlacedType /\ x.symbol = m2[m].symbol /\ x.start = 0 /\ x.end = objects[o].len
    <3>1. m2[m] \in ModuleType
      BY <1>3, <2>1
    <3> QED BY <2>4, <3>1 DEF WholeFile, PlacedType, ModuleType
  <2>6. o2[o].insts = Append(objects[o].insts, x) /\ o2[o].len = objects[o].len
    BY <1>2, <2>1
  <2> HIDE DEF x, m
  <2>7. n \in DOMAIN o2[o].insts /\ o2[o].insts[n] = x
    BY <2>4, <2>5, <2>6, AppendAt
  <2> HIDE DEF n
  <2>8. s2[x.symbol].rank = RankModule /\ s2[x.symbol].name = m2[m].name
    BY <2>2, <2>5 DEF ModuleSymbolOf
  <2> QED BY <2>1, <2>5, <2>6, <2>7, <2>8 DEF Carries
<1>5. ASSUME NEW i \in asked \cap Imports, NEW m \in DOMAIN m2, m2[m].name = i.module
      PROVE  HasRef(o2, i.from, m2[m].symbol, i)
  <2>1. PICK k \in DOMAIN importLog :
            /\ importLog[k].from \in FileId(i.from)
            /\ importLog[k].module = i.module
            /\ importLog[k].start = i.start /\ importLog[k].end = i.end
    BY DEF Unnamed, ImportsLogged, ImportLogged
  <2> DEFINE o == importLog[k].from
             b == ImportRefs(m2, o)
  <2>2. o \in DOMAIN objects /\ ~objects[o].sentinel /\ objects[o].path = i.from
    BY <2>1 DEF FileId, FileIds
  <2>3. m2[m].symbol # NoSymbol
    BY <1>1
  <2>4. \E j \in DOMAIN b : b[j] = [to |-> m2[m].symbol, start |-> importLog[k].start, end |-> importLog[k].end]
    <3> HIDE DEF o
    <3>1. \A k2 \in DOMAIN importLog : \A n \in DOMAIN m2 :
             importLog[k2].from = o => ImportIn(ImportRefs(m2, o), importLog[k2], m2[n])
      BY <1>3, ImportRefsLemma
    <3>2. importLog[k].from = o /\ m2[m].name = importLog[k].module
      BY <1>5, <2>1 DEF o
    <3>3. ImportIn(b, importLog[k], m2[m])
      BY <3>1, <3>2
    <3> HIDE DEF b
    <3> QED BY <2>3, <3>2, <3>3 DEF ImportIn
  <2>5. b \in Seq(RefType)
    BY <1>3, ImportRefsLemma
  <2>6. objects[o].refs \in Seq(RefType)
    <3>1. objects[o] \in ObjectType
      BY <1>3, <2>2
    <3> QED BY <3>1 DEF ObjectType
  <2>7. o2[o].refs = objects[o].refs \o b
    BY <1>2, <2>2
  <2> HIDE DEF b, o
  <2>8. ASSUME NEW j \in DOMAIN b PROVE \E q \in DOMAIN o2[o].refs : o2[o].refs[q] = b[j]
    <3> DEFINE a == objects[o].refs
               q == Len(a) + j
    <3>1. a \in Seq(RefType)
      BY <2>6
    <3> HIDE DEF a
    <3>2. q \in DOMAIN (a \o b) /\ (a \o b)[q] = b[j]
      BY <2>5, <3>1, ConcatAt
    <3> QED BY <2>7, <3>2 DEF a
  <2>9. \E q \in DOMAIN o2[o].refs : o2[o].refs[q] = [to |-> m2[m].symbol, start |-> i.start, end |-> i.end]
    BY <2>1, <2>4, <2>8
  <2> QED BY <1>2, <2>2, <2>9 DEF HasRef
<1> QED BY <1>1, <1>2, <1>4, <1>5 DEF Named, ImportKept, m2, s2, o2

(* Once the modules have their symbols the pass has nothing to do.         *)
LEMMA NothingPending ==
    ASSUME Stored, LogTypes, Named(modules, symbols, objects, importLog), NEW order \in Orders(Pending)
    PROVE  /\ ModulesMade(order) = modules
           /\ ModuleSymbolsMade(order) = symbols
           /\ ModuleObjectsMade(order) = objects
<1>1. Pending = {} /\ importLog = <<>>
  BY DEF Named, Pending
<1>2. order = <<>>
  BY <1>1, NoOrder
<1>3. modules \in Seq(ModuleType) /\ symbols \in Seq(SymbolType) /\ objects \in Seq(ObjectType)
      /\ ModulesOK(modules, symbols)
  BY DEF Stored, IndexOK, IndexTypes
<1>4. ModulesMade(order) = modules
  <2>1. ModulesMade(order) = [m \in DOMAIN modules |-> modules[m]]
    BY <1>1 DEF ModulesMade
  <2> QED BY <1>3, <2>1
<1>5. ModuleSymbolsMade(order) = symbols
  <2>1. [k \in DOMAIN order |->
            [name |-> modules[order[k]].name, scope |-> Unspecified, rank |-> RankModule]] = <<>>
    BY <1>2
  <2> QED BY <1>3, <2>1 DEF ModuleSymbolsMade
<1>6. ASSUME NEW o \in DOMAIN objects PROVE ImportRefs(modules, o) = <<>>
  <2> DEFINE refs == ImportRefs(modules, o)
  <2>1. refs \in Seq(RefType) /\ \A k \in DOMAIN refs : importLog # <<>>
    BY <1>3, ImportRefsLemma
  <2> HIDE DEF refs
  <2>2. Len(refs) \in Nat /\ DOMAIN refs = 1 .. Len(refs) /\ \A k \in DOMAIN refs : FALSE
    BY <1>1, <2>1
  <2>3. Len(refs) = 0
    <3>1. ~(1 <= Len(refs))
      BY <2>2
    <3> QED BY <2>2, <3>1
  <2>4. refs = <<>>
    BY <2>1, <2>3
  <2> QED BY <2>4 DEF refs
<1>7. ModuleObjectsMade(order) = objects
  <2> DEFINE o2 == ModuleObjectsMade(order)
  <2>1. o2 = [o \in DOMAIN objects |-> [objects[o] EXCEPT
                !.insts = IF objects[o].module \in Pending
                          THEN Append(@, WholeFile(modules[objects[o].module].symbol, objects[o]))
                          ELSE @,
                !.refs = @ \o ImportRefs(modules, o)]]
    BY <1>4 DEF ModuleObjectsMade
  <2>2. ASSUME NEW o \in DOMAIN objects PROVE o2[o] = objects[o]
    <3>1. objects[o] \in ObjectType
      BY <1>3
    <3>2. objects[o].refs \o ImportRefs(modules, o) = objects[o].refs
      BY <1>6, <3>1 DEF ObjectType
    <3>3. o2[o] = [objects[o] EXCEPT !.insts = objects[o].insts, !.refs = objects[o].refs]
      BY <1>1, <2>1, <3>2
    <3> QED BY <3>1, <3>3 DEF ObjectType
  <2> HIDE DEF o2
  <2>3. DOMAIN o2 = DOMAIN objects /\ o2 = [o \in DOMAIN objects |-> o2[o]]
    BY <2>1
  <2> QED BY <1>3, <2>2, <2>3 DEF o2
<1> QED BY <1>4, <1>5, <1>7

(* The pass over the directories leaves that as it is, and gives every     *)
(* file its directory.                                                     *)
LEMMA NamedByDirectories ==
    ASSUME NEW mods, NEW syms, NEW objs, NEW decl, IndexOK(mods, syms, objs, decl, FALSE),
           DOMAIN objs = DOMAIN objects,
           \A o \in DOMAIN objs : objs[o].path = objects[o].path /\ objs[o].sentinel = objects[o].sentinel,
           NEW order \in Orders(DirSet),
           RefsOnce(syms, objs, <<>>),
           Named(mods, syms, objs, <<>>),
           NEW s3, s3 = DirectorySymbolsMade(syms, order),
           NEW o3, o3 = DirectoryObjectsMade(syms, objs, order)
    PROVE  /\ Named(mods, s3, o3, <<>>)
           /\ \A o \in DOMAIN o3 :
                 ~o3[o].sentinel => Carries(s3, o3, o, RankDirectory, ParentDir[o3[o].path])
<1>1. DirectoriesIn(syms, objs, order, o3)
  BY DirectoryObjectsLemma
<1>2. \A s \in DOMAIN syms : s \in DOMAIN s3 /\ s3[s] = syms[s]
  <2>1. \A s \in DOMAIN syms : /\ s \in DOMAIN DirectorySymbolsMade(syms, order)
                              /\ DirectorySymbolsMade(syms, order)[s] = syms[s]
    BY DirectorySymbolsLemma
  <2> QED BY <2>1
<1>3. \A d \in DirSet : /\ SymbolOf(syms, order, d) \in DOMAIN s3
                        /\ s3[SymbolOf(syms, order, d)] = DirectorySymbol(d)
  <2>1. \A d \in DirSet : /\ SymbolOf(syms, order, d) \in DOMAIN DirectorySymbolsMade(syms, order)
                          /\ SymbolOf(syms, order, d) \notin DOMAIN syms
                          /\ DirectorySymbolsMade(syms, order)[SymbolOf(syms, order, d)] = DirectorySymbol(d)
    BY DirectorySymbolsLemma
  <2> QED BY <2>1
<1>4. /\ syms \in Seq(SymbolType) /\ objs \in Seq(ObjectType) /\ ObjectsOK(syms, objs, decl)
      /\ mods \in Seq(ModuleType)
  BY DEF IndexOK, IndexTypes
<1>5. ASSUME NEW o \in DOMAIN objs
      PROVE  /\ objs[o].insts \in Seq(PlacedType) /\ objs[o].len \in Nat /\ objs[o].path \in DOMAIN ParentDir
             /\ o \in DOMAIN o3 /\ o3[o].len = objs[o].len /\ o3[o].module = objs[o].module
             /\ o3[o].path = objs[o].path /\ o3[o].sentinel = objs[o].sentinel
             /\ o3[o].insts = IF objs[o].sentinel THEN objs[o].insts
                              ELSE Append(objs[o].insts, WholeFile(SymbolOf(syms, order, ParentDir[objs[o].path]), objs[o]))
  <2>1. objs[o] \in ObjectType
    BY <1>4
  <2>2. o \in DOMAIN o3 /\ o3[o] = InDirectory(syms, order, objs[o])
    BY <1>1 DEF DirectoriesIn
  <2> QED BY <2>1, <2>2 DEF InDirectory, WithInsts, ObjectType
<1>6. ASSUME NEW o \in DOMAIN objs, NEW k \in DOMAIN objs[o].insts
      PROVE  /\ k \in DOMAIN o3[o].insts /\ o3[o].insts[k] = objs[o].insts[k]
             /\ s3[o3[o].insts[k].symbol] = syms[objs[o].insts[k].symbol]
  <2> DEFINE x == WholeFile(SymbolOf(syms, order, ParentDir[objs[o].path]), objs[o])
             a == objs[o].insts
  <2>1. o3[o].insts = a \/ o3[o].insts = Append(a, x)
    BY <1>5
  <2>2. DOMAIN a = 1 .. Len(a) /\ Len(a) \in Nat /\ a[k].symbol \in DOMAIN syms
    BY <1>4, <1>5 DEF ObjectsOK
  <2> HIDE DEF x, a
  <2>3. k \in DOMAIN Append(a, x) /\ Append(a, x)[k] = a[k]
    <3>1. a \in Seq(PlacedType) /\ k \in DOMAIN a
      BY <1>5 DEF a
    <3> QED BY <2>2, <3>1
  <2>4. k \in DOMAIN o3[o].insts /\ o3[o].insts[k] = a[k]
    BY <2>1, <2>3 DEF a
  <2> QED BY <1>2, <2>2, <2>4 DEF a
<1>7. ASSUME NEW o \in DOMAIN o3, o \notin DOMAIN objs
      PROVE  o3[o].module = NoModule /\ o3[o].sentinel
  BY <1>1, <1>7 DEF DirectoriesIn, SentinelOf
<1>8. ASSUME NEW o \in DOMAIN o3, o3[o].module # NoModule
      PROVE  o3[o].module \in DOMAIN mods /\ Carries(s3, o3, o, RankModule, mods[o3[o].module].name)
  <2>1. o \in DOMAIN objs
    BY <1>7, <1>8
  <2>2. objs[o].module = o3[o].module /\ o3[o].module \in DOMAIN mods
        /\ Carries(syms, objs, o, RankModule, mods[o3[o].module].name)
    BY <1>5, <1>8, <2>1 DEF Named
  <2>3. PICK k \in DOMAIN objs[o].insts :
            /\ syms[objs[o].insts[k].symbol].rank = RankModule
            /\ syms[objs[o].insts[k].symbol].name = mods[o3[o].module].name
            /\ objs[o].insts[k].start = 0 /\ objs[o].insts[k].end = objs[o].len
    BY <2>2 DEF Carries
  <2>4. /\ k \in DOMAIN o3[o].insts /\ o3[o].insts[k] = objs[o].insts[k]
        /\ s3[o3[o].insts[k].symbol] = syms[objs[o].insts[k].symbol]
        /\ o3[o].len = objs[o].len
    BY <1>5, <1>6, <2>1
  <2> QED BY <2>2, <2>3, <2>4 DEF Carries
<1>9. \A i \in asked \cap Imports : ImportKept(mods, o3, i)
  <2>1. RefsExtend(objs, o3)
    BY DirectoriesAdded
  <2> QED BY <2>1, ImportStaysKept DEF Named
<1>10. ASSUME NEW o \in DOMAIN o3, ~o3[o].sentinel
       PROVE  Carries(s3, o3, o, RankDirectory, ParentDir[o3[o].path])
  <2> DEFINE d == ParentDir[objs[o].path]
             x == WholeFile(SymbolOf(syms, order, d), objs[o])
             a == objs[o].insts
             n == Len(a) + 1
  <2>1. o \in DOMAIN objs
    BY <1>7, <1>10
  <2>2. ~objs[o].sentinel /\ o3[o].insts = Append(a, x) /\ o3[o].path = objs[o].path /\ o3[o].len = objs[o].len
    BY <1>5, <1>10, <2>1
  <2>3. d \in DirSet
    <3>1. o \in FileIds /\ objects[o].path = objs[o].path /\ objs[o].path \in DOMAIN ParentDir
      BY <1>5, <2>1, <2>2 DEF FileIds
    <3> QED BY <3>1, DirSetLemma
  <2>4. /\ SymbolOf(syms, order, d) \in DOMAIN s3
        /\ s3[SymbolOf(syms, order, d)] = DirectorySymbol(d)
    BY <1>3, <2>3
  <2>5. s3 \in Seq(SymbolType)
    <3>1. IndexOK(mods, s3, objs, decl, TRUE)
      BY DirectorySymbolsLemma
    <3> QED BY <3>1 DEF IndexOK, IndexTypes
  <2>6. SymbolOf(syms, order, d) \in Nat
    BY <2>4, <2>5
  <2>7. a \in Seq(PlacedType) /\ objs[o].len \in Nat
    BY <1>5, <2>1
  <2>8. x \in PlacedType /\ x.symbol = SymbolOf(syms, order, d) /\ x.start = 0 /\ x.end = objs[o].len
    BY <2>6, <2>7 DEF WholeFile, PlacedType
  <2> HIDE DEF x, d, a
  <2>9. n \in DOMAIN o3[o].insts /\ o3[o].insts[n] = x
    BY <2>2, <2>7, <2>8, AppendAt
  <2> HIDE DEF n
  <2>10. DirectorySymbol(d).rank = RankDirectory /\ DirectorySymbol(d).name = d
    BY DEF DirectorySymbol
  <2>11. ParentDir[o3[o].path] = d
    BY <2>2 DEF d
  <2> QED BY <2>2, <2>4, <2>8, <2>9, <2>10, <2>11 DEF Carries
<1> QED BY <1>8, <1>9, <1>10 DEF Named

(* The sentinels, and which of them lead to sentinel q.                    *)
SentinelIds(objs) == {o \in DOMAIN objs : objs[o].sentinel}
LeadsTo(syms, refs, d) ==
    \E k \in DOMAIN refs : /\ refs[k].to \in DOMAIN syms
                            /\ syms[refs[k].to].rank = RankDirectory /\ syms[refs[k].to].name = d
LeadTo(syms, objs, q) == {o \in SentinelIds(objs) : LeadsTo(syms, objs[o].refs, objs[q].path)}
TreeIn(syms, objs) ==
    \A q \in SentinelIds(objs) :
        IF objs[q].path = Top THEN LeadTo(syms, objs, q) = {}
        ELSE \E o \in SentinelIds(objs) :
                LeadTo(syms, objs, q) = {o} /\ objs[o].path = ParentDir[objs[q].path]

(* A sentinel leads to the directories right below its own. *)
LEMMA SentinelLeads ==
    ASSUME NEW mods, NEW syms, NEW objs, NEW decl, IndexOK(mods, syms, objs, decl, FALSE),
           NEW order \in Orders(DirSet), NEW d \in DirSet, NEW c \in DirSet
    PROVE  LeadsTo(DirectorySymbolsMade(syms, order), RefsToChildren(syms, order, d), c)
                <=> c # d /\ ParentDir[c] = d
<1> DEFINE s3 == DirectorySymbolsMade(syms, order)
           refs == RefsToChildren(syms, order, d)
<1>1. \A a \in DirSet : /\ SymbolOf(syms, order, a) \in DOMAIN s3
                        /\ s3[SymbolOf(syms, order, a)] = DirectorySymbol(a)
  <2>1. \A a \in DirSet : /\ SymbolOf(syms, order, a) \in DOMAIN DirectorySymbolsMade(syms, order)
                          /\ SymbolOf(syms, order, a) \notin DOMAIN syms
                          /\ DirectorySymbolsMade(syms, order)[SymbolOf(syms, order, a)] = DirectorySymbol(a)
    BY DirectorySymbolsLemma
  <2> QED BY <2>1
<1>2. syms \in Seq(SymbolType)
  BY DEF IndexOK, IndexTypes
<1>3. /\ \A k \in DOMAIN refs : \E a \in Below(order, d) : refs[k] = ToDirectory(syms, order, a)
      /\ \A a \in Below(order, d) : \E k \in DOMAIN refs : refs[k] = ToDirectory(syms, order, a)
  BY <1>2, ChildrenLemma
<1> HIDE DEF s3, refs
<1>4. \A a : a \in Below(order, d) <=> a \in DirSet /\ a # d /\ ParentDir[a] = d
  BY DirOrder DEF Below
<1>5. \A a : DirectorySymbol(a).rank = RankDirectory /\ DirectorySymbol(a).name = a
  BY DEF DirectorySymbol
<1>6. \A a : ToDirectory(syms, order, a).to = SymbolOf(syms, order, a)
  BY DEF ToDirectory
<1>7. ASSUME NEW k \in DOMAIN refs, s3[refs[k].to].name = c
      PROVE  c # d /\ ParentDir[c] = d
  <2>1. PICK a \in Below(order, d) : refs[k] = ToDirectory(syms, order, a)
    BY <1>3
  <2>2. s3[refs[k].to].name = a
    BY <1>1, <1>4, <1>5, <1>6, <2>1
  <2> QED BY <1>4, <1>7, <2>1, <2>2
<1>8. ASSUME c # d, ParentDir[c] = d
      PROVE  \E k \in DOMAIN refs : /\ refs[k].to \in DOMAIN s3
                                    /\ s3[refs[k].to].rank = RankDirectory /\ s3[refs[k].to].name = c
  <2>1. PICK k \in DOMAIN refs : refs[k] = ToDirectory(syms, order, c)
    BY <1>3, <1>4, <1>8
  <2>2. refs[k].to \in DOMAIN s3 /\ s3[refs[k].to] = DirectorySymbol(c)
    BY <1>1, <1>6, <2>1
  <2> QED BY <1>5, <2>2
<1>9. LeadsTo(s3, refs, c) <=> c # d /\ ParentDir[c] = d
  BY <1>7, <1>8 DEF LeadsTo
<1> QED BY <1>9 DEF s3, refs

(* Every directory but the root is led to by the sentinel of the one above *)
(* it, and by no other; none leads to the root.                            *)
LEMMA DirectoryTreeLemma ==
    ASSUME NEW mods, NEW syms, NEW objs, NEW decl, IndexOK(mods, syms, objs, decl, FALSE),
           DOMAIN objs = DOMAIN objects,
           \A o \in DOMAIN objs : objs[o].path = objects[o].path /\ objs[o].sentinel = objects[o].sentinel,
           \A o \in DOMAIN objs : ~objs[o].sentinel,
           NEW order \in Orders(DirSet),
           NEW s3, s3 = DirectorySymbolsMade(syms, order),
           NEW o3, o3 = DirectoryObjectsMade(syms, objs, order)
    PROVE  TreeIn(s3, o3)
<1>1. DirectoriesIn(syms, objs, order, o3)
  BY DirectoryObjectsLemma
<1>2. objs \in Seq(ObjectType)
  BY DEF IndexOK, IndexTypes
<1>3. ASSUME NEW o \in SentinelIds(o3) PROVE o \in DOMAIN o3 \ DOMAIN objs
  <2>1. ASSUME o \in DOMAIN objs PROVE FALSE
    <3>1. o3[o] = objs[o] \/ o3[o].sentinel = objs[o].sentinel
      <4>1. objs[o] \in ObjectType /\ o3[o] = InDirectory(syms, order, objs[o])
        BY <1>1, <1>2, <2>1 DEF DirectoriesIn
      <4> QED BY <4>1 DEF InDirectory, WithInsts, ObjectType
    <3> QED BY <2>1, <3>1 DEF SentinelIds
  <2> QED BY <2>1 DEF SentinelIds
<1>4. ASSUME NEW o \in SentinelIds(o3)
      PROVE  \E d \in DirSet : /\ o = Len(objs) + PositionIn(order, d)
                               /\ o3[o].path = d /\ o3[o].refs = RefsToChildren(syms, order, d)
  <2>1. PICK d \in DirSet : o3[o] = SentinelOf(syms, order, d) /\ o = Len(objs) + PositionIn(order, d)
    BY <1>1, <1>3 DEF DirectoriesIn
  <2> QED BY <2>1 DEF SentinelOf
<1>5. ASSUME NEW d \in DirSet PROVE \E o \in SentinelIds(o3) : o3[o].path = d
  <2>1. PICK o \in DOMAIN o3 \ DOMAIN objs : o3[o] = SentinelOf(syms, order, d)
    BY <1>1 DEF DirectoriesIn
  <2> QED BY <2>1 DEF SentinelOf, SentinelIds
<1>6. \A o, q \in SentinelIds(o3) : o3[o].path = o3[q].path => o = q
  BY <1>4
<1>7. ASSUME NEW o \in SentinelIds(o3), NEW q \in SentinelIds(o3)
      PROVE  o \in LeadTo(s3, o3, q) <=> o3[q].path # o3[o].path /\ ParentDir[o3[q].path] = o3[o].path
  <2>1. o3[o].path \in DirSet /\ o3[o].refs = RefsToChildren(syms, order, o3[o].path) /\ o3[q].path \in DirSet
    BY <1>4
  <2>2. LeadsTo(s3, o3[o].refs, o3[q].path)
          <=> o3[q].path # o3[o].path /\ ParentDir[o3[q].path] = o3[o].path
    <3>1. \A d, c \in DirSet : LeadsTo(DirectorySymbolsMade(syms, order), RefsToChildren(syms, order, d), c)
                                  <=> c # d /\ ParentDir[c] = d
      BY SentinelLeads
    <3> QED BY <2>1, <3>1
  <2> QED BY <2>2 DEF LeadTo
<1>8. ASSUME NEW q \in SentinelIds(o3)
      PROVE  IF o3[q].path = Top THEN LeadTo(s3, o3, q) = {}
             ELSE \E o \in SentinelIds(o3) : LeadTo(s3, o3, q) = {o} /\ o3[o].path = ParentDir[o3[q].path]
  <2> DEFINE L == LeadTo(s3, o3, q)
  <2>1. L \subseteq SentinelIds(o3)
    BY DEF LeadTo
  <2>2. o3[q].path \in DirSet
    BY <1>4
  <2>3. ASSUME o3[q].path = Top PROVE L = {}
    <3>1. ParentDir[Top] = Top
      BY DirAssumption
    <3>2. ASSUME NEW o \in L PROVE FALSE
      BY <1>7, <2>1, <2>3, <3>1, <3>2
    <3> QED BY <3>2
  <2>4. ASSUME o3[q].path # Top
        PROVE  \E o \in SentinelIds(o3) : L = {o} /\ o3[o].path = ParentDir[o3[q].path]
    <3>1. o3[q].path \in Dirs /\ ParentDir[o3[q].path] \in DirSet
      BY <2>2, DirSetLemma
    <3>2. ParentDir[o3[q].path] # o3[q].path
      BY <2>4, <3>1, DirAssumption
    <3>3. PICK o \in SentinelIds(o3) : o3[o].path = ParentDir[o3[q].path]
      BY <1>5, <3>1
    <3>4. o \in L
      BY <1>7, <3>2, <3>3
    <3>5. \A x \in L : x = o
      BY <1>6, <1>7, <2>1, <3>3
    <3> HIDE DEF L
    <3> QED BY <3>3, <3>4, <3>5
  <2> QED BY <2>3, <2>4
<1> QED BY <1>8 DEF TreeIn

(* The same, as the property says it.                                      *)
LEMMA TreeInStore == TreeIn(symbols, objects) => DirectoryTree
<1> SUFFICES ASSUME TreeIn(symbols, objects) PROVE DirectoryTree
  OBVIOUS
<1>1. Sentinels = SentinelIds(objects)
  BY DEF Sentinels, SentinelIds, FileIds
<1>2. ASSUME NEW q \in Sentinels
      PROVE  {o \in Sentinels : \E k \in DOMAIN objects[o].refs : objects[o].refs[k].to \in DirId(objects[q].path)}
                = LeadTo(symbols, objects, q)
  BY <1>1 DEF LeadTo, LeadsTo, DirId
<1> QED BY <1>1, <1>2 DEF DirectoryTree, TreeIn

-----------------------------------------------------------------------------
(* The invariant of a run: what the store holds in each phase.             *)

Phases == {"parse", "git", "resolve", "marshal", "written", "failed"}

(* While the index is filled. *)
Filling ==
    /\ ~dirsDone
    /\ \A o \in DOMAIN objects : ~objects[o].sentinel /\ objects[o].refs = <<>>
    /\ Unnamed
    /\ UsesLogged

UsesKept == \A r \in asked \cap References : UseKept(symbols, objects, declared, r)

(* Between the references and the index. *)
Ready ==
    /\ ~dirsDone
    /\ \A o \in DOMAIN objects : ~objects[o].sentinel
    /\ RefsOnce(symbols, objects, importLog)
    /\ UsesKept
    /\ Unnamed \/ Named(modules, symbols, objects, importLog)

(* Once the index is made. *)
Made ==
    /\ ~MakesDirectories
    /\ Named(modules, symbols, objects, importLog)
    /\ RefsOnce(symbols, objects, importLog)
    /\ UsesKept
    /\ \A o \in DOMAIN objects : ~objects[o].sentinel =>
          Carries(symbols, objects, o, RankDirectory, ParentDir[objects[o].path])
    /\ TreeIn(symbols, objects)
    /\ tree = TreeOf(symbols, objects)

RunInv ==
    /\ IndexInv
    /\ dirsDone \in BOOLEAN
    /\ phase \in Phases
    /\ phase \in {"parse", "git", "resolve"} => Filling
    /\ phase = "marshal" => Ready
    /\ phase = "written" => Made

-----------------------------------------------------------------------------
(* The index is filled. *)

(* What was logged stays logged when the logs and the files do.            *)
LEMMA LogsKept ==
    ASSUME Grows
    PROVE  /\ \A r : UseLogged(r) /\ (\A k \in DOMAIN refLog : k \in DOMAIN refLog' /\ refLog'[k] = refLog[k])
                        => UseLogged(r)'
           /\ \A i : ImportLogged(i) /\ (\A k \in DOMAIN importLog : k \in DOMAIN importLog' /\ importLog'[k] = importLog[k])
                        => ImportLogged(i)'
<1>1. \A path : \A o \in FileId(path) : o \in FileId(path)'
  BY DEF Grows, FileId, FileIds
<1>2. ASSUME NEW r, UseLogged(r), \A k \in DOMAIN refLog : k \in DOMAIN refLog' /\ refLog'[k] = refLog[k]
      PROVE  UseLogged(r)'
  <2>1. PICK k \in DOMAIN refLog :
            /\ refLog[k].from \in FileId(r.from) /\ refLog[k].to = r.to /\ refLog[k].name = r.name
            /\ refLog[k].start = r.start /\ refLog[k].end = r.end
    BY <1>2 DEF UseLogged
  <2>2. k \in DOMAIN refLog' /\ refLog'[k] = refLog[k]
    BY <1>2
  <2> QED BY <1>1, <2>1, <2>2 DEF UseLogged
<1>3. ASSUME NEW i, ImportLogged(i),
             \A k \in DOMAIN importLog : k \in DOMAIN importLog' /\ importLog'[k] = importLog[k]
      PROVE  ImportLogged(i)'
  <2>1. PICK k \in DOMAIN importLog :
            /\ importLog[k].from \in FileId(i.from) /\ importLog[k].module = i.module
            /\ importLog[k].start = i.start /\ importLog[k].end = i.end
    BY <1>3 DEF ImportLogged
  <2>2. k \in DOMAIN importLog' /\ importLog'[k] = importLog[k]
    BY <1>3
  <2> QED BY <1>1, <2>1, <2>2 DEF ImportLogged
<1> QED BY <1>2, <1>3

Plain(mods, objs) ==
    /\ \A o \in DOMAIN objs : ~objs[o].sentinel /\ objs[o].refs = <<>>
    /\ \A m \in DOMAIN mods : mods[m].symbol = NoSymbol
    /\ \A o \in DOMAIN objs : objs[o].module # NoModule => objs[o].module \in DOMAIN mods

(* While the objects have no reference and no sentinel.                    *)
LEMMA FillingKept ==
    ASSUME Filling, Grows, dirsDone' = dirsDone, Plain(modules', objects'),
           \A k \in DOMAIN refLog : k \in DOMAIN refLog' /\ refLog'[k] = refLog[k],
           \A k \in DOMAIN importLog : k \in DOMAIN importLog' /\ importLog'[k] = importLog[k],
           \A r \in asked' \cap References : r \in asked \/ UseLogged(r)',
           \A i \in asked' \cap Imports : i \in asked \/ ImportLogged(i)'
    PROVE  Filling'
<1>1. UsesLogged'
  <2> SUFFICES ASSUME NEW r \in asked' \cap References PROVE UseLogged(r)'
    BY DEF UsesLogged
  <2>1. CASE r \in asked
    BY <2>1, LogsKept DEF Filling, UsesLogged
  <2> QED BY <2>1
<1>2. ImportsLogged'
  <2> SUFFICES ASSUME NEW i \in asked' \cap Imports PROVE ImportLogged(i)'
    BY DEF ImportsLogged
  <2>1. CASE i \in asked
    BY <2>1, LogsKept DEF Filling, Unnamed, ImportsLogged
  <2> QED BY <2>1
<1> QED BY <1>1, <1>2 DEF Filling, Plain, Unnamed

(* AddModule while the index is filled.                                    *)
LEMMA FillingModule ==
    ASSUME IndexInv, Filling, NEW name \in ModuleNames, AddModule(name), asked' = asked
    PROVE  Filling'
<1> DEFINE x == [name |-> name, symbol |-> NoSymbol]
<1>1. modules \in Seq(ModuleType) /\ x \in ModuleType
  BY DEF IndexInv, Stored, IndexOK, IndexTypes, ModuleType, NoSymbol
<1>2. x.symbol = NoSymbol /\ modules' = Append(modules, x)
      /\ UNCHANGED <<objects, dirsDone, refLog, importLog>>
  BY DEF AddModule
<1> HIDE DEF x
<1>3. /\ \A m \in DOMAIN modules : m \in DOMAIN modules' /\ modules'[m] = modules[m]
      /\ \A m \in DOMAIN modules' : m \in DOMAIN modules \/ modules'[m] = x
  BY <1>1, <1>2, AppendAt
<1>4. Plain(modules', objects')
  BY <1>2, <1>3 DEF Filling, Unnamed, Plain
<1>5. Grows
  BY AddModuleStep
<1> QED BY <1>2, <1>4, <1>5, FillingKept

(* AddFile while the index is filled.                                      *)
LEMMA FillingFile ==
    ASSUME IndexInv, Filling, NEW f \in Files, NEW m \in DOMAIN modules \cup {NoModule}, AddFile(m, f),
           asked' = asked
    PROVE  Filling'
<1> DEFINE x == [path |-> f.path, sentinel |-> FALSE, hash |-> f.hash, len |-> f.len, module |-> m,
                 insts |-> <<[symbol |-> Len(symbols) + 1, start |-> 0, end |-> f.len]>>, refs |-> <<>>]
<1>1. Grows /\ IndexInv'
  BY AddFileStep
<1>2. objects \in Seq(ObjectType) /\ objects' \in Seq(ObjectType)
  BY <1>1 DEF IndexInv, Stored, IndexOK, IndexTypes
<1>3. ~x.sentinel /\ x.refs = <<>> /\ x.module = m /\ objects' = Append(objects, x)
      /\ UNCHANGED <<modules, dirsDone, refLog, importLog>>
  BY DEF AddFile
<1> HIDE DEF x
<1>4. \A o \in DOMAIN objects' : (o \in DOMAIN objects /\ objects'[o] = objects[o]) \/ objects'[o] = x
  BY <1>2, <1>3
<1>5. Plain(modules', objects')
  BY <1>3, <1>4 DEF Filling, Unnamed, Plain
<1> QED BY <1>1, <1>3, <1>5, FillingKept

(* AddSymbol while the index is filled.                                    *)
LEMMA FillingSymbol ==
    ASSUME IndexInv, Filling, NEW d \in Declarations, NEW o \in FileId(d.path), asked' = asked,
           \/ \E p \in ParentIds(d) : AddSymbol(o, d, p)
           \/ AddSymbolAgain(o, d)
    PROVE  Filling'
<1>1. Grows
  BY AddSymbolStep, AddSymbolAgainStep
<1>2. objects \in Seq(ObjectType)
  BY DEF IndexInv, Stored, IndexOK, IndexTypes
<1>3. UNCHANGED <<modules, dirsDone, refLog, importLog>>
  BY DEF AddSymbol, AddSymbolAgain
<1>4. DOMAIN objects' = DOMAIN objects /\ \A q \in DOMAIN objects : objects'[q].refs = objects[q].refs
  <2>1. CASE AddSymbolAgain(o, d)
    BY <2>1 DEF AddSymbolAgain
  <2>2. CASE \E p \in ParentIds(d) : AddSymbol(o, d, p)
    <3>1. \E insts : objects' = [objects EXCEPT ![o].insts = insts]
      BY <2>2 DEF AddSymbol
    <3>2. \A q \in DOMAIN objects : objects[q] \in ObjectType
      BY <1>2
    <3> QED BY <3>1, <3>2 DEF ObjectType
  <2> QED BY <2>1, <2>2
<1>5. Plain(modules', objects')
  BY <1>1, <1>3, <1>4 DEF Filling, Unnamed, Plain, Grows
<1> QED BY <1>1, <1>3, <1>5, FillingKept

(* AddReference: the use is in the log.                                    *)
LEMMA FillingUse ==
    ASSUME IndexInv, Filling, NEW r \in References, NEW o \in FileId(r.from), AddReference(o, r),
           asked' = asked \cup {r}
    PROVE  Filling'
<1> DEFINE x == [from |-> o, to |-> r.to, name |-> r.name, start |-> r.start, end |-> r.end]
           n == Len(refLog) + 1
<1>1. Grows /\ IndexInv'
  BY AddReferenceStep
<1>2. refLog \in Seq(UseType) /\ refLog' \in Seq(UseType)
  BY <1>1 DEF IndexInv, LogTypes
<1>3. /\ x.from = o /\ x.to = r.to /\ x.name = r.name /\ x.start = r.start /\ x.end = r.end
      /\ refLog' = Append(refLog, x)
      /\ UNCHANGED <<modules, objects, dirsDone, importLog>>
  BY DEF AddReference
<1> HIDE DEF x
<1>4. /\ \A k \in DOMAIN refLog : k \in DOMAIN refLog' /\ refLog'[k] = refLog[k]
      /\ n \in DOMAIN refLog' /\ refLog'[n] = x
  BY <1>2, <1>3
<1> HIDE DEF n
<1>5. Plain(modules', objects')
  BY <1>3 DEF Filling, Unnamed, Plain
<1>6. UseLogged(r)'
  <2>1. o \in FileId(r.from)'
    BY <1>3 DEF FileId, FileIds
  <2> QED BY <1>3, <1>4, <2>1 DEF UseLogged
<1>7. \A i \in asked' \cap Imports : i \in asked
  BY InputAssumption
<1> QED BY <1>1, <1>3, <1>4, <1>5, <1>6, <1>7, FillingKept

(* AddModuleImport: the import is in the log.                              *)
LEMMA FillingImport ==
    ASSUME IndexInv, Filling, NEW i \in Imports, NEW o \in FileId(i.from), AddModuleImport(o, i),
           asked' = asked \cup {i}
    PROVE  Filling'
<1> DEFINE x == [from |-> o, module |-> i.module, start |-> i.start, end |-> i.end]
           n == Len(importLog) + 1
<1>1. Grows /\ IndexInv'
  BY AddModuleImportStep
<1>2. importLog \in Seq(ImportType) /\ importLog' \in Seq(ImportType)
  BY <1>1 DEF IndexInv, LogTypes
<1>3. /\ x.from = o /\ x.module = i.module /\ x.start = i.start /\ x.end = i.end
      /\ importLog' = Append(importLog, x)
      /\ UNCHANGED <<modules, objects, dirsDone, refLog>>
  BY DEF AddModuleImport
<1> HIDE DEF x
<1>4. /\ \A k \in DOMAIN importLog : k \in DOMAIN importLog' /\ importLog'[k] = importLog[k]
      /\ n \in DOMAIN importLog' /\ importLog'[n] = x
  BY <1>2, <1>3
<1> HIDE DEF n
<1>5. Plain(modules', objects')
  BY <1>3 DEF Filling, Unnamed, Plain
<1>6. ImportLogged(i)'
  <2>1. o \in FileId(i.from)'
    BY <1>3 DEF FileId, FileIds
  <2> QED BY <1>3, <1>4, <2>1 DEF ImportLogged
<1>7. \A r \in asked' \cap References : r \in asked
  BY InputAssumption
<1> QED BY <1>1, <1>3, <1>4, <1>5, <1>6, <1>7, FillingKept

(* Nothing happens while the index is filled.                              *)
LEMMA FillingStutter == ASSUME Filling, UNCHANGED vars, asked' = asked PROVE Filling'
  BY DEF Filling, vars, Unnamed, UsesLogged, ImportsLogged, UseLogged, ImportLogged, FileId, FileIds

-----------------------------------------------------------------------------
(* The references are resolved, and the index is made. *)

(* ResolveReferences turns every use in the log into a reference, except   *)
(* one of a C name, or fails.                                              *)
LEMMA ReadyResolved ==
    ASSUME IndexInv, Filling, ResolveReferences, asked' = asked
    PROVE  Ready'
<1> DEFINE new == WithRefs(refLog)
<1>1. /\ objects' = new /\ Unresolved = {}
      /\ UNCHANGED <<modules, symbols, byFileAndName, declared, importLog, dirsDone>>
  BY DEF ResolveReferences
<1>2. Stored /\ NamesPoint /\ refLog \in Seq(UseType) /\ objects \in Seq(ObjectType)
  BY DEF IndexInv, LogTypes, Stored, IndexOK, IndexTypes
<1>3. /\ DOMAIN new = DOMAIN objects
      /\ \A o \in DOMAIN objects :
            /\ new[o].path = objects[o].path /\ new[o].sentinel = objects[o].sentinel
            /\ new[o].module = objects[o].module
            /\ new[o].refs = objects[o].refs \o Resolved(refLog, o)
  BY <1>2, WithRefsLemma
<1> HIDE DEF new
<1>4. ASSUME NEW o \in DOMAIN objects
      PROVE  /\ new[o].refs = Resolved(refLog, o)
             /\ IsInjective(new[o].refs)
             /\ \A k \in DOMAIN new[o].refs : /\ new[o].refs[k].to \in DOMAIN symbols
                                              /\ symbols[new[o].refs[k].to].rank = RankOther
  <2> DEFINE refs == Resolved(refLog, o)
  <2>1. /\ refs \in Seq(RefType) /\ IsInjective(refs)
        /\ \A k \in DOMAIN refs : refs[k].to \in DOMAIN symbols /\ symbols[refs[k].to].rank = RankOther
    BY <1>2, ResolvedLemma
  <2> HIDE DEF refs
  <2>2. new[o].refs = <<>> \o refs
    BY <1>3 DEF Filling, refs
  <2>3. <<>> \o refs = refs
    BY <2>1
  <2> QED BY <2>1, <2>2, <2>3 DEF refs
<1>5. RefsOnce(symbols', objects', importLog')
  BY <1>1, <1>3, <1>4 DEF RefsOnce
<1>6. ASSUME NEW r \in asked \cap References, r.name \notin CNames
      PROVE  UseKept(symbols, new, declared, r)
  <2>1. PICK k \in DOMAIN refLog :
            /\ refLog[k].from \in FileId(r.from) /\ refLog[k].to = r.to /\ refLog[k].name = r.name
            /\ refLog[k].start = r.start /\ refLog[k].end = r.end
    BY DEF Filling, UsesLogged, UseLogged
  <2>2. Resolvable(refLog[k])
    BY <1>1, <1>6, <2>1 DEF Unresolved
  <2> DEFINE o == refLog[k].from
             s == byFileAndName[<<refLog[k].to, refLog[k].name>>]
  <2>3. s \in DOMAIN symbols /\ symbols[s].name = r.name
        /\ \E i \in DOMAIN declared : declared[i].symbol = s /\ objects[declared[i].object].path = r.to
    <3> DEFINE key == <<refLog[k].to, refLog[k].name>>
    <3>1. key \in DOMAIN byFileAndName /\ key[1] = r.to /\ key[2] = r.name
      BY <2>1, <2>2 DEF Resolvable
    <3>2. s = byFileAndName[key]
      OBVIOUS
    <3> HIDE DEF key, s
    <3> QED BY <1>2, <3>1, <3>2 DEF NamesPoint
  <2>4. o \in DOMAIN objects /\ ~objects[o].sentinel /\ objects[o].path = r.from
    BY <2>1 DEF FileId, FileIds
  <2>5. \E j \in DOMAIN Resolved(refLog, o) :
            Resolved(refLog, o)[j] = [to |-> s, start |-> refLog[k].start, end |-> refLog[k].end]
    <3> HIDE DEF o
    <3>1. \A k2 \in DOMAIN refLog : refLog[k2].from = o => UseIn(Resolved(refLog, o), refLog[k2])
      BY <1>2, ResolvedLemma
    <3>2. refLog[k].from = o
      BY DEF o
    <3>3. UseIn(Resolved(refLog, o), refLog[k])
      BY <3>1, <3>2
    <3> QED BY <2>2, <3>3 DEF UseIn
  <2> HIDE DEF o, s
  <2>6. HasRef(new, r.from, s, r)
    BY <1>3, <1>4, <2>1, <2>4, <2>5 DEF HasRef
  <2>7. \E i \in DOMAIN declared : /\ declared[i].symbol = s /\ declared[i].object \in DOMAIN new
                                   /\ new[declared[i].object].path = r.to
    <3>1. \A i \in DOMAIN declared : declared[i].object \in DOMAIN objects
      BY <1>2 DEF Stored, IndexOK, DeclaredOK, SlotHolds
    <3> QED BY <1>3, <2>3, <3>1
  <2> QED BY <2>3, <2>6, <2>7 DEF UseKept
<1>7. UsesKept'
  <2>1. ASSUME NEW r \in asked \cap References PROVE UseKept(symbols, new, declared, r)
    <3>1. CASE r.name \in CNames
      BY <3>1 DEF UseKept
    <3> QED BY <1>6, <3>1
  <2> QED BY <1>1, <2>1 DEF UsesKept
<1>8. Unnamed'
  <2>1. Grows
    BY ResolveReferencesStep
  <2>2. ImportsLogged'
    BY <1>1, <2>1, LogsKept DEF Filling, Unnamed, ImportsLogged
  <2> QED BY <1>1, <1>3, <2>2 DEF Filling, Unnamed
<1> QED BY <1>1, <1>3, <1>5, <1>7, <1>8 DEF Ready, Filling

(* The pass over the modules, once or again. *)
LEMMA PassKeeps ==
    ASSUME IndexInv, RefsOnce(symbols, objects, importLog), UsesKept,
           Unnamed \/ Named(modules, symbols, objects, importLog),
           NEW order \in Orders(Pending)
    PROVE  LET s2 == ModuleSymbolsMade(order)
               o2 == ModuleObjectsMade(order)
           IN  /\ Named(ModulesMade(order), s2, o2, <<>>)
               /\ RefsOnce(s2, o2, <<>>)
               /\ \A r \in asked \cap References : UseKept(s2, o2, declared, r)
               /\ DOMAIN o2 = DOMAIN objects
               /\ \A o \in DOMAIN objects : o2[o].path = objects[o].path /\ o2[o].sentinel = objects[o].sentinel
<1> DEFINE s2 == ModuleSymbolsMade(order)
           o2 == ModuleObjectsMade(order)
<1>1. Stored /\ LogTypes
  BY DEF IndexInv
<1>2. RefsOnce(s2, o2, <<>>) /\ RefsExtend(objects, o2)
  BY <1>1, ImportsAdded
<1>3. Named(ModulesMade(order), s2, o2, <<>>)
  <2>1. CASE Unnamed
    BY <1>1, <2>1, NamedByPass
  <2>2. CASE Named(modules, symbols, objects, importLog)
    <3>1. importLog = <<>>
      BY <2>2 DEF Named
    <3> QED BY <1>1, <2>2, <3>1, NothingPending
  <2> QED BY <2>1, <2>2
<1>4. \A s \in DOMAIN symbols : s \in DOMAIN s2 /\ s2[s] = symbols[s]
  BY <1>1, ModulesMadeLemma
<1>5. DOMAIN o2 = DOMAIN objects
      /\ \A o \in DOMAIN objects : o2[o].path = objects[o].path /\ o2[o].sentinel = objects[o].sentinel
  BY <1>1, ModuleObjectsMadeLemma
<1> HIDE DEF s2, o2
<1>6. ASSUME NEW r \in asked \cap References PROVE UseKept(s2, o2, declared, r)
  BY <1>2, <1>4, UseStaysKept DEF UsesKept
<1> QED BY <1>2, <1>3, <1>5, <1>6 DEF s2, o2

(* GetAllReferencesNames before the index is made.                         *)
LEMMA ReadyNames ==
    ASSUME IndexInv, Ready, GetAllReferencesNames, asked' = asked
    PROVE  Ready'
<1>1. PICK order \in Orders(Pending) :
          /\ modules' = ModulesMade(order)
          /\ symbols' = ModuleSymbolsMade(order)
          /\ objects' = ModuleObjectsMade(order)
  BY DEF GetAllReferencesNames
<1>2. importLog' = <<>> /\ UNCHANGED <<declared, dirsDone>>
  BY DEF GetAllReferencesNames
<1>3. /\ Named(modules', symbols', objects', <<>>)
      /\ RefsOnce(symbols', objects', <<>>)
      /\ \A r \in asked \cap References : UseKept(symbols', objects', declared, r)
      /\ DOMAIN objects' = DOMAIN objects
      /\ \A o \in DOMAIN objects : objects'[o].path = objects[o].path /\ objects'[o].sentinel = objects[o].sentinel
  BY <1>1, PassKeeps DEF Ready
<1>4. Named(modules, symbols, objects, importLog)'
  BY <1>2, <1>3 DEF Named
<1> QED BY <1>2, <1>3, <1>4 DEF Ready, UsesKept

(* What AddSymbol stated is stated of instances that stay where they are.  *)
LEMMA StatedStays ==
    ASSUME Stored, Stored', StatedParentsAreReal, UNCHANGED <<declared, stated>>, NEW o
    PROVE  (IF o \in DOMAIN objects THEN StatedIn(o) ELSE <<>>) = (IF o \in DOMAIN objects' THEN StatedIn(o)' ELSE <<>>)
<1> DEFINE S == {k \in Nat : <<o, k>> \in DOMAIN stated}
           f == [k \in S |-> stated[<<o, k>>]]
<1>1. ASSUME NEW k, <<o, k>> \in DOMAIN stated
      PROVE  /\ o \in DOMAIN objects /\ k \in DOMAIN objects[o].insts
             /\ o \in DOMAIN objects' /\ k \in DOMAIN objects'[o].insts
             /\ k \in Nat
  <2>1. PICK i \in DOMAIN declared : <<declared[i].object, declared[i].slot>> = <<o, k>>
    BY <1>1 DEF StatedParentsAreReal
  <2>2. declared[i].object = o /\ declared[i].slot = k
    BY <2>1
  <2>3. o \in DOMAIN objects /\ k \in DOMAIN objects[o].insts
    BY <2>2 DEF Stored, IndexOK, DeclaredOK, SlotHolds
  <2>4. o \in DOMAIN objects' /\ k \in DOMAIN objects'[o].insts
    BY <2>2 DEF Stored, IndexOK, DeclaredOK, SlotHolds
  <2>5. k \in Nat
    <3>1. declared[i] \in DeclaredType
      BY DEF Stored, IndexOK, IndexTypes
    <3> QED BY <2>2, <3>1 DEF DeclaredType
  <2> QED BY <2>3, <2>4, <2>5
<1>2. {k \in DOMAIN objects[o].insts : <<o, k>> \in DOMAIN stated} = S
      /\ {k \in DOMAIN objects'[o].insts : <<o, k>> \in DOMAIN stated} = S
  BY <1>1
<1>3. S # {} => o \in DOMAIN objects /\ o \in DOMAIN objects'
  BY <1>1
<1>4. StatedIn(o) = f /\ StatedIn(o)' = f
  BY <1>2 DEF StatedIn
<1>5. S = {} => f = <<>>
  <2>1. ASSUME S = {} PROVE f = [k \in {} |-> stated[<<o, k>>]]
    BY <2>1
  <2>2. [k \in {} |-> stated[<<o, k>>]] = <<>>
    OBVIOUS
  <2> QED BY <2>1, <2>2
<1> HIDE DEF f, S
<1> QED BY <1>3, <1>4, <1>5

(* Trees are numbered by the parents stated now.                           *)
LEMMA TreeStays ==
    ASSUME Stored, Stored', StatedParentsAreReal, UNCHANGED <<declared, stated>>
    PROVE  TreeOf(symbols', objects') = TreeOf(symbols, objects)'
<1>1. \A o : (IF o \in DOMAIN objects THEN StatedIn(o) ELSE <<>>) = (IF o \in DOMAIN objects' THEN StatedIn(o)' ELSE <<>>)
  BY StatedStays
<1> QED BY <1>1 DEF TreeOf

(* Publish makes the index.                                                *)
LEMMA MadeByPublish ==
    ASSUME IndexInv, Ready, Publish, asked' = asked
    PROVE  Made'
<1>1. PICK mo \in Orders(Pending), do \in Orders(IF MakesDirectories THEN DirSet ELSE {}) : PublishedIn(mo, do)
  BY PublishOrders
<1>2. /\ dirsDone' = (dirsDone \/ MakesDirectories)
      /\ importLog' = <<>>
      /\ tree' = TreeOf(symbols', objects')
      /\ UNCHANGED <<byFileAndName, declared, stated, refLog>>
  BY PublishOrders
<1> DEFINE m2 == ModulesMade(mo)
           s2 == ModuleSymbolsMade(mo)
           o2 == ModuleObjectsMade(mo)
<1>3. /\ Named(m2, s2, o2, <<>>)
      /\ RefsOnce(s2, o2, <<>>)
      /\ \A r \in asked \cap References : UseKept(s2, o2, declared, r)
      /\ DOMAIN o2 = DOMAIN objects
      /\ \A o \in DOMAIN objects : o2[o].path = objects[o].path /\ o2[o].sentinel = objects[o].sentinel
  <2>1. /\ RefsOnce(symbols, objects, importLog) /\ UsesKept
        /\ Unnamed \/ Named(modules, symbols, objects, importLog)
    BY DEF Ready
  <2> QED BY <2>1, PassKeeps
<1>4. IndexOK(m2, s2, o2, declared, dirsDone)
  <2>1. Stored /\ LogTypes
    BY DEF IndexInv
  <2> QED BY <2>1, ModuleObjectsMadeLemma
<1> HIDE DEF m2, s2, o2
<1>5. modules' = m2
  BY <1>1 DEF PublishedIn, m2
<1>6. tree' = TreeOf(symbols, objects)'
  <2>1. IndexInv'
    BY PublishStep
  <2>2. Stored /\ Stored' /\ StatedParentsAreReal
    BY <2>1 DEF IndexInv
  <2> QED BY <1>2, <2>2, TreeStays
<1>7. ASSUME MakesDirectories PROVE Made'
  <2> DEFINE s3 == DirectorySymbolsMade(s2, do)
             o3 == DirectoryObjectsMade(s2, o2, do)
  <2>1. symbols' = s3 /\ objects' = o3 /\ do \in Orders(DirSet)
    BY <1>1, <1>7 DEF PublishedIn, s2, o2
  <2>2. IndexOK(m2, s2, o2, declared, FALSE) /\ dirsDone' = TRUE
    <3>1. dirsDone = FALSE
      BY <1>7 DEF MakesDirectories, Ready, IndexInv, Stored
    <3> QED BY <1>2, <1>4, <1>7, <3>1
  <2>3. /\ DOMAIN o2 = DOMAIN objects
        /\ \A o \in DOMAIN o2 : o2[o].path = objects[o].path /\ o2[o].sentinel = objects[o].sentinel
        /\ \A o \in DOMAIN o2 : ~o2[o].sentinel
    BY <1>3 DEF Ready
  <2>4. RefsOnce(s3, o3, <<>>) /\ RefsExtend(o2, o3)
    BY <1>3, <2>1, <2>2, <2>3, DirectoriesAdded
  <2>5. /\ Named(m2, s3, o3, <<>>)
        /\ \A o \in DOMAIN o3 : ~o3[o].sentinel => Carries(s3, o3, o, RankDirectory, ParentDir[o3[o].path])
    BY <1>3, <2>1, <2>2, <2>3, NamedByDirectories
  <2>6. TreeIn(s3, o3)
    BY <2>1, <2>2, <2>3, DirectoryTreeLemma
  <2>7. \A s \in DOMAIN s2 : s \in DOMAIN s3 /\ s3[s] = s2[s]
    BY <2>1, <2>2, DirectorySymbolsLemma
  <2> HIDE DEF s3, o3
  <2>8. UsesKept'
    <3>1. \A r \in asked \cap References : UseKept(s3, o3, declared, r)
      BY <1>3, <2>4, <2>7, UseStaysKept
    <3> QED BY <1>2, <2>1, <3>1 DEF UsesKept
  <2>9. Named(modules, symbols, objects, importLog)'
    BY <1>2, <1>5, <2>1, <2>5 DEF Named
  <2>10. RefsOnce(symbols, objects, importLog)' /\ TreeIn(symbols, objects)'
    BY <1>2, <2>1, <2>4, <2>6
  <2>11. \A o \in DOMAIN objects' : ~objects'[o].sentinel =>
             Carries(symbols', objects', o, RankDirectory, ParentDir[objects'[o].path])
    BY <2>1, <2>5
  <2>12. ~MakesDirectories'
    BY <2>2 DEF MakesDirectories
  <2> QED BY <1>6, <2>8, <2>9, <2>10, <2>11, <2>12 DEF Made
<1>8. ASSUME ~MakesDirectories PROVE Made'
  <2>1. FileIds = {} /\ DOMAIN objects = {} /\ dirsDone = FALSE
    <3>1. dirsDone = FALSE
      BY DEF Ready, IndexInv, Stored
    <3> QED BY <1>8, <3>1 DEF MakesDirectories, FileIds, Ready
  <2>2. symbols' = s2 /\ objects' = o2
    <3>1. do = <<>> /\ objects' = o2
      BY <1>1, <1>8, NoOrder DEF PublishedIn, o2
    <3>2. symbols' = s2 \o <<>>
      BY <1>1, <3>1, NoOrder DEF PublishedIn, s2
    <3>3. s2 \in Seq(SymbolType)
      BY <1>4 DEF IndexOK, IndexTypes
    <3> QED BY <3>1, <3>2, <3>3
  <2>3. DOMAIN objects' = {}
    BY <1>3, <2>1, <2>2
  <2>4. ~MakesDirectories'
    BY <2>3 DEF MakesDirectories, FileIds
  <2>5. TreeIn(symbols', objects')
    BY <2>3 DEF TreeIn, SentinelIds
  <2>6. Named(modules, symbols, objects, importLog)'
    BY <1>2, <1>3, <1>5, <2>2 DEF Named
  <2>7. RefsOnce(symbols, objects, importLog)'
    BY <1>2, <1>3, <2>2
  <2>8. UsesKept'
    BY <1>2, <1>3, <2>2 DEF UsesKept
  <2> QED BY <1>6, <2>3, <2>4, <2>5, <2>6, <2>7, <2>8 DEF Made
<1> QED BY <1>7, <1>8

(* Once it is made, asking for it changes nothing.                         *)
LEMMA MadeStays ==
    ASSUME IndexInv, dirsDone \in BOOLEAN, Made, Publish \/ GetAllReferencesNames
    PROVE  UNCHANGED vars
<1>1. Stored /\ LogTypes /\ StatedParentsAreReal /\ importLog = <<>>
      /\ Named(modules, symbols, objects, importLog) /\ ~MakesDirectories
      /\ tree = TreeOf(symbols, objects)
  BY DEF IndexInv, Made, Named
<1>2. \A order \in Orders(Pending) : /\ ModulesMade(order) = modules
                                     /\ ModuleSymbolsMade(order) = symbols
                                     /\ ModuleObjectsMade(order) = objects
  BY <1>1, NothingPending
<1>3. CASE GetAllReferencesNames
  BY <1>1, <1>2, <1>3 DEF GetAllReferencesNames, vars
<1>4. CASE Publish
  <2>1. PICK mo \in Orders(Pending), do \in Orders(IF MakesDirectories THEN DirSet ELSE {}) : PublishedIn(mo, do)
    BY <1>4, PublishOrders
  <2>2. /\ dirsDone' = (dirsDone \/ MakesDirectories)
        /\ importLog' = <<>>
        /\ tree' = TreeOf(symbols', objects')
        /\ UNCHANGED <<byFileAndName, declared, stated, refLog>>
    BY <1>4, PublishOrders
  <2>3. do = <<>>
    BY <1>1, NoOrder
  <2>4. modules' = modules /\ objects' = objects
    BY <1>1, <1>2, <2>1 DEF PublishedIn
  <2>5. symbols' = symbols
    <3>1. symbols' = symbols \o <<>>
      BY <1>2, <2>1, <2>3, NoOrder DEF PublishedIn
    <3>2. symbols \in Seq(SymbolType)
      BY <1>1 DEF Stored, IndexOK, IndexTypes
    <3> QED BY <3>1, <3>2
  <2>6. tree' = tree
    BY <1>1, <2>2, <2>4, <2>5
  <2>7. dirsDone' = dirsDone
    BY <1>1, <2>2
  <2> QED BY <1>1, <2>2, <2>4, <2>5, <2>6, <2>7 DEF vars
<1> QED BY <1>3, <1>4

(* Nothing happens.                                                        *)
LEMMA RunStutter == ASSUME RunInv, UNCHANGED vars, UNCHANGED <<phase, asked>> PROVE RunInv'
<1>1. IndexInv'
  BY StutterStep DEF RunInv
<1>2. Filling => Filling'
  BY FillingStutter
<1>3. /\ tree' = tree /\ MakesDirectories' = MakesDirectories
      /\ TreeOf(symbols, objects)' = TreeOf(symbols, objects)
      /\ UNCHANGED <<modules, symbols, objects, declared, importLog, dirsDone>>
  BY DEF vars, MakesDirectories, FileIds, TreeOf, StatedIn
<1>4. /\ UsesKept' = UsesKept
      /\ Named(modules, symbols, objects, importLog)' = Named(modules, symbols, objects, importLog)
  BY <1>3 DEF UsesKept, Named
<1>5. Unnamed => Unnamed'
  BY <1>3 DEF Unnamed, ImportsLogged, ImportLogged, FileId, FileIds
<1>6. Ready => Ready'
  BY <1>3, <1>4, <1>5 DEF Ready
<1>7. Made => Made'
  BY <1>3, <1>4 DEF Made
<1> QED BY <1>1, <1>2, <1>3, <1>6, <1>7 DEF RunInv

(* Nothing has happened.                                                   *)
LEMMA RunStarts == RunInit => RunInv
<1> SUFFICES ASSUME RunInit PROVE RunInv
  OBVIOUS
<1>1. IndexInv
  BY InitIndex DEF RunInit
<1>2. Filling
  BY DEF RunInit, Init, Filling, Unnamed, UsesLogged, ImportsLogged
<1> QED BY <1>1, <1>2 DEF RunInit, Init, RunInv, Phases

(* A call of a parser leaves the index one that is being filled.           *)
LEMMA ParseStep ==
    ASSUME RunInv, Parse
    PROVE  Filling' /\ phase' = phase /\ dirsDone' = dirsDone
<1>1. IndexInv /\ Filling
  BY DEF RunInv, Parse
<1>2. phase' = phase
  BY DEF Parse
<1>3. CASE \E name \in ModuleNames : AddModule(name) /\ asked' = asked
  BY <1>1, <1>2, <1>3, FillingModule DEF AddModule
<1>4. CASE \E f \in Files, m \in DOMAIN modules : AddFile(m, f) /\ asked' = asked
  BY <1>1, <1>2, <1>4, FillingFile DEF AddFile
<1>5. CASE \E d \in Declarations : \E o \in FileId(d.path) :
              /\ (\E p \in ParentIds(d) : AddSymbol(o, d, p)) \/ AddSymbolAgain(o, d)
              /\ asked' = asked
  BY <1>1, <1>2, <1>5, FillingSymbol DEF AddSymbol, AddSymbolAgain
<1>6. CASE \E r \in References : \E o \in FileId(r.from) : AddReference(o, r) /\ asked' = asked \cup {r}
  <2>1. PICK r \in References : \E o \in FileId(r.from) : AddReference(o, r) /\ asked' = asked \cup {r}
    BY <1>6
  <2>2. PICK o \in FileId(r.from) : AddReference(o, r) /\ asked' = asked \cup {r}
    BY <2>1
  <2>3. Filling'
    BY <1>1, <2>2, FillingUse
  <2>4. dirsDone' = dirsDone
    BY <2>2 DEF AddReference
  <2> QED BY <1>2, <2>3, <2>4
<1>7. CASE \E i \in Imports : \E o \in FileId(i.from) : AddModuleImport(o, i) /\ asked' = asked \cup {i}
  BY <1>1, <1>2, <1>7, FillingImport DEF AddModuleImport
<1> QED BY <1>3, <1>4, <1>5, <1>6, <1>7 DEF Parse

(* Every step of a run leads to what its phase says.                       *)
LEMMA RunStep ==
    ASSUME RunInv, [RunNext]_runVars
    PROVE  RunInv'
<1>1. IndexInv /\ dirsDone \in BOOLEAN /\ phase \in Phases
  BY DEF RunInv
<1>2. IndexInv'
  BY <1>1, RunCallsStore, IndexStep
<1>3. CASE Parse
  <2>1. Filling' /\ phase' = phase /\ dirsDone' = dirsDone /\ phase = "parse"
    BY <1>3, ParseStep DEF Parse
  <2> QED BY <1>1, <1>2, <2>1 DEF RunInv
<1>4. CASE ParseFails \/ GitFails
  BY <1>1, <1>2, <1>4 DEF ParseFails, GitFails, RunInv, Phases, vars
<1>5. CASE ParseEnds \/ GitEnds
  <2>1. Filling /\ UNCHANGED vars /\ asked' = asked /\ phase' \in {"git", "resolve"}
    BY <1>5 DEF ParseEnds, GitEnds, RunInv
  <2>2. Filling' /\ dirsDone' = dirsDone
    BY <2>1, FillingStutter DEF vars
  <2> QED BY <1>1, <1>2, <2>1, <2>2 DEF RunInv, Phases
<1>6. CASE AddGitTrackedFile
  <2>1. Filling /\ phase' = phase /\ asked' = asked /\ phase = "git"
    BY <1>6 DEF AddGitTrackedFile, RunInv
  <2>2. Filling' /\ dirsDone' = dirsDone
    <3>1. CASE \E f \in Files : AddFile(NoModule, f)
      <4>1. NoModule \in DOMAIN modules \cup {NoModule}
        OBVIOUS
      <4> QED BY <1>1, <2>1, <3>1, <4>1, FillingFile DEF AddFile
    <3>2. CASE \E f \in Files : AddFileAgain(f)
      BY <2>1, <3>2, FillingStutter DEF AddFileAgain, vars
    <3> QED BY <1>6, <3>1, <3>2 DEF AddGitTrackedFile
  <2> QED BY <1>1, <1>2, <2>1, <2>2 DEF RunInv
<1>7. CASE Resolve
  <2>1. Filling /\ asked' = asked
    BY <1>7 DEF Resolve, RunInv
  <2>2. CASE ResolveReferences /\ phase' = "marshal"
    <3>1. Ready' /\ dirsDone' = dirsDone
      BY <1>1, <2>1, <2>2, ReadyResolved DEF ResolveReferences
    <3> QED BY <1>1, <1>2, <2>2, <3>1 DEF RunInv, Phases
  <2>3. CASE ResolveReferencesFails /\ phase' = "failed"
    BY <1>1, <1>2, <2>3 DEF RunInv, Phases, ResolveReferencesFails
  <2> QED BY <1>7, <2>2, <2>3 DEF Resolve
<1>8. CASE Marshal
  <2>1. Ready /\ Publish /\ asked' = asked /\ phase' = "written"
    BY <1>8 DEF Marshal, RunInv
  <2>2. Made'
    BY <1>1, <2>1, MadeByPublish
  <2>3. dirsDone' \in BOOLEAN
    BY <1>1, <2>1, PublishOrders DEF MakesDirectories
  <2> QED BY <1>2, <2>1, <2>2, <2>3 DEF RunInv, Phases
<1>9. CASE Upload
  <2>1. UNCHANGED <<phase, asked>>
    BY <1>9 DEF Upload
  <2>2. CASE phase = "written"
    <3>1. UNCHANGED vars
      BY <1>9, <2>2, MadeStays DEF Upload, RunInv
    <3> QED BY <2>1, <3>1, RunStutter
  <2>3. CASE phase = "marshal"
    <3>1. Ready /\ GetAllReferencesNames
      BY <1>9, <2>3 DEF Upload, RunInv
    <3>2. Ready' /\ dirsDone' = dirsDone
      BY <1>1, <2>1, <3>1, ReadyNames DEF GetAllReferencesNames
    <3> QED BY <1>1, <1>2, <2>1, <2>3, <3>2 DEF RunInv
  <2> QED BY <1>9, <2>2, <2>3 DEF Upload
<1>10. CASE UNCHANGED runVars
  BY <1>10, RunStutter DEF runVars
<1> QED BY <1>3, <1>4, <1>5, <1>6, <1>7, <1>8, <1>9, <1>10 DEF RunNext

(* The index of a run is, in every state, what the phase says.             *)
THEOREM RunInvariant == RunSpec => []RunInv
  BY RunStarts, RunStep, PTL DEF RunSpec

(* An index that is made has its containers.                               *)
LEMMA MadeComplete == Made => DOMAIN tree = DOMAIN objects /\ FilesCarryContainers /\ DirectoryTree
<1> SUFFICES ASSUME Made PROVE DOMAIN tree = DOMAIN objects /\ FilesCarryContainers /\ DirectoryTree
  OBVIOUS
<1>1. DOMAIN tree = DOMAIN objects
  BY DEF Made, TreeOf
<1>2. ASSUME NEW o \in DOMAIN objects, NEW rank, NEW name, Carries(symbols, objects, o, rank, name)
      PROVE  HasContainer(o, rank, name)
  BY <1>2 DEF Carries, HasContainer
<1>3. FilesCarryContainers
  <2> SUFFICES ASSUME NEW o \in FileIds
               PROVE  /\ HasContainer(o, RankDirectory, ParentDir[objects[o].path])
                      /\ objects[o].module # NoModule =>
                            HasContainer(o, RankModule, modules[objects[o].module].name)
    BY DEF FilesCarryContainers
  <2>1. o \in DOMAIN objects /\ ~objects[o].sentinel
    BY DEF FileIds
  <2>2. Carries(symbols, objects, o, RankDirectory, ParentDir[objects[o].path])
    BY <2>1 DEF Made
  <2>3. objects[o].module # NoModule => Carries(symbols, objects, o, RankModule, modules[objects[o].module].name)
    BY <2>1 DEF Made, Named
  <2> QED BY <1>2, <2>1, <2>2, <2>3
<1>4. DirectoryTree
  BY TreeInStore DEF Made
<1> QED BY <1>1, <1>3, <1>4

(* A reference that is kept can be found where it was recorded.            *)
LEMMA HasRefAt ==
    ASSUME NEW x, NEW to, HasRef(objects, x.from, to, x)
    PROVE  to \in RefAt(x)
<1>1. PICK o \in DOMAIN objects :
        /\ ~objects[o].sentinel /\ objects[o].path = x.from
        /\ \E k \in DOMAIN objects[o].refs : objects[o].refs[k] = [to |-> to, start |-> x.start, end |-> x.end]
  BY DEF HasRef
<1>2. o \in FileId(x.from)
  BY <1>1 DEF FileId, FileIds
<1>3. PICK k \in DOMAIN objects[o].refs : objects[o].refs[k] = [to |-> to, start |-> x.start, end |-> x.end]
  BY <1>1
<1>4. objects[o].refs[k].to = to /\ objects[o].refs[k].start = x.start /\ objects[o].refs[k].end = x.end
  BY <1>3
<1> QED BY <1>2, <1>4 DEF RefAt

(* An index that is written has what was recorded.                         *)
LEMMA MadeKeeps == RunInv => NothingDropped
<1> SUFFICES ASSUME RunInv, Written PROVE NothingDropped
  BY DEF NothingDropped
<1>1. Made
  BY DEF RunInv, Written
<1>2. ASSUME NEW r \in asked \cap References, r.name \notin CNames
      PROVE  \E s \in RefAt(r) : symbols[s].name = r.name /\ DeclaredIn(s, r.to)
  <2>1. PICK s \in DOMAIN symbols :
          /\ HasRef(objects, r.from, s, r) /\ symbols[s].name = r.name
          /\ \E i \in DOMAIN declared : /\ declared[i].symbol = s /\ declared[i].object \in DOMAIN objects
                                        /\ objects[declared[i].object].path = r.to
    BY <1>1, <1>2 DEF Made, UsesKept, UseKept
  <2>2. s \in RefAt(r)
    BY <2>1, HasRefAt
  <2> QED BY <2>1, <2>2 DEF DeclaredIn
<1>3. ASSUME NEW i \in asked \cap Imports, NEW m \in DOMAIN modules, modules[m].name = i.module
      PROVE  modules[m].symbol \in RefAt(i)
  <2>1. HasRef(objects, i.from, modules[m].symbol, i)
    BY <1>1, <1>3 DEF Made, Named, ImportKept
  <2> QED BY <2>1, HasRefAt
<1> QED BY <1>2, <1>3 DEF NothingDropped

(* createModuleSymbols and createDirectorySymbols leave no file without    *)
(* the instance of its directory or module, and no directory that the      *)
(* sentinels do not lead to.                                               *)
THEOREM ContainersTheorem == RunSpec => []ContainersComplete
<1>1. RunInv => ContainersComplete
  BY MadeComplete DEF RunInv, ContainersComplete, Written
<1> QED BY <1>1, RunInvariant, PTL

(* However often a use or an import was recorded, by whichever workers,    *)
(* the written index has one reference for it.                             *)
THEOREM NoDuplicateRefsTheorem == RunSpec => []NoDuplicateRefs
<1>1. RunInv => NoDuplicateRefs
  BY DEF RunInv, NoDuplicateRefs, Written, Made, RefsOnce
<1> QED BY <1>1, RunInvariant, PTL

(* Every use that was recorded points at a symbol of that name declared in *)
(* the file that was named (or is of a C name), and every import of an     *)
(* indexed module at its symbol, though module and import came in any      *)
(* order.                                                                  *)
THEOREM NothingDroppedTheorem == RunSpec => []NothingDropped
  BY MadeKeeps, RunInvariant, PTL

(* Upload after Marshal, and asking for the names in between, leave the    *)
(* index as it was written.                                                *)
THEOREM PublishIdempotentTheorem == RunSpec => PublishIdempotent
<1>1. ASSUME RunInv, [RunNext]_runVars, Written PROVE UNCHANGED vars
  <2>1. CASE Upload
    BY <1>1, <2>1, MadeStays DEF Upload, RunInv, Written
  <2>2. CASE UNCHANGED runVars
    BY <2>2 DEF runVars
  <2>3. CASE Parse \/ ParseFails \/ ParseEnds \/ AddGitTrackedFile \/ GitFails \/ GitEnds \/ Resolve \/ Marshal
    BY <1>1, <2>3 DEF Written, Parse, ParseFails, ParseEnds, AddGitTrackedFile, GitFails, GitEnds, Resolve, Marshal
  <2> QED BY <1>1, <2>1, <2>2, <2>3 DEF RunNext
<1>2. RunInv /\ [RunNext]_runVars => [Written => UNCHANGED vars]_runVars
  BY <1>1
<1> QED BY <1>2, RunInvariant, PTL DEF PublishIdempotent, RunSpec

(* The containers of an index that is made are nested around its           *)
(* declarations.                                                           *)
LEMMA ChainWritten == RunInv /\ PlacesInv => WrittenChain
<1> SUFFICES ASSUME RunInv, PlacesInv, Written, NEW o \in FileIds \cap DOMAIN tree, NEW k \in DOMAIN tree[o]
             PROVE  LET above == {RankAt(o, x) : x \in Above(o, k)}
                    IN  IF RankAt(o, k) = RankOther THEN RankFile \in above
                        ELSE above = {RankAt(o, x) : x \in
                                         {x \in DOMAIN tree[o] : RankAt(o, x) < RankAt(o, k)}}
  BY DEF WrittenChain, ContainerChain
<1> DEFINE insts == objects[o].insts
           ranked == Ranked(symbols, insts)
           p == tree[o]
           above == {RankAt(o, x) : x \in Above(o, k)}
           below == {RankAt(o, x) : x \in {x \in DOMAIN tree[o] : RankAt(o, x) < RankAt(o, k)}}
<1>1. tree = TreeOf(symbols, objects) /\ o \in DOMAIN objects /\ ~objects[o].sentinel
  BY DEF RunInv, Written, Made, FileIds
<1>2. p = Parents(ranked, StatedIn(o))
  BY <1>1 DEF TreeOf
<1>3. /\ ranked \in Seq(Instance) /\ DOMAIN ranked = DOMAIN insts /\ objects[o].len \in Nat
      /\ InExtent(ranked, objects[o].len) /\ StatesDeclarations(ranked, StatedIn(o))
  BY <1>1, RankedLemma
<1>4. \A x \in DOMAIN insts : ranked[x].rank = RankAt(o, x)
  BY DEF Ranked, RankAt
<1>5. \E f \in DOMAIN ranked : ranked[f].rank = RankFile
  <2>1. FileFirst(symbols, objects[o])
    BY <1>1 DEF PlacesInv, PlacesOK, FilesFirst
  <2>2. 1 \in DOMAIN insts /\ RankAt(o, 1) = RankFile
    BY <2>1 DEF FileFirst, RankAt
  <2> HIDE DEF ranked, insts
  <2> QED BY <1>3, <1>4, <2>2
<1> HIDE DEF ranked, insts, p
<1>6. p \in [DOMAIN insts -> DOMAIN insts \cup {NoParent}] /\ IsForest(p)
  BY <1>2, <1>3, ParentsLemma
<1>7. k \in DOMAIN insts /\ DOMAIN tree[o] = DOMAIN insts
  BY <1>6 DEF p
<1>8. IF ranked[k].rank = RankOther
      THEN RankFile \in RanksAbove(ranked, p, k)
      ELSE RanksAbove(ranked, p, k) = RanksBelow(ranked, ranked[k].rank)
  <2>1. objects[o].len \in Int
    BY <1>3
  <2>2. \A x \in DOMAIN ranked :
           IF ranked[x].rank = RankOther
           THEN RankFile \in RanksAbove(ranked, Parents(ranked, StatedIn(o)), x)
           ELSE RanksAbove(ranked, Parents(ranked, StatedIn(o)), x) = RanksBelow(ranked, ranked[x].rank)
    BY <1>3, <1>5, <2>1, ChainLemma
  <2> QED BY <1>2, <1>3, <1>7, <2>2
<1>9. Above(o, k) = AboveIn(p, k) /\ AboveIn(p, k) \subseteq DOMAIN insts
  <2>1. /\ DOMAIN insts = 1 .. Len(ranked) /\ Len(ranked) \in Nat
    BY <1>3
  <2>2. IsFiniteSet(DOMAIN insts) /\ NoParent \notin DOMAIN insts
        /\ Cardinality(DOMAIN insts) = Len(ranked)
    BY <2>1, OneTo DEF NoParent
  <2>3. p \in Seq(DOMAIN insts \cup {NoParent}) /\ Len(p) = Len(ranked)
    BY <1>3, <1>6, MapLemma
  <2>4. DOMAIN p = DOMAIN insts
    BY <1>6
  <2>5. AboveIn(p, k) \subseteq DOMAIN insts
    BY <1>6, <1>7, <2>2, AboveLemma
  <2> QED BY <2>2, <2>3, <2>4, <2>5 DEF Above, AboveIn, p
<1>10. above = RanksAbove(ranked, p, k)
  BY <1>4, <1>9 DEF RanksAbove
<1>11. below = RanksBelow(ranked, RankAt(o, k))
  BY <1>3, <1>4, <1>7 DEF RanksBelow
<1>12. ranked[k].rank = RankAt(o, k)
  BY <1>4, <1>7
<1> HIDE DEF above, below
<1>13. IF RankAt(o, k) = RankOther THEN RankFile \in above ELSE above = below
  BY <1>8, <1>10, <1>11, <1>12
<1> QED BY <1>13 DEF above, below

(* In the written index the parents every file is numbered by put its      *)
(* declarations under FILE, FILE under its directory and the directory     *)
(* under its module, whatever parents the parsers stated.                  *)
THEOREM WrittenChainTheorem == RunSpec => []WrittenChain
  BY RunInvariant, RunIsStore, PlacesInvariant, ChainWritten, PTL
=============================================================================
