------------------------------ MODULE FileWalk ------------------------------
(***************************************************************************)
(* The walk of FileParser over one file: what it declares, under which     *)
(* name and stated parent, and which uses it records.  Several traversals  *)
(* overlap: the one of the file, one over the initialisers of each         *)
(* declared variable, one over the signature and one over the body of each *)
(* function, and a function literal is met by up to three of them.         *)
(*                                                                         *)
(* A symbol is <<node, k>>: the k-th name of a value spec, a function, a   *)
(* literal, an interface type (its method is symbol 1 of the node).  Every *)
(* interface literal has one method, of a name of its own.  A use is a     *)
(* place <<node, k>> as well: the k-th variable on the left of an          *)
(* assignment, an identifier, a call.  References to types are in          *)
(* DeferredRefs and TypeWalk.                                              *)
(***************************************************************************)
EXTENDS SyntaxTree

CONSTANTS
    Shapes,        \* families of files
    LocalVars,     \* variables declared in a function of the file
    ForeignVars,   \* package-level variables of another file of the package
    SpecNames,     \* the names a value spec may give: sequences of Name and Blank
    Lefts,         \* numbers of variables an assignment may have
    Name, Blank

ASSUME WalkAssumption ==
    /\ Name # Blank
    /\ \A names \in SpecNames : names # <<>> /\ names \in Seq({Name, Blank})
    /\ Lefts \subseteq Nat \ {0}

(* Declarations stand in the file, parameters in functions, and types      *)
(* contain nothing but types.                                              *)
ASSUME GrammarAssumption ==
    \A shape \in Shapes : LET g == shape.grammar IN
        /\ shape.size \in Nat \ {0} /\ "file" \in DOMAIN g
        /\ \A k \in DOMAIN g :
              /\ g[k] \subseteq DOMAIN g \ {"file"}
              /\ g[k] \cap {"gen", "func"} # {} => k = "file"
              /\ "spec" \in g[k] => k = "gen"
              /\ "param" \in g[k] => k \in {"func", "lit"}
              /\ k = "gen" => g[k] \subseteq {"spec"}
              /\ k \in {"param", "iface", "named"} => g[k] \subseteq {"iface"}
              /\ k = "use" => g[k] = {}

VARIABLES
    tree, about,       \* the file: its nodes, and what specs, uses and calls name
    todo,              \* what the traversals have before them, the innermost first
    declared,          \* calls of AddSymbol: symbol, the one it is named after, stated parent
    anonFuncByPos,     \* literals with a name
    varToFuncLitPos,   \* variables with the literal they were given, as written
    refs,              \* calls of AddReference
    result             \* "none", "ok", "error"

given == <<tree, about>>
vars == <<given, todo, declared, anonFuncByPos, varToFuncLitPos, refs, result>>

Kind(n) == tree[n].kind
NodesOf(t, kinds) == {n \in DOMAIN t : t[n].kind \in kinds}
Functions == NodesOf(tree, {"func", "lit"})
Interfaces == NodesOf(tree, {"iface", "param", "named"})

Package == <<0, 0>>
Unstated == <<0, 0>>

(* The expressions of a spec or an assignment; an interface type below a   *)
(* spec is its type annotation.                                            *)
ValuesIn(t, n) == InOrder({k \in DOMAIN t : t[k].up = n /\ t[k].kind # "iface"})
Values(n) == ValuesIn(tree, n)
Params(n) == InOrder({k \in DOMAIN tree : tree[k].up = n /\ Kind(k) = "param"})
Body(n) == InOrder({k \in DOMAIN tree : tree[k].up = n /\ Kind(k) # "param"})

-----------------------------------------------------------------------------
(* The files *)

(* Package-level variables are the names of specs. *)
DataVars(t, a) ==
    UNION {{<<s, k>> : k \in {k \in DOMAIN a[s] : a[s][k] = Name}} : s \in NodesOf(t, {"spec"})}

Occurrences(t, a, v) ==
    {n \in NodesOf(t, {"assign", "use"}) : IF t[n].kind = "use" THEN a[n] = v ELSE Contains(a[n], v)}

(* Order of the parts: parameters before the body, the type before the     *)
(* values; code stands in functions.                                       *)
WellFormed(t) ==
    /\ \A m, n \in DOMAIN t :
          m < n /\ t[m].up = t[n].up =>
             /\ t[n].kind = "param" => t[m].kind = "param"
             /\ t[t[n].up].kind = "spec" => t[n].kind # "iface"
    /\ \A n \in NodesOf(t, {"assign", "use", "call"}) :
          \E f \in Above(t)[n] : t[f].kind \in {"func", "lit"}
    /\ \A n \in NodesOf(t, {"named"}) :
          t[n].up = 1 \/ \E f \in Above(t)[n] : t[f].kind \in {"func", "lit"}
    /\ \A n \in NodesOf(t, {"assign"}) : Len(ValuesIn(t, n)) \in Lefts

(* What node n may name: a spec has as many values as names, none, or one  *)
(* call for all.                                                           *)
Names(t, n) ==
    CASE t[n].kind = "spec"   ->
            {names \in SpecNames :
                LET values == ValuesIn(t, n)
                IN  \/ Len(values) \in {0, Len(names)}
                    \/ Len(values) = 1 /\ t[values[1]].kind = "block"}
      [] t[n].kind = "call"   -> NodesOf(t, {"iface", "param", "named"})
      [] t[n].kind \in {"assign", "use"} ->
            LET all == LocalVars \cup ForeignVars \cup
                       UNION {{<<s, k>> : k \in 1 .. 2} : s \in NodesOf(t, {"spec"})}
            IN  IF t[n].kind = "use" THEN all
                ELSE {v \in [1 .. Len(ValuesIn(t, n)) -> all] : IsInjective(v)}
      [] OTHER -> {Blank}

(* A variable is a name that a spec declares, or a local one, which is     *)
(* given a value before its uses, all in the function it is declared in.   *)
WellNamed(t, a) ==
    /\ \A n \in NodesOf(t, {"use"}) : a[n] \in LocalVars \cup ForeignVars \cup DataVars(t, a)
    /\ \A n \in NodesOf(t, {"assign"}) :
          ToSet(a[n]) \subseteq LocalVars \cup ForeignVars \cup DataVars(t, a)
    /\ \A v \in LocalVars : Occurrences(t, a, v) # {} =>
          LET first == Min(Occurrences(t, a, v))
              scope == Max({f \in Above(t)[first] : t[f].kind \in {"func", "lit"}})
          IN  /\ t[first].kind = "assign"
              /\ \A n \in Occurrences(t, a, v) : scope \in Above(t)[n]

AllNames(t) ==
    LET named[n \in 0 .. Len(t)] ==
            IF n = 0 THEN {<<>>}
            ELSE {Append(a, x) : a \in named[n - 1], x \in Names(t, n)}
    IN  named[Len(t)]

Item(n, how, owner, k) == [at |-> n, how |-> how, owner |-> owner, k |-> k]
Items(nodes, how, owner) == [i \in DOMAIN nodes |-> Item(nodes[i], how, owner, 0)]

Init ==
    /\ \E shape \in Shapes : tree \in {t \in TreesOf(shape) : WellFormed(t)}
    /\ about \in {a \in AllNames(tree) : WellNamed(tree, a)}
    /\ todo = <<Item(1, "file", Package, 0)>>
    /\ declared = <<>> /\ anonFuncByPos = {} /\ varToFuncLitPos = <<>>
    /\ refs = <<>>
    /\ result = "none"

-----------------------------------------------------------------------------
(* The walk.  An item says where a traversal stands, which one it is       *)
(* ("file", "value", "signature", "body"), and after whom literals are     *)
(* named; "name" and "left" are the names of a spec and the left-hand      *)
(* sides of an assignment, in their turn.                                  *)

Now == Head(todo)
At(hows, kinds) == todo # <<>> /\ Now.how \in hows /\ Kind(Now.at) \in kinds

Into(items) == todo' = items \o Tail(todo)
GoOn == Into(Items(Children(tree, Now.at), Now.how, Now.owner))

(* AddSymbol; a symbol of the same name and extent is there already. *)
Declare(symbol, under, parent) ==
    declared' =
        IF \E i \in DOMAIN declared : declared[i].symbol = symbol /\ declared[i].under = under
        THEN declared
        ELSE Append(declared, [symbol |-> symbol, under |-> under, parent |-> parent])

AddReference(from, file, to) ==
    refs' = Append(refs, [from |-> from, file |-> file, to |-> to])

(* Nodes the traversal at hand has no case for. *)
Pass ==
    /\ \/ At({"file", "value", "body"}, {"file", "spec", "block"})
       \/ At({"value"}, {"iface"})
    /\ GoOn
    /\ UNCHANGED <<given, declared, anonFuncByPos, varToFuncLitPos, refs, result>>

(* Mutant: the names of a declaration come after its nodes. *)
GenDeclLate ==
    /\ At({"file"}, {"gen"})
    /\ LET names(s) == [k \in DOMAIN about[s] |-> Item(s, "name", Package, k)]
       IN  Into(Items(Children(tree, Now.at), "file", Package)
                \o FlattenSeq([i \in DOMAIN Children(tree, Now.at) |-> names(Children(tree, Now.at)[i])]))
    /\ UNCHANGED <<given, declared, anonFuncByPos, varToFuncLitPos, refs, result>>

(* valueDeclParser goes through all specs before Inspect goes into them. *)
GenDecl ==
    /\ At({"file"}, {"gen"})
    /\ LET names(s) == [k \in DOMAIN about[s] |-> Item(s, "name", Package, k)]
       IN  Into(FlattenSeq([i \in DOMAIN Children(tree, Now.at) |-> names(Children(tree, Now.at)[i])])
                \o Items(Children(tree, Now.at), "file", Package))
    /\ UNCHANGED <<given, declared, anonFuncByPos, varToFuncLitPos, refs, result>>

(* The value a name claims, when each name has one (initialiserFuncLits).  *)
Claimed(s, k) ==
    IF Len(Values(s)) = Len(about[s]) THEN <<Item(Values(s)[k], "value", <<s, k>>, 0)>> ELSE <<>>

DeclareName ==
    /\ At({"name"}, {"spec"})
    /\ LET s == Now.at
           k == Now.k
       IN  IF about[s][k] = Blank
           THEN Into(<<>>) /\ UNCHANGED declared
           ELSE /\ Declare(<<s, k>>, Package, Unstated)
                /\ Into(Claimed(s, k))
    /\ UNCHANGED <<given, anonFuncByPos, varToFuncLitPos, refs, result>>

(* funcDeclParser: the interfaces of the signature, then the body. *)
FuncDecl ==
    /\ At({"file"}, {"func"})
    /\ LET f == Now.at
       IN  /\ Declare(<<f, 0>>, Package, Unstated)
           /\ Into(Items(Params(f), "signature", <<f, 0>>) \o Items(Body(f), "body", <<f, 0>>))
    /\ UNCHANGED <<given, anonFuncByPos, varToFuncLitPos, refs, result>>

(* Mutant: the file's traversal does not ask whether a literal has a name. *)
ToBeNamedAlways == At({"file", "value", "body"}, {"lit"})

(* In a body a literal is met once; elsewhere it may have been claimed.    *)
ToBeNamed ==
    /\ At({"file", "value", "body"}, {"lit"})
    /\ Now.how = "body" \/ Now.at \notin anonFuncByPos

StatedParent(item) == IF item.how = "value" THEN item.owner ELSE Unstated

(* funcLitParser: only the body is looked into. *)
FuncLit ==
    /\ ToBeNamed
    /\ LET l == Now.at
       IN  /\ Declare(<<l, 0>>, Now.owner, StatedParent(Now))
           /\ anonFuncByPos' = anonFuncByPos \cup {l}
           /\ Into(Items(Body(l), "body", <<l, 0>>))
    /\ UNCHANGED <<given, varToFuncLitPos, refs, result>>

LeaveFuncLit ==
    /\ At({"file", "value"}, {"lit"})
    /\ ~ToBeNamed
    /\ Into(<<>>)
    /\ UNCHANGED <<given, declared, anonFuncByPos, varToFuncLitPos, refs, result>>

(* addInterfaceMethods, and on into the signatures of the methods. *)
InterfaceType ==
    /\ At({"file", "signature", "body"}, {"iface", "param"})
    /\ Declare(<<Now.at, 1>>, Package, Unstated)
    /\ GoOn
    /\ UNCHANGED <<given, anonFuncByPos, varToFuncLitPos, refs, result>>

(* Mutant: the traversal goes on into the type. *)
TypeSpecInto ==
    /\ At({"file", "body"}, {"named"})
    /\ declared' = declared \o <<[symbol |-> <<Now.at, 0>>, under |-> Now.owner, parent |-> Unstated],
                                [symbol |-> <<Now.at, 1>>, under |-> Package, parent |-> Unstated]>>
    /\ AddReference(<<Now.at, 0>>, "own", <<Now.at, 1>>)
    /\ GoOn
    /\ UNCHANGED <<given, anonFuncByPos, varToFuncLitPos, result>>

(* typeSpecParser of an interface: the type, its method, a reference from  *)
(* one to the other; the signature of the method is not looked into.       *)
TypeSpec ==
    /\ At({"file", "body"}, {"named"})
    /\ declared' = declared \o <<[symbol |-> <<Now.at, 0>>, under |-> Now.owner, parent |-> Unstated],
                                [symbol |-> <<Now.at, 1>>, under |-> Package, parent |-> Unstated]>>
    /\ AddReference(<<Now.at, 0>>, "own", <<Now.at, 1>>)
    /\ Into(<<>>)
    /\ UNCHANGED <<given, anonFuncByPos, varToFuncLitPos, result>>

(* recordFuncLitVar for the values that are literals; a later entry of a   *)
(* variable replaces an earlier one.                                       *)
Recorded(n) ==
    LET lits == InOrder({k \in DOMAIN about[n] : Kind(Values(n)[k]) = "lit"})
    IN  varToFuncLitPos \o
        [i \in DOMAIN lits |-> [var |-> about[n][lits[i]], lit |-> Values(n)[lits[i]]]]

(* An assignment or a declaration in a function: its variables are noted   *)
(* before Inspect comes to them and to the values.                         *)
AssignStmt ==
    /\ At({"body"}, {"assign"})
    /\ varToFuncLitPos' = Recorded(Now.at)
    /\ Into([k \in DOMAIN about[Now.at] |-> Item(Now.at, "left", Now.owner, k)]
            \o Items(Children(tree, Now.at), "body", Now.owner))
    /\ UNCHANGED <<given, declared, anonFuncByPos, refs, result>>

EntriesOf(v) == {i \in DOMAIN varToFuncLitPos : varToFuncLitPos[i].var = v}
LitOf(v) == varToFuncLitPos[Max(EntriesOf(v))].lit
FileOf(v) == IF v \in ForeignVars THEN "other" ELSE "own"

(* Mutant: the literal is referred to before it has a name. *)
AddVarRefAlways(place, v) ==
    IF EntriesOf(v) # {} THEN AddReference(place, FileOf(v), <<LitOf(v), 0>>)
    ELSE IF v \notin LocalVars THEN AddReference(place, FileOf(v), v)
    ELSE UNCHANGED refs

(* An identifier: its literal if it has one, and then only once that has a *)
(* name; else its declaration, if that is in a package.  The file is the   *)
(* one the variable is declared in.                                        *)
AddVarRef(place, v) ==
    IF EntriesOf(v) # {}
    THEN IF LitOf(v) \in anonFuncByPos
         THEN AddReference(place, FileOf(v), <<LitOf(v), 0>>)
         ELSE UNCHANGED refs
    ELSE IF v \notin LocalVars THEN AddReference(place, FileOf(v), v)
    ELSE UNCHANGED refs

Ident ==
    /\ At({"body"}, {"use"}) \/ At({"left"}, {"assign"})
    /\ AddVarRef(<<Now.at, Now.k>>, IF Now.how = "left" THEN about[Now.at][Now.k] ELSE about[Now.at])
    /\ Into(<<>>)
    /\ UNCHANGED <<given, declared, anonFuncByPos, varToFuncLitPos, result>>

(* A call of an interface's method. *)
CallExpr ==
    /\ At({"body"}, {"call"})
    /\ AddReference(<<Now.at, 0>>, "own", <<about[Now.at], 1>>)
    /\ GoOn
    /\ UNCHANGED <<given, declared, anonFuncByPos, varToFuncLitPos, result>>

(* An error of the index ends all traversals. *)
Fail ==
    /\ todo # <<>> /\ result = "none"
    /\ ~At({"value"}, {"iface"})
    /\ Now.how \in {"name", "left"} \/ Kind(Now.at) \in {"func", "lit", "iface", "param", "named", "use", "call"}
    /\ todo' = <<>> /\ result' = "error"
    /\ UNCHANGED <<given, declared, anonFuncByPos, varToFuncLitPos, refs>>

Return ==
    /\ todo = <<>> /\ result = "none"
    /\ result' = "ok"
    /\ UNCHANGED <<given, todo, declared, anonFuncByPos, varToFuncLitPos, refs>>

Over == result # "none" /\ UNCHANGED vars

Next ==
    \/ Pass \/ GenDecl \/ DeclareName \/ FuncDecl
    \/ FuncLit \/ LeaveFuncLit \/ InterfaceType \/ TypeSpec
    \/ AssignStmt \/ Ident \/ CallExpr
    \/ Fail \/ Return \/ Over

Spec == Init /\ [][Next]_vars

-----------------------------------------------------------------------------
(* Properties *)

Parsed == result = "ok"
Literals == NodesOf(tree, {"lit"})
DeclarationsOf(symbol) == {i \in DOMAIN declared : declared[i].symbol = symbol}

(* Whichever traversals meet a literal, it is declared under one name, and *)
(* every literal is (valueDeclParser, functionBodyParser, Parse).          *)
LiteralsOnce ==
    /\ \A l \in Literals : Cardinality(DeclarationsOf(<<l, 0>>)) <= 1
    /\ Parsed => \A l \in Literals : DeclarationsOf(<<l, 0>>) # {}

(* The symbol whose extent is around node n: a lone name has the whole     *)
(* spec, the names of a group with values have their identifiers only.     *)
HasExtent(m) ==
    \/ m \in Functions
    \/ Kind(m) = "spec" /\ about[m] = <<Name>>
Around(n) ==
    LET outer == {m \in Above(tree)[n] : HasExtent(m)}
    IN  IF outer = {} THEN Package
        ELSE <<Max(outer), IF Kind(Max(outer)) = "spec" THEN 1 ELSE 0>>

(* The name of a literal says which symbol it is in, and so does its place *)
(* in the containment tree, by a stated parent or by its range; they agree *)
(* ("a closure named after First that First does not contain means the     *)
(* name and the tree came from different places").                         *)
NameAgreesWithPlace ==
    \A i \in DOMAIN declared :
        declared[i].symbol[1] \in Literals =>
            declared[i].under =
                IF declared[i].parent # Unstated THEN declared[i].parent
                ELSE Around(declared[i].symbol[1])

(* The literals that node n gives v.                                       *)
GivenLits(n, v) ==
    {Values(n)[k] : k \in {k \in DOMAIN about[n] : about[n][k] = v /\ Kind(Values(n)[k]) = "lit"}}
Givers(v) == {n \in NodesOf(tree, {"assign"}) : GivenLits(n, v) # {}}

(* The literal given to v last before node n in the source, if there is    *)
(* one, and nothing if it comes after n in that very assignment; else v,   *)
(* if it is of the package.                                                *)
Expected(n, v) ==
    LET before == {a \in Givers(v) : a <= n}
    IN  IF before # {} THEN {<<l, 0>> : l \in {l \in GivenLits(Max(before), v) : l <= n}}
        ELSE {v} \ LocalVars

PlacesOf(v) ==
    {<<n, 0>> : n \in {n \in Occurrences(tree, about, v) : Kind(n) = "use"}} \cup
    UNION {{<<n, k>> : k \in {k \in DOMAIN about[n] : about[n][k] = v}}
           : n \in {n \in Occurrences(tree, about, v) : Kind(n) = "assign"}}

TargetsAt(place) == {refs[i].to : i \in {i \in DOMAIN refs : refs[i].from = place}}

(* The function declaration, or the literal in an initialiser, that node n *)
(* is in.                                                                  *)
Outermost(n) == Min(Functions \cap (Above(tree)[n] \cup {n}))

(* If one function with the literals in it gives a variable all that it    *)
(* gets, a use in there refers to the literal last given to it before the  *)
(* use in the source (recordFuncLitVar).                                   *)
UsesFollowSource ==
    Parsed => \A v \in LocalVars \cup DataVars(tree, about) : \A place \in PlacesOf(v) :
        (\A a \in Givers(v) : Outermost(a) = Outermost(place[1])) =>
            TargetsAt(place) = Expected(place[1], v)

(* What one function notes of a variable another never overwrites, as the  *)
(* comment on varToFuncLitPos has it: "entries from different functions    *)
(* never collide".                                                         *)
EntriesNeverCollide ==
    \A i, j \in DOMAIN varToFuncLitPos :
        varToFuncLitPos[i].var = varToFuncLitPos[j].var =>
            Outermost(varToFuncLitPos[i].lit) = Outermost(varToFuncLitPos[j].lit)

(* The interfaces nothing looks into: those of a literal's signature, and  *)
(* those in the methods of a named interface.                              *)
Hidden ==
    {n \in Interfaces : \E m \in Above(tree)[n] \cup {n} :
        \/ Kind(m) = "param" /\ Kind(tree[m].up) = "lit"
        \/ Kind(m) = "named" /\ m # n}

(* All other interfaces have their methods declared, once, and a hidden    *)
(* one is not declared by accident.                                        *)
InterfacesReached ==
    /\ \A n \in Interfaces : Cardinality(DeclarationsOf(<<n, 1>>)) <= (IF n \in Hidden THEN 0 ELSE 1)
    /\ Parsed => \A n \in Interfaces \ Hidden : DeclarationsOf(<<n, 1>>) # {}

(* What the index will find: strict resolution fails for anything else.    *)
Found(r) ==
    IF r.file = "own" THEN DeclarationsOf(r.to) # {} ELSE r.to \in ForeignVars

(* Every use of a variable refers to something declared in the file it     *)
(* names, so that ResolveReferences does not refuse the index: "later      *)
(* Ident references to that variable resolve to the anonymous function".   *)
VariableTargetsDeclared ==
    Parsed => \A i \in DOMAIN refs : Kind(refs[i].from[1]) \in {"use", "assign"} => Found(refs[i])
=============================================================================
