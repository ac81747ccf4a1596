------------------------------ MODULE TypeWalk ------------------------------
(***************************************************************************)
(* References from a declaration to the types it names.  A declaration     *)
(* hands its type expressions to extractNamedTypes and to                  *)
(* addBuiltinTypeRefs, one or several at a time; each such call goes       *)
(* through them and takes every type at its first use only.                *)
(*                                                                         *)
(* Expressions are trees whose leaves are names; "parts" stands for        *)
(* pointers, arrays, maps, channels and functions, "generic" for           *)
(* instantiations, parentheses, "...", "~" and "|", which only             *)
(* extractNamedTypes goes into.                                            *)
(***************************************************************************)
EXTENDS SyntaxTree

CONSTANTS
    Shapes,                   \* families of trees
    PackageTypes, Builtins,   \* types that can be referred to
    OtherTypes,               \* local types and type parameters
    MaxNames                  \* bound on the names of a value spec

Expressions == {"name", "parts", "struct", "iface", "generic"}

ASSUME TypeAssumption ==
    /\ MaxNames \in Nat \ {0}
    /\ PackageTypes \cap Builtins = {} /\ (PackageTypes \cup Builtins) \cap OtherTypes = {}

(* Type parameters belong to the declaration, methods to an interface. *)
ASSUME GrammarAssumption ==
    \A shape \in Shapes : LET g == shape.grammar IN
        /\ shape.size \in Nat \ {0}
        /\ DOMAIN g = {"file", "constraint", "method"} \cup Expressions
        /\ g["file"] \subseteq {"constraint"} \cup Expressions
        /\ g["iface"] \subseteq {"method"} \cup Expressions
        /\ \A k \in {"constraint", "method", "parts", "struct", "generic"} : g[k] \subseteq Expressions
        /\ g["name"] = {}

VARIABLES
    tree, typeAt,    \* the declaration; the type each leaf names
    form,            \* of a value spec its names and those not blank; 0 names: a type
    calls,           \* calls before us: the walker, and the expressions it is given
    walk,            \* the call at hand: what is before it, what it has seen
    refs,            \* references made: the call, the type, the leaf
    done

given == <<tree, typeAt, form>>
walkVars == <<given, calls, walk, refs, done>>

Kind(n) == tree[n].kind
Leaves(t) == {n \in DOMAIN t : t[n].kind = "name"}
KidsOf(n, kinds) == InOrder({k \in DOMAIN tree : tree[k].up = n /\ Kind(k) \in kinds})
IsType == form.names = 0

(* Constraints of type parameters come before the type, and a declaration  *)
(* has one type.                                                           *)
WellFormed(t) ==
    LET top == {n \in DOMAIN t : t[n].up = 1 /\ t[n].kind # "constraint"}
    IN  /\ Cardinality(top) = 1
        /\ \A n \in DOMAIN t : t[n].up = 1 => n <= Max(top)
        /\ \A n \in DOMAIN t :
              LET below == Cardinality({k \in DOMAIN t : t[k].up = n})
              IN  /\ t[n].kind = "constraint" => below = 1
                  /\ t[n].kind \in {"parts", "generic"} => below > 0

Named(exprs) == [walker |-> "named", exprs |-> exprs]
Builtin(exprs) == [walker |-> "builtin", exprs |-> exprs]
NonEmpty(call) == IF call.exprs = <<>> THEN <<>> ELSE <<call>>

(* typeSpecParser: the constraints together; of an interface what it       *)
(* embeds, otherwise the type, and for builtins the fields of a struct.    *)
TypeSpecCalls ==
    LET constraints == KidsOf(1, {"constraint"})
        type == KidsOf(1, Expressions)[1]
    IN  NonEmpty(Named([i \in DOMAIN constraints |-> Children(tree, constraints[i])[1]])) \o
        CASE Kind(type) = "iface"  -> NonEmpty(Named(KidsOf(type, Expressions)))
          [] Kind(type) = "struct" -> <<Named(<<type>>), Builtin(Children(tree, type))>>
          [] OTHER                 -> <<Named(<<type>>)>>

(* valueDeclParser: the annotation, once for all names of a spec that are   *)
(* declared.                                                               *)
ValueSpecCalls ==
    LET type == KidsOf(1, Expressions)
    IN  IF form.declared = 0 THEN <<>> ELSE <<Named(type), Builtin(type)>>

Idle == [call |-> 0, walker |-> "none", todo |-> <<>>, seen |-> {}]

WalkInit ==
    /\ \E shape \in Shapes : tree \in {t \in TreesOf(shape) : WellFormed(t)}
    /\ typeAt \in [Leaves(tree) -> PackageTypes \cup Builtins \cup OtherTypes]
    /\ form \in [names : 0 .. MaxNames, declared : 0 .. MaxNames]
    /\ form.declared <= form.names
    /\ IsType \/ KidsOf(1, {"constraint"}) = <<>>
    /\ calls = IF IsType THEN TypeSpecCalls ELSE ValueSpecCalls
    /\ walk = Idle /\ refs = {} /\ done = FALSE

-----------------------------------------------------------------------------
(* Mutant: what one call has seen the next one takes for seen as well. *)
StartCallUnreset ==
    /\ walk.todo = <<>> /\ calls # <<>>
    /\ walk' = [call |-> walk.call + 1, walker |-> Head(calls).walker,
                todo |-> Head(calls).exprs, seen |-> walk.seen]
    /\ calls' = Tail(calls)
    /\ UNCHANGED <<given, refs, done>>

StartCall ==
    /\ walk.todo = <<>> /\ calls # <<>>
    /\ walk' = [call |-> walk.call + 1, walker |-> Head(calls).walker,
                todo |-> Head(calls).exprs, seen |-> {}]
    /\ calls' = Tail(calls)
    /\ UNCHANGED <<given, refs, done>>

At == Head(walk.todo)

(* Which types a walker is after. *)
Wanted == IF walk.walker = "named" THEN PackageTypes ELSE Builtins

(* tryAdd: a type counts as seen also if it is not wanted, and a second    *)
(* use is passed over.                                                     *)
TryAdd ==
    /\ walk.todo # <<>> /\ Kind(At) = "name"
    /\ LET type == typeAt[At]
       IN  /\ refs' = IF type \in Wanted \ walk.seen
                      THEN refs \cup {[call |-> walk.call, type |-> type, at |-> At]}
                      ELSE refs
           /\ walk' = [walk EXCEPT !.todo = Tail(@), !.seen = @ \cup {type}]
    /\ UNCHANGED <<given, calls, done>>

(* What the switches of the two walkers go into: of an interface only what *)
(* it embeds, and builtins are not looked for in it at all.                *)
GoesInto(n) ==
    CASE Kind(n) \in {"parts", "struct"} -> Children(tree, n)
      [] walk.walker = "named" /\ Kind(n) = "generic" -> Children(tree, n)
      [] walk.walker = "named" /\ Kind(n) = "iface" -> KidsOf(n, Expressions)
      [] OTHER -> <<>>

Walk ==
    /\ walk.todo # <<>> /\ Kind(At) # "name"
    /\ walk' = [walk EXCEPT !.todo = GoesInto(At) \o Tail(@)]
    /\ UNCHANGED <<given, calls, refs, done>>

Finish ==
    /\ walk.todo = <<>> /\ calls = <<>> /\ ~done
    /\ done' = TRUE
    /\ UNCHANGED <<given, calls, walk, refs>>

WalkOver == done /\ UNCHANGED walkVars

WalkNext == StartCall \/ TryAdd \/ Walk \/ Finish \/ WalkOver

WalkSpec == WalkInit /\ [][WalkNext]_walkVars

-----------------------------------------------------------------------------
(* Properties *)

(* The uses a declaration is answerable for: not those in the signature of *)
(* an interface's method.                                                  *)
Uses == {n \in Leaves(tree) : \A m \in Above(tree)[n] : Kind(m) # "method"}
InConstraint(n) == \E m \in Above(tree)[n] : Kind(m) = "constraint"
RecordedAt(n) == {r \in refs : r.at = n}

FirstOf(n, uses) == \A m \in uses : m < n => typeAt[m] # typeAt[n]

(* The uses of a type that no instantiation, parenthesis, "..." or         *)
(* interface is around.                                                    *)
PlainUses ==
    {n \in Leaves(tree) :
        \A m \in Above(tree)[n] : Kind(m) \notin {"generic", "iface", "method", "constraint"}}

(* addBuiltinTypeRefs is called for the fields of a struct and for the     *)
(* annotation of a variable.                                               *)
WantsBuiltins ==
    IF IsType THEN Kind(KidsOf(1, Expressions)[1]) = "struct" ELSE form.declared > 0

(* A declaration refers to every type of a package that it uses, once at   *)
(* its first use in the type parameters and once at its first use in the   *)
(* type, and no leaf is recorded twice (extractNamedTypes: "preventing     *)
(* duplicate refs across e.g. generic type parameter constraints").  Where *)
(* builtin types are looked for it refers to each at most once, and to     *)
(* those with a plain use no later than at the first of these.             *)
FirstUseOfEach ==
    /\ \A n \in Leaves(tree) : Cardinality(RecordedAt(n)) <= 1
    /\ done => \A n \in Leaves(tree) :
          CASE typeAt[n] \in PackageTypes ->
                  RecordedAt(n) # {} <=>
                      /\ n \in Uses /\ (IsType \/ form.declared > 0)
                      /\ FirstOf(n, {m \in Uses : InConstraint(m) = InConstraint(n)})
            [] typeAt[n] \in Builtins ->
                  /\ RecordedAt(n) # {} =>
                        /\ n \in Uses /\ ~InConstraint(n) /\ WantsBuiltins
                        /\ \A m \in Leaves(tree) \ {n} : typeAt[m] = typeAt[n] => RecordedAt(m) = {}
                  /\ n \in PlainUses /\ WantsBuiltins =>
                        \E m \in Leaves(tree) : m <= n /\ typeAt[m] = typeAt[n] /\ RecordedAt(m) # {}
            [] OTHER -> RecordedAt(n) = {}

(* A struct refers to every builtin type that is used in its fields, the   *)
(* interfaces written in them left out, as the comment on                  *)
(* addBuiltinTypeRefs has it.                                              *)
BuiltinsOfStructs ==
    done /\ IsType /\ WantsBuiltins =>
        \A n \in Uses :
            typeAt[n] \in Builtins /\ ~InConstraint(n) /\ (\A m \in Above(tree)[n] : Kind(m) # "iface") =>
                \E m \in Leaves(tree) : typeAt[m] = typeAt[n] /\ RecordedAt(m) # {}
=============================================================================
