------------------------------ MODULE ValueFlow ------------------------------
(***************************************************************************)
(* One assignment, value spec, call or return as AssignmentParser connects *)
(* it: slot by slot the interface a value is given to, the type of the     *)
(* value as the code finds it, and references from the methods of the      *)
(* interface to those of that type.                                        *)
(*                                                                         *)
(* go/types is external: a type is a base type, taken plainly, through a   *)
(* pointer, or as the constraint of a type parameter, and the methods of a *)
(* base are those it declares and those it has from what it embeds.  An    *)
(* alias makes a difference for the slots only: on the side of the values  *)
(* unwrapType sees through it.                                             *)
(* Parentheses are seen through everywhere and left out.                   *)
(***************************************************************************)
EXTENDS Integers, FiniteSetsExt, SequencesExt

CONSTANTS
    Bases,        \* base types: kind of each, and the base that declares each of its methods
    Placeless,    \* interfaces of the universe, whose methods have no position: error
    Plain,        \* the name of a base without methods: bool, a slice
    MaxSlots,     \* bound on the slots of a node
    MaxValues     \* bound on the values given to them

ASSUME BaseAssumption ==
    /\ Plain \in DOMAIN Bases /\ Bases[Plain].kind = "plain" /\ DOMAIN Bases[Plain].methods = {}
    /\ "tuple" \notin DOMAIN Bases
    /\ \A b \in DOMAIN Bases :
          /\ Bases[b].kind \in {"plain", "struct", "defined", "interface", "anonymous"}
          /\ \A m \in DOMAIN Bases[b].methods :
                LET d == Bases[b].methods[m]
                IN  /\ d \in DOMAIN Bases /\ Bases[d].kind \notin {"plain", "struct"}
                    /\ m \in DOMAIN Bases[d].methods /\ Bases[d].methods[m] = d
    /\ \A b \in Placeless : b \in DOMAIN Bases /\ Bases[b].kind = "interface"
    /\ MaxSlots \in Nat /\ MaxValues \in Nat

VARIABLES
    node,       \* form, types of the slots and of the values, how they are given, variadic
    unindexed,  \* interfaces whose file, or the builtin one, is not in the index
    slot,       \* the next slot
    made,       \* references: slot, method, base that declares the method referred to
    outcome     \* "none", "ok", "error"

FlowVars == <<node, unindexed, slot, made, outcome>>

Interfaces == {b \in DOMAIN Bases : Bases[b].kind \in {"interface", "anonymous"}}
Types == [of : DOMAIN Bases, as : {"plain", "pointer"}] \cup [of : Interfaces, as : {"param"}]
PlainType == [of |-> Plain, as |-> "plain"]
Tuple == [of |-> "tuple", as |-> "plain"]

-----------------------------------------------------------------------------
(* The nodes that compile *)

IsInterface(t) == t.as # "pointer" /\ t.of \in Interfaces
SlotTypes == {PlainType} \cup [of : Interfaces, as : {"plain", "alias", "param"}]

Declarers(b) == {Bases[b].methods[m] : m \in DOMAIN Bases[b].methods}

MethodSet(t) == IF t.as = "pointer" /\ t.of \in Interfaces THEN {} ELSE DOMAIN Bases[t.of].methods

(* A variable of the type of a parameter takes nothing but that type.      *)
Assignable(t, to) ==
    IF to.as = "param" THEN t = to ELSE DOMAIN Bases[to.of].methods \subseteq MethodSet(t)

(* Values are given by an expression each, or all by one: a call with      *)
(* several results, or the two-valued form of an assertion, an index into  *)
(* a map, or a receive from a channel; "over" is the type of that map or   *)
(* channel.                                                                *)
CommaOk == {"assert", "index", "receive"}
Ways == {"each", "call"} \cup CommaOk
Containers ==
    {t \in Types : t.as = "param" \/ (t.as # "pointer" /\ Bases[t.of].kind \in {"plain", "defined"})}
OverOf(way) == IF way \in {"index", "receive"} THEN Containers ELSE {PlainType}

Compiles(n) ==
    /\ n.variadic => n.form = "call" /\ n.slots # <<>> /\ Last(n.slots) = PlainType
    /\ n.form # "call" => n.slots # <<>>
    /\ IF n.variadic THEN Len(n.given) >= Len(n.slots) - 1 ELSE Len(n.given) = Len(n.slots)
    /\ n.way = "call" => Len(n.given) > 1
    /\ n.way \in CommaOk =>
          n.form \in {"assign", "spec"} /\ Len(n.given) = 2 /\ n.given[2] = PlainType

(* Only what is given to an interface matters. *)
Fits(slots, given) ==
    \A i \in DOMAIN given :
        IF i \in DOMAIN slots /\ IsInterface(slots[i]) THEN Assignable(given[i], slots[i])
        ELSE given[i] = PlainType

FlowInit ==
    /\ \E slots \in BoundedSeq(SlotTypes, MaxSlots) :
       \E given \in {g \in BoundedSeq(Types, MaxValues) : Fits(slots, g)} :
          /\ \E way \in Ways :
                node \in {n \in [form : {"assign", "spec", "call", "return"}, slots : {slots}, given : {given},
                                 way : {way}, over : OverOf(way), variadic : BOOLEAN] : Compiles(n)}
          /\ unindexed \in SUBSET UNION {Declarers(slots[i].of) : i \in DOMAIN slots}
    /\ slot = 1 /\ made = {} /\ outcome = "none"

-----------------------------------------------------------------------------
(* The code *)

(* The slots that are looked at: a result only if its type is an interface *)
(* or a defined one, without an alias.                                     *)
Looked(i) ==
    IF node.form = "return" THEN node.slots[i].as = "plain" /\ node.slots[i].of \in Interfaces
    ELSE IsInterface(node.slots[i])

FromContainer == node.way \in {"index", "receive"}
Values == IF node.way = "each" THEN Len(node.given) ELSE 1

(* Mutant: the arguments of a variadic call are not counted. *)
TotalFixed == Len(node.slots)

(* A variadic call has as many parameters as it is given arguments. *)
Total == IF node.variadic /\ Values >= Len(node.slots) - 1 THEN Values ELSE Len(node.slots)

Mismatch == Values = 0 \/ (Values > 1 /\ Values # Total)

(* Mutant: the first result whatever the position. *)
ReturnTypeFirst(i) == node.given[1]

(* extractReturnType: one expression for several slots is taken apart; the *)
(* type of a call with several results is a tuple.                         *)
ReturnType(i) ==
    IF ~(Total > 1 /\ Values = 1) THEN IF node.way = "call" THEN Tuple ELSE node.given[i]
    ELSE IF FromContainer THEN node.over
    ELSE node.given[IF node.way = "assert" THEN 1 ELSE i]

(* unwrapType takes off pointers, aliases and type parameters.  A defined  *)
(* type then has the methods declared for it, without promoted ones and,   *)
(* if it is an interface, none; an interface without a name has all.       *)
Methods(t) ==
    LET declarer == Bases[t.of].methods
    IN  CASE Bases[t.of].kind = "defined" -> {m \in DOMAIN declarer : declarer[m] = t.of}
          [] Bases[t.of].kind = "anonymous" -> DOMAIN declarer
          [] OTHER -> {}

(* Methods with the same full name are taken for one; those that anonymous *)
(* interfaces declare all have the same.                                   *)
SameName(d, e) == d = e \/ {Bases[d].kind, Bases[e].kind} = {"anonymous"}

References(i, t) ==
    LET from == Bases[node.slots[i].of].methods
        to == Bases[t.of].methods
    IN  {[slot |-> i, method |-> m, of |-> to[m]] :
            m \in {n \in DOMAIN from \cap Methods(t) : ~SameName(from[n], to[n])}}

(* The file of the interface's method, or the builtin it is, is looked up; *)
(* a target must have a position.                                          *)
Unplaced(r) ==
    \/ Bases[node.slots[r.slot].of].methods[r.method] \in unindexed
    \/ r.of \in Placeless

AtSlot == outcome = "none" /\ slot \in DOMAIN node.slots

SkipSlot ==
    /\ AtSlot /\ ~Looked(slot)
    /\ slot' = slot + 1
    /\ UNCHANGED <<node, unindexed, made, outcome>>

(* The type of the value is not found, or is one that has no case.         *)
Untyped(i) == Mismatch \/ ReturnType(i) = Tuple

ConnectSlot ==
    /\ AtSlot /\ Looked(slot) /\ ~Untyped(slot)
    /\ \A r \in References(slot, ReturnType(slot)) : ~Unplaced(r)
    /\ made' = made \cup References(slot, ReturnType(slot))
    /\ slot' = slot + 1
    /\ UNCHANGED <<node, unindexed, outcome>>

RefuseSlot ==
    /\ AtSlot /\ Looked(slot) /\ Untyped(slot)
    /\ outcome' = "error"
    /\ UNCHANGED <<node, unindexed, slot, made>>

(* The references made before the one that is refused stay.                *)
FailSlot ==
    /\ AtSlot /\ Looked(slot) /\ ~Untyped(slot)
    /\ LET references == References(slot, ReturnType(slot))
       IN  /\ \E r \in references : Unplaced(r)
           /\ \E before \in SUBSET {r \in references : ~Unplaced(r)} : made' = made \cup before
    /\ outcome' = "error"
    /\ UNCHANGED <<node, unindexed, slot>>

Finish ==
    /\ outcome = "none" /\ slot > Len(node.slots)
    /\ outcome' = "ok"
    /\ UNCHANGED <<node, unindexed, slot, made>>

FlowOver == outcome # "none" /\ UNCHANGED FlowVars

FlowNext == SkipSlot \/ ConnectSlot \/ RefuseSlot \/ FailSlot \/ Finish \/ FlowOver

FlowSpec == FlowInit /\ [][FlowNext]_FlowVars

-----------------------------------------------------------------------------
(* Properties *)

(* What a slot is owed: every method of its interface with the one that    *)
(* the value's type has for it, wherever that is declared, unless it is    *)
(* the same method.                                                        *)
InterfaceSlots == {i \in DOMAIN node.slots : IsInterface(node.slots[i])}
Owed(i) ==
    LET from == Bases[node.slots[i].of].methods
        to == Bases[node.given[i].of].methods
    IN  {[slot |-> i, method |-> m, of |-> to[m]] : m \in {n \in DOMAIN from : from[n] # to[n]}}

AliasResult(i) == node.form = "return" /\ node.slots[i].as = "alias"

(* The part of it that is not lost to the way methods are looked up: those *)
(* that a defined type declares itself, those of an interface without a    *)
(* name unless that is what the slot's method is from as well.             *)
Certain(i) ==
    LET kind == Bases[node.given[i].of].kind
        from == Bases[node.slots[i].of].methods
    IN  {r \in Owed(i) : \/ (kind = "defined" /\ r.of = node.given[i].of)
                        \/ (kind = "anonymous" /\ ~SameName(from[r.method], r.of))}

(* A slot is connected with nothing but the type that the language gives   *)
(* it, whichever of several values or results that is, method by method,   *)
(* also in code that is refused; and with all that such a type declares    *)
(* for the slot's interface, results of an aliased type excepted.  Left    *)
(* out are the two-valued index and receive, whose map or channel the code *)
(* looks at.                                                               *)
ConnectedAsOwed ==
    /\ \A r \in made : r.slot \in InterfaceSlots /\ (FromContainer \/ r \in Owed(r.slot))
    /\ outcome = "ok" =>
          \A i \in InterfaceSlots : FromContainer \/ AliasResult(i) \/ Certain(i) \subseteq made

(* Code that compiles is refused only for an interface that is not in the  *)
(* index, for a method without a position that an interface without a name *)
(* has, or where the results of a call are spread over the parameters of a *)
(* variadic one.                                                           *)
RefusedForAReason ==
    outcome = "error" =>
        \/ node.way = "call" /\ node.variadic
        \/ \E i \in InterfaceSlots : Declarers(node.slots[i].of) \cap unindexed # {}
        \/ \E i \in InterfaceSlots, t \in {node.over} \cup Range(node.given) :
              /\ Bases[t.of].kind = "anonymous"
              /\ \E m \in DOMAIN Bases[node.slots[i].of].methods \cap DOMAIN Bases[t.of].methods :
                    Bases[t.of].methods[m] \in Placeless

-----------------------------------------------------------------------------
(* What the comments say and the code does not do *)

(* A value that is an interface, with a name or without, is connected with *)
(* the slot's interface ("if the right-hand side is an interface type, we  *)
(* can try to connect it") unless it is of the same type, and a result is  *)
(* looked at if its type is an interface, "direct or underlying".          *)
InterfacesConnected ==
    outcome = "ok" /\ ~FromContainer =>
        \A i \in InterfaceSlots :
            /\ node.given[i].of \in Interfaces => Owed(i) \subseteq made
            /\ Certain(i) \subseteq made

-----------------------------------------------------------------------------
(* The inductive invariant: the node is one that compiles, what has been   *)
(* made is owed, and nothing certain is missing from the slots passed.     *)
NodeOK ==
    /\ node.slots \in Seq(SlotTypes) /\ node.given \in Seq(Types)
    /\ node.form \in {"assign", "spec", "call", "return"}
    /\ node.way \in Ways /\ node.over \in OverOf(node.way) /\ node.variadic \in BOOLEAN
    /\ Fits(node.slots, node.given) /\ Compiles(node)

Progress ==
    /\ slot \in 1 .. Len(node.slots) + 1
    /\ outcome \in {"none", "ok", "error"}
    /\ outcome = "ok" => slot = Len(node.slots) + 1

MadeIsOwed == \A r \in made : r.slot \in InterfaceSlots /\ (FromContainer \/ r \in Owed(r.slot))

CertainIsMade ==
    \A i \in InterfaceSlots : i < slot => FromContainer \/ AliasResult(i) \/ Certain(i) \subseteq made

FlowIInv == NodeOK /\ Progress /\ MadeIsOwed /\ CertainIsMade /\ RefusedForAReason
=============================================================================
