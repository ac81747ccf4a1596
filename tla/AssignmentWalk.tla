--------------------------- MODULE AssignmentWalk ---------------------------
(***************************************************************************)
(* The walk of AssignmentParser over one file.  An outer traversal handles *)
(* assignments, value declarations and calls; at a function declaration an *)
(* inner one goes through the body for the return statements, each against *)
(* the results of the function it belongs to, and the outer one then goes  *)
(* through the same body.  A node connects its values one after the other  *)
(* with the interfaces they are given to; one that cannot be connected is  *)
(* an error, and continueOnError says what then.                           *)
(*                                                                         *)
(* Which type satisfies which interface is go/types' business: a value is  *)
(* a slot of its node that is connected or fails.                          *)
(***************************************************************************)
EXTENDS Integers, SequencesExt

CONSTANTS
    Size,      \* nodes of the syntax tree, 1 .. Size, in the order of the source
    Slots,     \* values at each node that connects
    MaxFails   \* nodes with a value that cannot be connected

ASSUME WalkAssumption == Size \in Nat \ {0} /\ Slots \in Nat \ {0} /\ MaxFails \in Nat

VARIABLES
    parent, kind,     \* the syntax tree; node 1 is the file
    fails,            \* the slot of each node that fails, or 0
    continueOnError,
    todo,             \* nodes the outer traversal has before it
    decl,             \* the function declaration whose body the inner one is in, or 0
    body,             \* what the inner one has before it, with the function of each
    log,              \* the connections, in order
    err,
    result            \* "none", "ok", "error"

given == <<parent, kind, fails, continueOnError>>
vars == <<given, todo, decl, body, log, err, result>>

Nodes == 1 .. Size
Connecting == {"assign", "spec", "call"}

(* "plaincall" is a call without parameters, or of something without a     *)
(* signature, as a conversion is.                                          *)
Kinds == Connecting \cup {"plaincall", "func", "lit", "return", "block"}

AncestorsIn(p) ==
    LET above[n \in DOMAIN p] == IF n = 1 THEN {} ELSE {p[n]} \cup above[p[n]] IN above
Above == AncestorsIn(parent)

Functions == {n \in Nodes : kind[n] \in {"func", "lit"}}

(* Syntax trees as Go has them: functions are declared in the file, and    *)
(* statements stand in functions.                                          *)
WellFormed ==
    /\ \A n \in Nodes \ {1} : parent[n] \in {n - 1} \cup Above[n - 1]
    /\ \A n \in Nodes \ {1} :
          /\ kind[n] = "func" => parent[n] = 1
          /\ kind[n] \in {"return", "assign"} => Above[n] \cap Functions # {}
          /\ kind[n] = "block" => kind[parent[n]] \in {"func", "lit", "block"}
          /\ kind[n] \in {"call", "plaincall", "lit"} => parent[n] # 1 \* they stand in a declaration

HasSlots(n) == kind[n] \in Connecting \cup {"return"}

Init ==
    /\ parent \in {p \in [Nodes -> Nodes] : p[1] = 1 /\ \A n \in Nodes \ {1} : p[n] < n}
    /\ kind \in {k \in [Nodes -> Kinds \cup {"file"}] : \A n \in Nodes : k[n] = "file" <=> n = 1}
    /\ WellFormed
    /\ fails \in [Nodes -> 0 .. Slots]
    /\ \A n \in Nodes : fails[n] # 0 => HasSlots(n)
    /\ Cardinality({n \in Nodes : fails[n] # 0}) <= MaxFails
    /\ continueOnError \in BOOLEAN
    /\ todo = <<1>> /\ decl = 0 /\ body = <<>>
    /\ log = <<>> /\ err = FALSE /\ result = "none"

(* The nodes of a set, in the order of the source. *)
InOrder(S) == [k \in 1 .. Cardinality(S) |-> CHOOSE x \in S : Cardinality({y \in S : y < x}) = k - 1]
KidsOf(n) == InOrder({k \in Nodes \ {1} : parent[k] = n})

(* The callback of ast.Inspect said whether to go into the node. *)
Enter(into) == todo' = IF into THEN KidsOf(Head(todo)) \o Tail(todo) ELSE Tail(todo)

(* Values are connected up to the first that fails. *)
Connected(n, f) ==
    log \o [k \in 1 .. (IF fails[n] = 0 THEN Slots ELSE fails[n] - 1) |->
               [node |-> n, slot |-> k, function |-> f]]

Outer == todo # <<>> /\ decl = 0

-----------------------------------------------------------------------------
(* After an error the callback does nothing more; the traversal only goes  *)
(* on.                                                                     *)
AfterError ==
    /\ Outer /\ err
    /\ Enter(continueOnError)
    /\ UNCHANGED <<given, decl, body, log, err, result>>

(* assignStmtParser, valueSpecParser, callExprParser. *)
Connect ==
    /\ Outer /\ ~err /\ kind[Head(todo)] \in Connecting
    /\ LET n == Head(todo)
       IN  /\ log' = Connected(n, 0)
           /\ err' = (fails[n] # 0)
           /\ Enter(fails[n] = 0 \/ continueOnError)
    /\ UNCHANGED <<given, decl, body, result>>

(* A call without parameters is left, its operands with it. *)
PlainCall ==
    /\ Outer /\ ~err /\ kind[Head(todo)] = "plaincall"
    /\ Enter(FALSE)
    /\ UNCHANGED <<given, decl, body, log, err, result>>

(* Mutant: the outer traversal takes the return statements as well. *)
PassConnectingReturns ==
    /\ Outer /\ ~err /\ kind[Head(todo)] \in {"file", "block", "lit", "return"}
    /\ log' = IF kind[Head(todo)] = "return" THEN Connected(Head(todo), 0) ELSE log
    /\ Enter(TRUE)
    /\ UNCHANGED <<given, decl, body, err, result>>

Pass ==
    /\ Outer /\ ~err /\ kind[Head(todo)] \in {"file", "block", "lit", "return"}
    /\ Enter(TRUE)
    /\ UNCHANGED <<given, decl, body, log, err, result>>

-----------------------------------------------------------------------------
(* functionBodyParser *)

BodyOf(n, f) == [k \in DOMAIN KidsOf(n) |-> [node |-> KidsOf(n)[k], function |-> f]]

FuncDecl ==
    /\ Outer /\ ~err /\ kind[Head(todo)] = "func"
    /\ decl' = Head(todo)
    /\ body' = BodyOf(Head(todo), Head(todo))
    /\ UNCHANGED <<given, todo, log, err, result>>

Inner == decl # 0 /\ body # <<>>
EnterInner(f) == body' = BodyOf(Head(body).node, f) \o Tail(body)

(* Mutant: the body of a literal is walked as part of the function. *)
FuncLitInline ==
    /\ Inner /\ kind[Head(body).node] = "lit"
    /\ EnterInner(Head(body).function)
    /\ UNCHANGED <<given, todo, decl, log, err, result>>

FuncLit ==
    /\ Inner /\ kind[Head(body).node] = "lit"
    /\ EnterInner(Head(body).node)
    /\ UNCHANGED <<given, todo, decl, log, err, result>>

(* Mutant: the error of a body is logged and forgotten. *)
EndBodySilently(failed) ==
    /\ decl' = 0 /\ body' = <<>>
    /\ err' = FALSE
    /\ Enter(~failed \/ continueOnError)

EndBody(failed) ==
    /\ decl' = 0 /\ body' = <<>>
    /\ err' = failed
    /\ Enter(~failed \/ continueOnError)

ReturnStmt ==
    /\ Inner /\ kind[Head(body).node] = "return"
    /\ LET e == Head(body)
       IN  /\ log' = Connected(e.node, e.function)
           /\ IF fails[e.node] # 0 THEN EndBody(TRUE)
              ELSE /\ EnterInner(e.function)
                   /\ UNCHANGED <<todo, decl, err>>
    /\ UNCHANGED <<given, result>>

PassInBody ==
    /\ Inner /\ kind[Head(body).node] \notin {"lit", "return"}
    /\ EnterInner(Head(body).function)
    /\ UNCHANGED <<given, todo, decl, log, err, result>>

(* Mutant: the outer traversal does not go into a body a second time. *)
LeaveBodyForGood ==
    /\ decl # 0 /\ body = <<>>
    /\ decl' = 0 /\ todo' = Tail(todo)
    /\ UNCHANGED <<given, body, log, err, result>>

LeaveBody ==
    /\ decl # 0 /\ body = <<>>
    /\ EndBody(FALSE)
    /\ UNCHANGED <<given, log, result>>

-----------------------------------------------------------------------------
Return ==
    /\ todo = <<>> /\ result = "none"
    /\ result' = IF err /\ ~continueOnError THEN "error" ELSE "ok"
    /\ UNCHANGED <<given, todo, decl, body, log, err>>

Over == result # "none" /\ UNCHANGED vars

Next ==
    \/ AfterError \/ Connect \/ PlainCall \/ Pass
    \/ FuncDecl \/ FuncLit \/ ReturnStmt \/ PassInBody \/ LeaveBody
    \/ Return \/ Over

Spec == Init /\ [][Next]_vars

-----------------------------------------------------------------------------
(* Properties *)

(* The function a return statement belongs to. *)
FunctionOf(n) == CHOOSE f \in Above[n] \cap Functions : \A g \in Above[n] \cap Functions : g <= f

(* A return is connected with the results of its own function, that of the *)
(* innermost literal where it stands in one (functionBodyParser).          *)
ReturnsOfOwnFunction ==
    \A k \in DOMAIN log :
        kind[log[k].node] = "return" => log[k].function = FunctionOf(log[k].node)

(* Two traversals of every body connect no value twice.                    *)
ConnectedOnce ==
    \A k, l \in DOMAIN log :
        log[k].node = log[l].node /\ log[k].slot = log[l].slot => k = l

(* What a file without errors gets: the returns below a declaration, and   *)
(* everything else that is not an operand of a plain call.                 *)
Reached ==
    {n \in Nodes :
        \/ kind[n] = "return" /\ \E f \in Above[n] : kind[f] = "func"
        \/ kind[n] \in Connecting /\ \A m \in Above[n] : kind[m] # "plaincall"}

ConnectedNodes == {log[k].node : k \in DOMAIN log}

(* Nothing else is skipped, and nothing else is connected.                 *)
ReachedExactly ==
    /\ ConnectedNodes \subseteq Reached
    /\ result = "ok" /\ ~err =>
          \A n \in Reached : \A s \in 1 .. Slots : \E k \in DOMAIN log : log[k].node = n /\ log[k].slot = s

(* Parse returns an error exactly for a file with a value that cannot be   *)
(* connected, unless it was told to continue.                              *)
ErrorsAreReported ==
    result # "none" =>
        (result = "error" <=> ~continueOnError /\ \E n \in Reached : fails[n] # 0)
=============================================================================
