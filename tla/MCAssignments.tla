---------------------------- MODULE MCAssignments ---------------------------
(***************************************************************************)
(* The two halves of an assignment parser, each by itself: the walk of a   *)
(* file, or what is done with one node.  The half that is not looked at    *)
(* has a file of functions without bodies, or a call without arguments,    *)
(* before it.                                                              *)
(***************************************************************************)
EXTENDS AssignmentWalk, MCValueFlow

VARIABLE half   \* "walk", "node"

EmptyFile ==
    /\ parent = [n \in Nodes |-> 1] /\ kind = [n \in Nodes |-> IF n = 1 THEN "file" ELSE "func"]
    /\ fails = [n \in Nodes |-> 0] /\ continueOnError = FALSE
    /\ todo = <<1>> /\ decl = 0 /\ body = <<>> /\ log = <<>> /\ err = FALSE /\ result = "none"

EmptyCall ==
    /\ node = [form |-> "call", slots |-> <<>>, given |-> <<>>, way |-> "each",
               over |-> PlainType, variadic |-> FALSE]
    /\ unindexed = {} /\ slot = 1 /\ made = {} /\ outcome = "none"

HalfInit ==
    \/ half = "walk" /\ EmptyCall /\ Init
    \/ half = "node" /\ EmptyFile /\ FlowInit

WalkHalf == half = "walk" /\ Next /\ UNCHANGED <<FlowVars, half>>
NodeHalf == half = "node" /\ FlowNext /\ UNCHANGED <<vars, half>>

HalfSpec == HalfInit /\ [][WalkHalf \/ NodeHalf]_<<vars, FlowVars, half>>
=============================================================================
