----------------------------- MODULE MCTypeRefs -----------------------------
(***************************************************************************)
(* The two halves of a reference to a type, each by itself: which types a  *)
(* declaration names, and what becomes of the references of all files.     *)
(* The half that is not looked at has an empty struct before it, or an     *)
(* index that holds every file.                                            *)
(***************************************************************************)
EXTENDS MCDeferredRefs, MCTypeWalk

VARIABLE half   \* "declaration", "stage"

EmptyStruct ==
    /\ tree = <<[up |-> 0, kind |-> "file"], [up |-> 1, kind |-> "struct"]>>
    /\ typeAt = <<>> /\ form = [names |-> 0, declared |-> 0]
    /\ calls = TypeSpecCalls /\ walk = Idle /\ refs = {} /\ done = FALSE

HalfInit ==
    \/ half = "declaration" /\ Init /\ indexed = Files /\ WalkInit
    \/ half = "stage" /\ EmptyStruct /\ Init

DeclarationHalf == half = "declaration" /\ WalkNext /\ UNCHANGED <<vars, half>>
StageHalf == half = "stage" /\ Next /\ UNCHANGED <<walkVars, half>>

HalfSpec == HalfInit /\ [][DeclarationHalf \/ StageHalf]_<<vars, walkVars, half>>
=============================================================================
