------------------------------ MODULE MCIndex ------------------------------
(***************************************************************************)
(* The two halves of the index, each by itself: what the calls of a run    *)
(* put into it, and how an object of it is numbered.  The half that is not *)
(* looked at has an index before its first call, or an object without      *)
(* instances.  A run may stop anywhere, the numbering may not.             *)
(***************************************************************************)
EXTENDS MCIndexingRun, MCNumbering

VARIABLE half   \* "run", "object"

EmptyObject == [insts |-> <<>>, stated |-> <<>>, refs |-> <<>>]

HalfInit ==
    \/ half = "run" /\ RunInit /\ obj = EmptyObject /\ NumberingInit
    \/ half = "object" /\ RunInit /\ NumberingInit

RunHalf == half = "run" /\ [RunNext]_runVars /\ UNCHANGED <<numberingVars, half>>
ObjectHalf == half = "object" /\ NumberingNext /\ UNCHANGED <<runVars, half>>

HalfSpec == HalfInit /\ [][RunHalf \/ ObjectHalf]_<<runVars, numberingVars, half>>
=============================================================================
