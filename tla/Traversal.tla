----------------------------- MODULE Traversal ------------------------------
(***************************************************************************)
(* What a parsing stage promises, with no channel, counter or goroutine:   *)
(* every item reachable from the roots becomes known, each known item is   *)
(* finished, and Wait returns once, with exactly the errors of the items   *)
(* that failed, only when nothing that is known is unfinished.             *)
(***************************************************************************)
EXTENDS PackageGraph

VARIABLES
    known,     \* items submitted so far
    finished,  \* items whose Parse has returned
    failed,    \* those whose error waits to be reported
    reported   \* {} before Wait returns, then {the errors it returned}

vars == <<known, finished, failed, reported>>

Init ==
    /\ known = {}
    /\ finished = {}
    /\ failed = {}
    /\ reported = {}

(* x is a root, or an unfinished item submits it. *)
Discover(x) ==
    /\ reported = {}
    /\ \/ x \in ToSet(Roots)
       \/ \E p \in known \ finished : x \in Children(p)
    /\ known' = known \cup {x}
    /\ UNCHANGED <<finished, failed, reported>>

(* x's Parse returns nil: everything below it is known. *)
Succeed(x) ==
    /\ x \in known \ finished
    /\ Children(x) \subseteq known
    /\ finished' = finished \cup {x}
    /\ UNCHANGED <<known, failed, reported>>

(* x's Parse returns an error, whatever it has submitted so far. *)
Fail(x) ==
    /\ x \in (known \ finished) \cap MayFail
    /\ finished' = finished \cup {x}
    /\ failed' = failed \cup {x}
    /\ UNCHANGED <<known, reported>>

Return ==
    /\ reported = {}
    /\ ToSet(Roots) \subseteq known
    /\ known = finished
    /\ reported' = {failed}
    /\ failed' = {}
    /\ UNCHANGED <<known, finished>>

Next ==
    \/ \E x \in Items : Discover(x) \/ Succeed(x) \/ Fail(x)
    \/ Return

Spec == Init /\ [][Next]_vars
=============================================================================
