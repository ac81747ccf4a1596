----------------------------- MODULE SyntaxTree -----------------------------
(***************************************************************************)
(* Syntax trees as ast.Inspect goes through them: the nodes are numbered   *)
(* in the order in which it meets them, so a node comes after the one it   *)
(* stands in and the nodes below it follow it.  Node 1 is the file.        *)
(***************************************************************************)
EXTENDS Integers, SequencesExt, FiniteSetsExt

(* The nodes a node stands in. *)
Above(t) ==
    LET above[n \in DOMAIN t] == IF t[n].up = 0 THEN {} ELSE {t[n].up} \cup above[t[n].up]
    IN  above

(* The nodes of S in the order of the source. *)
InOrder(S) ==
    [k \in 1 .. Cardinality(S) |-> CHOOSE x \in S : Cardinality({y \in S : y < x}) = k - 1]

Children(t, n) == InOrder({k \in DOMAIN t : t[k].up = n})

(* All trees of a family, which has a number of nodes and a grammar: for   *)
(* each kind of node the kinds that may stand in it.  Each node stands in  *)
(* the last one or in one of those above that.                             *)
TreesOf(shape) ==
    LET grown[n \in 1 .. shape.size] ==
            IF n = 1 THEN {<<[up |-> 0, kind |-> "file"]>>}
            ELSE {Append(p[1], p[2]) :
                    p \in {q \in grown[n - 1] \X [up : 1 .. n - 1, kind : DOMAIN shape.grammar] :
                             /\ q[2].up \in {n - 1} \cup Above(q[1])[n - 1]
                             /\ q[2].kind \in shape.grammar[q[1][q[2].up].kind]}}
    IN  grown[shape.size]
=============================================================================
