----------------------------- MODULE MCTypeWalk -----------------------------
(***************************************************************************)
(* Declarations of a few nodes.                                            *)
(***************************************************************************)
EXTENDS TypeWalk

MCGrammar ==
    [file       |-> {"constraint"} \cup Expressions,
     constraint |-> {"name", "generic", "iface"},
     name       |-> {},
     parts      |-> Expressions,
     struct     |-> Expressions,
     generic    |-> {"name", "parts", "generic"},
     iface      |-> {"method", "name", "generic"},
     method     |-> {"name", "parts"}]

MCShapes == {[size |-> 5, grammar |-> MCGrammar]}
=============================================================================
