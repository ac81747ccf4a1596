----------------------------- MODULE MCFileWalk -----------------------------
(***************************************************************************)
(* Families of small files: declarations of every kind; a function that    *)
(* gives variables of its own literals, nested ones too; functions that do *)
(* so with variables of the package.                                       *)
(***************************************************************************)
EXTENDS FileWalk

Code == {"lit", "named", "call", "block"}

MCDeclarations ==
    [file  |-> {"gen", "func", "named", "block"},
     gen   |-> {"spec"},
     spec  |-> {"iface", "lit", "block"},
     func  |-> {"param"} \cup Code,
     lit   |-> {"param"} \cup Code,
     param |-> {"iface"},
     iface |-> {"iface"},
     named |-> {"iface"},
     block |-> {"iface"} \cup Code,
     call  |-> {"iface", "lit"}]

MCVariables ==
    [file |-> {"func"}, func |-> {"assign", "use", "lit"}, assign |-> {"lit", "use"},
     use |-> {}, lit |-> {"assign", "use"}]

MCPackageVariables ==
    [file |-> {"gen", "func"}, gen |-> {"spec"}, spec |-> {"lit"},
     func |-> {"assign", "use"}, assign |-> {"lit"}, use |-> {}, lit |-> {"assign", "use"}]

MCTwoFunctions ==
    [file |-> {"gen", "func"}, gen |-> {"spec"}, spec |-> {}, func |-> {"assign"},
     assign |-> {"lit"}, lit |-> {}]

Family(size, grammar) == [size |-> size, grammar |-> grammar]
MCShapes == {Family(6, MCDeclarations), Family(7, MCVariables), Family(8, MCPackageVariables)}
MCCollisionShapes == {Family(9, MCTwoFunctions)}
MCAssignShapes == {Family(5, MCVariables)}

MCSpecNames == {<<Name>>, <<Blank>>, <<Name, Name>>, <<Blank, Name>>}
=============================================================================
