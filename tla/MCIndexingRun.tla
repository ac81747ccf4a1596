---------------------------- MODULE MCIndexingRun ---------------------------
(***************************************************************************)
(* Two modules and a file in each of two nested directories, one that can  *)
(* be read with other contents too and one that is empty; parsers or git   *)
(* may add either.  Uses at the same offsets of different files, of names  *)
(* that may never be declared, of a C name; an import of one module.       *)
(***************************************************************************)
EXTENDS IndexingRun

X == "/a/x.go"
Y == "/a/b/y.go"

MCDirs == {"/", "/a", "/a/b"}
MCParentDir == X :> "/a" @@ Y :> "/a/b" @@ "/a/b" :> "/a" @@ "/a" :> "/" @@ "/" :> "/"

File(p, h, n) == [path |-> p, hash |-> h, len |-> n]
MCFiles == {File(X, "old", 3), File(X, "new", 3), File(Y, "old", 0)}

Declare(p, n, s, e, u) ==
    [path |-> p, name |-> n, scope |-> "GLOBAL", start |-> s, end |-> e, under |-> u]
MCDeclarations ==
    {Declare(X, "f", 0, 2, NoName), Declare(X, "f", 4, 5, NoName), Declare(X, "g", 1, 4, "f"),
     Declare(Y, "g", 0, 1, "f")}

Use(p, q, n) == [from |-> p, to |-> q, name |-> n, start |-> 1, end |-> 2]
MCReferences == {Use(X, X, "f"), Use(Y, X, "f"), Use(Y, Y, "g"), Use(X, X, "C.f")}

MCImports == {[from |-> Y, module |-> "n", start |-> 0, end |-> 1]}
=============================================================================
