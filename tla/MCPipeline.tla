----------------------------- MODULE MCPipeline -----------------------------
(***************************************************************************)
(* A repository r with directories a, a/c, ab and b, one Go file in each;  *)
(* ab has the name of a as a prefix.                                       *)
(***************************************************************************)
EXTENDS Pipeline

MCDirs == {<<>>, <<"r">>, <<"r", "a">>, <<"r", "a", "c">>, <<"r", "ab">>, <<"r", "b">>}
MCFiles == {<<"r", "x">>, <<"r", "a", "x">>, <<"r", "a", "c", "x">>, <<"r", "ab", "x">>, <<"r", "b", "x">>}
MCCwd == <<"r", "a">>
MCRepoRoot == <<"r">>
MCNameRest == <<"a", "ab">> :> "b"
MCArguments ==
    {[kind |-> "path", path |-> p] :
        p \in {<<"r">>, <<"r", "a">>, <<"r", ".", "a">>, <<"r", "a", "c">>, <<"r", "b">>, <<"r", "x">>}}
    \cup {[kind |-> "glob", path |-> p] : p \in {<<"r">>, <<"r", "b">>}}
MCModSets ==
    {{<<"r">>}, {<<"r", "a">>, <<"r", "b">>}, {<<"r">>, <<"r", "a">>}, {<<>>, <<"r", "a", "c">>}}
MCImported == {<<"r", "ab", "x">>}
MCRootFlags == {NoPath, <<"r", "a">>, <<"r", "x">>}
=============================================================================
