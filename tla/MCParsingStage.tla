--------------------------- MODULE MCParsingStage ---------------------------
(***************************************************************************)
(* An instance of ParsingStage.  Package a imports b and u while u is a    *)
(* root as well; b is parsed by hand and its only file does not parse; the *)
(* parse of u may fail.  With a channel of one, a alone submits more items *)
(* than the channel, the dispatcher and the worker channel hold together.  *)
(***************************************************************************)
EXTENDS ParsingStage

CONSTANTS a, b, u, fa, ga, ha, fb, fu

MCPackages  == {a, b, u}
MCFiles     == {fa, ga, ha, fb, fu}

MCFilesOf   == (a :> <<fa, ga, ha>>) @@ (b :> <<fb>>) @@ (u :> <<fu>>)
MCImportsOf == (a :> {b, u}) @@ (b :> {}) @@ (u :> {})
MCRoots     == <<a, u>>
=============================================================================
