--------------------------- MODULE MCDeferredRefs ---------------------------
(***************************************************************************)
(* Three files of the stage and one that no package holds.  F and G use a  *)
(* type of each other, F a type of the file outside and G one of its own,  *)
(* and H has a method of a type in F and one of a type outside.            *)
(***************************************************************************)
EXTENDS DeferredRefs

CONSTANTS F, G, H, out, FG, GF, FO, GG, HF, HO

MCFiles  == {F, G, H, out}
MCRefsOf == (F :> <<FG, FO>>) @@ (G :> <<GF, GG>>) @@ (H :> <<HF, HO>>) @@ (out :> <<>>)
MCTarget == (FG :> G) @@ (GF :> F) @@ (FO :> out) @@ (GG :> G) @@ (HF :> F) @@ (HO :> out)
=============================================================================
