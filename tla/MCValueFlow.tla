---------------------------- MODULE MCValueFlow ----------------------------
(***************************************************************************)
(* A named interface, error of the universe, anonymous interfaces with and *)
(* without an embedded error, a defined type that declares its methods,    *)
(* one and a struct that have some promoted.                               *)
(***************************************************************************)
EXTENDS ValueFlow

MCBases ==
    [I     |-> [kind |-> "interface", methods |-> [M |-> "I"]],
     error |-> [kind |-> "interface", methods |-> [E |-> "error"]],
     A     |-> [kind |-> "anonymous", methods |-> [M |-> "A", E |-> "A"]],
     B     |-> [kind |-> "anonymous", methods |-> [M |-> "B", E |-> "error"]],
     T     |-> [kind |-> "defined", methods |-> [M |-> "T", E |-> "T"]],
     P     |-> [kind |-> "defined", methods |-> [M |-> "T", E |-> "P"]],
     S     |-> [kind |-> "struct", methods |-> [M |-> "T"]],
     plain |-> [kind |-> "plain", methods |-> [m \in {} |-> ""]]]
=============================================================================
