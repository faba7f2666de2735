--------------------------- MODULE MCRunPublication ---------------------------
(* Instances of RunPublication for TLC. *)
EXTENDS RunPublication
=============================================================================
