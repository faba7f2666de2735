------------------------------ MODULE MCRunViewer ------------------------------
(* Instances of RunViewer for TLC. *)
EXTENDS RunViewer
=============================================================================
