------------------------- MODULE MCBuiltinRedirect -------------------------
(* Instances of BuiltinRedirect for TLC. *)
EXTENDS BuiltinRedirect
=============================================================================
