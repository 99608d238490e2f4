---------------------------- MODULE MCShellInput ----------------------------
(* Instances of ShellInput for TLC. *)
EXTENDS ShellInput
=============================================================================
