--------------------------- MODULE MCStartupGate ---------------------------
(* Instances of StartupGate for TLC. *)
EXTENDS StartupGate
=============================================================================
