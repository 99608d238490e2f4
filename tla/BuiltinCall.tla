---------------------------- MODULE BuiltinCall ----------------------------
(***************************************************************************)
(* What all the builtins share: the shell has one thread, so one builtin   *)
(* runs at a time, and call says how far it has come.  A handler ends with *)
(* its return value in ret; the loop of the shell makes that the status of *)
(* the command (see Builtins).                                             *)
(***************************************************************************)
EXTENDS Integers, Sequences, FiniteSets, Functions

VARIABLES
    call,       (* the step of the running builtin; "idle" at the prompt   *)
    ret         (* the value the last handler returned                     *)

(* The error codes, MiniShell_OK, and "last" for last_exit_status.         *)
Returns == {"ok", "unknown", "memory", "open", "parse", "last"}

At(step) == call = step
Goto(step) == call' = step /\ UNCHANGED ret
Return(code) == call' = "return" /\ ret' = code

(* strtol of a number that is written out in full: one that does not fit   *)
(* is replaced by the nearest that does, with ERANGE.                      *)
Strtol(n, longMax) ==
    IF n > longMax THEN [value |-> longMax, error |-> TRUE]
    ELSE IF n < - longMax - 1 THEN [value |-> - longMax - 1, error |-> TRUE]
    ELSE [value |-> n, error |-> FALSE]

(* The conversion of a long to an int.                                     *)
ToInt(n, intMax) == ((n + intMax + 1) % (2 * (intMax + 1))) - (intMax + 1)

(* What qsort may make of a sequence: its elements in another order.       *)
Arrangements(s) == {[i \in DOMAIN s |-> s[p[i]]] : p \in Bijection(DOMAIN s, DOMAIN s)}
=============================================================================
