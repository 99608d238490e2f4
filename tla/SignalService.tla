--------------------------- MODULE SignalService ---------------------------
(***************************************************************************)
(* What the self-pipe machinery of sig.c, event.c and shell_run promises   *)
(* to the rest of the shell, with no pipe, no flag and no mask:            *)
(*   - a state change of a child stays outstanding until waitpid reports   *)
(*     it, and is reported sooner or later;                                *)
(*   - an interrupt stays outstanding until the input line is reset, and   *)
(*     it is reset sooner or later, unless the shell is leaving.           *)
(* EventLoop is shown to implement this specification.                     *)
(***************************************************************************)
EXTENDS FiniteSets

CONSTANT Children       (* the processes the shell may start               *)

VARIABLES changed,      (* children with a state change waitpid has not reported *)
          interrupted,  (* an interrupt has not been acknowledged          *)
          up            (* the main loop is being executed                 *)

svars == <<changed, interrupted, up>>

Init == /\ changed = {}
        /\ interrupted = FALSE
        /\ up = TRUE

Change(c) == /\ up
             /\ changed' = changed \cup {c}
             /\ UNCHANGED <<interrupted, up>>

Observe(c) == /\ up
              /\ c \in changed
              /\ changed' = changed \ {c}
              /\ UNCHANGED <<interrupted, up>>

Interrupt == /\ up
             /\ interrupted' = TRUE
             /\ UNCHANGED <<changed, up>>

Acknowledge == /\ up
               /\ interrupted
               /\ interrupted' = FALSE
               /\ UNCHANGED <<changed, up>>

(* The shell leaves its main loop: what is outstanding no longer matters.  *)
Leave == /\ up
         /\ up' = FALSE
         /\ changed' = {}
         /\ interrupted' = FALSE

Next == \/ \E c \in Children : Change(c) \/ Observe(c)
        \/ Interrupt
        \/ Acknowledge
        \/ Leave

(* Each outstanding change is a promise of its own.                        *)
Spec == /\ Init
        /\ [][Next]_svars
        /\ \A c \in Children : WF_svars(Observe(c))
        /\ WF_svars(Acknowledge)
=============================================================================
