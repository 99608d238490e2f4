----------------------------- MODULE JobLedger -----------------------------
(***************************************************************************)
(* What the job table promises, without statuses, reports or terminals: a  *)
(* job is listed from its start until every process of it has been reaped, *)
(* never shorter, and is then removed from the list sooner or later.       *)
(* JobControl is shown to implement this specification.                    *)
(***************************************************************************)
CONSTANTS Process,
          NoJob       (* the owner of a process before its start           *)

VARIABLES listed,     (* the jobs in the list, named by their first process *)
          unreaped,   (* the processes that have not been reaped            *)
          owner       (* the job of each process                           *)

lvars == <<listed, unreaped, owner>>

Init == /\ listed = {}
        /\ unreaped = {}
        /\ owner = [p \in Process |-> NoJob]

Of(j) == {p \in Process : owner[p] = j}

(* A job of fresh processes is started and listed, in one step.            *)
Start(j, ps) == /\ j \in ps
                /\ j \notin listed
                /\ Of(j) = {}
                /\ listed' = listed \cup {j}
                /\ unreaped' = unreaped \cup ps
                /\ owner' = [p \in Process |-> IF p \in ps THEN j ELSE owner[p]]

Reap(p) == /\ p \in unreaped
           /\ unreaped' = unreaped \ {p}
           /\ UNCHANGED <<listed, owner>>

(* Some jobs leave the list; all their processes have been reaped.         *)
Remove(js) == /\ js # {} /\ js \subseteq listed
              /\ \A j \in js : Of(j) \cap unreaped = {}
              /\ listed' = listed \ js
              /\ UNCHANGED <<unreaped, owner>>

(* A job that cannot be waited for is killed, reaped and removed at once.  *)
Discard(j) == /\ j \in listed
              /\ listed' = listed \ {j}
              /\ unreaped' = unreaped \ Of(j)
              /\ UNCHANGED owner

Next == \/ \E j \in Process, ps \in SUBSET Process : Start(j, ps)
        \/ \E p \in Process : Reap(p)
        \/ \E js \in SUBSET Process : Remove(js)
        \/ \E j \in Process : Discard(j)

Spec ==
    /\ Init
    /\ [][Next]_lvars
    /\ \A j \in Process : WF_lvars(\E js \in SUBSET Process : j \in js /\ Remove(js))
=============================================================================
