--------------------------- MODULE ProcessMonitor ---------------------------
(***************************************************************************)
(* psinfo (process_monitor.c, cmd_runtime.c): a walk over /proc while      *)
(* processes begin and end.  A process may end between readdir and the     *)
(* open of its status, and one without a name is left out.                 *)
(***************************************************************************)
EXTENDS BuiltinCall, SequencesExt

CONSTANTS Pids,         (* process numbers                                 *)
          Nameless,     (* those of processes with an empty name           *)
          Room,         (* the places of the list at first (64)            *)
          MaxBirths,    (* bound: processes that begin during the walk     *)
          PidMax,       (* INT_MAX                                         *)
          PidLong       (* LONG_MAX                                        *)

ASSUME ProcessAssumption ==
    /\ Pids \subseteq 1..PidMax /\ Nameless \subseteq Pids
    /\ Room \in Nat \ {0} /\ MaxBirths \in Nat
    /\ PidMax \in Nat \ {0} /\ PidLong \in Nat /\ PidLong >= PidMax

VARIABLES
    alive,      (* the processes there are                                 *)
    walked,     (* those readdir has returned                              *)
    entry,      (* the one whose status is read next; 0: none              *)
    list,       (* the list, as far as it is filled                        *)
    capacity,   (* its places                                              *)
    stayed,     (* history: the processes alive since the walk began       *)
    seen,       (* history: those alive at some time during the walk       *)
    births      (* for MaxBirths                                           *)

processVars == <<alive, walked, entry, list, capacity, stayed, seen, births>>

ProcessInit ==
    /\ alive = {} /\ walked = {} /\ entry = 0
    /\ list = <<>> /\ capacity = Room
    /\ stayed = {} /\ seen = {} /\ births = 0

(* process_monitor_free                                                    *)
ProcessOver ==
    /\ alive' = {} /\ walked' = {} /\ entry' = 0
    /\ list' = <<>> /\ capacity' = Room
    /\ stayed' = {} /\ seen' = {} /\ births' = 0

Walking == call \in {"walk", "read_status"}

-----------------------------------------------------------------------------
(* The kernel: processes begin and end.  A number that readdir has passed  *)
(* is not returned again.                                                  *)
Begins(p) ==
    /\ Walking /\ births < MaxBirths
    /\ p \in Pids \ alive
    /\ births' = births + 1
    /\ alive' = alive \cup {p} /\ seen' = seen \cup {p}
    /\ UNCHANGED <<call, ret, walked, entry, list, capacity, stayed>>

Ends(p) ==
    /\ Walking
    /\ p \in alive
    /\ alive' = alive \ {p} /\ stayed' = stayed \ {p}
    /\ UNCHANGED <<call, ret, walked, entry, list, capacity, seen, births>>

-----------------------------------------------------------------------------
(* cmd_psinfo without a number, process_monitor_collect: opendir, malloc.  *)
Psinfo ==
    /\ At("psinfo")
    /\ \/ call' = "walk" /\ UNCHANGED ret
          /\ alive' \in SUBSET Pids /\ stayed' = alive' /\ seen' = alive'
       \/ (Return("parse") \/ Return("open") \/ Return("memory"))
          /\ UNCHANGED <<alive, stayed, seen>>
    /\ UNCHANGED <<walked, entry, list, capacity, births>>

NextEntry ==
    /\ At("walk")
    /\ entry' \in alive \ walked
    /\ walked' = walked \cup {entry'}
    /\ Goto("read_status")
    /\ UNCHANGED <<alive, list, capacity, stayed, seen, births>>

(* process_monitor_get                                                     *)
HasStatus(p) == p \in alive /\ p \notin Nameless

(* The list is doubled when it is full; if that fails, nothing is listed.  *)
Full_Late == Len(list) > capacity        \* mutant: doubled one too late
Full == Len(list) = capacity

ReadStatus ==
    /\ At("read_status")
    /\ entry' = 0
    /\ \/ /\ ~ HasStatus(entry)
          /\ Goto("walk") /\ UNCHANGED <<list, capacity>>
       \/ /\ HasStatus(entry)
          /\ Goto("walk")
          /\ list' = Append(list, entry)
          /\ capacity' = IF Full THEN 2 * capacity ELSE capacity
       \/ /\ HasStatus(entry) /\ Full
          /\ Return("memory")
          /\ list' = <<>> /\ UNCHANGED capacity
    /\ UNCHANGED <<alive, walked, stayed, seen, births>>

(* qsort with process_info_compare.                                        *)
Sorted(s) == {t \in Arrangements(s) : \A i, j \in DOMAIN t : i < j => t[i] <= t[j]}

(* The end of the directory: every process that is still there has been    *)
(* returned.                                                               *)
EndWalk ==
    /\ At("walk") /\ alive \subseteq walked
    /\ list' \in Sorted(list)
    /\ Return("ok")
    /\ UNCHANGED <<alive, walked, entry, capacity, stayed, seen, births>>

(* cmd_psinfo with a number: parse_pid, process_monitor_get.               *)
PidAccepted(n) ==
    LET l == Strtol(n, PidLong) IN ~ l.error /\ l.value > 0 /\ l.value <= PidMax

PsinfoOf ==
    /\ At("psinfo_pid")
    /\ \E n \in (-1)..(PidLong + 1), there \in SUBSET Pids :
          Return(IF ~ PidAccepted(n) THEN "parse"
                 ELSE IF ToInt(n, PidMax) \in there \ Nameless THEN "ok" ELSE "open")
    /\ UNCHANGED processVars

ProcessSteps == Psinfo \/ NextEntry \/ ReadStatus \/ EndWalk \/ PsinfoOf

-----------------------------------------------------------------------------
(* When psinfo succeeds, its list is in the order of the numbers, shows no *)
(* process twice and none that was not there, and shows each process with  *)
(* a name that was there all the time, whatever begins and ends meanwhile. *)
(* The list is never written behind its end.                               *)
ProcessesListed ==
    /\ Len(list) <= capacity
    /\ At("return") /\ ret = "ok" /\ seen # {} =>
          /\ \A i, j \in DOMAIN list : i < j => list[i] < list[j]
          /\ ToSet(list) \subseteq seen
          /\ stayed \ Nameless \subseteq ToSet(list)
=============================================================================
