----------------------------- MODULE JobControl -----------------------------
(***************************************************************************)
(* The job table of the shell and the processes behind it:                 *)
(*   job.c       the table, the statuses, the waits and the shutdown;      *)
(*   executor.c  the launch of a job, seen from the table, and the end of  *)
(*               a foreground job;                                         *)
(*   builtin.c   fg, bg and reload;                                        *)
(*   terminal.c  the foreground group and the modes of the terminal.       *)
(*                                                                         *)
(* The kernel's side is the state of every process, the last change of it  *)
(* that waitpid has not reported (a new change overwrites an old one), its *)
(* process group, and the descendants a program leaves in its group.  The  *)
(* shell knows none of this but through waitpid; what it caches may be     *)
(* stale in every state.                                                   *)
(*                                                                         *)
(* Processes are numbered in the order they are forked and a job is named  *)
(* by its process group, the number of its first process.  The table is a  *)
(* list with the newest job at its head, so the order of the list is the   *)
(* descending order of these names, and the order of a pipeline is the     *)
(* ascending order of its processes.  Numbers are not used again.          *)
(***************************************************************************)
EXTENDS Naturals, FiniteSets

CONSTANTS NPid,         (* bound: processes the shell forks                *)
          MaxPipe,      (* commands in a pipeline                          *)
          MaxSwitches,  (* bound: stops and continues from outside         *)
          MaxFaults,    (* bound: terminal calls that fail                 *)
          Limits,       (* the values max_job takes, at the start or by reload *)
          Codes,        (* exit statuses of programs                       *)
          Success,      (* the status of a command that did what it should *)
          Failure,      (* the status of a command the shell failed at     *)
          Retries,      (* JOB_SHUTDOWN_RETRY_COUNT                        *)
          CanLeave,     (* programs may leave the group of their job       *)
          CanSpawn      (* programs may leave descendants in their group   *)

ASSUME JobAssumption ==
    /\ NPid \in Nat
    /\ MaxPipe \in Nat \ {0}
    /\ MaxSwitches \in Nat
    /\ MaxFaults \in Nat
    /\ Limits \subseteq Nat \ {0} /\ Limits # {}
    /\ Success \in Codes /\ Failure \notin Codes
    /\ Retries \in Nat
    /\ CanLeave \in BOOLEAN
    /\ CanSpawn \in BOOLEAN

Pid == 1..NPid
Shell == 0        \* the group of the shell, and no process at all
WaitStatuses == [what : {"none", "stopped", "continued", "exited"},
                 code : Codes \cup {Failure}]
NotValid == [what |-> "none", code |-> Failure]    \* wait_status_valid is 0

VARIABLES
    pc,        (* what the shell is doing                                  *)
    todo,      (* processes or jobs the current loop has still to visit    *)
    cur,       (* the foreground job                                       *)
    via,       (* what put it there: "launch" (executor.c), "fg" (builtin.c) or "none" *)
    running,   (* ctx->running                                             *)
    last,      (* ctx->last_exit_status                                    *)
    maxJob,    (* ctx->config.max_job                                      *)
    round,     (* the round of job_shutdown                                *)
    table,     (* the jobs in the table                                    *)
    next,      (* the number of the next process                           *)
    job,       (* the job each process belongs to                          *)
    status,    (* Job.status                                               *)
    cached,    (* Process.status                                           *)
    wait_status, (* Process.wait_status: what waitpid said last, "none" if not valid *)
    saved,     (* Job.terminal_modes, or "none" if not valid               *)
    kst,       (* kernel: what each process is doing                       *)
    rep,       (* kernel: the change waitpid would report                  *)
    code,      (* kernel: the exit status, told with the report of the exit *)
    grp,       (* kernel: the process group                                *)
    desc,      (* kernel: groups with a living descendant                  *)
    chld,      (* a SIGCHLD job_reap has not been called for (EventLoop)   *)
    tty,       (* terminal: the foreground group                           *)
    modes,     (* terminal: whose modes are set, "shell" or "job"          *)
    switches,  (* stops and continues so far, for MaxSwitches              *)
    faults     (* failed terminal calls so far, for MaxFaults              *)

shellVars  == <<pc, todo, cur, via, running, last, maxJob, round>>
tableVars  == <<table, next, job, status, cached, wait_status, saved>>
kernelVars == <<kst, rep, code, grp, desc, chld>>
ttyVars    == <<tty, modes>>
boundVars  == <<switches, faults>>
vars == <<shellVars, tableVars, kernelVars, ttyVars, boundVars>>

Init ==
    /\ pc = "prompt"
    /\ todo = {}
    /\ cur = Shell
    /\ via = "none"
    /\ running = TRUE
    /\ last = Success
    /\ maxJob \in Limits
    /\ round = 0
    /\ table = {}
    /\ next = 1
    /\ job = [p \in Pid |-> Shell]
    /\ status = [j \in Pid |-> "DONE"]
    /\ cached = [p \in Pid |-> "done"]
    /\ wait_status = [p \in Pid |-> NotValid]
    /\ saved = [j \in Pid |-> "none"]
    /\ kst = [p \in Pid |-> "none"]
    /\ rep = [p \in Pid |-> "none"]
    /\ code = [p \in Pid |-> Failure]
    /\ grp = [p \in Pid |-> Shell]
    /\ desc = {}
    /\ chld = FALSE
    /\ tty = Shell
    /\ modes = "shell"
    /\ switches = 0
    /\ faults = 0

-----------------------------------------------------------------------------
(* Operators of job.c *)

Members(j) == {p \in Pid : job[p] = j}
Tracked == {p \in Pid : job[p] \in table}

(* job_update_status: one running process makes the job RUNNING, else one  *)
(* stopped process makes it STOPPED, else it is DONE.                      *)
Derived_LastOnly(c, j) ==        \* mutant: a pipeline is done when its end is
    IF \E p \in Members(j) : c[p] = "done" /\ \A q \in Members(j) : q <= p THEN "DONE"
    ELSE IF \E p \in Members(j) : c[p] = "running" THEN "RUNNING" ELSE "STOPPED"
Derived(c, j) ==
    IF \E p \in Members(j) : c[p] = "running" THEN "RUNNING"
    ELSE IF \E p \in Members(j) : c[p] = "stopped" THEN "STOPPED" ELSE "DONE"

(* process_apply_wait_status *)
Applied_Raw(r) == r              \* mutant: the report is stored as it is
Applied_NoContinued(r) ==        \* mutant: what has not ended counts as stopped
    IF r = "exited" THEN "done" ELSE "stopped"
Applied(r) == CASE r = "exited" -> "done"
                [] r = "stopped" -> "stopped"
                [] r = "continued" -> "running"

Active(j) == status[j] \in {"RUNNING", "STOPPED"}
ActiveJobs == {j \in table : Active(j)}

(* The first job of the list with a property: the newest one.              *)
IsFirst(j, S) == j \in S /\ \A k \in S : k <= j

(* The next process of a walk through the table: job by job in the order   *)
(* of the list, and in each job in the order of the pipeline.              *)
IsNext(p, S) == /\ p \in S
                /\ \A q \in S : job[q] < job[p] \/ (job[q] = job[p] /\ p <= q)

(* What process_apply_wait_status keeps of the report: an exit with its    *)
(* status, a stop or a continuation in place of what was there before.     *)
Reported_Once(p) ==              \* mutant: kept only as long as none is valid
    IF wait_status[p].what # "none" THEN wait_status[p]
    ELSE [what |-> rep[p], code |-> code[p]]
Reported(p) == [what |-> rep[p], code |-> code[p]]

(* The changes waitpid reports, by its flags: in job_reap, in              *)
(* job_wait_foreground, and during the shutdown.                           *)
ReapFlags_NoContinued == {"exited", "stopped"}     \* mutant: no WCONTINUED
ReapFlags == {"exited", "stopped", "continued"}    \* WUNTRACED | WCONTINUED
WaitFlags_NoStopped == {"exited"}                  \* mutant: no WUNTRACED
WaitFlags == {"exited", "stopped"}                 \* WUNTRACED
ShutFlags == {"exited"}                            \* none

(* waitpid reports the change of p, and the table takes it over: an exit   *)
(* releases the process.  A call that has nothing to report changes        *)
(* nothing; one for a process that is gone (ECHILD) makes it DONE, and     *)
(* leaves wait_status as it is.                                            *)
Observe(p, flags) ==
    IF rep[p] \in flags
    THEN /\ kst' = IF rep[p] = "exited" THEN [kst EXCEPT ![p] = "none"] ELSE kst
         /\ rep' = [rep EXCEPT ![p] = "none"]
         /\ cached' = [cached EXCEPT ![p] = Applied(rep[p])]
         /\ wait_status' = [wait_status EXCEPT ![p] = Reported(p)]
    ELSE /\ cached' = IF kst[p] = "none" THEN [cached EXCEPT ![p] = "done"] ELSE cached
         /\ UNCHANGED <<kst, rep, wait_status>>

(* A walk through the table updates the status of a job when it has        *)
(* visited the last process of it.                                         *)
UpdateAfter_Stale(p, rest) ==    \* mutant: the status is derived too early
    status' = IF \E q \in rest : job[q] = job[p] THEN status
              ELSE [status EXCEPT ![job[p]] = Derived(cached, job[p])]
UpdateAfter(p, rest) ==
    status' = IF \E q \in rest : job[q] = job[p] THEN status
              ELSE [status EXCEPT ![job[p]] = Derived(cached', job[p])]

Pending == {p \in Tracked : cached[p] # "done"}

-----------------------------------------------------------------------------
(* The kernel and the programs *)

Alive(p) == kst[p] \in {"run", "stop"}

Exits(p) ==
    /\ Alive(p)
    /\ \E c \in Codes : code' = [code EXCEPT ![p] = c]
    /\ kst' = [kst EXCEPT ![p] = "zombie"]
    /\ rep' = [rep EXCEPT ![p] = "exited"]
    /\ chld' = TRUE
    /\ UNCHANGED <<shellVars, tableVars, grp, desc, ttyVars, boundVars>>

Switches(p) ==
    /\ switches < MaxSwitches
    /\ switches' = switches + 1
    /\ \/ /\ kst[p] = "run"
          /\ kst' = [kst EXCEPT ![p] = "stop"]
          /\ rep' = [rep EXCEPT ![p] = "stopped"]
       \/ /\ kst[p] = "stop"
          /\ kst' = [kst EXCEPT ![p] = "run"]
          /\ rep' = [rep EXCEPT ![p] = "continued"]
    /\ chld' = TRUE
    /\ UNCHANGED <<shellVars, tableVars, code, grp, desc, ttyVars, faults>>

(* A program that is not the first of its job moves to a group of its own. *)
Leaves(p) ==
    /\ CanLeave
    /\ kst[p] = "run"
    /\ grp[p] # p
    /\ grp' = [grp EXCEPT ![p] = p]
    /\ UNCHANGED <<shellVars, tableVars, kst, rep, code, desc, chld, ttyVars, boundVars>>

(* A program forks a descendant, which the shell does not know.            *)
Spawns(p) ==
    /\ CanSpawn
    /\ kst[p] = "run"
    /\ desc' = desc \cup {grp[p]}
    /\ UNCHANGED <<shellVars, tableVars, kst, rep, code, grp, chld, ttyVars, boundVars>>

(* A program in the foreground changes the modes of the terminal.          *)
SetsModes(p) ==
    /\ kst[p] = "run"
    /\ tty = grp[p]
    /\ modes' = "job"
    /\ UNCHANGED <<shellVars, tableVars, kernelVars, tty, boundVars>>

(* kill(-g, SIGCONT): a stopped process runs again and the change is due   *)
(* to be reported.  A kill reaches nobody if the group has no process.     *)
GroupExists(g) == \/ g \in desc
                  \/ \E p \in Pid : grp[p] = g /\ kst[p] # "none"
Stopped_Leader(g) ==             \* mutant: kill(g), not kill(-g)
    {p \in Pid : p = g /\ kst[p] = "stop"}
Stopped(g) == {p \in Pid : grp[p] = g /\ kst[p] = "stop"}
ContinueGroup(g) ==
    /\ kst' = [p \in Pid |-> IF p \in Stopped(g) THEN "run" ELSE kst[p]]
    /\ rep' = [p \in Pid |-> IF p \in Stopped(g) THEN "continued" ELSE rep[p]]
    /\ chld' = (chld \/ Stopped(g) # {})

(* kill(-g, SIGKILL), in the shutdown: nobody asks for a status after it.  *)
KillGroup(g) ==
    LET hit == {p \in Pid : grp[p] = g /\ Alive(p)}
    IN  /\ kst' = [p \in Pid |-> IF p \in hit THEN "zombie" ELSE kst[p]]
        /\ rep' = [p \in Pid |-> IF p \in hit THEN "exited" ELSE rep[p]]
        /\ desc' = desc \ {g}
        /\ chld' = (chld \/ hit # {})

(* Back to the prompt: the shell has no foreground job any more.           *)
ToPrompt == pc' = "prompt" /\ cur' = Shell /\ via' = "none"

(* Some terminal call fails.                                               *)
Fault == faults < MaxFaults /\ faults' = faults + 1

-----------------------------------------------------------------------------
(* Terminal *)

(* terminal_restore gives the terminal back to the shell and restores its  *)
(* modes.  It may fail at either; n faults have happened before.           *)
Restored_GroupOnly(n) ==         \* mutant: the modes are not restored
    tty' = Shell /\ faults' = n /\ UNCHANGED modes
Restored(n) == tty' = Shell /\ modes' = "shell" /\ faults' = n
NotRestored(n) == /\ n < MaxFaults
                  /\ faults' = n + 1
                  /\ tty' \in {tty, Shell}
                  /\ UNCHANGED modes

-----------------------------------------------------------------------------
(* The prompt: the builtins, a launch, and SIGCHLD *)

AtPrompt == pc = "prompt" /\ running

(* A command that fails with no effect: there is no job for fg or bg, the  *)
(* limit is reached, or a launch is rolled back (StartupGate).             *)
CommandFails ==
    /\ AtPrompt
    /\ last' = Failure
    /\ UNCHANGED <<pc, todo, cur, via, running, maxJob, round, tableVars, kernelVars,
                   ttyVars, boundVars>>

(* check_job_limit *)
BelowLimit_OneTooMany == Cardinality(ActiveJobs) <= maxJob   \* mutant: off by one
BelowLimit == Cardinality(ActiveJobs) < maxJob

(* execute_single and execute_pipeline, when all goes well: n processes    *)
(* are forked, registered in one job and released, and a foreground job    *)
(* has got the terminal before.                                            *)
Launch(n, background) ==
    LET new == next..(next + n - 1) IN
    /\ AtPrompt
    /\ BelowLimit
    /\ next + n - 1 <= NPid
    /\ next' = next + n
    /\ table' = table \cup {next}
    /\ job' = [p \in Pid |-> IF p \in new THEN next ELSE job[p]]
    /\ grp' = [p \in Pid |-> IF p \in new THEN next ELSE grp[p]]
    /\ kst' = [p \in Pid |-> IF p \in new THEN "run" ELSE kst[p]]
    /\ cached' = [p \in Pid |-> IF p \in new THEN "running" ELSE cached[p]]
    /\ wait_status' = [p \in Pid |-> IF p \in new THEN NotValid ELSE wait_status[p]]
    /\ status' = [status EXCEPT ![next] = "RUNNING"]
    /\ IF background
       THEN /\ last' = Success
            /\ UNCHANGED <<pc, cur, via, tty>>
       ELSE /\ pc' = "wait"
            /\ cur' = next
            /\ via' = "launch"
            /\ tty' = next
            /\ UNCHANGED last
    /\ UNCHANGED <<todo, running, maxJob, round, saved, rep, code, desc, chld, modes,
                   boundVars>>

(* builtin_fg picks the newest active job and hands the terminal over.     *)
FgHandsOver ==
    /\ AtPrompt
    /\ \E j \in Pid :
          /\ IsFirst(j, ActiveJobs)
          /\ \/ /\ GroupExists(j)
                /\ tty' = j
                /\ cur' = j
                /\ via' = "fg"
                /\ pc' = "fg_modes"
                /\ UNCHANGED <<last, faults>>
             \/ /\ \/ Fault
                   \/ ~ GroupExists(j) /\ UNCHANGED faults
                /\ last' = Failure
                /\ UNCHANGED <<pc, cur, via, tty>>
    /\ UNCHANGED <<todo, running, maxJob, round, tableVars, kernelVars, modes, switches>>

(* The modes the job had when it stopped are set before it continues.      *)
FgSetsModes ==
    /\ pc = "fg_modes"
    /\ \/ /\ pc' = "fg_continue"
          /\ modes' = IF saved[cur] = "none" THEN modes ELSE saved[cur]
          /\ UNCHANGED <<cur, via, last, tty, faults>>
       \/ /\ saved[cur] # "none"
          /\ faults < MaxFaults
          /\ Restored(faults + 1) \/ NotRestored(faults + 1)
          /\ ToPrompt
          /\ last' = Failure
    /\ UNCHANGED <<todo, running, maxJob, round, tableVars, kernelVars, switches>>

(* job_continue: SIGCONT to the group, then the table: every process that  *)
(* was stopped counts as running.                                          *)
Continued(j) ==
    /\ ContinueGroup(j)
    /\ cached' = [p \in Pid |-> IF job[p] = j /\ cached[p] = "stopped" THEN "running"
                                ELSE cached[p]]
    /\ status' = [status EXCEPT ![j] = Derived(cached', j)]

FgContinue ==
    /\ pc = "fg_continue"
    /\ \/ /\ status[cur] = "STOPPED" => GroupExists(cur)
          /\ IF status[cur] = "STOPPED"
             THEN Continued(cur)
             ELSE UNCHANGED <<cached, status, kst, rep, chld>>
          /\ pc' = "wait"
          /\ UNCHANGED <<cur, via, last, ttyVars, faults>>
       \/ /\ status[cur] = "STOPPED" /\ ~ GroupExists(cur)
          /\ Restored(faults) \/ NotRestored(faults)
          /\ ToPrompt
          /\ last' = Failure
          /\ UNCHANGED <<cached, status, kst, rep, chld>>
    /\ UNCHANGED <<todo, running, maxJob, round, table, next, job, wait_status, saved,
                   code, grp, desc, switches>>

(* builtin_bg continues the newest stopped job.                            *)
Bg ==
    /\ AtPrompt
    /\ \E j \in Pid : /\ IsFirst(j, {k \in table : status[k] = "STOPPED"})
                      /\ GroupExists(j)
                      /\ Continued(j)
    /\ last' = Success
    /\ UNCHANGED <<pc, todo, cur, via, running, maxJob, round, table, next, job,
                   wait_status, saved, code, grp, desc, ttyVars, boundVars>>

(* builtin_reload: the new limit may be below the number of jobs.          *)
Reload ==
    /\ AtPrompt
    /\ maxJob' \in Limits \ {maxJob}
    /\ last' = Success
    /\ UNCHANGED <<pc, todo, cur, via, running, round, tableVars, kernelVars, ttyVars,
                   boundVars>>

(* exit, or the end of the input.                                          *)
Quit ==
    /\ AtPrompt
    /\ running' = FALSE
    /\ UNCHANGED <<pc, todo, cur, via, last, maxJob, round, tableVars, kernelVars, ttyVars,
                   boundVars>>

(* job_reap and job_cleanup_done, on SIGCHLD.                              *)
StartReap ==
    /\ AtPrompt
    /\ chld
    /\ chld' = FALSE
    /\ pc' = "reap"
    /\ todo' = Pending
    /\ UNCHANGED <<cur, via, running, last, maxJob, round, tableVars, kst, rep, code, grp,
                   desc, ttyVars, boundVars>>

Poll(p) ==
    /\ pc = "reap"
    /\ IsNext(p, todo)
    /\ todo' = todo \ {p}
    /\ Observe(p, ReapFlags)
    /\ UpdateAfter(p, todo')
    /\ UNCHANGED <<pc, cur, via, running, last, maxJob, round, table, next, job, saved,
                   code, grp, desc, chld, ttyVars, boundVars>>

CleanupDone ==
    /\ pc = "reap"
    /\ todo = {}
    /\ table' = {j \in table : status[j] # "DONE"}
    /\ pc' = "prompt"
    /\ UNCHANGED <<todo, cur, via, running, last, maxJob, round, next, job, status, cached,
                   wait_status, saved, kernelVars, ttyVars, boundVars>>

-----------------------------------------------------------------------------
(* The foreground job *)

InGroup(g) == {p \in Pid : grp[p] = g /\ kst[p] # "none"}

(* job_wait_foreground: as long as the job counts as RUNNING, sleep until  *)
(* waitpid(-pgid) reports a process of the group.                          *)
WaitReport(p) ==
    /\ pc = "wait"
    /\ status[cur] = "RUNNING"
    /\ p \in InGroup(cur)
    /\ rep[p] \in WaitFlags
    /\ Observe(p, WaitFlags)
    /\ status' = [status EXCEPT ![cur] = Derived(cached', cur)]
    /\ UNCHANGED <<shellVars, table, next, job, saved, code, grp, desc, chld, ttyVars,
                   boundVars>>

WaitEnds ==
    /\ pc = "wait"
    /\ status[cur] # "RUNNING"
    /\ pc' = "finish"
    /\ UNCHANGED <<todo, cur, via, running, last, maxJob, round, tableVars, kernelVars,
                   ttyVars, boundVars>>

(* The group has no process left (ECHILD).  After a launch what is left of *)
(* the job is killed, reaped and removed; fg leaves the job in the table.  *)
(* Both give the terminal back and do not look whether that worked.        *)
WaitFails ==
    /\ pc = "wait"
    /\ status[cur] = "RUNNING"
    /\ InGroup(cur) = {}
    /\ IF via = "launch"
       THEN /\ kst' = [p \in Pid |-> IF job[p] = cur THEN "none" ELSE kst[p]]
            /\ rep' = [p \in Pid |-> IF job[p] = cur THEN "none" ELSE rep[p]]
            /\ cached' = [p \in Pid |-> IF job[p] = cur THEN "done" ELSE cached[p]]
            /\ desc' = desc \ {cur}
            /\ table' = table \ {cur}
            /\ chld' = TRUE
       ELSE UNCHANGED <<kst, rep, cached, desc, table, chld>>
    /\ Restored(faults) \/ NotRestored(faults)
    /\ last' = Failure
    /\ ToPrompt
    /\ UNCHANGED <<todo, running, maxJob, round, next, job, status, wait_status, saved,
                   code, grp, switches>>

(* job_exit_status: what the last process of the pipeline exited with, as  *)
(* far as the shell has been told.  Without a valid exit it is -1, which   *)
(* finish_foreground_job and builtin_fg turn into a failure.               *)
LastOf(j) == CHOOSE p \in Members(j) : \A q \in Members(j) : q <= p
ExitStatus(j) ==
    LET known == wait_status[LastOf(j)]
    IN  IF known.what = "exited" THEN known.code ELSE Failure

(* finish_foreground_job, and the end of builtin_fg: the modes of a        *)
(* stopped job are kept, the terminal is restored, and a job that is DONE  *)
(* is removed.  A shell that cannot restore the terminal gives up.         *)
Finish ==
    /\ pc = "finish"
    /\ IF status[cur] = "STOPPED"
       THEN saved' \in {[saved EXCEPT ![cur] = modes]} \cup
                       (IF faults < MaxFaults THEN {saved} ELSE {})
       ELSE UNCHANGED saved
    /\ \/ /\ Restored(faults)
          /\ IF status[cur] = "DONE"
             THEN table' = table \ {cur} /\ last' = ExitStatus(cur)
             ELSE last' = Success /\ UNCHANGED table
          /\ UNCHANGED running
       \/ /\ NotRestored(faults)
          /\ running' = FALSE
          /\ last' = Failure
          /\ UNCHANGED table
    /\ ToPrompt
    /\ UNCHANGED <<todo, maxJob, round, next, job, status, cached, wait_status, kernelVars,
                   switches>>

-----------------------------------------------------------------------------
(* job_shutdown and terminal_shutdown *)

(* A stopped job is continued, so that it can act on SIGTERM.              *)
ShutStart ==
    /\ pc = "prompt"
    /\ ~ running
    /\ pc' = "shut_cont"
    /\ todo' = {j \in table : status[j] = "STOPPED"}
    /\ UNCHANGED <<cur, via, running, last, maxJob, round, tableVars, kernelVars, ttyVars,
                   boundVars>>

ShutContinue(j) ==
    /\ pc = "shut_cont"
    /\ IsFirst(j, todo)
    /\ todo' = todo \ {j}
    /\ Continued(j)
    /\ UNCHANGED <<pc, cur, via, running, last, maxJob, round, table, next, job,
                   wait_status, saved, code, grp, desc, ttyVars, boundVars>>

(* SIGTERM to every group of a job that is not DONE.  A program may end at *)
(* it or ignore it, which is what Exits and DescendantEnds allow anyway.   *)
ShutTerminate ==
    /\ pc = "shut_cont"
    /\ todo = {}
    /\ pc' = "shut_try"
    /\ todo' = Pending
    /\ round' = 1
    /\ UNCHANGED <<cur, via, running, last, maxJob, tableVars, kernelVars, ttyVars,
                   boundVars>>

(* jobmanager_try_reap_all: at most Retries rounds, with a sleep between.  *)
TryReap(p) ==
    /\ pc = "shut_try"
    /\ IsNext(p, todo)
    /\ todo' = todo \ {p}
    /\ Observe(p, ShutFlags)
    /\ UpdateAfter(p, todo')
    /\ UNCHANGED <<pc, cur, via, running, last, maxJob, round, table, next, job, saved,
                   code, grp, desc, chld, ttyVars, boundVars>>

EndRound ==
    /\ pc = "shut_try"
    /\ todo = {}
    /\ IF Pending = {} \/ round >= Retries
       THEN pc' = "shut_kill" /\ todo' = table /\ UNCHANGED round
       ELSE todo' = Pending /\ round' = round + 1 /\ UNCHANGED pc
    /\ UNCHANGED <<cur, via, running, last, maxJob, tableVars, kernelVars, ttyVars,
                   boundVars>>

(* SIGKILL to the group of every job, DONE or not: a descendant may live.  *)
KillTargets_NotDone(j) == IF status[j] = "DONE" THEN {} ELSE {j}  \* mutant
KillTargets_Nobody(j) == {}      \* mutant: SIGTERM has to do
KillTargets(j) == {j}

ShutKill(j) ==
    /\ pc = "shut_kill"
    /\ IsFirst(j, todo)
    /\ todo' = todo \ {j}
    /\ IF KillTargets(j) # {} THEN KillGroup(j) ELSE UNCHANGED <<kst, rep, desc, chld>>
    /\ UNCHANGED <<pc, cur, via, running, last, maxJob, round, tableVars, code, grp,
                   ttyVars, boundVars>>

ShutKilled ==
    /\ pc = "shut_kill"
    /\ todo = {}
    /\ pc' = "shut_reap"
    /\ todo' = Pending
    /\ UNCHANGED <<cur, via, running, last, maxJob, round, tableVars, kernelVars, ttyVars,
                   boundVars>>

(* process_force_reap sleeps until the process has exited.                 *)
ForceReap(p) ==
    /\ pc = "shut_reap"
    /\ IsNext(p, todo)
    /\ ~ Alive(p)
    /\ todo' = todo \ {p}
    /\ Observe(p, ShutFlags)
    /\ UpdateAfter(p, todo')
    /\ UNCHANGED <<pc, cur, via, running, last, maxJob, round, table, next, job, saved,
                   code, grp, desc, chld, ttyVars, boundVars>>

(* job_destroy, and at the end terminal_shutdown.                          *)
Destroy ==
    /\ pc = "shut_reap"
    /\ todo = {}
    /\ table' = {}
    /\ Restored(faults) \/ NotRestored(faults)
    /\ pc' = "end"
    /\ UNCHANGED <<todo, cur, via, running, last, maxJob, round, next, job, status, cached,
                   wait_status, saved, kernelVars, switches>>

Stopping == pc = "end" /\ UNCHANGED vars
-----------------------------------------------------------------------------
ForegroundStep ==
    \/ FgSetsModes \/ FgContinue
    \/ \E p \in Pid : WaitReport(p)
    \/ WaitEnds \/ WaitFails \/ Finish

ReapStep == StartReap \/ (\E p \in Pid : Poll(p)) \/ CleanupDone

ShutdownStep ==
    \/ ShutStart
    \/ \E j \in Pid : ShutContinue(j) \/ ShutKill(j)
    \/ ShutTerminate \/ EndRound \/ ShutKilled \/ Destroy
    \/ \E p \in Pid : TryReap(p) \/ ForceReap(p)

UserStep ==
    \/ CommandFails
    \/ \E n \in 1..MaxPipe, background \in BOOLEAN : Launch(n, background)
    \/ FgHandsOver \/ Bg \/ Reload \/ Quit

(* A descendant ends on its own.                                           *)
DescendantEnds(g) ==
    /\ g \in desc
    /\ desc' = desc \ {g}
    /\ UNCHANGED <<shellVars, tableVars, kst, rep, code, grp, chld, ttyVars, boundVars>>

KernelStep == \E p \in Pid : \/ Exits(p) \/ Switches(p) \/ Leaves(p) \/ Spawns(p)
                             \/ SetsModes(p) \/ DescendantEnds(p)

ShellStep == ForegroundStep \/ ReapStep \/ ShutdownStep

Next == ShellStep \/ UserStep \/ KernelStep \/ Stopping

Spec == Init /\ [][Next]_vars

(* The shell runs, and reaps when EventLoop tells it to.  A program in the *)
(* foreground that runs ends at some time; nothing is assumed about the    *)
(* user, about other programs, or about when a stopped program continues.  *)
ForegroundExits == \E p \in Pid : pc = "wait" /\ grp[p] = cur /\ kst[p] = "run" /\ Exits(p)

Fairness == WF_vars(ShellStep) /\ WF_vars(ForegroundExits)
FairSpec == Spec /\ Fairness

-----------------------------------------------------------------------------
(* Properties *)

Sources == {"prompt", "reap", "fg_modes", "fg_continue", "wait", "finish", "shut_cont",
            "shut_try", "shut_kill", "shut_reap", "end"}

(* The values the table and the kernel's state can take.                   *)
TypeOK ==
    /\ pc \in Sources
    /\ todo \subseteq Pid
    /\ cur \in Pid \cup {Shell}
    /\ via \in {"none", "launch", "fg"}
    /\ running \in BOOLEAN
    /\ last \in Codes \cup {Failure}
    /\ maxJob \in Limits
    /\ round \in 0..(Retries + 1)
    /\ table \subseteq Pid
    /\ next \in 1..(NPid + 1)
    /\ job \in [Pid -> Pid \cup {Shell}]
    /\ status \in [Pid -> {"RUNNING", "STOPPED", "DONE"}]
    /\ cached \in [Pid -> {"running", "stopped", "done"}]
    /\ wait_status \in [Pid -> WaitStatuses]
    /\ saved \in [Pid -> {"none", "shell", "job"}]
    /\ kst \in [Pid -> {"none", "run", "stop", "zombie"}]
    /\ rep \in [Pid -> {"none", "stopped", "continued", "exited"}]
    /\ code \in [Pid -> Codes \cup {Failure}]
    /\ grp \in [Pid -> Pid \cup {Shell}]
    /\ desc \subseteq Pid
    /\ chld \in BOOLEAN
    /\ tty \in Pid \cup {Shell}
    /\ modes \in {"shell", "job"}
    /\ switches \in 0..MaxSwitches
    /\ faults \in 0..MaxFaults

(* No child is lost: a process that has not been reaped is in the table    *)
(* and not counted as done, so that job_reap or job_shutdown will reap it. *)
NoChildLost == \A p \in Pid : kst[p] # "none" => p \in Tracked /\ cached[p] # "done"

(* What the table says of a process is what the kernel says, but for a     *)
(* change that waitpid has not reported yet.  job_continue, which writes   *)
(* the table without asking the kernel, is the step that could break it.   *)
StatusAgrees ==
    \A p \in Tracked :
        rep[p] = "none" =>
            \/ kst[p] = "run"  /\ cached[p] = "running"
            \/ kst[p] = "stop" /\ cached[p] = "stopped"
            \/ kst[p] = "none" /\ cached[p] = "done"

(* A shell that sleeps in job_wait_foreground can be woken: some process   *)
(* of the group runs or has something to report, or there is none left.    *)
NeverWaitsInVain ==
    pc = "wait" /\ status[cur] = "RUNNING" =>
        \/ InGroup(cur) = {}
        \/ \E p \in InGroup(cur) : kst[p] = "run" \/ rep[p] \in WaitFlags

(* At the prompt the terminal belongs to the shell, with the modes of the  *)
(* shell; while the shell waits, it belongs to the job waited for.         *)
TerminalPlaced ==
    /\ pc \in {"prompt", "reap"} /\ running => tty = Shell /\ modes = "shell"
    /\ pc \in {"fg_modes", "fg_continue", "wait", "finish"} => tty = cur

(* job_shutdown leaves nothing behind: at the end every child has been     *)
(* reaped, and once the groups have been killed no descendant of a job in  *)
(* the table lives in its group.                                           *)
NothingLeft == /\ pc = "end" => \A p \in Pid : kst[p] = "none"
               /\ pc = "shut_reap" => table \cap desc = {}

(* At the prompt no job counts as DONE or consists of processes that have  *)
(* all been seen to end: fg, bg and check_job_limit never meet one.        *)
NoFinishedJob ==
    pc = "prompt" /\ running =>
        \A j \in table : Active(j) /\ \E p \in Members(j) : cached[p] # "done"

(* max_job bounds the jobs with living processes, not just those the table *)
(* counts: a launch finds fewer of them than the limit.                    *)
LivingJobs == {j \in table : \E p \in Members(j) : Alive(p)}
LimitHolds == [][~ (table' \subseteq table) => Cardinality(LivingJobs) < maxJob]_vars

(* A foreground job that is removed leaves what the last program of its    *)
(* pipeline ended with, by the kernel's account, and never the failure of  *)
(* a status the shell has missed: the processes may end in any order, and  *)
(* their ends be told by job_reap while the job is stopped, or by          *)
(* job_wait_foreground after a stop and a continuation in wait_status.     *)
StatusOfLast ==
    [][pc = "finish" /\ table' # table
           => \E p \in Members(cur) : /\ last' = code[p]
                                      /\ \A q \in Members(cur) : q <= p]_vars

(* Every change of a child is reported to the table at some time.          *)
EveryChangeSeen == \A p \in Pid : (rep[p] # "none") ~> (rep[p] = "none")

(* A shell that waits for a job returns to the prompt or leaves.           *)
WaitReturns == (pc = "wait") ~> (pc = "prompt")

(* The shutdown ends, whatever programs do with SIGTERM.                   *)
ShutdownEnds == ~ running ~> pc = "end"

(* Refinement: a job is listed until its processes have been reaped, and   *)
(* not for ever after that.                                                *)
Ledger == INSTANCE JobLedger
              WITH Process <- Pid,
                   NoJob <- Shell,
                   listed <- table,
                   unreaped <- {p \in Pid : kst[p] # "none"},
                   owner <- job
ImplementsLedger == Ledger!Spec
=============================================================================
