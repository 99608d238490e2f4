-------------------------- MODULE JobControlProofs --------------------------
(***************************************************************************)
(* Proofs about JobControl, for any number of processes and any length of  *)
(* a pipeline, any bounds, and any values max_job takes.                   *)
(***************************************************************************)
EXTENDS JobControl, FiniteSetTheorems, TLAPS

Reports == {"exited", "stopped", "continued"}

(* The places where the shell walks through the table.                     *)
Walks == {"reap", "shut_try", "shut_reap"}

(* The places with a foreground job.                                       *)
Foreground == {"fg_modes", "fg_continue", "wait", "finish"}

(* Numbers from next on are not in use; a process has a job and is in its  *)
(* own group or in that of its job.                                        *)
BornInv ==
    \A p \in Pid :
        /\ p >= next => job[p] = Shell /\ grp[p] = Shell /\ kst[p] = "none"
        /\ p < next => /\ job[p] \in Pid /\ job[p] < next
                       /\ grp[p] \in {p, job[p]}
                       /\ ~ CanLeave => grp[p] = job[p]

(* A job in the table has a first and a last process.                      *)
JobsInv ==
    \A j \in table :
        /\ j < next /\ job[j] = j
        /\ \E l \in Pid : job[l] = j /\ \A q \in Pid : job[q] = j => q <= l

(* The change that is due to be reported is the one that led to the state  *)
(* the process is in.                                                      *)
RepInv ==
    \A p \in Pid :
        /\ kst[p] = "none" => rep[p] = "none"
        /\ kst[p] = "run" => rep[p] \in {"none", "continued"}
        /\ kst[p] = "stop" => rep[p] \in {"none", "stopped"}
        /\ kst[p] = "zombie" => rep[p] = "exited"

(* What the table says of a process; that it agrees with the kernel needs  *)
(* the processes to stay in the groups of their jobs.                      *)
CachedInv ==
    \A p \in Pid :
        /\ kst[p] # "none" => job[p] \in table /\ cached[p] # "done"
        /\ ~ CanLeave /\ job[p] \in table /\ rep[p] = "none" =>
               \/ kst[p] = "run"  /\ cached[p] = "running"
               \/ kst[p] = "stop" /\ cached[p] = "stopped"
               \/ kst[p] = "none" /\ cached[p] = "done"

DataInv == BornInv /\ JobsInv /\ RepInv /\ CachedInv

(* The status of a job follows from its processes, but while a walk has    *)
(* still some of them to visit.                                            *)
StatusInv ==
    \A j \in table :
        \/ status[j] = Derived(cached, j)
        \/ pc \in Walks /\ \E q \in todo : job[q] = j

PlaceInv ==
    /\ pc \in Foreground => cur \in table /\ running
    /\ pc = "reap" => running

(* Between two commands no job counts as DONE, but the one in front.       *)
FinishedInv ==
    /\ pc \in {"prompt", "fg_modes", "fg_continue"} /\ running =>
           \A j \in table : status[j] # "DONE"
    /\ pc \in {"wait", "finish"} => \A j \in table : j # cur => status[j] # "DONE"

(* The shutdown: who has been killed, and who has been reaped.             *)
Dead(g) == g \notin desc /\ \A p \in Pid : grp[p] = g => ~ Alive(p)
ShutInv ==
    /\ pc = "shut_kill" => \A j \in table : j \in todo \/ Dead(j)
    /\ pc = "shut_reap" => /\ \A j \in table : Dead(j)
                           /\ \A p \in Pid : kst[p] # "none" => p \in todo
    /\ pc = "end" => \A p \in Pid : kst[p] = "none"

(* A process of a job in the table that has been reaped counts as done,    *)
(* and its exit has been kept: nothing later can take its place.           *)
KeptInv ==
    \A p \in Pid : job[p] \in table /\ kst[p] = "none" =>
        cached[p] = "done" /\ wait_status[p] = [what |-> "exited", code |-> code[p]]

IInv == TypeOK /\ DataInv /\ StatusInv /\ PlaceInv /\ FinishedInv /\ ShutInv /\ KeptInv

-----------------------------------------------------------------------------
(* The status job_update_status derives is one of the three, and is DONE   *)
(* when every process of the job is.                                       *)
LEMMA DerivedIs ==
    ASSUME NEW c \in [Pid -> {"running", "stopped", "done"}], NEW j
    PROVE  /\ Derived(c, j) \in {"RUNNING", "STOPPED", "DONE"}
           /\ Derived(c, j) = "DONE" => \A p \in Pid : job[p] = j => c[p] = "done"
           /\ Derived(c, j) = "STOPPED" =>
                  \E p \in Pid : job[p] = j /\ c[p] = "stopped"
           /\ Derived(c, j) = "RUNNING" <=> \E p \in Pid : job[p] = j /\ c[p] = "running"
BY DEF Derived, Members

(* It depends on the processes of the job alone.                           *)
LEMMA DerivedSame ==
    ASSUME UNCHANGED job, NEW j
    PROVE  /\ Derived(cached, j)' = Derived(cached', j)
           /\ (\A p \in Pid : job[p] = j => cached'[p] = cached[p])
                  => Derived(cached, j)' = Derived(cached, j)
<1>1. Derived(cached, j)' = Derived(cached', j)
  BY DEF Derived, Members
<1>2. ASSUME \A p \in Pid : job[p] = j => cached'[p] = cached[p]
      PROVE  Derived(cached', j) = Derived(cached, j)
  BY <1>2 DEF Derived, Members
<1> QED BY <1>1, <1>2

(* What waitpid and process_apply_wait_status do to a process.             *)
LEMMA Observed ==
    ASSUME TypeOK, RepInv, NEW p \in Pid, NEW flags \in SUBSET Reports, Observe(p, flags)
    PROVE  /\ kst' \in [Pid -> {"none", "run", "stop", "zombie"}]
           /\ rep' \in [Pid -> {"none", "stopped", "continued", "exited"}]
           /\ cached' \in [Pid -> {"running", "stopped", "done"}]
           /\ wait_status' \in [Pid -> WaitStatuses]
           /\ \A q \in Pid : q # p => /\ kst'[q] = kst[q] /\ rep'[q] = rep[q]
                                      /\ cached'[q] = cached[q]
           /\ \/ /\ rep[p] \in flags /\ rep'[p] = "none"
                 /\ \/ rep[p] = "exited" /\ kst'[p] = "none" /\ cached'[p] = "done"
                    \/ rep[p] = "stopped" /\ kst'[p] = kst[p] /\ cached'[p] = "stopped"
                    \/ rep[p] = "continued" /\ kst'[p] = kst[p] /\ cached'[p] = "running"
              \/ /\ rep[p] \notin flags
                 /\ kst'[p] = kst[p] /\ rep'[p] = rep[p]
                 /\ cached'[p] = IF kst[p] = "none" THEN "done" ELSE cached[p]
<1>1. /\ kst' \in [Pid -> {"none", "run", "stop", "zombie"}]
      /\ rep' \in [Pid -> {"none", "stopped", "continued", "exited"}]
      /\ cached' \in [Pid -> {"running", "stopped", "done"}]
      /\ \A q \in Pid : q # p => /\ kst'[q] = kst[q] /\ rep'[q] = rep[q]
                                 /\ cached'[q] = cached[q]
      /\ \/ /\ rep[p] \in flags /\ rep'[p] = "none"
            /\ \/ rep[p] = "exited" /\ kst'[p] = "none" /\ cached'[p] = "done"
               \/ rep[p] = "stopped" /\ kst'[p] = kst[p] /\ cached'[p] = "stopped"
               \/ rep[p] = "continued" /\ kst'[p] = kst[p] /\ cached'[p] = "running"
         \/ /\ rep[p] \notin flags
            /\ kst'[p] = kst[p] /\ rep'[p] = rep[p]
            /\ cached'[p] = IF kst[p] = "none" THEN "done" ELSE cached[p]
  BY DEF TypeOK, Observe, Applied, Reports
<1>2. wait_status' \in [Pid -> WaitStatuses]
  <2>1. Reported(p) \in WaitStatuses /\ wait_status \in [Pid -> WaitStatuses]
    BY DEF TypeOK, Reported, WaitStatuses
  <2> QED BY <2>1 DEF Observe
<1> QED BY <1>1, <1>2

-----------------------------------------------------------------------------
(* Types *)

(* The last process of a job in the table is one of its processes.         *)
LEMMA LastIs ==
    ASSUME JobsInv, NEW j \in table
    PROVE  /\ LastOf(j) \in Members(j)
           /\ \A q \in Members(j) : q <= LastOf(j)
<1>1. \E p \in Members(j) : \A q \in Members(j) : q <= p
  BY DEF JobsInv, Members
<1> QED BY <1>1 DEF LastOf

(* The user and the prompt.                                                *)
LEMMA UserTypes == ASSUME TypeOK, UserStep PROVE TypeOK'
<1> USE JobAssumption DEF TypeOK, AtPrompt, shellVars, tableVars, kernelVars, ttyVars, boundVars
<1>1. CASE CommandFails
  BY <1>1 DEF CommandFails
<1>2. ASSUME NEW n \in 1..MaxPipe, NEW background \in BOOLEAN, Launch(n, background)
      PROVE  TypeOK'
  <2>1. /\ n \in Nat /\ n >= 1 /\ next \in Nat /\ next >= 1 /\ next + n - 1 <= NPid
        /\ next \in Pid /\ next + n \in 1..(NPid + 1)
    BY <1>2 DEF Launch, Pid
  <2>2. /\ job' \in [Pid -> Pid \cup {Shell}] /\ grp' \in [Pid -> Pid \cup {Shell}]
        /\ kst' \in [Pid -> {"none", "run", "stop", "zombie"}]
        /\ cached' \in [Pid -> {"running", "stopped", "done"}]
        /\ status' \in [Pid -> {"RUNNING", "STOPPED", "DONE"}]
        /\ table' \subseteq Pid /\ next' \in 1..(NPid + 1)
        /\ wait_status' \in [Pid -> WaitStatuses]
    <3>1. NotValid \in WaitStatuses
      BY DEF NotValid, WaitStatuses
    <3> QED BY <1>2, <2>1, <3>1 DEF Launch
  <2> QED BY <1>2, <2>1, <2>2 DEF Launch, Sources
<1>3. CASE FgHandsOver
  BY <1>3 DEF FgHandsOver, Fault, Sources
<1>4. CASE Bg
  <2>1. PICK j \in Pid : Continued(j)
    BY <1>4 DEF Bg
  <2>2. /\ kst' \in [Pid -> {"none", "run", "stop", "zombie"}]
        /\ rep' \in [Pid -> {"none", "stopped", "continued", "exited"}]
        /\ cached' \in [Pid -> {"running", "stopped", "done"}]
        /\ chld' \in BOOLEAN
    BY <2>1 DEF Continued, ContinueGroup
  <2>3. status' \in [Pid -> {"RUNNING", "STOPPED", "DONE"}]
    BY <2>1, <2>2, DerivedIs DEF Continued
  <2> QED BY <1>4, <2>2, <2>3 DEF Bg
<1>5. CASE Reload
  BY <1>5 DEF Reload
<1>6. CASE Quit
  BY <1>6 DEF Quit
<1> QED BY <1>1, <1>2, <1>3, <1>4, <1>5, <1>6 DEF UserStep

(* The kernel and the programs.                                            *)
LEMMA KernelTypes == ASSUME TypeOK, BornInv, KernelStep PROVE TypeOK'
<1> USE JobAssumption DEF TypeOK, shellVars, tableVars, kernelVars, ttyVars, boundVars
<1> SUFFICES ASSUME NEW p \in Pid, \/ Exits(p) \/ Switches(p) \/ Leaves(p) \/ Spawns(p)
                                   \/ SetsModes(p) \/ DescendantEnds(p)
             PROVE  TypeOK'
  BY DEF KernelStep
<1>1. CASE Exits(p)
  BY <1>1 DEF Exits
<1>2. CASE Switches(p)
  BY <1>2 DEF Switches
<1>3. CASE Leaves(p)
  BY <1>3 DEF Leaves
<1>4. CASE Spawns(p)
  <2>1. p < next \/ p >= next
    BY DEF Pid
  <2>2. grp[p] \in Pid
    BY <1>4, <2>1 DEF Spawns, BornInv
  <2> QED BY <1>4, <2>2 DEF Spawns
<1>5. CASE SetsModes(p)
  BY <1>5 DEF SetsModes
<1>6. CASE DescendantEnds(p)
  BY <1>6 DEF DescendantEnds
<1> QED BY <1>1, <1>2, <1>3, <1>4, <1>5, <1>6

(* The foreground job.                                                     *)
LEMMA ForegroundTypes ==
    ASSUME TypeOK, RepInv, JobsInv, PlaceInv, ForegroundStep PROVE TypeOK'
<1> USE JobAssumption DEF TypeOK, shellVars, tableVars, kernelVars, ttyVars, boundVars
<1>t. Failure \in Codes \cup {Failure} /\ "prompt" \in Sources /\ "wait" \in Sources
      /\ "finish" \in Sources /\ "fg_continue" \in Sources
  BY DEF Sources
<1>1. CASE FgSetsModes
  <2>1. saved[cur] \in {"none", "shell", "job"}
    BY <1>1 DEF FgSetsModes, PlaceInv, Foreground
  <2>2. pc' \in Sources /\ cur' \in Pid \cup {Shell} /\ via' \in {"none", "launch", "fg"}
    BY <1>1, <1>t DEF FgSetsModes, ToPrompt
  <2>3. /\ tty' \in Pid \cup {Shell} /\ modes' \in {"shell", "job"} /\ faults' \in 0..MaxFaults
        /\ last' \in Codes \cup {Failure}
    BY <1>1, <1>t, <2>1 DEF FgSetsModes, Restored, NotRestored
  <2> QED BY <1>1, <2>2, <2>3 DEF FgSetsModes
<1>2. CASE FgContinue
  <2>1. CASE Continued(cur)
    <3>1. /\ kst' \in [Pid -> {"none", "run", "stop", "zombie"}]
          /\ rep' \in [Pid -> {"none", "stopped", "continued", "exited"}]
          /\ cached' \in [Pid -> {"running", "stopped", "done"}]
          /\ chld' \in BOOLEAN
      BY <2>1 DEF Continued, ContinueGroup
    <3>2. status' \in [Pid -> {"RUNNING", "STOPPED", "DONE"}]
      BY <2>1, <3>1, DerivedIs DEF Continued
    <3> QED BY <1>2, <1>t, <3>1, <3>2 DEF FgContinue, ToPrompt, Restored, NotRestored
  <2>2. CASE UNCHANGED <<cached, status, kst, rep, chld>>
    BY <1>2, <1>t, <2>2 DEF FgContinue, ToPrompt, Restored, NotRestored
  <2> QED BY <1>2, <2>1, <2>2 DEF FgContinue
<1>3. ASSUME NEW p \in Pid, WaitReport(p) PROVE TypeOK'
  <2>1. WaitFlags \in SUBSET Reports /\ Observe(p, WaitFlags)
    BY <1>3 DEF WaitReport, WaitFlags, Reports
  <2>2. /\ kst' \in [Pid -> {"none", "run", "stop", "zombie"}]
        /\ rep' \in [Pid -> {"none", "stopped", "continued", "exited"}]
        /\ cached' \in [Pid -> {"running", "stopped", "done"}]
        /\ wait_status' \in [Pid -> WaitStatuses]
    BY <2>1, Observed
  <2>3. status' \in [Pid -> {"RUNNING", "STOPPED", "DONE"}]
    BY <1>3, <2>2, DerivedIs DEF WaitReport
  <2> QED BY <1>3, <2>2, <2>3 DEF WaitReport
<1>4. CASE WaitEnds
  BY <1>4, <1>t DEF WaitEnds
<1>5. CASE WaitFails
  <2>1. /\ kst' \in [Pid -> {"none", "run", "stop", "zombie"}]
        /\ rep' \in [Pid -> {"none", "stopped", "continued", "exited"}]
        /\ cached' \in [Pid -> {"running", "stopped", "done"}]
    <3>1. CASE via = "launch"
      BY <1>5, <3>1 DEF WaitFails
    <3>2. CASE via # "launch"
      BY <1>5, <3>2 DEF WaitFails
    <3> QED BY <3>1, <3>2
  <2>3. desc' \subseteq Pid /\ table' \subseteq Pid /\ chld' \in BOOLEAN
    BY <1>5 DEF WaitFails
  <2>2. tty' \in Pid \cup {Shell} /\ modes' \in {"shell", "job"} /\ faults' \in 0..MaxFaults
    BY <1>5 DEF WaitFails, Restored, NotRestored
  <2> QED BY <1>5, <1>t, <2>1, <2>2, <2>3 DEF WaitFails, ToPrompt
<1>6. CASE Finish
  <2>1. ExitStatus(cur) \in Codes \cup {Failure}
    <3>1. cur \in table /\ LastOf(cur) \in Pid
      BY <1>6, LastIs DEF Finish, PlaceInv, Foreground, Members
    <3> QED BY <3>1 DEF ExitStatus, WaitStatuses
  <2>2. saved' \in [Pid -> {"none", "shell", "job"}]
    BY <1>6 DEF Finish
  <2>3. last' \in Codes \cup {Failure} /\ running' \in BOOLEAN /\ table' \subseteq Pid
    BY <1>6, <2>1 DEF Finish
  <2>4. tty' \in Pid \cup {Shell} /\ modes' \in {"shell", "job"} /\ faults' \in 0..MaxFaults
    BY <1>6 DEF Finish, Restored, NotRestored
  <2> QED BY <1>6, <1>t, <2>2, <2>3, <2>4 DEF Finish, ToPrompt
<1> QED BY <1>1, <1>2, <1>3, <1>4, <1>5, <1>6 DEF ForegroundStep

(* A step of a walk: the processes and the job it visits.                  *)
LEMMA WalkTypes ==
    ASSUME TypeOK, RepInv, NEW p \in Pid, NEW flags \in SUBSET Reports,
           Observe(p, flags), NEW rest, UpdateAfter(p, rest)
    PROVE  /\ kst' \in [Pid -> {"none", "run", "stop", "zombie"}]
           /\ rep' \in [Pid -> {"none", "stopped", "continued", "exited"}]
           /\ cached' \in [Pid -> {"running", "stopped", "done"}]
           /\ status' \in [Pid -> {"RUNNING", "STOPPED", "DONE"}]
           /\ wait_status' \in [Pid -> WaitStatuses]
<1>1. /\ kst' \in [Pid -> {"none", "run", "stop", "zombie"}]
      /\ rep' \in [Pid -> {"none", "stopped", "continued", "exited"}]
      /\ cached' \in [Pid -> {"running", "stopped", "done"}]
      /\ wait_status' \in [Pid -> WaitStatuses]
  BY Observed
<1>2. status' \in [Pid -> {"RUNNING", "STOPPED", "DONE"}]
  BY <1>1, DerivedIs DEF UpdateAfter, TypeOK
<1> QED BY <1>1, <1>2

(* job_reap and job_cleanup_done.                                          *)
LEMMA ReapTypes == ASSUME TypeOK, RepInv, ReapStep PROVE TypeOK'
<1> USE DEF shellVars, tableVars, kernelVars, ttyVars, boundVars
<1>1. CASE StartReap
  BY <1>1 DEF TypeOK, StartReap, Pending, Tracked, Sources
<1>2. ASSUME NEW p \in Pid, Poll(p) PROVE TypeOK'
  <2>1. /\ ReapFlags \in SUBSET Reports /\ Observe(p, ReapFlags)
        /\ UpdateAfter(p, todo \ {p})
    BY <1>2 DEF Poll, ReapFlags, Reports, UpdateAfter
  <2>2. /\ kst' \in [Pid -> {"none", "run", "stop", "zombie"}]
        /\ rep' \in [Pid -> {"none", "stopped", "continued", "exited"}]
        /\ cached' \in [Pid -> {"running", "stopped", "done"}]
        /\ status' \in [Pid -> {"RUNNING", "STOPPED", "DONE"}]
        /\ wait_status' \in [Pid -> WaitStatuses]
    BY <2>1, WalkTypes
  <2> QED BY <1>2, <2>2 DEF Poll, TypeOK
<1>3. CASE CleanupDone
  BY <1>3 DEF TypeOK, CleanupDone, Sources
<1> QED BY <1>1, <1>2, <1>3 DEF ReapStep

(* job_shutdown.                                                           *)
LEMMA ShutdownTypes == ASSUME TypeOK, RepInv, ShutdownStep PROVE TypeOK'
<1> USE JobAssumption DEF shellVars, tableVars, kernelVars, ttyVars, boundVars
<1>1. CASE ShutStart
  BY <1>1 DEF TypeOK, ShutStart, Sources
<1>2. ASSUME NEW j \in Pid, ShutContinue(j) PROVE TypeOK'
  <2>1. /\ kst' \in [Pid -> {"none", "run", "stop", "zombie"}]
        /\ rep' \in [Pid -> {"none", "stopped", "continued", "exited"}]
        /\ cached' \in [Pid -> {"running", "stopped", "done"}]
        /\ chld' \in BOOLEAN
    BY <1>2 DEF ShutContinue, Continued, ContinueGroup, TypeOK
  <2>2. status' \in [Pid -> {"RUNNING", "STOPPED", "DONE"}]
    BY <1>2, <2>1, DerivedIs DEF ShutContinue, Continued, TypeOK
  <2> QED BY <1>2, <2>1, <2>2 DEF ShutContinue, TypeOK
<1>3. ASSUME NEW j \in Pid, ShutKill(j) PROVE TypeOK'
  <2>1. KillGroup(j) \/ UNCHANGED <<kst, rep, desc, chld>>
    BY <1>3 DEF ShutKill
  <2>2. /\ kst' \in [Pid -> {"none", "run", "stop", "zombie"}]
        /\ rep' \in [Pid -> {"none", "stopped", "continued", "exited"}]
    BY <2>1 DEF KillGroup, TypeOK
  <2>3. desc' \subseteq Pid /\ chld' \in BOOLEAN
    BY <2>1 DEF KillGroup, TypeOK
  <2> QED BY <1>3, <2>2, <2>3 DEF ShutKill, TypeOK
<1>4. CASE ShutTerminate
  BY <1>4 DEF TypeOK, ShutTerminate, Sources, Pending, Tracked
<1>5. CASE EndRound
  BY <1>5 DEF TypeOK, EndRound, Sources, Pending, Tracked
<1>6. CASE ShutKilled
  BY <1>6 DEF TypeOK, ShutKilled, Sources, Pending, Tracked
<1>7. CASE Destroy
  BY <1>7 DEF TypeOK, Destroy, Sources, Restored, NotRestored
<1>8. ASSUME NEW p \in Pid, TryReap(p) \/ ForceReap(p) PROVE TypeOK'
  <2>1. /\ ShutFlags \in SUBSET Reports /\ Observe(p, ShutFlags)
        /\ UpdateAfter(p, todo \ {p})
    BY <1>8 DEF TryReap, ForceReap, ShutFlags, Reports, UpdateAfter
  <2>2. /\ kst' \in [Pid -> {"none", "run", "stop", "zombie"}]
        /\ rep' \in [Pid -> {"none", "stopped", "continued", "exited"}]
        /\ cached' \in [Pid -> {"running", "stopped", "done"}]
        /\ status' \in [Pid -> {"RUNNING", "STOPPED", "DONE"}]
        /\ wait_status' \in [Pid -> WaitStatuses]
    BY <2>1, WalkTypes
  <2>3. todo' \subseteq Pid /\ pc' = pc
    BY <1>8 DEF TryReap, ForceReap, TypeOK
  <2> QED BY <1>8, <2>2, <2>3 DEF TryReap, ForceReap, TypeOK
<1> QED BY <1>1, <1>2, <1>3, <1>4, <1>5, <1>6, <1>7, <1>8 DEF ShutdownStep

(* Every step keeps the types.                                             *)
LEMMA Types == ASSUME IInv, [Next]_vars PROVE TypeOK'
<1>1. CASE ForegroundStep
  BY <1>1, ForegroundTypes DEF IInv, DataInv
<1>2. CASE ReapStep
  BY <1>2, ReapTypes DEF IInv, DataInv
<1>3. CASE ShutdownStep
  BY <1>3, ShutdownTypes DEF IInv, DataInv
<1>4. CASE UserStep
  BY <1>4, UserTypes DEF IInv
<1>5. CASE KernelStep
  BY <1>5, KernelTypes DEF IInv, DataInv
<1>6. CASE UNCHANGED vars
  BY <1>6 DEF IInv, TypeOK, vars, shellVars, tableVars, kernelVars, ttyVars, boundVars
<1> QED BY <1>1, <1>2, <1>3, <1>4, <1>5, <1>6 DEF Next, ShellStep, Stopping

-----------------------------------------------------------------------------
(* The table and the kernel: the groups of steps that change them, and     *)
(* what each keeps                                                         *)

(* DataInv depends on no other variable than these.                        *)
LEMMA DataSame ==
    ASSUME DataInv, UNCHANGED <<next, job, table, kst, rep, cached, grp>>
    PROVE  DataInv'
BY DEF DataInv, BornInv, JobsInv, RepInv, CachedInv

(* Jobs without a process leave the table.                                 *)
LEMMA DataShrinks ==
    ASSUME DataInv, table' \subseteq table,
           \A p \in Pid : kst[p] # "none" => job[p] \in table',
           UNCHANGED <<next, job, kst, rep, cached, grp>>
    PROVE  DataInv'
BY DEF DataInv, BornInv, JobsInv, RepInv, CachedInv

(* waitpid.                                                                *)
LEMMA DataObserved ==
    ASSUME TypeOK, DataInv, NEW p \in Pid, NEW flags \in SUBSET Reports, Observe(p, flags),
           UNCHANGED <<next, job, table, grp>>
    PROVE  DataInv'
<1>1. /\ \A q \in Pid : q # p => /\ kst'[q] = kst[q] /\ rep'[q] = rep[q]
                                 /\ cached'[q] = cached[q]
      /\ \/ /\ rep[p] \in flags /\ rep'[p] = "none"
            /\ \/ rep[p] = "exited" /\ kst'[p] = "none" /\ cached'[p] = "done"
               \/ rep[p] = "stopped" /\ kst'[p] = kst[p] /\ cached'[p] = "stopped"
               \/ rep[p] = "continued" /\ kst'[p] = kst[p] /\ cached'[p] = "running"
         \/ /\ rep[p] \notin flags
            /\ kst'[p] = kst[p] /\ rep'[p] = rep[p]
            /\ cached'[p] = IF kst[p] = "none" THEN "done" ELSE cached[p]
  BY Observed DEF DataInv
<1>2. BornInv'
  BY <1>1 DEF DataInv, BornInv
<1>3. JobsInv'
  BY DEF DataInv, JobsInv
<1>4. kst[p] \in {"none", "run", "stop", "zombie"}
  BY DEF TypeOK
<1>5. RepInv'
  BY <1>1, <1>4 DEF DataInv, RepInv
<1>6. CachedInv'
  BY <1>1, <1>4 DEF DataInv, RepInv, CachedInv
<1> QED BY <1>2, <1>3, <1>5, <1>6 DEF DataInv

(* SIGCONT to a group, and what job_continue writes.                       *)
LEMMA DataContinued ==
    ASSUME TypeOK, DataInv, NEW j \in Pid, Continued(j),
           UNCHANGED <<next, job, table, grp>>
    PROVE  DataInv'
<1>1. \A p \in Pid :
          \/ /\ grp[p] = j /\ kst[p] = "stop" /\ kst'[p] = "run" /\ rep'[p] = "continued"
          \/ /\ ~ (grp[p] = j /\ kst[p] = "stop")
             /\ kst'[p] = kst[p] /\ rep'[p] = rep[p]
  BY DEF Continued, ContinueGroup, Stopped
<1>2. \A p \in Pid :
          \/ job[p] = j /\ cached[p] = "stopped" /\ cached'[p] = "running"
          \/ ~ (job[p] = j /\ cached[p] = "stopped") /\ cached'[p] = cached[p]
  BY DEF Continued
<1>3. BornInv'
  BY <1>1 DEF DataInv, BornInv
<1>4. JobsInv'
  BY DEF DataInv, JobsInv
<1>5. RepInv'
  BY <1>1 DEF DataInv, RepInv
<1>6. \A p \in Pid : kst'[p] # "none" => job[p] \in table /\ cached'[p] # "done"
  BY <1>1, <1>2 DEF DataInv, CachedInv
<1>7. ASSUME ~ CanLeave, NEW p \in Pid, job[p] \in table, rep'[p] = "none"
      PROVE  \/ kst'[p] = "run"  /\ cached'[p] = "running"
             \/ kst'[p] = "stop" /\ cached'[p] = "stopped"
             \/ kst'[p] = "none" /\ cached'[p] = "done"
  <2>1. kst'[p] = kst[p] /\ rep[p] = "none" /\ ~ (grp[p] = j /\ kst[p] = "stop")
    BY <1>1, <1>7
  <2>2. \/ kst[p] = "run"  /\ cached[p] = "running"
        \/ kst[p] = "stop" /\ cached[p] = "stopped"
        \/ kst[p] = "none" /\ cached[p] = "done"
    BY <1>7, <2>1 DEF DataInv, CachedInv
  <2>3. grp[p] = job[p]
    <3>1. p < next \/ p >= next
      BY DEF TypeOK, Pid
    <3> QED BY <1>7, <3>1 DEF DataInv, BornInv
  <2> QED BY <1>2, <2>1, <2>2, <2>3
<1>8. CachedInv'
  BY <1>6, <1>7 DEF CachedInv
<1> QED BY <1>3, <1>4, <1>5, <1>8 DEF DataInv

(* The programs and the kernel, and a SIGKILL to a group.                  *)
LEMMA DataKernel == ASSUME TypeOK, DataInv, KernelStep PROVE DataInv'
<1> USE DEF shellVars, tableVars, kernelVars, ttyVars, boundVars
<1> SUFFICES ASSUME NEW p \in Pid, \/ Exits(p) \/ Switches(p) \/ Leaves(p) \/ Spawns(p)
                                   \/ SetsModes(p) \/ DescendantEnds(p)
             PROVE  DataInv'
  BY DEF KernelStep
<1>1. CASE Exits(p) \/ Switches(p)
  <2>1. /\ \A q \in Pid : q # p => kst'[q] = kst[q] /\ rep'[q] = rep[q]
        /\ kst[p] # "none"
        /\ \/ kst'[p] = "zombie" /\ rep'[p] = "exited"
           \/ kst'[p] = "stop" /\ rep'[p] = "stopped"
           \/ kst'[p] = "run" /\ rep'[p] = "continued"
        /\ UNCHANGED <<next, job, table, cached, grp>>
    BY <1>1 DEF Exits, Switches, Alive, TypeOK
  <2>2. BornInv' /\ JobsInv'
    BY <2>1 DEF DataInv, BornInv, JobsInv
  <2>3. RepInv' /\ CachedInv'
    BY <2>1 DEF DataInv, RepInv, CachedInv
  <2> QED BY <2>2, <2>3 DEF DataInv
<1>2. CASE Leaves(p)
  <2>1. /\ kst[p] = "run" /\ CanLeave /\ grp'[p] = p
        /\ \A q \in Pid : q # p => grp'[q] = grp[q]
        /\ UNCHANGED <<next, job, table, kst, rep, cached>>
    BY <1>2 DEF Leaves, TypeOK
  <2>2. p < next /\ ~ p >= next
    BY <2>1 DEF DataInv, BornInv, TypeOK, Pid
  <2>3. BornInv'
    BY <2>1, <2>2 DEF DataInv, BornInv
  <2>4. JobsInv' /\ RepInv' /\ CachedInv'
    BY <2>1 DEF DataInv, JobsInv, RepInv, CachedInv
  <2> QED BY <2>3, <2>4 DEF DataInv
<1>3. CASE Spawns(p) \/ SetsModes(p) \/ DescendantEnds(p)
  BY <1>3, DataSame DEF Spawns, SetsModes, DescendantEnds
<1> QED BY <1>1, <1>2, <1>3

(* A SIGKILL to the group of a job: what it ends is due to be reported.    *)
LEMMA DataKilled ==
    ASSUME TypeOK, DataInv, NEW j \in Pid, KillGroup(j),
           UNCHANGED <<next, job, table, cached, grp>>
    PROVE  DataInv'
<1>1. \A p \in Pid : \/ Alive(p) /\ kst'[p] = "zombie" /\ rep'[p] = "exited"
                     \/ kst'[p] = kst[p] /\ rep'[p] = rep[p]
  BY DEF KillGroup
<1>2. BornInv' /\ JobsInv'
  BY <1>1 DEF DataInv, BornInv, JobsInv, Alive
<1>3. RepInv' /\ CachedInv'
  BY <1>1 DEF DataInv, RepInv, CachedInv, Alive
<1> QED BY <1>2, <1>3 DEF DataInv

(* A launch: the numbers of the new processes, and what it sets for them.  *)
LEMMA Launched ==
    ASSUME TypeOK, NEW n \in 1..MaxPipe, NEW background \in BOOLEAN, Launch(n, background)
    PROVE  /\ next \in Pid /\ next + n - 1 \in Pid /\ next' \in Nat /\ next <= next + n - 1
           /\ next' = next + n /\ next < next'
           /\ \A p \in Pid : p < next' <=> p < next \/ p \in next..(next + n - 1)
           /\ \A p \in Pid :
                  \/ /\ p \in next..(next + n - 1) /\ p >= next /\ p <= next + n - 1 /\ p < next'
                     /\ job'[p] = next /\ grp'[p] = next /\ kst'[p] = "run"
                     /\ cached'[p] = "running"
                  \/ /\ p \notin next..(next + n - 1) /\ (p < next \/ p >= next')
                     /\ job'[p] = job[p] /\ grp'[p] = grp[p] /\ kst'[p] = kst[p]
                     /\ cached'[p] = cached[p]
           /\ table' = table \cup {next} /\ rep' = rep
<1>1. /\ n \in Nat /\ n >= 1 /\ next \in Nat /\ next >= 1 /\ next + n - 1 <= NPid
      /\ NPid \in Nat /\ next' = next + n
  BY JobAssumption DEF Launch, TypeOK
<1>2. /\ next \in Pid /\ next + n - 1 \in Pid /\ next' \in Nat /\ next < next'
      /\ next <= next + n - 1
  BY <1>1 DEF Pid
<1>3. /\ \A p \in Pid : p < next' <=> p < next \/ p \in next..(next + n - 1)
      /\ \A p \in Pid : p \in next..(next + n - 1) => p >= next /\ p <= next + n - 1 /\ p < next'
      /\ \A p \in Pid : p \notin next..(next + n - 1) => (p < next \/ p >= next')
  BY <1>1 DEF Pid
<1>4. \A p \in Pid :
          /\ p \in next..(next + n - 1) =>
                 /\ job'[p] = next /\ grp'[p] = next /\ kst'[p] = "run"
                 /\ cached'[p] = "running"
          /\ p \notin next..(next + n - 1) =>
                 /\ job'[p] = job[p] /\ grp'[p] = grp[p] /\ kst'[p] = kst[p]
                 /\ cached'[p] = cached[p]
  BY DEF Launch
<1>5. table' = table \cup {next} /\ rep' = rep
  BY DEF Launch
<1> QED BY <1>1, <1>2, <1>3, <1>4, <1>5

(* No process has the next number for its job.                             *)
LEMMA OldJobs == ASSUME TypeOK, BornInv, NEW p \in Pid PROVE job[p] # next
<1>1. p \in Nat /\ next \in Nat /\ next >= 1 /\ job[p] \in Nat
  BY DEF TypeOK, Pid, Shell
<1>2. CASE p < next
  BY <1>1, <1>2 DEF BornInv
<1>3. CASE p >= next
  BY <1>1, <1>3 DEF BornInv, Shell
<1> QED BY <1>1, <1>2, <1>3

(* A launch keeps DataInv: its numbers are new, its job has processes.     *)
LEMMA DataLaunched ==
    ASSUME TypeOK, DataInv, NEW n \in 1..MaxPipe, NEW background \in BOOLEAN,
           Launch(n, background)
    PROVE  DataInv'
<1> DEFINE top == next + n - 1
<1>1. /\ next \in Pid /\ top \in Pid /\ next' \in Nat /\ next <= top
      /\ next' = next + n /\ next < next'
      /\ \A p \in Pid : p < next' <=> p < next \/ p \in next..top
      /\ \A p \in Pid :
             \/ /\ p \in next..top /\ p >= next /\ p <= top /\ p < next'
                /\ job'[p] = next /\ grp'[p] = next /\ kst'[p] = "run"
                /\ cached'[p] = "running"
             \/ /\ p \notin next..top /\ (p < next \/ p >= next')
                /\ job'[p] = job[p] /\ grp'[p] = grp[p] /\ kst'[p] = kst[p]
                /\ cached'[p] = cached[p]
      /\ table' = table \cup {next} /\ rep' = rep
  BY Launched
<1>2. /\ \A p \in Pid : p \in Nat /\ p >= 1
      /\ table \subseteq Pid /\ next \in Nat
      /\ \A p \in Pid : job[p] \in Pid \cup {Shell} /\ rep[p] \in {"none", "stopped", "continued", "exited"}
  BY DEF TypeOK, Pid
<1> HIDE DEF top
<1>3. BornInv'
  <2> SUFFICES ASSUME NEW p \in Pid
               PROVE  /\ p >= next' => job'[p] = Shell /\ grp'[p] = Shell /\ kst'[p] = "none"
                      /\ p < next' => /\ job'[p] \in Pid /\ job'[p] < next'
                                      /\ grp'[p] \in {p, job'[p]}
                                      /\ ~ CanLeave => grp'[p] = job'[p]
    BY DEF BornInv
  <2>1. CASE p \in next..top
    <3>1. p < next' /\ ~ p >= next' /\ job'[p] = next /\ grp'[p] = next
      BY <1>1, <1>2, <2>1
    <3> QED BY <1>1, <3>1
  <2>2. CASE p \notin next..top /\ p < next
    <3>1. job[p] \in Pid /\ job[p] < next /\ grp[p] \in {p, job[p]} /\ (~ CanLeave => grp[p] = job[p])
      BY <2>2 DEF DataInv, BornInv
    <3>2. /\ p < next' /\ ~ p >= next' /\ job[p] < next' /\ job'[p] = job[p]
          /\ grp'[p] = grp[p]
      <4>1. job[p] \in Nat
        BY <1>2, <3>1
      <4> QED BY <1>1, <1>2, <2>2, <3>1, <4>1
    <3> QED BY <3>1, <3>2
  <2>3. CASE p \notin next..top /\ p >= next'
    <3>1. p >= next
      BY <1>1, <1>2, <2>3
    <3>2. job[p] = Shell /\ grp[p] = Shell /\ kst[p] = "none"
      BY <3>1 DEF DataInv, BornInv
    <3>3. /\ ~ p < next' /\ job'[p] = job[p] /\ grp'[p] = grp[p] /\ kst'[p] = kst[p]
      BY <1>1, <1>2, <2>3
    <3> QED BY <3>2, <3>3
  <2> QED BY <1>1, <2>1, <2>2, <2>3
<1>4. JobsInv'
  <2>1. next' > next /\ job'[next] = next /\ top \in Pid /\ job'[top] = next
    BY <1>1, <1>2
  <2>2. ASSUME NEW q \in Pid, job'[q] = next PROVE q <= top
    <3>1. CASE q \in next..top
      BY <1>1, <3>1
    <3>2. CASE q \notin next..top
      BY <1>1, <2>2, <3>2, OldJobs DEF DataInv
    <3> QED BY <3>1, <3>2
  <2>3. ASSUME NEW j \in table
        PROVE  /\ j < next' /\ job'[j] = j
               /\ \E l \in Pid : job'[l] = j /\ \A q \in Pid : job'[q] = j => q <= l
    <3>1. j < next /\ job[j] = j /\ j \in Pid /\ j < next'
      BY <1>1, <1>2 DEF DataInv, JobsInv
    <3>2. job'[j] = j
      BY <1>1, <1>2, <3>1
    <3>3. PICK l \in Pid : job[l] = j /\ \A q \in Pid : job[q] = j => q <= l
      BY DEF DataInv, JobsInv
    <3>4. ~ l >= next
      BY <3>1, <3>3 DEF DataInv, BornInv, Shell, Pid
    <3>5. job'[l] = j
      BY <1>1, <3>3, <3>4
    <3>6. \A q \in Pid : job'[q] = j => job[q] = j
      BY <1>1, <1>2, <3>1
    <3> QED BY <3>1, <3>2, <3>3, <3>5, <3>6
  <2> QED BY <1>1, <2>1, <2>2, <2>3 DEF JobsInv
<1>5. \A p \in Pid : p \in next..top => rep[p] = "none"
  BY <1>1 DEF DataInv, BornInv, RepInv
<1>6. RepInv'
  BY <1>1, <1>5 DEF DataInv, RepInv
<1>7. CachedInv'
  <2> SUFFICES ASSUME NEW p \in Pid
               PROVE  /\ kst'[p] # "none" => job'[p] \in table' /\ cached'[p] # "done"
                      /\ ~ CanLeave /\ job'[p] \in table' /\ rep'[p] = "none" =>
                             \/ kst'[p] = "run"  /\ cached'[p] = "running"
                             \/ kst'[p] = "stop" /\ cached'[p] = "stopped"
                             \/ kst'[p] = "none" /\ cached'[p] = "done"
    BY DEF CachedInv
  <2>1. CASE p \in next..top
    BY <1>1, <2>1
  <2>2. CASE p \notin next..top
    <3>1. job[p] # next
      BY <2>2, OldJobs DEF DataInv
    <3> QED BY <1>1, <2>2, <3>1 DEF DataInv, CachedInv
  <2> QED BY <2>1, <2>2
<1> QED BY <1>3, <1>4, <1>6, <1>7 DEF DataInv

(* The rollback of a wait that failed after a launch.                      *)
LEMMA DataWaitFails == ASSUME TypeOK, DataInv, WaitFails PROVE DataInv'
<1>1. UNCHANGED <<next, job, grp>>
  BY DEF WaitFails
<1>2. CASE via = "launch"
  <2>1. /\ \A p \in Pid : \/ /\ job[p] = cur /\ kst'[p] = "none" /\ rep'[p] = "none"
                             /\ cached'[p] = "done"
                          \/ /\ job[p] # cur /\ kst'[p] = kst[p] /\ rep'[p] = rep[p]
                             /\ cached'[p] = cached[p]
        /\ table' = table \ {cur}
    BY <1>2 DEF WaitFails
  <2>2. BornInv' /\ JobsInv'
    BY <1>1, <2>1 DEF DataInv, BornInv, JobsInv
  <2>3. RepInv' /\ CachedInv'
    BY <1>1, <2>1 DEF DataInv, RepInv, CachedInv
  <2> QED BY <2>2, <2>3 DEF DataInv
<1>3. CASE via # "launch"
  BY <1>1, <1>3, DataSame DEF WaitFails
<1> QED BY <1>2, <1>3

(* A job whose status is up to date and DONE has no process left.          *)
LEMMA DoneReaped ==
    ASSUME TypeOK, CachedInv, NEW j, status[j] = Derived(cached, j), status[j] = "DONE",
           NEW p \in Pid, job[p] = j
    PROVE  kst[p] = "none"
<1>1. cached \in [Pid -> {"running", "stopped", "done"}] /\ Derived(cached, j) = "DONE"
  BY DEF TypeOK
<1>2. cached[p] = "done"
  BY <1>1, DerivedIs
<1> QED BY <1>2 DEF CachedInv

(* Every step keeps DataInv.                                               *)
LEMMA DataKept == ASSUME IInv, [Next]_vars PROVE DataInv'
<1> USE DEF shellVars, tableVars, kernelVars, ttyVars, boundVars
<1>i. TypeOK /\ DataInv /\ StatusInv /\ PlaceInv /\ ShutInv
  BY DEF IInv
<1>1. CASE ForegroundStep
  <2>1. CASE FgSetsModes \/ WaitEnds
    BY <1>i, <2>1, DataSame DEF FgSetsModes, WaitEnds
  <2>2. CASE FgContinue
    <3>1. CASE Continued(cur)
      <4>1. cur \in Pid
        BY <1>i, <2>2 DEF FgContinue, PlaceInv, Foreground, TypeOK
      <4> QED BY <1>i, <2>2, <3>1, <4>1, DataContinued DEF FgContinue
    <3>2. CASE UNCHANGED <<cached, status, kst, rep, chld>>
      BY <1>i, <2>2, <3>2, DataSame DEF FgContinue
    <3> QED BY <2>2, <3>1, <3>2 DEF FgContinue
  <2>3. ASSUME NEW p \in Pid, WaitReport(p) PROVE DataInv'
    <3>1. WaitFlags \in SUBSET Reports
      BY DEF WaitFlags, Reports
    <3> QED BY <1>i, <2>3, <3>1, DataObserved DEF WaitReport
  <2>4. CASE WaitFails
    BY <1>i, <2>4, DataWaitFails
  <2>5. CASE Finish
    <3>1. UNCHANGED <<next, job, kst, rep, cached, grp>>
      BY <2>5 DEF Finish
    <3>2. CASE table' = table
      BY <1>i, <3>1, <3>2, DataSame
    <3>3. CASE table' = table \ {cur} /\ status[cur] = "DONE"
      <4>1. cur \in table /\ pc = "finish"
        BY <1>i, <2>5 DEF Finish, PlaceInv, Foreground
      <4>2. status[cur] = Derived(cached, cur)
        BY <1>i, <4>1 DEF StatusInv, Walks
      <4>3. \A p \in Pid : job[p] = cur => kst[p] = "none"
        BY <1>i, <3>3, <4>2, DoneReaped DEF DataInv
      <4>4. \A p \in Pid : kst[p] # "none" => job[p] \in table'
        BY <1>i, <3>3, <4>3 DEF DataInv, CachedInv
      <4> QED BY <1>i, <3>1, <3>3, <4>4, DataShrinks
    <3> QED BY <2>5, <3>2, <3>3 DEF Finish
  <2> QED BY <1>1, <2>1, <2>2, <2>3, <2>4, <2>5 DEF ForegroundStep
<1>2. CASE ReapStep
  <2>1. CASE StartReap
    BY <1>i, <2>1, DataSame DEF StartReap
  <2>2. ASSUME NEW p \in Pid, Poll(p) PROVE DataInv'
    <3>1. ReapFlags \in SUBSET Reports
      BY DEF ReapFlags, Reports
    <3> QED BY <1>i, <2>2, <3>1, DataObserved DEF Poll
  <2>3. CASE CleanupDone
    <3>1. \A j \in table : status[j] = Derived(cached, j)
      BY <1>i, <2>3 DEF CleanupDone, StatusInv
    <3>2. \A p \in Pid : kst[p] # "none" => job[p] \in table'
      BY <1>i, <2>3, <3>1, DoneReaped DEF CleanupDone, DataInv, CachedInv
    <3> QED BY <1>i, <2>3, <3>2, DataShrinks DEF CleanupDone
  <2> QED BY <1>2, <2>1, <2>2, <2>3 DEF ReapStep
<1>3. CASE ShutdownStep
  <2>1. CASE ShutStart \/ ShutTerminate \/ EndRound \/ ShutKilled
    BY <1>i, <2>1, DataSame DEF ShutStart, ShutTerminate, EndRound, ShutKilled
  <2>2. ASSUME NEW j \in Pid, ShutContinue(j) PROVE DataInv'
    BY <1>i, <2>2, DataContinued DEF ShutContinue
  <2>3. ASSUME NEW j \in Pid, ShutKill(j) PROVE DataInv'
    <3>1. CASE KillGroup(j)
      BY <1>i, <2>3, <3>1, DataKilled DEF ShutKill
    <3>2. CASE UNCHANGED <<kst, rep, desc, chld>>
      BY <1>i, <2>3, <3>2, DataSame DEF ShutKill
    <3> QED BY <2>3, <3>1, <3>2 DEF ShutKill
  <2>4. CASE Destroy
    <3>1. \A p \in Pid : kst[p] = "none"
      BY <1>i, <2>4 DEF Destroy, ShutInv
    <3> QED BY <1>i, <2>4, <3>1, DataShrinks DEF Destroy
  <2>5. ASSUME NEW p \in Pid, TryReap(p) \/ ForceReap(p) PROVE DataInv'
    <3>1. ShutFlags \in SUBSET Reports
      BY DEF ShutFlags, Reports
    <3> QED BY <1>i, <2>5, <3>1, DataObserved DEF TryReap, ForceReap
  <2> QED BY <1>3, <2>1, <2>2, <2>3, <2>4, <2>5 DEF ShutdownStep
<1>4. CASE UserStep
  <2>1. CASE CommandFails \/ FgHandsOver \/ Reload \/ Quit
    BY <1>i, <2>1, DataSame DEF CommandFails, FgHandsOver, Reload, Quit
  <2>2. CASE \E n \in 1..MaxPipe, background \in BOOLEAN : Launch(n, background)
    BY <1>i, <2>2, DataLaunched
  <2>3. CASE Bg
    <3>1. PICK j \in Pid : Continued(j)
      BY <2>3 DEF Bg
    <3> QED BY <1>i, <2>3, <3>1, DataContinued DEF Bg
  <2> QED BY <1>4, <2>1, <2>2, <2>3 DEF UserStep
<1>5. CASE KernelStep
  BY <1>i, <1>5, DataKernel
<1>6. CASE UNCHANGED vars
  BY <1>i, <1>6, DataSame DEF vars
<1> QED BY <1>1, <1>2, <1>3, <1>4, <1>5, <1>6 DEF Next, ShellStep, Stopping

-----------------------------------------------------------------------------
(* The statuses of the jobs *)

(* A step that changes neither the table nor what it says keeps it right.  *)
LEMMA StatusQuiet ==
    ASSUME StatusInv, UNCHANGED <<job, status, cached>>, table' \subseteq table,
           pc \notin Walks \/ todo = {} \/ UNCHANGED <<pc, todo>>
    PROVE  StatusInv'
<1> SUFFICES ASSUME NEW j \in table'
             PROVE  \/ status'[j] = Derived(cached, j)'
                    \/ pc' \in Walks /\ \E q \in todo' : job'[q] = j
  BY DEF StatusInv
<1>1. Derived(cached, j)' = Derived(cached, j)
  BY DerivedSame
<1> QED BY <1>1 DEF StatusInv

(* A walk that visits p.                                                   *)
LEMMA StatusWalk ==
    ASSUME TypeOK, RepInv, StatusInv, NEW p \in Pid, NEW flags \in SUBSET Reports,
           Observe(p, flags), todo' = todo \ {p}, UpdateAfter(p, todo'),
           pc \in Walks, UNCHANGED <<pc, job, table>>
    PROVE  StatusInv'
<1> SUFFICES ASSUME NEW j \in table
             PROVE  \/ status'[j] = Derived(cached, j)'
                    \/ pc' \in Walks /\ \E q \in todo' : job'[q] = j
  BY DEF StatusInv
<1>1. Derived(cached, j)' = Derived(cached', j)
  BY DerivedSame
<1>2. \A q \in Pid : q # p => cached'[q] = cached[q]
  BY Observed
<1>3. j \in Pid /\ status \in [Pid -> {"RUNNING", "STOPPED", "DONE"}]
  BY DEF TypeOK
<1>4. CASE job[p] = j
  <2>1. CASE \E q \in todo' : job[q] = j
    BY <2>1
  <2>2. CASE ~ \E q \in todo' : job[q] = j
    <3>1. status'[j] = Derived(cached', j)
      BY <1>3, <1>4, <2>2 DEF UpdateAfter
    <3> QED BY <1>1, <3>1
  <2> QED BY <2>1, <2>2
<1>5. CASE job[p] # j
  <2>1. status'[j] = status[j]
    BY <1>3, <1>5 DEF UpdateAfter
  <2>2. Derived(cached, j)' = Derived(cached, j)
    BY <1>2, <1>5, DerivedSame
  <2>3. CASE \E q \in todo : job[q] = j
    BY <1>5, <2>3
  <2>4. CASE ~ \E q \in todo : job[q] = j
    BY <2>1, <2>2, <2>4 DEF StatusInv
  <2> QED BY <2>3, <2>4
<1> QED BY <1>4, <1>5

(* Steps that change one job, and set its status.                          *)
LEMMA StatusOfOne ==
    ASSUME TypeOK, StatusInv, pc \notin Walks, NEW j \in Pid,
           \A p \in Pid : job[p] # j => cached'[p] = cached[p],
           status' = [status EXCEPT ![j] = Derived(cached', j)],
           UNCHANGED <<job, table>>
    PROVE  StatusInv'
<1> SUFFICES ASSUME NEW k \in table PROVE status'[k] = Derived(cached, k)'
  BY DEF StatusInv
<1>1. Derived(cached, k)' = Derived(cached', k)
  BY DerivedSame
<1>2. k \in Pid /\ status \in [Pid -> {"RUNNING", "STOPPED", "DONE"}]
  BY DEF TypeOK
<1>3. CASE k = j
  BY <1>1, <1>2, <1>3
<1>4. CASE k # j
  <2>1. Derived(cached, k)' = Derived(cached, k)
    BY <1>4, DerivedSame
  <2> QED BY <1>2, <1>4, <2>1 DEF StatusInv
<1> QED BY <1>3, <1>4

(* The status of a new job is that of its processes.                       *)
LEMMA StatusLaunched ==
    ASSUME TypeOK, DataInv, StatusInv, pc \notin Walks,
           NEW n \in 1..MaxPipe, NEW background \in BOOLEAN, Launch(n, background)
    PROVE  StatusInv'
<1>1. /\ next \in Pid /\ next <= next + n - 1
      /\ \A p \in Pid :
             \/ /\ p \in next..(next + n - 1)
                /\ job'[p] = next /\ cached'[p] = "running"
             \/ /\ p \notin next..(next + n - 1)
                /\ job'[p] = job[p] /\ cached'[p] = cached[p]
      /\ table' = table \cup {next}
  BY Launched
<1>2. next \in next..(next + n - 1)
  BY <1>1 DEF TypeOK
<1>3. status' = [status EXCEPT ![next] = "RUNNING"]
  BY DEF Launch
<1>4. ASSUME NEW j, j = next PROVE status'[j] = Derived(cached, j)'
  <2>1. status'[j] = "RUNNING"
    BY <1>1, <1>3, <1>4 DEF TypeOK
  <2>2. \E p \in Pid : job'[p] = j /\ cached'[p] = "running"
    BY <1>1, <1>2, <1>4
  <2>3. Derived(cached, j)' = "RUNNING"
    BY <2>2 DEF Derived, Members
  <2> QED BY <2>1, <2>3
<1>5. ASSUME NEW j \in table PROVE status'[j] = Derived(cached, j)'
  <2>1. j \in Pid /\ j # next /\ j # Shell
    BY DEF DataInv, JobsInv, TypeOK, Pid, Shell
  <2>2. \A p \in Pid : p \in next..(next + n - 1) => job[p] = Shell
    BY DEF DataInv, BornInv, TypeOK
  <2>3. \A p \in Pid : /\ job'[p] = j <=> job[p] = j
                       /\ job[p] = j => cached'[p] = cached[p]
    BY <1>1, <2>1, <2>2
  <2>4. Derived(cached, j)' = Derived(cached, j)
    BY <2>3 DEF Derived, Members
  <2>5. status'[j] = status[j] /\ status[j] = Derived(cached, j)
    BY <1>3, <2>1 DEF StatusInv, TypeOK
  <2> QED BY <2>4, <2>5
<1>6. \A j \in table' : status'[j] = Derived(cached, j)'
  BY <1>1, <1>4, <1>5
<1> QED BY <1>6 DEF StatusInv

(* Every step keeps the statuses right, or in work by a walk.              *)
LEMMA StatusKept == ASSUME IInv, [Next]_vars PROVE StatusInv'
<1> USE DEF shellVars, tableVars, kernelVars, ttyVars, boundVars
<1>i. TypeOK /\ DataInv /\ StatusInv /\ PlaceInv /\ RepInv
  BY DEF IInv, DataInv
<1>1. CASE ForegroundStep
  <2>0. pc \in Foreground /\ pc \notin Walks
    BY <1>1 DEF ForegroundStep, FgSetsModes, FgContinue, WaitReport, WaitEnds, WaitFails,
                Finish, Foreground, Walks
  <2>c. cur \in table /\ cur \in Pid
    BY <1>i, <2>0 DEF PlaceInv, TypeOK
  <2>1. CASE FgSetsModes \/ WaitEnds
    BY <1>i, <2>0, <2>1, StatusQuiet DEF FgSetsModes, WaitEnds
  <2>2. CASE FgContinue
    <3>1. CASE Continued(cur)
      <4>1. /\ \A p \in Pid : job[p] # cur => cached'[p] = cached[p]
            /\ status' = [status EXCEPT ![cur] = Derived(cached', cur)]
            /\ UNCHANGED <<job, table>>
        BY <2>2, <3>1 DEF Continued, FgContinue
      <4> QED BY <1>i, <2>0, <2>c, <4>1, StatusOfOne
    <3>2. CASE UNCHANGED <<cached, status, kst, rep, chld>>
      BY <1>i, <2>0, <2>2, <3>2, StatusQuiet DEF FgContinue
    <3> QED BY <2>2, <3>1, <3>2 DEF FgContinue
  <2>3. ASSUME NEW p \in Pid, WaitReport(p) PROVE StatusInv'
    <3>1. WaitFlags \in SUBSET Reports /\ Observe(p, WaitFlags) /\ p \in InGroup(cur)
      BY <2>3 DEF WaitReport, WaitFlags, Reports
    <3>2. grp[p] = cur /\ kst[p] # "none"
      BY <3>1 DEF InGroup
    <3>3. job[p] = cur
      <4>1. p < next \/ p >= next
        BY <1>i DEF TypeOK, Pid
      <4>2. grp[p] \in {p, job[p]}
        BY <1>i, <3>2, <4>1 DEF DataInv, BornInv
      <4> QED BY <1>i, <2>c, <3>2, <4>2 DEF DataInv, JobsInv
    <3>4. \A q \in Pid : q # p => cached'[q] = cached[q]
      BY <1>i, <3>1, Observed
    <3>5. /\ status' = [status EXCEPT ![cur] = Derived(cached', cur)]
          /\ UNCHANGED <<job, table>>
      BY <2>3 DEF WaitReport
    <3>6. \A q \in Pid : job[q] # cur => cached'[q] = cached[q]
      BY <3>3, <3>4
    <3> QED BY <1>i, <2>0, <2>c, <3>5, <3>6, StatusOfOne
  <2>4. CASE WaitFails
    <3>1. UNCHANGED <<job, status>> /\ table' \subseteq table
      BY <2>4 DEF WaitFails
    <3>2. \A j \in table' : \A p \in Pid : job[p] = j => cached'[p] = cached[p]
      BY <2>4 DEF WaitFails
    <3>3. \A j \in table' : Derived(cached, j)' = Derived(cached, j)
      BY <3>1, <3>2, DerivedSame
    <3> QED BY <1>i, <2>0, <3>1, <3>3 DEF StatusInv
  <2>5. CASE Finish
    BY <1>i, <2>0, <2>5, StatusQuiet DEF Finish
  <2> QED BY <1>1, <2>1, <2>2, <2>3, <2>4, <2>5 DEF ForegroundStep
<1>2. CASE ReapStep
  <2>1. CASE StartReap
    BY <1>i, <2>1, StatusQuiet DEF StartReap, AtPrompt, Walks
  <2>2. ASSUME NEW p \in Pid, Poll(p) PROVE StatusInv'
    <3>1. ReapFlags \in SUBSET Reports /\ pc \in Walks
      BY <2>2 DEF ReapFlags, Reports, Poll, Walks
    <3> QED BY <1>i, <2>2, <3>1, StatusWalk DEF Poll
  <2>3. CASE CleanupDone
    BY <1>i, <2>3, StatusQuiet DEF CleanupDone
  <2> QED BY <1>2, <2>1, <2>2, <2>3 DEF ReapStep
<1>3. CASE ShutdownStep
  <2>1. CASE ShutStart \/ ShutTerminate \/ EndRound \/ ShutKilled
    BY <1>i, <2>1, StatusQuiet DEF ShutStart, ShutTerminate, EndRound, ShutKilled, Walks
  <2>2. ASSUME NEW j \in Pid, ShutContinue(j) PROVE StatusInv'
    <3>1. /\ \A p \in Pid : job[p] # j => cached'[p] = cached[p]
          /\ status' = [status EXCEPT ![j] = Derived(cached', j)]
          /\ pc \notin Walks /\ UNCHANGED <<job, table>>
      BY <2>2 DEF Continued, ShutContinue, Walks
    <3> QED BY <1>i, <3>1, StatusOfOne
  <2>3. ASSUME NEW j \in Pid, ShutKill(j) PROVE StatusInv'
    BY <1>i, <2>3, StatusQuiet DEF ShutKill, Walks
  <2>4. CASE Destroy
    BY <1>i, <2>4, StatusQuiet DEF Destroy
  <2>5. ASSUME NEW p \in Pid, TryReap(p) \/ ForceReap(p) PROVE StatusInv'
    <3>1. ShutFlags \in SUBSET Reports /\ pc \in Walks
      BY <2>5 DEF ShutFlags, Reports, TryReap, ForceReap, Walks
    <3>2. /\ Observe(p, ShutFlags) /\ todo' = todo \ {p} /\ UpdateAfter(p, todo')
          /\ UNCHANGED <<pc, job, table>>
      BY <2>5 DEF TryReap, ForceReap
    <3> QED BY <1>i, <3>1, <3>2, StatusWalk
  <2> QED BY <1>3, <2>1, <2>2, <2>3, <2>4, <2>5 DEF ShutdownStep
<1>4. CASE UserStep
  <2>0. pc \notin Walks
    BY <1>4 DEF UserStep, CommandFails, Launch, FgHandsOver, Bg, Reload, Quit, AtPrompt, Walks
  <2>1. CASE CommandFails \/ FgHandsOver \/ Reload \/ Quit
    BY <1>i, <2>0, <2>1, StatusQuiet DEF CommandFails, FgHandsOver, Reload, Quit
  <2>2. CASE \E n \in 1..MaxPipe, background \in BOOLEAN : Launch(n, background)
    BY <1>i, <2>0, <2>2, StatusLaunched
  <2>3. CASE Bg
    <3>1. PICK j \in Pid : Continued(j)
      BY <2>3 DEF Bg
    <3>2. /\ \A p \in Pid : job[p] # j => cached'[p] = cached[p]
          /\ status' = [status EXCEPT ![j] = Derived(cached', j)]
          /\ UNCHANGED <<job, table>>
      BY <2>3, <3>1 DEF Continued, Bg
    <3> QED BY <1>i, <2>0, <3>2, StatusOfOne
  <2> QED BY <1>4, <2>1, <2>2, <2>3 DEF UserStep
<1>5. CASE KernelStep
  <2>1. UNCHANGED <<pc, todo, job, status, cached, table>>
    BY <1>5 DEF KernelStep, Exits, Switches, Leaves, Spawns, SetsModes, DescendantEnds
  <2> QED BY <1>i, <2>1, StatusQuiet
<1>6. CASE UNCHANGED vars
  BY <1>i, <1>6, StatusQuiet DEF vars
<1> QED BY <1>1, <1>2, <1>3, <1>4, <1>5, <1>6 DEF Next, ShellStep, Stopping

-----------------------------------------------------------------------------
(* The place of the shell, the jobs between two commands, and the shutdown *)

(* Every step keeps what the places of a foreground job rest on.           *)
LEMMA PlaceKept == ASSUME IInv, [Next]_vars PROVE PlaceInv'
<1> USE DEF shellVars, tableVars, kernelVars, ttyVars, boundVars, Foreground, PlaceInv
<1>i. PlaceInv
  BY DEF IInv
<1>1. CASE ForegroundStep
  BY <1>i, <1>1 DEF ForegroundStep, FgSetsModes, FgContinue, WaitReport, WaitEnds, WaitFails,
                    Finish, ToPrompt
<1>2. CASE ReapStep
  BY <1>i, <1>2 DEF ReapStep, StartReap, Poll, CleanupDone, AtPrompt
<1>3. CASE ShutdownStep
  BY <1>i, <1>3 DEF ShutdownStep, ShutStart, ShutContinue, ShutTerminate, TryReap, EndRound,
                    ShutKill, ShutKilled, ForceReap, Destroy
<1>4. CASE UserStep
  <2>1. CASE CommandFails \/ Bg \/ Reload \/ Quit
    BY <1>i, <2>1 DEF CommandFails, Bg, Reload, Quit, AtPrompt
  <2>2. ASSUME NEW n \in 1..MaxPipe, NEW background \in BOOLEAN, Launch(n, background)
        PROVE  PlaceInv'
    BY <1>i, <2>2 DEF Launch, AtPrompt
  <2>3. CASE FgHandsOver
    BY <1>i, <2>3 DEF FgHandsOver, AtPrompt, IsFirst, ActiveJobs
  <2> QED BY <1>4, <2>1, <2>2, <2>3 DEF UserStep
<1>5. CASE KernelStep
  BY <1>i, <1>5 DEF KernelStep, Exits, Switches, Leaves, Spawns, SetsModes, DescendantEnds
<1>6. CASE UNCHANGED vars
  BY <1>i, <1>6 DEF vars
<1> QED BY <1>1, <1>2, <1>3, <1>4, <1>5, <1>6 DEF Next, ShellStep, Stopping

(* Every step keeps finished jobs to the places that remove them.          *)
LEMMA FinishedKept == ASSUME IInv, [Next]_vars PROVE FinishedInv'
<1> USE DEF shellVars, tableVars, kernelVars, ttyVars, boundVars
<1>i. TypeOK /\ StatusInv /\ FinishedInv /\ PlaceInv
  BY DEF IInv
<1>1. CASE ForegroundStep
  <2>1. CASE FgSetsModes
    BY <1>i, <2>1 DEF FgSetsModes, ToPrompt, FinishedInv, PlaceInv, Foreground
  <2>2. CASE FgContinue
    <3>1. \A j \in table : j # cur => status'[j] = status[j]
      BY <1>i, <2>2 DEF FgContinue, Continued, TypeOK
    <3>2. CASE pc' = "wait"
      BY <1>i, <2>2, <3>1, <3>2 DEF FgContinue, FinishedInv, PlaceInv, Foreground
    <3>3. CASE pc' = "prompt" /\ status' = status
      BY <1>i, <2>2, <3>3 DEF FgContinue, FinishedInv, PlaceInv, Foreground
    <3> QED BY <2>2, <3>2, <3>3 DEF FgContinue, ToPrompt
  <2>3. ASSUME NEW p \in Pid, WaitReport(p) PROVE FinishedInv'
    <3>1. /\ pc = "wait" /\ UNCHANGED <<pc, cur, running, table>>
          /\ \A j \in table : j # cur => status'[j] = status[j]
      BY <1>i, <2>3 DEF WaitReport, TypeOK
    <3>2. \A j \in table : j # cur => status[j] # "DONE"
      BY <1>i, <3>1 DEF FinishedInv
    <3>3. /\ pc' = "wait" /\ pc' \notin {"prompt", "fg_modes", "fg_continue"}
          /\ \A j \in table' : j # cur' => status'[j] # "DONE"
      BY <3>1, <3>2
    <3> QED BY <3>3 DEF FinishedInv
  <2>4. CASE WaitEnds
    BY <1>i, <2>4 DEF WaitEnds, FinishedInv
  <2>5. CASE WaitFails
    BY <1>i, <2>5 DEF WaitFails, ToPrompt, FinishedInv
  <2>6. CASE Finish
    BY <1>i, <2>6 DEF Finish, ToPrompt, FinishedInv
  <2> QED BY <1>1, <2>1, <2>2, <2>3, <2>4, <2>5, <2>6 DEF ForegroundStep
<1>2. CASE ReapStep
  BY <1>i, <1>2 DEF ReapStep, StartReap, Poll, CleanupDone, AtPrompt, FinishedInv
<1>3. CASE ShutdownStep
  BY <1>i, <1>3 DEF ShutdownStep, ShutStart, ShutContinue, ShutTerminate, TryReap, EndRound,
                    ShutKill, ShutKilled, ForceReap, Destroy, FinishedInv
<1>4. CASE UserStep
  <2>1. CASE CommandFails \/ Reload \/ Quit
    BY <1>i, <2>1 DEF CommandFails, Reload, Quit, AtPrompt, FinishedInv
  <2>2. ASSUME NEW n \in 1..MaxPipe, NEW background \in BOOLEAN, Launch(n, background)
        PROVE  FinishedInv'
    <3>1. /\ pc = "prompt" /\ running /\ pc' \in {"prompt", "wait"}
          /\ table' = table \cup {next} /\ status' = [status EXCEPT ![next] = "RUNNING"]
      BY <2>2 DEF Launch, AtPrompt
    <3>2. \A j \in table : j \in Pid /\ status[j] # "DONE"
      BY <1>i, <3>1 DEF FinishedInv, TypeOK
    <3>3. status'[next] = "RUNNING"
      BY <1>i, <2>2, <3>1, Launched DEF TypeOK
    <3>4. status \in [Pid -> {"RUNNING", "STOPPED", "DONE"}]
      BY <1>i DEF TypeOK
    <3>5. \A j \in table' : status'[j] # "DONE"
      BY <3>1, <3>2, <3>3, <3>4
    <3> QED BY <3>5 DEF FinishedInv
  <2>3. CASE FgHandsOver
    BY <1>i, <2>3 DEF FgHandsOver, AtPrompt, FinishedInv
  <2>4. CASE Bg
    <3>1. PICK j \in Pid : j \in table /\ status[j] = "STOPPED" /\ Continued(j)
      BY <2>4 DEF Bg, IsFirst
    <3>2. status[j] = Derived(cached, j)
      BY <1>i, <2>4, <3>1 DEF Bg, AtPrompt, StatusInv, Walks
    <3>3. cached \in [Pid -> {"running", "stopped", "done"}]
      BY <1>i DEF TypeOK
    <3>4. PICK p \in Pid : job[p] = j /\ cached[p] = "stopped"
      BY <3>1, <3>2, <3>3, DerivedIs
    <3>5. cached'[p] = "running" /\ job[p] = j
      BY <3>1, <3>4 DEF Continued
    <3>6. Derived(cached', j) = "RUNNING"
      BY <3>5 DEF Derived, Members
    <3>7. status' = [status EXCEPT ![j] = "RUNNING"]
      BY <3>1, <3>6 DEF Continued
    <3> QED BY <1>i, <2>4, <3>7 DEF Bg, AtPrompt, FinishedInv, TypeOK
  <2> QED BY <1>4, <2>1, <2>2, <2>3, <2>4 DEF UserStep
<1>5. CASE KernelStep
  BY <1>i, <1>5 DEF KernelStep, Exits, Switches, Leaves, Spawns, SetsModes, DescendantEnds,
                    FinishedInv
<1>6. CASE UNCHANGED vars
  BY <1>i, <1>6 DEF vars, FinishedInv
<1> QED BY <1>1, <1>2, <1>3, <1>4, <1>5, <1>6 DEF Next, ShellStep, Stopping

(* The programs and the kernel while the shell shuts down.                 *)
LEMMA DeadStays ==
    ASSUME TypeOK, DataInv, KernelStep, NEW j \in table, Dead(j)
    PROVE  Dead(j)'
<1> USE DEF shellVars, tableVars, kernelVars, ttyVars, boundVars
<1> SUFFICES ASSUME NEW p \in Pid, \/ Exits(p) \/ Switches(p) \/ Leaves(p) \/ Spawns(p)
                                   \/ SetsModes(p) \/ DescendantEnds(p)
             PROVE  Dead(j)'
  BY DEF KernelStep
<1>1. CASE Exits(p) \/ Switches(p)
  BY <1>1 DEF Exits, Switches, Alive, Dead, TypeOK
<1>2. CASE Leaves(p)
  <2>1. /\ kst[p] = "run" /\ grp[p] # p /\ grp'[p] = p
        /\ \A q \in Pid : q # p => grp'[q] = grp[q]
        /\ UNCHANGED <<kst, desc>>
    BY <1>2 DEF Leaves, TypeOK
  <2>2. p < next \/ p >= next
    BY DEF TypeOK, Pid
  <2>3. grp[p] \in {p, job[p]}
    BY <2>1, <2>2 DEF DataInv, BornInv
  <2>4. p # j
    BY <2>1, <2>3 DEF DataInv, JobsInv
  <2> QED BY <2>1, <2>4 DEF Dead, Alive
<1>3. CASE Spawns(p)
  BY <1>3 DEF Spawns, Dead, Alive
<1>4. CASE SetsModes(p) \/ DescendantEnds(p)
  BY <1>4 DEF SetsModes, DescendantEnds, Dead, Alive
<1> QED BY <1>1, <1>2, <1>3, <1>4

(* Every step keeps what the shutdown has done so far.                     *)
LEMMA ShutKept == ASSUME IInv, [Next]_vars PROVE ShutInv'
<1> USE DEF shellVars, tableVars, kernelVars, ttyVars, boundVars
<1>i. TypeOK /\ DataInv /\ ShutInv
  BY DEF IInv
<1>1. CASE ForegroundStep \/ ReapStep \/ UserStep
  <2>1. pc' \notin {"shut_kill", "shut_reap", "end"}
    BY <1>1 DEF ForegroundStep, FgSetsModes, FgContinue, WaitReport, WaitEnds, WaitFails,
                Finish, ToPrompt, ReapStep, StartReap, Poll, CleanupDone, AtPrompt,
                UserStep, CommandFails, Launch, FgHandsOver, Bg, Reload, Quit
  <2> QED BY <2>1 DEF ShutInv
<1>2. CASE ShutdownStep
  <2>1. CASE ShutStart \/ ShutTerminate \/ \E j \in Pid : ShutContinue(j)
    BY <2>1 DEF ShutStart, ShutTerminate, ShutContinue, ShutInv
  <2>2. CASE EndRound
    BY <2>2 DEF EndRound, ShutInv
  <2>3. ASSUME NEW p \in Pid, TryReap(p) PROVE ShutInv'
    BY <2>3 DEF TryReap, ShutInv
  <2>4. ASSUME NEW j \in Pid, ShutKill(j) PROVE ShutInv'
    <3>1. KillGroup(j) /\ UNCHANGED <<pc, table, grp>> /\ todo' = todo \ {j} /\ pc = "shut_kill"
      BY <2>4 DEF ShutKill, KillTargets
    <3>2. \A p \in Pid : \/ grp[p] = j /\ Alive(p) /\ kst'[p] = "zombie"
                         \/ ~ (grp[p] = j /\ Alive(p)) /\ kst'[p] = kst[p]
      BY <3>1 DEF KillGroup
    <3>3. desc' = desc \ {j}
      BY <3>1 DEF KillGroup
    <3>4. \A k \in table : k = j \/ Dead(k) => Dead(k)'
      BY <3>1, <3>2, <3>3 DEF Dead, Alive
    <3> QED BY <1>i, <3>1, <3>4 DEF ShutInv
  <2>5. CASE ShutKilled
    BY <1>i, <2>5 DEF ShutKilled, ShutInv, Pending, Tracked, Dead, Alive, DataInv, CachedInv
  <2>6. ASSUME NEW p \in Pid, ForceReap(p) PROVE ShutInv'
    <3>1. /\ Observe(p, ShutFlags) /\ ShutFlags \in SUBSET Reports /\ ~ Alive(p)
          /\ UNCHANGED <<pc, table, grp, desc>> /\ todo' = todo \ {p} /\ pc = "shut_reap"
      BY <2>6 DEF ForceReap, ShutFlags, Reports
    <3>2. /\ \A q \in Pid : q # p => kst'[q] = kst[q]
          /\ kst'[p] = "none"
      <4>1. kst[p] \in {"none", "zombie"}
        BY <1>i, <3>1 DEF Alive, TypeOK
      <4>2. kst[p] = "zombie" => rep[p] = "exited"
        BY <1>i DEF DataInv, RepInv
      <4>3. RepInv
        BY <1>i DEF DataInv
      <4> QED BY <1>i, <3>1, <4>1, <4>2, <4>3, Observed DEF ShutFlags
    <3>3. \A j \in table : Dead(j) => Dead(j)'
      BY <3>1, <3>2 DEF Dead, Alive
    <3> QED BY <1>i, <3>1, <3>2, <3>3 DEF ShutInv
  <2>7. CASE Destroy
    BY <1>i, <2>7 DEF Destroy, ShutInv
  <2> QED BY <1>2, <2>1, <2>2, <2>3, <2>4, <2>5, <2>6, <2>7 DEF ShutdownStep
<1>3. CASE KernelStep
  <2>1. UNCHANGED <<pc, todo, table>>
    BY <1>3 DEF KernelStep, Exits, Switches, Leaves, Spawns, SetsModes, DescendantEnds
  <2>2. \A j \in table : Dead(j) => Dead(j)'
    BY <1>i, <1>3, DeadStays
  <2>3. \A p \in Pid : kst'[p] # "none" => kst[p] # "none"
    BY <1>i, <1>3 DEF KernelStep, Exits, Switches, Leaves, Spawns, SetsModes, DescendantEnds,
                      Alive, TypeOK
  <2> QED BY <1>i, <2>1, <2>2, <2>3 DEF ShutInv
<1>4. CASE UNCHANGED vars
  BY <1>i, <1>4 DEF vars, ShutInv, Dead, Alive
<1> QED BY <1>1, <1>2, <1>3, <1>4 DEF Next, ShellStep, Stopping

-----------------------------------------------------------------------------
(* The exits that have been reported                                       *)

LEMMA KeptSame ==
    ASSUME KeptInv, table' \subseteq table, UNCHANGED <<job, kst, cached, wait_status, code>>
    PROVE  KeptInv'
BY DEF KeptInv

(* waitpid: an exit is the last thing it reports of a process, and it says *)
(* ECHILD of none whose exit it has not reported.                          *)
LEMMA KeptObserved ==
    ASSUME TypeOK, RepInv, KeptInv, NEW p \in Pid, NEW flags \in SUBSET Reports,
           Observe(p, flags), UNCHANGED <<job, table, code>>
    PROVE  KeptInv'
<1>1. /\ \A q \in Pid : q # p => kst'[q] = kst[q] /\ cached'[q] = cached[q]
      /\ \/ /\ rep[p] \in flags
            /\ \/ rep[p] = "exited" /\ kst'[p] = "none" /\ cached'[p] = "done"
               \/ rep[p] \in {"stopped", "continued"} /\ kst'[p] = kst[p]
         \/ /\ rep[p] \notin flags
            /\ kst'[p] = kst[p]
            /\ cached'[p] = IF kst[p] = "none" THEN "done" ELSE cached[p]
  BY Observed
<1>2. /\ \A q \in Pid : q # p => wait_status'[q] = wait_status[q]
      /\ rep[p] \in flags => wait_status'[p] = [what |-> rep[p], code |-> code[p]]
      /\ rep[p] \notin flags => wait_status'[p] = wait_status[p]
  BY DEF Observe, Reported, TypeOK
<1>3. rep[p] \in {"stopped", "continued"} => kst[p] # "none"
  BY DEF RepInv
<1> SUFFICES ASSUME NEW q \in Pid, job[q] \in table, kst'[q] = "none"
             PROVE  /\ cached'[q] = "done"
                    /\ wait_status'[q] = [what |-> "exited", code |-> code[q]]
  BY DEF KeptInv
<1>4. CASE q # p
  BY <1>1, <1>2, <1>4 DEF KeptInv
<1>5. CASE q = p
  <2>1. CASE rep[p] \in flags
    BY <1>1, <1>2, <1>3, <1>5, <2>1
  <2>2. CASE rep[p] \notin flags
    BY <1>1, <1>2, <1>5, <2>2 DEF KeptInv
  <2> QED BY <2>1, <2>2
<1> QED BY <1>4, <1>5

(* job_continue counts no process as running that has ended.               *)
LEMMA KeptContinued ==
    ASSUME KeptInv, NEW j \in Pid, Continued(j), UNCHANGED <<job, table, wait_status, code>>
    PROVE  KeptInv'
<1>1. \A p \in Pid : /\ kst'[p] = "none" => kst[p] = "none"
                     /\ cached[p] = "done" => cached'[p] = "done"
  BY DEF Continued, ContinueGroup
<1> QED BY <1>1 DEF KeptInv

(* Every step keeps what has been reported.                                *)
LEMMA KeptKept == ASSUME IInv, [Next]_vars PROVE KeptInv'
<1> USE DEF shellVars, tableVars, kernelVars, ttyVars, boundVars
<1>i. TypeOK /\ DataInv /\ RepInv /\ BornInv /\ PlaceInv /\ KeptInv
  BY DEF IInv, DataInv
<1>1. CASE ForegroundStep
  <2>1. CASE FgSetsModes \/ WaitEnds \/ Finish
    BY <1>i, <2>1, KeptSame DEF FgSetsModes, WaitEnds, Finish
  <2>2. CASE FgContinue
    <3>1. CASE Continued(cur)
      <4>1. cur \in Pid
        BY <1>i, <2>2 DEF FgContinue, PlaceInv, Foreground, TypeOK
      <4> QED BY <1>i, <2>2, <3>1, <4>1, KeptContinued DEF FgContinue
    <3>2. CASE UNCHANGED <<cached, status, kst, rep, chld>>
      BY <1>i, <2>2, <3>2, KeptSame DEF FgContinue
    <3> QED BY <2>2, <3>1, <3>2 DEF FgContinue
  <2>3. ASSUME NEW p \in Pid, WaitReport(p) PROVE KeptInv'
    <3>1. WaitFlags \in SUBSET Reports
      BY DEF WaitFlags, Reports
    <3> QED BY <1>i, <2>3, <3>1, KeptObserved DEF WaitReport
  <2>4. CASE WaitFails
    <3>1. CASE via = "launch"
      <4>1. /\ \A p \in Pid : job[p] # cur => kst'[p] = kst[p] /\ cached'[p] = cached[p]
            /\ table' = table \ {cur} /\ UNCHANGED <<job, wait_status, code>>
        BY <2>4, <3>1 DEF WaitFails
      <4> QED BY <1>i, <4>1 DEF KeptInv
    <3>2. CASE via # "launch"
      BY <1>i, <2>4, <3>2, KeptSame DEF WaitFails
    <3> QED BY <3>1, <3>2
  <2> QED BY <1>1, <2>1, <2>2, <2>3, <2>4 DEF ForegroundStep
<1>2. CASE ReapStep
  <2>1. CASE StartReap \/ CleanupDone
    BY <1>i, <2>1, KeptSame DEF StartReap, CleanupDone
  <2>2. ASSUME NEW p \in Pid, Poll(p) PROVE KeptInv'
    <3>1. ReapFlags \in SUBSET Reports
      BY DEF ReapFlags, Reports
    <3> QED BY <1>i, <2>2, <3>1, KeptObserved DEF Poll
  <2> QED BY <1>2, <2>1, <2>2 DEF ReapStep
<1>3. CASE ShutdownStep
  <2>1. CASE ShutStart \/ ShutTerminate \/ EndRound \/ ShutKilled \/ Destroy
    BY <1>i, <2>1, KeptSame DEF ShutStart, ShutTerminate, EndRound, ShutKilled, Destroy
  <2>2. ASSUME NEW j \in Pid, ShutContinue(j) PROVE KeptInv'
    BY <1>i, <2>2, KeptContinued DEF ShutContinue
  <2>3. ASSUME NEW j \in Pid, ShutKill(j) PROVE KeptInv'
    <3>1. \A p \in Pid : kst'[p] = "none" => kst[p] = "none"
      BY <2>3 DEF ShutKill, KillGroup
    <3>2. UNCHANGED <<job, table, cached, wait_status, code>>
      BY <2>3 DEF ShutKill
    <3> QED BY <1>i, <3>1, <3>2 DEF KeptInv
  <2>4. ASSUME NEW p \in Pid, TryReap(p) \/ ForceReap(p) PROVE KeptInv'
    <3>1. ShutFlags \in SUBSET Reports
      BY DEF ShutFlags, Reports
    <3> QED BY <1>i, <2>4, <3>1, KeptObserved DEF TryReap, ForceReap
  <2> QED BY <1>3, <2>1, <2>2, <2>3, <2>4 DEF ShutdownStep
<1>4. CASE UserStep
  <2>1. CASE CommandFails \/ FgHandsOver \/ Reload \/ Quit
    BY <1>i, <2>1, KeptSame DEF CommandFails, FgHandsOver, Reload, Quit
  <2>2. ASSUME NEW n \in 1..MaxPipe, NEW background \in BOOLEAN, Launch(n, background)
        PROVE  KeptInv'
    <3>1. /\ \A p \in Pid : p \in next..(next + n - 1) => kst'[p] = "run"
          /\ \A p \in Pid : p \notin next..(next + n - 1) =>
                 /\ job'[p] = job[p] /\ kst'[p] = kst[p] /\ cached'[p] = cached[p]
                 /\ wait_status'[p] = wait_status[p]
          /\ table' = table \cup {next} /\ UNCHANGED code
      BY <2>2 DEF Launch
    <3>2. \A p \in Pid : job[p] # next
      BY <1>i, OldJobs
    <3> QED BY <1>i, <3>1, <3>2 DEF KeptInv
  <2>3. CASE Bg
    <3>1. PICK j \in Pid : Continued(j)
      BY <2>3 DEF Bg
    <3> QED BY <1>i, <2>3, <3>1, KeptContinued DEF Bg
  <2> QED BY <1>4, <2>1, <2>2, <2>3 DEF UserStep
<1>5. CASE KernelStep
  <2> SUFFICES ASSUME NEW p \in Pid, \/ Exits(p) \/ Switches(p) \/ Leaves(p) \/ Spawns(p)
                                     \/ SetsModes(p) \/ DescendantEnds(p)
               PROVE  KeptInv'
    BY <1>5 DEF KernelStep
  <2>1. CASE Exits(p) \/ Switches(p)
    <3>1. /\ \A q \in Pid : q # p => kst'[q] = kst[q] /\ code'[q] = code[q]
          /\ kst'[p] # "none"
          /\ UNCHANGED <<job, table, cached, wait_status>>
      BY <1>i, <2>1 DEF Exits, Switches, Alive, TypeOK
    <3> QED BY <1>i, <3>1 DEF KeptInv
  <2>2. CASE Leaves(p) \/ Spawns(p) \/ SetsModes(p) \/ DescendantEnds(p)
    BY <1>i, <2>2, KeptSame DEF Leaves, Spawns, SetsModes, DescendantEnds
  <2> QED BY <2>1, <2>2
<1>6. CASE UNCHANGED vars
  BY <1>i, <1>6, KeptSame DEF vars
<1> QED BY <1>1, <1>2, <1>3, <1>4, <1>5, <1>6 DEF Next, ShellStep, Stopping

-----------------------------------------------------------------------------
(* The theorems *)

(* The shell starts with an empty table and without a child.               *)
LEMMA Initially == Init => IInv
<1> SUFFICES ASSUME Init PROVE IInv
  OBVIOUS
<1>1. TypeOK
  <2>1. /\ 1 \in 1..(NPid + 1) /\ 0 \in 0..(Retries + 1) /\ 0 \in 0..MaxSwitches
        /\ 0 \in 0..MaxFaults /\ Success \in Codes
    BY JobAssumption
  <2>2. /\ job \in [Pid -> Pid \cup {Shell}] /\ grp \in [Pid -> Pid \cup {Shell}]
        /\ status \in [Pid -> {"RUNNING", "STOPPED", "DONE"}]
        /\ cached \in [Pid -> {"running", "stopped", "done"}]
        /\ saved \in [Pid -> {"none", "shell", "job"}]
        /\ kst \in [Pid -> {"none", "run", "stop", "zombie"}]
        /\ rep \in [Pid -> {"none", "stopped", "continued", "exited"}]
        /\ code \in [Pid -> Codes \cup {Failure}]
        /\ wait_status \in [Pid -> WaitStatuses]
    BY DEF Init, NotValid, WaitStatuses
  <2> QED BY <2>1, <2>2 DEF Init, TypeOK, Sources
<1>2. DataInv
  BY <1>1 DEF Init, DataInv, BornInv, JobsInv, RepInv, CachedInv, Pid, TypeOK
<1>3. StatusInv /\ PlaceInv /\ FinishedInv /\ ShutInv /\ KeptInv
  BY DEF Init, StatusInv, PlaceInv, FinishedInv, ShutInv, KeptInv, Foreground
<1> QED BY <1>1, <1>2, <1>3 DEF IInv

(* The invariant of every behaviour.                                       *)
LEMMA AlwaysInv == Spec => []IInv
<1>1. IInv /\ [Next]_vars => IInv'
  BY Types, DataKept, StatusKept, PlaceKept, FinishedKept, ShutKept, KeptKept DEF IInv
<1> QED BY <1>1, Initially, PTL DEF Spec

(* Every variable keeps its type, whatever the programs, the user and the  *)
(* terminal do.                                                            *)
THEOREM TypeCorrect == Spec => []TypeOK
<1>1. IInv => TypeOK
  BY DEF IInv
<1> QED BY <1>1, AlwaysInv, PTL

(* No child is lost: what has not been reaped is in the table and not      *)
(* counted as done (job_reap, job_cleanup_done, job_remove, job_shutdown). *)
THEOREM ChildrenKept == Spec => []NoChildLost
<1>1. IInv => NoChildLost
  BY DEF IInv, TypeOK, DataInv, CachedInv, NoChildLost, Tracked
<1> QED BY <1>1, AlwaysInv, PTL

(* After job_shutdown every child has been reaped, and no descendant lives *)
(* in the group of a job, even if programs ignore SIGTERM or leave groups. *)
THEOREM ShutdownClean == Spec => []NothingLeft
<1>1. IInv => NothingLeft
  BY DEF IInv, ShutInv, Dead, NothingLeft
<1> QED BY <1>1, AlwaysInv, PTL

(* fg, bg and check_job_limit never meet a job that has ended as far as    *)
(* the shell can know.                                                     *)
THEOREM JobsAreActive == Spec => []NoFinishedJob
<1>1. ASSUME IInv, pc = "prompt", running, NEW j \in table
      PROVE  Active(j) /\ \E p \in Members(j) : cached[p] # "done"
  <2>1. /\ status[j] # "DONE" /\ status[j] \in {"RUNNING", "STOPPED", "DONE"}
        /\ cached \in [Pid -> {"running", "stopped", "done"}]
    BY <1>1 DEF IInv, FinishedInv, TypeOK
  <2>2. status[j] = Derived(cached, j)
    BY <1>1 DEF IInv, StatusInv, Walks
  <2>3. PICK p \in Pid : job[p] = j /\ (cached[p] = "running" \/ cached[p] = "stopped")
    BY <2>1, <2>2, DerivedIs
  <2> QED BY <2>1, <2>3 DEF Active, Members
<1>2. IInv => NoFinishedJob
  BY <1>1 DEF NoFinishedJob
<1> QED BY <1>2, AlwaysInv, PTL

(* A launch finds fewer jobs with living processes than max_job            *)
(* (check_job_limit), although the limit may have been lowered meanwhile.  *)
THEOREM LimitKept == Spec => LimitHolds
<1>1. ASSUME IInv, [Next]_vars, ~ (table' \subseteq table) PROVE Cardinality(LivingJobs) < maxJob
  <2>1. AtPrompt /\ BelowLimit
    BY <1>1 DEF Next, ShellStep, ForegroundStep, FgSetsModes, FgContinue, WaitReport, WaitEnds,
          WaitFails, Finish, ReapStep, StartReap, Poll, CleanupDone, ShutdownStep, ShutStart,
          ShutContinue, ShutTerminate, TryReap, EndRound, ShutKill, ShutKilled, ForceReap,
          Destroy, UserStep, CommandFails, Launch, FgHandsOver, Bg, Reload, Quit, KernelStep,
          Exits, Switches, Leaves, Spawns, SetsModes, DescendantEnds, Stopping,
          vars, shellVars, tableVars, kernelVars, ttyVars, boundVars
  <2>2. LivingJobs \subseteq ActiveJobs
    <3> SUFFICES ASSUME NEW j \in table, NEW p \in Pid, job[p] = j, Alive(p)
                 PROVE  Active(j)
      BY DEF LivingJobs, ActiveJobs, Members
    <3>1. status[j] # "DONE" /\ status[j] \in {"RUNNING", "STOPPED", "DONE"}
      BY <1>1, <2>1 DEF IInv, FinishedInv, TypeOK, AtPrompt
    <3> QED BY <3>1 DEF Active
  <2>3. IsFiniteSet(ActiveJobs)
    <3>1. IsFiniteSet(Pid)
      BY FS_Interval, JobAssumption DEF Pid
    <3>2. ActiveJobs \subseteq Pid
      BY <1>1 DEF ActiveJobs, IInv, TypeOK
    <3> QED BY <3>1, <3>2, FS_Subset
  <2>4. Cardinality(LivingJobs) <= Cardinality(ActiveJobs)
    BY <2>2, <2>3, FS_Subset
  <2>5. /\ IsFiniteSet(LivingJobs) /\ Cardinality(LivingJobs) \in Nat
        /\ Cardinality(ActiveJobs) \in Nat
    BY <2>2, <2>3, FS_Subset, FS_CardinalityType
  <2>6. maxJob \in Nat
    BY <1>1, JobAssumption DEF IInv, TypeOK
  <2> QED BY <2>1, <2>4, <2>5, <2>6 DEF BelowLimit
<1>2. IInv /\ [Next]_vars => [~ (table' \subseteq table) => Cardinality(LivingJobs) < maxJob]_vars
  BY <1>1
<1> QED BY <1>2, AlwaysInv, PTL DEF Spec, LimitHolds

(* A foreground job that is removed leaves what the last program of its    *)
(* pipeline ended with, whichever wait was told of it and whatever it was  *)
(* told before (job_exit_status, finish_foreground_job, builtin_fg).       *)
THEOREM LastStatusLeft == Spec => StatusOfLast
<1>1. ASSUME IInv, [Next]_vars, pc = "finish", table' # table
      PROVE  \E p \in Members(cur) : last' = code[p] /\ \A q \in Members(cur) : q <= p
  <2>1. Finish
    BY <1>1 DEF Next, ShellStep, ForegroundStep, FgSetsModes, FgContinue, WaitReport, WaitEnds,
          WaitFails, ReapStep, StartReap, Poll, CleanupDone, ShutdownStep, ShutStart,
          ShutContinue, ShutTerminate, TryReap, EndRound, ShutKill, ShutKilled, ForceReap,
          Destroy, UserStep, CommandFails, Launch, FgHandsOver, Bg, Reload, Quit, KernelStep,
          Exits, Switches, Leaves, Spawns, SetsModes, DescendantEnds, Stopping, AtPrompt,
          vars, shellVars, tableVars, kernelVars, ttyVars, boundVars
  <2>2. last' = ExitStatus(cur) /\ status[cur] = "DONE"
    BY <1>1, <2>1 DEF Finish
  <2>3. cur \in table /\ JobsInv /\ TypeOK /\ CachedInv /\ KeptInv
    BY <1>1 DEF IInv, DataInv, PlaceInv, Foreground
  <2>4. LastOf(cur) \in Members(cur) /\ \A q \in Members(cur) : q <= LastOf(cur)
    BY <2>3, LastIs
  <2>5. status[cur] = Derived(cached, cur)
    BY <1>1, <2>3 DEF IInv, StatusInv, Walks
  <2>6. kst[LastOf(cur)] = "none"
    BY <2>2, <2>3, <2>4, <2>5, DoneReaped DEF Members
  <2>7. wait_status[LastOf(cur)] = [what |-> "exited", code |-> code[LastOf(cur)]]
    BY <2>3, <2>4, <2>6 DEF KeptInv, Members
  <2> QED BY <2>2, <2>4, <2>7 DEF ExitStatus
<1>2. IInv /\ [Next]_vars =>
          [pc = "finish" /\ table' # table
               => \E p \in Members(cur) : /\ last' = code[p]
                                          /\ \A q \in Members(cur) : q <= p]_vars
  BY <1>1
<1> QED BY <1>2, AlwaysInv, PTL DEF Spec, StatusOfLast

-----------------------------------------------------------------------------
(* The rest needs the processes to stay in the groups of their jobs: with  *)
(* CanLeave it is false (the run job_control_leaver).                      *)

(* What the table says of a process is what the kernel says, but for a     *)
(* change that has not been reported, through every wait, job_continue and *)
(* rollback (job_reap, job_wait_foreground, job_continue).                 *)
THEOREM StatusRight == ASSUME CanLeave = FALSE PROVE Spec => []StatusAgrees
<1>1. IInv => StatusAgrees
  BY DEF IInv, TypeOK, DataInv, CachedInv, StatusAgrees, Tracked
<1> QED BY <1>1, AlwaysInv, PTL

(* A job that counts as RUNNING has a process in its group that runs or    *)
(* has something to report.                                                *)
LEMMA SomebodyRuns ==
    ASSUME CanLeave = FALSE, IInv, pc \notin Walks, NEW j \in table, status[j] = "RUNNING"
    PROVE  \E p \in InGroup(j) : kst[p] = "run" \/ rep[p] \in WaitFlags
<1>1. status[j] = Derived(cached, j) /\ cached \in [Pid -> {"running", "stopped", "done"}]
  BY DEF IInv, StatusInv, TypeOK
<1>2. PICK p \in Pid : job[p] = j /\ cached[p] = "running"
  BY <1>1, DerivedIs
<1>3. /\ kst[p] \in {"none", "run", "stop", "zombie"}
      /\ rep[p] \in {"none", "stopped", "continued", "exited"}
      /\ p \in Nat /\ next \in Nat /\ job[p] # Shell
  BY <1>2 DEF IInv, TypeOK, Pid, Shell
<1>4. grp[p] = j
  <2>1. p < next \/ p >= next
    BY <1>3
  <2> QED BY <1>2, <1>3, <2>1 DEF IInv, DataInv, BornInv
<1>5. kst[p] # "none" /\ (kst[p] = "run" \/ rep[p] \in {"exited", "stopped"})
  <2>1. rep[p] = "none" => kst[p] = "run"
    BY <1>2 DEF IInv, DataInv, CachedInv
  <2> QED BY <1>3, <2>1 DEF IInv, DataInv, RepInv
<1> QED BY <1>4, <1>5 DEF InGroup, WaitFlags

(* A shell that sleeps in job_wait_foreground can be woken.                *)
THEOREM WaitsWithReason == ASSUME CanLeave = FALSE PROVE Spec => []NeverWaitsInVain
<1>1. ASSUME IInv, pc = "wait", status[cur] = "RUNNING"
      PROVE  \E p \in InGroup(cur) : kst[p] = "run" \/ rep[p] \in WaitFlags
  <2>1. cur \in table /\ pc \notin Walks
    BY <1>1 DEF IInv, PlaceInv, Foreground, Walks
  <2> QED BY <1>1, <2>1, SomebodyRuns
<1>2. IInv => NeverWaitsInVain
  BY <1>1 DEF NeverWaitsInVain
<1> QED BY <1>2, AlwaysInv, PTL

(* The terminal is where it belongs, if no more than one terminal call     *)
(* fails: to two in a row the code has no answer.                          *)
LEMMA TerminalStep ==
    ASSUME CanLeave = FALSE, MaxFaults <= 1, IInv, TerminalPlaced, [Next]_vars
    PROVE  TerminalPlaced'
<1> USE DEF shellVars, tableVars, kernelVars, ttyVars, boundVars
<1>i. TypeOK /\ PlaceInv /\ DataInv
  BY DEF IInv
<1>1. CASE FgSetsModes
  <2>1. \/ pc' = "fg_continue" /\ UNCHANGED <<cur, tty>>
        \/ pc' = "prompt" /\ Restored(faults + 1)
    <3>1. faults \in Nat /\ ~ faults + 1 < MaxFaults
      BY <1>i, JobAssumption DEF TypeOK
    <3> QED BY <1>1, <3>1 DEF FgSetsModes, NotRestored, ToPrompt
  <2>2. pc = "fg_modes"
    BY <1>1 DEF FgSetsModes
  <2> QED BY <2>1, <2>2 DEF TerminalPlaced, Restored
<1>2. CASE FgContinue
  <2>1. cur \in table
    BY <1>i, <1>2 DEF FgContinue, PlaceInv, Foreground
  <2>2. status[cur] = "STOPPED" => GroupExists(cur)
    <3> SUFFICES ASSUME status[cur] = "STOPPED" PROVE GroupExists(cur)
      OBVIOUS
    <3>1. /\ status[cur] = Derived(cached, cur)
          /\ cached \in [Pid -> {"running", "stopped", "done"}]
      BY <1>2, <2>1 DEF IInv, StatusInv, TypeOK, FgContinue, Walks
    <3>2. PICK p \in Pid : job[p] = cur /\ cached[p] = "stopped"
      BY <3>1, DerivedIs
    <3>3. kst[p] # "none"
      BY <1>i, <2>1, <3>2 DEF DataInv, RepInv, CachedInv
    <3>4. grp[p] = cur
      <4>1. p < next
        BY <1>i, <3>3 DEF DataInv, BornInv, TypeOK, Pid
      <4> QED BY <1>i, <3>2, <4>1 DEF DataInv, BornInv
    <3> QED BY <3>3, <3>4 DEF GroupExists
  <2>3. pc' = "wait" /\ UNCHANGED <<cur, tty>>
    BY <1>2, <2>2 DEF FgContinue
  <2> QED BY <1>2, <2>3 DEF TerminalPlaced, FgContinue
<1>3. ASSUME NEW p \in Pid, WaitReport(p) PROVE TerminalPlaced'
  BY <1>3 DEF WaitReport, TerminalPlaced
<1>4. CASE WaitEnds
  BY <1>4 DEF WaitEnds, TerminalPlaced
<1>5. CASE WaitFails
  <2>1. cur \in table /\ pc \notin Walks /\ status[cur] = "RUNNING" /\ InGroup(cur) = {}
    BY <1>i, <1>5 DEF WaitFails, PlaceInv, Foreground, Walks
  <2> QED BY <2>1, SomebodyRuns
<1>6. CASE Finish
  BY <1>6 DEF Finish, ToPrompt, Restored, TerminalPlaced
<1>7. CASE ReapStep
  BY <1>7 DEF ReapStep, StartReap, Poll, CleanupDone, AtPrompt, TerminalPlaced
<1>8. CASE ShutdownStep
  BY <1>8 DEF ShutdownStep, ShutStart, ShutContinue, ShutTerminate, TryReap, EndRound,
              ShutKill, ShutKilled, ForceReap, Destroy, TerminalPlaced
<1>9. CASE UserStep
  <2>1. CASE CommandFails \/ Bg \/ Reload \/ Quit
    BY <2>1 DEF CommandFails, Bg, Reload, Quit, AtPrompt, TerminalPlaced
  <2>2. ASSUME NEW n \in 1..MaxPipe, NEW background \in BOOLEAN, Launch(n, background)
        PROVE  TerminalPlaced'
    BY <2>2 DEF Launch, AtPrompt, TerminalPlaced
  <2>3. CASE FgHandsOver
    BY <2>3 DEF FgHandsOver, AtPrompt, TerminalPlaced
  <2> QED BY <1>9, <2>1, <2>2, <2>3 DEF UserStep
<1>10. CASE KernelStep
  <2>1. UNCHANGED <<pc, running, cur, tty>>
    BY <1>10 DEF KernelStep, Exits, Switches, Leaves, Spawns, SetsModes, DescendantEnds
  <2>2. tty = Shell => modes' = modes
    <3>1. ASSUME NEW p \in Pid, SetsModes(p) PROVE tty # Shell
      <4>1. kst[p] = "run" /\ tty = grp[p]
        BY <3>1 DEF SetsModes
      <4>2. p < next
        BY <1>i, <4>1 DEF DataInv, BornInv, TypeOK, Pid
      <4>3. grp[p] = job[p] /\ job[p] \in Pid
        BY <1>i, <4>2 DEF DataInv, BornInv
      <4> QED BY <4>1, <4>3 DEF Pid, Shell
    <3> QED BY <1>10, <3>1 DEF KernelStep, Exits, Switches, Leaves, Spawns, DescendantEnds
  <2> QED BY <2>1, <2>2 DEF TerminalPlaced
<1>11. CASE UNCHANGED vars
  BY <1>11 DEF vars, TerminalPlaced
<1> QED BY <1>1, <1>2, <1>3, <1>4, <1>5, <1>6, <1>7, <1>8, <1>9, <1>10, <1>11
        DEF Next, ShellStep, ForegroundStep, Stopping

(* At the prompt the terminal belongs to the shell, with its modes; while  *)
(* the shell waits, it belongs to the job in front (terminal_give,         *)
(* terminal_restore, job_wait_foreground).                                 *)
THEOREM TerminalHome ==
    ASSUME CanLeave = FALSE, MaxFaults <= 1 PROVE Spec => []TerminalPlaced
<1>1. Init => TerminalPlaced
  BY DEF Init, TerminalPlaced
<1>2. IInv /\ TerminalPlaced /\ [Next]_vars => TerminalPlaced'
  BY TerminalStep
<1> QED BY <1>1, <1>2, AlwaysInv, PTL DEF Spec

-----------------------------------------------------------------------------
(* The safety part of the refinement: each step is one of JobLedger, or    *)
(* leaves the ledger as it is.                                             *)
LedgerStep == Ledger!Next \/ UNCHANGED Ledger!lvars

(* Steps that neither start a job, nor reap, nor change the table.         *)
LEMMA LedgerIdle ==
    ASSUME UNCHANGED <<table, job>>,
           \A p \in Pid : kst'[p] = "none" <=> kst[p] = "none"
    PROVE  LedgerStep
BY DEF LedgerStep, Ledger!lvars

(* A waitpid reaps a process or does not.                                  *)
LEMMA LedgerObserved ==
    ASSUME TypeOK, RepInv, NEW p \in Pid, NEW flags \in SUBSET Reports, Observe(p, flags),
           UNCHANGED <<table, job>>
    PROVE  LedgerStep
<1> DEFINE unreaped == {q \in Pid : kst[q] # "none"}
<1>1. /\ \A q \in Pid : q # p => kst'[q] = kst[q]
      /\ kst'[p] = kst[p] \/ kst'[p] = "none"
  BY Observed
<1>2. CASE kst'[p] = kst[p]
  BY <1>1, <1>2, LedgerIdle
<1>3. CASE kst[p] # "none" /\ kst'[p] = "none"
  <2>1. p \in unreaped /\ unreaped' = unreaped \ {p}
    BY <1>1, <1>3
  <2>2. Ledger!Reap(p)
    BY <2>1 DEF Ledger!Reap
  <2> QED BY <2>2 DEF LedgerStep, Ledger!Next
<1> QED BY <1>1, <1>2, <1>3

(* Jobs whose processes have been reaped leave the table.                  *)
LEMMA LedgerShrinks ==
    ASSUME TypeOK, table' \subseteq table,
           \A p \in Pid : kst[p] # "none" => job[p] \in table',
           UNCHANGED <<kst, job>>
    PROVE  LedgerStep
<1> DEFINE js == table \ table'
<1>1. CASE js = {}
  BY <1>1, LedgerIdle
<1>2. CASE js # {}
  <2>1. js \in SUBSET Pid /\ table' = table \ js
    BY DEF TypeOK
  <2>2. \A j \in js : Ledger!Of(j) \cap {p \in Pid : kst[p] # "none"} = {}
    BY DEF Ledger!Of
  <2>3. Ledger!Remove(js)
    BY <1>2, <2>1, <2>2 DEF Ledger!Remove
  <2> QED BY <2>1, <2>3 DEF LedgerStep, Ledger!Next
<1> QED BY <1>1, <1>2

(* A launch starts a job that has the new processes.                       *)
LEMMA LedgerLaunched ==
    ASSUME TypeOK, DataInv, NEW n \in 1..MaxPipe, NEW background \in BOOLEAN,
           Launch(n, background)
    PROVE  LedgerStep
<1> DEFINE new == next..(next + n - 1)
<1>1. /\ next \in Pid /\ next + n - 1 \in Pid /\ next <= next + n - 1
      /\ \A p \in Pid :
             \/ p \in new /\ job'[p] = next /\ kst'[p] = "run"
             \/ p \notin new /\ job'[p] = job[p] /\ kst'[p] = kst[p]
      /\ table' = table \cup {next}
  BY Launched
<1>2. next \in new /\ new \in SUBSET Pid
  BY <1>1, JobAssumption DEF TypeOK, Pid
<1>n. next \notin table
  BY <1>1 DEF TypeOK, DataInv, JobsInv, Pid
<1>3. \A p \in Pid : job[p] # next
  BY OldJobs DEF DataInv
<1>4. job' = [p \in Pid |-> IF p \in new THEN next ELSE job[p]]
  BY DEF Launch
<1>5. {p \in Pid : kst'[p] # "none"} = {p \in Pid : kst[p] # "none"} \cup new
  BY <1>1, <1>2
<1>6. ASSUME NEW j \in Pid, NEW ps \in SUBSET Pid, j = next, ps = new
      PROVE  Ledger!Start(j, ps)
  BY <1>1, <1>2, <1>n, <1>3, <1>4, <1>5, <1>6 DEF Ledger!Start, Ledger!Of
<1>7. \E j \in Pid, ps \in SUBSET Pid : Ledger!Start(j, ps)
  BY <1>1, <1>2, <1>6
<1> QED BY <1>7 DEF LedgerStep, Ledger!Next

(* Every step is a step of the ledger or none of its business.             *)
LEMMA LedgerKept == ASSUME IInv, [Next]_vars PROVE LedgerStep
<1> USE DEF shellVars, tableVars, kernelVars, ttyVars, boundVars
<1>i. TypeOK /\ DataInv /\ RepInv /\ StatusInv /\ PlaceInv /\ ShutInv
  BY DEF IInv, DataInv
<1>c. ASSUME NEW j \in Pid, ContinueGroup(j)
      PROVE  \A p \in Pid : kst'[p] = "none" <=> kst[p] = "none"
  BY <1>c DEF ContinueGroup, Stopped
<1>1. CASE ForegroundStep
  <2>1. CASE FgSetsModes \/ WaitEnds
    BY <2>1, LedgerIdle DEF FgSetsModes, WaitEnds
  <2>2. CASE FgContinue
    <3>1. cur \in Pid /\ UNCHANGED <<table, job>>
      BY <1>i, <2>2 DEF FgContinue, PlaceInv, Foreground, TypeOK
    <3>2. CASE Continued(cur)
      BY <1>c, <3>1, <3>2, LedgerIdle DEF Continued
    <3>3. CASE UNCHANGED <<cached, status, kst, rep, chld>>
      BY <3>1, <3>3, LedgerIdle
    <3> QED BY <2>2, <3>2, <3>3 DEF FgContinue
  <2>3. ASSUME NEW p \in Pid, WaitReport(p) PROVE LedgerStep
    <3>1. WaitFlags \in SUBSET Reports
      BY DEF WaitFlags, Reports
    <3> QED BY <1>i, <2>3, <3>1, LedgerObserved DEF WaitReport
  <2>4. CASE WaitFails
    <3>1. CASE via = "launch"
      <4>1. cur \in table /\ cur \in Pid /\ table' = table \ {cur} /\ job' = job
        BY <1>i, <2>4, <3>1 DEF WaitFails, PlaceInv, Foreground, TypeOK
      <4>2. \A p \in Pid : kst'[p] # "none" <=> kst[p] # "none" /\ job[p] # cur
        BY <2>4, <3>1 DEF WaitFails
      <4>3. {p \in Pid : kst'[p] # "none"} = {p \in Pid : kst[p] # "none"} \ Ledger!Of(cur)
        BY <4>2 DEF Ledger!Of
      <4>4. \E j \in Pid : Ledger!Discard(j)
        BY <4>1, <4>3 DEF Ledger!Discard
      <4> QED BY <4>4 DEF LedgerStep, Ledger!Next
    <3>2. CASE via # "launch"
      BY <2>4, <3>2, LedgerIdle DEF WaitFails
    <3> QED BY <3>1, <3>2
  <2>5. CASE Finish
    <3>1. UNCHANGED <<job, kst>>
      BY <2>5 DEF Finish
    <3>2. CASE table' = table
      BY <3>1, <3>2, LedgerIdle
    <3>3. CASE table' = table \ {cur} /\ status[cur] = "DONE"
      <4>1. cur \in table /\ pc = "finish"
        BY <1>i, <2>5 DEF Finish, PlaceInv, Foreground
      <4>2. status[cur] = Derived(cached, cur)
        BY <1>i, <4>1 DEF StatusInv, Walks
      <4>3. \A p \in Pid : job[p] = cur => kst[p] = "none"
        BY <1>i, <3>3, <4>2, DoneReaped DEF DataInv
      <4>4. \A p \in Pid : kst[p] # "none" => job[p] \in table'
        BY <1>i, <3>3, <4>3 DEF DataInv, CachedInv
      <4> QED BY <1>i, <3>1, <3>3, <4>4, LedgerShrinks
    <3> QED BY <2>5, <3>2, <3>3 DEF Finish
  <2> QED BY <1>1, <2>1, <2>2, <2>3, <2>4, <2>5 DEF ForegroundStep
<1>2. CASE ReapStep
  <2>1. CASE StartReap
    BY <2>1, LedgerIdle DEF StartReap
  <2>2. ASSUME NEW p \in Pid, Poll(p) PROVE LedgerStep
    <3>1. ReapFlags \in SUBSET Reports
      BY DEF ReapFlags, Reports
    <3> QED BY <1>i, <2>2, <3>1, LedgerObserved DEF Poll
  <2>3. CASE CleanupDone
    <3>1. \A j \in table : status[j] = Derived(cached, j)
      BY <1>i, <2>3 DEF CleanupDone, StatusInv
    <3>2. \A p \in Pid : kst[p] # "none" => job[p] \in table'
      BY <1>i, <2>3, <3>1, DoneReaped DEF CleanupDone, DataInv, CachedInv
    <3> QED BY <1>i, <2>3, <3>2, LedgerShrinks DEF CleanupDone
  <2> QED BY <1>2, <2>1, <2>2, <2>3 DEF ReapStep
<1>3. CASE ShutdownStep
  <2>1. CASE ShutStart \/ ShutTerminate \/ EndRound \/ ShutKilled
    BY <2>1, LedgerIdle DEF ShutStart, ShutTerminate, EndRound, ShutKilled
  <2>2. ASSUME NEW j \in Pid, ShutContinue(j) PROVE LedgerStep
    BY <1>c, <2>2, LedgerIdle DEF ShutContinue, Continued
  <2>3. ASSUME NEW j \in Pid, ShutKill(j) PROVE LedgerStep
    <3>1. UNCHANGED <<table, job>>
      BY <2>3 DEF ShutKill
    <3>2. \A p \in Pid : kst'[p] = "none" <=> kst[p] = "none"
      BY <2>3 DEF ShutKill, KillTargets, KillGroup, Alive
    <3> QED BY <3>1, <3>2, LedgerIdle
  <2>4. CASE Destroy
    <3>1. \A p \in Pid : kst[p] = "none"
      BY <1>i, <2>4 DEF Destroy, ShutInv
    <3> QED BY <1>i, <2>4, <3>1, LedgerShrinks DEF Destroy
  <2>5. ASSUME NEW p \in Pid, TryReap(p) \/ ForceReap(p) PROVE LedgerStep
    <3>1. ShutFlags \in SUBSET Reports
      BY DEF ShutFlags, Reports
    <3> QED BY <1>i, <2>5, <3>1, LedgerObserved DEF TryReap, ForceReap
  <2> QED BY <1>3, <2>1, <2>2, <2>3, <2>4, <2>5 DEF ShutdownStep
<1>4. CASE UserStep
  <2>1. CASE CommandFails \/ FgHandsOver \/ Reload \/ Quit
    BY <2>1, LedgerIdle DEF CommandFails, FgHandsOver, Reload, Quit
  <2>2. CASE \E n \in 1..MaxPipe, background \in BOOLEAN : Launch(n, background)
    BY <1>i, <2>2, LedgerLaunched
  <2>3. CASE Bg
    <3>1. PICK j \in Pid : Continued(j)
      BY <2>3 DEF Bg
    <3> QED BY <1>c, <2>3, <3>1, LedgerIdle DEF Bg, Continued
  <2> QED BY <1>4, <2>1, <2>2, <2>3 DEF UserStep
<1>5. CASE KernelStep
  <2>1. UNCHANGED <<table, job>> /\ \A p \in Pid : kst'[p] = "none" <=> kst[p] = "none"
    BY <1>i, <1>5 DEF KernelStep, Exits, Switches, Leaves, Spawns, SetsModes, DescendantEnds,
                      Alive, TypeOK
  <2> QED BY <2>1, LedgerIdle
<1>6. CASE UNCHANGED vars
  BY <1>6, LedgerIdle DEF vars
<1> QED BY <1>1, <1>2, <1>3, <1>4, <1>5, <1>6 DEF Next, ShellStep, Stopping

(* The job table keeps the ledger: a job is listed from its start until    *)
(* every process of it has been reaped (job_add to job_remove).            *)
THEOREM LedgerRespected == Spec => Ledger!Init /\ [][Ledger!Next]_(Ledger!lvars)
<1>1. Init => Ledger!Init
  BY DEF Init, Ledger!Init
<1>2. IInv /\ [Next]_vars => [Ledger!Next]_(Ledger!lvars)
  BY LedgerKept DEF LedgerStep
<1> QED BY <1>1, <1>2, AlwaysInv, PTL DEF Spec

=============================================================================
