---------------------------- MODULE StartupGate ----------------------------
(***************************************************************************)
(* The launch of one job (executor.c): execute_single, execute_pipeline,   *)
(* child_prepare_before_gate, the startup gate and the rollback.           *)
(*                                                                         *)
(* The shell forks the processes of the job one by one; each prepares      *)
(* itself and sleeps at the gate, a pipe, until the shell has put all of   *)
(* them into the job table and has handed the terminal over.  Then the     *)
(* shell writes one byte for each.  A launch that fails on the way closes  *)
(* the gate, kills and reaps what was forked.                              *)
(*                                                                         *)
(* The shell and its children run concurrently; every system call is a     *)
(* step.  JobControl takes the whole launch for one step.                  *)
(***************************************************************************)
EXTENDS Naturals

CONSTANTS MaxPipe,      (* commands in a pipeline                          *)
          MaxSignals,   (* bound: ^C at the terminal, and kills from outside *)
          MaxFaults     (* bound: system calls of the shell that fail      *)

ASSUME GateAssumption ==
    /\ MaxPipe \in Nat \ {0}
    /\ MaxSignals \in Nat
    /\ MaxFaults \in Nat

Child == 1..MaxPipe

(* The pipe between two commands has the number of the first.              *)
End == Child \X {"read", "write"}

VARIABLES
    count,      (* commands of the job                                     *)
    foreground, (* not com->background, and the terminal is initialized    *)
    ppc,        (* what the shell is doing                                 *)
    forked,     (* children forked so far                                  *)
    listed,     (* the job is in the table                                 *)
    registered, (* processes added to it so far                            *)
    sent,       (* bytes written to the gate so far                        *)
    at,         (* the child the loop of the rollback has come to          *)
    writer,     (* the shell holds the write end of the gate               *)
    tokens,     (* bytes in the gate                                       *)
    tty,        (* the foreground group: "shell" or "job"                  *)
    wires,      (* the ends of pipes between commands that it has open     *)
    cpc,        (* what each child is doing                                *)
    group,      (* its process group: "shell" or "job"                     *)
    handler,    (* its SIGINT: "shell" (inherited handler) or "default"    *)
    blocked,    (* it blocks SIGINT                                        *)
    pending,    (* a SIGINT has not been delivered to it                   *)
    hit,        (* history: a ^C meant for the job came "early", before it *)
                (* blocked SIGINT, or after that ("held"), or "none"       *)
    ends,       (* the ends of pipes between commands that each child has  *)
                (* open, from fork on                                      *)
    signals,    (* for MaxSignals                                          *)
    faults      (* for MaxFaults                                           *)

shellVars == <<ppc, forked, listed, registered, sent, at, writer, tty,
              wires>>
childVars == <<cpc, group, handler, blocked, pending, hit, ends>>
fixed     == <<count, foreground>>
vars == <<fixed, shellVars, childVars, tokens, signals, faults>>

Init ==
    /\ count \in 1..MaxPipe
    /\ foreground \in BOOLEAN
    /\ ppc = "gate"
    /\ forked = 0
    /\ listed = FALSE
    /\ registered = 0
    /\ sent = 0
    /\ at = 1
    /\ writer = FALSE
    /\ tokens = 0
    /\ tty = "shell"
    /\ wires = {}
    /\ ends = [c \in Child |-> {}]
    /\ cpc = [c \in Child |-> "none"]
    /\ group = [c \in Child |-> "shell"]
    /\ handler = [c \in Child |-> "shell"]
    /\ blocked = [c \in Child |-> FALSE]
    /\ pending = [c \in Child |-> FALSE]
    /\ hit = [c \in Child |-> "none"]
    /\ signals = 0
    /\ faults = 0

-----------------------------------------------------------------------------
Ended(c) == cpc[c] \in {"refused", "dead", "reaped"}
Alive(c) == cpc[c] # "none" /\ ~ Ended(c)

(* The gate: who can still write to it, and who can still read from it.    *)
Writers == writer \/ \E c \in Child : cpc[c] = "born"
Readers == \E c \in Child : cpc[c] \in {"born", "mask", "join", "event", "gate", "close"}

Fault == faults < MaxFaults /\ faults' = faults + 1

-----------------------------------------------------------------------------
(* The shell *)

Goto(here, there) == ppc = here /\ ppc' = there
RollBack(here) == Goto(here, "close_gate")

CreateGate ==
    /\ \/ Goto("gate", "fork") /\ writer' = TRUE /\ UNCHANGED faults
       \/ Goto("gate", "failed") /\ Fault /\ UNCHANGED writer
    /\ UNCHANGED <<fixed, wires, forked, listed, registered, sent, at, tty, childVars,
                   tokens, signals>>

(* The pipe to the next command, and fork.  The child has the handlers,    *)
(* the signal mask and the open pipes of the shell.                        *)
NewPipe == IF forked + 1 < count THEN {forked + 1} \X {"read", "write"} ELSE {}

Fork ==
    /\ \/ /\ Goto("fork", "join")
          /\ forked' = forked + 1
          /\ wires' = wires \cup NewPipe
          /\ cpc' = [cpc EXCEPT ![forked + 1] = "born"]
          /\ ends' = [ends EXCEPT ![forked + 1] = wires']
          /\ UNCHANGED faults
       \/ RollBack("fork") /\ Fault /\ UNCHANGED <<forked, wires, cpc, ends>>
    /\ UNCHANGED <<fixed, listed, registered, sent, at, writer, tty, group, handler,
                   blocked, pending, hit, tokens, signals>>

(* setpgid_parent: the child may have joined the group itself, or have     *)
(* ended; neither is an error.  Of the pipes the shell keeps the read end  *)
(* for the next command.                                                   *)
HandedOn_OnlyRead == {<<forked - 1, "read">>}   \* mutant: the write end is kept
HandedOn == {<<forked - 1, "read">>, <<forked, "write">>}

JoinByShell ==
    /\ \/ /\ Goto("join", IF forked < count THEN "fork" ELSE "add")
          /\ group' = [group EXCEPT ![forked] = "job"]
          /\ wires' = wires \ HandedOn
          /\ UNCHANGED faults
       \/ RollBack("join") /\ Fault /\ UNCHANGED <<group, wires>>
    /\ UNCHANGED <<fixed, forked, listed, registered, sent, at, writer, tty, cpc,
                   handler, blocked, pending, hit, ends, tokens, signals>>

AddJob ==
    /\ \/ Goto("add", "register") /\ listed' = TRUE /\ UNCHANGED faults
       \/ RollBack("add") /\ Fault /\ UNCHANGED listed
    /\ UNCHANGED <<fixed, wires, forked, registered, sent, at, writer, tty, childVars,
                   tokens, signals>>

AllAdded_First == registered >= 1        \* mutant: only the leader is added
AllAdded == registered = count

AddProcess ==
    /\ \/ /\ ppc = "register" /\ ~ AllAdded
          /\ registered' = registered + 1
          /\ UNCHANGED <<ppc, faults>>
       \/ /\ AllAdded /\ Goto("register", "handover")
          /\ UNCHANGED <<registered, faults>>
       \/ /\ ~ AllAdded /\ RollBack("register") /\ Fault
          /\ UNCHANGED registered
    /\ UNCHANGED <<fixed, wires, forked, listed, sent, at, writer, tty, childVars,
                   tokens, signals>>

HandOver ==
    /\ \/ /\ Goto("handover", "release")
          /\ tty' = IF foreground THEN "job" ELSE tty
          /\ UNCHANGED faults
       \/ foreground /\ RollBack("handover") /\ Fault /\ UNCHANGED tty
    /\ UNCHANGED <<fixed, wires, forked, listed, registered, sent, at, writer,
                   childVars, tokens, signals>>

(* One byte for each child.  A gate nobody can read from (SIGPIPE is       *)
(* ignored, so EPIPE) fails the launch, though some may have passed it.    *)
BytesDue_One == 1                        \* mutant: one byte for the pipeline
BytesDue_OneMore == count + 1            \* mutant: off by one
BytesDue == count

Release ==
    /\ \/ /\ ppc = "release" /\ sent < BytesDue
          /\ Readers
          /\ tokens' = tokens + 1
          /\ sent' = sent + 1
          /\ UNCHANGED <<ppc, writer>>
       \/ /\ sent < BytesDue /\ ~ Readers
          /\ RollBack("release")
          /\ UNCHANGED <<tokens, sent, writer>>
       \/ /\ sent = BytesDue
          /\ Goto("release", "launched")
          /\ writer' = FALSE
          /\ UNCHANGED <<tokens, sent>>
    /\ UNCHANGED <<fixed, wires, forked, listed, registered, at, tty, childVars,
                   signals, faults>>

(* The rollback: the gate is closed, the group and then each process is    *)
(* killed, each is waited for, the job leaves the table and the terminal   *)
(* comes back.  (JobControl has the terminal_restore that fails.)          *)
Kill_Nobody(S) == UNCHANGED cpc          \* mutant: the closed gate has to do
Kill(S) == cpc' = [c \in Child |-> IF c \in S /\ Alive(c) THEN "dead" ELSE cpc[c]]

CloseGate ==
    /\ Goto("close_gate", "kill_group")
    /\ writer' = FALSE /\ wires' = {}
    /\ UNCHANGED <<fixed, forked, listed, registered, sent, at, tty, childVars, tokens,
                   signals, faults>>

InJobGroup == {c \in Child : group[c] = "job"}

RollbackGroup ==
    /\ Goto("kill_group", "kill_each")
    /\ Kill(InJobGroup)
    /\ at' = 1
    /\ UNCHANGED <<fixed, wires, forked, listed, registered, sent, writer, tty, group,
                   handler, blocked, pending, hit, ends, tokens, signals, faults>>

RollbackEach ==
    /\ \/ /\ ppc = "kill_each" /\ at <= forked
          /\ Kill({at})
          /\ at' = at + 1
          /\ UNCHANGED ppc
       \/ /\ at > forked /\ Goto("kill_each", "reap")
          /\ at' = 1
          /\ UNCHANGED cpc
    /\ UNCHANGED <<fixed, wires, forked, listed, registered, sent, writer, tty, group,
                   handler, blocked, pending, hit, ends, tokens, signals, faults>>

(* reap_pid sleeps until the child has ended.                              *)
ReapsTo_AllButLast == forked - 1         \* mutant: off by one
ReapsTo == forked

ReapChild ==
    /\ \/ /\ ppc = "reap" /\ at <= ReapsTo
          /\ Ended(at)
          /\ cpc' = [cpc EXCEPT ![at] = "reaped"]
          /\ at' = at + 1
          /\ UNCHANGED <<ppc, listed, tty>>
       \/ /\ at > ReapsTo
          /\ Goto("reap", "failed")
          /\ listed' = FALSE
          /\ tty' = "shell"
          /\ UNCHANGED <<cpc, at>>
    /\ UNCHANGED <<fixed, wires, forked, registered, sent, writer, group, handler,
                   blocked, pending, hit, ends, tokens, signals, faults>>

Shell == \/ CreateGate \/ Fork \/ JoinByShell \/ AddJob \/ AddProcess \/ HandOver \/ Release
         \/ CloseGate \/ RollbackGroup \/ RollbackEach \/ ReapChild

-----------------------------------------------------------------------------
(* The children *)

(* A signal that is not blocked is delivered before the child goes on.     *)
Due(c) == pending[c] /\ ~ blocked[c]

Step(c, here, there) ==
    /\ cpc[c] = here
    /\ ~ Due(c)
    /\ cpc' = [cpc EXCEPT ![c] = there]

(* What child_prepare_before_gate does after the gate: the read end is     *)
(* closed, then signal_reset_child resets the handlers and at last the mask. *)
AfterGate_UnmaskFirst ==                 \* mutant: the mask is reset first
    [close |-> "unmask", unmask |-> "reset", reset |-> "redirect"]
AfterGate == [close |-> "reset", reset |-> "unmask", unmask |-> "redirect"]

(* The write end of the gate is closed, so that the gate can end; the      *)
(* signals are blocked; setpgid; the event pipe is closed.                 *)
ClosesWriteEnd(c) ==
    /\ Step(c, "born", "mask")
    /\ UNCHANGED <<fixed, shellVars, ends, group, handler, blocked, pending, hit,
                   tokens, signals, faults>>

BlocksSignals(c) ==
    /\ Step(c, "mask", "join")
    /\ blocked' = [blocked EXCEPT ![c] = TRUE]
    /\ UNCHANGED <<fixed, shellVars, ends, group, handler, pending, hit, tokens,
                   signals, faults>>

Joins(c) ==
    /\ \/ /\ Step(c, "join", "event")
          /\ group' = [group EXCEPT ![c] = "job"]
          /\ UNCHANGED faults
       \/ Step(c, "join", "dead") /\ Fault /\ UNCHANGED group
    /\ UNCHANGED <<fixed, shellVars, ends, handler, blocked, pending, hit, tokens,
                   signals>>

ClosesEvent(c) ==
    /\ Step(c, "event", "gate")
    /\ UNCHANGED <<fixed, shellVars, ends, group, handler, blocked, pending, hit,
                   tokens, signals, faults>>

(* startup_gate_wait: a byte lets the child pass; the end of the gate,     *)
(* once it is empty and nobody can write to it, makes the child end.       *)
Passes(c) ==
    /\ Step(c, "gate", "close")
    /\ tokens > 0
    /\ tokens' = tokens - 1
    /\ UNCHANGED <<fixed, shellVars, ends, group, handler, blocked, pending, hit,
                   signals, faults>>

Refused(c) ==
    /\ Step(c, "gate", "refused")
    /\ tokens = 0 /\ ~ Writers
    /\ UNCHANGED <<fixed, shellVars, ends, group, handler, blocked, pending, hit,
                   tokens, signals, faults>>

ClosesGate(c) ==
    /\ Step(c, "close", AfterGate.close)
    /\ UNCHANGED <<fixed, shellVars, ends, group, handler, blocked, pending, hit,
                   tokens, signals, faults>>

ResetsHandlers(c) ==
    /\ Step(c, "reset", AfterGate.reset)
    /\ handler' = [handler EXCEPT ![c] = "default"]
    /\ UNCHANGED <<fixed, shellVars, ends, group, blocked, pending, hit, tokens,
                   signals, faults>>

Unmasks(c) ==
    /\ Step(c, "unmask", AfterGate.unmask)
    /\ blocked' = [blocked EXCEPT ![c] = FALSE]
    /\ UNCHANGED <<fixed, shellVars, ends, group, handler, pending, hit, tokens,
                   signals, faults>>

(* The pipes become standard input and output, the read end of the pipe to *)
(* the next command is closed; then setredirect, which may fail or sleep   *)
(* in open and may put a file in the place of a pipe, and execvp.          *)
Execs(c) ==
    /\ \/ Step(c, "redirect", "program") /\ ends' = [ends EXCEPT ![c] = @ \ {<<c, "read">>}]
       \/ Step(c, "redirect", "dead") /\ UNCHANGED ends
    /\ UNCHANGED <<fixed, shellVars, group, handler, blocked, pending, hit, tokens,
                   signals, faults>>

ProgramEnds(c) ==
    /\ Step(c, "program", "dead")
    /\ UNCHANGED <<fixed, shellVars, ends, group, handler, blocked, pending, hit,
                   tokens, signals, faults>>

Prepares(c) == \/ ClosesWriteEnd(c) \/ BlocksSignals(c) \/ Joins(c) \/ ClosesEvent(c)
               \/ Passes(c) \/ Refused(c) \/ ClosesGate(c) \/ ResetsHandlers(c) \/ Unmasks(c)

-----------------------------------------------------------------------------
(* Signals *)

(* ^C goes to every process of the foreground group.                       *)
Interrupt ==
    /\ signals < MaxSignals
    /\ signals' = signals + 1
    /\ LET targets == {c \in Child : Alive(c) /\ group[c] = tty} IN
       /\ pending' = [c \in Child |-> pending[c] \/ c \in targets]
       /\ hit' = [c \in Child |->
                    IF tty = "job" /\ c \in targets /\ hit[c] = "none"
                    THEN IF cpc[c] \in {"born", "mask"} THEN "early" ELSE "held"
                    ELSE hit[c]]
    /\ UNCHANGED <<fixed, shellVars, ends, cpc, group, handler, blocked, tokens,
                   faults>>

(* The inherited handler of the shell writes a byte to the event pipe (see *)
(* EventLoop) and has no effect on the child.                              *)
Deliver(c) ==
    /\ Alive(c)
    /\ Due(c)
    /\ pending' = [pending EXCEPT ![c] = FALSE]
    /\ cpc' = IF handler[c] = "default" THEN [cpc EXCEPT ![c] = "dead"] ELSE cpc
    /\ UNCHANGED <<fixed, shellVars, ends, group, handler, blocked, hit, tokens,
                   signals, faults>>

(* A SIGKILL from outside.                                                 *)
Killed(c) ==
    /\ Alive(c)
    /\ signals < MaxSignals
    /\ signals' = signals + 1
    /\ cpc' = [cpc EXCEPT ![c] = "dead"]
    /\ UNCHANGED <<fixed, shellVars, ends, group, handler, blocked, pending, hit,
                   tokens, faults>>

(* The launch is over: JobControl goes on from here.                       *)
Over == ppc \in {"launched", "failed"} /\ UNCHANGED vars

Next == \/ Shell
        \/ \E c \in Child : Prepares(c) \/ Execs(c) \/ ProgramEnds(c)
        \/ \E c \in Child : Deliver(c) \/ Killed(c)
        \/ Interrupt
        \/ Over

(* The shell and each child are scheduled until they sleep.  Nothing is    *)
(* assumed of open, of programs and of signals from outside.               *)
Fairness == /\ WF_vars(Shell)
            /\ \A c \in Child : WF_vars(Prepares(c)) /\ WF_vars(Deliver(c))

Spec == Init /\ [][Next]_vars
FairSpec == Spec /\ Fairness

-----------------------------------------------------------------------------
(* Properties *)

RollbackSteps == {"close_gate", "kill_group", "kill_each", "reap"}

(* The gate never holds more bytes than the job has processes, and the     *)
(* other variables have their types.                                       *)
TypeOK ==
    /\ count \in Child
    /\ foreground \in BOOLEAN
    /\ ppc \in {"gate", "fork", "join", "add", "register", "handover", "release",
               "launched", "failed"} \cup RollbackSteps
    /\ forked \in 0..count
    /\ listed \in BOOLEAN
    /\ registered \in 0..count
    /\ sent \in 0..count
    /\ at \in 1..(count + 1)
    /\ writer \in BOOLEAN
    /\ tokens \in 0..sent
    /\ tty \in {"shell", "job"}
    /\ wires \subseteq End /\ ends \in [Child -> SUBSET End]
    /\ cpc \in [Child -> {"none", "born", "mask", "join", "event", "gate", "close", "reset",
                         "unmask", "redirect", "program", "refused", "dead", "reaped"}]
    /\ group \in [Child -> {"shell", "job"}]
    /\ handler \in [Child -> {"shell", "default"}]
    /\ blocked \in [Child -> BOOLEAN]
    /\ pending \in [Child -> BOOLEAN]
    /\ hit \in [Child -> {"none", "early", "held"}]
    /\ signals \in 0..MaxSignals
    /\ faults \in 0..MaxFaults

PastGate(c) == cpc[c] \in {"close", "reset", "unmask", "redirect", "program"}

(* docs/architecture.md, the flow of a launch: no child passes the gate    *)
(* before the shell has finished the group, the entry of the job and of    *)
(* all its processes, and the handover of the terminal.  This holds in a   *)
(* rollback too, as long as the child lives.                               *)
PublishedFirst ==
    \A c \in Child : PastGate(c) =>
        /\ listed /\ registered = count
        /\ foreground => tty = "job"
        /\ \A d \in 1..count : group[d] = "job"

(* A launch that failed leaves no process, no job and no change of the     *)
(* terminal, wherever it failed and whatever its children had done.        *)
RollbackClean ==
    ppc = "failed" => /\ \A c \in Child : cpc[c] \in {"none", "reaped"}
                      /\ ~ listed
                      /\ tty = "shell"

(* A child is turned away at the gate only if the launch is rolled back:   *)
(* the gate has a byte for each child that waits, even when others were    *)
(* killed before they took theirs, and does not end before.                *)
NoFalseRefusal ==
    \A c \in Child : cpc[c] = "refused" => ppc \in RollbackSteps \cup {"failed"}

(* A ^C for the job that comes while a child has its signals blocked ends  *)
(* the child: it is not delivered to the handler of the shell.             *)
HeldInterruptActs ==
    \A c \in Child : hit[c] = "held" /\ cpc[c] \in {"redirect", "program"} => pending[c]

(* docs/test.md: ^C ends the foreground group.  A child that has not come  *)
(* to block its signals when the shell hands the terminal over still has   *)
(* the handler of the shell, and that takes the ^C.                        *)
EveryInterruptActs ==
    \A c \in Child : hit[c] # "none" /\ cpc[c] \in {"redirect", "program"} => pending[c]

(* Pipes connect the commands and nothing else: a program has the read end *)
(* of the pipe before it and the write end of the one behind it (or a file *)
(* of its command in its place) and no other, so that its reader sees the  *)
(* end when it ends, and its writer has no reader then; and the shell      *)
(* keeps no end, however the launch ended.                                 *)
Plugged(c) == (IF c > 1 THEN {<<c - 1, "read">>} ELSE {})
              \cup (IF c < count THEN {<<c, "write">>} ELSE {})
PipesConnect ==
    /\ \A c \in Child : cpc[c] = "program" => ends[c] = Plugged(c)
    /\ ppc \in {"launched", "failed"} => wires = {}

(* A launch ends: reap_pid and the gate keep nobody for ever.              *)
LaunchEnds == <>(ppc \in {"launched", "failed"})
=============================================================================
