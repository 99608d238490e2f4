----------------------------- MODULE EventLoop -----------------------------
(***************************************************************************)
(* The main loop of the shell and the self-pipe that wakes it:             *)
(*   sig.c    the handler, its flag pending_events, signal_take_events,    *)
(*            signal_init and signal_shutdown;                             *)
(*   event.c  the non-blocking pipe: event_notify, event_drain, event_shut;*)
(*   shell.c  shell_init, shell_run and shell_cleanup.                     *)
(*                                                                         *)
(* The shell has one thread.  A handler runs to its end before the thread  *)
(* resumes, but it can run between any two steps of the thread, so every   *)
(* system call and every access to the flag is a step of its own.  The     *)
(* kernel's side is what makes a wakeup easy to lose: pending signals are  *)
(* not queued, and the pipe is full at some point.                         *)
(*                                                                         *)
(* A command is abstracted to the child it starts and, for a foreground    *)
(* command, to the wait for that child.  JobControl models both in detail. *)
(***************************************************************************)
EXTENDS Naturals, FiniteSets

CONSTANTS Children,    (* the processes the shell may start                *)
          NoChild,     (* no foreground child                              *)
          Capacity,    (* bytes the pipe holds                             *)
          Chunk,       (* bytes one read of event_drain takes              *)
          MaxSignals,  (* bound: signals and changes not forced by the fg  *)
          MaxInput     (* bound: bytes on the standard input               *)

ASSUME LoopAssumption ==
    /\ Capacity \in Nat \ {0}
    /\ Chunk \in Nat \ {0}
    /\ NoChild \notin Children
    /\ MaxSignals \in Nat
    /\ MaxInput \in Nat

Signals == {"CHLD", "INT"}

VARIABLES
    pc,          (* where the thread is in shell_init, shell_run, shell_cleanup *)
    prompt,      (* the local variable prompt of shell_run                 *)
    ready,       (* the descriptors select reported readable               *)
    events,      (* the local variable events of shell_run                 *)
    toPoll,      (* the processes job_reap has not polled yet              *)
    fg,          (* the child the shell waits for, or NoChild              *)
    atEof,       (* the local variable eof of shell_run                    *)
    running,     (* ctx->running                                           *)
    pending,     (* pending_events, the flag the handler sets              *)
    blocked,     (* the signal mask of the thread                          *)
    disp,        (* what each signal does: default, handler or ignore      *)
    kernel,      (* signals generated and not delivered                    *)
    ends,        (* the ends of event_pipe that are open                   *)
    bytes,       (* bytes in the pipe                                      *)
    booting,     (* children that still hold the pipe and the handler      *)
    jobs,        (* children in the job table                              *)
    changed,     (* children whose last change waitpid has not reported    *)
    exited,      (* children that have exited and are not reaped           *)
    interrupted, (* a ^C has not led to shell_reset_input yet              *)
    stdin,       (* bytes that can be read from the standard input         *)
    eof,         (* the standard input has been closed                     *)
    signals,     (* signals and changes generated so far, for MaxSignals   *)
    typed        (* bytes typed so far, for MaxInput                       *)

threadVars == <<pc, prompt, ready, events, toPoll, fg, atEof, running>>
signalVars == <<pending, blocked, disp, kernel>>
pipeVars   == <<ends, bytes>>
childVars  == <<booting, jobs, changed, exited>>
inputVars  == <<stdin, eof, typed>>
vars == <<threadVars, signalVars, pipeVars, childVars, inputVars,
          interrupted, signals>>

BootSteps == {"event_init", "terminal_init", "clear_flag", "handle_int", "handle_chld"}
LoopSteps == {"top", "select", "drain", "block", "take", "clear", "unblock",
              "child", "reap", "interrupt", "stdin", "dispatch", "wait"}
ExitSteps == {"destroy", "mask", "ignore_int", "ignore_chld", "forget",
              "unmask", "shut_write", "shut_read", "end", "killed"}

Init ==
    /\ pc = "event_init"
    /\ prompt = TRUE
    /\ ready = {}
    /\ events = {}
    /\ toPoll = {}
    /\ fg = NoChild
    /\ atEof = FALSE
    /\ running = TRUE
    /\ pending = {}
    /\ blocked = {}
    /\ disp = [s \in Signals |-> "default"]
    /\ kernel = {}
    /\ ends = {}
    /\ bytes = 0
    /\ booting = {}
    /\ jobs = {}
    /\ changed = {}
    /\ exited = {}
    /\ interrupted = FALSE
    /\ stdin = 0
    /\ eof = FALSE
    /\ signals = 0
    /\ typed = 0

-----------------------------------------------------------------------------
(* The kernel and the outside world. *)

(* A signal is generated.  One that is ignored is discarded, one that is   *)
(* pending already is merged with it.                                      *)
Generate(s) == kernel' = IF disp[s] = "ignore" THEN kernel ELSE kernel \cup {s}

(* ^C at the terminal, or kill -INT from anywhere.                         *)
Interrupt ==
    /\ pc \notin {"end", "killed"}
    /\ signals < MaxSignals
    /\ signals' = signals + 1
    /\ Generate("INT")
    /\ interrupted' = (interrupted \/ pc \in LoopSteps)
    /\ UNCHANGED <<threadVars, pending, blocked, disp, pipeVars, childVars, inputVars>>

(* A child stops, continues or exits.  A foreground child is sure to do so *)
(* (see Fairness), so its last change does not count against the bound.    *)
ChangeOf(c, final) ==
    /\ c \in jobs \ exited
    /\ changed' = changed \cup {c}
    /\ exited' = IF final THEN exited \cup {c} ELSE exited
    /\ booting' = IF final THEN booting \ {c} ELSE booting
    /\ Generate("CHLD")
    /\ UNCHANGED <<threadVars, pending, blocked, disp, pipeVars, jobs, inputVars,
                   interrupted>>

ChildChanges(c) ==
    /\ signals < MaxSignals
    /\ signals' = signals + 1
    /\ \E final \in BOOLEAN : ChangeOf(c, final)

ForegroundExits ==
    /\ fg # NoChild
    /\ ChangeOf(fg, TRUE)
    /\ UNCHANGED signals

(* The user types a byte, or closes the standard input.                    *)
Type ==
    /\ typed < MaxInput
    /\ ~ eof
    /\ typed' = typed + 1
    /\ stdin' = stdin + 1
    /\ UNCHANGED <<threadVars, signalVars, pipeVars, childVars, eof, interrupted, signals>>

CloseInput ==
    /\ ~ eof
    /\ eof' = TRUE
    /\ UNCHANGED <<threadVars, signalVars, pipeVars, childVars, stdin, typed,
                   interrupted, signals>>

-----------------------------------------------------------------------------
(* event.c: the pipe is non-blocking, and a byte that does not fit is      *)
(* dropped (EAGAIN).                                                       *)

Notified_Unbounded(n) == n + 1   \* mutant: a full pipe takes one more
Notified(n) == IF n < Capacity THEN n + 1 ELSE n

(* event_notify: nothing is written once event_pipe[1] is negative.        *)
Notify(n) == IF "w" \in ends THEN Notified(n) ELSE n

(* The kernel delivers a signal the thread does not block.  signal_handler *)
(* masks both signals, so one run of it is one step.                       *)
Deliver(s) ==
    /\ s \in kernel \ blocked
    /\ pc \notin {"end", "killed"}
    /\ kernel' = kernel \ {s}
    /\ IF disp[s] = "handler"
       THEN /\ pending' = pending \cup {s}
            /\ bytes' = Notify(bytes)
            /\ UNCHANGED pc
       ELSE /\ pc' = IF disp[s] = "default" /\ s = "INT" THEN "killed" ELSE pc
            /\ UNCHANGED <<pending, bytes>>
    /\ UNCHANGED <<prompt, ready, events, toPoll, fg, atEof, running, blocked, disp, ends,
                   childVars, inputVars, interrupted, signals>>

(* A forked child has the handler and the pipe of its parent until         *)
(* child_prepare_before_gate blocks the signals and closes the pipe: a     *)
(* signal it gets sets its own flag, but writes to the common pipe.        *)
StrayByte(c) ==
    /\ c \in booting
    /\ signals < MaxSignals
    /\ signals' = signals + 1
    /\ bytes' = Notified(bytes)
    /\ UNCHANGED <<threadVars, signalVars, ends, childVars, inputVars, interrupted>>

ChildClosesPipe(c) ==
    /\ c \in booting
    /\ booting' = booting \ {c}
    /\ UNCHANGED <<threadVars, signalVars, pipeVars, jobs, changed, exited,
                   inputVars, interrupted, signals>>

-----------------------------------------------------------------------------
(* shell_init: the pipe first, the handlers last. *)

Goto(here, there) == pc = here /\ pc' = there

EventInit ==
    /\ \/ Goto("event_init", "terminal_init") /\ ends' = {"r", "w"}
       \/ Goto("event_init", "end") /\ UNCHANGED ends        \* pipe() fails
    /\ UNCHANGED <<prompt, ready, events, toPoll, fg, atEof, running, signalVars,
                   bytes, childVars, inputVars, interrupted, signals>>

TerminalInit ==
    /\ \/ Goto("terminal_init", "clear_flag") /\ UNCHANGED ends
       \/ Goto("terminal_init", "end") /\ ends' = {}         \* event_shut
    /\ UNCHANGED <<prompt, ready, events, toPoll, fg, atEof, running, signalVars,
                   bytes, childVars, inputVars, interrupted, signals>>

ClearFlag ==
    /\ Goto("clear_flag", "handle_int")
    /\ pending' = {}
    /\ UNCHANGED <<prompt, ready, events, toPoll, fg, atEof, running, blocked,
                   disp, kernel, pipeVars, childVars, inputVars, interrupted, signals>>

InstallHandler ==
    /\ \/ Goto("handle_int", "handle_chld") /\ disp' = [disp EXCEPT !["INT"] = "handler"]
       \/ Goto("handle_chld", "top") /\ disp' = [disp EXCEPT !["CHLD"] = "handler"]
    /\ UNCHANGED <<prompt, ready, events, toPoll, fg, atEof, running, pending,
                   blocked, kernel, pipeVars, childVars, inputVars, interrupted,
                   signals>>

Boot == EventInit \/ TerminalInit \/ ClearFlag \/ InstallHandler

-----------------------------------------------------------------------------
(* shell_run *)

(* The top of the loop.  A prompt that cannot be written ends the loop.    *)
Top ==
    /\ \/ running /\ ~ prompt /\ Goto("top", "select")
       \/ running /\ prompt /\ Goto("top", "select")
       \/ running /\ prompt /\ Goto("top", "destroy")
       \/ ~ running /\ Goto("top", "destroy")
    /\ prompt' = FALSE
    /\ UNCHANGED <<ready, events, toPoll, fg, atEof, running, signalVars, pipeVars,
                   childVars, inputVars, interrupted, signals>>

(* select sleeps until a descriptor is readable.  A signal that wakes it   *)
(* (EINTR) leads back to select: a Deliver step with pc unchanged.         *)
Readable_NoEof ==                  \* mutant: the end of the input wakes nobody
    {d \in {"event", "stdin"} : IF d = "event" THEN bytes > 0 ELSE stdin > 0}
Readable == {d \in {"event", "stdin"} : \/ d = "event" /\ bytes > 0
                                        \/ d = "stdin" /\ (stdin > 0 \/ eof)}

(* The order of the branch of a readable event pipe: the pipe is drained   *)
(* first, and the flag is taken when the pipe is empty.                    *)
EventOrder_TakeFirst ==            \* mutant: signal_take_events, event_drain
    [select |-> "block", unblock |-> "drain", drain |-> "child"]
EventOrder == [select |-> "drain", drain |-> "block", unblock |-> "child"]

Select ==
    /\ pc = "select"
    /\ Readable # {}
    /\ ready' = Readable
    /\ pc' = IF "event" \in Readable THEN EventOrder.select ELSE "stdin"
    /\ UNCHANGED <<prompt, events, toPoll, fg, atEof, running, signalVars,
                   pipeVars, childVars, inputVars, interrupted, signals>>

(* event_drain reads until the pipe is empty (EAGAIN).                     *)
Drain ==
    /\ \/ /\ pc = "drain" /\ bytes > 0
          /\ bytes' = IF bytes > Chunk THEN bytes - Chunk ELSE 0
          /\ UNCHANGED pc
       \/ /\ bytes = 0
          /\ Goto("drain", EventOrder.drain)
          /\ UNCHANGED bytes
    /\ UNCHANGED <<prompt, ready, events, toPoll, fg, atEof, running, signalVars,
                   ends, childVars, inputVars, interrupted, signals>>

(* signal_take_events: block, read, clear, restore the mask.               *)
TakeMask_Empty == {}              \* mutant: nothing is blocked
TakeMask == Signals

BlockSignals ==
    /\ Goto("block", "take")
    /\ blocked' = TakeMask
    /\ UNCHANGED <<prompt, ready, events, toPoll, fg, atEof, running, pending, disp,
                   kernel, pipeVars, childVars, inputVars, interrupted, signals>>

TakeEvents ==
    /\ Goto("take", "clear")
    /\ events' = pending
    /\ UNCHANGED <<prompt, ready, toPoll, fg, atEof, running, signalVars, pipeVars,
                   childVars, inputVars, interrupted, signals>>

ClearEvents ==
    /\ Goto("clear", "unblock")
    /\ pending' = {}
    /\ UNCHANGED <<prompt, ready, events, toPoll, fg, atEof, running, blocked, disp,
                   kernel, pipeVars, childVars, inputVars, interrupted, signals>>

UnblockSignals ==
    /\ Goto("unblock", EventOrder.unblock)
    /\ blocked' = {}
    /\ UNCHANGED <<prompt, ready, events, toPoll, fg, atEof, running, pending, disp,
                   kernel, pipeVars, childVars, inputVars, interrupted, signals>>

(* job_reap polls every process of the table, one waitpid at a time.       *)
StartReap_Started == jobs \ booting   \* mutant: a starting child is left out
StartReap == jobs

ServeChild ==
    /\ pc = "child"
    /\ IF "CHLD" \in events
       THEN pc' = "reap" /\ toPoll' = StartReap
       ELSE pc' = "interrupt" /\ UNCHANGED toPoll
    /\ UNCHANGED <<prompt, ready, events, fg, atEof, running, signalVars, pipeVars,
                   childVars, inputVars, interrupted, signals>>

(* waitpid reports the last change of c; an exit also removes c.           *)
Reported(c) ==
    /\ changed' = changed \ {c}
    /\ exited' = exited \ {c}
    /\ jobs' = jobs \ (exited \cap {c})

PollChild(c) ==
    /\ pc = "reap"
    /\ c \in toPoll
    /\ toPoll' = toPoll \ {c}
    /\ Reported(c)
    /\ UNCHANGED <<pc, prompt, ready, events, fg, atEof, running, signalVars,
                   pipeVars, booting, inputVars, interrupted, signals>>

EndReap ==
    /\ toPoll = {}
    /\ Goto("reap", "interrupt")
    /\ UNCHANGED <<prompt, ready, events, toPoll, fg, atEof, running, signalVars,
                   pipeVars, childVars, inputVars, interrupted, signals>>

(* The input line is reset, a newline is written and a prompt is due; a    *)
(* newline that cannot be written ends the loop.                           *)
ServeInterrupt ==
    /\ \/ Goto("interrupt", "stdin")
       \/ "INT" \in events /\ Goto("interrupt", "destroy")
    /\ prompt' = (prompt \/ "INT" \in events)
    /\ interrupted' = (interrupted /\ "INT" \notin events)
    /\ events' = {}
    /\ UNCHANGED <<ready, toPoll, fg, atEof, running, signalVars, pipeVars,
                   childVars, inputVars, signals>>

(* shell_read_input reads one byte, if select saw one: a newline completes *)
(* a line, and so does the end of the input if the line is not empty.      *)
ReadInput ==
    /\ pc = "stdin"
    /\ IF "stdin" \in ready
       THEN /\ stdin' = IF stdin > 0 THEN stdin - 1 ELSE 0
            /\ atEof' = (stdin = 0)
            /\ \/ pc' = "dispatch"
               \/ pc' = IF stdin = 0 THEN "destroy" ELSE "top"
            /\ prompt' = (prompt \/ pc' # "top")
       ELSE /\ pc' = "top"
            /\ UNCHANGED <<stdin, atEof, prompt>>
    /\ UNCHANGED <<ready, events, toPoll, fg, running, signalVars, pipeVars,
                   childVars, eof, typed, interrupted, signals>>

(* Where the loop goes when a line has been executed.                      *)
AfterLine == IF atEof THEN "destroy" ELSE "top"

(* dispatcher_command: a command starts a child, in the foreground or not, *)
(* or is the builtin fg, the builtin exit, or any other builtin.           *)
Launch(c) ==
    /\ pc = "dispatch"
    /\ c \notin jobs
    /\ jobs' = jobs \cup {c}
    /\ booting' = booting \cup {c}
    /\ \/ pc' = "wait" /\ fg' = c
       \/ pc' = AfterLine /\ UNCHANGED fg
    /\ UNCHANGED <<prompt, ready, events, toPoll, atEof, running, signalVars,
                   pipeVars, changed, exited, inputVars, interrupted, signals>>

Foreground(c) ==
    /\ c \in jobs
    /\ Goto("dispatch", "wait")
    /\ fg' = c
    /\ UNCHANGED <<prompt, ready, events, toPoll, atEof, running, signalVars,
                   pipeVars, childVars, inputVars, interrupted, signals>>

Builtin ==
    /\ Goto("dispatch", AfterLine)
    /\ running' \in {TRUE, FALSE}
    /\ UNCHANGED <<prompt, ready, events, toPoll, fg, atEof, signalVars, pipeVars,
                   childVars, inputVars, interrupted, signals>>

(* job_wait_foreground sleeps in waitpid until its child has changed.      *)
WaitForeground ==
    /\ Goto("wait", AfterLine)
    /\ fg \in changed
    /\ Reported(fg)
    /\ fg' = NoChild
    /\ UNCHANGED <<prompt, ready, events, toPoll, atEof, running, signalVars,
                   pipeVars, booting, inputVars, interrupted, signals>>

Loop == \/ Top \/ Select \/ Drain
        \/ BlockSignals \/ TakeEvents \/ ClearEvents \/ UnblockSignals
        \/ ServeChild \/ (\E c \in Children : PollChild(c)) \/ EndReap
        \/ ServeInterrupt \/ ReadInput
        \/ (\E c \in Children : Launch(c) \/ Foreground(c))
        \/ Builtin \/ WaitForeground

-----------------------------------------------------------------------------
(* shell_cleanup: the job table, then the handlers, then the pipe. *)

(* shell_context_destroy ends and reaps every child (JobControl).          *)
AfterDestroy_ShutFirst == "shut_write"  \* mutant: the pipe is closed first
AfterDestroy == "mask"

Destroy ==
    /\ Goto("destroy", AfterDestroy)
    /\ running' = FALSE
    /\ jobs' = {} /\ changed' = {} /\ exited' = {} /\ booting' = {}
    /\ interrupted' = FALSE
    /\ UNCHANGED <<prompt, ready, events, toPoll, fg, atEof, signalVars, pipeVars,
                   inputVars, signals>>

Ignore(s) == /\ disp' = [disp EXCEPT ![s] = "ignore"]
             /\ kernel' = kernel \ {s}

SignalShutdown ==
    /\ \/ Goto("mask", "ignore_int") /\ blocked' = Signals
          /\ UNCHANGED <<disp, kernel, pending>>
       \/ Goto("ignore_int", "ignore_chld") /\ Ignore("INT")
          /\ UNCHANGED <<blocked, pending>>
       \/ Goto("ignore_chld", "forget") /\ Ignore("CHLD")
          /\ UNCHANGED <<blocked, pending>>
       \/ Goto("forget", "unmask") /\ pending' = {}
          /\ UNCHANGED <<blocked, disp, kernel>>
       \/ Goto("unmask", "shut_write") /\ blocked' = {}
          /\ UNCHANGED <<disp, kernel, pending>>
    /\ UNCHANGED <<prompt, ready, events, toPoll, fg, atEof, running, pipeVars,
                   childVars, inputVars, interrupted, signals>>

EventShut ==
    /\ \/ Goto("shut_write", "shut_read") /\ ends' = ends \ {"w"} /\ UNCHANGED bytes
       \/ Goto("shut_read", "end") /\ ends' = {} /\ bytes' = 0
    /\ UNCHANGED <<prompt, ready, events, toPoll, fg, atEof, running, signalVars,
                   childVars, inputVars, interrupted, signals>>

Cleanup == Destroy \/ SignalShutdown \/ EventShut

-----------------------------------------------------------------------------
Thread == Boot \/ Loop \/ Cleanup

Kernel == \E s \in Signals : Deliver(s)

Environment == \/ Interrupt
               \/ \E c \in Children : ChildChanges(c) \/ StrayByte(c)
               \/ \E c \in Children : ChildClosesPipe(c)
               \/ ForegroundExits
               \/ Type \/ CloseInput

(* The shell has left.  Anything else that stops the system is a deadlock. *)
Stopped == pc \in {"end", "killed"} /\ UNCHANGED vars

Next == Thread \/ Kernel \/ Environment \/ Stopped

(* The thread is scheduled, the kernel delivers what is not blocked, and a *)
(* program in the foreground ends at some time.  Nothing is assumed about  *)
(* background programs or about the user.                                  *)
Fairness == /\ WF_vars(Thread)
            /\ \A s \in Signals : WF_vars(Deliver(s))
            /\ WF_vars(ForegroundExits)

Spec == Init /\ [][Next]_vars
FairSpec == Spec /\ Fairness

-----------------------------------------------------------------------------
(* Properties *)

(* The values the variables of the loop, sig.c and event.c can take.       *)
DataOK ==
    /\ pc \in BootSteps \cup LoopSteps \cup ExitSteps
    /\ ready \subseteq {"event", "stdin"}
    /\ events \subseteq Signals
    /\ toPoll \subseteq Children
    /\ fg \in Children \cup {NoChild}
    /\ pending \subseteq Signals
    /\ blocked \subseteq Signals
    /\ disp \in [Signals -> {"default", "handler", "ignore"}]
    /\ kernel \subseteq Signals
    /\ ends \subseteq {"r", "w"}
    /\ bytes \in 0..Capacity
    /\ booting \subseteq jobs
    /\ jobs \subseteq Children
    /\ changed \subseteq jobs
    /\ exited \subseteq changed \ booting
    /\ stdin \in Nat
    /\ signals \in Nat
    /\ typed \in Nat

FlagsOK ==
    /\ prompt \in BOOLEAN
    /\ atEof \in BOOLEAN
    /\ running \in BOOLEAN
    /\ interrupted \in BOOLEAN
    /\ eof \in BOOLEAN

TypeOK == DataOK /\ FlagsOK

(* The thread is between the start of the drain and the end of the taking  *)
(* of the flag: it looks at the flag without being woken again.            *)
AboutToTake == pc \in {"drain", "block", "take", "clear"}

(* No lost wakeup: a set flag always has a byte in the pipe behind it, or  *)
(* the thread is about to take the flag.  Holds only because shell_run     *)
(* drains the pipe before signal_take_events reads the flag, and although  *)
(* event_notify drops its byte when the pipe is full.                      *)
NoLostWakeup == pending # {} => bytes > 0 \/ AboutToTake \/ pc \in ExitSteps

(* A child whose change waitpid has not reported is never forgotten: its   *)
(* SIGCHLD is with the kernel, in the flag or taken, or job_reap has not   *)
(* polled the child yet.  Signals are merged, so this rests on job_reap    *)
(* polling every process after the flag was cleared.                       *)
NoForgottenChild ==
    \A c \in changed : \/ "CHLD" \in kernel \cup pending
                       \/ "CHLD" \in events /\ pc \in {"clear", "unblock", "child"}
                       \/ pc = "reap" /\ c \in toPoll

(* The same for a ^C: until shell_reset_input is called it is with the     *)
(* kernel, in the flag, or taken.                                          *)
NoForgottenInterrupt == interrupted => "INT" \in kernel \cup pending \cup events

(* What a signal was raised for is kept until the shell has served it.     *)
NothingForgotten == NoForgottenChild /\ NoForgottenInterrupt

(* A handler is installed only while both ends of its pipe are open: the   *)
(* order of signal_shutdown and event_shut in shell_cleanup, and that of   *)
(* event_init and signal_init in shell_init.                               *)
HandlerHasPipe == "handler" \in {disp[s] : s \in Signals} => ends = {"r", "w"}

(* A shell whose standard input is closed leaves its loop: the bytes typed *)
(* before are read, their commands end, and signals do not starve it.      *)
EofEndsShell == eof ~> pc \in ExitSteps

(* Refinement: the loop implements the service without pipe and flag.      *)
(* Unless the shell leaves its loop first, every change of a child is      *)
(* reported by waitpid, and every ^C resets the input line.                *)
Up == pc \notin ExitSteps
Service == INSTANCE SignalService
               WITH changed <- IF Up THEN changed ELSE {},
                    interrupted <- Up /\ interrupted,
                    up <- Up
ImplementsService == Service!Spec
=============================================================================
