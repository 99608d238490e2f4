-------------------------- MODULE BuiltinRedirect --------------------------
(***************************************************************************)
(* The descriptors and the output of the shell process: how main makes     *)
(* sure of descriptors 0 to 2 (main.c), what the start opens, and how      *)
(* dispatcher_command runs a builtin with its streams redirected and puts  *)
(* them back (dispatcher.c).  One step is one system call; any of them may *)
(* fail.                                                                   *)
(*                                                                         *)
(* Text that is printed waits in the buffer of stdout, which belongs to    *)
(* the process and not to the descriptor: it lands wherever descriptor 1   *)
(* leads to when it is flushed.  A flush that fails drops it.              *)
(***************************************************************************)
EXTENDS Naturals, Integers, FiniteSets

CONSTANTS MaxFd,        (* the descriptors are 0..MaxFd (RLIMIT_NOFILE)    *)
          MaxFaults,    (* bound: calls that fail for no reason seen here  *)
          MaxCommands   (* bound: command lines                            *)

ASSUME RedirectAssumption == MaxFd \in Nat /\ MaxFd >= 2
                             /\ MaxFaults \in Nat /\ MaxCommands \in Nat

VARIABLES
    fd,       (* what each descriptor is open on                           *)
    home,     (* fd when the start was over                                *)
    pc,       (* where the process is                                      *)
    side,     (* the standard descriptor at hand: 0, 1 or 2                *)
    saved,    (* saved_in and saved_out                                    *)
    temp,     (* the descriptor of the file just opened, or -1             *)
    cmd,      (* the command line                                          *)
    ret,      (* what dispatcher_command is going to return                *)
    running,  (* ctx->running                                              *)
    text,     (* where the report of a job and the output of the builtin are *)
    ferr,     (* ferror(stdout)                                            *)
    ran,      (* the last command was a builtin and its handler ran        *)
    faults,   (* calls that failed                                         *)
    commands  (* command lines read                                        *)

vars == <<fd, home, pc, side, saved, temp, cmd, ret, running, text, ferr, ran,
          faults, commands>>

Descriptors == 0..MaxFd
Standard == 0..2
Stream == <<"in", "out", "err">>          \* what 0, 1 and 2 are given
Own == {"pipe_read", "pipe_write", "tty"}  \* what the shell opens for itself
File(s) == IF s = 0 THEN "in_file" ELSE "out_file"
Objects == {"closed", "null", "in_file", "out_file", "in", "out", "err"} \cup Own

CommandLine == [chain : BOOLEAN, builtin : BOOLEAN, background : BOOLEAN,
                redirect : SUBSET {0, 1}]
NoCommand == [chain |-> FALSE, builtin |-> FALSE, background |-> FALSE, redirect |-> {}]

Init ==
    /\ \E open \in SUBSET Standard :
          fd = [f \in Descriptors |-> IF f \in open THEN Stream[f + 1] ELSE "closed"]
    /\ home = fd
    /\ pc = "ensure"
    /\ side = 0
    /\ saved = [s \in {0, 1} |-> -1]
    /\ temp = -1
    /\ cmd = NoCommand
    /\ ret = "ok"
    /\ running = TRUE
    /\ text = [report |-> "none", output |-> "none"]
    /\ ferr = FALSE
    /\ ran = FALSE
    /\ faults = 0
    /\ commands = 0

-----------------------------------------------------------------------------
(* The kernel: a new descriptor is the lowest free one.                    *)

FreeFrom(n) == {f \in Descriptors : f >= n /\ fd[f] = "closed"}
Lowest(S) == CHOOSE f \in S : \A g \in S : f <= g
Fault == faults < MaxFaults /\ faults' = faults + 1
FailsFor(S) == IF S = {} THEN UNCHANGED faults ELSE Fault

(* fflush(stdout): what waits in the buffer lands on descriptor 1, or is   *)
(* lost.                                                                   *)
FlushedTo(where) == text' = [t \in DOMAIN text |-> IF text[t] = "buffer" THEN where ELSE text[t]]
Flush == FlushedTo(fd[1]) /\ UNCHANGED faults
FlushFails == (\E t \in DOMAIN text : text[t] = "buffer") /\ Fault /\ FlushedTo("lost")

(* printf: the text stays in the buffer or, if it is long, is written at   *)
(* once, which may fail.                                                   *)
Prints(t) ==
    \/ \E where \in {"buffer", fd[1]} :
          text' = [text EXCEPT ![t] = where] /\ UNCHANGED <<ferr, faults>>
    \/ Fault /\ text' = [text EXCEPT ![t] = "lost"] /\ ferr' = TRUE

-----------------------------------------------------------------------------
(* main and shell_init *)

(* ensure_standard_fd.  With all lower ones open, open("/dev/null") returns *)
(* the missing descriptor itself, and there is nothing to dup2.             *)
Ensured_NotStdin(s) == s # 0 /\ fd[s] = "closed"       \* mutant: only the outputs
Ensured(s) == fd[s] = "closed"

Ensure ==
    /\ pc = "ensure"
    /\ \/ /\ Ensured(side)
          /\ fd' = [fd EXCEPT ![Lowest(FreeFrom(0))] = "null"]
          /\ UNCHANGED <<pc, faults>>
       \/ /\ Ensured(side)
          /\ Fault
          /\ pc' = "exit"
          /\ UNCHANGED fd
       \/ /\ ~ Ensured(side)
          /\ pc' = IF side = 2 THEN "init" ELSE "ensure"
          /\ UNCHANGED <<fd, faults>>
    /\ side' = IF ~ Ensured(side) /\ side < 2 THEN side + 1 ELSE side
    /\ UNCHANGED <<home, saved, temp, cmd, ret, running, text, ferr, ran, commands>>

(* event_init, and terminal_init, which opens /dev/tty if stdin is one.    *)
ShellInit ==
    /\ pc = "init"
    /\ LET r == Lowest(FreeFrom(0))
           w == Lowest(FreeFrom(r + 1))
           t == Lowest(FreeFrom(w + 1))
           enough == FreeFrom(0) # {} /\ FreeFrom(r + 1) # {}
           piped == [fd EXCEPT ![r] = "pipe_read", ![w] = "pipe_write"]
       IN \/ enough /\ fd' = piped /\ UNCHANGED faults
             /\ pc' = "prompt"
          \/ enough /\ FreeFrom(w + 1) # {} /\ fd[0] = "in"
             /\ fd' = [piped EXCEPT ![t] = "tty"] /\ UNCHANGED faults
             /\ pc' = "prompt"
          \/ (IF enough THEN Fault ELSE UNCHANGED faults)
             /\ UNCHANGED fd /\ pc' = "exit"
    /\ home' = fd'
    /\ UNCHANGED <<side, saved, temp, cmd, ret, running, text, ferr, ran, commands>>

-----------------------------------------------------------------------------
(* The loop of the shell *)

(* shell_print_prompt flushes what waits, and shell_run ends if that fails. *)
PrintPrompt ==
    /\ pc = "prompt"
    /\ \/ Flush /\ pc' = "idle"
       \/ FlushFails /\ pc' = "exit"
    /\ UNCHANGED <<fd, home, side, saved, temp, cmd, ret, running, ferr, ran, commands>>

(* job_reap prints what became of a job; nothing flushes it before the     *)
(* next prompt.                                                            *)
Report ==
    /\ pc = "idle"
    /\ text.report # "buffer"
    /\ Prints("report")
    /\ UNCHANGED <<fd, home, pc, side, saved, temp, cmd, ret, running, ran, commands>>

EndOfInput ==
    /\ pc = "idle"
    /\ pc' = "exit"
    /\ UNCHANGED <<fd, home, side, saved, temp, cmd, ret, running, text, ferr, ran,
                   faults, commands>>

-----------------------------------------------------------------------------
(* dispatcher_command *)

Refused(c) == c.builtin /\ (c.chain \/ c.background)

(* Where a builtin starts.                                                 *)
FirstCall_NoFlush(c) == IF c.redirect = {} THEN "handler" ELSE "save"     \* mutant
FirstCall(c) == CASE 1 \in c.redirect -> "flush_before"
                  [] c.redirect = {0} -> "save"
                  [] OTHER -> "handler"
FirstSide_Input(c) == 0                              \* mutant: always the input
FirstSide(c) == IF 1 \in c.redirect THEN 1 ELSE 0

Dispatch(c) ==
    /\ pc = "idle"
    /\ commands < MaxCommands
    /\ commands' = commands + 1
    /\ cmd' = c
    /\ text' = [text EXCEPT !.output = "none"]
    /\ ran' = FALSE
    /\ \/ /\ Refused(c)
          /\ ret' = "error" /\ pc' = "prompt"
       \/ /\ ~ c.builtin                              \* execute_command
          /\ ret' \in {"ok", "error"} /\ pc' = "prompt"
       \/ /\ c.builtin /\ ~ Refused(c)
          /\ ret' = "ok" /\ pc' = FirstCall(c)
    /\ side' = FirstSide(c)
    /\ UNCHANGED <<fd, home, saved, temp, running, ferr, faults>>

(* A failure in builtin_apply_redirect: what was done so far is undone.    *)
Fails == pc' = "restore" /\ side' = 1 /\ ret' = "error"

FlushBefore ==
    /\ pc = "flush_before"
    /\ \/ /\ Flush
          /\ IF ferr THEN Fails ELSE pc' = "save" /\ UNCHANGED <<side, ret>>
       \/ /\ FlushFails /\ Fails
    /\ ferr' = FALSE
    /\ UNCHANGED <<fd, home, saved, temp, cmd, running, ran, commands>>

Save ==
    /\ pc = "save"
    /\ \/ /\ FreeFrom(3) # {}
          /\ saved' = [saved EXCEPT ![side] = Lowest(FreeFrom(3))]
          /\ fd' = [fd EXCEPT ![Lowest(FreeFrom(3))] = fd[side]]
          /\ pc' = "open"
          /\ UNCHANGED <<side, ret, faults>>
       \/ /\ FailsFor(FreeFrom(3)) /\ Fails
          /\ UNCHANGED <<fd, saved>>
    /\ UNCHANGED <<home, temp, cmd, running, text, ferr, ran, commands>>

(* That a file cannot be opened is no fault that is counted.               *)
Open ==
    /\ pc = "open"
    /\ \/ /\ FreeFrom(0) # {}
          /\ temp' = Lowest(FreeFrom(0))
          /\ fd' = [fd EXCEPT ![Lowest(FreeFrom(0))] = File(side)]
          /\ pc' = "dup"
          /\ UNCHANGED <<side, ret>>
       \/ /\ Fails /\ UNCHANGED <<fd, temp>>
    /\ UNCHANGED <<home, saved, cmd, running, text, ferr, ran, faults, commands>>

(* dup2 onto the standard descriptor; temp is closed, whether it worked or *)
(* not.                                                                    *)
Closed(f, t) == [f EXCEPT ![t] = "closed"]

Dup ==
    /\ pc = "dup"
    /\ \/ /\ fd' = IF temp = side THEN fd
                   ELSE Closed([fd EXCEPT ![side] = fd[temp]], temp)
          /\ ferr' = (ferr /\ side = 0)
          /\ IF side = 1 /\ 0 \in cmd.redirect THEN pc' = "save" /\ side' = 0
             ELSE pc' = "handler" /\ UNCHANGED side
          /\ UNCHANGED <<ret, faults>>
       \/ /\ temp # side
          /\ Fault /\ Fails
          /\ fd' = Closed(fd, temp)
          /\ UNCHANGED ferr
    /\ temp' = -1
    /\ UNCHANGED <<home, saved, cmd, running, text, ran, commands>>

(* entry->handler prints or not, fails or not, and may be exit.            *)
AfterHandler_Restore == "restore"          \* mutant: the output is not flushed first
AfterHandler == "flush_after"

Handler ==
    /\ pc = "handler"
    /\ Prints("output") \/ UNCHANGED <<text, ferr, faults>>
    /\ ret' \in {"ok", "error"}
    /\ running' \in BOOLEAN
    /\ ran' = TRUE
    /\ pc' = AfterHandler
    /\ side' = 1
    /\ UNCHANGED <<fd, home, saved, temp, cmd, commands>>

FlushAfter ==
    /\ pc = "flush_after"
    /\ \/ Flush /\ ret' = IF ferr THEN "error" ELSE ret
       \/ FlushFails /\ ret' = "error"
    /\ ferr' = FALSE
    /\ pc' = "restore"
    /\ UNCHANGED <<fd, home, side, saved, temp, cmd, running, ran, commands>>

(* builtin_restore_redirect, stdout first.  If a stream cannot be put back *)
(* the shell is to end.                                                    *)
Health_Ignored(worked) == running                       \* mutant
Health(worked) == running /\ worked

Restore ==
    /\ pc = "restore"
    /\ \/ /\ saved[side] = -1
          /\ UNCHANGED <<fd, saved, running, ret, ferr, faults>>
       \/ /\ saved[side] # -1
          /\ saved' = [saved EXCEPT ![side] = -1]
          /\ \/ /\ fd' = Closed([fd EXCEPT ![side] = fd[saved[side]]], saved[side])
                /\ running' = Health(TRUE)
                /\ UNCHANGED <<ret, faults>>
             \/ /\ Fault
                /\ fd' = Closed(fd, saved[side])
                /\ running' = Health(FALSE)
                /\ ret' = "error"
          /\ ferr' = (ferr /\ side = 0)
    /\ IF side = 1 THEN side' = 0 /\ UNCHANGED pc
       ELSE pc' = (IF running' THEN "prompt" ELSE "exit") /\ UNCHANGED side
    /\ UNCHANGED <<home, temp, cmd, text, ran, commands>>

Exited == pc = "exit" /\ UNCHANGED vars

Next == \/ Ensure \/ ShellInit \/ PrintPrompt \/ Report \/ EndOfInput
        \/ \E c \in CommandLine : Dispatch(c)
        \/ FlushBefore \/ Save \/ Open \/ Dup \/ Handler \/ FlushAfter \/ Restore
        \/ Exited

Spec == Init /\ [][Next]_vars

-----------------------------------------------------------------------------
(* Properties *)

Places == {"none", "buffer", "lost"} \cup Objects

(* Types; and a stream is only saved if it is redirected, and a file only  *)
(* open for the time between open and dup2.                                *)
TypeOK ==
    /\ fd \in [Descriptors -> Objects] /\ home \in [Descriptors -> Objects]
    /\ pc \in {"ensure", "init", "prompt", "idle", "flush_before", "save", "open", "dup",
               "handler", "flush_after", "restore", "exit"}
    /\ side \in Standard
    /\ saved \in [{0, 1} -> {-1} \cup 3..MaxFd]
    /\ \A s \in {0, 1} : saved[s] # -1 => s \in cmd.redirect
    /\ temp \in {-1} \cup Descriptors /\ (temp # -1 <=> pc = "dup")
    /\ cmd \in CommandLine
    /\ ret \in {"ok", "error"}
    /\ running \in BOOLEAN
    /\ text \in [{"report", "output"} -> Places]
    /\ ferr \in BOOLEAN /\ ran \in BOOLEAN
    /\ faults \in 0..MaxFaults /\ commands \in 0..MaxCommands

(* Whenever the shell prompts, its descriptors are those of the start:     *)
(* its streams are back, nothing of its own was overwritten, and nothing   *)
(* leaked, on whichever path builtin_apply_redirect failed.                *)
TableRestored == pc \in {"prompt", "idle"} => fd = home /\ saved = [s \in {0, 1} |-> -1]

(* The pipe and the terminal of the shell are never descriptor 0, 1 or 2,  *)
(* where a command would read or write them, whatever was closed at start. *)
StandardReserved == pc \notin {"ensure", "init"} => \A s \in Standard : fd[s] \notin Own

(* A builtin that reports success has its output where the line says, and  *)
(* what the shell reports about its jobs never lands in the output file of *)
(* a builtin.                                                              *)
TextPlaced ==
    /\ pc \in {"prompt", "idle"} /\ ran /\ ret = "ok" /\ text.output # "none" =>
          text.output = IF 1 \in cmd.redirect THEN "out_file" ELSE home[1]
    /\ text.report # "out_file"
=============================================================================
