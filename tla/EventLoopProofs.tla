-------------------------- MODULE EventLoopProofs --------------------------
(***************************************************************************)
(* The main loop loses no wakeup, no child and no interrupt, for every set *)
(* of children, every pipe capacity and every number of signals.           *)
(***************************************************************************)
EXTENDS EventLoop, TLAPS

(* The descriptors and the dispositions by place in the code: the pipe is  *)
(* open from event_init to event_shut, the handlers are installed from     *)
(* signal_init to signal_shutdown, and jobs exist in between only.         *)
Installed == LoopSteps \cup {"destroy", "mask"}
PipeOpen == Installed \cup {"terminal_init", "clear_flag", "handle_int", "handle_chld",
                            "ignore_int", "ignore_chld", "forget", "unmask",
                            "shut_write"}

PlaceInv ==
    /\ pc \in PipeOpen => ends = {"r", "w"}
    /\ pc \in Installed => \A s \in Signals : disp[s] = "handler"
    /\ pc \notin LoopSteps \cup {"destroy"} => jobs = {}
    /\ pc \notin Installed \cup {"handle_chld", "ignore_int", "ignore_chld"}
           => \A s \in Signals : disp[s] # "handler"
    /\ pc \in {"handle_chld", "ignore_int"} => disp["INT"] = "handler"
    /\ pc = "ignore_chld" => disp["INT"] = "ignore"

(* While the flag is taken nothing is delivered, so what is cleared is     *)
(* what was read.                                                          *)
TakeInv ==
    /\ pc \in {"take", "clear", "unblock"} => blocked = Signals
    /\ pc = "clear" => pending \subseteq events
    /\ events # {} => pc \in {"clear", "unblock", "child", "reap", "interrupt"}
    /\ interrupted => pc \in LoopSteps \cup {"destroy"}

(* The shell starts with values of the types.                              *)
LEMMA TypeInit == Init => TypeOK
<1>1. Init => DataOK
  BY LoopAssumption DEF Init, DataOK, Signals, BootSteps
<1>2. Init => FlagsOK
  BY Zenon DEF Init, FlagsOK
<1> QED
  BY <1>1, <1>2 DEF TypeOK

(* The Boolean variables stay Boolean.                                     *)
LEMMA FlagsStep == FlagsOK /\ [Next]_vars => FlagsOK'
<1> SUFFICES ASSUME FlagsOK, [Next]_vars PROVE FlagsOK'
  OBVIOUS
<1> USE DEF FlagsOK, threadVars, signalVars, pipeVars, childVars, inputVars, vars
<1>1. CASE Boot
  BY <1>1, Zenon DEF Boot, EventInit, TerminalInit, ClearFlag, InstallHandler
<1>2. CASE Loop
  <2>1. CASE Top \/ Select \/ Drain
    BY <2>1, Zenon DEF Top, Select, Drain
  <2>2. CASE BlockSignals \/ TakeEvents \/ ClearEvents \/ UnblockSignals
    BY <2>2, Zenon DEF BlockSignals, TakeEvents, ClearEvents, UnblockSignals
  <2>3. CASE ServeChild \/ EndReap \/ \E c \in Children : PollChild(c)
    BY <2>3, Zenon DEF ServeChild, EndReap, PollChild
  <2>4. CASE ServeInterrupt \/ ReadInput
    BY <2>4, Zenon DEF ServeInterrupt, ReadInput
  <2>5. CASE Builtin \/ WaitForeground \/ \E c \in Children : Launch(c) \/ Foreground(c)
    BY <2>5, Zenon DEF Builtin, WaitForeground, Launch, Foreground
  <2> QED
    BY <1>2, <2>1, <2>2, <2>3, <2>4, <2>5, Zenon DEF Loop
<1>3. CASE Cleanup
  BY <1>3, Zenon DEF Cleanup, Destroy, SignalShutdown, EventShut
<1>4. CASE Kernel
  BY <1>4, Zenon DEF Kernel, Deliver
<1>5. CASE Environment
  BY <1>5, Zenon DEF Environment, Interrupt, ChildChanges, StrayByte, ChildClosesPipe,
                     ForegroundExits, ChangeOf, Type, CloseInput
<1>6. CASE Stopped \/ UNCHANGED vars
  BY <1>6, Zenon DEF Stopped
<1> QED
  BY <1>1, <1>2, <1>3, <1>4, <1>5, <1>6, Zenon DEF Next, Thread

(* Every step keeps the other types.                                       *)
LEMMA DataStep == DataOK /\ [Next]_vars => DataOK'
<1> SUFFICES ASSUME DataOK, [Next]_vars PROVE DataOK'
  OBVIOUS
<1> USE LoopAssumption
    DEF DataOK, Goto, Signals, BootSteps, LoopSteps, ExitSteps, threadVars, signalVars,
        pipeVars, childVars, inputVars, vars
<1>1. CASE Boot
  BY <1>1 DEF Boot, EventInit, TerminalInit, ClearFlag, InstallHandler
<1>2. CASE Loop
  <2>1. CASE Top \/ Select \/ Drain
    <3>1. CASE Top
      BY <3>1 DEF Top
    <3>2. CASE Select
      BY <3>2 DEF Select, Readable, EventOrder
    <3>3. CASE Drain
      BY <3>3 DEF Drain, EventOrder
    <3> QED
      BY <2>1, <3>1, <3>2, <3>3
  <2>2. CASE BlockSignals \/ TakeEvents \/ ClearEvents \/ UnblockSignals
    BY <2>2 DEF BlockSignals, TakeEvents, ClearEvents, UnblockSignals, TakeMask, EventOrder
  <2>3. CASE ServeChild \/ EndReap \/ ServeInterrupt
    BY <2>3 DEF ServeChild, EndReap, ServeInterrupt, StartReap
  <2>4. CASE \E c \in Children : PollChild(c)
    BY <2>4 DEF PollChild, Reported
  <2>5. CASE ReadInput
    BY <2>5 DEF ReadInput
  <2>6. CASE \E c \in Children : Launch(c) \/ Foreground(c)
    BY <2>6 DEF Launch, Foreground, AfterLine
  <2>7. CASE Builtin \/ WaitForeground
    BY <2>7 DEF Builtin, WaitForeground, AfterLine, Reported
  <2> QED
    BY <1>2, <2>1, <2>2, <2>3, <2>4, <2>5, <2>6, <2>7 DEF Loop
<1>3. CASE Cleanup
  <2>1. CASE Destroy
    BY <2>1 DEF Destroy, AfterDestroy
  <2>2. CASE SignalShutdown
    BY <2>2 DEF SignalShutdown, Ignore
  <2>3. CASE EventShut
    <3>0. bytes' = bytes \/ bytes' = 0
      BY <2>3, Zenon DEF EventShut
    <3>1. bytes' \in 0..Capacity
      BY <3>0
    <3>4. ends' \subseteq {"r", "w"}
      BY <2>3 DEF EventShut
    <3>2. pc' \in ExitSteps
      BY <2>3 DEF EventShut
    <3>3. UNCHANGED <<ready, events, toPoll, fg, signalVars, childVars, inputVars, signals>>
      BY <2>3 DEF EventShut
    <3> QED
      BY <3>1, <3>2, <3>3, <3>4
  <2> QED
    BY <1>3, <2>1, <2>2, <2>3 DEF Cleanup
<1>4. CASE Kernel
  <2> PICK s \in Signals : Deliver(s)
    BY <1>4 DEF Kernel
  <2>1. bytes' \in 0..Capacity
    BY DEF Deliver, Notify, Notified
  <2>2. pc' \in BootSteps \cup LoopSteps \cup ExitSteps /\ pending' \subseteq Signals
    BY DEF Deliver
  <2>3. kernel' \subseteq Signals
    BY DEF Deliver
  <2>4. UNCHANGED <<ready, events, toPoll, fg, blocked, disp, ends, childVars, inputVars,
                    signals>>
    BY DEF Deliver
  <2> QED
    BY <2>1, <2>2, <2>3, <2>4
<1>5. CASE Environment
  <2>1. ASSUME NEW s \in Signals, Generate(s) PROVE kernel' \subseteq Signals
    BY <2>1 DEF Generate
  <2>2. CASE Interrupt
    <3>1. kernel' \subseteq Signals
      BY <2>1, <2>2 DEF Interrupt
    <3>2. signals' \in Nat
      BY <2>2 DEF Interrupt
    <3>3. UNCHANGED <<threadVars, pending, blocked, disp, pipeVars, childVars, inputVars>>
      BY <2>2 DEF Interrupt
    <3> QED
      BY <3>1, <3>2, <3>3
  <2>3. CASE Type \/ CloseInput
    <3>1. stdin' \in Nat /\ typed' \in Nat
      BY <2>3 DEF Type, CloseInput
    <3>2. UNCHANGED <<threadVars, signalVars, pipeVars, childVars, signals>>
      BY <2>3 DEF Type, CloseInput
    <3> QED
      BY <3>1, <3>2
  <2>4. CASE ForegroundExits \/ \E c \in Children : ChildChanges(c)
    <3>1. PICK c \in Children, final \in BOOLEAN : ChangeOf(c, final)
      BY <2>4 DEF ForegroundExits, ChildChanges, ChangeOf
    <3>2. kernel' \subseteq Signals
      BY <2>1, <3>1 DEF ChangeOf
    <3>3. booting' \subseteq jobs' /\ exited' \subseteq changed' \ booting'
      BY <3>1 DEF ChangeOf
    <3>4. signals' \in Nat
      <4>1. signals' = signals \/ signals' = signals + 1
        BY <2>4, Zenon DEF ForegroundExits, ChildChanges
      <4> QED
        BY <4>1
    <3> QED
      BY <3>1, <3>2, <3>3, <3>4 DEF ChangeOf
  <2>5. CASE \E c \in Children : StrayByte(c) \/ ChildClosesPipe(c)
    <3> PICK c \in Children : StrayByte(c) \/ ChildClosesPipe(c)
      BY <2>5
    <3>1. CASE StrayByte(c)
      <4>1. bytes' \in 0..Capacity
        BY <3>1 DEF StrayByte, Notified
      <4>2. signals' \in Nat
        BY <3>1 DEF StrayByte
      <4> QED
        BY <3>1, <4>1, <4>2, Zenon DEF StrayByte
    <3>2. CASE ChildClosesPipe(c)
      BY <3>2 DEF ChildClosesPipe
    <3> QED
      BY <3>1, <3>2
  <2> QED
    BY <1>5, <2>2, <2>3, <2>4, <2>5 DEF Environment
<1>6. CASE Stopped \/ UNCHANGED vars
  BY <1>6 DEF Stopped
<1> QED
  BY <1>1, <1>2, <1>3, <1>4, <1>5, <1>6 DEF Next, Thread

(* Every variable keeps to the values sig.c, event.c and shell_run give it.*)
THEOREM TypeCorrect == Spec => []TypeOK
<1>1. TypeOK /\ [Next]_vars => TypeOK'
  BY FlagsStep, DataStep DEF TypeOK
<1> QED
  BY TypeInit, <1>1, PTL DEF Spec

-----------------------------------------------------------------------------
(* A step of the loop stays in the loop or leaves it for shell_cleanup, and *)
(* opens, closes and installs nothing.                                      *)
LEMMA LoopMoves == Loop => /\ pc \in LoopSteps
                           /\ pc' \in LoopSteps \cup {"destroy"}
                           /\ UNCHANGED <<ends, disp>>
<1> SUFFICES ASSUME Loop PROVE /\ pc \in LoopSteps
                               /\ pc' \in LoopSteps \cup {"destroy"}
                               /\ UNCHANGED <<ends, disp>>
  OBVIOUS
<1> USE DEF Goto, LoopSteps, signalVars, pipeVars, AfterLine, EventOrder
<1>1. CASE Top
  BY <1>1 DEF Top
<1>2. CASE Select
  BY <1>2 DEF Select
<1>3. CASE Drain
  BY <1>3 DEF Drain
<1>4. CASE BlockSignals \/ TakeEvents \/ ClearEvents \/ UnblockSignals
  BY <1>4 DEF BlockSignals, TakeEvents, ClearEvents, UnblockSignals
<1>5. CASE ServeChild \/ EndReap
  BY <1>5 DEF ServeChild, EndReap
<1>6. CASE \E c \in Children : PollChild(c)
  BY <1>6 DEF PollChild
<1>7. CASE ServeInterrupt
  BY <1>7 DEF ServeInterrupt
<1>8. CASE ReadInput
  BY <1>8 DEF ReadInput
<1>9. CASE \E c \in Children : Launch(c) \/ Foreground(c)
  BY <1>9 DEF Launch, Foreground
<1>10. CASE Builtin \/ WaitForeground
  BY <1>10 DEF Builtin, WaitForeground
<1> QED
  BY <1>1, <1>2, <1>3, <1>4, <1>5, <1>6, <1>7, <1>8, <1>9, <1>10 DEF Loop

(* The environment moves neither the thread nor the descriptors.           *)
LEMMA EnvironmentMoves ==
    Environment => UNCHANGED <<pc, ends, disp, jobs, pending, blocked, events, toPoll>>
<1> SUFFICES ASSUME Environment
             PROVE  UNCHANGED <<pc, ends, disp, jobs, pending, blocked, events, toPoll>>
  OBVIOUS
<1> USE DEF threadVars, signalVars, pipeVars, childVars
<1>1. CASE Interrupt \/ Type \/ CloseInput
  BY <1>1 DEF Interrupt, Type, CloseInput
<1>2. CASE ForegroundExits \/ \E c \in Children : ChildChanges(c)
  BY <1>2 DEF ForegroundExits, ChildChanges, ChangeOf
<1>3. CASE \E c \in Children : StrayByte(c) \/ ChildClosesPipe(c)
  BY <1>3 DEF StrayByte, ChildClosesPipe
<1> QED
  BY <1>1, <1>2, <1>3 DEF Environment

(* Every step keeps the pipe and the handlers to their places.             *)
LEMMA PlaceStep == DataOK /\ PlaceInv /\ [Next]_vars => PlaceInv'
<1> SUFFICES ASSUME DataOK, PlaceInv, [Next]_vars PROVE PlaceInv'
  OBVIOUS
<1> USE DEF PlaceInv, Installed, PipeOpen, LoopSteps, Signals
<1>1. CASE Boot
  <2>1. CASE EventInit \/ TerminalInit \/ ClearFlag
    BY <1>1, <2>1 DEF EventInit, TerminalInit, ClearFlag, Goto, childVars, signalVars,
                      pipeVars
  <2>2. CASE InstallHandler
    BY <2>2 DEF InstallHandler, Goto, childVars, signalVars, pipeVars, DataOK
  <2> QED
    BY <1>1, <2>1, <2>2 DEF Boot
<1>2. CASE Loop
  BY <1>2, LoopMoves
<1>3. CASE Cleanup
  <2>1. CASE Destroy
    BY <2>1 DEF Destroy, AfterDestroy, Goto, signalVars, pipeVars
  <2>2. CASE SignalShutdown
    BY <2>2 DEF SignalShutdown, Ignore, Goto, pipeVars, childVars, DataOK
  <2>3. CASE EventShut
    BY <2>3 DEF EventShut, Goto, signalVars, childVars
  <2> QED
    BY <1>3, <2>1, <2>2, <2>3 DEF Cleanup
<1>4. CASE Kernel
  BY <1>4 DEF Kernel, Deliver, childVars
<1>5. CASE Environment
  BY <1>5, EnvironmentMoves
<1>6. CASE Stopped \/ UNCHANGED vars
  BY <1>6 DEF Stopped, vars, threadVars, signalVars, pipeVars, childVars
<1> QED
  BY <1>1, <1>2, <1>3, <1>4, <1>5, <1>6 DEF Next, Thread

(* The pipe is filled by handlers alone and emptied by event_drain alone.  *)
LEMMA WakeupStep ==
    DataOK /\ PlaceInv /\ NoLostWakeup /\ [Next]_vars => NoLostWakeup'
<1> SUFFICES ASSUME DataOK, PlaceInv, NoLostWakeup, [Next]_vars PROVE NoLostWakeup'
  OBVIOUS
<1> USE DEF NoLostWakeup, AboutToTake, Goto, signalVars, pipeVars
<1>1. CASE Boot
  BY <1>1 DEF Boot, EventInit, TerminalInit, ClearFlag, InstallHandler, ExitSteps
<1>2. CASE Loop
  <2>1. ~ (pc \in ExitSteps)
    BY <1>2, LoopMoves DEF LoopSteps, ExitSteps
  <2>2. CASE pc' = "destroy"
    BY <2>2 DEF ExitSteps
  <2>3. CASE pc' # "destroy"
    <3>1. CASE Top \/ Select
      BY <2>1, <2>3, <3>1 DEF Top, Select, EventOrder
    <3>2. CASE Drain
      BY <2>1, <3>2 DEF Drain, EventOrder
    <3>3. CASE BlockSignals \/ TakeEvents \/ ClearEvents \/ UnblockSignals
      BY <2>1, <3>3 DEF BlockSignals, TakeEvents, ClearEvents, UnblockSignals
    <3>4. CASE ServeChild \/ EndReap \/ ServeInterrupt \/ ReadInput
      BY <2>1, <3>4 DEF ServeChild, EndReap, ServeInterrupt, ReadInput
    <3>5. CASE \E c \in Children : PollChild(c) \/ Launch(c) \/ Foreground(c)
      BY <2>1, <3>5 DEF PollChild, Launch, Foreground
    <3>6. CASE Builtin \/ WaitForeground
      BY <2>1, <3>6 DEF Builtin, WaitForeground
    <3> QED
      BY <1>2, <3>1, <3>2, <3>3, <3>4, <3>5, <3>6 DEF Loop
  <2> QED
    BY <2>2, <2>3
<1>3. CASE Cleanup
  BY <1>3 DEF Cleanup, Destroy, AfterDestroy, SignalShutdown, EventShut, ExitSteps
<1>4. CASE Kernel
  <2> PICK s \in Signals : Deliver(s)
    BY <1>4 DEF Kernel
  <2>1. CASE disp[s] = "handler"
    <3>1. "w" \in ends
      BY <2>1 DEF PlaceInv, PipeOpen, Installed, LoopSteps
    <3>2. bytes' > 0
      BY <2>1, <3>1, LoopAssumption DEF Deliver, Notify, Notified, DataOK
    <3> QED
      BY <3>2
  <2>2. CASE disp[s] # "handler"
    BY <2>2 DEF Deliver, ExitSteps
  <2> QED
    BY <2>1, <2>2
<1>5. CASE Environment
  <2>1. bytes > 0 => bytes' > 0
    BY <1>5 DEF Environment, Interrupt, ChildChanges, StrayByte, ChildClosesPipe, ChangeOf,
                ForegroundExits, Type, CloseInput, Notified, DataOK
  <2> QED
    BY <1>5, <2>1, EnvironmentMoves
<1>6. CASE Stopped \/ UNCHANGED vars
  BY <1>6 DEF Stopped, vars, threadVars
<1> QED
  BY <1>1, <1>2, <1>3, <1>4, <1>5, <1>6 DEF Next, Thread

(* No lost wakeup: whenever the flag is set, the pipe is readable or the   *)
(* thread is about to take the flag, because shell_run drains before it    *)
(* takes and a byte is dropped only when others are in the pipe.           *)
THEOREM WakeupKept == Spec => []NoLostWakeup
<1>1. Init => DataOK /\ PlaceInv /\ NoLostWakeup
  <2>1. Init => DataOK
    BY TypeInit DEF TypeOK
  <2>2. Init => PlaceInv
    BY DEF Init, PlaceInv, PipeOpen, Installed, LoopSteps, Signals
  <2>3. Init => NoLostWakeup
    BY DEF Init, NoLostWakeup
  <2> QED
    BY <2>1, <2>2, <2>3
<1>2. DataOK /\ PlaceInv /\ NoLostWakeup /\ [Next]_vars
          => (DataOK /\ PlaceInv /\ NoLostWakeup)'
  BY DataStep, PlaceStep, WakeupStep
<1> QED
  BY <1>1, <1>2, PTL DEF Spec

(* The handlers never outlive the pipe they write to.                      *)
THEOREM HandlersHavePipe == Spec => []HandlerHasPipe
<1>1. Init => DataOK /\ PlaceInv
  <2>1. Init => DataOK
    BY TypeInit DEF TypeOK
  <2>2. Init => PlaceInv
    BY DEF Init, PlaceInv, PipeOpen, Installed, LoopSteps, Signals
  <2> QED
    BY <2>1, <2>2
<1>2. DataOK /\ PlaceInv /\ [Next]_vars => (DataOK /\ PlaceInv)'
  BY DataStep, PlaceStep
<1>3. PlaceInv => HandlerHasPipe
  BY DEF PlaceInv, HandlerHasPipe, PipeOpen, Installed
<1> QED
  BY <1>1, <1>2, <1>3, PTL DEF Spec

-----------------------------------------------------------------------------
(* Every step keeps what the taking of the flag rests on.                  *)
LEMMA TakeStep == DataOK /\ PlaceInv /\ TakeInv /\ [Next]_vars => TakeInv'
<1> SUFFICES ASSUME DataOK, PlaceInv, TakeInv, [Next]_vars PROVE TakeInv'
  OBVIOUS
<1> USE DEF TakeInv, Goto, signalVars
<1>1. CASE Boot
  <2>1. /\ pc \notin LoopSteps \cup {"destroy"}
        /\ pc' \notin {"take", "clear", "unblock"}
        /\ UNCHANGED <<events, interrupted>>
    BY <1>1 DEF Boot, EventInit, TerminalInit, ClearFlag, InstallHandler, LoopSteps
  <2> QED
    BY <2>1 DEF LoopSteps
<1>2. CASE Loop
  <2>1. CASE Top \/ Select \/ Drain
    BY <2>1 DEF Top, Select, Drain, EventOrder, LoopSteps
  <2>2. CASE BlockSignals \/ TakeEvents \/ ClearEvents \/ UnblockSignals
    BY <2>2 DEF BlockSignals, TakeEvents, ClearEvents, UnblockSignals, TakeMask,
                EventOrder, LoopSteps
  <2>3. CASE ServeChild \/ EndReap
    BY <2>3 DEF ServeChild, EndReap, LoopSteps
  <2>4. CASE ServeInterrupt
    <3>1. events' = {} /\ pc' \in {"stdin", "destroy"}
      BY <2>4 DEF ServeInterrupt
    <3>2. interrupted' => interrupted
      BY <2>4, Zenon DEF ServeInterrupt
    <3> QED
      BY <3>1, <3>2 DEF LoopSteps
  <2>5. CASE ReadInput
    <3>1. /\ pc = "stdin" /\ pc' \in {"dispatch", "destroy", "top"}
          /\ UNCHANGED <<events, blocked, pending>>
      BY <2>5 DEF ReadInput
    <3>2. interrupted' => interrupted
      BY <2>5, Zenon DEF ReadInput
    <3> QED
      BY <3>1, <3>2 DEF LoopSteps
  <2>6. CASE \E c \in Children : PollChild(c) \/ Launch(c) \/ Foreground(c)
    BY <2>6 DEF PollChild, Launch, Foreground, AfterLine, LoopSteps
  <2>7. CASE Builtin \/ WaitForeground
    BY <2>7 DEF Builtin, WaitForeground, AfterLine, LoopSteps
  <2> QED
    BY <1>2, <2>1, <2>2, <2>3, <2>4, <2>5, <2>6, <2>7 DEF Loop
<1>3. CASE Cleanup
  BY <1>3 DEF Cleanup, Destroy, AfterDestroy, SignalShutdown, EventShut, LoopSteps
<1>4. CASE Kernel
  <2> PICK s \in Signals : Deliver(s)
    BY <1>4 DEF Kernel
  <2>1. ~ (pc \in {"take", "clear", "unblock"})
    BY DEF Deliver
  <2>2. pc' = pc \/ (pc' = "killed" /\ disp[s] = "default")
    BY DEF Deliver
  <2>3. pc' # pc => pc \notin LoopSteps \cup {"destroy"}
    BY <2>2 DEF PlaceInv, Installed
  <2>4. UNCHANGED <<blocked, events, interrupted>>
    BY DEF Deliver
  <2> QED
    BY <2>1, <2>2, <2>3, <2>4 DEF LoopSteps
<1>5. CASE Environment
  <2>1. interrupted' => interrupted \/ pc \in LoopSteps
    BY <1>5, Zenon DEF Environment, Interrupt, ChildChanges, StrayByte, ChildClosesPipe,
                       ChangeOf, ForegroundExits, Type, CloseInput
  <2>2. UNCHANGED <<pc, pending, blocked, events>>
    BY <1>5, EnvironmentMoves
  <2> QED
    BY <2>1, <2>2
<1>6. CASE Stopped \/ UNCHANGED vars
  BY <1>6 DEF Stopped, vars, threadVars
<1> QED
  BY <1>1, <1>2, <1>3, <1>4, <1>5, <1>6 DEF Next, Thread

(* A change is announced by SIGCHLD; the announcement moves from the       *)
(* kernel to the flag, to the local events and to the list of job_reap.    *)
LEMMA ChildStep ==
    DataOK /\ PlaceInv /\ TakeInv /\ NoForgottenChild /\ [Next]_vars => NoForgottenChild'
<1> SUFFICES ASSUME DataOK, PlaceInv, TakeInv, NoForgottenChild, [Next]_vars,
                    NEW c \in changed'
             PROVE  \/ "CHLD" \in (kernel \cup pending)'
                    \/ "CHLD" \in events' /\ pc' \in {"clear", "unblock", "child"}
                    \/ pc' = "reap" /\ c \in toPoll'
  BY DEF NoForgottenChild
<1> USE DEF NoForgottenChild, Goto, signalVars, childVars
<1>0. pc \in LoopSteps \cup {"destroy"} \/ changed = {}
  BY DEF PlaceInv, DataOK
<1>1. CASE Boot
  BY <1>0, <1>1 DEF Boot, EventInit, TerminalInit, ClearFlag, InstallHandler, LoopSteps
<1>2. CASE Loop
  <2>1. CASE Top \/ Select \/ Drain
    BY <2>1 DEF Top, Select, Drain
  <2>2. CASE BlockSignals \/ TakeEvents
    BY <2>2 DEF BlockSignals, TakeEvents, TakeInv
  <2>3. CASE ClearEvents \/ UnblockSignals
    BY <2>3 DEF ClearEvents, UnblockSignals, TakeInv, EventOrder
  <2>4. CASE ServeChild \/ EndReap
    BY <2>4 DEF ServeChild, EndReap, StartReap, DataOK
  <2>5. CASE ServeInterrupt \/ ReadInput
    BY <2>5 DEF ServeInterrupt, ReadInput
  <2>6. CASE \E d \in Children : PollChild(d) \/ Launch(d) \/ Foreground(d)
    BY <2>6 DEF PollChild, Launch, Foreground, Reported
  <2>7. CASE Builtin \/ WaitForeground
    BY <2>7 DEF Builtin, WaitForeground, Reported
  <2> QED
    BY <1>2, <2>1, <2>2, <2>3, <2>4, <2>5, <2>6, <2>7 DEF Loop
<1>3. CASE Cleanup
  BY <1>0, <1>3 DEF Cleanup, Destroy, SignalShutdown, EventShut, LoopSteps
<1>4. CASE Kernel
  <2> PICK s \in Signals : Deliver(s)
    BY <1>4 DEF Kernel
  <2>1. pc \in LoopSteps \cup {"destroy"} => disp[s] = "handler"
    BY DEF PlaceInv, Installed
  <2> QED
    BY <1>0, <2>1 DEF Deliver
<1>5. CASE Environment
  <2>1. CASE Interrupt \/ Type \/ CloseInput
    BY <2>1 DEF Interrupt, Generate, Type, CloseInput, threadVars
  <2>2. CASE ForegroundExits \/ \E d \in Children : ChildChanges(d)
    <3>1. PICK d \in Children, final \in BOOLEAN : ChangeOf(d, final)
      BY <2>2 DEF ForegroundExits, ChildChanges, ChangeOf, DataOK
    <3>2. disp["CHLD"] = "handler"
      BY <3>1 DEF ChangeOf, PlaceInv, Installed, Signals
    <3> QED
      BY <3>1, <3>2 DEF ChangeOf, Generate, threadVars
  <2>3. CASE \E d \in Children : StrayByte(d) \/ ChildClosesPipe(d)
    BY <2>3 DEF StrayByte, ChildClosesPipe, threadVars
  <2> QED
    BY <1>5, <2>1, <2>2, <2>3 DEF Environment
<1>6. CASE Stopped \/ UNCHANGED vars
  BY <1>6 DEF Stopped, vars, threadVars
<1> QED
  BY <1>1, <1>2, <1>3, <1>4, <1>5, <1>6 DEF Next, Thread

(* Every step keeps the ^C that has not been served.                       *)
LEMMA InterruptStep ==
    /\ DataOK /\ PlaceInv /\ TakeInv /\ NoForgottenInterrupt /\ [Next]_vars
    => NoForgottenInterrupt'
<1> SUFFICES ASSUME DataOK, PlaceInv, TakeInv, NoForgottenInterrupt, [Next]_vars,
                    interrupted'
             PROVE  "INT" \in (kernel \cup pending \cup events)'
  BY DEF NoForgottenInterrupt
<1> USE DEF NoForgottenInterrupt, Goto, signalVars
<1>0. interrupted => pc \in LoopSteps \cup {"destroy"}
  BY DEF TakeInv
<1>1. CASE Boot
  BY <1>0, <1>1 DEF Boot, EventInit, TerminalInit, ClearFlag, InstallHandler, LoopSteps
<1>2. CASE Loop
  <2>1. CASE Top \/ Select \/ Drain
    BY <2>1 DEF Top, Select, Drain
  <2>2. CASE BlockSignals \/ TakeEvents
    BY <2>2 DEF BlockSignals, TakeEvents, TakeInv
  <2>3. CASE ClearEvents \/ UnblockSignals
    BY <2>3 DEF ClearEvents, UnblockSignals, TakeInv
  <2>4. CASE ServeChild \/ EndReap
    BY <2>4 DEF ServeChild, EndReap
  <2>5. CASE ServeInterrupt \/ ReadInput
    BY <2>5 DEF ServeInterrupt, ReadInput
  <2>6. CASE \E d \in Children : PollChild(d) \/ Launch(d) \/ Foreground(d)
    BY <2>6 DEF PollChild, Launch, Foreground
  <2>7. CASE Builtin \/ WaitForeground
    BY <2>7 DEF Builtin, WaitForeground
  <2> QED
    BY <1>2, <2>1, <2>2, <2>3, <2>4, <2>5, <2>6, <2>7 DEF Loop
<1>3. CASE Cleanup
  BY <1>0, <1>3 DEF Cleanup, Destroy, SignalShutdown, EventShut, LoopSteps
<1>4. CASE Kernel
  <2> PICK s \in Signals : Deliver(s)
    BY <1>4 DEF Kernel
  <2>1. pc \in LoopSteps \cup {"destroy"} => disp[s] = "handler"
    BY DEF PlaceInv, Installed
  <2> QED
    BY <1>0, <2>1 DEF Deliver
<1>5. CASE Environment
  <2>1. CASE Interrupt
    <3>1. pc \in LoopSteps => disp["INT"] = "handler"
      BY DEF PlaceInv, Installed, Signals
    <3> QED
      BY <2>1, <3>1 DEF Interrupt, Generate, threadVars
  <2>2. CASE ForegroundExits \/ \E d \in Children : ChildChanges(d)
    <3>1. PICK d \in Children, final \in BOOLEAN : ChangeOf(d, final)
      BY <2>2 DEF ForegroundExits, ChildChanges, ChangeOf, DataOK
    <3> QED
      BY <3>1 DEF ChangeOf, Generate, threadVars
  <2>3. CASE Type \/ CloseInput \/ \E d \in Children : StrayByte(d) \/ ChildClosesPipe(d)
    BY <2>3 DEF Type, CloseInput, StrayByte, ChildClosesPipe, threadVars
  <2> QED
    BY <1>5, <2>1, <2>2, <2>3 DEF Environment
<1>6. CASE Stopped \/ UNCHANGED vars
  BY <1>6 DEF Stopped, vars, threadVars
<1> QED
  BY <1>1, <1>2, <1>3, <1>4, <1>5, <1>6 DEF Next, Thread

(* What has happened and has not been served yet is never forgotten: no    *)
(* child whose change waitpid has not reported, and no ^C, is left without *)
(* its signal pending in the kernel, in pending_events or in shell_run.    *)
THEOREM EventsKept == Spec => []NothingForgotten
<1> DEFINE IInv == DataOK /\ PlaceInv /\ TakeInv /\ NothingForgotten
<1>1. Init => IInv
  <2>1. Init => DataOK
    BY TypeInit DEF TypeOK
  <2>2. Init => PlaceInv
    BY DEF Init, PlaceInv, PipeOpen, Installed, LoopSteps, Signals
  <2>3. Init => TakeInv /\ NothingForgotten
    BY DEF Init, TakeInv, NothingForgotten, NoForgottenChild, NoForgottenInterrupt
  <2> QED
    BY <2>1, <2>2, <2>3
<1>2. IInv /\ [Next]_vars => IInv'
  BY DataStep, PlaceStep, TakeStep, ChildStep, InterruptStep DEF NothingForgotten
<1> QED
  BY <1>1, <1>2, PTL DEF Spec
-----------------------------------------------------------------------------
(* The safety part of the refinement: each step is one of SignalService,   *)
(* or changes nothing the service speaks of.                               *)
ServiceStep == Service!Next \/ UNCHANGED Service!svars

(* While the loop runs: the changes that are outstanding stay what they    *)
(* are, or one is added or reported; the interrupt likewise.               *)
LEMMA ServiceRuns ==
    ASSUME Up, Up', TypeOK, interrupted' \in BOOLEAN,
           \/ /\ interrupted' = interrupted
              /\ \/ changed' = changed
                 \/ \E c \in Children : changed' \in {changed \cup {c}, changed \ {c}}
           \/ changed' = changed
    PROVE  ServiceStep
<1> USE DEF ServiceStep, Service!Next, Service!svars
<1>1. CASE changed' = changed /\ interrupted' = interrupted
  BY <1>1
<1>2. CASE interrupted' = interrupted /\ changed' # changed
  <2>1. PICK c \in Children : changed' \in {changed \cup {c}, changed \ {c}}
    BY <1>2
  <2>2. CASE changed' = changed \cup {c}
    BY <1>2, <2>2 DEF Service!Change
  <2>3. CASE changed' = changed \ {c}
    <3>1. c \in changed
      BY <1>2, <2>3
    <3> QED
      BY <1>2, <2>3, <3>1 DEF Service!Observe
  <2> QED
    BY <2>1, <2>2, <2>3
<1>3. CASE changed' = changed /\ interrupted' # interrupted
  <2>1. \/ interrupted = FALSE /\ interrupted' = TRUE
        \/ interrupted = TRUE /\ interrupted' = FALSE
    BY <1>3 DEF TypeOK, FlagsOK
  <2> QED
    BY <1>3, <2>1 DEF Service!Interrupt, Service!Acknowledge
<1> QED
  BY <1>1, <1>2, <1>3

(* When the loop is left, and after that, nothing is outstanding.          *)
LEMMA ServiceLeft == ASSUME ~ Up' PROVE ServiceStep
BY DEF ServiceStep, Service!Next, Service!svars, Service!Leave, Up

(* Every step of the shell is one of the service or none of its business.  *)
LEMMA ServiceKept == ASSUME TypeOK, TypeOK', [Next]_vars PROVE ServiceStep
<1> USE DEF threadVars, signalVars, pipeVars, childVars, inputVars
<1>t. interrupted' \in BOOLEAN
  BY DEF TypeOK, FlagsOK
<1>0. CASE ~ Up'
  BY <1>0, ServiceLeft
<1>u. ASSUME Up' PROVE Up
  <2>1. pc' \in BootSteps \cup LoopSteps
    BY <1>u DEF Up, TypeOK, DataOK
  <2>2. pc = pc' \/ pc \in BootSteps \cup LoopSteps
    <3>1. CASE Boot \/ Loop
      BY <3>1 DEF Boot, EventInit, TerminalInit, ClearFlag, InstallHandler, Goto, Loop, Top,
             Select, Drain, BlockSignals, TakeEvents, ClearEvents, UnblockSignals, ServeChild,
             PollChild, EndReap, ServeInterrupt, ReadInput, Launch, Foreground, Builtin,
             WaitForeground, BootSteps, LoopSteps
    <3>2. CASE Cleanup
      BY <2>1, <3>2 DEF Cleanup, Destroy, AfterDestroy, SignalShutdown, EventShut, Goto,
             BootSteps, LoopSteps
    <3>3. CASE Kernel
      BY <2>1, <3>3 DEF Kernel, Deliver, BootSteps, LoopSteps
    <3>4. CASE Environment \/ Stopped \/ UNCHANGED vars
      BY <3>4 DEF Environment, Interrupt, ChildChanges, ForegroundExits, ChangeOf, StrayByte,
             ChildClosesPipe, Type, CloseInput, Stopped, vars
    <3> QED
      BY <3>1, <3>2, <3>3, <3>4 DEF Next, Thread
  <2> QED
    BY <2>1, <2>2 DEF Up, BootSteps, LoopSteps, ExitSteps
<1>1. CASE Up'
  <2>1. CASE Boot \/ Kernel \/ Stopped \/ UNCHANGED vars
    <3>1. changed' = changed /\ interrupted' = interrupted
      BY <2>1 DEF Boot, EventInit, TerminalInit, ClearFlag, InstallHandler, Kernel, Deliver,
             Stopped, vars
    <3> QED
      BY <1>t, <1>1, <1>u, <3>1, ServiceRuns
  <2>2. CASE Loop
    <3>1. CASE ServeInterrupt
      BY <1>t, <1>1, <1>u, <3>1, ServiceRuns DEF ServeInterrupt
    <3>2. CASE \E c \in Children : PollChild(c)
      BY <1>t, <1>1, <1>u, <3>2, ServiceRuns DEF PollChild, Reported
    <3>3. CASE WaitForeground
      <4>1. fg \in Children
        BY <3>3 DEF WaitForeground, TypeOK, DataOK
      <4> QED
        BY <1>t, <1>1, <1>u, <3>3, <4>1, ServiceRuns DEF WaitForeground, Reported
    <3>4. CASE \/ Top \/ Select \/ Drain \/ BlockSignals \/ TakeEvents \/ ClearEvents
               \/ UnblockSignals \/ ServeChild \/ EndReap \/ ReadInput \/ Builtin
               \/ \E c \in Children : Launch(c) \/ Foreground(c)
      <4>1. changed' = changed /\ interrupted' = interrupted
        BY <3>4 DEF Top, Select, Drain, BlockSignals, TakeEvents, ClearEvents, UnblockSignals,
               ServeChild, EndReap, ReadInput, Builtin, Launch, Foreground
      <4> QED
        BY <1>t, <1>1, <1>u, <4>1, ServiceRuns
    <3> QED
      BY <2>2, <3>1, <3>2, <3>3, <3>4 DEF Loop
  <2>3. CASE Cleanup
    <3>1. pc \notin ExitSteps
      BY <1>1, <1>u DEF Up
    <3> QED
      BY <2>3, <3>1 DEF Cleanup, Destroy, SignalShutdown, EventShut, Goto, ExitSteps
  <2>4. CASE Environment
    <3>1. CASE Interrupt
      BY <1>t, <1>1, <1>u, <3>1, ServiceRuns DEF Interrupt
    <3>2. CASE ForegroundExits \/ \E c \in Children : ChildChanges(c)
      <4>1. PICK c \in Children, final \in BOOLEAN : ChangeOf(c, final)
        BY <3>2 DEF ForegroundExits, ChildChanges, ChangeOf, TypeOK, DataOK
      <4> QED
        BY <1>t, <1>1, <1>u, <4>1, ServiceRuns DEF ChangeOf
    <3>3. CASE Type \/ CloseInput \/ \E c \in Children : StrayByte(c) \/ ChildClosesPipe(c)
      BY <1>t, <1>1, <1>u, <3>3, ServiceRuns DEF Type, CloseInput, StrayByte, ChildClosesPipe
    <3> QED
      BY <2>4, <3>1, <3>2, <3>3 DEF Environment
  <2> QED
    BY <2>1, <2>2, <2>3, <2>4 DEF Next, Thread
<1> QED
  BY <1>0, <1>1

(* The main loop with its pipe, flag and masks keeps to the service: a     *)
(* change or a ^C is outstanding until waitpid reports it or the line is   *)
(* reset, and stops being so for no other reason than that the shell ends. *)
THEOREM ServiceRespected == Spec => Service!Init /\ [][Service!Next]_(Service!svars)
<1>1. Init => Service!Init
  BY DEF Init, Service!Init, Up, ExitSteps
<1>2. TypeOK /\ TypeOK' /\ [Next]_vars => [Service!Next]_(Service!svars)
  BY ServiceKept DEF ServiceStep
<1> QED
  BY <1>1, <1>2, TypeCorrect, PTL DEF Spec
=============================================================================
