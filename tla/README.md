# myminishell: specification, model checking and proofs

myminishell is a job-control shell for a Linux board, written in C: one process, one
thread, a `select` loop, `fork`ed children in process groups, POSIX signals. This directory
holds TLA+ modules of its core and of its builtins, the TLC configurations that check them
on small instances, and proofs, checked by TLAPS, of what matters most about them for every
value of their constants. Every definition follows the C code; where the documents and the code
disagree the models follow the code, and the disagreement is a finding (below).

Source paths are relative to the root of the repository (`src/shell.c`, `config/config.c`).

## 1. The system

| Component | State it keeps | Operations | Talks to |
|---|---|---|---|
| Main loop (`shell.c`) | `running`, `last_exit_status`, locals `prompt`, `events` | init, one turn of the loop, cleanup | everything below |
| Signals (`sig.c`) | `pending_events`, the dispositions, the mask | handler, `signal_take_events`, `signal_init`, `signal_shutdown`, `signal_reset_child` | writes to the event pipe; runs at any instruction of the thread |
| Event pipe (`event.c`) | two non-blocking descriptors, the bytes between them | init, notify, drain, shut | handler on one side, `select` on the other; shared with forked children |
| Input line (`shell.c`) | `input_buffer`, `input_length`, `input_discarding` | read a byte, dispatch, reset | parser, main loop |
| Parser (`parser.c`, `command.c`) | `TokenList`, the list of commands | `tokenize`, `build_command` | reads `last_exit_status` for `$?` and sets it on an error |
| Dispatcher (`dispatcher.c`) and `main.c` | the descriptor table, the buffer of stdout, `saved_in`/`saved_out` | redirect a builtin, run it, restore | builtins, executor |
| Executor (`executor.c`) | forked processes, the startup gate | fork, setpgid, register, hand over, release, roll back | job table, terminal, kernel |
| Job table (`job.c`) | jobs, processes, cached statuses, saved modes | add, reap, foreground wait, remove, shut down | kernel (`waitpid`, `kill`), terminal |
| Builtins (`builtin.c`, `builtin_table.c`) | none of their own | `fg`, `bg`, `exit`, `reload`, `cd`, `led` and others that only print; lookup in the table | job table, configuration, device |
| Terminal (`terminal.c`) | the foreground group, the modes | init, give, restore | kernel |
| Configuration (`shell_context.c`, `config/config.c`) | the file chosen at the start; prompt, `max_job`, debug; the log level | choose the file, load through a copy, `reload` | builtins, job table, log |
| LED control (`led_control.c`, `sysfs_io.c`) | none: the LED is the kernel's | on, off, trigger: write and read back | files of `/sys` that other processes write too |
| Device and system information (`hardware_info.c`, `system_info.c`, `device_tree.c`) | lists of one call | `hwinfo`, `led list`, `led info`, `sysinfo`, `dtinfo` | `/sys`, `/proc`, the device tree |
| Monitors (`runtime_monitor.c`, `runtime_snapshot.c`, `thermal_monitor.c`, `network_monitor.c`, `process_monitor.c`, `commands/cmd_runtime.c`) | two samples, lists of one call | `monitor`, `psinfo` | `/sys`, `/proc` while processes begin and end |
| Log, errors, utilities | log level | formatting | all |

### What is hard here

* **A handler between any two instructions.** The flag is set and the pipe is written by a
  handler, the loop drains the one and takes the other; the order decides whether a wakeup
  is lost. The pipe is non-blocking and may be full, so a byte may be dropped, and standard
  signals merge, so one SIGCHLD may stand for several children.
* **Two processes share the pipe.** A child between `fork` and its first calls has the
  handlers, the mask and the pipe of the shell.
* **The table is a cache.** The shell knows its children through `waitpid` only. It writes
  `RUNNING` itself after a SIGCONT; the waits ask for different kinds of changes; the kernel
  keeps only the last change of a child.
* **A launch is many calls with children already alive.** Any of them can fail after some
  children have been forked, grouped, registered, or let through the gate.
* **One step of several fails**: the redirection of a builtin, putting a stream back, a
  terminal call in `fg`, a flush, an allocation in the middle of a pipeline.
* **Limits**: the line buffer and its `\0`, the arrays of tokens and arguments, a full
  descriptor table, `max_job` lowered while jobs live, a number that fits a long and not an
  int, arrays of zones and interfaces with more entries than places, a list that grows.
* **A world that does not wait**: other processes and the LED's own trigger write the LED
  between the two writes of a command, processes end between `readdir` and the open of their
  status, counters of the kernel go back between two samples.

`PROJECT.json` lists each of them under `hazards`, with its line and the properties aimed
at it.

### What makes each component correct

* Main loop: no wakeup, no child and no ^C is lost; the end of the input ends the loop;
  a handler never runs without its pipe.
* Input line: what is executed is exactly the short lines of the input, in order.
* Parser: it accepts exactly the lines of its grammar, gives the commands the grammar
  gives, and overruns no array.
* Dispatcher: every prompt finds the descriptors as they were; output lands where the
  line says, and reports of the shell never in a file of a command.
* Executor: no child runs before its job is published; a failed launch leaves nothing;
  the gate turns nobody away for nothing.
* Job table: no child is lost; what the table says agrees with the kernel; the shell never
  sleeps without somebody who can wake it; the terminal is where it belongs; the shutdown
  leaves nothing behind.
* Configuration: a load adopts the whole file or nothing, from the place fixed at the start.
* LED control: `led` says what it did; a failure half-way leaves the LED in a state it knows.
* Information and monitors: each reading is shown with the entry it was read for, whatever
  the order of the directory and whatever could not be read; a process list is ordered,
  without duplicates, and complete for those that were there all the time.

## 2. The modules

| Module | Models | Role |
|---|---|---|
| `SignalService` | - | abstract: a change or an interrupt stays outstanding until it is served, and is served |
| `EventLoop` | `sig.c`, `event.c`, `shell_init`, `shell_run`, `shell_cleanup` | implements `SignalService` |
| `ShellInput` | `shell_read_input`, `shell_dispatch_input`, `shell_reset_input` | against a reference definition of the lines of an input |
| `StartupGate` | `execute_single`, `execute_pipeline`, `child_prepare_before_gate`, the pipes, the gate, the rollback | the launch, call by call, shell and children interleaved |
| `JobLedger` | - | abstract: a job is listed from its start until all of it is reaped, and then not for ever |
| `JobControl` | `job.c`, the jobs' side of `executor.c`, `builtin.c` and `terminal.c` | implements `JobLedger`; takes a launch for one step |
| `Parser` | `parser.c`, `command.c` | against a reference grammar |
| `BuiltinRedirect` | `dispatcher.c`, `main.c` | the descriptors and stdout of the shell process |
| `BuiltinCall` | what builtins share: one runs at a time; `strtol`, `long` to `int` | extended by the five that follow |
| `ConfigStore` | - | abstract: settings replaced whole or not at all |
| `Configuration` | `shell_context.c`, `config.c`, `reload`, `cd` | implements `ConfigStore` |
| `LedControl` | `led_control.c`, the writes of `sysfs_io.c` | the two writes and their read backs, with others writing |
| `DeviceSurvey` | the loops over `/sys` of `thermal_monitor.c`, `network_monitor.c`, `hardware_info.c` and `get_thermal_info` | one pass over a directory; `RuntimeSnapshot` and `SystemInfo` extend it |
| `RuntimeSnapshot` | `runtime_monitor.c`, `runtime_snapshot.c`, `cmd_monitor` | `monitor` |
| `SystemInfo` | `hardware_info.c`, `system_info.c`, `device_tree.c` | `hwinfo`, `led list`, `led info`, `sysinfo`, `dtinfo` |
| `ProcessMonitor` | `process_monitor.c`, `cmd_psinfo` | `psinfo`, while processes begin and end |
| `Builtins` | `builtin_table.c`, `builtin.c`, `shell_normalize_status` | composes them: a session of builtins after the start of the shell |
| `EventLoopProofs`, `StartupGateProofs`, `JobControlProofs`, `ShellInputProofs`, `ParserProofs`, `BuiltinRedirectProofs`, `BuiltinsProofs` | - | theorems about the module of that name |
| `ReadingsProofs` | - | the second half of the theorems about `Builtins`: what is read, listed and shown |
| `MC*` | - | instances for TLC |

How they fit together: `EventLoop` decides *when* a child is polled, a line is reset or a
byte is read, and takes a command for the child it starts. `ShellInput` is the read of a
byte in detail, `Parser` what becomes of a line, `BuiltinRedirect` and `StartupGate` the
two ways to run a command, `Builtins` what the handler of a builtin does, and `JobControl`
what becomes of a job after `StartupGate` has `launched` it. Each takes its neighbours for
one step, the granularity at which they interact in a program with one thread.

### State and actions against the code

`PROJECT.json` maps each definition to its lines. In short:

* **`EventLoop`**. `pc` is the place in `shell_init`, `shell_run` or `shell_cleanup`, one
  value per system call or access to the flag. `pending` is `pending_events`, `kernel` the
  signals pending in the kernel, `disp` and `blocked` the dispositions and the mask,
  `bytes` and `ends` the pipe. `Deliver(s)` runs the handler at any place where `s` is not
  blocked: it sets the bit and writes a byte if there is room. `StrayByte` is a child that
  still has the pipe of the shell. `changed` holds the children whose change `waitpid`
  has not reported, and `interrupted` is history: a ^C the line has not been reset for.
* **`ShellInput`**. `buffer` is `input_buffer` up to `input_length`. `events` and `lines`
  are the history the reference definition compares.
* **`StartupGate`**. `ppc` is the place of the shell in the launch, `cpc[c]` that of a
  child in `child_prepare_before_gate`; the gate is `tokens` bytes and the set of those who
  can write to it. The rollback (`close_gate`, `kill_group`, `kill_each`, `reap`) is part of
  it. `Killed` is a SIGKILL from outside. `wires` are the ends of the pipes between commands
  that the shell has open, `ends[c]` those of a child from `fork` on; a program has those
  that are left when it starts.
* **`JobControl`**. `table`, `status`, `cached`, `wait_status`, `saved`, `job` are the list
  of jobs and its fields; `kst`, `rep`, `code`, `grp`, `desc`, `tty`, `modes` are the
  kernel's. `rep[p]` is the last change of `p` that `waitpid` has not reported; `code[p]`
  gets to the shell only through a report, into `wait_status[p]`. A job is named by its group, so the
  order of the list is the order of the names. A loop over
  processes is one step per `waitpid`.
* **`Parser`**. One step is one turn of the loop of `tokenize` or `build_command`. Each
  `malloc` and `strdup` may fail.
* **`BuiltinRedirect`**. `fd` is the descriptor table, `text` says where a report of the
  shell and the output of the builtin are: in the buffer of stdout, lost, or in what a
  descriptor was open on. Every call may fail.
* **`Builtins`**. `call` is the step of the running builtin, `ret` what its handler
  returned; `Finish` makes it the `last_exit_status`. What a handler keeps in local
  variables is reset there.
* **`Configuration`**. `path` is `config_file`, `config` the settings in force, `temporary`
  the copy the lines are parsed into, `content` and `at` the open file. A line is what the
  parser tells apart: its key, the class of its value, and the number. `origin` is history.
* **`LedControl`**. `led` is the LED as the kernel has it, `goal` the command, `before` and
  `touched` history. A write may be ignored by the driver, and one that fails may have had
  its effect.
* **`DeviceSurvey`**. `slots` is the array, `slot` the element it is about to fill (which
  keeps what an abandoned entry left in it), `offered` history: what each entry was read as.
* **`RuntimeSnapshot`**, **`SystemInfo`**. `sample` and `usage` are the two CPU samples,
  `shown` the zone and the interface on the screen; `cpuinfo`, `best_rank` and `cpu_model`
  the choice of the CPU's name; `buffer`, `offset` and `compatible` the splitting of the
  device tree property.
* **`ProcessMonitor`**. `alive` are the processes of the machine, `walked` those `readdir`
  has returned, `list` and `capacity` the growing array, `stayed` and `seen` history.

## 3. The runs

| Run | Bounds | Distinct states |
|---|---|---|
| `event_loop` | 2 children, pipe of 2 bytes, drained 1 at a time, 3 signals or changes, 2 bytes of input | 242 877 |
| `job_control` | 3 processes, pipelines of 2, limits 1 and 2, 2 stops or continues, 1 failing terminal call | 1 282 370 |
| `job_control_wild` | 3 processes, pipelines of 2, exit codes 0 and 1, programs leave groups and leave descendants | 3 327 359 |
| `job_control_live` | 2 processes, 2 stops or continues, 1 failing call, 2 shutdown retries | 96 177 |
| `job_control_leaver` | 2 processes, 1 stop, programs leave their group | (violation) |
| `shell_input` | lines of 2 bytes, all inputs of 7 events over 2 letters, `\r`, `\n`, ^C, end | 199 787 |
| `shell_input_overlong` | the same with one letter | (violation) |
| `startup_gate` | pipelines of 3, 1 signal, 1 failing call | 227 599 |
| `startup_gate_early` | 1 process, 1 signal | (violation) |
| `parser` | all lines of 4 characters, two families of lines of 6; 5 tokens of 2 characters, 2 arguments | 112 541 |
| `builtin_redirect` | descriptors 0 to 7, 2 failing calls, 2 command lines | 86 392 |
| `builtins` | every builtin; files of 3 lines in all, numbers around the largest int and long, 1 write of another process, 3 entries for arrays of 2, counters to 2, a property of 6 bytes, 4 processes and a list of 1 | 355 710 |

What they show:

* **`event_loop`**: no order of signals, handler runs, stray bytes and steps of the loop
  loses a wakeup (`NoLostWakeup`), a child or a ^C (`NothingForgotten`), and
  `HandlerHasPipe` holds through start and cleanup. Under fairness the end of the input ends
  the shell, and the loop implements `SignalService`, liveness included: each change is
  reported, each ^C resets the line. Two bytes with a drain of one suffice for a full pipe,
  a partial drain and a dropped byte; three signals, with the end of a foreground child that
  is not counted, for a handler in the windows before, between and after drain and take.
* **`job_control`**: `StatusAgrees` (the table is right about a process but for a change
  not yet reported), `NeverWaitsInVain`, `TerminalPlaced`, `NoFinishedJob` (`fg`, `bg` and
  the limit never meet a job that has ended), `LimitHolds` (with a limit that `reload`
  changes). Three processes give a pipeline and a second job, or three jobs one after another.
* **`job_control_wild`**: programs that leave their group or leave descendants behind.
  `NoChildLost`, `NothingLeft` after the shutdown, and `StatusOfLast`: the status of a
  foreground job, computed from `wait_status`, is the kernel's status of its last program,
  when `job_reap` was told of its end while the job was stopped as well as when
  `job_wait_foreground` was told after a stop and a continuation.
* **`job_control_live`**: `EveryChangeSeen`, `WaitReturns`, `ShutdownEnds` although
  programs may ignore SIGTERM, and the refinement of `JobLedger`.
* **`shell_input`**: the lines are exactly the short pieces of the input between newlines
  and interrupts. A buffer of three bytes has room for lines of two, so that lines that
  just fit and just do not, and a second over-long line, all occur.
* **`startup_gate`**: `PublishedFirst`, `RollbackClean`, `NoFalseRefusal`,
  `HeldInterruptActs`, `PipesConnect` (a program has the two ends it needs and no other, so
  its reader sees the end of its output; the shell keeps none), and that the launch ends.
  Three processes have a first, a middle and a last one; one fault reaches every failure
  path, and one signal every place of a child.
* **`parser`**: `TokensCoverLine`, `ParsesGrammar`, and in `TypeOK` the bounds of the
  arrays and of a pipeline. The lines of six characters fill the token array, repeat a
  redirection, and put one behind a pipe.
* **`builtin_redirect`**: `TableRestored`, `StandardReserved`, `TextPlaced` (output is where
  the line says, and a report of the shell never in the file of a command). With a terminal
  the table has room for one redirected stream, and the second runs out of descriptors; two
  faults let the way back fail after the way in has.
* **`builtins`**: `ImplementsStore`, `LedHonest`, `ReadingsRight`, `ProcessesListed`. The
  sessions reload twice with `cd` in between, with a file named relative to the working
  directory and one that is not, and run each other builtin once: none of these leaves state
  behind but the settings, the directory and the status. A file of three lines repeats a key
  and fails at the last line; the numbers are 0, one that is an int, one that is a long only
  and one that is neither; three entries overrun two places; six bytes hold more items than
  two, empty ones among them; a list of one place has to grow twice.

`CHECK_DEADLOCK FALSE` is said only of `ShellInput`, whose behaviours end at the bound on
events; the other modules have a step for the state in which the program has ended.

Every property of a passing run has a mutant: a change of one mapped definition, as a
plausible slip in the code would make it, under which TLC finds that property violated.

### Fairness

* `EventLoop`: weak fairness of the thread (one schedulable process), of the delivery of
  each signal (the kernel delivers an unblocked signal at the latest at the next return to
  user mode), and of the end of a foreground child. The last is an assumption about
  programs: a shell whose foreground program never ends has nothing to promise.
* `JobControl`: weak fairness of the steps of the shell and of the end of a foreground
  program. Nothing is assumed of background programs or of the user.
* `Builtins` and `BuiltinRedirect`, `Parser`, `ShellInput`: none; their properties are
  safety properties.
* `StartupGate`: weak fairness of the shell and of each child's preparation and signal
  delivery. Nothing is assumed of `open` (a FIFO may keep a child for ever), of programs or
  of signals from outside; `LaunchEnds` does not need them.

### Findings

Three runs end in a counterexample to what a document of the repository says.

1. **`job_control_leaver`** (`NeverWaitsInVain`, `src/job.c:391`). `job_wait_foreground`
   waits with `waitpid(-pgid)` until every process of the job has stopped or ended. A
   process of the job that has moved to a group of its own is never reported there; if the
   rest of the group is stopped with ^Z, the shell sleeps with the terminal given away.
   `docs/test.md:318-321` and `docs/module.md:399` say the wait follows the whole group.
2. **`shell_input_overlong`** (`OverlongDiscarded`, `src/shell.c:24`). A ^C in the middle
   of an over-long line ends the discarding, so the rest up to the newline is executed as a
   line; `docs/architecture.md:150` says it is discarded up to the newline. A terminal in
   its usual mode drops its input queue on ^C, so the case needs bytes that come after it.
3. **`startup_gate_early`** (`EveryInterruptActs`, `src/executor.c:129`). A child blocks
   SIGINT itself, some time after `fork`. If the shell hands the terminal over before, a ^C
   runs the handler the child inherited, and the program starts as if nothing was typed;
   `docs/test.md:190-213` says the foreground group ends. `HeldInterruptActs` shows, and
   `HeldInterrupts` proves, that from the blocking on nothing is lost.

## 4. The proofs

All theorems are safety theorems of `Spec`, without fairness, and hold for every value of
the constants the module's assumption allows (`LoopAssumption`, `GateAssumption`,
`JobAssumption`, `InputAssumption`, `ParserAssumption`, `RedirectAssumption`, and for
`Builtins` those of the modules it composes): any number of children, processes and
commands, any sizes of pipe, buffer, arrays and descriptor table, any bounds on signals and
failures, any files, triggers and numbers. Where a theorem needs more, its statement says
so with `ASSUME`.

**`EventLoopProofs`**

* `TypeCorrect`: `TypeOK`. The Boolean variables and the rest are separate inductive parts.
* `WakeupKept`: `NoLostWakeup` is inductive next to the types. A delivery that finds the
  pipe full leaves bytes behind it; the only step that takes bytes is the drain, and from
  there to the end of the taking the thread is `AboutToTake`.
* `HandlersHavePipe`: from `PlaceInv`, which says at each place of start and cleanup which
  ends of the pipe are open and which handlers are installed. The property alone is
  not inductive: it does not say what a later step of the cleanup will find.
* `EventsKept`: `NothingForgotten`, from `PlaceInv` and `TakeInv`. The latter says that all
  signals are blocked between the reading and the clearing of the flag, so that what is
  cleared is what was read.
* `ServiceRespected`: the safety part of `ImplementsService`: every step of the loop is one
  of `SignalService` or leaves it as it is.

**`StartupGateProofs`**. The invariant `IInv` has one part per concern: `ProgressInv` (how
far the launch has come: group, table, terminal), `GateInv` (a byte in the gate, or one
that was in it, means the job is published), `RollbackInv` (which children have ended and
been reaped) and `ByteInv` (each byte that is gone was taken by a child that is past the
gate or has ended). `ChildMoves` sums up what a step of a child can do, so that each part
is shown once for all children.

* `PublishedBeforeRun`: no child runs before the group, the job, its processes and the
  terminal are in place.
* `RollbackLeavesNothing`: a failed launch has reaped every child, and the job and the
  terminal are as before.
* `NoneRefused`: a waiting child is turned away only by a rollback. The argument counts: a
  launch that succeeded wrote one byte per process, a child that waits is not among those
  that account for bytes that are gone, so fewer bytes are gone than were written.
* `HeldInterrupts`: a ^C that came while the child had SIGINT blocked ends it, from
  `HeldInv` (blocked until the handlers are reset, then pending until it is delivered).
* `PipesConnected`: `PipesConnect`, from an invariant that says which ends the shell holds
  after each fork and each child at each place of its preparation.
* `TypeCorrect`: `TypeOK`.

**`JobControlProofs`**. All safety properties of the job table. The invariant is
`IInv == TypeOK /\ DataInv /\ StatusInv /\ PlaceInv /\ FinishedInv /\ ShutInv /\ KeptInv`.
`DataInv` relates the table to the kernel: `BornInv` (numbers not yet given are unused), `JobsInv`
(each job has a last process), `RepInv` (what the kernel may hold back for a process in
each state) and `CachedInv` (a process that exists is in the table and not done there, and,
if programs stay in their groups, what is cached of it is what the kernel would say but for
a report that is due). `StatusInv` says that the status of a job follows from its processes
unless a walk has still some of them to visit, `PlaceInv`, `FinishedInv` and `ShutInv` what
holds at each place of a wait and of the shutdown. `KeptInv` says that a process of the
table that has been reaped counts as done and has its exit in `wait_status`: the exit is the
last that any wait is told, and the branches for `ECHILD` meet no process whose exit was
not told.

* `TypeCorrect`, `ChildrenKept` (`NoChildLost`), `ShutdownClean` (`NothingLeft`),
  `JobsAreActive` (`NoFinishedJob`) and `LimitKept` (`LimitHolds`) need nothing more.
* `LastStatusLeft` (`StatusOfLast`) needs nothing more either: by `StatusInv` the processes
  of a job that ends are all done, so the last one has been reaped, and by `KeptInv` its
  exit is what `job_exit_status` finds. The `-1` of that function is never returned.
* `StatusRight` (`StatusAgrees`) and `WaitsWithReason` (`NeverWaitsInVain`) assume that
  programs stay in the groups of their jobs, which `job_control_leaver` shows to be needed.
* `TerminalHome` (`TerminalPlaced`) assumes the same and at most one failing terminal call.
* `LedgerRespected`: the safety part of `ImplementsLedger`.

**`ShellInputProofs`**. `LinesExecuted`: what is executed is exactly the short pieces of
the input, for inputs of any length. `StartInv` says where a piece begins, `LineInv` that
the buffer is the last piece as long as it fits, and that `discarding` is set when it does
not; `Grows` says what one more event does to all the pieces. The theorem needs no
recursion: the reference defines pieces by the cuts before them. `TypeCorrect` is that the
buffer always has room for its `\0`.

**`ParserProofs`**. `ArraysHold`: for lines of any length the parser stays within the
tokens, their text, the arguments and the commands of a pipeline. The invariant counts:
each command but the last has used up two tokens, its word and the bar behind it, so that
the array of tokens limits the pipeline. `LineCovered` (`TokensCoverLine`): the tokens are
the pieces of the line. By `CoverInv` the place tokenize has come to is a blank or a start
of the reference, and the tokens so far are those that start before it; a row of `>` is
followed by its parity. `GrammarParsed` (`ParsesGrammar`): for any line and any limits
`build_command` accepts exactly the grammar of token lists and returns what the list
denotes. The invariant `SoFar` says of each command what the tokens before the next one say
of it (`Said`), that they keep the rules so far, and which command they have reached. Each
turn that goes on extends it (`WordTurn`, `RedirectTurn`, `BackgroundTurn`, `BarTurn`). Each
refusal has met something that no later token can mend (`TooManyArgs`, `BadRedirect`,
`BadBackground`, `BadBar`), which is what one pass without a look back needs. The recursion
of a grammar is avoided: the reference counts bars and words instead.

**`BuiltinRedirectProofs`**. `TableComesBack` (`TableRestored`) and `StandardKept`
(`StandardReserved`) follow what each descriptor is open on, from the fact that `open` and
`dup` give the lowest free number; `TextInPlace` (`TextPlaced`) follows the buffer of
stdout over every change of descriptor 1 (`TextInv`: its parts are about the file, the
reports and the output). `TypeCorrect`: `TypeOK`.

**`BuiltinsProofs`**. `LedTold` (`LedHonest`), from `LedSoFar`: what is known of the LED at
each step of a command that nobody has disturbed. `ConfigurationStored`: `Builtins`
implements `ConfigStore` in full, as that has no fairness; `ReadSoFar` says that the copy
is what the lines read so far mean.

**`ReadingsProofs`**. What the information commands and monitors find, for any directories,
files and processes. One invariant per component, and each is indifferent to the calls of
the others (`SurveyPlaced`, `SnapshotPlaced`, `InfoPlaced`, `WalkPlaced`).

* `ReadingsAreRight` (`ReadingsRight`). By `SurveyInv` each element of an array is what was
  read for an entry the directory offered, each such entry that could be read has one
  element, and once zones or interfaces are surveyed they are in the order of their names.
  `SnapshotInv` says that the zones put aside for `monitor` keep that order while the
  interfaces are surveyed, and that a share of processor time or memory is within its
  whole; `CpuInv` that the line of `cpuinfo` kept so far is the first of the best kind;
  `SplitInv` that the offset into `compatible` is behind a `\0` and every run of characters
  before it was taken.
* The hottest zone is found by one pass over the array. The fold that stands for the pass
  is a function on the subsets of the positions, so that what it returns is shown without
  induction over data: if it were wrong for some subset, it would be wrong for a smallest
  one (`SmallestSubset`), which the last turn of the pass refutes (`HottestScans`). That the
  zone and the interface shown are those of the reference is `HottestIs` and `PrimaryIs`.
* `qsort` may leave elements that compare equal in any order. The models take any
  arrangement that is in order; `SortsExist` shows that there always is one, so that the
  step is never stuck, and `Arranged` that none is lost or made up.
* `ProcessesAreListed` (`ProcessesListed`). By `ProcessInv` a process with a name that was
  there all the time is in the list once the walk is past it, but for the one whose status
  is read next, and none is listed twice. `PidUnchanged`: of the numbers typed, `psinfo`
  accepts those of processes only, and the conversion to `pid_t` does not change them.
* `BuiltinsTyped`: `TypeOK` of `Builtins`, from the invariants above and `SettingsInv`, by
  which a limit on jobs that was accepted is a positive `int`.

**Model-checked only.** Liveness (`EofEndsShell`, `EveryChangeSeen`, `WaitReturns`,
`ShutdownEnds`, `LaunchEnds`) and the fairness parts of `ImplementsService` and
`ImplementsLedger` are out of the prover's reach. Every other property of a passing run is a
theorem, `TerminalPlaced`, `StatusAgrees` and `NeverWaitsInVain` under the assumptions named
above.

## 5. What is not modelled, and why

* Failing calls the code only logs or gives up on: `sigaction` and `sigprocmask`, `select`
  and `read` of the event pipe. `JobControl` takes at most one failing terminal call: to
  two in a row the code has no answer.
* The death of the shell in the middle of a launch: who still holds the gate would then
  decide whether its children ever leave it.
* Reuse of process numbers, and a foreign process that joins the group of a job.
* The files of an external command: `StartupGate` keeps that a redirection may fail or
  sleep, and that it takes the place of a pipe.
* The branch of `execute_pipeline` that refuses more than `MAX_PIPELINE` commands:
  `ArraysHold` shows that the parser never gives it so many.
* `command_free` and the heap: the models have no memory to leak.
* The contents of `termios`, what a listing looks like, the truncation of names in it, the
  trimming of texts from `/sys`, the beginning of a text that a failing read may leave, the search of a program's directory with `readlink` beyond
  what it can find.
* Logging but for its level, error texts, the tables of constants, the build, the release
  checks and the tests.

## 6. Plan

Done: first what a lost wakeup or a lost child would break (`EventLoop`, `JobControl`,
`ShellInput`, `StartupGate`, `Parser`, `BuiltinRedirect`), then the pipes of a launch, the
configuration, the LED, and the information commands and monitors (`Builtins`), and with
each the proofs of its safety properties.

What is left: a second failing terminal call in `JobControl`, and what the shell could
still promise after it (see the hazard at `src/builtin.c:161`).
