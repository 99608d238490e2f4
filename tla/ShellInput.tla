----------------------------- MODULE ShellInput -----------------------------
(***************************************************************************)
(* The input line of the shell (shell.c): shell_read_input, which reads    *)
(* one byte at a time, shell_dispatch_input and shell_reset_input.  The    *)
(* main loop interleaves them with a ^C at any byte (EventLoop shows when  *)
(* the loop serves it) and with the end of the input.                      *)
(*                                                                         *)
(* What the shell took in is kept as one sequence of events, the bytes,    *)
(* the interrupts and the end, and the lines it dispatched as another.     *)
(***************************************************************************)
EXTENDS Naturals, Sequences, FiniteSets

CONSTANTS Letters,      (* bytes that are neither a newline nor a \r       *)
          Size,         (* SHELL_INPUT_SIZE                                *)
          Success,      (* the status of a command that did what it should *)
          Failure,      (* the status of a command that failed             *)
          BadLine,      (* the status of a line that is no command: 2      *)
          MaxEvents     (* bound: bytes, interrupts and end                *)

ASSUME InputAssumption ==
    /\ Letters \cap {"cr", "nl", "int", "eof"} = {}
    /\ Size \in Nat \ {0, 1}
    /\ MaxEvents \in Nat
    /\ Cardinality({Success, Failure, BadLine}) = 3

Bytes  == Letters \cup {"cr", "nl"}
Events == Bytes \cup {"int", "eof"}
Status == {Success, Failure, BadLine}

VARIABLES buffer,       (* input_buffer[0 .. input_length - 1]             *)
          discarding,   (* input_discarding                                *)
          last,         (* last_exit_status                                *)
          running,      (* the main loop is being executed                 *)
          events,       (* history: what the shell took in                 *)
          lines,        (* history: what was handed to parse_line          *)
          overlong      (* history: the line being typed was too long      *)

vars == <<buffer, discarding, last, running, events, lines, overlong>>

Init ==
    /\ buffer = <<>>
    /\ discarding = FALSE
    /\ last = Success
    /\ running = TRUE
    /\ events = <<>>
    /\ lines = <<>>
    /\ overlong = FALSE

-----------------------------------------------------------------------------
(* The line has a \r before its newline if it comes from such a file.      *)
Trimmed(line) ==
    IF line # <<>> /\ line[Len(line)] = "cr" THEN SubSeq(line, 1, Len(line) - 1) ELSE line

(* There is no room for one more byte and the final \0.                    *)
Full_LateByOne(line) == Len(line) >= Size     \* mutant: no room for the \0
Full(line) == Len(line) + 1 >= Size

(* shell_reset_input *)
StillDiscarding_Kept == discarding            \* mutant: only the length is reset
StillDiscarding == FALSE
Reset == buffer' = <<>> /\ discarding' = StillDiscarding

Blank(line) == \A i \in DOMAIN line : line[i] = "cr"

(* shell_dispatch_input: a blank line is no command and leaves the status; *)
(* any other fails to parse, or is executed and may be the builtin exit.   *)
Dispatch ==
    LET line == Trimmed(buffer) IN
    /\ lines' = Append(lines, line)
    /\ IF Blank(line)
       THEN UNCHANGED <<last, running>>
       ELSE \/ last' = BadLine /\ UNCHANGED running
            \/ last' \in {Success, Failure} /\ running' \in BOOLEAN
    /\ Reset

Take(e) ==
    /\ running
    /\ Len(events) < MaxEvents
    /\ events' = Append(events, e)

ReadNewline ==
    /\ Take("nl")
    /\ overlong' = FALSE
    /\ IF discarding
       THEN Reset /\ UNCHANGED <<last, running, lines>>
       ELSE Dispatch

ReadByte(c) ==
    /\ c # "nl"
    /\ Take(c)
    /\ \/ /\ discarding
          /\ UNCHANGED <<buffer, discarding, last, overlong>>
       \/ /\ ~ discarding /\ ~ Full(buffer)
          /\ buffer' = Append(buffer, c)
          /\ UNCHANGED <<discarding, last, overlong>>
       \/ /\ ~ discarding /\ Full(buffer)
          /\ buffer' = <<>>
          /\ discarding' = TRUE
          /\ overlong' = TRUE
          /\ last' = BadLine
    /\ UNCHANGED <<running, lines>>

(* The end of the input dispatches what was typed of the last line, unless *)
(* it is being discarded, and ends the main loop.                          *)
ReadEof ==
    /\ Take("eof")
    /\ IF ~ discarding /\ buffer # <<>>
       THEN LET line == Trimmed(buffer) IN
            /\ lines' = Append(lines, line)
            /\ IF Blank(line) THEN UNCHANGED last ELSE last' \in Status
       ELSE UNCHANGED <<last, lines>>
    /\ Reset
    /\ running' = FALSE
    /\ UNCHANGED overlong

(* shell_run has taken SIGNAL_EVENT_INTERRUPT.                             *)
ServeInterrupt ==
    /\ Take("int")
    /\ Reset
    /\ UNCHANGED <<last, running, lines, overlong>>

Next == \/ ReadNewline
        \/ \E c \in Bytes : ReadByte(c)
        \/ ReadEof
        \/ ServeInterrupt

Spec == Init /\ [][Next]_vars

-----------------------------------------------------------------------------
(* Properties *)

(* The buffer always has room for the final \0.                            *)
TypeOK ==
    /\ buffer \in Seq(Bytes \ {"nl"}) /\ Len(buffer) < Size
    /\ discarding \in BOOLEAN
    /\ last \in Status
    /\ running \in BOOLEAN
    /\ events \in Seq(Events)
    /\ lines \in Seq(Seq(Bytes \ {"nl"}))
    /\ overlong \in BOOLEAN

(* The reference: the input is cut at newlines and interrupts; a piece     *)
(* that a newline ends, or the end of the input if it is not empty, and    *)
(* that is short enough, is a line.                                        *)
Start(j) == LET cuts == {i \in 1..(j - 1) : events[i] \in {"nl", "int"}}
            IN  IF cuts = {} THEN 1 ELSE 1 + (CHOOSE i \in cuts : \A k \in cuts : k <= i)
Piece(j) == SubSeq(events, Start(j), j - 1)
LineEnds == {j \in DOMAIN events :
                /\ \/ events[j] = "nl"
                   \/ events[j] = "eof" /\ Piece(j) # <<>>
                /\ Len(Piece(j)) < Size}

(* What is executed is exactly the short pieces of the input, in order:    *)
(* bytes of two lines are never joined, no piece is executed twice, and no *)
(* part of a piece that was too long or was interrupted is executed.       *)
LinesAreSegments ==
    /\ Len(lines) = Cardinality(LineEnds)
    /\ \A j \in LineEnds :
          lines[Cardinality({i \in LineEnds : i <= j})] = Trimmed(Piece(j))

(* docs/architecture.md: a line that is too long is discarded up to the    *)
(* next newline.  A ^C in the middle of it makes the rest a line of its    *)
(* own, which is executed.                                                 *)
OverlongDiscarded ==
    [][lines' # lines => ~ overlong \/ Blank(lines'[Len(lines')])]_vars
=============================================================================
