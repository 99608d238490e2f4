----------------------- MODULE BuiltinRedirectProofs -----------------------
(***************************************************************************)
(* The descriptors come back, and output and reports land where they       *)
(* belong, for any table, any number of command lines and of failures.     *)
(***************************************************************************)
EXTENDS BuiltinRedirect, WellFoundedInduction, TLAPS

(* The lowest of a set of descriptors is one of them.                      *)
LEMMA LowestIn ==
    ASSUME NEW S, S \subseteq Nat, S # {}
    PROVE  Lowest(S) \in S
<1> DEFINE R == {ss \in Nat \X Nat : ss[1] < ss[2]}
<1>1. IsWellFoundedOn(R, Nat)
  BY NatLessThanWellFounded DEF OpToRel
<1> HIDE DEF R
<1>2. \E x \in S : \A y \in S : ~ (<<y, x>> \in R)
  BY <1>1, WFMin
<1>3. PICK x \in S : \A y \in S : ~ (<<y, x>> \in R)
  BY <1>2
<1>4. \A y \in S : x <= y
  <2> TAKE y \in S
  <2>1. x \in Nat /\ y \in Nat
    OBVIOUS
  <2>2. ~ (<<y, x>> \in R)
    BY <1>3
  <2>3. ~ (y < x)
    BY <2>1, <2>2 DEF R
  <2> QED BY <2>1, <2>3
<1> QED BY <1>4 DEF Lowest

Started == pc \notin {"ensure", "init"}

(* The types the argument needs.                                           *)
Types ==
    /\ fd \in [Descriptors -> Objects] /\ home \in [Descriptors -> Objects]
    /\ side \in Standard
    /\ saved \in [{0, 1} -> {-1} \cup 3..MaxFd]
    /\ temp \in {-1} \cup Descriptors /\ (temp # -1 <=> pc = "dup")
    /\ running \in BOOLEAN

(* During the start: nothing is redirected, the lower descriptors are made *)
(* sure of from 0 on, and the shell has opened nothing for itself.         *)
StartInv ==
    /\ ~ Started \/ pc \in {"prompt", "idle"} => saved = [s \in {0, 1} |-> -1]
    /\ ~ Started => running /\ \A f \in Descriptors : fd[f] \notin Own /\ home[f] \notin Own
    /\ pc = "ensure" => \A s \in Standard : s < side => fd[s] # "closed"
    /\ pc = "init" => \A s \in Standard : fd[s] # "closed"

(* What was there at the start is where it was, or in its copy.            *)
Copied(s) == saved[s] # -1
Kept(f) ==
    \/ fd[f] = home[f]
    \/ f = temp /\ home[f] = "closed"
    \/ \E s \in {0, 1} : f = saved[s] /\ home[f] = "closed" /\ fd[f] = home[s]

TableInv ==
    Started =>
        /\ \A s \in Standard : home[s] \notin Own
        /\ \A s \in Standard : fd[s] \notin Own
        /\ pc # "exit" =>
              /\ \A s \in Standard : home[s] # "closed" /\ fd[s] # "closed"
              /\ \A f \in 3..MaxFd : Kept(f)
              /\ \A s \in {0, 1} : Copied(s) =>
                    /\ home[saved[s]] = "closed" /\ fd[saved[s]] = home[s]
                    /\ saved[s] # saved[1 - s] /\ saved[s] # temp
              /\ temp # -1 => /\ temp >= 3 /\ home[temp] = "closed"
                                /\ fd[temp] \notin Own \cup {"closed"}
              /\ fd[2] = home[2]
              /\ running => \A s \in {0, 1} : ~ Copied(s) => fd[s] = home[s]

(* The stream at hand is not saved twice, and restored from 1 down to 0.   *)
PlaceInv ==
    /\ pc \in {"prompt", "idle", "flush_before", "save", "open", "dup", "handler"} => running
    /\ pc = "flush_before" => saved[0] = -1 /\ saved[1] = -1
    /\ pc = "save" => side \in {0, 1} /\ saved[side] = -1 /\ (side = 1 => saved[0] = -1)
    /\ pc \in {"open", "dup"} => side \in {0, 1} /\ Copied(side) /\ (side = 1 => saved[0] = -1)
    /\ pc \in {"flush_before"} => side = 1
    /\ pc = "flush_after" => side = 1
    /\ pc = "restore" => side \in {0, 1} /\ (side = 0 => saved[1] = -1)

IInv == Types /\ StartInv /\ TableInv /\ PlaceInv

(* A descriptor that is free was free at the start.                        *)
LEMMA FreeWasFree ==
    ASSUME IInv, Started, pc # "exit", temp = -1, NEW f \in Descriptors, fd[f] = "closed"
    PROVE  /\ f \in 3..MaxFd /\ home[f] = "closed"
           /\ \A s \in {0, 1} : f # saved[s]
<1>1. f \notin Standard
  BY DEF IInv, TableInv
<1>2. f \in 3..MaxFd
  BY <1>1, RedirectAssumption DEF Descriptors, Standard
<1>3. \A s \in {0, 1} : f # saved[s]
  BY <1>2, RedirectAssumption DEF IInv, Types, TableInv, Copied, Standard
<1>4. Kept(f)
  BY <1>2 DEF IInv, TableInv
<1> QED BY <1>2, <1>3, <1>4 DEF Kept

(* Before main nothing is saved and nothing redirected.                     *)
LEMMA Initially == Init => IInv
<1> SUFFICES ASSUME Init PROVE IInv
  OBVIOUS
<1>1. fd \in [Descriptors -> {"closed", "in", "out", "err"}]
  <2>1. PICK open \in SUBSET Standard :
          fd = [f \in Descriptors |-> IF f \in open THEN Stream[f + 1] ELSE "closed"]
    BY DEF Init
  <2>2. Stream[1] = "in" /\ Stream[2] = "out" /\ Stream[3] = "err"
    BY DEF Stream
  <2>3. \A f \in Standard : f = 0 \/ f = 1 \/ f = 2
    BY DEF Standard
  <2>4. \A f \in Standard : Stream[f + 1] \in {"in", "out", "err"}
    BY <2>2, <2>3
  <2> QED BY <2>1, <2>4
<1>2. /\ home = fd /\ pc = "ensure" /\ side = 0 /\ running = TRUE /\ temp = -1
      /\ saved = [s \in {0, 1} |-> -1]
  BY DEF Init
<1>3. Types
  BY <1>1, <1>2, RedirectAssumption DEF Types, Objects, Standard
<1>4. StartInv
  BY <1>1, <1>2 DEF StartInv, Started, Own, Standard
<1> QED BY <1>2, <1>3, <1>4 DEF IInv, TableInv, PlaceInv, Started

(* ensure_standard_fd fills the lowest free descriptor.                     *)
LEMMA EnsureStep == ASSUME IInv, Ensure PROVE IInv'
<1>1. pc = "ensure" /\ saved = [s \in {0, 1} |-> -1] /\ temp = -1 /\ UNCHANGED <<home, saved, temp, running>>
  BY DEF IInv, StartInv, Started, Types, Ensure
<1>2. CASE Ensured(side) /\ fd' = [fd EXCEPT ![Lowest(FreeFrom(0))] = "null"]
              /\ UNCHANGED <<pc, side>>
  <2>1. Types'
    BY <1>1, <1>2 DEF IInv, Types, Objects
  <2>2. \A f \in Descriptors : fd'[f] = fd[f] \/ fd'[f] = "null"
    BY <1>2 DEF IInv, Types
  <2>3. \A s \in Standard : s \in Descriptors
    BY RedirectAssumption DEF Standard, Descriptors
  <2>4. StartInv'
    BY <1>1, <1>2, <2>2, <2>3 DEF IInv, StartInv, Started, Own
  <2> QED BY <1>1, <1>2, <2>1, <2>4 DEF IInv, TableInv, PlaceInv, Started
<1>3. CASE pc' = "exit" /\ UNCHANGED <<fd, side>>
  <2>1. \A s \in Standard : s \in Descriptors
    BY RedirectAssumption DEF Standard, Descriptors
  <2> QED BY <1>1, <1>3, <2>1 DEF IInv, Types, StartInv, TableInv, PlaceInv, Started
<1>4. CASE /\ ~ Ensured(side) /\ UNCHANGED fd
           /\ pc' = IF side = 2 THEN "init" ELSE "ensure"
           /\ side' = IF side < 2 THEN side + 1 ELSE side
  <2>1. Types'
    BY <1>1, <1>4 DEF IInv, Types, Standard
  <2>2. \A s \in Standard : s <= side => fd[s] # "closed"
    BY <1>1, <1>4 DEF IInv, Types, StartInv, Standard, Ensured
  <2>3. StartInv'
    BY <1>1, <1>4, <2>2 DEF IInv, Types, StartInv, Started, Standard
  <2> QED BY <1>1, <1>4, <2>1, <2>3 DEF IInv, TableInv, PlaceInv, Started
<1> QED BY <1>1, <1>2, <1>3, <1>4 DEF Ensure

(* The start: the pipe and the terminal are above the standard descriptors. *)
LEMMA ShellInitStep == ASSUME IInv, ShellInit PROVE IInv'
<1> DEFINE r == Lowest(FreeFrom(0))
           w == Lowest(FreeFrom(r + 1))
           t == Lowest(FreeFrom(w + 1))
<1>1. /\ pc = "init" /\ saved = [s \in {0, 1} |-> -1] /\ temp = -1
      /\ running /\ running \in BOOLEAN
      /\ UNCHANGED <<side, saved, temp, running>> /\ home' = fd'
      /\ pc' \in {"prompt", "exit"}
  BY DEF IInv, StartInv, Started, Types, ShellInit
<1>2. \A s \in Standard : s \in Descriptors /\ fd[s] # "closed" /\ fd[s] \notin Own
  BY <1>1, RedirectAssumption DEF IInv, StartInv, Started, Standard, Descriptors
<1>3. \A n \in Nat : FreeFrom(n) # {} => Lowest(FreeFrom(n)) \in 3..MaxFd
  <2> TAKE n \in Nat
  <2> HAVE FreeFrom(n) # {}
  <2>1. FreeFrom(n) \subseteq 3..MaxFd /\ FreeFrom(n) \subseteq Nat
    BY <1>2, RedirectAssumption DEF FreeFrom, Standard, Descriptors
  <2> QED BY <2>1, LowestIn
<1>4. FreeFrom(0) # {} => r \in 3..MaxFd
  BY <1>3
<1>5. r \in 3..MaxFd /\ FreeFrom(r + 1) # {} => w \in 3..MaxFd
  BY <1>3
<1>6. w \in 3..MaxFd /\ FreeFrom(w + 1) # {} => t \in 3..MaxFd
  BY <1>3
<1>7. /\ fd' \in [Descriptors -> Objects]
      /\ \A s \in Standard : fd'[s] = fd[s]
  <2> HIDE DEF r, w, t
  <2>0. /\ "pipe_read" \in Objects /\ "pipe_write" \in Objects /\ "tty" \in Objects
        /\ fd \in [Descriptors -> Objects]
        /\ \A s \in Standard : s \notin 3..MaxFd
    BY DEF IInv, Types, Objects, Own, Standard
  <2>1. CASE r \in 3..MaxFd /\ w \in 3..MaxFd
             /\ fd' = [fd EXCEPT ![r] = "pipe_read", ![w] = "pipe_write"]
    BY <2>0, <2>1, <1>2
  <2>2. CASE r \in 3..MaxFd /\ w \in 3..MaxFd /\ t \in 3..MaxFd
             /\ fd' = [[fd EXCEPT ![r] = "pipe_read", ![w] = "pipe_write"] EXCEPT ![t] = "tty"]
    BY <2>0, <2>2, <1>2
  <2>3. CASE fd' = fd
    BY <2>3 DEF IInv, Types
  <2> QED BY <1>4, <1>5, <1>6, <2>1, <2>2, <2>3 DEF ShellInit, r, w, t
<1> HIDE DEF r, w, t
<1>8. Types'
  BY <1>1, <1>7 DEF IInv, Types
<1>9. StartInv' /\ PlaceInv'
  BY <1>1 DEF StartInv, PlaceInv, Started
<1>10. TableInv'
  BY <1>1, <1>2, <1>7 DEF TableInv, Started, Copied, Kept, Standard
<1> QED BY <1>8, <1>9, <1>10 DEF IInv

(* Steps that touch neither the descriptors nor what is saved.             *)
LEMMA TableAlone ==
    ASSUME IInv, Started, pc # "exit", temp = -1,
           UNCHANGED <<fd, home, saved, temp>>,
           pc' \notin {"ensure", "init", "dup"}, side' \in Standard,
           running' \in BOOLEAN, running' => running,
           pc' \in {"prompt", "idle"} => saved = [s \in {0, 1} |-> -1],
           PlaceInv'
    PROVE  IInv'
<1>1. Types'
  BY DEF IInv, Types
<1>2. StartInv'
  BY DEF StartInv, Started
<1>3. TableInv'
  BY DEF IInv, TableInv, Started, Copied, Kept
<1> QED BY <1>1, <1>2, <1>3 DEF IInv

(* Reports, flushes, the command line and the builtin itself.               *)
LEMMA QuietSteps ==
    ASSUME IInv, \/ PrintPrompt \/ Report \/ EndOfInput
                 \/ (\E c \in CommandLine : Dispatch(c))
                 \/ FlushBefore \/ Handler \/ FlushAfter
    PROVE  IInv'
<1>1. /\ pc \notin {"ensure", "init", "dup", "exit"} /\ temp = -1 /\ Started
      /\ running \in BOOLEAN /\ side \in Standard
      /\ pc \in {"prompt", "idle"} => saved = [s \in {0, 1} |-> -1]
  BY DEF IInv, Types, Started, PrintPrompt, Report, EndOfInput, Dispatch, FlushBefore,
         Handler, FlushAfter, StartInv
<1>2. CASE PrintPrompt
  <2>1. PlaceInv'
    BY <1>1, <1>2 DEF IInv, PlaceInv, PrintPrompt
  <2> QED BY <1>1, <1>2, <2>1, TableAlone DEF PrintPrompt
<1>3. CASE Report
  <2>1. PlaceInv'
    BY <1>1, <1>3 DEF IInv, PlaceInv, Report
  <2> QED BY <1>1, <1>3, <2>1, TableAlone DEF Report
<1>4. CASE EndOfInput
  <2>1. PlaceInv'
    BY <1>1, <1>4 DEF IInv, PlaceInv, EndOfInput
  <2> QED BY <1>1, <1>4, <2>1, TableAlone DEF EndOfInput
<1>5. ASSUME NEW c \in CommandLine, Dispatch(c) PROVE IInv'
  <2>1. /\ pc = "idle" /\ side' = FirstSide(c)
        /\ UNCHANGED <<fd, home, saved, temp, running>>
        /\ pc' \in {"prompt", FirstCall(c)}
    BY <1>5 DEF Dispatch
  <2>2. /\ side' \in {0, 1}
        /\ pc' \in {"prompt", "flush_before", "save", "handler"}
        /\ pc' = "flush_before" => side' = 1
    BY <2>1 DEF FirstSide, FirstCall
  <2>3. saved[0] = -1 /\ saved[1] = -1
    BY <1>1, <2>1
  <2>4. PlaceInv'
    BY <1>1, <2>1, <2>2, <2>3 DEF IInv, PlaceInv
  <2> QED BY <1>1, <2>1, <2>2, <2>4, TableAlone DEF Standard
<1>6. CASE FlushBefore
  <2>1. /\ pc = "flush_before" /\ UNCHANGED <<fd, home, saved, temp, running>>
        /\ \/ pc' = "restore" /\ side' = 1
           \/ pc' = "save" /\ UNCHANGED side
    BY <1>6 DEF FlushBefore, Fails
  <2>2. PlaceInv' /\ side' \in Standard
    BY <2>1 DEF IInv, PlaceInv, Standard
  <2> QED BY <1>1, <2>1, <2>2, TableAlone
<1>7. CASE Handler
  <2>1. PlaceInv'
    BY <1>1, <1>7 DEF IInv, PlaceInv, Handler, AfterHandler
  <2>2. running
    BY <1>7 DEF IInv, PlaceInv, Handler
  <2> QED BY <1>1, <1>7, <2>1, <2>2, TableAlone DEF Handler, AfterHandler, Standard
<1>8. CASE FlushAfter
  <2>1. PlaceInv'
    BY <1>1, <1>8 DEF IInv, PlaceInv, FlushAfter
  <2> QED BY <1>1, <1>8, <2>1, TableAlone DEF FlushAfter
<1> QED BY <1>2, <1>3, <1>4, <1>5, <1>6, <1>7, <1>8

(* A step of the redirection that fails changes nothing itself.            *)
LEMMA FailsStep ==
    ASSUME IInv, pc \in {"save", "open"}, Fails, UNCHANGED <<fd, home, saved, temp, running>>
    PROVE  IInv'
<1>1. temp = -1 /\ Started /\ running \in BOOLEAN
  BY DEF IInv, Types, Started
<1>2. PlaceInv'
  BY DEF IInv, PlaceInv, Fails
<1> QED BY <1>1, <1>2, TableAlone DEF Fails, Standard

(* dup keeps the old stream at a free descriptor.                           *)
LEMMA SaveStep == ASSUME IInv, Save PROVE IInv'
<1> DEFINE f == Lowest(FreeFrom(3))
<1>1. /\ pc = "save" /\ temp = -1 /\ Started /\ running /\ side \in {0, 1}
      /\ saved[side] = -1 /\ fd[side] = home[side]
      /\ side = 1 => saved[0] = -1
      /\ UNCHANGED <<home, temp, running>>
  BY DEF IInv, Types, Started, PlaceInv, TableInv, Copied, Save
<1>2. CASE Fails /\ UNCHANGED <<fd, saved>>
  BY <1>1, <1>2, FailsStep
<1>3. CASE FreeFrom(3) # {} /\ UNCHANGED side /\ pc' = "open"
           /\ saved' = [saved EXCEPT ![side] = f] /\ fd' = [fd EXCEPT ![f] = fd[side]]
  <2>1. FreeFrom(3) \subseteq Nat
    BY DEF FreeFrom, Descriptors
  <2>2. f \in Descriptors /\ fd[f] = "closed"
    BY <1>3, <2>1, LowestIn DEF FreeFrom
  <2> HIDE DEF f
  <2>3. /\ f \in 3..MaxFd /\ home[f] = "closed" /\ f \notin Standard
        /\ \A s \in {0, 1} : f # saved[s]
    BY <1>1, <2>2, FreeWasFree DEF Standard
  <2>4. /\ saved' \in [{0, 1} -> {-1} \cup 3..MaxFd]
        /\ saved'[side] = f /\ f # -1
        /\ \A s \in {0, 1} : s # side => saved'[s] = saved[s]
    BY <1>1, <1>3, <2>3 DEF IInv, Types
  <2>5. /\ fd' \in [Descriptors -> Objects]
        /\ fd'[f] = home[side]
        /\ \A g \in Descriptors : g # f => fd'[g] = fd[g]
    BY <1>1, <1>3, <2>2, RedirectAssumption DEF IInv, Types, Descriptors
  <2>6. Types' /\ StartInv' /\ PlaceInv'
    BY <1>1, <1>3, <2>4, <2>5 DEF IInv, Types, StartInv, PlaceInv, Started, Copied
  <2>7. \A s \in Standard : s \in Descriptors /\ fd'[s] = fd[s]
    BY <2>3, <2>5, RedirectAssumption DEF Standard, Descriptors
  <2>8. ASSUME NEW g \in 3..MaxFd PROVE Kept(g)'
    <3>1. CASE g = f
      BY <1>1, <2>3, <2>4, <2>5, <3>1 DEF Kept
    <3>2. CASE g # f
      <4>1. Kept(g) /\ g \in Descriptors /\ g # -1
        BY <1>1, RedirectAssumption DEF IInv, TableInv, Descriptors
      <4> QED BY <1>1, <2>4, <2>5, <3>2, <4>1 DEF Kept
    <3> QED BY <3>1, <3>2
  <2>9. ASSUME NEW s \in {0, 1}, Copied(s)'
        PROVE  /\ home'[saved'[s]] = "closed" /\ fd'[saved'[s]] = home'[s]
               /\ saved'[s] # saved'[1 - s] /\ saved'[s] # temp'
    <3>1. CASE s = side
      BY <1>1, <2>3, <2>4, <2>5, <3>1
    <3>2. CASE s # side
      <4>1. 1 - s = side /\ Copied(s) /\ saved[s] \in Descriptors /\ saved[s] # f
        BY <1>1, <2>3, <2>4, <2>9, <3>2, RedirectAssumption DEF Copied, IInv, Types, Descriptors
      <4> QED BY <1>1, <2>4, <2>5, <3>2, <4>1 DEF IInv, TableInv
    <3> QED BY <3>1, <3>2
  <2>10. TableInv'
    BY <1>1, <1>3, <2>4, <2>7, <2>8, <2>9 DEF IInv, TableInv, Started, Copied, Standard
  <2> QED BY <2>6, <2>10 DEF IInv
<1> QED BY <1>1, <1>2, <1>3 DEF Save

(* open puts the file at a free descriptor.                                 *)
LEMMA OpenStep == ASSUME IInv, Open PROVE IInv'
<1> DEFINE f == Lowest(FreeFrom(0))
<1>1. /\ pc = "open" /\ temp = -1 /\ Started /\ running /\ side \in {0, 1}
      /\ UNCHANGED <<home, saved, running>>
  BY DEF IInv, Types, Started, PlaceInv, Open
<1>2. CASE Fails /\ UNCHANGED <<fd, temp>>
  BY <1>1, <1>2, FailsStep
<1>3. CASE FreeFrom(0) # {} /\ UNCHANGED side /\ pc' = "dup"
           /\ temp' = f /\ fd' = [fd EXCEPT ![f] = File(side)]
  <2>1. FreeFrom(0) \subseteq Nat
    BY DEF FreeFrom, Descriptors
  <2>2. f \in Descriptors /\ fd[f] = "closed"
    BY <1>3, <2>1, LowestIn DEF FreeFrom
  <2> HIDE DEF f
  <2>3. /\ f \in 3..MaxFd /\ home[f] = "closed" /\ f \notin Standard /\ f # -1
        /\ \A s \in {0, 1} : f # saved[s]
    BY <1>1, <2>2, FreeWasFree DEF Standard
  <2>4. File(side) \in Objects \ (Own \cup {"closed"})
    BY DEF File, Objects, Own
  <2>5. /\ fd' \in [Descriptors -> Objects]
        /\ fd'[f] = File(side)
        /\ \A g \in Descriptors : g # f => fd'[g] = fd[g]
    BY <1>3, <2>2, <2>4 DEF IInv, Types
  <2>6. Types' /\ StartInv' /\ PlaceInv'
    BY <1>1, <1>3, <2>2, <2>3, <2>5 DEF IInv, Types, StartInv, PlaceInv, Started, Copied
  <2>7. \A s \in Standard : s \in Descriptors /\ fd'[s] = fd[s]
    BY <2>3, <2>5, RedirectAssumption DEF Standard, Descriptors
  <2>8. ASSUME NEW g \in 3..MaxFd PROVE Kept(g)'
    <3>1. Kept(g) /\ g \in Descriptors /\ g # -1
      BY <1>1, RedirectAssumption DEF IInv, TableInv, Descriptors
    <3> QED BY <1>1, <1>3, <2>3, <2>5, <3>1 DEF Kept
  <2>9. \A s \in {0, 1} : Copied(s) => saved[s] \in Descriptors /\ fd'[saved[s]] = fd[saved[s]]
    BY <2>3, <2>5, RedirectAssumption DEF IInv, Types, Copied, Descriptors
  <2>10. TableInv'
    BY <1>1, <1>3, <2>3, <2>4, <2>5, <2>7, <2>8, <2>9
       DEF IInv, TableInv, Started, Copied, Standard
  <2> QED BY <2>6, <2>10 DEF IInv
<1> QED BY <1>1, <1>2, <1>3 DEF Open

(* dup2 puts the file on the stream and closes the other copy.              *)
LEMMA DupStep == ASSUME IInv, Dup PROVE IInv'
<1>1. /\ pc = "dup" /\ temp \in Descriptors /\ temp # -1 /\ Started /\ running
      /\ side \in {0, 1} /\ Copied(side) /\ (side = 1 => saved[0] = -1)
      /\ temp \notin Standard /\ temp # side /\ home[temp] = "closed"
      /\ fd[temp] \in Objects \ (Own \cup {"closed"})
      /\ temp' = -1 /\ UNCHANGED <<home, saved, running>>
      /\ \A s \in Standard : s \in Descriptors
  BY RedirectAssumption
     DEF IInv, Types, Started, PlaceInv, TableInv, Dup, Standard, Descriptors
<1>2. /\ \/ fd' = Closed([fd EXCEPT ![side] = fd[temp]], temp)
            /\ \/ pc' = "save" /\ side = 1 /\ side' = 0
               \/ pc' = "handler" /\ side' = side
         \/ fd' = Closed(fd, temp) /\ pc' = "restore" /\ side' = 1
  BY <1>1 DEF Dup, Fails
<1>3. /\ fd' \in [Descriptors -> Objects]
      /\ fd'[temp] = "closed"
      /\ fd'[side] = fd[side] \/ fd'[side] = fd[temp]
      /\ \A g \in Descriptors : g # temp /\ g # side => fd'[g] = fd[g]
  BY <1>1, <1>2 DEF Closed, IInv, Types, Objects, Standard
<1>4. Types' /\ StartInv' /\ PlaceInv'
  BY <1>1, <1>2, <1>3 DEF IInv, Types, StartInv, PlaceInv, TableInv, Started, Copied, Standard
<1>5. \A s \in Standard : /\ fd'[s] \notin Own \cup {"closed"}
                          /\ s # side => fd'[s] = fd[s]
  BY <1>1, <1>3 DEF IInv, TableInv
<1>6. ASSUME NEW g \in 3..MaxFd PROVE Kept(g)'
  <2>1. Kept(g) /\ g \in Descriptors /\ g # side /\ g # -1
    <3>1. Kept(g)
      BY <1>1 DEF IInv, TableInv
    <3> QED BY <1>1, <3>1, RedirectAssumption DEF Descriptors
  <2>2. CASE g = temp
    BY <1>1, <1>3, <2>2 DEF Kept
  <2> QED BY <1>1, <1>3, <2>1, <2>2 DEF Kept
<1>7. \A s \in {0, 1} : Copied(s) => saved[s] \in Descriptors /\ fd'[saved[s]] = fd[saved[s]]
  BY <1>1, <1>3, RedirectAssumption DEF IInv, Types, TableInv, Started, Copied, Descriptors
<1>8. \A s \in {0, 1} : ~ Copied(s)' => fd'[s] = home'[s]
  BY <1>1, <1>5 DEF IInv, TableInv, Copied, Standard
<1>9. \A s \in {0, 1} : Copied(s)' =>
          /\ home'[saved'[s]] = "closed" /\ fd'[saved'[s]] = home'[s]
          /\ saved'[s] # saved'[1 - s] /\ saved'[s] # temp'
  BY <1>1, <1>7 DEF IInv, TableInv, Copied
<1>10. fd'[2] = home'[2]
  BY <1>1, <1>5 DEF IInv, TableInv, Standard
<1>11. \A s \in Standard : /\ home'[s] \notin Own \cup {"closed"}
                           /\ fd'[s] \notin Own \cup {"closed"}
  BY <1>1, <1>5 DEF IInv, TableInv
<1>12. TableInv'
  BY <1>1, <1>6, <1>8, <1>9, <1>10, <1>11 DEF TableInv
<1> QED BY <1>4, <1>12 DEF IInv

(* The way back: dup2 of the saved stream, and the close of the copy.       *)
LEMMA RestoreStep == ASSUME IInv, Restore PROVE IInv'
<1>1. /\ pc = "restore" /\ temp = -1 /\ Started /\ running \in BOOLEAN
      /\ side \in {0, 1} /\ (side = 0 => saved[1] = -1)
      /\ UNCHANGED <<home, temp>>
      /\ \/ side = 1 /\ side' = 0 /\ pc' = "restore"
         \/ side = 0 /\ side' = 0 /\ pc' = IF running' THEN "prompt" ELSE "exit"
      /\ \A s \in Standard : s \in Descriptors
  BY RedirectAssumption DEF IInv, Types, Started, PlaceInv, Restore, Standard, Descriptors
<1>2. CASE saved[side] = -1 /\ UNCHANGED <<fd, saved, running>>
  <2>1. pc' = "prompt" => saved = [s \in {0, 1} |-> -1]
    BY <1>1, <1>2 DEF IInv, Types
  <2>2. PlaceInv'
    BY <1>1, <1>2 DEF PlaceInv
  <2>3. Types' /\ StartInv'
    BY <1>1, <1>2, <2>1 DEF IInv, Types, StartInv, Started, Standard
  <2>4. TableInv'
    BY <1>1, <1>2 DEF IInv, TableInv, Started, Copied, Kept
  <2> QED BY <2>2, <2>3, <2>4 DEF IInv
<1>3. CASE /\ saved[side] # -1 /\ saved' = [saved EXCEPT ![side] = -1]
           /\ \/ /\ fd' = Closed([fd EXCEPT ![side] = fd[saved[side]]], saved[side])
                 /\ running' = running
              \/ /\ fd' = Closed(fd, saved[side])
                 /\ running' = FALSE
  <2> DEFINE copy == saved[side]
  <2>1. /\ copy \in 3..MaxFd /\ copy \in Descriptors /\ copy \notin Standard
        /\ home[copy] = "closed" /\ fd[copy] = home[side] /\ copy # saved[1 - side]
    BY <1>1, <1>3, RedirectAssumption
       DEF IInv, Types, TableInv, Copied, Descriptors, Standard
  <2>2. /\ saved' \in [{0, 1} -> {-1} \cup 3..MaxFd]
        /\ saved'[side] = -1
        /\ \A s \in {0, 1} : s # side => saved'[s] = saved[s]
    BY <1>1, <1>3 DEF IInv, Types
  <2>3. /\ fd' \in [Descriptors -> Objects]
        /\ fd'[copy] = "closed"
        /\ \/ fd'[side] = home[side]
           \/ running' = FALSE /\ fd'[side] = fd[side]
        /\ \A g \in Descriptors : g # copy /\ g # side => fd'[g] = fd[g]
    <3>1. fd \in [Descriptors -> Objects] /\ "closed" \in Objects /\ side \in Descriptors
      BY <1>1 DEF IInv, Types, Objects, Standard
    <3>2. CASE fd' = Closed([fd EXCEPT ![side] = fd[saved[side]]], saved[side])
      BY <1>1, <2>1, <3>1, <3>2 DEF Closed, Standard
    <3>3. CASE fd' = Closed(fd, saved[side]) /\ running' = FALSE
      BY <1>1, <2>1, <3>1, <3>3 DEF Closed, Standard
    <3> QED BY <1>3, <3>2, <3>3
  <2> HIDE DEF copy
  <2>4. pc' = "prompt" => saved' = [s \in {0, 1} |-> -1]
    BY <1>1, <2>2
  <2>5. PlaceInv'
    BY <1>1, <2>2 DEF PlaceInv
  <2>6. Types' /\ StartInv'
    <3>1. pc' \in {"restore", "prompt", "exit"} /\ side' \in {0, 1} /\ running' \in BOOLEAN
      BY <1>1, <1>3
    <3>2. Types'
      BY <1>1, <2>2, <2>3, <3>1 DEF IInv, Types, Standard
    <3> QED BY <2>4, <3>1, <3>2 DEF StartInv, Started
  <2>7. \A s \in Standard : /\ fd'[s] \notin Own \cup {"closed"}
                            /\ s # side => fd'[s] = fd[s]
    BY <1>1, <2>1, <2>3 DEF IInv, TableInv, Standard
  <2>8. ASSUME NEW g \in 3..MaxFd PROVE Kept(g)'
    <3>1. Kept(g) /\ g \in Descriptors /\ g # side /\ g # -1
      BY <1>1, RedirectAssumption DEF IInv, TableInv, Descriptors
    <3>2. CASE g = copy
      BY <1>1, <2>1, <2>3, <3>2 DEF Kept
    <3>3. CASE g # copy
      BY <1>1, <2>2, <2>3, <3>1, <3>3 DEF Kept, copy
    <3> QED BY <3>2, <3>3
  <2>9. ASSUME NEW s \in {0, 1}, Copied(s)'
        PROVE  /\ s # side /\ Copied(s) /\ saved[s] \in Descriptors
               /\ fd'[saved[s]] = fd[saved[s]]
    <3>1. s # side /\ Copied(s) /\ s = 1 - side
      BY <1>1, <2>2, <2>9 DEF Copied
    <3>2. saved[s] \in 3..MaxFd /\ saved[s] # copy
      BY <2>1, <3>1 DEF Copied, IInv, Types
    <3> QED BY <1>1, <2>3, <3>1, <3>2, RedirectAssumption DEF Descriptors
  <2>10. TableInv'
    BY <1>1, <1>3, <2>2, <2>3, <2>7, <2>8, <2>9
       DEF IInv, TableInv, Started, Copied, Standard
  <2> QED BY <2>5, <2>6, <2>10 DEF IInv
<1>4. \A b \in BOOLEAN : Health(b) \in BOOLEAN /\ (b => Health(b) = running) /\ (~ b => Health(b) = FALSE)
  BY <1>1 DEF Health
<1>5. Health(TRUE) = running /\ Health(FALSE) = FALSE
  BY <1>4
<1> QED BY <1>2, <1>3, <1>5 DEF Restore

(* Every step keeps the invariant.                                          *)
LEMMA Inductive == IInv /\ [Next]_vars => IInv'
<1> SUFFICES ASSUME IInv, [Next]_vars PROVE IInv'
  OBVIOUS
<1>1. CASE UNCHANGED vars
  BY <1>1 DEF vars, IInv, Types, StartInv, TableInv, PlaceInv, Started, Copied, Kept
<1>2. CASE Exited
  BY <1>1, <1>2 DEF Exited
<1> QED BY <1>1, <1>2, EnsureStep, ShellInitStep, QuietSteps, SaveStep, OpenStep, DupStep,
           RestoreStep DEF Next

(* The invariant of every behaviour.                                        *)
LEMMA AlwaysInv == Spec => []IInv
BY Initially, Inductive, PTL DEF Spec

(* Whenever the shell prompts, its descriptors are those of the start, for *)
(* any size of the table, any number of command lines and of calls that    *)
(* fail: dispatcher_command, builtin_apply_redirect and its undoing.       *)
THEOREM TableComesBack == Spec => []TableRestored
<1>1. IInv => TableRestored
  <2> SUFFICES ASSUME IInv, pc \in {"prompt", "idle"}
               PROVE  fd = home /\ saved = [s \in {0, 1} |-> -1]
    BY DEF TableRestored
  <2>1. /\ saved = [s \in {0, 1} |-> -1] /\ running /\ temp = -1 /\ Started
    BY DEF IInv, StartInv, PlaceInv, Types, Started
  <2>2. \A f \in 3..MaxFd : fd[f] = home[f]
    BY <2>1 DEF IInv, TableInv, Kept
  <2>3. \A s \in Standard : fd[s] = home[s]
    BY <2>1 DEF IInv, TableInv, Copied, Standard
  <2>4. \A f \in Descriptors : f \in Standard \/ f \in 3..MaxFd
    BY RedirectAssumption DEF Descriptors, Standard
  <2> QED BY <2>1, <2>2, <2>3, <2>4 DEF IInv, Types
<1> QED BY <1>1, AlwaysInv, PTL

(* The pipe and the terminal of the shell never are descriptors 0 to 2,    *)
(* whichever of these were closed when the shell was started: the loop of  *)
(* ensure_standard_fd, and every later dup2.                               *)
THEOREM StandardKept == Spec => []StandardReserved
<1>1. IInv => StandardReserved
  BY DEF IInv, TableInv, StandardReserved, Started
<1> QED BY <1>1, AlwaysInv, PTL
-----------------------------------------------------------------------------
(* The types of the other variables; a stream at hand is redirected.       *)
Texts == {"report", "output"}
Rest ==
    /\ pc \in {"ensure", "init", "prompt", "idle", "flush_before", "save", "open", "dup",
               "handler", "flush_after", "restore", "exit"}
    /\ \A s \in {0, 1} : saved[s] # -1 => s \in cmd.redirect
    /\ pc \in {"save", "open", "dup"} => side \in cmd.redirect
    /\ pc = "flush_before" => 1 \in cmd.redirect
    /\ cmd \in CommandLine
    /\ ret \in {"ok", "error"}
    /\ text \in [Texts -> Places]
    /\ faults \in 0..MaxFaults /\ commands \in 0..MaxCommands
Flags == ferr \in BOOLEAN /\ ran \in BOOLEAN

(* Where the output of the builtin belongs.                                *)
Target == IF 1 \in cmd.redirect THEN "out_file" ELSE home[1]

(* The file of a redirection is on the streams of the command line only.   *)
FileInv ==
    /\ ~ Started => (\A f \in Descriptors : fd[f] # "out_file") /\ ran = FALSE
    /\ home[1] # "out_file"
    /\ pc = "dup" => fd[temp] = File(side)
    /\ pc \in {"save", "open", "dup"} /\ side = 0 /\ 1 \in cmd.redirect => fd[1] = "out_file"
    /\ pc = "handler" => fd[1] = Target
    /\ pc = "flush_after" => fd[1] = Target

(* The buffer holds no report while the output is redirected.              *)
ReportInv ==
    /\ text["report"] # "out_file"
    /\ pc \in {"save", "open", "dup", "handler", "flush_after"} =>
           (1 \in cmd.redirect => text["report"] # "buffer")

(* The output of a builtin that did what it should is where it belongs.    *)
OutputInv ==
    /\ pc \in {"flush_before", "save", "open", "dup", "handler"} => text["output"] = "none"
    /\ pc = "flush_after" => /\ text["output"] \in {"none", "buffer", "lost", Target}
                             /\ text["output"] = "lost" => ferr
    /\ pc \in {"restore", "prompt", "idle"} /\ ran /\ ret = "ok" =>
           text["output"] \in {"none", Target}

TextInv == Rest /\ Flags /\ FileInv /\ ReportInv /\ OutputInv

(* A flush moves what is in the buffer, and nothing else.                  *)
LEMMA Flushed ==
    ASSUME text \in [Texts -> Places], NEW where \in Places, FlushedTo(where)
    PROVE  /\ text' \in [Texts -> Places]
           /\ \A t \in Texts : text'[t] = IF text[t] = "buffer" THEN where ELSE text[t]
BY DEF FlushedTo

(* Descriptor 1 leads to where the shell had it at the start, when it      *)
(* flushes a report.                                                       *)
LEMMA AtHome ==
    ASSUME IInv, TextInv, pc \in {"prompt", "idle", "flush_before"}
    PROVE  fd[1] = home[1] /\ fd[1] \in Objects /\ fd[1] # "out_file" /\ 1 \in Descriptors
<1>1. running /\ Started /\ saved[1] = -1
  BY DEF IInv, PlaceInv, StartInv, Started
<1>2. 1 \in Descriptors /\ 1 \in Standard /\ fd[1] = home[1]
  BY <1>1, RedirectAssumption DEF IInv, TableInv, Copied, Standard, Descriptors
<1> QED
  BY <1>1, <1>2 DEF IInv, Types, TextInv, FileInv

(* No place of a text is an object but those of the descriptors.           *)
LEMMA PlacesAre == /\ Objects \subseteq Places /\ {"none", "buffer", "lost"} \subseteq Places
                   /\ "buffer" \notin Objects /\ "none" \notin Objects /\ "lost" \notin Objects
                   /\ "out_file" \in Objects
BY DEF Places, Objects, Own

(* The target is an object.                                                *)
LEMMA TargetIs == ASSUME IInv PROVE Target \in Objects
<1>1. 1 \in Descriptors
  BY RedirectAssumption DEF Descriptors
<1> QED
  BY <1>1, PlacesAre DEF IInv, Types, Target

(* A fault counts.                                                         *)
LEMMA Counted ==
    ASSUME faults \in 0..MaxFaults, Fault \/ UNCHANGED faults
    PROVE  faults' \in 0..MaxFaults
BY RedirectAssumption DEF Fault

(* Before main nothing is printed.                                         *)
LEMMA TextInitially == Init => TextInv
<1> SUFFICES ASSUME Init PROVE TextInv
  OBVIOUS
<1>1. Flags
  BY Zenon DEF Init, Flags
<1>2. text \in [Texts -> Places] /\ text["report"] = "none"
  BY DEF Init, Texts, Places
<1>3. Rest
  BY <1>2, RedirectAssumption DEF Init, Rest, CommandLine, NoCommand
<1>4. \A f \in Descriptors : fd[f] # "out_file"
  <2>1. PICK open \in SUBSET Standard :
          fd = [f \in Descriptors |-> IF f \in open THEN Stream[f + 1] ELSE "closed"]
    BY DEF Init
  <2>2. Stream[1] = "in" /\ Stream[2] = "out" /\ Stream[3] = "err"
    BY DEF Stream
  <2>3. \A f \in Standard : Stream[f + 1] # "out_file"
    BY <2>2 DEF Standard
  <2> QED
    BY <2>1, <2>3
<1>5. FileInv /\ ReportInv /\ OutputInv
  <2>1. 1 \in Descriptors
    BY RedirectAssumption DEF Descriptors
  <2> QED
    BY <1>2, <1>4, <2>1 DEF Init, FileInv, ReportInv, OutputInv, Started
<1> QED
  BY <1>1, <1>3, <1>5 DEF TextInv

(* The start of main opens no file of a command.                           *)
LEMMA StartTexts == ASSUME IInv, TextInv, Ensure \/ ShellInit PROVE TextInv'
<1>1. /\ UNCHANGED <<cmd, ret, text, ran, ferr, commands, saved>> /\ ~ Started
      /\ pc' \in {"ensure", "init", "prompt", "exit"}
      /\ pc \in {"ensure", "init"}
  BY DEF Ensure, ShellInit, Started
<1>2. faults' \in 0..MaxFaults
  BY Counted DEF Ensure, ShellInit, TextInv, Rest
<1>3. \A f \in Descriptors : fd'[f] # "out_file"
  <2>1. \A f \in Descriptors : fd[f] # "out_file" /\ fd \in [Descriptors -> Objects]
    BY <1>1 DEF TextInv, FileInv, IInv, Types
  <2>2. CASE Ensure
    <3>1. fd' = fd \/ fd' = [fd EXCEPT ![Lowest(FreeFrom(0))] = "null"]
      BY <2>2 DEF Ensure
    <3> QED
      BY <2>1, <3>1
  <2>3. CASE ShellInit
    <3>1. \E r, w, t : \/ fd' = fd
                       \/ fd' = [fd EXCEPT ![r] = "pipe_read", ![w] = "pipe_write"]
                       \/ fd' = [[fd EXCEPT ![r] = "pipe_read", ![w] = "pipe_write"]
                                    EXCEPT ![t] = "tty"]
      BY <2>3 DEF ShellInit
    <3> QED
      BY <2>1, <3>1
  <2> QED
    BY <2>2, <2>3
<1>4. home'[1] # "out_file"
  <2>1. 1 \in Descriptors
    BY RedirectAssumption DEF Descriptors
  <2>2. home[1] # "out_file"
    BY DEF TextInv, FileInv
  <2>3. home' = home \/ home' = fd'
    BY DEF Ensure, ShellInit
  <2> QED
    BY <1>3, <2>1, <2>2, <2>3
<1>5. Rest' /\ Flags'
  BY <1>1, <1>2 DEF TextInv, Rest, Flags
<1>6. FileInv' /\ ReportInv' /\ OutputInv'
  BY <1>1, <1>3, <1>4 DEF TextInv, FileInv, ReportInv, OutputInv, Started
<1> QED
  BY <1>5, <1>6 DEF TextInv

(* The prompt, a report of a job, the end of the input.                    *)
LEMMA PromptTexts == ASSUME IInv, TextInv, PrintPrompt \/ Report \/ EndOfInput PROVE TextInv'
<1>1. /\ UNCHANGED <<fd, home, side, saved, temp, cmd, ret, ran, commands>>
      /\ pc \in {"prompt", "idle"} /\ pc' \in {"idle", "exit"}
      /\ UNCHANGED Target
  BY DEF PrintPrompt, Report, EndOfInput, Target
<1>2. /\ fd[1] \in Objects /\ fd[1] # "out_file" /\ home[1] # "out_file"
      /\ text \in [Texts -> Places] /\ text["report"] # "out_file"
      /\ Target \in Objects
  BY <1>1, AtHome, TargetIs DEF TextInv, Rest, FileInv, ReportInv, Started
<1>3. /\ text' \in [Texts -> Places] /\ text'["report"] # "out_file"
      /\ text["output"] # "buffer" => text'["output"] = text["output"]
      /\ faults' \in 0..MaxFaults
  <2>f. \A t \in {"report", "output"} : t \in Texts
    BY DEF Texts
  <2>1. CASE PrintPrompt
    <3>1. PICK where \in {fd[1], "lost"} : FlushedTo(where)
      BY <2>1 DEF PrintPrompt, Flush, FlushFails
    <3>2. where \in Places /\ where # "out_file"
      BY <1>2, PlacesAre
    <3>3. faults' \in 0..MaxFaults
      BY <2>1, Counted DEF PrintPrompt, Flush, FlushFails, TextInv, Rest
    <3> QED
      BY <1>2, <2>f, <3>1, <3>2, <3>3, Flushed
  <2>2. CASE Report
    <3>1. \E where \in {"buffer", "lost", fd[1]} : text' = [text EXCEPT !["report"] = where]
      BY <2>2 DEF Report, Prints
    <3>2. faults' \in 0..MaxFaults
      BY <2>2, Counted DEF Report, Prints, TextInv, Rest
    <3> QED
      BY <1>2, <2>f, <3>1, <3>2, PlacesAre
  <2>3. CASE EndOfInput
    BY <1>2, <2>3 DEF EndOfInput, TextInv, Rest
  <2> QED
    BY <2>1, <2>2, <2>3
<1>4. ferr' \in BOOLEAN
  <2>1. ferr' = ferr \/ ferr' = TRUE
    BY DEF PrintPrompt, Report, EndOfInput, Prints
  <2> QED
    BY <2>1, Zenon DEF TextInv, Flags
<1>5. Rest' /\ Flags'
  BY <1>1, <1>3, <1>4 DEF TextInv, Rest, Flags
<1>6. FileInv' /\ ReportInv'
  BY <1>1, <1>2, <1>3 DEF FileInv, ReportInv, Started
<1>7. OutputInv'
  BY <1>1, <1>2, <1>3, PlacesAre DEF TextInv, OutputInv
<1> QED
  BY <1>5, <1>6, <1>7 DEF TextInv

(* A command line: its output is nowhere yet.                              *)
LEMMA DispatchTexts ==
    ASSUME IInv, TextInv, NEW c \in CommandLine, Dispatch(c)
    PROVE  TextInv'
<1>1. /\ UNCHANGED <<fd, home, saved, temp, ferr, faults>> /\ cmd' = c /\ pc = "idle"
      /\ pc' \in {"prompt", FirstCall(c)} /\ side' = FirstSide(c) /\ ran' = FALSE
      /\ ret' \in {"ok", "error"} /\ commands < MaxCommands /\ commands' = commands + 1
      /\ text' = [text EXCEPT !["output"] = "none"]
  BY DEF Dispatch
<1>2. /\ saved = [s \in {0, 1} |-> -1] /\ fd[1] = home[1] /\ home[1] # "out_file"
  BY <1>1, AtHome DEF IInv, StartInv, Started, TextInv, FileInv
<1>3. /\ pc' \in {"prompt", "flush_before", "save", "handler"}
      /\ pc' = "save" => side' = 0 /\ c.redirect = {0}
      /\ pc' = "handler" => 1 \notin c.redirect
      /\ pc' = "flush_before" => 1 \in c.redirect
  BY <1>1 DEF FirstCall, FirstSide
<1>4. /\ text' \in [Texts -> Places] /\ text'["report"] = text["report"]
      /\ text'["output"] = "none"
  BY <1>1, PlacesAre DEF TextInv, Rest, Texts
<1>5. Flags'
  BY <1>1, Zenon DEF TextInv, Flags
<1>6. Rest'
  BY <1>1, <1>2, <1>3, <1>4, RedirectAssumption DEF TextInv, Rest
<1>7. FileInv' /\ ReportInv' /\ OutputInv'
  BY <1>1, <1>2, <1>3, <1>4 DEF TextInv, FileInv, ReportInv, OutputInv, Target, Started
<1> QED
  BY <1>5, <1>6, <1>7 DEF TextInv

(* The way in: the buffer is flushed before a stream leads to a file.      *)
LEMMA FlushBeforeTexts == ASSUME IInv, TextInv, FlushBefore PROVE TextInv'
<1>1. /\ UNCHANGED <<fd, home, saved, temp, cmd, ran, commands>> /\ pc = "flush_before"
      /\ side = 1 /\ ferr' = FALSE
      /\ \/ pc' = "restore" /\ ret' = "error"
         \/ pc' = "save" /\ UNCHANGED <<side, ret>>
  BY DEF FlushBefore, Fails, IInv, PlaceInv
<1>2. PICK where \in {fd[1], "lost"} : FlushedTo(where)
  BY DEF FlushBefore, Flush, FlushFails
<1>3. where \in Places /\ where # "out_file" /\ where # "buffer"
  BY <1>1, AtHome, PlacesAre
<1>4. /\ text' \in [Texts -> Places]
      /\ text'["report"] # "out_file" /\ text'["report"] # "buffer"
      /\ text'["output"] = "none"
  <2>1. "report" \in Texts /\ "output" \in Texts
    BY DEF Texts
  <2> QED
    BY <1>1, <1>2, <1>3, <2>1, Flushed DEF TextInv, Rest, ReportInv, OutputInv
<1>5. faults' \in 0..MaxFaults
  BY Counted DEF FlushBefore, Flush, FlushFails, TextInv, Rest
<1>6. Flags'
  BY <1>1, Zenon DEF TextInv, Flags
<1>7. 1 \in cmd.redirect
  BY <1>1 DEF TextInv, Rest
<1>8. Rest'
  BY <1>1, <1>4, <1>5, <1>7 DEF TextInv, Rest
<1>9. FileInv' /\ ReportInv' /\ OutputInv'
  BY <1>1, <1>4 DEF TextInv, FileInv, ReportInv, OutputInv, Started
<1> QED
  BY <1>6, <1>8, <1>9 DEF TextInv

(* dup, open and dup2 move no text.                                        *)
LEMMA RedirectTexts == ASSUME IInv, TextInv, Save \/ Open \/ Dup PROVE TextInv'
<1>1. /\ UNCHANGED <<home, cmd, text, ran, commands>> /\ pc \in {"save", "open", "dup"}
      /\ Started /\ Started' /\ side \in {0, 1} /\ side \in cmd.redirect /\ UNCHANGED Target
      /\ 1 \in Descriptors /\ 0 \in Descriptors
  BY RedirectAssumption
     DEF Save, Open, Dup, Started, IInv, PlaceInv, TextInv, Rest, Target, Descriptors, Fails
<1>2. faults' \in 0..MaxFaults
  BY Counted DEF Save, Open, Dup, FailsFor, TextInv, Rest
<1>3. Flags'
  <2>1. ran' = ran /\ (ferr' = ferr \/ ferr' = (ferr /\ side = 0))
    BY DEF Save, Open, Dup
  <2> QED
    BY <2>1, Zenon DEF TextInv, Flags
<1>4. CASE Fails /\ \A s \in {0, 1} : saved'[s] = saved[s]
  <2>1. pc' = "restore" /\ ret' = "error"
    BY <1>4 DEF Fails
  <2>2. Rest'
    BY <1>1, <1>2, <1>4, <2>1 DEF TextInv, Rest
  <2>3. FileInv' /\ ReportInv' /\ OutputInv'
    BY <1>1, <2>1 DEF TextInv, FileInv, ReportInv, OutputInv
  <2> QED
    BY <1>3, <2>2, <2>3 DEF TextInv
<1>5. CASE Save /\ ~ Fails
  <2> DEFINE f == Lowest(FreeFrom(3))
  <2>1. /\ saved' = [saved EXCEPT ![side] = f] /\ fd' = [fd EXCEPT ![f] = fd[side]]
        /\ FreeFrom(3) # {} /\ pc' = "open" /\ UNCHANGED <<side, ret>> /\ pc = "save"
    BY <1>5 DEF Save
  <2>2. f # 1 /\ f \in Descriptors
    <3>1. FreeFrom(3) \subseteq Nat /\ \A g \in FreeFrom(3) : g # 1 /\ g \in Descriptors
      BY DEF FreeFrom, Descriptors
    <3> QED
      BY <2>1, <3>1, LowestIn
  <2> HIDE DEF f
  <2>3. fd'[1] = fd[1]
    BY <1>1, <2>1, <2>2 DEF IInv, Types
  <2>4. \A s \in {0, 1} : s # side => saved'[s] = saved[s]
    BY <2>1 DEF IInv, Types
  <2>5. Rest'
    BY <1>1, <1>2, <2>1, <2>4 DEF TextInv, Rest
  <2>6. FileInv' /\ ReportInv' /\ OutputInv'
    BY <1>1, <2>1, <2>3 DEF TextInv, FileInv, ReportInv, OutputInv
  <2> QED
    BY <1>3, <2>5, <2>6 DEF TextInv
<1>6. CASE Open /\ ~ Fails
  <2> DEFINE f == Lowest(FreeFrom(0))
  <2>1. /\ temp' = f /\ fd' = [fd EXCEPT ![f] = File(side)]
        /\ FreeFrom(0) # {} /\ pc' = "dup" /\ UNCHANGED <<side, ret, saved>> /\ pc = "open"
    BY <1>6 DEF Open
  <2>2. f # 1 /\ f \in Descriptors
    <3>1. FreeFrom(0) \subseteq Nat /\ \A g \in FreeFrom(0) : g \in Descriptors /\ fd[g] = "closed"
      BY DEF FreeFrom, Descriptors
    <3>2. fd[1] # "closed"
      BY <1>1, <2>1 DEF IInv, TableInv, Standard
    <3> QED
      BY <2>1, <3>1, <3>2, LowestIn
  <2> HIDE DEF f
  <2>3. fd'[1] = fd[1] /\ fd'[f] = File(side)
    BY <1>1, <2>1, <2>2 DEF IInv, Types
  <2>4. Rest'
    BY <1>1, <1>2, <2>1 DEF TextInv, Rest
  <2>5. FileInv' /\ ReportInv' /\ OutputInv'
    BY <1>1, <2>1, <2>3 DEF TextInv, FileInv, ReportInv, OutputInv
  <2> QED
    BY <1>3, <2>4, <2>5 DEF TextInv
<1>7. CASE Dup /\ ~ Fails
  <2>1. /\ fd' = IF temp = side THEN fd ELSE Closed([fd EXCEPT ![side] = fd[temp]], temp)
        /\ UNCHANGED <<ret, saved>> /\ pc = "dup"
        /\ IF side = 1 /\ 0 \in cmd.redirect THEN pc' = "save" /\ side' = 0
           ELSE pc' = "handler" /\ UNCHANGED side
    BY <1>7 DEF Dup
  <2>2. temp \in Descriptors /\ temp >= 3 /\ temp # -1
    BY <1>1, <2>1 DEF IInv, Types, TableInv
  <2>3. fd[temp] = File(side)
    BY <2>1 DEF TextInv, FileInv
  <2>4. fd'[1] = IF side = 1 THEN "out_file" ELSE fd[1]
    BY <1>1, <2>1, <2>2, <2>3 DEF IInv, Types, Closed, File
  <2>5. side = 0 /\ 1 \in cmd.redirect => fd[1] = "out_file"
    BY <2>1 DEF TextInv, FileInv
  <2>6. side = 0 /\ 1 \notin cmd.redirect => fd[1] = home[1]
    <3>1. 1 \notin cmd.redirect => saved[1] = -1
      BY DEF TextInv, Rest
    <3>2. running
      BY <2>1 DEF IInv, PlaceInv
    <3> QED
      BY <1>1, <2>1, <3>1, <3>2 DEF IInv, TableInv, Copied
  <2>7. Rest'
    BY <1>1, <1>2, <2>1 DEF TextInv, Rest
  <2>8. FileInv'
    BY <1>1, <2>1, <2>4, <2>5, <2>6 DEF TextInv, FileInv, Target
  <2>9. ReportInv' /\ OutputInv'
    BY <1>1, <2>1 DEF TextInv, ReportInv, OutputInv
  <2> QED
    BY <1>3, <2>7, <2>8, <2>9 DEF TextInv
<1>8. Fails => \A s \in {0, 1} : saved'[s] = saved[s]
  <2>1. CASE Save
    BY <2>1 DEF Save, Fails
  <2>2. CASE Open \/ Dup
    BY <2>2 DEF Open, Dup
  <2> QED
    BY <2>1, <2>2
<1> QED
  BY <1>4, <1>5, <1>6, <1>7, <1>8

(* The builtin prints to where its output belongs, or into the buffer.     *)
LEMMA HandlerTexts == ASSUME IInv, TextInv, Handler PROVE TextInv'
<1>1. /\ UNCHANGED <<fd, home, saved, temp, cmd, commands>> /\ pc = "handler"
      /\ ret' \in {"ok", "error"} /\ ran' = TRUE /\ pc' = "flush_after"
      /\ UNCHANGED Target /\ Started /\ Started'
  BY DEF Handler, AfterHandler, Target, Started
<1>2. fd[1] = Target /\ Target \in Places
  BY <1>1, TargetIs, PlacesAre DEF TextInv, FileInv
<1>3. text["output"] = "none"
  BY <1>1 DEF TextInv, OutputInv
<1>4. /\ text' \in [Texts -> Places] /\ text'["report"] = text["report"]
      /\ text'["output"] \in {"none", "buffer", "lost", Target}
      /\ text'["output"] = "lost" => ferr'
      /\ ferr' = ferr \/ ferr' = TRUE
      /\ faults' \in 0..MaxFaults
  <2>1. CASE UNCHANGED <<text, ferr, faults>>
    BY <1>3, <2>1 DEF TextInv, Rest
  <2>2. CASE Prints("output")
    <3>1. \/ \E where \in {"buffer", fd[1]} :
                text' = [text EXCEPT !["output"] = where] /\ UNCHANGED <<ferr, faults>>
          \/ Fault /\ text' = [text EXCEPT !["output"] = "lost"] /\ ferr' = TRUE
      BY <2>2 DEF Prints
    <3>2. fd[1] # "lost" /\ faults' \in 0..MaxFaults
      BY <1>2, <3>1, Counted, TargetIs, PlacesAre DEF TextInv, Rest
    <3> QED
      BY <1>2, <3>1, <3>2, PlacesAre DEF TextInv, Rest, Texts
  <2> QED
    BY <2>1, <2>2 DEF Handler
<1>5. Flags'
  BY <1>1, <1>4, Zenon DEF TextInv, Flags
<1>6. Rest'
  BY <1>1, <1>4 DEF TextInv, Rest
<1>7. FileInv' /\ ReportInv' /\ OutputInv'
  BY <1>1, <1>2, <1>4 DEF TextInv, FileInv, ReportInv, OutputInv
<1> QED
  BY <1>5, <1>6, <1>7 DEF TextInv

(* The output leaves the buffer while descriptor 1 still leads to where it *)
(* belongs; if any of it was lost, the builtin has failed.                 *)
LEMMA FlushAfterTexts == ASSUME IInv, TextInv, FlushAfter PROVE TextInv'
<1>1. /\ UNCHANGED <<fd, home, saved, temp, cmd, ran, commands>> /\ pc = "flush_after"
      /\ ferr' = FALSE /\ pc' = "restore" /\ UNCHANGED Target /\ Started /\ Started'
      /\ ret' \in {"error", ret}
  BY DEF FlushAfter, Target, Started
<1>2. fd[1] = Target /\ Target \in Objects
  BY <1>1, TargetIs DEF TextInv, FileInv
<1>3. PICK where \in {fd[1], "lost"} : FlushedTo(where) /\ (where = "lost" => ret' = "error")
  BY <1>2, PlacesAre DEF FlushAfter, Flush, FlushFails
<1>4. where \in Places
  BY <1>2, PlacesAre
<1>5. /\ text' \in [Texts -> Places]
      /\ \A t \in {"report", "output"} :
             text'[t] = IF text[t] = "buffer" THEN where ELSE text[t]
  BY <1>3, <1>4, Flushed DEF TextInv, Rest, Texts
<1>6. text'["report"] # "out_file"
  BY <1>1, <1>2, <1>3, <1>5 DEF TextInv, FileInv, ReportInv, Target
<1>7. ret' = "ok" => ~ ferr /\ where = fd[1]
  BY <1>3 DEF FlushAfter, FlushFails, Fault, Flush
<1>8. ret' = "ok" => text'["output"] \in {"none", Target}
  BY <1>1, <1>2, <1>5, <1>7 DEF TextInv, OutputInv
<1>9. faults' \in 0..MaxFaults
  BY Counted DEF FlushAfter, Flush, FlushFails, TextInv, Rest
<1>10. Flags'
  BY <1>1, Zenon DEF TextInv, Flags
<1>11. Rest'
  BY <1>1, <1>5, <1>9 DEF TextInv, Rest
<1>12. FileInv' /\ ReportInv' /\ OutputInv'
  BY <1>1, <1>6, <1>8 DEF TextInv, FileInv, ReportInv, OutputInv
<1> QED
  BY <1>10, <1>11, <1>12 DEF TextInv

(* The way back moves no text.                                             *)
LEMMA RestoreTexts == ASSUME IInv, TextInv, Restore PROVE TextInv'
<1>1. /\ UNCHANGED <<home, cmd, text, ran, commands>> /\ pc = "restore"
      /\ pc' \in {"restore", "prompt", "exit"} /\ ret' \in {"error", ret}
      /\ UNCHANGED Target /\ Started /\ Started'
      /\ saved' = saved \/ saved' = [saved EXCEPT ![side] = -1]
  BY DEF Restore, Target, Started
<1>2. \A s \in {0, 1} : saved'[s] # -1 => saved[s] # -1
  BY <1>1 DEF IInv, Types
<1>3. faults' \in 0..MaxFaults
  BY Counted DEF Restore, TextInv, Rest
<1>4. Flags'
  <2>1. ran' = ran /\ (ferr' = ferr \/ ferr' = (ferr /\ side = 0))
    BY DEF Restore
  <2> QED
    BY <2>1, Zenon DEF TextInv, Flags
<1>5. Rest'
  BY <1>1, <1>2, <1>3 DEF TextInv, Rest
<1>6. FileInv' /\ ReportInv' /\ OutputInv'
  BY <1>1 DEF TextInv, FileInv, ReportInv, OutputInv
<1> QED
  BY <1>4, <1>5, <1>6 DEF TextInv

(* The texts of every behaviour.                                           *)
LEMMA AlwaysText == Spec => [](IInv /\ TextInv)
<1>1. IInv /\ TextInv /\ UNCHANGED vars => TextInv'
  BY DEF vars, TextInv, Rest, Flags, FileInv, ReportInv, OutputInv, Target, Started
<1>2. IInv /\ TextInv /\ [Next]_vars => TextInv'
  BY <1>1, StartTexts, PromptTexts, DispatchTexts, FlushBeforeTexts, RedirectTexts,
     HandlerTexts, FlushAfterTexts, RestoreTexts DEF Next, Exited
<1> QED
  BY <1>2, Initially, TextInitially, Inductive, PTL DEF Spec

(* Every variable keeps its type; a stream is saved only if the line       *)
(* redirects it, and a file is open only between open and dup2.            *)
THEOREM TypeCorrect == Spec => []TypeOK
<1>1. IInv /\ TextInv => TypeOK
  BY DEF IInv, Types, TextInv, Rest, Flags, Texts, TypeOK
<1> QED
  BY <1>1, AlwaysText, PTL

(* The output of a builtin that reports success is where the line says,    *)
(* and no report of a job is ever in the file of a command, whichever      *)
(* flushes and writes fail: the two fflush of dispatcher_command.          *)
THEOREM TextInPlace == Spec => []TextPlaced
<1>1. IInv /\ TextInv => TextPlaced
  BY DEF TextInv, ReportInv, OutputInv, Target, TextPlaced
<1> QED
  BY <1>1, AlwaysText, PTL
=============================================================================
