------------------------- MODULE StartupGateProofs -------------------------
(***************************************************************************)
(* The launch of a job, for pipelines of every length and with any number  *)
(* of signals and of failing calls: nothing runs before the job is         *)
(* published, nobody is turned away for nothing, a ^C the children held    *)
(* back is not lost, and a launch that failed leaves nothing behind.       *)
(***************************************************************************)
EXTENDS StartupGate, FiniteSetTheorems, TLAPS

(* The part of TypeOK the proofs need.                                     *)
Launching == {"gate", "fork", "join", "add", "register", "handover", "release", "launched"}

CountsOK ==
    /\ ppc \in Launching \cup RollbackSteps \cup {"failed"}
    /\ count \in Child
    /\ forked \in 0..count
    /\ registered \in 0..count
    /\ sent \in 0..count
    /\ at \in 1..(count + 1)
    /\ tokens \in 0..sent

ChildStates == {"none", "born", "mask", "join", "event", "gate", "close", "reset",
                "unmask", "redirect", "program", "refused", "dead", "reaped"}

ChildrenOK ==
    /\ cpc \in [Child -> ChildStates]
    /\ group \in [Child -> {"shell", "job"}]

(* How far the shell has come, by place in the code.                       *)
Complete  == {"add", "register", "handover", "release", "launched"}
Listed    == {"register", "handover", "release", "launched"}
Registered == {"handover", "release", "launched"}
Handed    == {"release", "launched"}
Grouped(n) == \A d \in 1..n : group[d] = "job"

ProgressInv ==
    /\ ppc = "gate" => forked = 0 /\ ~ listed /\ tty = "shell"
    /\ ppc = "fork" => forked < count /\ Grouped(forked)
    /\ ppc = "join" => forked >= 1 /\ Grouped(forked - 1)
    /\ ppc \in Complete => forked = count /\ Grouped(count)
    /\ ppc \in Listed => listed
    /\ ppc \in Registered => registered = count
    /\ ppc \in Handed => (foreground => tty = "job")
    /\ ppc \in {"gate", "fork", "join", "add", "register", "handover"} => sent = 0

(* A byte in the gate, or one that was in it, means that the job has been  *)
(* published, and it stays so until the rollback has reaped everybody.     *)
Published == /\ listed /\ registered = count
             /\ foreground => tty = "job"
             /\ Grouped(count)

GateInv ==
    /\ sent > 0 /\ ppc # "failed" => Published
    /\ \A c \in Child : PastGate(c) => sent > 0

(* How far the rollback has come.                                          *)
RollbackInv ==
    /\ \A c \in Child : c > forked <=> cpc[c] = "none"
    /\ ppc = "kill_each" => \A c \in Child : c < at => Ended(c)
    /\ ppc = "reap" => /\ \A c \in Child : c <= forked => Ended(c)
                       /\ \A c \in Child : c < at => cpc[c] = "reaped"
    /\ ppc = "failed" => /\ \A c \in Child : cpc[c] \in {"none", "reaped"}
                         /\ ~ listed /\ tty = "shell"

(* The shell keeps the gate open until it has written every byte, and each *)
(* byte that is gone was taken by a child that is past the gate or ended.  *)
Taken == {c \in Child : PastGate(c) \/ Ended(c)}
ByteInv ==
    /\ ppc \in {"fork", "join", "add", "register", "handover", "release"} => writer
    /\ sent - tokens <= Cardinality(Taken)
    /\ ppc = "launched" => sent = count

IInv == CountsOK /\ ChildrenOK /\ ProgressInv /\ GateInv /\ RollbackInv /\ ByteInv

-----------------------------------------------------------------------------
(* The shell starts with an empty gate and no child.                       *)
LEMMA InitInv == Init => IInv
<1> SUFFICES ASSUME Init PROVE IInv
  OBVIOUS
<1> USE GateAssumption DEF Init, Child
<1>1. CountsOK
  BY DEF CountsOK, Launching
<1>2. ChildrenOK
  BY DEF ChildrenOK, ChildStates
<1>3. ProgressInv
  BY DEF ProgressInv, Grouped, Complete, Listed, Registered, Handed
<1>4. GateInv
  BY DEF GateInv, PastGate
<1>5. RollbackInv
  BY DEF RollbackInv
<1>6. ByteInv
  <2>1. Taken = {}
    BY DEF Taken, PastGate, Ended
  <2> QED
    BY <2>1, FS_EmptySet DEF ByteInv
<1> QED
  BY <1>1, <1>2, <1>3, <1>4, <1>5, <1>6 DEF IInv

(* What a step of one child, or a signal to it, can do.                    *)
Moves(c) == Prepares(c) \/ Execs(c) \/ ProgramEnds(c) \/ Deliver(c) \/ Killed(c)

Past == {"close", "reset", "unmask", "redirect", "program"}

(* It moves one child on, takes a byte or none, and leaves the shell's     *)
(* variables alone.                                                        *)
LEMMA ChildMoves ==
    ASSUME ChildrenOK, CountsOK, NEW c \in Child, Moves(c)
    PROVE  /\ cpc' = [cpc EXCEPT ![c] = cpc'[c]]
           /\ cpc'[c] \in ChildStates \ {"none", "reaped"}
           /\ cpc[c] \in Past => cpc'[c] \in Past \cup {"dead"}
           /\ \/ tokens' = tokens /\ (cpc'[c] \in Past => cpc[c] \in Past)
              \/ tokens' = tokens - 1 /\ tokens > 0 /\ cpc[c] = "gate" /\ cpc'[c] = "close"
           /\ cpc'[c] = "refused" => tokens = 0 /\ ~ Writers /\ cpc[c] = "gate"
           /\ Alive(c)
           /\ group' = group \/ group' = [group EXCEPT ![c] = "job"]
           /\ UNCHANGED <<fixed, shellVars>>
<1> USE DEF ChildrenOK, CountsOK, ChildStates, Past, Alive, Ended, Step, childVars
<1>1. CASE ClosesWriteEnd(c) \/ BlocksSignals(c) \/ ClosesEvent(c)
  BY <1>1 DEF ClosesWriteEnd, BlocksSignals, ClosesEvent
<1>2. CASE Joins(c)
  BY <1>2 DEF Joins
<1>3. CASE Passes(c)
  BY <1>3 DEF Passes
<1>4. CASE Refused(c)
  BY <1>4 DEF Refused
<1>5. CASE ClosesGate(c) \/ ResetsHandlers(c) \/ Unmasks(c)
  BY <1>5 DEF ClosesGate, ResetsHandlers, Unmasks, AfterGate
<1>6. CASE Execs(c) \/ ProgramEnds(c) \/ Killed(c)
  BY <1>6 DEF Execs, ProgramEnds, Killed
<1>7. CASE Deliver(c)
  BY <1>7 DEF Deliver
<1> QED
  BY <1>1, <1>2, <1>3, <1>4, <1>5, <1>6, <1>7, Moves(c) DEF Moves, Prepares

(* Sets of children are finite, and a part of one is no larger.            *)
LEMMA ChildSets ==
    ASSUME NEW T \in SUBSET Child
    PROVE  /\ IsFiniteSet(T)
           /\ Cardinality(T) \in Nat
           /\ \A S \in SUBSET T : Cardinality(S) <= Cardinality(T)
<1>1. IsFiniteSet(Child)
  BY FS_Interval, GateAssumption DEF Child
<1>2. IsFiniteSet(T)
  BY <1>1, FS_Subset
<1> QED
  BY <1>2, FS_CardinalityType, FS_Subset

(* So it keeps the invariant; a byte it takes makes it one of Taken.       *)
LEMMA ChildPreserves ==
    ASSUME IInv, NEW c \in Child, Moves(c)
    PROVE  IInv'
<1> USE DEF IInv
<1>0. /\ count' = count /\ foreground' = foreground /\ ppc' = ppc /\ forked' = forked
      /\ listed' = listed /\ registered' = registered /\ sent' = sent /\ at' = at
      /\ writer' = writer /\ tty' = tty
  BY ChildMoves DEF fixed, shellVars
<1>1. /\ cpc' = [cpc EXCEPT ![c] = cpc'[c]]
      /\ cpc'[c] \in ChildStates \ {"none", "reaped"}
      /\ Alive(c)
  BY ChildMoves
<1>2. /\ \/ tokens' = tokens /\ (cpc'[c] \in Past => cpc[c] \in Past)
         \/ tokens' = tokens - 1 /\ tokens > 0 /\ cpc[c] = "gate" /\ cpc'[c] = "close"
      /\ cpc[c] \in Past => cpc'[c] \in Past \cup {"dead"}
  BY ChildMoves
<1>3. group' = group \/ group' = [group EXCEPT ![c] = "job"]
  BY ChildMoves
<1>4. CountsOK'
  BY <1>0, <1>2, GateAssumption DEF CountsOK, Child
<1>5. ChildrenOK'
  BY <1>1, <1>3 DEF ChildrenOK
<1>6. \A d \in Child : group[d] = "job" => group'[d] = "job"
  BY <1>3 DEF ChildrenOK
<1>7. ProgressInv'
  <2>1. count \in Nat /\ forked \in Nat /\ forked <= count /\ count <= MaxPipe
    BY GateAssumption DEF CountsOK, Child
  <2>2. Grouped(count) => Grouped(count)'
    BY <1>0, <1>6, <2>1, GateAssumption DEF Grouped, Child
  <2>3. Grouped(forked) => Grouped(forked)'
    BY <1>0, <1>6, <2>1, GateAssumption DEF Grouped, Child
  <2>4. Grouped(forked - 1) => Grouped(forked - 1)'
    BY <1>0, <1>6, <2>1, GateAssumption DEF Grouped, Child
  <2> QED
    BY <1>0, <2>2, <2>3, <2>4 DEF ProgressInv
<1>8. GateInv'
  <2>1. Published => Published'
    BY <1>0, <1>6, GateAssumption DEF Published, Grouped, CountsOK, Child
  <2>2. \A d \in Child : PastGate(d)' => sent > 0
    BY <1>1, <1>2 DEF GateInv, PastGate, Past, ChildrenOK, CountsOK
  <2> QED
    BY <1>0, <2>1, <2>2 DEF GateInv
<1>9. RollbackInv'
  <2>1. \A d \in Child : Ended(d) => cpc'[d] = cpc[d] /\ Ended(d)'
    BY <1>1 DEF Ended, Alive, ChildrenOK
  <2>2. \A d \in Child : cpc[d] = "none" <=> cpc'[d] = "none"
    BY <1>1 DEF Ended, Alive, ChildrenOK
  <2>3. \A d \in Child : cpc[d] = "reaped" => cpc'[d] = "reaped"
    BY <2>1 DEF Ended
  <2> QED
    BY <1>0, <2>1, <2>2, <2>3 DEF RollbackInv
<1>10. ByteInv'
  <2>1. \A d \in Child : d \in Taken => d \in Taken'
    BY <1>1, <1>2 DEF Taken, PastGate, Past, Ended, Alive, ChildrenOK
  <2>2. Taken \subseteq Taken' /\ Taken' \in SUBSET Child
    BY <2>1 DEF Taken
  <2>3. /\ Cardinality(Taken) \in Nat /\ Cardinality(Taken') \in Nat
        /\ IsFiniteSet(Taken)
        /\ \A S \in SUBSET Taken' : Cardinality(S) <= Cardinality(Taken')
    BY <2>2, ChildSets
  <2>4. CASE tokens' = tokens
    <3>1. Cardinality(Taken) <= Cardinality(Taken')
      BY <2>2, <2>3
    <3> QED
      BY <1>0, <2>3, <2>4, <3>1, GateAssumption DEF ByteInv, CountsOK, Child
  <2>5. CASE tokens' = tokens - 1 /\ cpc[c] = "gate" /\ cpc'[c] = "close"
    <3>1. c \notin Taken /\ c \in Taken'
      BY <2>5 DEF Taken, PastGate, Ended
    <3>2. Taken \cup {c} \subseteq Taken'
      BY <2>2, <3>1
    <3>3. Cardinality(Taken \cup {c}) = Cardinality(Taken) + 1
      BY <2>3, <3>1, FS_AddElement
    <3>4. Cardinality(Taken) + 1 <= Cardinality(Taken')
      BY <2>3, <3>2, <3>3
    <3> QED
      BY <1>0, <2>3, <2>5, <3>4, GateAssumption DEF ByteInv, CountsOK, Child
  <2> QED
    BY <1>2, <2>4, <2>5
<1> QED
  BY <1>4, <1>5, <1>7, <1>8, <1>9, <1>10

(* What a step of the shell leaves alone keeps the rest of the invariant.  *)
LEMMA ByteFrame ==
    ASSUME CountsOK, \A d \in Child : d \in Taken => d \in Taken'
    PROVE  /\ Cardinality(Taken) \in Nat
           /\ Cardinality(Taken') \in Nat
           /\ Cardinality(Taken) <= Cardinality(Taken')
<1>1. Taken \in SUBSET Taken' /\ Taken' \in SUBSET Child
  BY DEF Taken
<1> QED
  BY <1>1, ChildSets

(* The steps of a launch up to the handover: no byte has been written, and *)
(* the children wait at the gate or before it.                             *)
LEMMA LaunchPreserves ==
    ASSUME IInv, CreateGate \/ Fork \/ JoinByShell \/ AddJob \/ AddProcess \/ HandOver
    PROVE  IInv'
<1> USE GateAssumption DEF IInv, Goto, RollBack, fixed, childVars, Child
<1>1. CASE CreateGate
  <2> USE <1>1 DEF CreateGate
  <2>1. CountsOK' /\ ChildrenOK'
    BY DEF CountsOK, ChildrenOK, Launching, RollbackSteps
  <2>2. ProgressInv' /\ GateInv'
    BY DEF CountsOK, ProgressInv, GateInv, Grouped, Published, PastGate, Complete, Listed,
           Registered, Handed
  <2>3. RollbackInv'
    BY DEF CountsOK, RollbackInv, ProgressInv, Ended
  <2>4. ByteInv'
    BY DEF CountsOK, ByteInv, Taken, PastGate, Ended
  <2> QED
    BY <2>1, <2>2, <2>3, <2>4
<1>2. CASE Fork
  <2> USE <1>2 DEF Fork
  <2>1. CountsOK' /\ ChildrenOK'
    BY DEF CountsOK, ChildrenOK, ProgressInv, ChildStates, Launching, RollbackSteps
  <2>2. ProgressInv'
    BY DEF CountsOK, ProgressInv, Grouped, Complete, Listed, Registered, Handed
  <2>3. GateInv'
    BY DEF CountsOK, ChildrenOK, ProgressInv, GateInv, PastGate
  <2>4. RollbackInv'
    BY DEF CountsOK, ChildrenOK, RollbackInv, ProgressInv, Ended
  <2>5. ByteInv'
    <3>1. \A d \in Child : d \in Taken => d \in Taken'
      BY DEF CountsOK, ChildrenOK, RollbackInv, ProgressInv, Taken, PastGate, Ended
    <3> QED
      BY <3>1, ByteFrame DEF CountsOK, ByteInv
  <2> QED
    BY <2>1, <2>2, <2>3, <2>4, <2>5
<1>3. CASE JoinByShell
  <2> USE <1>3 DEF JoinByShell
  <2>1. CountsOK' /\ ChildrenOK'
    BY DEF CountsOK, ChildrenOK, Launching, RollbackSteps
  <2>2. ProgressInv'
    BY DEF CountsOK, ChildrenOK, ProgressInv, Grouped, Complete, Listed, Registered, Handed
  <2>3. GateInv'
    BY DEF CountsOK, ChildrenOK, ProgressInv, GateInv, PastGate
  <2>4. RollbackInv'
    BY DEF CountsOK, RollbackInv, Ended
  <2>5. ByteInv'
    BY DEF CountsOK, ByteInv, Taken, PastGate, Ended
  <2> QED
    BY <2>1, <2>2, <2>3, <2>4, <2>5
<1>4. CASE AddJob \/ AddProcess \/ HandOver
  <2> USE <1>4 DEF AddJob, AddProcess, AllAdded, HandOver
  <2>1. CountsOK' /\ ChildrenOK'
    BY DEF CountsOK, ChildrenOK, Launching, RollbackSteps
  <2>2. ProgressInv'
    BY DEF CountsOK, ProgressInv, Grouped, Complete, Listed, Registered, Handed
  <2>3. GateInv'
    BY DEF CountsOK, ProgressInv, GateInv, PastGate
  <2>4. RollbackInv'
    BY DEF CountsOK, RollbackInv, Ended
  <2>5. ByteInv'
    BY DEF CountsOK, ByteInv, Taken, PastGate, Ended
  <2> QED
    BY <2>1, <2>2, <2>3, <2>4, <2>5
<1> QED
  BY <1>1, <1>2, <1>3, <1>4

(* A byte is written when everything is published.                         *)
LEMMA ReleasePreserves == ASSUME IInv, Release PROVE IInv'
<1> USE GateAssumption
    DEF IInv, Release, BytesDue, Goto, RollBack, fixed, childVars, Child
<1>1. CountsOK' /\ ChildrenOK'
  BY DEF CountsOK, ChildrenOK, Launching, RollbackSteps
<1>2. ProgressInv'
  BY DEF CountsOK, ProgressInv, Grouped, Complete, Listed, Registered, Handed
<1>3. GateInv'
  BY DEF CountsOK, ProgressInv, GateInv, Published, Grouped, PastGate, Complete, Listed,
         Registered, Handed
<1>4. RollbackInv'
  BY DEF CountsOK, RollbackInv, Ended
<1>5. ByteInv'
  <2>1. Taken' = Taken
    BY DEF Taken, PastGate, Ended
  <2> QED
    BY <2>1 DEF CountsOK, ByteInv
<1> QED
  BY <1>1, <1>2, <1>3, <1>4, <1>5

(* The rollback ends every child before it reaps them one by one.          *)
LEMMA RollbackPreserves ==
    ASSUME IInv, CloseGate \/ RollbackGroup \/ RollbackEach \/ ReapChild
    PROVE  IInv'
<1> USE GateAssumption DEF IInv, Goto, fixed, childVars, Child
<1>1. CASE CloseGate
  <2> USE <1>1 DEF CloseGate
  <2>1. CountsOK' /\ ChildrenOK'
    BY DEF CountsOK, ChildrenOK, Launching, RollbackSteps
  <2>2. ProgressInv' /\ GateInv'
    BY DEF CountsOK, ProgressInv, GateInv, Published, Grouped, PastGate, Complete, Listed,
           Registered, Handed
  <2>3. RollbackInv' /\ ByteInv'
    BY DEF CountsOK, RollbackInv, ByteInv, Taken, PastGate, Ended
  <2> QED
    BY <2>1, <2>2, <2>3
<1>2. CASE RollbackGroup \/ RollbackEach
  <2> USE <1>2 DEF RollbackGroup, RollbackEach, Kill
  <2>1. \A d \in Child : cpc'[d] = cpc[d] \/ (Alive(d) /\ cpc'[d] = "dead")
    BY DEF ChildrenOK
  <2>2. CountsOK' /\ ChildrenOK'
    BY DEF CountsOK, ChildrenOK, ChildStates, Launching, RollbackSteps
  <2>3. ProgressInv' /\ GateInv'
    BY <2>1 DEF CountsOK, ProgressInv, GateInv, Published, Grouped, PastGate, Complete,
                Listed, Registered, Handed
  <2>4. RollbackInv'
    <3>1. \A d \in Child : (cpc[d] = "none" <=> cpc'[d] = "none") /\ (Ended(d) => Ended(d)')
      BY <2>1 DEF Ended, Alive
    <3>2. CASE RollbackGroup
      BY <3>1, <3>2 DEF CountsOK, RollbackInv
    <3>3. CASE RollbackEach
      <4>1. CASE at <= forked
        <5>1. at \in Child /\ cpc[at] # "none"
          BY <4>1 DEF CountsOK, RollbackInv
        <5>2. \A d \in Child : d = at => Ended(d)'
          BY <3>3, <4>1, <5>1 DEF CountsOK, ChildrenOK, Ended, Alive
        <5> QED
          BY <3>1, <3>3, <4>1, <5>1, <5>2 DEF CountsOK, RollbackInv
      <4>2. CASE at > forked
        BY <3>3, <4>2 DEF CountsOK, RollbackInv, Ended
      <4> QED
        BY <4>1, <4>2 DEF CountsOK
    <3> QED
      BY <3>2, <3>3
  <2>5. ByteInv'
    <3>1. \A d \in Child : d \in Taken => d \in Taken'
      BY <2>1 DEF Taken, PastGate, Ended, Alive
    <3> QED
      BY <3>1, ByteFrame DEF CountsOK, ByteInv
  <2> QED
    BY <2>2, <2>3, <2>4, <2>5
<1>3. CASE ReapChild
  <2> USE <1>3 DEF ReapChild, ReapsTo
  <2>1. \A d \in Child : cpc'[d] = cpc[d] \/ (Ended(d) /\ cpc'[d] = "reaped")
    BY DEF CountsOK, ChildrenOK, Launching, RollbackSteps
  <2>2. CountsOK' /\ ChildrenOK'
    BY DEF CountsOK, ChildrenOK, ChildStates, Launching, RollbackSteps
  <2>3. ProgressInv' /\ GateInv'
    BY <2>1 DEF CountsOK, ProgressInv, GateInv, Published, Grouped, PastGate, Complete,
                Listed, Registered, Handed, Ended
  <2>4. RollbackInv'
    BY <2>1 DEF CountsOK, ChildrenOK, RollbackInv, Ended
  <2>5. ByteInv'
    <3>1. \A d \in Child : d \in Taken => d \in Taken'
      BY <2>1 DEF Taken, PastGate, Ended
    <3> QED
      BY <3>1, ByteFrame DEF CountsOK, ByteInv
  <2> QED
    BY <2>2, <2>3, <2>4, <2>5
<1> QED
  BY <1>1, <1>2, <1>3

(* The invariant does not speak of signals and of the mask of a child.     *)
LEMMA FramePreserves ==
    ASSUME IInv, UNCHANGED <<fixed, shellVars, cpc, group, tokens>>
    PROVE  IInv'
<1> USE DEF IInv, fixed, shellVars
<1>1. CountsOK' /\ ChildrenOK'
  BY DEF CountsOK, ChildrenOK, Launching, RollbackSteps
<1>2. ProgressInv' /\ GateInv'
  BY DEF ProgressInv, GateInv, Grouped, Published, PastGate
<1>3. RollbackInv' /\ ByteInv'
  BY DEF RollbackInv, ByteInv, Taken, PastGate, Ended
<1> QED
  BY <1>1, <1>2, <1>3

(* Every step of the shell, of a child or of a signal keeps the invariant. *)
LEMMA StepInv == IInv /\ [Next]_vars => IInv'
<1> SUFFICES ASSUME IInv, [Next]_vars PROVE IInv'
  OBVIOUS
<1>1. CASE Shell
  BY <1>1, LaunchPreserves, ReleasePreserves, RollbackPreserves DEF Shell
<1>2. CASE \E c \in Child : Moves(c)
  BY <1>2, ChildPreserves
<1>3. CASE Interrupt \/ Over \/ UNCHANGED vars
  <2>1. UNCHANGED <<fixed, shellVars, cpc, group, tokens>>
    BY <1>3 DEF Interrupt, Over, vars, childVars
  <2> QED
    BY <2>1, FramePreserves
<1> QED
  BY <1>1, <1>2, <1>3 DEF Next, Moves

(* IInv is an invariant of every launch.                                   *)
LEMMA Invariance == Spec => []IInv
BY InitInv, StepInv, PTL DEF Spec

-----------------------------------------------------------------------------
(* No child of a launch runs before the group, the job, its processes and  *)
(* the terminal are in place, however long the pipeline is.                *)
THEOREM PublishedBeforeRun == Spec => []PublishedFirst
<1>1. IInv => PublishedFirst
  <2> SUFFICES ASSUME IInv, NEW c \in Child, PastGate(c)
               PROVE  /\ listed /\ registered = count
                      /\ foreground => tty = "job"
                      /\ \A d \in 1..count : group[d] = "job"
    BY DEF PublishedFirst
  <2>1. ppc # "failed"
    BY DEF IInv, RollbackInv, PastGate
  <2>2. Published
    BY <2>1 DEF IInv, GateInv
  <2> QED
    BY <2>2 DEF Published, Grouped
<1> QED
  BY <1>1, Invariance, PTL

(* A launch that failed has reaped every child, and the job and the        *)
(* terminal are as before.                                                 *)
THEOREM RollbackLeavesNothing == Spec => []RollbackClean
<1>1. IInv => RollbackClean
  BY DEF IInv, RollbackInv, RollbackClean
<1> QED
  BY <1>1, Invariance, PTL

-----------------------------------------------------------------------------
(* A set of 1..n that misses a member has fewer than n members.            *)
LEMMA OneMissing ==
    ASSUME NEW n \in Nat, NEW m \in 1..n, NEW T \in SUBSET ((1..n) \ {m})
    PROVE  Cardinality(T) \in Nat /\ Cardinality(T) < n
<1> DEFINE R == (1..n) \ {m}
<1>1. IsFiniteSet(1..n) /\ Cardinality(1..n) = n
  BY FS_Interval
<1>2. IsFiniteSet(R) /\ Cardinality(R) = n - 1
  BY <1>1, FS_RemoveElement
<1>3. /\ IsFiniteSet(T) /\ Cardinality(T) <= Cardinality(R)
  <2> HIDE DEF R
  <2>1. T \in SUBSET R
    BY DEF R
  <2> QED
    BY <1>2, <2>1, FS_Subset
<1>4. Cardinality(T) \in Nat
  BY <1>3, FS_CardinalityType
<1> QED
  BY <1>2, <1>3, <1>4

(* A gate whose end a waiting child can see is the gate of a rollback: as  *)
(* long as one child waits, fewer than count bytes can be gone.            *)
LEMMA RefusalMeansRollback ==
    ASSUME IInv, NEW c \in Child, cpc[c] = "gate", tokens = 0, ~ Writers
    PROVE  ppc \in RollbackSteps \cup {"failed"}
<1> USE GateAssumption DEF IInv, CountsOK, Child
<1>1. ~ writer
  BY DEF Writers
<1>2. ppc # "gate"
  BY DEF ProgressInv, RollbackInv
<1>3. ppc \notin {"fork", "join", "add", "register", "handover", "release"}
  BY <1>1 DEF ByteInv
<1>4. ppc # "launched"
  <2> SUFFICES ASSUME ppc = "launched" PROVE FALSE
    OBVIOUS
  <2>1. forked = count /\ sent = count /\ count \in Nat
    BY DEF ProgressInv, ByteInv, Complete
  <2>2. c \in 1..count
    BY <2>1 DEF RollbackInv
  <2>3. Taken \in SUBSET ((1..count) \ {c})
    BY <2>1 DEF Taken, PastGate, Ended, RollbackInv, ChildrenOK
  <2>4. Cardinality(Taken) \in Nat /\ Cardinality(Taken) < count
    BY <2>1, <2>2, <2>3, OneMissing
  <2>5. sent - tokens <= Cardinality(Taken)
    BY DEF ByteInv
  <2> QED
    BY <2>1, <2>4, <2>5
<1> QED
  BY <1>2, <1>3, <1>4 DEF Launching

(* Whatever refuses a child, it keeps the launch in its rollback.          *)
LEMMA RefusedStep == IInv /\ NoFalseRefusal /\ [Next]_vars => NoFalseRefusal'
<1> SUFFICES ASSUME IInv, NoFalseRefusal, [Next]_vars,
                    NEW d \in Child, cpc'[d] = "refused"
             PROVE  ppc' \in RollbackSteps \cup {"failed"}
  BY DEF NoFalseRefusal
<1> USE DEF IInv, NoFalseRefusal
<1>1. CASE Shell
  <2> USE <1>1 DEF RollbackSteps, Goto, RollBack, fixed, childVars
  <2>1. CASE CreateGate \/ JoinByShell \/ AddJob \/ AddProcess \/ HandOver \/ Release
    BY <2>1 DEF CreateGate, JoinByShell, AddJob, AddProcess, HandOver, Release
  <2>2. CASE Fork
    BY <2>2 DEF Fork, ChildrenOK
  <2>3. CASE CloseGate \/ RollbackGroup \/ RollbackEach \/ ReapChild
    BY <2>3 DEF CloseGate, RollbackGroup, RollbackEach, ReapChild
  <2> QED
    BY <2>1, <2>2, <2>3 DEF Shell
<1>2. ASSUME NEW c \in Child, Moves(c) PROVE ppc' \in RollbackSteps \cup {"failed"}
  <2>1. /\ ppc' = ppc
        /\ cpc' = [cpc EXCEPT ![c] = cpc'[c]]
        /\ cpc'[c] = "refused" => tokens = 0 /\ ~ Writers /\ cpc[c] = "gate"
    BY <1>2, ChildMoves DEF shellVars
  <2>2. CASE d = c
    BY <2>1, <2>2, RefusalMeansRollback
  <2>3. CASE d # c
    BY <2>1, <2>3 DEF ChildrenOK
  <2> QED
    BY <2>2, <2>3
<1>3. CASE Interrupt \/ Over \/ UNCHANGED vars
  BY <1>3 DEF Interrupt, Over, vars, shellVars, childVars
<1> QED
  BY <1>1, <1>2, <1>3 DEF Next, Moves

(* startup_gate_wait: a child that waits is turned away only by the        *)
(* rollback, however many others were killed before they took their bytes. *)
THEOREM NoneRefused == Spec => []NoFalseRefusal
<1>1. Init => NoFalseRefusal
  BY DEF Init, NoFalseRefusal
<1> QED
  BY <1>1, RefusedStep, Invariance, PTL DEF Spec

-----------------------------------------------------------------------------
(* The variables the invariant above does not speak of.                    *)
FlagsOK == foreground \in BOOLEAN /\ listed \in BOOLEAN /\ writer \in BOOLEAN

RestOK ==
    /\ FlagsOK
    /\ tty \in {"shell", "job"}
    /\ handler \in [Child -> {"shell", "default"}]
    /\ blocked \in [Child -> BOOLEAN]
    /\ pending \in [Child -> BOOLEAN]
    /\ hit \in [Child -> {"none", "early", "held"}]
    /\ signals \in 0..MaxSignals
    /\ faults \in 0..MaxFaults

(* From the blocking of the signals to their release a SIGINT stays        *)
(* pending, and at the release it meets the default handler.               *)
Blocking == {"join", "event", "gate", "close", "reset", "unmask"}
Released == {"redirect", "program"}

HeldInv ==
    \A c \in Child :
        /\ cpc[c] \in Blocking => blocked[c]
        /\ cpc[c] \in Released \cup {"unmask"} => handler[c] = "default"
        /\ cpc[c] \in {"none", "born", "mask"} => hit[c] # "held"
        /\ hit[c] = "held" /\ cpc[c] \in Blocking \cup Released => pending[c]

(* The steps of the shell, which fork, kill and reap children and leave    *)
(* their masks and handlers alone, keep both.                              *)
LEMMA ShellRest == ASSUME IInv, RestOK, HeldInv, Shell PROVE RestOK' /\ HeldInv'
<1> USE GateAssumption DEF Goto, RollBack, fixed, childVars
<1>1. RestOK'
  <2> USE DEF RestOK, Fault
  <2>1. CASE CreateGate
    <3>1. FlagsOK'
      BY <2>1, Zenon DEF CreateGate, FlagsOK
    <3> QED
      BY <2>1, <3>1 DEF CreateGate
  <2>2. CASE Fork \/ JoinByShell
    BY <2>2 DEF Fork, JoinByShell, FlagsOK
  <2>3. CASE AddJob
    <3>1. FlagsOK'
      BY <2>3, Zenon DEF AddJob, FlagsOK
    <3> QED
      BY <2>3, <3>1 DEF AddJob
  <2>4. CASE AddProcess
    BY <2>4 DEF AddProcess, FlagsOK
  <2>5. CASE HandOver
    BY <2>5 DEF HandOver, FlagsOK
  <2>6. CASE Release
    BY <2>6 DEF Release, FlagsOK
  <2>7. CASE CloseGate \/ RollbackGroup
    BY <2>7 DEF CloseGate, RollbackGroup, FlagsOK
  <2>8. CASE RollbackEach \/ ReapChild
    BY <2>8 DEF RollbackEach, ReapChild, FlagsOK
  <2> QED
    BY <2>1, <2>2, <2>3, <2>4, <2>5, <2>6, <2>7, <2>8 DEF Shell
<1>2. /\ UNCHANGED <<handler, blocked, pending, hit>>
      /\ \A c \in Child : \/ cpc'[c] = cpc[c]
                          \/ cpc[c] = "none" /\ cpc'[c] = "born"
                          \/ cpc'[c] \in {"dead", "reaped"}
  <2> USE DEF IInv, ChildrenOK
  <2>1. CASE CreateGate \/ JoinByShell \/ AddJob \/ AddProcess \/ HandOver \/ Release
    BY <2>1 DEF CreateGate, JoinByShell, AddJob, AddProcess, HandOver, Release
  <2>2. CASE Fork
    BY <2>2 DEF Fork, RollbackInv, CountsOK, ProgressInv, Child
  <2>3. CASE CloseGate \/ RollbackGroup \/ RollbackEach \/ ReapChild
    BY <2>3 DEF CloseGate, RollbackGroup, RollbackEach, ReapChild, Kill
  <2> QED
    BY <2>1, <2>2, <2>3 DEF Shell
<1>3. HeldInv'
  BY <1>2 DEF HeldInv, Blocking, Released
<1> QED
  BY <1>1, <1>3

(* So do the steps of a child, which is not blocked when a signal ends it. *)
LEMMA ChildRest ==
    ASSUME IInv, RestOK, HeldInv, NEW c \in Child, Moves(c)
    PROVE  RestOK' /\ HeldInv'
<1> USE DEF IInv, ChildrenOK, Step, fixed, shellVars
<1>1. RestOK'
  <2> USE GateAssumption DEF RestOK, FlagsOK
  <2>1. CASE ClosesWriteEnd(c) \/ ClosesEvent(c) \/ Passes(c) \/ Refused(c)
    BY <2>1 DEF ClosesWriteEnd, ClosesEvent, Passes, Refused
  <2>2. CASE BlocksSignals(c)
    BY <2>2 DEF BlocksSignals
  <2>3. CASE Joins(c)
    BY <2>3 DEF Joins, Fault
  <2>4. CASE ClosesGate(c) \/ ResetsHandlers(c) \/ Unmasks(c)
    BY <2>4 DEF ClosesGate, ResetsHandlers, Unmasks
  <2>5. CASE Execs(c) \/ ProgramEnds(c)
    BY <2>5 DEF Execs, ProgramEnds
  <2>6. CASE Killed(c)
    BY <2>6 DEF Killed
  <2>7. CASE Deliver(c)
    BY <2>7 DEF Deliver
  <2> QED
    BY <2>1, <2>2, <2>3, <2>4, <2>5, <2>6, <2>7 DEF Moves, Prepares
<1>2. HeldInv'
  <2> USE DEF RestOK, HeldInv, Blocking, Released
  <2>1. CASE ClosesWriteEnd(c) \/ ClosesEvent(c)
    BY <2>1 DEF ClosesWriteEnd, ClosesEvent
  <2>2. CASE BlocksSignals(c)
    BY <2>2 DEF BlocksSignals
  <2>3. CASE Joins(c)
    BY <2>3 DEF Joins
  <2>4. CASE Passes(c) \/ Refused(c)
    BY <2>4 DEF Passes, Refused
  <2>5. CASE ClosesGate(c)
    BY <2>5 DEF ClosesGate, AfterGate
  <2>6. CASE ResetsHandlers(c)
    BY <2>6 DEF ResetsHandlers, AfterGate
  <2>7. CASE Unmasks(c)
    BY <2>7 DEF Unmasks, AfterGate
  <2>8. CASE Execs(c) \/ ProgramEnds(c) \/ Killed(c)
    BY <2>8 DEF Execs, ProgramEnds, Killed
  <2>9. CASE Deliver(c)
    BY <2>9 DEF Deliver, Due, Alive, Ended
  <2> QED
    BY <2>1, <2>2, <2>3, <2>4, <2>5, <2>6, <2>7, <2>8, <2>9 DEF Moves, Prepares
<1> QED
  BY <1>1, <1>2

(* And so does a ^C, which is remembered for every process it goes to.     *)
LEMMA RestStep == IInv /\ RestOK /\ HeldInv /\ [Next]_vars => RestOK' /\ HeldInv'
<1> SUFFICES ASSUME IInv, RestOK, HeldInv, [Next]_vars PROVE RestOK' /\ HeldInv'
  OBVIOUS
<1>1. CASE Shell
  BY <1>1, ShellRest
<1>2. CASE \E c \in Child : Moves(c)
  BY <1>2, ChildRest
<1>3. CASE Interrupt
  <2> USE <1>3 DEF Interrupt, fixed, shellVars
  <2>1. RestOK'
    BY GateAssumption DEF RestOK, FlagsOK
  <2>2. \A c \in Child :
           /\ cpc'[c] = cpc[c] /\ blocked'[c] = blocked[c] /\ handler'[c] = handler[c]
           /\ pending[c] => pending'[c]
           /\ hit'[c] # hit[c] => \/ hit'[c] = "early"
                                  \/ pending'[c] /\ Alive(c) /\ cpc[c] \notin {"born", "mask"}
    BY DEF RestOK
  <2>3. HeldInv'
    BY <2>2 DEF HeldInv, Alive, Blocking, Released
  <2> QED
    BY <2>1, <2>3
<1>4. CASE Over \/ UNCHANGED vars
  BY <1>4 DEF Over, vars, fixed, shellVars, childVars, RestOK, FlagsOK, HeldInv
<1> QED
  BY <1>1, <1>2, <1>3, <1>4 DEF Next, Moves

(* Both are invariants of every launch.                                    *)
LEMMA RestInvariance == Spec => [](IInv /\ RestOK /\ HeldInv)
<1>1. Init => FlagsOK
  BY Zenon DEF Init, FlagsOK
<1>2. Init => RestOK
  BY <1>1, GateAssumption DEF Init, RestOK
<1>3. Init => HeldInv
  BY DEF Init, HeldInv, Blocking, Released
<1> QED
  BY <1>2, <1>3, RestStep, Invariance, PTL DEF Spec

-----------------------------------------------------------------------------
(* The pipes between the commands, and who has them open: between two forks *)
(* the shell keeps one read end, and a child starts with that and the pipe  *)
(* behind it.                                                               *)
Before(n) == IF n > 1 THEN {<<n - 1, "read">>} ELSE {}
Behind(n) == IF n < count THEN {<<n, "read">>, <<n, "write">>} ELSE {}

ShellWires ==
    /\ wires \subseteq End
    /\ ppc = "fork" => wires = Before(forked + 1)
    /\ ppc = "join" => wires = Before(forked) \cup Behind(forked)
    /\ ppc \notin {"fork", "join", "close_gate"} => wires = {}

ChildWires ==
    /\ ends \in [Child -> SUBSET End]
    /\ \A c \in Child : Alive(c) =>
          ends[c] = IF cpc[c] = "program" THEN Plugged(c) ELSE Before(c) \cup Behind(c)

(* The ends are those of pipes that there are.                             *)
LEMMA PipeEnds ==
    ASSUME CountsOK, NEW n \in Child, n <= count
    PROVE  Before(n) \cup Behind(n) \subseteq End
<1> QED
  BY GateAssumption DEF CountsOK, Child, Before, Behind, End

(* The steps of the shell keep both.                                       *)
LEMMA ShellKeepsWires ==
    ASSUME IInv, ShellWires, ChildWires, Shell
    PROVE  ShellWires' /\ ChildWires'
<1> USE GateAssumption DEF IInv, CountsOK, ChildrenOK, Goto, RollBack, fixed, childVars, Child
<1>1. CASE Fork
  <2>1. CASE ppc' = "join"
    <3>1. forked + 1 \in Child /\ forked + 1 <= count /\ cpc[forked + 1] = "none"
      BY <1>1, <2>1 DEF Fork, ProgressInv, RollbackInv
    <3>2. wires' = Before(forked + 1) \cup Behind(forked + 1)
      BY <1>1, <2>1, <3>1 DEF Fork, ShellWires, NewPipe, Behind
    <3>3. wires' \subseteq End
      BY <3>1, <3>2, PipeEnds
    <3>4. ShellWires'
      BY <1>1, <2>1, <3>2, <3>3 DEF Fork, ShellWires, Before, Behind
    <3>5. ends' = [ends EXCEPT ![forked + 1] = wires']
          /\ cpc' = [cpc EXCEPT ![forked + 1] = "born"] /\ count' = count
      BY <1>1, <2>1 DEF Fork
    <3>6. ChildWires'
      BY <3>1, <3>2, <3>3, <3>5
         DEF ChildWires, Alive, Ended, Before, Behind, Plugged
    <3> QED
      BY <3>4, <3>6
  <2>2. CASE ppc' # "join"
    BY <1>1, <2>2 DEF Fork, ShellWires, ChildWires, Alive, Ended, Before, Behind, Plugged
  <2> QED
    BY <2>1, <2>2
<1>2. CASE JoinByShell
  <2>1. forked >= 1 /\ forked <= count
    BY <1>2 DEF JoinByShell, ProgressInv
  <2>2. ShellWires'
    BY <1>2, <2>1 DEF JoinByShell, ShellWires, HandedOn, Before, Behind
  <2>3. ChildWires'
    BY <1>2 DEF JoinByShell, ChildWires, Alive, Ended, Before, Behind, Plugged
  <2> QED
    BY <2>2, <2>3
<1>3. CASE CreateGate
  <2>1. forked = 0 /\ forked' = 0 /\ wires' = wires /\ ppc' \in {"fork", "failed"}
    BY <1>3 DEF CreateGate, ProgressInv
  <2>2. ShellWires'
    BY <1>3, <2>1 DEF CreateGate, ShellWires, Before
  <2>3. ChildWires'
    BY <1>3 DEF CreateGate, ChildWires, Alive, Ended, Before, Behind, Plugged
  <2> QED
    BY <2>2, <2>3
<1>4. CASE AddJob \/ AddProcess \/ HandOver \/ Release
  <2>1. wires' = {} /\ ppc' \notin {"fork", "join"}
    BY <1>4 DEF AddJob, AddProcess, HandOver, Release, ShellWires
  <2>2. UNCHANGED <<count, cpc, ends>>
    BY <1>4 DEF AddJob, AddProcess, HandOver, Release
  <2> QED
    BY <2>1, <2>2 DEF ShellWires, ChildWires, Alive, Ended, Before, Behind, Plugged
<1>5. CASE CloseGate \/ RollbackGroup \/ RollbackEach \/ ReapChild
  <2>1. wires' = {} /\ ppc' \notin {"fork", "join"} /\ UNCHANGED <<count, ends>>
    BY <1>5 DEF CloseGate, RollbackGroup, RollbackEach, ReapChild, ShellWires
  <2>2. \A c \in Child : cpc'[c] = cpc[c] \/ cpc'[c] \in {"dead", "reaped"}
    BY <1>5 DEF CloseGate, RollbackGroup, RollbackEach, ReapChild, Kill
  <2> QED
    BY <2>1, <2>2 DEF ShellWires, ChildWires, Alive, Ended, Before, Behind, Plugged
<1> QED
  BY <1>1, <1>2, <1>3, <1>4, <1>5, Shell DEF Shell

(* So do those of a child, which closes one end before its program starts. *)
LEMMA ChildKeepsWires ==
    ASSUME IInv, ShellWires, ChildWires, NEW c \in Child, Moves(c)
    PROVE  ShellWires' /\ ChildWires'
<1> USE DEF IInv
<1>1. UNCHANGED <<fixed, shellVars>> /\ cpc' = [cpc EXCEPT ![c] = cpc'[c]] /\ Alive(c)
  BY ChildMoves
<1>2. ShellWires'
  BY <1>1 DEF ShellWires, shellVars, fixed, Before, Behind
<1>3. CASE cpc'[c] = "program" /\ Execs(c)
  <2>1. ends' = [ends EXCEPT ![c] = @ \ {<<c, "read">>}] /\ cpc[c] = "redirect"
    BY <1>3 DEF Execs, Step, ChildrenOK
  <2>2. ends[c] = Before(c) \cup Behind(c)
    BY <1>1, <2>1 DEF ChildWires
  <2>3. ends'[c] = Plugged(c)
    BY <2>1, <2>2, GateAssumption DEF ChildWires, Before, Behind, Plugged, Child
  <2>4. ChildWires'
    BY <1>1, <1>3, <2>1, <2>3
       DEF ChildWires, ChildrenOK, Alive, Ended, fixed, Before, Behind, Plugged
  <2> QED
    BY <1>2, <2>4
<1>4. CASE ~ (cpc'[c] = "program" /\ Execs(c))
  <2>1. ends' = ends
    BY <1>4, Moves(c)
       DEF Moves, Prepares, ClosesWriteEnd, BlocksSignals, Joins, ClosesEvent, Passes,
           Refused, ClosesGate, ResetsHandlers, Unmasks, Execs, ProgramEnds, Deliver, Killed,
           Step, ChildrenOK
  <2>2. cpc'[c] = "program" => cpc[c] = "program"
    BY <1>4, <1>1, Moves(c)
       DEF Moves, Prepares, ClosesWriteEnd, BlocksSignals, Joins, ClosesEvent, Passes,
           Refused, ClosesGate, ResetsHandlers, Unmasks, Execs, ProgramEnds, Deliver, Killed,
           Step, AfterGate, ChildrenOK
  <2>3. cpc[c] = "program" => cpc'[c] \in {"program", "dead"}
    BY <1>4, <1>1, Moves(c)
       DEF Moves, Prepares, ClosesWriteEnd, BlocksSignals, Joins, ClosesEvent, Passes,
           Refused, ClosesGate, ResetsHandlers, Unmasks, Execs, ProgramEnds, Deliver, Killed,
           Step, AfterGate, ChildrenOK
  <2>4. ChildWires'
    BY <1>1, <2>1, <2>2, <2>3
       DEF ChildWires, ChildrenOK, Alive, Ended, fixed, Before, Behind, Plugged
  <2> QED
    BY <1>2, <2>4
<1> QED
  BY <1>3, <1>4

(* No other step touches a pipe.                                           *)
LEMMA WireStep ==
    IInv /\ ShellWires /\ ChildWires /\ [Next]_vars => ShellWires' /\ ChildWires'
<1> SUFFICES ASSUME IInv, ShellWires, ChildWires, [Next]_vars
             PROVE  ShellWires' /\ ChildWires'
  OBVIOUS
<1>1. CASE Shell
  BY <1>1, ShellKeepsWires
<1>2. CASE \E c \in Child : Moves(c)
  BY <1>2, ChildKeepsWires
<1>3. CASE Interrupt \/ Over \/ UNCHANGED vars
  BY <1>3 DEF Interrupt, Over, vars, fixed, shellVars, childVars, ShellWires, ChildWires,
              Alive, Ended, Before, Behind, Plugged
<1> QED
  BY <1>1, <1>2, <1>3 DEF Next, Moves

(* The invariant of the pipes of every behaviour.                          *)
LEMMA WireInvariance == Spec => [](IInv /\ ShellWires /\ ChildWires)
<1>1. Init => ShellWires /\ ChildWires
  BY DEF Init, ShellWires, ChildWires, Alive
<1> QED
  BY <1>1, WireStep, Invariance, PTL DEF Spec

(* Whatever fails, and whoever is killed, a program has the two ends of    *)
(* pipes its place in the pipeline gives it, and the shell is left none.   *)
THEOREM PipesConnected == Spec => []PipesConnect
<1>1. ShellWires /\ ChildWires => PipesConnect
  BY DEF ShellWires, ChildWires, PipesConnect, Alive, Ended
<1> QED
  BY <1>1, WireInvariance, PTL

(* Every variable has its type, and the gate never holds more bytes than   *)
(* the job has processes.                                                  *)
THEOREM TypeCorrect == Spec => []TypeOK
<1>1. IInv /\ RestOK /\ ShellWires /\ ChildWires => TypeOK
  BY DEF ShellWires, ChildWires, IInv, CountsOK, ChildrenOK, RestOK, FlagsOK, TypeOK, Launching, ChildStates
<1> QED
  BY <1>1, RestInvariance, WireInvariance, PTL

(* signal_reset_child resets the handlers before the mask: a ^C that came  *)
(* while the child had its signals blocked ends it, whenever it came.      *)
THEOREM HeldInterrupts == Spec => []HeldInterruptActs
<1>1. HeldInv => HeldInterruptActs
  BY DEF HeldInv, HeldInterruptActs, Released
<1> QED
  BY <1>1, RestInvariance, PTL
=============================================================================
