--------------------------- MODULE BuiltinsProofs ---------------------------
(***************************************************************************)
(* Theorems about Builtins.                                                *)
(***************************************************************************)
EXTENDS Builtins, TLAPS

Others == \/ Enter \/ SimpleBuiltin \/ Finish
          \/ SurveyStep \/ SnapshotStep \/ InfoStep \/ ProcessStep
          \/ Over

ConfigPlaces == {"locate", "open", "read", "close", "cd"}
LedPlaces == {"led_max", "led_trigger", "led_check_trigger", "led_brightness",
              "led_check_brightness"}

SessionInv == session \in Sessions /\ typed \in 0..Len(session.commands)

(* The steps of the session are outside the calls of the LED and the load.  *)
LEMMA OthersElsewhere ==
    ASSUME SessionInv, Others
    PROVE  /\ call \notin ConfigPlaces /\ call' \notin {"locate", "read", "close"}
           /\ call \notin LedPlaces \cup {"led"} /\ call' \notin LedPlaces
           /\ UNCHANGED configVars
           /\ \/ UNCHANGED ledVars /\ call # "return"
              \/ call = "return" /\ LedOver
<1>1. CASE Enter
  <2>1. session.commands[typed'] \in Builtin
    BY <1>1, SessionsAssumption DEF Enter, SessionInv
  <2>2. PICK step \in FirstSteps(session.commands[typed']) : Goto(step)
    BY <1>1 DEF Enter
  <2>3. step \notin {"locate", "read", "close"} \cup LedPlaces
    BY <2>1 DEF FirstSteps, Builtin, LedPlaces
  <2> QED BY <1>1, <2>2, <2>3 DEF Enter, At, Goto, ConfigPlaces, LedPlaces
<1>2. CASE SimpleBuiltin
  BY <1>2 DEF SimpleBuiltin, At, Goto, Return, ConfigPlaces, LedPlaces
<1>3. CASE Finish
  BY <1>3 DEF Finish, At, ConfigPlaces, LedPlaces
<1>4. CASE SurveyStep
  BY <1>4 DEF SurveyStep, Survey, ReadEntry, ReadSoc, EndSurvey, NoDirectory, At, Goto,
              ConfigPlaces, LedPlaces, callVars
<1>5. CASE SnapshotStep
  BY <1>5 DEF SnapshotStep, SnapshotSteps, Monitor, FirstSample, SecondSample, ReadMemory,
              ReadLoad, ThermalRead, NetworkRead, Fails, BeginSurvey, At, Goto, Return,
              ConfigPlaces, LedPlaces
<1>6. CASE InfoStep
  BY <1>6 DEF InfoStep, InfoSteps, CollectHardware, NextSection, PrintHardware, Identify,
              CpuLine, EndCpuInfo, MemoryAndUptime, PrintSystem, DeviceTree, SplitItem,
              EndSplit, BeginSurvey, At, Goto, Return, ConfigPlaces, LedPlaces
<1>7. CASE ProcessStep
  BY <1>7 DEF ProcessStep, ProcessSteps, Psinfo, NextEntry, ReadStatus, EndWalk, PsinfoOf,
              Begins, Ends, Walking, At, Goto, Return, ConfigPlaces, LedPlaces
<1>8. CASE Over
  BY <1>8 DEF Over, vars, callVars, configVars, ledVars, At, ConfigPlaces, LedPlaces
<1> QED BY <1>1, <1>2, <1>3, <1>4, <1>5, <1>6, <1>7, <1>8 DEF Others

-----------------------------------------------------------------------------
(* The session. *)

(* The session is one of those given, and as many commands were typed as    *)
(* it has or fewer.                                                         *)
LEMMA SessionInvariance == Spec => []SessionInv
<1>1. Init => SessionInv
  BY SessionsAssumption DEF Init, SessionInv
<1>2. SessionInv /\ [Next]_vars => SessionInv'
  <2> SUFFICES ASSUME SessionInv, [Next]_vars PROVE SessionInv'
    OBVIOUS
  <2>1. CASE Enter
    BY <2>1, SessionsAssumption DEF Enter, SessionInv
  <2>2. CASE UNCHANGED <<session, typed>>
    BY <2>2 DEF SessionInv
  <2>3. [Next]_vars => Enter \/ UNCHANGED <<session, typed>>
    BY DEF Next, vars, shellVars, SimpleBuiltin, Finish, ConfigurationStep, LedStep, SurveyStep,
           SnapshotStep, InfoStep, ProcessStep, Over
  <2> QED BY <2>1, <2>2, <2>3
<1> QED BY <1>1, <1>2, PTL DEF Spec

-----------------------------------------------------------------------------
(* led: what is known of the LED at each step of the command. *)

LedTypes ==
    /\ led \in Led /\ before \in Led
    /\ goal \in Goals \cup {"idle"}
    /\ max \in {0, MaxBright}

(* The command is where it was started, and knows the brightness it wants. *)
LedPlaceInv ==
    /\ call \in LedPlaces => goal # "idle"
    /\ goal # "idle" => call \in LedPlaces \cup {"return"}
    /\ call = "led_max" => goal = "on"
    /\ call \in {"led_brightness", "led_check_brightness"} => goal \in {"on", "off"}
    /\ call \in LedPlaces \ {"led_max"} /\ goal = "on" => max = MaxBright

DarkOr(b) == led.trigger = "none" => led.brightness \in {before.brightness, b}

(* What the LED has become, if nobody else has written to it. *)
LedSoFar ==
    goal # "idle" /\ ~ touched =>
        /\ call \in {"led_max", "led_trigger"} =>
              led.trigger = before.trigger /\ DarkOr(before.brightness)
        /\ call = "led_check_trigger" =>
              led.trigger \in {before.trigger, WantedTrigger(goal)} /\ DarkOr(0)
        /\ call = "led_brightness" => led.trigger = "none" /\ DarkOr(0)
        /\ call = "led_check_brightness" =>
              /\ led.trigger = "none"
              /\ led.brightness \in {before.brightness, 0, WantedBrightness}

LedInv == LedTypes /\ LedPlaceInv /\ LedSoFar /\ LedHonest

(* No LED command has been given yet.                                       *)
LEMMA LedInitially == Init => LedInv
<1> SUFFICES ASSUME Init PROVE LedInv
  OBVIOUS
<1>1. /\ call = "locate" /\ goal = "idle" /\ max = 0 /\ touched = FALSE
      /\ led = Dark /\ before = Dark
  BY DEF Init, LedInit
<1>2. LedTypes
  BY <1>1, LedAssumption DEF LedTypes, Led, Dark
<1> QED BY <1>1, <1>2 DEF LedInv, LedPlaceInv, LedSoFar, LedHonest, LedPlaces, At

(* A write to an LED leaves one of its triggers and a brightness it can have.*)
LEMMA WrittenLed ==
    ASSUME NEW l \in Led
    PROVE  /\ \A t \in Triggers \cup {"none"} :
                 /\ WithTrigger(l, t) \in Led
                 /\ WithTrigger(l, t).trigger = t
                 /\ t = "none" => WithTrigger(l, t) = l \/ WithTrigger(l, t).brightness = 0
           /\ \A b \in {0, MaxBright} :
                 /\ WithBrightness(l, b) \in Led
                 /\ WithBrightness(l, b).trigger \in {l.trigger, "none"}
                 /\ WithBrightness(l, b).brightness = b
<1>1. l.trigger \in Triggers \cup {"none"} /\ l.brightness \in 0..MaxBright
  BY DEF Led
<1>2. Dark \in Led /\ Dark.trigger = "none" /\ Dark.brightness = 0
  BY LedAssumption DEF Led, Dark
<1>3. ASSUME NEW t \in Triggers \cup {"none"}
      PROVE  /\ [l EXCEPT !.trigger = t] \in Led
             /\ [l EXCEPT !.trigger = t].trigger = t
  BY DEF Led
<1>4. ASSUME NEW b \in 0..MaxBright
      PROVE  /\ [l EXCEPT !.brightness = b] \in Led
             /\ [l EXCEPT !.brightness = b].trigger = l.trigger
             /\ [l EXCEPT !.brightness = b].brightness = b
  BY DEF Led
<1>5. \A t \in Triggers \cup {"none"} :
          /\ WithTrigger(l, t) \in Led
          /\ WithTrigger(l, t).trigger = t
          /\ t = "none" => WithTrigger(l, t) = l \/ WithTrigger(l, t).brightness = 0
  BY <1>1, <1>2, <1>3 DEF WithTrigger
<1>6. \A b \in {0, MaxBright} :
          /\ WithBrightness(l, b) \in Led
          /\ WithBrightness(l, b).trigger \in {l.trigger, "none"}
          /\ WithBrightness(l, b).brightness = b
  BY <1>1, <1>2, <1>4, LedAssumption DEF WithBrightness
<1> QED BY <1>5, <1>6

(* The call of led clears what was reported before.                         *)
LEMMA LedCommandStep ==
    ASSUME LedInv, LedCommand PROVE LedInv'
<1> USE DEF LedInv, LedTypes, LedPlaceInv, LedSoFar, LedHonest, LedPlaces, At, Goto, Return
<1>1. goal = "idle"
  BY DEF LedCommand
<1>2. CASE UNCHANGED <<led, goal, before, touched>> /\ call' = "return"
  BY <1>1, <1>2 DEF LedCommand
<1>3. CASE \E g \in Goals, now \in Led :
               /\ goal' = g
               /\ Goto(IF g = "on" THEN "led_max" ELSE "led_trigger")
               /\ led' = now /\ before' = now /\ touched' = FALSE
  <2>1. goal' \in Goals /\ goal' # "idle" /\ led' \in Led /\ before' = led' /\ ~ touched'
    BY <1>3, LedAssumption DEF Goals
  <2>2. call' = IF goal' = "on" THEN "led_max" ELSE "led_trigger"
    BY <1>3
  <2>3. max' = max
    BY DEF LedCommand
  <2>4. LedTypes'
    BY <2>1, <2>3
  <2>5. LedPlaceInv'
    BY <2>1, <2>2
  <2>6. LedSoFar'
    BY <2>1, <2>2 DEF DarkOr
  <2>7. LedHonest'
    BY <2>2
  <2> QED BY <2>4, <2>5, <2>6, <2>7
<1> QED BY <1>2, <1>3 DEF LedCommand

(* max_brightness is read and decides which brightness is written.          *)
LEMMA ReadMaxStep ==
    ASSUME LedInv, ReadMax PROVE LedInv'
<1> USE DEF LedInv, LedTypes, LedPlaceInv, LedSoFar, LedHonest, LedPlaces, At, Goto, Return,
            LedFails, DarkOr
<1>1. /\ call = "led_max" /\ goal = "on"
      /\ UNCHANGED <<led, goal, before, touched>>
  BY DEF ReadMax
<1>2. \/ call' = "led_trigger" /\ max' = MaxBright
      \/ call' = "return" /\ ret' = "unknown" /\ max' \in {0, MaxBright}
  BY LedAssumption DEF ReadMax
<1> QED BY <1>1, <1>2 DEF WantedTrigger

(* The trigger is written; a driver may take another value or none.         *)
LEMMA WriteTriggerStep ==
    ASSUME LedInv, WriteTrigger PROVE LedInv'
<1> USE DEF LedInv, LedTypes, LedPlaceInv, LedSoFar, LedHonest, LedPlaces, At, Goto, Return,
            LedFails, DarkOr
<1> DEFINE t == WantedTrigger(goal)
<1>1. /\ call = "led_trigger" /\ goal \in Goals
      /\ UNCHANGED <<goal, max, before, touched>>
  BY DEF WriteTrigger
<1>2. t \in Triggers \cup {"none"}
  BY <1>1 DEF WantedTrigger, Goals
<1>3. /\ led' \in {led, WithTrigger(led, t)}
      /\ \/ call' = "led_check_trigger"
         \/ call' = "return" /\ ret' = "unknown"
  BY DEF WriteTrigger, Write
<1>4. /\ led' \in Led
      /\ led' = led \/ (led'.trigger = t /\ (t = "none" => led'.brightness = 0))
  BY <1>2, <1>3, WrittenLed
<1>5. UNCHANGED WantedTrigger(goal)
  BY <1>1 DEF WantedTrigger
<1> HIDE DEF t
<1>6. LedTypes'
  BY <1>1, <1>4
<1>7. LedPlaceInv'
  BY <1>1, <1>3
<1>8. LedSoFar'
  BY <1>1, <1>3, <1>4, <1>5 DEF t
<1>9. LedHonest'
  BY <1>1, <1>3, <1>4, <1>5 DEF t
<1> QED BY <1>6, <1>7, <1>8, <1>9

(* The trigger is read back and compared.                                   *)
LEMMA CheckTriggerStep ==
    ASSUME LedInv, CheckTrigger PROVE LedInv'
<1> USE DEF LedInv, LedTypes, LedPlaceInv, LedSoFar, LedHonest, LedPlaces, At, Goto, Return,
            LedFails, DarkOr
<1>1. call = "led_check_trigger" /\ goal \in Goals /\ UNCHANGED ledVars
  BY DEF CheckTrigger
<1>2. \/ call' = "return" /\ ret' = "unknown"
      \/ /\ led.trigger = WantedTrigger(goal)
         /\ \/ goal \in {"on", "off"} /\ call' = "led_brightness"
            \/ goal \notin {"on", "off"} /\ call' = "return" /\ ret' = "ok"
  BY DEF CheckTrigger, TriggerAgrees
<1> QED BY <1>1, <1>2 DEF WantedTrigger, Done, ledVars

(* The brightness is written; a driver may take another value or none.      *)
LEMMA WriteBrightnessStep ==
    ASSUME LedInv, WriteBrightness PROVE LedInv'
<1> USE DEF LedInv, LedTypes, LedPlaceInv, LedSoFar, LedHonest, LedPlaces, At, Goto, Return,
            LedFails, DarkOr
<1> DEFINE b == WantedBrightness
<1>1. /\ call = "led_brightness" /\ goal \in {"on", "off"}
      /\ b = IF goal = "on" THEN MaxBright ELSE 0
      /\ UNCHANGED <<goal, max, before, touched>>
  BY DEF WriteBrightness, WantedBrightness
<1>2. /\ led' \in {led, WithBrightness(led, b)}
      /\ \/ call' = "led_check_brightness"
         \/ call' = "return" /\ ret' = "unknown"
  BY DEF WriteBrightness, Write
<1>3. /\ led' \in Led
      /\ led' = led \/ (led'.trigger \in {led.trigger, "none"} /\ led'.brightness = b)
  BY <1>1, <1>2, WrittenLed
<1>4. b' = b /\ WantedTrigger(goal)' = "none"
  BY <1>1 DEF WantedBrightness, WantedTrigger
<1> HIDE DEF b
<1> QED BY <1>1, <1>2, <1>3, <1>4 DEF b

(* The brightness is read back and compared, and the command reports.       *)
LEMMA CheckBrightnessStep ==
    ASSUME LedInv, CheckBrightness PROVE LedInv'
<1> USE DEF LedInv, LedTypes, LedPlaceInv, LedSoFar, LedHonest, LedPlaces, At, Goto, Return,
            LedFails, DarkOr
<1>1. /\ call = "led_check_brightness" /\ goal \in {"on", "off"}
      /\ WantedBrightness = IF goal = "on" THEN MaxBright ELSE 0
      /\ UNCHANGED ledVars
  BY DEF CheckBrightness, WantedBrightness
<1>2. \/ call' = "return" /\ ret' = "unknown"
      \/ led.brightness = WantedBrightness /\ call' = "return" /\ ret' = "ok"
  BY DEF CheckBrightness
<1>3. led = [trigger |-> led.trigger, brightness |-> led.brightness]
  BY DEF Led
<1> QED BY <1>1, <1>2, <1>3 DEF WantedTrigger, Done, Dark, ledVars

(* The trigger of the LED changes its brightness.                           *)
LEMMA BlinkStep ==
    ASSUME LedInv, Blink PROVE LedInv'
<1> USE DEF LedInv, LedTypes, LedPlaceInv, LedSoFar, LedHonest, LedPlaces, At, DarkOr
<1>1. /\ led.trigger # "none"
      /\ UNCHANGED <<call, ret, goal, max, before, touched>>
  BY DEF Blink
<1>2. led' \in Led /\ led'.trigger = led.trigger
  BY DEF Blink, Led
<1> QED BY <1>1, <1>2 DEF WantedTrigger, Done, Dark

(* Another process writes to the LED.                                       *)
LEMMA MeddleStep ==
    ASSUME LedInv, Meddle PROVE LedInv'
<1> USE DEF LedInv, LedTypes, LedPlaceInv, LedSoFar, LedHonest, LedPlaces
<1>1. touched' /\ UNCHANGED <<call, ret, goal, max, before>>
  BY DEF Meddle
<1>2. led' \in Led
  BY WrittenLed DEF Meddle
<1> QED BY <1>1, <1>2

(* The steps of the other builtins and of the configuration. *)
LEMMA LedIdle ==
    ASSUME LedInv, UNCHANGED ledVars, goal = "idle", call' \notin LedPlaces
    PROVE  LedInv'
BY DEF LedInv, LedTypes, LedPlaceInv, LedSoFar, LedHonest, LedPlaces, ledVars

(* No step of the configuration is at a place of the LED commands.          *)
LEMMA ConfigurationElsewhere ==
    ASSUME ConfigurationStep
    PROVE  call \in ConfigPlaces /\ call' \notin LedPlaces /\ UNCHANGED ledVars
BY DEF ConfigurationStep, Locate, Load, OpenFails, Open, ReadLine, ReadEnds, Close,
       ChangeDirectory, Loaded, At, Goto, Return, ConfigPlaces, LedPlaces

(* Every step keeps the invariant of the LED commands.                      *)
LEMMA LedStepKeeps ==
    ASSUME SessionInv, LedInv, [Next]_vars PROVE LedInv'
<1>1. CASE Others
  <2>1. CASE UNCHANGED ledVars /\ call # "return"
    <3>1. goal = "idle"
      BY <1>1, <2>1, OthersElsewhere DEF LedInv, LedPlaceInv
    <3> QED BY <1>1, <2>1, <3>1, OthersElsewhere, LedIdle
  <2>2. CASE LedOver
    <3>1. call' \notin LedPlaces
      BY <1>1, OthersElsewhere
    <3>2. /\ goal' = "idle" /\ max' = 0
          /\ led' = Dark /\ before' = Dark
      BY <2>2 DEF LedOver
    <3>3. Dark \in Led
      BY LedAssumption DEF Led, Dark
    <3> QED BY <3>1, <3>2, <3>3
            DEF LedInv, LedTypes, LedPlaceInv, LedSoFar, LedHonest, LedPlaces
  <2> QED BY <1>1, <2>1, <2>2, OthersElsewhere
<1>2. CASE ConfigurationStep
  <2>1. goal = "idle"
    BY <1>2, ConfigurationElsewhere DEF LedInv, LedPlaceInv, LedPlaces, ConfigPlaces
  <2> QED BY <1>2, <2>1, ConfigurationElsewhere, LedIdle
<1>3. CASE LedStep
  BY <1>3, LedCommandStep, ReadMaxStep, WriteTriggerStep, CheckTriggerStep, WriteBrightnessStep,
     CheckBrightnessStep, BlinkStep, MeddleStep DEF LedStep, LedSteps
<1>4. CASE UNCHANGED vars
  <2>1. UNCHANGED <<call, ret, ledVars>>
    BY <1>4 DEF vars, callVars
  <2> QED BY <2>1 DEF LedInv, LedTypes, LedPlaceInv, LedSoFar, LedHonest, ledVars, DarkOr,
                      WantedTrigger, WantedBrightness, Done, At
<1> QED BY <1>1, <1>2, <1>3, <1>4 DEF Next, Others

(* led reports success only for an LED in the state it was asked for, and   *)
(* leaves no other LED than the one before or the one asked for when one of *)
(* its writes or read backs has failed: led_control_set_on and its likes,   *)
(* for any LED, any triggers and any number of writes by other processes.   *)
THEOREM LedTold == Spec => []LedHonest
<1>1. SessionInv /\ LedInv /\ [Next]_vars => LedInv'
  BY LedStepKeeps
<1>2. LedInv => LedHonest
  BY DEF LedInv
<1> QED BY <1>1, <1>2, LedInitially, SessionInvariance, PTL DEF Spec

-----------------------------------------------------------------------------
(* The configuration: it implements ConfigStore. *)

(* A number that fits an int comes through strtol and the check as it is.   *)
LEMMA NumbersKept ==
    ASSUME NEW n \in Numbers
    PROVE  /\ JobsAccepted(n) <=> n \in 1..IntMax
           /\ n \in 1..IntMax => ToInt(Strtol(n, LongMax).value, IntMax) = n
<1>1. n \in Int /\ IntMax \in Nat /\ LongMax \in Nat /\ LongMax >= IntMax /\ IntMax > 0
  BY ConfigurationAssumption
<1>2. n \in 1..IntMax => Strtol(n, LongMax) = [value |-> n, error |-> FALSE]
  BY <1>1 DEF Strtol
<1>3. JobsAccepted(n) <=> n \in 1..IntMax
  BY <1>1 DEF JobsAccepted, Strtol
<1>4. ASSUME n \in 1..IntMax PROVE ToInt(n, IntMax) = n
  <2>1. \A a, m \in Nat : a < m => a % m = a
    OBVIOUS
  <2>2. n + IntMax + 1 \in Nat /\ 2 * (IntMax + 1) \in Nat /\ n + IntMax + 1 < 2 * (IntMax + 1)
    BY <1>1, <1>4
  <2>3. (n + IntMax + 1) % (2 * (IntMax + 1)) = n + IntMax + 1
    BY <2>1, <2>2
  <2> QED BY <1>1, <1>4, <2>3 DEF ToInt
<1> QED BY <1>2, <1>3, <1>4

(* The keys of the lines, and the values they come with.                    *)
LEMMA LineIs ==
    ASSUME NEW line \in Line
    PROVE  /\ line.key \in {"blank", "unknown", "long", "prompts", "debug", "max_job"}
           /\ line.key = "prompts" => line.text \in Prompts \cup {"empty", "wide"}
           /\ line.key = "max_job" => \/ line.text = "other"
                                      \/ line.text = "number" /\ line.number \in Numbers
<1>1. \A k, t : /\ Word(k, t).key = k
                /\ Word(k, t).text = t
  BY DEF Word
<1>2. CASE line \in {Word("blank", ""), Word("unknown", ""), Word("long", "")}
  <2>1. \E k \in {"blank", "unknown", "long"} : line = Word(k, "")
    BY <1>2
  <2>2. line.key \in {"blank", "unknown", "long"}
    BY <1>1, <2>1
  <2> QED BY <2>2
<1>3. CASE line \in {Word("prompts", t) : t \in Prompts \cup {"empty", "wide"}}
  BY <1>1, <1>3
<1>4. CASE line \in {Word("debug", t) : t \in {"0", "1", "other"}}
  BY <1>1, <1>4
<1>5. CASE line = Word("max_job", "other")
  BY <1>1, <1>5
<1>6. CASE line \in {[key |-> "max_job", text |-> "number", number |-> n] : n \in Numbers}
  BY <1>6
<1> QED BY <1>2, <1>3, <1>4, <1>5, <1>6 DEF Line

(* The code takes the lines the store takes, and their numbers as they are. *)
LEMMA LinesAre ==
    ASSUME NEW line \in Line
    PROVE  /\ Valid(line) <=> Store!Acceptable(line)
           /\ Valid(line) /\ line.key = "max_job" =>
                  ToInt(Strtol(line.number, LongMax).value, IntMax) = line.number
<1>1. /\ line.key \in {"blank", "unknown", "long", "prompts", "debug", "max_job"}
      /\ line.key = "prompts" => line.text \in Prompts \cup {"empty", "wide"}
      /\ line.key = "max_job" => \/ line.text = "other"
                                 \/ line.text = "number" /\ line.number \in Numbers
  BY LineIs
<1>2. CASE line.key \in {"blank", "unknown", "long"}
  BY <1>2 DEF Valid, Store!Acceptable
<1>3. CASE line.key = "prompts"
  <2>1. Valid(line) <=> line.text \notin {"empty", "wide"}
    BY <1>3 DEF Valid
  <2>2. Store!Acceptable(line) <=> line.text \in Prompts
    BY <1>3 DEF Store!Acceptable
  <2> QED BY <1>1, <1>3, <2>1, <2>2, ConfigurationAssumption
<1>4. CASE line.key = "debug"
  BY <1>4 DEF Valid, Store!Acceptable
<1>5. CASE line.key = "max_job"
  <2>1. Valid(line) <=> line.text = "number" /\ JobsAccepted(line.number)
    BY <1>5 DEF Valid
  <2>2. Store!Acceptable(line) <=> line.text = "number" /\ line.number \in 1..IntMax
    BY <1>5 DEF Store!Acceptable
  <2> QED BY <1>1, <1>5, <2>1, <2>2, NumbersKept
<1> QED BY <1>1, <1>2, <1>3, <1>4, <1>5

(* One more line says what it says for its own key, and nothing for others. *)
Prefix(f, n) == [i \in 1..n |-> f[i]]

(* What the first lines of a file say grows with the next line.             *)
LEMMA SaysOn ==
    ASSUME NEW f, NEW n \in Nat, NEW key
    PROVE  /\ f[n + 1].key = key => Store!Says(Prefix(f, n + 1), key, Store!Said(f[n + 1]))
           /\ \A value : /\ f[n + 1].key # key
                         /\ Store!Says(Prefix(f, n), key, value)
                         => Store!Says(Prefix(f, n + 1), key, value)
<1> DEFINE g == Prefix(f, n)  h == Prefix(f, n + 1)
<1>1. /\ DOMAIN g = 1..n /\ DOMAIN h = 1..(n + 1)
      /\ \A i \in 1..n : g[i] = f[i]
      /\ \A i \in 1..(n + 1) : h[i] = f[i]
      /\ 1..(n + 1) = 1..n \cup {n + 1}
      /\ \A i \in 1..n : i < n + 1
  BY DEF Prefix
<1> HIDE DEF g, h
<1>2. ASSUME f[n + 1].key = key PROVE Store!Says(h, key, Store!Said(f[n + 1]))
  <2>1. Store!IsLast(h, key, n + 1)
    BY <1>1, <1>2 DEF Store!IsLast
  <2> QED BY <1>1, <2>1 DEF Store!Says
<1>3. ASSUME NEW value, f[n + 1].key # key, Store!Says(g, key, value)
      PROVE  Store!Says(h, key, value)
  <2>1. CASE (\A i \in DOMAIN g : g[i].key # key) /\ value = Defaults[key]
    BY <1>1, <1>3, <2>1 DEF Store!Says
  <2>2. ASSUME NEW i \in DOMAIN g, Store!IsLast(g, key, i), value = Store!Said(g[i])
        PROVE  Store!Says(h, key, value)
    <3>1. Store!IsLast(h, key, i)
      BY <1>1, <1>3, <2>2 DEF Store!IsLast
    <3> QED BY <1>1, <2>2, <3>1 DEF Store!Says
  <2> QED BY <1>3, <2>1, <2>2 DEF Store!Says
<1> QED BY <1>2, <1>3 DEF g, h

(* What the copy says while the file is read: all the lines so far.         *)
ReadSoFar ==
    /\ content \in Seq(Line)
    /\ at \in 1..(Len(content) + 1)
    /\ \A i \in 1..(at - 1) : Store!Acceptable(content[i])
    /\ temporary \in [prompts : Prompts \cup {"MiniShell"}, max_job : Int, debug : {"0", "1"}]
    /\ Store!Means(Prefix(content, at - 1), temporary)

(* The copy that is loaded says what the lines read so far say.             *)
LEMMA ReadingOn ==
    ASSUME ReadSoFar, at <= Len(content), Valid(content[at]),
           temporary' = Assigned(temporary, content[at]), at' = at + 1, UNCHANGED content
    PROVE  ReadSoFar'
<1> DEFINE line == content[at]  keys == {"prompts", "max_job", "debug"}
<1>1. at \in Nat /\ at \in 1..Len(content) /\ at - 1 \in Nat /\ line \in Line
  BY DEF ReadSoFar
<1>2. 1..(at' - 1) = 1..(at - 1) \cup {at} /\ at' - 1 = at /\ (at - 1) + 1 = at
  BY <1>1
<1>3. /\ Store!Acceptable(line)
      /\ line.key = "max_job" => ToInt(Strtol(line.number, LongMax).value, IntMax) = line.number
  BY <1>1, LinesAre
<1>4. /\ temporary' \in [prompts : Prompts \cup {"MiniShell"}, max_job : Int, debug : {"0", "1"}]
      /\ \A key \in keys : temporary'[key] = IF line.key = key THEN Store!Said(line)
                                             ELSE temporary[key]
  <2>1. /\ temporary \in [prompts : Prompts \cup {"MiniShell"}, max_job : Int, debug : {"0", "1"}]
        /\ temporary' = Assigned(temporary, line)
    BY DEF ReadSoFar
  <2>2. CASE line.key = "prompts" /\ line.text \in Prompts
    BY <2>1, <2>2 DEF Assigned, Store!Said
  <2>3. CASE line.key = "max_job" /\ line.number \in 1..IntMax
    <3>1. temporary' = [temporary EXCEPT !.max_job = line.number]
      BY <1>3, <2>1, <2>3 DEF Assigned
    <3>2. line.number \in Int
      BY <2>3
    <3> QED BY <2>1, <2>3, <3>1, <3>2 DEF Store!Said
  <2>4. CASE line.key = "debug" /\ line.text \in {"0", "1"}
    BY <2>1, <2>4 DEF Assigned, Store!Said
  <2>5. CASE line.key = "blank"
    BY <2>1, <2>5 DEF Assigned
  <2> QED BY <1>3, <2>2, <2>3, <2>4, <2>5 DEF Store!Acceptable
<1>5. \A key \in keys : Store!Says(Prefix(content, at), key, temporary'[key])
  <2> TAKE key \in keys
  <2>1. Store!Says(Prefix(content, at - 1), key, temporary[key])
    BY DEF ReadSoFar, Store!Means
  <2> QED BY <1>1, <1>2, <1>4, <2>1, SaysOn
<1>6. Store!Means(Prefix(content', at' - 1), temporary')
  BY <1>2, <1>5 DEF Store!Means
<1>7. \A i \in 1..(at' - 1) : Store!Acceptable(content'[i])
  BY <1>1, <1>2, <1>3 DEF ReadSoFar
<1> QED BY <1>1, <1>4, <1>6, <1>7 DEF ReadSoFar
(* Between two steps: the copy says what the lines so far say; a load that  *)
(* is about to close has come to the end, to a bad line or to an error.     *)
ConfigInv ==
    /\ directory \in Dirs /\ budget \in Nat
    /\ ~ started => call \in {"locate", "open", "read", "close"}
    /\ started => level = LevelOf(config)
    /\ call = "locate" => path = NoPlace
    /\ path.dir # "here"
    /\ stream \in BOOLEAN /\ (stream <=> call \in {"read", "close"})
    /\ broken \in BOOLEAN
    /\ call = "read" => result = "ok" /\ ReadSoFar
    /\ call = "close" =>
          \/ result = "ok" /\ (broken = TRUE \/ (ReadSoFar /\ at = Len(content) + 1))
          \/ result = "parse" /\ ~ Store!Sound

(* The shell starts with the defaults, and so does the store.               *)
LEMMA ConfigInitially == Init => ConfigInv /\ Store!Init
<1> SUFFICES ASSUME Init PROVE ConfigInv /\ Store!Init
  OBVIOUS
<1>1. session.directory \in Dirs /\ session.lines \in Nat
  BY SessionsAssumption DEF Init
<1>2. NoPlace.dir # "here"
  BY DEF NoPlace
<1>3. ConfigInv
  <2>1. /\ directory = session.directory /\ budget = session.lines
        /\ started = FALSE /\ call = "locate" /\ path = NoPlace
        /\ stream = FALSE /\ broken = FALSE
    BY DEF Init, ConfigInit
  <2> QED BY <1>1, <1>2, <2>1 DEF ConfigInv
<1>4. Store!Init
  BY <1>1 DEF Init, ConfigInit, Store!Init
<1> QED BY <1>3, <1>4

Implemented == ConfigInv' /\ [Store!Next]_Store!store

(* shell_context_init chooses the file: the place of the store.             *)
LEMMA LocateStep ==
    ASSUME SessionInv, ConfigInv, Locate(session.variable) PROVE Implemented
<1>1. /\ path' = NoPlace \/ path' \in Store!PlacesIn(directory)
      /\ path'.dir # "here"
  <2>1. \A n, d : Place(n, d) = [name |-> n, dir |-> d] /\ Place(n, d).dir = d
    BY DEF Place
  <2>2. NoPlace.dir = "none" /\ directory # "here"
    BY ConfigurationAssumption DEF NoPlace, ConfigInv
  <2>3. \/ path' = Place("given", "root")
        \/ path' = Place("given", directory)
        \/ path' = Place("../config", "program")
        \/ path' = Place("config", "program")
        \/ path' = Place("config", directory)
        \/ path' = NoPlace
    BY DEF Locate, Located, GivenPath
  <2> QED BY <2>1, <2>2, <2>3 DEF Store!PlacesIn
<1>2. ConfigInv'
  BY <1>1 DEF ConfigInv, Locate, At, Goto, loadVars, LevelOf
<1>3. CASE path' = NoPlace
  <2>1. Store!Settle
    BY <1>3 DEF ConfigInv, Locate, At, Goto, loadVars, Store!Settle, LevelOf, Store!LevelOf
  <2> QED BY <1>2, <2>1 DEF Implemented, Store!Next
<1>4. CASE path' # NoPlace
  <2>1. Store!Choose
    BY <1>1, <1>4 DEF ConfigInv, Locate, At, Goto, loadVars, Store!Choose
  <2> QED BY <1>2, <2>1 DEF Implemented, Store!Next
<1> QED BY <1>3, <1>4

(* A file that cannot be opened leaves the store alone.                     *)
LEMMA OpenFailsStep == ASSUME ConfigInv, OpenFails PROVE Implemented
<1>1. /\ call = "open" /\ call' \in {"idle", "return"} /\ started' = TRUE
      /\ UNCHANGED <<directory, path, config, loadVars, origin, budget>>
      /\ level' = IF started THEN level ELSE LevelOf(config)
  BY DEF OpenFails, Loaded, At, Goto, Return
<1>2. ConfigInv'
  BY <1>1 DEF ConfigInv, loadVars, LevelOf
<1>3. Store!Settle \/ UNCHANGED Store!store
  BY <1>1 DEF ConfigInv, loadVars, LevelOf, Store!LevelOf, Store!Settle, Store!store
<1> QED BY <1>2, <1>3 DEF Implemented, Store!Next

(* fopen begins a load of the store.                                        *)
LEMMA OpenStep == ASSUME ConfigInv, Open PROVE Implemented
<1>1. PICK f \in Files(budget) : content' = f /\ budget' = budget - Len(f)
  BY DEF Open
<1>2. PICK k \in 0..budget : f \in [1..k -> Line]
  BY <1>1 DEF Files
<1>3. f \in Seq(Line) /\ Len(f) = k /\ budget' \in Nat
  BY <1>1, <1>2 DEF ConfigInv
<1>4. ReadSoFar'
  <2>1. temporary' = Defaults /\ at' = 1 /\ content' = f
    BY <1>1 DEF Open
  <2>2. Defaults \in [prompts : Prompts \cup {"MiniShell"}, max_job : Int, debug : {"0", "1"}]
    BY ConfigurationAssumption DEF Defaults
  <2>3. DOMAIN Prefix(f, 0) = {}
    BY DEF Prefix
  <2>4. Store!Means(Prefix(f, 0), Defaults)
    BY <2>3 DEF Store!Means, Store!Says
  <2> QED BY <1>3, <2>1, <2>2, <2>4 DEF ReadSoFar
<1>5. ConfigInv'
  BY <1>1, <1>3, <1>4 DEF ConfigInv, Open, At, Goto
<1>6. Store!Begin
  BY <1>1, <1>3 DEF ConfigInv, Open, At, Goto, Store!Begin
<1> QED BY <1>5, <1>6 DEF Implemented, Store!Next

(* A line is parsed into the copy: a stutter of the store.                  *)
LEMMA ReadLineStep == ASSUME ConfigInv, ReadLine PROVE Implemented
<1>1. UNCHANGED Store!store
  BY DEF ReadLine, Store!store
<1>2. ConfigInv'
  <2>1. CASE Valid(content[at])
    <3>1. ReadSoFar'
      BY <2>1, ReadingOn DEF ConfigInv, ReadLine, At
    <3> QED BY <2>1, <3>1 DEF ConfigInv, ReadLine, At
  <2>2. CASE ~ Valid(content[at])
    <3>1. content[at] \in Line /\ at \in DOMAIN content
      BY DEF ConfigInv, ReadLine, At, ReadSoFar
    <3>2. ~ Store!Acceptable(content[at])
      BY <2>2, <3>1, LinesAre
    <3>3. ~ Store!Sound'
      BY <3>1, <3>2 DEF Store!Sound, ReadLine
    <3> QED BY <2>2, <3>3 DEF ConfigInv, ReadLine, At, Goto
  <2> QED BY <2>1, <2>2
<1> QED BY <1>1, <1>2 DEF Implemented

(* The end of the file, or a failed read.                                   *)
LEMMA ReadEndsStep == ASSUME ConfigInv, ReadEnds PROVE Implemented
<1>1. ConfigInv'
  <2>1. ReadSoFar'
    <3>1. ReadSoFar /\ UNCHANGED <<content, at, temporary>>
      BY DEF ConfigInv, ReadEnds, At
    <3> QED BY <3>1 DEF ReadSoFar
  <2>2. broken' = TRUE \/ (at' = Len(content') + 1 /\ broken' = broken)
    <3>1. at \in 1..(Len(content) + 1) /\ Len(content) \in Nat
      BY DEF ConfigInv, ReadEnds, At, ReadSoFar
    <3>2. CASE at > Len(content) /\ UNCHANGED broken
      <4>1. at = Len(content) + 1
        BY <3>1, <3>2
      <4>2. at' = at /\ content' = content
        BY DEF ReadEnds
      <4>3. at' = Len(content') + 1
        BY <4>1, <4>2
      <4> QED BY <3>2, <4>3
    <3>3. CASE broken' = TRUE
      BY <3>3
    <3> QED BY <3>2, <3>3 DEF ReadEnds
  <2> QED BY <2>1, <2>2 DEF ConfigInv, ReadEnds, At, Goto
<1>2. Store!Fail \/ UNCHANGED Store!store
  BY DEF ConfigInv, ReadEnds, At, Store!Fail, Store!store
<1> QED BY <1>1, <1>2 DEF Implemented, Store!Next

(* fclose ends the load, and only then the copy becomes the settings.       *)
LEMMA CloseStep == ASSUME ConfigInv, Close PROVE Implemented
<1>1. PICK closeFails \in BOOLEAN :
        LET outcome == IF result = "ok" /\ (broken \/ closeFails) THEN "open" ELSE result IN
          /\ broken' = (broken \/ closeFails)
          /\ IF outcome = "ok"
             THEN config' = temporary /\ origin' = Resolved(path)
             ELSE UNCHANGED <<config, origin>>
          /\ Loaded(outcome)
  BY DEF Close, Adopted
<1>2. /\ call = "close" /\ stream /\ stream' = FALSE /\ content' = <<>>
      /\ UNCHANGED <<directory, path, budget>>
      /\ broken' \in BOOLEAN
      /\ path.dir # "here" /\ Resolved(path) = path
  BY <1>1 DEF ConfigInv, Close, At, Resolved
<1>3. /\ started' = TRUE /\ call' \in {"idle", "return"}
      /\ level' = LevelOf(config')
      /\ IF result = "ok" /\ ~ broken' THEN config' = temporary /\ origin' = path
                                       ELSE UNCHANGED <<config, origin>>
  BY <1>1, <1>2 DEF ConfigInv, Loaded, Goto, Return
<1>4. CASE result = "ok" /\ ~ broken'
  <2>1. ReadSoFar /\ at = Len(content) + 1
    BY <1>1, <1>2, <1>4 DEF ConfigInv
  <2>2. Len(content) \in Nat /\ DOMAIN content = 1..Len(content) /\ at - 1 = Len(content)
    BY <2>1 DEF ReadSoFar
  <2>3. Prefix(content, at - 1) = content
    BY <2>1, <2>2 DEF Prefix, ReadSoFar
  <2>4. Store!Sound /\ Store!Means(content, temporary)
    BY <2>1, <2>2, <2>3 DEF ReadSoFar, Store!Sound
  <2>5. Store!End
    BY <1>2, <1>3, <1>4, <2>4 DEF Store!End, LevelOf, Store!LevelOf
  <2> QED BY <1>2, <1>3, <2>5 DEF Implemented, ConfigInv, Store!Next
<1>5. CASE ~ (result = "ok" /\ ~ broken')
  <2>1. broken' \/ ~ Store!Sound
    BY <1>2, <1>5 DEF ConfigInv
  <2>2. Store!End
    BY <1>2, <1>3, <1>5, <2>1 DEF Store!End, LevelOf, Store!LevelOf
  <2> QED BY <1>2, <1>3, <2>2 DEF Implemented, ConfigInv, Store!Next
<1> QED BY <1>4, <1>5

(* cd moves the shell and not the file it loads.                            *)
LEMMA ChangeDirectoryStep == ASSUME ConfigInv, ChangeDirectory PROVE Implemented
<1>1. /\ call = "cd" /\ call' = "return"
      /\ directory' \in Dirs
      /\ UNCHANGED <<path, config, level, loadVars, started, origin, budget>>
  BY DEF ChangeDirectory, ConfigInv, At, Return
<1>2. ConfigInv'
  BY <1>1 DEF ConfigInv, loadVars, LevelOf
<1>3. Store!ChangeDirectory
  BY <1>1 DEF loadVars, Store!ChangeDirectory
<1> QED BY <1>2, <1>3 DEF Implemented, Store!Next

(* All the other steps leave the configuration alone.                       *)
LEMMA ConfigIdle ==
    ASSUME ConfigInv, UNCHANGED configVars,
           \/ UNCHANGED call
           \/ call \notin ConfigPlaces /\ call' \notin {"locate", "read", "close"}
    PROVE  Implemented
<1>1. UNCHANGED <<directory, path, config, level, temporary, stream, content, at, broken,
                  result, started, origin, budget>>
  BY DEF configVars, loadVars
<1>2. UNCHANGED Store!store
  BY <1>1 DEF Store!store
<1>3. ReadSoFar' <=> ReadSoFar
  BY <1>1 DEF ReadSoFar
<1>4. Store!Sound' <=> Store!Sound
  BY <1>1 DEF Store!Sound
<1>5. CASE UNCHANGED call
  BY <1>1, <1>2, <1>3, <1>4, <1>5 DEF ConfigInv, LevelOf, Implemented
<1>6. CASE call \notin ConfigPlaces /\ call' \notin {"locate", "read", "close"}
  BY <1>1, <1>2, <1>6 DEF ConfigInv, LevelOf, ConfigPlaces, Implemented
<1> QED BY <1>5, <1>6

(* Every step is a step of the store or a stutter.                          *)
LEMMA ConfigStep ==
    ASSUME SessionInv, ConfigInv, [Next]_vars PROVE Implemented
<1>1. CASE ConfigurationStep
  BY <1>1, LocateStep, OpenFailsStep, OpenStep, ReadLineStep, ReadEndsStep, CloseStep,
     ChangeDirectoryStep DEF ConfigurationStep, Load
<1>2. CASE Others
  BY <1>2, OthersElsewhere, ConfigIdle
<1>3. CASE LedStep
  <2>1. UNCHANGED configVars
    BY <1>3 DEF LedStep
  <2>2. \/ UNCHANGED call
        \/ call \in LedPlaces \cup {"led"} /\ call' \in LedPlaces \cup {"return"}
    BY <1>3 DEF LedStep, LedSteps, LedCommand, ReadMax, WriteTrigger, CheckTrigger,
                WriteBrightness, CheckBrightness, Write, LedFails, Blink, Meddle,
                At, Goto, Return, LedPlaces
  <2> QED BY <2>1, <2>2, ConfigIdle DEF LedPlaces, ConfigPlaces
<1>4. CASE UNCHANGED vars
  BY <1>4, ConfigIdle DEF vars, callVars
<1> QED BY <1>1, <1>2, <1>3, <1>4 DEF Next, Others

(* The configuration implements ConfigStore: for files of any length, any   *)
(* numbers in them and any failures of the calls, the settings in force are *)
(* the defaults or all that one whole acceptable file said, read from the   *)
(* place chosen at the start.  (config_load, shell_context_init, reload.)   *)
THEOREM ConfigurationStored == Spec => ImplementsStore
<1>1. SessionInv /\ ConfigInv /\ [Next]_vars => ConfigInv' /\ [Store!Next]_Store!store
  BY ConfigStep DEF Implemented
<1> QED BY <1>1, ConfigInitially, SessionInvariance, PTL DEF Spec, ImplementsStore, Store!Spec
=============================================================================
