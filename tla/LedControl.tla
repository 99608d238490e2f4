----------------------------- MODULE LedControl -----------------------------
(***************************************************************************)
(* led on, led off and led trigger (led_control.c, sysfs_io.c) and the LED *)
(* they switch.  An LED is switched by one or two writes to its files in   *)
(* /sys, each followed by a read back; other processes and the trigger of  *)
(* the LED change it in between, and each access can fail.                 *)
(***************************************************************************)
EXTENDS BuiltinCall

CONSTANTS Triggers,     (* triggers the kernel has, "none" not among them  *)
          MaxBright,    (* the brightness of the LED when it is on         *)
          MaxMeddling   (* bound: steps of other processes                 *)

ASSUME LedAssumption ==
    /\ Triggers \cap {"none", "on", "off", "idle"} = {}
    /\ MaxBright \in Nat \ {0}
    /\ MaxMeddling \in Nat

VARIABLES
    led,        (* the LED: its trigger and its brightness                 *)
    goal,       (* what is to be done: "on", "off", or a trigger; "idle"   *)
    max,        (* the max_brightness read                                 *)
    before,     (* history: the LED when the command began                 *)
    touched,    (* history: another process has changed it since           *)
    meddling    (* for MaxMeddling                                         *)

ledVars == <<led, goal, max, before, touched, meddling>>

Led == [trigger : Triggers \cup {"none"}, brightness : 0..MaxBright]
Goals == {"on", "off"} \cup Triggers

WantedTrigger(g) == IF g \in {"on", "off"} THEN "none" ELSE g

Dark == [trigger |-> "none", brightness |-> 0]

LedInit ==
    /\ led = Dark /\ before = Dark
    /\ goal = "idle" /\ max = 0
    /\ touched = FALSE
    /\ meddling = 0

(* The command is over: what it kept was its own.                          *)
LedOver ==
    /\ led' = Dark /\ before' = Dark
    /\ goal' = "idle" /\ max' = 0
    /\ touched' = FALSE
    /\ meddling' = 0

-----------------------------------------------------------------------------
(* The kernel *)

(* Taking a trigger away leaves the LED dark.                              *)
WithTrigger(l, t) ==
    IF t = l.trigger THEN l
    ELSE IF t = "none" THEN Dark
    ELSE [l EXCEPT !.trigger = t]

(* Writing 0 takes the trigger away, more than the maximum is the maximum. *)
WithBrightness(l, b) ==
    IF b = 0 THEN Dark
    ELSE [l EXCEPT !.brightness = IF b > MaxBright THEN MaxBright ELSE b]

(* A trigger in force changes the brightness on its own.                   *)
Blink ==
    /\ goal # "idle" /\ led.trigger # "none"
    /\ \E b \in 0..MaxBright : led' = [led EXCEPT !.brightness = b]
    /\ UNCHANGED <<call, ret, goal, max, before, touched, meddling>>

(* Another process writes to the files of the LED.                         *)
Meddle ==
    /\ goal # "idle" /\ ~ At("return")
    /\ meddling < MaxMeddling
    /\ meddling' = meddling + 1
    /\ \/ \E t \in Triggers \cup {"none"} : led' = WithTrigger(led, t)
       \/ \E b \in {0, MaxBright} : led' = WithBrightness(led, b)
    /\ touched' = TRUE
    /\ UNCHANGED <<call, ret, goal, max, before>>

-----------------------------------------------------------------------------
(* builtin_led: on, off and trigger with their arguments; led_name_valid   *)
(* and led_trigger_valid.  Up to now anything may have become of the LED.  *)
LedCommand ==
    /\ At("led")
    /\ \/ \E g \in Goals, now \in Led :
             /\ goal' = g
             /\ Goto(IF g = "on" THEN "led_max" ELSE "led_trigger")
             /\ led' = now /\ before' = now /\ touched' = FALSE
       \/ Return("unknown") /\ UNCHANGED <<led, goal, before, touched>>
       \/ Return("parse") /\ UNCHANGED <<led, goal, before, touched>>
    /\ UNCHANGED <<max, meddling>>

LedFails == Return("unknown")

(* led_read_max_brightness                                                 *)
ReadMax ==
    /\ At("led_max")
    /\ \/ \E m \in {0, MaxBright} :        \* 0: a driver that does not know
             /\ max' = m
             /\ IF m <= 0 THEN LedFails ELSE Goto("led_trigger")
       \/ LedFails /\ UNCHANGED max
    /\ UNCHANGED <<led, goal, before, touched, meddling>>

(* sysfs_write_text: a driver may take a value and ignore it, and a write  *)
(* that has had its effect may still fail, in close.                       *)
Write(changed, there) ==
    /\ led' \in {led, changed}
    /\ Goto(there) \/ LedFails

(* led_write_trigger: the write, and what led_read_active_trigger says.    *)
WriteTrigger ==
    /\ At("led_trigger")
    /\ Write(WithTrigger(led, WantedTrigger(goal)), "led_check_trigger")
    /\ UNCHANGED <<goal, max, before, touched, meddling>>

TriggerAgrees_Always == TRUE             \* mutant: the trigger is not compared
TriggerAgrees == led.trigger = WantedTrigger(goal)

CheckTrigger ==
    /\ At("led_check_trigger")
    /\ \/ IF TriggerAgrees
          THEN IF goal \in {"on", "off"} THEN Goto("led_brightness") ELSE Return("ok")
          ELSE LedFails
       \/ LedFails
    /\ UNCHANGED ledVars

(* led_write_brightness: the same for the brightness.                      *)
WantedBrightness == IF goal = "on" THEN max ELSE 0

WriteBrightness ==
    /\ At("led_brightness")
    /\ Write(WithBrightness(led, WantedBrightness), "led_check_brightness")
    /\ UNCHANGED <<goal, max, before, touched, meddling>>

CheckBrightness ==
    /\ At("led_check_brightness")
    /\ \/ IF led.brightness = WantedBrightness THEN Return("ok") ELSE LedFails
       \/ LedFails
    /\ UNCHANGED ledVars

LedSteps == \/ LedCommand \/ ReadMax \/ WriteTrigger \/ CheckTrigger
            \/ WriteBrightness \/ CheckBrightness

-----------------------------------------------------------------------------
Done(l, g) ==
    CASE g = "on"  -> l = [trigger |-> "none", brightness |-> MaxBright]
      [] g = "off" -> l = Dark
      [] OTHER     -> l.trigger = g

(* If no other process meddles, led reports success only for an LED in the *)
(* state it was asked for, and a command that fails on the way, in either  *)
(* of its writes or read backs, leaves the trigger it found or the one it  *)
(* was asked for, and an LED that was dark or lit by hand no brighter than *)
(* before or than asked for.  (led_control.c: the two steps of on and off.) *)
LedHonest ==
    At("return") /\ goal # "idle" /\ ~ touched =>
        IF ret = "ok" THEN Done(led, goal)
        ELSE /\ led.trigger \in {before.trigger, WantedTrigger(goal)}
             /\ led.trigger = "none" =>
                    led.brightness \in {before.brightness, 0}
                                      \cup (IF goal = "on" THEN {MaxBright} ELSE {})
=============================================================================
