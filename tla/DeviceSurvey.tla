---------------------------- MODULE DeviceSurvey ----------------------------
(***************************************************************************)
(* One pass over a directory of /sys: the thermal zones, the network       *)
(* interfaces, the CPU policies and the LEDs, as thermal_monitor.c,        *)
(* network_monitor.c, hardware_info.c and get_thermal_info of              *)
(* system_info.c do it.                                                    *)
(*                                                                         *)
(* readdir gives the entries in any order; any attribute of an entry may   *)
(* be unreadable, or the device may be gone when it is read.  The arrays   *)
(* have Limit places.  A name is a number, in the order of strcmp.         *)
(***************************************************************************)
EXTENDS BuiltinCall, SequencesExt

CONSTANTS Names,        (* entries a directory may have                    *)
          Lo,           (* the name of the loopback interface              *)
          Limit,        (* THERMAL_MONITOR_MAX_ZONES and the like          *)
          Values        (* numbers that can be read                        *)

ASSUME SurveyAssumption ==
    /\ Names \subseteq Nat \ {0} /\ Lo \in Names
    /\ Limit \in Nat \ {0}
    /\ Values \subseteq Int

VARIABLES
    kind,       (* which directory is read; "none"                         *)
    slots,      (* the array, as far as it is filled                       *)
    slot,       (* the next element of the array                           *)
    offered     (* history: what was read, for each entry offered so far   *)

surveyVars == <<kind, slots, slot, offered>>

Kinds == {"thermal", "network", "hw_thermal", "hw_list", "soc"}

(* The text attribute is the type or the state of an entry, the number its *)
(* temperature, frequency, brightness or count.                            *)
Texts(k) == CASE k = "thermal"    -> {"other"}
              [] k = "network"    -> {"none", "up", "down"}
              [] k = "hw_thermal" -> {"none", "other"}
              [] k = "hw_list"    -> {"none", "other"}
              [] k = "soc"        -> {"none", "soc", "other"}

(* Temperatures are compared, the other numbers are only shown.            *)
NumbersOf(k) ==
    {[has |-> FALSE, value |-> 0]}
    \cup {[has |-> TRUE, value |-> v] :
             v \in IF k \in {"thermal", "hw_thermal", "soc"} THEN Values ELSE {0}}

Empty == [name |-> 0, text |-> "none", has |-> FALSE, value |-> 0]
Slots == [name : Names \cup {0}, text : {"none", "up", "down", "soc", "other"},
          has : BOOLEAN, value : Values \cup {0}]

SurveyInit == kind = "none" /\ slots = <<>> /\ slot = Empty /\ offered = <<>>

Cleared(k) == kind' = k /\ slots' = <<>> /\ slot' = Empty /\ offered' = <<>>
BeginSurvey(k) == Cleared(k) /\ Goto("survey")

-----------------------------------------------------------------------------
(* The attributes are read in this order; collect_thermal of hardware_info *)
(* turns to the next entry if it cannot read the type, and the element of  *)
(* the array keeps what was written to it.                                 *)
Stops(k, text) == k = "hw_thermal" /\ text = "none"

Filled_NumberFirst(s, n, text, number) ==  \* mutant: temp is read before type
    [name |-> n, text |-> text, has |-> number.has \/ s.has,
     value |-> IF number.has THEN number.value ELSE s.value]
Filled(s, n, text, number) ==
    LET stopped == Stops(kind, text) IN
    [name |-> n,
     text |-> IF stopped THEN s.text ELSE text,
     has |-> (number.has /\ ~ stopped) \/ s.has,
     value |-> IF number.has /\ ~ stopped THEN number.value ELSE s.value]

Noted(n, text, number) ==
    [e \in DOMAIN offered \cup {n} |->
        IF e = n THEN [text |-> text, number |-> number] ELSE offered[e]]

(* One turn of the loop over readdir.                                      *)
ReadEntry ==
    /\ At("survey") /\ kind # "soc"
    /\ Len(slots) < Limit
    /\ \E n \in Names \ DOMAIN offered, text \in Texts(kind), number \in NumbersOf(kind) :
          /\ offered' = Noted(n, text, number)
          /\ IF Stops(kind, text)
             THEN slot' = Filled(slot, n, text, number) /\ UNCHANGED slots
             ELSE slot' = Empty /\ slots' = Append(slots, Filled(slot, n, text, number))
    /\ UNCHANGED <<call, ret, kind>>

(* get_thermal_info of system_info.c: the first zone of the right type     *)
(* with a temperature, and no array.                                       *)
ReadSoc ==
    /\ At("survey") /\ kind = "soc"
    /\ \E n \in Names \ DOMAIN offered, text \in Texts("soc"), number \in NumbersOf(kind) :
          /\ offered' = Noted(n, text, number)
          /\ IF text = "soc" /\ number.has
             THEN /\ slots' = <<[name |-> n, text |-> text, has |-> TRUE,
                               value |-> number.value]>>
                  /\ Goto("surveyed")
             ELSE UNCHANGED <<slots, call, ret>>
    /\ UNCHANGED <<kind, slot>>

(* qsort with thermal_info_compare, network_info_compare.                  *)
Ordered(s) == {t \in Arrangements(s) : \A i, j \in DOMAIN t : i < j => t[i].name <= t[j].name}

(* The end of the directory, or one entry more than the array has places.  *)
EndSurvey ==
    /\ At("survey")
    /\ slots' \in (IF kind \in {"thermal", "network"} THEN Ordered(slots) ELSE {slots})
    /\ Goto("surveyed")
    /\ UNCHANGED <<kind, slot, offered>>

(* opendir fails: an error for the monitors, an empty list for the others. *)
NoDirectory ==
    /\ At("survey") /\ offered = <<>>
    /\ Goto(IF kind \in {"thermal", "network"} THEN "unsurveyed" ELSE "surveyed")
    /\ UNCHANGED surveyVars

Survey == ReadEntry \/ ReadSoc \/ EndSurvey \/ NoDirectory

-----------------------------------------------------------------------------
(* thermal_monitor_hottest: one scan of the array.                         *)
Hottest_NoFlag(s) ==                     \* mutant: has_temperature is not looked at
    FoldLeft(LAMBDA best, z : IF best = Empty \/ z.value > best.value THEN z ELSE best, Empty, s)
Hottest(s) ==
    FoldLeft(LAMBDA best, z : IF z.has /\ (best = Empty \/ z.value > best.value)
                              THEN z ELSE best, Empty, s)

(* network_monitor_primary: three passes.                                  *)
Primary(s) ==
    LET up == SelectInSeq(s, LAMBDA e : e.name # Lo /\ e.text = "up")
        other == SelectInSeq(s, LAMBDA e : e.name # Lo)
    IN IF s = <<>> THEN Empty
       ELSE IF up # 0 THEN s[up]
       ELSE IF other # 0 THEN s[other] ELSE s[1]

-----------------------------------------------------------------------------
(* What a survey has to find.                                              *)
Listable(n) == ~ Stops(kind, offered[n].text)
IsSoc(n) == offered[n].text = "soc" /\ offered[n].number.has

OwnReading(e) ==
    /\ e.name \in DOMAIN offered
    /\ e.text = offered[e.name].text
    /\ [has |-> e.has, value |-> e.value] = offered[e.name].number

(* Each line shows what was read for that entry and for no other, no entry *)
(* is shown twice, and none that can be shown is missing.                  *)
SurveyRight ==
    At("surveyed") =>
        /\ \A i \in DOMAIN slots : OwnReading(slots[i])
        /\ \A i, j \in DOMAIN slots : slots[i].name = slots[j].name => i = j
        /\ LET shown == {slots[i].name : i \in DOMAIN slots} IN
           IF kind = "soc"
           THEN (\E n \in DOMAIN offered : IsSoc(n)) <=> (\E n \in shown : IsSoc(n))
           ELSE shown = {n \in DOMAIN offered : Listable(n)}
=============================================================================
