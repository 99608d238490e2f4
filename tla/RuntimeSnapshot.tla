-------------------------- MODULE RuntimeSnapshot --------------------------
(***************************************************************************)
(* monitor: runtime_monitor.c reads the load of the system, DeviceSurvey   *)
(* the thermal zones and the network interfaces, runtime_snapshot.c puts   *)
(* them together and cmd_runtime.c shows them.                             *)
(*                                                                         *)
(* The counters of the kernel are read twice; some of them may go back.    *)
(***************************************************************************)
EXTENDS DeviceSurvey

CONSTANT MaxTicks       (* bound: the counters of the kernel               *)

ASSUME SnapshotAssumption == MaxTicks \in Nat \ {0}

VARIABLES
    sample,     (* the first CPU sample                                    *)
    usage,      (* the time the CPU was busy, of the time that has passed  *)
    memory,     (* the memory in use, of the memory there is               *)
    thermal,    (* the thermal zones                                       *)
    available,  (* the sources that could be read                          *)
    shown       (* the zone and the interface on the screen; Empty: N/A    *)

snapshotVars == <<sample, usage, memory, thermal, available, shown>>

NoPart == [part |-> 0, whole |-> 0]

SnapshotInit ==
    /\ sample = [total |-> 0, idle |-> 0]
    /\ usage = NoPart /\ memory = NoPart
    /\ thermal = <<>> /\ available = {}
    /\ shown = [hottest |-> Empty, primary |-> Empty]

SnapshotOver ==
    /\ sample' = [total |-> 0, idle |-> 0]
    /\ usage' = NoPart /\ memory' = NoPart
    /\ thermal' = <<>> /\ available' = {}
    /\ shown' = [hottest |-> Empty, primary |-> Empty]

Fails == Return("unknown") \/ Return("open")

(* read_cpu_snapshot: the total is the sum of counters, idle among them.   *)
CpuSamples == {s \in [total : 1..MaxTicks, idle : 0..MaxTicks] : s.idle <= s.total}

Monitor ==
    /\ At("monitor")
    /\ Return("parse") \/ Goto("cpu_first")
    /\ UNCHANGED <<snapshotVars, surveyVars>>

FirstSample ==
    /\ At("cpu_first")
    /\ \/ sample' \in CpuSamples /\ Goto("cpu_second")
       \/ Fails /\ UNCHANGED sample
    /\ UNCHANGED <<usage, memory, thermal, available, shown, surveyVars>>

(* wait_cpu_sample, the second sample, and the checks of read_cpu.         *)
CountersAgree_NoRatio(a, b) ==           \* mutant: idle_delta > total_delta is not refused
    b.total > a.total /\ b.idle >= a.idle
CountersAgree(a, b) ==
    b.total > a.total /\ b.idle >= a.idle /\ b.idle - a.idle <= b.total - a.total

SecondSample ==
    /\ At("cpu_second")
    /\ \/ \E s \in CpuSamples :
             IF CountersAgree(sample, s)
             THEN /\ usage' = [part  |-> (s.total - sample.total) - (s.idle - sample.idle),
                               whole |-> s.total - sample.total]
                  /\ Goto("memory")
             ELSE Return("unknown") /\ UNCHANGED usage
       \/ Fails /\ UNCHANGED usage
    /\ sample' = [total |-> 0, idle |-> 0]
    /\ UNCHANGED <<memory, thermal, available, shown, surveyVars>>

(* read_memory: a line that is missing leaves a 0.                         *)
ReadMemory ==
    /\ At("memory")
    /\ \/ \E total \in 0..MaxTicks, free \in 0..MaxTicks :
             IF total = 0 \/ free > total
             THEN Return("unknown") /\ UNCHANGED memory
             ELSE memory' = [part |-> total - free, whole |-> total] /\ Goto("load")
       \/ Fails /\ UNCHANGED memory
    /\ UNCHANGED <<sample, usage, thermal, available, shown, surveyVars>>

(* read_load, read_uptime, read_process_count: only shown.                 *)
ReadLoad ==
    /\ At("load")
    /\ \/ Fails /\ UNCHANGED surveyVars
       \/ BeginSurvey("thermal")
    /\ UNCHANGED snapshotVars

(* runtime_snapshot_collect: a source that cannot be read is only noted.   *)
ThermalRead ==
    /\ kind = "thermal" /\ call \in {"surveyed", "unsurveyed"}
    /\ thermal' = slots
    /\ available' = IF At("surveyed") THEN {"thermal"} ELSE {}
    /\ BeginSurvey("network")
    /\ UNCHANGED <<sample, usage, memory, shown>>

NetworkRead ==
    /\ kind = "network" /\ call \in {"surveyed", "unsurveyed"}
    /\ available' = available \cup (IF At("surveyed") THEN {"network"} ELSE {})
    /\ shown' = [hottest |-> IF "thermal" \in available THEN Hottest(thermal) ELSE Empty,
                 primary |-> IF "network" \in available' THEN Primary(slots) ELSE Empty]
    /\ Return("ok")
    /\ UNCHANGED <<sample, usage, memory, thermal, surveyVars>>

SnapshotSteps == \/ Monitor \/ FirstSample \/ SecondSample \/ ReadMemory \/ ReadLoad
                 \/ ThermalRead \/ NetworkRead

-----------------------------------------------------------------------------
Elements(s) == {s[i] : i \in DOMAIN s}
FirstNamed(S) == CHOOSE e \in S : \A f \in S : e.name <= f.name

(* The hottest of the zones that have a temperature, and an interface that *)
(* is up before one that is down and the loopback last; the first by name  *)
(* of those that are alike, whatever the order of the directory.           *)
IsHottest(e, zones) ==
    LET warm == {z \in zones : z.has}
        top  == {z \in warm : \A y \in warm : y.value <= z.value}
    IN e = IF warm = {} THEN Empty ELSE FirstNamed(top)

Rank(e) == IF e.name = Lo THEN 2 ELSE IF e.text = "up" THEN 0 ELSE 1
IsPrimary(e, interfaces) ==
    LET best == {i \in interfaces : \A j \in interfaces : Rank(i) <= Rank(j)}
    IN e = IF interfaces = {} THEN Empty ELSE FirstNamed(best)

Share(x) == x.whole > 0 /\ x.part \in 0..x.whole

(* What monitor shows when it succeeds, although counters went back while  *)
(* it slept and some of the sources could not be read.                     *)
SnapshotRight ==
    At("return") /\ ret = "ok" /\ kind = "network" =>
        /\ Share(usage) /\ Share(memory)
        /\ IsHottest(shown.hottest, Elements(thermal))
        /\ IsPrimary(shown.primary, Elements(slots))
=============================================================================
