----------------------------- MODULE SystemInfo -----------------------------
(***************************************************************************)
(* hwinfo, led list and led info (hardware_info.c, builtin.c), sysinfo     *)
(* (system_info.c) and dtinfo (device_tree.c): one pass over files of the  *)
(* kernel, then a listing.                                                 *)
(***************************************************************************)
EXTENDS DeviceSurvey

CONSTANTS MaxCpuLines,  (* bound: lines of /proc/cpuinfo                   *)
          MaxBytes,     (* bound: bytes of the compatible property         *)
          MaxCompatible (* DEVICE_TREE_MAX_COMPATIBLE                      *)

ASSUME SystemInfoAssumption ==
    /\ MaxCpuLines \in Nat /\ MaxBytes \in Nat /\ MaxCompatible \in Nat

VARIABLES
    purpose,    (* the builtin that surveys the hardware                   *)
    sections,   (* directories it has surveyed                             *)
    cpuinfo,    (* history: the lines of /proc/cpuinfo read so far         *)
    best_rank,  (* the rank of the best line so far                        *)
    cpu_model,  (* the line the model of the CPU was taken from; 0: none   *)
    buffer,     (* the compatible property: is each byte a character?      *)
    offset,     (* how far it has been split                               *)
    compatible  (* the items found: where they start and end               *)

infoVars == <<purpose, sections, cpuinfo, best_rank, cpu_model, buffer, offset, compatible>>

Ranks == 0..3
NoRank == 100

InfoInit ==
    /\ purpose = "none" /\ sections = 0
    /\ cpuinfo = <<>> /\ best_rank = NoRank /\ cpu_model = 0
    /\ buffer = <<>> /\ offset = 1 /\ compatible = <<>>

InfoOver ==
    /\ purpose' = "none" /\ sections' = 0
    /\ cpuinfo' = <<>> /\ best_rank' = NoRank /\ cpu_model' = 0
    /\ buffer' = <<>> /\ offset' = 1 /\ compatible' = <<>>

-----------------------------------------------------------------------------
(* hardware_info_collect: thermal zones, CPU policies, interfaces, LEDs.   *)
CollectHardware ==
    /\ call \in {"hwinfo", "led_list", "led_info"}
    /\ purpose' = call /\ sections' = 0
    /\ BeginSurvey("hw_thermal")
    /\ UNCHANGED <<cpuinfo, best_rank, cpu_model, buffer, offset, compatible>>

NextSection ==
    /\ At("surveyed") /\ kind \in {"hw_thermal", "hw_list"} /\ sections < 3
    /\ sections' = sections + 1
    /\ BeginSurvey("hw_list")
    /\ UNCHANGED <<purpose, cpuinfo, best_rank, cpu_model, buffer, offset, compatible>>

(* builtin_led_info looks for a name in what was found.                    *)
Found(n) == \E i \in DOMAIN slots : slots[i].name = n

PrintHardware ==
    /\ At("surveyed") /\ kind = "hw_list" /\ sections = 3
    /\ IF purpose = "led_info"
       THEN \E n \in Names : Return(IF Found(n) THEN "ok" ELSE "unknown")
       ELSE Return("ok")
    /\ UNCHANGED <<infoVars, surveyVars>>

-----------------------------------------------------------------------------
(* system_info_collect: uname and gethostname, the board, which may be     *)
(* missing, then the CPU, the memory, the uptime and the SoC.              *)
Identify ==
    /\ At("sysinfo")
    /\ Return("unknown") \/ Return("open") \/ Goto("cpuinfo")
    /\ UNCHANGED <<infoVars, surveyVars>>

(* get_cpu_info: a line counts if its key is better than the best so far   *)
(* and its value is not empty.  The keys exclude each other.               *)
Better(rank) == rank < best_rank

(* cpuinfo_value                                                           *)
HasValue(rank, filled) == rank \in Ranks /\ filled

CpuLine ==
    /\ At("cpuinfo")
    /\ Len(cpuinfo) < MaxCpuLines
    /\ \E rank \in Ranks \cup {NoRank}, filled \in BOOLEAN :
          /\ cpuinfo' = Append(cpuinfo, [rank |-> rank, filled |-> filled])
          /\ IF HasValue(rank, filled) /\ Better(rank)
             THEN best_rank' = rank /\ cpu_model' = Len(cpuinfo')
             ELSE UNCHANGED <<best_rank, cpu_model>>
    /\ UNCHANGED <<call, ret, purpose, sections, buffer, offset, compatible,
                   surveyVars>>

(* get_mem_info needs both of its lines, get_uptime_info its number.       *)
EndCpuInfo ==
    /\ At("cpuinfo") /\ Goto("meminfo")
    /\ UNCHANGED <<infoVars, surveyVars>>

MemoryAndUptime ==
    /\ At("meminfo")
    /\ \/ (Return("unknown") \/ Return("open")) /\ UNCHANGED surveyVars
       \/ BeginSurvey("soc")
    /\ cpuinfo' = <<>> /\ best_rank' = NoRank
    /\ UNCHANGED <<purpose, sections, cpu_model, buffer, offset, compatible>>

PrintSystem ==
    /\ At("surveyed") /\ kind = "soc"
    /\ Return("ok")
    /\ UNCHANGED <<infoVars, surveyVars>>

-----------------------------------------------------------------------------
(* device_tree_collect: without a device tree there is nothing to show;    *)
(* the model and the boot arguments are one text each.                     *)
DeviceTree ==
    /\ At("dtinfo")
    /\ \/ Return("ok") /\ UNCHANGED buffer
       \/ /\ buffer' \in UNION {[1..n -> BOOLEAN] : n \in 0..MaxBytes}
          /\ Goto("compatible")
    /\ UNCHANGED <<purpose, sections, cpuinfo, best_rank, cpu_model, offset, compatible,
                   surveyVars>>

(* collect_compatible: one turn of its loop takes one item, which may be   *)
(* empty, and the '\0' behind it.                                          *)
ItemEnd(from) ==
    CHOOSE e \in from..(Len(buffer) + 1) :
        /\ \A i \in from..(e - 1) : buffer[i]
        /\ e = Len(buffer) + 1 \/ ~ buffer[e]

HasRoom == Len(compatible) < MaxCompatible

SplitItem ==
    /\ At("compatible")
    /\ offset <= Len(buffer) /\ HasRoom
    /\ LET end == ItemEnd(offset) IN
       /\ compatible' = IF end > offset
                        THEN Append(compatible, <<offset, end - 1>>) ELSE compatible
       /\ offset' = IF end <= Len(buffer) THEN end + 1 ELSE end
    /\ UNCHANGED <<call, ret, purpose, sections, cpuinfo, best_rank, cpu_model, buffer,
                   surveyVars>>

EndSplit ==
    /\ At("compatible")
    /\ offset > Len(buffer) \/ ~ HasRoom
    /\ Return("ok")
    /\ UNCHANGED <<infoVars, surveyVars>>

InfoSteps == \/ CollectHardware \/ NextSection \/ PrintHardware
             \/ Identify \/ CpuLine \/ EndCpuInfo \/ MemoryAndUptime \/ PrintSystem
             \/ DeviceTree \/ SplitItem \/ EndSplit

-----------------------------------------------------------------------------
(* The model of the CPU is the value of the first line of the best kind.   *)
CpuModelRight ==
    At("meminfo") =>
        LET usable == {i \in DOMAIN cpuinfo : cpuinfo[i].rank \in Ranks /\ cpuinfo[i].filled}
        IN IF usable = {} THEN cpu_model = 0
           ELSE /\ cpu_model \in usable
                /\ \A i \in usable : \/ cpuinfo[cpu_model].rank < cpuinfo[i].rank
                                     \/ cpuinfo[cpu_model].rank = cpuinfo[i].rank /\ cpu_model <= i

(* The items shown are the longest runs of characters in the property, in  *)
(* order, up to as many as the array holds.                                *)
Run(a, b) == /\ \A i \in a..b : buffer[i]
             /\ a = 1 \/ ~ buffer[a - 1]
             /\ b = Len(buffer) \/ ~ buffer[b + 1]
Runs == {r \in (DOMAIN buffer) \X (DOMAIN buffer) : r[1] <= r[2] /\ Run(r[1], r[2])}

CompatibleRight ==
    At("return") /\ buffer # <<>> =>
        /\ Len(compatible) = (IF Cardinality(Runs) <= MaxCompatible
                              THEN Cardinality(Runs) ELSE MaxCompatible)
        /\ \A i \in DOMAIN compatible :
              /\ compatible[i] \in Runs
              /\ Cardinality({r \in Runs : r[1] < compatible[i][1]}) = i - 1
=============================================================================
