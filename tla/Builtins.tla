------------------------------ MODULE Builtins ------------------------------
(***************************************************************************)
(* A session of the shell seen from its builtins: the start, which loads   *)
(* the configuration, then one builtin after the other (builtin_table.c,   *)
(* builtin.c), each with the components it calls.  jobs, fg and bg are in  *)
(* JobControl, the redirection of a builtin is in BuiltinRedirect.         *)
(***************************************************************************)
EXTENDS Configuration, LedControl, RuntimeSnapshot, SystemInfo, ProcessMonitor

(* The table of builtin_table.c.                                           *)
Builtin == {"cd", "pwd", "exit", "help", "status", "sysinfo", "monitor", "psinfo",
            "dtinfo", "hwinfo", "led", "reload"}

CONSTANT Sessions       (* bound: what is typed; where; MINISHELL_CONFIG;  *)
                        (* and the lines configuration files have in all   *)

ASSUME SessionsAssumption ==
    Sessions \subseteq [commands : Seq(Builtin), lines : Nat,
                        variable : {"unset", "absolute", "relative", "long"},
                        directory : Dirs]

VARIABLES
    session,
    typed,              (* commands typed so far                           *)
    running,
    last_exit_status

shellVars == <<session, typed, running, last_exit_status>>
callVars == <<call, ret>>
vars == <<callVars, shellVars, configVars, ledVars, surveyVars, snapshotVars, infoVars,
          processVars>>

Init ==
    /\ session \in Sessions
    /\ call = "locate" /\ ret = "ok"
    /\ typed = 0
    /\ running = TRUE
    /\ last_exit_status = 0
    /\ budget = session.lines
    /\ ConfigInit(session.directory)
    /\ LedInit /\ SurveyInit /\ SnapshotInit /\ InfoInit /\ ProcessInit

-----------------------------------------------------------------------------
(* builtin_lookup, and the subcommands of led and psinfo.                  *)
FirstSteps(name) ==
    CASE name = "reload" -> {"open"}
      [] name = "led"    -> {"led", "led_list", "led_info"}
      [] name = "psinfo" -> {"psinfo", "psinfo_pid"}
      [] name \in Builtin -> {name}

Enter ==
    /\ At("idle") /\ running /\ typed < Len(session.commands)
    /\ typed' = typed + 1
    /\ \E step \in FirstSteps(session.commands[typed']) : Goto(step)
    /\ UNCHANGED <<session, running, last_exit_status, configVars, ledVars, surveyVars,
                   snapshotVars, infoVars, processVars>>

(* builtin_pwd, builtin_help, builtin_status, builtin_exit                 *)
SimpleBuiltin ==
    /\ \/ At("pwd") /\ (Return("ok") \/ Return("unknown"))
       \/ call \in {"help", "status"} /\ Return("ok")
       \/ At("exit") /\ Return("last")
    /\ running' = (running /\ ~ At("exit"))
    /\ UNCHANGED <<session, typed, last_exit_status, configVars, ledVars, surveyVars,
                   snapshotVars, infoVars, processVars>>

(* shell_normalize_status: the error codes are negative.                   *)
Normalized(code) ==
    CASE code = "ok"   -> 0
      [] code = "last" -> last_exit_status
      [] OTHER         -> 1

(* Back in shell_dispatch_input; what the handler kept was its own.        *)
Finish ==
    /\ At("return")
    /\ last_exit_status' = Normalized(ret)
    /\ call' = "idle" /\ ret' = "ok"
    /\ LedOver /\ Cleared("none") /\ SnapshotOver /\ InfoOver /\ ProcessOver
    /\ UNCHANGED <<session, typed, running, configVars>>

-----------------------------------------------------------------------------
(* The components.                                                         *)
ConfigurationStep ==
    /\ Locate(session.variable) \/ Load \/ ChangeDirectory
    /\ UNCHANGED <<shellVars, ledVars, surveyVars, snapshotVars, infoVars, processVars>>

LedStep ==
    /\ LedSteps \/ Blink \/ Meddle
    /\ UNCHANGED <<shellVars, configVars, surveyVars, snapshotVars, infoVars, processVars>>

SurveyStep ==
    /\ Survey
    /\ UNCHANGED <<shellVars, configVars, ledVars, snapshotVars, infoVars, processVars>>

SnapshotStep ==
    /\ SnapshotSteps
    /\ UNCHANGED <<shellVars, configVars, ledVars, infoVars, processVars>>

InfoStep ==
    /\ InfoSteps
    /\ UNCHANGED <<shellVars, configVars, ledVars, snapshotVars, processVars>>

ProcessStep ==
    /\ ProcessSteps \/ \E p \in Pids : Begins(p) \/ Ends(p)
    /\ UNCHANGED <<shellVars, configVars, ledVars, surveyVars, snapshotVars, infoVars>>

(* exit, or the end of what is typed.                                      *)
Over ==
    /\ At("idle")
    /\ ~ running \/ typed = Len(session.commands)
    /\ UNCHANGED vars

Next == \/ Enter \/ SimpleBuiltin \/ Finish
        \/ ConfigurationStep \/ LedStep \/ SurveyStep \/ SnapshotStep \/ InfoStep
        \/ ProcessStep
        \/ Over

Spec == Init /\ [][Next]_vars

-----------------------------------------------------------------------------
(* The types, and the sizes of the arrays.                                 *)
TypeOK ==
    /\ session \in Sessions /\ typed \in 0..Len(session.commands)
    /\ running \in BOOLEAN /\ last_exit_status \in {0, 1}
    /\ ret \in Returns
    /\ config \in [prompts : Prompts \cup {"MiniShell"}, max_job : 1..IntMax,
                   debug : {"0", "1"}]
    /\ level \in {"debug", "info"} /\ budget \in 0..session.lines
    /\ led \in Led /\ goal \in Goals \cup {"idle"}
    /\ slots \in Seq(Slots) /\ Len(slots) <= Limit /\ slot \in Slots
    /\ kind \in Kinds \cup {"none"}
    /\ available \subseteq {"thermal", "network"} /\ thermal \in Seq(Slots)
    /\ sections \in 0..3 /\ best_rank \in Ranks \cup {NoRank}
    /\ offset \in 1..(Len(buffer) + 1) /\ Len(compatible) <= MaxCompatible
    /\ alive \subseteq Pids /\ walked \subseteq Pids /\ entry \in Pids \cup {0}
    /\ list \in Seq(Pids)

(* What a survey of the devices has found, the listings made from it, and  *)
(* the readings of monitor, sysinfo and dtinfo are right, although entries *)
(* come in any order, attributes are missing and counters go back.         *)
ReadingsRight == SurveyRight /\ SnapshotRight /\ CpuModelRight /\ CompatibleRight
=============================================================================
