--------------------------- MODULE Configuration ---------------------------
(***************************************************************************)
(* The configuration of the shell: the search for the file at the start    *)
(* (shell_context.c), the load (config.c), and reload (builtin.c).         *)
(*                                                                         *)
(* A line is a record of what the parser tells apart: its key, the class   *)
(* of its value, and the number if it is one.  The integers of the         *)
(* platform are scaled down to IntMax and LongMax.                         *)
(***************************************************************************)
EXTENDS BuiltinCall

CONSTANTS Dirs,         (* working directories                             *)
          Prompts,      (* prompts that fit                                *)
          Numbers,      (* the numbers a file may give for max_job         *)
          IntMax,       (* INT_MAX                                         *)
          LongMax,      (* LONG_MAX                                        *)
          DefaultJobs   (* the default of max_job                          *)

ASSUME ConfigurationAssumption ==
    /\ IntMax \in Nat \ {0}
    /\ LongMax \in Nat /\ LongMax >= IntMax
    /\ DefaultJobs \in 1..IntMax
    /\ Numbers \subseteq Int
    /\ Prompts \cap {"empty", "wide"} = {}
    /\ "here" \notin Dirs

VARIABLES
    directory,  (* the working directory of the shell                      *)
    path,       (* config_file                                             *)
    config,     (* the settings in force                                   *)
    level,      (* the log level                                           *)
    temporary,  (* the settings being read                                 *)
    stream,     (* the file is open                                        *)
    content,    (* its lines                                               *)
    at,         (* the line fgets returns next                             *)
    broken,     (* reading or closing has failed                           *)
    result,     (* of config_load                                          *)
    started,    (* shell_context_init has returned                         *)
    origin,     (* history: the file config was read from, or NoPlace      *)
    budget      (* lines that files may still have                         *)

loadVars == <<temporary, stream, content, at, broken, result>>
configVars == <<directory, path, config, level, loadVars, started, origin, budget>>

-----------------------------------------------------------------------------
(* What a line can be *)

Word(k, t) == [key |-> k, text |-> t, number |-> 0]
Line ==
    {Word("blank", ""), Word("unknown", ""), Word("long", "")}
    \cup {Word("prompts", t) : t \in Prompts \cup {"empty", "wide"}}
    \cup {Word("debug", t) : t \in {"0", "1", "other"}}
    \cup {Word("max_job", "other")}
    \cup {[key |-> "max_job", text |-> "number", number |-> n] : n \in Numbers}

Files(n) == UNION {[1..k -> Line] : k \in 0..n}

(* config_init *)
Defaults == [prompts |-> "MiniShell", max_job |-> DefaultJobs, debug |-> "0"]

NoPlace == [name |-> "none", dir |-> "none"]
Place(name, dir) == [name |-> name, dir |-> dir]

LevelOf(c) == IF c.debug = "1" THEN "debug" ELSE "info"

(* config_parse_line *)
JobsAccepted_NoUpper(n) ==               \* mutant: not compared with INT_MAX
    LET l == Strtol(n, LongMax) IN ~ l.error /\ l.value > 0
JobsAccepted(n) ==
    LET l == Strtol(n, LongMax) IN ~ l.error /\ l.value > 0 /\ l.value <= IntMax

Valid(line) ==
    CASE line.key = "blank"   -> TRUE
      [] line.key = "prompts" -> line.text \notin {"empty", "wide"}
      [] line.key = "max_job" -> line.text = "number" /\ JobsAccepted(line.number)
      [] line.key = "debug"   -> line.text \in {"0", "1"}
      [] OTHER                -> FALSE

Assigned(c, line) ==
    CASE line.key = "prompts" -> [c EXCEPT !.prompts = line.text]
      [] line.key = "max_job" -> [c EXCEPT !.max_job =
                                     ToInt(Strtol(line.number, LongMax).value, IntMax)]
      [] line.key = "debug"   -> [c EXCEPT !.debug = line.text]
      [] OTHER                -> c

-----------------------------------------------------------------------------
(* Where the file is *)

(* A relative MINISHELL_CONFIG is joined with the working directory.       *)
GivenPath(dir) == Place("given", dir)

(* shell_context_set_config_path: MINISHELL_CONFIG, or the first that      *)
(* exists of three files.  A name that does not fit ("long"), and getcwd   *)
(* that fails, leave the shell without a file.                             *)
Located(variable, exists, resolves) ==
    CASE variable = "absolute" -> Place("given", "root")
      [] variable = "relative" /\ resolves -> GivenPath(directory)
      [] variable = "unset" /\ "../config" \in exists -> Place("../config", "program")
      [] variable = "unset" /\ "../config" \notin exists /\ "config" \in exists ->
             Place("config", "program")
      [] variable = "unset" /\ exists = {"working"} /\ resolves -> Place("config", directory)
      [] OTHER -> NoPlace

Locate(variable) ==
    /\ At("locate")
    /\ \E exists \in SUBSET {"../config", "config", "working"}, resolves \in BOOLEAN :
          path' = Located(variable, exists, resolves)
    /\ IF path' = NoPlace
       THEN /\ level' = LevelOf(config)
            /\ started' = TRUE
            /\ Goto("idle")
       ELSE Goto("open") /\ UNCHANGED <<level, started>>
    /\ UNCHANGED <<directory, config, loadVars, origin, budget>>

(* The kernel: a name is looked up from the working directory, unless it   *)
(* is absolute.                                                            *)
Resolved(p) == IF p.dir = "here" THEN [p EXCEPT !.dir = directory] ELSE p

-----------------------------------------------------------------------------
(* config_load *)

(* The caller of config_load: the start keeps the defaults if the load has *)
(* failed, reload what it had.  Both then follow the debug setting.        *)
Loaded(outcome) ==
    /\ level' = IF started /\ outcome # "ok" THEN level ELSE LevelOf(config')
    /\ started' = TRUE
    /\ IF ~ started THEN Goto("idle")
       ELSE Return(IF outcome = "ok" THEN "ok" ELSE "unknown")

OpenFails ==
    /\ At("open")
    /\ UNCHANGED <<directory, path, config, loadVars, origin, budget>>
    /\ Loaded("open")

(* What is read is what the file holds when it is opened: it fits into the *)
(* buffer of the stream.                                                   *)
Open ==
    /\ At("open") /\ path # NoPlace
    /\ Goto("read")
    /\ \E f \in Files(budget) :
          content' = f /\ budget' = budget - Len(f)
    /\ temporary' = Defaults
    /\ stream' = TRUE /\ at' = 1 /\ broken' = FALSE /\ result' = "ok"
    /\ UNCHANGED <<directory, path, config, level, started, origin>>

(* One turn of the loop: the first line that is too long or invalid ends   *)
(* it.                                                                     *)
ReadLine ==
    /\ At("read") /\ at <= Len(content)
    /\ IF Valid(content[at])
       THEN /\ temporary' = Assigned(temporary, content[at])
            /\ at' = at + 1
            /\ UNCHANGED <<call, ret, result>>
       ELSE /\ result' = "parse"
            /\ Goto("close")
            /\ UNCHANGED <<temporary, at>>
    /\ UNCHANGED <<directory, path, config, level, stream, content, broken, started,
                   origin, budget>>

(* fgets returns NULL at the end of the file and for an error.             *)
ReadEnds ==
    /\ At("read")
    /\ \/ at > Len(content) /\ UNCHANGED broken
       \/ broken' = TRUE
    /\ Goto("close")
    /\ UNCHANGED <<directory, path, config, level, temporary, stream, content, at,
                   result, started, origin, budget>>

Adopted_Always(outcome) == TRUE          \* mutant: parsed into the settings themselves
Adopted(outcome) == outcome = "ok"

(* ferror, fclose, and the copy.                                           *)
Close ==
    /\ At("close")
    /\ \E closeFails \in BOOLEAN :
          LET outcome == IF result = "ok" /\ (broken \/ closeFails) THEN "open" ELSE result IN
          /\ broken' = (broken \/ closeFails)
          /\ IF Adopted(outcome)
             THEN config' = temporary /\ origin' = Resolved(path)
             ELSE UNCHANGED <<config, origin>>
          /\ Loaded(outcome)
    /\ stream' = FALSE /\ content' = <<>> /\ at' = 1 /\ result' = "ok"
    /\ temporary' = Defaults
    /\ UNCHANGED <<directory, path, budget>>

(* builtin_cd                                                              *)
ChangeDirectory ==
    /\ At("cd")
    /\ \/ directory' \in Dirs /\ Return("ok")
       \/ UNCHANGED directory /\ Return("unknown")
    /\ UNCHANGED <<path, config, level, loadVars, started, origin, budget>>

-----------------------------------------------------------------------------
ConfigInit(dir) ==
    /\ directory = dir
    /\ path = NoPlace /\ origin = NoPlace
    /\ config = Defaults /\ temporary = Defaults
    /\ level = "debug"
    /\ stream = FALSE /\ content = <<>> /\ at = 1 /\ broken = FALSE /\ result = "ok"
    /\ started = FALSE

Load == OpenFails \/ Open \/ ReadLine \/ ReadEnds \/ Close

Store == INSTANCE ConfigStore
         WITH Lines <- Line, place <- path, settings <- config, loading <- stream,
              file <- content, failed <- broken

(* The settings are the defaults or all that one whole acceptable file     *)
(* said, read from the place fixed at the start; a load that fails at any  *)
(* line or call changes nothing; a good file is not refused.               *)
(* (docs/architecture.md, the configuration; config.c, the copy.)          *)
ImplementsStore == Store!Spec
=============================================================================
