---------------------------- MODULE ConfigStore ----------------------------
(***************************************************************************)
(* What the configuration promises (config.c, shell_context.c, reload),    *)
(* with no line-by-line reading and no copy:                               *)
(*   - the file is chosen once, at the start, and later changes of the     *)
(*     working directory do not change which file it is;                   *)
(*   - the settings are the defaults, or all that one acceptable file      *)
(*     says: a load adopts the whole file or nothing;                      *)
(*   - an acceptable file that can be read is adopted;                     *)
(*   - the log level is the one the settings ask for.                      *)
(* Configuration is shown to implement this specification.                 *)
(***************************************************************************)
EXTENDS Integers, Sequences

CONSTANTS Dirs,         (* working directories                             *)
          Lines,        (* what a line of a file can be                    *)
          Prompts,      (* prompts a file can ask for                      *)
          IntMax,       (* the largest int                                 *)
          Defaults,     (* the settings of a shell without a file          *)
          NoPlace       (* no file was found                               *)

VARIABLES directory,    (* the working directory of the shell              *)
          place,        (* the file the settings are read from             *)
          origin,       (* the file they were read from; NoPlace: defaults *)
          settings, level,
          loading,      (* a load is going on                              *)
          file,         (* the lines of the file as it is loaded           *)
          failed        (* a call of the load has failed                   *)

store == <<directory, place, origin, settings, level, loading, file, failed>>

(* A place is a name in a directory: one of the shell's, the directory of  *)
(* its program, or the root.                                               *)
PlacesIn(d) == {[name |-> n, dir |-> d] : n \in {"given", "config"}}
               \cup {[name |-> "given", dir |-> "root"]}
               \cup {[name |-> n, dir |-> "program"] : n \in {"../config", "config"}}

(* What a line may say, and what a file means: the last line for a key     *)
(* counts, and a key without a line has its default.                       *)
Acceptable(line) ==
    \/ line.key = "blank"
    \/ line.key = "prompts" /\ line.text \in Prompts
    \/ line.key = "max_job" /\ line.text = "number" /\ line.number \in 1..IntMax
    \/ line.key = "debug" /\ line.text \in {"0", "1"}

Said(line) == IF line.key = "max_job" THEN line.number ELSE line.text
IsLast(f, key, i) == f[i].key = key /\ \A j \in DOMAIN f : f[j].key = key => j <= i

Says(f, key, value) ==
    \/ (\A i \in DOMAIN f : f[i].key # key) /\ value = Defaults[key]
    \/ \E i \in DOMAIN f : IsLast(f, key, i) /\ value = Said(f[i])

Means(f, s) == \A key \in {"prompts", "max_job", "debug"} : Says(f, key, s[key])

LevelOf(s) == IF s.debug = "1" THEN "debug" ELSE "info"

Init ==
    /\ directory \in Dirs
    /\ place = NoPlace /\ origin = NoPlace
    /\ settings = Defaults
    /\ level = "debug"
    /\ ~ loading /\ file = <<>> /\ ~ failed

Choose ==
    /\ place = NoPlace
    /\ place' \in PlacesIn(directory)
    /\ UNCHANGED <<directory, origin, settings, level, loading, file, failed>>

ChangeDirectory ==
    /\ directory' \in Dirs
    /\ UNCHANGED <<place, origin, settings, level, loading, file, failed>>

Begin ==
    /\ place # NoPlace /\ ~ loading
    /\ loading' = TRUE
    /\ file' \in Seq(Lines)
    /\ failed' = FALSE
    /\ UNCHANGED <<directory, place, origin, settings, level>>

Fail ==
    /\ loading
    /\ failed' = TRUE
    /\ UNCHANGED <<directory, place, origin, settings, level, loading, file>>

Sound == \A i \in DOMAIN file : Acceptable(file[i])

End ==
    /\ loading
    /\ loading' = FALSE
    /\ file' = <<>>
    /\ failed' \in BOOLEAN
    /\ IF Sound /\ ~ failed'
       THEN Means(file, settings') /\ origin' = place
       ELSE UNCHANGED <<settings, origin>>
    /\ level' = LevelOf(settings')
    /\ UNCHANGED <<directory, place>>

(* A start without a file, or with one that cannot be opened.              *)
Settle ==
    /\ ~ loading
    /\ level' = LevelOf(settings)
    /\ UNCHANGED <<directory, place, origin, settings, loading, file, failed>>

Next == Choose \/ ChangeDirectory \/ Begin \/ Fail \/ End \/ Settle

Spec == Init /\ [][Next]_store
=============================================================================
