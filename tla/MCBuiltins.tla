---------------------------- MODULE MCBuiltins ----------------------------
(* Instances of Builtins for TLC. *)
EXTENDS Builtins

MCValues == {-1, 1}

Session(c, l, v) == [commands |-> c, lines |-> l, variable |-> v, directory |-> "d1"]

MCSessions ==
    {Session(<<"cd", "reload">>, 2, v) : v \in {"unset", "relative"}}
    \cup {Session(<<"cd", "reload", "cd", "reload">>, 1, "relative")}
    \cup {Session(<<"reload", "reload">>, 3, "absolute")}
    \cup {Session(<<name>>, 0, "long") :
             name \in {"monitor", "psinfo", "hwinfo", "sysinfo", "dtinfo"}}
    \cup {Session(<<"led", "status", "pwd", "help", "exit", "help">>, 0, "long")}
=============================================================================
