------------------------------- MODULE Parser -------------------------------
(***************************************************************************)
(* From a line to a list of commands (parser.c): parse_line with tokenize, *)
(* which cuts the line into tokens, and build_command, which goes through  *)
(* the tokens once and builds the commands of a pipeline.  One step is one *)
(* turn of one of the two loops.                                           *)
(*                                                                         *)
(* A character is a blank, one of the operators, "$?", which stands for    *)
(* that pair and is replaced when it is a word of its own, or any other.   *)
(***************************************************************************)
EXTENDS Naturals, Sequences, FiniteSets

CONSTANTS Plain,        (* characters that are no blank and no operator    *)
          Lines,        (* bound: the lines that are read                  *)
          MaxToken,     (* MAX_TOKEN                                       *)
          TokenSize,    (* TOKEN_SIZE                                      *)
          MaxArgs,      (* MAX_ARGS                                        *)
          Statuses,     (* last_exit_status before the line, in decimal    *)
          SyntaxError,  (* the status of a line that is refused: "2"       *)
          MemoryError   (* the status if memory is exhausted: "1"          *)

Blank == " "
Operators == {">", "<", "|", "&"}
Character == Plain \cup Operators \cup {Blank, "$?"}
Text == Seq(Character)

ASSUME ParserAssumption ==
    /\ Plain \cap (Operators \cup {Blank, "$?"}) = {}
    /\ Lines \subseteq Text
    /\ MaxToken \in Nat \ {0} /\ MaxArgs \in Nat \ {0, 1}
    /\ TokenSize \in Nat \ {0, 1, 2}
    /\ SyntaxError # MemoryError

VARIABLES
    line,       (* the line                                                *)
    pos,        (* the next character of tokenize                          *)
    tokens,     (* the TokenList                                           *)
    phase,      (* "tokenize", "build" or "done"                           *)
    i,          (* the next token of build_command                         *)
    commands,   (* the list of commands; the last one is "current"         *)
    background, (* head->background                                        *)
    before,     (* last_exit_status before the line                        *)
    last,       (* last_exit_status                                        *)
    result      (* what parse_line returned: "list", "null", or "none" yet *)

vars == <<line, pos, tokens, phase, i, commands, background, before, last, result>>

NewCommand == [args |-> <<>>, input |-> <<>>, output |-> <<>>, append |-> FALSE]

Init ==
    /\ line \in Lines
    /\ pos = 1
    /\ tokens = <<>>
    /\ phase = "tokenize"
    /\ i = 1
    /\ commands = <<>>
    /\ background = FALSE
    /\ before \in Statuses
    /\ last = before
    /\ result = "none"

-----------------------------------------------------------------------------
Returns(what) == phase' = "done" /\ result' = what

(* syntax_fail and tokenize_fail, and memory_fail: all is freed.           *)
Refuse == Returns("null") /\ commands' = <<>> /\ last' = SyntaxError
Fail   == Returns("null") /\ commands' = <<>> /\ last' = MemoryError

-----------------------------------------------------------------------------
(* tokenize *)

IsWordPart(c) == c \notin Operators \cup {Blank}

(* The end of the word that starts at p.                                   *)
WordEnd(p) ==
    p - 1 + Cardinality({q \in p..Len(line) : \A k \in p..q : IsWordPart(line[k])})

TokenAt_NoAppend(p) ==           \* mutant: > is taken before >> is looked for
    CASE line[p] = ">" -> [type |-> "out", text |-> <<">">>]
      [] line[p] = "<" -> [type |-> "in", text |-> <<"<">>]
      [] line[p] = "|" -> [type |-> "pipe", text |-> <<"|">>]
      [] line[p] = "&" -> [type |-> "background", text |-> <<"&">>]
      [] OTHER -> [type |-> "word", text |-> SubSeq(line, p, WordEnd(p))]
TokenAt(p) ==
    CASE line[p] = ">" /\ p < Len(line) /\ line[p + 1] = ">" ->
            [type |-> "append", text |-> <<">", ">">>]
      [] line[p] = ">" /\ ~ (p < Len(line) /\ line[p + 1] = ">") ->
            [type |-> "out", text |-> <<">">>]
      [] line[p] = "<" -> [type |-> "in", text |-> <<"<">>]
      [] line[p] = "|" -> [type |-> "pipe", text |-> <<"|">>]
      [] line[p] = "&" -> [type |-> "background", text |-> <<"&">>]
      [] OTHER -> [type |-> "word", text |-> SubSeq(line, p, WordEnd(p))]

(* token_push has room for the token and for the final \0 of its text.     *)
Fits_OneMore(t) == Len(tokens) <= MaxToken /\ Len(t.text) < TokenSize   \* mutant
Fits(t) == Len(tokens) < MaxToken /\ Len(t.text) < TokenSize

SkipBlank ==
    /\ phase = "tokenize"
    /\ pos <= Len(line)
    /\ line[pos] = Blank
    /\ pos' = pos + 1
    /\ UNCHANGED <<line, tokens, phase, i, commands, background, before, last, result>>

PushToken ==
    /\ phase = "tokenize"
    /\ pos <= Len(line)
    /\ line[pos] # Blank
    /\ LET t == TokenAt(pos) IN
       \/ /\ Fits(t)
          /\ tokens' = Append(tokens, t)
          /\ pos' = pos + Len(t.text)
          /\ UNCHANGED <<phase, commands, last, result>>
       \/ /\ ~ Fits(t)
          /\ Refuse
          /\ UNCHANGED <<pos, tokens>>
    /\ UNCHANGED <<line, i, background, before>>

(* The end of the line.  A line without tokens is no command, and leaves   *)
(* the status as it is.                                                    *)
EndOfLine ==
    /\ phase = "tokenize"
    /\ pos > Len(line)
    /\ \/ /\ tokens = <<>>
          /\ Returns("null")
          /\ UNCHANGED <<commands, last>>
       \/ /\ tokens # <<>>
          /\ phase' = "build"
          /\ commands' = <<NewCommand>>
          /\ UNCHANGED <<last, result>>
       \/ /\ tokens # <<>>
          /\ Fail                                     \* new_command
    /\ UNCHANGED <<line, pos, tokens, i, background, before>>

-----------------------------------------------------------------------------
(* build_command *)

Current == commands[Len(commands)]
SetCurrent(c) == commands' = [commands EXCEPT ![Len(commands)] = c]

Turn(type) == phase = "build" /\ i <= Len(tokens) /\ tokens[i].type = type
WordFollows_AnyToken == i < Len(tokens)     \* mutant: the type is not looked at
WordFollows == i < Len(tokens) /\ tokens[i + 1].type = "word"

(* A word "$?" of the arguments is the last exit status; in a file name it *)
(* is not.                                                                 *)
Expanded(text) == IF text = <<"$?">> THEN <<before>> ELSE text

AddWord ==
    /\ Turn("word")
    /\ \/ /\ Len(Current.args) < MaxArgs - 1
          /\ SetCurrent([Current EXCEPT !.args = Append(@, Expanded(tokens[i].text))])
          /\ i' = i + 1
          /\ UNCHANGED <<phase, last, result>>
       \/ /\ Len(Current.args) >= MaxArgs - 1
          /\ Refuse /\ UNCHANGED i
       \/ /\ Len(Current.args) < MaxArgs - 1
          /\ Fail /\ UNCHANGED i                      \* strdup
    /\ UNCHANGED <<line, pos, tokens, background, before>>

(* A redirection takes the word after it as its file name; each command    *)
(* has one input and one output at most.                                   *)
Taken(type) == IF type = "in" THEN Current.input # <<>> ELSE Current.output # <<>>
Redirected(type) ==
    IF type = "in" THEN [Current EXCEPT !.input = tokens[i + 1].text]
    ELSE [Current EXCEPT !.output = tokens[i + 1].text, !.append = (type = "append")]

AddRedirect(type) ==
    /\ Turn(type)
    /\ \/ /\ WordFollows /\ ~ Taken(type)
          /\ SetCurrent(Redirected(type))
          /\ i' = i + 2
          /\ UNCHANGED <<phase, last, result>>
       \/ /\ ~ WordFollows \/ Taken(type)
          /\ Refuse /\ UNCHANGED i
       \/ /\ WordFollows /\ ~ Taken(type)
          /\ Fail /\ UNCHANGED i                      \* strdup
    /\ UNCHANGED <<line, pos, tokens, background, before>>

SetBackground ==
    /\ Turn("background")
    /\ \/ /\ i = Len(tokens) /\ ~ background
          /\ background' = TRUE
          /\ i' = i + 1
          /\ UNCHANGED <<phase, commands, last, result>>
       \/ /\ ~ (i = Len(tokens) /\ ~ background)
          /\ Refuse /\ UNCHANGED <<i, background>>
    /\ UNCHANGED <<line, pos, tokens, before>>

(* A pipe ends a command that has a word, and a word must follow at once.  *)
PipeAllowed == Current.args # <<>> /\ WordFollows

StartNext ==
    /\ Turn("pipe")
    /\ \/ /\ PipeAllowed
          /\ commands' = Append(commands, NewCommand)
          /\ i' = i + 1
          /\ UNCHANGED <<phase, last, result>>
       \/ /\ ~ PipeAllowed
          /\ Refuse /\ UNCHANGED i
       \/ /\ PipeAllowed
          /\ Fail /\ UNCHANGED i                      \* new_command
    /\ UNCHANGED <<line, pos, tokens, background, before>>

(* Every command needs a word.                                             *)
Finish ==
    /\ phase = "build"
    /\ i > Len(tokens)
    /\ \/ /\ \A k \in DOMAIN commands : commands[k].args # <<>>
          /\ Returns("list")
          /\ UNCHANGED <<commands, last>>
       \/ /\ \E k \in DOMAIN commands : commands[k].args = <<>>
          /\ Refuse
    /\ UNCHANGED <<line, pos, tokens, i, background, before>>

Done == phase = "done" /\ UNCHANGED vars

Next == \/ SkipBlank \/ PushToken \/ EndOfLine
        \/ AddWord \/ SetBackground \/ StartNext \/ Finish
        \/ \E type \in {"in", "out", "append"} : AddRedirect(type)
        \/ Done

Spec == Init /\ [][Next]_vars

-----------------------------------------------------------------------------
(* Properties *)

Redirections == {"in", "out", "append"}
Token == [type : {"word", "pipe", "background"} \cup Redirections, text : Text]
Command == [args : Seq(Text \cup Seq(Statuses)), input : Text, output : Text,
            append : BOOLEAN]

(* The fixed arrays are never overrun: token[]; text[]; argv[], which      *)
(* needs room for the final NULL; and pids[MAX_PIPELINE] of the launch,    *)
(* as a line has no more commands than half its tokens.                    *)
TypeOK ==
    /\ line \in Text
    /\ pos \in 1..(Len(line) + 1)
    /\ tokens \in Seq(Token) /\ Len(tokens) <= MaxToken
    /\ \A k \in DOMAIN tokens : Len(tokens[k].text) < TokenSize
    /\ phase \in {"tokenize", "build", "done"}
    /\ i \in 1..(Len(tokens) + 1)
    /\ commands \in Seq(Command) /\ 2 * Len(commands) <= MaxToken + 1
    /\ \A k \in DOMAIN commands : Len(commands[k].args) < MaxArgs
    /\ background \in BOOLEAN
    /\ before \in Statuses
    /\ last \in Statuses \cup {SyntaxError, MemoryError}
    /\ result \in {"none", "list", "null"}

OutOfMemory == result = "null" /\ last = MemoryError

(* The reference of tokenize.  A token starts at an operator, unless it is *)
(* the second half of a >>, and at a word part that follows none; it goes  *)
(* on to the next start or blank.                                          *)
RunBefore(p) == LET other == {k \in 1..(p - 1) : line[k] # ">"}
                IN  p - 1 - (IF other = {} THEN 0
                             ELSE CHOOSE k \in other : \A m \in other : m <= k)
Starts == {p \in DOMAIN line :
              \/ line[p] = ">" /\ RunBefore(p) % 2 = 0
              \/ line[p] \in Operators \ {">"}
              \/ IsWordPart(line[p]) /\ (p = 1 \/ ~ IsWordPart(line[p - 1]))}
Extent(p) == {q \in p..Len(line) : \A k \in (p + 1)..q : k \notin Starts /\ line[k] # Blank}
TextAt(p) == SubSeq(line, p, p + Cardinality(Extent(p)) - 1)
TypeAt(p) == CASE TextAt(p) = <<">", ">">> -> "append"
               [] TextAt(p) = <<">">> -> "out"
               [] TextAt(p) = <<"<">> -> "in"
               [] TextAt(p) = <<"|">> -> "pipe"
               [] TextAt(p) = <<"&">> -> "background"
               [] OTHER -> "word"

(* The tokens are the pieces of the line, in order and without a gap; the  *)
(* line is given up only if it has too many or too long ones.              *)
TokensCoverLine ==
    /\ \A p \in Starts : p < pos =>
          tokens[Cardinality({q \in Starts : q <= p})] = [type |-> TypeAt(p), text |-> TextAt(p)]
    /\ Len(tokens) = Cardinality({p \in Starts : p < pos})
    /\ phase = "done" /\ pos <= Len(line) =>
          \/ Cardinality(Starts) > MaxToken
          \/ \E p \in Starts : Len(TextAt(p)) >= TokenSize

(* The reference of build_command: a grammar over the list of tokens.      *)
Type(k) == tokens[k].type
Stage(k) == 1 + Cardinality({m \in 1..(k - 1) : Type(m) = "pipe"})
IsName(k) == Type(k) = "word" /\ k > 1 /\ Type(k - 1) \in Redirections
ArgsOf(s) == {k \in DOMAIN tokens : Type(k) = "word" /\ ~ IsName(k) /\ Stage(k) = s}
NamesOf(s, types) == {k \in DOMAIN tokens : IsName(k) /\ Type(k - 1) \in types /\ Stage(k) = s}
Stages == 1..(1 + Cardinality({k \in DOMAIN tokens : Type(k) = "pipe"}))

WellFormed ==
    /\ \A k \in DOMAIN tokens :
          /\ Type(k) \in Redirections \cup {"pipe"} => k < Len(tokens) /\ Type(k + 1) = "word"
          /\ Type(k) = "background" => k = Len(tokens)
    /\ \A s \in Stages :
          /\ Cardinality(ArgsOf(s)) \in 1..(MaxArgs - 1)
          /\ Cardinality(NamesOf(s, {"in"})) <= 1
          /\ Cardinality(NamesOf(s, {"out", "append"})) <= 1

Denotes(c, s) ==
    /\ Len(c.args) = Cardinality(ArgsOf(s))
    /\ \A k \in ArgsOf(s) : c.args[Cardinality({m \in ArgsOf(s) : m <= k})]
                              = Expanded(tokens[k].text)
    /\ IF NamesOf(s, {"in"}) = {} THEN c.input = <<>>
       ELSE \A k \in NamesOf(s, {"in"}) : c.input = tokens[k].text
    /\ IF NamesOf(s, {"out", "append"}) = {} THEN c.output = <<>> /\ ~ c.append
       ELSE \A k \in NamesOf(s, {"out", "append"}) :
               c.output = tokens[k].text /\ c.append = (Type(k - 1) = "append")

(* The one pass of build_command accepts exactly the grammar and returns   *)
(* what the line denotes; a line it refuses runs nothing and sets the      *)
(* status, a blank line does neither.                                      *)
ParsesGrammar ==
    phase = "done" /\ pos > Len(line) /\ ~ OutOfMemory =>
        IF tokens = <<>> THEN result = "null" /\ last = before
        ELSE IF ~ WellFormed THEN result = "null" /\ last = SyntaxError
        ELSE /\ result = "list" /\ last = before
             /\ Len(commands) = Cardinality(Stages)
             /\ \A s \in Stages : Denotes(commands[s], s)
             /\ background = (Type(Len(tokens)) = "background")
=============================================================================
