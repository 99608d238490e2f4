---------------------------- MODULE ParserProofs ----------------------------
(***************************************************************************)
(* Theorems about Parser.                                                  *)
(***************************************************************************)
EXTENDS Parser, SequenceTheorems, FiniteSetTheorems, WellFoundedInduction, TLAPS

(* A pipe is only taken behind a word, and goes on to a word: each command *)
(* but the last has used up two tokens.                                    *)
Used == 2 * (Len(commands) - 1) + (IF Current.args # <<>> THEN 1 ELSE 0)

IInv ==
    /\ TypeOK
    /\ phase = "build" => commands # <<>> /\ Used <= i - 1

(* A word ends inside the line, at or behind the place it begins.           *)
LEMMA WordEnds ==
    ASSUME TypeOK, NEW p \in 1..Len(line), IsWordPart(line[p])
    PROVE  WordEnd(p) \in p..Len(line)
<1> DEFINE S == {q \in p..Len(line) : \A k \in p..q : IsWordPart(line[k])}
<1>1. Len(line) \in Nat /\ p \in Nat /\ p <= Len(line)
  BY DEF TypeOK, Text
<1>2. IsFiniteSet(p..Len(line)) /\ Cardinality(p..Len(line)) = Len(line) - p + 1
  BY <1>1, FS_Interval
<1>3. p \in S
  BY <1>1
<1>4. S \in SUBSET (p..Len(line))
  OBVIOUS
<1> HIDE DEF S
<1>5. IsFiniteSet(S) /\ Cardinality(S) <= Len(line) - p + 1
  BY <1>2, <1>4, FS_Subset
<1>6. Cardinality(S) \in Nat /\ Cardinality(S) # 0
  BY <1>3, <1>5, FS_CardinalityType, FS_EmptySet
<1>7. p - 1 + Cardinality(S) \in p..Len(line)
  BY <1>1, <1>5, <1>6
<1> QED BY <1>7 DEF WordEnd, S

(* A token is a piece of what is left of the line.                         *)
LEMMA TokensAre ==
    ASSUME TypeOK, NEW p \in 1..Len(line), line[p] # Blank
    PROVE  /\ TokenAt(p) \in Token
           /\ Len(TokenAt(p).text) \in 1..(Len(line) + 1 - p)
<1>1. Len(line) \in Nat /\ p \in Nat /\ p <= Len(line) /\ line \in Seq(Character)
  BY DEF TypeOK, Text
<1>2. \A k \in 1..Len(line) : line[k] \in Character
  BY <1>1, ElementOfSeq
<1>3. ASSUME NEW c \in Operators PROVE <<c>> \in Text /\ Len(<<c>>) = 1
  BY DEF Character, Text
<1>4. <<">", ">">> \in Text /\ Len(<<">", ">">>) = 2
  BY DEF Character, Operators, Text
<1>5. CASE line[p] = ">" /\ p < Len(line) /\ line[p + 1] = ">"
  <2>1. TokenAt(p) = [type |-> "append", text |-> <<">", ">">>]
    BY <1>5 DEF TokenAt
  <2> QED BY <1>1, <1>4, <1>5, <2>1 DEF Token, Redirections
<1>6. CASE line[p] = ">" /\ ~ (p < Len(line) /\ line[p + 1] = ">")
  <2>1. TokenAt(p) = [type |-> "out", text |-> <<">">>]
    BY <1>6 DEF TokenAt
  <2> QED BY <1>1, <1>3, <1>6, <2>1 DEF Token, Redirections, Operators
<1>7. CASE line[p] = "<"
  <2>1. TokenAt(p) = [type |-> "in", text |-> <<"<">>]
    BY <1>7 DEF TokenAt
  <2> QED BY <1>1, <1>3, <1>7, <2>1 DEF Token, Redirections, Operators
<1>8. CASE line[p] = "|"
  <2>1. TokenAt(p) = [type |-> "pipe", text |-> <<"|">>]
    BY <1>8 DEF TokenAt
  <2> QED BY <1>1, <1>3, <1>8, <2>1 DEF Token, Operators
<1>9. CASE line[p] = "&"
  <2>1. TokenAt(p) = [type |-> "background", text |-> <<"&">>]
    BY <1>9 DEF TokenAt
  <2> QED BY <1>1, <1>3, <1>9, <2>1 DEF Token, Operators
<1>10. CASE line[p] \notin Operators
  <2>1. TokenAt(p) = [type |-> "word", text |-> SubSeq(line, p, WordEnd(p))]
    BY <1>10 DEF TokenAt, Operators
  <2>2. WordEnd(p) \in p..Len(line)
    BY <1>10, WordEnds DEF IsWordPart
  <2>3. /\ SubSeq(line, p, WordEnd(p)) \in Seq(Character)
        /\ Len(SubSeq(line, p, WordEnd(p))) = WordEnd(p) - p + 1
    BY <1>1, <1>2, <2>2, SubSeqProperties
  <2> QED BY <1>1, <2>1, <2>2, <2>3 DEF Token, Text
<1> QED BY <1>5, <1>6, <1>7, <1>8, <1>9, <1>10 DEF Operators

(* An empty list, an empty token array, and the first character.            *)
LEMMA Initially == Init => IInv
<1> SUFFICES ASSUME Init PROVE IInv
  OBVIOUS
<1>1. line \in Text /\ Len(line) \in Nat
  BY ParserAssumption DEF Init, Text
<1>2. /\ <<>> \in Seq(Token) /\ <<>> \in Seq(Command) /\ Len(<<>>) = 0 /\ DOMAIN <<>> = {}
  BY EmptySeq
<1>3. /\ tokens \in Seq(Token) /\ Len(tokens) = 0 /\ DOMAIN tokens = {}
      /\ commands \in Seq(Command) /\ Len(commands) = 0 /\ DOMAIN commands = {}
      /\ pos = 1 /\ i = 1 /\ phase = "tokenize" /\ result = "none"
      /\ background = FALSE /\ before \in Statuses /\ last = before
  BY <1>2 DEF Init
<1>4. TypeOK
  <2>1. /\ Len(tokens) <= MaxToken /\ 2 * Len(commands) <= MaxToken + 1
        /\ pos \in 1..(Len(line) + 1) /\ i \in 1..(Len(tokens) + 1)
    BY <1>1, <1>3, ParserAssumption
  <2> QED BY <1>1, <1>3, <2>1 DEF TypeOK
<1> QED BY <1>3, <1>4 DEF IInv

(* The end of the parser: the list is dropped, or returned as it is.       *)
LEMMA Ends ==
    ASSUME TypeOK,
           \/ Refuse \/ Fail
           \/ (Returns("null") \/ Returns("list")) /\ UNCHANGED <<commands, last>>,
           UNCHANGED <<line, pos, tokens, i, background, before>>
    PROVE  IInv'
<1>1. /\ phase' = "done" /\ result' \in {"null", "list"}
      /\ last' \in Statuses \cup {SyntaxError, MemoryError}
      /\ commands' = commands \/ commands' = <<>>
  BY DEF Refuse, Fail, Returns, TypeOK
<1>2. /\ <<>> \in Seq(Command) /\ Len(<<>>) = 0 /\ DOMAIN <<>> = {}
  BY EmptySeq
<1>3. /\ commands' \in Seq(Command) /\ 2 * Len(commands') <= MaxToken + 1
      /\ \A k \in DOMAIN commands' : Len(commands'[k].args) < MaxArgs
  <2>1. CASE commands' = commands
    BY <2>1 DEF TypeOK
  <2>2. CASE commands' = <<>>
    <3>1. /\ commands' \in Seq(Command) /\ DOMAIN commands' = {} /\ Len(commands') = 0
      BY <1>2, <2>2
    <3>2. 2 * Len(commands') <= MaxToken + 1
      BY <3>1, ParserAssumption
    <3> QED BY <3>1, <3>2
  <2> QED BY <1>1, <2>1, <2>2
<1>4. /\ line' \in Text /\ pos' \in 1..(Len(line') + 1)
      /\ tokens' \in Seq(Token) /\ Len(tokens') <= MaxToken
      /\ \A k \in DOMAIN tokens' : Len(tokens'[k].text) < TokenSize
      /\ i' \in 1..(Len(tokens') + 1)
      /\ background' \in BOOLEAN /\ before' \in Statuses
  BY DEF TypeOK
<1>5. TypeOK'
  BY <1>1, <1>3, <1>4 DEF TypeOK
<1> QED BY <1>1, <1>5 DEF IInv

(* One turn of the loop of tokenize, or its end.                            *)
LEMMA TokenizeSteps ==
    ASSUME IInv, SkipBlank \/ PushToken \/ EndOfLine PROVE IInv'
<1>1. Len(line) \in Nat /\ Len(tokens) \in Nat /\ pos \in Nat /\ TypeOK
  BY DEF IInv, TypeOK, Text
<1>2. CASE SkipBlank
  <2>1. pos + 1 \in 1..(Len(line) + 1)
    BY <1>1, <1>2 DEF SkipBlank, TypeOK
  <2> QED BY <1>2, <2>1 DEF IInv, TypeOK, SkipBlank
<1>3. CASE PushToken
  <2> DEFINE t == TokenAt(pos)
  <2>1. t \in Token /\ Len(t.text) \in 1..(Len(line) + 1 - pos)
    <3>1. pos \in 1..Len(line) /\ line[pos] # Blank
      BY <1>1, <1>3 DEF PushToken, TypeOK
    <3> QED BY <1>1, <3>1, TokensAre
  <2>2. CASE Fits(t) /\ tokens' = Append(tokens, t) /\ pos' = pos + Len(t.text)
             /\ UNCHANGED <<line, phase, i, commands, background, before, last, result>>
    <3> HIDE DEF t
    <3>1. /\ tokens' \in Seq(Token) /\ Len(tokens') = Len(tokens) + 1
          /\ \A k \in 1..Len(tokens) : tokens'[k] = tokens[k]
          /\ tokens'[Len(tokens) + 1] = t
          /\ DOMAIN tokens' = 1..(Len(tokens) + 1) /\ DOMAIN tokens = 1..Len(tokens)
      BY <1>1, <2>1, <2>2, AppendProperties, LenProperties DEF TypeOK
    <3>2. \A k \in DOMAIN tokens' : Len(tokens'[k].text) < TokenSize
      BY <1>1, <2>2, <3>1 DEF TypeOK, Fits
    <3>3. Len(tokens') <= MaxToken
      BY <1>1, <2>2, <3>1, ParserAssumption DEF Fits
    <3>4. pos' \in 1..(Len(line) + 1) /\ i \in 1..(Len(tokens') + 1)
      BY <1>1, <2>1, <2>2, <3>1 DEF TypeOK
    <3> QED BY <1>3, <2>2, <3>1, <3>2, <3>3, <3>4 DEF IInv, TypeOK, PushToken
  <2>3. CASE Refuse /\ UNCHANGED <<line, pos, tokens, i, background, before>>
    BY <1>1, <2>3, Ends
  <2> QED BY <1>3, <2>2, <2>3 DEF PushToken
<1>4. CASE EndOfLine
  <2>1. CASE tokens # <<>> /\ phase' = "build" /\ commands' = <<NewCommand>>
             /\ UNCHANGED <<line, pos, tokens, i, background, before, last, result>>
    <3>1. <<>> \in Text /\ <<>> \in Seq(Text \cup Seq(Statuses)) /\ Len(<<>>) = 0
      BY EmptySeq DEF Text
    <3>2. NewCommand \in Command /\ NewCommand.args = <<>>
      BY <3>1 DEF NewCommand, Command
    <3>3. /\ commands' \in Seq(Command) /\ Len(commands') = 1 /\ commands' # <<>>
          /\ DOMAIN commands' = {1} /\ commands'[1] = NewCommand
      BY <2>1, <3>2
    <3>4. 2 * Len(commands') <= MaxToken + 1 /\ Len(commands'[1].args) < MaxArgs
      BY <3>1, <3>2, <3>3, ParserAssumption
    <3>5. TypeOK'
      BY <1>1, <2>1, <3>3, <3>4 DEF TypeOK
    <3>6. Used' = 0 /\ 0 <= i' - 1
      BY <1>1, <2>1, <3>2, <3>3 DEF Used, Current, TypeOK
    <3> QED BY <2>1, <3>3, <3>5, <3>6 DEF IInv
  <2> QED BY <1>1, <1>4, <2>1, Ends DEF EndOfLine
<1> QED BY <1>2, <1>3, <1>4

(* A turn of build_command that replaces the current command.              *)
LEMMA CurrentReplaced ==
    ASSUME IInv, phase = "build", NEW c \in Command, Len(c.args) < MaxArgs,
           SetCurrent(c), NEW n \in {1, 2}, i' = i + n, i + n <= Len(tokens) + 1,
           2 * (Len(commands) - 1) + (IF c.args # <<>> THEN 1 ELSE 0) <= i - 1 + n,
           UNCHANGED <<line, pos, tokens, phase, background, before, last, result>>
    PROVE  IInv'
<1>1. /\ commands \in Seq(Command) /\ commands # <<>> /\ Len(commands) \in 1..Len(commands)
      /\ DOMAIN commands = 1..Len(commands) /\ i \in Nat /\ i >= 1
  BY EmptySeq, LenProperties DEF IInv, TypeOK
<1>2. /\ commands' \in Seq(Command) /\ Len(commands') = Len(commands)
      /\ commands'[Len(commands)] = c
      /\ \A k \in 1..Len(commands) : commands'[k] = IF k = Len(commands) THEN c ELSE commands[k]
  BY <1>1, ExceptSeq DEF SetCurrent
<1>3. /\ 2 * Len(commands') <= MaxToken + 1
      /\ \A k \in DOMAIN commands' : Len(commands'[k].args) < MaxArgs
      /\ commands' # <<>>
  BY <1>1, <1>2, LenProperties, EmptySeq DEF IInv, TypeOK
<1>4. Used' <= i' - 1
  <2>1. Current' = c /\ Len(commands') = Len(commands)
    BY <1>1, <1>2 DEF Current
  <2>2. Used' = 2 * (Len(commands) - 1) + (IF c.args # <<>> THEN 1 ELSE 0)
    BY <2>1 DEF Used
  <2> QED BY <1>1, <2>2
<1>5. i' \in 1..(Len(tokens') + 1)
  BY <1>1 DEF IInv, TypeOK
<1>6. TypeOK'
  BY <1>2, <1>3, <1>5 DEF IInv, TypeOK
<1> QED BY <1>3, <1>4, <1>6 DEF IInv

(* The command that is being built keeps its type.                          *)
LEMMA CurrentTyped ==
    ASSUME IInv, phase = "build"
    PROVE  /\ Current \in Command /\ Len(Current.args) \in Nat /\ Len(Current.args) < MaxArgs
           /\ Len(commands) \in Nat \ {0} /\ i \in Nat \ {0} /\ Len(tokens) \in Nat
           /\ \A k \in 1..Len(tokens) : tokens[k] \in Token
<1>1. /\ commands \in Seq(Command) /\ commands # <<>> /\ Len(commands) \in 1..Len(commands)
      /\ DOMAIN commands = 1..Len(commands) /\ Len(commands) \in Nat \ {0}
  BY EmptySeq, LenProperties DEF IInv, TypeOK
<1>2. Current \in Command
  BY <1>1, ElementOfSeq DEF Current
<1>3. Len(Current.args) < MaxArgs
  BY <1>1 DEF IInv, TypeOK, Current
<1>4. Len(Current.args) \in Nat
  BY <1>2, LenProperties DEF Command
<1>5. tokens \in Seq(Token) /\ i \in 1..(Len(tokens) + 1)
  BY DEF IInv, TypeOK
<1> QED BY <1>1, <1>2, <1>3, <1>4, <1>5, LenProperties, ElementOfSeq

(* A word goes to argv while there is room for it and the final NULL.       *)
LEMMA AddWordStep == ASSUME IInv, AddWord PROVE IInv'
<1>1. phase = "build" /\ i <= Len(tokens) /\ TypeOK
  BY DEF AddWord, Turn, IInv
<1>2. CASE /\ Len(Current.args) < MaxArgs - 1
           /\ SetCurrent([Current EXCEPT !.args = Append(@, Expanded(tokens[i].text))])
           /\ i' = i + 1
           /\ UNCHANGED <<line, pos, tokens, phase, background, before, last, result>>
  <2> DEFINE word == Expanded(tokens[i].text)
             c == [Current EXCEPT !.args = Append(Current.args, word)]
  <2>1. i \in 1..Len(tokens)
    BY <1>1, CurrentTyped
  <2>2. word \in Text \cup Seq(Statuses)
    <3>1. <<before>> \in Seq(Statuses)
      BY DEF IInv, TypeOK
    <3>2. tokens[i] \in Token
      BY <1>1, <2>1, CurrentTyped
    <3>3. tokens[i].text \in Text
      BY <3>2 DEF Token
    <3> QED BY <3>1, <3>3 DEF Expanded
  <2> HIDE DEF word
  <2>3. /\ c \in Command /\ c.args = Append(Current.args, word)
        /\ Len(c.args) = Len(Current.args) + 1
    <3>1. Current \in Command /\ Current.args \in Seq(Text \cup Seq(Statuses))
      BY <1>1, CurrentTyped DEF Command
    <3>2. /\ Append(Current.args, word) \in Seq(Text \cup Seq(Statuses))
          /\ Len(Append(Current.args, word)) = Len(Current.args) + 1
      BY <2>2, <3>1, AppendProperties
    <3> QED BY <3>1, <3>2 DEF Command
  <2>4. /\ Len(c.args) < MaxArgs
        /\ 2 * (Len(commands) - 1) + (IF c.args # <<>> THEN 1 ELSE 0) <= i - 1 + 1
        /\ i + 1 <= Len(tokens) + 1
    <3>1. Used <= i - 1 /\ Used >= 2 * (Len(commands) - 1)
      BY <1>1, CurrentTyped DEF IInv, Used
    <3>2. /\ i \in Nat /\ Len(tokens) \in Nat /\ Len(commands) \in Nat
          /\ Len(Current.args) \in Nat /\ Len(Current.args) < MaxArgs - 1
      BY <1>1, <1>2, CurrentTyped
    <3>3. 2 * (Len(commands) - 1) <= i - 1
      BY <3>1, <3>2 DEF Used
    <3> HIDE DEF c
    <3> QED BY <1>1, <2>3, <3>2, <3>3, ParserAssumption
  <2>5. SetCurrent(c)
    BY <1>2 DEF word
  <2> HIDE DEF c
  <2> QED BY <1>1, <1>2, <2>3, <2>4, <2>5, CurrentReplaced
<1>3. CASE (Refuse \/ Fail) /\ UNCHANGED <<line, pos, tokens, i, background, before>>
  BY <1>1, <1>3, Ends
<1> QED BY <1>1, <1>2, <1>3 DEF AddWord

(* An operator takes the word behind it for its file.                       *)
LEMMA AddRedirectStep ==
    ASSUME IInv, NEW type \in {"in", "out", "append"}, AddRedirect(type) PROVE IInv'
<1>1. phase = "build" /\ i <= Len(tokens) /\ TypeOK
  BY DEF AddRedirect, Turn, IInv
<1>2. CASE WordFollows /\ SetCurrent(Redirected(type)) /\ i' = i + 2
           /\ UNCHANGED <<line, pos, tokens, phase, background, before, last, result>>
  <2>1. i + 1 \in 1..Len(tokens) /\ i + 2 <= Len(tokens) + 1
    BY <1>1, <1>2, CurrentTyped DEF WordFollows
  <2>2. tokens[i + 1] \in Token /\ tokens[i + 1].text \in Text
    BY <1>1, <2>1, CurrentTyped DEF Token
  <2>3. Redirected(type) \in Command /\ Redirected(type).args = Current.args
    BY <1>1, <2>2, CurrentTyped DEF Redirected, Command
  <2>4. 2 * (Len(commands) - 1) + (IF Redirected(type).args # <<>> THEN 1 ELSE 0) <= i - 1 + 2
    BY <1>1, <2>3, CurrentTyped DEF IInv, Used
  <2> QED BY <1>1, <1>2, <2>1, <2>3, <2>4, CurrentTyped, CurrentReplaced
<1>3. CASE (Refuse \/ Fail) /\ UNCHANGED <<line, pos, tokens, i, background, before>>
  BY <1>1, <1>3, Ends
<1> QED BY <1>1, <1>2, <1>3 DEF AddRedirect

(* An & marks the current command.                                          *)
LEMMA SetBackgroundStep == ASSUME IInv, SetBackground PROVE IInv'
<1>1. phase = "build" /\ i <= Len(tokens) /\ TypeOK
  BY DEF SetBackground, Turn, IInv
<1>2. CASE background' = TRUE /\ i' = i + 1
           /\ UNCHANGED <<line, pos, tokens, phase, commands, before, last, result>>
  <2>1. i' \in 1..(Len(tokens) + 1)
    BY <1>1, <1>2, CurrentTyped
  <2>2. TypeOK'
    BY <1>1, <1>2, <2>1 DEF TypeOK
  <2>3. Used' = Used /\ Used <= i - 1 /\ Used \in Int
    BY <1>1, <1>2, CurrentTyped DEF IInv, Used, Current
  <2>4. Used' <= i' - 1
    BY <1>1, <1>2, <2>3, CurrentTyped
  <2> QED BY <1>1, <1>2, <2>2, <2>4 DEF IInv
<1>3. CASE Refuse /\ UNCHANGED <<line, pos, tokens, i, background, before>>
  BY <1>1, <1>3, Ends
<1> QED BY <1>1, <1>2, <1>3 DEF SetBackground

(* A | ends a command and begins the next one.                              *)
LEMMA StartNextStep == ASSUME IInv, StartNext PROVE IInv'
<1>1. phase = "build" /\ i <= Len(tokens) /\ TypeOK
  BY DEF StartNext, Turn, IInv
<1>2. CASE PipeAllowed /\ commands' = Append(commands, NewCommand) /\ i' = i + 1
           /\ UNCHANGED <<line, pos, tokens, phase, background, before, last, result>>
  <2>1. <<>> \in Text /\ <<>> \in Seq(Text \cup Seq(Statuses)) /\ Len(<<>>) = 0
    BY EmptySeq DEF Text
  <2>2. NewCommand \in Command /\ NewCommand.args = <<>>
    BY <2>1 DEF NewCommand, Command
  <2>3. /\ commands \in Seq(Command) /\ Len(commands) \in Nat \ {0}
        /\ i \in Nat \ {0} /\ Len(tokens) \in Nat /\ Len(tokens) <= MaxToken
    BY <1>1, CurrentTyped DEF TypeOK
  <2>4. /\ commands' \in Seq(Command) /\ commands' # <<>>
        /\ Len(commands') = Len(commands) + 1
        /\ commands'[Len(commands) + 1] = NewCommand
        /\ \A k \in 1..Len(commands) : commands'[k] = commands[k]
        /\ DOMAIN commands' = 1..(Len(commands) + 1) /\ DOMAIN commands = 1..Len(commands)
    BY <1>2, <2>2, <2>3, AppendProperties, LenProperties
  <2>5. 2 * (Len(commands) - 1) + 1 <= i - 1 /\ i < Len(tokens)
    BY <1>1, <1>2 DEF IInv, Used, PipeAllowed, WordFollows
  <2>6. 2 * Len(commands') <= MaxToken + 1 /\ i' \in 1..(Len(tokens) + 1)
    BY <1>2, <2>3, <2>4, <2>5, ParserAssumption
  <2>7. \A k \in DOMAIN commands' : Len(commands'[k].args) < MaxArgs
    <3>1. TAKE k \in DOMAIN commands'
    <3>2. CASE k = Len(commands) + 1
      BY <2>1, <2>2, <2>4, <3>2, ParserAssumption
    <3>3. CASE k \in 1..Len(commands)
      BY <1>1, <2>4, <3>3 DEF TypeOK
    <3> QED BY <2>3, <2>4, <3>2, <3>3
  <2>8. TypeOK'
    BY <1>1, <1>2, <2>4, <2>6, <2>7 DEF TypeOK
  <2>9. Used' <= i' - 1
    <3>1. Current'.args = <<>>
      BY <2>2, <2>4 DEF Current
    <3>2. Used' = 2 * Len(commands)
      BY <2>3, <2>4, <3>1 DEF Used
    <3> QED BY <1>2, <2>3, <2>5, <3>2
  <2> QED BY <1>1, <1>2, <2>4, <2>8, <2>9 DEF IInv
<1>3. CASE (Refuse \/ Fail) /\ UNCHANGED <<line, pos, tokens, i, background, before>>
  BY <1>1, <1>3, Ends
<1> QED BY <1>1, <1>2, <1>3 DEF StartNext

(* The end of the tokens ends the last command.                             *)
LEMMA FinishStep == ASSUME IInv, Finish PROVE IInv'
BY Ends DEF Finish, IInv

(* The counts of commands and tokens stay bound to each other.              *)
LEMMA Inductive == Spec => []IInv
<1>1. IInv /\ [Next]_vars => IInv'
  <2> SUFFICES ASSUME IInv, [Next]_vars PROVE IInv'
    OBVIOUS
  <2>1. CASE UNCHANGED vars
    BY <2>1 DEF vars, IInv, TypeOK, Used, Current
  <2>2. CASE Done
    BY <2>1, <2>2 DEF Done
  <2> QED BY <2>1, <2>2, TokenizeSteps, AddWordStep, AddRedirectStep, SetBackgroundStep,
             StartNextStep, FinishStep DEF Next
<1> QED BY <1>1, Initially, PTL DEF Spec

(* No array of the parser is overrun, for any line and any limits: token[],*)
(* the text of a token, argv[] with its NULL; and no line has more commands*)
(* than pids[MAX_PIPELINE] of the launch can hold (parser.c, executor.c).  *)
THEOREM ArraysHold == Spec => []TypeOK
<1>1. IInv => TypeOK
  BY DEF IInv
<1> QED BY <1>1, Inductive, PTL

-----------------------------------------------------------------------------
(* A set of numbers has a greatest if it is not empty and has a bound.      *)
LEMMA Greatest ==
    ASSUME NEW m \in Nat, NEW S, S \subseteq 1..m, S # {}
    PROVE  \E g \in S : \A k \in S : k <= g
<1> DEFINE R == {ss \in Nat \X Nat : ss[1] < ss[2]}
           T == {n \in Nat : m - n \in S}
<1>1. IsWellFoundedOn(R, Nat)
  BY NatLessThanWellFounded DEF OpToRel
<1>2. T \subseteq Nat /\ T # {}
  <2>1. PICK k \in S : TRUE
    OBVIOUS
  <2>2. m - k \in Nat /\ m - (m - k) = k
    BY <2>1
  <2> QED BY <2>1, <2>2
<1> HIDE DEF R
<1>3. PICK x \in T : \A y \in T : ~ (<<y, x>> \in R)
  <2> HIDE DEF T
  <2> QED BY <1>1, <1>2, WFMin
<1>4. x \in Nat /\ m - x \in S
  OBVIOUS
<1>5. \A k \in S : k <= m - x
  <2> TAKE k \in S
  <2>1. k \in 1..m /\ m - k \in Nat /\ m - (m - k) = k
    OBVIOUS
  <2>2. m - k \in T
    BY <2>1
  <2>3. ~ (m - k < x)
    BY <1>3, <1>4, <2>1, <2>2 DEF R
  <2> QED BY <1>4, <2>1, <2>3
<1> QED BY <1>4, <1>5

(* The number of > before a place: one more behind a >, none behind any     *)
(* other character.                                                         *)
Others(p) == {k \in 1..(p - 1) : line[k] # ">"}

LEMMA RunBeforeIs ==
    ASSUME TypeOK, NEW p \in 1..Len(line)
    PROVE  /\ RunBefore(1) = 0
           /\ RunBefore(p) \in Int
           /\ RunBefore(p + 1) = IF line[p] = ">" THEN RunBefore(p) + 1 ELSE 0
<1>1. Len(line) \in Nat /\ p \in Nat \ {0} /\ p - 1 \in Nat
  BY DEF TypeOK, Text
<1>2. ASSUME NEW n \in Nat, Others(n) = {}
      PROVE  RunBefore(n) = n - 1
  BY <1>2 DEF RunBefore, Others
<1>3. ASSUME NEW n \in Nat, NEW g \in Others(n), \A k \in Others(n) : k <= g
      PROVE  RunBefore(n) = n - 1 - g
  <2>1. \A k \in Others(n) : k \in Nat
    BY <1>3 DEF Others
  <2>2. (CHOOSE k \in Others(n) : \A m \in Others(n) : m <= k) = g
    <3>1. \A k \in Others(n) : (\A m \in Others(n) : m <= k) => k = g
      BY <1>3, <2>1
    <3> QED BY <1>3, <3>1
  <2>3. Others(n) # {}
    BY <1>3
  <2>4. RunBefore(n) = n - 1 - (IF Others(n) = {} THEN 0
                                ELSE CHOOSE k \in Others(n) : \A m \in Others(n) : m <= k)
    BY Zenon DEF RunBefore, Others
  <2> QED BY <2>2, <2>3, <2>4
<1>4. RunBefore(1) = 0
  <2>1. Others(1) = {}
    BY DEF Others
  <2> QED BY <1>2, <2>1
<1>5. ASSUME line[p] # ">" PROVE RunBefore(p + 1) = 0
  <2>1. p \in Others(p + 1) /\ \A k \in Others(p + 1) : k <= p
    BY <1>1, <1>5 DEF Others
  <2> QED BY <1>1, <1>3, <2>1
<1>6. ASSUME line[p] = ">" PROVE RunBefore(p + 1) = RunBefore(p) + 1
  <2>1. Others(p + 1) = Others(p)
    BY <1>1, <1>6 DEF Others
  <2>2. CASE Others(p) = {}
    BY <1>1, <1>2, <1>6, <2>1, <2>2
  <2>3. CASE Others(p) # {}
    <3>1. Others(p) \subseteq 1..(p - 1)
      BY DEF Others
    <3>2. PICK g \in Others(p) : \A k \in Others(p) : k <= g
      BY <1>1, <2>3, <3>1, Greatest
    <3>3. RunBefore(p) = p - 1 - g
      BY <1>1, <1>3, <3>2
    <3>4. g \in Others(p + 1) /\ \A k \in Others(p + 1) : k <= g
      BY <2>1, <3>2
    <3>5. RunBefore(p + 1) = (p + 1) - 1 - g
      BY <1>1, <1>3, <3>4
    <3> QED BY <1>1, <3>1, <3>2, <3>3, <3>5
  <2> QED BY <2>2, <2>3
<1>7. RunBefore(p) \in Int
  <2>1. CASE Others(p) = {}
    BY <1>1, <1>2, <2>1
  <2>2. CASE Others(p) # {}
    <3>1. Others(p) \subseteq 1..(p - 1)
      BY DEF Others
    <3>2. PICK g \in Others(p) : \A k \in Others(p) : k <= g
      BY <1>1, <2>2, <3>1, Greatest
    <3> QED BY <1>1, <1>3, <3>1, <3>2
  <2> QED BY <2>1, <2>2
<1> QED BY <1>4, <1>5, <1>6, <1>7

(* The end of a word is the last of the word parts in a row.                *)
LEMMA WordEndIs ==
    ASSUME TypeOK, NEW p \in 1..Len(line), IsWordPart(line[p])
    PROVE  /\ WordEnd(p) \in p..Len(line)
           /\ \A k \in p..WordEnd(p) : IsWordPart(line[k])
           /\ WordEnd(p) < Len(line) => ~ IsWordPart(line[WordEnd(p) + 1])
<1> DEFINE S == {q \in p..Len(line) : \A k \in p..q : IsWordPart(line[k])}
<1>1. Len(line) \in Nat /\ p \in Nat /\ p <= Len(line)
  BY DEF TypeOK, Text
<1>2. p \in S /\ S \subseteq 1..Len(line)
  BY <1>1
<1>3. PICK g \in S : \A k \in S : k <= g
  <2> HIDE DEF S
  <2> QED BY <1>1, <1>2, Greatest
<1>4. g \in p..Len(line) /\ \A k \in p..g : IsWordPart(line[k])
  OBVIOUS
<1>5. S = p..g
  <2>1. ASSUME NEW q \in p..g PROVE q \in S
    BY <1>1, <1>4
  <2>2. ASSUME NEW q \in S PROVE q \in p..g
    BY <1>1, <1>3
  <2> QED BY <2>1, <2>2
<1>6. g < Len(line) => ~ IsWordPart(line[g + 1])
  <2> SUFFICES ASSUME g < Len(line), IsWordPart(line[g + 1]) PROVE FALSE
    OBVIOUS
  <2>1. g + 1 \in S
    BY <1>1, <1>4
  <2> QED BY <1>1, <1>3, <1>4, <2>1
<1>7. Cardinality(S) = g - p + 1
  <2> HIDE DEF S
  <2> QED BY <1>1, <1>4, <1>5, FS_Interval
<1>8. WordEnd(p) = g
  <2>1. WordEnd(p) = p - 1 + Cardinality(S)
    BY DEF WordEnd
  <2> HIDE DEF S
  <2> QED BY <1>1, <1>4, <1>7, <2>1
<1> QED BY <1>4, <1>6, <1>8

(* A character that is no blank starts a token unless it goes on a word or  *)
(* a row of >.                                                              *)
LEMMA StartsBehind ==
    ASSUME TypeOK, NEW p \in 1..Len(line), p < Len(line), line[p + 1] # Blank,
           ~ (IsWordPart(line[p]) /\ IsWordPart(line[p + 1])),
           ~ (line[p] = ">" /\ line[p + 1] = ">")
    PROVE  p + 1 \in Starts
<1>1. /\ Len(line) \in Nat /\ p + 1 \in 1..Len(line) /\ DOMAIN line = 1..Len(line)
      /\ p + 1 # 1 /\ (p + 1) - 1 = p
  BY LenProperties DEF TypeOK, Text
<1>2. CASE line[p + 1] = ">"
  <2>1. RunBefore(p + 1) = 0
    BY <1>2, RunBeforeIs
  <2> QED BY <1>1, <1>2, <2>1 DEF Starts
<1>3. CASE line[p + 1] \in Operators \ {">"}
  BY <1>1, <1>3 DEF Starts
<1>4. CASE line[p + 1] \notin Operators
  <2>1. IsWordPart(line[p + 1])
    BY <1>4 DEF IsWordPart
  <2> QED BY <1>1, <2>1 DEF Starts
<1> QED BY <1>2, <1>3, <1>4

(* Where a token that starts at p ends.                                     *)
Last(p) == p - 1 + Len(TokenAt(p).text)

(* A token is the piece of the line from its start up to a blank or the     *)
(* next start, with neither inside.                                         *)
LEMMA PieceEnds ==
    ASSUME TypeOK, NEW p \in Starts
    PROVE  /\ p \in 1..Len(line) /\ line[p] # Blank /\ Last(p) \in p..Len(line)
           /\ \A k \in (p + 1)..Last(p) : k \notin Starts /\ line[k] # Blank
           /\ Last(p) < Len(line) /\ line[Last(p) + 1] # Blank => Last(p) + 1 \in Starts
           /\ TokenAt(p).text = SubSeq(line, p, Last(p))
<1>1. /\ Len(line) \in Nat /\ p \in 1..Len(line) /\ DOMAIN line = 1..Len(line)
      /\ line \in Seq(Character) /\ \A k \in 1..Len(line) : line[k] \in Character
  BY LenProperties, ElementOfSeq DEF TypeOK, Text, Starts
<1>2. line[p] # Blank /\ (line[p] = ">" => RunBefore(p) % 2 = 0)
  BY DEF Starts, IsWordPart, Operators, Blank
<1>3. CASE line[p] = ">" /\ p < Len(line) /\ line[p + 1] = ">"
  <2>1. TokenAt(p).text = <<">", ">">>
    BY <1>3 DEF TokenAt
  <2>2. Last(p) = p + 1
    BY <1>1, <2>1 DEF Last
  <2>3. /\ RunBefore(p) \in Int /\ RunBefore(p + 1) = RunBefore(p) + 1
    BY <1>1, <1>3, RunBeforeIs
  <2>4. p + 1 \notin Starts
    <3>1. RunBefore(p + 1) % 2 # 0
      BY <1>2, <1>3, <2>3
    <3> QED BY <1>3, <3>1 DEF Starts, Operators, IsWordPart
  <2>5. ASSUME p + 1 < Len(line), line[p + 2] # Blank PROVE p + 2 \in Starts
    <3>1. p + 1 \in 1..Len(line) /\ (p + 1) + 1 = p + 2 /\ p + 2 \in 1..Len(line)
      BY <1>1, <2>5
    <3>2. CASE line[p + 2] = ">"
      <4>1. RunBefore(p + 2) = RunBefore(p) + 2
        BY <1>3, <2>3, <3>1, RunBeforeIs
      <4>2. RunBefore(p + 2) % 2 = 0
        BY <1>2, <1>3, <2>3, <4>1
      <4> QED BY <1>1, <3>1, <3>2, <4>2 DEF Starts
    <3>3. CASE line[p + 2] # ">"
      <4>1. ~ IsWordPart(line[p + 1])
        BY <1>3 DEF IsWordPart, Operators
      <4> QED BY <2>5, <3>1, <3>3, <4>1, StartsBehind
    <3> QED BY <3>2, <3>3
  <2>6. SubSeq(line, p, p + 1) = <<">", ">">>
    <3> DEFINE s == SubSeq(line, p, p + 1)
               t == <<">", ">">>
    <3>1. s \in Seq(Character) /\ Len(s) = 2 /\ s[1] = line[p] /\ s[2] = line[p + 1]
      <4>1. \A k \in p..(p + 1) : line[k] \in Character
        BY <1>1, <1>3
      <4>2. p \in Int /\ p + 1 \in Int /\ p <= p + 1 /\ (p + 1) - p + 1 = 2 /\ p + 1 - 1 = p /\ p + 2 - 1 = p + 1
        BY <1>1
      <4> QED BY <4>1, <4>2, SubSeqProperties
    <3>2. t \in Seq(Character) /\ Len(t) = 2 /\ t[1] = ">" /\ t[2] = ">"
      BY DEF Character, Operators
    <3> HIDE DEF s, t
    <3>3. \A k \in 1..Len(s) : s[k] = t[k]
      BY <1>3, <3>1, <3>2
    <3>4. s = t
      BY <3>1, <3>2, <3>3, SeqEqual
    <3> QED BY <3>4 DEF s, t
  <2>7. \A k \in (p + 1)..(p + 1) : k = p + 1
    BY <1>1
  <2>8. line[p + 1] # Blank
    BY <1>3 DEF Blank
  <2> QED BY <1>1, <1>2, <1>3, <2>1, <2>2, <2>4, <2>5, <2>6, <2>7, <2>8
<1>4. ASSUME line[p] \in Operators, ~ (line[p] = ">" /\ p < Len(line) /\ line[p + 1] = ">")
      PROVE  /\ TokenAt(p).text = <<line[p]>> /\ Last(p) = p
             /\ SubSeq(line, p, p) = <<line[p]>>
             /\ p < Len(line) /\ line[p + 1] # Blank => p + 1 \in Starts
  <2>1. TokenAt(p).text = <<line[p]>>
    BY <1>4 DEF TokenAt, Operators
  <2>2. Last(p) = p
    BY <1>1, <2>1 DEF Last
  <2>3. SubSeq(line, p, p) = <<line[p]>>
    <3> DEFINE s == SubSeq(line, p, p)
               t == <<line[p]>>
    <3>1. s \in Seq(Character) /\ Len(s) = 1 /\ s[1] = line[p]
      <4>1. p \in Int /\ p <= p /\ p - p + 1 = 1 /\ p + 1 - 1 = p /\ \A k \in p..p : line[k] \in Character
        BY <1>1
      <4> QED BY <4>1, SubSeqProperties
    <3>2. t \in Seq(Character) /\ Len(t) = 1 /\ t[1] = line[p]
      BY <1>1
    <3> HIDE DEF s, t
    <3>3. \A k \in 1..Len(s) : s[k] = t[k]
      BY <3>1, <3>2
    <3>4. s = t
      BY <3>1, <3>2, <3>3, SeqEqual
    <3> QED BY <3>4 DEF s, t
  <2>4. ~ IsWordPart(line[p])
    BY <1>4 DEF IsWordPart
  <2> QED BY <1>1, <1>4, <2>1, <2>2, <2>3, <2>4, StartsBehind
<1>5. CASE line[p] \in Operators /\ ~ (line[p] = ">" /\ p < Len(line) /\ line[p + 1] = ">")
  <2>1. Last(p) = p /\ TokenAt(p).text = SubSeq(line, p, Last(p))
    BY <1>4, <1>5
  <2>2. Last(p) < Len(line) /\ line[Last(p) + 1] # Blank => Last(p) + 1 \in Starts
    BY <1>4, <1>5, <2>1
  <2>3. p \in p..Len(line) /\ (p + 1)..p = {}
    BY <1>1
  <2> QED BY <1>1, <1>2, <2>1, <2>2, <2>3
<1>6. CASE line[p] \notin Operators
  <2>1. TokenAt(p).text = SubSeq(line, p, WordEnd(p)) /\ IsWordPart(line[p])
    BY <1>2, <1>6 DEF TokenAt, Operators, IsWordPart
  <2>2. /\ WordEnd(p) \in p..Len(line)
        /\ \A k \in p..WordEnd(p) : IsWordPart(line[k])
        /\ WordEnd(p) < Len(line) => ~ IsWordPart(line[WordEnd(p) + 1])
    BY <1>1, <2>1, WordEndIs
  <2> DEFINE n == WordEnd(p)
  <2> HIDE DEF n
  <2>3. Last(p) = n
    <3>1. Len(SubSeq(line, p, n)) = n - p + 1
      BY <1>1, <2>2, SubSeqProperties DEF n
    <3> QED BY <1>1, <2>1, <2>2, <3>1 DEF Last, n
  <2>4. ASSUME NEW k \in (p + 1)..n PROVE k \notin Starts /\ line[k] # Blank
    <3>1. IsWordPart(line[k]) /\ IsWordPart(line[k - 1]) /\ k # 1
      BY <1>1, <2>2 DEF n
    <3> QED BY <3>1 DEF Starts, IsWordPart, Operators
  <2>5. ASSUME n < Len(line), line[n + 1] # Blank PROVE n + 1 \in Starts
    <3>1. n \in 1..Len(line) /\ IsWordPart(line[n]) /\ ~ IsWordPart(line[n + 1])
      BY <1>1, <2>2, <2>5 DEF n
    <3>2. line[n] # ">"
      BY <3>1 DEF IsWordPart, Operators
    <3> QED BY <2>5, <3>1, <3>2, StartsBehind
  <2>6. TokenAt(p).text = SubSeq(line, p, n) /\ n \in p..Len(line)
    BY <2>1, <2>2 DEF n
  <2>7. TokenAt(p).text = SubSeq(line, p, Last(p)) /\ Last(p) \in p..Len(line)
    BY <2>3, <2>6
  <2>8. \A k \in (p + 1)..Last(p) : k \notin Starts /\ line[k] # Blank
    BY <2>3, <2>4
  <2>9. Last(p) < Len(line) /\ line[Last(p) + 1] # Blank => Last(p) + 1 \in Starts
    BY <2>3, <2>5
  <2> QED BY <1>1, <1>2, <2>7, <2>8, <2>9
<1> QED BY <1>3, <1>5, <1>6

(* tokenize takes at a start the token the reference has there.             *)
LEMMA TokenIs ==
    ASSUME TypeOK, NEW p \in Starts
    PROVE  TokenAt(p) = [type |-> TypeAt(p), text |-> TextAt(p)]
<1>1. /\ Len(line) \in Nat /\ p \in 1..Len(line) /\ line[p] # Blank
      /\ line \in Seq(Character) /\ \A k \in 1..Len(line) : line[k] \in Character
  BY PieceEnds, LenProperties, ElementOfSeq DEF TypeOK, Text
<1>2. Extent(p) = p..Last(p)
  <2>1. ASSUME NEW q \in Extent(p) PROVE q \in p..Last(p)
    <3>1. q \in p..Len(line) /\ \A k \in (p + 1)..q : k \notin Starts /\ line[k] # Blank
      BY DEF Extent
    <3>2. Last(p) \in p..Len(line)
      BY PieceEnds
    <3>3. q > Last(p) => Last(p) + 1 \in (p + 1)..q /\ Last(p) < Len(line)
      BY <1>1, <3>1, <3>2
    <3> QED BY <1>1, <3>1, <3>2, <3>3, PieceEnds
  <2>2. ASSUME NEW q \in p..Last(p) PROVE q \in Extent(p)
    <3>1. q \in p..Len(line) /\ \A k \in (p + 1)..q : k \in (p + 1)..Last(p)
      BY <1>1, PieceEnds
    <3> QED BY <3>1, PieceEnds DEF Extent
  <2> QED BY <2>1, <2>2
<1>3. TextAt(p) = TokenAt(p).text
  <2>1. Last(p) \in p..Len(line) /\ TokenAt(p).text = SubSeq(line, p, Last(p))
    BY PieceEnds
  <2>2. Cardinality(Extent(p)) = Last(p) - p + 1
    BY <1>1, <1>2, <2>1, FS_Interval
  <2>3. p + Cardinality(Extent(p)) - 1 = Last(p)
    BY <1>1, <2>1, <2>2
  <2> QED BY <2>1, <2>3 DEF TextAt
<1>4. CASE line[p] = ">" /\ p < Len(line) /\ line[p + 1] = ">"
  <2>1. TokenAt(p) = [type |-> "append", text |-> <<">", ">">>]
    BY <1>4 DEF TokenAt
  <2>2. TypeAt(p) = "append"
    BY <1>3, <2>1 DEF TypeAt
  <2> QED BY <1>3, <2>1, <2>2
<1>5. CASE line[p] = ">" /\ ~ (p < Len(line) /\ line[p + 1] = ">")
  <2>1. TokenAt(p) = [type |-> "out", text |-> <<">">>]
    BY <1>5 DEF TokenAt
  <2>2. TypeAt(p) = "out"
    BY <1>3, <2>1 DEF TypeAt
  <2> QED BY <1>3, <2>1, <2>2
<1>6. CASE line[p] = "<"
  <2>1. TokenAt(p) = [type |-> "in", text |-> <<"<">>]
    BY <1>6 DEF TokenAt
  <2>2. TypeAt(p) = "in"
    BY <1>3, <2>1 DEF TypeAt
  <2> QED BY <1>3, <2>1, <2>2
<1>7. CASE line[p] = "|"
  <2>1. TokenAt(p) = [type |-> "pipe", text |-> <<"|">>]
    BY <1>7 DEF TokenAt
  <2>2. TypeAt(p) = "pipe"
    BY <1>3, <2>1 DEF TypeAt
  <2> QED BY <1>3, <2>1, <2>2
<1>8. CASE line[p] = "&"
  <2>1. TokenAt(p) = [type |-> "background", text |-> <<"&">>]
    BY <1>8 DEF TokenAt
  <2>2. TypeAt(p) = "background"
    BY <1>3, <2>1 DEF TypeAt
  <2> QED BY <1>3, <2>1, <2>2
<1>9. CASE line[p] \notin Operators
  <2>1. TokenAt(p) = [type |-> "word", text |-> SubSeq(line, p, WordEnd(p))]
    BY <1>9 DEF TokenAt, Operators
  <2>2. WordEnd(p) \in p..Len(line)
    BY <1>1, <1>9, WordEndIs DEF IsWordPart
  <2>3. SubSeq(line, p, WordEnd(p))[1] = line[p]
    BY <1>1, <2>2, SubSeqProperties
  <2>4. TextAt(p)[1] \notin Operators
    <3> DEFINE w == SubSeq(line, p, WordEnd(p))
    <3>0. TokenAt(p) = [type |-> "word", text |-> w]
      BY <2>1
    <3> HIDE DEF w
    <3>1. TextAt(p) = w
      BY <1>3, <3>0
    <3> QED BY <1>9, <2>3, <3>1 DEF w
  <2>5. /\ TextAt(p) # <<">", ">">> /\ TextAt(p) # <<">">> /\ TextAt(p) # <<"<">>
        /\ TextAt(p) # <<"|">> /\ TextAt(p) # <<"&">>
    BY <2>4 DEF Operators
  <2>6. TypeAt(p) = "word"
    BY <2>5 DEF TypeAt
  <2> QED BY <1>3, <2>1, <2>6
<1> QED BY <1>4, <1>5, <1>6, <1>7, <1>8, <1>9 DEF Operators

(* The tokens taken so far are those that start before pos, and at pos      *)
(* there is a start or a blank.                                             *)
Before(p) == {q \in Starts : q < p}
UpTo(p) == {q \in Starts : q <= p}
TooMuch == \/ Cardinality(Starts) > MaxToken
           \/ \E p \in Starts : Len(TextAt(p)) >= TokenSize
CoverInv ==
    /\ \A p \in Before(pos) :
          tokens[Cardinality(UpTo(p))] = [type |-> TypeAt(p), text |-> TextAt(p)]
    /\ Len(tokens) = Cardinality(Before(pos))
    /\ phase = "tokenize" /\ pos <= Len(line) /\ line[pos] # Blank => pos \in Starts
    /\ phase = "build" => pos > Len(line)
    /\ phase = "done" /\ pos <= Len(line) => TooMuch

(* The reference looks at nothing but the line.                             *)
LEMMA LineOnly ==
    ASSUME line' = line
    PROVE  /\ Starts' = Starts
           /\ \A p : TextAt(p)' = TextAt(p) /\ TypeAt(p)' = TypeAt(p)
<1>1. Starts' = Starts
  <2>1. \A p : RunBefore(p)' = RunBefore(p)
    <3> TAKE p
    <3>1. Others(p)' = Others(p)
      BY Zenon DEF Others
    <3> DEFINE Run(S) == p - 1 - (IF S = {} THEN 0 ELSE CHOOSE k \in S : \A m \in S : m <= k)
    <3>2. RunBefore(p) = Run(Others(p)) /\ RunBefore(p)' = Run(Others(p)')
      BY Zenon DEF RunBefore, Others
    <3> HIDE DEF Run
    <3> QED BY <3>1, <3>2
  <2> QED BY <2>1, Zenon DEF Starts
<1>2. \A p : Extent(p)' = Extent(p)
  BY <1>1, Zenon DEF Extent
<1>3. \A p : TextAt(p)' = TextAt(p)
  BY <1>2, Zenon DEF TextAt
<1>4. \A p : TypeAt(p)' = TypeAt(p)
  BY <1>3, Zenon DEF TypeAt
<1> QED BY <1>1, <1>3, <1>4

(* A step that takes no character keeps what the tokens are.                *)
LEMMA NothingTaken ==
    ASSUME TypeOK, CoverInv, UNCHANGED <<line, pos, tokens>>,
           \/ phase' = phase
           \/ phase' = "build" /\ pos > Len(line)
           \/ phase' = "done" /\ (pos > Len(line) \/ TooMuch)
    PROVE  CoverInv'
<1>1. Starts' = Starts /\ \A p : TextAt(p)' = TextAt(p) /\ TypeAt(p)' = TypeAt(p)
  BY LineOnly
<1>2. /\ Before(pos)' = Before(pos) /\ \A p : UpTo(p)' = UpTo(p)
      /\ TooMuch' = TooMuch
  BY <1>1 DEF Before, UpTo, TooMuch
<1>3. ASSUME NEW p \in Before(pos)
      PROVE  tokens'[Cardinality(UpTo(p)')] = [type |-> TypeAt(p)', text |-> TextAt(p)']
  <2>1. tokens[Cardinality(UpTo(p))] = [type |-> TypeAt(p), text |-> TextAt(p)]
    BY DEF CoverInv
  <2> QED BY <1>1, <1>2, <2>1
<1>4. /\ Len(tokens') = Cardinality(Before(pos)')
      /\ phase' = "tokenize" /\ pos' <= Len(line') /\ line'[pos'] # Blank => pos' \in Starts'
      /\ phase' = "build" => pos' > Len(line')
      /\ phase' = "done" /\ pos' <= Len(line') => TooMuch'
  <2>1. ~ (pos > Len(line) /\ pos <= Len(line))
    BY LenProperties DEF TypeOK, Text
  <2> QED BY <1>1, <1>2, <2>1 DEF CoverInv
<1> QED BY <1>2, <1>3, <1>4 DEF CoverInv

(* What starts up to a place is finite.                                     *)
LEMMA StartsFinite ==
    ASSUME TypeOK, NEW p \in Nat
    PROVE  /\ Starts \subseteq 1..Len(line) /\ IsFiniteSet(Starts)
           /\ IsFiniteSet(Before(p)) /\ Cardinality(Before(p)) \in Nat
           /\ p \in Starts => /\ UpTo(p) = Before(p) \cup {p}
                              /\ Cardinality(UpTo(p)) = Cardinality(Before(p)) + 1
<1>1. Starts \subseteq 1..Len(line) /\ Len(line) \in Nat
  BY LenProperties DEF TypeOK, Text, Starts
<1>2. IsFiniteSet(Starts)
  <2>1. IsFiniteSet(1..Len(line))
    BY <1>1, FS_Interval
  <2> QED BY <1>1, <2>1, FS_Subset
<1>3. Before(p) \subseteq Starts
  BY DEF Before
<1>4. IsFiniteSet(Before(p)) /\ Cardinality(Before(p)) \in Nat
  BY <1>2, <1>3, FS_Subset, FS_CardinalityType
<1>5. ASSUME p \in Starts
      PROVE  UpTo(p) = Before(p) \cup {p} /\ Cardinality(UpTo(p)) = Cardinality(Before(p)) + 1
  <2>1. UpTo(p) = Before(p) \cup {p} /\ p \notin Before(p)
    <3>1. \A q \in Starts : q \in Nat
      BY <1>1
    <3>2. \A q \in Starts : q <= p <=> q < p \/ q = p
      BY <3>1
    <3>3. ~ p < p
      OBVIOUS
    <3> QED BY <1>5, <3>2, <3>3, Zenon DEF UpTo, Before
  <2> QED BY <1>4, <2>1, FS_AddElement
<1> QED BY <1>1, <1>2, <1>4, <1>5

(* A blank is no start.                                                     *)
LEMMA SkipCovers == ASSUME TypeOK, CoverInv, SkipBlank PROVE CoverInv'
<1>1. /\ Len(line) \in Nat /\ pos \in 1..Len(line) /\ line[pos] = Blank
      /\ pos' = pos + 1 /\ phase = "tokenize" /\ UNCHANGED <<line, tokens, phase>>
  BY DEF SkipBlank, TypeOK, Text
<1>2. Starts' = Starts /\ \A p : TextAt(p)' = TextAt(p) /\ TypeAt(p)' = TypeAt(p)
  BY <1>1, LineOnly
<1>3. pos \notin Starts
  BY <1>1 DEF Starts, Blank, Operators, IsWordPart
<1>4. Before(pos)' = Before(pos)
  <2>1. Starts \subseteq 1..Len(line)
    BY <1>1, StartsFinite
  <2>2. \A q \in Starts : q < pos + 1 <=> q < pos
    BY <1>1, <1>3, <2>1
  <2> QED BY <1>1, <1>2, <2>2, Zenon DEF Before
<1>5. \A p : UpTo(p)' = UpTo(p)
  BY <1>2 DEF UpTo
<1>6. pos + 1 <= Len(line) /\ line[pos + 1] # Blank => pos + 1 \in Starts
  <2>1. ~ IsWordPart(line[pos]) /\ line[pos] # ">"
    BY <1>1 DEF IsWordPart, Blank
  <2> QED BY <1>1, <2>1, StartsBehind
<1> QED BY <1>1, <1>2, <1>4, <1>5, <1>6 DEF CoverInv

(* A token is pushed as the next one, and the next start is behind it; one  *)
(* that does not fit is one too many or too long.                           *)
LEMMA PushCovers == ASSUME TypeOK, CoverInv, PushToken PROVE CoverInv'
<1> DEFINE t == TokenAt(pos)
<1>1. /\ Len(line) \in Nat /\ pos \in 1..Len(line) /\ line[pos] # Blank
      /\ phase = "tokenize" /\ line' = line /\ pos \in Starts /\ Len(tokens) \in Nat
  BY LenProperties DEF PushToken, TypeOK, Text, CoverInv
<1>2. t = [type |-> TypeAt(pos), text |-> TextAt(pos)]
  BY <1>1, TokenIs
<1>3. /\ Starts \subseteq 1..Len(line) /\ IsFiniteSet(Starts)
      /\ IsFiniteSet(Before(pos)) /\ Cardinality(Before(pos)) = Len(tokens)
      /\ UpTo(pos) = Before(pos) \cup {pos} /\ Cardinality(UpTo(pos)) = Len(tokens) + 1
  BY <1>1, StartsFinite DEF CoverInv
<1>4. CASE /\ Fits(t) /\ tokens' = Append(tokens, t) /\ pos' = pos + Len(t.text)
           /\ UNCHANGED phase
  <2>1. /\ t \in Token /\ Len(tokens') = Len(tokens) + 1 /\ tokens'[Len(tokens) + 1] = t
        /\ \A k \in 1..Len(tokens) : tokens'[k] = tokens[k]
    <3>1. t \in Token /\ tokens \in Seq(Token)
      BY <1>1, TokensAre DEF TypeOK
    <3> HIDE DEF t
    <3> QED BY <1>4, <3>1, AppendProperties
  <2>2. pos' = Last(pos) + 1 /\ Last(pos) \in pos..Len(line)
    <3>1. Len(t.text) \in Nat
      BY <1>1, TokensAre
    <3> QED BY <1>1, <1>4, <3>1, PieceEnds DEF Last
  <2>3. Starts' = Starts /\ \A p : TextAt(p)' = TextAt(p) /\ TypeAt(p)' = TypeAt(p)
    BY <1>1, LineOnly
  <2>4. Before(pos)' = UpTo(pos)
    <3>1. \A q \in Starts : q < pos' => q <= pos
      BY <1>1, <1>3, <2>2, PieceEnds
    <3>2. \A q \in Starts : q <= pos => q < pos'
      BY <1>1, <1>3, <2>2
    <3> QED BY <2>3, <3>1, <3>2 DEF Before, UpTo
  <2>5. Len(tokens') = Cardinality(Before(pos)')
    BY <1>3, <2>1, <2>4
  <2>6. ASSUME NEW p \in UpTo(pos)
        PROVE  tokens'[Cardinality(UpTo(p)')] = [type |-> TypeAt(p)', text |-> TextAt(p)']
    <3>1. UpTo(p)' = UpTo(p) /\ p \in Starts /\ p \in Nat
      BY <1>3, <2>3 DEF UpTo
    <3>2. CASE p = pos
      BY <1>2, <1>3, <2>1, <2>3, <3>1, <3>2
    <3>3. CASE p \in Before(pos)
      <4>1. UpTo(p) \subseteq Before(pos)
        <5>1. p < pos /\ p \in Nat
          BY <3>1, <3>3 DEF Before
        <5>2. \A q \in Starts : q <= p => q < pos
          BY <1>1, <1>3, <5>1
        <5> QED BY <5>2, Zenon DEF UpTo, Before
      <4>2. Cardinality(UpTo(p)) <= Len(tokens)
        BY <1>3, <4>1, FS_Subset
      <4>3. Cardinality(UpTo(p)) \in Nat \ {0}
        BY <3>1, StartsFinite
      <4>4. Cardinality(UpTo(p)) \in 1..Len(tokens)
        BY <1>1, <4>2, <4>3
      <4> QED BY <2>1, <2>3, <3>1, <3>3, <4>4 DEF CoverInv
    <3> QED BY <1>3, <3>2, <3>3
  <2>7. pos' <= Len(line) /\ line[pos'] # Blank => pos' \in Starts
    BY <1>1, <2>2, PieceEnds
  <2> QED BY <1>1, <1>4, <2>3, <2>4, <2>5, <2>6, <2>7 DEF CoverInv
<1>5. CASE ~ Fits(t) /\ Refuse /\ UNCHANGED <<pos, tokens>>
  <2>1. TooMuch
    <3>1. CASE ~ Len(tokens) < MaxToken
      <4>1. UpTo(pos) \subseteq Starts
        BY DEF UpTo
      <4>2. Cardinality(Starts) \in Nat /\ Len(tokens) + 1 <= Cardinality(Starts)
        BY <1>3, <4>1, FS_Subset, FS_CardinalityType
      <4> QED BY <1>1, <3>1, <4>2, ParserAssumption DEF TooMuch
    <3>2. CASE ~ Len(t.text) < TokenSize
      <4>1. Len(TextAt(pos)) = Len(t.text) /\ Len(t.text) \in Nat
        BY <1>1, <1>2, TokensAre
      <4> QED BY <1>1, <3>2, <4>1, ParserAssumption DEF TooMuch
    <3> QED BY <1>5, <3>1, <3>2 DEF Fits
  <2> QED BY <1>1, <1>5, <2>1, NothingTaken DEF Refuse, Returns
<1> QED BY <1>1, <1>4, <1>5 DEF PushToken

(* The tokens are the pieces of the line, in order and without a gap, and  *)
(* a line is given up only for the array or a text that is full, whatever  *)
(* the line and the limits (parser.c, tokenize).                           *)
THEOREM LineCovered == Spec => []TokensCoverLine
<1>1. Init => CoverInv
  <2> SUFFICES ASSUME Init PROVE CoverInv
    OBVIOUS
  <2>1. /\ pos = 1 /\ tokens = <<>> /\ phase = "tokenize" /\ Len(tokens) = 0 /\ TypeOK
    BY Initially DEF Init, IInv
  <2>2. Before(1) = {} /\ Cardinality(Before(1)) = 0
    <3>1. Before(1) = {}
      <4>1. \A q \in Starts : ~ q < 1
        BY <2>1, StartsFinite
      <4> QED BY <4>1, Zenon DEF Before
    <3> QED BY <3>1, FS_EmptySet
  <2>3. ASSUME 1 <= Len(line), line[1] # Blank PROVE 1 \in Starts
    <3>1. 1 \in DOMAIN line /\ 1 \in 1..Len(line)
      BY <2>1, <2>3, LenProperties DEF TypeOK, Text
    <3>2. RunBefore(1) = 0
      BY <2>1, <3>1, RunBeforeIs
    <3> QED BY <2>3, <3>1, <3>2 DEF Starts, IsWordPart
  <2> QED BY <2>1, <2>2, <2>3 DEF CoverInv
<1>2. TypeOK /\ CoverInv /\ [Next]_vars => CoverInv'
  <2> SUFFICES ASSUME TypeOK, CoverInv, [Next]_vars PROVE CoverInv'
    OBVIOUS
  <2>1. CASE UNCHANGED vars \/ Done
    BY <2>1, NothingTaken DEF vars, Done
  <2>2. CASE EndOfLine
    BY <2>2, NothingTaken DEF EndOfLine, Returns, Fail
  <2>3. CASE \/ AddWord \/ SetBackground \/ StartNext \/ Finish
             \/ \E type \in {"in", "out", "append"} : AddRedirect(type)
    <3>1. /\ phase = "build" /\ UNCHANGED <<line, pos, tokens>>
          /\ phase' = phase \/ phase' = "done"
      BY <2>3 DEF AddWord, SetBackground, StartNext, Finish, AddRedirect, Turn, Refuse, Fail,
             Returns
    <3> QED BY <3>1, NothingTaken DEF CoverInv
  <2> QED BY <2>1, <2>2, <2>3, SkipCovers, PushCovers DEF Next
<1>3. TypeOK /\ CoverInv => TokensCoverLine
  BY DEF CoverInv, TokensCoverLine, Before, UpTo, TooMuch
<1> QED BY <1>1, <1>2, <1>3, ArraysHold, PTL DEF Spec

-----------------------------------------------------------------------------
(* build_command, with one pass and no look behind, accepts exactly the     *)
(* grammar of token lists and returns what a list denotes.  SoFar is what   *)
(* the pass knows before each token.  Each turn that goes on extends it by  *)
(* the token or tokens it takes (WordTurn, RedirectTurn, BackgroundTurn,    *)
(* BarTurn), each turn that refuses has met something that no later token   *)
(* can mend (TooManyArgs, BadRedirect, BadBackground, BadBar), and AtEnd    *)
(* compares the two.                                                        *)

(* What the commands say of the tokens before the one that is taken next.   *)
ArgsTo(s, m) == {k \in ArgsOf(s) : k < m}
NamesTo(s, types, m) == {k \in NamesOf(s, types) : k < m}

Inputs  == {"in"}
Outputs == {"out", "append"}

Said(c, s, m) ==
    /\ Len(c.args) = Cardinality(ArgsTo(s, m))
    /\ \A k \in ArgsTo(s, m) :
          c.args[Cardinality({q \in ArgsOf(s) : q <= k})] = Expanded(tokens[k].text)
    /\ Cardinality(NamesTo(s, Inputs, m)) <= 1 /\ Cardinality(NamesTo(s, Outputs, m)) <= 1
    /\ NamesTo(s, Inputs, m) = {} => c.input = <<>>
    /\ \A k \in NamesTo(s, Inputs, m) : c.input = tokens[k].text
    /\ NamesTo(s, Outputs, m) = {} => c.output = <<>> /\ ~ c.append
    /\ \A k \in NamesTo(s, Outputs, m) :
          c.output = tokens[k].text /\ c.append = (Type(k - 1) = "append")

(* The grammar, for the tokens before m.                                    *)
Rules(m) ==
    \A k \in 1..(m - 1) :
        /\ Type(k) \in Redirections => k + 1 < m /\ Type(k + 1) = "word"
        /\ Type(k) = "pipe" => k < Len(tokens) /\ Type(k + 1) = "word"
        /\ Type(k) = "background" => k = Len(tokens)

SoFar(m, cs, marked) ==
    /\ Rules(m)
    /\ Stage(m) = Len(cs)
    /\ marked = (\E k \in 1..(m - 1) : Type(k) = "background")
    /\ \A s \in 1..Len(cs) : Said(cs[s], s, m)
    /\ \A s \in 1..(Len(cs) - 1) : cs[s].args # <<>>

(* The tokens, and their places.                                            *)
LEMMA TokensTyped ==
    ASSUME TypeOK
    PROVE  /\ Len(tokens) \in Nat /\ DOMAIN tokens = 1..Len(tokens)
           /\ \A k \in 1..Len(tokens) :
                 /\ tokens[k] \in Token /\ tokens[k].text \in Text
                 /\ Type(k) \in {"word", "pipe", "background"} \cup Redirections
<1>1. tokens \in Seq(Token)
  BY DEF TypeOK
<1>2. \A k \in 1..Len(tokens) : tokens[k] \in Token
  BY <1>1, ElementOfSeq
<1> QED BY <1>1, <1>2, LenProperties DEF Token, Type

(* A stage begins behind a pipe and nowhere else.                           *)
Bars(m) == {q \in 1..(m - 1) : Type(q) = "pipe"}

LEMMA StageIs ==
    ASSUME TypeOK, NEW m \in 1..(Len(tokens) + 1)
    PROVE  /\ Stage(1) = 1 /\ Stage(m) \in Nat \ {0}
           /\ m <= Len(tokens) =>
                  Stage(m + 1) = IF Type(m) = "pipe" THEN Stage(m) + 1 ELSE Stage(m)
           /\ \A k \in 1..m : Stage(k) <= Stage(m)
           /\ Stages = 1..Stage(Len(tokens) + 1)
           /\ Cardinality(Stages) = Stage(Len(tokens) + 1)
<1>1. Len(tokens) \in Nat /\ DOMAIN tokens = 1..Len(tokens)
  BY TokensTyped
<1>2. ASSUME NEW k \in 1..(Len(tokens) + 1)
      PROVE  IsFiniteSet(Bars(k)) /\ Cardinality(Bars(k)) \in Nat
             /\ Stage(k) = 1 + Cardinality(Bars(k))
  <2>1. IsFiniteSet(1..(k - 1)) /\ Bars(k) \in SUBSET (1..(k - 1))
    <3>1. 1 \in Int /\ k - 1 \in Int
      BY <1>1
    <3>2. IsFiniteSet(1..(k - 1))
      BY <3>1, FS_Interval
    <3> QED BY <3>2 DEF Bars
  <2>2. IsFiniteSet(Bars(k)) /\ Cardinality(Bars(k)) \in Nat
    BY <2>1, FS_Subset, FS_CardinalityType
  <2>3. Stage(k) = 1 + Cardinality(Bars(k))
    BY DEF Stage, Bars
  <2> QED BY <2>2, <2>3
<1>3. Stage(1) = 1
  <2>1. Bars(1) = {} /\ 1 \in 1..(Len(tokens) + 1)
    BY <1>1 DEF Bars
  <2> QED BY <1>2, <2>1, FS_EmptySet
<1>4. Stage(m) \in Nat \ {0}
  BY <1>2
<1>5. ASSUME m <= Len(tokens)
      PROVE  Stage(m + 1) = IF Type(m) = "pipe" THEN Stage(m) + 1 ELSE Stage(m)
  <2>1. m + 1 \in 1..(Len(tokens) + 1) /\ m \notin Bars(m)
    BY <1>1, <1>5 DEF Bars
  <2>2. Bars(m + 1) = IF Type(m) = "pipe" THEN Bars(m) \cup {m} ELSE Bars(m)
    BY <1>1 DEF Bars
  <2>3. Type(m) = "pipe" => Cardinality(Bars(m + 1)) = Cardinality(Bars(m)) + 1
    BY <1>2, <2>1, <2>2, FS_AddElement
  <2> QED BY <1>2, <2>1, <2>2, <2>3
<1>6. ASSUME NEW k \in 1..m PROVE Stage(k) <= Stage(m)
  <2>1. k \in 1..(Len(tokens) + 1) /\ Bars(k) \subseteq Bars(m)
    BY <1>1 DEF Bars
  <2>2. Cardinality(Bars(k)) <= Cardinality(Bars(m))
    BY <1>2, <2>1, FS_Subset
  <2> QED BY <1>2, <2>1, <2>2
<1>7. /\ Stages = 1..Stage(Len(tokens) + 1)
      /\ Cardinality(Stages) = Stage(Len(tokens) + 1)
  <2>1. Bars(Len(tokens) + 1) = {k \in DOMAIN tokens : Type(k) = "pipe"}
    BY <1>1 DEF Bars
  <2>2. Len(tokens) + 1 \in 1..(Len(tokens) + 1)
    BY <1>1
  <2>3. Stages = 1..Stage(Len(tokens) + 1) /\ Stage(Len(tokens) + 1) \in Nat
    <3>1. Stages = 1..(1 + Cardinality({k \in DOMAIN tokens : Type(k) = "pipe"}))
      BY Zenon DEF Stages
    <3>2. Cardinality({k \in DOMAIN tokens : Type(k) = "pipe"}) = Cardinality(Bars(Len(tokens) + 1))
      BY <2>1
    <3>3. Stage(Len(tokens) + 1) = 1 + Cardinality(Bars(Len(tokens) + 1))
      BY <1>2, <2>2
    <3>4. Stage(Len(tokens) + 1) \in Nat
      BY <1>2, <2>2
    <3> QED BY <3>1, <3>2, <3>3, <3>4, Zenon
  <2>4. Cardinality(1..Stage(Len(tokens) + 1)) = Stage(Len(tokens) + 1)
    BY <2>3, FS_Interval
  <2> QED BY <2>3, <2>4
<1> QED BY <1>3, <1>4, <1>5, <1>6, <1>7

(* The arguments and names of a command up to a place, and one more.        *)
LEMMA WordsTo ==
    ASSUME TypeOK, NEW m \in 1..(Len(tokens) + 1), NEW s, NEW types
    PROVE  /\ IsFiniteSet(ArgsOf(s)) /\ ArgsOf(s) \subseteq 1..Len(tokens)
           /\ IsFiniteSet(NamesOf(s, types)) /\ NamesOf(s, types) \subseteq 1..Len(tokens)
           /\ IsFiniteSet(ArgsTo(s, m)) /\ IsFiniteSet(NamesTo(s, types, m))
           /\ ArgsTo(s, m + 1) = IF m \in ArgsOf(s) THEN ArgsTo(s, m) \cup {m} ELSE ArgsTo(s, m)
           /\ NamesTo(s, types, m + 1) =
                  IF m \in NamesOf(s, types) THEN NamesTo(s, types, m) \cup {m}
                  ELSE NamesTo(s, types, m)
           /\ m \notin ArgsTo(s, m) /\ m \notin NamesTo(s, types, m)
           /\ ArgsTo(s, Len(tokens) + 1) = ArgsOf(s)
           /\ NamesTo(s, types, Len(tokens) + 1) = NamesOf(s, types)
<1>1. Len(tokens) \in Nat /\ DOMAIN tokens = 1..Len(tokens)
  BY TokensTyped
<1>2. ArgsOf(s) \subseteq 1..Len(tokens) /\ NamesOf(s, types) \subseteq 1..Len(tokens)
  BY <1>1 DEF ArgsOf, NamesOf
<1>3. IsFiniteSet(1..Len(tokens))
  BY <1>1, FS_Interval
<1>4. IsFiniteSet(ArgsOf(s)) /\ IsFiniteSet(NamesOf(s, types))
  BY <1>2, <1>3, FS_Subset
<1>5. ArgsTo(s, m) \subseteq ArgsOf(s) /\ NamesTo(s, types, m) \subseteq NamesOf(s, types)
  BY DEF ArgsTo, NamesTo
<1>6. IsFiniteSet(ArgsTo(s, m)) /\ IsFiniteSet(NamesTo(s, types, m))
  BY <1>4, <1>5, FS_Subset
<1>7. ASSUME NEW S, S \subseteq 1..Len(tokens)
      PROVE  /\ {k \in S : k < m + 1} = IF m \in S THEN {k \in S : k < m} \cup {m}
                                        ELSE {k \in S : k < m}
             /\ {k \in S : k < Len(tokens) + 1} = S
             /\ m \notin {k \in S : k < m}
  <2>1. \A k \in S : k \in Nat /\ k <= Len(tokens)
    BY <1>1, <1>7
  <2>2. \A k \in S : (k < m + 1 <=> k < m \/ k = m) /\ k < Len(tokens) + 1
    BY <1>1, <2>1
  <2>3. ~ m < m /\ m < m + 1
    BY <1>1
  <2> QED BY <2>2, <2>3
<1>8. /\ ArgsTo(s, m + 1) = IF m \in ArgsOf(s) THEN ArgsTo(s, m) \cup {m} ELSE ArgsTo(s, m)
      /\ ArgsTo(s, Len(tokens) + 1) = ArgsOf(s) /\ m \notin ArgsTo(s, m)
  BY <1>2, <1>7 DEF ArgsTo
<1>9. /\ NamesTo(s, types, m + 1) =
             IF m \in NamesOf(s, types) THEN NamesTo(s, types, m) \cup {m}
             ELSE NamesTo(s, types, m)
      /\ NamesTo(s, types, Len(tokens) + 1) = NamesOf(s, types)
      /\ m \notin NamesTo(s, types, m)
  BY <1>2, <1>7 DEF NamesTo
<1> QED BY <1>2, <1>4, <1>6, <1>8, <1>9

(* A token that is neither an argument nor a name of a command changes      *)
(* nothing of what it says.                                                 *)
LEMMA SaidQuiet ==
    ASSUME TypeOK, NEW m \in 1..(Len(tokens) + 1), NEW s, NEW c, Said(c, s, m),
           m \notin ArgsOf(s), m \notin NamesOf(s, Inputs), m \notin NamesOf(s, Outputs)
    PROVE  Said(c, s, m + 1)
<1>1. /\ ArgsTo(s, m + 1) = ArgsTo(s, m)
      /\ NamesTo(s, Inputs, m + 1) = NamesTo(s, Inputs, m)
      /\ NamesTo(s, Outputs, m + 1) = NamesTo(s, Outputs, m)
  BY WordsTo
<1> QED BY <1>1 DEF Said

(* A word that is an argument is appended.                                  *)
LEMMA SaidWord ==
    ASSUME TypeOK, NEW m \in 1..Len(tokens), NEW s, NEW c \in Command, Said(c, s, m),
           m \in ArgsOf(s), m \notin NamesOf(s, Inputs), m \notin NamesOf(s, Outputs),
           NEW d, d.args = Append(c.args, Expanded(tokens[m].text)),
           d.input = c.input, d.output = c.output, d.append = c.append
    PROVE  Said(d, s, m + 1)
<1>0. m \in 1..(Len(tokens) + 1) /\ Len(tokens) \in Nat
  BY TokensTyped
<1>1. /\ ArgsTo(s, m + 1) = ArgsTo(s, m) \cup {m} /\ m \notin ArgsTo(s, m)
      /\ NamesTo(s, Inputs, m + 1) = NamesTo(s, Inputs, m)
      /\ NamesTo(s, Outputs, m + 1) = NamesTo(s, Outputs, m)
      /\ IsFiniteSet(ArgsTo(s, m)) /\ ArgsOf(s) \subseteq 1..Len(tokens)
  BY <1>0, WordsTo
<1>2. /\ Cardinality(ArgsTo(s, m + 1)) = Cardinality(ArgsTo(s, m)) + 1
      /\ Cardinality(ArgsTo(s, m)) \in Nat
  BY <1>1, FS_AddElement, FS_CardinalityType
<1>3. /\ Len(d.args) = Len(c.args) + 1 /\ d.args[Len(c.args) + 1] = Expanded(tokens[m].text)
      /\ \A k \in 1..Len(c.args) : d.args[k] = c.args[k]
  <2>1. tokens[m].text \in Text /\ before \in Statuses
    BY TokensTyped DEF TypeOK
  <2>2. Expanded(tokens[m].text) \in Text \cup Seq(Statuses)
    <3>1. <<before>> \in Seq(Statuses)
      BY <2>1
    <3> QED BY <2>1, <3>1 DEF Expanded
  <2>3. c.args \in Seq(Text \cup Seq(Statuses))
    BY DEF Command
  <2> DEFINE w == Expanded(tokens[m].text)
  <2> HIDE DEF w
  <2> QED BY <2>2, <2>3, AppendProperties DEF w
<1>4. {q \in ArgsOf(s) : q <= m} = ArgsTo(s, m + 1)
  <2>1. \A q \in ArgsOf(s) : q <= m <=> q < m + 1
    BY <1>0, <1>1
  <2> QED BY <2>1 DEF ArgsTo
<1>5. ASSUME NEW k \in ArgsTo(s, m)
      PROVE  Cardinality({q \in ArgsOf(s) : q <= k}) \in 1..Len(c.args)
  <2> DEFINE S == {q \in ArgsOf(s) : q <= k}
  <2>1. k \in ArgsOf(s) /\ k < m /\ k \in Nat
    BY <1>1 DEF ArgsTo
  <2>2. S \subseteq ArgsTo(s, m) /\ k \in S
    <3>1. \A q \in ArgsOf(s) : q <= k => q < m
      BY <1>0, <1>1, <2>1
    <3>2. k <= k
      BY <2>1
    <3> QED BY <2>1, <3>1, <3>2 DEF ArgsTo
  <2> HIDE DEF S
  <2>3. IsFiniteSet(S) /\ Cardinality(S) <= Cardinality(ArgsTo(s, m))
    BY <1>1, <2>2, FS_Subset
  <2>4. Cardinality(S) \in Nat /\ Cardinality(S) # 0
    BY <2>2, <2>3, FS_CardinalityType, FS_EmptySet
  <2>5. Cardinality(S) \in 1..Len(c.args)
    BY <1>2, <2>3, <2>4 DEF Said
  <2> QED BY <2>5 DEF S
<1>6. ASSUME NEW k \in ArgsTo(s, m + 1)
      PROVE  d.args[Cardinality({q \in ArgsOf(s) : q <= k})] = Expanded(tokens[k].text)
  <2>1. CASE k = m
    BY <1>2, <1>3, <1>4, <2>1 DEF Said
  <2>2. CASE k \in ArgsTo(s, m)
    <3>1. c.args[Cardinality({q \in ArgsOf(s) : q <= k})] = Expanded(tokens[k].text)
      BY <2>2 DEF Said
    <3> QED BY <1>3, <1>5, <2>2, <3>1
  <2> QED BY <1>1, <2>1, <2>2
<1>7. Len(d.args) = Cardinality(ArgsTo(s, m + 1))
  BY <1>2, <1>3 DEF Said
<1> QED BY <1>1, <1>6, <1>7 DEF Said

(* A file name fills the place that was empty.                              *)
LEMMA SaidName ==
    ASSUME TypeOK, NEW m \in 1..Len(tokens), NEW s, NEW c, Said(c, s, m),
           m \notin ArgsOf(s),
           NEW types \in {Inputs, Outputs}, m \in NamesOf(s, types),
           NEW others, others = IF types = Inputs THEN Outputs ELSE Inputs,
           m \notin NamesOf(s, others), NamesTo(s, types, m) = {},
           NEW d, d.args = c.args,
           types = Inputs => /\ d.input = tokens[m].text
                             /\ d.output = c.output /\ d.append = c.append,
           types = Outputs => /\ d.output = tokens[m].text /\ d.input = c.input
                              /\ d.append = (Type(m - 1) = "append")
    PROVE  Said(d, s, m + 1)
<1>0. m \in 1..(Len(tokens) + 1) /\ Inputs # Outputs
  BY TokensTyped DEF Inputs, Outputs
<1>1. /\ ArgsTo(s, m + 1) = ArgsTo(s, m)
      /\ NamesTo(s, types, m + 1) = {m}
      /\ NamesTo(s, others, m + 1) = NamesTo(s, others, m)
  BY <1>0, WordsTo
<1>2. Cardinality({m}) <= 1 /\ {m} # {} /\ \A k \in {m} : k = m
  <2>1. Cardinality({m}) = 1
    BY FS_Singleton
  <2>2. 1 <= 1
    OBVIOUS
  <2> QED BY <2>1, <2>2
<1>3. /\ Len(d.args) = Cardinality(ArgsTo(s, m + 1))
      /\ \A k \in ArgsTo(s, m + 1) :
            d.args[Cardinality({q \in ArgsOf(s) : q <= k})] = Expanded(tokens[k].text)
  BY <1>1 DEF Said
<1>4. CASE types = Inputs
  <2>1. /\ NamesTo(s, Inputs, m + 1) = {m}
        /\ NamesTo(s, Outputs, m + 1) = NamesTo(s, Outputs, m)
    BY <1>1, <1>4
  <2>2. /\ d.input = tokens[m].text /\ d.output = c.output /\ d.append = c.append
    BY <1>4
  <2>3. /\ Cardinality(NamesTo(s, Outputs, m + 1)) <= 1
        /\ NamesTo(s, Outputs, m + 1) = {} => d.output = <<>> /\ ~ d.append
        /\ \A k \in NamesTo(s, Outputs, m + 1) :
              d.output = tokens[k].text /\ d.append = (Type(k - 1) = "append")
    BY <2>1, <2>2 DEF Said
  <2>4. /\ Cardinality(NamesTo(s, Inputs, m + 1)) <= 1
        /\ NamesTo(s, Inputs, m + 1) # {}
        /\ \A k \in NamesTo(s, Inputs, m + 1) : d.input = tokens[k].text
    BY <1>2, <2>1, <2>2, Zenon
  <2> QED BY <1>3, <2>3, <2>4, Zenon DEF Said
<1>5. CASE types = Outputs
  <2>1. /\ NamesTo(s, Outputs, m + 1) = {m}
        /\ NamesTo(s, Inputs, m + 1) = NamesTo(s, Inputs, m)
    BY <1>0, <1>1, <1>5
  <2>2. /\ d.output = tokens[m].text /\ d.append = (Type(m - 1) = "append")
        /\ d.input = c.input
    BY <1>5
  <2>3. /\ Cardinality(NamesTo(s, Inputs, m + 1)) <= 1
        /\ NamesTo(s, Inputs, m + 1) = {} => d.input = <<>>
        /\ \A k \in NamesTo(s, Inputs, m + 1) : d.input = tokens[k].text
    BY <2>1, <2>2 DEF Said
  <2>4. /\ Cardinality(NamesTo(s, Outputs, m + 1)) <= 1
        /\ NamesTo(s, Outputs, m + 1) # {}
        /\ \A k \in NamesTo(s, Outputs, m + 1) :
              d.output = tokens[k].text /\ d.append = (Type(k - 1) = "append")
    BY <1>2, <2>1, <2>2, Zenon
  <2> QED BY <1>3, <2>3, <2>4, Zenon DEF Said
<1> QED BY <1>4, <1>5

(* A token that is taken next is no name: a redirection has taken its own.  *)
LEMMA Role ==
    ASSUME TypeOK, NEW m \in 1..Len(tokens), Rules(m), NEW s, NEW types
    PROVE  /\ m \notin NamesOf(s, types)
           /\ m \in ArgsOf(s) <=> Type(m) = "word" /\ Stage(m) = s
<1>1. ~ IsName(m)
  <2> SUFFICES ASSUME m > 1, Type(m - 1) \in Redirections PROVE FALSE
    BY DEF IsName
  <2>1. m - 1 \in 1..(m - 1) /\ (m - 1) + 1 = m
    BY TokensTyped
  <2>2. m < m
    BY <2>1 DEF Rules
  <2> QED BY <2>2, TokensTyped
<1> QED BY <1>1, TokensTyped DEF NamesOf, ArgsOf

(* Rules about one token more.                                              *)
LEMMA RulesGrow ==
    ASSUME TypeOK, NEW m \in 1..Len(tokens), Rules(m), Type(m) \notin Redirections,
           Type(m) = "pipe" => m < Len(tokens) /\ Type(m + 1) = "word",
           Type(m) = "background" => m = Len(tokens)
    PROVE  Rules(m + 1)
<1>1. Len(tokens) \in Nat
  BY TokensTyped
<1>2. ASSUME NEW k \in 1..((m + 1) - 1)
      PROVE  /\ Type(k) \in Redirections => k + 1 < m + 1 /\ Type(k + 1) = "word"
             /\ Type(k) = "pipe" => k < Len(tokens) /\ Type(k + 1) = "word"
             /\ Type(k) = "background" => k = Len(tokens)
  <2>1. CASE k = m
    BY <2>1
  <2>2. CASE k \in 1..(m - 1)
    <3>1. k + 1 < m => k + 1 < m + 1
      BY <1>1, <2>2
    <3> QED BY <2>2, <3>1 DEF Rules
  <2> QED BY <1>1, <2>1, <2>2
<1> QED BY <1>2, Zenon DEF Rules

(* Whether an & has come: one token more.                                   *)
LEMMA MarkGrows ==
    ASSUME TypeOK, NEW m \in 1..Len(tokens)
    PROVE  (\E k \in 1..((m + 1) - 1) : Type(k) = "background")
           <=> (\E k \in 1..(m - 1) : Type(k) = "background") \/ Type(m) = "background"
<1>1. m \in Nat \ {0}
  BY TokensTyped
<1>2. 1..((m + 1) - 1) = 1..(m - 1) \cup {m}
  BY <1>1
<1> QED BY <1>2

(* One turn for a word.                                                     *)
LEMMA WordTurn ==
    ASSUME TypeOK, NEW m \in 1..Len(tokens), NEW cs \in Seq(Command), cs # <<>>,
           NEW marked, SoFar(m, cs, marked), Type(m) = "word",
           NEW d \in Command, NEW c, c = cs[Len(cs)],
           d.args = Append(c.args, Expanded(tokens[m].text)),
           d.input = c.input, d.output = c.output, d.append = c.append
    PROVE  SoFar(m + 1, [cs EXCEPT ![Len(cs)] = d], marked)
<1> DEFINE ds == [cs EXCEPT ![Len(cs)] = d]
<1>1. /\ Len(cs) \in Nat \ {0} /\ Len(cs) \in 1..Len(cs)
      /\ m \in 1..(Len(tokens) + 1) /\ m <= Len(tokens)
      /\ c \in Command
  BY EmptySeq, LenProperties, TokensTyped, ElementOfSeq
<1>2. /\ Len(ds) = Len(cs)
      /\ \A s \in 1..Len(cs) : ds[s] = IF s = Len(cs) THEN d ELSE cs[s]
  BY <1>1, ExceptSeq
<1>3. /\ Rules(m) /\ Stage(m) = Len(cs) /\ Stage(m + 1) = Len(cs)
      /\ Rules(m + 1)
      /\ marked = (\E k \in 1..((m + 1) - 1) : Type(k) = "background")
  <2>1. Rules(m) /\ Stage(m) = Len(cs)
    BY DEF SoFar
  <2>2. Stage(m + 1) = Len(cs)
    BY <1>1, <2>1, StageIs
  <2>3. Rules(m + 1)
    BY <2>1, RulesGrow DEF Redirections
  <2>4. marked = (\E k \in 1..((m + 1) - 1) : Type(k) = "background")
    BY MarkGrows DEF SoFar
  <2> QED BY <2>1, <2>2, <2>3, <2>4
<1>4. ASSUME NEW s \in 1..Len(cs) PROVE Said(ds[s], s, m + 1)
  <2>1. /\ m \notin NamesOf(s, Inputs) /\ m \notin NamesOf(s, Outputs)
        /\ m \in ArgsOf(s) <=> s = Len(cs)
        /\ Said(cs[s], s, m)
    BY <1>3, Role DEF SoFar
  <2>2. CASE s = Len(cs)
    <3>1. ds[s] = d /\ cs[s] = c
      BY <1>1, <1>2, <2>2
    <3>2. Said(d, s, m + 1)
      BY <1>1, <2>1, <2>2, <3>1, SaidWord
    <3> QED BY <3>1, <3>2
  <2>3. CASE s # Len(cs)
    <3>1. ds[s] = cs[s]
      BY <1>2, <2>3
    <3>2. Said(cs[s], s, m + 1)
      BY <1>1, <2>1, <2>3, SaidQuiet
    <3> QED BY <3>1, <3>2
  <2> QED BY <2>2, <2>3
<1>5. ASSUME NEW s \in 1..(Len(cs) - 1) PROVE ds[s].args # <<>>
  <2>1. s \in 1..Len(cs) /\ s # Len(cs)
    <3> HIDE DEF ds
    <3> QED BY <1>1
  <2>2. ds[s] = cs[s]
    BY <1>2, <2>1
  <2> QED BY <2>2 DEF SoFar
<1> HIDE DEF ds
<1>6. SoFar(m + 1, ds, marked)
  BY <1>2, <1>3, <1>4, <1>5 DEF SoFar
<1> QED BY <1>6 DEF ds

(* One turn for a redirection, which takes the word behind it.              *)
LEMMA RedirectTurn ==
    ASSUME TypeOK, NEW m \in 1..Len(tokens), NEW cs \in Seq(Command), cs # <<>>,
           NEW marked, SoFar(m, cs, marked), Type(m) \in Redirections,
           m < Len(tokens), Type(m + 1) = "word",
           \A k \in 1..Len(tokens) : tokens[k].text # <<>>,
           NEW d \in Command, NEW c, c = cs[Len(cs)], d.args = c.args,
           Type(m) = "in" => /\ c.input = <<>> /\ d.input = tokens[m + 1].text
                             /\ d.output = c.output /\ d.append = c.append,
           Type(m) # "in" => /\ c.output = <<>> /\ d.output = tokens[m + 1].text
                             /\ d.append = (Type(m) = "append") /\ d.input = c.input
    PROVE  SoFar(m + 2, [cs EXCEPT ![Len(cs)] = d], marked)
<1> DEFINE ds == [cs EXCEPT ![Len(cs)] = d]
<1>1. /\ Len(cs) \in Nat \ {0} /\ Len(cs) \in 1..Len(cs)
      /\ m \in 1..(Len(tokens) + 1) /\ m <= Len(tokens) /\ m \in Nat /\ Len(tokens) \in Nat
      /\ m + 1 \in 1..Len(tokens) /\ m + 1 \in 1..(Len(tokens) + 1)
      /\ (m + 1) - 1 = m /\ (m + 1) + 1 = m + 2 /\ m + 1 > 1
  BY EmptySeq, LenProperties, TokensTyped
<1>2. /\ Len(ds) = Len(cs)
      /\ \A s \in 1..Len(cs) : ds[s] = IF s = Len(cs) THEN d ELSE cs[s]
  BY <1>1, ExceptSeq
<1>3. Rules(m) /\ Stage(m) = Len(cs) /\ \A s \in 1..Len(cs) : Said(cs[s], s, m)
  BY DEF SoFar
<1>4. Stage(m + 1) = Len(cs) /\ Stage(m + 2) = Len(cs)
  <2>1. Type(m) # "pipe" /\ Type(m + 1) # "pipe"
    BY DEF Redirections
  <2>2. Stage(m + 1) = Len(cs)
    BY <1>1, <1>3, <2>1, StageIs
  <2>3. Stage((m + 1) + 1) = Len(cs)
    BY <1>1, <2>1, <2>2, StageIs
  <2> QED BY <1>1, <2>2, <2>3
<1>5. Rules(m + 2)
  <2>1. ASSUME NEW k \in 1..((m + 2) - 1)
        PROVE  /\ Type(k) \in Redirections => k + 1 < m + 2 /\ Type(k + 1) = "word"
               /\ Type(k) = "pipe" => k < Len(tokens) /\ Type(k + 1) = "word"
               /\ Type(k) = "background" => k = Len(tokens)
    <3>1. CASE k \in 1..(m - 1)
      <4>1. k + 1 < m => k + 1 < m + 2
        BY <1>1, <3>1
      <4> QED BY <1>3, <3>1, <4>1 DEF Rules
    <3>2. CASE k = m
      <4>1. k + 1 < m + 2
        BY <1>1, <3>2
      <4> QED BY <3>2, <4>1 DEF Redirections
    <3>3. CASE k = m + 1
      BY <3>3 DEF Redirections
    <3> QED BY <1>1, <3>1, <3>2, <3>3
  <2> QED BY <2>1, Zenon DEF Rules
<1>6. marked = (\E k \in 1..((m + 2) - 1) : Type(k) = "background")
  <2>1. 1..((m + 2) - 1) = 1..(m - 1) \cup {m, m + 1}
    BY <1>1
  <2>2. Type(m) # "background" /\ Type(m + 1) # "background"
    BY DEF Redirections
  <2>3. marked = (\E k \in 1..(m - 1) : Type(k) = "background")
    BY DEF SoFar
  <2>4. (\E k \in 1..(m - 1) : Type(k) = "background")
        <=> (\E k \in 1..((m + 2) - 1) : Type(k) = "background")
    BY <2>1, <2>2, Zenon
  <2> QED BY <2>3, <2>4
<1>7. ASSUME NEW s \in 1..Len(cs) PROVE Said(ds[s], s, m + 2)
  <2>1. Said(cs[s], s, m + 1)
    <3>1. m \notin ArgsOf(s) /\ m \notin NamesOf(s, Inputs) /\ m \notin NamesOf(s, Outputs)
      BY <1>3, Role DEF Redirections
    <3> QED BY <1>1, <1>3, <3>1, SaidQuiet
  <2>2. /\ m + 1 \notin ArgsOf(s)
        /\ \A types : m + 1 \in NamesOf(s, types) <=> Type(m) \in types /\ s = Len(cs)
    <3>1. IsName(m + 1)
      BY <1>1 DEF IsName
    <3> QED BY <1>1, <1>4, <3>1, TokensTyped DEF ArgsOf, NamesOf
  <2>3. CASE s # Len(cs)
    <3>1. ds[s] = cs[s] /\ m + 1 \notin NamesOf(s, Inputs) /\ m + 1 \notin NamesOf(s, Outputs)
      BY <1>2, <2>2, <2>3
    <3>2. Said(cs[s], s, (m + 1) + 1)
      BY <1>1, <2>1, <2>2, <3>1, SaidQuiet
    <3> QED BY <1>1, <3>1, <3>2
  <2>4. CASE s = Len(cs)
    <3>1. ds[s] = d /\ cs[s] = c
      BY <1>1, <1>2, <2>4
    <3>2. \A types : \A k \in NamesTo(s, types, m + 1) : tokens[k].text # <<>>
      BY TokensTyped DEF NamesTo, NamesOf
    <3>3. CASE Type(m) = "in"
      <4>1. m + 1 \in NamesOf(s, Inputs) /\ m + 1 \notin NamesOf(s, Outputs)
        BY <2>2, <2>4, <3>3 DEF Inputs, Outputs
      <4>2. NamesTo(s, Inputs, m + 1) = {}
        BY <2>1, <3>1, <3>2, <3>3 DEF Said
      <4>3. Outputs = IF Inputs = Inputs THEN Outputs ELSE Inputs
        OBVIOUS
      <4>4. Inputs # Outputs
        BY DEF Inputs, Outputs
      <4>5. Said(d, s, (m + 1) + 1)
        BY <1>1, <2>1, <2>2, <3>1, <3>3, <4>1, <4>2, <4>3, <4>4, SaidName
      <4> QED BY <1>1, <3>1, <4>5
    <3>4. CASE Type(m) # "in"
      <4>1. m + 1 \in NamesOf(s, Outputs) /\ m + 1 \notin NamesOf(s, Inputs)
        BY <2>2, <2>4, <3>4 DEF Inputs, Outputs, Redirections
      <4>2. NamesTo(s, Outputs, m + 1) = {}
        BY <2>1, <3>1, <3>2, <3>4 DEF Said
      <4>3. Inputs # Outputs
        BY DEF Inputs, Outputs
      <4>4. Inputs = IF Outputs = Inputs THEN Outputs ELSE Inputs
        BY <4>3
      <4>5. Said(d, s, (m + 1) + 1)
        BY <1>1, <2>1, <2>2, <3>1, <3>4, <4>1, <4>2, <4>3, <4>4, SaidName
      <4> QED BY <1>1, <3>1, <4>5
    <3> QED BY <3>3, <3>4
  <2> QED BY <2>3, <2>4
<1>8. ASSUME NEW s \in 1..(Len(cs) - 1) PROVE ds[s].args # <<>>
  <2>1. s \in 1..Len(cs) /\ s # Len(cs)
    <3> HIDE DEF ds
    <3> QED BY <1>1
  <2>2. ds[s] = cs[s]
    BY <1>2, <2>1
  <2> QED BY <2>2 DEF SoFar
<1> HIDE DEF ds
<1>9. SoFar(m + 2, ds, marked)
  BY <1>2, <1>4, <1>5, <1>6, <1>7, <1>8 DEF SoFar
<1> QED BY <1>9 DEF ds

(* One turn for an &, which must be the last token.                         *)
LEMMA BackgroundTurn ==
    ASSUME TypeOK, NEW m \in 1..Len(tokens), NEW cs \in Seq(Command),
           NEW marked, SoFar(m, cs, marked), Type(m) = "background", m = Len(tokens)
    PROVE  SoFar(m + 1, cs, TRUE)
<1>1. m \in 1..(Len(tokens) + 1) /\ m <= Len(tokens)
  BY TokensTyped
<1>2. Rules(m) /\ Stage(m) = Len(cs)
  BY DEF SoFar
<1>3. Stage(m + 1) = Len(cs)
  BY <1>1, <1>2, StageIs
<1>4. Rules(m + 1)
  BY <1>2, RulesGrow DEF Redirections
<1>5. TRUE = (\E k \in 1..((m + 1) - 1) : Type(k) = "background")
  BY MarkGrows
<1>6. ASSUME NEW s \in 1..Len(cs) PROVE Said(cs[s], s, m + 1)
  <2>1. m \notin ArgsOf(s) /\ m \notin NamesOf(s, Inputs) /\ m \notin NamesOf(s, Outputs)
    BY <1>2, Role
  <2> QED BY <1>1, <2>1, SaidQuiet DEF SoFar
<1>7. \A s \in 1..(Len(cs) - 1) : cs[s].args # <<>>
  BY DEF SoFar
<1> QED BY <1>3, <1>4, <1>5, <1>6, <1>7 DEF SoFar

(* One turn for a |, which ends a command with arguments.                   *)
LEMMA BarTurn ==
    ASSUME TypeOK, NEW m \in 1..Len(tokens), NEW cs \in Seq(Command), cs # <<>>,
           NEW marked, SoFar(m, cs, marked), Type(m) = "pipe",
           m < Len(tokens), Type(m + 1) = "word", cs[Len(cs)].args # <<>>
    PROVE  SoFar(m + 1, Append(cs, NewCommand), marked)
<1> DEFINE ds == Append(cs, NewCommand)
<1>1. /\ Len(cs) \in Nat \ {0} /\ Len(cs) \in 1..Len(cs)
      /\ m \in 1..(Len(tokens) + 1) /\ m <= Len(tokens) /\ m \in Nat
  BY EmptySeq, LenProperties, TokensTyped
<1>2. /\ Len(ds) = Len(cs) + 1 /\ ds[Len(cs) + 1] = NewCommand
      /\ \A s \in 1..Len(cs) : ds[s] = cs[s]
  <2>1. <<>> \in Text /\ <<>> \in Seq(Text \cup Seq(Statuses))
    BY EmptySeq DEF Text
  <2>2. NewCommand \in Command
    BY <2>1 DEF NewCommand, Command
  <2> QED BY <2>2, AppendProperties
<1>3. Rules(m) /\ Stage(m) = Len(cs)
  BY DEF SoFar
<1>4. Stage(m + 1) = Len(cs) + 1
  BY <1>1, <1>3, StageIs
<1>5. Rules(m + 1)
  BY <1>3, RulesGrow DEF Redirections
<1>6. marked = (\E k \in 1..((m + 1) - 1) : Type(k) = "background")
  BY MarkGrows DEF SoFar
<1>7. ASSUME NEW s \in 1..Len(cs) PROVE Said(ds[s], s, m + 1)
  <2>1. m \notin ArgsOf(s) /\ m \notin NamesOf(s, Inputs) /\ m \notin NamesOf(s, Outputs)
    BY <1>3, Role
  <2>2. Said(cs[s], s, m + 1)
    BY <1>1, <2>1, SaidQuiet DEF SoFar
  <2> QED BY <1>2, <2>2
<1>8. Said(NewCommand, Len(cs) + 1, m + 1)
  <2> DEFINE s == Len(cs) + 1
  <2>1. \A k \in 1..m : Stage(k) # s
    <3>1. \A k \in 1..m : Stage(k) <= Len(cs) /\ Stage(k) \in Nat
      <4> TAKE k \in 1..m
      <4>1. k \in 1..(Len(tokens) + 1)
        BY <1>1, TokensTyped
      <4> QED BY <1>1, <1>3, <4>1, StageIs
    <3> QED BY <1>1, <3>1
  <2>2. ArgsTo(s, m + 1) = {} /\ \A types : NamesTo(s, types, m + 1) = {}
    <3>1. \A k \in DOMAIN tokens : k < m + 1 => k \in 1..m
      BY <1>1, TokensTyped
    <3> QED BY <2>1, <3>1, Zenon DEF ArgsTo, NamesTo, ArgsOf, NamesOf
  <2>3. Cardinality({}) = 0 /\ Len(<<>>) = 0
    BY FS_EmptySet, EmptySeq
  <2>4. /\ NewCommand.args = <<>> /\ NewCommand.input = <<>>
        /\ NewCommand.output = <<>> /\ NewCommand.append = FALSE
    BY DEF NewCommand
  <2>5. 0 <= 1
    OBVIOUS
  <2> HIDE DEF s
  <2>6. Said(NewCommand, s, m + 1)
    BY <2>2, <2>3, <2>4, <2>5, Zenon DEF Said
  <2> QED BY <2>6 DEF s
<1>9. ASSUME NEW s \in 1..((Len(cs) + 1) - 1) PROVE ds[s].args # <<>>
  <2>1. s \in 1..Len(cs) /\ ds[s] = cs[s]
    BY <1>1, <1>2
  <2>2. CASE s = Len(cs)
    BY <2>1, <2>2
  <2>3. CASE s \in 1..(Len(cs) - 1)
    BY <2>1, <2>3 DEF SoFar
  <2> QED BY <1>1, <2>1, <2>2, <2>3
<1> HIDE DEF ds
<1>10. ASSUME NEW s \in 1..(Len(cs) + 1) PROVE Said(ds[s], s, m + 1)
  BY <1>1, <1>2, <1>7, <1>8
<1>11. SoFar(m + 1, ds, marked)
  BY <1>2, <1>4, <1>5, <1>6, <1>9, <1>10 DEF SoFar
<1> QED BY <1>11 DEF ds

-----------------------------------------------------------------------------
(* What build_command refuses is not in the grammar.                        *)

(* The command that a token belongs to is one of those of the line.         *)
LEMMA StageListed ==
    ASSUME TypeOK, NEW m \in 1..(Len(tokens) + 1)
    PROVE  Stage(m) \in Stages
<1>1. Len(tokens) + 1 \in 1..(Len(tokens) + 1)
  BY TokensTyped
<1>2. Stage(m) <= Stage(Len(tokens) + 1) /\ Stages = 1..Stage(Len(tokens) + 1)
  BY <1>1, StageIs
<1>3. Stage(m) \in Nat \ {0} /\ Stage(Len(tokens) + 1) \in Nat \ {0}
  BY <1>1, StageIs
<1> QED BY <1>2, <1>3

(* A word for which argv has no room.                                       *)
LEMMA TooManyArgs ==
    ASSUME TypeOK, NEW m \in 1..Len(tokens), NEW cs \in Seq(Command), cs # <<>>,
           NEW marked, SoFar(m, cs, marked), Type(m) = "word",
           Len(cs[Len(cs)].args) >= MaxArgs - 1
    PROVE  ~ WellFormed
<1> DEFINE s == Len(cs)
<1>1. s \in 1..Len(cs) /\ m \in 1..(Len(tokens) + 1)
  BY EmptySeq, LenProperties, TokensTyped
<1>2. Rules(m) /\ Stage(m) = s /\ Said(cs[s], s, m)
  BY <1>1 DEF SoFar
<1>3. m \in ArgsOf(s)
  BY <1>2, Role
<1>4. /\ ArgsTo(s, m + 1) = ArgsTo(s, m) \cup {m} /\ m \notin ArgsTo(s, m)
      /\ IsFiniteSet(ArgsTo(s, m)) /\ IsFiniteSet(ArgsOf(s))
  BY <1>1, <1>3, WordsTo
<1>5. Cardinality(ArgsTo(s, m + 1)) = Cardinality(ArgsTo(s, m)) + 1
  BY <1>4, FS_AddElement
<1>6. Cardinality(ArgsTo(s, m + 1)) <= Cardinality(ArgsOf(s))
  <2>1. ArgsTo(s, m + 1) \subseteq ArgsOf(s)
    BY DEF ArgsTo
  <2> QED BY <1>4, <2>1, FS_Subset
<1>7. /\ Cardinality(ArgsTo(s, m)) = Len(cs[s].args) /\ Cardinality(ArgsTo(s, m)) \in Nat
      /\ Cardinality(ArgsOf(s)) \in Nat
  BY <1>2, <1>4, FS_CardinalityType DEF Said
<1>8. Cardinality(ArgsOf(s)) \notin 1..(MaxArgs - 1)
  <2>1. Cardinality(ArgsOf(s)) >= MaxArgs
    BY <1>5, <1>6, <1>7, ParserAssumption
  <2> QED BY <1>7, <2>1, ParserAssumption
<1>9. s \in Stages
  BY <1>1, <1>2, StageListed
<1> QED BY <1>8, <1>9 DEF WellFormed

(* A redirection without a word behind it, or of what is redirected.        *)
LEMMA BadRedirect ==
    ASSUME TypeOK, NEW m \in 1..Len(tokens), NEW cs \in Seq(Command), cs # <<>>,
           NEW marked, SoFar(m, cs, marked), Type(m) \in Redirections,
           NEW c, c = cs[Len(cs)],
           \/ ~ (m < Len(tokens) /\ Type(m + 1) = "word")
           \/ Type(m) = "in" /\ c.input # <<>>
           \/ Type(m) # "in" /\ c.output # <<>>
    PROVE  ~ WellFormed
<1>1. CASE ~ (m < Len(tokens) /\ Type(m + 1) = "word")
  BY <1>1, TokensTyped DEF WellFormed
<1>2. CASE m < Len(tokens) /\ Type(m + 1) = "word"
  <2> DEFINE s == Len(cs)
  <2>1. /\ s \in 1..Len(cs) /\ m \in 1..(Len(tokens) + 1) /\ m \in Nat /\ m <= Len(tokens)
        /\ m + 1 \in DOMAIN tokens /\ (m + 1) - 1 = m /\ m + 1 > 1 /\ ~ m + 1 < m
    BY <1>2, EmptySeq, LenProperties, TokensTyped
  <2>2. Stage(m) = s /\ Said(c, s, m)
    BY <2>1 DEF SoFar
  <2>3. Stage(m + 1) = s
    BY <2>1, <2>2, StageIs DEF Redirections
  <2>4. IsName(m + 1)
    BY <1>2, <2>1 DEF IsName
  <2>5. s \in Stages
    BY <2>1, <2>2, StageListed
  <2> HIDE DEF s
  <2>6. ASSUME NEW types, Type(m) \in types, NamesTo(s, types, m) # {}
        PROVE  ~ Cardinality(NamesOf(s, types)) <= 1
    <3>1. PICK k : k \in NamesTo(s, types, m)
      BY <2>6
    <3>2. k \in NamesOf(s, types) /\ m + 1 \in NamesOf(s, types) /\ k # m + 1
      BY <2>1, <2>3, <2>4, <2>6, <3>1 DEF NamesTo, NamesOf
    <3>3. IsFiniteSet(NamesOf(s, types)) /\ IsFiniteSet({k})
      BY <2>1, WordsTo, FS_Singleton
    <3>4. Cardinality({k} \cup {m + 1}) = 2
      <4>1. Cardinality({k}) = 1 /\ m + 1 \notin {k}
        BY <3>2, FS_Singleton
      <4>2. Cardinality({k} \cup {m + 1}) = Cardinality({k}) + 1
        BY <3>3, <4>1, FS_AddElement
      <4>3. 1 + 1 = 2
        OBVIOUS
      <4> QED BY <4>1, <4>2, <4>3, Zenon
    <3>5. {k} \cup {m + 1} \subseteq NamesOf(s, types)
      BY <3>2
    <3>6. Cardinality({k} \cup {m + 1}) <= Cardinality(NamesOf(s, types))
      BY <3>3, <3>5, FS_Subset
    <3>7. Cardinality(NamesOf(s, types)) \in Nat
      BY <3>3, FS_CardinalityType
    <3> QED BY <3>4, <3>6, <3>7
  <2>7. CASE Type(m) = "in" /\ c.input # <<>>
    <3>1. NamesTo(s, {"in"}, m) # {}
      BY <2>2, <2>7 DEF Said, Inputs
    <3>2. ~ Cardinality(NamesOf(s, {"in"})) <= 1
      BY <2>6, <2>7, <3>1
    <3> QED BY <2>5, <3>2, Zenon DEF WellFormed
  <2>8. CASE Type(m) # "in" /\ c.output # <<>>
    <3>1. NamesTo(s, {"out", "append"}, m) # {}
      BY <2>2, <2>8 DEF Said, Outputs
    <3>2. Type(m) \in {"out", "append"}
      BY <2>8 DEF Redirections
    <3>3. ~ Cardinality(NamesOf(s, {"out", "append"})) <= 1
      BY <2>6, <3>1, <3>2
    <3> QED BY <2>5, <3>3, Zenon DEF WellFormed
  <2> QED BY <1>2, <2>7, <2>8
<1> QED BY <1>1, <1>2

(* An & that is not the last token, or is not the first of its kind.        *)
LEMMA BadBackground ==
    ASSUME TypeOK, NEW m \in 1..Len(tokens), NEW cs,
           NEW marked, SoFar(m, cs, marked), Type(m) = "background",
           ~ (m = Len(tokens) /\ ~ marked)
    PROVE  ~ WellFormed
<1>1. CASE m # Len(tokens)
  BY <1>1, TokensTyped DEF WellFormed
<1>2. CASE m = Len(tokens) /\ marked
  <2>1. PICK k \in 1..(m - 1) : Type(k) = "background"
    BY <1>2 DEF SoFar
  <2>2. k = Len(tokens)
    BY <2>1 DEF SoFar, Rules
  <2> QED BY <1>2, <2>1, <2>2, TokensTyped
<1> QED BY <1>1, <1>2

(* A | behind no argument, or in front of no word.                          *)
LEMMA BadBar ==
    ASSUME TypeOK, NEW m \in 1..Len(tokens), NEW cs \in Seq(Command), cs # <<>>,
           NEW marked, SoFar(m, cs, marked), Type(m) = "pipe",
           ~ (cs[Len(cs)].args # <<>> /\ m < Len(tokens) /\ Type(m + 1) = "word")
    PROVE  ~ WellFormed
<1>1. CASE ~ (m < Len(tokens) /\ Type(m + 1) = "word")
  BY <1>1, TokensTyped DEF WellFormed
<1>2. CASE cs[Len(cs)].args = <<>>
  <2> DEFINE s == Len(cs)
  <2>1. /\ s \in 1..Len(cs) /\ m \in 1..(Len(tokens) + 1) /\ m \in Nat /\ m <= Len(tokens)
        /\ s \in Nat /\ Len(tokens) \in Nat /\ DOMAIN tokens = 1..Len(tokens)
    BY EmptySeq, LenProperties, TokensTyped
  <2>2. Stage(m) = s /\ Said(cs[s], s, m)
    BY <2>1 DEF SoFar
  <2>3. Stage(m + 1) = s + 1 /\ m + 1 \in 1..(Len(tokens) + 1)
    BY <2>1, <2>2, StageIs
  <2>4. s \in Stages
    BY <2>1, <2>2, StageListed
  <2>5. ArgsTo(s, m) = {}
    <3>1. Cardinality(ArgsTo(s, m)) = 0
      BY <1>2, <2>2, EmptySeq DEF Said
    <3>2. IsFiniteSet(ArgsTo(s, m))
      BY <2>1, WordsTo
    <3> QED BY <3>1, <3>2, FS_EmptySet
  <2>6. ASSUME NEW k \in ArgsOf(s) PROVE FALSE
    <3>1. k \in 1..Len(tokens) /\ Type(k) = "word" /\ Stage(k) = s
      BY <2>1, <2>6 DEF ArgsOf
    <3>2. ~ k < m
      BY <2>5 DEF ArgsTo
    <3>3. k # m
      BY <3>1
    <3>4. m + 1 \in 1..k /\ k \in 1..(Len(tokens) + 1)
      BY <2>1, <3>1, <3>2, <3>3
    <3>5. Stage(m + 1) <= Stage(k)
      BY <3>4, StageIs
    <3> QED BY <2>1, <2>3, <3>1, <3>5
  <2>7. Cardinality(ArgsOf(s)) = 0
    <3>1. ArgsOf(s) = {}
      BY <2>6
    <3> QED BY <3>1, FS_EmptySet
  <2>8. Cardinality(ArgsOf(s)) \notin 1..(MaxArgs - 1)
    BY <2>7, ParserAssumption
  <2> QED BY <2>4, <2>8 DEF WellFormed
<1> QED BY <1>1, <1>2

(* Behind the last token the commands are what the line denotes, and only   *)
(* a command without arguments can be wrong.                                *)
LEMMA AtEnd ==
    ASSUME TypeOK, tokens # <<>>, NEW cs \in Seq(Command), NEW marked,
           SoFar(Len(tokens) + 1, cs, marked),
           \A s \in DOMAIN cs : Len(cs[s].args) < MaxArgs
    PROVE  /\ WellFormed <=> \A s \in DOMAIN cs : cs[s].args # <<>>
           /\ Len(cs) = Cardinality(Stages)
           /\ \A s \in Stages : Denotes(cs[s], s)
           /\ marked = (Type(Len(tokens)) = "background")
<1>1. /\ Len(tokens) \in Nat \ {0} /\ Len(tokens) + 1 \in 1..(Len(tokens) + 1)
      /\ (Len(tokens) + 1) - 1 = Len(tokens) /\ DOMAIN tokens = 1..Len(tokens)
      /\ DOMAIN cs = 1..Len(cs) /\ Len(tokens) \in 1..Len(tokens)
  <2>1. Len(tokens) # 0
    BY EmptySeq DEF TypeOK
  <2> QED BY <2>1, LenProperties, TokensTyped
<1>2. Rules(Len(tokens) + 1) /\ Stage(Len(tokens) + 1) = Len(cs)
  BY DEF SoFar
<1>3. Stages = 1..Len(cs) /\ Len(cs) = Cardinality(Stages)
  BY <1>1, <1>2, StageIs
<1>4. ASSUME NEW s \in 1..Len(cs)
      PROVE  /\ Denotes(cs[s], s) /\ Len(cs[s].args) = Cardinality(ArgsOf(s))
             /\ Cardinality(NamesOf(s, {"in"})) <= 1
             /\ Cardinality(NamesOf(s, {"out", "append"})) <= 1
  <2>1. Said(cs[s], s, Len(tokens) + 1)
    BY DEF SoFar
  <2>2. /\ ArgsTo(s, Len(tokens) + 1) = ArgsOf(s)
        /\ NamesTo(s, Inputs, Len(tokens) + 1) = NamesOf(s, {"in"})
        /\ NamesTo(s, Outputs, Len(tokens) + 1) = NamesOf(s, {"out", "append"})
    BY <1>1, WordsTo DEF Inputs, Outputs
  <2>3. /\ Len(cs[s].args) = Cardinality(ArgsOf(s))
        /\ \A k \in ArgsOf(s) :
              cs[s].args[Cardinality({q \in ArgsOf(s) : q <= k})] = Expanded(tokens[k].text)
        /\ Cardinality(NamesOf(s, {"in"})) <= 1
        /\ Cardinality(NamesOf(s, {"out", "append"})) <= 1
        /\ NamesOf(s, {"in"}) = {} => cs[s].input = <<>>
        /\ \A k \in NamesOf(s, {"in"}) : cs[s].input = tokens[k].text
        /\ NamesOf(s, {"out", "append"}) = {} => cs[s].output = <<>> /\ ~ cs[s].append
        /\ \A k \in NamesOf(s, {"out", "append"}) :
              cs[s].output = tokens[k].text /\ cs[s].append = (Type(k - 1) = "append")
    BY <2>1, <2>2, Zenon DEF Said
  <2> QED BY <2>3, Zenon DEF Denotes
<1>5. \A k \in DOMAIN tokens :
         /\ Type(k) \in Redirections \cup {"pipe"} => k < Len(tokens) /\ Type(k + 1) = "word"
         /\ Type(k) = "background" => k = Len(tokens)
  <2> TAKE k \in DOMAIN tokens
  <2>1. k \in 1..((Len(tokens) + 1) - 1)
    BY <1>1
  <2>2. k + 1 < Len(tokens) + 1 => k < Len(tokens)
    BY <1>1
  <2> QED BY <1>2, <2>1, <2>2 DEF Rules
<1>6. WellFormed <=> \A s \in DOMAIN cs : cs[s].args # <<>>
  <2>1. ASSUME NEW s \in 1..Len(cs)
        PROVE  Cardinality(ArgsOf(s)) \in 1..(MaxArgs - 1) <=> cs[s].args # <<>>
    <3>1. cs[s].args \in Seq(Text \cup Seq(Statuses))
      <4>1. cs[s] \in Command
        BY ElementOfSeq
      <4> QED BY <4>1 DEF Command
    <3>2. Len(cs[s].args) \in Nat /\ (Len(cs[s].args) = 0 <=> cs[s].args = <<>>)
      BY <3>1, EmptySeq, LenProperties
    <3>3. Len(cs[s].args) < MaxArgs
      BY <1>1
    <3> QED BY <1>4, <3>2, <3>3, ParserAssumption
  <2>2. WellFormed <=> \A s \in 1..Len(cs) : Cardinality(ArgsOf(s)) \in 1..(MaxArgs - 1)
    BY <1>3, <1>4, <1>5, Zenon DEF WellFormed
  <2> QED BY <1>1, <2>1, <2>2
<1>7. marked = (Type(Len(tokens)) = "background")
  <2>1. marked = (\E k \in 1..((Len(tokens) + 1) - 1) : Type(k) = "background")
    BY DEF SoFar
  <2>2. (\E k \in 1..((Len(tokens) + 1) - 1) : Type(k) = "background")
        <=> Type(Len(tokens)) = "background"
    BY <1>1, <1>5
  <2> QED BY <2>1, <2>2
<1> QED BY <1>1, <1>3, <1>4, <1>6, <1>7

-----------------------------------------------------------------------------
(* The grammar looks at nothing but the tokens and the status before.       *)
LEMMA TokensOnly ==
    ASSUME UNCHANGED <<tokens, before>>
    PROVE  /\ WellFormed' <=> WellFormed
           /\ Stages' = Stages
           /\ \A c, s : Denotes(c, s)' <=> Denotes(c, s)
           /\ \A m, cs, marked : SoFar(m, cs, marked)' <=> SoFar(m, cs, marked)
<1>1. \A k : Type(k)' = Type(k) /\ Stage(k)' = Stage(k) /\ (IsName(k)' <=> IsName(k))
  <2>1. \A k : Type(k)' = Type(k)
    BY DEF Type
  <2> QED BY <2>1, Zenon DEF Stage, IsName
<1>2. \A s, types : ArgsOf(s)' = ArgsOf(s) /\ NamesOf(s, types)' = NamesOf(s, types)
  BY <1>1, Zenon DEF ArgsOf, NamesOf
<1>3. Stages' = Stages
  BY <1>1, Zenon DEF Stages
<1>4. WellFormed' <=> WellFormed
  BY <1>1, <1>2, <1>3, Zenon DEF WellFormed
<1>5. \A k : Expanded(tokens[k].text)' = Expanded(tokens[k].text)
  BY DEF Expanded
<1>6. ASSUME NEW c, NEW s PROVE Denotes(c, s)' <=> Denotes(c, s)
  <2>1. /\ ArgsOf(s)' = ArgsOf(s) /\ NamesOf(s, {"in"})' = NamesOf(s, {"in"})
        /\ NamesOf(s, {"out", "append"})' = NamesOf(s, {"out", "append"})
    BY <1>2
  <2> QED BY <1>1, <1>5, <2>1 DEF Denotes
<1>7. \A s, types, m : ArgsTo(s, m)' = ArgsTo(s, m) /\ NamesTo(s, types, m)' = NamesTo(s, types, m)
  BY <1>2, Zenon DEF ArgsTo, NamesTo
<1>8. ASSUME NEW c, NEW s, NEW m PROVE Said(c, s, m)' <=> Said(c, s, m)
  <2>1. /\ ArgsOf(s)' = ArgsOf(s) /\ ArgsTo(s, m)' = ArgsTo(s, m)
        /\ NamesTo(s, Inputs, m)' = NamesTo(s, Inputs, m)
        /\ NamesTo(s, Outputs, m)' = NamesTo(s, Outputs, m)
    BY <1>2, <1>7
  <2> QED BY <1>1, <1>5, <2>1 DEF Said
<1>9. \A m : Rules(m)' <=> Rules(m)
  BY <1>1, Zenon DEF Rules
<1>10. \A m, cs, marked : SoFar(m, cs, marked)' <=> SoFar(m, cs, marked)
  BY <1>1, <1>8, <1>9, Zenon DEF SoFar
<1> QED BY <1>3, <1>4, <1>6, <1>10

(* tokenize makes no empty text and leaves the status alone; build_command  *)
(* knows what the tokens it has taken mean.                                 *)
GrammarInv ==
    /\ \A k \in 1..Len(tokens) : tokens[k].text # <<>>
    /\ phase = "tokenize" => last = before /\ background = FALSE /\ i = 1
    /\ phase = "build" => tokens # <<>> /\ last = before /\ SoFar(i, commands, background)
    /\ ParsesGrammar

(* A turn that goes on.                                                     *)
LEMMA GoesOn ==
    ASSUME TypeOK, GrammarInv, phase = "build",
           UNCHANGED <<tokens, phase, last, before>>,
           NEW m, NEW cs, NEW marked, i' = m, commands' = cs, background' = marked,
           SoFar(m, cs, marked)
    PROVE  GrammarInv'
<1>1. SoFar(m, cs, marked)'
  BY TokensOnly
<1>2. SoFar(i, commands, background)'
  BY <1>1
<1> QED BY <1>2 DEF GrammarInv, ParsesGrammar

(* The two reasons have two statuses.                                       *)
LEMMA OneReason == ~ (Refuse /\ Fail)
BY ParserAssumption DEF Refuse, Fail

(* A turn that ends with a refusal, or for want of memory.                  *)
LEMMA GivesUp ==
    ASSUME TypeOK, GrammarInv, phase = "build", UNCHANGED <<tokens, before>>,
           Refuse \/ Fail, Refuse => ~ WellFormed
    PROVE  GrammarInv'
<1>1. WellFormed' <=> WellFormed
  BY TokensOnly
<1>2. phase' = "done" /\ result' = "null" /\ tokens' # <<>>
  BY DEF GrammarInv, Refuse, Fail, Returns
<1>3. ParsesGrammar'
  <2>1. CASE Fail
    BY <1>2, <2>1 DEF ParsesGrammar, OutOfMemory, Fail
  <2>2. CASE Refuse
    BY <1>1, <1>2, <2>2 DEF ParsesGrammar, Refuse
  <2> QED BY <2>1, <2>2
<1> QED BY <1>2, <1>3 DEF GrammarInv

(* What the commands say before the first token: one, of nothing.           *)
LEMMA FirstCommand ==
    ASSUME TypeOK PROVE SoFar(1, <<NewCommand>>, FALSE)
<1> DEFINE cs == <<NewCommand>>
<1>1. Len(cs) = 1 /\ cs[1] = NewCommand /\ 1..(1 - 1) = {} /\ 1..1 = {1}
  OBVIOUS
<1>2. 1 \in 1..(Len(tokens) + 1)
  BY TokensTyped
<1>3. Stage(1) = 1
  BY <1>2, StageIs
<1>4. Said(NewCommand, 1, 1)
  <2>1. ArgsTo(1, 1) = {} /\ \A types : NamesTo(1, types, 1) = {}
    <3>1. \A k \in DOMAIN tokens : ~ k < 1
      BY TokensTyped
    <3> QED BY <3>1, Zenon DEF ArgsTo, NamesTo, ArgsOf, NamesOf
  <2>2. Cardinality({}) = 0 /\ Len(<<>>) = 0
    BY FS_EmptySet, EmptySeq
  <2>3. /\ NewCommand.args = <<>> /\ NewCommand.input = <<>>
        /\ NewCommand.output = <<>> /\ NewCommand.append = FALSE
    BY DEF NewCommand
  <2>4. 0 <= 1
    OBVIOUS
  <2> QED BY <2>1, <2>2, <2>3, <2>4, Zenon DEF Said
<1>5. Rules(1)
  BY <1>1, Zenon DEF Rules
<1> HIDE DEF cs
<1>6. SoFar(1, cs, FALSE)
  <2>1. \A s \in 1..Len(cs) : Said(cs[s], s, 1)
    BY <1>1, <1>4
  <2>2. \A s \in 1..(Len(cs) - 1) : cs[s].args # <<>>
    BY <1>1
  <2>3. FALSE = (\E k \in 1..(1 - 1) : Type(k) = "background")
    BY <1>1
  <2> QED BY <1>1, <1>3, <1>5, <2>1, <2>2, <2>3 DEF SoFar
<1> QED BY <1>6 DEF cs

(* tokenize makes no empty token, and begins build_command with a command   *)
(* unless the line is blank.                                                *)
LEMMA TokenizeParses ==
    ASSUME TypeOK, GrammarInv, SkipBlank \/ PushToken \/ EndOfLine PROVE GrammarInv'
<1>1. phase = "tokenize" /\ last = before /\ background = FALSE /\ i = 1
  BY DEF GrammarInv, SkipBlank, PushToken, EndOfLine
<1>2. CASE SkipBlank
  BY <1>1, <1>2 DEF SkipBlank, GrammarInv, ParsesGrammar
<1>3. CASE PushToken
  <2> DEFINE t == TokenAt(pos)
  <2>1. pos \in 1..Len(line) /\ line[pos] # Blank
    BY <1>3 DEF PushToken, TypeOK
  <2>2. t \in Token /\ t.text # <<>>
    <3>1. t \in Token /\ Len(t.text) \in 1..(Len(line) + 1 - pos)
      BY <2>1, TokensAre
    <3>2. Len(t.text) # 0
      BY <3>1
    <3> QED BY <3>1, <3>2, EmptySeq
  <2> HIDE DEF t
  <2>3. CASE /\ tokens' = Append(tokens, t) /\ phase' = "tokenize"
             /\ UNCHANGED <<i, background, before, last>>
    <3>1. tokens \in Seq(Token) /\ Len(tokens) \in Nat
      BY LenProperties DEF TypeOK
    <3>2. /\ Len(tokens') = Len(tokens) + 1 /\ tokens'[Len(tokens) + 1] = t
          /\ \A k \in 1..Len(tokens) : tokens'[k] = tokens[k]
      BY <2>2, <2>3, <3>1, AppendProperties
    <3>3. \A k \in 1..Len(tokens') : tokens'[k].text # <<>>
      <4>1. 1..Len(tokens') = 1..Len(tokens) \cup {Len(tokens) + 1}
        BY <3>1, <3>2
      <4> QED BY <2>2, <3>2, <4>1 DEF GrammarInv
    <3> QED BY <1>1, <2>3, <3>3 DEF GrammarInv, ParsesGrammar
  <2>4. CASE Refuse /\ UNCHANGED <<line, pos, tokens>>
    <3>1. ~ pos' > Len(line') /\ phase' = "done"
      BY <2>1, <2>4 DEF Refuse, Returns
    <3> QED BY <2>4, <3>1 DEF GrammarInv, ParsesGrammar
  <2> QED BY <1>1, <1>3, <2>3, <2>4 DEF PushToken, t
<1>4. CASE EndOfLine
  <2>1. UNCHANGED <<line, pos, tokens, i, background, before>>
    BY <1>4 DEF EndOfLine
  <2>2. CASE tokens = <<>> /\ Returns("null") /\ UNCHANGED <<commands, last>>
    BY <1>1, <2>1, <2>2 DEF Returns, GrammarInv, ParsesGrammar
  <2>3. CASE /\ tokens # <<>> /\ phase' = "build" /\ commands' = <<NewCommand>>
             /\ UNCHANGED <<last, result>>
    <3>1. SoFar(1, <<NewCommand>>, FALSE)'
      BY <2>1, FirstCommand, TokensOnly
    <3>2. SoFar(i, commands, background)'
      BY <1>1, <2>1, <2>3, <3>1
    <3> QED BY <1>1, <2>1, <2>3, <3>2 DEF GrammarInv, ParsesGrammar
  <2>4. CASE Fail
    BY <2>1, <2>4 DEF Fail, Returns, GrammarInv, ParsesGrammar, OutOfMemory
  <2> QED BY <1>4, <2>2, <2>3, <2>4 DEF EndOfLine
<1> QED BY <1>2, <1>3, <1>4

(* One turn of the loop of build_command.                                   *)
LEMMA BuildParses ==
    ASSUME IInv, GrammarInv,
           \/ AddWord \/ SetBackground \/ StartNext
           \/ \E type \in {"in", "out", "append"} : AddRedirect(type)
    PROVE  GrammarInv'
<1>1. /\ phase = "build" /\ i \in 1..Len(tokens) /\ TypeOK
      /\ UNCHANGED <<line, pos, tokens, before>>
  BY DEF IInv, TypeOK, AddWord, SetBackground, StartNext, AddRedirect, Turn
<1>2. /\ commands \in Seq(Command) /\ commands # <<>> /\ last = before /\ tokens # <<>>
      /\ SoFar(i, commands, background) /\ Current \in Command
      /\ \A k \in 1..Len(tokens) : tokens[k].text # <<>>
  BY <1>1, CurrentTyped DEF IInv, TypeOK, GrammarInv
<1>3. /\ i + 1 \in Nat /\ i + 2 \in Nat /\ \A k : Type(k) = tokens[k].type
      /\ WordFollows <=> i < Len(tokens) /\ Type(i + 1) = "word"
  BY <1>1, TokensTyped DEF Type, WordFollows
<1>4. CASE AddWord
  <2>1. Type(i) = "word"
    BY <1>3, <1>4 DEF AddWord, Turn
  <2>2. CASE /\ SetCurrent([Current EXCEPT !.args = Append(@, Expanded(tokens[i].text))])
             /\ i' = i + 1 /\ UNCHANGED <<phase, last, background>>
    <3> DEFINE word == Expanded(tokens[i].text)
               d == [Current EXCEPT !.args = Append(Current.args, word)]
    <3>1. /\ d \in Command /\ d.args = Append(Current.args, word)
          /\ d.input = Current.input /\ d.output = Current.output
          /\ d.append = Current.append
      <4>1. word \in Text \cup Seq(Statuses)
        <5>1. <<before>> \in Seq(Statuses)
          BY <1>1 DEF TypeOK
        <5> QED BY <1>1, <5>1, TokensTyped DEF Expanded
      <4> HIDE DEF word
      <4>2. Append(Current.args, word) \in Seq(Text \cup Seq(Statuses))
        BY <1>2, <4>1, AppendProperties DEF Command
      <4> QED BY <1>2, <4>2 DEF Command
    <3>2. commands' = [commands EXCEPT ![Len(commands)] = d]
      BY <2>2 DEF SetCurrent
    <3> HIDE DEF d
    <3>3. SoFar(i + 1, [commands EXCEPT ![Len(commands)] = d], background)
      BY <1>1, <1>2, <2>1, <3>1, WordTurn DEF Current
    <3> QED BY <1>1, <2>2, <3>2, <3>3, GoesOn
  <2>3. CASE Refuse /\ Len(Current.args) >= MaxArgs - 1
    <3>1. ~ WellFormed
      BY <1>1, <1>2, <2>1, <2>3, TooManyArgs DEF Current
    <3> QED BY <1>1, <2>3, <3>1, GivesUp
  <2>4. CASE Fail
    BY <1>1, <2>4, OneReason, GivesUp
  <2> QED BY <1>4, <2>2, <2>3, <2>4 DEF AddWord
<1>5. CASE SetBackground
  <2>1. Type(i) = "background"
    BY <1>3, <1>5 DEF SetBackground, Turn
  <2>2. CASE /\ i = Len(tokens) /\ ~ background /\ background' = TRUE /\ i' = i + 1
             /\ UNCHANGED <<phase, commands, last>>
    <3>1. SoFar(i + 1, commands, TRUE)
      BY <1>1, <1>2, <2>1, <2>2, BackgroundTurn
    <3> QED BY <1>1, <2>2, <3>1, GoesOn
  <2>3. CASE Refuse /\ ~ (i = Len(tokens) /\ ~ background)
    <3>1. ~ WellFormed
      BY <1>1, <1>2, <2>1, <2>3, BadBackground
    <3> QED BY <1>1, <2>3, <3>1, GivesUp
  <2> QED BY <1>5, <2>2, <2>3 DEF SetBackground
<1>6. CASE StartNext
  <2>1. Type(i) = "pipe"
    BY <1>3, <1>6 DEF StartNext, Turn
  <2>2. CASE /\ PipeAllowed /\ commands' = Append(commands, NewCommand) /\ i' = i + 1
             /\ UNCHANGED <<phase, last, background>>
    <3>1. SoFar(i + 1, Append(commands, NewCommand), background)
      BY <1>1, <1>2, <1>3, <2>1, <2>2, BarTurn DEF PipeAllowed, Current
    <3> QED BY <1>1, <2>2, <3>1, GoesOn
  <2>3. CASE Refuse /\ ~ PipeAllowed
    <3>1. ~ WellFormed
      BY <1>1, <1>2, <1>3, <2>1, <2>3, BadBar DEF PipeAllowed, Current
    <3> QED BY <1>1, <2>3, <3>1, GivesUp
  <2>4. CASE Fail
    BY <1>1, <2>4, OneReason, GivesUp
  <2> QED BY <1>6, <2>2, <2>3, <2>4 DEF StartNext
<1>7. ASSUME NEW type \in {"in", "out", "append"}, AddRedirect(type) PROVE GrammarInv'
  <2>1. Type(i) = type /\ Type(i) \in Redirections
    BY <1>3, <1>7 DEF AddRedirect, Turn, Redirections
  <2>2. CASE /\ WordFollows /\ ~ Taken(type) /\ SetCurrent(Redirected(type))
             /\ i' = i + 2 /\ UNCHANGED <<phase, last, background>>
    <3> DEFINE d == Redirected(type)
    <3>1. tokens[i + 1].text \in Text
      BY <1>1, <1>3, <2>2, TokensTyped DEF WordFollows
    <3>2. /\ d \in Command /\ d.args = Current.args
          /\ type = "in" => /\ Current.input = <<>> /\ d.input = tokens[i + 1].text
                            /\ d.output = Current.output /\ d.append = Current.append
          /\ type # "in" => /\ Current.output = <<>> /\ d.output = tokens[i + 1].text
                            /\ d.append = (type = "append") /\ d.input = Current.input
      BY <1>2, <2>2, <3>1 DEF Redirected, Taken, Command
    <3>3. commands' = [commands EXCEPT ![Len(commands)] = d]
      BY <2>2 DEF SetCurrent
    <3> HIDE DEF d
    <3>4. SoFar(i + 2, [commands EXCEPT ![Len(commands)] = d], background)
      BY <1>1, <1>2, <1>3, <2>1, <2>2, <3>2, RedirectTurn DEF Current
    <3> QED BY <1>1, <2>2, <3>3, <3>4, GoesOn
  <2>3. CASE Refuse /\ (~ WordFollows \/ Taken(type))
    <3>1. \/ ~ (i < Len(tokens) /\ Type(i + 1) = "word")
          \/ Type(i) = "in" /\ Current.input # <<>>
          \/ Type(i) # "in" /\ Current.output # <<>>
      BY <1>3, <2>1, <2>3 DEF Taken
    <3>2. ~ WellFormed
      BY <1>1, <1>2, <2>1, <3>1, BadRedirect DEF Current
    <3> QED BY <1>1, <2>3, <3>2, GivesUp
  <2>4. CASE Fail
    BY <1>1, <2>4, OneReason, GivesUp
  <2> QED BY <1>7, <2>2, <2>3, <2>4 DEF AddRedirect
<1> QED BY <1>4, <1>5, <1>6, <1>7

(* The end of the tokens.                                                   *)
LEMMA FinishParses == ASSUME IInv, GrammarInv, Finish PROVE GrammarInv'
<1>1. /\ phase = "build" /\ TypeOK /\ i = Len(tokens) + 1
      /\ UNCHANGED <<line, pos, tokens, i, background, before>>
  <2>1. /\ phase = "build" /\ TypeOK /\ i > Len(tokens) /\ i \in 1..(Len(tokens) + 1)
        /\ UNCHANGED <<line, pos, tokens, i, background, before>>
    BY DEF Finish, IInv, TypeOK
  <2> QED BY <2>1, TokensTyped
<1>2. /\ tokens # <<>> /\ last = before /\ commands \in Seq(Command)
      /\ SoFar(Len(tokens) + 1, commands, background)
      /\ \A k \in DOMAIN commands : Len(commands[k].args) < MaxArgs
  BY <1>1 DEF GrammarInv, TypeOK
<1>3. /\ WellFormed <=> \A s \in DOMAIN commands : commands[s].args # <<>>
      /\ Len(commands) = Cardinality(Stages)
      /\ \A s \in Stages : Denotes(commands[s], s)
      /\ background = (Type(Len(tokens)) = "background")
  BY <1>1, <1>2, AtEnd
<1>4. CASE /\ \A k \in DOMAIN commands : commands[k].args # <<>>
           /\ Returns("list") /\ UNCHANGED <<commands, last>>
  <2>1. /\ WellFormed' /\ Stages' = Stages
        /\ \A s \in Stages : Denotes(commands[s], s)'
    BY <1>1, <1>3, <1>4, TokensOnly
  <2>2. Type(Len(tokens))' = Type(Len(tokens))
    BY <1>1 DEF Type
  <2>3. ParsesGrammar'
    BY <1>1, <1>2, <1>3, <1>4, <2>1, <2>2 DEF ParsesGrammar, Returns
  <2> QED BY <1>1, <1>4, <2>3 DEF GrammarInv, Returns
<1>5. CASE Refuse /\ \E k \in DOMAIN commands : commands[k].args = <<>>
  BY <1>1, <1>3, <1>5, GivesUp
<1> QED BY <1>4, <1>5 DEF Finish

(* The one pass of build_command accepts exactly the grammar and returns   *)
(* what the line denotes, for every line and all limits; a line it refuses *)
(* sets the status, a blank line does not (parser.c, build_command).       *)
THEOREM GrammarParsed == Spec => []ParsesGrammar
<1>1. Init => GrammarInv
  <2> SUFFICES ASSUME Init PROVE GrammarInv
    OBVIOUS
  <2>1. 1..Len(tokens) = {}
    BY EmptySeq DEF Init
  <2> QED BY <2>1 DEF Init, GrammarInv, ParsesGrammar
<1>2. IInv /\ GrammarInv /\ [Next]_vars => GrammarInv'
  <2> SUFFICES ASSUME IInv, GrammarInv, [Next]_vars PROVE GrammarInv'
    OBVIOUS
  <2>1. CASE UNCHANGED vars \/ Done
    <3>1. UNCHANGED vars
      BY <2>1 DEF Done
    <3>2. ParsesGrammar'
      <4>1. /\ WellFormed' <=> WellFormed
            /\ Stages' = Stages
            /\ \A c, s : Denotes(c, s)' <=> Denotes(c, s)
        BY <3>1, TokensOnly DEF vars
      <4>2. \A s \in Stages : Denotes(commands[s], s)' <=> Denotes(commands[s], s)
        BY <3>1, <4>1 DEF vars
      <4>3. Type(Len(tokens))' = Type(Len(tokens)) /\ (OutOfMemory' <=> OutOfMemory)
        BY <3>1 DEF vars, Type, OutOfMemory
      <4>4. ParsesGrammar
        BY DEF GrammarInv
      <4> QED BY <3>1, <4>1, <4>2, <4>3, <4>4 DEF vars, ParsesGrammar
    <3>3. phase = "build" => SoFar(i, commands, background)'
      BY <3>1, TokensOnly DEF vars, GrammarInv
    <3> QED BY <3>1, <3>2, <3>3 DEF vars, GrammarInv
  <2> QED BY <2>1, TokenizeParses, BuildParses, FinishParses DEF Next, IInv
<1>3. GrammarInv => ParsesGrammar
  BY DEF GrammarInv
<1> QED BY <1>1, <1>2, <1>3, Inductive, PTL DEF Spec
=============================================================================
