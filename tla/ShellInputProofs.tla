-------------------------- MODULE ShellInputProofs --------------------------
(***************************************************************************)
(* What the shell executes is exactly the short lines of its input, for    *)
(* inputs of any length, any size of the buffer and any set of letters.    *)
(***************************************************************************)
EXTENDS ShellInput, FiniteSetTheorems, SequenceTheorems, TLAPS

(* A piece of the input begins behind a newline or an interrupt.           *)
StartInv == \A j \in 1..(Len(events) + 1) : Start(j) \in 1..j

(* The number after the last of a set of places in the input.              *)
Behind(cuts) == IF cuts = {} THEN 1 ELSE 1 + (CHOOSE i \in cuts : \A k \in cuts : k <= i)
Cuts(in, m) == {i \in 1..m : in[i] \in {"nl", "int"}}

(* The buffer holds what was typed since then, unless that is too long.    *)
LineInv == running => IF discarding
                      THEN Len(Piece(Len(events) + 1)) >= Size
                      ELSE buffer = Piece(Len(events) + 1)

IInv == TypeOK /\ StartInv /\ LineInv /\ LinesAreSegments

Line == Seq(Bytes \ {"nl"})

-----------------------------------------------------------------------------
(* A line without its \r is a line.                                        *)
LEMMA TrimmedIs == ASSUME NEW line \in Line PROVE Trimmed(line) \in Line
<1>1. CASE line # <<>> /\ line[Len(line)] = "cr"
  <2>1. Len(line) \in Nat /\ \A i \in 1..(Len(line) - 1) : line[i] \in Bytes \ {"nl"}
    BY ElementOfSeq DEF Line
  <2>2. SubSeq(line, 1, Len(line) - 1) \in Seq(Bytes \ {"nl"})
    BY <2>1, SubSeqProperties
  <2> QED
    BY <1>1, <2>2 DEF Trimmed, Line
<1>2. CASE ~ (line # <<>> /\ line[Len(line)] = "cr")
  BY <1>2 DEF Trimmed
<1> QED
  BY <1>1, <1>2

(* The shell starts with an empty line and no input.                       *)
LEMMA Initially == Init => IInv
<1> SUFFICES ASSUME Init PROVE IInv
  OBVIOUS
<1>1. TypeOK
  <2>1. /\ <<>> \in Seq(Bytes \ {"nl"}) /\ <<>> \in Seq(Events)
        /\ <<>> \in Seq(Seq(Bytes \ {"nl"})) /\ Len(<<>>) < Size
    BY EmptySeq, InputAssumption
  <2>2. discarding \in BOOLEAN /\ running \in BOOLEAN /\ overlong \in BOOLEAN
    BY Zenon DEF Init
  <2> QED
    BY <2>1, <2>2 DEF Init, TypeOK, Status
<1>2. Len(events) = 0 /\ DOMAIN events = {}
  BY DEF Init
<1>3. Start(1) = 1
  BY <1>2 DEF Start
<1>4. Piece(1) = <<>>
  BY <1>3, SubSeqEmpty DEF Piece
<1>5. LineEnds = {}
  BY <1>2 DEF LineEnds
<1>6. LinesAreSegments
  BY <1>5, FS_EmptySet DEF Init, LinesAreSegments
<1> QED
  BY <1>1, <1>2, <1>3, <1>4, <1>6 DEF IInv, StartInv, LineInv, Init

(* What a piece is.                                                        *)
LEMMA PieceIs ==
    ASSUME TypeOK, StartInv, NEW j \in 1..(Len(events) + 1)
    PROVE  /\ Piece(j) \in Seq(Events)
           /\ Len(Piece(j)) = j - Start(j)
           /\ \A i \in 1..(j - Start(j)) : Piece(j)[i] = events[Start(j) + i - 1]
<1>1. Start(j) \in 1..j /\ Len(events) \in Nat
  BY LenProperties DEF StartInv, TypeOK
<1>2. \A i \in Start(j)..(j - 1) : events[i] \in Events
  BY <1>1, ElementOfSeq DEF TypeOK
<1>3. Start(j) \in Int /\ j - 1 \in Int /\ (j - 1) - Start(j) + 1 = j - Start(j)
  BY <1>1
<1>4. /\ SubSeq(events, Start(j), j - 1) \in Seq(Events)
      /\ Len(SubSeq(events, Start(j), j - 1)) =
             IF Start(j) <= j - 1 THEN (j - 1) - Start(j) + 1 ELSE 0
      /\ \A i \in 1..((j - 1) - Start(j) + 1) :
             SubSeq(events, Start(j), j - 1)[i] = events[Start(j) + i - 1]
  BY <1>2, <1>3, SubSeqProperties
<1> QED
  BY <1>1, <1>3, <1>4 DEF Piece

-----------------------------------------------------------------------------
(* A piece that begins behind a place begins behind the last one.          *)
LEMMA BehindIs ==
    ASSUME NEW cuts, cuts \subseteq Nat, NEW n \in cuts, \A k \in cuts : k <= n
    PROVE  Behind(cuts) = n + 1
<1>1. \A i \in cuts : (\A k \in cuts : k <= i) => i = n
  OBVIOUS
<1>2. (CHOOSE i \in cuts : \A k \in cuts : k <= i) = n
  BY <1>1
<1>3. Behind(cuts) = 1 + n
  BY <1>2, Zenon DEF Behind
<1> QED
  BY <1>3

(* Two sequences that agree between two places.                            *)
LEMMA SubSeqSame ==
    ASSUME NEW S, NEW s, NEW t, NEW a \in Int, NEW b \in Int,
           \A i \in a..b : s[i] \in S /\ t[i] = s[i]
    PROVE  SubSeq(t, a, b) = SubSeq(s, a, b)
<1> DEFINE m == IF a <= b THEN b - a + 1 ELSE 0
           x == SubSeq(s, a, b)
           y == SubSeq(t, a, b)
<1>0. \A i \in a..b : t[i] \in S
  OBVIOUS
<1>1. x \in Seq(S) /\ Len(x) = m /\ \A i \in 1..(b - a + 1) : x[i] = s[a + i - 1]
  BY SubSeqProperties
<1>2. y \in Seq(S) /\ Len(y) = m /\ \A i \in 1..(b - a + 1) : y[i] = t[a + i - 1]
  BY <1>0, SubSeqProperties
<1>3. \A i \in 1..m : x[i] = y[i]
  <2> TAKE i \in 1..m
  <2>1. i \in 1..(b - a + 1) /\ a + i - 1 \in a..b
    OBVIOUS
  <2> QED
    BY <1>1, <1>2, <2>1
<1> HIDE DEF m, x, y
<1>4. y = x
  BY <1>1, <1>2, <1>3, SeqEqual
<1> QED
  BY <1>4 DEF x, y

(* Where a piece begins, as a function of the input.                       *)
LEMMA StartIs ==
    ASSUME NEW j
    PROVE  /\ Start(j) = Behind(Cuts(events, j - 1))
           /\ Start(j)' = Behind(Cuts(events', j - 1))
BY Zenon DEF Start, Behind, Cuts

(* One more event leaves the pieces that were there, and begins a new one  *)
(* or makes the last one longer.                                           *)
LEMMA Grows ==
    ASSUME IInv, NEW e \in Events, events' = Append(events, e),
           NEW n \in Nat, n = Len(events) + 1
    PROVE  /\ events' \in Seq(Events) /\ Len(events') = n /\ events'[n] = e
           /\ \A i \in 1..(n - 1) : events'[i] = events[i]
           /\ \A j \in 1..n : Start(j)' = Start(j) /\ Piece(j)' = Piece(j)
           /\ StartInv'
           /\ Piece(n + 1)' = IF e \in {"nl", "int"} THEN <<>> ELSE Append(Piece(n), e)
<1> USE DEF IInv
<1>1. /\ events \in Seq(Events) /\ n \in Nat \ {0}
      /\ events' \in Seq(Events) /\ Len(events') = n /\ events'[n] = e
      /\ \A i \in 1..(n - 1) : events'[i] = events[i]
  BY AppendProperties, LenProperties DEF TypeOK
<1>2. \A j \in 1..n : Start(j)' = Start(j)
  <2> TAKE j \in 1..n
  <2>1. Cuts(events', j - 1) = Cuts(events, j - 1)
    BY <1>1 DEF Cuts
  <2> QED
    BY <2>1, StartIs
<1>3. Start(n + 1)' = IF e \in {"nl", "int"} THEN n + 1 ELSE Start(n)
  <2> DEFINE cuts == Cuts(events', n)
  <2>1. Start(n + 1)' = Behind(cuts)
    BY StartIs
  <2>2. CASE e \in {"nl", "int"}
    <3>1. n \in cuts /\ \A k \in cuts : k <= n
      BY <1>1, <2>2 DEF Cuts
    <3>2. cuts \subseteq Nat
      BY DEF Cuts
    <3> HIDE DEF cuts
    <3>3. Behind(cuts) = n + 1
      BY <3>1, <3>2, BehindIs
    <3> QED
      BY <2>1, <2>2, <3>3
  <2>3. CASE e \notin {"nl", "int"}
    <3>1. cuts = Cuts(events, n - 1)
      BY <1>1, <2>3 DEF Cuts
    <3> QED
      BY <2>1, <2>3, <3>1, StartIs
  <2> QED
    BY <2>2, <2>3
<1>4. StartInv'
  <2>1. \A j \in 1..n : Start(j) \in 1..j
    BY DEF StartInv
  <2>2. Start(n + 1)' \in 1..(n + 1)
    BY <1>1, <1>3, <2>1
  <2>3. \A j \in 1..n : Start(j)' \in 1..j
    BY <1>2, <2>1
  <2>4. 1..(Len(events') + 1) = 1..n \cup {n + 1}
    <3>1. 1..(n + 1) = 1..n \cup {n + 1}
      BY <1>1
    <3> QED
      BY <1>1, <3>1
  <2>5. ASSUME NEW j \in 1..(Len(events') + 1) PROVE Start(j)' \in 1..j
    <3>1. CASE j \in 1..n
      BY <2>3, <3>1
    <3>2. CASE j = n + 1
      BY <2>2, <3>2
    <3> QED
      BY <2>4, <3>1, <3>2
  <2> QED
    BY <2>5 DEF StartInv
<1>5. TypeOK /\ StartInv /\ \A j \in 1..n : Start(j) \in 1..j
  BY DEF StartInv
<1>6. \A j \in 1..n : Piece(j)' = Piece(j)
  <2> TAKE j \in 1..n
  <2>1. SubSeq(events', Start(j), j - 1) = SubSeq(events, Start(j), j - 1)
    <3>1. \A i \in Start(j)..(j - 1) : i \in 1..(n - 1)
      BY <1>1, <1>5
    <3>2. \A i \in Start(j)..(j - 1) : events[i] \in Events /\ events'[i] = events[i]
      BY <1>1, <3>1, ElementOfSeq
    <3>3. Start(j) \in Int /\ j - 1 \in Int
      BY <1>1, <1>5
    <3> QED
      <4> DEFINE a == Start(j)
                 b == j - 1
                 s == events
                 t == events'
      <4>1. a \in Int /\ b \in Int /\ \A i \in a..b : s[i] \in Events /\ t[i] = s[i]
        BY <3>2, <3>3
      <4> HIDE DEF a, b, s, t
      <4>2. SubSeq(t, a, b) = SubSeq(s, a, b)
        BY ONLY <4>1, SubSeqSame
      <4> QED
        BY <4>2 DEF a, b, s, t
  <2> QED
    BY <1>2, <2>1 DEF Piece
<1>7. Piece(n + 1)' = IF e \in {"nl", "int"} THEN <<>> ELSE Append(Piece(n), e)
  <2>1. Piece(n + 1)' = SubSeq(events', Start(n + 1)', n)
    <3>1. Piece(n + 1)' = SubSeq(events', Start(n + 1)', (n + 1) - 1) /\ (n + 1) - 1 = n
      BY DEF Piece
    <3> QED
      BY <3>1, Zenon
  <2>2. CASE e \in {"nl", "int"}
    BY <1>1, <1>3, <2>1, <2>2, SubSeqEmpty
  <2>3. CASE e \notin {"nl", "int"}
    <3>1. Piece(n) = SubSeq(events', Start(n), n - 1)
      <4>1. Piece(n)' = SubSeq(events', Start(n)', n - 1)
        BY DEF Piece
      <4>2. Piece(n)' = Piece(n) /\ Start(n)' = Start(n)
        BY <1>1, <1>2, <1>6
      <4> QED
        BY <4>1, <4>2, Zenon
    <3>2. Start(n) \in 1..Len(events') /\ n \in Start(n)..Len(events')
      BY <1>1, <1>5
    <3>3. SubSeq(events', Start(n), n) = SubSeq(events', Start(n), n - 1) \o <<events'[n]>>
      <4> DEFINE m == Start(n)
                 s == events'
      <4>1. s \in Seq(Events) /\ m \in 1..Len(s) /\ n \in m..Len(s)
        BY <1>1, <3>2
      <4> HIDE DEF m, s
      <4>2. SubSeq(s, m, n) = SubSeq(s, m, n - 1) \o <<s[n]>>
        BY <4>1, SubSeqRecursiveSecond
      <4> QED
        BY <4>2 DEF m, s
    <3>4. Append(Piece(n), e) = Piece(n) \o <<e>>
      BY <1>1, <1>5, PieceIs, AppendIsConcat
    <3> QED
      BY <1>1, <1>3, <2>1, <2>3, <3>1, <3>3, <3>4, Zenon
  <2> QED
    BY <2>2, <2>3
<1> QED
  BY <1>1, <1>2, <1>4, <1>6, <1>7

(* The event ends a line or does not.                                      *)
Ends(e, piece) == /\ \/ e = "nl"
                     \/ e = "eof" /\ piece # <<>>
                  /\ Len(piece) < Size

LEMMA EndsGrow ==
    ASSUME IInv, NEW e \in Events, events' = Append(events, e),
           NEW n \in Nat, n = Len(events) + 1
    PROVE  /\ LineEnds' = LineEnds \cup (IF Ends(e, Piece(n)) THEN {n} ELSE {})
           /\ LineEnds \subseteq 1..(n - 1) /\ IsFiniteSet(LineEnds)
           /\ Cardinality(LineEnds) \in Nat
<1>1. /\ DOMAIN events = 1..(n - 1) /\ DOMAIN events' = 1..n /\ n \in 1..n
      /\ events'[n] = e /\ Piece(n)' = Piece(n)
      /\ \A j \in 1..(n - 1) : j # n /\ events'[j] = events[j] /\ Piece(j)' = Piece(j)
  BY Grows, LenProperties DEF IInv, TypeOK
<1>2. \A j : j \in LineEnds' <=> (j \in LineEnds \/ (j = n /\ Ends(e, Piece(n))))
  <2> TAKE j
  <2>1. j \in LineEnds <=> (j \in 1..(n - 1) /\ Ends(events[j], Piece(j)))
    BY <1>1, Zenon DEF LineEnds, Ends
  <2>2. j \in LineEnds' <=> (j \in 1..n /\ Ends(events'[j], Piece(j)'))
    BY <1>1, Zenon DEF LineEnds, Ends
  <2>3. CASE j = n
    BY <1>1, <2>1, <2>2, <2>3, Zenon
  <2>4. CASE j # n
    <3>1. j \in 1..n <=> j \in 1..(n - 1)
      BY <1>1, <2>4
    <3> QED
      BY <1>1, <2>1, <2>2, <2>4, <3>1, Zenon
  <2> QED
    BY <2>3, <2>4
<1>3. LineEnds \subseteq 1..(n - 1)
  BY <1>1 DEF LineEnds
<1>4. IsFiniteSet(LineEnds) /\ Cardinality(LineEnds) \in Nat
  <2>1. IsFiniteSet(1..(n - 1))
    BY FS_Interval
  <2>2. IsFiniteSet(LineEnds)
    BY <1>3, <2>1, FS_Subset
  <2> QED
    BY <2>2, FS_CardinalityType
<1>5. LineEnds' = LineEnds \cup (IF Ends(e, Piece(n)) THEN {n} ELSE {})
  <2>1. CASE Ends(e, Piece(n))
    <3>1. LineEnds' = LineEnds \cup {n}
      BY <1>2, <2>1, Zenon
    <3> QED
      BY <2>1, <3>1
  <2>2. CASE ~ Ends(e, Piece(n))
    <3>1. LineEnds' = LineEnds
      BY <1>2, <2>2, Zenon
    <3> QED
      BY <2>2, <3>1
  <2> QED
    BY <2>1, <2>2
<1> QED
  BY <1>3, <1>4, <1>5

(* What was executed stays what should have been, if no line ends.         *)
LEMMA LinesKept ==
    ASSUME IInv, NEW e \in Events, events' = Append(events, e), lines' = lines,
           ~ Ends(e, Piece(Len(events) + 1))
    PROVE  LinesAreSegments'
<1>1. PICK n \in Nat : n = Len(events) + 1
  BY LenProperties DEF IInv, TypeOK
<1>2. LineEnds' = LineEnds /\ \A j \in LineEnds : Piece(j)' = Piece(j)
  <2>1. /\ LineEnds' = LineEnds \cup (IF Ends(e, Piece(n)) THEN {n} ELSE {})
        /\ LineEnds \subseteq 1..(n - 1)
    BY <1>1, EndsGrow
  <2>2. \A j \in 1..n : Piece(j)' = Piece(j)
    BY <1>1, Grows
  <2> QED
    BY <1>1, <2>1, <2>2
<1> QED
  BY <1>2 DEF IInv, LinesAreSegments, Trimmed

(* If one does, it is executed next.                                       *)
LEMMA LineAdded ==
    ASSUME IInv, NEW e \in Events, events' = Append(events, e),
           Ends(e, Piece(Len(events) + 1)), Piece(Len(events) + 1) \in Line,
           lines' = Append(lines, Trimmed(Piece(Len(events) + 1)))
    PROVE  LinesAreSegments'
<1>1. PICK n \in Nat : n = Len(events) + 1
  BY LenProperties DEF IInv, TypeOK
<1>2. /\ LineEnds' = LineEnds \cup {n} /\ n \notin LineEnds /\ LineEnds \subseteq 1..(n - 1)
      /\ IsFiniteSet(LineEnds) /\ Cardinality(LineEnds) = Len(lines)
      /\ \A j \in LineEnds \cup {n} : Piece(j)' = Piece(j)
  BY <1>1, EndsGrow, Grows DEF IInv, LinesAreSegments
<1>3. /\ Cardinality(LineEnds') = Len(lines) + 1 /\ Len(lines) \in Nat
      /\ Len(lines') = Len(lines) + 1 /\ lines'[Len(lines) + 1] = Trimmed(Piece(n))
      /\ \A i \in 1..Len(lines) : lines'[i] = lines[i]
  <2>1. lines \in Seq(Line) /\ Trimmed(Piece(n)) \in Line /\ lines' = Append(lines, Trimmed(Piece(n)))
    BY <1>1, TrimmedIs DEF IInv, TypeOK, Line
  <2> QED
    <3>1. Cardinality(LineEnds') = Len(lines) + 1
      BY <1>2, FS_AddElement
    <3>2. Len(lines) \in Nat
      BY <2>1, LenProperties
    <3> QED
      BY <1>1, <2>1, <3>1, <3>2, AppendProperties
<1>4. ASSUME NEW j \in LineEnds'
      PROVE  lines'[Cardinality({i \in LineEnds' : i <= j})] = Trimmed(Piece(j))'
  <2>1. CASE j = n
    <3>1. \A i \in LineEnds' : i <= j
      BY <1>2, <2>1
    <3>2. {i \in LineEnds' : i <= j} = LineEnds'
      BY <3>1
    <3> QED
      BY <1>2, <1>3, <2>1, <3>2 DEF Trimmed
  <2>2. CASE j \in LineEnds
    <3> DEFINE before == {i \in LineEnds : i <= j}
    <3>1. {i \in LineEnds' : i <= j} = before
      BY <1>2, <2>2
    <3>2. IsFiniteSet(before) /\ Cardinality(before) \in 1..Len(lines)
      <4>1. before \in SUBSET LineEnds /\ j \in before
        BY <1>2, <2>2
      <4>2. IsFiniteSet(before) /\ Cardinality(before) <= Len(lines)
        BY <1>2, <4>1, FS_Subset
      <4>3. Cardinality(before) \in Nat /\ Cardinality(before) # 0
        BY <4>1, <4>2, FS_CardinalityType, FS_EmptySet
      <4> QED
        BY <1>3, <4>2, <4>3
    <3>3. lines[Cardinality(before)] = Trimmed(Piece(j))
      BY <2>2 DEF IInv, LinesAreSegments
    <3> QED
      BY <1>2, <1>3, <2>2, <3>1, <3>2, <3>3 DEF Trimmed
  <2> QED
    BY <1>2, <2>1, <2>2
<1> QED
  BY <1>3, <1>4 DEF LinesAreSegments

-----------------------------------------------------------------------------
(* A newline hands the line over, or ends one that was too long.           *)
LEMMA NewlineStep == ASSUME IInv, ReadNewline PROVE IInv'
<1>1. PICK n \in Nat : n = Len(events) + 1
  BY LenProperties DEF IInv, TypeOK
<1>2. "nl" \in Events /\ events' = Append(events, "nl") /\ running
  BY DEF ReadNewline, Take, Events, Bytes
<1>3. /\ events' \in Seq(Events) /\ Len(events') = n /\ StartInv'
      /\ Piece(n + 1)' = <<>>
  BY <1>1, <1>2, Grows
<1>4. buffer' = <<>> /\ discarding' = FALSE
  BY DEF ReadNewline, Dispatch, Reset, StillDiscarding
<1>b. /\ discarding' \in BOOLEAN /\ overlong' \in BOOLEAN
      /\ <<>> \in Seq(Bytes \ {"nl"}) /\ Len(<<>>) < Size
  <2>1. overlong' = FALSE
    BY DEF ReadNewline
  <2>2. discarding' \in BOOLEAN /\ overlong' \in BOOLEAN
    BY <1>4, <2>1, Zenon
  <2> QED
    BY <2>2, EmptySeq, InputAssumption
<1>5. LineInv'
  BY <1>3, <1>4 DEF LineInv
<1>6. CASE discarding
  <2>1. TypeOK'
    BY <1>3, <1>4, <1>6, <1>b DEF IInv, TypeOK, ReadNewline
  <2>2. Len(Piece(n)) >= Size /\ Len(Piece(n)) \in Nat
    BY <1>1, <1>2, <1>6, PieceIs, LenProperties DEF IInv, LineInv
  <2>3. LinesAreSegments'
    BY <1>1, <1>2, <1>6, <2>2, LinesKept, InputAssumption DEF ReadNewline, Ends
  <2> QED
    BY <1>3, <1>5, <2>1, <2>3 DEF IInv
<1>7. CASE ~ discarding
  <2>1. buffer = Piece(n) /\ buffer \in Line /\ Len(buffer) < Size
    BY <1>1, <1>2, <1>7 DEF IInv, TypeOK, LineInv, Line
  <2>2. lines' = Append(lines, Trimmed(buffer))
    BY <1>7 DEF ReadNewline, Dispatch
  <2>3. lines' \in Seq(Line)
    BY <2>1, <2>2, TrimmedIs, AppendProperties DEF IInv, TypeOK, Line
  <2>4. TypeOK'
    <3>1. running' \in BOOLEAN /\ last' \in Status
      BY <1>7 DEF IInv, TypeOK, ReadNewline, Dispatch, Status
    <3> QED
      BY <1>3, <1>4, <1>b, <2>3, <3>1 DEF TypeOK, Line
  <2>5. LinesAreSegments'
    <3>1. Ends("nl", Piece(n))
      BY <2>1, Zenon DEF Ends
    <3> QED
      BY <1>1, <1>2, <2>1, <2>2, <3>1, LineAdded
  <2> QED
    BY <1>3, <1>5, <2>4, <2>5 DEF IInv
<1> QED
  BY <1>6, <1>7

(* A byte is added while there is room for it and the final \0.            *)
LEMMA ByteStep == ASSUME IInv, NEW c \in Bytes, ReadByte(c) PROVE IInv'
<1>1. PICK n \in Nat : n = Len(events) + 1
  BY LenProperties DEF IInv, TypeOK
<1>2. /\ c \in Events /\ c \notin {"nl", "int", "eof"}
      /\ events' = Append(events, c) /\ running /\ running' = running /\ lines' = lines
  BY InputAssumption DEF ReadByte, Take, Events, Bytes
<1>3. /\ events' \in Seq(Events) /\ Len(events') = n /\ StartInv'
      /\ Piece(n + 1)' = Append(Piece(n), c)
  BY <1>1, <1>2, Grows
<1>4. LinesAreSegments'
  BY <1>2, LinesKept DEF Ends
<1>5. /\ Piece(n) \in Seq(Events) /\ Len(Piece(n)) \in Nat
      /\ Len(Append(Piece(n), c)) = Len(Piece(n)) + 1
  BY <1>1, <1>2, PieceIs, AppendProperties, LenProperties DEF IInv
<1>6. CASE discarding /\ UNCHANGED <<buffer, discarding, last, overlong>>
  <2>1. TypeOK'
    BY <1>2, <1>3, <1>6 DEF IInv, TypeOK
  <2>2. LineInv'
    BY <1>1, <1>2, <1>3, <1>5, <1>6, InputAssumption DEF IInv, LineInv
  <2> QED
    BY <1>3, <1>4, <2>1, <2>2 DEF IInv
<1>7. CASE /\ ~ discarding /\ ~ Full(buffer) /\ buffer' = Append(buffer, c)
           /\ UNCHANGED <<discarding, last, overlong>>
  <2>1. buffer' \in Line /\ Len(buffer') < Size
    BY <1>2, <1>7, AppendProperties, LenProperties, InputAssumption
    DEF IInv, TypeOK, Full, Line
  <2>2. TypeOK'
    BY <1>2, <1>3, <1>7, <2>1 DEF IInv, TypeOK, Line
  <2>3. LineInv'
    BY <1>1, <1>2, <1>3, <1>7 DEF IInv, LineInv
  <2> QED
    BY <1>3, <1>4, <2>2, <2>3 DEF IInv
<1>8. CASE /\ ~ discarding /\ Full(buffer) /\ buffer' = <<>> /\ discarding' = TRUE
           /\ overlong' = TRUE /\ last' = BadLine
  <2>1. TypeOK'
    BY <1>2, <1>3, <1>8, EmptySeq, InputAssumption DEF IInv, TypeOK, Status
  <2>2. LineInv'
    BY <1>1, <1>2, <1>3, <1>5, <1>8, InputAssumption DEF IInv, LineInv, Full
  <2> QED
    BY <1>3, <1>4, <2>1, <2>2 DEF IInv
<1> QED
  BY <1>6, <1>7, <1>8 DEF ReadByte

(* The end of the input ends a line that has bytes.                        *)
LEMMA EofStep == ASSUME IInv, ReadEof PROVE IInv'
<1>1. PICK n \in Nat : n = Len(events) + 1
  BY LenProperties DEF IInv, TypeOK
<1>2. "eof" \in Events /\ events' = Append(events, "eof") /\ running /\ running' = FALSE
  BY DEF ReadEof, Take, Events
<1>3. events' \in Seq(Events) /\ StartInv'
  BY <1>1, <1>2, Grows
<1>4. buffer' = <<>> /\ discarding' = FALSE /\ overlong' = overlong
  BY DEF ReadEof, Reset, StillDiscarding
<1>b. /\ discarding' \in BOOLEAN /\ running' \in BOOLEAN
      /\ <<>> \in Seq(Bytes \ {"nl"}) /\ Len(<<>>) < Size
  <2>1. discarding' \in BOOLEAN /\ running' \in BOOLEAN
    BY <1>2, <1>4, Zenon
  <2> QED
    BY <2>1, EmptySeq, InputAssumption
<1>5. LineInv'
  BY <1>2 DEF LineInv
<1>6. CASE ~ discarding /\ buffer # <<>>
  <2>1. buffer = Piece(n) /\ buffer \in Line /\ Len(buffer) < Size
    BY <1>1, <1>2, <1>6 DEF IInv, TypeOK, LineInv, Line
  <2>2. lines' = Append(lines, Trimmed(buffer)) /\ last' \in Status
    BY <1>6 DEF ReadEof, IInv, TypeOK
  <2>3. lines' \in Seq(Line)
    BY <2>1, <2>2, TrimmedIs, AppendProperties DEF IInv, TypeOK, Line
  <2>4. TypeOK'
    BY <1>3, <1>4, <1>b, <2>2, <2>3 DEF IInv, TypeOK, Line
  <2>5. LinesAreSegments'
    BY <1>1, <1>2, <1>6, <2>1, <2>2, LineAdded DEF Ends
  <2> QED
    BY <1>3, <1>5, <2>4, <2>5 DEF IInv
<1>7. CASE ~ (~ discarding /\ buffer # <<>>)
  <2>1. lines' = lines /\ last' = last
    BY <1>7 DEF ReadEof
  <2>2. TypeOK'
    BY <1>3, <1>4, <1>b, <2>1 DEF IInv, TypeOK
  <2>3. ~ Ends("eof", Piece(n))
    <3>1. Len(Piece(n)) \in Nat
      BY <1>1, PieceIs, LenProperties DEF IInv
    <3> QED
      BY <1>1, <1>2, <1>7, <3>1, InputAssumption DEF IInv, LineInv, Ends
  <2>4. LinesAreSegments'
    BY <1>1, <1>2, <2>1, <2>3, LinesKept
  <2> QED
    BY <1>3, <1>5, <2>2, <2>4 DEF IInv
<1> QED
  BY <1>6, <1>7

(* A ^C begins a new line.                                                 *)
LEMMA InterruptStep == ASSUME IInv, ServeInterrupt PROVE IInv'
<1>1. PICK n \in Nat : n = Len(events) + 1
  BY LenProperties DEF IInv, TypeOK
<1>2. "int" \in Events /\ events' = Append(events, "int") /\ lines' = lines
  BY DEF ServeInterrupt, Take, Events
<1>3. /\ events' \in Seq(Events) /\ Len(events') = n /\ StartInv'
      /\ Piece(n + 1)' = <<>>
  BY <1>1, <1>2, Grows
<1>4. buffer' = <<>> /\ discarding' = FALSE /\ UNCHANGED <<last, running, overlong>>
  BY DEF ServeInterrupt, Reset, StillDiscarding
<1>b. discarding' \in BOOLEAN /\ <<>> \in Seq(Bytes \ {"nl"}) /\ Len(<<>>) < Size
  <2>1. discarding' \in BOOLEAN
    BY <1>4, Zenon
  <2> QED
    BY <2>1, EmptySeq, InputAssumption
<1>5. TypeOK'
  BY <1>2, <1>3, <1>4, <1>b DEF IInv, TypeOK
<1>6. LineInv'
  BY <1>3, <1>4 DEF LineInv
<1>7. LinesAreSegments'
  BY <1>2, LinesKept DEF Ends
<1> QED
  BY <1>3, <1>5, <1>6, <1>7 DEF IInv

(* The invariant of every behaviour.                                       *)
LEMMA AlwaysInv == Spec => []IInv
<1>1. IInv /\ UNCHANGED vars => IInv'
  <2> SUFFICES ASSUME IInv, UNCHANGED vars PROVE IInv'
    OBVIOUS
  <2>1. events' = events /\ lines' = lines
    BY DEF vars
  <2>2. \A j : Start(j)' = Start(j)
    BY <2>1, StartIs
  <2>3. \A j : Piece(j)' = Piece(j)
    BY <2>1, <2>2 DEF Piece
  <2>4. LineEnds' = LineEnds
    BY <2>1, <2>3 DEF LineEnds
  <2>5. TypeOK' /\ StartInv' /\ LineInv'
    BY <2>2, <2>3 DEF vars, IInv, TypeOK, StartInv, LineInv
  <2>6. LinesAreSegments'
    BY <2>1, <2>3, <2>4 DEF IInv, LinesAreSegments, Trimmed
  <2> QED
    BY <2>5, <2>6 DEF IInv
<1>2. IInv /\ [Next]_vars => IInv'
  BY <1>1, NewlineStep, ByteStep, EofStep, InterruptStep DEF Next
<1> QED
  BY <1>2, Initially, PTL DEF Spec

(* The line buffer never overruns: it has room for the final \0 whatever   *)
(* is typed, and the other variables keep their types (shell_read_input).  *)
THEOREM TypeCorrect == Spec => []TypeOK
<1>1. IInv => TypeOK
  BY DEF IInv
<1> QED
  BY <1>1, AlwaysInv, PTL

(* What is executed is exactly the short pieces of the input between       *)
(* newlines and interrupts, each of them once and in order, for inputs of  *)
(* any length (shell_read_input, shell_dispatch_input, shell_reset_input). *)
THEOREM LinesExecuted == Spec => []LinesAreSegments
<1>1. IInv => LinesAreSegments
  BY DEF IInv
<1> QED
  BY <1>1, AlwaysInv, PTL
=============================================================================
