--------------------------- MODULE ReadingsProofs ---------------------------
(***************************************************************************)
(* The second half of the theorems about Builtins: what the surveys, the   *)
(* monitors and the listings find (DeviceSurvey, RuntimeSnapshot,          *)
(* SystemInfo, ProcessMonitor), and the types of the whole.                *)
(***************************************************************************)
EXTENDS BuiltinsProofs, SequenceTheorems, FunctionTheorems, FiniteSetTheorems,
        WellFoundedInduction

-----------------------------------------------------------------------------
(* Sets and sequences. *)

(* If some subset of a finite set is without a property, one of them has    *)
(* only subsets with it.                                                    *)
LEMMA SmallestSubset ==
    ASSUME NEW S, IsFiniteSet(S), NEW Bad, Bad \subseteq SUBSET S, Bad # {}
    PROVE  \E T \in Bad : \A U \in SUBSET T : U # T => U \notin Bad
<1> DEFINE R == StrictSubsetOrdering(S)
<1>1. IsWellFoundedOn(R, SUBSET S)
  BY FS_StrictSubsetOrderingWellFounded, FS_FiniteSubsetsOfFinite
<1>2. \A T, U \in SUBSET S : U \subseteq T /\ U # T => <<U, T>> \in R
  BY DEF StrictSubsetOrdering
<1> HIDE DEF R
<1>3. PICK T \in Bad : \A U \in Bad : ~ (<<U, T>> \in R)
  BY <1>1, WFMin
<1> QED BY <1>2, <1>3

(* In a finite set some element comes before all others of a total order.   *)
LEMMA Foremost ==
    ASSUME NEW S, IsFiniteSet(S), S # {}, NEW R,
           \A i, j \in S : <<i, j>> \in R \/ <<j, i>> \in R,
           \A i, j, k \in S : <<i, j>> \in R /\ <<j, k>> \in R => <<i, k>> \in R
    PROVE  \E i \in S : \A j \in S : <<i, j>> \in R
<1> DEFINE Bad == {T \in SUBSET S : T # {} /\ ~ \E i \in T : \A j \in T : <<i, j>> \in R}
<1>1. SUFFICES ASSUME Bad # {} PROVE FALSE
  OBVIOUS
<1>2. PICK T \in Bad : \A U \in SUBSET T : U # T => U \notin Bad
  <2> HIDE DEF Bad
  <2>1. Bad \subseteq SUBSET S
    BY DEF Bad
  <2> QED BY <1>1, <2>1, SmallestSubset
<1>3. PICK i \in T : TRUE
  OBVIOUS
<1>4. CASE T \ {i} = {}
  <2>1. T = {i}
    BY <1>3, <1>4
  <2> QED BY <2>1
<1>5. CASE T \ {i} # {}
  <2>1. T \ {i} \in SUBSET T /\ T \ {i} # T /\ T \ {i} \in SUBSET S
    BY <1>3
  <2>2. PICK k \in T \ {i} : \A j \in T \ {i} : <<k, j>> \in R
    BY <1>2, <1>5, <2>1
  <2>3. i \in S /\ k \in S /\ T \subseteq S
    BY <1>3
  <2>4. \/ \A j \in T : <<k, j>> \in R
        \/ \A j \in T : <<i, j>> \in R
    BY <2>2, <2>3
  <2> QED BY <1>3, <2>2, <2>4
<1> QED BY <1>4, <1>5

(* A set of places of an array has a first and a last.                      *)
LEMMA FirstAndLast ==
    ASSUME NEW n \in Nat, NEW S, S \subseteq 1..n, S # {}
    PROVE  /\ \E i \in S : \A j \in S : i <= j
           /\ \E i \in S : \A j \in S : j <= i
           /\ Min(S) \in S /\ \A j \in S : Min(S) <= j
           /\ Max(S) \in S /\ \A j \in S : j <= Max(S)
<1>1. IsFiniteSet(S)
  <2>1. IsFiniteSet(1..n)
    BY FS_Interval
  <2> QED BY <2>1, FS_Subset
<1>2. \E i \in S : \A j \in S : i <= j
  <2> DEFINE R == {p \in S \X S : p[1] <= p[2]}
  <2>1. \A i, j \in S : i \in Int /\ (<<i, j>> \in R <=> i <= j)
    OBVIOUS
  <2> HIDE DEF R
  <2>2. \A i, j \in S : <<i, j>> \in R \/ <<j, i>> \in R
    <3> TAKE i, j \in S
    <3> QED BY <2>1
  <2>3. \A i, j, k \in S : <<i, j>> \in R /\ <<j, k>> \in R => <<i, k>> \in R
    <3> TAKE i, j, k \in S
    <3> QED BY <2>1
  <2>4. \E i \in S : \A j \in S : <<i, j>> \in R
    BY <1>1, <2>2, <2>3, Foremost
  <2> QED BY <2>1, <2>4
<1>3. \E i \in S : \A j \in S : j <= i
  <2> DEFINE R == {p \in S \X S : p[1] >= p[2]}
  <2>1. \A i, j \in S : i \in Int /\ (<<i, j>> \in R <=> i >= j)
    OBVIOUS
  <2> HIDE DEF R
  <2>2. \A i, j \in S : <<i, j>> \in R \/ <<j, i>> \in R
    <3> TAKE i, j \in S
    <3> QED BY <2>1
  <2>3. \A i, j, k \in S : <<i, j>> \in R /\ <<j, k>> \in R => <<i, k>> \in R
    <3> TAKE i, j, k \in S
    <3> QED BY <2>1
  <2>4. \E i \in S : \A j \in S : <<i, j>> \in R
    BY <1>1, <2>2, <2>3, Foremost
  <2> QED BY <2>1, <2>4
<1>4. Min(S) \in S /\ \A j \in S : Min(S) <= j
  BY <1>2 DEF Min
<1>5. Max(S) \in S /\ \A j \in S : j <= Max(S)
  BY <1>3 DEF Max
<1> QED BY <1>2, <1>3, <1>4, <1>5

-----------------------------------------------------------------------------
(* qsort. *)

(* An arrangement has the elements of the sequence, each as often.          *)
LEMMA Arranged ==
    ASSUME NEW S, NEW s \in Seq(S), NEW t \in Arrangements(s)
    PROVE  /\ t \in Seq(S) /\ Len(t) = Len(s) /\ DOMAIN t = DOMAIN s
           /\ \E p \in [DOMAIN s -> DOMAIN s] :
                 /\ \A i \in DOMAIN s : t[i] = s[p[i]]
                 /\ \A i, j \in DOMAIN s : p[i] = p[j] => i = j
                 /\ \A j \in DOMAIN s : \E i \in DOMAIN s : p[i] = j
<1>1. PICK p \in Bijection(DOMAIN s, DOMAIN s) : t = [i \in DOMAIN s |-> s[p[i]]]
  BY DEF Arrangements
<1>2. /\ p \in [DOMAIN s -> DOMAIN s]
      /\ \A i, j \in DOMAIN s : p[i] = p[j] => i = j
      /\ \A j \in DOMAIN s : \E i \in DOMAIN s : p[i] = j
  BY DEF Bijection, Injection, Surjection, IsInjective
<1>3. DOMAIN s = 1..Len(s) /\ Len(s) \in Nat /\ \A i \in DOMAIN s : s[i] \in S
  BY ElementOfSeq, LenProperties
<1>4. \A i \in DOMAIN s : s[p[i]] \in S
  BY <1>2, <1>3
<1>5. t \in [1..Len(s) -> S]
  BY <1>1, <1>3, <1>4
<1>6. t \in Seq(S) /\ Len(t) = Len(s)
  BY <1>3, <1>5, IsASeq, LenProperties
<1> QED BY <1>1, <1>2, <1>6

(* A key for each element can be sorted: an element goes to the place that  *)
(* counts those with a smaller key, and those before it with the same.      *)
LEMMA KeysSort ==
    ASSUME NEW n \in Nat, NEW key \in [1..n -> Int]
    PROVE  \E p \in Bijection(1..n, 1..n) : \A i, j \in 1..n : i < j => key[p[i]] <= key[p[j]]
<1> DEFINE D == 1..n
           Less(j, i) == key[j] < key[i] \/ (key[j] = key[i] /\ j < i)
           Below(i) == {j \in D : Less(j, i)}
           rank == [i \in D |-> Cardinality(Below(i)) + 1]
<1>1. IsFiniteSet(D) /\ Cardinality(D) = n
  BY FS_Interval
<1>2. \A i \in D : /\ IsFiniteSet(Below(i)) /\ Cardinality(Below(i)) \in Nat
                   /\ Cardinality(Below(i)) <= n - 1
  <2> TAKE i \in D
  <2>1. Below(i) \subseteq D \ {i}
    OBVIOUS
  <2>2. IsFiniteSet(D \ {i}) /\ Cardinality(D \ {i}) = n - 1
    BY <1>1, FS_RemoveElement
  <2> HIDE DEF D, Below
  <2> QED BY <2>1, <2>2, FS_Subset, FS_CardinalityType
<1>3. \A i, j \in D : Less(j, i) => Cardinality(Below(j)) < Cardinality(Below(i))
  <2> TAKE i, j \in D
  <2> HAVE Less(j, i)
  <2>1. Below(j) \cup {j} \subseteq Below(i) /\ j \notin Below(j)
    OBVIOUS
  <2>2. Cardinality(Below(j) \cup {j}) = Cardinality(Below(j)) + 1
    <3> HIDE DEF Below
    <3> QED BY <1>2, <2>1, FS_AddElement
  <2>3. Cardinality(Below(j) \cup {j}) <= Cardinality(Below(i))
    <3> HIDE DEF Below
    <3> QED BY <1>2, <2>1, FS_Subset
  <2> HIDE DEF Below, Less
  <2> QED BY <1>2, <2>2, <2>3
<1>4. rank \in [D -> D]
  <2> HIDE DEF Below
  <2> QED BY <1>2
<1>5. \A i, j \in D : i = j \/ Less(i, j) \/ Less(j, i)
  OBVIOUS
<1>6. \A i, j \in D : Less(j, i) => rank[j] < rank[i]
  <2> HIDE DEF Below, Less
  <2> QED BY <1>2, <1>3
<1>7. \A i, j \in D : rank[i] = rank[j] => i = j
  <2> HIDE DEF rank, Less
  <2>1. \A i \in D : rank[i] \in Int
    BY <1>4
  <2> QED BY <1>5, <1>6, <2>1
<1>8. rank \in Injection(D, D)
  <2> HIDE DEF rank
  <2> QED BY <1>4, <1>7 DEF Injection, IsInjective
<1>9. \A j \in D : \E i \in D : rank[i] = j
  <2> HIDE DEF rank, D
  <2> QED BY <1>1, <1>8, FS_Injection DEF Surjection
<1> DEFINE p == [j \in D |-> CHOOSE i \in D : rank[i] = j]
<1>10. \A j \in D : p[j] \in D /\ rank[p[j]] = j
  <2> HIDE DEF rank
  <2> QED BY <1>9
<1>11. p \in [D -> D]
  <2>1. \A j \in D : (CHOOSE i \in D : rank[i] = j) \in D
    <3> HIDE DEF rank
    <3> QED BY <1>9
  <2> HIDE DEF rank
  <2> QED BY <2>1
<1>12. p \in Bijection(D, D)
  <2>1. \A j \in D : p[rank[j]] = j
    <3> HIDE DEF p, rank
    <3> QED BY <1>4, <1>7, <1>10
  <2>2. \A i, j \in D : p[i] = p[j] => i = j
    <3> HIDE DEF p, rank
    <3> QED BY <1>10
  <2>3. \A j \in D : \E i \in D : p[i] = j
    <3> HIDE DEF p, rank
    <3> QED BY <1>4, <2>1
  <2> HIDE DEF p, rank, D
  <2> QED BY <1>11, <2>2, <2>3 DEF Bijection, Injection, Surjection, IsInjective
<1>13. ASSUME NEW i \in D, NEW j \in D, i < j PROVE key[p[i]] <= key[p[j]]
  <2>1. ~ Less(p[j], p[i])
    <3> HIDE DEF p, rank, Less
    <3> QED BY <1>6, <1>10, <1>13
  <2>2. p[i] \in D /\ p[j] \in D
    BY <1>10
  <2> HIDE DEF p, rank
  <2> QED BY <2>1, <2>2
<1> QED BY <1>12, <1>13

(* The parts of an element of the arrays.                                   *)
LEMMA SlotTyped ==
    ASSUME NEW e \in Slots
    PROVE  /\ e.name \in Nat /\ e.name \in Names \cup {0}
           /\ e.has \in BOOLEAN /\ e.value \in Int
<1>1. /\ e.name \in Names \/ e.name = 0
      /\ e.value \in Values \/ e.value = 0
      /\ e.has \in BOOLEAN
  BY DEF Slots
<1>2. \A n \in Names : n \in Nat
  BY SurveyAssumption
<1>3. \A v \in Values : v \in Int
  BY SurveyAssumption
<1>4. e.name \in Nat /\ e.value \in Int
  BY <1>1, <1>2, <1>3
<1> QED BY <1>1, <1>4

(* qsort always has a result, so the walk and the survey are never stuck.   *)
THEOREM SortsExist ==
    /\ \A s \in Seq(Slots) : Ordered(s) # {}
    /\ \A s \in Seq(Pids) : Sorted(s) # {}
<1>1. ASSUME NEW S, NEW s \in Seq(S), NEW key \in [1..Len(s) -> Int]
      PROVE  \E p \in Bijection(DOMAIN s, DOMAIN s) :
                /\ [i \in DOMAIN s |-> s[p[i]]] \in Arrangements(s)
                /\ \A i, j \in DOMAIN s : i < j => key[p[i]] <= key[p[j]]
  <2>1. DOMAIN s = 1..Len(s) /\ Len(s) \in Nat
    BY LenProperties
  <2> QED BY <2>1, KeysSort DEF Arrangements
<1>2. ASSUME NEW s \in Seq(Slots) PROVE Ordered(s) # {}
  <2> DEFINE key == [i \in 1..Len(s) |-> s[i].name]
  <2>1. DOMAIN s = 1..Len(s) /\ \A i \in DOMAIN s : s[i] \in Slots
    BY ElementOfSeq, LenProperties
  <2>2. key \in [1..Len(s) -> Int]
    <3>1. \A i \in 1..Len(s) : s[i].name \in Int
      BY <2>1, SlotTyped
    <3> QED BY <3>1
  <2>3. PICK p \in Bijection(DOMAIN s, DOMAIN s) :
                /\ [i \in DOMAIN s |-> s[p[i]]] \in Arrangements(s)
                /\ \A i, j \in DOMAIN s : i < j => key[p[i]] <= key[p[j]]
    BY <1>1, <2>2
  <2>4. \A i \in DOMAIN s : p[i] \in 1..Len(s)
    BY <2>1 DEF Bijection, Injection
  <2> DEFINE t == [i \in DOMAIN s |-> s[p[i]]]
  <2>5. ASSUME NEW i \in DOMAIN t, NEW j \in DOMAIN t, i < j PROVE t[i].name <= t[j].name
    BY <2>3, <2>4, <2>5
  <2> HIDE DEF t
  <2> QED BY <2>3, <2>5 DEF Ordered, t
<1>3. ASSUME NEW s \in Seq(Pids) PROVE Sorted(s) # {}
  <2> DEFINE key == [i \in 1..Len(s) |-> s[i]]
  <2>1. DOMAIN s = 1..Len(s) /\ \A i \in DOMAIN s : s[i] \in Pids
    BY ElementOfSeq, LenProperties
  <2>2. key \in [1..Len(s) -> Int]
    <3>1. Pids \subseteq Int
      BY ProcessAssumption
    <3>2. \A i \in 1..Len(s) : s[i] \in Int
      BY <2>1, <3>1
    <3> QED BY <3>2
  <2>3. PICK p \in Bijection(DOMAIN s, DOMAIN s) :
                /\ [i \in DOMAIN s |-> s[p[i]]] \in Arrangements(s)
                /\ \A i, j \in DOMAIN s : i < j => key[p[i]] <= key[p[j]]
    BY <1>1, <2>2
  <2>4. \A i \in DOMAIN s : p[i] \in 1..Len(s)
    BY <2>1 DEF Bijection, Injection
  <2> DEFINE t == [i \in DOMAIN s |-> s[p[i]]]
  <2>5. ASSUME NEW i \in DOMAIN t, NEW j \in DOMAIN t, i < j PROVE t[i] <= t[j]
    BY <2>3, <2>4, <2>5
  <2> HIDE DEF t
  <2> QED BY <2>3, <2>5 DEF Sorted, t
<1> QED BY <1>2, <1>3
-----------------------------------------------------------------------------
(* thermal_monitor_hottest and network_monitor_primary. *)

InOrder(s) == \A i, j \in DOMAIN s : i < j => s[i].name < s[j].name

(* The element that a scan of the places S has to end with.                 *)
Warm(s, S) == {i \in S : s[i].has}
IsFirstHottest(s, S, i) ==
    \A j \in Warm(s, S) : s[j].value < s[i].value \/ (s[j].value = s[i].value /\ i <= j)
FirstHottest(s, S) == CHOOSE i \in Warm(s, S) : IsFirstHottest(s, S, i)
Scanned(s, S) == IF Warm(s, S) = {} THEN Empty ELSE s[FirstHottest(s, S)]

(* One turn of the scan.                                                    *)
Turn(best, z) == IF z.has /\ (best = Empty \/ z.value > best.value) THEN z ELSE best

(* The places of an array, and what is in them.                             *)
LEMMA Places ==
    ASSUME NEW s \in Seq(Slots)
    PROVE  /\ Len(s) \in Nat /\ DOMAIN s = 1..Len(s) /\ IsFiniteSet(DOMAIN s)
           /\ \A i \in DOMAIN s : /\ s[i] \in Slots /\ i \in Nat
                                  /\ s[i].name \in Int /\ s[i].value \in Int
<1>1. Len(s) \in Nat /\ DOMAIN s = 1..Len(s)
  BY LenProperties
<1>2. IsFiniteSet(1..Len(s))
  BY <1>1, FS_Interval
<1>3. \A i \in 1..Len(s) : s[i] \in Slots
  BY ElementOfSeq
<1>4. \A i \in 1..Len(s) : s[i].name \in Nat /\ s[i].value \in Int
  BY <1>3, SlotTyped
<1> QED BY <1>1, <1>2, <1>3, <1>4

(* Where there is a warm zone there is a first hottest, and only one.       *)
LEMMA FirstHottestExists ==
    ASSUME NEW s \in Seq(Slots), NEW S \in SUBSET DOMAIN s, Warm(s, S) # {}
    PROVE  /\ FirstHottest(s, S) \in Warm(s, S)
           /\ IsFirstHottest(s, S, FirstHottest(s, S))
           /\ \A i \in Warm(s, S) : IsFirstHottest(s, S, i) => i = FirstHottest(s, S)
<1> DEFINE W == Warm(s, S)
           R == {p \in W \X W : s[p[2]].value < s[p[1]].value
                                 \/ (s[p[2]].value = s[p[1]].value /\ p[1] <= p[2])}
<1>1. IsFiniteSet(W) /\ W \subseteq DOMAIN s
  <2>1. W \in SUBSET DOMAIN s
    BY DEF Warm
  <2> HIDE DEF W
  <2> QED BY <2>1, Places, FS_Subset
<1>2. \A i \in W : i \in Int /\ s[i].value \in Int
  <2> HIDE DEF W
  <2> QED BY <1>1, Places
<1>3. \A i, j \in W : <<i, j>> \in R <=> \/ s[j].value < s[i].value
                                         \/ s[j].value = s[i].value /\ i <= j
  <2> HIDE DEF W
  <2> QED OBVIOUS
<1> HIDE DEF R, W
<1>4. \A i, j \in W : <<i, j>> \in R \/ <<j, i>> \in R
  <2> TAKE i, j \in W
  <2> QED BY <1>2, <1>3
<1>5. \A i, j, k \in W : <<i, j>> \in R /\ <<j, k>> \in R => <<i, k>> \in R
  <2> TAKE i, j, k \in W
  <2> QED BY <1>2, <1>3
<1>6. \E i \in W : \A j \in W : <<i, j>> \in R
  <2> W # {}
    BY DEF W
  <2> QED BY <1>1, <1>4, <1>5, Foremost
<1>7. \E i \in W : IsFirstHottest(s, S, i)
  BY <1>3, <1>6 DEF IsFirstHottest, W
<1>8. \A i, k \in W : IsFirstHottest(s, S, i) /\ IsFirstHottest(s, S, k) => i = k
  BY <1>2 DEF IsFirstHottest, W
<1> QED BY <1>7, <1>8 DEF FirstHottest, W

(* The scan takes the places in order: one turn more is one place more.     *)
LEMMA ScannedOn ==
    ASSUME NEW s \in Seq(Slots), \A i \in DOMAIN s : s[i].name # 0,
           NEW S \in SUBSET DOMAIN s, S # {}
    PROVE  /\ Max(S) \in S
           /\ Scanned(s, S) = Turn(Scanned(s, S \ {Max(S)}), s[Max(S)])
<1> DEFINE x == Max(S)  T == S \ {x}
<1>1. x \in S /\ \A j \in S : j <= x
  BY Places, FirstAndLast
<1> HIDE DEF x
<1>2. /\ x \in DOMAIN s /\ x \in Int /\ s[x].value \in Int
      /\ T \in SUBSET DOMAIN s
      /\ \A j \in T : j \in Int /\ j < x /\ s[j].value \in Int
  BY <1>1, Places
<1> HIDE DEF T
<1>3. Warm(s, S) = Warm(s, T) \cup (IF s[x].has THEN {x} ELSE {})
  BY <1>1 DEF Warm, T
<1>4. CASE ~ s[x].has
  <2>1. Warm(s, S) = Warm(s, T)
    BY <1>3, <1>4
  <2>2. Scanned(s, S) = Scanned(s, T)
    BY <2>1 DEF Scanned, FirstHottest, IsFirstHottest
  <2> QED BY <1>1, <1>4, <2>2 DEF Turn, x, T
<1>5. CASE s[x].has /\ Warm(s, T) = {}
  <2>1. Warm(s, S) = {x}
    BY <1>3, <1>5
  <2>2. FirstHottest(s, S) = x
    BY <2>1, FirstHottestExists
  <2>3. Scanned(s, S) = s[x] /\ Scanned(s, T) = Empty
    BY <1>5, <2>1, <2>2 DEF Scanned
  <2> QED BY <1>1, <1>5, <2>3 DEF Turn, x, T
<1>6. CASE s[x].has /\ Warm(s, T) # {}
  <2> DEFINE f == FirstHottest(s, T)
  <2>1. f \in Warm(s, T) /\ IsFirstHottest(s, T, f)
    BY <1>2, <1>6, FirstHottestExists
  <2>2. f \in T /\ Scanned(s, T) = s[f]
    BY <1>6, <2>1 DEF Scanned, Warm
  <2> HIDE DEF f
  <2>3. s[f] # Empty
    <3>1. f \in DOMAIN s
      BY <1>2, <2>2
    <3> QED BY <3>1 DEF Empty
  <2>4. Warm(s, S) = Warm(s, T) \cup {x} /\ Warm(s, T) \subseteq T
    BY <1>3, <1>6 DEF Warm
  <2>5. CASE s[x].value > s[f].value
    <3>1. IsFirstHottest(s, S, x)
      <4> SUFFICES ASSUME NEW j \in Warm(s, S), j # x PROVE s[j].value < s[x].value
        BY <1>2 DEF IsFirstHottest
      <4>1. j \in Warm(s, T) /\ j \in T
        BY <2>4
      <4>2. s[j].value <= s[f].value
        BY <1>2, <2>1, <2>2, <4>1 DEF IsFirstHottest
      <4> QED BY <1>2, <2>2, <2>5, <4>1, <4>2
    <3>2. FirstHottest(s, S) = x
      BY <2>4, <3>1, FirstHottestExists
    <3> QED BY <1>1, <1>6, <2>2, <2>4, <2>5, <3>2 DEF Scanned, Turn, x, T
  <2>6. CASE ~ (s[x].value > s[f].value)
    <3>1. IsFirstHottest(s, S, f)
      <4> SUFFICES ASSUME NEW j \in Warm(s, S)
                   PROVE  s[j].value < s[f].value \/ (s[j].value = s[f].value /\ f <= j)
        BY DEF IsFirstHottest
      <4>1. CASE j = x
        BY <1>2, <2>2, <2>6, <4>1
      <4>2. CASE j # x
        BY <2>1, <2>4, <4>2 DEF IsFirstHottest
      <4> QED BY <4>1, <4>2
    <3>2. FirstHottest(s, S) = f
      BY <2>1, <2>4, <3>1, FirstHottestExists
    <3> QED BY <1>1, <1>6, <2>2, <2>3, <2>4, <2>6, <3>2 DEF Scanned, Turn, x, T
  <2> QED BY <2>5, <2>6
<1> QED BY <1>4, <1>5, <1>6

(* The fold of Hottest ends with that element.                              *)
LEMMA HottestScans ==
    ASSUME NEW s \in Seq(Slots), \A i \in DOMAIN s : s[i].name # 0
    PROVE  Hottest(s) = Scanned(s, DOMAIN s)
<1> DEFINE D == DOMAIN s
           Scan(f) == [S \in SUBSET D |->
                         IF S = {} THEN Empty ELSE Turn(f[S \ {Max(S)}], s[Max(S)])]
           g == CHOOSE f : f = Scan(f)
           h == [S \in SUBSET D |-> Scanned(s, S)]
<1>1. Hottest(s) = g[D]
  BY DEF Hottest, FoldLeft, MapThenFoldSet, Turn
<1>2. h = Scan(h)
  <2> SUFFICES ASSUME NEW S \in SUBSET D
               PROVE  h[S] = IF S = {} THEN Empty ELSE Turn(h[S \ {Max(S)}], s[Max(S)])
    OBVIOUS
  <2>1. CASE S = {}
    <3>1. Warm(s, S) = {}
      BY <2>1 DEF Warm
    <3> QED BY <2>1, <3>1 DEF Scanned
  <2>2. CASE S # {}
    BY <2>2, ScannedOn
  <2> QED BY <2>1, <2>2
<1>3. g = Scan(g)
  <2> HIDE DEF h, Scan
  <2> QED BY <1>2
<1>4. g[D] = h[D]
  <2> DEFINE Bad == {S \in SUBSET D : g[S] # h[S]}
  <2>1. SUFFICES ASSUME Bad # {} PROVE FALSE
    BY DEF Bad
  <2>2. PICK S \in Bad : \A U \in SUBSET S : U # S => U \notin Bad
    <3>1. IsFiniteSet(D) /\ Bad \subseteq SUBSET D
      BY Places
    <3> HIDE DEF Bad, D
    <3> QED BY <2>1, <3>1, SmallestSubset
  <2>3. S \in SUBSET D /\ g[S] # h[S]
    OBVIOUS
  <2> HIDE DEF g, h
  <2>4. /\ g[S] = IF S = {} THEN Empty ELSE Turn(g[S \ {Max(S)}], s[Max(S)])
        /\ h[S] = IF S = {} THEN Empty ELSE Turn(h[S \ {Max(S)}], s[Max(S)])
    BY <1>2, <1>3, <2>3
  <2>5. CASE S # {}
    <3>1. Max(S) \in S
      BY <2>3, <2>5, ScannedOn
    <3>2. g[S \ {Max(S)}] = h[S \ {Max(S)}]
      BY <2>2, <2>3, <3>1
    <3> QED BY <2>3, <2>4, <3>2
  <2> QED BY <2>3, <2>4, <2>5
<1> QED BY <1>1, <1>4

(* In an array in the order of the names the first of some elements is the  *)
(* one at the first of their places.                                        *)
LEMMA FirstNamedIs ==
    ASSUME NEW s \in Seq(Slots), InOrder(s), NEW I \in SUBSET DOMAIN s,
           NEW k \in I, \A i \in I : k <= i
    PROVE  FirstNamed({s[i] : i \in I}) = s[k]
<1> DEFINE S == {s[i] : i \in I}
<1>1. \A i \in I : i \in Nat /\ s[i].name \in Int /\ s[k].name \in Int /\ k \in Nat
  BY Places
<1>2. \A i \in I : i # k => s[k].name < s[i].name
  BY <1>1 DEF InOrder
<1>3. s[k] \in S /\ \A e \in S : s[k].name <= e.name
  BY <1>1, <1>2
<1>4. \A e \in S : (\A f \in S : e.name <= f.name) => e = s[k]
  <2> SUFFICES ASSUME NEW i \in I, \A f \in S : s[i].name <= f.name PROVE s[i] = s[k]
    OBVIOUS
  <2>1. s[i].name <= s[k].name
    OBVIOUS
  <2> QED BY <1>1, <1>2, <2>1
<1> HIDE DEF S
<1>5. FirstNamed(S) = s[k]
  BY <1>3, <1>4 DEF FirstNamed
<1> QED BY <1>5 DEF S

(* The zone monitor shows is the hottest, and of several the first by name. *)
LEMMA HottestIs ==
    ASSUME NEW s \in Seq(Slots), InOrder(s), \A i \in DOMAIN s : s[i].name # 0
    PROVE  IsHottest(Hottest(s), Elements(s))
<1> DEFINE D == DOMAIN s
           W == Warm(s, D)
           warm == {z \in Elements(s) : z.has}
           top == {z \in warm : \A y \in warm : y.value <= z.value}
           I == {i \in W : \A j \in W : s[j].value <= s[i].value}
           k == FirstHottest(s, D)
<1>1. Hottest(s) = Scanned(s, D)
  BY HottestScans
<1>2. warm = {s[i] : i \in W} /\ W \subseteq D
  BY DEF Warm, Elements
<1>3. top = {s[i] : i \in I}
  BY <1>2
<1> HIDE DEF W, k
<1>4. CASE W = {}
  <2>1. warm = {}
    BY <1>2, <1>4
  <2> HIDE DEF warm
  <2>2. Hottest(s) = Empty
    BY <1>1, <1>4 DEF Scanned, W
  <2> QED BY <2>1, <2>2 DEF IsHottest, warm
<1>5. CASE W # {}
  <2>1. k \in W /\ IsFirstHottest(s, D, k)
    BY <1>5, FirstHottestExists DEF W, k
  <2>2. \A i \in W : i \in Int /\ s[i].value \in Int
    BY <1>2, Places
  <2>3. k \in I
    BY <2>1, <2>2 DEF IsFirstHottest, W
  <2>4. \A i \in I : k <= i
    BY <2>1, <2>2 DEF IsFirstHottest, W
  <2>5. I \in SUBSET D
    BY <1>2
  <2> HIDE DEF I, D
  <2>6. FirstNamed(top) = s[k]
    BY <1>3, <2>3, <2>4, <2>5, FirstNamedIs DEF D
  <2>7. warm # {}
    BY <1>2, <2>1
  <2>8. Hottest(s) = s[k]
    BY <1>1, <1>5 DEF Scanned, W, k, D
  <2> HIDE DEF warm
  <2> QED BY <2>6, <2>7, <2>8 DEF IsHottest, warm
<1> QED BY <1>4, <1>5

(* The interface monitor shows is the best there is, and of several the     *)
(* first by name.                                                           *)
LEMMA PrimaryIs ==
    ASSUME NEW s \in Seq(Slots), InOrder(s)
    PROVE  IsPrimary(Primary(s), Elements(s))
<1> DEFINE D == DOMAIN s
           best == {i \in Elements(s) : \A j \in Elements(s) : Rank(i) <= Rank(j)}
           I == {i \in D : \A j \in D : Rank(s[i]) <= Rank(s[j])}
           Up == {i \in D : s[i].name # Lo /\ s[i].text = "up"}
           Other == {i \in D : s[i].name # Lo}
<1>1. Len(s) \in Nat /\ D = 1..Len(s) /\ (s = <<>> <=> D = {})
  BY Places, EmptySeq
<1>2. best = {s[i] : i \in I} /\ I \in SUBSET D
  BY DEF Elements
<1>3. /\ \A i \in Up : Rank(s[i]) = 0
      /\ \A i \in Other \ Up : Rank(s[i]) = 1
      /\ \A i \in D \ Other : Rank(s[i]) = 2
      /\ Up \subseteq Other /\ Other \subseteq D
  BY DEF Rank
<1>4. /\ SelectInSeq(s, LAMBDA e : e.name # Lo /\ e.text = "up") = IF Up # {} THEN Min(Up) ELSE 0
      /\ SelectInSeq(s, LAMBDA e : e.name # Lo) = IF Other # {} THEN Min(Other) ELSE 0
  BY <1>1 DEF SelectInSeq
<1> HIDE DEF Up, Other, D
<1>5. \A S \in SUBSET D : S # {} => Min(S) \in S /\ Min(S) # 0 /\ \A j \in S : Min(S) <= j
  <2> TAKE S \in SUBSET D
  <2> HAVE S # {}
  <2>1. Min(S) \in S /\ \A j \in S : Min(S) <= j
    BY <1>1, FirstAndLast
  <2> QED BY <1>1, <2>1
<1>6. ASSUME D # {}
      PROVE  \E k \in I : Primary(s) = s[k] /\ \A i \in I : k <= i
  <2>1. CASE Up # {}
    <3>1. I = Up
      BY <1>3, <2>1
    <3>2. Primary(s) = s[Min(Up)]
      BY <1>1, <1>3, <1>4, <1>5, <1>6, <2>1 DEF Primary
    <3> QED BY <1>3, <1>5, <2>1, <3>1, <3>2
  <2>2. CASE Up = {} /\ Other # {}
    <3>1. I = Other
      BY <1>3, <2>2
    <3>2. Primary(s) = s[Min(Other)]
      BY <1>1, <1>3, <1>4, <1>5, <1>6, <2>2 DEF Primary
    <3> QED BY <1>3, <1>5, <2>2, <3>1, <3>2
  <2>3. CASE Other = {}
    <3>1. I = D /\ Up = {}
      BY <1>3, <2>3
    <3>2. Primary(s) = s[1]
      BY <1>1, <1>4, <1>6, <2>3, <3>1 DEF Primary
    <3> QED BY <1>1, <1>6, <3>1, <3>2
  <2> QED BY <2>1, <2>2, <2>3
<1>7. CASE D = {}
  <2>1. Elements(s) = {} /\ s = <<>>
    BY <1>1, <1>7 DEF Elements, D
  <2> QED BY <2>1 DEF IsPrimary, Primary
<1>8. CASE D # {}
  <2>1. PICK k \in I : Primary(s) = s[k] /\ \A i \in I : k <= i
    BY <1>6, <1>8
  <2> HIDE DEF I
  <2>2. FirstNamed(best) = s[k]
    BY <1>2, <2>1, FirstNamedIs DEF D
  <2>3. Elements(s) # {}
    BY <1>8 DEF Elements, D
  <2> HIDE DEF best
  <2> QED BY <2>1, <2>2, <2>3 DEF IsPrimary, best
<1> QED BY <1>7, <1>8

-----------------------------------------------------------------------------
(* Where the builtins that read are. *)

SurveyPlaces == {"survey", "surveyed", "unsurveyed"}
LoadPlaces == {"monitor", "cpu_first", "cpu_second", "memory", "load"}
InfoPlaces == {"hwinfo", "led_list", "led_info", "sysinfo", "cpuinfo", "meminfo", "dtinfo",
               "compatible"}
WalkPlaces == {"walk", "read_status"}

(* Places with something read that the next steps rely on.                  *)
KnownPlaces == SurveyPlaces \cup WalkPlaces
               \cup {"cpu_second", "memory", "load", "cpuinfo", "meminfo", "compatible"}

readVars == <<surveyVars, snapshotVars, infoVars>>

(* A step that goes from a place without knowledge to another or returns.   *)
Aside == call \notin KnownPlaces \cup {"return"} /\ call' \notin KnownPlaces

(* The steps of the shell, the configuration and the LED read nothing.      *)
LEMMA ShellAside ==
    ASSUME SessionInv, Enter \/ SimpleBuiltin \/ ConfigurationStep \/ LedStep \/ UNCHANGED vars
    PROVE  /\ UNCHANGED <<readVars, processVars>>
           /\ Aside \/ UNCHANGED <<call, ret>>
<1> USE DEF Aside, KnownPlaces, SurveyPlaces, WalkPlaces
<1>1. CASE Enter
  <2>1. session.commands[typed'] \in Builtin
    BY <1>1, SessionsAssumption DEF Enter, SessionInv
  <2>2. PICK step \in FirstSteps(session.commands[typed']) : Goto(step)
    BY <1>1 DEF Enter
  <2>3. step \notin KnownPlaces
    BY <2>1 DEF FirstSteps, Builtin
  <2> QED BY <1>1, <2>2, <2>3 DEF Enter, At, Goto, readVars
<1>2. CASE SimpleBuiltin
  BY <1>2 DEF SimpleBuiltin, At, Goto, Return, readVars
<1>3. CASE ConfigurationStep
  <2>1. call \in ConfigPlaces
    BY <1>3, ConfigurationElsewhere
  <2>2. call' \notin KnownPlaces \/ UNCHANGED <<call, ret>>
    BY <1>3 DEF ConfigurationStep, Locate, Load, OpenFails, Open, ReadLine, ReadEnds, Close,
                ChangeDirectory, Loaded, At, Goto, Return
  <2> QED BY <1>3, <2>1, <2>2 DEF ConfigurationStep, ConfigPlaces, readVars
<1>4. CASE LedStep
  <2>1. \/ UNCHANGED <<call, ret>>
        \/ call \in LedPlaces \cup {"led"} /\ call' \in LedPlaces \cup {"return"}
    BY <1>4 DEF LedStep, LedSteps, LedCommand, ReadMax, WriteTrigger, CheckTrigger,
                WriteBrightness, CheckBrightness, Write, LedFails, Blink, Meddle,
                At, Goto, Return, LedPlaces
  <2> QED BY <1>4, <2>1 DEF LedStep, LedPlaces, readVars
<1>5. CASE UNCHANGED vars
  BY <1>5 DEF vars, callVars, readVars
<1> QED BY <1>1, <1>2, <1>3, <1>4, <1>5

(* The surveys, the load of the system, and the listings.                   *)
LEMMA SurveyPlaced ==
    ASSUME Survey
    PROVE  call = "survey" /\ call' \in SurveyPlaces /\ UNCHANGED <<ret, kind>>
BY DEF Survey, ReadEntry, ReadSoc, EndSurvey, NoDirectory, At, Goto, SurveyPlaces, surveyVars

LEMMA SnapshotPlaced ==
    ASSUME SnapshotSteps
    PROVE  \/ /\ call \in LoadPlaces
              /\ call' \in LoadPlaces \cup {"return"} /\ UNCHANGED surveyVars
           \/ call = "load" /\ BeginSurvey("thermal")
           \/ ThermalRead
           \/ NetworkRead
BY DEF SnapshotSteps, Monitor, FirstSample, SecondSample, ReadMemory, ReadLoad, Fails,
       At, Goto, Return, LoadPlaces

LEMMA InfoPlaced ==
    ASSUME InfoSteps
    PROVE  \/ /\ call \in InfoPlaces
              /\ call' \in InfoPlaces \cup {"return"} /\ UNCHANGED surveyVars
           \/ call \in InfoPlaces /\ (BeginSurvey("hw_thermal") \/ BeginSurvey("soc"))
           \/ call = "surveyed" /\ BeginSurvey("hw_list")
           \/ /\ call = "surveyed" /\ kind \in {"hw_list", "soc"}
              /\ call' = "return" /\ UNCHANGED surveyVars
<1> USE DEF InfoPlaces, At, Goto, Return
<1>1. CASE CollectHardware
  BY <1>1 DEF CollectHardware
<1>2. CASE NextSection
  BY <1>2 DEF NextSection
<1>3. CASE PrintHardware
  BY <1>3 DEF PrintHardware
<1>4. CASE MemoryAndUptime
  BY <1>4 DEF MemoryAndUptime
<1>5. CASE PrintSystem
  BY <1>5 DEF PrintSystem
<1>6. CASE Identify \/ CpuLine \/ EndCpuInfo
  BY <1>6 DEF Identify, CpuLine, EndCpuInfo
<1>7. CASE DeviceTree \/ SplitItem \/ EndSplit
  BY <1>7 DEF DeviceTree, SplitItem, EndSplit
<1> QED BY <1>1, <1>2, <1>3, <1>4, <1>5, <1>6, <1>7 DEF InfoSteps

(* The walk over the processes.                                             *)
LEMMA WalkPlaced ==
    ASSUME ProcessStep
    PROVE  /\ UNCHANGED readVars
           /\ call \in WalkPlaces \cup {"psinfo", "psinfo_pid"}
           /\ call' \in WalkPlaces \cup {"return"}
BY DEF ProcessStep, ProcessSteps, Psinfo, NextEntry, ReadStatus, EndWalk, PsinfoOf, Begins, Ends,
       Walking, At, Goto, Return, WalkPlaces, readVars

-----------------------------------------------------------------------------
(* The surveys. *)

SurveyFresh == kind = "none" /\ slots = <<>> /\ slot = Empty /\ offered = <<>>

SurveyTypes ==
    /\ kind \in Kinds \cup {"none"}
    /\ slots \in Seq(Slots) /\ Len(slots) <= Limit /\ slot \in Slots

(* An element of the array shows what was read for its entry.               *)
OwnIn(o, e) ==
    /\ e.name \in DOMAIN o
    /\ e.text = o[e.name].text
    /\ [has |-> e.has, value |-> e.value] = o[e.name].number
SocIn(o, n) == o[n].text = "soc" /\ o[n].number.has

(* What the array s holds when o was read from a directory of kind k.       *)
ReadFrom(k, s, o) ==
    /\ \A i \in DOMAIN s : OwnIn(o, s[i]) /\ s[i].name # 0
    /\ \A i, j \in DOMAIN s : s[i].name = s[j].name => i = j
    /\ k # "soc" => {s[i].name : i \in DOMAIN s} = {n \in DOMAIN o : ~ Stops(k, o[n].text)}
    /\ k = "soc" => /\ s = <<>> => \A n \in DOMAIN o : ~ SocIn(o, n)
                    /\ \A i \in DOMAIN s : SocIn(o, s[i].name)

(* The next element was written to by an entry that stopped at its first    *)
(* attribute, if at all; the search for the SoC ends when it has found it.  *)
SurveyFound ==
    /\ slot.text = "none" /\ slot.has = FALSE /\ slot.value = 0
    /\ ReadFrom(kind, slots, offered)
    /\ kind = "soc" /\ call = "survey" => slots = <<>>

SurveyInv ==
    /\ SurveyTypes /\ SurveyFound
    /\ call \notin SurveyPlaces \cup {"return"} => SurveyFresh
    /\ call \in SurveyPlaces => kind \in Kinds
    /\ call = "unsurveyed" => kind \in {"thermal", "network"} /\ slots = <<>>
    /\ call = "surveyed" /\ kind \in {"thermal", "network"} => InOrder(slots)

(* It says what a survey has to find.                                       *)
LEMMA SurveyInvRight == ASSUME SurveyInv PROVE SurveyRight
<1> DEFINE names == {slots[i].name : i \in DOMAIN slots}
<1>1. ReadFrom(kind, slots, offered)
  BY DEF SurveyInv, SurveyFound
<1>2. /\ \A i \in DOMAIN slots : OwnReading(slots[i])
      /\ \A i, j \in DOMAIN slots : slots[i].name = slots[j].name => i = j
  BY <1>1 DEF ReadFrom, OwnIn, OwnReading
<1>3. CASE kind = "soc"
  <2>1. CASE slots = <<>>
    <3>1. names = {} /\ \A n \in DOMAIN offered : ~ IsSoc(n)
      BY <1>1, <1>3, <2>1 DEF ReadFrom, SocIn, IsSoc
    <3> HIDE DEF names
    <3> QED BY <1>2, <1>3, <3>1 DEF SurveyRight, names
  <2>2. CASE slots # <<>>
    <3>1. 1 \in DOMAIN slots
      BY <2>2, Places, EmptySeq DEF SurveyInv, SurveyTypes
    <3>2. slots[1].name \in names /\ IsSoc(slots[1].name) /\ slots[1].name \in DOMAIN offered
      BY <1>1, <1>3, <3>1 DEF ReadFrom, SocIn, IsSoc, OwnIn
    <3> HIDE DEF names
    <3> QED BY <1>2, <1>3, <3>2 DEF SurveyRight, names
  <2> QED BY <2>1, <2>2
<1>4. CASE kind # "soc"
  <2>1. names = {n \in DOMAIN offered : Listable(n)}
    BY <1>1, <1>4 DEF ReadFrom, Listable
  <2> HIDE DEF names
  <2> QED BY <1>2, <1>4, <2>1 DEF SurveyRight, names
<1> QED BY <1>3, <1>4

(* An empty array, before a survey or without one.                          *)
NothingRead ==
    /\ slots = <<>> /\ slot = Empty /\ offered = <<>>
    /\ \/ call = "survey" /\ kind \in Kinds
       \/ call \notin SurveyPlaces /\ kind = "none"
LEMMA NothingSurveyed == NothingRead => SurveyInv
<1> SUFFICES ASSUME NothingRead PROVE SurveyInv
  OBVIOUS
<1> USE DEF NothingRead
<1>1. Empty \in Slots
  BY DEF Empty, Slots
<1>2. DOMAIN slots = {} /\ DOMAIN offered = {} /\ slots \in Seq(Slots) /\ Len(slots) = 0
  OBVIOUS
<1>3. SurveyTypes
  BY <1>1, <1>2, SurveyAssumption DEF SurveyTypes
<1>4. SurveyFound
  <2>1. {slots[i].name : i \in DOMAIN slots}
          = {n \in DOMAIN offered : ~ Stops(kind, offered[n].text)}
    BY <1>2
  <2>2. ReadFrom(kind, slots, offered)
    BY <1>2, <2>1 DEF ReadFrom
  <2> QED BY <2>2 DEF SurveyFound, Empty
<1>5. InOrder(slots)
  BY <1>2 DEF InOrder
<1> QED BY <1>3, <1>4, <1>5 DEF SurveyInv, SurveyFresh, SurveyPlaces

LEMMA SurveyBegins ==
    ASSUME NEW k \in Kinds, BeginSurvey(k)
    PROVE  SurveyInv'
<1>1. NothingRead'
  BY DEF BeginSurvey, Cleared, Goto, NothingRead
<1> QED BY <1>1, NothingSurveyed, PTL

(* A step that does not survey keeps what a survey has found.               *)
LEMMA SurveyKept ==
    ASSUME SurveyInv, UNCHANGED surveyVars,
           \/ UNCHANGED call
           \/ call' = "return"
           \/ call \notin SurveyPlaces \cup {"return"} /\ call' \notin SurveyPlaces
    PROVE  SurveyInv'
<1>1. UNCHANGED <<kind, slots, slot, offered>>
  BY DEF surveyVars
<1>2. SurveyTypes'
  BY <1>1 DEF SurveyInv, SurveyTypes
<1>3. SurveyFound'
  <2>1. kind = "soc" /\ call' = "survey" => slots = <<>>
    <3>1. kind # "none" => call \in SurveyPlaces \cup {"return"}
      BY DEF SurveyInv, SurveyFresh
    <3> QED BY <3>1 DEF SurveyInv, SurveyFound, SurveyPlaces
  <2> QED BY <1>1, <2>1 DEF SurveyInv, SurveyFound
<1> QED BY <1>1, <1>2, <1>3 DEF SurveyInv, SurveyFresh, SurveyPlaces, InOrder

(* An element of the array is what was read for one entry.                  *)
LEMMA FilledIs ==
    ASSUME SurveyFound, kind \in Kinds,
           NEW n \in Names, NEW text \in Texts(kind), NEW number \in NumbersOf(kind)
    PROVE  /\ number.has \in BOOLEAN /\ number.value \in Values \cup {0}
           /\ number = [has |-> number.has, value |-> number.value]
           /\ Filled(slot, n, text, number) =
                 IF Stops(kind, text)
                 THEN [name |-> n, text |-> "none", has |-> FALSE, value |-> 0]
                 ELSE [name |-> n, text |-> text, has |-> number.has, value |-> number.value]
           /\ Filled(slot, n, text, number) \in Slots
<1>1. \/ number = [has |-> FALSE, value |-> 0]
      \/ \E v \in Values \cup {0} : number = [has |-> TRUE, value |-> v]
  BY DEF NumbersOf
<1>2. /\ number.has \in BOOLEAN /\ number.value \in Values \cup {0}
      /\ number = [has |-> number.has, value |-> number.value]
      /\ number.has = FALSE => number.value = 0
  <2>1. CASE number = [has |-> FALSE, value |-> 0]
    BY <2>1
  <2>2. ASSUME NEW v \in Values \cup {0}, number = [has |-> TRUE, value |-> v]
        PROVE  /\ number.has = TRUE /\ number.value = v
               /\ number = [has |-> number.has, value |-> number.value]
    BY <2>2
  <2> QED BY <1>1, <2>1, <2>2
<1>3. slot.text = "none" /\ slot.has = FALSE /\ slot.value = 0
  BY DEF SurveyFound
<1>4. CASE Stops(kind, text)
  <2>1. Filled(slot, n, text, number) = [name |-> n, text |-> "none", has |-> FALSE, value |-> 0]
    BY <1>3, <1>4 DEF Filled
  <2> QED BY <1>2, <1>4, <2>1 DEF Slots
<1>5. CASE ~ Stops(kind, text)
  <2>1. Filled(slot, n, text, number) =
          [name |-> n, text |-> text, has |-> number.has, value |-> number.value]
    BY <1>2, <1>3, <1>5 DEF Filled
  <2>2. text \in {"none", "up", "down", "soc", "other"}
    BY DEF Texts, Kinds
  <2> QED BY <1>2, <1>5, <2>1, <2>2 DEF Slots
<1> QED BY <1>4, <1>5

(* One entry more: it is the only one of its name.                          *)
LEMMA ReadEntryStep ==
    ASSUME SurveyInv, ReadEntry PROVE SurveyInv'
<1> USE DEF SurveyPlaces
<1>1. /\ call = "survey" /\ call' = "survey" /\ kind \in Kinds /\ kind # "soc" /\ kind' = kind
      /\ Len(slots) < Limit
  BY DEF SurveyInv, ReadEntry, At
<1>2. PICK n \in Names \ DOMAIN offered, text \in Texts(kind), number \in NumbersOf(kind) :
        /\ offered' = Noted(n, text, number)
        /\ IF Stops(kind, text)
           THEN slot' = Filled(slot, n, text, number) /\ UNCHANGED slots
           ELSE slot' = Empty /\ slots' = Append(slots, Filled(slot, n, text, number))
  BY DEF ReadEntry
<1> DEFINE e == Filled(slot, n, text, number)
<1>3. /\ number = [has |-> number.has, value |-> number.value]
      /\ e \in Slots
      /\ e = IF Stops(kind, text)
             THEN [name |-> n, text |-> "none", has |-> FALSE, value |-> 0]
             ELSE [name |-> n, text |-> text, has |-> number.has, value |-> number.value]
  BY <1>1, FilledIs DEF SurveyInv
<1>4. /\ DOMAIN offered' = DOMAIN offered \cup {n}
      /\ offered'[n] = [text |-> text, number |-> number]
      /\ \A m \in DOMAIN offered : offered'[m] = offered[m]
  BY <1>2 DEF Noted
<1>5. n # 0
  BY SurveyAssumption
<1>6. /\ SurveyTypes /\ SurveyFound /\ ReadFrom(kind, slots, offered)
      /\ Len(slots) \in Nat /\ DOMAIN slots = 1..Len(slots)
  BY Places DEF SurveyInv, SurveyTypes, SurveyFound
<1>7. \A i \in DOMAIN slots : slots[i].name # n /\ slots[i].name # 0 /\ OwnIn(offered', slots[i])
  BY <1>4, <1>6 DEF ReadFrom, OwnIn
<1> DEFINE listed == {m \in DOMAIN offered : ~ Stops(kind, offered[m].text)}
<1>8. /\ {slots[i].name : i \in DOMAIN slots} = listed
      /\ {m \in DOMAIN offered' : ~ Stops(kind, offered'[m].text)}
            = listed \cup (IF Stops(kind, text) THEN {} ELSE {n})
  <2>1. {slots[i].name : i \in DOMAIN slots} = listed
    BY <1>1, <1>6 DEF ReadFrom
  <2>2. Stops(kind, offered'[n].text) <=> Stops(kind, text)
    BY <1>4
  <2>3. \A m \in DOMAIN offered : Stops(kind, offered'[m].text) <=> Stops(kind, offered[m].text)
    BY <1>4
  <2>4. {m \in DOMAIN offered' : ~ Stops(kind, offered'[m].text)}
            = listed \cup (IF Stops(kind, text) THEN {} ELSE {n})
    BY <1>4, <2>2, <2>3
  <2> QED BY <2>1, <2>4
<1> HIDE DEF e, listed
<1>9. CASE Stops(kind, text)
  <2>1. slot' = e /\ slots' = slots
    BY <1>2, <1>9 DEF e
  <2>2. SurveyTypes'
    BY <1>1, <1>3, <1>6, <2>1 DEF SurveyTypes
  <2>3. ReadFrom(kind, slots, offered')
    BY <1>1, <1>6, <1>7, <1>8, <1>9 DEF ReadFrom
  <2>4. SurveyFound'
    BY <1>1, <1>3, <1>9, <2>1, <2>3 DEF SurveyFound
  <2> QED BY <1>1, <2>2, <2>4 DEF SurveyInv
<1>10. CASE ~ Stops(kind, text)
  <2>1. slot' = Empty /\ slots' = Append(slots, e)
    BY <1>2, <1>10 DEF e
  <2>2. /\ slots' \in Seq(Slots) /\ Len(slots') = Len(slots) + 1
        /\ DOMAIN slots' = 1..(Len(slots) + 1)
        /\ slots'[Len(slots) + 1] = e
        /\ \A i \in 1..Len(slots) : slots'[i] = slots[i]
    BY <1>3, <1>6, <2>1 DEF SurveyTypes
  <2>3. SurveyTypes'
    <3>1. Empty \in Slots
      BY DEF Empty, Slots
    <3>2. Len(slots) + 1 <= Limit
      BY <1>1, <1>6, SurveyAssumption
    <3> QED BY <1>1, <2>1, <2>2, <3>1, <3>2 DEF SurveyTypes
  <2>4. OwnIn(offered', e) /\ e.name = n
    <3>1. e.name = n /\ e.text = text /\ [has |-> e.has, value |-> e.value] = number
      BY <1>3, <1>10
    <3> QED BY <1>4, <3>1 DEF OwnIn
  <2>5. \A i \in DOMAIN slots' : \/ i \in DOMAIN slots /\ slots'[i] = slots[i]
                                 \/ i = Len(slots) + 1 /\ slots'[i] = e
    BY <1>6, <2>2
  <2>6. \A i \in DOMAIN slots' : OwnIn(offered', slots'[i]) /\ slots'[i].name # 0
    BY <1>5, <1>7, <2>4, <2>5
  <2>7. ASSUME NEW i \in DOMAIN slots', NEW j \in DOMAIN slots', slots'[i].name = slots'[j].name
        PROVE  i = j
    <3>1. CASE i \in DOMAIN slots /\ j \in DOMAIN slots
      <4>1. slots'[i] = slots[i] /\ slots'[j] = slots[j]
        BY <1>6, <2>2, <3>1
      <4> QED BY <1>6, <2>7, <3>1, <4>1 DEF ReadFrom
    <3>2. CASE i \notin DOMAIN slots
      <4>1. slots'[j].name = n
        BY <2>4, <2>5, <2>7, <3>2
      <4>2. j \notin DOMAIN slots
        BY <1>6, <1>7, <2>2, <4>1
      <4> QED BY <2>5, <3>2, <4>2
    <3>3. CASE j \notin DOMAIN slots
      <4>1. slots'[i].name = n
        BY <2>4, <2>5, <2>7, <3>3
      <4>2. i \notin DOMAIN slots
        BY <1>6, <1>7, <2>2, <4>1
      <4> QED BY <2>5, <3>3, <4>2
    <3> QED BY <3>1, <3>2, <3>3
  <2>8. {slots'[i].name : i \in DOMAIN slots'}
            = {m \in DOMAIN offered' : ~ Stops(kind, offered'[m].text)}
    <3>1. {slots'[i].name : i \in DOMAIN slots'} = {slots[i].name : i \in DOMAIN slots} \cup {n}
      BY <1>6, <2>2, <2>4, <2>5
    <3> QED BY <1>8, <1>10, <3>1
  <2>9. ReadFrom(kind, slots', offered')
    BY <1>1, <2>6, <2>7, <2>8 DEF ReadFrom
  <2>10. SurveyFound'
    BY <1>1, <2>1, <2>9 DEF SurveyFound, Empty
  <2> QED BY <1>1, <2>3, <2>10 DEF SurveyInv
<1> QED BY <1>9, <1>10

(* The search for the SoC goes on until it has found one.                   *)
LEMMA ReadSocStep ==
    ASSUME SurveyInv, ReadSoc PROVE SurveyInv'
<1> USE DEF SurveyPlaces
<1>1. /\ call = "survey" /\ kind = "soc" /\ kind' = "soc" /\ slot' = slot
      /\ SurveyTypes /\ SurveyFound /\ slots = <<>> /\ ReadFrom("soc", <<>>, offered)
  BY DEF SurveyInv, SurveyFound, ReadSoc, At
<1>2. PICK n \in Names \ DOMAIN offered, text \in Texts("soc"), number \in NumbersOf(kind) :
        /\ offered' = Noted(n, text, number)
        /\ IF text = "soc" /\ number.has
           THEN /\ slots' = <<[name |-> n, text |-> text, has |-> TRUE, value |-> number.value]>>
                /\ Goto("surveyed")
           ELSE UNCHANGED <<slots, call, ret>>
  BY DEF ReadSoc
<1>3. /\ number.has \in BOOLEAN /\ number.value \in Values \cup {0}
      /\ number = [has |-> number.has, value |-> number.value]
  BY <1>1, FilledIs DEF Kinds
<1>4. /\ DOMAIN offered' = DOMAIN offered \cup {n}
      /\ offered'[n] = [text |-> text, number |-> number]
      /\ \A m \in DOMAIN offered : offered'[m] = offered[m]
  BY <1>2 DEF Noted
<1>5. n # 0
  BY SurveyAssumption
<1>6. CASE text = "soc" /\ number.has
  <2> DEFINE e == [name |-> n, text |-> text, has |-> TRUE, value |-> number.value]
  <2>1. slots' = <<e>> /\ call' = "surveyed"
    BY <1>2, <1>6 DEF Goto
  <2>2. e \in Slots
    BY <1>3, <1>6 DEF Slots
  <2>3. e.name = n /\ OwnIn(offered', e) /\ SocIn(offered', n)
    BY <1>3, <1>4, <1>6 DEF OwnIn, SocIn
  <2> HIDE DEF e
  <2>4. /\ slots' \in Seq(Slots) /\ Len(slots') = 1 /\ slots' # <<>>
        /\ DOMAIN slots' = {1} /\ slots'[1] = e
    BY <2>1, <2>2
  <2>5. SurveyTypes'
    BY <1>1, <2>4, SurveyAssumption DEF SurveyTypes
  <2>6. ReadFrom("soc", slots', offered')
    BY <1>5, <2>3, <2>4 DEF ReadFrom
  <2>7. SurveyFound'
    BY <1>1, <2>1, <2>6 DEF SurveyFound
  <2> QED BY <1>1, <2>1, <2>5, <2>7 DEF SurveyInv, Kinds
<1>7. CASE ~ (text = "soc" /\ number.has)
  <2>1. slots' = <<>> /\ call' = "survey"
    BY <1>1, <1>2, <1>7
  <2>2. \A m \in DOMAIN offered' : ~ SocIn(offered', m)
    <3>1. ~ SocIn(offered', n)
      BY <1>4, <1>7 DEF SocIn
    <3>2. \A m \in DOMAIN offered : ~ SocIn(offered', m)
      BY <1>1, <1>4 DEF SocIn, ReadFrom
    <3> QED BY <1>4, <3>1, <3>2
  <2>3. SurveyTypes'
    BY <1>1, <2>1 DEF SurveyTypes
  <2>4. ReadFrom("soc", <<>>, offered')
    BY <2>2 DEF ReadFrom
  <2>5. SurveyFound'
    BY <1>1, <2>1, <2>4 DEF SurveyFound
  <2> QED BY <1>1, <2>1, <2>3, <2>5 DEF SurveyInv, Kinds
<1> QED BY <1>6, <1>7

(* qsort leaves the same elements, in the order of their names.             *)
LEMMA EndSurveyStep ==
    ASSUME SurveyInv, EndSurvey PROVE SurveyInv'
<1> USE DEF SurveyPlaces
<1>1. /\ call = "survey" /\ call' = "surveyed" /\ kind \in Kinds
      /\ UNCHANGED <<kind, slot, offered>>
      /\ SurveyTypes /\ SurveyFound /\ ReadFrom(kind, slots, offered)
  BY DEF SurveyInv, SurveyFound, EndSurvey, At, Goto
<1>2. CASE kind \notin {"thermal", "network"}
  <2>1. slots' = slots
    BY <1>2 DEF EndSurvey
  <2>2. SurveyTypes'
    BY <1>1, <2>1 DEF SurveyTypes
  <2>3. SurveyFound'
    BY <1>1, <2>1 DEF SurveyFound
  <2> QED BY <1>1, <1>2, <2>2, <2>3 DEF SurveyInv
<1>3. CASE kind \in {"thermal", "network"}
  <2>1. /\ slots' \in Arrangements(slots)
        /\ \A i, j \in DOMAIN slots' : i < j => slots'[i].name <= slots'[j].name
    BY <1>3 DEF EndSurvey, Ordered
  <2>2. slots \in Seq(Slots)
    BY <1>1 DEF SurveyTypes
  <2>3. slots' \in Seq(Slots) /\ Len(slots') = Len(slots) /\ DOMAIN slots' = DOMAIN slots
    BY <2>1, <2>2, Arranged
  <2>4. PICK p \in [DOMAIN slots -> DOMAIN slots] :
          /\ \A i \in DOMAIN slots : slots'[i] = slots[p[i]]
          /\ \A i, j \in DOMAIN slots : p[i] = p[j] => i = j
          /\ \A j \in DOMAIN slots : \E i \in DOMAIN slots : p[i] = j
    BY <2>1, <2>2, Arranged
  <2>5. \A i \in DOMAIN slots : p[i] \in DOMAIN slots
    OBVIOUS
  <2>6. \A i \in DOMAIN slots' : OwnIn(offered', slots'[i]) /\ slots'[i].name # 0
    BY <1>1, <2>3, <2>4, <2>5 DEF ReadFrom
  <2>7. ASSUME NEW i \in DOMAIN slots', NEW j \in DOMAIN slots', slots'[i].name = slots'[j].name
        PROVE  i = j
    <3>1. /\ i \in DOMAIN slots /\ j \in DOMAIN slots
          /\ p[i] \in DOMAIN slots /\ p[j] \in DOMAIN slots
          /\ slots'[i] = slots[p[i]] /\ slots'[j] = slots[p[j]]
      BY <2>3, <2>4, <2>5
    <3>2. slots[p[i]].name = slots[p[j]].name
      BY <2>7, <3>1
    <3>3. p[i] = p[j]
      BY <1>1, <3>1, <3>2 DEF ReadFrom
    <3> QED BY <2>4, <3>1, <3>3
  <2>8. {slots'[i].name : i \in DOMAIN slots'} = {slots[i].name : i \in DOMAIN slots}
    BY <2>3, <2>4, <2>5
  <2>9. SurveyTypes'
    BY <1>1, <2>3 DEF SurveyTypes
  <2>10. ReadFrom(kind, slots', offered')
    BY <1>1, <1>3, <2>6, <2>7, <2>8 DEF ReadFrom
  <2>11. SurveyFound'
    BY <1>1, <2>10 DEF SurveyFound
  <2>12. InOrder(slots)'
    <3> SUFFICES ASSUME NEW i \in DOMAIN slots', NEW j \in DOMAIN slots', i < j
                 PROVE  slots'[i].name < slots'[j].name
      BY DEF InOrder
    <3>1. slots'[i].name \in Int /\ slots'[j].name \in Int /\ i \in Nat
      BY <2>3, Places
    <3>2. slots'[i].name <= slots'[j].name
      BY <2>1
    <3>3. slots'[i].name # slots'[j].name
      <4> SUFFICES ASSUME slots'[i].name = slots'[j].name PROVE FALSE
        OBVIOUS
      <4>1. i = j
        BY <2>7
      <4> QED BY <3>1, <4>1
    <3> QED BY <3>1, <3>2, <3>3
  <2> QED BY <1>1, <2>9, <2>11, <2>12 DEF SurveyInv
<1> QED BY <1>2, <1>3

(* A directory that cannot be opened gives an empty array.                  *)
LEMMA NoDirectoryStep ==
    ASSUME SurveyInv, NoDirectory PROVE SurveyInv'
<1> USE DEF SurveyPlaces
<1>1. /\ call = "survey" /\ kind \in Kinds /\ offered = <<>>
      /\ call' = IF kind \in {"thermal", "network"} THEN "unsurveyed" ELSE "surveyed"
      /\ UNCHANGED <<kind, slots, slot, offered>>
      /\ SurveyTypes /\ SurveyFound
  BY DEF SurveyInv, NoDirectory, At, Goto, surveyVars
<1>2. slots = <<>>
  <2>1. \A i \in DOMAIN slots : slots[i].name \in DOMAIN offered
    BY <1>1 DEF SurveyFound, ReadFrom, OwnIn
  <2>2. DOMAIN slots = {}
    BY <1>1, <2>1
  <2> QED BY <1>1, <2>2, Places, EmptySeq DEF SurveyTypes
<1>3. SurveyTypes'
  BY <1>1 DEF SurveyTypes
<1>4. SurveyFound'
  BY <1>1 DEF SurveyFound
<1> QED BY <1>1, <1>2, <1>3, <1>4 DEF SurveyInv

LEMMA SurveyInitially == Init => SurveyInv
<1>1. Init => NothingRead
  BY DEF Init, SurveyInit, NothingRead, SurveyPlaces
<1> QED BY <1>1, NothingSurveyed

(* Every step keeps what the surveys have found.                            *)
LEMMA SurveyStepKeeps ==
    ASSUME SessionInv, SurveyInv, [Next]_vars PROVE SurveyInv'
<1> USE DEF SurveyPlaces
<1>1. CASE Enter \/ SimpleBuiltin \/ ConfigurationStep \/ LedStep \/ UNCHANGED vars
  <2>1. UNCHANGED surveyVars /\ (Aside \/ UNCHANGED call)
    BY <1>1, ShellAside DEF readVars
  <2> QED BY <2>1, SurveyKept DEF Aside, KnownPlaces
<1>2. CASE Finish
  <2>1. NothingRead'
    BY <1>2 DEF Finish, Cleared, NothingRead
  <2> QED BY <2>1, NothingSurveyed, PTL
<1>3. CASE SurveyStep
  BY <1>3, ReadEntryStep, ReadSocStep, EndSurveyStep, NoDirectoryStep DEF SurveyStep, Survey
<1>4. CASE SnapshotStep
  <2>1. CASE ThermalRead
    BY <2>1, SurveyBegins DEF ThermalRead, Kinds
  <2>2. CASE NetworkRead
    BY <2>2, SurveyKept DEF NetworkRead, Return
  <2>3. CASE call = "load" /\ BeginSurvey("thermal")
    BY <2>3, SurveyBegins DEF Kinds
  <2>4. CASE /\ call \in LoadPlaces
             /\ call' \in LoadPlaces \cup {"return"} /\ UNCHANGED surveyVars
    BY <2>4, SurveyKept DEF LoadPlaces
  <2> QED BY <1>4, <2>1, <2>2, <2>3, <2>4, SnapshotPlaced DEF SnapshotStep
<1>5. CASE InfoStep
  <2>1. CASE BeginSurvey("hw_thermal") \/ BeginSurvey("soc") \/ BeginSurvey("hw_list")
    BY <2>1, SurveyBegins DEF Kinds
  <2>2. CASE /\ call \in InfoPlaces
             /\ call' \in InfoPlaces \cup {"return"} /\ UNCHANGED surveyVars
    BY <2>2, SurveyKept DEF InfoPlaces
  <2>3. CASE call' = "return" /\ UNCHANGED surveyVars
    BY <2>3, SurveyKept
  <2> QED BY <1>5, <2>1, <2>2, <2>3, InfoPlaced DEF InfoStep
<1>6. CASE ProcessStep
  BY <1>6, WalkPlaced, SurveyKept DEF readVars, WalkPlaces
<1> QED BY <1>1, <1>2, <1>3, <1>4, <1>5, <1>6 DEF Next, Over

-----------------------------------------------------------------------------
(* monitor. *)

SnapshotInv ==
    /\ thermal \in Seq(Slots) /\ InOrder(thermal)
    /\ \A i \in DOMAIN thermal : thermal[i].name # 0
    /\ available \subseteq {"thermal", "network"}
    /\ "thermal" \notin available => thermal = <<>>
    /\ call = "cpu_second" => sample \in CpuSamples
    /\ call \in {"memory", "load"} => Share(usage)
    /\ call = "load" => Share(memory)
    /\ kind \in {"thermal", "network"} => Share(usage) /\ Share(memory)
    /\ SnapshotRight

(* A step that leaves the snapshot alone and is none of monitor's.          *)
LEMMA SnapshotKept ==
    ASSUME SnapshotInv, UNCHANGED snapshotVars,
           UNCHANGED call \/ call' \notin {"cpu_second", "memory", "load"},
           kind' \in {"thermal", "network"} => kind' = kind,
           \/ UNCHANGED <<call, ret, kind, slots>>
           \/ call' # "return" \/ ret' # "ok" \/ kind' # "network"
    PROVE  SnapshotInv'
<1>1. UNCHANGED <<sample, usage, memory, thermal, available, shown>>
  BY DEF snapshotVars
<1>2. SnapshotRight'
  BY <1>1 DEF SnapshotInv, SnapshotRight, At
<1> QED BY <1>1, <1>2 DEF SnapshotInv, InOrder

(* The load of the system: a share that is shown is between nothing and all.*)
LEMMA LoadStep ==
    ASSUME SnapshotInv, call \in LoadPlaces,
           Monitor \/ FirstSample \/ SecondSample \/ ReadMemory \/ ReadLoad
    PROVE  SnapshotInv'
<1> USE DEF At, Goto, Return, Fails
<1>1. CASE Monitor
  <2>1. /\ UNCHANGED <<snapshotVars, kind>>
        /\ call' \notin {"cpu_second", "memory", "load"} /\ (call' # "return" \/ ret' # "ok")
    BY <1>1 DEF Monitor, surveyVars
  <2> QED BY <2>1, SnapshotKept
<1>2. CASE FirstSample
  <2>1. /\ UNCHANGED <<usage, memory, thermal, available, shown, kind, slots>>
        /\ \/ call' = "cpu_second" /\ sample' \in CpuSamples
           \/ call' = "return" /\ ret' # "ok"
    BY <1>2 DEF FirstSample, surveyVars
  <2> QED BY <2>1 DEF SnapshotInv, SnapshotRight, InOrder
<1>3. CASE SecondSample
  <2>1. /\ UNCHANGED <<memory, thermal, available, shown, kind, slots>>
        /\ call = "cpu_second" /\ sample \in CpuSamples
        /\ \/ /\ call' = "memory"
              /\ \E s \in CpuSamples :
                    /\ CountersAgree(sample, s)
                    /\ usage' = [part  |-> (s.total - sample.total) - (s.idle - sample.idle),
                                 whole |-> s.total - sample.total]
           \/ call' = "return" /\ ret' # "ok" /\ usage' = usage
    BY <1>3 DEF SecondSample, surveyVars, SnapshotInv
  <2>2. call' = "memory" => Share(usage')
    <3> SUFFICES ASSUME NEW s \in CpuSamples, CountersAgree(sample, s)
                 PROVE  Share([part  |-> (s.total - sample.total) - (s.idle - sample.idle),
                               whole |-> s.total - sample.total])
      BY <2>1
    <3>1. /\ s.total \in Int /\ s.idle \in Int /\ sample.total \in Int /\ sample.idle \in Int
      BY <2>1, SnapshotAssumption DEF CpuSamples
    <3> QED BY <3>1 DEF CountersAgree, Share
  <2>3. kind \in {"thermal", "network"} => Share(usage') /\ Share(memory')
    BY <2>1, <2>2 DEF SnapshotInv
  <2> QED BY <2>1, <2>2, <2>3 DEF SnapshotInv, SnapshotRight, InOrder
<1>4. CASE ReadMemory
  <2>1. /\ UNCHANGED <<sample, usage, thermal, available, shown, kind, slots>>
        /\ call = "memory"
        /\ \/ /\ call' = "load"
              /\ \E total \in 0..MaxTicks, free \in 0..MaxTicks :
                    /\ ~ (total = 0 \/ free > total)
                    /\ memory' = [part |-> total - free, whole |-> total]
           \/ call' = "return" /\ ret' # "ok" /\ memory' = memory
    BY <1>4 DEF ReadMemory, surveyVars
  <2>2. call' = "load" => Share(memory')
    <3> SUFFICES ASSUME NEW total \in 0..MaxTicks, NEW free \in 0..MaxTicks,
                        total # 0, ~ (free > total)
                 PROVE  Share([part |-> total - free, whole |-> total])
      BY <2>1
    <3> QED BY SnapshotAssumption DEF Share
  <2>3. kind \in {"thermal", "network"} => Share(usage') /\ Share(memory')
    BY <2>1, <2>2 DEF SnapshotInv
  <2> QED BY <2>1, <2>2, <2>3 DEF SnapshotInv, SnapshotRight, InOrder
<1>5. CASE ReadLoad
  <2>1. /\ call = "load" /\ UNCHANGED <<sample, usage, memory, thermal, available, shown>>
        /\ \/ call' = "return" /\ ret' # "ok" /\ UNCHANGED kind
           \/ call' = "survey" /\ kind' = "thermal"
    BY <1>5 DEF ReadLoad, BeginSurvey, Cleared, surveyVars, snapshotVars
  <2>2. Share(usage) /\ Share(memory)
    BY <2>1 DEF SnapshotInv
  <2> QED BY <2>1, <2>2 DEF SnapshotInv, SnapshotRight, InOrder
<1> QED BY <1>1, <1>2, <1>3, <1>4, <1>5

(* The zones are kept in the order of their names; none if they could not   *)
(* be read.                                                                 *)
LEMMA ThermalReadStep ==
    ASSUME SurveyInv, SnapshotInv, ThermalRead PROVE SnapshotInv'
<1>1. /\ kind = "thermal" /\ call \in {"surveyed", "unsurveyed"}
      /\ thermal' = slots /\ call' = "survey" /\ kind' = "network"
      /\ available' = IF call = "surveyed" THEN {"thermal"} ELSE {}
      /\ UNCHANGED <<usage, memory>>
  BY DEF ThermalRead, BeginSurvey, Cleared, At, Goto
<1>2. slots \in Seq(Slots) /\ \A i \in DOMAIN slots : slots[i].name # 0
  BY <1>1 DEF SurveyInv, SurveyTypes, SurveyFound, ReadFrom
<1>3. InOrder(slots) /\ (call # "surveyed" => slots = <<>>)
  <2>1. InOrder(<<>>)
    BY DEF InOrder
  <2> QED BY <1>1, <2>1 DEF SurveyInv
<1> QED BY <1>1, <1>2, <1>3 DEF SnapshotInv, SnapshotRight, At, InOrder

(* What monitor shows, of what could be read.                               *)
LEMMA NetworkReadStep ==
    ASSUME SurveyInv, SnapshotInv, NetworkRead PROVE SnapshotInv'
<1>1. /\ kind = "network" /\ call \in {"surveyed", "unsurveyed"}
      /\ available' = available \cup (IF call = "surveyed" THEN {"network"} ELSE {})
      /\ shown' = [hottest |-> IF "thermal" \in available THEN Hottest(thermal) ELSE Empty,
                   primary |-> IF "network" \in available' THEN Primary(slots) ELSE Empty]
      /\ call' = "return"
      /\ UNCHANGED <<usage, memory, thermal, kind, slots>>
  BY DEF NetworkRead, At, Return, surveyVars
<1>2. Elements(<<>>) = {} /\ IsHottest(Empty, {}) /\ IsPrimary(Empty, {})
  BY DEF Elements, IsHottest, IsPrimary
<1>3. IsHottest(shown'.hottest, Elements(thermal))
  <2>1. IsHottest(Hottest(thermal), Elements(thermal))
    BY HottestIs DEF SnapshotInv
  <2> QED BY <1>1, <1>2, <2>1 DEF SnapshotInv
<1>4. IsPrimary(shown'.primary, Elements(slots))
  <2>1. slots \in Seq(Slots) /\ InOrder(slots) /\ (call # "surveyed" => slots = <<>>)
    <3>1. InOrder(<<>>)
      BY DEF InOrder
    <3> QED BY <1>1, <3>1 DEF SurveyInv, SurveyTypes
  <2>2. IsPrimary(Primary(slots), Elements(slots))
    BY <2>1, PrimaryIs
  <2> QED BY <1>1, <1>2, <2>1, <2>2
<1>5. SnapshotRight'
  BY <1>1, <1>3, <1>4 DEF SnapshotInv, SnapshotRight
<1> QED BY <1>1, <1>5 DEF SnapshotInv, InOrder

(* Nothing is known at the prompt.                                          *)
NoSnapshot == call \in {"locate", "idle"} /\ kind = "none" /\ SnapshotInit
LEMMA NothingKnown == NoSnapshot => SnapshotInv
BY DEF NoSnapshot, SnapshotInit, SnapshotInv, SnapshotRight, InOrder, At

LEMMA SnapshotInitially == Init => SnapshotInv
BY NothingKnown DEF Init, SurveyInit, NoSnapshot

(* Every step keeps what monitor knows.                                     *)
LEMMA SnapshotStepKeeps ==
    ASSUME SessionInv, SurveyInv, SnapshotInv, [Next]_vars PROVE SnapshotInv'
<1> USE DEF SurveyPlaces
<1>1. call \notin SurveyPlaces \cup {"return"} => kind = "none"
  BY DEF SurveyInv, SurveyFresh
<1>2. CASE Enter \/ SimpleBuiltin \/ ConfigurationStep \/ LedStep \/ UNCHANGED vars
  <2>1. /\ UNCHANGED snapshotVars /\ UNCHANGED <<kind, slots>>
        /\ Aside \/ UNCHANGED <<call, ret>>
    BY <1>2, ShellAside DEF readVars, surveyVars
  <2> QED BY <1>1, <2>1, SnapshotKept DEF Aside, KnownPlaces
<1>3. CASE Finish
  <2>1. NoSnapshot'
    BY <1>3 DEF Finish, Cleared, SnapshotOver, SnapshotInit, NoSnapshot
  <2> QED BY <2>1, NothingKnown, PTL
<1>4. CASE SurveyStep
  <2>1. UNCHANGED snapshotVars /\ kind' = kind /\ call' \in SurveyPlaces
    BY <1>4, SurveyPlaced DEF SurveyStep
  <2> QED BY <2>1, SnapshotKept
<1>5. CASE SnapshotStep
  <2>1. CASE ThermalRead
    BY <2>1, ThermalReadStep
  <2>2. CASE NetworkRead
    BY <2>2, NetworkReadStep
  <2>3. CASE Monitor \/ FirstSample \/ SecondSample \/ ReadMemory \/ ReadLoad
    <3>1. call \in LoadPlaces
      BY <2>3 DEF Monitor, FirstSample, SecondSample, ReadMemory, ReadLoad, At, LoadPlaces
    <3> QED BY <2>3, <3>1, LoadStep
  <2> QED BY <1>5, <2>1, <2>2, <2>3 DEF SnapshotStep, SnapshotSteps
<1>6. CASE InfoStep
  <2>1. UNCHANGED snapshotVars
    BY <1>6 DEF InfoStep
  <2>2. /\ call' \notin {"cpu_second", "memory", "load"}
        /\ kind' \notin {"thermal", "network"}
    BY <1>1, <1>6, InfoPlaced DEF InfoStep, InfoPlaces, BeginSurvey, Cleared, Goto, surveyVars
  <2> QED BY <2>1, <2>2, SnapshotKept
<1>7. CASE ProcessStep
  <2>1. UNCHANGED <<snapshotVars, kind>> /\ call \notin SurveyPlaces \cup {"return"}
        /\ call' \notin {"cpu_second", "memory", "load"}
    BY <1>7, WalkPlaced DEF readVars, surveyVars, WalkPlaces
  <2> QED BY <1>1, <2>1, SnapshotKept
<1> QED BY <1>2, <1>3, <1>4, <1>5, <1>6, <1>7 DEF Next, Over

-----------------------------------------------------------------------------
(* sysinfo: the line the model of the CPU is taken from. *)

CpuLines == [rank : Ranks \cup {NoRank}, filled : BOOLEAN]
UsableIn(c) == {i \in DOMAIN c : c[i].rank \in Ranks /\ c[i].filled}

(* m is the place of the first line of the best kind in c, r is its rank.   *)
BestIn(c, m, r) ==
    IF UsableIn(c) = {} THEN m = 0 /\ r = NoRank
    ELSE /\ m \in UsableIn(c) /\ r = c[m].rank
         /\ \A i \in UsableIn(c) : r < c[i].rank \/ (r = c[i].rank /\ m <= i)

CpuInv ==
    /\ cpuinfo \in Seq(CpuLines) /\ best_rank \in Ranks \cup {NoRank}
    /\ call \notin {"cpuinfo", "meminfo"} => cpuinfo = <<>> /\ best_rank = NoRank
    /\ call \notin {"cpuinfo", "meminfo", "return"} \cup SurveyPlaces => cpu_model = 0
    /\ call \in {"cpuinfo", "meminfo"} => BestIn(cpuinfo, cpu_model, best_rank)

LEMMA CpuInvRight == ASSUME CpuInv PROVE CpuModelRight
BY DEF CpuInv, CpuModelRight, BestIn, UsableIn, At

(* One line more.                                                           *)
LEMMA BestOn ==
    ASSUME NEW c \in Seq(CpuLines), NEW m, NEW r, BestIn(c, m, r),
           NEW rank \in Ranks \cup {NoRank}, NEW filled \in BOOLEAN
    PROVE  LET d == Append(c, [rank |-> rank, filled |-> filled]) IN
           IF rank \in Ranks /\ filled /\ rank < r
           THEN BestIn(d, Len(d), rank) ELSE BestIn(d, m, r)
<1> DEFINE line == [rank |-> rank, filled |-> filled]
           d == Append(c, line)
           n == Len(c) + 1
           better == rank \in Ranks /\ filled /\ rank < r
<1>1. /\ Len(c) \in Nat /\ DOMAIN c = 1..Len(c) /\ Len(d) = n /\ DOMAIN d = 1..n
      /\ d[n] = line /\ \A i \in DOMAIN c : d[i] = c[i]
  BY LenProperties
<1>2. \A i \in DOMAIN c : c[i].rank \in Ranks \cup {NoRank}
  <2>1. \A i \in DOMAIN c : c[i] \in CpuLines
    BY <1>1, ElementOfSeq
  <2> QED BY <2>1 DEF CpuLines
<1>3. UsableIn(d) = UsableIn(c) \cup (IF rank \in Ranks /\ filled THEN {n} ELSE {})
  <2>1. d[n].rank = rank /\ d[n].filled = filled
    BY <1>1
  <2> HIDE DEF d
  <2>2. DOMAIN d = DOMAIN c \cup {n}
    BY <1>1
  <2> QED BY <1>1, <2>1, <2>2 DEF UsableIn
<1>4. d[n].rank = rank /\ n \notin DOMAIN c /\ \A i \in DOMAIN c : i < n
  BY <1>1
<1> HIDE DEF d, n
<1>5. UsableIn(c) \subseteq DOMAIN c
  BY DEF UsableIn
<1>6. CASE better
  <2>1. UsableIn(d) = UsableIn(c) \cup {n}
    BY <1>3, <1>6
  <2>2. \A i \in UsableIn(d) : rank < d[i].rank \/ (rank = d[i].rank /\ n <= i)
    <3> TAKE i \in UsableIn(d)
    <3>1. CASE i = n
      BY <1>1, <1>4, <3>1 DEF n
    <3>2. CASE i \in UsableIn(c)
      <4>1. r <= c[i].rank /\ d[i] = c[i]
        BY <1>1, <1>2, <1>5, <1>6, <3>2 DEF BestIn, Ranks, NoRank
      <4>2. r \in Int /\ rank \in Int /\ rank < r /\ c[i].rank \in Int
        BY <1>2, <1>5, <1>6, <3>2 DEF BestIn, UsableIn, Ranks
      <4> QED BY <4>1, <4>2
    <3> QED BY <2>1, <3>1, <3>2
  <2>3. BestIn(d, n, rank)
    BY <1>4, <2>1, <2>2 DEF BestIn
  <2> QED BY <1>1, <1>6, <2>3 DEF d, n
<1>7. CASE ~ better
  <2>1. CASE UsableIn(c) = {}
    <3>1. r = NoRank /\ m = 0
      BY <2>1 DEF BestIn
    <3>2. \A k \in Ranks : k < NoRank
      BY DEF Ranks, NoRank
    <3>3. UsableIn(d) = {}
      BY <1>3, <1>7, <2>1, <3>1, <3>2
    <3> QED BY <1>7, <3>1, <3>3 DEF BestIn, d
  <2>2. CASE UsableIn(c) # {}
    <3>1. /\ m \in UsableIn(c) /\ r = c[m].rank /\ r \in Ranks /\ m \in DOMAIN c
          /\ \A i \in UsableIn(c) : r < c[i].rank \/ (r = c[i].rank /\ m <= i)
      BY <2>2 DEF BestIn, UsableIn
    <3>2. m \in UsableIn(d) /\ r = d[m].rank
      BY <1>1, <1>3, <3>1
    <3>3. \A i \in UsableIn(d) : r < d[i].rank \/ (r = d[i].rank /\ m <= i)
      <4> TAKE i \in UsableIn(d)
      <4>1. CASE i \in UsableIn(c)
        BY <1>1, <1>5, <3>1, <4>1
      <4>2. CASE i \notin UsableIn(c)
        <5>1. i = n /\ rank \in Ranks /\ ~ (rank < r)
          BY <1>3, <1>7, <4>2
        <5>2. r <= rank /\ m < i
          BY <1>4, <3>1, <5>1 DEF Ranks
        <5> QED BY <1>1, <1>4, <3>1, <5>1, <5>2 DEF Ranks
      <4> QED BY <4>1, <4>2
    <3>4. BestIn(d, m, r)
      BY <3>2, <3>3 DEF BestIn
    <3> QED BY <1>7, <3>4 DEF d
  <2> QED BY <2>1, <2>2
<1> QED BY <1>6, <1>7

(* A step that does not read the lines, and leaves them as they are.        *)
LEMMA CpuKept ==
    ASSUME CpuInv, UNCHANGED <<cpuinfo, best_rank, cpu_model>>,
           \/ UNCHANGED call
           \/ call = "sysinfo" /\ call' = "cpuinfo"
           \/ call = "cpuinfo" /\ call' = "meminfo"
           \/ /\ call \notin {"cpuinfo", "meminfo"} /\ call' \notin {"cpuinfo", "meminfo"}
              /\ \/ call' \in {"return"} \cup SurveyPlaces
                 \/ call \notin {"return"} \cup SurveyPlaces
    PROVE  CpuInv'
<1> USE DEF CpuInv, SurveyPlaces
<1>1. CASE call = "sysinfo" /\ call' = "cpuinfo"
  <2>1. cpuinfo = <<>> /\ best_rank = NoRank /\ cpu_model = 0 /\ DOMAIN cpuinfo = {}
    BY <1>1
  <2>2. BestIn(cpuinfo, cpu_model, best_rank)
    BY <2>1 DEF BestIn, UsableIn
  <2> QED BY <1>1, <2>2
<1>2. CASE call = "cpuinfo" /\ call' = "meminfo"
  BY <1>2
<1>3. CASE UNCHANGED call
  BY <1>3
<1>4. CASE /\ call \notin {"cpuinfo", "meminfo"} /\ call' \notin {"cpuinfo", "meminfo"}
           /\ \/ call' \in {"return"} \cup SurveyPlaces
              \/ call \notin {"return"} \cup SurveyPlaces
  BY <1>4
<1> QED BY <1>1, <1>2, <1>3, <1>4

LEMMA CpuLineStep ==
    ASSUME CpuInv, CpuLine PROVE CpuInv'
<1>1. call = "cpuinfo" /\ call' = "cpuinfo" /\ BestIn(cpuinfo, cpu_model, best_rank)
  BY DEF CpuInv, CpuLine, At
<1>2. PICK rank \in Ranks \cup {NoRank}, filled \in BOOLEAN :
        /\ cpuinfo' = Append(cpuinfo, [rank |-> rank, filled |-> filled])
        /\ IF HasValue(rank, filled) /\ Better(rank)
           THEN best_rank' = rank /\ cpu_model' = Len(cpuinfo')
           ELSE UNCHANGED <<best_rank, cpu_model>>
  BY DEF CpuLine
<1>3. BestIn(cpuinfo', cpu_model', best_rank')
  BY <1>1, <1>2, BestOn DEF CpuInv, HasValue, Better
<1>4. cpuinfo' \in Seq(CpuLines) /\ best_rank' \in Ranks \cup {NoRank}
  <2>1. [rank |-> rank, filled |-> filled] \in CpuLines
    BY DEF CpuLines
  <2> HIDE DEF CpuLines
  <2> QED BY <1>2, <2>1 DEF CpuInv
<1> QED BY <1>1, <1>3, <1>4 DEF CpuInv

(* Nothing is known about the CPU at the prompt.                            *)
NoCpu == call \in {"locate", "idle"} /\ cpuinfo = <<>> /\ best_rank = NoRank /\ cpu_model = 0
LEMMA NothingOfCpu == NoCpu => CpuInv
BY DEF NoCpu, CpuInv, SurveyPlaces

LEMMA CpuInitially == Init => CpuInv
BY NothingOfCpu DEF Init, InfoInit, NoCpu

(* Every step keeps what is known about the CPU.                            *)
LEMMA CpuStepKeeps ==
    ASSUME SessionInv, CpuInv, [Next]_vars PROVE CpuInv'
<1> USE DEF SurveyPlaces
<1>1. CASE Enter \/ SimpleBuiltin \/ ConfigurationStep \/ LedStep \/ UNCHANGED vars
  <2>1. UNCHANGED infoVars /\ (Aside \/ UNCHANGED call)
    BY <1>1, ShellAside DEF readVars
  <2> QED BY <2>1, CpuKept DEF Aside, KnownPlaces, infoVars
<1>2. CASE Finish
  <2>1. NoCpu'
    BY <1>2 DEF Finish, InfoOver, NoCpu
  <2> QED BY <2>1, NothingOfCpu, PTL
<1>3. CASE SurveyStep
  <2>1. UNCHANGED infoVars /\ call = "survey" /\ call' \in SurveyPlaces
    BY <1>3, SurveyPlaced DEF SurveyStep
  <2> QED BY <2>1, CpuKept DEF infoVars
<1>4. CASE SnapshotStep
  <2>1. UNCHANGED infoVars
    BY <1>4 DEF SnapshotStep
  <2>2. \/ call \in LoadPlaces /\ call' \in LoadPlaces \cup {"return", "survey"}
        \/ call \in SurveyPlaces /\ call' \in {"return", "survey"}
    BY <1>4, SnapshotPlaced DEF SnapshotStep, BeginSurvey, ThermalRead, NetworkRead, Goto, Return,
                                LoadPlaces
  <2> QED BY <2>1, <2>2, CpuKept DEF infoVars, LoadPlaces
<1>5. CASE InfoStep
  <2> USE DEF At, Goto, Return, BeginSurvey, infoVars
  <2>1. CASE CollectHardware \/ NextSection \/ PrintHardware \/ PrintSystem
    <3>1. /\ UNCHANGED <<cpuinfo, best_rank, cpu_model>> /\ call' \in {"return", "survey"}
          /\ call \notin {"cpuinfo", "meminfo"}
      BY <2>1 DEF CollectHardware, NextSection, PrintHardware, PrintSystem
    <3> QED BY <3>1, CpuKept
  <2>2. CASE Identify \/ EndCpuInfo
    <3>1. /\ UNCHANGED <<cpuinfo, best_rank, cpu_model>>
          /\ \/ call = "sysinfo" /\ call' \in {"return", "cpuinfo"}
             \/ call = "cpuinfo" /\ call' = "meminfo"
      BY <2>2 DEF Identify, EndCpuInfo
    <3> QED BY <3>1, CpuKept
  <2>3. CASE CpuLine
    BY <2>3, CpuLineStep
  <2>4. CASE MemoryAndUptime
    <3>1. call' \in {"return", "survey"} /\ cpuinfo' = <<>> /\ best_rank' = NoRank
      BY <2>4 DEF MemoryAndUptime
    <3> QED BY <3>1 DEF CpuInv
  <2>5. CASE DeviceTree \/ SplitItem \/ EndSplit
    <3>1. /\ UNCHANGED <<cpuinfo, best_rank, cpu_model>>
          /\ call \in {"dtinfo", "compatible"} /\ call' \in {"return", "compatible"}
      BY <2>5 DEF DeviceTree, SplitItem, EndSplit
    <3> QED BY <3>1, CpuKept
  <2> QED BY <1>5, <2>1, <2>2, <2>3, <2>4, <2>5 DEF InfoStep, InfoSteps
<1>6. CASE ProcessStep
  <2>1. /\ UNCHANGED infoVars /\ call \in WalkPlaces \cup {"psinfo", "psinfo_pid"}
        /\ call' \in WalkPlaces \cup {"return"}
    BY <1>6, WalkPlaced DEF readVars
  <2> QED BY <2>1, CpuKept DEF infoVars, WalkPlaces
<1> QED BY <1>1, <1>2, <1>3, <1>4, <1>5, <1>6 DEF Next, Over

-----------------------------------------------------------------------------
(* dtinfo: how the compatible property is split. *)

RunsTo(m) == {r \in Runs : r[1] < m}
SplitEnd == Len(buffer) + 1

(* Every run before offset was taken, in order, and offset is behind a '\0' *)
(* or at one of the ends.                                                   *)
SplitInv ==
    /\ buffer \in Seq(BOOLEAN) /\ offset \in 1..SplitEnd
    /\ compatible \in Seq(Nat \X Nat) /\ Len(compatible) <= MaxCompatible
    /\ call \notin {"compatible", "return"} => buffer = <<>> /\ offset = 1 /\ compatible = <<>>
    /\ offset = 1 \/ offset = SplitEnd \/ ~ buffer[offset - 1]
    /\ Len(compatible) = Cardinality(RunsTo(offset))
    /\ \A i \in DOMAIN compatible :
          compatible[i] \in Runs /\ Cardinality(RunsTo(compatible[i][1])) = i - 1
    /\ call = "return" => offset = SplitEnd \/ Len(compatible) = MaxCompatible

LEMMA RunsFinite ==
    ASSUME buffer \in Seq(BOOLEAN)
    PROVE  /\ Len(buffer) \in Nat /\ DOMAIN buffer = 1..Len(buffer)
           /\ Runs \subseteq Nat \X Nat
           /\ \A r \in Runs : r[1] \in DOMAIN buffer /\ r[2] \in DOMAIN buffer /\ r[1] <= r[2]
           /\ IsFiniteSet(Runs)
           /\ \A m : IsFiniteSet(RunsTo(m)) /\ Cardinality(RunsTo(m)) \in Nat
<1>1. Len(buffer) \in Nat /\ DOMAIN buffer = 1..Len(buffer)
  BY LenProperties
<1>2. Runs \subseteq (DOMAIN buffer) \X (DOMAIN buffer) /\ \A r \in Runs : r[1] <= r[2]
  BY DEF Runs
<1>3. IsFiniteSet(1..Len(buffer))
  BY <1>1, FS_Interval
<1>4. IsFiniteSet((DOMAIN buffer) \X (DOMAIN buffer))
  BY <1>1, <1>3, FS_Product
<1>5. IsFiniteSet(Runs)
  BY <1>2, <1>4, FS_Subset
<1>6. \A m : IsFiniteSet(RunsTo(m)) /\ Cardinality(RunsTo(m)) \in Nat
  <2> TAKE m
  <2>1. RunsTo(m) \subseteq Runs
    BY DEF RunsTo
  <2>2. IsFiniteSet(RunsTo(m))
    BY <1>5, <2>1, FS_Subset
  <2> QED BY <2>2, FS_CardinalityType
<1>7. \A r \in Runs : r[1] \in DOMAIN buffer /\ r[2] \in DOMAIN buffer
  BY <1>2
<1>8. Runs \subseteq Nat \X Nat
  BY <1>1, <1>2
<1> QED BY <1>1, <1>2, <1>5, <1>6, <1>7, <1>8

(* It says what dtinfo shows: at the end all runs were taken, or as many as *)
(* there is room for.                                                       *)
LEMMA SplitInvRight == ASSUME SplitInv, MaxCompatible \in Nat PROVE CompatibleRight
<1> SUFFICES ASSUME call = "return"
             PROVE  /\ Len(compatible) = (IF Cardinality(Runs) <= MaxCompatible
                                          THEN Cardinality(Runs) ELSE MaxCompatible)
                    /\ \A i \in DOMAIN compatible :
                          /\ compatible[i] \in Runs
                          /\ Cardinality({r \in Runs : r[1] < compatible[i][1]}) = i - 1
  BY DEF CompatibleRight, At
<1>1. \A i \in DOMAIN compatible :
          /\ compatible[i] \in Runs
          /\ Cardinality({r \in Runs : r[1] < compatible[i][1]}) = i - 1
  BY DEF SplitInv, RunsTo
<1>2. buffer \in Seq(BOOLEAN) /\ Len(compatible) \in Nat
  BY LenProperties DEF SplitInv
<1>3. IsFiniteSet(Runs) /\ Cardinality(Runs) \in Nat
  BY <1>2, RunsFinite, FS_CardinalityType
<1>4. CASE offset = SplitEnd
  <2>1. RunsTo(SplitEnd) = Runs
    BY <1>2, RunsFinite DEF RunsTo, SplitEnd
  <2> QED BY <1>1, <1>3, <1>4, <2>1 DEF SplitInv
<1>5. CASE Len(compatible) = MaxCompatible
  <2>1. RunsTo(offset) \subseteq Runs
    BY DEF RunsTo
  <2>2. Cardinality(RunsTo(offset)) <= Cardinality(Runs)
    BY <1>3, <2>1, FS_Subset
  <2>3. Cardinality(RunsTo(offset)) = MaxCompatible
    BY <1>5 DEF SplitInv
  <2> QED BY <1>1, <1>3, <1>5, <2>2, <2>3
<1> QED BY <1>4, <1>5 DEF SplitInv

(* strnlen finds the end of the item that begins at offset.                 *)
LEMMA ItemEndIs ==
    ASSUME buffer \in Seq(BOOLEAN), NEW from \in 1..Len(buffer)
    PROVE  /\ ItemEnd(from) \in from..SplitEnd
           /\ \A i \in from..(ItemEnd(from) - 1) : buffer[i]
           /\ ItemEnd(from) = SplitEnd \/ ~ buffer[ItemEnd(from)]
<1> DEFINE S == {e \in from..SplitEnd : e = SplitEnd \/ ~ buffer[e]}
<1>1. Len(buffer) \in Nat /\ SplitEnd \in Nat /\ SplitEnd \in S /\ S \subseteq 1..SplitEnd
  BY RunsFinite DEF SplitEnd
<1>2. Min(S) \in S /\ \A e \in S : Min(S) <= e
  BY <1>1, FirstAndLast
<1>3. PICK e \in S : \A i \in S : e <= i
  BY <1>2
<1>4. /\ e \in from..SplitEnd /\ e \in Nat
      /\ e = SplitEnd \/ ~ buffer[e]
  BY <1>1
<1>5. \A i \in from..(e - 1) : buffer[i]
  <2> SUFFICES ASSUME NEW i \in from..(e - 1), ~ buffer[i] PROVE FALSE
    OBVIOUS
  <2>1. i \in S /\ i < e
    BY <1>1, <1>4
  <2> QED BY <1>3, <1>4, <2>1
<1>6. \E x \in from..(Len(buffer) + 1) :
         /\ \A i \in from..(x - 1) : buffer[i]
         /\ x = Len(buffer) + 1 \/ ~ buffer[x]
  BY <1>4, <1>5 DEF SplitEnd
<1> QED BY <1>6 DEF ItemEnd, SplitEnd

(* The item is a run, the only one that begins before the next offset and   *)
(* not before this one; an empty item is none.                              *)
LEMMA ItemIs ==
    ASSUME buffer \in Seq(BOOLEAN), NEW from \in 1..Len(buffer),
           from = 1 \/ ~ buffer[from - 1],
           NEW e, e = ItemEnd(from),
           NEW next, next = IF e <= Len(buffer) THEN e + 1 ELSE e
    PROVE  /\ next \in 1..SplitEnd
           /\ next = SplitEnd \/ ~ buffer[next - 1]
           /\ IF e > from
              THEN /\ <<from, e - 1>> \in Runs \ RunsTo(from)
                   /\ RunsTo(next) = RunsTo(from) \cup {<<from, e - 1>>}
              ELSE RunsTo(next) = RunsTo(from)
<1>1. /\ Len(buffer) \in Nat /\ DOMAIN buffer = 1..Len(buffer) /\ SplitEnd = Len(buffer) + 1
      /\ \A r \in Runs : /\ r[1] \in 1..Len(buffer) /\ r[2] \in 1..Len(buffer)
                         /\ r[1] <= r[2] /\ r = <<r[1], r[2]>>
                         /\ \A i \in r[1]..r[2] : buffer[i]
                         /\ r[1] = 1 \/ ~ buffer[r[1] - 1]
                         /\ r[2] = Len(buffer) \/ ~ buffer[r[2] + 1]
  <2>1. \A r \in Runs : Run(r[1], r[2]) /\ r = <<r[1], r[2]>>
    BY DEF Runs
  <2> QED BY <2>1, RunsFinite DEF Run, SplitEnd
<1>2. /\ e \in from..(Len(buffer) + 1) /\ e \in Nat /\ from \in Nat
      /\ \A i \in from..(e - 1) : buffer[i]
      /\ e = Len(buffer) + 1 \/ ~ buffer[e]
  BY <1>1, ItemEndIs
<1>3. next \in 1..SplitEnd /\ (next = SplitEnd \/ ~ buffer[next - 1])
  BY <1>1, <1>2
<1>4. ASSUME NEW r \in Runs, from <= r[1], r[1] < next
      PROVE  r = <<from, e - 1>> /\ e > from
  <2>1. r[1] < e
    <3> SUFFICES ASSUME r[1] = e PROVE FALSE
      BY <1>1, <1>2, <1>4
    <3>1. e <= Len(buffer) /\ buffer[e]
      BY <1>1
    <3> QED BY <1>1, <1>2, <3>1
  <2>2. r[1] = from
    <3> SUFFICES ASSUME from < r[1] PROVE FALSE
      BY <1>1, <1>2, <1>4
    <3>1. r[1] - 1 \in from..(e - 1)
      BY <1>1, <1>2, <2>1
    <3> QED BY <1>1, <1>2, <3>1
  <2>3. ~ (r[2] < e - 1)
    <3> SUFFICES ASSUME r[2] < e - 1 PROVE FALSE
      OBVIOUS
    <3>1. r[2] + 1 \in from..(e - 1) /\ r[2] # Len(buffer)
      BY <1>1, <1>2, <2>2
    <3> QED BY <1>1, <1>2, <3>1
  <2>4. ~ (r[2] > e - 1)
    <3> SUFFICES ASSUME r[2] > e - 1 PROVE FALSE
      OBVIOUS
    <3>1. e \in r[1]..r[2] /\ e <= Len(buffer)
      BY <1>1, <1>2, <2>1
    <3> QED BY <1>1, <1>2, <3>1
  <2>5. r[2] = e - 1
    BY <1>1, <1>2, <2>3, <2>4
  <2> QED BY <1>1, <2>1, <2>2, <2>5
<1>5. CASE e > from
  <2> DEFINE item == <<from, e - 1>>
  <2>1. /\ from \in DOMAIN buffer /\ e - 1 \in DOMAIN buffer /\ from <= e - 1
        /\ e - 1 = Len(buffer) \/ ~ buffer[e]
    BY <1>1, <1>2, <1>5
  <2>2. (e - 1) + 1 = e
    BY <1>2
  <2>3. item \in Runs /\ item[1] = from
    BY <1>2, <2>1, <2>2 DEF Runs, Run
  <2> HIDE DEF item
  <2>4. item \notin RunsTo(from) /\ item \in RunsTo(next)
    BY <1>2, <1>5, <2>3 DEF RunsTo
  <2>5. RunsTo(next) \subseteq RunsTo(from) \cup {item}
    BY <1>1, <1>2, <1>4 DEF RunsTo, item
  <2>6. RunsTo(from) \subseteq RunsTo(next)
    BY <1>1, <1>2 DEF RunsTo
  <2> QED BY <1>3, <1>5, <2>3, <2>4, <2>5, <2>6 DEF item
<1>6. CASE ~ (e > from)
  <2>1. RunsTo(next) \subseteq RunsTo(from)
    BY <1>1, <1>2, <1>4, <1>6 DEF RunsTo
  <2>2. RunsTo(from) \subseteq RunsTo(next)
    BY <1>1, <1>2 DEF RunsTo
  <2>3. RunsTo(next) = RunsTo(from)
    BY <2>1, <2>2
  <2> QED BY <1>3, <1>6, <2>3
<1> QED BY <1>5, <1>6

(* One turn of the loop keeps the items in order and complete.              *)
LEMMA SplitItemStep ==
    ASSUME SplitInv, SplitItem, MaxCompatible \in Nat PROVE SplitInv'
<1> DEFINE e == ItemEnd(offset)
           next == IF e <= Len(buffer) THEN e + 1 ELSE e
<1>1. /\ call = "compatible" /\ call' = "compatible" /\ buffer' = buffer
      /\ offset <= Len(buffer) /\ Len(compatible) < MaxCompatible
      /\ compatible' = IF e > offset THEN Append(compatible, <<offset, e - 1>>) ELSE compatible
      /\ offset' = next
  BY DEF SplitItem, At, HasRoom
<1>2. /\ buffer \in Seq(BOOLEAN) /\ offset \in 1..Len(buffer) /\ SplitEnd = Len(buffer) + 1
      /\ offset = 1 \/ ~ buffer[offset - 1]
      /\ compatible \in Seq(Nat \X Nat) /\ Len(compatible) \in Nat
      /\ DOMAIN compatible = 1..Len(compatible)
  <2>1. buffer \in Seq(BOOLEAN) /\ compatible \in Seq(Nat \X Nat)
    BY DEF SplitInv
  <2>2. /\ Len(buffer) \in Nat /\ Len(compatible) \in Nat
        /\ DOMAIN compatible = 1..Len(compatible)
    BY <2>1, LenProperties
  <2> QED BY <1>1, <2>1, <2>2 DEF SplitInv, SplitEnd
<1>3. /\ next \in 1..SplitEnd
      /\ next = SplitEnd \/ ~ buffer[next - 1]
      /\ IF e > offset
         THEN /\ <<offset, e - 1>> \in Runs \ RunsTo(offset)
              /\ RunsTo(next) = RunsTo(offset) \cup {<<offset, e - 1>>}
         ELSE RunsTo(next) = RunsTo(offset)
  BY <1>2, ItemIs
<1>4. SplitEnd' = SplitEnd /\ Runs' = Runs /\ \A m : RunsTo(m)' = RunsTo(m)
  BY <1>1 DEF SplitEnd, Runs, Run, RunsTo
<1>5. /\ Len(compatible) = Cardinality(RunsTo(offset))
      /\ \A i \in DOMAIN compatible :
          compatible[i] \in Runs /\ Cardinality(RunsTo(compatible[i][1])) = i - 1
  BY DEF SplitInv
<1> HIDE DEF e, next
<1>6. CASE e > offset
  <2> DEFINE item == <<offset, e - 1>>
  <2>1. item \in Runs /\ item \notin RunsTo(offset) /\ item[1] = offset
    BY <1>3, <1>6
  <2>2. RunsTo(next) = RunsTo(offset) \cup {item}
    BY <1>3, <1>6
  <2>3. compatible' = Append(compatible, item)
    BY <1>1, <1>6
  <2>4. item \in Nat \X Nat
    BY <1>2, <2>1, RunsFinite
  <2> HIDE DEF item
  <2>5. /\ compatible' \in Seq(Nat \X Nat) /\ Len(compatible') = Len(compatible) + 1
        /\ DOMAIN compatible' = 1..(Len(compatible) + 1)
        /\ compatible'[Len(compatible) + 1] = item
        /\ \A i \in DOMAIN compatible : compatible'[i] = compatible[i]
    BY <1>2, <2>3, <2>4
  <2>6. Cardinality(RunsTo(next)) = Cardinality(RunsTo(offset)) + 1
    BY <1>2, <2>1, <2>2, RunsFinite, FS_AddElement
  <2>7. \A i \in DOMAIN compatible' :
          compatible'[i] \in Runs /\ Cardinality(RunsTo(compatible'[i][1])) = i - 1
    <3> TAKE i \in DOMAIN compatible'
    <3>1. CASE i \in DOMAIN compatible
      BY <1>5, <2>5, <3>1
    <3>2. CASE i \notin DOMAIN compatible
      <4>1. i = Len(compatible) + 1
        BY <1>2, <2>5, <3>2
      <4> QED BY <1>2, <1>5, <2>1, <2>5, <4>1
    <3> QED BY <3>1, <3>2
  <2>8. Len(compatible') <= MaxCompatible /\ Len(compatible') = Cardinality(RunsTo(next))
    BY <1>1, <1>2, <1>5, <2>5, <2>6
  <2> QED BY <1>1, <1>2, <1>3, <1>4, <2>5, <2>7, <2>8 DEF SplitInv
<1>7. CASE ~ (e > offset)
  <2>1. compatible' = compatible /\ RunsTo(next) = RunsTo(offset)
    BY <1>1, <1>3, <1>7
  <2>2. Len(compatible) = Cardinality(RunsTo(next)) /\ Len(compatible) <= MaxCompatible
    BY <1>5, <2>1 DEF SplitInv
  <2> QED BY <1>1, <1>2, <1>3, <1>4, <1>5, <2>1, <2>2 DEF SplitInv
<1> QED BY <1>6, <1>7

(* A step that does not split.                                              *)
LEMMA SplitKept ==
    ASSUME SplitInv, UNCHANGED <<buffer, offset, compatible>>,
           \/ UNCHANGED call
           \/ call \notin {"compatible", "return"}
           \/ /\ call = "compatible" /\ call' = "return"
              /\ offset = SplitEnd \/ Len(compatible) = MaxCompatible
    PROVE  SplitInv'
<1>1. SplitEnd' = SplitEnd /\ Runs' = Runs /\ \A m : RunsTo(m)' = RunsTo(m)
  BY DEF SplitEnd, Runs, Run, RunsTo
<1>2. call \notin {"compatible", "return"} => offset = SplitEnd
  <2>1. Len(<<>>) = 0
    OBVIOUS
  <2> QED BY <2>1 DEF SplitInv, SplitEnd
<1>3. /\ call' \notin {"compatible", "return"} => buffer = <<>> /\ offset = 1 /\ compatible = <<>>
      /\ call' = "return" => offset = SplitEnd \/ Len(compatible) = MaxCompatible
  BY <1>2 DEF SplitInv
<1>4. /\ Len(compatible) = Cardinality(RunsTo(offset))
      /\ \A i \in DOMAIN compatible :
          compatible[i] \in Runs /\ Cardinality(RunsTo(compatible[i][1])) = i - 1
  BY DEF SplitInv
<1> QED BY <1>1, <1>3, <1>4 DEF SplitInv

(* Before the first turn nothing was taken.                                 *)
NotSplit == buffer \in Seq(BOOLEAN) /\ offset = 1 /\ compatible = <<>>
            /\ (buffer = <<>> \/ call = "compatible")
LEMMA NothingSplit == NotSplit => SplitInv
<1> SUFFICES ASSUME NotSplit PROVE SplitInv
  OBVIOUS
<1>1. /\ buffer \in Seq(BOOLEAN) /\ offset = 1 /\ compatible = <<>>
      /\ buffer = <<>> \/ call = "compatible"
  BY DEF NotSplit
<1>2. Len(buffer) \in Nat /\ SplitEnd = Len(buffer) + 1 /\ (buffer = <<>> => SplitEnd = 1)
  BY <1>1, LenProperties DEF SplitEnd
<1>3. RunsTo(1) = {}
  BY <1>1, RunsFinite DEF RunsTo
<1>4. Cardinality(RunsTo(1)) = 0
  BY <1>3, FS_EmptySet
<1>5. /\ Len(compatible) = 0 /\ DOMAIN compatible = {} /\ compatible \in Seq(Nat \X Nat)
      /\ MaxCompatible \in Nat
  BY <1>1, SystemInfoAssumption
<1> QED BY <1>1, <1>2, <1>4, <1>5 DEF SplitInv

LEMMA SplitInitially == Init => SplitInv
<1>1. Init => NotSplit
  BY DEF Init, InfoInit, NotSplit
<1> QED BY <1>1, NothingSplit

(* Every step keeps it.                                                     *)
LEMMA SplitStepKeeps ==
    ASSUME SessionInv, SplitInv, [Next]_vars PROVE SplitInv'
<1> DEFINE splitVars == <<buffer, offset, compatible>>
<1>1. CASE Enter \/ SimpleBuiltin \/ ConfigurationStep \/ LedStep \/ UNCHANGED vars
  <2>1. UNCHANGED infoVars /\ (Aside \/ UNCHANGED call)
    BY <1>1, ShellAside DEF readVars
  <2> QED BY <2>1, SplitKept DEF Aside, KnownPlaces, infoVars
<1>2. CASE Finish
  <2>1. NotSplit'
    BY <1>2 DEF Finish, InfoOver, NotSplit
  <2> QED BY <2>1, NothingSplit, PTL
<1>3. CASE SurveyStep
  <2>1. UNCHANGED infoVars /\ call = "survey"
    BY <1>3, SurveyPlaced DEF SurveyStep
  <2> QED BY <2>1, SplitKept DEF infoVars
<1>4. CASE SnapshotStep
  <2>1. UNCHANGED infoVars /\ call \in LoadPlaces \cup SurveyPlaces
    BY <1>4, SnapshotPlaced DEF SnapshotStep, ThermalRead, NetworkRead, LoadPlaces, SurveyPlaces
  <2> QED BY <2>1, SplitKept DEF infoVars, LoadPlaces, SurveyPlaces
<1>5. CASE InfoStep
  <2> USE DEF At, Goto, Return, BeginSurvey, infoVars
  <2>1. CASE CollectHardware \/ NextSection \/ PrintHardware \/ PrintSystem
    <3>1. UNCHANGED splitVars /\ call \notin {"compatible", "return"}
      BY <2>1 DEF CollectHardware, NextSection, PrintHardware, PrintSystem
    <3> QED BY <3>1, SplitKept
  <2>2. CASE Identify \/ CpuLine \/ EndCpuInfo \/ MemoryAndUptime
    <3>1. UNCHANGED splitVars /\ call \notin {"compatible", "return"}
      BY <2>2 DEF Identify, CpuLine, EndCpuInfo, MemoryAndUptime
    <3> QED BY <3>1, SplitKept
  <2>3. CASE DeviceTree
    <3>1. CASE call' = "return" /\ UNCHANGED buffer
      <4>1. UNCHANGED splitVars /\ call = "dtinfo"
        BY <2>3, <3>1 DEF DeviceTree
      <4> QED BY <4>1, SplitKept
    <3>2. CASE /\ buffer' \in UNION {[1..n -> BOOLEAN] : n \in 0..MaxBytes}
               /\ call' = "compatible"
      <4>1. PICK n \in 0..MaxBytes : buffer' \in [1..n -> BOOLEAN]
        BY <3>2
      <4>2. buffer' \in Seq(BOOLEAN)
        BY <4>1, IsASeq, SystemInfoAssumption
      <4>3. NotSplit'
        BY <2>3, <3>2, <4>2 DEF DeviceTree, SplitInv, NotSplit
      <4> QED BY <4>3, NothingSplit, PTL
    <3> QED BY <2>3, <3>1, <3>2 DEF DeviceTree
  <2>4. CASE SplitItem
    BY <2>4, SplitItemStep, SystemInfoAssumption
  <2>5. CASE EndSplit
    <3>1. UNCHANGED splitVars /\ call = "compatible" /\ call' = "return"
          /\ (offset > Len(buffer) \/ ~ (Len(compatible) < MaxCompatible))
      BY <2>5 DEF EndSplit, HasRoom
    <3>2. /\ Len(buffer) \in Nat /\ Len(compatible) \in Nat /\ MaxCompatible \in Nat
          /\ offset \in 1..(Len(buffer) + 1) /\ Len(compatible) <= MaxCompatible
      BY SystemInfoAssumption, LenProperties DEF SplitInv, SplitEnd
    <3>3. offset = SplitEnd \/ Len(compatible) = MaxCompatible
      BY <3>1, <3>2 DEF SplitEnd
    <3> QED BY <3>1, <3>3, SplitKept
  <2> QED BY <1>5, <2>1, <2>2, <2>3, <2>4, <2>5 DEF InfoStep, InfoSteps
<1>6. CASE ProcessStep
  <2>1. UNCHANGED infoVars /\ call \in WalkPlaces \cup {"psinfo", "psinfo_pid"}
    BY <1>6, WalkPlaced DEF readVars
  <2> QED BY <2>1, SplitKept DEF infoVars, WalkPlaces
<1> QED BY <1>1, <1>2, <1>3, <1>4, <1>5, <1>6 DEF Next, Over

-----------------------------------------------------------------------------
(* psinfo: the list while the walk goes on. *)

Distinct(s) == \A i, j \in DOMAIN s : s[i] = s[j] => i = j

ProcessTypes ==
    /\ alive \subseteq Pids /\ walked \subseteq Pids /\ entry \in Pids \cup {0}
    /\ list \in Seq(Pids) /\ capacity \in Nat \ {0}

(* What was walked past is in the list, the entry whose status is read next *)
(* not yet; the list has only what was there at some time.                  *)
Listing ==
    /\ Len(list) <= capacity
    /\ alive \subseteq seen /\ stayed \subseteq alive
    /\ ToSet(list) \subseteq walked \cap seen /\ Distinct(list)
    /\ call = "walk" => entry = 0
    /\ call = "read_status" => entry \in walked \ ToSet(list)
    /\ call \in WalkPlaces => (stayed \ Nameless) \cap walked \subseteq ToSet(list) \cup {entry}

ProcessInv ==
    /\ ProcessTypes /\ Listing /\ ProcessesListed
    /\ call \notin WalkPlaces \cup {"return"} =>
          alive = {} /\ walked = {} /\ entry = 0 /\ list = <<>> /\ stayed = {} /\ seen = {}

(* A step outside the walk.                                                 *)
LEMMA ProcessKept ==
    ASSUME ProcessInv, UNCHANGED processVars,
           \/ UNCHANGED <<call, ret>>
           \/ call \notin WalkPlaces \cup {"return"} /\ call' \notin WalkPlaces
    PROVE  ProcessInv'
<1>1. UNCHANGED <<alive, walked, entry, list, capacity, stayed, seen>>
  BY DEF processVars
<1>2. ProcessTypes' /\ Listing'
  BY <1>1 DEF ProcessInv, ProcessTypes, Listing, WalkPlaces, Distinct
<1>3. ProcessesListed'
  BY <1>1 DEF ProcessInv, ProcessesListed, At
<1> QED BY <1>1, <1>2, <1>3 DEF ProcessInv, WalkPlaces

(* A step of the walk that does not end it.                                 *)
LEMMA ProcessGoesOn ==
    ASSUME ProcessTypes', Listing', call' \in WalkPlaces
    PROVE  ProcessInv'
BY DEF ProcessInv, ProcessesListed, Listing, WalkPlaces, At

LEMMA PsinfoStep == ASSUME ProcessInv, Psinfo PROVE ProcessInv'
<1>1. /\ call = "psinfo" /\ UNCHANGED <<walked, entry, list, capacity, births>>
      /\ walked = {} /\ entry = 0 /\ list = <<>> /\ capacity \in Nat \ {0}
      /\ ProcessTypes
  BY DEF Psinfo, ProcessInv, ProcessTypes, WalkPlaces, At
<1>2. CASE call' = "walk" /\ alive' \in SUBSET Pids /\ stayed' = alive' /\ seen' = alive'
  <2>1. ToSet(list) = {} /\ Len(list) = 0 /\ Distinct(list)
    BY <1>1 DEF ToSet, Distinct
  <2>2. ProcessTypes' /\ Listing'
    BY <1>1, <1>2, <2>1 DEF ProcessTypes, Listing, Distinct
  <2> QED BY <1>2, <2>2, ProcessGoesOn DEF WalkPlaces
<1>3. CASE call' = "return" /\ UNCHANGED <<alive, stayed, seen>>
  BY <1>1, <1>3, ProcessKept DEF processVars, WalkPlaces
<1> QED BY <1>2, <1>3 DEF Psinfo, Return

LEMMA BeginsStep == ASSUME ProcessInv, NEW p \in Pids, Begins(p) PROVE ProcessInv'
<1>1. /\ call \in WalkPlaces /\ UNCHANGED <<call, walked, entry, list, capacity, stayed>>
      /\ alive' = alive \cup {p} /\ seen' = seen \cup {p}
  BY DEF Begins, Walking, WalkPlaces
<1>2. ProcessTypes' /\ Listing'
  BY <1>1 DEF ProcessInv, ProcessTypes, Listing, Distinct
<1> QED BY <1>1, <1>2, ProcessGoesOn

LEMMA EndsStep == ASSUME ProcessInv, NEW p \in Pids, Ends(p) PROVE ProcessInv'
<1>1. /\ call \in WalkPlaces /\ UNCHANGED <<call, walked, entry, list, capacity, seen>>
      /\ alive' = alive \ {p} /\ stayed' = stayed \ {p}
  BY DEF Ends, Walking, WalkPlaces
<1>2. ProcessTypes' /\ Listing'
  BY <1>1 DEF ProcessInv, ProcessTypes, Listing, Distinct
<1> QED BY <1>1, <1>2, ProcessGoesOn

LEMMA NextEntryStep == ASSUME ProcessInv, NextEntry PROVE ProcessInv'
<1>1. /\ call = "walk" /\ call' = "read_status" /\ entry = 0
      /\ entry' \in alive \ walked /\ walked' = walked \cup {entry'}
      /\ UNCHANGED <<alive, list, capacity, stayed, seen>>
      /\ ProcessTypes /\ Listing
  BY DEF NextEntry, At, Goto, ProcessInv, Listing
<1>2. 0 \notin stayed
  BY <1>1, ProcessAssumption DEF ProcessTypes, Listing
<1>3. ProcessTypes' /\ Listing'
  BY <1>1, <1>2 DEF ProcessTypes, Listing, Distinct, WalkPlaces
<1> QED BY <1>1, <1>3, ProcessGoesOn DEF WalkPlaces

(* The list has room for the entry, or gets it, or the walk ends.           *)
LEMMA ReadStatusStep == ASSUME ProcessInv, ReadStatus PROVE ProcessInv'
<1>1. /\ call = "read_status" /\ entry' = 0
      /\ UNCHANGED <<alive, walked, stayed, seen>>
      /\ ProcessTypes /\ Listing
      /\ entry \in walked \ ToSet(list)
      /\ (stayed \ Nameless) \cap walked \subseteq ToSet(list) \cup {entry}
  BY DEF ReadStatus, At, ProcessInv, Listing, WalkPlaces
<1>2. Len(list) \in Nat /\ DOMAIN list = 1..Len(list)
  BY <1>1, LenProperties DEF ProcessTypes
<1>3. CASE ~ HasStatus(entry) /\ call' = "walk" /\ UNCHANGED <<list, capacity>>
  <2>1. entry \notin stayed \ Nameless
    BY <1>1, <1>3 DEF HasStatus, Listing
  <2>2. ProcessTypes' /\ Listing'
    BY <1>1, <1>3, <2>1 DEF ProcessTypes, Listing, Distinct
  <2> QED BY <1>3, <2>2, ProcessGoesOn DEF WalkPlaces
<1>4. CASE /\ HasStatus(entry) /\ call' = "walk" /\ list' = Append(list, entry)
           /\ capacity' = IF Full THEN 2 * capacity ELSE capacity
  <2>1. entry \in alive /\ entry \in Pids /\ entry \in seen
    BY <1>1, <1>4 DEF HasStatus, ProcessTypes, Listing
  <2>2. /\ list' \in Seq(Pids) /\ Len(list') = Len(list) + 1
        /\ DOMAIN list' = DOMAIN list \cup {Len(list) + 1}
        /\ list'[Len(list) + 1] = entry
        /\ \A i \in DOMAIN list : list'[i] = list[i]
    BY <1>1, <1>2, <1>4, <2>1 DEF ProcessTypes
  <2>3. ToSet(list') = ToSet(list) \cup {entry} /\ \A i \in DOMAIN list : list[i] # entry
    BY <1>1, <2>2 DEF ToSet
  <2>4. Distinct(list')
    <3> SUFFICES ASSUME NEW i \in DOMAIN list', NEW j \in DOMAIN list', list'[i] = list'[j]
                 PROVE  i = j
      BY DEF Distinct
    <3>1. CASE i \in DOMAIN list /\ j \in DOMAIN list
      BY <1>1, <2>2, <3>1 DEF Listing, Distinct
    <3>2. CASE i = Len(list) + 1
      BY <1>2, <2>2, <2>3, <3>2
    <3>3. CASE j = Len(list) + 1
      BY <1>2, <2>2, <2>3, <3>3
    <3> QED BY <2>2, <3>1, <3>2, <3>3
  <2>5. capacity' \in Nat \ {0} /\ Len(list') <= capacity'
    <3>1. capacity \in Nat \ {0} /\ Len(list) <= capacity
      BY <1>1 DEF ProcessTypes, Listing
    <3>2. capacity' = IF Len(list) = capacity THEN 2 * capacity ELSE capacity
      BY <1>4 DEF Full
    <3>3. Len(list') = Len(list) + 1
      BY <2>2
    <3>4. CASE Len(list) = capacity
      <4>1. capacity' = 2 * capacity
        BY <3>2, <3>4
      <4> QED BY <3>1, <3>3, <3>4, <4>1
    <3>5. CASE Len(list) # capacity
      <4>1. capacity' = capacity
        BY <3>2, <3>5
      <4>2. Len(list) \in Nat /\ capacity \in Nat
        BY <1>2, <3>1
      <4>3. Len(list) + 1 <= capacity
        BY <3>1, <3>5, <4>2
      <4> QED BY <3>1, <3>3, <4>1, <4>3
    <3> QED BY <3>4, <3>5
  <2>6. ProcessTypes'
    BY <1>1, <2>2, <2>5 DEF ProcessTypes
  <2>7. Listing'
    BY <1>1, <1>4, <2>1, <2>3, <2>4, <2>5 DEF Listing
  <2> QED BY <1>4, <2>6, <2>7, ProcessGoesOn DEF WalkPlaces
<1>5. CASE HasStatus(entry) /\ call' = "return" /\ ret' = "memory" /\ list' = <<>>
           /\ UNCHANGED capacity
  <2>1. ToSet(<<>>) = {} /\ Len(<<>>) = 0 /\ Distinct(<<>>) /\ <<>> \in Seq(Pids)
    BY DEF ToSet, Distinct
  <2>2. ProcessTypes' /\ Listing'
    BY <1>1, <1>5, <2>1 DEF ProcessTypes, Listing, Distinct, WalkPlaces
  <2> QED BY <1>5, <2>2 DEF ProcessInv, ProcessesListed, Listing, At
<1> QED BY <1>3, <1>4, <1>5 DEF ReadStatus, Goto, Return

(* qsort leaves the same processes.                                         *)
LEMMA EndWalkStep == ASSUME ProcessInv, EndWalk PROVE ProcessInv'
<1>1. /\ call = "walk" /\ call' = "return" /\ entry = 0
      /\ alive \subseteq walked
      /\ UNCHANGED <<alive, walked, entry, capacity, stayed, seen>>
      /\ ProcessTypes /\ Listing
      /\ (stayed \ Nameless) \cap walked \subseteq ToSet(list) \cup {0}
  BY DEF EndWalk, At, Return, ProcessInv, Listing, WalkPlaces
<1>2. /\ list' \in Arrangements(list)
      /\ \A i, j \in DOMAIN list' : i < j => list'[i] <= list'[j]
  BY DEF EndWalk, Sorted
<1>3. list' \in Seq(Pids) /\ Len(list') = Len(list) /\ DOMAIN list' = DOMAIN list
  BY <1>1, <1>2, Arranged DEF ProcessTypes
<1>4. PICK p \in [DOMAIN list -> DOMAIN list] :
        /\ \A i \in DOMAIN list : list'[i] = list[p[i]]
        /\ \A i, j \in DOMAIN list : p[i] = p[j] => i = j
        /\ \A j \in DOMAIN list : \E i \in DOMAIN list : p[i] = j
  BY <1>1, <1>2, Arranged DEF ProcessTypes
<1>5. \A i \in DOMAIN list : p[i] \in DOMAIN list
  OBVIOUS
<1>6. ToSet(list') = ToSet(list)
  BY <1>3, <1>4, <1>5 DEF ToSet
<1>7. Distinct(list')
  <2> SUFFICES ASSUME NEW i \in DOMAIN list', NEW j \in DOMAIN list', list'[i] = list'[j]
               PROVE  i = j
    BY DEF Distinct
  <2>1. p[i] = p[j]
    BY <1>1, <1>3, <1>4, <1>5 DEF Listing, Distinct
  <2> QED BY <1>3, <1>4, <2>1
<1>8. \A i, j \in DOMAIN list' : i < j => list'[i] < list'[j]
  <2> SUFFICES ASSUME NEW i \in DOMAIN list', NEW j \in DOMAIN list', i < j
               PROVE  list'[i] < list'[j]
    OBVIOUS
  <2>1. i \in Int /\ j \in Int /\ list'[i] \in Pids /\ list'[j] \in Pids
    BY <1>3, LenProperties, ElementOfSeq
  <2>2. list'[i] \in Int /\ list'[j] \in Int
    <3>1. \A q \in Pids : q \in Int
      BY ProcessAssumption
    <3> QED BY <2>1, <3>1
  <2>3. list'[i] # list'[j]
    BY <1>7, <2>1 DEF Distinct
  <2> QED BY <1>2, <2>2, <2>3
<1>9. stayed \ Nameless \subseteq ToSet(list')
  <2>1. 0 \notin stayed /\ stayed \subseteq walked
    BY <1>1, ProcessAssumption DEF ProcessTypes, Listing
  <2> QED BY <1>1, <1>6, <2>1
<1>10. ProcessTypes' /\ Listing'
  BY <1>1, <1>3, <1>6, <1>7 DEF ProcessTypes, Listing, WalkPlaces
<1>11. ProcessesListed'
  BY <1>1, <1>3, <1>6, <1>8, <1>9 DEF ProcessesListed, Listing
<1> QED BY <1>1, <1>10, <1>11 DEF ProcessInv

(* Outside the walk there is no list.                                       *)
NotWalking == ProcessInit /\ call \in {"locate", "idle"}
LEMMA NothingListed == NotWalking => ProcessInv
<1> SUFFICES ASSUME NotWalking PROVE ProcessInv
  OBVIOUS
<1>1. ToSet(<<>>) = {} /\ Len(<<>>) = 0 /\ Distinct(<<>>) /\ <<>> \in Seq(Pids)
  BY DEF ToSet, Distinct
<1>2. /\ ProcessInit /\ call \in {"locate", "idle"} /\ Room \in Nat \ {0}
  BY ProcessAssumption DEF NotWalking
<1>3. ProcessTypes /\ Listing
  BY <1>1, <1>2 DEF ProcessInit, ProcessTypes, Listing, WalkPlaces
<1> QED BY <1>2, <1>3 DEF ProcessInit, ProcessInv, ProcessesListed, Listing, At

LEMMA ProcessInitially == Init => ProcessInv
BY NothingListed DEF Init, NotWalking

(* Every step keeps the list right.                                         *)
LEMMA ProcessStepKeeps ==
    ASSUME SessionInv, ProcessInv, [Next]_vars PROVE ProcessInv'
<1>1. CASE Enter \/ SimpleBuiltin \/ ConfigurationStep \/ LedStep \/ UNCHANGED vars
  BY <1>1, ShellAside, ProcessKept DEF Aside, KnownPlaces
<1>2. CASE Finish
  <2>1. NotWalking'
    BY <1>2 DEF Finish, ProcessOver, ProcessInit, NotWalking
  <2> QED BY <2>1, NothingListed, PTL
<1>3. CASE SurveyStep
  <2>1. UNCHANGED processVars /\ call = "survey" /\ call' \in SurveyPlaces
    BY <1>3, SurveyPlaced DEF SurveyStep
  <2> QED BY <2>1, ProcessKept DEF WalkPlaces, SurveyPlaces
<1>4. CASE SnapshotStep
  <2>1. /\ UNCHANGED processVars /\ call \in LoadPlaces \cup SurveyPlaces
        /\ call' \in LoadPlaces \cup {"return", "survey"}
    BY <1>4, SnapshotPlaced DEF SnapshotStep, ThermalRead, NetworkRead, LoadPlaces, SurveyPlaces,
                                BeginSurvey, Goto, Return
  <2> QED BY <2>1, ProcessKept DEF LoadPlaces, SurveyPlaces, WalkPlaces
<1>5. CASE InfoStep
  <2>1. /\ UNCHANGED processVars /\ call \in InfoPlaces \cup SurveyPlaces
        /\ call' \in InfoPlaces \cup {"return", "survey"}
    BY <1>5, InfoPlaced DEF InfoStep, InfoPlaces, SurveyPlaces, BeginSurvey, Goto
  <2> QED BY <2>1, ProcessKept DEF InfoPlaces, SurveyPlaces, WalkPlaces
<1>6. CASE ProcessStep
  <2>1. CASE \E p \in Pids : Begins(p) \/ Ends(p)
    BY <2>1, BeginsStep, EndsStep
  <2>2. CASE PsinfoOf
    <3>1. UNCHANGED processVars /\ call = "psinfo_pid" /\ call' = "return"
      BY <2>2 DEF PsinfoOf, At, Return
    <3> QED BY <3>1, ProcessKept DEF WalkPlaces
  <2> QED BY <1>6, <2>1, <2>2, PsinfoStep, NextEntryStep, ReadStatusStep, EndWalkStep
          DEF ProcessStep, ProcessSteps
<1> QED BY <1>1, <1>2, <1>3, <1>4, <1>5, <1>6 DEF Next, Over

(* psinfo with a number: parse_pid takes the numbers of processes and no    *)
(* others, and the conversion from long to pid_t leaves them as they are.   *)
THEOREM PidUnchanged ==
    ASSUME NEW n \in Int
    PROVE  /\ PidAccepted(n) <=> n \in 1..PidMax
           /\ PidAccepted(n) => ToInt(n, PidMax) = n
<1>1. PidMax \in Nat /\ PidLong \in Nat /\ PidLong >= PidMax /\ PidMax > 0
  BY ProcessAssumption
<1>2. PidAccepted(n) <=> n \in 1..PidMax
  BY <1>1 DEF PidAccepted, Strtol
<1>3. n \in 1..PidMax => ToInt(n, PidMax) = n
  <2> SUFFICES ASSUME n \in 1..PidMax PROVE ToInt(n, PidMax) = n
    OBVIOUS
  <2> DEFINE m == 2 * (PidMax + 1)  k == n + PidMax + 1
  <2>1. k \in 0..(m - 1) /\ m \in Nat \ {0}
    BY <1>1
  <2> HIDE DEF m
  <2>2. k % m = k
    BY <2>1
  <2> QED BY <1>1, <2>2 DEF ToInt, m
<1> QED BY <1>2, <1>3

(* When psinfo succeeds, its list is in the order of the numbers, shows no  *)
(* process twice and none that was not there, and each with a name that was *)
(* there all the time; it is never longer than what process_monitor_collect *)
(* has room for.  Whatever begins and ends meanwhile.                       *)
THEOREM ProcessesAreListed == Spec => []ProcessesListed
<1>1. SessionInv /\ ProcessInv /\ [Next]_vars => ProcessInv'
  BY ProcessStepKeeps
<1>2. ProcessInv => ProcessesListed
  BY DEF ProcessInv
<1> QED BY <1>1, <1>2, ProcessInitially, SessionInvariance, PTL DEF Spec

(* What the surveys of the devices have found, what monitor shows of it,    *)
(* the line sysinfo takes the model of the CPU from, and the items dtinfo   *)
(* splits the compatible property into.                                     *)
THEOREM ReadingsAreRight == Spec => []ReadingsRight
<1> DEFINE I == SurveyInv /\ SnapshotInv /\ CpuInv /\ SplitInv
<1>1. Init => I
  BY SurveyInitially, SnapshotInitially, CpuInitially, SplitInitially
<1>2. SessionInv /\ I /\ [Next]_vars => I'
  BY SurveyStepKeeps, SnapshotStepKeeps, CpuStepKeeps, SplitStepKeeps
<1>3. I => ReadingsRight
  BY SurveyInvRight, CpuInvRight, SplitInvRight, SystemInfoAssumption
     DEF ReadingsRight, SnapshotInv
<1> QED BY <1>1, <1>2, <1>3, SessionInvariance, PTL DEF Spec

-----------------------------------------------------------------------------
(* The types of the whole. *)

Settings == [prompts : Prompts \cup {"MiniShell"}, max_job : 1..IntMax, debug : {"0", "1"}]

(* The settings in force and the copy they are read into; what is left of   *)
(* the lines that the files of this session have.                           *)
SettingsInv ==
    /\ config \in Settings /\ temporary \in Settings
    /\ level \in {"debug", "info"} /\ budget \in 0..session.lines

SimpleTypes ==
    /\ running \in BOOLEAN /\ last_exit_status \in {0, 1} /\ ret \in Returns
    /\ sections \in 0..3

LEMMA DefaultsAreSettings == Defaults \in Settings
BY ConfigurationAssumption DEF Defaults, Settings

(* An accepted line leaves settings behind.                                 *)
LEMMA AssignedIs ==
    ASSUME NEW c \in Settings, NEW line \in Line, Valid(line)
    PROVE  Assigned(c, line) \in Settings
<1>1. /\ line.key \in {"blank", "unknown", "long", "prompts", "debug", "max_job"}
      /\ line.key = "prompts" => line.text \in Prompts \cup {"empty", "wide"}
      /\ line.key = "max_job" => \/ line.text = "other"
                                 \/ line.text = "number" /\ line.number \in Numbers
  BY LineIs
<1>2. CASE line.key = "prompts"
  <2>1. line.text \in Prompts
    BY <1>1, <1>2 DEF Valid
  <2> QED BY <1>2, <2>1 DEF Assigned, Settings
<1>3. CASE line.key = "max_job"
  <2>1. line.number \in Numbers /\ JobsAccepted(line.number)
    BY <1>1, <1>3 DEF Valid
  <2>2. ToInt(Strtol(line.number, LongMax).value, IntMax) \in 1..IntMax
    BY <2>1, NumbersKept
  <2> QED BY <1>3, <2>2 DEF Assigned, Settings
<1>4. CASE line.key = "debug"
  BY <1>4 DEF Valid, Assigned, Settings
<1>5. CASE line.key \notin {"prompts", "max_job", "debug"}
  BY <1>5 DEF Assigned
<1> QED BY <1>2, <1>3, <1>4, <1>5

LEMMA SessionFixed == ASSUME [Next]_vars PROVE session' = session
BY DEF Next, Enter, SimpleBuiltin, Finish, ConfigurationStep, LedStep, SurveyStep, SnapshotStep,
       InfoStep, ProcessStep, Over, vars, shellVars

(* The steps of the configuration.                                          *)
LEMMA SettingsStep ==
    ASSUME SessionInv, ConfigInv, SettingsInv, ConfigurationStep, session' = session
    PROVE  SettingsInv'
<1> USE DEF SettingsInv, LevelOf
<1>1. session.lines \in Nat
  BY SessionsAssumption DEF SessionInv
<1>2. CASE Locate(session.variable)
  BY <1>2 DEF Locate, loadVars
<1>3. CASE OpenFails
  BY <1>3 DEF OpenFails, Loaded, loadVars
<1>4. CASE Open
  <2>1. PICK f \in Files(budget) : budget' = budget - Len(f)
    BY <1>4 DEF Open
  <2>2. Len(f) \in 0..budget
    <3>1. PICK k \in 0..budget : f \in [1..k -> Line]
      BY <2>1 DEF Files
    <3> QED BY <1>1, <3>1
  <2>3. budget' \in 0..session.lines
    BY <1>1, <2>1, <2>2
  <2> QED BY <1>4, <2>3, DefaultsAreSettings DEF Open
<1>5. CASE ReadLine
  <2>1. content[at] \in Line
    BY <1>5 DEF ReadLine, At, ConfigInv, ReadSoFar
  <2>2. temporary' \in Settings
    BY <1>5, <2>1, AssignedIs DEF ReadLine
  <2> QED BY <1>5, <2>2 DEF ReadLine
<1>6. CASE ReadEnds
  BY <1>6 DEF ReadEnds
<1>7. CASE Close
  <2>1. config' \in Settings /\ budget' = budget /\ temporary' = Defaults
    BY <1>7 DEF Close
  <2>2. level' \in {"debug", "info"}
    BY <1>7 DEF Close, Loaded
  <2> QED BY <2>1, <2>2, DefaultsAreSettings
<1>8. CASE ChangeDirectory
  BY <1>8 DEF ChangeDirectory, loadVars
<1> QED BY <1>2, <1>3, <1>4, <1>5, <1>6, <1>7, <1>8 DEF ConfigurationStep, Load

(* Every step keeps the settings within their types.                        *)
LEMMA SettingsStepKeeps ==
    ASSUME SessionInv, ConfigInv, SettingsInv, [Next]_vars PROVE SettingsInv'
<1>1. session' = session
  BY SessionFixed
<1>2. CASE ConfigurationStep
  BY <1>1, <1>2, SettingsStep
<1>3. CASE ~ ConfigurationStep
  <2>1. UNCHANGED configVars
    BY <1>3, OthersElsewhere DEF Next, Others, LedStep, vars
  <2> QED BY <1>1, <2>1 DEF SettingsInv, configVars, loadVars
<1> QED BY <1>2, <1>3

(* A handler returns one of the codes, and the status is made of it.        *)
LEMMA SimpleTypesKept ==
    ASSUME SimpleTypes, [Next]_vars PROVE SimpleTypes'
<1> USE DEF SimpleTypes, Returns, At, Goto, Return
<1>1. CASE Enter
  BY <1>1 DEF Enter, infoVars
<1>2. CASE SimpleBuiltin
  BY <1>2 DEF SimpleBuiltin, infoVars
<1>3. CASE Finish
  BY <1>3 DEF Finish, Normalized, InfoOver
<1>4. CASE ConfigurationStep
  BY <1>4 DEF ConfigurationStep, Locate, Load, OpenFails, Open, ReadLine, ReadEnds, Close,
              ChangeDirectory, Loaded, shellVars, infoVars
<1>5. CASE LedStep
  BY <1>5 DEF LedStep, LedSteps, LedCommand, ReadMax, WriteTrigger, CheckTrigger,
              WriteBrightness, CheckBrightness, Write, LedFails, Blink, Meddle,
              shellVars, infoVars
<1>6. CASE SurveyStep
  BY <1>6, SurveyPlaced DEF SurveyStep, shellVars, infoVars
<1>7. CASE SnapshotStep
  BY <1>7 DEF SnapshotStep, SnapshotSteps, Monitor, FirstSample, SecondSample, ReadMemory,
              ReadLoad, ThermalRead, NetworkRead, Fails, BeginSurvey, shellVars, infoVars
<1>8. CASE InfoStep
  <2> USE DEF BeginSurvey, shellVars, infoVars
  <2>1. UNCHANGED <<running, last_exit_status>>
    BY <1>8 DEF InfoStep
  <2>2. CASE CollectHardware \/ NextSection \/ PrintHardware \/ Identify
    BY <2>1, <2>2 DEF CollectHardware, NextSection, PrintHardware, Identify
  <2>3. CASE CpuLine \/ EndCpuInfo \/ MemoryAndUptime \/ PrintSystem
    BY <2>1, <2>3 DEF CpuLine, EndCpuInfo, MemoryAndUptime, PrintSystem
  <2>4. CASE DeviceTree \/ SplitItem \/ EndSplit
    BY <2>1, <2>4 DEF DeviceTree, SplitItem, EndSplit
  <2> QED BY <1>8, <2>2, <2>3, <2>4 DEF InfoStep, InfoSteps
<1>9. CASE ProcessStep
  BY <1>9 DEF ProcessStep, ProcessSteps, Psinfo, NextEntry, ReadStatus, EndWalk, PsinfoOf,
              Begins, Ends, shellVars, infoVars
<1>10. CASE UNCHANGED vars
  BY <1>10 DEF vars, callVars, shellVars, infoVars
<1> QED BY <1>1, <1>2, <1>3, <1>4, <1>5, <1>6, <1>7, <1>8, <1>9, <1>10 DEF Next, Over

(* Everything the builtins keep has its type: the settings stay within what *)
(* config_parse_line accepts, the arrays of the surveys and of dtinfo never *)
(* hold more than they have places, the list of psinfo only process numbers.*)
THEOREM BuiltinsTyped == Spec => []TypeOK
<1> DEFINE I == /\ LedInv /\ ConfigInv /\ SettingsInv /\ SimpleTypes
                /\ SurveyInv /\ SnapshotInv /\ CpuInv /\ SplitInv /\ ProcessInv
<1>1. Init => I
  <2> SUFFICES ASSUME Init PROVE I
    OBVIOUS
  <2>1. SettingsInv
    BY DefaultsAreSettings, SessionsAssumption DEF Init, ConfigInit, SettingsInv
  <2>2. SimpleTypes
    BY DEF Init, InfoInit, SimpleTypes, Returns
  <2> QED BY <2>1, <2>2, LedInitially, ConfigInitially, SurveyInitially, SnapshotInitially,
             CpuInitially, SplitInitially, ProcessInitially
<1>2. SessionInv /\ I /\ [Next]_vars => I'
  BY LedStepKeeps, ConfigStep, SettingsStepKeeps, SimpleTypesKept, SurveyStepKeeps,
     SnapshotStepKeeps, CpuStepKeeps, SplitStepKeeps, ProcessStepKeeps DEF Implemented
<1>3. SessionInv /\ I => TypeOK
  BY DEF TypeOK, SessionInv, LedInv, LedTypes, SettingsInv, Settings, SimpleTypes, SurveyInv,
         SurveyTypes, SnapshotInv, CpuInv, SplitInv, SplitEnd, ProcessInv, ProcessTypes
<1> QED BY <1>1, <1>2, <1>3, SessionInvariance, PTL DEF Spec
=============================================================================
