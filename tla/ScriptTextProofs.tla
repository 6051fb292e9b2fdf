--------------------------- MODULE ScriptTextProofs ---------------------------
(***************************************************************************)
(* The places the compiler reports pass the core's checks, and the         *)
(* splitter and the lexer agree, for scripts of any length and any limits. *)
(***************************************************************************)
EXTENDS ScriptText, SequenceTheorems, FiniteSetTheorems, WellFoundedInduction, TLAPS

-----------------------------------------------------------------------------
(* Numbers, induction and loops *)

(* A nonempty set of numbers has a least one. *)
LEMMA LeastIn ==
    ASSUME NEW S, S \subseteq Nat, S # {}
    PROVE  \E x \in S : \A y \in S : x <= y
  <1>1. PICK x \in S : \A y \in S : ~(<<y, x>> \in OpToRel(<, Nat))
    BY NatLessThanWellFounded, WFMin
  <1>2. ASSUME NEW y \in S PROVE x <= y
    <2>1. x \in Nat /\ y \in Nat
      OBVIOUS
    <2>2. <<y, x>> \notin OpToRel(<, Nat)
      BY <1>1
    <2>3. ~(y < x)
      BY <2>1, <2>2 DEF OpToRel
    <2> QED
      BY <2>1, <2>3
  <1> QED
    BY <1>2

(* Induction over the natural numbers, of membership in a set. *)
LEMMA SetInduction ==
    ASSUME NEW S, 0 \in S, \A n \in Nat : n \in S => n + 1 \in S
    PROVE  \A n \in Nat : n \in S
  <1> SUFFICES ASSUME Nat \ S # {} PROVE FALSE
    OBVIOUS
  <1>1. PICK x \in Nat \ S : \A y \in Nat \ S : x <= y
    BY LeastIn
  <1>2. x # 0 /\ x - 1 \in Nat /\ (x - 1) + 1 = x /\ ~(x <= x - 1)
    BY <1>1
  <1> QED
    BY <1>1, <1>2

(* The first n rounds of a loop whose state stays in S. *)
Round(F, s, g, n) == IF n = 0 THEN s ELSE F[g[n - 1]]

Loops(S, F, s, len, f) == f \in [0..len -> S] /\ \A n \in 0..len : f[n] = Round(F, s, f, n)

LEMMA LoopRuns ==
    ASSUME NEW S, NEW F \in [S -> S], NEW s \in S, NEW len \in Nat
    PROVE  \E f : Loops(S, F, s, len, f)
  <1> DEFINE Runs(n) == \E f \in [0..n -> S] : \A i \in 0..n : f[i] = Round(F, s, f, i)
             T == {n \in Nat : Runs(n)}
  <1>1. 0 \in T
    <2> DEFINE f == [i \in 0..0 |-> s]
    <2>1. f \in [0..0 -> S] /\ \A i \in 0..0 : f[i] = Round(F, s, f, i)
      BY DEF Round
    <2> HIDE DEF f
    <2> QED
      BY <2>1
  <1>2. ASSUME NEW n \in Nat, n \in T PROVE n + 1 \in T
    <2> PICK f \in [0..n -> S] : \A i \in 0..n : f[i] = Round(F, s, f, i)
      BY <1>2
    <2> DEFINE h == [i \in 0..n + 1 |-> Round(F, s, f, i)]
    <2>1. \A i \in 0..n : h[i] = f[i]
      OBVIOUS
    <2>2. ASSUME NEW i \in 0..n + 1
          PROVE  Round(F, s, f, i) = Round(F, s, h, i) /\ Round(F, s, f, i) \in S
      <3>1. i # 0 => i - 1 \in 0..n
        OBVIOUS
      <3> QED
        BY <2>1, <3>1 DEF Round
    <2>3. h \in [0..n + 1 -> S] /\ \A i \in 0..n + 1 : h[i] = Round(F, s, h, i)
      BY <2>2
    <2> HIDE DEF h
    <2> QED
      BY <2>3
  <1> HIDE DEF T
  <1>3. len \in T
    BY <1>1, <1>2, SetInduction
  <1> QED
    BY <1>3 DEF T, Loops

(* What a loop reaches: the states in every set that holds its first state *)
(* and the next of each of its own.                                        *)
Reach(F, s, x) == \A T : (s \in T /\ \A y \in T : y \in DOMAIN F => F[y] \in T) => x \in T

(* The loop ends in x, and stays there. *)
Final(S, F, s, x) == \E len \in Nat : \E f : Loops(S, F, s, len, f) /\ x = f[len] /\ F[x] = x

LEMMA ReachSteps ==
    ASSUME NEW F, NEW s
    PROVE  /\ Reach(F, s, s)
           /\ \A x \in DOMAIN F : Reach(F, s, x) => Reach(F, s, F[x])
  BY DEF Reach

(* A loop that ends in x goes on to x from wherever it is, and stops       *)
(* nowhere else.                                                           *)
LEMMA ReachFinal ==
    ASSUME NEW S, NEW F \in [S -> S], NEW s \in S, NEW x, Final(S, F, s, x)
    PROVE  /\ Reach(F, s, x)
           /\ \A y : Reach(F, s, y) => /\ y \in S /\ Reach(F, y, x)
                                       /\ F[y] = y => y = x
  <1> PICK len \in Nat : \E f : Loops(S, F, s, len, f) /\ x = f[len] /\ F[x] = x
    BY DEF Final
  <1>1. PICK f : Loops(S, F, s, len, f) /\ x = f[len] /\ F[x] = x
    OBVIOUS
  <1>2. /\ f \in [0..len -> S] /\ f[0] = s
        /\ \A n \in 0..len : n # len => n + 1 \in 0..len /\ f[n + 1] = F[f[n]]
    <2>1. f \in [0..len -> S] /\ \A n \in 0..len : f[n] = Round(F, s, f, n)
      BY <1>1 DEF Loops
    <2>2. 0 \in 0..len /\ \A n \in 0..len : n # len => /\ n + 1 \in 0..len /\ n + 1 # 0
                                                       /\ (n + 1) - 1 = n
      OBVIOUS
    <2> QED
      BY <2>1, <2>2 DEF Round
  <1>3. ASSUME NEW n \in 0..len PROVE Reach(F, f[n], x)
    <2> SUFFICES ASSUME NEW T, f[n] \in T, \A y \in T : y \in DOMAIN F => F[y] \in T
                 PROVE  x \in T
      BY DEF Reach
    <2> DEFINE U == {m \in Nat : n + m <= len => f[n + m] \in T}
    <2>1. 0 \in U
      OBVIOUS
    <2>2. ASSUME NEW m \in Nat, m \in U PROVE m + 1 \in U
      <3> SUFFICES ASSUME n + (m + 1) <= len PROVE f[n + (m + 1)] \in T
        OBVIOUS
      <3>1. n + m \in 0..len /\ n + m # len /\ n + m <= len /\ (n + m) + 1 = n + (m + 1)
        OBVIOUS
      <3>2. f[n + m] \in T /\ f[n + m] \in DOMAIN F
        BY <1>2, <2>2, <3>1
      <3> QED
        BY <1>2, <3>1, <3>2
    <2> HIDE DEF U
    <2>3. len - n \in U
      <3>1. len - n \in Nat
        OBVIOUS
      <3> QED
        BY <2>1, <2>2, <3>1, SetInduction
    <2>4. n + (len - n) = len
      OBVIOUS
    <2> QED
      BY <1>1, <2>3, <2>4 DEF U
  <1>4. ASSUME NEW y, Reach(F, s, y) PROVE \E n \in 0..len : y = f[n]
    <2> DEFINE T == {f[n] : n \in 0..len}
    <2>1. s \in T
      BY <1>2
    <2>2. ASSUME NEW z \in T PROVE F[z] \in T
      <3>1. PICK n \in 0..len : z = f[n]
        OBVIOUS
      <3>2. CASE n = len
        BY <1>1, <3>1, <3>2
      <3>3. CASE n # len
        BY <1>2, <3>1, <3>3
      <3> QED
        BY <3>2, <3>3
    <2> HIDE DEF T
    <2>3. y \in T
      BY <1>4, <2>1, <2>2 DEF Reach
    <2> QED
      BY <2>3 DEF T
  <1>5. Reach(F, s, x)
    BY <1>2, <1>3
  <1>6. ASSUME NEW y, Reach(F, s, y)
        PROVE  y \in S /\ Reach(F, y, x) /\ (F[y] = y => y = x)
    <2>1. y \in S /\ Reach(F, y, x)
      BY <1>2, <1>3, <1>4, <1>6
    <2>2. ASSUME F[y] = y PROVE y = x
      <3>1. x \in {y}
        BY <2>1, <2>2 DEF Reach
      <3> QED
        BY <3>1
    <2> QED
      BY <2>1, <2>2
  <1> QED
    BY <1>5, <1>6

-----------------------------------------------------------------------------
(* Locations *)

Breaks(t, i) == {m \in 0..(i - 1) : ByteAt(t, m) = "lf"}
LineStart(breaks) ==
    IF breaks = {} THEN 0 ELSE (CHOOSE m \in breaks : \A n \in breaks : n <= m) + 1
First(t, i) == LineStart(Breaks(t, i))
AfterCr(t, i) == i > 0 /\ ByteAt(t, i - 1) = "cr"

(* Where the splitter and the lexer stand after i bytes, if no "cr" is     *)
(* alone.                                                                  *)
Place(t, i) ==
    [line |-> Cardinality(Breaks(t, i)) + 1,
     column |-> (i - First(t, i)) + 1 - (IF AfterCr(t, i) THEN 1 ELSE 0),
     offset |-> i]

LEMMA LocationAtOffset ==
    ASSUME NEW t, NEW i
    PROVE  location_at_offset(t, i) =
             IF ~is_valid_endpoint(t, i) THEN Nowhere
             ELSE [line |-> Cardinality(Breaks(t, i)) + 1, column |-> i - First(t, i) + 1,
                   offset |-> i]
  BY DEF location_at_offset, Breaks, First, LineStart

(* The line breaks before a place. *)
LEMMA BreaksFacts ==
    ASSUME NEW t, NEW i \in Nat
    PROVE  /\ IsFiniteSet(Breaks(t, i)) /\ Cardinality(Breaks(t, i)) \in Nat
           /\ Breaks(t, 0) = {}
           /\ ByteAt(t, i) = "lf" => Breaks(t, i + 1) = Breaks(t, i) \cup {i}
           /\ ByteAt(t, i) # "lf" => Breaks(t, i + 1) = Breaks(t, i)
           /\ i \notin Breaks(t, i)
           /\ \A n \in Breaks(t, i) : n \in Nat /\ n < i
  <1>1. IsFiniteSet(0..(i - 1)) /\ Breaks(t, i) \in SUBSET (0..(i - 1))
    BY FS_Interval DEF Breaks
  <1>2. IsFiniteSet(Breaks(t, i))
    BY <1>1, FS_Subset
  <1>3. Cardinality(Breaks(t, i)) \in Nat
    BY <1>2, FS_CardinalityType
  <1>4. 0..((i + 1) - 1) = 0..(i - 1) \cup {i} /\ i \notin 0..(i - 1) /\ 0..(0 - 1) = {}
    OBVIOUS
  <1> QED
    BY <1>2, <1>3, <1>4 DEF Breaks

LEMMA BreaksCount ==
    ASSUME NEW t, NEW i \in Nat
    PROVE  /\ Cardinality(Breaks(t, 0)) = 0
           /\ ByteAt(t, i) = "lf" => Cardinality(Breaks(t, i + 1)) = Cardinality(Breaks(t, i)) + 1
           /\ ByteAt(t, i) # "lf" => Cardinality(Breaks(t, i + 1)) = Cardinality(Breaks(t, i))
  <1>1. Cardinality(Breaks(t, 0)) = 0
    BY BreaksFacts, FS_EmptySet, Zenon
  <1>2. IsFiniteSet(Breaks(t, i)) /\ i \notin Breaks(t, i)
    BY BreaksFacts
  <1>3. Cardinality(Breaks(t, i) \cup {i}) = Cardinality(Breaks(t, i)) + 1
    BY <1>2, FS_AddElement
  <1>4. ASSUME ByteAt(t, i) = "lf"
        PROVE  Cardinality(Breaks(t, i + 1)) = Cardinality(Breaks(t, i)) + 1
    <2>1. Breaks(t, i + 1) = Breaks(t, i) \cup {i}
      BY <1>4, BreaksFacts
    <2> QED
      BY <1>3, <2>1, Zenon
  <1>5. ASSUME ByteAt(t, i) # "lf"
        PROVE  Cardinality(Breaks(t, i + 1)) = Cardinality(Breaks(t, i))
    <2>1. Breaks(t, i + 1) = Breaks(t, i)
      BY <1>5, BreaksFacts
    <2> QED
      BY <2>1, Zenon
  <1> QED
    BY <1>1, <1>4, <1>5

(* The start of the line a place is on. *)
LEMMA FirstFacts ==
    ASSUME NEW t, NEW i \in Nat
    PROVE  /\ First(t, 0) = 0
           /\ ByteAt(t, i) = "lf" => First(t, i + 1) = i + 1
           /\ ByteAt(t, i) # "lf" => First(t, i + 1) = First(t, i)
  <1>1. First(t, 0) = 0
    BY BreaksFacts DEF First, LineStart
  <1>2. ASSUME ByteAt(t, i) = "lf" PROVE First(t, i + 1) = i + 1
    <2> DEFINE B == Breaks(t, i + 1)
    <2>1. B = Breaks(t, i) \cup {i} /\ \A n \in Breaks(t, i) : n \in Nat /\ n < i
      BY <1>2, BreaksFacts
    <2> HIDE DEF B
    <2>2. i \in B /\ B # {} /\ \A n \in B : n \in Nat /\ n <= i
      BY <2>1
    <2>3. PICK m : m = CHOOSE k \in B : \A n \in B : n <= k
      OBVIOUS
    <2>4. m \in B /\ \A n \in B : n <= m
      BY <2>2, <2>3
    <2>5. m = i
      BY <2>2, <2>4
    <2> QED
      BY <2>2, <2>3, <2>5 DEF First, LineStart, B
  <1>3. ASSUME ByteAt(t, i) # "lf" PROVE First(t, i + 1) = First(t, i)
    <2>1. Breaks(t, i + 1) = Breaks(t, i)
      BY <1>3, BreaksFacts
    <2> QED
      BY <2>1 DEF First
  <1> QED
    BY <1>1, <1>2, <1>3

LEMMA FirstType ==
    ASSUME NEW t
    PROVE  \A i \in Nat : First(t, i) \in Nat
  <1> DEFINE S == {i \in Nat : First(t, i) \in Nat}
  <1>1. 0 \in S
    BY FirstFacts
  <1>2. ASSUME NEW i \in Nat, i \in S PROVE i + 1 \in S
    BY <1>2, FirstFacts
  <1> HIDE DEF S
  <1>3. \A i \in Nat : i \in S
    BY <1>1, <1>2, SetInduction
  <1> QED
    BY <1>3 DEF S

(* One byte takes a place to the next. *)
LEMMA PlaceStep ==
    ASSUME NEW t \in Seq(Bytes), ~HasLoneCr(t), NEW n \in Nat, n < Len(t)
    PROVE  /\ Place(t, 0) = Origin
           /\ Place(t, n + 1) = advance_location(Place(t, n), t[n + 1])
  <1> DEFINE byte == ByteAt(t, n)
             first == First(t, n)
             count == Cardinality(Breaks(t, n))
  <1>1. /\ byte = t[n + 1] /\ first \in Nat /\ count \in Nat
        /\ (n + 1) - 1 = n /\ n + 1 > 0 /\ ~(0 > 0)
    BY BreaksFacts, FirstType DEF ByteAt
  <1>2. Place(t, 0) = Origin
    <2>1. Cardinality(Breaks(t, 0)) = 0 /\ First(t, 0) = 0 /\ ~AfterCr(t, 0)
      BY BreaksCount, FirstFacts, <1>1 DEF AfterCr
    <2> QED
      BY <2>1 DEF Place, Origin
  <1>3. AfterCr(t, n + 1) <=> byte = "cr"
    BY <1>1 DEF AfterCr
  <1>4. AfterCr(t, n) => byte = "lf"
    <2> SUFFICES ASSUME AfterCr(t, n) PROVE byte = "lf"
      OBVIOUS
    <2>1. n - 1 \in 0..(Len(t) - 1) /\ (n - 1) + 1 = n /\ ByteAt(t, n - 1) = "cr"
      BY DEF AfterCr
    <2> QED
      BY <2>1 DEF HasLoneCr
  <1>5. CASE byte = "lf"
    <2>1. /\ First(t, n + 1) = n + 1 /\ Cardinality(Breaks(t, n + 1)) = count + 1
          /\ ~AfterCr(t, n + 1)
      BY <1>3, <1>5, FirstFacts, BreaksCount
    <2> QED
      BY <1>1, <1>2, <1>5, <2>1 DEF Place, advance_location
  <1>6. CASE byte # "lf"
    <2>1. /\ First(t, n + 1) = first /\ Cardinality(Breaks(t, n + 1)) = count
          /\ ~AfterCr(t, n)
      BY <1>4, <1>6, FirstFacts, BreaksCount
    <2> HIDE DEF first, count, byte
    <2>2. CASE byte = "cr"
      <3>1. Place(t, n + 1) = [line |-> count + 1, column |-> (n + 1 - first) + 1 - 1,
                               offset |-> n + 1]
        <4>1. AfterCr(t, n + 1)
          BY <1>3, <2>2
        <4> QED
          BY <1>1, <2>1, <4>1 DEF Place
      <3>2. Place(t, n) = [line |-> count + 1, column |-> (n - first) + 1 - 0, offset |-> n]
        BY <2>1 DEF Place, first, count
      <3>3. advance_location(Place(t, n), t[n + 1]) =
              [line |-> count + 1 + 0, column |-> (n - first) + 1 - 0, offset |-> n + 1]
        BY <1>1, <2>2, <3>2 DEF advance_location
      <3> QED
        BY <1>1, <1>2, <3>1, <3>3
    <2>3. CASE byte # "cr"
      <3>1. Place(t, n + 1) = [line |-> count + 1, column |-> (n + 1 - first) + 1 - 0,
                               offset |-> n + 1]
        <4>1. ~AfterCr(t, n + 1)
          BY <1>3, <2>3
        <4> QED
          BY <1>1, <2>1, <4>1 DEF Place
      <3>2. Place(t, n) = [line |-> count + 1, column |-> (n - first) + 1 - 0, offset |-> n]
        BY <2>1 DEF Place, first, count
      <3>3. advance_location(Place(t, n), t[n + 1]) =
              [line |-> count + 1 + 0, column |-> ((n - first) + 1 - 0) + 1, offset |-> n + 1]
        BY <1>1, <1>6, <2>3, <3>2 DEF advance_location
      <3> QED
        BY <1>1, <1>2, <3>1, <3>3
    <2> QED
      BY <2>2, <2>3
  <1> QED
    BY <1>5, <1>6

LocationRound(t, g, n) == IF n = 0 THEN Origin ELSE advance_location(g[n - 1], t[n])

LEMMA LocationIsPlace ==
    ASSUME NEW t \in Seq(Bytes), ~HasLoneCr(t), NEW i \in 0..Len(t)
    PROVE  location(t, i) = Place(t, i)
  <1> DEFINE p == [n \in 0..i |-> Place(t, n)]
  <1>0. Place(t, 0) = Origin
    <2>1. Cardinality(Breaks(t, 0)) = 0 /\ First(t, 0) = 0 /\ ~AfterCr(t, 0)
      BY BreaksCount, FirstFacts DEF AfterCr
    <2> QED
      BY <2>1 DEF Place, Origin
  <1>1. ASSUME NEW n \in 0..i, n # 0
        PROVE  n - 1 \in 0..i /\ Place(t, n) = advance_location(Place(t, n - 1), t[n])
    <2>1. n - 1 \in 0..i /\ n - 1 \in Nat /\ n - 1 < Len(t) /\ (n - 1) + 1 = n
      BY <1>1
    <2>2. Place(t, (n - 1) + 1) = advance_location(Place(t, n - 1), t[(n - 1) + 1])
      BY <2>1, PlaceStep
    <2> QED
      BY <2>1, <2>2
  <1>2. \A n \in 0..i : Place(t, n) = LocationRound(t, p, n)
    BY <1>0, <1>1 DEF LocationRound
  <1>3. p = [n \in 0..i |-> LocationRound(t, p, n)]
    BY <1>2
  <1> HIDE DEF p
  <1> DEFINE at == CHOOSE g : g = [n \in 0..i |-> LocationRound(t, g, n)]
  <1>4. at = [n \in 0..i |-> LocationRound(t, at, n)]
    BY <1>3
  <1>5. location(t, i) = at[i]
    BY DEF location, LocationRound
  <1> HIDE DEF at
  <1>6. \A n \in 0..i : at[n] = LocationRound(t, at, n)
    BY <1>4
  <1> DEFINE S == {n \in Nat : n <= i => at[n] = Place(t, n)}
  <1>7. 0 \in S
    BY <1>0, <1>6 DEF LocationRound
  <1>8. ASSUME NEW n \in Nat, n \in S PROVE n + 1 \in S
    <2> SUFFICES ASSUME n + 1 <= i PROVE at[n + 1] = Place(t, n + 1)
      OBVIOUS
    <2>1. at[n] = Place(t, n) /\ n + 1 \in 0..i /\ n + 1 # 0 /\ (n + 1) - 1 = n
      BY <1>8
    <2> QED
      BY <1>1, <1>6, <2>1 DEF LocationRound
  <1> HIDE DEF S
  <1>9. i \in S
    BY <1>7, <1>8, SetInduction
  <1> QED
    BY <1>5, <1>9 DEF S

(* The splitter, the lexer and the core agree on the endpoints of ranges.  *)
LEMMA LocationsAgree ==
    ASSUME NEW t \in Seq(Bytes), ~HasLoneCr(t), NEW i \in 0..Len(t), is_valid_endpoint(t, i)
    PROVE  /\ location(t, i) = location_at_offset(t, i)
           /\ location(t, i).offset = i
  <1>1. location(t, i) = Place(t, i)
    BY LocationIsPlace
  <1>2. ~AfterCr(t, i)
    <2> SUFFICES ASSUME AfterCr(t, i) PROVE FALSE
      OBVIOUS
    <2>1. i - 1 \in 0..(Len(t) - 1) /\ (i - 1) + 1 = i /\ ByteAt(t, i - 1) = "cr" /\ i > 0
      BY DEF AfterCr
    <2>2. ByteAt(t, i) = "lf"
      BY <2>1 DEF HasLoneCr
    <2> QED
      BY <2>1, <2>2 DEF is_valid_endpoint
  <1>3. First(t, i) \in Nat
    BY FirstType
  <1>4. location(t, i) = [line |-> Cardinality(Breaks(t, i)) + 1,
                          column |-> (i - First(t, i)) + 1 - 0, offset |-> i]
    BY <1>1, <1>2 DEF Place
  <1>5. location_at_offset(t, i) = [line |-> Cardinality(Breaks(t, i)) + 1,
                                    column |-> i - First(t, i) + 1, offset |-> i]
    BY LocationAtOffset
  <1>6. (i - First(t, i)) + 1 - 0 = i - First(t, i) + 1
    BY <1>3
  <1> QED
    BY <1>4, <1>5, <1>6

(* A place of the core's has a line. *)
LEMMA Somewhere ==
    ASSUME NEW t, NEW i \in Nat, is_valid_endpoint(t, i)
    PROVE  location_at_offset(t, i) # Nowhere
  <1>1. location_at_offset(t, i).line = Cardinality(Breaks(t, i)) + 1
    BY LocationAtOffset
  <1>2. Cardinality(Breaks(t, i)) \in Nat
    BY BreaksFacts
  <1> QED
    BY <1>1, <1>2 DEF Nowhere

(* A range as the splitter and the lexer make it. *)
Between(t, i, j) == [begin |-> location(t, i), end |-> location(t, j)]

LEMMA RangeValid ==
    ASSUME NEW t \in Seq(Bytes), ~HasLoneCr(t), NEW i \in 0..Len(t), NEW j \in 0..Len(t), i <= j,
           is_valid_endpoint(t, i), is_valid_endpoint(t, j)
    PROVE  /\ is_valid_source_range(t, Between(t, i, j))
           /\ Between(t, i, j).begin.offset = i /\ Between(t, i, j).end.offset = j
  <1>1. location(t, i) = location_at_offset(t, i) /\ location(t, i).offset = i
    BY LocationsAgree
  <1>2. location(t, j) = location_at_offset(t, j) /\ location(t, j).offset = j
    BY LocationsAgree
  <1> QED
    BY <1>1, <1>2 DEF is_valid_source_range, Between

-----------------------------------------------------------------------------
(* split_statements *)

(* Where a statement may begin or end. *)
Cuts(t) == {i \in 0..Len(t) : i = 0 \/ i = Len(t) \/ ByteAt(t, i - 1) = ";"}

Segments(t) == UNION {{Between(t, i, j) : i \in {c \in Cuts(t) : c <= j}} : j \in Cuts(t)}

SplitStates(t) ==
    {r \in [state : {"normal", "string", "line", "block"}, index : 0..Len(t), start : Cuts(t),
            content : BOOLEAN, out : Seq(Segments(t))] : r.start <= r.index}

LEMMA SegmentIn ==
    ASSUME NEW t, NEW r, NEW j \in Cuts(t), r.start \in Cuts(t), r.start <= j
    PROVE  Segment(t, r, j) \in Segments(t)
  BY DEF Segment, Segments, Between

SplitAt(state, index, start, content, out) ==
    [state |-> state, index |-> index, start |-> start, content |-> content, out |-> out]

LEMMA SplitStateIn ==
    ASSUME NEW t \in Seq(Bytes), NEW state \in {"normal", "string", "line", "block"},
           NEW index \in 0..Len(t), NEW start \in Cuts(t), start <= index,
           NEW content \in BOOLEAN, NEW out \in Seq(Segments(t))
    PROVE  /\ SplitAt(state, index, start, content, out) \in SplitStates(t)
           /\ SplitAt(state, index, start, content, out).index = index
  BY DEF SplitStates, SplitAt

LEMMA SplitStateFields ==
    ASSUME NEW t, NEW r \in SplitStates(t)
    PROVE  /\ r = SplitAt(r.state, r.index, r.start, r.content, r.out)
           /\ r.state \in {"normal", "string", "line", "block"}
           /\ r.index \in 0..Len(t) /\ r.start \in Cuts(t) /\ r.start <= r.index
           /\ r.content \in BOOLEAN /\ r.out \in Seq(Segments(t))
  BY DEF SplitStates, SplitAt

(* A round of split_statements takes a byte or two. *)
LEMMA SplitStepFacts ==
    ASSUME NEW t \in Seq(Bytes), NEW r \in SplitStates(t), r.index < Len(t)
    PROVE  SplitStep(t, r) \in SplitStates(t) /\ SplitStep(t, r).index > r.index
  <1> DEFINE byte == ByteAt(t, r.index)
             next == ByteAt(t, r.index + 1)
             len == Len(t)
  <1>0. /\ r.index \in 0..len /\ r.start \in Cuts(t) /\ r.start <= r.index
        /\ r.content \in BOOLEAN /\ r.out \in Seq(Segments(t))
    BY SplitStateFields
  <1>1. /\ len \in Nat /\ r.index \in Nat /\ r.index + 1 \in 0..len
        /\ r.start \in Nat /\ r.start <= r.index
    <2>1. Len(t) \in Nat
      OBVIOUS
    <2>2. r.start \in 0..Len(t)
      BY <1>0 DEF Cuts
    <2> HIDE DEF byte, next
    <2> QED
      BY <1>0, <2>1, <2>2
  <1>2. next # "nul" => r.index + 2 \in 0..len
    BY <1>1 DEF ByteAt
  <1>3. ASSUME NEW s \in {"normal", "string", "line", "block"}, NEW n \in {1, 2},
               r.index + n \in 0..len
        PROVE  /\ [r EXCEPT !.state = s, !.index = @ + n] \in SplitStates(t)
               /\ [r EXCEPT !.state = s, !.index = @ + n].index > r.index
    <2> DEFINE d == [r EXCEPT !.state = s, !.index = @ + n]
    <2>1. r.start <= r.index + n /\ r.index + n > r.index
      BY <1>1
    <2>2. d.index = r.index + n /\ d.start = r.start
      BY DEF SplitStates
    <2>3. d \in [state : {"normal", "string", "line", "block"}, index : 0..Len(t),
                 start : Cuts(t), content : BOOLEAN, out : Seq(Segments(t))]
      BY <1>3 DEF SplitStates
    <2> HIDE DEF d
    <2>4. d \in SplitStates(t) /\ d.index > r.index
      BY <2>1, <2>2, <2>3 DEF SplitStates
    <2> QED
      BY <2>4 DEF d
  <1>4. CASE r.state = "normal"
    <2>1. CASE byte = "'"
      <3> DEFINE content == TRUE
      <3>1. SplitStep(t, r) = SplitAt("string", r.index + 1, r.start, content, r.out)
        BY <1>4, <2>1 DEF SplitStep, SplitAt, SplitStates
      <3>3. content \in BOOLEAN
        OBVIOUS
      <3> HIDE DEF content
      <3>2. r.start <= r.index + 1 /\ r.index + 1 > r.index
        BY <1>1
      <3> QED
        BY <1>0, <1>1, <3>1, <3>2, <3>3, SplitStateIn
    <2>2. CASE byte = "-" /\ next = "-"
      BY <1>1, <1>2, <1>3, <1>4, <2>2 DEF SplitStep
    <2>3. CASE byte = "/" /\ next = "*"
      BY <1>1, <1>2, <1>3, <1>4, <2>3 DEF SplitStep
    <2>4. CASE byte = ";"
      <3> DEFINE out == IF r.content THEN Append(r.out, Segment(t, r, r.index + 1)) ELSE r.out
                 content == FALSE
      <3>1. r.index + 1 \in Cuts(t)
        <4>1. (r.index + 1) - 1 = r.index
          BY <1>1
        <4> QED
          BY <1>1, <2>4, <4>1 DEF Cuts
      <3>2. Segment(t, r, r.index + 1) \in Segments(t)
        BY <1>0, <1>1, <3>1, SegmentIn
      <3>3. SplitStep(t, r) = SplitAt("normal", r.index + 1, r.index + 1, content, out)
        BY <1>4, <2>4 DEF SplitStep, SplitStates, SplitAt
      <3>4. out \in Seq(Segments(t))
        BY <1>0, <3>2
      <3>6. content \in BOOLEAN
        OBVIOUS
      <3> HIDE DEF out, content
      <3>5. r.index + 1 <= r.index + 1 /\ r.index + 1 > r.index
        BY <1>1
      <3> QED
        BY <1>1, <3>1, <3>3, <3>4, <3>5, <3>6, SplitStateIn
    <2>5. CASE /\ byte # "'" /\ ~(byte = "-" /\ next = "-") /\ ~(byte = "/" /\ next = "*")
               /\ byte # ";"
      <3> DEFINE content == r.content \/ ~is_whitespace(byte)
      <3>1. SplitStep(t, r) = SplitAt("normal", r.index + 1, r.start, content, r.out)
        BY <1>4, <2>5 DEF SplitStep, SplitStates, SplitAt
      <3>2. content \in BOOLEAN
        OBVIOUS
      <3> HIDE DEF content
      <3>3. r.start <= r.index + 1 /\ r.index + 1 > r.index
        BY <1>1
      <3> QED
        BY <1>0, <1>1, <3>1, <3>2, <3>3, SplitStateIn
    <2> QED
      BY <2>1, <2>2, <2>3, <2>4, <2>5
  <1>5. CASE r.state = "string"
    BY <1>1, <1>2, <1>3, <1>5 DEF SplitStep
  <1>6. CASE r.state = "line"
    BY <1>1, <1>2, <1>3, <1>6 DEF SplitStep
  <1>7. CASE r.state = "block"
    BY <1>1, <1>2, <1>3, <1>7 DEF SplitStep
  <1> QED
    BY <1>4, <1>5, <1>6, <1>7, SplitStateFields

LEMMA SplitLoopFacts ==
    ASSUME NEW t \in Seq(Bytes), NEW r \in SplitStates(t)
    PROVE  /\ SplitLoop(t, r) \in SplitStates(t)
           /\ r.index \in 0..Len(t)
           /\ SplitLoop(t, r).index > r.index \/ SplitLoop(t, r).index = Len(t)
  <1>1. r.index \in 0..Len(t)
    BY SplitStateFields
  <1>2. CASE r.index < Len(t)
    BY <1>1, <1>2, SplitStepFacts DEF SplitLoop
  <1>3. CASE ~(r.index < Len(t))
    BY <1>1, <1>3 DEF SplitLoop
  <1> QED
    BY <1>2, <1>3

SplitRound(t, g, n) == IF n = 0 THEN SplitStart ELSE SplitLoop(t, g[n - 1])

Splitter(t) == [r \in SplitStates(t) |-> SplitLoop(t, r)]

(* The loop of split_statements reads the text to its end. *)
LEMMA SplitRunFacts ==
    ASSUME NEW t \in Seq(Bytes)
    PROVE  /\ SplitRun(t) \in SplitStates(t) /\ SplitRun(t).index = Len(t)
           /\ Splitter(t) \in [SplitStates(t) -> SplitStates(t)] /\ SplitStart \in SplitStates(t)
           /\ Final(SplitStates(t), Splitter(t), SplitStart, SplitRun(t))
  <1> DEFINE S == SplitStates(t)
             F == Splitter(t)
             len == Len(t)
  <1>0. len \in Nat
    OBVIOUS
  <1>1. SplitStart \in S /\ SplitStart.index = 0
    <2>1. 0 \in Cuts(t) /\ 0 \in 0..Len(t) /\ 0 <= 0
      BY DEF Cuts
    <2>2. <<>> \in Seq(Segments(t))
      OBVIOUS
    <2> QED
      BY <2>1, <2>2 DEF SplitStart, SplitStates
  <1>2. F \in [S -> S]
    BY SplitLoopFacts DEF Splitter
  <1> HIDE DEF S, F
  <1>3a. PICK f : Loops(S, F, SplitStart, len, f)
    BY <1>0, <1>1, <1>2, LoopRuns
  <1>3. f \in [0..len -> S] /\ \A n \in 0..len : f[n] = Round(F, SplitStart, f, n)
    BY <1>3a DEF Loops
  <1> USE DEF S
  <1>4. ASSUME NEW n \in 0..len PROVE Round(F, SplitStart, f, n) = SplitRound(t, f, n)
    <2>1. n # 0 => n - 1 \in 0..len /\ f[n - 1] \in S
      BY <1>0, <1>3
    <2> QED
      BY <2>1 DEF Round, SplitRound, F, Splitter
  <1>5. f = [n \in 0..len |-> SplitRound(t, f, n)]
    BY <1>3, <1>4
  <1> DEFINE run == CHOOSE g : g = [n \in 0..len |-> SplitRound(t, g, n)]
  <1>6. run = [n \in 0..len |-> SplitRound(t, run, n)]
    BY <1>5
  <1>7. SplitRun(t) = run[len]
    BY DEF SplitRun, SplitRound
  <1> HIDE DEF run
  <1>8. \A n \in 0..len : run[n] = SplitRound(t, run, n)
    BY <1>6
  <1> DEFINE T == {n \in Nat : n <= len => run[n] \in S /\ run[n].index >= n}
  <1>9. 0 \in T
    BY <1>0, <1>1, <1>8 DEF SplitRound
  <1>10. ASSUME NEW n \in Nat, n \in T PROVE n + 1 \in T
    <2> SUFFICES ASSUME n + 1 <= len PROVE run[n + 1] \in S /\ run[n + 1].index >= n + 1
      OBVIOUS
    <2>1. run[n] \in S /\ run[n].index >= n /\ n + 1 \in 0..len /\ n + 1 # 0 /\ (n + 1) - 1 = n
      BY <1>0, <1>10
    <2>2. run[n + 1] = SplitLoop(t, run[n])
      BY <1>8, <2>1 DEF SplitRound
    <2>3. /\ SplitLoop(t, run[n]) \in S /\ run[n].index \in 0..len
          /\ SplitLoop(t, run[n]).index > run[n].index \/ SplitLoop(t, run[n]).index = len
      BY <2>1, SplitLoopFacts
    <2>4. SplitLoop(t, run[n]).index \in 0..len
      BY <2>3, SplitStateFields
    <2> HIDE DEF S
    <2> QED
      BY <1>0, <2>1, <2>2, <2>3, <2>4
  <1> HIDE DEF T
  <1>11. \A n \in Nat : n \in T
    BY <1>9, <1>10, SetInduction
  <1>12. run[len] \in S /\ run[len].index >= len
    BY <1>0, <1>11 DEF T
  <1>13. run[len].index \in 0..len
    BY <1>12, SplitStateFields
  <1>14. Loops(S, F, SplitStart, len, run)
    <2>1. \A n \in 0..len : run[n] \in S
      BY <1>0, <1>11 DEF T
    <2>2. run \in [0..len -> S]
      BY <1>6, <2>1
    <2>3. ASSUME NEW n \in 0..len PROVE run[n] = Round(F, SplitStart, run, n)
      <3>1. n # 0 => n - 1 \in 0..len
        BY <1>0
      <3> QED
        BY <1>8, <2>1, <3>1 DEF Round, SplitRound, F, Splitter
    <2> QED
      BY <2>2, <2>3 DEF Loops
  <1>15. F[run[len]] = run[len]
    BY <1>0, <1>12, <1>13 DEF F, Splitter, SplitLoop
  <1>16. Final(S, F, SplitStart, run[len])
    BY <1>0, <1>14, <1>15 DEF Final
  <1> QED
    BY <1>0, <1>1, <1>2, <1>7, <1>12, <1>13, <1>16 DEF F

LEMMA SplitFacts ==
    ASSUME NEW t \in Seq(Bytes)
    PROVE  split_statements(t) \in Seq(Segments(t))
  <1> DEFINE r == SplitRun(t)
  <1>1. r \in SplitStates(t)
    BY SplitRunFacts
  <1>2. r.index \in 0..Len(t) /\ r.start \in Cuts(t) /\ r.out \in Seq(Segments(t))
    BY <1>1, SplitStateFields
  <1>0. Len(t) \in Nat /\ Len(t) \in 0..Len(t)
    OBVIOUS
  <1> HIDE DEF r
  <1>3. Len(t) \in Cuts(t)
    BY <1>0 DEF Cuts
  <1>7. r.start \in 0..Len(t)
    BY <1>2 DEF Cuts
  <1>4. r.start <= Len(t)
    BY <1>0, <1>7
  <1>5. Segment(t, r, Len(t)) \in Segments(t)
    BY <1>2, <1>3, <1>4, SegmentIn
  <1>6. Append(r.out, Segment(t, r, Len(t))) \in Seq(Segments(t))
    BY <1>2, <1>5
  <1> QED
    BY <1>2, <1>6 DEF split_statements, r

(* A cut is never between a "cr" and its "lf". *)
LEMMA CutsValid ==
    ASSUME NEW t \in Seq(Bytes), NEW i \in Cuts(t)
    PROVE  is_valid_endpoint(t, i) /\ i \in 0..Len(t)
  <1>1. i \in 0..Len(t)
    BY DEF Cuts
  <1>2. i = Len(t) => ByteAt(t, i) = "nul"
    BY DEF ByteAt
  <1>3. i = 0 \/ ByteAt(t, i) = "nul" \/ ByteAt(t, i - 1) = ";"
    BY <1>2 DEF Cuts
  <1>4. i <= Len(t) /\ (i = 0 => ~(i > 0))
    BY <1>1
  <1> QED
    BY <1>1, <1>3, <1>4 DEF is_valid_endpoint

-----------------------------------------------------------------------------
(* The lexer *)

(* Where a token may begin or end. *)
Ends(t) == {i \in 0..Len(t) : is_valid_endpoint(t, i)}

Kinds == {"word", "number", "string", "=", "(", ")", ",", ";", "*", ".", "<", "!="}
Whats == {"comment", "identifier", "exponent", "integer", "double", "string", "utf8", "varchar",
          "character"}

Tokens(t) == {k \in [kind : Kinds, begin : Ends(t), end : Ends(t)] : k.begin <= k.end}

(* A string literal may be cut off between a "cr" and its "lf". *)
Errors(t) ==
    {e \in [what : Whats, begin : Ends(t), end : 0..Len(t)] :
        e.begin <= e.end /\ (e.what # "varchar" => e.end \in Ends(t))}

Scans(t) ==
    [tokens : Seq(Tokens(t)), error : {<<>>} \cup {<<e>> : e \in Errors(t)}, i : 0..Len(t)]

(* A scan step takes a byte or stops at an error. *)
GoodScan(t, i, r) == r \in Scans(t) /\ (r.error # <<>> \/ r.i > i)

LEMMA EndsFacts ==
    ASSUME NEW t \in Seq(Bytes), NEW i \in 0..Len(t)
    PROVE  /\ i = Len(t) => i \in Ends(t)
           /\ ByteAt(t, i) # "lf" => i \in Ends(t)
           /\ i > 0 /\ ByteAt(t, i - 1) # "cr" => i \in Ends(t)
           /\ i < Len(t) <=> ByteAt(t, i) # "nul"
  <1>1. i <= Len(t) /\ Len(t) \in Nat /\ (i = Len(t) => ~(i < Len(t)))
    OBVIOUS
  <1>2. i < Len(t) => t[i + 1] \in Bytes
    OBVIOUS
  <1>3. i < Len(t) <=> ByteAt(t, i) # "nul"
    BY <1>2 DEF ByteAt, Bytes
  <1> QED
    BY <1>1, <1>3 DEF Ends, is_valid_endpoint

LEMMA YieldsGood ==
    ASSUME NEW t, NEW kind \in Kinds, NEW i \in Ends(t), NEW j \in Ends(t), i < j
    PROVE  GoodScan(t, i, Yields(kind, i, j))
  <1>1. i \in Int /\ j \in 0..Len(t) /\ i <= j
    BY DEF Ends
  <1>2. [kind |-> kind, begin |-> i, end |-> j] \in Tokens(t)
    BY <1>1 DEF Tokens
  <1> QED
    BY <1>1, <1>2 DEF GoodScan, Yields, Scans

LEMMA SkipsGood ==
    ASSUME NEW t, NEW i \in Nat, NEW j \in 0..Len(t), i < j
    PROVE  GoodScan(t, i, Skips(j))
  BY DEF GoodScan, Skips, Scans

LEMMA StopsGood ==
    ASSUME NEW t, NEW what \in Whats, NEW i \in Ends(t), NEW j \in 0..Len(t), i <= j,
           what # "varchar" => j \in Ends(t)
    PROVE  GoodScan(t, i, Stops(what, i, j))
  <1>1. [what |-> what, begin |-> i, end |-> j] \in Errors(t)
    BY DEF Errors
  <1> QED
    BY <1>1 DEF GoodScan, Stops, Scans

(* A run of bytes ends at the first that is not one of them. *)
LEMMA RunEndFacts ==
    ASSUME NEW t \in Seq(Bytes), NEW i \in 0..Len(t), NEW bytes, "nul" \notin bytes
    PROVE  LET j == RunEnd(t, i, bytes)
           IN  /\ j \in i..Len(t)
               /\ \A m \in i..(j - 1) : ByteAt(t, m) \in bytes
               /\ ByteAt(t, j) \notin bytes
  <1> DEFINE S == {j \in i..Len(t) : ByteAt(t, j) \notin bytes}
             IsEnd(j) == /\ \A m \in i..(j - 1) : ByteAt(t, m) \in bytes
                         /\ ByteAt(t, j) \notin bytes
  <1>0. Len(t) \in Nat
    OBVIOUS
  <1>1. Len(t) \in S
    BY <1>0 DEF ByteAt
  <1>7. S \subseteq Nat
    BY <1>0
  <1> HIDE DEF S
  <1>2. PICK j \in S : \A m \in S : j <= m
    BY <1>1, <1>7, LeastIn
  <1> USE DEF S
  <1>3. ASSUME NEW m \in i..(j - 1) PROVE ByteAt(t, m) \in bytes
    <2>1. m \in i..Len(t) /\ ~(j <= m)
      BY <1>0
    <2> QED
      BY <1>2, <2>1
  <1>4. j \in i..Len(t) /\ IsEnd(j)
    BY <1>3
  <1>5. RunEnd(t, i, bytes) = CHOOSE k \in i..Len(t) : IsEnd(k)
    BY DEF RunEnd
  <1> HIDE DEF IsEnd
  <1>6. RunEnd(t, i, bytes) \in i..Len(t) /\ IsEnd(RunEnd(t, i, bytes))
    BY <1>4, <1>5
  <1> QED
    BY <1>6 DEF IsEnd

(* A line comment ends before the end of its line. *)
LEMMA LineEnds ==
    ASSUME NEW t \in Seq(Bytes), NEW i \in 0..Len(t)
    PROVE  \E j \in i..Len(t) : /\ skip_line_comment(t, i) = Skips(j)
                                /\ j = Len(t) \/ ByteAt(t, j) = "lf"
                                /\ \A m \in i..(j - 1) : ByteAt(t, m) # "lf"
  <1> DEFINE S == {j \in i..Len(t) : j = Len(t) \/ ByteAt(t, j) = "lf"}
             IsEnd(j) == /\ j = Len(t) \/ ByteAt(t, j) = "lf"
                         /\ \A m \in i..(j - 1) : ByteAt(t, m) # "lf"
             end == CHOOSE j \in i..Len(t) : IsEnd(j)
  <1>0. Len(t) \in Nat
    OBVIOUS
  <1>1. Len(t) \in S /\ S \subseteq Nat
    BY <1>0
  <1> HIDE DEF S
  <1>2. PICK j \in S : \A m \in S : j <= m
    BY <1>1, LeastIn
  <1> USE DEF S
  <1>3. ASSUME NEW m \in i..(j - 1) PROVE ByteAt(t, m) # "lf"
    <2>1. m \in i..Len(t) /\ ~(j <= m)
      BY <1>0
    <2> QED
      BY <1>2, <2>1
  <1>4. j \in i..Len(t) /\ IsEnd(j)
    BY <1>3
  <1> HIDE DEF IsEnd
  <1>5. end \in i..Len(t) /\ IsEnd(end)
    BY <1>4
  <1>6. skip_line_comment(t, i) = Skips(end)
    BY DEF skip_line_comment, IsEnd
  <1> HIDE DEF end
  <1> QED
    BY <1>5, <1>6 DEF IsEnd

(* The end of a block comment. *)
Ending(t, j) == ByteAt(t, j) = "*" /\ ByteAt(t, j + 1) = "/"

(* A block comment ends after the first "*/" behind its opening. *)
LEMMA BlockEnds ==
    ASSUME NEW t \in Seq(Bytes), NEW i \in 0..Len(t)
    PROVE  \/ /\ skip_block_comment(t, i) = Stops("comment", i, Len(t))
              /\ \A j \in (i + 2)..(Len(t) - 2) : ~Ending(t, j)
           \/ \E j \in (i + 2)..(Len(t) - 2) :
                 /\ skip_block_comment(t, i) = Skips(j + 2)
                 /\ Ending(t, j)
                 /\ \A m \in (i + 2)..(j - 1) : ~Ending(t, m)
  <1> DEFINE closed == {j \in (i + 2)..(Len(t) - 2) : ByteAt(t, j) = "*" /\ ByteAt(t, j + 1) = "/"}
             least == CHOOSE j \in closed : \A m \in closed : j <= m
  <1>0. Len(t) \in Nat /\ i \in Nat
    OBVIOUS
  <1>1. closed \subseteq Nat /\ closed = {j \in (i + 2)..(Len(t) - 2) : Ending(t, j)}
    BY <1>0 DEF Ending
  <1>2. skip_block_comment(t, i) = IF closed = {} THEN Stops("comment", i, Len(t))
                                   ELSE Skips(least + 2)
    BY DEF skip_block_comment
  <1> HIDE DEF closed
  <1>3. CASE closed = {}
    BY <1>1, <1>2, <1>3
  <1>4. CASE closed # {}
    <2>1. \E j \in closed : \A m \in closed : j <= m
      BY <1>1, <1>4, LeastIn
    <2>2. least \in closed /\ \A m \in closed : least <= m
      BY <2>1
    <2> HIDE DEF least
    <2>3. least \in (i + 2)..(Len(t) - 2) /\ Ending(t, least)
      BY <1>1, <2>2
    <2>4. ASSUME NEW m \in (i + 2)..(least - 1) PROVE ~Ending(t, m)
      <3>1. m \in (i + 2)..(Len(t) - 2) /\ ~(least <= m)
        BY <1>0, <2>3
      <3> QED
        BY <1>1, <2>2, <3>1
    <2>5. skip_block_comment(t, i) = Skips(least + 2)
      BY <1>2, <1>4
    <2> QED
      BY <2>3, <2>4, <2>5
  <1> QED
    BY <1>3, <1>4

LEMMA LineCommentGood ==
    ASSUME NEW t \in Seq(Bytes), NEW i \in 0..Len(t), i < Len(t), ByteAt(t, i) = "-"
    PROVE  GoodScan(t, i, skip_line_comment(t, i))
  <1>1. PICK j \in i..Len(t) : /\ skip_line_comment(t, i) = Skips(j)
                               /\ j = Len(t) \/ ByteAt(t, j) = "lf"
    BY LineEnds
  <1>2. j # i
    BY <1>1
  <1>3. j \in 0..Len(t) /\ i \in Nat /\ i < j
    BY <1>2
  <1> QED
    BY <1>1, <1>3, SkipsGood

LEMMA BlockCommentGood ==
    ASSUME NEW t \in Seq(Bytes), NEW i \in 0..Len(t), i < Len(t), ByteAt(t, i) = "/"
    PROVE  GoodScan(t, i, skip_block_comment(t, i))
  <1>0. Len(t) \in Nat /\ i \in Nat /\ Len(t) \in 0..Len(t) /\ i <= Len(t)
    OBVIOUS
  <1>1. CASE skip_block_comment(t, i) = Stops("comment", i, Len(t))
    <2>1. i \in Ends(t) /\ Len(t) \in Ends(t) /\ "comment" \in Whats
      BY <1>0, EndsFacts DEF Whats
    <2> QED
      BY <1>0, <1>1, <2>1, StopsGood
  <1>2. CASE \E j \in (i + 2)..(Len(t) - 2) : skip_block_comment(t, i) = Skips(j + 2)
    <2>1. PICK j \in (i + 2)..(Len(t) - 2) : skip_block_comment(t, i) = Skips(j + 2)
      BY <1>2
    <2>2. j + 2 \in 0..Len(t) /\ i < j + 2
      BY <1>0
    <2> QED
      BY <1>0, <2>1, <2>2, SkipsGood
  <1> QED
    BY <1>1, <1>2, BlockEnds

LEMMA WordGood ==
    ASSUME NEW t \in Seq(Bytes), NEW i \in 0..Len(t), i < Len(t), ByteAt(t, i) \in Letters
    PROVE  GoodScan(t, i, scan_word(t, i))
  <1> DEFINE bytes == Letters \cup Digits \cup {"_"}
             end == RunEnd(t, i, bytes)
             max == MaxIdentifierBytes
  <1>0. Len(t) \in Nat /\ i \in Nat /\ max \in Nat \ {0}
    BY TextAssumption
  <1>1. "nul" \notin bytes /\ "cr" \notin bytes /\ ByteAt(t, i) \in bytes /\ ByteAt(t, i) # "lf"
    BY DEF Letters, Digits
  <1>2. scan_word(t, i) = IF end - i > max THEN Stops("identifier", i, i + max)
                          ELSE Yields("word", i, end)
    BY DEF scan_word
  <1> HIDE DEF bytes, max
  <1>3. /\ end \in i..Len(t) /\ \A m \in i..(end - 1) : ByteAt(t, m) \in bytes
        /\ ByteAt(t, end) \notin bytes
    BY <1>1, RunEndFacts
  <1> HIDE DEF end
  <1>4. end # i
    BY <1>1, <1>3
  <1>5. end \in 0..Len(t) /\ i < end /\ end > 0 /\ end - 1 \in i..(end - 1)
    BY <1>0, <1>3, <1>4
  <1>6. ByteAt(t, end - 1) # "cr"
    BY <1>1, <1>3, <1>5
  <1>7. i \in Ends(t) /\ end \in Ends(t)
    BY <1>1, <1>5, <1>6, EndsFacts
  <1>8. "word" \in Kinds /\ "identifier" \in Whats /\ "identifier" # "varchar"
    BY DEF Kinds, Whats
  <1>9. CASE end - i > max
    <2>1. i + max \in 0..Len(t) /\ i <= i + max /\ i + max > 0 /\ (i + max) - 1 \in i..(end - 1)
      BY <1>0, <1>5, <1>9
    <2>2. ByteAt(t, (i + max) - 1) # "cr"
      BY <1>1, <1>3, <2>1
    <2>3. i + max \in Ends(t)
      BY <2>1, <2>2, EndsFacts
    <2> QED
      BY <1>2, <1>7, <1>8, <1>9, <2>1, <2>3, StopsGood
  <1>10. CASE ~(end - i > max)
    BY <1>2, <1>5, <1>7, <1>8, <1>10, YieldsGood
  <1> QED
    BY <1>9, <1>10

LEMMA NumberGood ==
    ASSUME NEW t \in Seq(Bytes), NEW i \in 0..Len(t), i < Len(t), ByteAt(t, i) \in Digits
    PROVE  GoodScan(t, i, scan_number(t, i))
  <1> DEFINE whole == RunEnd(t, i, Digits)
             dotted == ByteAt(t, whole) = "."
             end == CASE dotted /\ ByteAt(t, whole + 1) \in Digits -> RunEnd(t, whole + 1, Digits)
                      [] dotted /\ ByteAt(t, whole + 1) = "e" -> whole + 1
                      [] OTHER -> whole
             sign == IF ByteAt(t, end + 1) \in {"+", "-"} THEN end + 2 ELSE end + 1
             stop == RunEnd(t, sign, Digits)
  <1>0. Len(t) \in Nat /\ i \in Nat
    OBVIOUS
  <1>1. "nul" \notin Digits /\ "cr" \notin Digits /\ "." \notin Digits /\ "e" \notin Digits
        /\ "lf" \notin Digits
    BY DEF Digits
  <1>2. scan_number(t, i) =
          IF ByteAt(t, end) = "e" THEN Stops("exponent", i, stop)
          ELSE IF end = whole /\ end - i > MaxIntegerDigits THEN Stops("integer", i, end)
          ELSE IF end # whole /\ whole - i > MaxDoubleDigits THEN Stops("double", i, end)
          ELSE Yields("number", i, end)
    BY DEF scan_number
  \* A run of digits ends after a byte that is no "cr", if it began so.
  <1>3. ASSUME NEW k \in 0..Len(t), k > 0, ByteAt(t, k - 1) # "cr"
        PROVE  LET j == RunEnd(t, k, Digits)
               IN  j \in 0..Len(t) /\ j >= k /\ ByteAt(t, j - 1) # "cr" /\ ByteAt(t, j) \notin Digits
    <2> DEFINE j == RunEnd(t, k, Digits)
    <2>1. /\ j \in k..Len(t) /\ \A m \in k..(j - 1) : ByteAt(t, m) \in Digits
          /\ ByteAt(t, j) \notin Digits
      BY <1>1, RunEndFacts
    <2> HIDE DEF j
    <2>2. j \in 0..Len(t) /\ j >= k
      BY <1>0, <2>1
    <2>3. ByteAt(t, j - 1) # "cr"
      <3>1. CASE j = k
        BY <1>3, <3>1
      <3>2. CASE j # k
        <4>1. j - 1 \in k..(j - 1)
          BY <1>0, <2>2, <3>2
        <4> QED
          BY <1>1, <2>1, <4>1
      <3> QED
        BY <3>1, <3>2
    <2> QED
      BY <2>1, <2>2, <2>3 DEF j
  <1>4. ASSUME NEW k \in 0..Len(t), ByteAt(t, k) # "nul" PROVE k + 1 \in 0..Len(t)
    <2>1. k < Len(t)
      BY <1>4, EndsFacts
    <2> QED
      BY <1>0, <2>1
  <1>5. whole \in 0..Len(t) /\ whole > i /\ ByteAt(t, whole - 1) # "cr"
    <2>1. /\ whole \in i..Len(t) /\ \A m \in i..(whole - 1) : ByteAt(t, m) \in Digits
          /\ ByteAt(t, whole) \notin Digits
      BY <1>1, RunEndFacts
    <2> HIDE DEF whole
    <2>2. whole # i
      BY <2>1
    <2>3. whole \in 0..Len(t) /\ whole > i /\ whole - 1 \in i..(whole - 1)
      BY <1>0, <2>1, <2>2
    <2> QED
      BY <1>1, <2>1, <2>3
  <1>6. end \in 0..Len(t) /\ end > i /\ ByteAt(t, end - 1) # "cr"
    <2> HIDE DEF whole
    <2>1. dotted => /\ whole + 1 \in 0..Len(t) /\ whole + 1 > 0 /\ whole + 1 > i
                    /\ (whole + 1) - 1 = whole /\ ByteAt(t, whole) # "cr"
      BY <1>0, <1>4, <1>5
    <2>2. CASE dotted /\ ByteAt(t, whole + 1) \in Digits
      <3> DEFINE j == RunEnd(t, whole + 1, Digits)
      <3>1. j \in 0..Len(t) /\ j >= whole + 1 /\ ByteAt(t, j - 1) # "cr"
        BY <1>3, <2>1, <2>2
      <3>2. end = j
        BY <1>1, <2>2
      <3> HIDE DEF j, end
      <3> QED
        BY <1>0, <1>5, <3>1, <3>2
    <2>3. CASE dotted /\ ByteAt(t, whole + 1) = "e"
      <3>1. end = whole + 1
        BY <1>1, <2>3
      <3> HIDE DEF end
      <3> QED
        BY <2>1, <2>3, <3>1
    <2>4. CASE ~(dotted /\ ByteAt(t, whole + 1) \in Digits) /\ ~(dotted /\ ByteAt(t, whole + 1) = "e")
      <3>1. end = whole
        BY <2>4
      <3> HIDE DEF end
      <3> QED
        BY <1>5, <3>1
    <2> QED
      BY <2>2, <2>3, <2>4
  <1> HIDE DEF end, whole
  <1>7. i \in Ends(t) /\ end \in Ends(t) /\ i < end /\ i <= end
    <2>1. ByteAt(t, i) # "lf" /\ end > 0 /\ i < end /\ i <= end
      BY <1>0, <1>1, <1>6
    <2> QED
      BY <1>6, <2>1, EndsFacts
  <1>8. "number" \in Kinds /\ {"exponent", "integer", "double"} \subseteq Whats
    BY DEF Kinds, Whats
  <1>9. CASE ByteAt(t, end) = "e"
    <2>1. end + 1 \in 0..Len(t) /\ end + 1 > 0 /\ (end + 1) - 1 = end /\ (end + 2) - 1 = end + 1
          /\ (end + 1) + 1 = end + 2 /\ end + 2 > 0 /\ end + 1 > i /\ end + 2 > i
      BY <1>0, <1>4, <1>6, <1>9
    <2>2. sign \in 0..Len(t) /\ sign > i /\ sign > 0 /\ ByteAt(t, sign - 1) # "cr"
      <3>1. CASE ByteAt(t, end + 1) \in {"+", "-"}
        BY <1>4, <2>1, <3>1
      <3>2. CASE ByteAt(t, end + 1) \notin {"+", "-"}
        BY <1>9, <2>1, <3>2
      <3> QED
        BY <3>1, <3>2
    <2> HIDE DEF sign
    <2>3. stop \in 0..Len(t) /\ stop >= sign /\ ByteAt(t, stop - 1) # "cr"
      BY <1>3, <2>2
    <2>4. scan_number(t, i) = Stops("exponent", i, stop)
      BY <1>2, <1>9
    <2> HIDE DEF stop
    <2>5. stop > 0 /\ i <= stop
      BY <1>0, <2>2, <2>3
    <2>6. stop \in Ends(t)
      BY <2>3, <2>5, EndsFacts
    <2> QED
      BY <1>7, <1>8, <2>3, <2>4, <2>5, <2>6, StopsGood
  <1>10. CASE ByteAt(t, end) # "e" /\ end = whole /\ end - i > MaxIntegerDigits
    BY <1>2, <1>6, <1>7, <1>8, <1>10, StopsGood
  <1>11. CASE ByteAt(t, end) # "e" /\ end # whole /\ whole - i > MaxDoubleDigits
    BY <1>2, <1>6, <1>7, <1>8, <1>11, StopsGood
  <1>12. CASE /\ ByteAt(t, end) # "e" /\ ~(end = whole /\ end - i > MaxIntegerDigits)
              /\ ~(end # whole /\ whole - i > MaxDoubleDigits)
    BY <1>2, <1>7, <1>8, <1>12, YieldsGood
  <1> QED
    BY <1>9, <1>10, <1>11, <1>12

(* The places of a string literal's loop. *)
StringStates(t, i) == [j : (i + 1)..Len(t), size : Nat]

StringStops(t, r) == r.j >= Len(t) \/ Closes(t, r.j) \/ r.size >= MaxVarcharBytes

LEMMA StringLoopFacts ==
    ASSUME NEW t \in Seq(Bytes), NEW i \in 0..Len(t), NEW r \in StringStates(t, i)
    PROVE  /\ StringLoop(t, r) \in StringStates(t, i)
           /\ StringStops(t, r) => StringLoop(t, r) = r
           /\ ~StringStops(t, r) => StringLoop(t, r).j > r.j
  <1>0. Len(t) \in Nat /\ i \in Nat
    OBVIOUS
  <1>1. r.j \in (i + 1)..Len(t) /\ r.size \in Nat
    BY DEF StringStates
  <1>2. StringStops(t, r) => StringLoop(t, r) = r
    BY DEF StringStops, StringLoop
  <1>3. ASSUME ~StringStops(t, r)
        PROVE  StringLoop(t, r) \in StringStates(t, i) /\ StringLoop(t, r).j > r.j
    <2> DEFINE j == IF Doubled(t, r.j) THEN r.j + 2 ELSE r.j + 1
    <2>1. r.j < Len(t)
      BY <1>0, <1>1, <1>3 DEF StringStops
    <2>2. Doubled(t, r.j) => r.j + 1 < Len(t)
      BY <1>0, <1>1 DEF Doubled, ByteAt
    <2>3. j \in (i + 1)..Len(t) /\ j > r.j
      BY <1>0, <1>1, <2>1, <2>2
    <2>4. StringLoop(t, r) = [j |-> j, size |-> r.size + 1]
      BY <1>3 DEF StringStops, StringLoop
    <2> HIDE DEF j
    <2> QED
      BY <1>1, <2>3, <2>4 DEF StringStates
  <1> QED
    BY <1>2, <1>3

StringRound(t, i, g, n) == IF n = 0 THEN [j |-> i + 1, size |-> 0] ELSE StringLoop(t, g[n - 1])

StringLexer(t, i) == [r \in StringStates(t, i) |-> StringLoop(t, r)]
StringStart(i) == [j |-> i + 1, size |-> 0]

(* The loop of a string literal comes to a stop. *)
LEMMA StringRunFacts ==
    ASSUME NEW t \in Seq(Bytes), NEW i \in 0..Len(t), i < Len(t)
    PROVE  /\ StringRun(t, i) \in StringStates(t, i) /\ StringStops(t, StringRun(t, i))
           /\ StringLexer(t, i) \in [StringStates(t, i) -> StringStates(t, i)]
           /\ StringStart(i) \in StringStates(t, i)
           /\ Final(StringStates(t, i), StringLexer(t, i), StringStart(i), StringRun(t, i))
  <1> DEFINE S == StringStates(t, i)
             F == StringLexer(t, i)
             s == StringStart(i)
             len == Len(t)
  <1>0. len \in Nat /\ i \in Nat
    OBVIOUS
  <1>1. s \in S /\ s.j = i + 1
    BY <1>0 DEF StringStates, StringStart
  <1>2. F \in [S -> S]
    BY StringLoopFacts DEF StringLexer
  <1> HIDE DEF S, F, s
  <1>3a. PICK f : Loops(S, F, s, len, f)
    BY <1>0, <1>1, <1>2, LoopRuns
  <1>3. f \in [0..len -> S] /\ \A n \in 0..len : f[n] = Round(F, s, f, n)
    BY <1>3a DEF Loops
  <1>4. ASSUME NEW n \in 0..len PROVE Round(F, s, f, n) = StringRound(t, i, f, n)
    <2>1. n # 0 => n - 1 \in 0..len /\ f[n - 1] \in S
      BY <1>0, <1>3
    <2> QED
      BY <2>1 DEF Round, StringRound, F, s, StringLexer, StringStart, S
  <1>5. f = [n \in 0..len |-> StringRound(t, i, f, n)]
    BY <1>3, <1>4
  <1> DEFINE run == CHOOSE g : g = [n \in 0..len |-> StringRound(t, i, g, n)]
  <1>6. run = [n \in 0..len |-> StringRound(t, i, run, n)]
    BY <1>5
  <1>7. StringRun(t, i) = run[len]
    BY DEF StringRun, StringRound
  <1> HIDE DEF run
  <1>8. \A n \in 0..len : run[n] = StringRound(t, i, run, n)
    BY <1>6
  <1> DEFINE T == {n \in Nat : n <= len => run[n] \in S /\ (StringStops(t, run[n]) \/ run[n].j > n)}
  <1>9. 0 \in T
    BY <1>0, <1>1, <1>8 DEF StringRound, s, StringStart
  <1>10. ASSUME NEW n \in Nat, n \in T PROVE n + 1 \in T
    <2> SUFFICES ASSUME n + 1 <= len
                 PROVE  run[n + 1] \in S /\ (StringStops(t, run[n + 1]) \/ run[n + 1].j > n + 1)
      OBVIOUS
    <2>1. /\ run[n] \in S /\ (StringStops(t, run[n]) \/ run[n].j > n)
          /\ n + 1 \in 0..len /\ n + 1 # 0 /\ (n + 1) - 1 = n
      BY <1>0, <1>10
    <2>2. run[n + 1] = StringLoop(t, run[n])
      BY <1>8, <2>1 DEF StringRound
    <2>3. /\ run[n + 1] \in S
          /\ StringStops(t, run[n]) => run[n + 1] = run[n]
          /\ ~StringStops(t, run[n]) => run[n + 1].j > run[n].j
      BY <2>1, <2>2, StringLoopFacts DEF S
    <2>4. run[n].j \in Nat /\ run[n + 1].j \in Nat
      BY <1>0, <2>1, <2>3 DEF S, StringStates
    <2> QED
      BY <1>0, <2>1, <2>3, <2>4
  <1> HIDE DEF T
  <1>11. \A n \in Nat : n \in T
    BY <1>9, <1>10, SetInduction
  <1>12. run[len] \in S /\ (StringStops(t, run[len]) \/ run[len].j > len)
    BY <1>0, <1>11 DEF T
  <1>13. run[len].j \in Nat
    BY <1>0, <1>12 DEF S, StringStates
  <1>14. StringStops(t, run[len])
    BY <1>0, <1>12, <1>13 DEF StringStops
  <1>15. Loops(S, F, s, len, run)
    <2>1. \A n \in 0..len : run[n] \in S
      BY <1>0, <1>11 DEF T
    <2>2. run \in [0..len -> S]
      BY <1>6, <2>1
    <2>3. ASSUME NEW n \in 0..len PROVE run[n] = Round(F, s, run, n)
      <3>1. n # 0 => n - 1 \in 0..len
        BY <1>0
      <3> QED
        BY <1>8, <2>1, <3>1 DEF Round, StringRound, F, s, StringLexer, StringStart, S
    <2> QED
      BY <2>2, <2>3 DEF Loops
  <1>16. F[run[len]] = run[len]
    BY <1>12, <1>14, StringLoopFacts DEF F, StringLexer, S
  <1>17. Final(S, F, s, run[len])
    BY <1>0, <1>15, <1>16 DEF Final
  <1> QED
    BY <1>1, <1>2, <1>7, <1>12, <1>14, <1>17 DEF S, F, s

LEMMA StringGood ==
    ASSUME NEW t \in Seq(Bytes), NEW i \in 0..Len(t), i < Len(t), ByteAt(t, i) = "'"
    PROVE  GoodScan(t, i, scan_string(t, i))
  <1> DEFINE j == StringRun(t, i).j
  <1>0. Len(t) \in Nat /\ i \in Nat
    OBVIOUS
  <1>1. j \in (i + 1)..Len(t)
    BY StringRunFacts DEF StringStates
  <1>2. scan_string(t, i) =
          CASE j >= Len(t) -> Stops("string", i, j)
            [] j < Len(t) /\ Closes(t, j) ->
                 IF "~" \in {ByteAt(t, m) : m \in i..j} THEN Stops("utf8", i, j + 1)
                 ELSE Yields("string", i, j + 1)
            [] OTHER -> Stops("varchar", i, j)
    BY DEF scan_string
  <1> HIDE DEF j
  <1>3. i \in Ends(t) /\ j \in 0..Len(t) /\ i <= j
    BY <1>0, <1>1, EndsFacts
  <1>4. /\ "string" \in Kinds /\ "string" \in Whats /\ "utf8" \in Whats /\ "varchar" \in Whats
        /\ "string" # "varchar" /\ "utf8" # "varchar"
    BY DEF Kinds, Whats
  <1>5. CASE j >= Len(t)
    <2>1. j = Len(t) /\ ~(j < Len(t))
      BY <1>0, <1>1, <1>5
    <2>2. scan_string(t, i) = Stops("string", i, j)
      BY <1>2, <1>5, <2>1
    <2>3. j \in Ends(t)
      BY <1>3, <2>1, EndsFacts
    <2> QED
      BY <1>3, <1>4, <2>2, <2>3, StopsGood
  <1>6. CASE j < Len(t) /\ Closes(t, j)
    <2>1. ~(j >= Len(t)) /\ j + 1 \in 0..Len(t) /\ (j + 1) - 1 = j /\ j + 1 > 0 /\ i < j + 1
          /\ i <= j + 1
      BY <1>0, <1>1, <1>6
    <2>2. ByteAt(t, j) # "cr"
      BY <1>6 DEF Closes
    <2>3. j + 1 \in Ends(t)
      BY <2>1, <2>2, EndsFacts
    <2>4. scan_string(t, i) \in {Stops("utf8", i, j + 1), Yields("string", i, j + 1)}
      BY <1>2, <1>6, <2>1
    <2>5. GoodScan(t, i, Stops("utf8", i, j + 1))
      BY <1>3, <1>4, <2>1, <2>3, StopsGood
    <2>6. GoodScan(t, i, Yields("string", i, j + 1))
      BY <1>3, <1>4, <2>1, <2>3, YieldsGood
    <2> QED
      BY <2>4, <2>5, <2>6
  <1>7. CASE ~(j >= Len(t)) /\ ~(j < Len(t) /\ Closes(t, j))
    <2>1. scan_string(t, i) = Stops("varchar", i, j)
      BY <1>2, <1>7
    <2> QED
      BY <1>3, <1>4, <2>1, StopsGood
  <1> QED
    BY <1>5, <1>6, <1>7

LEMMA SymbolGood ==
    ASSUME NEW t \in Seq(Bytes), NEW i \in 0..Len(t), i < Len(t), ~is_whitespace(ByteAt(t, i))
    PROVE  GoodScan(t, i, scan_symbol(t, i))
  <1> DEFINE byte == ByteAt(t, i)
             equal == ByteAt(t, i + 1) = "="
  <1>0. Len(t) \in Nat /\ i \in Nat /\ i + 1 \in 0..Len(t) /\ (i + 1) - 1 = i /\ i + 1 > 0
        /\ (i + 2) - 1 = i + 1 /\ i + 2 > 0 /\ i < i + 1 /\ i < i + 2 /\ i <= i + 1 /\ (i + 1) + 1 = i + 2
    OBVIOUS
  <1>1. byte # "lf" /\ byte # "cr"
    BY DEF is_whitespace
  <1>2. i \in Ends(t) /\ i + 1 \in Ends(t)
    BY <1>0, <1>1, EndsFacts
  <1>3. equal => i + 2 \in Ends(t)
    <2> SUFFICES ASSUME equal PROVE i + 2 \in Ends(t)
      OBVIOUS
    <2>1. i + 1 < Len(t)
      BY <1>0 DEF ByteAt
    <2>2. i + 2 \in 0..Len(t)
      BY <1>0, <2>1
    <2> QED
      BY <1>0, <2>2, EndsFacts
  <1>4. CASE byte \in {"=", "(", ")", ",", ";", "*", "."}
    <2>1. scan_symbol(t, i) = Yields(byte, i, i + 1) /\ byte \in Kinds
      BY <1>4 DEF scan_symbol, Kinds
    <2> QED
      BY <1>0, <1>2, <2>1, YieldsGood
  <1>5. CASE byte = "<"
    <2>1. /\ scan_symbol(t, i) = Yields(byte, i, IF equal THEN i + 2 ELSE i + 1) /\ byte \in Kinds
      BY <1>5 DEF scan_symbol, Kinds
    <2>2. CASE equal
      BY <1>0, <1>2, <1>3, <2>1, <2>2, YieldsGood
    <2>3. CASE ~equal
      BY <1>0, <1>2, <2>1, <2>3, YieldsGood
    <2> QED
      BY <2>2, <2>3
  <1>6. CASE byte = "!" /\ equal
    <2>1. scan_symbol(t, i) = Yields("!=", i, i + 2) /\ "!=" \in Kinds
      BY <1>6 DEF scan_symbol, Kinds
    <2> QED
      BY <1>0, <1>2, <1>3, <1>6, <2>1, YieldsGood
  <1>7. CASE /\ byte \notin {"=", "(", ")", ",", ";", "*", "."} /\ byte # "<"
             /\ ~(byte = "!" /\ equal)
    <2>1. scan_symbol(t, i) = Stops("character", i, i + 1) /\ "character" \in Whats
      BY <1>7 DEF scan_symbol, Whats
    <2> QED
      BY <1>0, <1>2, <2>1, StopsGood
  <1> QED
    BY <1>4, <1>5, <1>6, <1>7

LEMMA ScanStepGood ==
    ASSUME NEW t \in Seq(Bytes), NEW i \in 0..Len(t), i < Len(t)
    PROVE  GoodScan(t, i, ScanStep(t, i))
  <1> DEFINE byte == ByteAt(t, i)
             next == ByteAt(t, i + 1)
  <1>0. i \in Nat /\ i + 1 \in 0..Len(t) /\ i < i + 1
    OBVIOUS
  <1>1. CASE is_whitespace(byte)
    <2>1. ScanStep(t, i) = Skips(i + 1)
      BY <1>1 DEF ScanStep, is_whitespace, Letters, Digits
    <2> QED
      BY <1>0, <2>1, SkipsGood
  <1>2. CASE byte = "-" /\ next = "-"
    <2>1. ScanStep(t, i) = skip_line_comment(t, i)
      BY <1>2 DEF ScanStep, is_whitespace, Letters, Digits
    <2> QED
      BY <1>2, <2>1, LineCommentGood
  <1>3. CASE byte = "/" /\ next = "*"
    <2>1. ScanStep(t, i) = skip_block_comment(t, i)
      BY <1>3 DEF ScanStep, is_whitespace, Letters, Digits
    <2> QED
      BY <1>3, <2>1, BlockCommentGood
  <1>4. CASE byte \in Letters
    <2>1. ScanStep(t, i) = scan_word(t, i)
      BY <1>4 DEF ScanStep, is_whitespace, Letters, Digits
    <2> QED
      BY <1>4, <2>1, WordGood
  <1>5. CASE byte \in Digits
    <2>1. ScanStep(t, i) = scan_number(t, i)
      BY <1>5 DEF ScanStep, is_whitespace, Letters, Digits
    <2> QED
      BY <1>5, <2>1, NumberGood
  <1>6. CASE byte = "'"
    <2>1. ScanStep(t, i) = scan_string(t, i)
      BY <1>6 DEF ScanStep, is_whitespace, Letters, Digits
    <2> QED
      BY <1>6, <2>1, StringGood
  <1>7. CASE /\ ~is_whitespace(byte) /\ ~(byte = "-" /\ next = "-") /\ ~(byte = "/" /\ next = "*")
             /\ byte \notin Letters /\ byte \notin Digits /\ byte # "'"
    <2>1. ScanStep(t, i) = scan_symbol(t, i)
      BY <1>7 DEF ScanStep
    <2> QED
      BY <1>7, <2>1, SymbolGood
  <1> QED
    BY <1>1, <1>2, <1>3, <1>4, <1>5, <1>6, <1>7

ScanStops(t, r) == r.i >= Len(t) \/ r.error # <<>>

LEMMA ScanLoopFacts ==
    ASSUME NEW t \in Seq(Bytes), NEW r \in Scans(t)
    PROVE  /\ ScanLoop(t, r) \in Scans(t)
           /\ ScanStops(t, r) => ScanLoop(t, r) = r
           /\ ~ScanStops(t, r) => ScanLoop(t, r).error # <<>> \/ ScanLoop(t, r).i > r.i
  <1>0. Len(t) \in Nat /\ r.i \in 0..Len(t) /\ r.tokens \in Seq(Tokens(t))
    BY DEF Scans
  <1>1. ScanStops(t, r) => ScanLoop(t, r) = r
    BY DEF ScanStops, ScanLoop
  <1>2. ASSUME ~ScanStops(t, r)
        PROVE  /\ ScanLoop(t, r) \in Scans(t)
               /\ ScanLoop(t, r).error # <<>> \/ ScanLoop(t, r).i > r.i
    <2> DEFINE step == ScanStep(t, r.i)
    <2>1. r.i < Len(t)
      BY <1>0, <1>2 DEF ScanStops
    <2>2. step \in Scans(t) /\ (step.error # <<>> \/ step.i > r.i)
      BY <1>0, <2>1, ScanStepGood DEF GoodScan
    <2>3. ScanLoop(t, r) = [tokens |-> r.tokens \o step.tokens, error |-> step.error, i |-> step.i]
      BY <1>2 DEF ScanStops, ScanLoop
    <2> HIDE DEF step
    <2>4. r.tokens \o step.tokens \in Seq(Tokens(t))
      BY <1>0, <2>2 DEF Scans
    <2> QED
      BY <2>2, <2>3, <2>4 DEF Scans
  <1> QED
    BY <1>1, <1>2

ScanRound(t, g, n) == IF n = 0 THEN Skips(0) ELSE ScanLoop(t, g[n - 1])

Lexer(t) == [r \in Scans(t) |-> ScanLoop(t, r)]

(* The lexer reads the text to its end or to its first error. *)
LEMMA TokenizeFacts ==
    ASSUME NEW t \in Seq(Bytes)
    PROVE  /\ tokenize(t) \in Scans(t) /\ ScanStops(t, tokenize(t))
           /\ Lexer(t) \in [Scans(t) -> Scans(t)] /\ Skips(0) \in Scans(t)
           /\ Final(Scans(t), Lexer(t), Skips(0), tokenize(t))
  <1> DEFINE S == Scans(t)
             F == Lexer(t)
             s == Skips(0)
             len == Len(t)
  <1>0. len \in Nat
    OBVIOUS
  <1>1. s \in S /\ s.i = 0
    BY <1>0 DEF Scans, Skips
  <1>2. F \in [S -> S]
    BY ScanLoopFacts DEF Lexer
  <1> HIDE DEF S, F, s
  <1>3a. PICK f : Loops(S, F, s, len, f)
    BY <1>0, <1>1, <1>2, LoopRuns
  <1>3. f \in [0..len -> S] /\ \A n \in 0..len : f[n] = Round(F, s, f, n)
    BY <1>3a DEF Loops
  <1>4. ASSUME NEW n \in 0..len PROVE Round(F, s, f, n) = ScanRound(t, f, n)
    <2>1. n # 0 => n - 1 \in 0..len /\ f[n - 1] \in S
      BY <1>0, <1>3
    <2> QED
      BY <2>1 DEF Round, ScanRound, F, s, Lexer, S
  <1>5. f = [n \in 0..len |-> ScanRound(t, f, n)]
    BY <1>3, <1>4
  <1> DEFINE run == CHOOSE g : g = [n \in 0..len |-> ScanRound(t, g, n)]
  <1>6. run = [n \in 0..len |-> ScanRound(t, run, n)]
    BY <1>5
  <1>7. tokenize(t) = run[len]
    BY DEF tokenize, ScanRound
  <1> HIDE DEF run
  <1>8. \A n \in 0..len : run[n] = ScanRound(t, run, n)
    BY <1>6
  <1> DEFINE T == {n \in Nat : n <= len => run[n] \in S /\ (ScanStops(t, run[n]) \/ run[n].i >= n)}
  <1>9. 0 \in T
    BY <1>0, <1>1, <1>8 DEF ScanRound, s
  <1>10. ASSUME NEW n \in Nat, n \in T PROVE n + 1 \in T
    <2> SUFFICES ASSUME n + 1 <= len
                 PROVE  run[n + 1] \in S /\ (ScanStops(t, run[n + 1]) \/ run[n + 1].i >= n + 1)
      OBVIOUS
    <2>1. /\ run[n] \in S /\ (ScanStops(t, run[n]) \/ run[n].i >= n)
          /\ n + 1 \in 0..len /\ n + 1 # 0 /\ (n + 1) - 1 = n
      BY <1>0, <1>10
    <2>2. run[n + 1] = ScanLoop(t, run[n])
      BY <1>8, <2>1 DEF ScanRound
    <2>3. /\ run[n + 1] \in S
          /\ ScanStops(t, run[n]) => run[n + 1] = run[n]
          /\ ~ScanStops(t, run[n]) => run[n + 1].error # <<>> \/ run[n + 1].i > run[n].i
      BY <2>1, <2>2, ScanLoopFacts DEF S
    <2>4. run[n].i \in Nat /\ run[n + 1].i \in Nat
      BY <1>0, <2>1, <2>3 DEF S, Scans
    <2>5. run[n + 1].error # <<>> => ScanStops(t, run[n + 1])
      BY DEF ScanStops
    <2> QED
      BY <1>0, <2>1, <2>3, <2>4, <2>5
  <1> HIDE DEF T
  <1>11. \A n \in Nat : n \in T
    BY <1>9, <1>10, SetInduction
  <1>12. run[len] \in S /\ (ScanStops(t, run[len]) \/ run[len].i >= len)
    BY <1>0, <1>11 DEF T
  <1>13. ScanStops(t, run[len])
    BY <1>12 DEF ScanStops
  <1>14. Loops(S, F, s, len, run)
    <2>1. \A n \in 0..len : run[n] \in S
      BY <1>0, <1>11 DEF T
    <2>2. run \in [0..len -> S]
      BY <1>6, <2>1
    <2>3. ASSUME NEW n \in 0..len PROVE run[n] = Round(F, s, run, n)
      <3>1. n # 0 => n - 1 \in 0..len
        BY <1>0
      <3> QED
        BY <1>8, <2>1, <3>1 DEF Round, ScanRound, F, s, Lexer, S
    <2> QED
      BY <2>2, <2>3 DEF Loops
  <1>15. F[run[len]] = run[len]
    BY <1>12, <1>13, ScanLoopFacts DEF F, Lexer, S
  <1>16. Final(S, F, s, run[len])
    BY <1>0, <1>14, <1>15 DEF Final
  <1> QED
    BY <1>1, <1>2, <1>7, <1>12, <1>13, <1>16 DEF S, F, s

-----------------------------------------------------------------------------
(* From a statement back to the script *)

(* The bytes of a statement are bytes of the script. *)
LEMMA SliceFacts ==
    ASSUME NEW t \in Seq(Bytes), NEW b \in 0..Len(t), NEW e \in 0..Len(t), b <= e
    PROVE  LET sql == SubSeq(t, b + 1, e)
           IN  /\ sql \in Seq(Bytes) /\ Len(sql) = e - b
               /\ \A m \in 0..Len(sql) : m < Len(sql) => ByteAt(sql, m) = ByteAt(t, b + m)
  <1> DEFINE sql == SubSeq(t, b + 1, e)
  <1>0. Len(t) \in Nat
    OBVIOUS
  <1>1. \A i \in (b + 1)..e : t[i] \in Bytes
    OBVIOUS
  <1>2. /\ sql \in Seq(Bytes)
        /\ Len(sql) = IF b + 1 <= e THEN e - (b + 1) + 1 ELSE 0
        /\ \A i \in 1..e - (b + 1) + 1 : sql[i] = t[(b + 1) + i - 1]
    BY <1>1, SubSeqProperties
  <1> HIDE DEF sql
  <1>3. Len(sql) = e - b
    BY <1>0, <1>2
  <1>4. ASSUME NEW m \in 0..Len(sql), m < Len(sql) PROVE ByteAt(sql, m) = ByteAt(t, b + m)
    <2>1. m + 1 \in 1..e - (b + 1) + 1 /\ (b + 1) + (m + 1) - 1 = (b + m) + 1 /\ b + m < Len(t)
      BY <1>0, <1>3, <1>4
    <2> QED
      BY <1>2, <1>4, <2>1 DEF ByteAt
  <1> QED
    BY <1>2, <1>3, <1>4 DEF sql

LEMMA SlicePlaces ==
    ASSUME NEW t \in Seq(Bytes), NEW b \in Cuts(t), NEW e \in Cuts(t), b <= e
    PROVE  LET sql == SubSeq(t, b + 1, e)
           IN  /\ ~HasLoneCr(t) => ~HasLoneCr(sql)
               /\ \A x \in Ends(sql) : is_valid_endpoint(t, b + x) /\ b + x \in Nat
  <1> DEFINE sql == SubSeq(t, b + 1, e)
  <1>0. Len(t) \in Nat /\ b \in 0..Len(t) /\ e \in 0..Len(t)
    BY CutsValid
  <1>1. /\ sql \in Seq(Bytes) /\ Len(sql) = e - b
        /\ \A m \in 0..Len(sql) : m < Len(sql) => ByteAt(sql, m) = ByteAt(t, b + m)
    BY <1>0, SliceFacts
  <1> HIDE DEF sql
  <1>2. ASSUME ~HasLoneCr(t), NEW m \in 0..(Len(sql) - 1), ByteAt(sql, m) = "cr"
        PROVE  ByteAt(sql, m + 1) = "lf"
    <2>1. /\ m \in 0..Len(sql) /\ m < Len(sql) /\ b + m \in 0..(Len(t) - 1)
          /\ (b + m) + 1 = b + (m + 1) /\ m + 1 \in 0..Len(sql) /\ b + (m + 1) > 0
          /\ (b + (m + 1)) - 1 = b + m /\ b + Len(sql) = e
      BY <1>0, <1>1
    <2>2. ByteAt(t, b + m) = "cr"
      BY <1>1, <1>2, <2>1
    <2>3. ByteAt(t, b + (m + 1)) = "lf"
      BY <1>2, <2>1, <2>2 DEF HasLoneCr
    <2>4. CASE m + 1 < Len(sql)
      BY <1>1, <2>1, <2>3, <2>4
    <2>5. CASE ~(m + 1 < Len(sql))
      <3>1. b + (m + 1) = e
        BY <1>0, <1>1, <2>1, <2>5
      <3>2. is_valid_endpoint(t, e)
        BY CutsValid
      <3> QED
        BY <2>1, <2>2, <2>3, <3>1, <3>2 DEF is_valid_endpoint
    <2> QED
      BY <2>4, <2>5
  <1>3. ~HasLoneCr(t) => ~HasLoneCr(sql)
    BY <1>2 DEF HasLoneCr
  <1>4. ASSUME NEW x \in Ends(sql) PROVE is_valid_endpoint(t, b + x) /\ b + x \in Nat
    <2>1. x \in 0..Len(sql) /\ is_valid_endpoint(sql, x)
      BY DEF Ends
    <2>2. b + x \in Nat /\ b + x <= Len(t)
      BY <1>0, <1>1, <2>1
    <2>3. CASE x = 0
      <3>1. b + x = b
        BY <1>0, <2>3
      <3> QED
        BY <2>2, <3>1, CutsValid
    <2>4. CASE x = Len(sql)
      <3>1. b + x = e
        BY <1>0, <1>1, <2>4
      <3> QED
        BY <2>2, <3>1, CutsValid
    <2>5. CASE x # 0 /\ x # Len(sql)
      <3>1. /\ x - 1 \in 0..Len(sql) /\ x - 1 < Len(sql) /\ x < Len(sql) /\ x > 0
            /\ (b + x) - 1 = b + (x - 1)
        BY <1>0, <1>1, <2>1, <2>5
      <3>2. ByteAt(sql, x - 1) = ByteAt(t, (b + x) - 1) /\ ByteAt(sql, x) = ByteAt(t, b + x)
        BY <1>1, <2>1, <3>1
      <3> QED
        BY <2>1, <2>2, <3>1, <3>2 DEF is_valid_endpoint
    <2> QED
      BY <2>3, <2>4, <2>5
  <1> QED
    BY <1>3, <1>4 DEF sql

(* The range of a token or an error of a statement has one in the script.  *)
LEMMA RangeFound ==
    ASSUME NEW t \in Seq(Bytes), ~HasLoneCr(t), NEW b \in Cuts(t), NEW e \in Cuts(t), b <= e,
           NEW x \in Ends(SubSeq(t, b + 1, e)), NEW y \in Ends(SubSeq(t, b + 1, e)), x <= y
    PROVE  absolutize_range(Between(t, b, e), Between(SubSeq(t, b + 1, e), x, y), t) # <<>>
  <1> DEFINE sql == SubSeq(t, b + 1, e)
             statement == Between(t, b, e)
             relative == Between(sql, x, y)
             begin == location_at_offset(t, b + x)
             end == location_at_offset(t, b + y)
  <1>1. /\ b \in 0..Len(t) /\ e \in 0..Len(t) /\ is_valid_endpoint(t, b) /\ is_valid_endpoint(t, e)
    BY CutsValid
  <1>2. /\ is_valid_source_range(t, statement)
        /\ statement.begin.offset = b /\ statement.end.offset = e
    BY <1>1, RangeValid
  <1>3. sql \in Seq(Bytes) /\ ~HasLoneCr(sql)
    BY <1>1, SliceFacts, SlicePlaces
  <1>4. x \in 0..Len(sql) /\ y \in 0..Len(sql) /\ is_valid_endpoint(sql, x) /\ is_valid_endpoint(sql, y)
    BY DEF Ends
  <1>5. /\ is_valid_source_range(sql, relative)
        /\ relative.begin.offset = x /\ relative.end.offset = y
    <2> HIDE DEF sql
    <2> QED
      BY <1>3, <1>4, RangeValid
  <1>6. begin # Nowhere /\ end # Nowhere
    <2>1. /\ is_valid_endpoint(t, b + x) /\ b + x \in Nat
          /\ is_valid_endpoint(t, b + y) /\ b + y \in Nat
      BY SlicePlaces
    <2> QED
      BY <2>1, Somewhere
  <1>7. absolutize_range(statement, relative, t) = <<[begin |-> begin, end |-> end]>>
    <2> HIDE DEF statement, relative, begin, end
    <2> QED
      BY <1>2, <1>5, <1>6 DEF absolutize_range, sql, begin, end
  <1>8. <<[begin |-> begin, end |-> end]>> # <<>>
    <2> HIDE DEF begin, end
    <2> QED
      OBVIOUS
  <1> HIDE DEF begin, end
  <1> QED
    BY <1>7, <1>8, Zenon

(* Every place compile may report is found in the script, unless a string  *)
(* literal was cut off between a "cr" and its "lf".                        *)
LEMMA PlacesFound ==
    ASSUME NEW t \in Seq(Bytes), ~HasLoneCr(t), NEW b \in Cuts(t), NEW e \in Cuts(t), b <= e,
           NEW place \in ErrorPlaces(SubSeq(t, b + 1, e), tokenize(SubSeq(t, b + 1, e))),
           place # <<>>, absolutize_range(Between(t, b, e), place[1], t) = <<>>
    PROVE  /\ tokenize(SubSeq(t, b + 1, e)).error # <<>>
           /\ tokenize(SubSeq(t, b + 1, e)).error[1].what = "varchar"
           /\ ~is_valid_endpoint(t, b + tokenize(SubSeq(t, b + 1, e)).error[1].end)
  <1> DEFINE sql == SubSeq(t, b + 1, e)
             lexed == tokenize(sql)
  <1>0. b \in 0..Len(t) /\ e \in 0..Len(t) /\ Len(t) \in Nat
    BY CutsValid
  <1>1. /\ sql \in Seq(Bytes) /\ Len(sql) = e - b
        /\ \A m \in 0..Len(sql) : m < Len(sql) => ByteAt(sql, m) = ByteAt(t, b + m)
    BY <1>0, SliceFacts
  <1>2. \A x, y \in Ends(sql) : x <= y => place # <<Between(sql, x, y)>>
    <2> SUFFICES ASSUME NEW x \in Ends(sql), NEW y \in Ends(sql), x <= y,
                        place = <<Between(sql, x, y)>>
                 PROVE  FALSE
      OBVIOUS
    <2>1. place[1] = Between(sql, x, y)
      OBVIOUS
    <2>2. absolutize_range(Between(t, b, e), Between(sql, x, y), t) # <<>>
      BY RangeFound
    <2> QED
      BY <2>1, <2>2
  <1>3. lexed \in Scans(sql)
    <2> HIDE DEF sql
    <2> QED
      BY <1>1, TokenizeFacts
  <1>4. place \in ErrorPlaces(sql, lexed)
    OBVIOUS
  <1> HIDE DEF sql, lexed
  <1>5. CASE lexed.error = <<>>
    <2>1. \/ place = <<Between(sql, Len(sql), Len(sql))>>
          \/ \E j \in DOMAIN lexed.tokens :
                place = <<Between(sql, lexed.tokens[j].begin, lexed.tokens[j].end)>>
      BY <1>4, <1>5 DEF ErrorPlaces, Between
    <2>2. CASE place = <<Between(sql, Len(sql), Len(sql))>>
      <3>1. Len(sql) \in 0..Len(sql) /\ Len(sql) <= Len(sql)
        BY <1>1
      <3>2. Len(sql) \in Ends(sql)
        BY <1>1, <3>1, EndsFacts
      <3> QED
        BY <1>2, <2>2, <3>1, <3>2
    <2>3. ASSUME NEW j \in DOMAIN lexed.tokens,
                 place = <<Between(sql, lexed.tokens[j].begin, lexed.tokens[j].end)>>
          PROVE  FALSE
      <3>1. lexed.tokens[j] \in Tokens(sql)
        BY <1>3 DEF Scans
      <3>2. /\ lexed.tokens[j].begin \in Ends(sql) /\ lexed.tokens[j].end \in Ends(sql)
            /\ lexed.tokens[j].begin <= lexed.tokens[j].end
        BY <3>1 DEF Tokens
      <3> QED
        BY <1>2, <2>3, <3>2
    <2> QED
      BY <2>1, <2>2, <2>3
  <1>6. CASE lexed.error # <<>>
    <2>1. PICK er \in Errors(sql) : lexed.error = <<er>>
      BY <1>3, <1>6 DEF Scans
    <2>2. lexed.error[1] = er
      BY <2>1
    <2>3. place = <<Between(sql, er.begin, er.end)>>
      BY <1>4, <1>6, <2>2 DEF ErrorPlaces, Between
    <2>4. /\ er.begin \in Ends(sql) /\ er.end \in 0..Len(sql) /\ er.begin <= er.end
          /\ er.what # "varchar" => er.end \in Ends(sql)
      BY DEF Errors
    <2>5. er.end \notin Ends(sql)
      BY <1>2, <2>3, <2>4
    <2>6. er.what = "varchar"
      BY <2>4, <2>5
    <2>7. er.end > 0 /\ ByteAt(sql, er.end - 1) = "cr" /\ ByteAt(sql, er.end) = "lf"
      <3>1. er.end <= Len(sql)
        BY <1>1, <2>4
      <3> QED
        BY <2>4, <2>5, <3>1 DEF Ends, is_valid_endpoint
    <2>8. er.end < Len(sql)
      BY <1>1, <2>4, <2>7, EndsFacts
    <2>9. /\ er.end - 1 \in 0..Len(sql) /\ er.end - 1 < Len(sql)
          /\ b + (er.end - 1) = (b + er.end) - 1 /\ b + er.end > 0
      <3>1. Len(sql) = e - b
        BY <1>1
      <3>2. \A n \in 0..(e - b) : n > 0 => /\ n - 1 \in 0..(e - b) /\ n - 1 < e - b
                                           /\ b + (n - 1) = (b + n) - 1 /\ b + n > 0
        BY <1>0
      <3> QED
        BY <2>4, <2>7, <3>1, <3>2
    <2>10. ByteAt(t, (b + er.end) - 1) = "cr" /\ ByteAt(t, b + er.end) = "lf"
      BY <1>1, <2>4, <2>7, <2>8, <2>9
    <2>11. ~is_valid_endpoint(t, b + er.end)
      BY <2>9, <2>10 DEF is_valid_endpoint
    <2> QED
      BY <1>6, <2>2, <2>6, <2>11 DEF lexed, sql
  <1> QED
    BY <1>5, <1>6

-----------------------------------------------------------------------------
(* A statement's bytes *)

(* The offset of a place is the bytes before it. *)
LEMMA OffsetOf ==
    ASSUME NEW t, NEW i \in Nat
    PROVE  location(t, i).offset = i
  <1> DEFINE L == [line : Nat, column : Nat, offset : Nat]
             S == [n : Nat, at : L]
             F == [x \in S |-> [n |-> x.n + 1, at |-> advance_location(x.at, t[x.n + 1])]]
             s == [n |-> 0, at |-> Origin]
  <1>1. ASSUME NEW l \in L, NEW byte
        PROVE  advance_location(l, byte) \in L /\ advance_location(l, byte).offset = l.offset + 1
    BY DEF advance_location
  <1>2. Origin \in L /\ Origin.offset = 0
    BY DEF Origin
  <1> HIDE DEF L
  <1>3. s \in S /\ F \in [S -> S]
    BY <1>1, <1>2
  <1>4. s.n = 0 /\ s.at = Origin
        /\ \A x \in S : F[x].n = x.n + 1 /\ F[x].at = advance_location(x.at, t[x.n + 1])
    OBVIOUS
  <1>4a. \A x \in S : x.n \in Nat /\ x.at \in L
    OBVIOUS
  <1> HIDE DEF S, F, s
  <1>5. PICK f : Loops(S, F, s, i, f)
    BY <1>3, LoopRuns
  <1>6. f \in [0..i -> S] /\ \A n \in 0..i : f[n] = Round(F, s, f, n)
    BY <1>5 DEF Loops
  <1>7. f[0] = s /\ \A n \in 0..i : n # 0 => n - 1 \in 0..i /\ f[n] = F[f[n - 1]]
    BY <1>6 DEF Round
  <1> DEFINE T == {n \in Nat : n <= i => f[n].n = n}
  <1>8. 0 \in T
    BY <1>4, <1>7
  <1>9. ASSUME NEW n \in Nat, n \in T PROVE n + 1 \in T
    <2> SUFFICES ASSUME n + 1 <= i PROVE f[n + 1].n = n + 1
      OBVIOUS
    <2>1. n + 1 \in 0..i /\ n + 1 # 0 /\ (n + 1) - 1 = n /\ n \in 0..i /\ f[n].n = n
      BY <1>9
    <2>2. f[n + 1] = F[f[n]] /\ f[n] \in S
      BY <1>6, <1>7, <2>1
    <2> QED
      BY <1>4, <2>1, <2>2
  <1> HIDE DEF T
  <1>10. \A n \in 0..i : f[n].n = n
    <2>1. \A n \in Nat : n \in T
      BY <1>8, <1>9, SetInduction
    <2> QED
      BY <2>1 DEF T
  <1> DEFINE p == [n \in 0..i |-> f[n].at]
  <1>11. ASSUME NEW n \in 0..i PROVE p[n] = LocationRound(t, p, n)
    <2>1. CASE n = 0
      BY <1>4, <1>7, <2>1 DEF LocationRound
    <2>2. CASE n # 0
      <3>1. n - 1 \in 0..i /\ f[n] = F[f[n - 1]] /\ f[n - 1] \in S /\ f[n - 1].n = n - 1
            /\ (n - 1) + 1 = n
        BY <1>6, <1>7, <1>10, <2>2
      <3>2. f[n].at = advance_location(f[n - 1].at, t[n])
        BY <1>4, <3>1
      <3> QED
        BY <2>2, <3>1, <3>2 DEF LocationRound
    <2> QED
      BY <2>1, <2>2
  <1>12. p = [n \in 0..i |-> LocationRound(t, p, n)]
    BY <1>11
  <1> HIDE DEF p
  <1> DEFINE at == CHOOSE g : g = [n \in 0..i |-> LocationRound(t, g, n)]
  <1>13. at = [n \in 0..i |-> LocationRound(t, at, n)]
    BY <1>12
  <1>14. location(t, i) = at[i]
    BY DEF location, LocationRound
  <1> HIDE DEF at
  <1>15. \A n \in 0..i : at[n] = LocationRound(t, at, n)
    BY <1>13
  <1> DEFINE U == {n \in Nat : n <= i => at[n] \in L /\ at[n].offset = n}
  <1>16. 0 \in U
    BY <1>2, <1>15 DEF LocationRound
  <1>17. ASSUME NEW n \in Nat, n \in U PROVE n + 1 \in U
    <2> SUFFICES ASSUME n + 1 <= i PROVE at[n + 1] \in L /\ at[n + 1].offset = n + 1
      OBVIOUS
    <2>1. at[n] \in L /\ at[n].offset = n /\ n + 1 \in 0..i /\ n + 1 # 0 /\ (n + 1) - 1 = n
      BY <1>17
    <2>2. at[n + 1] = advance_location(at[n], t[n + 1])
      BY <1>15, <2>1 DEF LocationRound
    <2> QED
      BY <1>1, <2>1, <2>2
  <1> HIDE DEF U
  <1>18. i \in U
    BY <1>16, <1>17, SetInduction
  <1> QED
    BY <1>14, <1>18 DEF U

-----------------------------------------------------------------------------
(* A statement's bytes, as the lexer reads them *)

(* u is the part of t from b to e, a place where a statement may end.      *)
Slice(t, b, e, u) ==
    /\ t \in Seq(Bytes) /\ u \in Seq(Bytes)
    /\ b \in 0..Len(t) /\ e \in Cuts(t) /\ b <= e /\ Len(u) = e - b
    /\ \A x \in Nat : x < Len(u) => ByteAt(u, x) = ByteAt(t, x + b)

(* The same byte in both, or the end of both. *)
Same(t, b, u, x) == x \in 0..Len(u) /\ ByteAt(u, x) = ByteAt(t, x + b)

(* The bytes of a statement are a slice. *)
LEMMA SliceOf ==
    ASSUME NEW t \in Seq(Bytes), NEW b \in Cuts(t), NEW e \in Cuts(t), b <= e
    PROVE  Slice(t, b, e, SubSeq(t, b + 1, e))
  <1> DEFINE u == SubSeq(t, b + 1, e)
  <1>0. b \in 0..Len(t) /\ e \in 0..Len(t) /\ Len(t) \in Nat
    BY CutsValid
  <1>1. /\ u \in Seq(Bytes) /\ Len(u) = e - b
        /\ \A m \in 0..Len(u) : m < Len(u) => ByteAt(u, m) = ByteAt(t, b + m)
    BY <1>0, SliceFacts
  <1> HIDE DEF u
  <1>2. ASSUME NEW x \in Nat, x < Len(u) PROVE ByteAt(u, x) = ByteAt(t, x + b)
    <2>1. x \in 0..Len(u) /\ b + x = x + b
      BY <1>0, <1>1, <1>2
    <2> QED
      BY <1>1, <1>2, <2>1
  <1>3. Slice(t, b, e, u)
    BY <1>0, <1>1, <1>2 DEF Slice
  <1> QED
    BY <1>3 DEF u

(* After a byte of the statement other than ";" both go on alike. *)
LEMMA SameFacts ==
    ASSUME NEW t \in Seq(Bytes), NEW u \in Seq(Bytes), NEW b, NEW e, Slice(t, b, e, u)
    PROVE  /\ b \in Nat /\ e \in Nat /\ Len(u) \in Nat /\ Len(t) \in Nat
           /\ Len(u) + b = e /\ e <= Len(t)
           /\ \A x \in Nat : x < Len(u) => Same(t, b, u, x)
           /\ \A x \in Nat : Same(t, b, u, x) /\ ByteAt(t, x + b) \notin {";", "nul"}
                                => Same(t, b, u, x + 1) /\ x < Len(u) /\ x + 1 <= Len(u)
           /\ \A x \in Nat : Same(t, b, u, x) => (ByteAt(u, x) # "nul" <=> x < Len(u))
                                                 /\ (x + b) \in 0..Len(t)
                                                 /\ (x < Len(u) <=> x + b < Len(t))
  <1>1. /\ t \in Seq(Bytes) /\ u \in Seq(Bytes)
        /\ b \in 0..Len(t) /\ e \in Cuts(t) /\ b <= e /\ Len(u) = e - b
        /\ \A x \in Nat : x < Len(u) => ByteAt(u, x) = ByteAt(t, x + b)
    BY DEF Slice
  <1>2. e \in 0..Len(t) /\ Len(t) \in Nat /\ Len(u) \in Nat
    BY <1>1, CutsValid
  <1>3. b \in Nat /\ e \in Nat /\ Len(u) + b = e /\ e <= Len(t)
    BY <1>1, <1>2
  <1>4. ASSUME NEW x \in Nat, x < Len(u) PROVE Same(t, b, u, x)
    <2>1. x \in 0..Len(u)
      BY <1>2, <1>4
    <2> QED
      BY <1>1, <1>4, <2>1 DEF Same
  <1>5. ASSUME NEW x \in Nat, Same(t, b, u, x)
        PROVE  /\ ByteAt(u, x) # "nul" <=> x < Len(u)
               /\ (x + b) \in 0..Len(t)
               /\ x < Len(u) <=> x + b < Len(t)
    <2>1. x \in 0..Len(u) /\ ByteAt(u, x) = ByteAt(t, x + b)
      BY <1>5 DEF Same
    <2>2. x < Len(u) <=> ByteAt(u, x) # "nul"
      BY <1>1, <2>1, EndsFacts
    <2>3. (x + b) \in 0..Len(t)
      BY <1>2, <1>3, <2>1
    <2>4. x + b < Len(t) <=> ByteAt(t, x + b) # "nul"
      BY <1>1, <2>3, EndsFacts
    <2> QED
      BY <2>1, <2>2, <2>3, <2>4
  <1>6. ASSUME NEW x \in Nat, Same(t, b, u, x), ByteAt(t, x + b) \notin {";", "nul"}
        PROVE  Same(t, b, u, x + 1) /\ x < Len(u) /\ x + 1 <= Len(u)
    <2>1. x \in 0..Len(u) /\ ByteAt(u, x) = ByteAt(t, x + b) /\ x < Len(u)
      BY <1>5, <1>6 DEF Same
    <2>2. x + 1 <= Len(u) /\ x + 1 \in Nat /\ x + 1 \in 0..Len(u)
      BY <1>2, <2>1
    <2>3. CASE x + 1 < Len(u)
      BY <1>4, <2>1, <2>2, <2>3
    <2>4. CASE ~(x + 1 < Len(u))
      <3>1. (x + 1) + b = e /\ e - 1 = x + b /\ e # 0 /\ x + 1 = Len(u)
        BY <1>2, <1>3, <2>1, <2>4
      <3>2. e = Len(t)
        BY <1>1, <1>6, <3>1 DEF Cuts
      <3>3. ByteAt(u, x + 1) = "nul" /\ ByteAt(t, (x + 1) + b) = "nul"
        BY <1>2, <3>1, <3>2 DEF ByteAt
      <3> QED
        BY <2>1, <2>2, <3>3 DEF Same
    <2> QED
      BY <2>3, <2>4
  <1> QED
    BY <1>2, <1>3, <1>4, <1>5, <1>6
(* The same facts, one by one. *)
LEMMA SliceNumbers ==
    ASSUME NEW t \in Seq(Bytes), NEW u \in Seq(Bytes), NEW b, NEW e, Slice(t, b, e, u)
    PROVE  /\ t \in Seq(Bytes) /\ u \in Seq(Bytes) /\ b \in Nat /\ e \in Nat
           /\ Len(u) \in Nat /\ Len(t) \in Nat /\ Len(u) + b = e /\ e <= Len(t)
  <1>1. t \in Seq(Bytes) /\ u \in Seq(Bytes)
    BY DEF Slice
  <1>2. /\ b \in Nat /\ e \in Nat
        /\ Len(u) \in Nat /\ Len(t) \in Nat /\ Len(u) + b = e /\ e <= Len(t)
    BY SameFacts
  <1> QED
    BY <1>1, <1>2

(* Inside the slice the bytes are the same, *)
LEMMA SameInside ==
    ASSUME NEW t \in Seq(Bytes), NEW u \in Seq(Bytes), NEW b \in Nat, NEW e \in Nat,
           Slice(t, b, e, u), NEW x \in Nat, x < Len(u)
    PROVE  Same(t, b, u, x)
  BY SameFacts

(* and one byte on from any but a ";". *)
LEMMA SameNext ==
    ASSUME NEW t \in Seq(Bytes), NEW u \in Seq(Bytes), NEW b \in Nat, NEW e \in Nat,
           Slice(t, b, e, u), NEW x \in Nat, Same(t, b, u, x),
           ByteAt(t, x + b) \notin {";", "nul"}
    PROVE  Same(t, b, u, x + 1) /\ x < Len(u)
  BY SameFacts

LEMMA SameByte ==
    ASSUME NEW t \in Seq(Bytes), NEW u \in Seq(Bytes), NEW b \in Nat, NEW e \in Nat,
           Slice(t, b, e, u), NEW x \in Nat, Same(t, b, u, x)
    PROVE  /\ ByteAt(u, x) = ByteAt(t, x + b) /\ x \in 0..Len(u) /\ x + b \in 0..Len(t)
           /\ ByteAt(u, x) # "nul" <=> x < Len(u)
           /\ x < Len(u) <=> x + b < Len(t)
  <1>1. ByteAt(u, x) = ByteAt(t, x + b) /\ x \in 0..Len(u)
    BY DEF Same
  <1>2. /\ x + b \in 0..Len(t)
        /\ ByteAt(u, x) # "nul" <=> x < Len(u)
        /\ x < Len(u) <=> x + b < Len(t)
    BY SameFacts
  <1> QED
    BY <1>1, <1>2

(* A scan step of a statement at its place in the script. *)
ShiftScan(r, by) ==
    [tokens |-> Shifted(r.tokens, by), error |-> Shifted(r.error, by), i |-> r.i + by]

LEMMA ShiftedOne ==
    ASSUME NEW part, NEW by
    PROVE  Shifted(<<>>, by) = <<>> /\ Shifted(<<part>>, by) = <<Moved(part, by)>>
  <1>1. DOMAIN <<part>> = {1} /\ <<part>>[1] = part /\ DOMAIN <<>> = {}
    OBVIOUS
  <1>2. Shifted(<<part>>, by) = [j \in {1} |-> Moved(part, by)]
    BY <1>1 DEF Shifted
  <1> DEFINE m == Moved(part, by)
  <1> HIDE DEF m
  <1>3. [j \in {1} |-> m] = <<m>>
    <2>1. DOMAIN <<m>> = {1} /\ <<m>>[1] = m
      OBVIOUS
    <2> QED
      OBVIOUS
  <1>4. Shifted(<<>>, by) = <<>>
    BY DEF Shifted
  <1> QED
    BY <1>2, <1>3, <1>4 DEF m

LEMMA ShiftScans ==
    ASSUME NEW i \in Nat, NEW j \in Nat, NEW by \in Nat, NEW what
    PROVE  /\ ShiftScan(Yields(what, i, j), by) = Yields(what, i + by, j + by)
           /\ ShiftScan(Skips(j), by) = Skips(j + by)
           /\ ShiftScan(Stops(what, i, j), by) = Stops(what, i + by, j + by)
  <1>1. Moved([kind |-> what, begin |-> i, end |-> j], by) =
          [kind |-> what, begin |-> i + by, end |-> j + by]
    <2> DEFINE p == [kind |-> what, begin |-> i, end |-> j]
               q == Moved(p, by)
    <2>1. DOMAIN p = {"kind", "begin", "end"} /\ p.kind = what /\ p.begin = i /\ p.end = j
      OBVIOUS
    <2> HIDE DEF p
    <2>2. /\ DOMAIN q = {"kind", "begin", "end"} /\ q = [x \in DOMAIN q |-> q[x]]
          /\ q.kind = what /\ q.begin = i + by /\ q.end = j + by
      BY <2>1 DEF Moved
    <2> HIDE DEF q
    <2>3. q = [kind |-> what, begin |-> i + by, end |-> j + by]
      BY <2>2
    <2> QED
      BY <2>3 DEF p, q
  <1>2. Moved([what |-> what, begin |-> i, end |-> j], by) =
          [what |-> what, begin |-> i + by, end |-> j + by]
    <2> DEFINE p == [what |-> what, begin |-> i, end |-> j]
               q == Moved(p, by)
    <2>1. DOMAIN p = {"what", "begin", "end"} /\ p.what = what /\ p.begin = i /\ p.end = j
      OBVIOUS
    <2> HIDE DEF p
    <2>2. /\ DOMAIN q = {"what", "begin", "end"} /\ q = [x \in DOMAIN q |-> q[x]]
          /\ q.what = what /\ q.begin = i + by /\ q.end = j + by
      BY <2>1 DEF Moved
    <2> HIDE DEF q
    <2>3. q = [what |-> what, begin |-> i + by, end |-> j + by]
      BY <2>2
    <2> QED
      BY <2>3 DEF p, q
  <1>3. ShiftScan(Yields(what, i, j), by) = Yields(what, i + by, j + by)
    BY <1>1, ShiftedOne DEF ShiftScan, Yields
  <1>4. ShiftScan(Skips(j), by) = Skips(j + by)
    BY ShiftedOne DEF ShiftScan, Skips
  <1>5. ShiftScan(Stops(what, i, j), by) = Stops(what, i + by, j + by)
    BY <1>2, ShiftedOne DEF ShiftScan, Stops
  <1> QED
    BY <1>3, <1>4, <1>5

(* Bytes that never end a statement. *)
NoCut(bytes) == "nul" \notin bytes /\ ";" \notin bytes

(* A run of bytes ends at the same place in both. *)
LEMMA RunEndSame ==
    ASSUME NEW t \in Seq(Bytes), NEW u \in Seq(Bytes), NEW b \in Nat, NEW e \in Nat,
           Slice(t, b, e, u), NEW x \in Nat, Same(t, b, u, x),
           NEW bytes, NoCut(bytes)
    PROVE  /\ RunEnd(t, x + b, bytes) = RunEnd(u, x, bytes) + b
           /\ RunEnd(u, x, bytes) \in Nat /\ RunEnd(u, x, bytes) >= x
           /\ Same(t, b, u, RunEnd(u, x, bytes))
           /\ ByteAt(t, RunEnd(u, x, bytes) + b) \notin bytes
  <1> DEFINE j == RunEnd(t, x + b, bytes)
             k == RunEnd(u, x, bytes)
  <1>0. /\ t \in Seq(Bytes) /\ u \in Seq(Bytes) /\ b \in Nat /\ Len(u) \in Nat /\ Len(t) \in Nat
    BY SliceNumbers
  <1>0a. x \in 0..Len(u) /\ x + b \in 0..Len(t)
    BY SameByte
  <1>0b. "nul" \notin bytes
    BY DEF NoCut
  <1>1. /\ k \in x..Len(u) /\ \A m \in x..(k - 1) : ByteAt(u, m) \in bytes
        /\ ByteAt(u, k) \notin bytes
    BY <1>0, <1>0a, <1>0b, RunEndFacts
  <1>2. /\ j \in (x + b)..Len(t) /\ \A m \in (x + b)..(j - 1) : ByteAt(t, m) \in bytes
        /\ ByteAt(t, j) \notin bytes
    BY <1>0, <1>0a, <1>0b, RunEndFacts
  <1> HIDE DEF j, k
  <1>3. Same(t, b, u, k)
    <2>1. CASE k = x
      BY <2>1
    <2>2. CASE k # x
      <3>1. k - 1 \in x..(k - 1) /\ k - 1 \in Nat /\ k - 1 < Len(u) /\ (k - 1) + 1 = k
        BY <1>0, <1>1, <2>2
      <3>2. ByteAt(u, k - 1) \notin {";", "nul"} /\ Same(t, b, u, k - 1)
        BY <1>1, <3>1, SameInside DEF NoCut
      <3>3. ByteAt(t, (k - 1) + b) \notin {";", "nul"}
        BY <3>2 DEF Same
      <3>4. Same(t, b, u, (k - 1) + 1)
        BY <3>1, <3>2, <3>3, SameNext
      <3> QED
        BY <3>1, <3>4
    <2> QED
      BY <2>1, <2>2
  <1>4. k \in Nat /\ k >= x /\ ByteAt(t, k + b) \notin bytes
    BY <1>0, <1>1, <1>3 DEF Same
  <1>5. ~(k + b < j)
    <2> SUFFICES ASSUME k + b < j PROVE FALSE
      OBVIOUS
    <2>1. k + b \in (x + b)..(j - 1)
      BY <1>0, <1>2, <1>4
    <2> QED
      BY <1>2, <1>4, <2>1
  <1>6. ~(j < k + b)
    <2> SUFFICES ASSUME j < k + b PROVE FALSE
      OBVIOUS
    <2>1. j - b \in x..(k - 1) /\ j - b \in Nat /\ j - b < Len(u) /\ (j - b) + b = j
      BY <1>0, <1>1, <1>2, <1>4
    <2>2. ByteAt(u, j - b) \in bytes /\ Same(t, b, u, j - b)
      BY <1>1, <2>1, SameInside
    <2> QED
      BY <1>2, <2>1, <2>2 DEF Same
  <1>7. j = k + b
    BY <1>0, <1>2, <1>4, <1>5, <1>6
  <1> QED
    BY <1>3, <1>4, <1>7 DEF j, k

(* The scan functions, on the statement and on the script. *)
LEMMA WordSame ==
    ASSUME NEW t \in Seq(Bytes), NEW u \in Seq(Bytes), NEW b \in Nat, NEW e \in Nat,
           Slice(t, b, e, u), NEW x \in Nat, x < Len(u)
    PROVE  scan_word(t, x + b) = ShiftScan(scan_word(u, x), b)
  <1> DEFINE bytes == Letters \cup Digits \cup {"_"}
             j == RunEnd(t, x + b, bytes)
             k == RunEnd(u, x, bytes)
             max == MaxIdentifierBytes
  <1>0. b \in Nat /\ max \in Nat
    BY SliceNumbers, TextAssumption
  <1>1. NoCut(bytes)
    BY DEF Letters, Digits, NoCut
  <1>2. /\ scan_word(t, x + b) = IF j - (x + b) > max THEN Stops("identifier", x + b, (x + b) + max)
                                 ELSE Yields("word", x + b, j)
        /\ scan_word(u, x) = IF k - x > max THEN Stops("identifier", x, x + max)
                             ELSE Yields("word", x, k)
    BY DEF scan_word
  <1> HIDE DEF bytes, max
  <1>3. j = k + b /\ k \in Nat
    BY <1>1, RunEndSame, SameInside
  <1> HIDE DEF j, k
  <1>4. j - (x + b) = k - x /\ (x + b) + max = (x + max) + b /\ x + max \in Nat
    BY <1>0, <1>3
  <1>5. /\ Stops("identifier", x + b, (x + max) + b) = ShiftScan(Stops("identifier", x, x + max), b)
        /\ Yields("word", x + b, k + b) = ShiftScan(Yields("word", x, k), b)
    BY <1>0, <1>3, <1>4, ShiftScans
  <1> QED
    BY <1>2, <1>3, <1>4, <1>5

LEMMA NumberSame ==
    ASSUME NEW t \in Seq(Bytes), NEW u \in Seq(Bytes), NEW b \in Nat, NEW e \in Nat,
           Slice(t, b, e, u), NEW x \in Nat, x < Len(u)
    PROVE  scan_number(t, x + b) = ShiftScan(scan_number(u, x), b)
  <1> DEFINE whole(v, i) == RunEnd(v, i, Digits)
             dotted(v, i) == ByteAt(v, whole(v, i)) = "."
             end(v, i) ==
               CASE dotted(v, i) /\ ByteAt(v, whole(v, i) + 1) \in Digits ->
                      RunEnd(v, whole(v, i) + 1, Digits)
                 [] dotted(v, i) /\ ByteAt(v, whole(v, i) + 1) = "e" -> whole(v, i) + 1
                 [] OTHER -> whole(v, i)
             sign(v, i) == IF ByteAt(v, end(v, i) + 1) \in {"+", "-"} THEN end(v, i) + 2
                           ELSE end(v, i) + 1
             Number(v, i) ==
               IF ByteAt(v, end(v, i)) = "e" THEN Stops("exponent", i, RunEnd(v, sign(v, i), Digits))
               ELSE IF end(v, i) = whole(v, i) /\ end(v, i) - i > MaxIntegerDigits
                    THEN Stops("integer", i, end(v, i))
               ELSE IF end(v, i) # whole(v, i) /\ whole(v, i) - i > MaxDoubleDigits
                    THEN Stops("double", i, end(v, i))
               ELSE Yields("number", i, end(v, i))
  <1>0. b \in Nat /\ Same(t, b, u, x) /\ NoCut(Digits)
    BY SameInside DEF Digits, NoCut
  <1>0a. "e" \notin Digits
    BY DEF Digits
  <1>1. scan_number(t, x + b) = Number(t, x + b) /\ scan_number(u, x) = Number(u, x)
    BY DEF scan_number
  <1>2. PICK w \in Nat : /\ w = whole(u, x) /\ whole(t, x + b) = w + b /\ Same(t, b, u, w)
    BY <1>0, RunEndSame
  <1> HIDE DEF whole
  <1>3. ByteAt(u, w) = ByteAt(t, w + b) /\ (w + b) + 1 = (w + 1) + b /\ w + 1 \in Nat
    BY <1>0, <1>2 DEF Same
  <1>4. dotted(t, x + b) = dotted(u, x) /\ (dotted(u, x) <=> ByteAt(u, w) = ".")
    BY <1>2, <1>3
  <1>5. dotted(u, x) => Same(t, b, u, w + 1) /\ ByteAt(u, w + 1) = ByteAt(t, (w + 1) + b)
    <2> SUFFICES ASSUME dotted(u, x) PROVE Same(t, b, u, w + 1)
      BY DEF Same
    <2>1. ByteAt(t, w + b) = "."
      BY <1>3, <1>4
    <2> QED
      BY <1>2, <2>1, SameNext
  <1> HIDE DEF dotted
  <1>6. PICK n \in Nat : n = end(u, x) /\ end(t, x + b) = n + b /\ Same(t, b, u, n)
    <2>1. CASE dotted(u, x) /\ ByteAt(u, w + 1) \in Digits
      <3>1. end(u, x) = RunEnd(u, w + 1, Digits) /\ end(t, x + b) = RunEnd(t, (w + 1) + b, Digits)
        BY <1>0a, <1>2, <1>3, <1>4, <1>5, <2>1
      <3>2. /\ RunEnd(t, (w + 1) + b, Digits) = RunEnd(u, w + 1, Digits) + b
            /\ RunEnd(u, w + 1, Digits) \in Nat /\ Same(t, b, u, RunEnd(u, w + 1, Digits))
        <4>1. Same(t, b, u, w + 1) /\ w + 1 \in Nat
          BY <1>3, <1>5, <2>1
        <4>2. ASSUME NEW y \in Nat, Same(t, b, u, y)
              PROVE  /\ RunEnd(t, y + b, Digits) = RunEnd(u, y, Digits) + b
                     /\ RunEnd(u, y, Digits) \in Nat /\ Same(t, b, u, RunEnd(u, y, Digits))
          BY <1>0, <4>2, RunEndSame
        <4> HIDE DEF end
        <4> QED
          BY <4>1, <4>2
      <3> HIDE DEF end
      <3> QED
        BY <3>1, <3>2
    <2>2. CASE dotted(u, x) /\ ByteAt(u, w + 1) = "e"
      <3>1. end(u, x) = w + 1 /\ end(t, x + b) = (w + 1) + b
        BY <1>0a, <1>2, <1>3, <1>4, <1>5, <2>2
      <3> HIDE DEF end
      <3> QED
        BY <1>3, <1>5, <2>2, <3>1
    <2>3. CASE /\ ~(dotted(u, x) /\ ByteAt(u, w + 1) \in Digits)
               /\ ~(dotted(u, x) /\ ByteAt(u, w + 1) = "e")
      <3>1. end(u, x) = w /\ end(t, x + b) = w + b
        BY <1>0, <1>2, <1>3, <1>4, <1>5, <2>3
      <3> HIDE DEF end
      <3> QED
        BY <1>2, <3>1
    <2> QED
      BY <2>1, <2>2, <2>3
  <1> HIDE DEF end
  <1>6a. ByteAt(u, n) = ByteAt(t, n + b)
    BY <1>6 DEF Same
  <1>7. (n + b) + 1 = (n + 1) + b /\ n + 1 \in Nat
        /\ n + 2 \in Nat /\ (n + 1) + 1 = n + 2 /\ (n + b) + 2 = (n + 2) + b
        /\ (n + b) - (x + b) = n - x /\ (n + b = w + b <=> n = w)
        /\ (w + b) - (x + b) = w - x
    OBVIOUS
  <1>8. CASE ByteAt(u, n) = "e"
    <2>1. Same(t, b, u, n + 1) /\ ByteAt(u, n + 1) = ByteAt(t, (n + 1) + b)
      <3>1. Same(t, b, u, n + 1)
        BY <1>6, <1>6a, <1>7, <1>8, SameNext
      <3> QED
        BY <3>1 DEF Same
    <2>2. PICK g \in Nat : g = sign(u, x) /\ sign(t, x + b) = g + b /\ Same(t, b, u, g)
      <3>1. CASE ByteAt(u, n + 1) \in {"+", "-"}
        <4>1. Same(t, b, u, (n + 1) + 1)
          BY <1>7, <2>1, <3>1, SameNext
        <4>2. sign(u, x) = n + 2 /\ sign(t, x + b) = (n + 2) + b
          BY <1>6, <1>6a, <1>7, <2>1, <3>1
        <4> HIDE DEF sign
        <4> QED
          BY <1>7, <4>1, <4>2
      <3>2. CASE ByteAt(u, n + 1) \notin {"+", "-"}
        <4>2. sign(u, x) = n + 1 /\ sign(t, x + b) = (n + 1) + b
          BY <1>6, <1>6a, <1>7, <2>1, <3>2
        <4> HIDE DEF sign
        <4> QED
          BY <1>7, <2>1, <4>2
      <3> QED
        BY <3>1, <3>2
    <2> HIDE DEF sign
    <2>3. RunEnd(t, g + b, Digits) = RunEnd(u, g, Digits) + b /\ RunEnd(u, g, Digits) \in Nat
      BY <1>0, <2>2, RunEndSame
    <2>4. /\ Number(t, x + b) = Stops("exponent", x + b, RunEnd(u, g, Digits) + b)
          /\ Number(u, x) = Stops("exponent", x, RunEnd(u, g, Digits))
      BY <1>6, <1>6a, <1>7, <1>8, <2>2, <2>3
    <2> HIDE DEF Number
    <2> QED
      BY <1>0, <1>1, <2>3, <2>4, ShiftScans
  <1>9. CASE ByteAt(u, n) # "e" /\ n = w /\ n - x > MaxIntegerDigits
    <2>1. /\ Number(t, x + b) = Stops("integer", x + b, n + b)
          /\ Number(u, x) = Stops("integer", x, n)
      BY <1>2, <1>6, <1>6a, <1>7, <1>9
    <2> HIDE DEF Number
    <2> QED
      BY <1>0, <1>1, <1>6, <2>1, ShiftScans
  <1>10. CASE ByteAt(u, n) # "e" /\ n # w /\ w - x > MaxDoubleDigits
    <2>1. /\ Number(t, x + b) = Stops("double", x + b, n + b)
          /\ Number(u, x) = Stops("double", x, n)
      BY <1>2, <1>6, <1>6a, <1>7, <1>10
    <2> HIDE DEF Number
    <2> QED
      BY <1>0, <1>1, <1>6, <2>1, ShiftScans
  <1>11. CASE /\ ByteAt(u, n) # "e" /\ ~(n = w /\ n - x > MaxIntegerDigits)
              /\ ~(n # w /\ w - x > MaxDoubleDigits)
    <2>1. /\ Number(t, x + b) = Yields("number", x + b, n + b)
          /\ Number(u, x) = Yields("number", x, n)
      BY <1>2, <1>6, <1>6a, <1>7, <1>11
    <2> HIDE DEF Number
    <2> QED
      BY <1>0, <1>1, <1>6, <2>1, ShiftScans
  <1> QED
    BY <1>8, <1>9, <1>10, <1>11

LEMMA SymbolSame ==
    ASSUME NEW t \in Seq(Bytes), NEW u \in Seq(Bytes), NEW b \in Nat, NEW e \in Nat,
           Slice(t, b, e, u), NEW x \in Nat, x < Len(u)
    PROVE  scan_symbol(t, x + b) = ShiftScan(scan_symbol(u, x), b)
  <1> DEFINE byte == ByteAt(u, x)
             equal == ByteAt(u, x + 1) = "="
  <1>0. /\ b \in Nat /\ Same(t, b, u, x) /\ x + 1 \in Nat /\ x + 2 \in Nat
        /\ (x + b) + 1 = (x + 1) + b /\ (x + b) + 2 = (x + 2) + b
    BY SliceNumbers, SameInside
  <1>1. ByteAt(t, x + b) = byte /\ byte # "nul"
    BY <1>0, SameByte
  <1>2. byte # ";" => ByteAt(t, (x + b) + 1) = ByteAt(u, x + 1)
    <2> SUFFICES ASSUME byte # ";" PROVE Same(t, b, u, x + 1)
      BY <1>0 DEF Same
    <2> QED
      BY <1>0, <1>1, SameNext
  <1>3. /\ Yields(byte, x + b, (x + 1) + b) = ShiftScan(Yields(byte, x, x + 1), b)
        /\ Yields(byte, x + b, (x + 2) + b) = ShiftScan(Yields(byte, x, x + 2), b)
        /\ Yields("!=", x + b, (x + 2) + b) = ShiftScan(Yields("!=", x, x + 2), b)
        /\ Stops("character", x + b, (x + 1) + b) = ShiftScan(Stops("character", x, x + 1), b)
    <2> HIDE DEF byte
    <2>1. ASSUME NEW n \in Nat, NEW what
          PROVE  /\ Yields(what, x + b, n + b) = ShiftScan(Yields(what, x, n), b)
                 /\ Stops(what, x + b, n + b) = ShiftScan(Stops(what, x, n), b)
      BY ShiftScans
    <2> QED
      BY <1>0, <2>1
  <1>4. CASE byte \in {"=", "(", ")", ",", ";", "*", "."}
    <2>1. /\ scan_symbol(t, x + b) = Yields(byte, x + b, (x + b) + 1)
          /\ scan_symbol(u, x) = Yields(byte, x, x + 1)
      BY <1>1, <1>4 DEF scan_symbol
    <2> QED
      BY <1>0, <1>3, <2>1
  <1>5. CASE byte = "<" /\ equal
    <2>1. /\ scan_symbol(t, x + b) = Yields(byte, x + b, (x + b) + 2)
          /\ scan_symbol(u, x) = Yields(byte, x, x + 2)
      BY <1>1, <1>2, <1>5 DEF scan_symbol
    <2> QED
      BY <1>0, <1>3, <2>1
  <1>6. CASE byte = "<" /\ ~equal
    <2>1. /\ scan_symbol(t, x + b) = Yields(byte, x + b, (x + b) + 1)
          /\ scan_symbol(u, x) = Yields(byte, x, x + 1)
      BY <1>1, <1>2, <1>6 DEF scan_symbol
    <2> QED
      BY <1>0, <1>3, <2>1
  <1>7. CASE byte = "!" /\ equal
    <2>1. /\ scan_symbol(t, x + b) = Yields("!=", x + b, (x + b) + 2)
          /\ scan_symbol(u, x) = Yields("!=", x, x + 2)
      BY <1>1, <1>2, <1>7 DEF scan_symbol
    <2> QED
      BY <1>0, <1>3, <2>1
  <1>8. CASE /\ byte \notin {"=", "(", ")", ",", ";", "*", "."} /\ byte # "<"
             /\ ~(byte = "!" /\ equal)
    <2>1. /\ scan_symbol(t, x + b) = Stops("character", x + b, (x + b) + 1)
          /\ scan_symbol(u, x) = Stops("character", x, x + 1)
      BY <1>1, <1>2, <1>8 DEF scan_symbol
    <2> QED
      BY <1>0, <1>3, <2>1
  <1> QED
    BY <1>4, <1>5, <1>6, <1>7, <1>8

LEMMA LineSame ==
    ASSUME NEW t \in Seq(Bytes), NEW u \in Seq(Bytes), NEW b \in Nat, NEW e \in Nat,
           Slice(t, b, e, u), NEW x \in Nat, x < Len(u), skip_line_comment(t, x + b).i <= e
    PROVE  skip_line_comment(t, x + b) = ShiftScan(skip_line_comment(u, x), b)
  <1>0. Len(u) \in Nat /\ Len(t) \in Nat /\ Len(u) + b = e /\ e <= Len(t)
    BY SliceNumbers
  <1>1. x \in 0..Len(u) /\ x + b \in 0..Len(t)
    BY <1>0
  <1>2. PICK j \in (x + b)..Len(t) : /\ skip_line_comment(t, x + b) = Skips(j)
                                     /\ j = Len(t) \/ ByteAt(t, j) = "lf"
                                     /\ \A m \in (x + b)..(j - 1) : ByteAt(t, m) # "lf"
    BY <1>1, LineEnds
  <1>3. PICK k \in x..Len(u) : /\ skip_line_comment(u, x) = Skips(k)
                               /\ k = Len(u) \/ ByteAt(u, k) = "lf"
                               /\ \A m \in x..(k - 1) : ByteAt(u, m) # "lf"
    BY <1>1, LineEnds
  <1>4. j <= e
    <2>1. Skips(j).i = j
      BY DEF Skips
    <2> QED
      BY <1>2, <2>1
  <1>5. ~(k + b < j)
    <2> SUFFICES ASSUME k + b < j PROVE FALSE
      OBVIOUS
    <2>1. k + b \in (x + b)..(j - 1) /\ k # Len(u) /\ k < Len(u) /\ k \in Nat
      BY <1>0, <1>1, <1>4
    <2>2. Same(t, b, u, k)
      BY <2>1, SameInside
    <2> QED
      BY <1>2, <1>3, <2>1, <2>2 DEF Same
  <1>6. ~(j < k + b)
    <2> SUFFICES ASSUME j < k + b PROVE FALSE
      OBVIOUS
    <2>1. j - b \in x..(k - 1) /\ j - b \in Nat /\ j - b < Len(u) /\ (j - b) + b = j /\ j # Len(t)
      BY <1>0, <1>1
    <2>2. Same(t, b, u, j - b)
      BY <2>1, SameInside
    <2> QED
      BY <1>2, <1>3, <2>1, <2>2 DEF Same
  <1>7. j = k + b /\ k \in Nat
    BY <1>0, <1>1, <1>5, <1>6
  <1> QED
    BY <1>2, <1>3, <1>7, ShiftScans

LEMMA BlockSame ==
    ASSUME NEW t \in Seq(Bytes), NEW u \in Seq(Bytes), NEW b \in Nat, NEW e \in Nat,
           Slice(t, b, e, u), NEW x \in Nat, x < Len(u), skip_block_comment(t, x + b).i <= e
    PROVE  skip_block_comment(t, x + b) = ShiftScan(skip_block_comment(u, x), b)
  <1>0. Len(u) \in Nat /\ Len(t) \in Nat /\ Len(u) + b = e /\ e <= Len(t)
    BY SliceNumbers
  <1>1. x \in 0..Len(u) /\ x + b \in 0..Len(t)
    BY <1>0
  <1>2. ASSUME NEW k \in Nat, k <= Len(u) - 2 PROVE Ending(u, k) <=> Ending(t, k + b)
    <2>1. k < Len(u) /\ k + 1 < Len(u) /\ k + 1 \in Nat /\ (k + 1) + b = (k + b) + 1
      BY <1>0, <1>2
    <2>2. Same(t, b, u, k) /\ Same(t, b, u, k + 1)
      BY <2>1, SameInside
    <2> QED
      BY <2>1, <2>2 DEF Same, Ending
  <1>3. CASE /\ skip_block_comment(t, x + b) = Stops("comment", x + b, Len(t))
             /\ \A j \in ((x + b) + 2)..(Len(t) - 2) : ~Ending(t, j)
    <2>1. Len(t) <= e
      BY <1>3 DEF Stops
    <2>2. Len(u) + b = Len(t)
      BY <1>0, <2>1
    <2>3. ASSUME NEW k \in (x + 2)..(Len(u) - 2) PROVE ~Ending(u, k)
      <3>1. k \in Nat /\ k <= Len(u) - 2 /\ k + b \in ((x + b) + 2)..(Len(t) - 2)
        BY <1>0, <2>2
      <3> QED
        BY <1>2, <1>3, <3>1
    <2>4. skip_block_comment(u, x) = Stops("comment", x, Len(u))
      BY <1>1, <2>3, BlockEnds
    <2>5. Stops("comment", x + b, Len(u) + b) = ShiftScan(Stops("comment", x, Len(u)), b)
      BY <1>0, ShiftScans
    <2> QED
      BY <1>3, <2>2, <2>4, <2>5
  <1>4. ASSUME NEW j \in ((x + b) + 2)..(Len(t) - 2),
               skip_block_comment(t, x + b) = Skips(j + 2), Ending(t, j),
               \A m \in ((x + b) + 2)..(j - 1) : ~Ending(t, m)
        PROVE  skip_block_comment(t, x + b) = ShiftScan(skip_block_comment(u, x), b)
    <2>1. j + 2 <= e
      BY <1>4 DEF Skips
    <2>2. j - b \in (x + 2)..(Len(u) - 2) /\ j - b \in Nat /\ j - b <= Len(u) - 2 /\ (j - b) + b = j
      BY <1>0, <2>1
    <2>3. Ending(u, j - b)
      BY <1>2, <1>4, <2>2
    <2>4. PICK k \in (x + 2)..(Len(u) - 2) :
                 /\ skip_block_comment(u, x) = Skips(k + 2) /\ Ending(u, k)
                 /\ \A m \in (x + 2)..(k - 1) : ~Ending(u, m)
      BY <1>1, <2>2, <2>3, BlockEnds
    <2>5. k \in Nat /\ k <= Len(u) - 2
      BY <1>0
    <2>6. Ending(t, k + b)
      BY <1>2, <2>4, <2>5
    <2>7. ~(k + b < j)
      <3> SUFFICES ASSUME k + b < j PROVE FALSE
        OBVIOUS
      <3>1. k + b \in ((x + b) + 2)..(j - 1)
        BY <1>0
      <3> QED
        BY <1>4, <2>6, <3>1
    <2>8. ~(j < k + b)
      <3> SUFFICES ASSUME j < k + b PROVE FALSE
        OBVIOUS
      <3>1. j - b \in (x + 2)..(k - 1)
        BY <1>0, <2>2
      <3> QED
        BY <2>3, <2>4, <3>1
    <2>9. j + 2 = (k + 2) + b /\ k + 2 \in Nat
      BY <1>0, <2>5, <2>7, <2>8
    <2>10. Skips((k + 2) + b) = ShiftScan(Skips(k + 2), b)
      BY <2>9, ShiftScans
    <2> QED
      BY <1>4, <2>4, <2>9, <2>10
  <1> QED
    BY <1>1, <1>3, <1>4, BlockEnds

(* A string literal's loop never goes back. *)
LEMMA StringForward ==
    ASSUME NEW t \in Seq(Bytes), NEW i \in 0..Len(t), i < Len(t), NEW r,
           Reach(StringLexer(t, i), StringStart(i), r)
    PROVE  /\ r \in StringStates(t, i) /\ r.j <= StringRun(t, i).j
           /\ StringStops(t, r) => r = StringRun(t, i)
  <1> DEFINE F == StringLexer(t, i)
             S == StringStates(t, i)
             x == StringRun(t, i)
             T == {y \in S : r.j <= y.j}
  <1>1. F \in [S -> S] /\ StringStart(i) \in S /\ Final(S, F, StringStart(i), x)
    BY StringRunFacts
  <1>2. r \in S /\ Reach(F, r, x) /\ (F[r] = r => r = x)
    BY <1>1, ReachFinal
  <1>3. r \in T
    <2>1. r.j \in Int
      BY <1>2 DEF StringStates
    <2> QED
      BY <1>2, <2>1
  <1>4. ASSUME NEW y \in T PROVE F[y] \in T
    <2>1. y \in S /\ F[y] = StringLoop(t, y)
      BY DEF StringLexer
    <2>2. F[y] \in S /\ (F[y] = y \/ F[y].j > y.j)
      BY <2>1, StringLoopFacts
    <2>3. r.j \in Int /\ y.j \in Int /\ F[y].j \in Int /\ r.j <= y.j
      BY <1>2, <2>1, <2>2 DEF StringStates
    <2>4. r.j <= F[y].j
      BY <2>2, <2>3
    <2> QED
      BY <2>2, <2>4
  <1> HIDE DEF T
  <1>5. x \in T
    BY <1>2, <1>3, <1>4 DEF Reach
  <1>6. StringStops(t, r) => F[r] = r
    BY <1>2, StringLoopFacts DEF StringLexer
  <1> QED
    BY <1>2, <1>5, <1>6 DEF T

(* A quote closes or is doubled in both. *)
LEMMA QuoteSame ==
    ASSUME NEW t \in Seq(Bytes), NEW u \in Seq(Bytes), NEW b \in Nat, NEW e \in Nat,
           Slice(t, b, e, u), NEW j \in Nat, j < Len(u)
    PROVE  (Closes(u, j) <=> Closes(t, j + b)) /\ (Doubled(u, j) <=> Doubled(t, j + b))
  <1>1. Same(t, b, u, j) /\ (j + 1) + b = (j + b) + 1
    BY SameInside
  <1>2. ByteAt(u, j) = ByteAt(t, j + b)
    BY <1>1 DEF Same
  <1>3. CASE ByteAt(u, j) = "'"
    <2>1. Same(t, b, u, j + 1)
      BY <1>1, <1>2, <1>3, SameNext
    <2>2. ByteAt(u, j + 1) = ByteAt(t, (j + b) + 1)
      BY <1>1, <2>1 DEF Same
    <2> QED
      BY <1>2, <2>2 DEF Closes, Doubled
  <1>4. CASE ByteAt(u, j) # "'"
    BY <1>2, <1>4 DEF Closes, Doubled
  <1> QED
    BY <1>3, <1>4

StringPlace(r, b) == [j |-> r.j + b, size |-> r.size]

(* A string literal is read to the same place. *)
LEMMA StringRunSame ==
    ASSUME NEW t \in Seq(Bytes), NEW u \in Seq(Bytes), NEW b \in Nat, NEW e \in Nat,
           Slice(t, b, e, u), NEW x \in Nat, x < Len(u),
           StringRun(t, x + b).j < e \/ e = Len(t)
    PROVE  /\ StringRun(t, x + b).j = StringRun(u, x).j + b
           /\ StringRun(u, x).j \in Nat /\ StringRun(u, x).j > x
           /\ StringRun(u, x).j < Len(u) <=> StringRun(t, x + b).j < Len(t)
           /\ StringRun(u, x).j <= Len(u)
  <1> DEFINE F == StringLexer(t, x + b)
             s == StringStart(x + b)
             G == StringLexer(u, x)
             S == StringStates(u, x)
             T == {r \in S : Reach(F, s, StringPlace(r, b))}
             k == StringRun(u, x)
  <1>0. Len(u) \in Nat /\ Len(t) \in Nat /\ Len(u) + b = e /\ e <= Len(t)
    BY SliceNumbers
  <1>1. x \in 0..Len(u) /\ x + b \in 0..Len(t) /\ x + b < Len(t)
    BY <1>0
  <1>2. G \in [S -> S] /\ StringStart(x) \in S /\ Final(S, G, StringStart(x), k)
        /\ k \in S /\ StringStops(u, k)
    BY <1>1, StringRunFacts
  <1>3. \A r \in S : r.j \in Nat /\ r.size \in Nat /\ r.j <= Len(u) /\ r.j > x
    BY <1>0 DEF StringStates
  <1>4. ASSUME NEW r \in S
        PROVE  StringPlace(r, b).j = r.j + b /\ StringPlace(r, b).size = r.size
    BY DEF StringPlace
  <1>5. StringStart(x) \in T
    <2>1. StringPlace(StringStart(x), b) = s
      <3>1. (x + 1) + b = (x + b) + 1
        OBVIOUS
      <3> QED
        BY <3>1 DEF StringPlace, StringStart
    <2> QED
      BY <1>2, <2>1, ReachSteps
  <1>6. ASSUME NEW r \in T PROVE G[r] \in T
    <2> DEFINE p == StringPlace(r, b)
    <2>1. r \in S /\ Reach(F, s, p) /\ G[r] = StringLoop(u, r) /\ G[r] \in S
      BY <1>2 DEF StringLexer
    <2>2. CASE StringStops(u, r)
      BY <2>1, <2>2 DEF StringStops, StringLoop
    <2>3. CASE ~StringStops(u, r)
      <3>1. r.j \in Nat /\ r.j < Len(u) /\ ~Closes(u, r.j) /\ ~(r.size >= MaxVarcharBytes)
        BY <1>0, <1>3, <2>1, <2>3 DEF StringStops
      <3>2. /\ Closes(u, r.j) <=> Closes(t, r.j + b)
            /\ Doubled(u, r.j) <=> Doubled(t, r.j + b)
        BY <3>1, QuoteSame
      <3>3. p.j = r.j + b /\ p.size = r.size /\ ~(p.j >= Len(t))
        BY <1>0, <1>4, <2>1, <3>1
      <3>4. /\ StringLoop(t, p) =
                 [j |-> IF Doubled(u, r.j) THEN (r.j + b) + 2 ELSE (r.j + b) + 1,
                  size |-> r.size + 1]
            /\ StringLoop(u, r) =
                 [j |-> IF Doubled(u, r.j) THEN r.j + 2 ELSE r.j + 1, size |-> r.size + 1]
        <4>1. ~(r.j >= Len(u))
          BY <1>0, <3>1
        <4> HIDE DEF p
        <4> QED
          BY <3>1, <3>2, <3>3, <4>1 DEF StringLoop
      <3>5. StringLoop(t, p) = StringPlace(StringLoop(u, r), b)
        <4>1. (r.j + b) + 2 = (r.j + 2) + b /\ (r.j + b) + 1 = (r.j + 1) + b
          BY <3>1
        <4> QED
          BY <3>4, <4>1 DEF StringPlace
      <3>6. p \in StringStates(t, x + b)
        BY <1>1, <2>1, StringForward
      <3>7. F[p] = StringLoop(t, p) /\ p \in DOMAIN F
        BY <3>6 DEF StringLexer
      <3>8. Reach(F, s, StringLoop(t, p))
        BY <2>1, <3>7, ReachSteps
      <3> QED
        BY <2>1, <3>5, <3>8
    <2> QED
      BY <2>2, <2>3
  <1>7. k \in T
    <2>1. Reach(G, StringStart(x), k)
      BY <1>2, ReachFinal
    <2> HIDE DEF T
    <2> QED
      BY <1>5, <1>6, <2>1 DEF Reach
  <1> DEFINE p == StringPlace(k, b)
  <1>8. /\ p.j = k.j + b /\ p.size = k.size /\ k.j \in Nat /\ k.j <= Len(u) /\ k.j > x
    BY <1>2, <1>3, <1>4
  <1>9. /\ Reach(F, s, p) /\ p.j <= StringRun(t, x + b).j
        /\ StringStops(t, p) => p = StringRun(t, x + b)
    BY <1>1, <1>7, StringForward
  <1>10. StringRun(t, x + b).j \in Int
    <2>1. StringRun(t, x + b) \in StringStates(t, x + b)
      BY <1>1, StringRunFacts
    <2> QED
      BY <2>1 DEF StringStates
  <1> HIDE DEF p
  <1>11. k.j < Len(u) \/ e = Len(t)
    BY <1>0, <1>8, <1>9, <1>10
  <1>12. StringStops(t, p)
    <2>1. CASE k.j >= Len(u)
      <3>1. p.j >= Len(t)
        BY <1>0, <1>8, <1>11, <2>1
      <3> QED
        BY <3>1 DEF StringStops
    <2>2. CASE k.j < Len(u) /\ Closes(u, k.j)
      <3>1. Closes(t, p.j)
        BY <1>8, <2>2, QuoteSame
      <3> QED
        BY <3>1 DEF StringStops
    <2>3. CASE k.size >= MaxVarcharBytes
      BY <1>8, <2>3 DEF StringStops
    <2> QED
      BY <1>0, <1>2, <1>8, <2>1, <2>2, <2>3 DEF StringStops
  <1>13. StringRun(t, x + b).j = k.j + b
    BY <1>8, <1>9, <1>12
  <1>14. k.j < Len(u) <=> k.j + b < Len(t)
    BY <1>0, <1>8, <1>11
  <1> QED
    BY <1>8, <1>13, <1>14

LEMMA StringSame ==
    ASSUME NEW t \in Seq(Bytes), NEW u \in Seq(Bytes), NEW b \in Nat, NEW e \in Nat,
           Slice(t, b, e, u), NEW x \in Nat, x < Len(u),
           StringRun(t, x + b).j < e \/ e = Len(t)
    PROVE  scan_string(t, x + b) = ShiftScan(scan_string(u, x), b)
  <1> DEFINE j == StringRun(t, x + b).j
             k == StringRun(u, x).j
             Literal(v, i, n) ==
               CASE n >= Len(v) -> Stops("string", i, n)
                 [] n < Len(v) /\ Closes(v, n) ->
                      IF "~" \in {ByteAt(v, m) : m \in i..n} THEN Stops("utf8", i, n + 1)
                      ELSE Yields("string", i, n + 1)
                 [] OTHER -> Stops("varchar", i, n)
  <1>0. Len(u) \in Nat /\ Len(t) \in Nat
    BY SliceNumbers
  <1>1. j = k + b /\ k \in Nat /\ k > x /\ (k < Len(u) <=> j < Len(t)) /\ k <= Len(u)
    BY StringRunSame
  <1>2. scan_string(t, x + b) = Literal(t, x + b, j) /\ scan_string(u, x) = Literal(u, x, k)
    BY DEF scan_string
  <1> HIDE DEF j, k
  <1>3. CASE ~(k < Len(u))
    <2>1. k >= Len(u) /\ j >= Len(t) /\ ~(j < Len(t))
      BY <1>0, <1>1, <1>3
    <2>2. /\ Literal(t, x + b, j) = Stops("string", x + b, j)
          /\ Literal(u, x, k) = Stops("string", x, k)
      BY <1>3, <2>1
    <2>3. Stops("string", x + b, k + b) = ShiftScan(Stops("string", x, k), b)
      BY <1>1, ShiftScans
    <2> HIDE DEF Literal
    <2> QED
      BY <1>1, <1>2, <2>2, <2>3
  <1>4. CASE k < Len(u) /\ Closes(u, k)
    <2>1. ~(k >= Len(u)) /\ ~(j >= Len(t)) /\ j < Len(t) /\ j + 1 = (k + 1) + b /\ k + 1 \in Nat
      BY <1>0, <1>1, <1>4
    <2>2. Closes(t, j)
      BY <1>1, <1>4, QuoteSame
    <2>3. "~" \in {ByteAt(t, m) : m \in (x + b)..j} <=> "~" \in {ByteAt(u, m) : m \in x..k}
      <3>1. ASSUME NEW m \in (x + b)..j
            PROVE  m - b \in x..k /\ ByteAt(t, m) = ByteAt(u, m - b)
        <4>1. m - b \in x..k /\ m - b \in Nat /\ m - b < Len(u) /\ (m - b) + b = m
          BY <1>0, <1>1, <1>4
        <4>2. Same(t, b, u, m - b)
          BY <4>1, SameInside
        <4> QED
          BY <4>1, <4>2 DEF Same
      <3>2. ASSUME NEW m \in x..k
            PROVE  m + b \in (x + b)..j /\ ByteAt(t, m + b) = ByteAt(u, m)
        <4>1. m + b \in (x + b)..j /\ m \in Nat /\ m < Len(u)
          BY <1>0, <1>1, <1>4
        <4>2. Same(t, b, u, m)
          BY <4>1, SameInside
        <4> QED
          BY <4>1, <4>2 DEF Same
      <3> QED
        BY <3>1, <3>2
    <2>4. /\ Stops("utf8", x + b, (k + 1) + b) = ShiftScan(Stops("utf8", x, k + 1), b)
          /\ Yields("string", x + b, (k + 1) + b) = ShiftScan(Yields("string", x, k + 1), b)
      <3>1. ASSUME NEW n \in Nat, NEW what
            PROVE  /\ Stops(what, x + b, n + b) = ShiftScan(Stops(what, x, n), b)
                   /\ Yields(what, x + b, n + b) = ShiftScan(Yields(what, x, n), b)
        BY ShiftScans
      <3> QED
        BY <2>1, <3>1
    <2>5. CASE "~" \in {ByteAt(u, m) : m \in x..k}
      <3>1. /\ Literal(t, x + b, j) = Stops("utf8", x + b, j + 1)
            /\ Literal(u, x, k) = Stops("utf8", x, k + 1)
        BY <1>4, <2>1, <2>2, <2>3, <2>5
      <3> HIDE DEF Literal
      <3> QED
        BY <1>2, <2>1, <2>4, <3>1
    <2>6. CASE "~" \notin {ByteAt(u, m) : m \in x..k}
      <3>1. /\ Literal(t, x + b, j) = Yields("string", x + b, j + 1)
            /\ Literal(u, x, k) = Yields("string", x, k + 1)
        BY <1>4, <2>1, <2>2, <2>3, <2>6
      <3> HIDE DEF Literal
      <3> QED
        BY <1>2, <2>1, <2>4, <3>1
    <2> QED
      BY <2>5, <2>6
  <1>5. CASE k < Len(u) /\ ~Closes(u, k)
    <2>1. ~(k >= Len(u)) /\ ~(j >= Len(t)) /\ j < Len(t)
      BY <1>0, <1>1, <1>5
    <2>2. ~Closes(t, j)
      BY <1>1, <1>5, QuoteSame
    <2>3. /\ Literal(t, x + b, j) = Stops("varchar", x + b, j)
          /\ Literal(u, x, k) = Stops("varchar", x, k)
      BY <1>5, <2>1, <2>2
    <2>4. Stops("varchar", x + b, k + b) = ShiftScan(Stops("varchar", x, k), b)
      BY <1>1, ShiftScans
    <2> HIDE DEF Literal
    <2> QED
      BY <1>1, <1>2, <2>3, <2>4
  <1> QED
    BY <1>3, <1>4, <1>5

(* The statement that ends at e holds what the scan step at i reads. *)
Covers(t, i, e) ==
    /\ i < e
    /\ ByteAt(t, i) = "'" => StringRun(t, i).j < e \/ e = Len(t)
    /\ ByteAt(t, i) = "-" /\ ByteAt(t, i + 1) = "-" => skip_line_comment(t, i).i <= e
    /\ ByteAt(t, i) = "/" /\ ByteAt(t, i + 1) = "*" => skip_block_comment(t, i).i <= e

(* A scan step of the statement is that of the script. *)
LEMMA ScanSame ==
    ASSUME NEW t \in Seq(Bytes), NEW u \in Seq(Bytes), NEW b \in Nat, NEW e \in Nat,
           Slice(t, b, e, u), NEW x \in Nat, x < Len(u), Covers(t, x + b, e)
    PROVE  ScanStep(t, x + b) = ShiftScan(ScanStep(u, x), b)
  <1> DEFINE byte == ByteAt(u, x)
             next == ByteAt(u, x + 1)
  <1>0. Same(t, b, u, x) /\ (x + b) + 1 = (x + 1) + b /\ x + 1 \in Nat
    BY SameInside
  <1>1. ByteAt(t, x + b) = byte
    BY <1>0 DEF Same
  <1>2. byte \in {"-", "/"} => ByteAt(t, (x + b) + 1) = next
    <2> SUFFICES ASSUME byte \in {"-", "/"} PROVE Same(t, b, u, x + 1)
      BY <1>0 DEF Same
    <2> QED
      BY <1>0, <1>1, SameNext
  <1>3. CASE is_whitespace(byte)
    <2>1. ScanStep(t, x + b) = Skips((x + b) + 1) /\ ScanStep(u, x) = Skips(x + 1)
      BY <1>1, <1>3 DEF ScanStep, is_whitespace, Letters, Digits
    <2>2. Skips((x + 1) + b) = ShiftScan(Skips(x + 1), b)
      BY <1>0, ShiftScans
    <2> QED
      BY <1>0, <2>1, <2>2
  <1>4. CASE byte = "-" /\ next = "-"
    <2>1. /\ ScanStep(t, x + b) = skip_line_comment(t, x + b)
          /\ ScanStep(u, x) = skip_line_comment(u, x)
      BY <1>1, <1>2, <1>4 DEF ScanStep, is_whitespace, Letters, Digits
    <2>2. skip_line_comment(t, x + b).i <= e
      BY <1>1, <1>2, <1>4 DEF Covers
    <2> QED
      BY <2>1, <2>2, LineSame
  <1>5. CASE byte = "/" /\ next = "*"
    <2>1. /\ ScanStep(t, x + b) = skip_block_comment(t, x + b)
          /\ ScanStep(u, x) = skip_block_comment(u, x)
      BY <1>1, <1>2, <1>5 DEF ScanStep, is_whitespace, Letters, Digits
    <2>2. skip_block_comment(t, x + b).i <= e
      BY <1>1, <1>2, <1>5 DEF Covers
    <2> QED
      BY <2>1, <2>2, BlockSame
  <1>6. CASE byte \in Letters
    <2>1. ScanStep(t, x + b) = scan_word(t, x + b) /\ ScanStep(u, x) = scan_word(u, x)
      BY <1>1, <1>6 DEF ScanStep, is_whitespace, Letters, Digits
    <2> QED
      BY <2>1, WordSame
  <1>7. CASE byte \in Digits
    <2>1. ScanStep(t, x + b) = scan_number(t, x + b) /\ ScanStep(u, x) = scan_number(u, x)
      BY <1>1, <1>7 DEF ScanStep, is_whitespace, Letters, Digits
    <2> QED
      BY <2>1, NumberSame
  <1>8. CASE byte = "'"
    <2>1. ScanStep(t, x + b) = scan_string(t, x + b) /\ ScanStep(u, x) = scan_string(u, x)
      BY <1>1, <1>8 DEF ScanStep, is_whitespace, Letters, Digits
    <2>2. StringRun(t, x + b).j < e \/ e = Len(t)
      BY <1>1, <1>8 DEF Covers
    <2> QED
      BY <2>1, <2>2, StringSame
  <1>9. CASE /\ ~is_whitespace(byte) /\ ~(byte = "-" /\ next = "-") /\ ~(byte = "/" /\ next = "*")
             /\ byte \notin Letters /\ byte \notin Digits /\ byte # "'"
    <2>1. ScanStep(t, x + b) = scan_symbol(t, x + b) /\ ScanStep(u, x) = scan_symbol(u, x)
      <3>1. /\ ~(ByteAt(t, x + b) = "-" /\ ByteAt(t, (x + b) + 1) = "-")
            /\ ~(ByteAt(t, x + b) = "/" /\ ByteAt(t, (x + b) + 1) = "*")
        BY <1>1, <1>2, <1>9
      <3> QED
        BY <1>1, <1>9, <3>1 DEF ScanStep
    <2> QED
      BY <2>1, SymbolSame
  <1> QED
    BY <1>3, <1>4, <1>5, <1>6, <1>7, <1>8, <1>9

(* A string literal that is read without an error ends at its quote. *)
LEMMA StringEnds ==
    ASSUME NEW t \in Seq(Bytes), NEW i \in 0..Len(t), i < Len(t)
    PROVE  LET j == StringRun(t, i).j
           IN  /\ j \in (i + 1)..Len(t)
               /\ \/ /\ j = Len(t) /\ scan_string(t, i) = Stops("string", i, j)
                  \/ /\ j < Len(t) /\ Closes(t, j)
                     /\ scan_string(t, i) \in {Stops("utf8", i, j + 1), Yields("string", i, j + 1)}
                  \/ /\ j < Len(t) /\ ~Closes(t, j)
                     /\ scan_string(t, i) = Stops("varchar", i, j)
  <1> DEFINE j == StringRun(t, i).j
  <1>0. Len(t) \in Nat /\ i \in Nat
    OBVIOUS
  <1>1. j \in (i + 1)..Len(t)
    BY StringRunFacts DEF StringStates
  <1>2. scan_string(t, i) =
          CASE j >= Len(t) -> Stops("string", i, j)
            [] j < Len(t) /\ Closes(t, j) ->
                 IF "~" \in {ByteAt(t, m) : m \in i..j} THEN Stops("utf8", i, j + 1)
                 ELSE Yields("string", i, j + 1)
            [] OTHER -> Stops("varchar", i, j)
    BY DEF scan_string
  <1> HIDE DEF j
  <1>3. j >= Len(t) <=> ~(j < Len(t))
    BY <1>0, <1>1
  <1>4. j >= Len(t) => j = Len(t)
    BY <1>0, <1>1
  <1>5. CASE j >= Len(t)
    BY <1>1, <1>2, <1>3, <1>4, <1>5 DEF j
  <1>6. CASE j < Len(t) /\ Closes(t, j)
    BY <1>1, <1>2, <1>3, <1>6 DEF j
  <1>7. CASE j < Len(t) /\ ~Closes(t, j)
    BY <1>1, <1>2, <1>3, <1>7 DEF j
  <1> QED
    BY <1>3, <1>5, <1>6, <1>7

LEMMA ScanCovered ==
    ASSUME NEW t \in Seq(Bytes), NEW i \in 0..Len(t), i < Len(t), NEW e \in Nat,
           ScanStep(t, i).error = <<>>, ScanStep(t, i).i <= e
    PROVE  Covers(t, i, e) /\ ScanStep(t, i).i > i /\ ScanStep(t, i).i \in 0..Len(t)
  <1>1. ScanStep(t, i).i \in 0..Len(t) /\ ScanStep(t, i).i > i
    BY ScanStepGood DEF GoodScan, Scans
  <1>2. i < e
    BY <1>1
  <1>3. ASSUME ByteAt(t, i) = "'" PROVE StringRun(t, i).j < e
    <2> DEFINE j == StringRun(t, i).j
    <2>1. ScanStep(t, i) = scan_string(t, i)
      BY <1>3 DEF ScanStep, is_whitespace, Letters, Digits
    <2>2. \A what, n : Stops(what, i, n).error # <<>>
      BY DEF Stops
    <2>3. j \in (i + 1)..Len(t) /\ scan_string(t, i) = Yields("string", i, j + 1)
      BY <2>1, <2>2, StringEnds
    <2> HIDE DEF j
    <2>4. j + 1 <= e
      BY <2>1, <2>3 DEF Yields
    <2>5. j < e
      BY <2>3, <2>4
    <2> QED
      BY <2>5 DEF j
  <1>4. ByteAt(t, i) = "-" /\ ByteAt(t, i + 1) = "-" => ScanStep(t, i) = skip_line_comment(t, i)
    BY DEF ScanStep, is_whitespace, Letters, Digits
  <1>5. ByteAt(t, i) = "/" /\ ByteAt(t, i + 1) = "*" => ScanStep(t, i) = skip_block_comment(t, i)
    BY DEF ScanStep, is_whitespace, Letters, Digits
  <1> QED
    BY <1>1, <1>2, <1>3, <1>4, <1>5 DEF Covers

(* Concatenation and Append, unexpanded. *)
Joined(p, q) == p \o q

LEMMA JoinedSeq ==
    ASSUME NEW S, NEW p \in Seq(S), NEW q \in Seq(S)
    PROVE  Joined(p, q) \in Seq(S) /\ Len(Joined(p, q)) = Len(p) + Len(q)
  BY DEF Joined

(* Moving a list moves its parts. *)
LEMMA ShiftedConcat ==
    ASSUME NEW S, NEW p \in Seq(S), NEW q \in Seq(S), NEW by
    PROVE  Shifted(Joined(p, q), by) = Joined(Shifted(p, by), Shifted(q, by))
  <1> DEFINE M == {Moved(x, by) : x \in S}
  <1>1. ASSUME NEW s \in Seq(S)
        PROVE  /\ Shifted(s, by) \in Seq(M) /\ Len(Shifted(s, by)) = Len(s)
               /\ \A n \in 1..Len(s) : Shifted(s, by)[n] = Moved(s[n], by)
    <2>1. DOMAIN s = 1..Len(s) /\ Len(s) \in Nat /\ \A n \in 1..Len(s) : s[n] \in S
      OBVIOUS
    <2>2. Shifted(s, by) \in [1..Len(s) -> M]
      BY <2>1 DEF Shifted
    <2>3. Shifted(s, by) \in Seq(M) /\ Len(Shifted(s, by)) = Len(s)
      <3> DEFINE g == Shifted(s, by)
                 n == Len(s)
      <3> HIDE DEF M, g, n
      <3>1. n \in Nat /\ g \in [1..n -> M]
        BY <2>1, <2>2 DEF g, n
      <3>2. g \in Seq(M) /\ Len(g) = n
        BY <3>1
      <3> QED
        BY <3>2 DEF g, n
    <2> QED
      BY <2>1, <2>3 DEF Shifted
  <1> DEFINE a == Shifted(p \o q, by)
             c == Shifted(p, by)
             d == Shifted(q, by)
  <1>2. p \o q \in Seq(S) /\ Len(p \o q) = Len(p) + Len(q) /\ Len(p) \in Nat /\ Len(q) \in Nat
    OBVIOUS
  <1>3. /\ a \in Seq(M) /\ Len(a) = Len(p) + Len(q)
        /\ \A n \in 1..(Len(p) + Len(q)) : a[n] = Moved((p \o q)[n], by)
    BY <1>1, <1>2
  <1>4. /\ c \in Seq(M) /\ Len(c) = Len(p) /\ \A n \in 1..Len(p) : c[n] = Moved(p[n], by)
        /\ d \in Seq(M) /\ Len(d) = Len(q) /\ \A n \in 1..Len(q) : d[n] = Moved(q[n], by)
    BY <1>1
  <1> HIDE DEF M, a, c, d
  <1>5. c \o d \in Seq(M) /\ Len(c \o d) = Len(p) + Len(q)
    <2>1. c \in Seq(M) /\ d \in Seq(M) /\ Len(c) = Len(p) /\ Len(d) = Len(q)
      BY <1>4
    <2>2. PICK x \in Seq(M), y \in Seq(M) : x = c /\ y = d
      BY <2>1
    <2>3. Joined(x, y) \in Seq(M) /\ Len(Joined(x, y)) = Len(x) + Len(y)
      BY JoinedSeq
    <2>4. Joined(c, d) \in Seq(M) /\ Len(Joined(c, d)) = Len(p) + Len(q)
      BY <2>1, <2>2, <2>3
    <2> QED
      BY <2>4 DEF Joined
  <1>6. ASSUME NEW n \in 1..(Len(p) + Len(q)) PROVE a[n] = (c \o d)[n]
    <2>1. CASE n \in 1..Len(p)
      <3>1. (p \o q)[n] = p[n] /\ (c \o d)[n] = c[n]
        BY <1>4, <2>1
      <3> QED
        BY <1>3, <1>4, <2>1, <3>1
    <2>2. CASE n \notin 1..Len(p)
      <3>1. n - Len(p) \in 1..Len(q)
        BY <1>2, <2>2
      <3>2. (p \o q)[n] = q[n - Len(p)] /\ (c \o d)[n] = d[n - Len(p)]
        BY <1>2, <1>4, <2>2, <3>1
      <3> QED
        BY <1>3, <1>4, <3>1, <3>2
    <2> QED
      BY <2>1, <2>2
  <1>7. a = c \o d
    BY <1>3, <1>5, <1>6, SeqEqual
  <1> QED
    BY <1>7 DEF a, c, d, Joined

-----------------------------------------------------------------------------
(* The lexer on a statement *)

(* The lexer, on the statement from b to e, reaches what r says in the     *)
(* offsets of the script.                                                  *)
LexedTo(t, b, e, r) ==
    \E q : /\ Reach(Lexer(SubSeq(t, b + 1, e)), Skips(0), q)
           /\ ShiftScan(q, b) = r

LEMMA ShiftScanFields ==
    ASSUME NEW q, NEW b
    PROVE  /\ ShiftScan(q, b).tokens = Shifted(q.tokens, b)
           /\ ShiftScan(q, b).error = Shifted(q.error, b)
           /\ ShiftScan(q, b).i = q.i + b
  BY DEF ShiftScan

(* An error stays one. *)
LEMMA ShiftedError ==
    ASSUME NEW t, NEW q \in Scans(t), NEW b
    PROVE  Shifted(q.error, b) = <<>> <=> q.error = <<>>
  <1>1. q.error = <<>> \/ \E x : q.error = <<x>>
    BY DEF Scans
  <1>2. ASSUME NEW x, q.error = <<x>> PROVE Shifted(q.error, b) # <<>> /\ q.error # <<>>
    <2>1. Shifted(<<x>>, b) = <<Moved(x, b)>>
      BY ShiftedOne
    <2>2. \A y : <<y>> # <<>>
      OBVIOUS
    <2> QED
      BY <1>2, <2>1, <2>2
  <1>3. Shifted(<<>>, b) = <<>>
    BY ShiftedOne
  <1> QED
    BY <1>1, <1>2, <1>3

(* At its first byte, *)
LEMMA LexedStart ==
    ASSUME NEW t \in Seq(Bytes), NEW b \in Nat, NEW e \in Nat
    PROVE  LexedTo(t, b, e, Skips(b))
  <1>1. ShiftScan(Skips(0), b) = Skips(b)
    <2>1. 0 + b = b /\ 0 \in Nat
      OBVIOUS
    <2>2. ShiftScan(Skips(0), b) = Skips(0 + b)
      BY <2>1, ShiftScans
    <2> QED
      BY <2>1, <2>2
  <1> QED
    BY <1>1, ReachSteps DEF LexedTo

(* A scan step in the script is one in the statement that covers it. *)
LEMMA LexedStep ==
    ASSUME NEW t \in Seq(Bytes), NEW b \in Cuts(t), NEW e \in Cuts(t), b <= e,
           NEW r \in Scans(t), LexedTo(t, b, e, r), r.error = <<>>, Covers(t, r.i, e)
    PROVE  LexedTo(t, b, e, ScanLoop(t, r))
  <1> DEFINE u == SubSeq(t, b + 1, e)
             F == Lexer(u)
             step == ScanStep(t, r.i)
  <1>1. Slice(t, b, e, u)
    BY SliceOf
  <1>1a. u \in Seq(Bytes)
    BY <1>1 DEF Slice
  <1>2. PICK q : Reach(F, Skips(0), q) /\ ShiftScan(q, b) = r
    BY DEF LexedTo
  <1>3. b \in Nat /\ e \in Nat /\ u \in Seq(Bytes) /\ Len(u) \in Nat /\ Len(t) \in Nat
        /\ Len(u) + b = e /\ e <= Len(t)
    BY <1>1, <1>1a, SliceNumbers
  <1> HIDE DEF u
  <1>4. /\ F \in [Scans(u) -> Scans(u)] /\ Skips(0) \in Scans(u)
        /\ Final(Scans(u), F, Skips(0), tokenize(u))
    BY <1>3, TokenizeFacts
  <1>5. q \in Scans(u)
    BY <1>2, <1>4, ReachFinal
  <1>6. q.i \in 0..Len(u) /\ q.tokens \in Seq(Tokens(u))
    BY <1>5 DEF Scans
  <1>7. r.i = q.i + b /\ r.tokens = Shifted(q.tokens, b) /\ q.error = <<>>
    BY <1>2, <1>5, ShiftScanFields, ShiftedError
  <1>8. r.i < e
    BY DEF Covers
  <1>9. q.i \in Nat /\ q.i < Len(u) /\ ~(q.i >= Len(u)) /\ ~(r.i >= Len(t))
    BY <1>3, <1>6, <1>7, <1>8
  <1>10. step = ShiftScan(ScanStep(u, q.i), b)
    BY <1>1, <1>3, <1>7, <1>9, ScanSame
  <1> DEFINE qstep == ScanStep(u, q.i)
             next == ScanLoop(u, q)
  <1>11. next = [tokens |-> q.tokens \o qstep.tokens, error |-> qstep.error, i |-> qstep.i]
    BY <1>7, <1>9 DEF ScanLoop
  <1>12. ScanLoop(t, r) = [tokens |-> r.tokens \o step.tokens, error |-> step.error, i |-> step.i]
    BY <1>9 DEF ScanLoop
  <1>13. qstep.tokens \in Seq(Tokens(u))
    BY <1>3, <1>6, <1>9, ScanStepGood DEF GoodScan, Scans
  <1>14. F[q] = next /\ q \in DOMAIN F
    BY <1>4, <1>5 DEF Lexer
  <1>15. Reach(F, Skips(0), next)
    BY <1>2, <1>14, ReachSteps
  <1>16. Shifted(q.tokens \o qstep.tokens, b) = r.tokens \o step.tokens
    <2>1. step.tokens = Shifted(qstep.tokens, b)
      BY <1>10, ShiftScanFields
    <2> HIDE DEF step, qstep, next, F
    <2>2. q.tokens \in Seq(Tokens(u)) /\ qstep.tokens \in Seq(Tokens(u))
      BY <1>6, <1>13
    <2>a. PICK x \in Seq(Tokens(u)), y \in Seq(Tokens(u)) : x = q.tokens /\ y = qstep.tokens
      BY <2>2
    <2>b. Shifted(Joined(x, y), b) = Joined(Shifted(x, b), Shifted(y, b))
      BY ShiftedConcat
    <2>3. Shifted(Joined(q.tokens, qstep.tokens), b) =
            Joined(Shifted(q.tokens, b), Shifted(qstep.tokens, b))
      BY <2>a, <2>b
    <2> QED
      BY <1>7, <2>1, <2>3 DEF Joined
  <1>17. step.error = Shifted(qstep.error, b) /\ step.i = qstep.i + b
    BY <1>10, ShiftScanFields
  <1>18. ShiftScan(next, b) = ScanLoop(t, r)
    <2> HIDE DEF next, qstep, step
    <2>1. next.tokens = q.tokens \o qstep.tokens /\ next.error = qstep.error /\ next.i = qstep.i
      BY <1>11
    <2> QED
      BY <1>12, <1>16, <1>17, <2>1 DEF ShiftScan
  <1> QED
    BY <1>15, <1>18 DEF LexedTo, u

(* Where the statement ends, or at an error, the lexer is done with it. *)
LEMMA LexedEnd ==
    ASSUME NEW t \in Seq(Bytes), NEW b \in Cuts(t), NEW e \in Cuts(t), b <= e,
           NEW r, LexedTo(t, b, e, r), r.error # <<>> \/ r.i = e
    PROVE  ShiftScan(tokenize(SubSeq(t, b + 1, e)), b) = r
  <1> DEFINE u == SubSeq(t, b + 1, e)
             F == Lexer(u)
  <1>1. Slice(t, b, e, u)
    BY SliceOf
  <1>1a. u \in Seq(Bytes)
    BY <1>1 DEF Slice
  <1>2. PICK q : Reach(F, Skips(0), q) /\ ShiftScan(q, b) = r
    BY DEF LexedTo
  <1>3. b \in Nat /\ e \in Nat /\ u \in Seq(Bytes) /\ Len(u) \in Nat /\ Len(u) + b = e
    BY <1>1, <1>1a, SliceNumbers
  <1> HIDE DEF u
  <1>4. /\ F \in [Scans(u) -> Scans(u)] /\ Skips(0) \in Scans(u)
        /\ Final(Scans(u), F, Skips(0), tokenize(u))
    BY <1>3, TokenizeFacts
  <1>5. q \in Scans(u) /\ (F[q] = q => q = tokenize(u))
    BY <1>2, <1>4, ReachFinal
  <1>6. q.i \in 0..Len(u)
    BY <1>5 DEF Scans
  <1>7. r.i = q.i + b /\ (r.error = <<>> <=> q.error = <<>>)
    BY <1>2, <1>5, ShiftScanFields, ShiftedError
  <1>8. ScanStops(u, q)
    <2>1. CASE r.error # <<>>
      BY <1>7, <2>1 DEF ScanStops
    <2>2. CASE r.i = e
      <3>1. q.i >= Len(u)
        BY <1>3, <1>6, <1>7, <2>2
      <3> QED
        BY <3>1 DEF ScanStops
    <2> QED
      BY <2>1, <2>2
  <1>9. F[q] = q
    BY <1>3, <1>5, <1>8, ScanLoopFacts DEF Lexer
  <1> QED
    BY <1>2, <1>5, <1>9 DEF u

-----------------------------------------------------------------------------
(* The splitter inside a statement *)

LEMMA ReachOn ==
    ASSUME NEW F, NEW x, NEW y, NEW z, Reach(F, x, y), Reach(F, y, z)
    PROVE  Reach(F, x, z)
  BY DEF Reach

(* Neither a quote, nor a ";", nor the start of a comment. *)
Plain(t, i) ==
    /\ ByteAt(t, i) \notin {"'", ";"}
    /\ ~(ByteAt(t, i) = "-" /\ ByteAt(t, i + 1) = "-")
    /\ ~(ByteAt(t, i) = "/" /\ ByteAt(t, i + 1) = "*")

(* The segment stays open. *)
Becomes(r, q, state, i) == q.state = state /\ q.index = i /\ q.start = r.start /\ q.out = r.out

(* A step of the splitter outside literals and comments, *)
LEMMA NormalStep ==
    ASSUME NEW t, NEW r \in SplitStates(t), r.state = "normal", NEW q, q = SplitStep(t, r)
    PROVE  /\ ByteAt(t, r.index) = "'" => Becomes(r, q, "string", r.index + 1) /\ q.content
           /\ ByteAt(t, r.index) = "-" /\ ByteAt(t, r.index + 1) = "-" =>
                Becomes(r, q, "line", r.index + 2) /\ q.content = r.content
           /\ ByteAt(t, r.index) = "/" /\ ByteAt(t, r.index + 1) = "*" =>
                Becomes(r, q, "block", r.index + 2) /\ q.content = r.content
           /\ ByteAt(t, r.index) = ";" =>
                /\ q.state = "normal" /\ q.index = r.index + 1 /\ q.start = r.index + 1
                /\ ~q.content
                /\ q.out = IF r.content THEN Append(r.out, Between(t, r.start, r.index + 1))
                                        ELSE r.out
           /\ Plain(t, r.index) =>
                /\ Becomes(r, q, "normal", r.index + 1)
                /\ q.content <=> r.content \/ ~is_whitespace(ByteAt(t, r.index))
  <1>1. CASE ByteAt(t, r.index) = "'"
    BY <1>1 DEF SplitStep, SplitStates, Becomes, Plain
  <1>2. CASE ByteAt(t, r.index) = "-" /\ ByteAt(t, r.index + 1) = "-"
    BY <1>2 DEF SplitStep, SplitStates, Becomes, Plain
  <1>3. CASE ByteAt(t, r.index) = "/" /\ ByteAt(t, r.index + 1) = "*"
    BY <1>3 DEF SplitStep, SplitStates, Becomes, Plain
  <1>4. CASE ByteAt(t, r.index) = ";"
    BY <1>4 DEF SplitStep, SplitStates, Becomes, Plain, Segment, Between
  <1>5. CASE Plain(t, r.index)
    BY <1>5 DEF SplitStep, SplitStates, Becomes, Plain
  <1> QED
    BY <1>1, <1>2, <1>3, <1>4, <1>5 DEF Plain

(* and inside one. *)
LEMMA InnerStep ==
    ASSUME NEW t, NEW r \in SplitStates(t), r.state # "normal", NEW q, q = SplitStep(t, r)
    PROVE  /\ q.content = r.content
           /\ r.state = "string" =>
                /\ Doubled(t, r.index) => Becomes(r, q, "string", r.index + 2)
                /\ Closes(t, r.index) => Becomes(r, q, "normal", r.index + 1)
                /\ ~Doubled(t, r.index) /\ ~Closes(t, r.index) =>
                     Becomes(r, q, "string", r.index + 1)
           /\ r.state = "line" =>
                IF ByteAt(t, r.index) = "lf" THEN Becomes(r, q, "normal", r.index + 1)
                                             ELSE Becomes(r, q, "line", r.index + 1)
           /\ r.state = "block" =>
                IF Ending(t, r.index) THEN Becomes(r, q, "normal", r.index + 2)
                                      ELSE Becomes(r, q, "block", r.index + 1)
  <1>1. CASE r.state = "string"
    BY <1>1 DEF SplitStep, SplitStates, Becomes, Doubled, Closes
  <1>2. CASE r.state = "line"
    BY <1>2 DEF SplitStep, SplitStates, Becomes
  <1>3. CASE r.state = "block"
    BY <1>3 DEF SplitStep, SplitStates, Becomes, Ending
  <1> QED
    BY <1>1, <1>2, <1>3 DEF SplitStates

LEMMA OneStep ==
    ASSUME NEW t \in Seq(Bytes), NEW r \in SplitStates(t), r.index < Len(t),
           NEW q, q = SplitStep(t, r)
    PROVE  Reach(Splitter(t), r, q) /\ q \in SplitStates(t)
  <1>1. q \in SplitStates(t)
    BY SplitStepFacts
  <1>2. r.index \in 0..Len(t)
    BY SplitStateFields
  <1>3. ~(r.index >= Len(t))
    BY <1>2
  <1>4. SplitLoop(t, r) = q
    BY <1>3 DEF SplitLoop
  <1>5. r \in DOMAIN Splitter(t) /\ Splitter(t)[r] = q
    BY <1>4 DEF Splitter
  <1> QED
    BY <1>1, <1>5, ReachSteps

(* The splitter goes on inside the segment. *)
Goes(t, r, state, i, q) ==
    /\ Reach(Splitter(t), r, q) /\ q \in SplitStates(t)
    /\ Becomes(r, q, state, i) /\ q.content = r.content

LEMMA GoesOn ==
    ASSUME NEW t, NEW r, NEW q, NEW p, NEW state, NEW i, NEW other, NEW j,
           Goes(t, r, state, i, q), Goes(t, q, other, j, p)
    PROVE  Goes(t, r, other, j, p)
  BY ReachOn DEF Goes, Becomes

(* The bytes on which the splitter keeps its state. *)
Stays(t, r, m) ==
    \/ r.state = "normal" /\ r.content /\ Plain(t, m)
    \/ r.state = "line" /\ ByteAt(t, m) # "lf"
    \/ r.state = "block" /\ ~Ending(t, m)

LEMMA StayStep ==
    ASSUME NEW t \in Seq(Bytes), NEW r \in SplitStates(t), r.index < Len(t), Stays(t, r, r.index)
    PROVE  \E q : Goes(t, r, r.state, r.index + 1, q)
  <1> DEFINE q == SplitStep(t, r)
  <1>1. Reach(Splitter(t), r, q) /\ q \in SplitStates(t)
    BY OneStep
  <1>2. Becomes(r, q, r.state, r.index + 1) /\ (q.content <=> r.content)
    <2>1. CASE r.state = "normal"
      BY <2>1, NormalStep DEF Stays
    <2>2. CASE r.state # "normal"
      BY <2>2, InnerStep DEF Stays
    <2> QED
      BY <2>1, <2>2
  <1> HIDE DEF q
  <1>3. q.content \in BOOLEAN /\ r.content \in BOOLEAN
    BY <1>1, SplitStateFields
  <1> QED
    BY <1>1, <1>2, <1>3 DEF Goes

(* The splitter reads them to the end. *)
LEMMA Walk ==
    ASSUME NEW t \in Seq(Bytes), NEW r \in SplitStates(t), NEW j \in r.index..Len(t),
           \A m \in r.index..(j - 1) : Stays(t, r, m)
    PROVE  \E q : Goes(t, r, r.state, j, q)
  <1> DEFINE i == r.index
             T == {n \in Nat : i + n <= j => \E q : Goes(t, r, r.state, i + n, q)}
  <1>1. i \in 0..Len(t) /\ Len(t) \in Nat
    BY SplitStateFields
  <1>2. i \in Nat /\ i + 0 = i
    BY <1>1
  <1>3. 0 \in T
    <2>1. Goes(t, r, r.state, i, r)
      BY ReachSteps DEF Goes, Becomes
    <2> HIDE DEF i
    <2> QED
      BY <1>2, <2>1
  <1>4. ASSUME NEW n \in Nat, n \in T PROVE n + 1 \in T
    <2> SUFFICES ASSUME i + (n + 1) <= j PROVE \E q : Goes(t, r, r.state, i + (n + 1), q)
      OBVIOUS
    <2> HIDE DEF i
    <2>0. i \in Nat /\ Len(t) \in Nat /\ j \in i..Len(t)
      BY <1>1, <1>2 DEF i
    <2>1. i + n <= j /\ i + n \in i..(j - 1) /\ i + n < Len(t) /\ (i + n) + 1 = i + (n + 1)
      BY <2>0
    <2>2. PICK q : Goes(t, r, r.state, i + n, q)
      BY <1>4, <2>1
    <2>3. q \in SplitStates(t) /\ q.index = i + n /\ q.state = r.state /\ q.content = r.content
      BY <2>2 DEF Goes, Becomes
    <2>4. Stays(t, r, i + n)
      BY <2>1 DEF i
    <2>5. Stays(t, q, q.index)
      BY <2>3, <2>4 DEF Stays
    <2>6. PICK p : Goes(t, q, q.state, q.index + 1, p)
      BY <2>1, <2>3, <2>5, StayStep
    <2>7. Goes(t, q, r.state, i + (n + 1), p)
      BY <2>1, <2>3, <2>6
    <2> QED
      BY <2>2, <2>7, GoesOn
  <1> HIDE DEF T
  <1>5. j - i \in T
    <2>1. j - i \in Nat
      BY <1>1
    <2> QED
      BY <1>3, <1>4, <2>1, SetInduction
  <1>6. i + (j - i) = j /\ j <= j
    BY <1>1
  <1> HIDE DEF i
  <1> QED
    BY <1>5, <1>6 DEF T

(* The splitter goes on inside the segment, which has content. *)
Fills(t, r, state, i, q) ==
    Reach(Splitter(t), r, q) /\ q \in SplitStates(t) /\ Becomes(r, q, state, i) /\ q.content

LEMMA FillsOn ==
    ASSUME NEW t, NEW r, NEW q, NEW p, NEW state, NEW i, NEW other, NEW j,
           Fills(t, r, state, i, q), Goes(t, q, other, j, p)
    PROVE  Fills(t, r, other, j, p)
  BY ReachOn DEF Goes, Fills, Becomes

(* The splitter reads a string literal as far as the lexer. *)
LEMMA StringWalk ==
    ASSUME NEW t \in Seq(Bytes), NEW i \in 0..Len(t), i < Len(t), NEW r \in SplitStates(t),
           r.state = "string", r.index = i + 1
    PROVE  \E q : Goes(t, r, "string", StringRun(t, i).j, q)
  <1> DEFINE F == StringLexer(t, i)
             S == StringStates(t, i)
             T == {s \in S : \E q : Goes(t, r, "string", s.j, q)}
  <1>1. F \in [S -> S] /\ StringStart(i) \in S /\ Final(S, F, StringStart(i), StringRun(t, i))
    BY StringRunFacts
  <1>2. Reach(F, StringStart(i), StringRun(t, i))
    BY <1>1, ReachFinal
  <1>3. StringStart(i) \in T
    <2>1. StringStart(i).j = r.index
      BY DEF StringStart
    <2>2. Goes(t, r, "string", r.index, r)
      BY ReachSteps DEF Goes, Becomes
    <2> QED
      BY <1>1, <2>1, <2>2
  <1>4. ASSUME NEW s \in T PROVE F[s] \in T
    <2>1. s \in S /\ F[s] = StringLoop(t, s) /\ F[s] \in S
      BY <1>1 DEF StringLexer
    <2>2. PICK q : Goes(t, r, "string", s.j, q)
      OBVIOUS
    <2>3. CASE StringStops(t, s)
      BY <2>1, <2>3, StringLoopFacts
    <2>4. CASE ~StringStops(t, s)
      <3> DEFINE p == SplitStep(t, q)
      <3>1. s.j \in (i + 1)..Len(t)
        BY <2>1 DEF StringStates
      <3>2. s.j < Len(t) /\ ~Closes(t, s.j)
        BY <2>4, <3>1 DEF StringStops
      <3>3. F[s].j = IF Doubled(t, s.j) THEN s.j + 2 ELSE s.j + 1
        BY <2>1, <2>4 DEF StringLoop, StringStops
      <3>4. q \in SplitStates(t) /\ q.state = "string" /\ q.index = s.j
        BY <2>2 DEF Goes, Becomes
      <3>5. Reach(Splitter(t), q, p) /\ p \in SplitStates(t)
        BY <3>2, <3>4, OneStep
      <3>6. Becomes(q, p, "string", F[s].j) /\ p.content = q.content
        BY <3>2, <3>3, <3>4, InnerStep
      <3> HIDE DEF p
      <3>7. Goes(t, q, "string", F[s].j, p)
        BY <3>5, <3>6 DEF Goes
      <3>8. Goes(t, r, "string", F[s].j, p)
        BY <2>2, <3>7, GoesOn
      <3> QED
        BY <2>1, <3>8
    <2> QED
      BY <2>3, <2>4
  <1> HIDE DEF T
  <1>5. StringRun(t, i) \in T
    BY <1>2, <1>3, <1>4 DEF Reach
  <1> QED
    BY <1>5 DEF T

(* A string literal, as far as the lexer reads it. *)
LEMMA StringSplit ==
    ASSUME NEW t \in Seq(Bytes), NEW i \in 0..Len(t), i < Len(t), ByteAt(t, i) = "'",
           NEW r \in SplitStates(t), r.state = "normal", r.index = i
    PROVE  /\ \E q : Fills(t, r, "string", StringRun(t, i).j, q)
           /\ StringRun(t, i).j < Len(t) /\ Closes(t, StringRun(t, i).j) =>
                \E q : Fills(t, r, "normal", StringRun(t, i).j + 1, q)
  <1> DEFINE p == SplitStep(t, r)
             j == StringRun(t, i).j
  <1>1. Reach(Splitter(t), r, p) /\ p \in SplitStates(t)
    BY OneStep
  <1>2. Becomes(r, p, "string", i + 1) /\ p.content
    BY NormalStep
  <1> HIDE DEF p
  <1>3. Fills(t, r, "string", i + 1, p) /\ p.state = "string" /\ p.index = i + 1
    BY <1>1, <1>2 DEF Fills, Becomes
  <1>4. PICK q : Goes(t, p, "string", j, q)
    BY <1>1, <1>3, StringWalk
  <1> HIDE DEF j
  <1>5. Fills(t, r, "string", j, q)
    BY <1>3, <1>4, FillsOn
  <1>6. ASSUME j < Len(t), Closes(t, j) PROVE \E z : Fills(t, r, "normal", j + 1, z)
    <2> DEFINE z == SplitStep(t, q)
    <2>1. q \in SplitStates(t) /\ q.state = "string" /\ q.index = j
      BY <1>4 DEF Goes, Becomes
    <2>2. Reach(Splitter(t), q, z) /\ z \in SplitStates(t)
      BY <1>6, <2>1, OneStep
    <2>3. Becomes(q, z, "normal", j + 1) /\ z.content = q.content
      BY <1>6, <2>1, InnerStep
    <2> HIDE DEF z
    <2>4. Goes(t, q, "normal", j + 1, z)
      BY <2>2, <2>3 DEF Goes
    <2> QED
      BY <1>5, <2>4, FillsOn
  <1> QED
    BY <1>5, <1>6 DEF j

(* A line comment. *)
LEMMA LineSplit ==
    ASSUME NEW t \in Seq(Bytes), NEW i \in 0..Len(t), i < Len(t),
           ByteAt(t, i) = "-", ByteAt(t, i + 1) = "-",
           NEW r \in SplitStates(t), r.state = "normal", r.index = i
    PROVE  \E j \in 0..Len(t) : /\ skip_line_comment(t, i) = Skips(j)
                                /\ j = Len(t) \/ ByteAt(t, j) = "lf"
                                /\ \E q : Goes(t, r, "line", j, q)
  <1> DEFINE p == SplitStep(t, r)
  <1>1. Reach(Splitter(t), r, p) /\ p \in SplitStates(t)
    BY OneStep
  <1>2. Becomes(r, p, "line", i + 2) /\ p.content = r.content
    BY NormalStep
  <1> HIDE DEF p
  <1>3. Goes(t, r, "line", i + 2, p) /\ p.state = "line" /\ p.index = i + 2
    BY <1>1, <1>2 DEF Goes, Becomes
  <1>4. PICK j \in i..Len(t) : /\ skip_line_comment(t, i) = Skips(j)
                               /\ j = Len(t) \/ ByteAt(t, j) = "lf"
                               /\ \A m \in i..(j - 1) : ByteAt(t, m) # "lf"
    BY LineEnds
  <1>5. i + 2 \in 0..Len(t)
    BY <1>1, <1>3, SplitStateFields
  <1>6. j \in (i + 2)..Len(t)
    <2>1. ByteAt(t, j) = "lf" => j # i /\ j # i + 1
      OBVIOUS
    <2>2. j = Len(t) \/ ByteAt(t, j) = "lf"
      BY <1>4
    <2>3. j \in i..Len(t) /\ Len(t) \in Nat
      OBVIOUS
    <2> QED
      BY <1>5, <2>1, <2>2, <2>3
  <1>7. ASSUME NEW m \in (i + 2)..(j - 1) PROVE Stays(t, p, m)
    <2>1. m \in i..(j - 1)
      OBVIOUS
    <2> QED
      BY <1>3, <1>4, <2>1 DEF Stays
  <1>8. PICK q : Goes(t, p, "line", j, q)
    BY <1>1, <1>3, <1>6, <1>7, Walk
  <1>9. Goes(t, r, "line", j, q) /\ j \in 0..Len(t)
    BY <1>3, <1>8, GoesOn
  <1> QED
    BY <1>4, <1>9

(* A block comment. *)
LEMMA BlockSplit ==
    ASSUME NEW t \in Seq(Bytes), NEW i \in 0..Len(t), i < Len(t),
           ByteAt(t, i) = "/", ByteAt(t, i + 1) = "*",
           NEW r \in SplitStates(t), r.state = "normal", r.index = i
    PROVE  \/ /\ skip_block_comment(t, i) = Stops("comment", i, Len(t))
              /\ \E q : Goes(t, r, "block", Len(t), q)
           \/ \E j \in 0..Len(t) : /\ skip_block_comment(t, i) = Skips(j)
                                   /\ \E q : Goes(t, r, "normal", j, q)
  <1> DEFINE p == SplitStep(t, r)
  <1>1. Reach(Splitter(t), r, p) /\ p \in SplitStates(t)
    BY OneStep
  <1>2. Becomes(r, p, "block", i + 2) /\ p.content = r.content
    BY NormalStep
  <1> HIDE DEF p
  <1>3. Goes(t, r, "block", i + 2, p) /\ p.state = "block" /\ p.index = i + 2
    BY <1>1, <1>2 DEF Goes, Becomes
  <1>5. i + 2 \in 0..Len(t)
    BY <1>1, <1>3, SplitStateFields
  <1>6. ASSUME NEW j \in (i + 2)..Len(t), \A m \in (i + 2)..(j - 1) : ~Ending(t, m)
        PROVE  \E q : Goes(t, r, "block", j, q)
    <2>1. \A m \in (i + 2)..(j - 1) : Stays(t, p, m)
      BY <1>3, <1>6 DEF Stays
    <2>2. PICK q : Goes(t, p, "block", j, q)
      BY <1>1, <1>3, <2>1, Walk
    <2> QED
      BY <1>3, <2>2, GoesOn
  <1>7. ASSUME skip_block_comment(t, i) = Stops("comment", i, Len(t)),
               \A j \in (i + 2)..(Len(t) - 2) : ~Ending(t, j)
        PROVE  \E q : Goes(t, r, "block", Len(t), q)
    <2>1. ASSUME NEW m \in (i + 2)..(Len(t) - 1) PROVE ~Ending(t, m)
      <3>1. CASE m = Len(t) - 1
        <4>1. ~(m + 1 < Len(t))
          BY <3>1
        <4> QED
          BY <4>1 DEF Ending, ByteAt
      <3>2. CASE m # Len(t) - 1
        <4>1. m \in (i + 2)..(Len(t) - 2)
          BY <3>2
        <4> QED
          BY <1>7, <4>1
      <3> QED
        BY <3>1, <3>2
    <2>2. Len(t) \in (i + 2)..Len(t)
      BY <1>5
    <2> QED
      BY <1>6, <2>1, <2>2
  <1>8. ASSUME NEW j \in (i + 2)..(Len(t) - 2), skip_block_comment(t, i) = Skips(j + 2),
               Ending(t, j), \A m \in (i + 2)..(j - 1) : ~Ending(t, m)
        PROVE  \E q : Goes(t, r, "normal", j + 2, q)
    <2>1. j \in (i + 2)..Len(t) /\ j < Len(t)
      OBVIOUS
    <2>2. PICK q : Goes(t, r, "block", j, q)
      BY <1>6, <1>8, <2>1
    <2> DEFINE z == SplitStep(t, q)
    <2>3. q \in SplitStates(t) /\ q.state = "block" /\ q.index = j
      BY <2>2 DEF Goes, Becomes
    <2>4. Reach(Splitter(t), q, z) /\ z \in SplitStates(t)
      BY <2>1, <2>3, OneStep
    <2>5. Becomes(q, z, "normal", j + 2) /\ z.content = q.content
      BY <1>8, <2>3, InnerStep
    <2> HIDE DEF z
    <2>6. Goes(t, q, "normal", j + 2, z)
      BY <2>4, <2>5 DEF Goes
    <2> QED
      BY <2>2, <2>6, GoesOn
  <1>9. \A j \in (i + 2)..(Len(t) - 2) : j + 2 \in 0..Len(t)
    OBVIOUS
  <1> QED
    BY <1>7, <1>8, <1>9, BlockEnds

(* Bytes that mean nothing to the splitter. *)
LEMMA PlainSplit ==
    ASSUME NEW t \in Seq(Bytes), NEW i \in 0..Len(t), i < Len(t), NEW j \in (i + 1)..Len(t),
           \A m \in i..(j - 1) : Plain(t, m), ~is_whitespace(ByteAt(t, i)),
           NEW r \in SplitStates(t), r.state = "normal", r.index = i
    PROVE  \E q : Fills(t, r, "normal", j, q)
  <1> DEFINE p == SplitStep(t, r)
  <1>1. Reach(Splitter(t), r, p) /\ p \in SplitStates(t)
    BY OneStep
  <1>0. i \in i..(j - 1)
    OBVIOUS
  <1>2. Becomes(r, p, "normal", i + 1) /\ p.content
    BY <1>0, NormalStep
  <1> HIDE DEF p
  <1>3. Fills(t, r, "normal", i + 1, p) /\ p.state = "normal" /\ p.index = i + 1
    BY <1>1, <1>2 DEF Fills, Becomes
  <1>4. ASSUME NEW m \in (i + 1)..(j - 1) PROVE Stays(t, p, m)
    <2>1. m \in i..(j - 1)
      OBVIOUS
    <2> QED
      BY <1>2, <1>3, <2>1 DEF Stays
  <1>5. PICK q : Goes(t, p, "normal", j, q)
    BY <1>1, <1>3, <1>4, Walk
  <1> QED
    BY <1>3, <1>5, FillsOn

-----------------------------------------------------------------------------
(* Lexer and splitter, token by token *)

PlainBytes == {"x", "e", "1", "_", "."}

LEMMA PlainByte ==
    ASSUME NEW t, NEW i, ByteAt(t, i) \in PlainBytes
    PROVE  Plain(t, i)
  BY DEF Plain, PlainBytes

(* A token of plain bytes. *)
PlainToken(t, i, s) ==
    \E j \in (i + 1)..Len(t) : /\ \E kind : kind # ";" /\ s = Yields(kind, i, j)
                               /\ \A m \in i..(j - 1) : Plain(t, m)

LEMMA WordPlain ==
    ASSUME NEW t \in Seq(Bytes), NEW i \in 0..Len(t), i < Len(t), ByteAt(t, i) \in Letters,
           scan_word(t, i).error = <<>>
    PROVE  PlainToken(t, i, scan_word(t, i))
  <1> DEFINE bytes == Letters \cup Digits \cup {"_"}
             j == RunEnd(t, i, bytes)
  <1>0. "nul" \notin bytes /\ bytes \subseteq PlainBytes /\ ByteAt(t, i) \in bytes
    BY DEF Letters, Digits, PlainBytes
  <1>1. scan_word(t, i) = Yields("word", i, j)
    BY DEF scan_word, Stops
  <1> HIDE DEF bytes
  <1>2. /\ j \in i..Len(t) /\ \A m \in i..(j - 1) : ByteAt(t, m) \in bytes
        /\ ByteAt(t, j) \notin bytes
    BY <1>0, RunEndFacts
  <1> HIDE DEF j
  <1>3. \A m \in i..(j - 1) : Plain(t, m)
    BY <1>0, <1>2, PlainByte
  <1>4. j # i
    BY <1>0, <1>2
  <1>5. j \in (i + 1)..Len(t)
    <2>1. j \in i..Len(t)
      BY <1>2
    <2> QED
      BY <1>4, <2>1
  <1> QED
    BY <1>1, <1>3, <1>5 DEF PlainToken

LEMMA NumberPlain ==
    ASSUME NEW t \in Seq(Bytes), NEW i \in 0..Len(t), i < Len(t), ByteAt(t, i) \in Digits,
           scan_number(t, i).error = <<>>
    PROVE  PlainToken(t, i, scan_number(t, i))
  <1> DEFINE whole == RunEnd(t, i, Digits)
             far == RunEnd(t, whole + 1, Digits)
             fraction == ByteAt(t, whole) = "." /\ ByteAt(t, whole + 1) \in Digits
             end == IF fraction THEN far ELSE whole
  <1>0. "nul" \notin Digits /\ Digits \subseteq PlainBytes /\ "." \in PlainBytes
    BY DEF Digits, PlainBytes
  <1>1. scan_number(t, i) = Yields("number", i, end)
    BY DEF scan_number, Stops, Digits
  <1>2. /\ whole \in i..Len(t) /\ \A m \in i..(whole - 1) : ByteAt(t, m) \in Digits
        /\ ByteAt(t, whole) \notin Digits
    BY <1>0, RunEndFacts
  <1> HIDE DEF whole
  <1>3. whole # i
    BY <1>2
  <1>4. whole \in (i + 1)..Len(t) /\ whole \in 0..Len(t) /\ Len(t) \in Nat
    <2>1. whole \in i..Len(t)
      BY <1>2
    <2> QED
      BY <1>3, <2>1
  <1>5. end \in (i + 1)..Len(t) /\ \A m \in i..(end - 1) : ByteAt(t, m) \in PlainBytes
    <2>1. CASE ~fraction
      BY <1>0, <1>2, <1>4, <2>1
    <2>2. CASE fraction
      <3>1. whole + 1 \in 0..Len(t)
        <4>1. whole < Len(t)
          BY <1>4, <2>2, EndsFacts
        <4> QED
          BY <1>4, <4>1
      <3>2. far \in (whole + 1)..Len(t) /\ \A m \in (whole + 1)..(far - 1) : ByteAt(t, m) \in Digits
        BY <1>0, <3>1, RunEndFacts
      <3> HIDE DEF far
      <3>3. ASSUME NEW m \in i..(far - 1) PROVE ByteAt(t, m) \in PlainBytes
        <4>1. m \in i..(whole - 1) \/ m = whole \/ m \in (whole + 1)..(far - 1)
          BY <1>4
        <4> QED
          BY <1>0, <1>2, <2>2, <3>2, <4>1
      <3>4. far \in (i + 1)..Len(t)
        <4>1. far \in (whole + 1)..Len(t)
          BY <3>2
        <4> QED
          BY <1>4, <4>1
      <3>5. end = far
        BY <2>2
      <3> QED
        BY <3>3, <3>4, <3>5
    <2> QED
      BY <2>1, <2>2
  <1> HIDE DEF end
  <1>6. \A m \in i..(end - 1) : Plain(t, m)
    BY <1>5, PlainByte
  <1> QED
    BY <1>1, <1>5, <1>6 DEF PlainToken

LEMMA SymbolPlain ==
    ASSUME NEW t \in Seq(Bytes), NEW i \in 0..Len(t), i < Len(t), Plain(t, i),
           scan_symbol(t, i).error = <<>>
    PROVE  PlainToken(t, i, scan_symbol(t, i))
  <1>0. i \in Nat /\ Len(t) \in Nat /\ i + 1 \in (i + 1)..Len(t) /\ (i + 1) - 1 = i
    OBVIOUS
  <1>1. ASSUME NEW kind, kind # ";", scan_symbol(t, i) = Yields(kind, i, i + 1)
        PROVE  PlainToken(t, i, scan_symbol(t, i))
    <2>1. \A m \in i..((i + 1) - 1) : Plain(t, m)
      BY <1>0
    <2> QED
      BY <1>0, <1>1, <2>1 DEF PlainToken
  <1>2. ASSUME NEW kind, kind # ";", scan_symbol(t, i) = Yields(kind, i, i + 2),
               ByteAt(t, i + 1) = "="
        PROVE  PlainToken(t, i, scan_symbol(t, i))
    <2>1. Plain(t, i + 1)
      BY <1>2 DEF Plain
    <2>2. i + 1 < Len(t)
      BY <1>2 DEF ByteAt
    <2>3. i + 2 \in (i + 1)..Len(t) /\ \A m \in i..((i + 2) - 1) : m = i \/ m = i + 1
      BY <1>0, <2>2
    <2>4. \A m \in i..((i + 2) - 1) : Plain(t, m)
      BY <2>1, <2>3
    <2> QED
      BY <1>2, <2>3, <2>4 DEF PlainToken
  <1>3. \/ \E kind : kind # ";" /\ scan_symbol(t, i) = Yields(kind, i, i + 1)
        \/ \E kind : /\ kind # ";" /\ scan_symbol(t, i) = Yields(kind, i, i + 2)
                     /\ ByteAt(t, i + 1) = "="
    <2>1. CASE ByteAt(t, i) \in {"=", "(", ")", ",", "*", "."}
      <3>1. scan_symbol(t, i) = Yields(ByteAt(t, i), i, i + 1) /\ ByteAt(t, i) # ";"
        BY <2>1 DEF scan_symbol
      <3> QED
        BY <3>1
    <2>2. CASE ByteAt(t, i) = "<"
      <3>1. IF ByteAt(t, i + 1) = "=" THEN scan_symbol(t, i) = Yields("<", i, i + 2)
                                      ELSE scan_symbol(t, i) = Yields("<", i, i + 1)
        BY <2>2 DEF scan_symbol
      <3> QED
        BY <3>1
    <2>3. CASE ByteAt(t, i) = "!" /\ ByteAt(t, i + 1) = "="
      <3>1. scan_symbol(t, i) = Yields("!=", i, i + 2)
        BY <2>3 DEF scan_symbol
      <3> QED
        BY <2>3, <3>1
    <2>4. CASE /\ ByteAt(t, i) \notin {"=", "(", ")", ",", "*", ".", "<"}
               /\ ~(ByteAt(t, i) = "!" /\ ByteAt(t, i + 1) = "=")
      <3>1. scan_symbol(t, i) = Stops("character", i, i + 1)
        BY <2>4 DEF scan_symbol, Plain
      <3>2. Stops("character", i, i + 1).error # <<>>
        BY DEF Stops
      <3> QED
        BY <3>1, <3>2
    <2> QED
      BY <2>1, <2>2, <2>3, <2>4
  <1> QED
    BY <1>1, <1>2, <1>3

(* The token of a plain byte, if there is one. *)
LEMMA StepPlain ==
    ASSUME NEW t \in Seq(Bytes), NEW i \in 0..Len(t), i < Len(t), Plain(t, i),
           ~is_whitespace(ByteAt(t, i)), ScanStep(t, i).error = <<>>
    PROVE  PlainToken(t, i, ScanStep(t, i))
  <1>1. CASE ByteAt(t, i) \in Letters
    <2>1. ScanStep(t, i) = scan_word(t, i)
      BY <1>1 DEF ScanStep, is_whitespace, Letters, Digits
    <2> QED
      BY <1>1, <2>1, WordPlain
  <1>2. CASE ByteAt(t, i) \in Digits
    <2>1. ScanStep(t, i) = scan_number(t, i)
      BY <1>2 DEF ScanStep, is_whitespace, Letters, Digits
    <2> QED
      BY <1>2, <2>1, NumberPlain
  <1>3. CASE ByteAt(t, i) \notin Letters /\ ByteAt(t, i) \notin Digits
    <2>1. ScanStep(t, i) = scan_symbol(t, i)
      BY <1>3 DEF ScanStep, Plain
    <2> QED
      BY <2>1, SymbolPlain
  <1> QED
    BY <1>1, <1>2, <1>3

(* The splitter is where the lexer is, between two tokens.  Behind a line  *)
(* comment the splitter still has the end of the line to read.             *)
Sync(t, r, i) ==
    /\ r \in SplitStates(t) /\ r.index = i
    /\ r.state = "normal" \/ (r.state = "line" /\ (i = Len(t) \/ ByteAt(t, i) = "lf"))

(* From r to q, the splitter reads what the lexer made s of. *)
Follows(t, r, q, s) ==
    /\ Reach(Splitter(t), r, q) /\ Sync(t, q, s.i)
    /\ q.start = r.start /\ q.out = r.out
    /\ q.content <=> (r.content \/ s.tokens # <<>>)

(* What a scan step inside a statement yields. *)
AtMostOne(tokens) == tokens = <<>> \/ \E k : k.kind # ";" /\ tokens = <<k>>

LEMMA SkipFollows ==
    ASSUME NEW t, NEW r, NEW q, NEW j, NEW state, Goes(t, r, state, j, q),
           state = "normal" \/ (state = "line" /\ (j = Len(t) \/ ByteAt(t, j) = "lf"))
    PROVE  Follows(t, r, q, Skips(j)) /\ AtMostOne(Skips(j).tokens)
  <1>1. Skips(j).tokens = <<>> /\ Skips(j).i = j
    BY DEF Skips
  <1>2. /\ Reach(Splitter(t), r, q) /\ q \in SplitStates(t) /\ q.state = state /\ q.index = j
        /\ q.start = r.start /\ q.out = r.out /\ q.content = r.content
    BY DEF Goes, Becomes
  <1>3. Sync(t, q, j)
    BY <1>2 DEF Sync
  <1> QED
    BY <1>1, <1>2, <1>3 DEF Follows, AtMostOne

LEMMA YieldFollows ==
    ASSUME NEW t, NEW r, NEW q, NEW i, NEW j, NEW kind, kind # ";", Fills(t, r, "normal", j, q)
    PROVE  Follows(t, r, q, Yields(kind, i, j)) /\ AtMostOne(Yields(kind, i, j).tokens)
  <1> DEFINE k == [kind |-> kind, begin |-> i, end |-> j]
  <1>1. Yields(kind, i, j).tokens = <<k>> /\ Yields(kind, i, j).i = j /\ k.kind = kind
    BY DEF Yields
  <1> HIDE DEF k
  <1>2. <<k>> # <<>>
    OBVIOUS
  <1>3. /\ Reach(Splitter(t), r, q) /\ q \in SplitStates(t) /\ q.state = "normal" /\ q.index = j
        /\ q.start = r.start /\ q.out = r.out /\ q.content
    BY DEF Fills, Becomes
  <1>4. Sync(t, q, j)
    BY <1>3 DEF Sync
  <1>5. Yields(kind, i, j).tokens # <<>>
    BY <1>1, <1>2
  <1>6. Follows(t, r, q, Yields(kind, i, j))
    BY <1>1, <1>3, <1>4, <1>5 DEF Follows
  <1>7. AtMostOne(Yields(kind, i, j).tokens)
    BY <1>1 DEF AtMostOne
  <1> QED
    BY <1>6, <1>7

(* A byte is plain, a ";" or opens a literal or a comment. *)
LEMMA StepKinds ==
    ASSUME NEW t, NEW i
    PROVE  /\ is_whitespace(ByteAt(t, i)) => Plain(t, i) /\ ScanStep(t, i) = Skips(i + 1)
           /\ ByteAt(t, i) = "'" => ScanStep(t, i) = scan_string(t, i)
           /\ ByteAt(t, i) = "-" /\ ByteAt(t, i + 1) = "-" =>
                ScanStep(t, i) = skip_line_comment(t, i)
           /\ ByteAt(t, i) = "/" /\ ByteAt(t, i + 1) = "*" =>
                ScanStep(t, i) = skip_block_comment(t, i)
           /\ ByteAt(t, i) = ";" => ScanStep(t, i) = Yields(";", i, i + 1)
  <1>1. is_whitespace(ByteAt(t, i)) => Plain(t, i) /\ ScanStep(t, i) = Skips(i + 1)
    BY DEF ScanStep, Plain, is_whitespace, Letters, Digits
  <1>2. ByteAt(t, i) = "'" => ScanStep(t, i) = scan_string(t, i)
    BY DEF ScanStep, is_whitespace, Letters, Digits
  <1>3. ByteAt(t, i) = "-" /\ ByteAt(t, i + 1) = "-" => ScanStep(t, i) = skip_line_comment(t, i)
    BY DEF ScanStep, is_whitespace, Letters, Digits
  <1>4. ByteAt(t, i) = "/" /\ ByteAt(t, i + 1) = "*" => ScanStep(t, i) = skip_block_comment(t, i)
    BY DEF ScanStep, is_whitespace, Letters, Digits
  <1>5. ByteAt(t, i) = ";" => ScanStep(t, i) = scan_symbol(t, i)
    BY DEF ScanStep, is_whitespace, Letters, Digits
  <1>6. ByteAt(t, i) = ";" => scan_symbol(t, i) = Yields(";", i, i + 1)
    BY DEF scan_symbol
  <1> QED
    BY <1>1, <1>2, <1>3, <1>4, <1>5, <1>6

LEMMA Inside ==
    ASSUME NEW t \in Seq(Bytes), NEW i \in 0..Len(t), i < Len(t)
    PROVE  i # Len(t)
  OBVIOUS

(* Splitter and lexer stay together. *)
LEMMA SyncStep ==
    ASSUME NEW t \in Seq(Bytes), NEW i \in 0..Len(t), i < Len(t), NEW r, Sync(t, r, i),
           ByteAt(t, i) # ";", ScanStep(t, i).error = <<>>
    PROVE  (\E q : Follows(t, r, q, ScanStep(t, i))) /\ AtMostOne(ScanStep(t, i).tokens)
  <1> DEFINE step == ScanStep(t, i)
             p == SplitStep(t, r)
  <1>0. r \in SplitStates(t) /\ r.index = i /\ i # Len(t)
    BY Inside DEF Sync
  <1>1. Reach(Splitter(t), r, p) /\ p \in SplitStates(t)
    BY <1>0, OneStep
  <1>2. CASE r.state # "normal"
    <2>1. r.state = "line" /\ ByteAt(t, i) = "lf"
      BY <1>0, <1>2 DEF Sync
    <2>2. step = Skips(i + 1)
      BY <2>1, StepKinds DEF is_whitespace
    <2>3. Becomes(r, p, "normal", i + 1) /\ p.content = r.content
      BY <1>0, <2>1, InnerStep
    <2>4. Goes(t, r, "normal", i + 1, p)
      BY <1>1, <2>3 DEF Goes
    <2> HIDE DEF p, step
    <2>5. Follows(t, r, p, Skips(i + 1)) /\ AtMostOne(Skips(i + 1).tokens)
      BY <2>4, SkipFollows
    <2> QED
      BY <2>2, <2>5 DEF step
  <1>3. CASE r.state = "normal"
    <2>1. CASE is_whitespace(ByteAt(t, i))
      <3>1. step = Skips(i + 1) /\ Plain(t, i)
        BY <2>1, StepKinds
      <3>2. Becomes(r, p, "normal", i + 1) /\ (p.content <=> r.content)
        BY <1>0, <1>3, <2>1, <3>1, NormalStep
      <3> HIDE DEF p, step
      <3>3. p.content \in BOOLEAN /\ r.content \in BOOLEAN
        BY <1>0, <1>1, SplitStateFields
      <3>4. Goes(t, r, "normal", i + 1, p)
        BY <1>1, <3>2, <3>3 DEF Goes
      <3>5. Follows(t, r, p, Skips(i + 1)) /\ AtMostOne(Skips(i + 1).tokens)
        BY <3>4, SkipFollows
      <3> QED
        BY <3>1, <3>5 DEF step
    <2>2. CASE ByteAt(t, i) = "-" /\ ByteAt(t, i + 1) = "-"
      <3>1. PICK j \in 0..Len(t) : /\ step = Skips(j)
                                   /\ j = Len(t) \/ ByteAt(t, j) = "lf"
                                   /\ \E q : Goes(t, r, "line", j, q)
        BY <1>0, <1>3, <2>2, StepKinds, LineSplit
      <3>2. PICK q : Goes(t, r, "line", j, q)
        BY <3>1
      <3>3. Follows(t, r, q, Skips(j)) /\ AtMostOne(Skips(j).tokens)
        BY <3>1, <3>2, SkipFollows
      <3> QED
        BY <3>1, <3>3
    <2>3. CASE ByteAt(t, i) = "/" /\ ByteAt(t, i + 1) = "*"
      <3>0. step = skip_block_comment(t, i) /\ Stops("comment", i, Len(t)).error # <<>>
        BY <2>3, StepKinds DEF Stops
      <3>1. PICK j \in 0..Len(t) : step = Skips(j) /\ \E q : Goes(t, r, "normal", j, q)
        BY <1>0, <1>3, <2>3, <3>0, BlockSplit
      <3>2. PICK q : Goes(t, r, "normal", j, q)
        BY <3>1
      <3>3. Follows(t, r, q, Skips(j)) /\ AtMostOne(Skips(j).tokens)
        BY <3>2, SkipFollows
      <3> QED
        BY <3>1, <3>3
    <2>4. CASE ByteAt(t, i) = "'"
      <3> DEFINE j == StringRun(t, i).j
      <3>1. step = scan_string(t, i) /\ \A what, n : Stops(what, i, n).error # <<>>
        BY <2>4, StepKinds DEF Stops
      <3>2. j < Len(t) /\ Closes(t, j) /\ step = Yields("string", i, j + 1)
        BY <3>1, StringEnds
      <3>3. PICK q : Fills(t, r, "normal", j + 1, q)
        BY <1>0, <1>3, <2>4, <3>2, StringSplit
      <3> HIDE DEF j
      <3>4. /\ Follows(t, r, q, Yields("string", i, j + 1))
            /\ AtMostOne(Yields("string", i, j + 1).tokens)
        BY <3>3, YieldFollows
      <3> QED
        BY <3>2, <3>4
    <2>5. CASE Plain(t, i) /\ ~is_whitespace(ByteAt(t, i))
      <3>1. PICK j \in (i + 1)..Len(t) : /\ \E kind : kind # ";" /\ step = Yields(kind, i, j)
                                         /\ \A m \in i..(j - 1) : Plain(t, m)
        BY <2>5, StepPlain DEF PlainToken
      <3>2. PICK kind : kind # ";" /\ step = Yields(kind, i, j)
        BY <3>1
      <3>3. PICK q : Fills(t, r, "normal", j, q)
        BY <1>0, <1>3, <2>5, <3>1, PlainSplit
      <3>4. Follows(t, r, q, Yields(kind, i, j)) /\ AtMostOne(Yields(kind, i, j).tokens)
        BY <3>2, <3>3, YieldFollows
      <3> QED
        BY <3>2, <3>4
    <2> QED
      BY <2>1, <2>2, <2>3, <2>4, <2>5 DEF Plain
  <1> QED
    BY <1>2, <1>3

(* The segment will be emitted. *)
Open(t, q) == q.content \/ (q.state \in {"string", "block"} /\ q.index = Len(t))

(* An end of the segment the splitter may still come to. *)
Ahead(t, q, e) == e \in Cuts(t) /\ (e > q.index \/ e = Len(t))

(* Where the lexer stops at i, the splitter goes on to a place in the same *)
(* segment, every end of which takes the lexer to the same error.          *)
Errs(t, r, i, q) ==
    /\ Reach(Splitter(t), r, q) /\ q \in SplitStates(t) /\ q.start = r.start /\ q.out = r.out
    /\ q.index >= i /\ Open(t, q)
    /\ \A e : Ahead(t, q, e) => Covers(t, i, e)

LEMMA AheadFacts ==
    ASSUME NEW t \in Seq(Bytes), NEW q \in SplitStates(t), NEW e, Ahead(t, q, e)
    PROVE  /\ e \in 0..Len(t) /\ e \in Nat /\ q.index \in 0..Len(t) /\ q.index <= e
           /\ q.index = Len(t) => e = Len(t)
  <1>2. e \in 0..Len(t)
    BY DEF Ahead, Cuts
  <1>1. e \in 0..Len(t) /\ q.index \in 0..Len(t) /\ Len(t) \in Nat
    BY <1>2, SplitStateFields
  <1> QED
    BY <1>1 DEF Ahead

(* Every error of the lexer. *)
LEMMA ErrorStep ==
    ASSUME NEW t \in Seq(Bytes), NEW i \in 0..Len(t), i < Len(t), NEW r, Sync(t, r, i),
           ScanStep(t, i).error # <<>>
    PROVE  \E q : Errs(t, r, i, q)
  <1> DEFINE step == ScanStep(t, i)
  <1>0. r \in SplitStates(t) /\ r.index = i /\ i # Len(t) /\ i \in Nat /\ Len(t) \in Nat
    BY DEF Sync
  <1>1. /\ \A j : Skips(j).error = <<>>
        /\ \A kind, j : Yields(kind, i, j).error = <<>>
    BY DEF Skips, Yields
  <1>2. ~is_whitespace(ByteAt(t, i)) /\ ByteAt(t, i) # ";"
    BY <1>1, StepKinds
  <1>3. r.state = "normal"
    BY <1>0, <1>2 DEF Sync, is_whitespace
  <1>4. CASE ByteAt(t, i) = "-" /\ ByteAt(t, i + 1) = "-"
    <2>1. \E j : step = Skips(j)
      BY <1>4, StepKinds, LineEnds
    <2> QED
      BY <1>1, <2>1
  <1>5. CASE ByteAt(t, i) = "/" /\ ByteAt(t, i + 1) = "*"
    <2>1. step = skip_block_comment(t, i)
      BY <1>5, StepKinds
    <2>2. step = Stops("comment", i, Len(t)) /\ \E q : Goes(t, r, "block", Len(t), q)
      BY <1>0, <1>1, <1>3, <1>5, <2>1, BlockSplit
    <2>3. PICK q : Goes(t, r, "block", Len(t), q)
      BY <2>2
    <2>4. /\ Reach(Splitter(t), r, q) /\ q \in SplitStates(t) /\ q.start = r.start /\ q.out = r.out
          /\ q.state = "block" /\ q.index = Len(t)
      BY <2>3 DEF Goes, Becomes
    <2>5. Open(t, q) /\ q.index >= i
      BY <1>0, <2>4 DEF Open
    <2>6. ASSUME NEW e, Ahead(t, q, e) PROVE Covers(t, i, e)
      <3>1. e = Len(t)
        BY <2>4, <2>6, AheadFacts
      <3>2. skip_block_comment(t, i).i = Len(t)
        BY <2>1, <2>2 DEF Stops
      <3>3. skip_block_comment(t, i).i <= e /\ i < e
        BY <1>0, <3>1, <3>2
      <3> QED
        BY <1>5, <3>3 DEF Covers
    <2> QED
      BY <2>4, <2>5, <2>6 DEF Errs
  <1>6. CASE ByteAt(t, i) = "'"
    <2> DEFINE j == StringRun(t, i).j
    <2>1. j \in (i + 1)..Len(t)
      BY StringEnds
    <2>2. \E q : Fills(t, r, "string", j, q)
      BY <1>0, <1>3, <1>6, StringSplit
    <2> HIDE DEF j
    <2>3. PICK q : Fills(t, r, "string", j, q)
      BY <2>2
    <2>4. /\ Reach(Splitter(t), r, q) /\ q \in SplitStates(t) /\ q.start = r.start /\ q.out = r.out
          /\ q.content /\ q.index = j
      BY <2>3 DEF Fills, Becomes
    <2>5. Open(t, q) /\ q.index >= i
      BY <1>0, <2>1, <2>4 DEF Open
    <2>6. ASSUME NEW e, Ahead(t, q, e) PROVE Covers(t, i, e)
      <3>1. e \in Nat /\ j <= e /\ (j < e \/ e = Len(t))
        BY <2>1, <2>4, <2>6, AheadFacts DEF Ahead
      <3>2. i < e
        BY <1>0, <2>1, <3>1
      <3> QED
        BY <1>6, <3>1, <3>2 DEF Covers, j
    <2> QED
      BY <2>4, <2>5, <2>6 DEF Errs
  <1>7. CASE Plain(t, i)
    <2>1. i + 1 \in (i + 1)..Len(t) /\ \A m \in i..((i + 1) - 1) : m = i
      BY <1>0
    <2>2. \A m \in i..((i + 1) - 1) : Plain(t, m)
      BY <1>7, <2>1
    <2>3. PICK q : Fills(t, r, "normal", i + 1, q)
      BY <1>0, <1>2, <1>3, <2>1, <2>2, PlainSplit
    <2>4. /\ Reach(Splitter(t), r, q) /\ q \in SplitStates(t) /\ q.start = r.start /\ q.out = r.out
          /\ q.content /\ q.index = i + 1
      BY <2>3 DEF Fills, Becomes
    <2>5. Open(t, q) /\ q.index >= i
      BY <1>0, <2>4 DEF Open
    <2>6. ASSUME NEW e, Ahead(t, q, e) PROVE Covers(t, i, e)
      <3>1. e \in Nat /\ i + 1 <= e
        BY <2>4, <2>6, AheadFacts
      <3>2. i < e
        BY <1>0, <3>1
      <3> QED
        BY <1>7, <3>2 DEF Covers, Plain
    <2> QED
      BY <2>4, <2>5, <2>6 DEF Errs
  <1> QED
    BY <1>2, <1>4, <1>5, <1>6, <1>7 DEF Plain

(* The statements of s begin with those of p and go on with x. *)
Emits(s, p, x) ==
    Len(p) < Len(s) /\ s[Len(p) + 1] = x /\ \A n \in 1..Len(p) : s[n] = p[n]

LEMMA EmitsLast ==
    ASSUME NEW S, NEW p \in Seq(S), NEW x \in S
    PROVE  Emits(Append(p, x), p, x)
  BY DEF Emits

LEMMA EmitsMore ==
    ASSUME NEW S, NEW s \in Seq(S), NEW p \in Seq(S), NEW x, NEW y \in S, Emits(s, p, x)
    PROVE  Emits(Append(s, y), p, x)
  <1>1. /\ Len(s) \in Nat /\ Len(p) \in Nat /\ Len(p) < Len(s)
        /\ Len(p) + 1 \in 1..Len(s) /\ \A n \in 1..Len(p) : n \in 1..Len(s)
    BY DEF Emits
  <1>2. Len(Append(s, y)) = Len(s) + 1 /\ \A n \in 1..Len(s) : Append(s, y)[n] = s[n]
    OBVIOUS
  <1>3. Append(s, y)[Len(p) + 1] = x /\ \A n \in 1..Len(p) : Append(s, y)[n] = p[n]
    BY <1>1, <1>2 DEF Emits
  <1> DEFINE z == Append(s, y)
  <1> HIDE DEF z
  <1>4. Len(p) < Len(z) /\ z[Len(p) + 1] = x /\ \A n \in 1..Len(p) : z[n] = p[n]
    BY <1>1, <1>2, <1>3 DEF z
  <1> QED
    BY <1>4 DEF Emits, z

LEMMA CutFacts ==
    ASSUME NEW t \in Seq(Bytes)
    PROVE  /\ Len(t) \in Cuts(t) /\ Cuts(t) \subseteq 0..Len(t)
           /\ \A i \in 0..Len(t) : i < Len(t) /\ ByteAt(t, i) = ";" => i + 1 \in Cuts(t)
           /\ \A b \in Cuts(t), e \in Cuts(t) : b <= e => Between(t, b, e) \in Segments(t)
  <1>1. Len(t) \in 0..Len(t)
    OBVIOUS
  <1>2. \A i \in 0..Len(t) : i < Len(t) => i + 1 \in 0..Len(t) /\ (i + 1) - 1 = i
    OBVIOUS
  <1>3. \A i \in 0..Len(t) : i < Len(t) /\ ByteAt(t, i) = ";" => i + 1 \in Cuts(t)
    BY <1>2 DEF Cuts
  <1>4. Len(t) \in Cuts(t) /\ Cuts(t) \subseteq 0..Len(t)
    BY <1>1 DEF Cuts
  <1>5. \A b \in Cuts(t), e \in Cuts(t) : b <= e => Between(t, b, e) \in Segments(t)
    BY DEF Segments
  <1> QED
    BY <1>3, <1>4, <1>5

(* A step stays in the segment or ends it. *)
LEMMA OpenStep ==
    ASSUME NEW t \in Seq(Bytes), NEW r \in SplitStates(t), r.index < Len(t),
           NEW q, q = SplitStep(t, r)
    PROVE  \/ q.start = r.start /\ q.out = r.out /\ (r.content => q.content)
           \/ /\ r.index + 1 \in Cuts(t) /\ r.start <= r.index + 1
              /\ Between(t, r.start, r.index + 1) \in Segments(t)
              /\ q.out = IF r.content THEN Append(r.out, Between(t, r.start, r.index + 1))
                                      ELSE r.out
  <1>1. r.index \in 0..Len(t) /\ r.start \in Cuts(t) /\ r.start <= r.index
    BY SplitStateFields
  <1>2. CASE r.state # "normal"
    <2>1. \E state, i : Becomes(r, q, state, i)
      BY <1>2, InnerStep, SplitStateFields
    <2> QED
      BY <1>2, <2>1, InnerStep DEF Becomes
  <1>3. CASE r.state = "normal" /\ ByteAt(t, r.index) # ";"
    <2>1. (\E state, i : Becomes(r, q, state, i)) /\ (r.content => q.content)
      BY <1>3, NormalStep DEF Plain
    <2> QED
      BY <2>1 DEF Becomes
  <1>4. CASE r.state = "normal" /\ ByteAt(t, r.index) = ";"
    <2>1. r.index + 1 \in Cuts(t)
      BY <1>1, <1>4, CutFacts
    <2>2. r.start \in 0..Len(t)
      BY <1>1, CutFacts
    <2>3. r.start <= r.index + 1
      BY <1>1, <2>2
    <2>4. Between(t, r.start, r.index + 1) \in Segments(t)
      BY <1>1, <2>1, <2>3, CutFacts
    <2>5. q.out = IF r.content THEN Append(r.out, Between(t, r.start, r.index + 1)) ELSE r.out
      BY <1>4, NormalStep
    <2> QED
      BY <2>1, <2>3, <2>4, <2>5
  <1> QED
    BY <1>2, <1>3, <1>4

(* The segment of q is emitted, at an end ahead of it. *)
Past(t, q, out) ==
    \E e : Ahead(t, q, e) /\ q.start <= e /\ Emits(out, q.out, Between(t, q.start, e))

(* A segment with content is a statement in the end. *)
LEMMA Emitted ==
    ASSUME NEW t \in Seq(Bytes), NEW q, Reach(Splitter(t), SplitStart, q), Open(t, q)
    PROVE  q \in SplitStates(t) /\ Past(t, q, split_statements(t))
  <1> DEFINE F == Splitter(t)
             S == SplitStates(t)
             f == SplitRun(t)
             Holds(r) == r.start = q.start /\ r.out = q.out /\ r.content /\ r.index >= q.index
             T == {r \in S : Holds(r) \/ Past(t, q, r.out)}
  <1>1. /\ F \in [S -> S] /\ SplitStart \in S /\ Final(S, F, SplitStart, f)
        /\ f \in S /\ f.index = Len(t)
    BY SplitRunFacts
  <1>2. q \in S /\ Reach(F, q, f) /\ (F[q] = q => q = f)
    BY <1>1, ReachFinal
  <1>3. /\ q.index \in 0..Len(t) /\ q.start \in Cuts(t) /\ q.out \in Seq(Segments(t))
        /\ q.index \in Nat /\ Len(t) \in Nat /\ q.start \in 0..Len(t) /\ q.start <= q.index
    <2>1. /\ q.index \in 0..Len(t) /\ q.start \in Cuts(t) /\ q.out \in Seq(Segments(t))
          /\ q.start <= q.index
      BY <1>2, SplitStateFields
    <2>2. q.start \in 0..Len(t)
      BY <2>1, CutFacts
    <2>3. q.index \in Nat /\ Len(t) \in Nat
      BY <2>1
    <2> QED
      BY <2>1, <2>2, <2>3
  <1>4. Segment(t, f, Len(t)) = Between(t, f.start, Len(t))
    BY DEF Segment, Between
  <1>5. split_statements(t) = IF f.content \/ f.state \in {"string", "block"}
                              THEN Append(f.out, Between(t, f.start, Len(t))) ELSE f.out
    BY <1>4 DEF split_statements
  <1>6. Between(t, f.start, Len(t)) \in Segments(t) /\ f.out \in Seq(Segments(t))
    <2>1. f.start \in Cuts(t) /\ f.out \in Seq(Segments(t))
      BY <1>1, SplitStateFields
    <2>2. f.start \in 0..Len(t)
      BY <2>1, CutFacts
    <2>3. f.start <= Len(t)
      BY <1>3, <2>2
    <2> QED
      BY <2>1, <2>3, CutFacts
  <1> HIDE DEF F, f
  <1>7. ASSUME f.start = q.start, f.out = q.out, f.content \/ f.state \in {"string", "block"}
        PROVE  Past(t, q, split_statements(t))
    <2>1. split_statements(t) = Append(q.out, Between(t, q.start, Len(t)))
      BY <1>5, <1>7
    <2>4. Len(t) \in Cuts(t)
      BY CutFacts
    <2>2. Ahead(t, q, Len(t)) /\ q.start <= Len(t)
      BY <1>3, <2>4 DEF Ahead
    <2>3. Emits(Append(q.out, Between(t, q.start, Len(t))), q.out, Between(t, q.start, Len(t)))
      BY <1>3, <1>6, <1>7, EmitsLast
    <2> QED
      BY <2>1, <2>2, <2>3 DEF Past
  <1>8. CASE q.content
    <2>1. q \in T
      BY <1>2, <1>3, <1>8
    <2>2. ASSUME NEW y \in T PROVE F[y] \in T
      <3>1. y \in S /\ F[y] \in S /\ F[y] = SplitLoop(t, y)
        BY <1>1 DEF F, Splitter
      <3>2. y.index \in 0..Len(t) /\ y.out \in Seq(Segments(t))
        BY <3>1, SplitStateFields
      <3>3. CASE ~(y.index < Len(t))
        <4>1. F[y] = y
          BY <3>1, <3>2, <3>3 DEF SplitLoop
        <4> QED
          BY <4>1
      <3>4. CASE y.index < Len(t)
        <4> DEFINE z == SplitStep(t, y)
                   seg == Between(t, y.start, y.index + 1)
        <4>1. F[y] = z
          BY <3>1, <3>2, <3>4 DEF SplitLoop
        <4>2. z \in S /\ z.index > y.index
          BY <3>1, <3>4, SplitStepFacts
        <4>3. z.index \in 0..Len(t)
          BY <4>2, SplitStateFields
        <4>4. \/ z.start = y.start /\ z.out = y.out /\ (y.content => z.content)
              \/ /\ y.index + 1 \in Cuts(t) /\ y.start <= y.index + 1 /\ seg \in Segments(t)
                 /\ z.out = IF y.content THEN Append(y.out, seg) ELSE y.out
          BY <3>1, <3>4, OpenStep
        <4> HIDE DEF z
        <4>5. ASSUME Past(t, q, y.out) PROVE Past(t, q, z.out)
          <5> HIDE DEF seg
          <5>1. PICK e : /\ Ahead(t, q, e) /\ q.start <= e
                         /\ Emits(y.out, q.out, Between(t, q.start, e))
            BY <4>5 DEF Past
          <5>2. z.out = y.out \/ (seg \in Segments(t) /\ z.out = Append(y.out, seg))
            BY <4>4
          <5>3. seg \in Segments(t) => Emits(Append(y.out, seg), q.out, Between(t, q.start, e))
            BY <1>3, <3>2, <5>1, EmitsMore
          <5>4. Emits(z.out, q.out, Between(t, q.start, e))
            BY <5>1, <5>2, <5>3
          <5> QED
            BY <5>1, <5>4 DEF Past
        <4>6. ASSUME Holds(y) PROVE Holds(z) \/ Past(t, q, z.out)
          <5>1. CASE z.start = y.start /\ z.out = y.out /\ (y.content => z.content)
            <6>1. z.index >= q.index
              BY <1>3, <3>2, <4>2, <4>3, <4>6
            <6> QED
              BY <4>6, <5>1, <6>1
          <5>2. CASE /\ y.index + 1 \in Cuts(t) /\ y.start <= y.index + 1 /\ seg \in Segments(t)
                     /\ z.out = IF y.content THEN Append(y.out, seg) ELSE y.out
            <6>1. z.out = Append(q.out, seg) /\ seg = Between(t, q.start, y.index + 1)
              BY <4>6, <5>2
            <6>2. y.index + 1 > q.index
              BY <1>3, <3>2, <4>6
            <6>3. Ahead(t, q, y.index + 1)
              BY <5>2, <6>2 DEF Ahead
            <6>4. seg \in Segments(t)
              BY <5>2
            <6> HIDE DEF seg
            <6>5. Emits(Append(q.out, seg), q.out, seg)
              BY <1>3, <6>4, EmitsLast
            <6>6. q.start <= y.index + 1
              BY <4>6, <5>2
            <6> QED
              BY <6>1, <6>3, <6>5, <6>6 DEF Past
          <5> QED
            BY <4>4, <5>1, <5>2
        <4> QED
          BY <4>1, <4>2, <4>5, <4>6
      <3> QED
        BY <3>3, <3>4
    <2> HIDE DEF T
    <2>3. f \in T
      BY <1>2, <2>1, <2>2 DEF Reach
    <2>4. CASE Holds(f)
      BY <1>2, <1>7, <2>4
    <2>5. CASE Past(t, q, f.out)
      <3>1. PICK e : Ahead(t, q, e) /\ q.start <= e /\ Emits(f.out, q.out, Between(t, q.start, e))
        BY <2>5 DEF Past
      <3> DEFINE seg == Between(t, f.start, Len(t))
      <3>2. seg \in Segments(t)
        BY <1>6
      <3>5. split_statements(t) = f.out \/ split_statements(t) = Append(f.out, seg)
        BY <1>5
      <3> HIDE DEF seg
      <3>3. Emits(Append(f.out, seg), q.out, Between(t, q.start, e))
        BY <1>3, <1>6, <3>1, <3>2, EmitsMore
      <3>4. Emits(split_statements(t), q.out, Between(t, q.start, e))
        BY <3>1, <3>3, <3>5
      <3> QED
        BY <1>2, <3>1, <3>4 DEF Past
    <2> QED
      BY <1>2, <2>3, <2>4, <2>5 DEF T
  <1>9. CASE ~q.content
    <2>1. q.state \in {"string", "block"} /\ q.index = Len(t)
      BY <1>9 DEF Open
    <2>2. F[q] = q
      BY <1>2, <1>3, <2>1 DEF F, Splitter, SplitLoop
    <2>3. q = f
      BY <1>2, <2>2
    <2> QED
      BY <1>2, <1>7, <2>1, <2>3
  <1> QED
    BY <1>8, <1>9

-----------------------------------------------------------------------------
(* Groups of tokens *)

(* The groups of tokens: those ended by a ";" and the open one. *)
Lists(S) == {g \in Seq(Seq(S)) : g # <<>>}

Add(s, x) == Append(s, x)

LEMMA AddFacts ==
    ASSUME NEW S, NEW s \in Seq(S), NEW x \in S
    PROVE  /\ Add(s, x) \in Seq(S) /\ Len(Add(s, x)) = Len(s) + 1 /\ Len(s) \in Nat
           /\ Add(s, x)[Len(s) + 1] = x /\ \A n \in 1..Len(s) : Add(s, x)[n] = s[n]
  BY DEF Add

LEMMA AddNotEmpty ==
    ASSUME NEW S, NEW s \in Seq(S), NEW x \in S
    PROVE  Add(s, x) # <<>>
  <1>1. Len(Add(s, x)) = Len(s) + 1 /\ Len(s) \in Nat
    BY AddFacts
  <1>2. Len(<<>>) = 0
    OBVIOUS
  <1>3. Len(Add(s, x)) # 0
    BY <1>1
  <1> QED
    BY <1>2, <1>3

LEMMA AddFront ==
    ASSUME NEW S, NEW s \in Seq(S), NEW x \in S
    PROVE  SubSeq(Add(s, x), 1, Len(Add(s, x)) - 1) = s /\ Add(s, x)[Len(Add(s, x))] = x
  <1> DEFINE g == Add(s, x)
             h == SubSeq(g, 1, Len(g) - 1)
  <1>0. g \in Seq(S) /\ Len(g) = Len(s) + 1 /\ Len(s) \in Nat /\ g[Len(s) + 1] = x
        /\ \A n \in 1..Len(s) : g[n] = s[n]
    BY AddFacts
  <1> HIDE DEF g
  <1>1. g \in Seq(S) /\ Len(g) = Len(s) + 1 /\ Len(s) \in Nat /\ g[Len(g)] = x
        /\ \A n \in 1..Len(s) : g[n] = s[n]
    BY <1>0
  <1>2. Len(g) - 1 = Len(s)
    BY <1>1
  <1>3. h = SubSeq(g, 1, Len(s)) /\ \A n \in 1..Len(s) : n \in 1..Len(g)
    BY <1>1, <1>2
  <1>4. h \in Seq(S) /\ Len(h) = Len(s) /\ \A n \in 1..Len(s) : h[n] = g[n]
    BY <1>1, <1>2, <1>3
  <1> HIDE DEF h
  <1>5. h = s
    BY <1>1, <1>4, SeqEqual
  <1> QED
    BY <1>1, <1>5 DEF g, h

LEMMA AddEmpty ==
    ASSUME NEW S, NEW s \in Seq(S), NEW x \in S
    PROVE  Add(s, x) = <<x>> <=> s = <<>>
  <1>1. Len(Add(s, x)) = Len(s) + 1 /\ Len(s) \in Nat /\ Len(<<x>>) = 1
    BY AddFacts
  <1>2. s = <<>> => Add(s, x) = <<x>>
    BY DEF Add
  <1>3. Len(s) = 0 => s = <<>>
    OBVIOUS
  <1>4. Add(s, x) = <<x>> => Len(s) = 0
    BY <1>1
  <1> QED
    BY <1>2, <1>3, <1>4

Semi(k) == k.kind = ";"

LEMMA GroupedIs ==
    ASSUME NEW S, NEW gs \in Seq(Seq(S)), NEW cur \in Seq(S), NEW k \in S
    PROVE  /\ ~Semi(k) => Grouped(Add(gs, cur), k) = Add(gs, Add(cur, k))
           /\ Semi(k) /\ cur = <<>> => Grouped(Add(gs, cur), k) = Add(gs, cur)
           /\ Semi(k) /\ cur # <<>> =>
                Grouped(Add(gs, cur), k) = Add(Add(gs, Add(cur, k)), <<>>)
  <1> DEFINE g == Add(gs, cur)
             last == Append(cur, k)
             none == <<>>
  <1>1. g[Len(g)] = cur /\ SubSeq(g, 1, Len(g) - 1) = gs
    BY AddFront
  <1>2. last \in Seq(S) /\ (last = <<k>> <=> cur = <<>>) /\ none \in Seq(S) /\ last = Add(cur, k)
    BY AddEmpty DEF Add
  <1>3. Grouped(g, k) = IF Semi(k) /\ last = <<k>> THEN g
                        ELSE gs \o (IF Semi(k) THEN <<last, none>> ELSE <<last>>)
    BY <1>1 DEF Grouped, Semi
  <1> HIDE DEF g, last
  <1>4. gs \o <<last>> = Append(gs, last)
    BY <1>2
  <1>5. gs \o <<last, none>> = Append(Append(gs, last), none)
    <2> HIDE DEF none
    <2>1. <<last, none>> \in Seq(Seq(S)) /\ Append(gs, last) \in Seq(Seq(S))
      BY <1>2
    <2> QED
      BY <1>2, <2>1
  <1>6. gs \o <<last>> = Add(gs, last) /\ gs \o <<last, none>> = Add(Add(gs, last), none)
    BY <1>4, <1>5 DEF Add
  <1> QED
    BY <1>2, <1>3, <1>6 DEF g

LEMMA GroupedSame ==
    ASSUME NEW S, NEW gs \in Seq(Seq(S)), NEW cur \in Seq(S), NEW k \in S, Semi(k), cur = <<>>
    PROVE  Grouped(Add(gs, cur), k) = Add(gs, cur)
  <1> DEFINE g == Add(gs, cur)
  <1>1. g[Len(g)] = cur
    BY AddFront
  <1>2. Append(cur, k) = <<k>>
    OBVIOUS
  <1> HIDE DEF g
  <1>3. Grouped(g, k) = g
    BY <1>1, <1>2 DEF Grouped, Semi
  <1> QED
    BY <1>3 DEF g

LEMMA GroupedIn ==
    ASSUME NEW S, NEW g \in Lists(S), NEW k \in S
    PROVE  Grouped(g, k) \in Lists(S)
  <1>1. PICK gs \in Seq(Seq(S)), cur \in Seq(S) : g = Append(gs, cur)
    BY SequenceEmptyOrAppend DEF Lists
  <1>2. g = Add(gs, cur)
    BY <1>1 DEF Add
  <1>3. ASSUME NEW hs \in Seq(Seq(S)), NEW c \in Seq(S) PROVE Add(hs, c) \in Lists(S)
    BY AddFacts, AddNotEmpty DEF Lists
  <1>4. Add(cur, k) \in Seq(S) /\ <<>> \in Seq(S)
    BY AddFacts
  <1>5. Add(gs, Add(cur, k)) \in Seq(Seq(S))
    BY <1>4, AddFacts
  <1>6. \/ Grouped(g, k) = Add(gs, Add(cur, k))
        \/ Grouped(g, k) = Add(gs, cur)
        \/ Grouped(g, k) = Add(Add(gs, Add(cur, k)), <<>>)
    BY <1>2, GroupedIs
  <1>7. /\ Add(gs, Add(cur, k)) \in Lists(S) /\ Add(gs, cur) \in Lists(S)
        /\ Add(Add(gs, Add(cur, k)), <<>>) \in Lists(S)
    BY <1>3, <1>4, <1>5
  <1> QED
    BY <1>6, <1>7

GroupRound(k, g, n) == IF n = 0 THEN <<<<>>>> ELSE Grouped(g[n - 1], k[n])

(* The loop over the tokens is a function. *)
LEMMA GroupRuns ==
    ASSUME NEW S, NEW k \in Seq(S)
    PROVE  \E f \in [0..Len(k) -> Lists(S)] : \A n \in 0..Len(k) : f[n] = GroupRound(k, f, n)
  <1> DEFINE len == Len(k)
             L == Lists(S)
             Runs(n) == \E f \in [0..n -> L] : \A i \in 0..n : f[i] = GroupRound(k, f, i)
             T == {n \in Nat : n <= len => Runs(n)}
  <1>0. len \in Nat /\ \A n \in 1..len : k[n] \in S
    OBVIOUS
  <1>a. <<<<>>>> \in L
    BY DEF Lists
  <1>b. \A g \in L, x \in S : Grouped(g, x) \in L
    BY GroupedIn
  <1> HIDE DEF L, len
  <1>1. 0 \in T
    <2> DEFINE f == [i \in 0..0 |-> <<<<>>>>]
    <2>1. f \in [0..0 -> L] /\ \A i \in 0..0 : f[i] = GroupRound(k, f, i)
      BY <1>a DEF GroupRound
    <2> HIDE DEF f
    <2> QED
      BY <2>1
  <1>2. ASSUME NEW n \in Nat, n \in T PROVE n + 1 \in T
    <2> SUFFICES ASSUME n + 1 <= len PROVE Runs(n + 1)
      OBVIOUS
    <2>0. n <= len
      BY <1>0
    <2> PICK f \in [0..n -> L] : \A i \in 0..n : f[i] = GroupRound(k, f, i)
      BY <1>2, <2>0
    <2> DEFINE h == [i \in 0..n + 1 |-> GroupRound(k, f, i)]
    <2>1. \A i \in 0..n : h[i] = f[i]
      OBVIOUS
    <2>2. ASSUME NEW i \in 0..n + 1
          PROVE  GroupRound(k, f, i) = GroupRound(k, h, i) /\ GroupRound(k, f, i) \in L
      <3>1. i # 0 => i - 1 \in 0..n /\ i \in 1..len
        BY <1>0
      <3>2. i # 0 => f[i - 1] \in L /\ k[i] \in S
        BY <1>0, <3>1
      <3> QED
        BY <1>a, <1>b, <2>1, <3>1, <3>2 DEF GroupRound
    <2>3. h \in [0..n + 1 -> L] /\ \A i \in 0..n + 1 : h[i] = GroupRound(k, h, i)
      BY <2>2
    <2> HIDE DEF h
    <2> QED
      BY <2>3
  <1> HIDE DEF T
  <1>3. len \in T
    BY <1>0, <1>1, <1>2, SetInduction
  <1>4. len <= len
    BY <1>0
  <1> QED
    BY <1>3, <1>4 DEF T, len, L

(* The groups, one token after the other. *)
Grouping(k, f) == DOMAIN f = 0..Len(k) /\ \A n \in 0..Len(k) : f[n] = GroupRound(k, f, n)

LEMMA GroupRunIs ==
    ASSUME NEW S, NEW k \in Seq(S)
    PROVE  \E f : Grouping(k, f) /\ GroupRun(k) = f[Len(k)]
  <1> DEFINE run == CHOOSE g : g = [n \in 0..Len(k) |-> GroupRound(k, g, n)]
  <1>1. PICK f \in [0..Len(k) -> Lists(S)] : \A n \in 0..Len(k) : f[n] = GroupRound(k, f, n)
    BY GroupRuns
  <1>2. f = [n \in 0..Len(k) |-> GroupRound(k, f, n)]
    BY <1>1
  <1>3. run = [n \in 0..Len(k) |-> GroupRound(k, run, n)]
    BY <1>2
  <1>4. GroupRun(k) = run[Len(k)]
    BY DEF GroupRun, GroupRound
  <1> HIDE DEF run
  <1>5. Grouping(k, run)
    BY <1>3 DEF Grouping
  <1> QED
    BY <1>4, <1>5

(* One more token, *)
LEMMA GroupNext ==
    ASSUME NEW S, NEW k \in Seq(S), NEW x \in S, NEW y \in Seq(S), y = Add(k, x)
    PROVE  GroupRun(y) = Grouped(GroupRun(k), x)
  <1>1. PICK f : Grouping(k, f) /\ GroupRun(k) = f[Len(k)]
    BY GroupRunIs
  <1>2. PICK h : Grouping(y, h) /\ GroupRun(y) = h[Len(y)]
    BY GroupRunIs
  <1> DEFINE len == Len(k)
             T == {n \in Nat : n <= len => h[n] = f[n]}
  <1>3. len \in Nat /\ Len(y) = len + 1 /\ y[len + 1] = x /\ \A n \in 1..len : y[n] = k[n]
    BY AddFacts
  <1> HIDE DEF len
  <1>4. /\ \A n \in 0..len : f[n] = GroupRound(k, f, n)
        /\ \A n \in 0..(len + 1) : h[n] = GroupRound(y, h, n)
    BY <1>1, <1>2, <1>3 DEF Grouping, len
  <1>5. 0 \in T
    BY <1>3, <1>4 DEF GroupRound
  <1>6. ASSUME NEW n \in Nat, n \in T PROVE n + 1 \in T
    <2> SUFFICES ASSUME n + 1 <= len PROVE h[n + 1] = f[n + 1]
      OBVIOUS
    <2>1. /\ n <= len /\ n + 1 \in 0..len /\ n + 1 \in 0..(len + 1) /\ n + 1 \in 1..len
          /\ n + 1 # 0 /\ (n + 1) - 1 = n
      BY <1>3
    <2>2. h[n] = f[n] /\ y[n + 1] = k[n + 1]
      BY <1>3, <1>6, <2>1
    <2>3. f[n + 1] = Grouped(f[n], k[n + 1]) /\ h[n + 1] = Grouped(h[n], y[n + 1])
      BY <1>4, <2>1 DEF GroupRound
    <2> QED
      BY <2>2, <2>3
  <1> HIDE DEF T
  <1>7. len \in T
    BY <1>3, <1>5, <1>6, SetInduction
  <1>8. len <= len /\ len + 1 \in 0..(len + 1) /\ len + 1 # 0 /\ (len + 1) - 1 = len
    BY <1>3
  <1>9. h[len] = f[len]
    BY <1>7, <1>8 DEF T
  <1>10. h[len + 1] = Grouped(h[len], y[len + 1])
    BY <1>4, <1>8 DEF GroupRound
  <1> QED
    BY <1>1, <1>2, <1>3, <1>9, <1>10 DEF len

(* and none. *)
LEMMA GroupNone == GroupRun(<<>>) = <<<<>>>>
  <1>1. <<>> \in Seq({}) /\ Len(<<>>) = 0 /\ 0 \in 0..0
    OBVIOUS
  <1> DEFINE k == <<>>
  <1>2. k \in Seq({}) /\ Len(k) = 0 /\ 0 \in 0..Len(k)
    BY <1>1
  <1> HIDE DEF k
  <1>3. PICK f : Grouping(k, f) /\ GroupRun(k) = f[Len(k)]
    BY <1>2, GroupRunIs
  <1>4. f[0] = <<<<>>>>
    BY <1>2, <1>3 DEF Grouping, GroupRound
  <1> QED
    BY <1>2, <1>3, <1>4 DEF k

-----------------------------------------------------------------------------
(* Lexer and splitter agree *)

ScanAt(tokens, error, i) == [tokens |-> tokens, error |-> error, i |-> i]

(* What the lexer makes of a statement, in the offsets of the script. *)
Lexed(t, x) ==
    ShiftScan(tokenize(SubSeq(t, x.begin.offset + 1, x.end.offset)), x.begin.offset)

LEMMA LexedBetween ==
    ASSUME NEW t, NEW b \in Nat, NEW e \in Nat
    PROVE  Lexed(t, Between(t, b, e)) = ShiftScan(tokenize(SubSeq(t, b + 1, e)), b)
  <1>1. location(t, b).offset = b /\ location(t, e).offset = e
    BY OffsetOf
  <1>2. Between(t, b, e).begin.offset = b /\ Between(t, b, e).end.offset = e
    BY <1>1 DEF Between
  <1> QED
    BY <1>2 DEF Lexed

(* The statements out have the tokens gs and no error. *)
Pairs(t, out, gs) ==
    /\ Len(gs) = Len(out)
    /\ \A n \in 1..Len(out) : Lexed(t, out[n]).tokens = gs[n] /\ Lexed(t, out[n]).error = <<>>

(* Lexer and splitter agree so far: r and s are at the same place, the     *)
(* tokens are the groups gs of the statements before it and cur, those of  *)
(* the segment.                                                            *)
Aligned(t, r, s, gs, cur) ==
    /\ Reach(Splitter(t), SplitStart, s) /\ Sync(t, s, r.i)
    /\ gs \in Seq(Seq(Tokens(t))) /\ cur \in Seq(Tokens(t))
    /\ GroupRun(r.tokens) = Add(gs, cur)
    /\ s.content <=> cur # <<>>
    /\ Pairs(t, s.out, gs)
    /\ \A e \in Cuts(t) : e >= r.i => LexedTo(t, s.start, e, ScanAt(cur, <<>>, r.i))

(* At the start of the script, *)
LEMMA AlignedStart ==
    ASSUME NEW t \in Seq(Bytes)
    PROVE  Aligned(t, Skips(0), SplitStart, <<>>, <<>>)
  <1>1. Skips(0).i = 0 /\ Skips(0).tokens = <<>> /\ Skips(0) = ScanAt(<<>>, <<>>, 0)
    BY DEF Skips, ScanAt
  <1>2. /\ SplitStart.index = 0 /\ SplitStart.state = "normal" /\ SplitStart.start = 0
        /\ ~SplitStart.content /\ SplitStart.out = <<>>
    BY DEF SplitStart
  <1>3. SplitStart \in SplitStates(t)
    BY SplitRunFacts
  <1>4. Reach(Splitter(t), SplitStart, SplitStart) /\ Sync(t, SplitStart, 0)
    BY <1>2, <1>3, ReachSteps DEF Sync
  <1>5. <<>> \in Seq(Seq(Tokens(t))) /\ <<>> \in Seq(Tokens(t))
    OBVIOUS
  <1>6. GroupRun(<<>>) = Add(<<>>, <<>>)
    BY GroupNone DEF Add
  <1>7. Pairs(t, <<>>, <<>>)
    BY DEF Pairs
  <1>8. ASSUME NEW e \in Cuts(t) PROVE LexedTo(t, 0, e, ScanAt(<<>>, <<>>, 0))
    <2>1. e \in 0..Len(t)
      BY CutFacts
    <2>2. e \in Nat
      BY <2>1
    <2>3. LexedTo(t, 0, e, Skips(0))
      BY <2>2, LexedStart
    <2> QED
      BY <1>1, <2>3
  <1> QED
    BY <1>1, <1>2, <1>4, <1>5, <1>6, <1>7, <1>8 DEF Aligned

LEMMA JoinedOne ==
    ASSUME NEW S, NEW p \in Seq(S), NEW k \in S
    PROVE  Joined(p, <<>>) = p /\ Joined(p, <<k>>) = Add(p, k)
  BY DEF Joined, Add

LEMMA ScanLoopIs ==
    ASSUME NEW t \in Seq(Bytes), NEW r \in Scans(t), r.i < Len(t), r.error = <<>>
    PROVE  ScanLoop(t, r) = ScanAt(Joined(r.tokens, ScanStep(t, r.i).tokens),
                                   ScanStep(t, r.i).error, ScanStep(t, r.i).i)
  <1>1. r.i \in 0..Len(t) /\ Len(t) \in Nat
    BY DEF Scans
  <1>2. ~(r.i >= Len(t))
    BY <1>1
  <1> QED
    BY <1>2 DEF ScanLoop, ScanAt, Joined

LEMMA ScanAtFields ==
    ASSUME NEW tokens, NEW error, NEW i
    PROVE  /\ ScanAt(tokens, error, i).tokens = tokens
           /\ ScanAt(tokens, error, i).error = error
           /\ ScanAt(tokens, error, i).i = i
  BY DEF ScanAt

(* The scan step, in the segment. *)
LEMMA CurStep ==
    ASSUME NEW t \in Seq(Bytes), NEW i \in 0..Len(t), i < Len(t),
           NEW b \in Cuts(t), NEW e \in Cuts(t), b <= e, Covers(t, i, e),
           NEW cur \in Seq(Tokens(t)), LexedTo(t, b, e, ScanAt(cur, <<>>, i))
    PROVE  LexedTo(t, b, e, ScanAt(Joined(cur, ScanStep(t, i).tokens),
                                   ScanStep(t, i).error, ScanStep(t, i).i))
  <1> DEFINE c == ScanAt(cur, <<>>, i)
  <1>1. c \in Scans(t)
    BY DEF ScanAt, Scans
  <1>2. c.tokens = cur /\ c.error = <<>> /\ c.i = i
    BY ScanAtFields
  <1>5. LexedTo(t, b, e, c)
    OBVIOUS
  <1> HIDE DEF c
  <1>3. LexedTo(t, b, e, ScanLoop(t, c))
    BY <1>1, <1>2, <1>5, LexedStep
  <1>4. ScanLoop(t, c) = ScanAt(Joined(c.tokens, ScanStep(t, c.i).tokens),
                                ScanStep(t, c.i).error, ScanStep(t, c.i).i)
    BY <1>1, <1>2, ScanLoopIs
  <1> QED
    BY <1>2, <1>3, <1>4

LEMMA StepTokens ==
    ASSUME NEW t \in Seq(Bytes), NEW i \in 0..Len(t), i < Len(t)
    PROVE  ScanStep(t, i).tokens \in Seq(Tokens(t)) /\ ScanStep(t, i).i \in 0..Len(t)
  BY ScanStepGood DEF GoodScan, Scans

(* A token that is not a ";" joins the open group. *)
LEMMA GroupJoin ==
    ASSUME NEW S, NEW tokens \in Seq(S), NEW gs \in Seq(Seq(S)), NEW cur \in Seq(S),
           NEW more \in Seq(S),
           GroupRun(tokens) = Add(gs, cur), AtMostOne(more)
    PROVE  /\ GroupRun(Joined(tokens, more)) = Add(gs, Joined(cur, more))
           /\ Joined(cur, more) \in Seq(S)
           /\ (Joined(cur, more) = <<>> <=> cur = <<>> /\ more = <<>>)
  <1>1. CASE more = <<>>
    <2>1. Joined(tokens, <<>>) = tokens /\ Joined(cur, <<>>) = cur
      BY DEF Joined
    <2> QED
      BY <1>1, <2>1
  <1>2. CASE \E k : k.kind # ";" /\ more = <<k>>
    <2>1. PICK k : k.kind # ";" /\ more = <<k>>
      BY <1>2
    <2>a. more = <<k>>
      BY <2>1
    <2>2. k \in S /\ <<k>> # <<>>
      BY <2>a
    <2>3. ~Semi(k)
      BY <2>1 DEF Semi
    <2>4. Joined(tokens, more) = Add(tokens, k) /\ Joined(cur, more) = Add(cur, k)
      BY <2>1, <2>2, JoinedOne
    <2>5. Add(tokens, k) \in Seq(S) /\ Add(cur, k) \in Seq(S) /\ Add(cur, k) # <<>>
      BY <2>2, AddFacts, AddNotEmpty
    <2>6. GroupRun(Add(tokens, k)) = Grouped(GroupRun(tokens), k)
      BY <2>2, <2>5, GroupNext
    <2>7. Grouped(Add(gs, cur), k) = Add(gs, Add(cur, k))
      BY <2>2, <2>3, GroupedIs
    <2> QED
      BY <2>1, <2>2, <2>4, <2>5, <2>6, <2>7
  <1> QED
    BY <1>1, <1>2 DEF AtMostOne

AtSemi(t, i) == ByteAt(t, i) = ";"

(* A scan step inside a statement. *)
LEMMA AlignedStep ==
    ASSUME NEW t \in Seq(Bytes), NEW r \in Scans(t), r.i < Len(t), r.error = <<>>,
           NEW s, NEW gs, NEW cur, Aligned(t, r, s, gs, cur),
           ScanStep(t, r.i).error = <<>>, ~AtSemi(t, r.i)
    PROVE  \E q : Aligned(t, ScanLoop(t, r), q, gs, Joined(cur, ScanStep(t, r.i).tokens))
  <1> DEFINE i == r.i
             step == ScanStep(t, i)
             next == ScanLoop(t, r)
             more == Joined(cur, step.tokens)
  <1>1. i \in 0..Len(t) /\ r.tokens \in Seq(Tokens(t))
    BY DEF Scans
  <1>2. next.tokens = Joined(r.tokens, step.tokens) /\ next.i = step.i
    <2>1. next = ScanAt(Joined(r.tokens, step.tokens), step.error, step.i)
      BY ScanLoopIs
    <2> HIDE DEF next, step
    <2> QED
      BY <2>1, ScanAtFields
  <1>3. step.tokens \in Seq(Tokens(t)) /\ step.i \in 0..Len(t)
    BY <1>1, StepTokens
  <1>4. Sync(t, s, i)
    BY DEF Aligned
  <1>5. (\E q : Follows(t, s, q, step)) /\ AtMostOne(step.tokens)
    BY <1>1, <1>4, SyncStep DEF AtSemi
  <1>6. PICK q : Follows(t, s, q, step)
    BY <1>5
  <1>7. /\ gs \in Seq(Seq(Tokens(t))) /\ cur \in Seq(Tokens(t)) /\ GroupRun(r.tokens) = Add(gs, cur)
        /\ (s.content <=> cur # <<>>) /\ Pairs(t, s.out, gs) /\ Reach(Splitter(t), SplitStart, s)
    BY DEF Aligned
  <1>8. /\ GroupRun(next.tokens) = Add(gs, more) /\ more \in Seq(Tokens(t))
        /\ (more = <<>> <=> cur = <<>> /\ step.tokens = <<>>)
    <2> HIDE DEF step, next
    <2>1. PICK k \in Seq(Tokens(t)), m \in Seq(Tokens(t)) : k = r.tokens /\ m = step.tokens
      BY <1>1, <1>3
    <2>2. /\ GroupRun(Joined(k, m)) = Add(gs, Joined(cur, m)) /\ Joined(cur, m) \in Seq(Tokens(t))
          /\ (Joined(cur, m) = <<>> <=> cur = <<>> /\ m = <<>>)
      BY <1>5, <1>7, <2>1, GroupJoin
    <2> QED
      BY <1>2, <2>1, <2>2
  <1>9. /\ Reach(Splitter(t), s, q) /\ Sync(t, q, next.i) /\ q.start = s.start /\ q.out = s.out
        /\ q.content <=> (s.content \/ step.tokens # <<>>)
    BY <1>2, <1>6 DEF Follows
  <1>10. Reach(Splitter(t), SplitStart, q) /\ (q.content <=> more # <<>>)
    <2> HIDE DEF step, next, more
    <2> QED
      BY <1>7, <1>8, <1>9, ReachOn
  <1>11. ASSUME NEW e \in Cuts(t), e >= next.i
         PROVE  LexedTo(t, s.start, e, ScanAt(more, <<>>, next.i))
    <2>1. e \in 0..Len(t)
      BY CutFacts
    <2>2. e \in Nat /\ step.i <= e
      BY <1>2, <1>3, <1>11, <2>1
    <2>3. Covers(t, i, e) /\ step.i > i
      BY <1>1, <2>2, ScanCovered
    <2>4. e >= i /\ i < e
      BY <1>1, <1>3, <2>2, <2>3
    <2>5. LexedTo(t, s.start, e, ScanAt(cur, <<>>, i))
      BY <2>4 DEF Aligned
    <2>6. s \in SplitStates(t) /\ s.index = i
      BY <1>4 DEF Sync
    <2>7. s.start \in Cuts(t) /\ s.start <= i
      BY <2>6, SplitStateFields
    <2>8. s.start \in 0..Len(t)
      BY <2>7, CutFacts
    <2>9. s.start <= e
      BY <1>1, <2>1, <2>4, <2>7, <2>8
    <2>10. LexedTo(t, s.start, e, ScanAt(more, step.error, step.i))
      BY <1>1, <1>7, <2>3, <2>5, <2>7, <2>9, CurStep
    <2> QED
      BY <1>2, <2>10
  <1> HIDE DEF next, more
  <1>12. Aligned(t, next, q, gs, more)
    BY <1>7, <1>8, <1>9, <1>10, <1>11 DEF Aligned
  <1> QED
    BY <1>12 DEF next, more

LEMMA PairsAdd ==
    ASSUME NEW t, NEW S, NEW out \in Seq(S), NEW x \in S, NEW R, NEW gs \in Seq(R), NEW g \in R,
           Pairs(t, out, gs), Lexed(t, x).tokens = g, Lexed(t, x).error = <<>>
    PROVE  Pairs(t, Add(out, x), Add(gs, g))
  <1> DEFINE o == Add(out, x)
             h == Add(gs, g)
             len == Len(out)
             Fits(n) == Lexed(t, o[n]).tokens = h[n] /\ Lexed(t, o[n]).error = <<>>
  <1>1. Len(o) = len + 1 /\ len \in Nat /\ o[len + 1] = x /\ \A n \in 1..len : o[n] = out[n]
    BY AddFacts
  <1>2. /\ Len(gs) = len
        /\ \A n \in 1..len : Lexed(t, out[n]).tokens = gs[n] /\ Lexed(t, out[n]).error = <<>>
    BY DEF Pairs
  <1>3. Len(h) = len + 1 /\ h[len + 1] = g /\ \A n \in 1..len : h[n] = gs[n]
    <2>1. Len(h) = Len(gs) + 1 /\ h[Len(gs) + 1] = g /\ \A n \in 1..Len(gs) : h[n] = gs[n]
      BY AddFacts
    <2> HIDE DEF h, len
    <2> QED
      BY <1>2, <2>1
  <1> HIDE DEF o, h, len
  <1>4. \A n \in 1..len : Fits(n)
    BY <1>1, <1>2, <1>3
  <1>5. Fits(len + 1)
    BY <1>1, <1>3
  <1> HIDE DEF Fits
  <1>6. ASSUME NEW n \in 1..Len(o) PROVE Fits(n)
    <2>1. n \in 1..len \/ n = len + 1
      BY <1>1
    <2> QED
      BY <1>4, <1>5, <2>1
  <1>7. Len(h) = Len(o)
    BY <1>1, <1>3
  <1> QED
    BY <1>6, <1>7 DEF Pairs, Fits, o, h

(* A ";" ends the statement. *)
LEMMA AlignedSemi ==
    ASSUME NEW t \in Seq(Bytes), NEW r \in Scans(t), r.i < Len(t), r.error = <<>>,
           NEW s, NEW gs, NEW cur, Aligned(t, r, s, gs, cur), AtSemi(t, r.i)
    PROVE  /\ ScanLoop(t, r).error = <<>>
           /\ \E q, hs, c : Aligned(t, ScanLoop(t, r), q, hs, c)
  <1> DEFINE i == r.i
             step == ScanStep(t, i)
             next == ScanLoop(t, r)
             k == [kind |-> ";", begin |-> i, end |-> i + 1]
             q == SplitStep(t, s)
             more == Joined(cur, step.tokens)
             seg == Between(t, s.start, i + 1)
  <1>1. i \in 0..Len(t) /\ r.tokens \in Seq(Tokens(t)) /\ i < Len(t)
    BY DEF Scans
  <1>2. step = Yields(";", i, i + 1)
    BY StepKinds DEF AtSemi
  <1>3. step.tokens = <<k>> /\ step.error = <<>> /\ step.i = i + 1 /\ Semi(k)
    <2>1. Semi(k)
      BY DEF Semi
    <2>2. step.tokens = <<k>> /\ step.error = <<>> /\ step.i = i + 1
      <3>1. /\ Yields(";", i, i + 1).tokens = <<k>> /\ Yields(";", i, i + 1).error = <<>>
            /\ Yields(";", i, i + 1).i = i + 1
        BY DEF Yields
      <3> HIDE DEF step, k, i
      <3> QED
        BY <1>2, <3>1
    <2> QED
      BY <2>1, <2>2
  <1>4. next.tokens = Joined(r.tokens, step.tokens) /\ next.i = step.i /\ next.error = step.error
    <2>1. next = ScanAt(Joined(r.tokens, step.tokens), step.error, step.i)
      BY ScanLoopIs
    <2> HIDE DEF next, step
    <2> QED
      BY <2>1, ScanAtFields
  <1>5. step.tokens \in Seq(Tokens(t)) /\ step.i \in 0..Len(t)
    BY <1>1, StepTokens
  <1>6. /\ gs \in Seq(Seq(Tokens(t))) /\ cur \in Seq(Tokens(t)) /\ GroupRun(r.tokens) = Add(gs, cur)
        /\ (s.content <=> cur # <<>>) /\ Pairs(t, s.out, gs) /\ Reach(Splitter(t), SplitStart, s)
        /\ Sync(t, s, i)
    BY DEF Aligned
  <1>7. s \in SplitStates(t) /\ s.index = i
    BY <1>6 DEF Sync
  <1>8. s.state = "normal"
    <2>1. i # Len(t)
      BY <1>1
    <2> HIDE DEF i
    <2> QED
      BY <1>6, <2>1 DEF Sync, AtSemi, i
  <1>9. Reach(Splitter(t), s, q) /\ q \in SplitStates(t)
    BY <1>1, <1>7, OneStep
  <1>10. /\ q.state = "normal" /\ q.index = i + 1 /\ q.start = i + 1 /\ ~q.content
         /\ q.out = IF s.content THEN Append(s.out, seg) ELSE s.out
    BY <1>7, <1>8, NormalStep DEF AtSemi
  <1>11. i + 1 \in Cuts(t)
    BY <1>1, CutFacts DEF AtSemi
  <1> HIDE DEF step, next, q, k, i, more, seg
  <1>12. k \in Tokens(t)
    <2>1. <<k>> \in Seq(Tokens(t))
      BY <1>3, <1>5
    <2> QED
      BY <2>1
  <1>13. Joined(r.tokens, step.tokens) = Add(r.tokens, k) /\ more = Add(cur, k)
    <2>1. PICK p \in Seq(Tokens(t)) : p = r.tokens
      BY <1>1
    <2>2. Joined(p, <<k>>) = Add(p, k) /\ Joined(cur, <<k>>) = Add(cur, k)
      BY <1>6, <1>12, JoinedOne
    <2> QED
      BY <1>3, <2>1, <2>2 DEF more
  <1>14. GroupRun(next.tokens) = Grouped(Add(gs, cur), k)
    <2>1. PICK p \in Seq(Tokens(t)) : p = r.tokens
      BY <1>1
    <2>2. PICK y \in Seq(Tokens(t)) : y = Add(p, k)
      BY <1>12, AddFacts
    <2>3. GroupRun(y) = Grouped(GroupRun(p), k)
      BY <1>12, <2>2, GroupNext
    <2> QED
      BY <1>4, <1>6, <1>13, <2>1, <2>2, <2>3
  <1>15. Reach(Splitter(t), SplitStart, q) /\ Sync(t, q, next.i)
    <2>1. Reach(Splitter(t), SplitStart, q)
      BY <1>6, <1>9, ReachOn
    <2> QED
      BY <1>3, <1>4, <1>9, <1>10, <2>1 DEF Sync
  <1>16. ASSUME NEW e \in Cuts(t) PROVE LexedTo(t, q.start, e, ScanAt(<<>>, <<>>, next.i))
    <2>1. e \in 0..Len(t) /\ i + 1 \in 0..Len(t)
      BY <1>11, CutFacts
    <2>2. e \in Nat /\ i + 1 \in Nat
      BY <2>1
    <2>3. LexedTo(t, i + 1, e, Skips(i + 1))
      BY <2>2, LexedStart
    <2>4. Skips(i + 1) = ScanAt(<<>>, <<>>, i + 1)
      BY DEF Skips, ScanAt
    <2> QED
      BY <1>3, <1>4, <1>10, <2>3, <2>4
  <1>17. <<>> \in Seq(Tokens(t))
    OBVIOUS
  <1>17b. Semi(k) /\ cur = <<>> => Grouped(Add(gs, cur), k) = Add(gs, cur)
    <2>1. PICK g \in Seq(Seq(Tokens(t))), c \in Seq(Tokens(t)), x \in Tokens(t) :
            g = gs /\ c = cur /\ x = k
      BY <1>6, <1>12
    <2>2. Semi(x) /\ c = <<>> => Grouped(Add(g, c), x) = Add(g, c)
      BY GroupedSame
    <2> QED
      BY <2>1, <2>2
  <1>18. CASE cur = <<>>
    <2>1. GroupRun(next.tokens) = Add(gs, <<>>)
      <3>1. Grouped(Add(gs, cur), k) = Add(gs, cur)
        BY <1>3, <1>18, <1>17b
      <3> QED
        BY <1>14, <1>18, <3>1
    <2>2. q.out = s.out
      BY <1>6, <1>10, <1>18
    <2>3. Aligned(t, next, q, gs, <<>>)
      BY <1>6, <1>10, <1>15, <1>16, <1>17, <2>1, <2>2 DEF Aligned
    <2> QED
      BY <1>3, <1>4, <2>3 DEF next
  <1>19. CASE cur # <<>>
    <2> DEFINE hs == Add(gs, more)
    <2>1. GroupRun(next.tokens) = Add(hs, <<>>)
      BY <1>3, <1>6, <1>12, <1>13, <1>14, <1>19, GroupedIs
    <2>2. more \in Seq(Tokens(t))
      BY <1>6, <1>12, <1>13, AddFacts
    <2>3. hs \in Seq(Seq(Tokens(t)))
      BY <1>6, <2>2, AddFacts
    <2>4. s.start \in Cuts(t) /\ s.start <= i /\ s.out \in Seq(Segments(t))
      BY <1>7, SplitStateFields
    <2>5. s.start \in 0..Len(t) /\ i + 1 \in 0..Len(t)
      BY <1>11, <2>4, CutFacts
    <2>6. s.start <= i + 1 /\ i + 1 >= i /\ i + 1 \in Nat /\ s.start \in Nat /\ i + 1 <= i + 1
      BY <1>1, <2>4, <2>5
    <2>7. LexedTo(t, s.start, i + 1, ScanAt(cur, <<>>, i))
      BY <1>11, <2>6 DEF Aligned, i
    <2>8. Covers(t, i, i + 1)
      BY <1>1, <1>3, <2>6, ScanCovered DEF step
    <2>9. LexedTo(t, s.start, i + 1, ScanAt(more, <<>>, i + 1))
      <3>1. LexedTo(t, s.start, i + 1, ScanAt(more, step.error, step.i))
        BY <1>1, <1>6, <1>11, <2>4, <2>6, <2>7, <2>8, CurStep DEF step, more
      <3> QED
        BY <1>3, <3>1
    <2>10. Lexed(t, seg) = ScanAt(more, <<>>, i + 1)
      <3>1. ScanAt(more, <<>>, i + 1).i = i + 1
        BY ScanAtFields
      <3>2. ShiftScan(tokenize(SubSeq(t, s.start + 1, i + 1)), s.start) = ScanAt(more, <<>>, i + 1)
        BY <1>11, <2>4, <2>6, <2>9, <3>1, LexedEnd
      <3>3. Lexed(t, seg) = ShiftScan(tokenize(SubSeq(t, s.start + 1, i + 1)), s.start)
        BY <2>6, LexedBetween DEF seg
      <3> QED
        BY <3>2, <3>3
    <2>11. Lexed(t, seg).tokens = more /\ Lexed(t, seg).error = <<>>
      BY <2>10, ScanAtFields
    <2>12. seg \in Segments(t)
      BY <1>11, <2>4, <2>6, CutFacts DEF seg
    <2>13. q.out = Add(s.out, seg)
      BY <1>6, <1>10, <1>19 DEF Add
    <2>14. Pairs(t, Add(s.out, seg), Add(gs, more))
      <3>1. PICK o \in Seq(Segments(t)) : o = s.out
        BY <2>4
      <3>2. Pairs(t, Add(o, seg), Add(gs, more))
        BY <1>6, <2>2, <2>11, <2>12, <3>1, PairsAdd
      <3> QED
        BY <3>1, <3>2
    <2> HIDE DEF hs
    <2>15. Pairs(t, q.out, hs)
      BY <2>13, <2>14 DEF hs
    <2>16. Aligned(t, next, q, hs, <<>>)
      BY <1>10, <1>15, <1>16, <1>17, <2>1, <2>3, <2>15 DEF Aligned
    <2> QED
      BY <1>3, <1>4, <2>16 DEF next
  <1> QED
    BY <1>18, <1>19

(* The lexer stopped: the statements before the one it stopped in have the *)
(* tokens of the groups before, and that one has the error.                *)
Failing(t, r) ==
    \E gs, cur, out, x :
        /\ gs \in Seq(Seq(Tokens(t))) /\ cur \in Seq(Tokens(t)) /\ GroupRun(r.tokens) = Add(gs, cur)
        /\ out \in Seq(Segments(t)) /\ Pairs(t, out, gs)
        /\ Emits(split_statements(t), out, x) /\ Lexed(t, x).error = r.error

(* A step that stops yields no token. *)
LEMMA ErrorNoTokens ==
    ASSUME NEW t \in Seq(Bytes), NEW i \in 0..Len(t), i < Len(t), ScanStep(t, i).error # <<>>
    PROVE  ScanStep(t, i).tokens = <<>>
  <1>1. /\ \A j : Skips(j).tokens = <<>>
        /\ \A what, j : Stops(what, i, j).tokens = <<>>
        /\ \A kind, j : Yields(kind, i, j).error = <<>>
    BY DEF Skips, Stops, Yields
  <1>2. CASE is_whitespace(ByteAt(t, i))
    BY <1>1, <1>2, StepKinds
  <1>3. CASE ByteAt(t, i) = "-" /\ ByteAt(t, i + 1) = "-"
    <2>1. \E j : skip_line_comment(t, i) = Skips(j)
      BY LineEnds
    <2> QED
      BY <1>1, <1>3, <2>1, StepKinds
  <1>4. CASE ByteAt(t, i) = "/" /\ ByteAt(t, i + 1) = "*"
    <2>1. \E j : \/ skip_block_comment(t, i) = Skips(j)
                 \/ skip_block_comment(t, i) = Stops("comment", i, j)
      BY BlockEnds
    <2> QED
      BY <1>1, <1>4, <2>1, StepKinds
  <1>5. CASE ByteAt(t, i) = "'"
    <2>1. \E j : scan_string(t, i) \in {Stops("string", i, j), Stops("utf8", i, j),
                                       Stops("varchar", i, j), Yields("string", i, j)}
      BY StringEnds
    <2> QED
      BY <1>1, <1>5, <2>1, StepKinds
  <1>6. CASE ByteAt(t, i) \in Letters
    <2>1. ScanStep(t, i) = scan_word(t, i)
      BY <1>6 DEF ScanStep, is_whitespace, Letters, Digits
    <2>2. \E j : scan_word(t, i) \in {Stops("identifier", i, j), Yields("word", i, j)}
      BY DEF scan_word
    <2> QED
      BY <1>1, <2>1, <2>2
  <1>7. CASE ByteAt(t, i) \in Digits
    <2>1. ScanStep(t, i) = scan_number(t, i)
      BY <1>7 DEF ScanStep, is_whitespace, Letters, Digits
    <2>2. \E j : scan_number(t, i) \in {Stops("exponent", i, j), Stops("integer", i, j),
                                       Stops("double", i, j), Yields("number", i, j)}
      BY DEF scan_number
    <2> QED
      BY <1>1, <2>1, <2>2
  <1>8. CASE /\ ~is_whitespace(ByteAt(t, i)) /\ ~(ByteAt(t, i) = "-" /\ ByteAt(t, i + 1) = "-")
             /\ ~(ByteAt(t, i) = "/" /\ ByteAt(t, i + 1) = "*") /\ ByteAt(t, i) # "'"
             /\ ByteAt(t, i) \notin Letters /\ ByteAt(t, i) \notin Digits
    <2>1. ScanStep(t, i) = scan_symbol(t, i)
      BY <1>8 DEF ScanStep
    <2>2. \E kind, j : scan_symbol(t, i) \in {Stops("character", i, j), Yields(kind, i, j)}
      BY DEF scan_symbol
    <2> QED
      BY <1>1, <2>1, <2>2
  <1> QED
    BY <1>2, <1>3, <1>4, <1>5, <1>6, <1>7, <1>8

(* A scan step that stops. *)
LEMMA AlignedError ==
    ASSUME NEW t \in Seq(Bytes), NEW r \in Scans(t), r.i < Len(t), r.error = <<>>,
           NEW s, NEW gs, NEW cur, Aligned(t, r, s, gs, cur), ScanStep(t, r.i).error # <<>>
    PROVE  Failing(t, ScanLoop(t, r))
  <1> DEFINE i == r.i
             step == ScanStep(t, i)
             next == ScanLoop(t, r)
             more == Joined(cur, step.tokens)
  <1>1. i \in 0..Len(t) /\ r.tokens \in Seq(Tokens(t)) /\ i < Len(t)
    BY DEF Scans
  <1>2. next.tokens = Joined(r.tokens, step.tokens) /\ next.i = step.i /\ next.error = step.error
    <2>1. next = ScanAt(Joined(r.tokens, step.tokens), step.error, step.i)
      BY ScanLoopIs
    <2> HIDE DEF next, step
    <2> QED
      BY <2>1, ScanAtFields
  <1>3. /\ gs \in Seq(Seq(Tokens(t))) /\ cur \in Seq(Tokens(t)) /\ GroupRun(r.tokens) = Add(gs, cur)
        /\ Pairs(t, s.out, gs) /\ Reach(Splitter(t), SplitStart, s) /\ Sync(t, s, i)
    BY DEF Aligned
  <1>4. PICK q : Errs(t, s, i, q)
    BY <1>1, <1>3, ErrorStep
  <1>5. /\ Reach(Splitter(t), s, q) /\ q \in SplitStates(t) /\ q.start = s.start /\ q.out = s.out
        /\ q.index >= i /\ Open(t, q) /\ \A e : Ahead(t, q, e) => Covers(t, i, e)
    BY <1>4 DEF Errs
  <1>6. Reach(Splitter(t), SplitStart, q)
    BY <1>3, <1>5, ReachOn
  <1>7. PICK e : /\ Ahead(t, q, e) /\ q.start <= e
                 /\ Emits(split_statements(t), q.out, Between(t, q.start, e))
    BY <1>5, <1>6, Emitted DEF Past
  <1>8. Covers(t, i, e) /\ e \in Cuts(t)
    BY <1>5, <1>7 DEF Ahead
  <1>9. e \in 0..Len(t) /\ e \in Nat /\ q.index \in 0..Len(t) /\ q.index <= e
    BY <1>5, <1>7, AheadFacts
  <1>10. q.start \in Cuts(t) /\ q.out \in Seq(Segments(t))
    BY <1>5, SplitStateFields
  <1>11. q.start \in 0..Len(t)
    BY <1>10, CutFacts
  <1>12. q.start \in Nat
    BY <1>11
  <1> DEFINE found == ScanAt(more, step.error, step.i)
             x == Between(t, q.start, e)
  <1>13. LexedTo(t, q.start, e, found)
    <2>1. e >= i
      BY <1>1, <1>5, <1>9
    <2>2. LexedTo(t, s.start, e, ScanAt(cur, <<>>, i))
      BY <1>8, <2>1 DEF Aligned
    <2>3. LexedTo(t, q.start, e, ScanAt(cur, <<>>, i))
      BY <1>5, <2>2
    <2> QED
      BY <1>1, <1>3, <1>7, <1>8, <1>10, <2>3, CurStep
  <1>14. found.error = step.error
    BY ScanAtFields
  <1>15. Lexed(t, x) = ShiftScan(tokenize(SubSeq(t, q.start + 1, e)), q.start)
    BY <1>9, <1>12, LexedBetween
  <1>16. step.error # <<>>
    OBVIOUS
  <1>18. step.tokens = <<>>
    BY ErrorNoTokens, <1>1
  <1> HIDE DEF found, step, x, next, more
  <1>17. Lexed(t, x).error = next.error
    <2>1. ShiftScan(tokenize(SubSeq(t, q.start + 1, e)), q.start) = found
      BY <1>7, <1>8, <1>10, <1>13, <1>14, <1>16, LexedEnd
    <2> QED
      BY <1>2, <1>14, <1>15, <2>1
  <1> QED
    <2>1. GroupRun(next.tokens) = Add(gs, cur)
      BY <1>1, <1>2, <1>3, <1>18 DEF Joined
    <2>2. Emits(split_statements(t), q.out, x) /\ Pairs(t, q.out, gs)
      BY <1>3, <1>5, <1>7 DEF x
    <2>3. Failing(t, next)
      BY <1>3, <1>10, <1>17, <2>1, <2>2 DEF Failing
    <2> QED
      BY <2>3 DEF next

Agrees(t, r) ==
    IF r.error = <<>> THEN \E s, gs, cur : Aligned(t, r, s, gs, cur) ELSE Failing(t, r)

LEMMA AgreesStep ==
    ASSUME NEW t \in Seq(Bytes), NEW r \in Scans(t), Agrees(t, r)
    PROVE  Agrees(t, ScanLoop(t, r))
  <1>1. CASE ScanStops(t, r)
    BY <1>1, ScanLoopFacts
  <1>2. CASE ~ScanStops(t, r)
    <2> DEFINE next == ScanLoop(t, r)
               step == ScanStep(t, r.i)
    <2>0. r.i \in 0..Len(t) /\ Len(t) \in Nat
      BY DEF Scans
    <2>1. r.error = <<>> /\ r.i < Len(t)
      BY <1>2, <2>0 DEF ScanStops
    <2>2. PICK s, gs, cur : Aligned(t, r, s, gs, cur)
      BY <2>1 DEF Agrees
    <2>3. next.error = step.error
      <3>1. next = ScanAt(Joined(r.tokens, step.tokens), step.error, step.i)
        BY <2>1, ScanLoopIs
      <3> HIDE DEF next, step
      <3> QED
        BY <3>1, ScanAtFields
    <2>4. CASE AtSemi(t, r.i)
      BY <2>1, <2>2, <2>4, AlignedSemi DEF Agrees
    <2>5. CASE ~AtSemi(t, r.i) /\ step.error = <<>>
      <3>1. \E q : Aligned(t, next, q, gs, Joined(cur, step.tokens))
        BY <2>1, <2>2, <2>5, AlignedStep
      <3> HIDE DEF next, step
      <3>2. Agrees(t, next)
        BY <2>3, <2>5, <3>1 DEF Agrees
      <3> QED
        BY <3>2 DEF next
    <2>6. CASE step.error # <<>>
      <3>1. Failing(t, next)
        BY <2>1, <2>2, <2>6, AlignedError
      <3> HIDE DEF next, step
      <3>2. Agrees(t, next)
        BY <2>3, <2>6, <3>1 DEF Agrees
      <3> QED
        BY <3>2 DEF next
    <2> QED
      BY <2>4, <2>5, <2>6
  <1> QED
    BY <1>1, <1>2

(* Splitter and lexer agree on the whole text. *)
LEMMA AgreesEnd ==
    ASSUME NEW t \in Seq(Bytes)
    PROVE  Agrees(t, tokenize(t))
  <1> DEFINE F == Lexer(t)
             T == {r \in Scans(t) : Agrees(t, r)}
  <1>1. /\ F \in [Scans(t) -> Scans(t)] /\ Skips(0) \in Scans(t)
        /\ Final(Scans(t), F, Skips(0), tokenize(t))
    BY TokenizeFacts
  <1>2. Reach(F, Skips(0), tokenize(t))
    BY <1>1, ReachFinal
  <1>3. Skips(0) \in T
    <2>1. Skips(0).error = <<>>
      BY DEF Skips
    <2>2. Aligned(t, Skips(0), SplitStart, <<>>, <<>>)
      BY AlignedStart
    <2> QED
      BY <1>1, <2>1, <2>2 DEF Agrees
  <1>4. ASSUME NEW r \in T PROVE F[r] \in T
    <2>1. F[r] = ScanLoop(t, r) /\ F[r] \in Scans(t)
      BY <1>1 DEF Lexer
    <2> QED
      BY <2>1, AgreesStep
  <1> HIDE DEF T
  <1>5. tokenize(t) \in T
    BY <1>2, <1>3, <1>4 DEF Reach
  <1> QED
    BY <1>5 DEF T

LEMMA GroupsAre ==
    ASSUME NEW S, NEW tokens, NEW gs \in Seq(Seq(S)), NEW cur \in Seq(S),
           GroupRun(tokens) = Add(gs, cur)
    PROVE  Groups(tokens) = IF cur = <<>> THEN gs ELSE Add(gs, cur)
  <1> DEFINE g == Add(gs, cur)
  <1>1. SubSeq(g, 1, Len(g) - 1) = gs /\ g[Len(g)] = cur
    BY AddFront
  <1> HIDE DEF g
  <1>2. GroupRun(tokens) = g
    BY DEF g
  <1>3. Groups(tokens) = IF cur = <<>> THEN gs ELSE g
    BY <1>1, <1>2 DEF Groups
  <1> QED
    BY <1>3 DEF g

(* The statements have the tokens of the whole text, cut at its ";"        *)
(* tokens.                                                                 *)
LEMMA WholeLexed ==
    ASSUME NEW t \in Seq(Bytes), tokenize(t).error = <<>>
    PROVE  /\ Groups(tokenize(t).tokens) \in Seq(Seq(Tokens(t)))
           /\ Pairs(t, split_statements(t), Groups(tokenize(t).tokens))
  <1> DEFINE w == tokenize(t)
             F == Splitter(t)
  <1>1. PICK s, gs, cur : Aligned(t, w, s, gs, cur)
    BY AgreesEnd DEF Agrees
  <1>2. w \in Scans(t) /\ ScanStops(t, w)
    BY TokenizeFacts
  <1>3. w.i = Len(t)
    <2>1. w.i \in 0..Len(t) /\ Len(t) \in Nat /\ w.error = <<>>
      BY <1>2 DEF Scans
    <2>2. w.i >= Len(t)
      BY <1>2, <2>1 DEF ScanStops
    <2> HIDE DEF w
    <2> QED
      BY <2>1, <2>2
  <1> HIDE DEF w
  <1>4. /\ gs \in Seq(Seq(Tokens(t))) /\ cur \in Seq(Tokens(t)) /\ GroupRun(w.tokens) = Add(gs, cur)
        /\ (s.content <=> cur # <<>>) /\ Pairs(t, s.out, gs) /\ Reach(F, SplitStart, s)
        /\ Sync(t, s, Len(t))
    BY <1>1, <1>3 DEF Aligned
  <1>5. /\ s \in SplitStates(t) /\ s.index = Len(t) /\ s.state \notin {"string", "block"}
    BY <1>4 DEF Sync
  <1>6. s = SplitRun(t)
    <2>0. Len(t) \in Nat
      OBVIOUS
    <2>1. F[s] = s
      BY <1>5, <2>0 DEF Splitter, SplitLoop
    <2>2. /\ F \in [SplitStates(t) -> SplitStates(t)] /\ SplitStart \in SplitStates(t)
          /\ Final(SplitStates(t), F, SplitStart, SplitRun(t))
      BY SplitRunFacts
    <2> QED
      BY <1>4, <2>1, <2>2, ReachFinal
  <1> DEFINE x == Between(t, s.start, Len(t))
  <1>7. split_statements(t) = IF s.content THEN Add(s.out, x) ELSE s.out
    BY <1>5, <1>6 DEF split_statements, Segment, Between, Add
  <1>8. Groups(w.tokens) = IF cur = <<>> THEN gs ELSE Add(gs, cur)
    BY <1>4, GroupsAre
  <1>9. CASE cur = <<>>
    <2>1. split_statements(t) = s.out /\ Groups(w.tokens) = gs
      BY <1>4, <1>7, <1>8, <1>9
    <2> QED
      BY <1>4, <2>1 DEF w
  <1>10. CASE cur # <<>>
    <2>1. split_statements(t) = Add(s.out, x) /\ Groups(w.tokens) = Add(gs, cur)
      BY <1>4, <1>7, <1>8, <1>10
    <2>2. s.start \in Cuts(t) /\ s.out \in Seq(Segments(t)) /\ Len(t) \in Cuts(t)
      BY <1>5, SplitStateFields, CutFacts
    <2>3. s.start \in 0..Len(t)
      BY <2>2, CutFacts
    <2>4. s.start \in Nat /\ Len(t) \in Nat /\ s.start <= Len(t) /\ Len(t) >= Len(t)
      BY <2>3
    <2>5. LexedTo(t, s.start, Len(t), ScanAt(cur, <<>>, Len(t)))
      BY <1>1, <1>3, <2>2, <2>4 DEF Aligned
    <2>6. Lexed(t, x) = ScanAt(cur, <<>>, Len(t))
      <3>1. ScanAt(cur, <<>>, Len(t)).i = Len(t)
        BY ScanAtFields
      <3>2. ShiftScan(tokenize(SubSeq(t, s.start + 1, Len(t))), s.start) = ScanAt(cur, <<>>, Len(t))
        BY <2>2, <2>4, <2>5, <3>1, LexedEnd
      <3>3. Lexed(t, x) = ShiftScan(tokenize(SubSeq(t, s.start + 1, Len(t))), s.start)
        BY <2>4, LexedBetween
      <3> QED
        BY <3>2, <3>3
    <2>7. x \in Segments(t)
      BY <2>2, <2>4, CutFacts
    <2> HIDE DEF x
    <2>8. Lexed(t, x).tokens = cur /\ Lexed(t, x).error = <<>>
      BY <2>6, ScanAtFields
    <2>9. Pairs(t, Add(s.out, x), Add(gs, cur))
      <3>1. PICK o \in Seq(Segments(t)) : o = s.out
        BY <2>2
      <3>2. Pairs(t, Add(o, x), Add(gs, cur))
        BY <1>4, <2>7, <2>8, <3>1, PairsAdd
      <3> QED
        BY <3>1, <3>2
    <2>10. Add(gs, cur) \in Seq(Seq(Tokens(t)))
      BY <1>4, AddFacts
    <2> QED
      BY <2>1, <2>9, <2>10 DEF w
  <1> QED
    BY <1>9, <1>10

(* The statements before the one with the error of the whole text have     *)
(* the tokens of its groups.                                               *)
LEMMA ErrorLexed ==
    ASSUME NEW t \in Seq(Bytes), tokenize(t).error # <<>>
    PROVE  \E n \in 1..Len(split_statements(t)) :
             /\ Lexed(t, split_statements(t)[n]).error = tokenize(t).error
             /\ \A i \in 1..(n - 1) :
                  /\ Lexed(t, split_statements(t)[i]).error = <<>>
                  /\ Lexed(t, split_statements(t)[i]).tokens = Groups(tokenize(t).tokens)[i]
  <1> DEFINE w == tokenize(t)
             split == split_statements(t)
  <1>1. Failing(t, w)
    BY AgreesEnd DEF Agrees
  <1> HIDE DEF w, split
  <1>2. PICK gs, cur, out, x :
          /\ gs \in Seq(Seq(Tokens(t))) /\ cur \in Seq(Tokens(t)) /\ GroupRun(w.tokens) = Add(gs, cur)
          /\ out \in Seq(Segments(t)) /\ Pairs(t, out, gs)
          /\ Emits(split, out, x) /\ Lexed(t, x).error = w.error
    BY <1>1 DEF Failing, split
  <1> DEFINE len == Len(out)
             groups == Groups(w.tokens)
  <1>3. Len(split) \in Nat
    <2>1. split \in Seq(Segments(t))
      BY SplitFacts DEF split
    <2> QED
      BY <2>1
  <1>4. len \in Nat /\ len < Len(split) /\ split[len + 1] = x /\ \A n \in 1..len : split[n] = out[n]
    BY <1>2 DEF Emits
  <1>5. /\ Len(gs) = len
        /\ \A n \in 1..len : Lexed(t, out[n]).tokens = gs[n] /\ Lexed(t, out[n]).error = <<>>
    BY <1>2 DEF Pairs
  <1>6. \A n \in 1..len : groups[n] = gs[n]
    <2>1. groups = IF cur = <<>> THEN gs ELSE Add(gs, cur)
      BY <1>2, GroupsAre
    <2>2. \A n \in 1..Len(gs) : Add(gs, cur)[n] = gs[n]
      BY <1>2, AddFacts
    <2> HIDE DEF groups, len
    <2> QED
      BY <1>5, <2>1, <2>2
  <1> HIDE DEF len, groups
  <1>7. len + 1 \in 1..Len(split) /\ (len + 1) - 1 = len
    BY <1>3, <1>4
  <1>8. Lexed(t, split[len + 1]).error = w.error
    BY <1>2, <1>4
  <1>9. \A i \in 1..((len + 1) - 1) : /\ Lexed(t, split[i]).error = <<>>
                                      /\ Lexed(t, split[i]).tokens = groups[i]
    BY <1>4, <1>5, <1>6, <1>7
  <1> QED
    BY <1>7, <1>8, <1>9 DEF w, split, groups

-----------------------------------------------------------------------------
(* The invariant *)

TextInv ==
    /\ text \in Seq(Bytes)
    /\ statements \in Seq(Segments(text))
    /\ \E S : compiled \in Seq(S)
    /\ RangesLocated

LEMMA InitText == TextInit => TextInv
  <1> SUFFICES ASSUME TextInit PROVE TextInv
    OBVIOUS
  <1>1. text \in Seq(Bytes)
    BY TextAssumption DEF TextInit
  <1>2. statements \in Seq(Segments(text)) /\ compiled \in Seq({})
    BY DEF TextInit
  <1> QED
    BY <1>1, <1>2 DEF TextInit, TextInv, RangesLocated

LEMMA SplitKeeps == TextInv /\ Split => TextInv'
  <1> SUFFICES ASSUME TextInv, Split PROVE TextInv'
    OBVIOUS
  <1> DEFINE split == split_statements(text)
  <1>1. text' = text /\ compiled' = compiled /\ text \in Seq(Bytes)
    BY DEF TextInv, Split
  <1>2. split \in Seq(Segments(text))
    BY <1>1, SplitFacts
  <1>3. statements' \in Seq(Segments(text))
    BY <1>2 DEF TextInv, Split
  <1>4. ASSUME ~HasLoneCr(text), NEW i \in DOMAIN split
        PROVE  is_valid_source_range(text, split[i])
    <2> HIDE DEF split
    <2>1. split[i] \in Segments(text)
      BY <1>2
    <2>2. PICK j \in Cuts(text), c \in Cuts(text) : c <= j /\ split[i] = Between(text, c, j)
      BY <2>1 DEF Segments
    <2>3. /\ c \in 0..Len(text) /\ j \in 0..Len(text)
          /\ is_valid_endpoint(text, c) /\ is_valid_endpoint(text, j)
      BY <1>1, CutsValid
    <2> QED
      BY <1>1, <1>4, <2>2, <2>3, RangeValid
  <1>5. stage' = "internal" => HasLoneCr(text)
    BY <1>4 DEF Split
  <1>6. RangesLocated'
    BY <1>1, <1>5 DEF RangesLocated
  <1>7. (\E S : compiled \in Seq(S))'
    BY <1>1 DEF TextInv
  <1> QED
    BY <1>1, <1>3, <1>6, <1>7 DEF TextInv

LEMMA CompileKeeps == TextInv /\ Compile => TextInv'
  <1> SUFFICES ASSUME TextInv, Compile PROVE TextInv'
    OBVIOUS
  <1> DEFINE statement == statements[Len(compiled) + 1]
             sql == Sql(statement)
             lexed == tokenize(sql)
  <1>1. text' = text /\ statements' = statements /\ text \in Seq(Bytes)
        /\ statements \in Seq(Segments(text)) /\ stage = "compiling" /\ Len(compiled) < Len(statements)
    BY DEF TextInv, Compile
  <1>2. PICK S : compiled \in Seq(S)
    BY DEF TextInv
  <1>3. PICK place \in ErrorPlaces(sql, lexed) :
          LET at == IF place = <<>> THEN <<>> ELSE absolutize_range(statement, place[1], text)
          IN  /\ compiled' = Append(compiled, [tokens |-> lexed.tokens, error |-> lexed.error,
                                               at |-> at])
              /\ stage' = IF place # <<>> /\ at = <<>> THEN "internal" ELSE "compiling"
    BY DEF Compile
  <1> DEFINE at == IF place = <<>> THEN <<>> ELSE absolutize_range(statement, place[1], text)
             last == [tokens |-> lexed.tokens, error |-> lexed.error, at |-> at]
  <1>4. /\ compiled' = Append(compiled, last)
        /\ stage' = IF place # <<>> /\ at = <<>> THEN "internal" ELSE "compiling"
    BY <1>3
  <1>5. last.error = lexed.error
    OBVIOUS
  <1>6. statement \in Segments(text)
    <2>1. Len(compiled) + 1 \in 1..Len(statements)
      BY <1>1, <1>2
    <2> QED
      BY <1>1, <2>1
  <1> HIDE DEF last, statement, lexed
  <1>7. compiled \in Seq(S \cup {last}) /\ last \in S \cup {last}
    BY <1>2
  <1>8. compiled' \in Seq(S \cup {last}) /\ compiled'[Len(compiled) + 1] = last
        /\ Len(compiled) + 1 \in DOMAIN compiled'
    BY <1>4, <1>7
  <1>9. ASSUME stage' = "internal", ~HasLoneCr(text) PROVE CutAtLimit'
    <2>1. place # <<>> /\ at = <<>>
      BY <1>4, <1>9
    <2>2. absolutize_range(statement, place[1], text) = <<>>
      BY <2>1
    <2>3. PICK e \in Cuts(text), b \in Cuts(text) : b <= e /\ statement = Between(text, b, e)
      BY <1>6 DEF Segments
    <2>4. /\ b \in 0..Len(text) /\ e \in 0..Len(text)
          /\ is_valid_endpoint(text, b) /\ is_valid_endpoint(text, e)
      BY <1>1, CutsValid
    <2>5. statement.begin.offset = b /\ statement.end.offset = e
      BY <1>1, <1>9, <2>3, <2>4, RangeValid
    <2>6. sql = SubSeq(text, b + 1, e)
      BY <2>5 DEF Sql
    <2>7. /\ lexed.error # <<>> /\ lexed.error[1].what = "varchar"
          /\ ~is_valid_endpoint(text, b + lexed.error[1].end)
      BY <1>1, <1>3, <1>9, <2>1, <2>2, <2>3, <2>6, PlacesFound DEF lexed
    <2>8. statements'[Len(compiled) + 1].begin.offset = b
      BY <1>1, <2>5 DEF statement
    <2> QED
      BY <1>1, <1>5, <1>8, <2>7, <2>8 DEF CutAtLimit
  <1>10. RangesLocated'
    BY <1>1, <1>9 DEF RangesLocated
  <1>11. (\E R : compiled \in Seq(R))'
    BY <1>8
  <1> QED
    BY <1>1, <1>10, <1>11 DEF TextInv

LEMMA TextKept == TextInv /\ [TextNext]_textVars => TextInv'
  <1> SUFFICES ASSUME TextInv, [TextNext]_textVars PROVE TextInv'
    OBVIOUS
  <1>1. CASE Split
    BY <1>1, SplitKeeps
  <1>2. CASE Compile
    BY <1>2, CompileKeeps
  <1>3. CASE Done
    BY <1>3 DEF Done, TextInv, RangesLocated, CutAtLimit
  <1>4. CASE UNCHANGED textVars
    BY <1>4 DEF textVars, TextInv, RangesLocated, CutAtLimit
  <1> QED
    BY <1>1, <1>2, <1>3, <1>4 DEF TextNext

(* RangesLocated, for scripts of any length and any limits: every range    *)
(* split_statements and compile report passes is_valid_source_range and    *)
(* absolutize_range, but for a "cr" without its "lf" and a string literal  *)
(* cut off at its limit between a "cr" and its "lf".                       *)
THEOREM RangesAreLocated == TextSpec => []RangesLocated
  <1>1. TextInv => RangesLocated
    BY DEF TextInv
  <1> QED
    BY InitText, TextKept, <1>1, PTL DEF TextSpec

(* The loops of split_statements, tokenize and scan_string come to their   *)
(* end within as many rounds as the text has bytes: no byte is left over   *)
(* and no loop runs on.                                                    *)
THEOREM LoopsFinish ==
    \A t \in Seq(Bytes) :
        /\ SplitRun(t).index = Len(t)
        /\ tokenize(t).error # <<>> \/ tokenize(t).i = Len(t)
        /\ \A i \in 0..(Len(t) - 1) : StringLoop(t, StringRun(t, i)) = StringRun(t, i)
  <1> SUFFICES ASSUME NEW t \in Seq(Bytes)
               PROVE  /\ SplitRun(t).index = Len(t)
                      /\ tokenize(t).error # <<>> \/ tokenize(t).i = Len(t)
                      /\ \A i \in 0..(Len(t) - 1) : StringLoop(t, StringRun(t, i)) = StringRun(t, i)
    OBVIOUS
  <1>1. SplitRun(t).index = Len(t)
    BY SplitRunFacts
  <1>2. tokenize(t).error # <<>> \/ tokenize(t).i = Len(t)
    <2>1. tokenize(t) \in Scans(t) /\ ScanStops(t, tokenize(t))
      BY TokenizeFacts
    <2>2. tokenize(t).i \in 0..Len(t)
      BY <2>1 DEF Scans
    <2> QED
      BY <2>1, <2>2 DEF ScanStops
  <1>3. ASSUME NEW i \in 0..(Len(t) - 1) PROVE StringLoop(t, StringRun(t, i)) = StringRun(t, i)
    <2>1. i \in 0..Len(t) /\ i < Len(t)
      OBVIOUS
    <2> QED
      BY <2>1, StringRunFacts, StringLoopFacts
  <1> QED
    BY <1>1, <1>2, <1>3

-----------------------------------------------------------------------------
(* The statements follow the lexer *)

(* What has been compiled, statement after statement. *)
CompiledAs(i) ==
    /\ compiled[i].tokens = tokenize(Sql(statements[i])).tokens
    /\ compiled[i].error = tokenize(Sql(statements[i])).error

CompiledInv ==
    /\ \A i \in DOMAIN compiled : CompiledAs(i)
    /\ stage = "new" => compiled = <<>>
    /\ stage \in {"compiling", "done"} => statements = split_statements(text)
    /\ stage = "done" => Len(compiled) = Len(statements)

LEMMA InitCompiled == TextInit => CompiledInv
  BY DEF TextInit, CompiledInv

LEMMA CompiledKept == TextInv /\ CompiledInv /\ [TextNext]_textVars => CompiledInv'
  <1> SUFFICES ASSUME TextInv, CompiledInv, [TextNext]_textVars PROVE CompiledInv'
    OBVIOUS
  <1>1. CASE Split
    <2>1. compiled = <<>> /\ compiled' = compiled /\ text' = text /\ stage' \notin {"new", "done"}
      BY <1>1 DEF Split, CompiledInv
    <2>2. stage' = "compiling" => statements' = split_statements(text)
      BY <1>1 DEF Split
    <2>3. DOMAIN compiled' = {}
      BY <2>1
    <2> QED
      BY <2>1, <2>2, <2>3 DEF CompiledInv
  <1>2. CASE Compile
    <2> DEFINE n == Len(compiled) + 1
               lexed == tokenize(Sql(statements[n]))
    <2>1. text' = text /\ statements' = statements /\ stage = "compiling"
      BY <1>2 DEF Compile
    <2>2. PICK at : /\ compiled' = Append(compiled, [tokens |-> lexed.tokens, error |-> lexed.error,
                                                     at |-> at])
                    /\ stage' \in {"internal", "compiling"}
      BY <1>2 DEF Compile
    <2> DEFINE last == [tokens |-> lexed.tokens, error |-> lexed.error, at |-> at]
    <2>3. PICK S : compiled \in Seq(S)
      BY DEF TextInv
    <2>4. last.tokens = lexed.tokens /\ last.error = lexed.error
      OBVIOUS
    <2>5. compiled' = Append(compiled, last)
      BY <2>2
    <2> HIDE DEF last, lexed
    <2>6. compiled \in Seq(S \cup {last}) /\ last \in S \cup {last}
      BY <2>3
    <2>7. /\ DOMAIN compiled' = 1..n /\ compiled'[n] = last /\ DOMAIN compiled = 1..(n - 1)
          /\ \A i \in 1..(n - 1) : compiled'[i] = compiled[i]
      BY <2>5, <2>6
    <2>8. Len(compiled) \in Nat
      BY <2>6
    <2> HIDE DEF n
    <2>9. ASSUME NEW i \in DOMAIN compiled' PROVE CompiledAs(i)'
      <3>0. n \in Nat /\ i \in 1..n
        BY <2>7, <2>8 DEF n
      <3>1. i = n \/ i \in 1..(n - 1)
        BY <3>0
      <3>2. CASE i = n
        <4>1. compiled'[i].tokens = tokenize(Sql(statements[i])).tokens
              /\ compiled'[i].error = tokenize(Sql(statements[i])).error
          BY <2>4, <2>7, <3>2 DEF lexed
        <4> QED
          BY <2>1, <4>1 DEF CompiledAs, Sql
      <3>3. CASE i \in 1..(n - 1)
        <4>1. CompiledAs(i) /\ compiled'[i] = compiled[i]
          BY <2>7, <3>3 DEF CompiledInv
        <4> QED
          BY <2>1, <4>1 DEF CompiledAs, Sql
      <3> QED
        BY <3>1, <3>2, <3>3
    <2>10. statements = split_statements(text)
      BY <2>1 DEF CompiledInv
    <2> QED
      BY <2>1, <2>2, <2>9, <2>10 DEF CompiledInv
  <1>3. CASE Done
    BY <1>3 DEF Done, CompiledInv, CompiledAs, Sql
  <1>4. CASE UNCHANGED textVars
    BY <1>4 DEF textVars, CompiledInv, CompiledAs, Sql
  <1> QED
    BY <1>1, <1>2, <1>3, <1>4 DEF TextNext

(* The statements compiled follow the lexer. *)
LEMMA CompiledFollows == TextInv /\ CompiledInv => SplitFollowsLexer
  <1> SUFFICES ASSUME TextInv, CompiledInv, stage = "done"
               PROVE  LET whole == tokenize(text)
                          groups == Groups(whole.tokens)
                          TokensOf(i) == Shifted(compiled[i].tokens, statements[i].begin.offset)
                          ErrorOf(i) == Shifted(compiled[i].error, statements[i].begin.offset)
                          Failed == {i \in DOMAIN compiled : compiled[i].error # <<>>}
                      IN  IF whole.error = <<>>
                          THEN Failed = {} /\ groups = [i \in DOMAIN compiled |-> TokensOf(i)]
                          ELSE \E n \in Failed :
                                 /\ ErrorOf(n) = whole.error
                                 /\ \A i \in 1..(n - 1) : i \notin Failed /\ TokensOf(i) = groups[i]
    BY DEF SplitFollowsLexer
  <1> DEFINE whole == tokenize(text)
             groups == Groups(whole.tokens)
             TokensOf(i) == Shifted(compiled[i].tokens, statements[i].begin.offset)
             ErrorOf(i) == Shifted(compiled[i].error, statements[i].begin.offset)
             Failed == {i \in DOMAIN compiled : compiled[i].error # <<>>}
             split == split_statements(text)
             len == Len(split)
  <1>1. /\ text \in Seq(Bytes) /\ statements \in Seq(Segments(text)) /\ statements = split
        /\ Len(compiled) = len /\ \A i \in DOMAIN compiled : CompiledAs(i)
    BY DEF TextInv, CompiledInv
  <1>2. /\ len \in Nat /\ DOMAIN compiled = 1..len
        /\ \A i \in 1..len : statements[i] \in Segments(text)
    <2>1. PICK S : compiled \in Seq(S)
      BY DEF TextInv
    <2> HIDE DEF split
    <2> QED
      BY <1>1, <2>1
  <1>3. ASSUME NEW i \in 1..len
        PROVE  /\ Lexed(text, split[i]).tokens = TokensOf(i)
               /\ Lexed(text, split[i]).error = ErrorOf(i)
               /\ Lexed(text, split[i]).error = <<>> <=> compiled[i].error = <<>>
    <2> DEFINE x == statements[i]
               sql == Sql(x)
               lexed == tokenize(sql)
               b == x.begin.offset
    <2>1. PICK e \in Cuts(text), c \in Cuts(text) : c <= e /\ x = Between(text, c, e)
      BY <1>2 DEF Segments
    <2>2. c \in 0..Len(text) /\ e \in 0..Len(text)
      BY <1>1, CutFacts
    <2>3. c \in Nat /\ e \in Nat
      BY <2>2
    <2>4. x.begin.offset = c /\ x.end.offset = e
      BY <2>1, <2>3, OffsetOf DEF Between
    <2>5. Slice(text, c, e, SubSeq(text, c + 1, e))
      BY <1>1, <2>1, SliceOf
    <2>6. sql \in Seq(Bytes)
      BY <2>4, <2>5 DEF Sql, Slice
    <2>7. lexed \in Scans(sql)
      BY <2>6, TokenizeFacts
    <2>8. compiled[i].tokens = lexed.tokens /\ compiled[i].error = lexed.error
      BY <1>1, <1>2 DEF CompiledAs
    <2>9. Lexed(text, x) = ShiftScan(lexed, b)
      BY DEF Lexed, Sql
    <2>10. split[i] = x
      BY <1>1
    <2> HIDE DEF x, sql, lexed, b, split
    <2>11. /\ Lexed(text, x).tokens = Shifted(lexed.tokens, b)
           /\ Lexed(text, x).error = Shifted(lexed.error, b)
      BY <2>9, ShiftScanFields
    <2>12. Shifted(lexed.error, b) = <<>> <=> lexed.error = <<>>
      BY <2>7, ShiftedError
    <2> QED
      BY <2>8, <2>10, <2>11, <2>12 DEF b, x
  <1> HIDE DEF TokensOf, ErrorOf, split, len
  <1>4. CASE whole.error = <<>>
    <2>1. groups \in Seq(Seq(Tokens(text))) /\ Pairs(text, split, groups)
      BY <1>1, <1>4, WholeLexed DEF split
    <2>2. Len(groups) = len /\ \A i \in 1..len : Lexed(text, split[i]).tokens = groups[i]
                                                 /\ Lexed(text, split[i]).error = <<>>
      BY <2>1 DEF Pairs, len
    <2>3. Failed = {}
      BY <1>2, <1>3, <2>2
    <2>4. \A i \in 1..len : groups[i] = TokensOf(i)
      BY <1>3, <2>2
    <2> HIDE DEF groups
    <2>5. groups = [i \in 1..len |-> TokensOf(i)]
      BY <2>1, <2>2, <2>4
    <2>6. Failed = {} /\ groups = [i \in DOMAIN compiled |-> TokensOf(i)]
      BY <1>2, <2>3, <2>5
    <2> QED
      BY <1>4, <2>6 DEF groups, TokensOf
  <1>5. CASE whole.error # <<>>
    <2>1. PICK n \in 1..len : /\ Lexed(text, split[n]).error = whole.error
                              /\ \A i \in 1..(n - 1) : /\ Lexed(text, split[i]).error = <<>>
                                                       /\ Lexed(text, split[i]).tokens = groups[i]
      BY <1>1, <1>5, ErrorLexed DEF split, len
    <2> HIDE DEF whole, groups
    <2>2. n \in Failed /\ ErrorOf(n) = whole.error
      BY <1>2, <1>3, <1>5, <2>1
    <2>3. \A i \in 1..(n - 1) : i \in 1..len
      BY <1>2
    <2>4. \A i \in 1..(n - 1) : i \notin Failed /\ TokensOf(i) = groups[i]
      BY <1>2, <1>3, <2>1, <2>3
    <2> QED
      BY <1>5, <2>2, <2>4 DEF whole, groups, TokensOf, ErrorOf
  <1> QED
    BY <1>4, <1>5

(* SplitFollowsLexer, for scripts of any length and any limits: the        *)
(* statements of split_statements, each lexed on its own, have the tokens  *)
(* of the whole script cut at its ";" tokens, up to the first lexical      *)
(* error, which both meet at the same place.                               *)
THEOREM StatementsFollowLexer == TextSpec => []SplitFollowsLexer
  <1>1. TextInit => TextInv /\ CompiledInv
    BY InitText, InitCompiled
  <1>2. TextInv /\ CompiledInv /\ [TextNext]_textVars => (TextInv /\ CompiledInv)'
    BY TextKept, CompiledKept
  <1> QED
    BY <1>1, <1>2, CompiledFollows, PTL DEF TextSpec
=============================================================================
