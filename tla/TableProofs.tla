------------------------------ MODULE TableProofs ------------------------------
(***************************************************************************)
(* Proofs about array.c and table.c, for arrays of every length and rows   *)
(* of every key and value.  First the two loops, turn by turn, as           *)
(* BinarySearch has them; then the same searches as functions, as the       *)
(* tables use them; then the listings, arrays that hold each element of a   *)
(* set once and in order, which every operation on an array keeps; last     *)
(* the tables: both indexes list the live rows, so queries are exact and a  *)
(* table is a set of rows.                                                  *)
(***************************************************************************)
EXTENDS MCTable, Sequences, FiniteSetTheorems, TLAPS

\* Every set of natural numbers that is not empty has a least element.
LEMMA NatMin ==
    ASSUME NEW N, N \subseteq Nat, N # {}
    PROVE  \E x \in N : \A y \in N : x <= y
  <1> DEFINE R == {ss \in Nat \X Nat : ss[1] < ss[2]}
  <1>1. IsWellFoundedOn(R, Nat)
    <2> SUFFICES ASSUME NEW f \in [Nat -> Nat], \A n \in Nat : <<f[n + 1], f[n]>> \in R
                 PROVE  FALSE
      BY DEF IsWellFoundedOn
    <2> DEFINE g == [n \in Nat |-> 0 .. (f[n] - 1)]
               S == StrictSubsetOrdering(Nat)
    <2>1. \A n \in Nat : f[n + 1] < f[n]
      OBVIOUS
    <2>2. ASSUME NEW n \in Nat PROVE g[n] \in FiniteSubsetsOf(Nat)
      <3>1. f[n] \in Nat /\ g[n] = 0 .. (f[n] - 1)
        OBVIOUS
      <3>2. IsFiniteSet(0 .. (f[n] - 1))
        BY <3>1, FS_Interval
      <3> QED
        BY <3>1, <3>2 DEF FiniteSubsetsOf
    <2>3. ASSUME NEW n \in Nat PROVE <<g[n + 1], g[n]>> \in S
      <3>1. f[n] \in Nat /\ f[n + 1] \in Nat /\ n + 1 \in Nat
        OBVIOUS
      <3>2. g[n + 1] \subseteq g[n] /\ g[n + 1] \subseteq Nat /\ g[n] \subseteq Nat
        BY <2>1, <3>1
      <3>3. f[n + 1] \in g[n] /\ f[n + 1] \notin g[n + 1]
        BY <2>1, <3>1
      <3>4. g[n + 1] # g[n]
        BY <3>3
      <3> HIDE DEF g
      <3>5. <<g[n + 1], g[n]>> \in (SUBSET Nat) \X (SUBSET Nat)
        BY <3>2
      <3> QED
        BY <3>2, <3>4, <3>5 DEF StrictSubsetOrdering
    <2>4. g \in [Nat -> FiniteSubsetsOf(Nat)]
      BY <2>2
    <2> QED
      BY <2>3, <2>4, FS_StrictSubsetOrderingWellFounded DEF IsWellFoundedOn
  <1>2. PICK x \in N : \A y \in N : ~ (<<y, x>> \in R)
    BY <1>1, WFMin
  <1>3. \A y \in N : ~ (y < x)
    BY <1>2
  <1> QED
    BY <1>3

-----------------------------------------------------------------------------
(* The loops, turn by turn. *)

\* What the search for a match knows: entries before low come before the key,
\* entries from high on do not, and high is a match exactly when valid says so.
FindInv ==
    goal = "find" =>
        /\ \A i \in 0 .. fill - 1 : i < low => sign[i] > 0
        /\ valid => high < fill /\ sign[high] = 0
        /\ ~valid => \A i \in 0 .. fill - 1 : high <= i => sign[i] < 0

\* What the search for a place knows.
PlaceInv ==
    /\ goal = "insert" => \A i \in 0 .. fill - 1 : /\ i < low => sign[i] > 0
                                                   /\ high <= i => sign[i] < 0
    /\ goal = "done" => low < fill /\ sign[low] = 0

IInv == TypeOK /\ FindInv /\ PlaceInv

\* The middle lies between the cursors.
LEMMA Middle ==
    ASSUME NEW a \in Int, NEW b \in Int, a < b
    PROVE  /\ a + (b - a) \div 2 \in Int
           /\ a <= a + (b - a) \div 2 /\ a + (b - a) \div 2 < b
  OBVIOUS

\* The search starts with every entry between its cursors.
LEMMA InitHolds == Init => IInv
  <1> SUFFICES ASSUME Init PROVE IInv
    OBVIOUS
  <1>1. fill \in Nat
    BY MaxLenAssumption DEF Init
  <1>2. TypeOK
    <2>1. valid \in BOOLEAN
      BY DEF Init
    <2> QED
      BY <1>1, <2>1 DEF Init, TypeOK, Falling
  <1>3. FindInv /\ PlaceInv
    BY <1>1 DEF Init, FindInv, PlaceInv
  <1> QED
    BY <1>2, <1>3 DEF IInv

\* A turn of either loop keeps what is known.
LEMMA StepHolds == IInv /\ [Next]_vars => IInv'
  <1> SUFFICES ASSUME IInv, [Next]_vars PROVE IInv'
    OBVIOUS
  <1> USE DEF Sign
  <1>0. /\ fill \in Nat /\ low \in 0 .. fill /\ high \in 0 .. fill /\ low <= high
        /\ sign \in [0 .. fill - 1 -> Sign] /\ Falling(sign)
    BY DEF IInv, TypeOK, Falling
  <1>1. ASSUME Turn
        PROVE  /\ mid \in 0 .. fill - 1 /\ low <= mid /\ mid < high
               /\ fill' = fill /\ sign' = sign
               /\ \A i \in 0 .. fill - 1 : /\ i < mid => sign[i] >= sign[mid]
                                           /\ mid < i => sign[mid] >= sign[i]
    <2>1. low \in Int /\ high \in Int /\ low < high
      BY <1>0, <1>1 DEF Turn
    <2>2. mid \in Int /\ low <= mid /\ mid < high
      BY <2>1, Middle DEF mid
    <2>3. mid \in 0 .. fill - 1
      BY <1>0, <2>2
    <2>4. fill' = fill /\ sign' = sign
      BY <1>1 DEF Turn
    <2>5. DOMAIN sign = 0 .. fill - 1
      BY <1>0
    <2> HIDE DEF mid
    <2> QED
      BY <1>0, <2>2, <2>3, <2>4, <2>5 DEF Falling
  <1> HIDE DEF mid
  <1>2. CASE Match
    <2>1. /\ Turn /\ goal = "find" /\ goal' = "find" /\ sign[mid] = 0
          /\ high' = mid /\ valid' = TRUE /\ low' = low
      BY <1>2 DEF Match
    <2>2. TypeOK'
      BY <1>0, <1>1, <2>1 DEF TypeOK, Falling
    <2>3. FindInv' /\ PlaceInv'
      BY <1>0, <1>1, <2>1 DEF IInv, FindInv, PlaceInv
    <2> QED
      BY <2>2, <2>3 DEF IInv
  <1>3. CASE Place
    <2>1. /\ Turn /\ goal = "insert" /\ goal' = "done" /\ sign[mid] = 0
          /\ low' = mid /\ high' = high /\ valid' = valid
      BY <1>3 DEF Place
    <2>2. TypeOK'
      BY <1>0, <1>1, <2>1 DEF IInv, TypeOK, Falling
    <2>3. FindInv' /\ PlaceInv'
      BY <1>0, <1>1, <2>1 DEF FindInv, PlaceInv
    <2> QED
      BY <2>2, <2>3 DEF IInv
  <1>4. CASE Before
    <2>1. /\ Turn /\ goal # "done" /\ goal' = goal /\ sign[mid] < 0
          /\ high' = mid /\ valid' = FALSE /\ low' = low
      BY <1>4 DEF Before, Turn
    <2>2. \A i \in 0 .. fill - 1 : mid <= i => sign[i] < 0
      BY <1>0, <1>1, <2>1
    <2>3. valid' \in BOOLEAN
      BY <2>1
    <2>4. TypeOK'
      BY <1>0, <1>1, <2>1, <2>3 DEF IInv, TypeOK, Falling
    <2>5. FindInv' /\ PlaceInv'
      BY <1>0, <1>1, <2>1, <2>2 DEF IInv, FindInv, PlaceInv
    <2> QED
      BY <2>4, <2>5 DEF IInv
  <1>5. CASE After
    <2>1. /\ Turn /\ goal # "done" /\ goal' = goal /\ sign[mid] > 0
          /\ low' = mid + 1 /\ high' = high /\ valid' = valid
      BY <1>5 DEF After, Turn
    <2>2. \A i \in 0 .. fill - 1 : i < mid + 1 => sign[i] > 0
      BY <1>0, <1>1, <2>1
    <2>3. TypeOK'
      BY <1>0, <1>1, <2>1 DEF IInv, TypeOK, Falling
    <2>4. FindInv' /\ PlaceInv'
      BY <1>0, <1>1, <2>1, <2>2 DEF IInv, FindInv, PlaceInv
    <2> QED
      BY <2>3, <2>4 DEF IInv
  <1>6. CASE UNCHANGED vars
    BY <1>6 DEF vars, IInv, TypeOK, FindInv, PlaceInv
  <1> QED
    BY <1>2, <1>3, <1>4, <1>5, <1>6 DEF Next

\* Both loops keep their invariant (array.c:155-174, 221-243).
THEOREM Invariant == Spec => []IInv
  <1>1. Init => IInv
    BY InitHolds
  <1>2. IInv /\ [Next]_vars => IInv'
    BY StepHolds
  <1> QED
    BY <1>1, <1>2, PTL DEF Spec

\* array_sorted_first and array_sorted_last find the first, or last, entry that
\* the filter accepts, or say rightly that there is none.
THEOREM SearchCorrect == Spec => []FindsFirst
  <1>1. IInv => FindsFirst
    <2> SUFFICES ASSUME IInv, goal = "find", Ended PROVE FindsFirst
      BY DEF FindsFirst
    <2>1. /\ fill \in Nat /\ low \in 0 .. fill /\ high \in 0 .. fill /\ low = high
          /\ sign \in [0 .. fill - 1 -> Sign] /\ valid \in BOOLEAN
      BY DEF IInv, TypeOK, Ended
    <2>2. CASE valid
      BY <2>1, <2>2 DEF IInv, FindInv, FindsFirst, Sign
    <2>3. CASE ~valid
      BY <2>1, <2>3 DEF IInv, FindInv, FindsFirst, Sign
    <2> QED
      BY <2>1, <2>2, <2>3
  <1> QED
    BY <1>1, Invariant, PTL

\* array_sorted_insert puts the entry where the array stays sorted.
THEOREM InsertCorrect == Spec => []KeepsSorted
  <1>1. IInv => KeepsSorted
    <2> SUFFICES ASSUME IInv, goal # "find", Ended PROVE KeepsSorted
      BY DEF KeepsSorted
    <2>1. /\ fill \in Nat /\ low \in 0 .. fill /\ high \in 0 .. fill /\ low <= high
          /\ sign \in [0 .. fill - 1 -> Sign] /\ Falling(sign)
          /\ goal \in {"insert", "done"}
      BY DEF IInv, TypeOK, Falling
    <2>2. CASE goal = "insert"
      BY <2>1, <2>2 DEF IInv, PlaceInv, KeepsSorted, Ended, Sign
    <2>3. CASE goal = "done"
      BY <2>1, <2>3 DEF IInv, PlaceInv, KeepsSorted, Falling, Sign
    <2> QED
      BY <2>1, <2>2, <2>3
  <1> QED
    BY <1>1, Invariant, PTL

\* The cursors stay in the array and never cross, for arrays of every length.
THEOREM TypeCorrect == Spec => []TypeOK
  <1>1. IInv => TypeOK
    BY DEF IInv
  <1> QED
    BY <1>1, Invariant, PTL

-----------------------------------------------------------------------------
(* The searches as functions. *)

\* The middle lies between the cursors.
LEMMA MiddleBetween ==
    ASSUME NEW a \in Int, NEW b \in Int, a < b
    PROVE  /\ T!Middle(a, b) \in Int
           /\ a <= T!Middle(a, b) /\ T!Middle(a, b) < b
  BY DEF T!Middle

\* A filter's results along an array, "compatible with the sort comparator".
Compatible(R, n) ==
    R \in [0 .. n - 1 -> Int] /\ \A i, j \in 0 .. n - 1 : i <= j => R[i] >= R[j]

Cursors(n) == [low: 0 .. n, high: 0 .. n, valid: BOOLEAN]

\* p is the first entry between a and b that does not come before the key.
Lowest(R, a, b) == CHOOSE p \in a .. b - 1 : R[p] <= 0 /\ \A i \in a .. p - 1 : R[i] > 0

\* What the search of array.c returns from the cursors a and b on.
Found(R, a, b, v) ==
    IF \E i \in a .. b - 1 : R[i] <= 0
    THEN IF R[Lowest(R, a, b)] = 0 THEN Lowest(R, a, b) + 1 ELSE 0
    ELSE IF v THEN b + 1 ELSE 0

\* That entry is there when any of them does not come before the key.
LEMMA LowestHolds ==
    ASSUME NEW n \in Nat, NEW R \in [0 .. n - 1 -> Int], NEW a \in 0 .. n, NEW b \in 0 .. n,
           \E i \in a .. b - 1 : R[i] <= 0
    PROVE  /\ Lowest(R, a, b) \in a .. b - 1
           /\ R[Lowest(R, a, b)] <= 0
           /\ \A j \in a .. Lowest(R, a, b) - 1 : R[j] > 0
  <1> PICK i \in a .. b - 1 : R[i] <= 0
    OBVIOUS
  <1> DEFINE C == {p \in a .. b - 1 : R[p] <= 0}
  <1>1. PICK p \in C : \A q \in C : p <= q
    <2>1. C \subseteq Nat /\ i \in C
      OBVIOUS
    <2>2. C # {}
      BY <2>1
    <2> HIDE DEF C
    <2> QED
      BY <2>1, <2>2, NatMin
  <1>2. p \in a .. b - 1 /\ R[p] <= 0 /\ \A j \in a .. p - 1 : R[j] > 0
    <2>1. p \in a .. b - 1 /\ R[p] <= 0
      BY <1>1
    <2>2. ASSUME NEW j \in a .. p - 1 PROVE R[j] > 0
      <3>1. j \in a .. b - 1 /\ j < p /\ R[j] \in Int
        BY <2>1
      <3>2. j \notin C
        <4>1. j \in Int /\ p \in Int
          BY <3>1, <2>1
        <4> HIDE DEF C
        <4> QED
          BY <1>1, <3>1, <4>1
      <3> QED
        BY <3>1, <3>2
    <2> QED
      BY <2>1, <2>2
  <1> HIDE DEF C
  <1> QED
    BY <1>2 DEF Lowest

\* There is only one such entry.
LEMMA LowestUnique ==
    ASSUME NEW n \in Nat, NEW R \in [0 .. n - 1 -> Int], NEW a \in 0 .. n, NEW b \in 0 .. n,
           NEW q \in a .. b - 1, R[q] <= 0, \A j \in a .. q - 1 : R[j] > 0
    PROVE  q = Lowest(R, a, b)
  <1>1. /\ Lowest(R, a, b) \in a .. b - 1
        /\ R[Lowest(R, a, b)] <= 0
        /\ \A j \in a .. Lowest(R, a, b) - 1 : R[j] > 0
    BY LowestHolds
  <1>2. PICK l \in Int : l = Lowest(R, a, b)
    BY <1>1
  <1>3. ~ (q < l)
    <2> SUFFICES ASSUME q < l PROVE FALSE
      OBVIOUS
    <2>1. q \in a .. l - 1
      OBVIOUS
    <2>2. R[q] > 0
      BY <1>1, <1>2, <2>1
    <2> QED
      BY <2>2
  <1>4. ~ (l < q)
    <2> SUFFICES ASSUME l < q PROVE FALSE
      OBVIOUS
    <2>1. l \in a .. q - 1 /\ l \in 0 .. n - 1
      BY <1>1, <1>2
    <2>2. R[l] > 0 /\ R[l] <= 0 /\ R[l] \in Int
      BY <1>1, <1>2, <2>1
    <2> QED
      BY <2>2
  <1> QED
    BY <1>2, <1>3, <1>4

\* Past an entry that comes before the key, the search returns the same.
LEMMA FoundRight ==
    ASSUME NEW n \in Nat, NEW R, Compatible(R, n), NEW a \in 0 .. n, NEW b \in 0 .. n, NEW v,
           NEW m \in a .. b - 1, R[m] > 0
    PROVE  Found(R, a, b, v) = Found(R, m + 1, b, v)
  <1>1. R \in [0 .. n - 1 -> Int] /\ \A i, j \in 0 .. n - 1 : i <= j => R[i] >= R[j]
    BY DEF Compatible
  <1>2. ASSUME NEW i \in a .. m PROVE R[i] > 0
    <2>1. i \in 0 .. n - 1 /\ m \in 0 .. n - 1 /\ i <= m
      OBVIOUS
    <2> QED
      BY <1>1, <2>1
  <1>3. CASE \E i \in a .. b - 1 : R[i] <= 0
    <2>1. PICK i \in a .. b - 1 : R[i] <= 0
      BY <1>3
    <2>2. ~ (i \in a .. m)
      <3>1. i \in 0 .. n - 1 /\ R[i] \in Int
        BY <1>1
      <3> QED
        BY <1>2, <2>1, <3>1
    <2>3. i \in m + 1 .. b - 1 /\ m + 1 \in 0 .. n
      BY <2>2
    <2>4. /\ Lowest(R, m + 1, b) \in m + 1 .. b - 1 /\ R[Lowest(R, m + 1, b)] <= 0
          /\ \A j \in m + 1 .. Lowest(R, m + 1, b) - 1 : R[j] > 0
      BY <1>1, <2>1, <2>3, LowestHolds
    <2>5. PICK l \in m + 1 .. b - 1 : l = Lowest(R, m + 1, b)
      BY <2>4
    <2>6. l \in a .. b - 1
      OBVIOUS
    <2>7. ASSUME NEW j \in a .. l - 1 PROVE R[j] > 0
      <3>1. CASE j <= m
        BY <3>1, <1>2
      <3>2. CASE j > m
        <4>1. j \in m + 1 .. l - 1
          BY <3>2
        <4> QED
          BY <4>1, <2>4, <2>5
      <3> QED
        BY <3>1, <3>2
    <2>8. l = Lowest(R, a, b)
      BY <1>1, <2>4, <2>5, <2>6, <2>7, LowestUnique
    <2> QED
      BY <1>3, <2>1, <2>3, <2>5, <2>8 DEF Found
  <1>4. CASE ~ \E i \in a .. b - 1 : R[i] <= 0
    <2>1. m + 1 .. b - 1 \subseteq a .. b - 1
      OBVIOUS
    <2>2. ~ \E i \in m + 1 .. b - 1 : R[i] <= 0
      BY <1>4, <2>1
    <2> QED
      BY <1>4, <2>2 DEF Found
  <1> QED
    BY <1>3, <1>4

\* Down to an entry that does not come before the key, it returns the same.
LEMMA FoundLeft ==
    ASSUME NEW n \in Nat, NEW R, Compatible(R, n), NEW a \in 0 .. n, NEW b \in 0 .. n, NEW v,
           NEW m \in a .. b - 1, ~ (R[m] > 0)
    PROVE  Found(R, a, b, v) = Found(R, a, m, R[m] = 0)
  <1>1. R \in [0 .. n - 1 -> Int]
    BY DEF Compatible
  <1>2. m \in 0 .. n /\ R[m] \in Int /\ R[m] <= 0
    BY <1>1
  <1>3. CASE \E i \in a .. m - 1 : R[i] <= 0
    <2>4. /\ Lowest(R, a, m) \in a .. m - 1 /\ R[Lowest(R, a, m)] <= 0
          /\ \A j \in a .. Lowest(R, a, m) - 1 : R[j] > 0
      BY <1>1, <1>2, <1>3, LowestHolds
    <2>5. PICK l \in a .. m - 1 : l = Lowest(R, a, m)
      BY <2>4
    <2>6. l \in a .. b - 1
      OBVIOUS
    <2>8. l = Lowest(R, a, b)
      BY <1>1, <2>4, <2>5, <2>6, LowestUnique
    <2> QED
      BY <1>2, <1>3, <2>5, <2>8 DEF Found
  <1>4. CASE ~ \E i \in a .. m - 1 : R[i] <= 0
    <2>1. ASSUME NEW j \in a .. m - 1 PROVE R[j] > 0
      <3>1. j \in 0 .. n - 1
        OBVIOUS
      <3>2. R[j] \in Int
        BY <1>1, <3>1
      <3> QED
        BY <1>4, <3>2
    <2>2. m = Lowest(R, a, b)
      BY <1>1, <1>2, <2>1, LowestUnique
    <2> QED
      BY <1>2, <1>4, <2>2 DEF Found
  <1> QED
    BY <1>3, <1>4

\* One turn of the search, which g continues.
SearchTurn(R, g, s) ==
    LET m == T!Middle(s.low, s.high)
    IN  IF s.low >= s.high THEN IF s.valid THEN s.high + 1 ELSE 0
        ELSE IF R[m] > 0 THEN g[[low |-> m + 1, high |-> s.high, valid |-> s.valid]]
        ELSE g[[low |-> s.low, high |-> m, valid |-> R[m] = 0]]

\* Found satisfies the turns of the search.
LEMMA SearchTurns ==
    ASSUME NEW n \in Nat, NEW R, Compatible(R, n), NEW s \in Cursors(n), NEW g,
           \A x \in Cursors(n) : g[x] = Found(R, x.low, x.high, x.valid)
    PROVE  Found(R, s.low, s.high, s.valid) = SearchTurn(R, g, s)
  <1>0. s.low \in 0 .. n /\ s.high \in 0 .. n /\ s.valid \in BOOLEAN
    BY DEF Cursors
  <1>1. CASE s.low >= s.high
    <2>1. ~ \E i \in s.low .. s.high - 1 : R[i] <= 0
      BY <1>0, <1>1
    <2> QED
      BY <1>1, <2>1 DEF Found, SearchTurn
  <1>2. CASE s.low < s.high
    <2>1. PICK m \in s.low .. s.high - 1 : m = T!Middle(s.low, s.high)
      BY <1>0, <1>2, MiddleBetween
    <2>2. m \in 0 .. n /\ m + 1 \in 0 .. n
      BY <1>0
    <2>3. CASE R[m] > 0
      <3>1. [low |-> m + 1, high |-> s.high, valid |-> s.valid] \in Cursors(n)
        BY <1>0, <2>2 DEF Cursors
      <3>2. g[[low |-> m + 1, high |-> s.high, valid |-> s.valid]] = Found(R, m + 1, s.high, s.valid)
        BY <3>1
      <3> QED
        BY <1>0, <1>2, <2>1, <2>3, <3>2, FoundRight DEF SearchTurn
    <2>4. CASE ~ (R[m] > 0)
      <3>1. [low |-> s.low, high |-> m, valid |-> R[m] = 0] \in Cursors(n)
        BY <1>0, <2>2 DEF Cursors
      <3>2. g[[low |-> s.low, high |-> m, valid |-> R[m] = 0]] = Found(R, s.low, m, R[m] = 0)
        BY <3>1
      <3> QED
        BY <1>0, <1>2, <2>1, <2>4, <3>2, FoundLeft DEF SearchTurn
    <2> QED
      BY <2>3, <2>4
  <1> QED
    BY <1>0, <1>1, <1>2

\* So there is a function that the turns of the search define.
LEMMA SearchExists ==
    ASSUME NEW n \in Nat, NEW R, Compatible(R, n)
    PROVE  \E g : g = [s \in Cursors(n) |-> SearchTurn(R, g, s)]
  <1> DEFINE g == [s \in Cursors(n) |-> Found(R, s.low, s.high, s.valid)]
  <1>1. \A x \in Cursors(n) : g[x] = Found(R, x.low, x.high, x.valid)
    OBVIOUS
  <1> HIDE DEF g
  <1>2. \A s \in Cursors(n) : Found(R, s.low, s.high, s.valid) = SearchTurn(R, g, s)
    BY <1>1, SearchTurns
  <1>3. g = [s \in Cursors(n) |-> SearchTurn(R, g, s)]
    BY <1>2 DEF g
  <1> QED
    BY <1>3

\* Whatever function the search defines returns that.
LEMMA SearchReturns ==
    ASSUME NEW n \in Nat, NEW R, Compatible(R, n), NEW g,
           g = [s \in Cursors(n) |-> SearchTurn(R, g, s)], NEW s \in Cursors(n)
    PROVE  g[s] = Found(R, s.low, s.high, s.valid)
  <1> DEFINE Bad(x) == x \in Cursors(n) /\ g[x] # Found(R, x.low, x.high, x.valid)
             D == {d \in Nat : \E x \in Cursors(n) : Bad(x) /\ d = x.high - x.low}
  <1>1. ASSUME NEW x \in Cursors(n)
        PROVE  x.low \in 0 .. n /\ x.high \in 0 .. n /\ x.valid \in BOOLEAN
    BY DEF Cursors
  <1>2. ASSUME NEW x \in Cursors(n), x.low >= x.high PROVE ~Bad(x)
    <2>1. ~ \E i \in x.low .. x.high - 1 : R[i] <= 0
      BY <1>1, <1>2
    <2>2. g[x] = SearchTurn(R, g, x)
      OBVIOUS
    <2> QED
      BY <1>2, <2>1, <2>2 DEF Found, SearchTurn
  <1>3. SUFFICES ASSUME Bad(s) PROVE FALSE
    OBVIOUS
  <1>4. s.high - s.low \in D
    BY <1>1, <1>2, <1>3
  <1>5. PICK d \in D : \A y \in D : d <= y
    <2>1. D \subseteq Nat /\ D # {}
      BY <1>4
    <2> HIDE DEF D
    <2> QED
      BY <2>1, NatMin
  <1>6. PICK x \in Cursors(n) : Bad(x) /\ d = x.high - x.low
    BY <1>5
  <1>7. x.low < x.high
    BY <1>1, <1>2, <1>6
  <1>8. PICK m \in x.low .. x.high - 1 : m = T!Middle(x.low, x.high)
    BY <1>1, <1>7, MiddleBetween
  <1>9. ASSUME NEW y \in Cursors(n), y.low <= y.high, y.high - y.low < d
        PROVE  g[y] = Found(R, y.low, y.high, y.valid)
    <2>1. y.high - y.low \in Nat
      BY <1>1, <1>9
    <2>2. y.high - y.low \notin D
      <3>1. d \in Nat
        BY <1>5
      <3> HIDE DEF D
      <3> QED
        BY <1>5, <1>9, <2>1, <3>1
    <2> QED
      BY <2>1, <2>2
  <1>10. m \in 0 .. n /\ m + 1 \in 0 .. n
    BY <1>1
  <1>11. g[x] = SearchTurn(R, g, x)
    OBVIOUS
  <1> HIDE DEF D
  <1>12. CASE R[m] > 0
    <2> DEFINE y == [low |-> m + 1, high |-> x.high, valid |-> x.valid]
    <2>1. y \in Cursors(n) /\ y.low = m + 1 /\ y.high = x.high /\ y.valid = x.valid
      BY <1>1, <1>10 DEF Cursors
    <2>2. y.low <= y.high /\ y.high - y.low < d
      BY <1>1, <1>6, <2>1
    <2> HIDE DEF y
    <2>3. g[y] = Found(R, m + 1, x.high, x.valid)
      BY <1>9, <2>1, <2>2
    <2>4. g[x] = g[y]
      <3>1. ~ (x.low >= x.high)
        BY <1>1, <1>7
      <3>2. SearchTurn(R, g, x) = g[y]
        BY <1>8, <1>12, <3>1 DEF SearchTurn, y
      <3> QED
        BY <1>11, <3>2
    <2> QED
      BY <1>1, <1>6, <1>12, <2>3, <2>4, FoundRight
  <1>13. CASE ~ (R[m] > 0)
    <2> DEFINE y == [low |-> x.low, high |-> m, valid |-> R[m] = 0]
    <2>1. y \in Cursors(n) /\ y.low = x.low /\ y.high = m /\ y.valid = (R[m] = 0)
      BY <1>1, <1>10 DEF Cursors
    <2>2. y.low <= y.high /\ y.high - y.low < d
      BY <1>1, <1>6, <2>1
    <2> HIDE DEF y
    <2>3. g[y] = Found(R, x.low, m, R[m] = 0)
      BY <1>9, <2>1, <2>2
    <2>4. g[x] = g[y]
      <3>1. ~ (x.low >= x.high)
        BY <1>1, <1>7
      <3>2. SearchTurn(R, g, x) = g[y]
        BY <1>8, <1>13, <3>1 DEF SearchTurn, y
      <3> QED
        BY <1>11, <3>2
    <2> QED
      BY <1>1, <1>6, <1>13, <2>3, <2>4, FoundLeft
  <1> QED
    BY <1>12, <1>13

\* The results of the filter f along the entries, from the front or the back.
Results(entries, f, rev) ==
    [p \in 0 .. Len(entries) - 1 |->
        IF rev THEN - f[entries[Len(entries) - p]] ELSE f[entries[p + 1]]]

\* f falls along the entries.
FallsAlong(f, entries) ==
    \A i, j \in 1 .. Len(entries) : i <= j => f[entries[i]] >= f[entries[j]]

\* What a filter that falls along the array returns, from either end, is compatible.
LEMMA ResultsCompatible ==
    ASSUME NEW S, NEW entries \in Seq(S), NEW f \in [S -> Int], NEW rev \in BOOLEAN,
           FallsAlong(f, entries)
    PROVE  Compatible(Results(entries, f, rev), Len(entries))
  <1> DEFINE n == Len(entries)
             R == Results(entries, f, rev)
  <1>1. n \in Nat /\ \A i \in 1 .. n : entries[i] \in S
    OBVIOUS
  <1>2. R \in [0 .. n - 1 -> Int]
    <2>1. ASSUME NEW p \in 0 .. n - 1
          PROVE  (IF rev THEN - f[entries[n - p]] ELSE f[entries[p + 1]]) \in Int
      <3>1. n - p \in 1 .. n /\ p + 1 \in 1 .. n
        BY <1>1
      <3>2. f[entries[n - p]] \in Int /\ f[entries[p + 1]] \in Int
        BY <1>1, <3>1
      <3> QED
        BY <3>2
    <2> QED
      BY <2>1 DEF Results
  <1>3. ASSUME NEW i \in 0 .. n - 1, NEW j \in 0 .. n - 1, i <= j PROVE R[i] >= R[j]
    <2>1. /\ n - i \in 1 .. n /\ i + 1 \in 1 .. n /\ n - j \in 1 .. n /\ j + 1 \in 1 .. n
          /\ n - j <= n - i /\ i + 1 <= j + 1
      BY <1>1, <1>3
    <2>2. f[entries[n - j]] >= f[entries[n - i]] /\ f[entries[i + 1]] >= f[entries[j + 1]]
      BY <2>1 DEF FallsAlong
    <2>3. f[entries[n - j]] \in Int /\ f[entries[n - i]] \in Int
      BY <1>1, <2>1
    <2>4. R[i] = (IF rev THEN - f[entries[n - i]] ELSE f[entries[i + 1]])
      BY DEF Results
    <2>5. R[j] = (IF rev THEN - f[entries[n - j]] ELSE f[entries[j + 1]])
      BY DEF Results
    <2> HIDE DEF R, n
    <2> QED
      BY <2>2, <2>3, <2>4, <2>5
  <1> QED
    BY <1>2, <1>3 DEF Compatible

\* _array_sorted_find_index returns one more than the index of the first
\* result that is not positive, if that one is a match, and else 0.
LEMMA FindIndexReturns ==
    ASSUME NEW S, NEW entries \in Seq(S), NEW f \in [S -> Int], NEW rev \in BOOLEAN,
           FallsAlong(f, entries)
    PROVE  LET at == Found(Results(entries, f, rev), 0, Len(entries), FALSE)
           IN  T!FindIndex(entries, f, rev)
                 = IF at # 0 /\ rev THEN Len(entries) + 1 - at ELSE at
  <1> DEFINE n == Len(entries)
             R == [p \in 0 .. n - 1 |->
                     IF rev THEN - f[entries[n - p]] ELSE f[entries[p + 1]]]
             search[s \in [low: 0 .. n, high: 0 .. n, valid: BOOLEAN]] ==
               LET m == T!Middle(s.low, s.high)
               IN  IF s.low >= s.high THEN IF s.valid THEN s.high + 1 ELSE 0
                   ELSE IF R[m] > 0 THEN search[[low |-> m + 1, high |-> s.high, valid |-> s.valid]]
                   ELSE search[[low |-> s.low, high |-> m, valid |-> R[m] = 0]]
             at == search[[low |-> 0, high |-> n, valid |-> FALSE]]
  <1>1. T!FindIndex(entries, f, rev) = IF at # 0 /\ rev THEN n + 1 - at ELSE at
    BY DEF T!FindIndex
  <1>2. R = Results(entries, f, rev)
    BY DEF Results
  <1>3. n \in Nat /\ Compatible(R, n)
    <2>1. Compatible(Results(entries, f, rev), Len(entries))
      BY ResultsCompatible
    <2> HIDE DEF R
    <2> QED
      BY <1>2, <2>1
  <1>4. \E g : g = [s \in Cursors(n) |-> SearchTurn(R, g, s)]
    <2> HIDE DEF R, n
    <2> QED
      BY <1>3, SearchExists
  <1>5. search = [s \in Cursors(n) |-> SearchTurn(R, search, s)]
    BY <1>4 DEF SearchTurn, Cursors
  <1>6. PICK s \in Cursors(n) : s = [low |-> 0, high |-> n, valid |-> FALSE]
    <2>1. [low |-> 0, high |-> n, valid |-> FALSE] \in Cursors(n)
      BY <1>3 DEF Cursors
    <2> QED
      BY <2>1
  <1>7. at = Found(R, 0, n, FALSE)
    <2>1. search[s] = Found(R, s.low, s.high, s.valid)
      <3> HIDE DEF R, n, search
      <3> QED
        BY <1>3, <1>5, SearchReturns
    <2>2. s.low = 0 /\ s.high = n /\ s.valid = FALSE /\ at = search[s]
      BY <1>6
    <2> HIDE DEF R, n, search, at
    <2> QED
      BY <2>1, <2>2
  <1> QED
    BY <1>1, <1>2, <1>7

\* array_sorted_first finds the first match, or rightly none.
LEMMA FindsTheFirst ==
    ASSUME NEW S, NEW entries \in Seq(S), NEW f \in [S -> Int], FallsAlong(f, entries)
    PROVE  /\ T!FindIndex(entries, f, FALSE) \in 0 .. Len(entries)
           /\ T!FindIndex(entries, f, FALSE) = 0 => \A i \in 1 .. Len(entries) : f[entries[i]] # 0
           /\ T!FindIndex(entries, f, FALSE) # 0 =>
                /\ f[entries[T!FindIndex(entries, f, FALSE)]] = 0
                /\ \A i \in 1 .. T!FindIndex(entries, f, FALSE) - 1 : f[entries[i]] > 0
  <1> DEFINE n == Len(entries)
             R == Results(entries, f, FALSE)
             at == T!FindIndex(entries, f, FALSE)
  <1> SUFFICES /\ at \in 0 .. n
               /\ at = 0 => \A i \in 1 .. n : f[entries[i]] # 0
               /\ at # 0 => f[entries[at]] = 0 /\ \A i \in 1 .. at - 1 : f[entries[i]] > 0
    OBVIOUS
  <1>1. n \in Nat /\ \A i \in 1 .. n : entries[i] \in S /\ f[entries[i]] \in Int
    OBVIOUS
  <1>2. R \in [0 .. n - 1 -> Int] /\ \A i, j \in 0 .. n - 1 : i <= j => R[i] >= R[j]
    BY ResultsCompatible DEF Compatible
  <1>3. \A p \in 0 .. n - 1 : R[p] = f[entries[p + 1]]
    BY DEF Results
  <1>4. \A i \in 1 .. n : i - 1 \in 0 .. n - 1 /\ R[i - 1] = f[entries[i]]
    <2> SUFFICES ASSUME NEW i \in 1 .. n
                 PROVE  i - 1 \in 0 .. n - 1 /\ R[i - 1] = f[entries[i]]
      OBVIOUS
    <2>1. i - 1 \in 0 .. n - 1 /\ (i - 1) + 1 = i
      BY <1>1
    <2> HIDE DEF R
    <2> QED
      BY <1>3, <2>1
  <1>5. at = Found(R, 0, n, FALSE)
    BY FindIndexReturns
  <1> HIDE DEF n, R, at
  <1>6. CASE \E i \in 0 .. n - 1 : R[i] <= 0
    <2>1. PICK l \in 0 .. n - 1 :
            l = Lowest(R, 0, n) /\ R[l] <= 0 /\ \A j \in 0 .. l - 1 : R[j] > 0
      <3>1. 0 \in 0 .. n /\ n \in 0 .. n
        BY <1>1
      <3> QED
        BY <1>1, <1>2, <1>6, <3>1, LowestHolds
    <2>2. at = IF R[l] = 0 THEN l + 1 ELSE 0
      BY <1>5, <1>6, <2>1 DEF Found
    <2>3. CASE R[l] = 0
      <3>1. at = l + 1 /\ at \in 1 .. n /\ f[entries[at]] = 0
        BY <1>1, <1>3, <2>2, <2>3
      <3>2. ASSUME NEW i \in 1 .. at - 1 PROVE f[entries[i]] > 0
        <4>1. i - 1 \in 0 .. l - 1 /\ i \in 1 .. n
          BY <1>1, <3>1
        <4> QED
          BY <1>4, <2>1, <4>1
      <3> QED
        BY <1>1, <3>1, <3>2
    <2>4. CASE R[l] # 0
      <3>1. ASSUME NEW i \in 1 .. n PROVE f[entries[i]] # 0
        <4>1. i - 1 \in 0 .. n - 1 /\ R[i - 1] = f[entries[i]] /\ R[l] \in Int /\ R[i - 1] \in Int
          BY <1>2, <1>4
        <4>2. CASE i - 1 < l
          BY <2>1, <4>1, <4>2
        <4>3. CASE l <= i - 1
          <5>1. R[l] >= R[i - 1]
            BY <1>2, <4>1, <4>3
          <5> QED
            BY <2>1, <2>4, <4>1, <5>1
        <4> QED
          BY <4>1, <4>2, <4>3
      <3> QED
        BY <1>1, <2>2, <2>4, <3>1
    <2> QED
      BY <2>3, <2>4
  <1>7. CASE ~ \E i \in 0 .. n - 1 : R[i] <= 0
    <2>1. at = 0
      BY <1>5, <1>7 DEF Found
    <2>2. ASSUME NEW i \in 1 .. n PROVE f[entries[i]] # 0
      <3>1. i - 1 \in 0 .. n - 1 /\ R[i - 1] = f[entries[i]]
        BY <1>4
      <3>2. ~ (R[i - 1] <= 0)
        BY <1>7, <3>1
      <3> QED
        BY <3>1, <3>2
    <2> QED
      BY <1>1, <2>1, <2>2
  <1> QED
    BY <1>6, <1>7

\* array_sorted_last finds the last match, or rightly none.
LEMMA FindsTheLast ==
    ASSUME NEW S, NEW entries \in Seq(S), NEW f \in [S -> Int], FallsAlong(f, entries)
    PROVE  /\ T!FindIndex(entries, f, TRUE) \in 0 .. Len(entries)
           /\ T!FindIndex(entries, f, TRUE) = 0 => \A i \in 1 .. Len(entries) : f[entries[i]] # 0
           /\ T!FindIndex(entries, f, TRUE) # 0 =>
                /\ f[entries[T!FindIndex(entries, f, TRUE)]] = 0
                /\ \A i \in T!FindIndex(entries, f, TRUE) + 1 .. Len(entries) : f[entries[i]] < 0
  <1> DEFINE n == Len(entries)
             R == Results(entries, f, TRUE)
             at == T!FindIndex(entries, f, TRUE)
  <1> SUFFICES /\ at \in 0 .. n
               /\ at = 0 => \A i \in 1 .. n : f[entries[i]] # 0
               /\ at # 0 => f[entries[at]] = 0 /\ \A i \in at + 1 .. n : f[entries[i]] < 0
    OBVIOUS
  <1>1. n \in Nat /\ \A i \in 1 .. n : entries[i] \in S /\ f[entries[i]] \in Int
    OBVIOUS
  <1>2. R \in [0 .. n - 1 -> Int] /\ \A i, j \in 0 .. n - 1 : i <= j => R[i] >= R[j]
    BY ResultsCompatible DEF Compatible
  <1>3. \A p \in 0 .. n - 1 : R[p] = - f[entries[n - p]]
    BY DEF Results
  <1>5. at = LET b == Found(R, 0, n, FALSE) IN IF b # 0 THEN n + 1 - b ELSE b
    BY FindIndexReturns
  <1> HIDE DEF n, R, at
  <1>4. \A i \in 1 .. n : n - i \in 0 .. n - 1 /\ R[n - i] = - f[entries[i]]
    <2> SUFFICES ASSUME NEW i \in 1 .. n
                 PROVE  n - i \in 0 .. n - 1 /\ R[n - i] = - f[entries[i]]
      OBVIOUS
    <2>1. n - i \in 0 .. n - 1 /\ n - (n - i) = i
      BY <1>1
    <2> QED
      BY <1>3, <2>1
  <1>6. CASE \E i \in 0 .. n - 1 : R[i] <= 0
    <2>1. PICK l \in 0 .. n - 1 :
            l = Lowest(R, 0, n) /\ R[l] <= 0 /\ \A j \in 0 .. l - 1 : R[j] > 0
      <3>1. 0 \in 0 .. n /\ n \in 0 .. n
        BY <1>1
      <3> QED
        BY <1>1, <1>2, <1>6, <3>1, LowestHolds
    <2>2. at = IF R[l] = 0 THEN n - l ELSE 0
      BY <1>1, <1>5, <1>6, <2>1 DEF Found
    <2>3. CASE R[l] = 0
      <3>1. at = n - l /\ at \in 1 .. n /\ n - at = l
        BY <1>1, <2>2, <2>3
      <3>3. f[entries[at]] \in Int /\ R[n - at] = - f[entries[at]]
        BY <1>1, <1>4, <3>1
      <3>4. f[entries[at]] = 0
        BY <2>3, <3>1, <3>3
      <3>2. ASSUME NEW i \in at + 1 .. n PROVE f[entries[i]] < 0
        <4>1. n - i \in 0 .. l - 1 /\ i \in 1 .. n
          BY <1>1, <3>1
        <4>2. R[n - i] > 0 /\ R[n - i] = - f[entries[i]] /\ f[entries[i]] \in Int
          BY <1>1, <1>4, <2>1, <4>1
        <4> QED
          BY <4>2
      <3>5. at + 1 <= n + 1 /\ 1 <= at /\ at <= n
        BY <1>1, <3>1
      <3> QED
        BY <3>1, <3>2, <3>4, <3>5
    <2>4. CASE R[l] # 0
      <3>1. ASSUME NEW i \in 1 .. n PROVE f[entries[i]] # 0
        <4>1. /\ n - i \in 0 .. n - 1 /\ R[n - i] = - f[entries[i]] /\ f[entries[i]] \in Int
              /\ R[l] \in Int /\ R[n - i] \in Int
          BY <1>1, <1>2, <1>4
        <4>2. CASE n - i < l
          <5>1. n - i \in 0 .. l - 1
            BY <1>1, <4>1, <4>2
          <5>2. R[n - i] > 0
            BY <2>1, <5>1
          <5> QED
            BY <4>1, <5>2
        <4>3. CASE l <= n - i
          <5>1. R[l] >= R[n - i]
            BY <1>2, <4>1, <4>3
          <5> QED
            BY <2>1, <2>4, <4>1, <5>1
        <4> QED
          BY <4>1, <4>2, <4>3
      <3> QED
        BY <1>1, <2>2, <2>4, <3>1
    <2> QED
      BY <2>3, <2>4
  <1>7. CASE ~ \E i \in 0 .. n - 1 : R[i] <= 0
    <2>1. at = 0
      BY <1>5, <1>7 DEF Found
    <2>2. ASSUME NEW i \in 1 .. n PROVE f[entries[i]] # 0
      <3>1. R[n - i] = - f[entries[i]] /\ f[entries[i]] \in Int /\ ~ (R[n - i] <= 0)
        BY <1>1, <1>4, <1>7
      <3> QED
        BY <3>1
    <2> QED
      BY <1>1, <2>1, <2>2
  <1> QED
    BY <1>6, <1>7

\* array_sorted_each visits exactly the matches, which lie side by side.
LEMMA MatchesHold ==
    ASSUME NEW S, NEW entries \in Seq(S), NEW f \in [S -> Int], FallsAlong(f, entries)
    PROVE  \E p \in 1 .. Len(entries) + 1, q \in 0 .. Len(entries) :
             /\ T!Matches(entries, f) = SubSeq(entries, p, q) /\ p <= q + 1
             /\ \A i \in 1 .. Len(entries) : f[entries[i]] = 0 <=> p <= i /\ i <= q
             /\ T!FindIndex(entries, f, FALSE) = IF p <= q THEN p ELSE 0
             /\ T!FindIndex(entries, f, TRUE) = IF p <= q THEN q ELSE 0
  <1> DEFINE n == Len(entries)
             first == T!FindIndex(entries, f, FALSE)
             last == T!FindIndex(entries, f, TRUE)
  <1> SUFFICES \E p \in 1 .. n + 1, q \in 0 .. n :
                 /\ T!Matches(entries, f) = SubSeq(entries, p, q) /\ p <= q + 1
                 /\ \A i \in 1 .. n : f[entries[i]] = 0 <=> p <= i /\ i <= q
                 /\ first = (IF p <= q THEN p ELSE 0) /\ last = IF p <= q THEN q ELSE 0
    OBVIOUS
  <1>1. n \in Nat /\ \A i \in 1 .. n : entries[i] \in S /\ f[entries[i]] \in Int
    OBVIOUS
  <1>2. /\ first \in 0 .. n
        /\ first = 0 => \A i \in 1 .. n : f[entries[i]] # 0
        /\ first # 0 => f[entries[first]] = 0 /\ \A i \in 1 .. first - 1 : f[entries[i]] > 0
    BY FindsTheFirst
  <1>3. /\ last \in 0 .. n
        /\ last = 0 => \A i \in 1 .. n : f[entries[i]] # 0
        /\ last # 0 => f[entries[last]] = 0 /\ \A i \in last + 1 .. n : f[entries[i]] < 0
    BY FindsTheLast
  <1>4. T!Matches(entries, f) = IF first = 0 THEN <<>> ELSE SubSeq(entries, first, last)
    BY DEF T!Matches
  <1>5. \A i, j \in 1 .. n : i <= j => f[entries[i]] >= f[entries[j]]
    BY DEF FallsAlong
  <1> HIDE DEF n, first, last
  <1>6. CASE first = 0
    <2>1. last = 0
      BY <1>2, <1>3, <1>6
    <2>2. SubSeq(entries, 1, 0) = <<>>
      OBVIOUS
    <2>3. 1 \in 1 .. n + 1 /\ 0 \in 0 .. n
      BY <1>1
    <2>4. \A i \in 1 .. n : f[entries[i]] = 0 <=> 1 <= i /\ i <= 0
      BY <1>2, <1>6
    <2>5. T!Matches(entries, f) = SubSeq(entries, 1, 0) /\ 1 <= 0 + 1
      BY <1>4, <1>6, <2>2
    <2>6. first = (IF 1 <= 0 THEN 1 ELSE 0) /\ last = (IF 1 <= 0 THEN 0 ELSE 0)
      BY <1>6, <2>1
    <2> USE <2>3
    <2> WITNESS 1 \in 1 .. n + 1, 0 \in 0 .. n
    <2> QED
      BY <2>4, <2>5, <2>6
  <1>7. CASE first # 0
    <2>1. first \in 1 .. n /\ last \in 1 .. n
      BY <1>1, <1>2, <1>3, <1>7
    <2>2. first <= last
      <3> SUFFICES ASSUME last < first PROVE FALSE
        BY <2>1
      <3>1. last \in 1 .. first - 1
        BY <2>1
      <3> QED
        BY <1>2, <1>3, <2>1, <3>1
    <2>3. ASSUME NEW i \in 1 .. n PROVE f[entries[i]] = 0 <=> first <= i /\ i <= last
      <3>1. CASE i < first
        <4>1. i \in 1 .. first - 1
          BY <2>1, <3>1
        <4> QED
          BY <1>1, <1>2, <2>1, <3>1, <4>1
      <3>2. CASE last < i
        <4>1. i \in last + 1 .. n
          BY <2>1, <3>2
        <4> QED
          BY <1>1, <1>3, <2>1, <3>2, <4>1
      <3>3. CASE first <= i /\ i <= last
        <4>1. f[entries[first]] >= f[entries[i]] /\ f[entries[i]] >= f[entries[last]]
          BY <1>5, <2>1, <3>3
        <4>2. f[entries[first]] = 0 /\ f[entries[last]] = 0 /\ f[entries[i]] \in Int
          BY <1>1, <1>2, <1>3, <2>1
        <4> QED
          BY <3>3, <4>1, <4>2
      <3> QED
        BY <2>1, <3>1, <3>2, <3>3
    <2> QED
      BY <1>1, <1>4, <1>7, <2>1, <2>2, <2>3
  <1> QED
    BY <1>6, <1>7
Places(n) == [low: 0 .. n, high: 0 .. n]

\* One turn of the search for a place, which g continues.
PlaceTurn(R, g, s) ==
    LET m == T!Middle(s.low, s.high)
    IN  IF s.low >= s.high THEN s.low
        ELSE IF R[m] < 0 THEN g[[low |-> s.low, high |-> m]]
        ELSE IF R[m] > 0 THEN g[[low |-> m + 1, high |-> s.high]]
        ELSE m

\* A turn goes on with fewer entries between the cursors.
LEMMA PlacesShrink ==
    ASSUME NEW n \in Nat, NEW s \in Places(n), s.low < s.high
    PROVE  \E m \in s.low .. s.high - 1 :
             /\ m = T!Middle(s.low, s.high) /\ m \in 0 .. n - 1
             /\ s.low \in 0 .. n /\ s.high \in 0 .. n
             /\ [low |-> s.low, high |-> m] \in Places(n)
             /\ [low |-> m + 1, high |-> s.high] \in Places(n)
  <1>1. s.low \in 0 .. n /\ s.high \in 0 .. n
    BY DEF Places
  <1>2. PICK m \in s.low .. s.high - 1 : m = T!Middle(s.low, s.high)
    BY <1>1, MiddleBetween
  <1>3. m \in 0 .. n - 1 /\ m \in 0 .. n /\ m + 1 \in 0 .. n
    BY <1>1
  <1>4. /\ [low |-> s.low, high |-> m] \in Places(n)
        /\ [low |-> m + 1, high |-> s.high] \in Places(n)
    BY <1>1, <1>3 DEF Places
  <1> QED
    BY <1>1, <1>2, <1>3, <1>4

\* A turn asks only about what lies strictly between the cursors.
LEMMA PlaceAgrees ==
    ASSUME NEW n \in Nat, NEW R, NEW g, NEW h, NEW s \in Places(n),
           \A x \in Places(n) : x.high - x.low < s.high - s.low => g[x] = h[x]
    PROVE  PlaceTurn(R, g, s) = PlaceTurn(R, h, s)
  <1>1. CASE ~ (s.low < s.high)
    <2>1. s.low >= s.high
      BY <1>1 DEF Places
    <2> QED
      BY <2>1 DEF PlaceTurn
  <1>2. CASE s.low < s.high
    <2>1. PICK m \in s.low .. s.high - 1 :
             /\ m = T!Middle(s.low, s.high) /\ m \in 0 .. n - 1
             /\ s.low \in 0 .. n /\ s.high \in 0 .. n
             /\ [low |-> s.low, high |-> m] \in Places(n)
             /\ [low |-> m + 1, high |-> s.high] \in Places(n)
      BY <1>2, PlacesShrink
    <2>2. g[[low |-> s.low, high |-> m]] = h[[low |-> s.low, high |-> m]]
      <3> DEFINE x == [low |-> s.low, high |-> m]
      <3>1. x \in Places(n) /\ x.low = s.low /\ x.high = m
        BY <2>1
      <3>2. x.high - x.low < s.high - s.low
        BY <2>1, <3>1
      <3> HIDE DEF x
      <3>3. g[x] = h[x]
        BY <3>1, <3>2
      <3> QED
        BY <3>3 DEF x
    <2>3. g[[low |-> m + 1, high |-> s.high]] = h[[low |-> m + 1, high |-> s.high]]
      <3> DEFINE x == [low |-> m + 1, high |-> s.high]
      <3>1. x \in Places(n) /\ x.low = m + 1 /\ x.high = s.high
        BY <2>1
      <3>2. x.high - x.low < s.high - s.low
        BY <2>1, <3>1
      <3> HIDE DEF x
      <3>3. g[x] = h[x]
        BY <3>1, <3>2
      <3> QED
        BY <3>3 DEF x
    <2> QED
      BY <1>2, <2>1, <2>2, <2>3 DEF PlaceTurn
  <1> QED
    BY <1>1, <1>2

\* The search for a place is well defined.
LEMMA PlaceExists ==
    ASSUME NEW n \in Nat, NEW R
    PROVE  \E g : g = [s \in Places(n) |-> PlaceTurn(R, g, s)]
  <1> DEFINE Upto(d, g) == \A s \in Places(n) : s.high - s.low <= d => g[s] = PlaceTurn(R, g, s)
             D == {d \in Nat : ~ \E g : Upto(d, g)}
  <1>0. \A s \in Places(n) : s.low \in 0 .. n /\ s.high \in 0 .. n
    BY DEF Places
  <1>1. D = {}
    <2> SUFFICES ASSUME D # {} PROVE FALSE
      OBVIOUS
    <2>1. PICK d \in D : \A y \in D : d <= y
      <3>1. D \subseteq Nat
        OBVIOUS
      <3> HIDE DEF D
      <3> QED
        BY <3>1, NatMin
    <2>2. d \in Nat /\ ~ \E g : Upto(d, g)
      BY <2>1
    <2>3. CASE d = 0
      <3> DEFINE g == [s \in Places(n) |-> s.low]
      <3>1. ASSUME NEW s \in Places(n), s.high - s.low <= 0 PROVE g[s] = PlaceTurn(R, g, s)
        <4>1. s.low >= s.high
          <5> HIDE DEF D, Upto, g
          <5>1. s.low \in Int /\ s.high \in Int
            BY <1>0
          <5> QED
            BY <3>1, <5>1
        <4>2. g[s] = s.low
          OBVIOUS
        <4> HIDE DEF g
        <4> QED
          BY <4>1, <4>2 DEF PlaceTurn
      <3> HIDE DEF g
      <3>2. Upto(d, g)
        BY <2>3, <3>1
      <3> QED
        BY <2>2, <3>2
    <2>4. CASE d # 0
      <3>1. d - 1 \in Nat /\ d - 1 \notin D
        <4>1. d - 1 \in Nat /\ ~ (d <= d - 1)
          BY <2>2, <2>4
        <4> HIDE DEF D
        <4> QED
          BY <2>1, <4>1
      <3>2. PICK g : Upto(d - 1, g)
        BY <3>1
      <3> DEFINE h == [s \in Places(n) |-> PlaceTurn(R, g, s)]
      <3>3. ASSUME NEW s \in Places(n) PROVE h[s] = PlaceTurn(R, g, s)
        OBVIOUS
      <3> HIDE DEF h
      <3>4. ASSUME NEW s \in Places(n), s.high - s.low <= d PROVE h[s] = PlaceTurn(R, h, s)
        <4>1. ASSUME NEW x \in Places(n), x.high - x.low < s.high - s.low PROVE g[x] = h[x]
          <5>1. x.high - x.low <= d - 1
            <6> HIDE DEF D, Upto
            <6>1. /\ x.low \in Int /\ x.high \in Int /\ s.low \in Int /\ s.high \in Int
                  /\ d \in Int
              BY <1>0, <2>2
            <6> QED
              BY <3>4, <4>1, <6>1
          <5>2. g[x] = PlaceTurn(R, g, x)
            BY <3>2, <5>1
          <5> QED
            BY <3>3, <5>2
        <4>2. PlaceTurn(R, g, s) = PlaceTurn(R, h, s)
          BY <4>1, PlaceAgrees
        <4> QED
          BY <3>3, <4>2
      <3>5. Upto(d, h)
        BY <3>4
      <3> QED
        BY <2>2, <3>5
    <2> QED
      BY <2>3, <2>4
  <1>2. PICK g : Upto(n, g)
    BY <1>1
  <1>3. \A s \in Places(n) : g[s] = PlaceTurn(R, g, s)
    <2> SUFFICES ASSUME NEW s \in Places(n) PROVE g[s] = PlaceTurn(R, g, s)
      OBVIOUS
    <2>1. s.high - s.low <= n
      BY <1>0
    <2> QED
      BY <1>2, <2>1
  <1> DEFINE h == [s \in Places(n) |-> g[s]]
  <1>4. \A s \in Places(n) : h[s] = g[s]
    OBVIOUS
  <1> HIDE DEF h
  <1>5. \A s \in Places(n) : PlaceTurn(R, g, s) = PlaceTurn(R, h, s)
    BY <1>4, PlaceAgrees
  <1>6. h = [s \in Places(n) |-> PlaceTurn(R, h, s)]
    BY <1>3, <1>5 DEF h
  <1> QED
    BY <1>6

\* It ends where no entry before comes after the new one, and none from there
\* on comes before it.
LEMMA PlaceReturns ==
    ASSUME NEW n \in Nat, NEW R, Compatible(R, n), NEW g,
           g = [s \in Places(n) |-> PlaceTurn(R, g, s)], NEW s \in Places(n), s.low <= s.high,
           \A i \in 0 .. s.low - 1 : R[i] >= 0, \A i \in s.high .. n - 1 : R[i] <= 0
    PROVE  /\ g[s] \in 0 .. n
           /\ \A i \in 0 .. g[s] - 1 : R[i] >= 0
           /\ \A i \in g[s] .. n - 1 : R[i] <= 0
  <1> DEFINE Pre(x) == /\ x \in Places(n) /\ x.low <= x.high
                       /\ \A i \in 0 .. x.low - 1 : R[i] >= 0
                       /\ \A i \in x.high .. n - 1 : R[i] <= 0
             Post(p) == /\ p \in 0 .. n
                        /\ \A i \in 0 .. p - 1 : R[i] >= 0
                        /\ \A i \in p .. n - 1 : R[i] <= 0
             D == {d \in Nat : \E x \in Places(n) : Pre(x) /\ ~Post(g[x]) /\ d = x.high - x.low}
  <1>0. \A x \in Places(n) : x.low \in 0 .. n /\ x.high \in 0 .. n
    BY DEF Places
  <1>1. R \in [0 .. n - 1 -> Int] /\ \A i, j \in 0 .. n - 1 : i <= j => R[i] >= R[j]
    BY DEF Compatible
  <1>2. SUFFICES ASSUME ~Post(g[s]) PROVE FALSE
    OBVIOUS
  <1>3. Pre(s)
    OBVIOUS
  <1>4. s.high - s.low \in D
    <2>1. s.high - s.low \in Nat
      BY <1>0
    <2> QED
      BY <1>2, <1>3, <2>1
  <1>5. PICK d \in D : \A y \in D : d <= y
    <2>1. D \subseteq Nat /\ D # {}
      BY <1>4
    <2> HIDE DEF D
    <2> QED
      BY <2>1, NatMin
  <1>6. PICK x \in Places(n) : Pre(x) /\ ~Post(g[x]) /\ d = x.high - x.low
    BY <1>5
  <1>7. g[x] = PlaceTurn(R, g, x)
    OBVIOUS
  <1>8. ASSUME NEW y \in Places(n), Pre(y), y.high - y.low < d PROVE Post(g[y])
    <2>1. y.high - y.low \in Nat /\ d \in Nat
      BY <1>0, <1>5, <1>8
    <2>2. y.high - y.low \notin D
      <3> HIDE DEF D
      <3> QED
        BY <1>5, <1>8, <2>1
    <2> DEFINE e == y.high - y.low
    <2>3. e \in Nat /\ e \notin D /\ e = y.high - y.low
      BY <2>1, <2>2
    <2> HIDE DEF e, Pre, Post
    <2> QED
      BY <1>8, <2>3
  <1> HIDE DEF D
  <1>9. CASE ~ (x.low < x.high)
    <2>1. x.low = x.high /\ x.low \in 0 .. n
      BY <1>0, <1>6, <1>9
    <2>2. g[x] = x.low
      <3>1. x.low >= x.high
        BY <2>1
      <3> QED
        BY <1>7, <3>1 DEF PlaceTurn
    <2>3. Post(x.low)
      BY <1>6, <2>1
    <2> HIDE DEF Post
    <2> QED
      BY <1>6, <2>2, <2>3
  <1>10. CASE x.low < x.high
    <2>1. PICK m \in x.low .. x.high - 1 :
             /\ m = T!Middle(x.low, x.high) /\ m \in 0 .. n - 1
             /\ x.low \in 0 .. n /\ x.high \in 0 .. n
             /\ [low |-> x.low, high |-> m] \in Places(n)
             /\ [low |-> m + 1, high |-> x.high] \in Places(n)
      BY <1>10, PlacesShrink
    <2>2. R[m] \in Int
      BY <1>1, <2>1
    <2>3. ASSUME NEW i \in 0 .. n - 1 PROVE (i <= m => R[i] >= R[m]) /\ (m <= i => R[m] >= R[i])
                                            /\ R[i] \in Int
      BY <1>1, <2>1
    <2>4. CASE R[m] < 0
      <3> DEFINE y == [low |-> x.low, high |-> m]
      <3>1. y \in Places(n) /\ y.low = x.low /\ y.high = m
        BY <2>1
      <3> HIDE DEF y
      <3>2. \A i \in m .. n - 1 : R[i] <= 0
        BY <2>1, <2>2, <2>3, <2>4
      <3>3. Pre(y)
        BY <1>6, <2>1, <3>1, <3>2
      <3>4. y.high - y.low < d
        BY <1>6, <2>1, <3>1
      <3>5. g[x] = g[y]
        <4>1. m = T!Middle(x.low, x.high) /\ ~ (x.low >= x.high)
          BY <1>0, <1>10, <2>1
        <4>2. PlaceTurn(R, g, x) = g[y]
          BY <2>4, <4>1 DEF PlaceTurn, y
        <4> QED
          BY <1>7, <4>2
      <3> HIDE DEF Pre, Post
      <3> QED
        BY <1>6, <1>8, <3>1, <3>3, <3>4, <3>5
    <2>5. CASE R[m] > 0
      <3> DEFINE y == [low |-> m + 1, high |-> x.high]
      <3>1. y \in Places(n) /\ y.low = m + 1 /\ y.high = x.high
        BY <2>1
      <3> HIDE DEF y
      <3>2. \A i \in 0 .. m : R[i] >= 0
        BY <2>1, <2>2, <2>3, <2>5
      <3>3. Pre(y)
        BY <1>6, <2>1, <3>1, <3>2
      <3>4. y.high - y.low < d
        BY <1>6, <2>1, <3>1
      <3>5. g[x] = g[y]
        <4>1. m = T!Middle(x.low, x.high) /\ ~ (x.low >= x.high)
          BY <1>0, <1>10, <2>1
        <4>2. ~ (R[m] < 0)
          BY <2>2, <2>5
        <4>3. PlaceTurn(R, g, x) = g[y]
          BY <2>5, <4>1, <4>2 DEF PlaceTurn, y
        <4> QED
          BY <1>7, <4>3
      <3> HIDE DEF Pre, Post
      <3> QED
        BY <1>6, <1>8, <3>1, <3>3, <3>4, <3>5
    <2>6. CASE R[m] = 0
      <3>1. g[x] = m
        BY <1>7, <1>10, <2>1, <2>6 DEF PlaceTurn
      <3>2. Post(m)
        BY <2>1, <2>3, <2>6
      <3> HIDE DEF Post
      <3> QED
        BY <1>6, <3>1, <3>2
    <2> QED
      BY <2>2, <2>4, <2>5, <2>6
  <1> QED
    BY <1>9, <1>10
-----------------------------------------------------------------------------
\* Adjacent entries that do not fall make a sequence that does not fall.
LEMMA Monotone ==
    ASSUME NEW n \in Nat, NEW v \in [1 .. n -> Int], \A i \in 1 .. n - 1 : v[i] <= v[i + 1],
           NEW i \in 1 .. n, NEW j \in 1 .. n, i <= j
    PROVE  v[i] <= v[j]
  <1> DEFINE D == {d \in i .. n : v[d] < v[i]}
  <1>1. SUFFICES ASSUME D # {} PROVE FALSE
    <2>1. D = {}
      BY <1>1
    <2>2. j \notin D /\ j \in i .. n /\ v[i] \in Int /\ v[j] \in Int
      BY <2>1
    <2> QED
      BY <2>2
  <1>2. PICK d \in D : \A y \in D : d <= y
    <2>1. D \subseteq Nat
      OBVIOUS
    <2> HIDE DEF D
    <2> QED
      BY <1>1, <2>1, NatMin
  <1>3. d \in i .. n /\ v[d] < v[i] /\ v[i] \in Int /\ v[d] \in Int
    BY <1>2
  <1>4. d # i
    BY <1>3
  <1>5. d - 1 \in i .. n /\ d - 1 \in 1 .. n - 1 /\ (d - 1) + 1 = d
    BY <1>3, <1>4
  <1>6. v[d - 1] <= v[d] /\ v[d - 1] \in Int
    BY <1>5
  <1>7. d - 1 \in D
    BY <1>3, <1>5, <1>6
  <1>8. d <= d - 1
    <2> HIDE DEF D
    <2> QED
      BY <1>2, <1>7
  <1> QED
    BY <1>3, <1>8

\* s lists the elements of C, each once, by rising weight.
Lists(s, C, w) ==
    /\ s \in Seq(C)
    /\ \A c \in C : \E i \in 1 .. Len(s) : s[i] = c
    /\ \A i, j \in 1 .. Len(s) : s[i] = s[j] => i = j
    /\ \A i, j \in 1 .. Len(s) : i <= j => w[s[i]] <= w[s[j]]

\* The comparator compares weights.
Weighs(order, w, S) ==
    /\ w \in [S -> Int]
    /\ \A a, b \in S : order[a] \in [S -> Int] /\ order[a][b] = T!SignOf(w[a], w[b])

\* What it is to be a listing, with the types that go with it.
LEMMA ListsFacts ==
    ASSUME NEW s, NEW C, NEW w, Lists(s, C, w)
    PROVE  /\ s \in Seq(C) /\ Len(s) \in Nat /\ \A j \in 1 .. Len(s) : s[j] \in C
           /\ \A c \in C : \E i \in 1 .. Len(s) : s[i] = c
           /\ \A i, j \in 1 .. Len(s) : s[i] = s[j] => i = j
           /\ \A i, j \in 1 .. Len(s) : i <= j => w[s[i]] <= w[s[j]]
  <1>1. s \in Seq(C)
    BY DEF Lists
  <1>2. Len(s) \in Nat /\ \A j \in 1 .. Len(s) : s[j] \in C
    BY <1>1
  <1>3. \A c \in C : \E i \in 1 .. Len(s) : s[i] = c
    BY DEF Lists
  <1>4. \A i, j \in 1 .. Len(s) : s[i] = s[j] => i = j
    BY DEF Lists
  <1>5. \A i, j \in 1 .. Len(s) : i <= j => w[s[i]] <= w[s[j]]
    BY DEF Lists
  <1> QED
    BY <1>1, <1>2, <1>3, <1>4, <1>5

\* The entries of a listing are what it lists.
LEMMA ListsIds ==
    ASSUME NEW s, NEW C, NEW w, Lists(s, C, w)
    PROVE  T!Ids(s) = C
  <1>1. s \in Seq(C) /\ \A c \in C : \E i \in 1 .. Len(s) : s[i] = c
    BY DEF Lists
  <1>2. \A i \in 1 .. Len(s) : s[i] \in C
    BY <1>1
  <1> QED
    BY <1>1, <1>2 DEF T!Ids

\* A listing has as many entries as there are elements.
LEMMA ListsCardinality ==
    ASSUME NEW s, NEW C, NEW w, Lists(s, C, w)
    PROVE  IsFiniteSet(C) /\ Cardinality(C) = Len(s)
  <1> DEFINE n == Len(s)
  <1>1. n \in Nat /\ s \in [1 .. n -> C]
    BY DEF Lists
  <1>2. s \in Bijection(1 .. n, C)
    BY <1>1 DEF Lists, Bijection, Injection, Surjection, IsInjective
  <1>3. ExistsBijection(1 .. n, C)
    BY <1>2 DEF ExistsBijection
  <1>4. IsFiniteSet(1 .. n) /\ Cardinality(1 .. n) = n
    <2>1. n \in Nat
      BY <1>1
    <2> HIDE DEF n
    <2>2. IsFiniteSet(1 .. n) /\ Cardinality(1 .. n) = IF 1 > n THEN 0 ELSE n - 1 + 1
      BY <2>1, FS_Interval
    <2> QED
      BY <2>1, <2>2
  <1> HIDE DEF n
  <1>5. IsFiniteSet(C) /\ Cardinality(C) = n
    <2> DEFINE N == 1 .. n
    <2>1. ExistsBijection(N, C) /\ IsFiniteSet(N) /\ Cardinality(N) = n
      BY <1>3, <1>4 DEF n
    <2> HIDE DEF N
    <2> QED
      BY <2>1, FS_Bijection
  <1> QED
    BY <1>5 DEF n

\* A listing is sorted, as the comparator sees it.
LEMMA ListsSorted ==
    ASSUME NEW s, NEW C, NEW S, NEW w, NEW order, C \subseteq S, Lists(s, C, w),
           Weighs(order, w, S)
    PROVE  T!IsSorted(s, order)
  <1> SUFFICES ASSUME NEW i \in 1 .. Len(s) - 1 PROVE order[s[i]][s[i + 1]] <= 0
    BY DEF T!IsSorted
  <1>1. Len(s) \in Nat /\ \A j \in 1 .. Len(s) : s[j] \in S
    BY DEF Lists
  <1>2. i \in 1 .. Len(s) /\ i + 1 \in 1 .. Len(s) /\ i <= i + 1
    BY <1>1
  <1>3. w[s[i]] <= w[s[i + 1]]
    BY <1>2 DEF Lists
  <1>4. w[s[i]] \in Int /\ w[s[i + 1]] \in Int /\ order[s[i]][s[i + 1]] = T!SignOf(w[s[i]], w[s[i + 1]])
    BY <1>1, <1>2 DEF Weighs
  <1> QED
    BY <1>3, <1>4 DEF T!SignOf

\* The filter for an element falls along a listing.
LEMMA ListsFalls ==
    ASSUME NEW s, NEW C, NEW S, NEW w, NEW order, C \subseteq S, Lists(s, C, w),
           Weighs(order, w, S), NEW e \in S
    PROVE  s \in Seq(S) /\ order[e] \in [S -> Int] /\ FallsAlong(order[e], s)
  <1>1. s \in Seq(S) /\ Len(s) \in Nat /\ \A j \in 1 .. Len(s) : s[j] \in S
    BY DEF Lists
  <1>2. order[e] \in [S -> Int]
    BY DEF Weighs
  <1>3. ASSUME NEW i \in 1 .. Len(s), NEW j \in 1 .. Len(s), i <= j
        PROVE  order[e][s[i]] >= order[e][s[j]]
    <2>1. w[s[i]] <= w[s[j]]
      BY <1>3 DEF Lists
    <2>2. /\ w[e] \in Int /\ w[s[i]] \in Int /\ w[s[j]] \in Int
          /\ order[e][s[i]] = T!SignOf(w[e], w[s[i]]) /\ order[e][s[j]] = T!SignOf(w[e], w[s[j]])
      BY <1>1 DEF Weighs
    <2> QED
      BY <2>1, <2>2 DEF T!SignOf
  <1> QED
    BY <1>1, <1>2, <1>3 DEF FallsAlong

\* array_sorted_insert puts the entry between those that it does not come
\* before and those that it does not come after.
LEMMA SortedInsertPlaces ==
    ASSUME NEW S, NEW entries \in Seq(S), NEW entry \in S, NEW order,
           order[entry] \in [S -> Int], FallsAlong(order[entry], entries)
    PROVE  \E dest \in 0 .. Len(entries) :
             /\ T!SortedInsert(entries, entry, order)
                  = SubSeq(entries, 1, dest) \o <<entry>> \o SubSeq(entries, dest + 1, Len(entries))
             /\ \A i \in 1 .. dest : order[entry][entries[i]] >= 0
             /\ \A i \in dest + 1 .. Len(entries) : order[entry][entries[i]] <= 0
  <1> DEFINE n == Len(entries)
             R == [p \in 0 .. n - 1 |-> order[entry][entries[p + 1]]]
             place[s \in [low: 0 .. n, high: 0 .. n]] ==
               LET m == T!Middle(s.low, s.high)
               IN  IF s.low >= s.high THEN s.low
                   ELSE IF R[m] < 0 THEN place[[low |-> s.low, high |-> m]]
                   ELSE IF R[m] > 0 THEN place[[low |-> m + 1, high |-> s.high]]
                   ELSE m
             dest == place[[low |-> 0, high |-> n]]
  <1>1. T!SortedInsert(entries, entry, order)
          = SubSeq(entries, 1, dest) \o <<entry>> \o SubSeq(entries, dest + 1, n)
    BY DEF T!SortedInsert
  <1>2. n \in Nat
    OBVIOUS
  <1>3. Compatible(R, n)
    <2>1. Compatible(Results(entries, order[entry], FALSE), Len(entries))
      BY ResultsCompatible
    <2>2. R = Results(entries, order[entry], FALSE)
      BY DEF Results
    <2> HIDE DEF R
    <2> QED
      BY <2>1, <2>2
  <1>4. \E g : g = [s \in Places(n) |-> PlaceTurn(R, g, s)]
    <2> HIDE DEF R, n
    <2> QED
      BY <1>2, PlaceExists
  <1>5. place = [s \in Places(n) |-> PlaceTurn(R, place, s)]
    BY <1>4 DEF PlaceTurn, Places
  <1>6. PICK s \in Places(n) : s = [low |-> 0, high |-> n]
    <2>1. [low |-> 0, high |-> n] \in Places(n)
      BY <1>2 DEF Places
    <2> QED
      BY <2>1
  <1>7. s.low = 0 /\ s.high = n /\ dest = place[s]
    BY <1>6
  <1>8. \A p \in 0 .. n - 1 : R[p] = order[entry][entries[p + 1]]
    OBVIOUS
  <1> HIDE DEF R, n, place, dest
  <1>9. /\ dest \in 0 .. n
        /\ \A i \in 0 .. dest - 1 : R[i] >= 0
        /\ \A i \in dest .. n - 1 : R[i] <= 0
    <2>1. /\ s.low <= s.high /\ \A i \in 0 .. s.low - 1 : R[i] >= 0
          /\ \A i \in s.high .. n - 1 : R[i] <= 0
      BY <1>2, <1>7
    <2> QED
      BY <1>2, <1>3, <1>5, <1>7, <2>1, PlaceReturns
  <1>10. ASSUME NEW i \in 1 .. dest PROVE order[entry][entries[i]] >= 0
    <2>1. i - 1 \in 0 .. dest - 1 /\ i - 1 \in 0 .. n - 1 /\ (i - 1) + 1 = i
      BY <1>2, <1>9
    <2> QED
      BY <1>8, <1>9, <2>1
  <1>11. ASSUME NEW i \in dest + 1 .. n PROVE order[entry][entries[i]] <= 0
    <2>1. i - 1 \in dest .. n - 1 /\ i - 1 \in 0 .. n - 1 /\ (i - 1) + 1 = i
      BY <1>2, <1>9
    <2> QED
      BY <1>8, <1>9, <2>1
  <1> QED
    BY <1>1, <1>9, <1>10, <1>11 DEF n

\* array_sorted_insert enters a new element into a listing.
LEMMA InsertLists ==
    ASSUME NEW s, NEW C, NEW S, NEW w, NEW order, C \subseteq S, Lists(s, C, w),
           Weighs(order, w, S), NEW e \in S, e \notin C
    PROVE  Lists(T!SortedInsert(s, e, order), C \cup {e}, w)
  <1> DEFINE n == Len(s)
             x == T!SortedInsert(s, e, order)
  <1>1. /\ s \in Seq(C) /\ n \in Nat /\ \A j \in 1 .. n : s[j] \in C /\ s[j] \in S
        /\ \A c \in C : \E i \in 1 .. n : s[i] = c
        /\ \A i, j \in 1 .. n : s[i] = s[j] => i = j
        /\ \A i, j \in 1 .. n : i <= j => w[s[i]] <= w[s[j]]
    <2>1. /\ s \in Seq(C) /\ \A c \in C : \E i \in 1 .. n : s[i] = c
          /\ \A i, j \in 1 .. n : s[i] = s[j] => i = j
          /\ \A i, j \in 1 .. n : i <= j => w[s[i]] <= w[s[j]]
      BY DEF Lists
    <2>2. n \in Nat /\ \A j \in 1 .. n : s[j] \in C
      BY <2>1
    <2> QED
      BY <2>1, <2>2
  <1>2. s \in Seq(S) /\ order[e] \in [S -> Int] /\ FallsAlong(order[e], s)
    BY ListsFalls
  <1>3. PICK dest \in 0 .. n :
          /\ x = SubSeq(s, 1, dest) \o <<e>> \o SubSeq(s, dest + 1, n)
          /\ \A i \in 1 .. dest : order[e][s[i]] >= 0
          /\ \A i \in dest + 1 .. n : order[e][s[i]] <= 0
    BY <1>2, SortedInsertPlaces
  <1>4. /\ x \in Seq(C \cup {e}) /\ Len(x) = n + 1
        /\ \A i \in 1 .. n + 1 :
             x[i] = IF i <= dest THEN s[i] ELSE IF i = dest + 1 THEN e ELSE s[i - 1]
    <2> DEFINE a == SubSeq(s, 1, dest)
               b == SubSeq(s, dest + 1, n)
    <2>1. a \in Seq(C \cup {e}) /\ Len(a) = dest /\ \A i \in 1 .. dest : a[i] = s[i]
      BY <1>1
    <2>2. b \in Seq(C \cup {e}) /\ Len(b) = n - dest /\ \A i \in 1 .. n - dest : b[i] = s[dest + i]
      BY <1>1
    <2>3. <<e>> \in Seq(C \cup {e}) /\ Len(<<e>>) = 1 /\ <<e>>[1] = e
      OBVIOUS
    <2> HIDE DEF a, b, n, x
    <2>4. /\ a \o <<e>> \in Seq(C \cup {e}) /\ Len(a \o <<e>>) = dest + 1
          /\ \A i \in 1 .. dest + 1 : (a \o <<e>>)[i] = IF i <= dest THEN s[i] ELSE e
      <3>1. PICK y : y = a \o <<e>>
        OBVIOUS
      <3>2. y \in Seq(C \cup {e}) /\ Len(y) = dest + 1
        BY <1>1, <2>1, <2>3, <3>1
      <3>3. ASSUME NEW i \in 1 .. dest + 1 PROVE y[i] = IF i <= dest THEN s[i] ELSE e
        <4>1. CASE i <= dest
          <5>1. i \in 1 .. dest
            BY <1>1, <4>1
          <5>2. y[i] = a[i]
            BY <1>1, <2>1, <2>3, <3>1, <5>1
          <5> QED
            BY <2>1, <4>1, <5>1, <5>2
        <4>2. CASE ~ (i <= dest)
          <5>1. i = dest + 1
            BY <1>1, <4>2
          <5>2. y[dest + 1] = e
            BY <1>1, <2>1, <2>3, <3>1
          <5> QED
            BY <4>2, <5>1, <5>2
        <4> QED
          BY <4>1, <4>2
      <3> QED
        BY <3>1, <3>2, <3>3
    <2>5. PICK c : c = a \o <<e>>
      OBVIOUS
    <2>6. x = c \o b
      BY <1>3, <2>5 DEF a, b, n, x
    <2>7. c \in Seq(C \cup {e}) /\ Len(c) = dest + 1
          /\ \A i \in 1 .. dest + 1 : c[i] = IF i <= dest THEN s[i] ELSE e
      BY <2>4, <2>5
    <2> HIDE DEF x, n
    <2>8. x \in Seq(C \cup {e}) /\ Len(x) = n + 1
      BY <1>1, <2>2, <2>6, <2>7
    <2>9. ASSUME NEW i \in 1 .. n + 1
          PROVE  x[i] = IF i <= dest THEN s[i] ELSE IF i = dest + 1 THEN e ELSE s[i - 1]
      <3>1. CASE i <= dest + 1
        <4>1. i \in 1 .. dest + 1 /\ x[i] = c[i]
          BY <1>1, <2>2, <2>6, <2>7, <3>1
        <4> QED
          BY <1>1, <2>7, <3>1, <4>1
      <3>2. CASE ~ (i <= dest + 1)
        <4>1. i - (dest + 1) \in 1 .. n - dest /\ dest + (i - (dest + 1)) = i - 1
          <5>1. n \in Int /\ dest \in Int /\ i \in Int /\ i <= n + 1 /\ dest + 1 < i
            BY <1>1, <3>2
          <5> QED
            BY <5>1
        <4>2. x[i] = b[i - (dest + 1)]
          <5>1. i \in 1 .. Len(c) + Len(b) /\ ~ (i <= Len(c)) /\ i - Len(c) = i - (dest + 1)
            BY <1>1, <2>2, <2>7, <3>2
          <5> QED
            BY <2>2, <2>6, <2>7, <5>1
        <4>3. b[i - (dest + 1)] = s[i - 1]
          BY <2>2, <4>1
        <4> QED
          BY <1>1, <3>2, <4>2, <4>3
      <3> QED
        BY <3>1, <3>2
    <2> QED
      BY <2>8, <2>9
  <1>5. w[e] \in Int /\ \A j \in 1 .. n : w[s[j]] \in Int /\ order[e][s[j]] = T!SignOf(w[e], w[s[j]])
    BY <1>1 DEF Weighs
  <1>6. \A i \in 1 .. dest : w[s[i]] <= w[e]
    <2> SUFFICES ASSUME NEW i \in 1 .. dest PROVE w[s[i]] <= w[e]
      OBVIOUS
    <2>1. i \in 1 .. n /\ order[e][s[i]] >= 0
      BY <1>1, <1>3
    <2> QED
      BY <1>5, <2>1 DEF T!SignOf
  <1>7. \A i \in dest + 1 .. n : w[e] <= w[s[i]]
    <2> SUFFICES ASSUME NEW i \in dest + 1 .. n PROVE w[e] <= w[s[i]]
      OBVIOUS
    <2>1. i \in 1 .. n /\ order[e][s[i]] <= 0
      BY <1>1, <1>3
    <2> QED
      BY <1>5, <2>1 DEF T!SignOf
  <1> HIDE DEF n, x
  <1>8. ASSUME NEW c \in C \cup {e} PROVE \E i \in 1 .. n + 1 : x[i] = c
    <2>1. CASE c = e
      <3>1. dest + 1 \in 1 .. n + 1 /\ ~ (dest + 1 <= dest)
        BY <1>1
      <3>2. x[dest + 1] = e
        BY <1>4, <3>1
      <3> QED
        BY <2>1, <3>1, <3>2
    <2>2. CASE c \in C
      <3>1. PICK i \in 1 .. n : s[i] = c
        BY <1>1, <2>2
      <3>2. CASE i <= dest
        <4>1. i \in 1 .. n + 1 /\ x[i] = s[i]
          BY <1>1, <1>4, <3>2
        <4> QED
          BY <3>1, <4>1
      <3>3. CASE ~ (i <= dest)
        <4>1. i + 1 \in 1 .. n + 1 /\ ~ (i + 1 <= dest) /\ i + 1 # dest + 1 /\ (i + 1) - 1 = i
          BY <1>1, <3>3
        <4>2. x[i + 1] = s[i]
          BY <1>4, <4>1
        <4> QED
          BY <3>1, <4>1, <4>2
      <3> QED
        BY <3>2, <3>3
    <2> QED
      BY <2>1, <2>2
  <1>9. ASSUME NEW i \in 1 .. n + 1, NEW j \in 1 .. n + 1, i < j
        PROVE  x[i] # x[j] /\ w[x[i]] <= w[x[j]]
    <2>1. CASE j <= dest
      <3>1. i \in 1 .. n /\ j \in 1 .. n /\ i <= dest
        BY <1>1, <1>9, <2>1
      <3>2. x[i] = s[i] /\ x[j] = s[j]
        BY <1>4, <1>9, <2>1, <3>1
      <3>3. s[i] # s[j] /\ w[s[i]] <= w[s[j]]
        BY <1>1, <1>9, <3>1
      <3> QED
        BY <3>2, <3>3
    <2>2. CASE j = dest + 1
      <3>1. i \in 1 .. n /\ i <= dest /\ i \in 1 .. dest /\ x[i] = s[i] /\ x[j] = e
        BY <1>1, <1>4, <1>9, <2>2
      <3> QED
        BY <1>1, <1>6, <3>1
    <2>3. CASE dest + 1 < j
      <3>1. j - 1 \in 1 .. n /\ j - 1 \in dest + 1 .. n /\ x[j] = s[j - 1]
        BY <1>1, <1>4, <2>3
      <3>2. CASE i <= dest
        <4>1. i \in 1 .. n /\ x[i] = s[i] /\ i < j - 1
          BY <1>1, <1>4, <2>3, <3>2
        <4> QED
          BY <1>1, <3>1, <4>1
      <3>3. CASE i = dest + 1
        <4>1. x[i] = e
          BY <1>4, <3>3
        <4> QED
          BY <1>1, <1>7, <3>1, <4>1
      <3>4. CASE dest + 1 < i
        <4>1. i - 1 \in 1 .. n /\ x[i] = s[i - 1] /\ i - 1 < j - 1
          BY <1>1, <1>4, <1>9, <3>4
        <4> QED
          BY <1>1, <3>1, <4>1
      <3> QED
        BY <1>1, <3>2, <3>3, <3>4
    <2> QED
      BY <1>1, <2>1, <2>2, <2>3
  <1>10. ASSUME NEW i \in 1 .. n + 1 PROVE w[x[i]] \in Int
    <2>1. x[i] \in S
      BY <1>1, <1>4
    <2> QED
      BY <2>1 DEF Weighs
  <1>11. ASSUME NEW i \in 1 .. n + 1, NEW j \in 1 .. n + 1, x[i] = x[j] PROVE i = j
    BY <1>9, <1>11
  <1>12. ASSUME NEW i \in 1 .. n + 1, NEW j \in 1 .. n + 1, i <= j PROVE w[x[i]] <= w[x[j]]
    BY <1>9, <1>10, <1>12
  <1> QED
    BY <1>4, <1>8, <1>11, <1>12 DEF Lists, x

\* array_sort makes a listing of a listing, whatever it was sorted by before.
LEMMA SortsLists ==
    ASSUME NEW s, NEW C, NEW S, NEW v, NEW w, NEW order, C \subseteq S, Lists(s, C, v),
           Weighs(order, w, S), NEW x \in T!Sorts(s, order)
    PROVE  Lists(x, C, w)
  <1> DEFINE n == Len(s)
  <1>1. /\ n \in Nat /\ \A j \in 1 .. n : s[j] \in C /\ s[j] \in S
        /\ \A c \in C : \E i \in 1 .. n : s[i] = c
        /\ \A i, j \in 1 .. n : s[i] = s[j] => i = j
    BY DEF Lists
  <1>2. PICK p \in [1 .. n -> 1 .. n] :
          /\ \A i, j \in 1 .. n : p[i] = p[j] => i = j
          /\ x = [i \in 1 .. n |-> s[p[i]]]
          /\ T!IsSorted(x, order)
    BY DEF T!Sorts
  <1> HIDE DEF n
  <1>3. x \in Seq(C) /\ Len(x) = n /\ \A i \in 1 .. n : x[i] = s[p[i]] /\ p[i] \in 1 .. n /\ x[i] \in S
    <2>1. \A i \in 1 .. n : x[i] = s[p[i]] /\ p[i] \in 1 .. n
      BY <1>2
    <2>2. \A i \in 1 .. n : x[i] \in C /\ x[i] \in S
      BY <1>1, <2>1
    <2>3. x = [i \in 1 .. n |-> x[i]]
      BY <1>2
    <2> HIDE DEF n
    <2>4. x \in [1 .. n -> C]
      BY <2>2, <2>3
    <2>5. x \in Seq(C) /\ Len(x) = n
      BY <1>1, <2>4
    <2> QED
      BY <2>1, <2>2, <2>5
  <1>4. \A k \in 1 .. n : \E i \in 1 .. n : p[i] = k
    <2> DEFINE N == 1 .. n
               P == {p[i] : i \in N}
    <2>1. IsFiniteSet(N) /\ Cardinality(N) = n
      BY <1>1, FS_Interval
    <2>2. p \in Bijection(N, P)
      <3>1. p \in [N -> P]
        BY <1>2
      <3> QED
        BY <1>2, <3>1 DEF Bijection, Injection, Surjection, IsInjective
    <2>3. ExistsBijection(N, P)
      BY <2>2 DEF ExistsBijection
    <2>4. P \subseteq N
      BY <1>2
    <2> HIDE DEF N, P
    <2>5. IsFiniteSet(P) /\ Cardinality(P) = Cardinality(N)
      BY <2>1, <2>3, FS_Bijection
    <2>6. P = N
      BY <2>1, <2>4, <2>5, FS_Subset
    <2> QED
      BY <2>6 DEF N, P
  <1>5. ASSUME NEW c \in C PROVE \E i \in 1 .. n : x[i] = c
    <2>1. PICK k \in 1 .. n : s[k] = c
      BY <1>1
    <2>2. PICK i \in 1 .. n : p[i] = k
      BY <1>4
    <2> QED
      BY <1>3, <2>1, <2>2
  <1>6. ASSUME NEW i \in 1 .. n, NEW j \in 1 .. n, x[i] = x[j] PROVE i = j
    <2>1. p[i] \in 1 .. n /\ p[j] \in 1 .. n /\ s[p[i]] = s[p[j]]
      BY <1>3, <1>6
    <2>2. p[i] = p[j]
      <3>1. \A k, l \in 1 .. n : s[k] = s[l] => k = l
        BY <1>1
      <3> QED
        BY <2>1, <3>1
    <2> QED
      BY <1>2, <2>2
  <1> DEFINE u == [i \in 1 .. n |-> w[x[i]]]
  <1>7. u \in [1 .. n -> Int]
    BY <1>3 DEF Weighs
  <1>8. ASSUME NEW i \in 1 .. n - 1 PROVE u[i] <= u[i + 1]
    <2>1. i \in 1 .. n /\ i + 1 \in 1 .. n
      BY <1>1
    <2>2. order[x[i]][x[i + 1]] <= 0
      BY <1>2, <1>3 DEF T!IsSorted
    <2>3. /\ w[x[i]] \in Int /\ w[x[i + 1]] \in Int
          /\ order[x[i]][x[i + 1]] = T!SignOf(w[x[i]], w[x[i + 1]])
      BY <1>3, <2>1 DEF Weighs
    <2>4. w[x[i]] <= w[x[i + 1]]
      BY <2>2, <2>3 DEF T!SignOf
    <2> QED
      BY <2>1, <2>4
  <1>9. ASSUME NEW i \in 1 .. n, NEW j \in 1 .. n, i <= j PROVE w[x[i]] <= w[x[j]]
    <2> HIDE DEF u
    <2>1. u[i] <= u[j]
      BY <1>1, <1>7, <1>8, <1>9, Monotone
    <2> QED
      BY <2>1 DEF u
  <1> QED
    BY <1>3, <1>5, <1>6, <1>9 DEF Lists

\* An element that none outweighs goes to the end of a listing.
LEMMA AppendLists ==
    ASSUME NEW x, NEW C, NEW w, Lists(x, C, w), NEW e, e \notin C, w[e] \in Int,
           \A c \in C : w[c] <= w[e]
    PROVE  Lists(Append(x, e), C \cup {e}, w)
  <1> DEFINE n == Len(x)
             y == Append(x, e)
  <1>1. /\ x \in Seq(C) /\ n \in Nat /\ \A j \in 1 .. n : x[j] \in C
        /\ \A c \in C : \E i \in 1 .. n : x[i] = c
        /\ \A i, j \in 1 .. n : x[i] = x[j] => i = j
        /\ \A i, j \in 1 .. n : i <= j => w[x[i]] <= w[x[j]]
    BY ListsFacts
  <1>2. /\ y \in Seq(C \cup {e}) /\ Len(y) = n + 1
        /\ \A i \in 1 .. n : y[i] = x[i]
        /\ y[n + 1] = e
    <2>1. x \in Seq(C \cup {e})
      BY <1>1
    <2> QED
      BY <2>1
  <1> HIDE DEF n, y
  <1>3. ASSUME NEW c \in C \cup {e} PROVE \E i \in 1 .. n + 1 : y[i] = c
    <2>1. CASE c = e
      BY <1>1, <1>2, <2>1
    <2>2. CASE c \in C
      <3>1. PICK i \in 1 .. n : x[i] = c
        BY <1>1, <2>2
      <3>2. i \in 1 .. n + 1
        BY <1>1
      <3> QED
        BY <1>2, <3>1, <3>2
    <2> QED
      BY <2>1, <2>2
  <1>4. ASSUME NEW i \in 1 .. n + 1, NEW j \in 1 .. n + 1
        PROVE  (y[i] = y[j] => i = j) /\ (i <= j => w[y[i]] <= w[y[j]])
    <2>1. CASE i \in 1 .. n /\ j \in 1 .. n
      BY <1>1, <1>2, <2>1
    <2>2. CASE i \in 1 .. n /\ j = n + 1
      BY <1>1, <1>2, <2>2
    <2>3. CASE i = n + 1 /\ j \in 1 .. n
      BY <1>1, <1>2, <2>3
    <2>4. CASE i = n + 1 /\ j = n + 1
      BY <1>1, <1>2, <2>4
    <2>5. (i \in 1 .. n \/ i = n + 1) /\ (j \in 1 .. n \/ j = n + 1)
      BY <1>1
    <2> QED
      BY <2>1, <2>2, <2>3, <2>4, <2>5
  <1> QED
    BY <1>2, <1>3, <1>4 DEF Lists, y

\* Nothing is listed by nothing.
LEMMA EmptyLists ==
    ASSUME NEW w
    PROVE  Lists(<<>>, {}, w)
  BY DEF Lists

\* One turn of the compaction, after what g has kept.
CompactTurn(s, gone, g, i) ==
    IF i = 0 THEN <<>> ELSE IF s[i] \in gone THEN g[i - 1] ELSE Append(g[i - 1], s[i])

Compacted(s, gone, n, g) == g = [i \in 0 .. n |-> CompactTurn(s, gone, g, i)]

\* The compaction is well defined.
LEMMA CompactExists ==
    ASSUME NEW n \in Nat, NEW s, NEW gone
    PROVE  \E g : Compacted(s, gone, n, g)
  <1> USE DEF CompactTurn
  <1> DEFINE Turned(g, i) == CompactTurn(s, gone, g, i)
             Upto(d, g) == \A i \in 0 .. d : g[i] = Turned(g, i)
             D == {d \in 0 .. n : ~ \E g : Upto(d, g)}
  <1>1. D = {}
    <2> SUFFICES ASSUME D # {} PROVE FALSE
      OBVIOUS
    <2>1. PICK d \in D : \A y \in D : d <= y
      <3>1. D \subseteq Nat
        OBVIOUS
      <3> HIDE DEF D
      <3> QED
        BY <3>1, NatMin
    <2>2. d \in 0 .. n /\ ~ \E g : Upto(d, g)
      BY <2>1
    <2>3. CASE d = 0
      <3> DEFINE g == [i \in 0 .. 0 |-> <<>>]
      <3>1. Upto(0, g)
        OBVIOUS
      <3> QED
        BY <2>2, <2>3, <3>1
    <2>4. CASE d # 0
      <3>1. d - 1 \in 0 .. n /\ d - 1 \notin D
        <4>1. d - 1 \in 0 .. n /\ ~ (d <= d - 1)
          BY <2>2, <2>4
        <4> HIDE DEF D
        <4> QED
          BY <2>1, <4>1
      <3>2. PICK g : Upto(d - 1, g)
        BY <3>1
      <3> DEFINE h == [i \in 0 .. n |-> Turned(g, i)]
      <3>3. ASSUME NEW i \in 0 .. d PROVE h[i] = Turned(h, i)
        <4>1. i \in 0 .. n /\ h[i] = Turned(g, i)
          BY <2>2
        <4>2. CASE i = 0
          BY <4>1, <4>2
        <4>3. CASE i # 0
          <5>1. i - 1 \in 0 .. d - 1 /\ i - 1 \in 0 .. n
            BY <2>2, <4>3
          <5>2. h[i - 1] = Turned(g, i - 1) /\ g[i - 1] = Turned(g, i - 1)
            BY <3>2, <5>1
          <5> HIDE DEF h
          <5> QED
            BY <4>1, <4>3, <5>2
        <4> QED
          BY <4>2, <4>3
      <3> HIDE DEF h
      <3>4. Upto(d, h)
        BY <3>3
      <3> QED
        BY <2>2, <3>4
    <2> QED
      BY <2>3, <2>4
  <1>2. PICK g : Upto(n, g)
    <2>1. n \in 0 .. n
      OBVIOUS
    <2> QED
      BY <1>1, <2>1
  <1> DEFINE h == [i \in 0 .. n |-> g[i]]
  <1>3. ASSUME NEW i \in 0 .. n PROVE g[i] = Turned(h, i)
    <2>1. g[i] = Turned(g, i)
      BY <1>2
    <2>2. i = 0 \/ (i - 1 \in 0 .. n /\ h[i - 1] = g[i - 1])
      OBVIOUS
    <2> HIDE DEF h
    <2> QED
      BY <2>1, <2>2
  <1>4. h = [i \in 0 .. n |-> Turned(h, i)]
    <2>1. h = [i \in 0 .. n |-> g[i]]
      OBVIOUS
    <2> HIDE DEF h
    <2> QED
      BY <1>3, <2>1
  <1> HIDE DEF h
  <1> QED
    BY <1>4 DEF Compacted

\* array_delete leaves a listing of what was not deleted.
LEMMA CompactLists ==
    ASSUME NEW s, NEW C, NEW S, NEW w, C \subseteq S, w \in [S -> Int], Lists(s, C, w), NEW gone
    PROVE  Lists(T!Compact(s, gone), C \ gone, w)
  <1> DEFINE n == Len(s)
             kept[i \in 0 .. Len(s)] ==
               IF i = 0 THEN <<>>
               ELSE IF s[i] \in gone THEN kept[i - 1]
               ELSE Append(kept[i - 1], s[i])
             Upto(i) == {s[k] : k \in 1 .. i} \ gone
             D == {i \in 0 .. n : ~ Lists(kept[i], Upto(i), w)}
  <1>1. T!Compact(s, gone) = kept[n]
    BY DEF T!Compact
  <1>2. /\ n \in Nat /\ \A j \in 1 .. n : s[j] \in C /\ w[s[j]] \in Int
        /\ \A c \in C : \E i \in 1 .. n : s[i] = c
        /\ \A i, j \in 1 .. n : s[i] = s[j] => i = j
        /\ \A i, j \in 1 .. n : i <= j => w[s[i]] <= w[s[j]]
    <2> HIDE DEF kept, Upto, D
    <2>1. /\ n \in Nat /\ \A j \in 1 .. n : s[j] \in C
          /\ \A c \in C : \E i \in 1 .. n : s[i] = c
          /\ \A i, j \in 1 .. n : s[i] = s[j] => i = j
          /\ \A i, j \in 1 .. n : i <= j => w[s[i]] <= w[s[j]]
      BY ListsFacts
    <2> HIDE DEF n
    <2> QED
      BY <2>1
  <1>3. kept = [i \in 0 .. n |-> CompactTurn(s, gone, kept, i)]
    <2>1. \E g : g = [i \in 0 .. n |-> CompactTurn(s, gone, g, i)]
      <3> HIDE DEF kept, D, Upto, n
      <3>1. n \in Nat
        BY <1>2
      <3>2. \E g : Compacted(s, gone, n, g)
        BY <3>1, CompactExists
      <3> QED
        BY <3>2 DEF Compacted
    <2> QED
      BY <2>1 DEF CompactTurn
  <1> HIDE DEF kept
  <1>4. D = {}
    <2> SUFFICES ASSUME D # {} PROVE FALSE
      OBVIOUS
    <2>1. PICK d \in D : \A y \in D : d <= y
      <3>1. D \subseteq Nat
        BY <1>2
      <3> HIDE DEF D
      <3> QED
        BY <3>1, NatMin
    <2>2. d \in 0 .. n /\ ~ Lists(kept[d], Upto(d), w)
      BY <2>1
    <2>3. CASE d = 0
      <3>1. kept[d] = <<>>
        BY <1>2, <1>3, <2>3 DEF CompactTurn
      <3>2. Upto(d) = {}
        BY <2>3
      <3> QED
        BY <2>2, <3>1, <3>2, EmptyLists
    <2>4. CASE d # 0
      <3>1. d - 1 \in 0 .. n /\ d \in 1 .. n /\ d - 1 \notin D
        <4>1. d - 1 \in 0 .. n /\ d \in 1 .. n /\ ~ (d <= d - 1)
          BY <1>2, <2>2, <2>4
        <4> HIDE DEF D
        <4> QED
          BY <2>1, <4>1
      <3>2. Lists(kept[d - 1], Upto(d - 1), w)
        BY <3>1
      <3>3. kept[d] = IF s[d] \in gone THEN kept[d - 1] ELSE Append(kept[d - 1], s[d])
        BY <1>3, <2>2, <2>4 DEF CompactTurn
      <3>4. 1 .. d = (1 .. d - 1) \cup {d}
        BY <1>2, <3>1
      <3>5. CASE s[d] \in gone
        <4>1. Upto(d) = Upto(d - 1)
          BY <3>4, <3>5
        <4> HIDE DEF Upto
        <4> QED
          BY <2>2, <3>2, <3>3, <3>5, <4>1
      <3>6. CASE s[d] \notin gone
        <4>1. Upto(d) = Upto(d - 1) \cup {s[d]}
          BY <3>4, <3>6
        <4>2. ASSUME NEW k \in 1 .. d - 1 PROVE s[k] # s[d] /\ w[s[k]] <= w[s[d]]
          <5>1. k \in 1 .. n /\ k <= d /\ k # d
            BY <1>2, <3>1
          <5> QED
            BY <1>2, <3>1, <5>1
        <4>3. s[d] \notin Upto(d - 1) /\ \A c \in Upto(d - 1) : w[c] <= w[s[d]]
          BY <4>2
        <4>4. w[s[d]] \in Int
          BY <1>2, <3>1
        <4> HIDE DEF Upto
        <4>5. Lists(Append(kept[d - 1], s[d]), Upto(d - 1) \cup {s[d]}, w)
          BY <3>2, <4>3, <4>4, AppendLists
        <4> QED
          BY <2>2, <3>3, <3>6, <4>1, <4>5
      <3> QED
        BY <3>5, <3>6
    <2> QED
      BY <2>3, <2>4
  <1>5. Lists(kept[n], Upto(n), w)
    <2>1. n \in 0 .. n
      BY <1>2
    <2> QED
      BY <1>4, <2>1
  <1>6. {s[k] : k \in 1 .. n} = C
    BY <1>2
  <1>7. Upto(n) = C \ gone
    BY <1>6
  <1> QED
    BY <1>1, <1>5, <1>7

\* One turn of a gathering, after what g has gathered.
CollectTurn(s, order, g, i) ==
    IF i = 0 THEN <<>> ELSE T!SortedInsert(g[i - 1], s[i], order)

Collected(s, order, n, g) == g = [i \in 0 .. n |-> CollectTurn(s, order, g, i)]

\* The gathering of entries is well defined.
LEMMA CollectExists ==
    ASSUME NEW n \in Nat, NEW s, NEW order
    PROVE  \E g : Collected(s, order, n, g)
  <1> USE DEF CollectTurn
  <1> DEFINE Turned(g, i) == CollectTurn(s, order, g, i)
             Upto(d, g) == \A i \in 0 .. d : g[i] = Turned(g, i)
             D == {d \in 0 .. n : ~ \E g : Upto(d, g)}
  <1>1. D = {}
    <2> SUFFICES ASSUME D # {} PROVE FALSE
      OBVIOUS
    <2>1. PICK d \in D : \A y \in D : d <= y
      <3>1. D \subseteq Nat
        OBVIOUS
      <3> HIDE DEF D
      <3> QED
        BY <3>1, NatMin
    <2>2. d \in 0 .. n /\ ~ \E g : Upto(d, g)
      BY <2>1
    <2>3. CASE d = 0
      <3> DEFINE g == [i \in 0 .. 0 |-> <<>>]
      <3>1. Upto(0, g)
        OBVIOUS
      <3> QED
        BY <2>2, <2>3, <3>1
    <2>4. CASE d # 0
      <3>1. d - 1 \in 0 .. n /\ d - 1 \notin D
        <4>1. d - 1 \in 0 .. n /\ ~ (d <= d - 1)
          BY <2>2, <2>4
        <4> HIDE DEF D
        <4> QED
          BY <2>1, <4>1
      <3>2. PICK g : Upto(d - 1, g)
        BY <3>1
      <3> DEFINE h == [i \in 0 .. n |-> Turned(g, i)]
      <3>3. ASSUME NEW i \in 0 .. d PROVE h[i] = Turned(h, i)
        <4>1. i \in 0 .. n /\ h[i] = Turned(g, i)
          BY <2>2
        <4>2. CASE i = 0
          BY <4>1, <4>2
        <4>3. CASE i # 0
          <5>1. i - 1 \in 0 .. d - 1 /\ i - 1 \in 0 .. n
            BY <2>2, <4>3
          <5>2. h[i - 1] = Turned(g, i - 1) /\ g[i - 1] = Turned(g, i - 1)
            BY <3>2, <5>1
          <5> HIDE DEF h
          <5> QED
            BY <4>1, <4>3, <5>2
        <4> QED
          BY <4>2, <4>3
      <3> HIDE DEF h
      <3>4. Upto(d, h)
        BY <3>3
      <3> QED
        BY <2>2, <3>4
    <2> QED
      BY <2>3, <2>4
  <1>2. PICK g : Upto(n, g)
    <2>1. n \in 0 .. n
      OBVIOUS
    <2> QED
      BY <1>1, <2>1
  <1> DEFINE h == [i \in 0 .. n |-> g[i]]
  <1>3. ASSUME NEW i \in 0 .. n PROVE g[i] = Turned(h, i)
    <2>1. g[i] = Turned(g, i)
      BY <1>2
    <2>2. i = 0 \/ (i - 1 \in 0 .. n /\ h[i - 1] = g[i - 1])
      OBVIOUS
    <2> HIDE DEF h
    <2> QED
      BY <2>1, <2>2
  <1>4. h = [i \in 0 .. n |-> Turned(h, i)]
    <2>1. h = [i \in 0 .. n |-> g[i]]
      OBVIOUS
    <2> HIDE DEF h
    <2> QED
      BY <1>3, <2>1
  <1> HIDE DEF h
  <1> QED
    BY <1>4 DEF Collected

\* Elements entered one by one in an empty sorted array become a listing.
LEMMA CollectLists ==
    ASSUME NEW s, NEW C, NEW S, NEW v, NEW w, NEW order, C \subseteq S, Lists(s, C, v),
           Weighs(order, w, S)
    PROVE  Lists(T!Collect(s, order), C, w)
  <1> DEFINE n == Len(s)
             results[i \in 0 .. Len(s)] ==
               IF i = 0 THEN <<>> ELSE T!SortedInsert(results[i - 1], s[i], order)
             Upto(i) == {s[k] : k \in 1 .. i}
             D == {i \in 0 .. n : ~ Lists(results[i], Upto(i), w)}
  <1>1. T!Collect(s, order) = results[n]
    BY DEF T!Collect
  <1>2. /\ n \in Nat /\ \A j \in 1 .. n : s[j] \in C
        /\ \A c \in C : \E i \in 1 .. n : s[i] = c
        /\ \A i, j \in 1 .. n : s[i] = s[j] => i = j
    BY DEF Lists
  <1>3. results = [i \in 0 .. n |-> CollectTurn(s, order, results, i)]
    <2>1. \E g : g = [i \in 0 .. n |-> CollectTurn(s, order, g, i)]
      <3> HIDE DEF results, D, Upto, n
      <3>1. n \in Nat
        BY <1>2
      <3>2. \E g : Collected(s, order, n, g)
        BY <3>1, CollectExists
      <3> QED
        BY <3>2 DEF Collected
    <2> QED
      BY <2>1 DEF CollectTurn
  <1> HIDE DEF results
  <1>4. D = {}
    <2> SUFFICES ASSUME D # {} PROVE FALSE
      OBVIOUS
    <2>1. PICK d \in D : \A y \in D : d <= y
      <3>1. D \subseteq Nat
        BY <1>2
      <3> HIDE DEF D
      <3> QED
        BY <3>1, NatMin
    <2>2. d \in 0 .. n /\ ~ Lists(results[d], Upto(d), w)
      BY <2>1
    <2>3. CASE d = 0
      <3>1. results[d] = <<>>
        BY <1>2, <1>3, <2>3 DEF CollectTurn
      <3>2. Upto(d) = {}
        BY <2>3
      <3> QED
        BY <2>2, <3>1, <3>2, EmptyLists
    <2>4. CASE d # 0
      <3>1. d - 1 \in 0 .. n /\ d \in 1 .. n /\ d - 1 \notin D
        <4>1. d - 1 \in 0 .. n /\ d \in 1 .. n /\ ~ (d <= d - 1)
          BY <1>2, <2>2, <2>4
        <4> HIDE DEF D
        <4> QED
          BY <2>1, <4>1
      <3>2. Lists(results[d - 1], Upto(d - 1), w)
        BY <3>1
      <3>3. results[d] = T!SortedInsert(results[d - 1], s[d], order)
        BY <1>3, <2>2, <2>4 DEF CollectTurn
      <3>4. 1 .. d = (1 .. d - 1) \cup {d}
        BY <1>2, <3>1
      <3>5. Upto(d) = Upto(d - 1) \cup {s[d]}
        BY <3>4
      <3>6. s[d] \notin Upto(d - 1) /\ Upto(d - 1) \subseteq S /\ s[d] \in S
        <4>1. ASSUME NEW k \in 1 .. d - 1 PROVE s[k] # s[d] /\ s[k] \in S
          <5>1. k \in 1 .. n /\ k # d
            BY <1>2, <3>1
          <5> QED
            BY <1>2, <3>1, <5>1
        <4> QED
          BY <1>2, <3>1, <4>1
      <3> HIDE DEF Upto
      <3>7. Lists(T!SortedInsert(results[d - 1], s[d], order), Upto(d - 1) \cup {s[d]}, w)
        BY <3>2, <3>6, InsertLists
      <3> QED
        BY <2>2, <3>3, <3>5, <3>7
    <2> QED
      BY <2>3, <2>4
  <1>5. Lists(results[n], Upto(n), w)
    <2>1. n \in 0 .. n
      BY <1>2
    <2> QED
      BY <1>4, <2>1
  <1>6. Upto(n) = C
    BY <1>2
  <1> QED
    BY <1>1, <1>5, <1>6

\* The first and the last entry of a listing that are hits.
Delimits(s, hits, w, first, last) ==
    /\ hits = {} => first = 0 /\ last = 0
    /\ hits # {} => /\ first \in 1 .. Len(s) /\ last \in 1 .. Len(s)
                    /\ s[first] \in hits /\ s[last] \in hits
                    /\ \A c \in hits : w[s[first]] <= w[c] /\ w[c] <= w[s[last]]

\* The stretch of a listing that a filter accepts lists what it accepts; the
\* ends of the stretch are what array_sorted_first and array_sorted_last find.
LEMMA MatchesLists ==
    ASSUME NEW s, NEW C, NEW S, NEW w, C \subseteq S, w \in [S -> Int], Lists(s, C, w),
           NEW f \in [S -> Int], FallsAlong(f, s), NEW hits, hits = {c \in C : f[c] = 0},
           NEW first, first = T!FindIndex(s, f, FALSE), NEW last, last = T!FindIndex(s, f, TRUE)
    PROVE  /\ Lists(T!Matches(s, f), hits, w)
           /\ Delimits(s, hits, w, first, last)
  <1> DEFINE n == Len(s)
             x == T!Matches(s, f)
  <1>0. s \in Seq(C) /\ n \in Nat /\ \A j \in 1 .. n : s[j] \in C
    BY DEF Lists
  <1>1. /\ s \in Seq(C) /\ n \in Nat /\ \A j \in 1 .. n : s[j] \in C
        /\ \A c \in C : \E i \in 1 .. n : s[i] = c
        /\ \A i, j \in 1 .. n : s[i] = s[j] => i = j
        /\ \A i, j \in 1 .. n : i <= j => w[s[i]] <= w[s[j]]
    BY <1>0 DEF Lists
  <1>2. PICK p \in 1 .. n + 1, q \in 0 .. n :
             /\ x = SubSeq(s, p, q) /\ p <= q + 1
             /\ \A i \in 1 .. n : f[s[i]] = 0 <=> p <= i /\ i <= q
             /\ first = IF p <= q THEN p ELSE 0
             /\ last = IF p <= q THEN q ELSE 0
    <2>1. s \in Seq(S)
      BY <1>0
    <2>2. \E p \in 1 .. Len(s) + 1, q \in 0 .. Len(s) :
             /\ T!Matches(s, f) = SubSeq(s, p, q) /\ p <= q + 1
             /\ \A i \in 1 .. Len(s) : f[s[i]] = 0 <=> p <= i /\ i <= q
             /\ T!FindIndex(s, f, FALSE) = IF p <= q THEN p ELSE 0
             /\ T!FindIndex(s, f, TRUE) = IF p <= q THEN q ELSE 0
      BY <2>1, MatchesHold
    <2> QED
      BY <2>2
  <1>3. Len(x) = q - p + 1 /\ \A i \in 1 .. q - p + 1 : x[i] = s[p + i - 1]
    <2>1. Len(SubSeq(s, p, q)) = q - p + 1
      BY <1>1, <1>2
    <2>2. \A i \in 1 .. q - p + 1 : SubSeq(s, p, q)[i] = s[p + i - 1]
      BY <1>1, <1>2
    <2> HIDE DEF x
    <2> QED
      BY <1>2, <2>1, <2>2
  <1> DEFINE k == q - p + 1
  <1>4. k \in Nat /\ \A i \in 1 .. k : p + i - 1 \in 1 .. n /\ p <= p + i - 1 /\ p + i - 1 <= q
    BY <1>1, <1>2
  <1> HIDE DEF n, x
  <1>5. \A i \in 1 .. k : x[i] \in hits
    <2> SUFFICES ASSUME NEW i \in 1 .. k PROVE x[i] \in hits
      OBVIOUS
    <2>1. p + i - 1 \in 1 .. n /\ p <= p + i - 1 /\ p + i - 1 <= q /\ x[i] = s[p + i - 1]
      BY <1>3, <1>4
    <2> QED
      BY <1>1, <1>2, <2>1
  <1>6. x \in Seq(hits)
    <2>1. x \in Seq(C)
      <3>1. SubSeq(s, p, q) \in Seq(C)
        BY <1>1, <1>2 DEF n
      <3> QED
        BY <1>2, <3>1
    <2>2. x = [i \in 1 .. k |-> x[i]]
      BY <1>3, <2>1
    <2> HIDE DEF k
    <2>3. [i \in 1 .. k |-> x[i]] \in Seq(hits)
      BY <1>4, <1>5
    <2> QED
      BY <2>2, <2>3
  <1>7. ASSUME NEW c \in hits PROVE \E i \in 1 .. n : s[i] = c /\ p <= i /\ i <= q
    <2>1. PICK i \in 1 .. n : s[i] = c
      BY <1>1
    <2>2. f[s[i]] = 0
      BY <2>1
    <2> QED
      BY <1>2, <2>1, <2>2
  <1>8. ASSUME NEW c \in hits PROVE \E i \in 1 .. k : x[i] = c
    <2>1. PICK j \in 1 .. n : s[j] = c /\ p <= j /\ j <= q
      BY <1>7
    <2>2. j - p + 1 \in 1 .. k /\ p + (j - p + 1) - 1 = j
      BY <1>1, <1>2, <2>1
    <2>3. x[j - p + 1] = s[j]
      BY <1>3, <2>2
    <2> QED
      BY <2>1, <2>2, <2>3
  <1>9. ASSUME NEW i \in 1 .. k, NEW j \in 1 .. k
        PROVE  (x[i] = x[j] => i = j) /\ (i <= j => w[x[i]] <= w[x[j]])
    <2>1. /\ p + i - 1 \in 1 .. n /\ x[i] = s[p + i - 1]
          /\ p + j - 1 \in 1 .. n /\ x[j] = s[p + j - 1]
      BY <1>3, <1>4
    <2>2. (p + i - 1 = p + j - 1 => i = j) /\ (i <= j => p + i - 1 <= p + j - 1)
      BY <1>2
    <2>3. s[p + i - 1] = s[p + j - 1] => p + i - 1 = p + j - 1
      BY <1>1, <2>1
    <2>4. p + i - 1 <= p + j - 1 => w[s[p + i - 1]] <= w[s[p + j - 1]]
      BY <1>1, <2>1
    <2> QED
      BY <2>1, <2>2, <2>3, <2>4
  <1>10. Lists(x, hits, w)
    BY <1>3, <1>6, <1>8, <1>9 DEF Lists
  <1>11. CASE p <= q
    <2>1. p \in 1 .. n /\ q \in 1 .. n /\ first = p /\ last = q
      <3>1. n \in Nat /\ p \in Int /\ q \in Int
        BY <1>1
      <3>2. p \in 1 .. n /\ q \in 1 .. n
        BY <1>11, <3>1
      <3>3. first = p /\ last = q
        BY <1>2, <1>11
      <3> QED
        BY <3>2, <3>3
    <2>2. s[p] \in hits /\ s[q] \in hits
      BY <1>1, <1>2, <1>11, <2>1
    <2>3. ASSUME NEW c \in hits PROVE w[s[p]] <= w[c] /\ w[c] <= w[s[q]]
      <3>1. PICK i \in 1 .. n : s[i] = c /\ p <= i /\ i <= q
        BY <1>7
      <3> QED
        BY <1>1, <2>1, <3>1
    <2> QED
      BY <1>10, <2>1, <2>2, <2>3 DEF x, n, Delimits
  <1>12. CASE ~ (p <= q)
    <2>1. first = 0 /\ last = 0
      BY <1>2, <1>12
    <2>2. hits = {}
      BY <1>2, <1>7, <1>12
    <2> QED
      BY <1>10, <2>1, <2>2 DEF x, Delimits
  <1> QED
    BY <1>11, <1>12
-----------------------------------------------------------------------------
\* What the index i compares of the rows `all`.
KeyIn(all, i) == [id \in 1 .. Len(all) |-> IF i = T!Primary THEN all[id].key ELSE all[id].val]

\* Both indexes list the live rows, by what they compare, and no two live rows
\* share a key.
TableInv ==
    /\ rows \in Seq(T!Row)
    /\ T!Live \subseteq 1 .. Len(rows)
    /\ indexes = <<indexes[1], indexes[2]>>
    /\ \A i \in 1 .. 2 : Lists(indexes[i], T!Live, KeyIn(rows, i))
    /\ \A a, b \in T!Live : rows[a].key = rows[b].key => a = b

\* What an index compares are numbers.
LEMMA KeyInInt ==
    ASSUME NEW all \in Seq(T!Row), NEW i
    PROVE  KeyIn(all, i) \in [1 .. Len(all) -> Int]
  <1> SUFFICES ASSUME NEW id \in 1 .. Len(all) PROVE all[id].key \in Int /\ all[id].val \in Int
    BY DEF KeyIn
  <1>1. all[id] \in T!Row
    OBVIOUS
  <1> QED
    BY <1>1, RowAssumption DEF T!Row

\* The comparators of the indexes compare that.
LEMMA CompareWeighs ==
    ASSUME NEW all \in Seq(T!Row), NEW i
    PROVE  Weighs(T!CompareIn(all, i), KeyIn(all, i), 1 .. Len(all))
  <1> DEFINE S == 1 .. Len(all)
             w == KeyIn(all, i)
             order == T!CompareIn(all, i)
  <1>1. w \in [S -> Int]
    BY KeyInInt
  <1>2. ASSUME NEW a \in S PROVE order[a] = [b \in S |-> T!SignOf(w[a], w[b])]
    BY DEF T!CompareIn, KeyIn
  <1> HIDE DEF S, w, order
  <1>3. ASSUME NEW a \in S, NEW b \in S
        PROVE  order[a] \in [S -> Int] /\ order[a][b] = T!SignOf(w[a], w[b])
    <2>1. \A c \in S : T!SignOf(w[a], w[c]) \in Int
      BY DEF T!SignOf
    <2> QED
      BY <1>2, <2>1
  <1> QED
    BY <1>1, <1>3 DEF Weighs, S, w, order

\* Only the weights of the elements matter to a listing.
LEMMA ListsCongruent ==
    ASSUME NEW s, NEW C, NEW v, NEW w, Lists(s, C, v), \A c \in C : v[c] = w[c]
    PROVE  Lists(s, C, w)
  <1>1. \A i \in 1 .. Len(s) : s[i] \in C
    BY DEF Lists
  <1>2. ASSUME NEW i \in 1 .. Len(s), NEW j \in 1 .. Len(s), i <= j PROVE w[s[i]] <= w[s[j]]
    <2>1. v[s[i]] <= v[s[j]]
      BY <1>2 DEF Lists
    <2> QED
      BY <1>1, <2>1
  <1> QED
    BY <1>2 DEF Lists

\* A filter that falls with the weight falls along a listing.
LEMMA FilterFalls ==
    ASSUME NEW s, NEW C, NEW S, NEW w, C \subseteq S, Lists(s, C, w), NEW f \in [S -> Int],
           \A a, b \in C : w[a] <= w[b] => f[a] >= f[b]
    PROVE  FallsAlong(f, s)
  <1>1. \A i \in 1 .. Len(s) : s[i] \in C
    BY DEF Lists
  <1>2. ASSUME NEW i \in 1 .. Len(s), NEW j \in 1 .. Len(s), i <= j PROVE f[s[i]] >= f[s[j]]
    <2>1. w[s[i]] <= w[s[j]]
      BY <1>2 DEF Lists
    <2> QED
      BY <1>1, <2>1
  <1> QED
    BY <1>2 DEF FallsAlong

\* What follows of an index from the invariant.
LEMMA IndexFacts ==
    ASSUME TableInv, NEW i \in 1 .. 2
    PROVE  /\ Lists(indexes[i], T!Live, KeyIn(rows, i))
           /\ KeyIn(rows, i) \in [1 .. Len(rows) -> Int]
           /\ Weighs(T!CompareIn(rows, i), KeyIn(rows, i), 1 .. Len(rows))
           /\ T!Live \subseteq 1 .. Len(rows) /\ Len(rows) \in Nat
           /\ \A id \in 1 .. Len(rows) :
                /\ rows[id] \in T!Row
                /\ rows[id].key \in Int /\ KeyIn(rows, T!Primary)[id] = rows[id].key
                /\ rows[id].val \in Int /\ KeyIn(rows, T!Lookup)[id] = rows[id].val
  <1>1. rows \in Seq(T!Row) /\ T!Live \subseteq 1 .. Len(rows)
        /\ Lists(indexes[i], T!Live, KeyIn(rows, i))
    BY DEF TableInv
  <1>2. ASSUME NEW id \in 1 .. Len(rows)
        PROVE  /\ rows[id] \in T!Row /\ rows[id].key \in Int /\ rows[id].val \in Int
               /\ KeyIn(rows, T!Primary)[id] = rows[id].key
               /\ KeyIn(rows, T!Lookup)[id] = rows[id].val
    <2>1. rows[id] \in T!Row
      BY <1>1
    <2>2. rows[id].key \in Int /\ rows[id].val \in Int
      BY <2>1, RowAssumption DEF T!Row
    <2>3. T!Lookup # T!Primary
      BY DEF T!Lookup, T!Primary
    <2> QED
      BY <2>1, <2>2, <2>3 DEF KeyIn
  <1>3. Len(rows) \in Nat
    BY <1>1
  <1> QED
    BY <1>1, <1>2, <1>3, KeyInInt, CompareWeighs

\* The filter by key goes with the primary index.
LEMMA ByKeyFalls ==
    ASSUME TableInv, NEW k \in Int
    PROVE  /\ T!ByKey(k) \in [1 .. Len(rows) -> Int]
           /\ FallsAlong(T!ByKey(k), indexes[T!Primary])
           /\ \A id \in 1 .. Len(rows) : T!ByKey(k)[id] = 0 <=> rows[id].key = k
  <1> DEFINE S == 1 .. Len(rows)
             w == KeyIn(rows, T!Primary)
             f == T!ByKey(k)
  <1>0. T!Primary \in 1 .. 2
    BY DEF T!Primary
  <1>1. /\ Lists(indexes[T!Primary], T!Live, w) /\ T!Live \subseteq S
        /\ \A id \in S : rows[id].key \in Int /\ w[id] = rows[id].key
    BY <1>0, IndexFacts
  <1>2. \A id \in S : f[id] = T!SignOf(k, w[id]) /\ w[id] \in Int
    BY <1>1 DEF T!ByKey
  <1>3. f \in [S -> Int]
    <2>1. f = [id \in S |-> T!SignOf(k, rows[id].key)]
      BY DEF T!ByKey
    <2>2. \A id \in S : T!SignOf(k, rows[id].key) \in Int
      BY DEF T!SignOf
    <2> HIDE DEF f
    <2> QED
      BY <2>1, <2>2
  <1> HIDE DEF S, w, f
  <1>4. ASSUME NEW a \in T!Live, NEW b \in T!Live, w[a] <= w[b] PROVE f[a] >= f[b]
    <2>1. f[a] = T!SignOf(k, w[a]) /\ f[b] = T!SignOf(k, w[b]) /\ w[a] \in Int /\ w[b] \in Int
      BY <1>1, <1>2
    <2> QED
      BY <1>4, <2>1 DEF T!SignOf
  <1>5. FallsAlong(f, indexes[T!Primary])
    BY <1>1, <1>3, <1>4, FilterFalls
  <1>6. ASSUME NEW id \in S PROVE f[id] = 0 <=> rows[id].key = k
    BY <1>1, <1>2 DEF T!SignOf
  <1> QED
    BY <1>3, <1>5, <1>6 DEF S, f

\* The filter for a range goes with the other index.
LEMMA InRangeFalls ==
    ASSUME TableInv, NEW a \in Int, NEW b \in Int
    PROVE  /\ T!InRange(a, b) \in [1 .. Len(rows) -> Int]
           /\ FallsAlong(T!InRange(a, b), indexes[T!Lookup])
           /\ \A id \in 1 .. Len(rows) :
                T!InRange(a, b)[id] = 0 <=> a <= rows[id].val /\ rows[id].val <= b
  <1> DEFINE S == 1 .. Len(rows)
             w == KeyIn(rows, T!Lookup)
             f == T!InRange(a, b)
  <1>0. T!Lookup \in 1 .. 2
    BY DEF T!Lookup
  <1>1. /\ Lists(indexes[T!Lookup], T!Live, w) /\ T!Live \subseteq S
        /\ \A id \in S : rows[id].val \in Int /\ w[id] = rows[id].val
    BY <1>0, IndexFacts
  <1>2. \A id \in S : f[id] = IF b < w[id] THEN -1 ELSE IF a > w[id] THEN 1 ELSE 0
    BY <1>1 DEF T!InRange
  <1>3. f \in [S -> Int]
    BY DEF T!InRange
  <1> HIDE DEF S, w, f
  <1>4. ASSUME NEW x \in T!Live, NEW y \in T!Live, w[x] <= w[y] PROVE f[x] >= f[y]
    <2>1. /\ f[x] = IF b < w[x] THEN -1 ELSE IF a > w[x] THEN 1 ELSE 0
          /\ f[y] = IF b < w[y] THEN -1 ELSE IF a > w[y] THEN 1 ELSE 0
          /\ w[x] \in Int /\ w[y] \in Int
      BY <1>1, <1>2
    <2> QED
      BY <1>4, <2>1
  <1>5. FallsAlong(f, indexes[T!Lookup])
    BY <1>1, <1>3, <1>4, FilterFalls
  <1>6. ASSUME NEW id \in S PROVE f[id] = 0 <=> a <= rows[id].val /\ rows[id].val <= b
    BY <1>1, <1>2
  <1> QED
    BY <1>3, <1>5, <1>6 DEF S, f

\* The same, of the stretch alone.
LEMMA MatchesListed ==
    ASSUME NEW s, NEW C, NEW S, NEW w, C \subseteq S, w \in [S -> Int], Lists(s, C, w),
           NEW f \in [S -> Int], FallsAlong(f, s)
    PROVE  Lists(T!Matches(s, f), {c \in C : f[c] = 0}, w)
  BY MatchesLists

\* array_sorted_first and array_sorted_last tell whether a filter accepts an
\* entry, and find the least and the greatest that it does.
EndsOf(s, C, w, f) ==
    /\ (\A c \in C : f[c] # 0) => T!FindIndex(s, f, FALSE) = 0 /\ T!FindIndex(s, f, TRUE) = 0
    /\ (\E c \in C : f[c] = 0) =>
         /\ T!FindIndex(s, f, FALSE) # 0 /\ T!FindIndex(s, f, TRUE) # 0
         /\ s[T!FindIndex(s, f, FALSE)] \in C /\ f[s[T!FindIndex(s, f, FALSE)]] = 0
         /\ s[T!FindIndex(s, f, TRUE)] \in C /\ f[s[T!FindIndex(s, f, TRUE)]] = 0
         /\ \A c \in C : f[c] = 0 => /\ w[s[T!FindIndex(s, f, FALSE)]] <= w[c]
                                    /\ w[c] <= w[s[T!FindIndex(s, f, TRUE)]]

\* Of a listing they do, by weight.
LEMMA EndsListed ==
    ASSUME NEW s, NEW C, NEW S, NEW w, C \subseteq S, w \in [S -> Int], Lists(s, C, w),
           NEW f \in [S -> Int], FallsAlong(f, s)
    PROVE  EndsOf(s, C, w, f)
  <1> DEFINE first == T!FindIndex(s, f, FALSE)
             last == T!FindIndex(s, f, TRUE)
             hits == {c \in C : f[c] = 0}
  <1>1. first = T!FindIndex(s, f, FALSE) /\ last = T!FindIndex(s, f, TRUE)
    OBVIOUS
  <1>2. hits = {c \in C : f[c] = 0}
    OBVIOUS
  <1> HIDE DEF first, last, hits
  <1>3. /\ hits = {} => first = 0 /\ last = 0
        /\ hits # {} => /\ first \in 1 .. Len(s) /\ last \in 1 .. Len(s)
                        /\ s[first] \in hits /\ s[last] \in hits
                        /\ \A c \in hits : w[s[first]] <= w[c] /\ w[c] <= w[s[last]]
    <2>1. Delimits(s, hits, w, first, last)
      BY <1>1, <1>2, MatchesLists
    <2> QED
      BY <2>1 DEF Delimits
  <1>4. \A i \in 1 .. Len(s) : i # 0
    BY DEF Lists
  <1>5. (\A c \in C : f[c] # 0) => first = 0 /\ last = 0
    BY <1>2, <1>3
  <1>6. (\E c \in C : f[c] = 0) =>
             /\ first # 0 /\ last # 0 /\ s[first] \in C /\ f[s[first]] = 0
             /\ s[last] \in C /\ f[s[last]] = 0
             /\ \A c \in C : f[c] = 0 => w[s[first]] <= w[c] /\ w[c] <= w[s[last]]
    BY <1>2, <1>3, <1>4
  <1> QED
    BY <1>1, <1>5, <1>6 DEF EndsOf

\* Queries by key and over a range list exactly what they ask for.
LEMMA QueriesList ==
    ASSUME TableInv
    PROVE  /\ \A k \in Keys : Lists(T!Keyed(k), {id \in T!Live : rows[id].key = k},
                                    KeyIn(rows, T!Primary))
           /\ \A a, b \in Vals : Lists(T!Ranged(a, b),
                                       {id \in T!Live : a <= rows[id].val /\ rows[id].val <= b},
                                       KeyIn(rows, T!Lookup))
  <1>0. T!Primary \in 1 .. 2 /\ T!Lookup \in 1 .. 2
    BY DEF T!Primary, T!Lookup
  <1>1. ASSUME NEW k \in Keys
        PROVE  Lists(T!Keyed(k), {id \in T!Live : rows[id].key = k}, KeyIn(rows, T!Primary))
    <2> DEFINE f == T!ByKey(k)
    <2>1. /\ f \in [1 .. Len(rows) -> Int] /\ FallsAlong(f, indexes[T!Primary])
          /\ \A id \in 1 .. Len(rows) : f[id] = 0 <=> rows[id].key = k
      BY RowAssumption, ByKeyFalls
    <2>2. /\ Lists(indexes[T!Primary], T!Live, KeyIn(rows, T!Primary))
          /\ KeyIn(rows, T!Primary) \in [1 .. Len(rows) -> Int] /\ T!Live \subseteq 1 .. Len(rows)
      BY <1>0, IndexFacts
    <2> HIDE DEF f
    <2>3. Lists(T!Matches(indexes[T!Primary], f), {id \in T!Live : f[id] = 0}, KeyIn(rows, T!Primary))
      <3> DEFINE s == indexes[T!Primary]
                 C == T!Live
                 S == 1 .. Len(rows)
                 w == KeyIn(rows, T!Primary)
      <3>1. /\ Lists(s, C, w) /\ w \in [S -> Int] /\ C \subseteq S
            /\ f \in [S -> Int] /\ FallsAlong(f, s)
        BY <2>1, <2>2
      <3> HIDE DEF s, C, S, w
      <3>2. Lists(T!Matches(s, f), {id \in C : f[id] = 0}, w)
        BY <3>1, MatchesListed
      <3> QED
        BY <3>2 DEF s, C, w
    <2>4. {id \in T!Live : f[id] = 0} = {id \in T!Live : rows[id].key = k}
      BY <2>1, <2>2
    <2> QED
      BY <2>3, <2>4 DEF T!Keyed, f
  <1>2. ASSUME NEW a \in Vals, NEW b \in Vals
        PROVE  Lists(T!Ranged(a, b), {id \in T!Live : a <= rows[id].val /\ rows[id].val <= b},
                     KeyIn(rows, T!Lookup))
    <2> DEFINE f == T!InRange(a, b)
    <2>1. /\ f \in [1 .. Len(rows) -> Int] /\ FallsAlong(f, indexes[T!Lookup])
          /\ \A id \in 1 .. Len(rows) : f[id] = 0 <=> a <= rows[id].val /\ rows[id].val <= b
      BY RowAssumption, InRangeFalls
    <2>2. /\ Lists(indexes[T!Lookup], T!Live, KeyIn(rows, T!Lookup))
          /\ KeyIn(rows, T!Lookup) \in [1 .. Len(rows) -> Int] /\ T!Live \subseteq 1 .. Len(rows)
      BY <1>0, IndexFacts
    <2> HIDE DEF f
    <2>3. Lists(T!Matches(indexes[T!Lookup], f), {id \in T!Live : f[id] = 0}, KeyIn(rows, T!Lookup))
      <3> DEFINE s == indexes[T!Lookup]
                 C == T!Live
                 S == 1 .. Len(rows)
                 w == KeyIn(rows, T!Lookup)
      <3>1. /\ Lists(s, C, w) /\ w \in [S -> Int] /\ C \subseteq S
            /\ f \in [S -> Int] /\ FallsAlong(f, s)
        BY <2>1, <2>2
      <3> HIDE DEF s, C, S, w
      <3>2. Lists(T!Matches(s, f), {id \in C : f[id] = 0}, w)
        BY <3>1, MatchesListed
      <3> QED
        BY <3>2 DEF s, C, w
    <2>4. {id \in T!Live : f[id] = 0} = {id \in T!Live : a <= rows[id].val /\ rows[id].val <= b}
      BY <2>1, <2>2
    <2> QED
      BY <2>3, <2>4 DEF T!Ranged, f
  <1> QED
    BY <1>1, <1>2
-----------------------------------------------------------------------------
\* The rows that the table stands for.
Rel == {rows[id] : id \in T!Live}

\* Two indexes that list the same rows establish the invariant.
LEMMA Establish ==
    ASSUME NEW C, rows' \in Seq(T!Row), C \subseteq 1 .. Len(rows'),
           indexes' = <<indexes'[1], indexes'[2]>>,
           \A i \in 1 .. 2 : Lists(indexes'[i], C, KeyIn(rows', i)),
           \A a, b \in C : rows'[a].key = rows'[b].key => a = b
    PROVE  TableInv' /\ T!Live' = C
  <1>1. T!Ids(indexes'[1]) = C
    BY ListsIds
  <1>2. T!Live' = C
    BY <1>1 DEF T!Live, T!Primary, T!Ids
  <1>3. (\A i \in 1 .. 2 : Lists(indexes[i], T!Live, KeyIn(rows, i)))'
    BY <1>2 DEF Lists, KeyIn
  <1>4. (\A a, b \in T!Live : rows[a].key = rows[b].key => a = b)'
    BY <1>2
  <1> QED
    BY <1>2, <1>3, <1>4 DEF TableInv

\* The array_sort of each index lists the same rows, by what they are now.
LEMMA ResortLists ==
    ASSUME TableInv, NEW all \in Seq(T!Row), Len(all) = Len(rows), T!Resort(all)
    PROVE  /\ indexes' = <<indexes'[1], indexes'[2]>>
           /\ \A i \in 1 .. 2 : Lists(indexes'[i], T!Live, KeyIn(all, i))
  <1>1. PICK p, l : /\ p \in T!Sorts(indexes[1], T!CompareIn(all, 1))
                    /\ l \in T!Sorts(indexes[2], T!CompareIn(all, 2))
                    /\ indexes' = <<p, l>>
    BY DEF T!Resort, T!Primary, T!Lookup
  <1>2. /\ Lists(indexes[1], T!Live, KeyIn(rows, 1)) /\ Lists(indexes[2], T!Live, KeyIn(rows, 2))
        /\ T!Live \subseteq 1 .. Len(all)
    BY DEF TableInv
  <1>3. /\ Weighs(T!CompareIn(all, 1), KeyIn(all, 1), 1 .. Len(all))
        /\ Weighs(T!CompareIn(all, 2), KeyIn(all, 2), 1 .. Len(all))
    BY CompareWeighs
  <1>4. Lists(p, T!Live, KeyIn(all, 1))
    BY <1>1, <1>2, <1>3, SortsLists
  <1>5. Lists(l, T!Live, KeyIn(all, 2))
    <2> DEFINE s == indexes[2]
               order == T!CompareIn(all, 2)
               S == 1 .. Len(all)
               v == KeyIn(rows, 2)
               w == KeyIn(all, 2)
    <2>1. /\ l \in T!Sorts(s, order) /\ Lists(s, T!Live, v)
          /\ Weighs(order, w, S) /\ T!Live \subseteq S
      BY <1>1, <1>2, <1>3
    <2> HIDE DEF s, order, S, v, w
    <2>2. Lists(l, T!Live, w)
      BY <2>1, SortsLists
    <2> QED
      BY <2>2 DEF w
  <1>6. \A i \in 1 .. 2 : i = 1 \/ i = 2
    OBVIOUS
  <1> QED
    BY <1>1, <1>4, <1>5, <1>6

\* table_insert finds the live row with the key of the new one, if there is one.
LEMMA InsertFinds ==
    ASSUME TableInv, NEW row \in T!Row, NEW at,
           at = T!FindIndex(indexes[T!Primary], T!ByKey(row.key), FALSE)
    PROVE  /\ row.key \in Keys /\ row.key \in Int
           /\ at = 0 => \A id \in T!Live : rows[id].key # row.key
           /\ at # 0 => /\ indexes[T!Primary][at] \in T!Live
                        /\ rows[indexes[T!Primary][at]].key = row.key
  <1>0. T!Primary \in 1 .. 2 /\ row.key \in Keys /\ row.key \in Int
    <2>1. row.key \in Keys
      BY DEF T!Row
    <2>2. row.key \in Int
      BY <2>1, RowAssumption
    <2> QED
      BY <2>1, <2>2 DEF T!Primary
  <1> DEFINE f == T!ByKey(row.key)
             s == indexes[T!Primary]
             hits == {id \in T!Live : f[id] = 0}
  <1>1. /\ f \in [1 .. Len(rows) -> Int] /\ FallsAlong(f, s)
        /\ \A id \in 1 .. Len(rows) : f[id] = 0 <=> rows[id].key = row.key
    BY <1>0, ByKeyFalls
  <1>2. /\ Lists(s, T!Live, KeyIn(rows, T!Primary))
        /\ KeyIn(rows, T!Primary) \in [1 .. Len(rows) -> Int] /\ T!Live \subseteq 1 .. Len(rows)
    BY <1>0, IndexFacts
  <1>3. at = T!FindIndex(s, f, FALSE)
    OBVIOUS
  <1>4. hits = {id \in T!Live : f[id] = 0}
    OBVIOUS
  <1> HIDE DEF f, s, hits
  <1>5. /\ hits = {} => at = 0
        /\ hits # {} => at # 0 /\ s[at] \in hits
    <2> DEFINE w == KeyIn(rows, T!Primary)
               S == 1 .. Len(rows)
    <2>1. /\ Lists(s, T!Live, w) /\ w \in [S -> Int] /\ T!Live \subseteq S
          /\ f \in [S -> Int] /\ FallsAlong(f, s)
      BY <1>1, <1>2
    <2> HIDE DEF w, S
    <2>2. EndsOf(s, T!Live, w, f)
      BY <2>1, EndsListed
    <2> QED
      BY <1>3, <1>4, <2>2 DEF EndsOf
  <1>6. CASE hits = {}
    <2>1. \A id \in T!Live : rows[id].key # row.key
      BY <1>1, <1>2, <1>4, <1>6
    <2> QED
      BY <1>0, <1>5, <1>6, <2>1
  <1>7. CASE hits # {}
    <2>1. at # 0 /\ s[at] \in T!Live /\ rows[s[at]].key = row.key
      <3>1. at # 0 /\ s[at] \in T!Live /\ f[s[at]] = 0
        BY <1>4, <1>5, <1>7
      <3> QED
        BY <1>1, <1>2, <3>1
    <2> QED
      BY <1>0, <2>1 DEF s
  <1> QED
    BY <1>6, <1>7

\* A new row at the end, entered into each index.
LEMMA InsertNew ==
    ASSUME TableInv, NEW row \in T!Row, \A id \in T!Live : rows[id].key # row.key,
           rows' = Append(rows, row),
           indexes' = [i \in 1 .. 2 |-> T!SortedInsert(indexes[i], Len(rows'), T!CompareIn(rows', i))]
    PROVE  TableInv' /\ Rel' = Rel \cup {row}
  <1> DEFINE n == Len(rows)
             all == Append(rows, row)
             C == T!Live \cup {n + 1}
  <1>1. /\ rows \in Seq(T!Row) /\ n \in Nat /\ T!Live \subseteq 1 .. n
        /\ \A i \in 1 .. 2 : Lists(indexes[i], T!Live, KeyIn(rows, i))
        /\ \A a, b \in T!Live : rows[a].key = rows[b].key => a = b
    BY DEF TableInv
  <1>2. /\ all \in Seq(T!Row) /\ Len(all) = n + 1 /\ \A id \in 1 .. n : all[id] = rows[id]
        /\ all[n + 1] = row
    BY <1>1
  <1>3. n + 1 \notin T!Live /\ n + 1 \in 1 .. Len(all) /\ T!Live \subseteq 1 .. Len(all)
        /\ C \subseteq 1 .. Len(all)
    <2>1. n + 1 \notin 1 .. n /\ n + 1 \in 1 .. n + 1 /\ 1 .. n \subseteq 1 .. n + 1
      BY <1>1
    <2> HIDE DEF n, all
    <2> QED
      BY <1>1, <1>2, <2>1
  <1>4. rows' = all
    OBVIOUS
  <1> HIDE DEF n, all
  <1>5. ASSUME NEW i \in 1 .. 2
        PROVE  Lists(indexes'[i], C, KeyIn(all, i))
    <2>1. indexes'[i] = T!SortedInsert(indexes[i], n + 1, T!CompareIn(all, i))
      BY <1>2, <1>4
    <2>2. \A c \in T!Live : KeyIn(rows, i)[c] = KeyIn(all, i)[c]
      <3>1. ASSUME NEW c \in T!Live PROVE KeyIn(rows, i)[c] = KeyIn(all, i)[c]
        <4>1. c \in 1 .. n /\ c \in 1 .. Len(all) /\ all[c] = rows[c]
          BY <1>1, <1>2, <1>3
        <4>2. KeyIn(rows, i)[c] = IF i = T!Primary THEN rows[c].key ELSE rows[c].val
          BY <4>1 DEF KeyIn, n
        <4>3. KeyIn(all, i)[c] = IF i = T!Primary THEN all[c].key ELSE all[c].val
          BY <4>1 DEF KeyIn
        <4> QED
          BY <4>1, <4>2, <4>3
      <3> QED
        BY <3>1
    <2>3. Lists(indexes[i], T!Live, KeyIn(all, i))
      BY <1>1, <2>2, ListsCongruent
    <2>4. Weighs(T!CompareIn(all, i), KeyIn(all, i), 1 .. Len(all))
      BY <1>2, CompareWeighs
    <2>5. Lists(T!SortedInsert(indexes[i], n + 1, T!CompareIn(all, i)), C, KeyIn(all, i))
      BY <1>3, <2>3, <2>4, InsertLists
    <2> QED
      BY <2>1, <2>5
  <1>6. ASSUME NEW a \in C, NEW b \in C, rows'[a].key = rows'[b].key PROVE a = b
    <2>1. \A c \in T!Live : all[c] = rows[c]
      BY <1>1, <1>2
    <2> QED
      BY <1>1, <1>2, <1>4, <1>6, <2>1
  <1>7. indexes' = <<indexes'[1], indexes'[2]>>
    OBVIOUS
  <1>8. TableInv' /\ T!Live' = C
    BY <1>2, <1>3, <1>4, <1>5, <1>6, <1>7, Establish
  <1>9. Rel' = Rel \cup {row}
    <2>1. Rel' = {all[id] : id \in C}
      BY <1>4, <1>8 DEF Rel
    <2>2. {all[id] : id \in T!Live} = Rel
      BY <1>1, <1>2 DEF Rel
    <2> QED
      BY <1>2, <2>1, <2>2
  <1> QED
    BY <1>8, <1>9

\* A live row overwritten in place by one with its key.
LEMMA Overwrite ==
    ASSUME TableInv, NEW row \in T!Row, NEW at \in T!Live, rows[at].key = row.key,
           rows' = [rows EXCEPT ![at] = row], T!Resort(rows')
    PROVE  TableInv' /\ Rel' = {x \in Rel : x.key # row.key} \cup {row}
  <1> DEFINE n == Len(rows)
             all == [rows EXCEPT ![at] = row]
  <1>1. /\ rows \in Seq(T!Row) /\ n \in Nat /\ T!Live \subseteq 1 .. n
        /\ \A a, b \in T!Live : rows[a].key = rows[b].key => a = b
    BY DEF TableInv
  <1>2. /\ all \in Seq(T!Row) /\ Len(all) = n /\ all[at] = row
        /\ \A id \in 1 .. n : id # at => all[id] = rows[id]
    BY <1>1
  <1>3. rows' = all
    OBVIOUS
  <1> HIDE DEF all
  <1>4. /\ indexes' = <<indexes'[1], indexes'[2]>>
        /\ \A i \in 1 .. 2 : Lists(indexes'[i], T!Live, KeyIn(all, i))
    BY <1>2, <1>3, ResortLists
  <1>5. \A id \in T!Live : all[id].key = rows[id].key
    BY <1>1, <1>2
  <1>6. \A a, b \in T!Live : all[a].key = all[b].key => a = b
    BY <1>1, <1>5
  <1>7. TableInv' /\ T!Live' = T!Live
    <2>1. rows' \in Seq(T!Row) /\ T!Live \subseteq 1 .. Len(rows')
      BY <1>1, <1>2, <1>3
    <2>2. \A i \in 1 .. 2 : Lists(indexes'[i], T!Live, KeyIn(rows', i))
      BY <1>3, <1>4
    <2>3. \A a, b \in T!Live : rows'[a].key = rows'[b].key => a = b
      BY <1>3, <1>6
    <2> QED
      BY <1>4, <2>1, <2>2, <2>3, Establish
  <1>8. Rel' = {x \in Rel : x.key # row.key} \cup {row}
    <2>1. Rel' = {all[id] : id \in T!Live}
      BY <1>3, <1>7 DEF Rel
    <2>2. ASSUME NEW id \in T!Live, id # at PROVE all[id] = rows[id] /\ rows[id].key # row.key
      BY <1>1, <1>2, <2>2
    <2> DEFINE rest == {x \in Rel : x.key # row.key} \cup {row}
    <2>3. ASSUME NEW id \in T!Live PROVE all[id] \in rest
      <3>1. id = at => all[id] = row
        BY <1>2
      <3>2. id # at => all[id] \in Rel /\ all[id].key # row.key
        BY <2>2 DEF Rel
      <3> QED
        BY <3>1, <3>2
    <2>4. ASSUME NEW x \in rest PROVE \E id \in T!Live : all[id] = x
      <3>1. CASE x = row
        BY <1>2, <3>1
      <3>2. CASE x # row
        <4>1. PICK id \in T!Live : x = rows[id]
          BY <3>2 DEF Rel
        <4>2. id # at
          BY <3>2, <4>1
        <4> QED
          BY <2>2, <4>1, <4>2
      <3> QED
        BY <3>1, <3>2
    <2> HIDE DEF rest
    <2>5. rest = {all[id] : id \in T!Live}
      BY <2>3, <2>4
    <2> QED
      BY <2>1, <2>5 DEF rest
  <1> QED
    BY <1>7, <1>8

\* table_query_update over a listing of live rows.
LEMMA UpdateStep ==
    ASSUME TableInv, NEW hits, NEW H, NEW w, Lists(hits, H, w), H \subseteq T!Live,
           NEW x \in Vals, T!Update(hits, x)
    PROVE  /\ TableInv' /\ r' = "OK"
           /\ Rel' = (Rel \ {rows[id] : id \in H}) \cup {[rows[id] EXCEPT !.val = x] : id \in H}
  <1> DEFINE n == Len(rows)
             all == [id \in 1 .. n |-> IF id \in H THEN [rows[id] EXCEPT !.val = x] ELSE rows[id]]
  <1>1. /\ rows \in Seq(T!Row) /\ n \in Nat /\ T!Live \subseteq 1 .. n
        /\ \A a, b \in T!Live : rows[a].key = rows[b].key => a = b
    BY DEF TableInv
  <1>2. T!Ids(hits) = H
    BY ListsIds
  <1>3. rows' = all /\ T!Resort(rows') /\ r' = "OK"
    BY <1>2 DEF T!Update
  <1>4. \A id \in 1 .. n : /\ rows[id] \in T!Row /\ [rows[id] EXCEPT !.val = x] \in T!Row
                           /\ [rows[id] EXCEPT !.val = x].key = rows[id].key
    <2>1. \A id \in 1 .. n : rows[id] \in T!Row
      BY <1>1
    <2> QED
      BY <2>1 DEF T!Row
  <1>5. all \in Seq(T!Row) /\ Len(all) = n
        /\ \A id \in 1 .. n : all[id] = IF id \in H THEN [rows[id] EXCEPT !.val = x] ELSE rows[id]
    <2>1. all \in [1 .. n -> T!Row]
      BY <1>4
    <2> QED
      BY <1>1, <2>1
  <1> HIDE DEF all
  <1>6. /\ indexes' = <<indexes'[1], indexes'[2]>>
        /\ \A i \in 1 .. 2 : Lists(indexes'[i], T!Live, KeyIn(all, i))
    BY <1>3, <1>5, ResortLists
  <1>7. \A id \in T!Live : all[id].key = rows[id].key
    BY <1>1, <1>4, <1>5
  <1>8. \A a, b \in T!Live : all[a].key = all[b].key => a = b
    BY <1>1, <1>7
  <1>9. TableInv' /\ T!Live' = T!Live
    BY <1>1, <1>3, <1>5, <1>6, <1>8, Establish
  <1>10. Rel' = {all[id] : id \in T!Live}
    BY <1>3, <1>9 DEF Rel
  <1>11. \A id \in T!Live : all[id] = IF id \in H THEN [rows[id] EXCEPT !.val = x] ELSE rows[id]
    BY <1>1, <1>5
  <1>12. \A a \in T!Live, b \in H : rows[a] = rows[b] => a = b
    BY <1>1
  <1>13. Rel' = (Rel \ {rows[id] : id \in H}) \cup {[rows[id] EXCEPT !.val = x] : id \in H}
    <2> DEFINE old == {rows[id] : id \in H}
               new == {[rows[id] EXCEPT !.val = x] : id \in H}
    <2>1. ASSUME NEW id \in T!Live PROVE all[id] \in (Rel \ old) \cup new
      <3>1. CASE id \in H
        <4>1. all[id] = [rows[id] EXCEPT !.val = x]
          BY <1>11, <3>1
        <4> QED
          BY <3>1, <4>1
      <3>2. CASE id \notin H
        <4>1. all[id] = rows[id] /\ rows[id] \in Rel
          BY <1>11, <3>2 DEF Rel
        <4>2. rows[id] \notin old
          BY <1>12, <3>2
        <4> QED
          BY <4>1, <4>2
      <3> QED
        BY <3>1, <3>2
    <2>2. ASSUME NEW y \in (Rel \ old) \cup new PROVE \E id \in T!Live : all[id] = y
      <3>1. CASE y \in new
        <4>1. PICK id \in H : y = [rows[id] EXCEPT !.val = x]
          BY <3>1
        <4> QED
          BY <1>11, <4>1
      <3>2. CASE y \notin new
        <4>1. y \in Rel /\ y \notin old
          BY <3>2
        <4>2. PICK id \in T!Live : y = rows[id]
          BY <4>1 DEF Rel
        <4>3. id \notin H
          BY <4>1, <4>2
        <4> QED
          BY <1>11, <4>2, <4>3
      <3> QED
        BY <3>1, <3>2
    <2> HIDE DEF old, new
    <2>3. {all[id] : id \in T!Live} = (Rel \ old) \cup new
      BY <2>1, <2>2
    <2> QED
      BY <1>10, <2>3 DEF old, new
  <1> QED
    BY <1>3, <1>9, <1>13

\* table_query_delete over a listing of live rows.
LEMMA DeleteStep ==
    ASSUME TableInv, NEW hits, NEW H, NEW w, Lists(hits, H, w), H \subseteq T!Live, T!Delete(hits)
    PROVE  /\ TableInv' /\ r' = (IF H = {} THEN "ENOENT" ELSE "OK")
           /\ Rel' = Rel \ {rows[id] : id \in H}
  <1> DEFINE n == Len(rows)
             ByNumber == [a \in DOMAIN rows |-> [b \in DOMAIN rows |-> T!SignOf(a, b)]]
             collected == T!Collect(hits, ByNumber)
             found == {id \in DOMAIN rows : T!FindIndex(collected, ByNumber[id], FALSE) # 0}
             S == 1 .. n
             v == [id \in S |-> id]
  <1>1. /\ rows \in Seq(T!Row) /\ n \in Nat /\ T!Live \subseteq S /\ DOMAIN rows = S
        /\ \A i \in 1 .. 2 : Lists(indexes[i], T!Live, KeyIn(rows, i))
        /\ \A a, b \in T!Live : rows[a].key = rows[b].key => a = b
    BY DEF TableInv
  <1>2. /\ indexes' = [i \in 1 .. 2 |-> T!Compact(indexes[i], found)]
        /\ r' = (IF hits = <<>> THEN "ENOENT" ELSE "OK")
        /\ rows' = rows
    BY DEF T!Delete
  <1>3. Weighs(ByNumber, v, S)
    <2>1. v \in [S -> Int]
      BY <1>1
    <2>2. ASSUME NEW a \in S, NEW b \in S
          PROVE  ByNumber[a] \in [S -> Int] /\ ByNumber[a][b] = T!SignOf(v[a], v[b])
      <3>1. ByNumber[a] = [c \in S |-> T!SignOf(a, c)]
        BY <1>1
      <3>2. \A c \in S : T!SignOf(a, c) \in Int
        BY DEF T!SignOf
      <3>3. v[a] = a /\ v[b] = b
        OBVIOUS
      <3> HIDE DEF ByNumber, v, S
      <3> QED
        BY <3>1, <3>2, <3>3
    <2> QED
      BY <2>1, <2>2 DEF Weighs
  <1>4. H \subseteq S
    BY <1>1
  <1>5. \A id \in S : v[id] = id
    OBVIOUS
  <1> HIDE DEF n, ByNumber, v, S
  <1>6. Lists(collected, H, v)
    BY <1>3, <1>4, CollectLists
  <1> HIDE DEF collected
  <1>7. found = H
    <2>1. ASSUME NEW id \in S PROVE T!FindIndex(collected, ByNumber[id], FALSE) # 0 <=> id \in H
      <3> DEFINE f == ByNumber[id]
      <3>1. f \in [S -> Int] /\ FallsAlong(f, collected)
        BY <1>3, <1>4, <1>6, ListsFalls
      <3>2. \A c \in S : f[c] = 0 <=> c = id
        <4>1. ASSUME NEW c \in S PROVE f[c] = 0 <=> c = id
          <5>1. f[c] = T!SignOf(id, c) /\ id \in Int /\ c \in Int
            <6>1. f[c] = T!SignOf(v[id], v[c])
              BY <1>3 DEF Weighs
            <6> QED
              BY <1>1, <1>5, <6>1 DEF S
          <5> HIDE DEF f
          <5> QED
            BY <5>1 DEF T!SignOf
        <4> QED
          BY <4>1
      <3>3. v \in [S -> Int]
        BY <1>3 DEF Weighs
      <3> HIDE DEF f
      <3>4. EndsOf(collected, H, v, f)
        BY <1>4, <1>6, <3>1, <3>3, EndsListed
      <3> QED
        BY <1>4, <3>2, <3>4 DEF f, EndsOf
    <2> QED
      BY <1>1, <1>4, <2>1
  <1> HIDE DEF found
  <1>8. ASSUME NEW i \in 1 .. 2 PROVE Lists(indexes'[i], T!Live \ H, KeyIn(rows, i))
    <2>1. indexes'[i] = T!Compact(indexes[i], H)
      BY <1>2, <1>7
    <2>2. KeyIn(rows, i) \in [S -> Int]
      BY <1>1, KeyInInt DEF S, n
    <2> QED
      BY <1>1, <2>1, <2>2, CompactLists
  <1>9. indexes' = <<indexes'[1], indexes'[2]>>
    BY <1>2
  <1>10. TableInv' /\ T!Live' = T!Live \ H
    <2>1. T!Live \ H \subseteq 1 .. Len(rows)
      BY <1>1 DEF S, n
    <2> QED
      BY <1>1, <1>2, <1>8, <1>9, <2>1, Establish
  <1>11. hits = <<>> <=> H = {}
    BY DEF Lists
  <1>12. Rel' = Rel \ {rows[id] : id \in H}
    <2>1. Rel' = {rows[id] : id \in T!Live \ H}
      BY <1>2, <1>10 DEF Rel
    <2>2. \A a \in T!Live, b \in H : rows[a] = rows[b] => a = b
      BY <1>1
    <2> QED
      BY <2>1, <2>2 DEF Rel
  <1> QED
    BY <1>2, <1>10, <1>11, <1>12

\* The table has a row with that key.
HasKey(row) == \E x \in Rel : x.key = row.key

\* What leaves rows and indexes alone keeps the invariant.
LEMMA SameTable ==
    ASSUME TableInv, UNCHANGED <<rows, indexes>>
    PROVE  TableInv' /\ Rel' = Rel
  <1>1. rows' = rows /\ indexes' = indexes
    OBVIOUS
  <1>2. /\ rows' \in Seq(T!Row) /\ T!Live \subseteq 1 .. Len(rows')
        /\ indexes' = <<indexes'[1], indexes'[2]>>
        /\ \A a, b \in T!Live : rows'[a].key = rows'[b].key => a = b
    BY <1>1 DEF TableInv
  <1>3. \A i \in 1 .. 2 : Lists(indexes'[i], T!Live, KeyIn(rows', i))
    BY <1>1 DEF TableInv
  <1>4. TableInv' /\ T!Live' = T!Live
    BY <1>2, <1>3, Establish
  <1> QED
    BY <1>1, <1>4 DEF Rel

\* _table_insert
LEMMA InsertWithStep ==
    ASSUME TableInv, NEW row \in T!Row, NEW replace \in BOOLEAN, T!InsertWith(row, replace)
    PROVE  /\ TableInv'
           /\ ~ HasKey(row) => r' = "OK" /\ Rel' = Rel \cup {row}
           /\ HasKey(row) /\ replace => /\ r' = "OK"
                                        /\ Rel' = {x \in Rel : x.key # row.key} \cup {row}
           /\ HasKey(row) /\ ~ replace => r' = "EEXIST" /\ Rel' = Rel
  <1> DEFINE at == T!FindIndex(indexes[T!Primary], T!ByKey(row.key), FALSE)
  <1>1. /\ at = 0 => \A id \in T!Live : rows[id].key # row.key
        /\ at # 0 => /\ indexes[T!Primary][at] \in T!Live
                     /\ rows[indexes[T!Primary][at]].key = row.key
    BY InsertFinds
  <1>2. /\ at = 0 =>
             /\ rows' = Append(rows, row)
             /\ indexes' = [i \in 1 .. 2 |-> T!SortedInsert(indexes[i], Len(rows'), T!CompareIn(rows', i))]
             /\ r' = "OK"
        /\ at # 0 /\ ~ replace => r' = "EEXIST" /\ UNCHANGED <<rows, indexes>>
        /\ at # 0 /\ replace =>
             /\ rows' = [rows EXCEPT ![indexes[T!Primary][at]] = row]
             /\ T!Resort(rows') /\ r' = "OK"
    BY DEF T!InsertWith
  <1> HIDE DEF at
  <1>3. CASE at = 0
    <2>1. TableInv' /\ Rel' = Rel \cup {row}
      BY <1>1, <1>2, <1>3, InsertNew
    <2>2. ~ HasKey(row)
      BY <1>1, <1>3 DEF HasKey, Rel
    <2> QED
      BY <1>2, <1>3, <2>1, <2>2
  <1>4. ASSUME at # 0 PROVE HasKey(row)
    BY <1>1, <1>4 DEF HasKey, Rel
  <1>5. CASE at # 0 /\ ~ replace
    <2>1. TableInv' /\ Rel' = Rel
      BY <1>2, <1>5, SameTable
    <2> QED
      BY <1>2, <1>4, <1>5, <2>1
  <1>6. CASE at # 0 /\ replace
    <2> DEFINE id == indexes[T!Primary][at]
    <2>1. id \in T!Live /\ rows[id].key = row.key /\ rows' = [rows EXCEPT ![id] = row]
          /\ T!Resort(rows')
      BY <1>1, <1>2, <1>6
    <2> HIDE DEF id
    <2>2. TableInv' /\ Rel' = {x \in Rel : x.key # row.key} \cup {row}
      BY <2>1, Overwrite
    <2> QED
      BY <1>2, <1>4, <1>6, <2>2
  <1> QED
    BY <1>3, <1>5, <1>6

\* The rows of a query by key, and over a range.
LEMMA RowsAsked ==
    ASSUME TableInv
    PROVE  /\ \A k : {rows[id] : id \in {id \in T!Live : rows[id].key = k}} = T!Abstract!Keyed(k)
           /\ \A a, b : {rows[id] : id \in {id \in T!Live : a <= rows[id].val /\ rows[id].val <= b}}
                          = T!Abstract!Range(a, b)
  BY DEF T!Abstract!Keyed, T!Abstract!Range

\* Updates and deletions of rows of a query.
LEMMA UpdateOf ==
    ASSUME TableInv, NEW hits, NEW H, NEW w, Lists(hits, H, w), H \subseteq T!Live,
           NEW x \in Vals, T!Update(hits, x), NEW asked, asked = {rows[id] : id \in H}
    PROVE  TableInv' /\ T!Abstract!Update(asked, x)
  <1>1. /\ TableInv' /\ r' = "OK"
        /\ Rel' = (Rel \ {rows[id] : id \in H}) \cup {[rows[id] EXCEPT !.val = x] : id \in H}
    BY UpdateStep
  <1>2. {[y EXCEPT !.val = x] : y \in asked} = {[rows[id] EXCEPT !.val = x] : id \in H}
    OBVIOUS
  <1>3. Rel' = (Rel \ asked) \cup {[y EXCEPT !.val = x] : y \in asked}
    BY <1>1, <1>2
  <1> QED
    BY <1>1, <1>3 DEF T!Abstract!Update, Rel

\* The same of table_query_delete.
LEMMA DeleteOf ==
    ASSUME TableInv, NEW hits, NEW H, NEW w, Lists(hits, H, w), H \subseteq T!Live,
           T!Delete(hits), NEW asked, asked = {rows[id] : id \in H}
    PROVE  TableInv' /\ r' = (IF asked = {} THEN "ENOENT" ELSE "OK") /\ Rel' = Rel \ asked
  <1>1. TableInv' /\ r' = (IF H = {} THEN "ENOENT" ELSE "OK") /\ Rel' = Rel \ asked
    BY DeleteStep
  <1>2. H = {} <=> asked = {}
    OBVIOUS
  <1> QED
    BY <1>1, <1>2

\* Every operation keeps the invariant and does to the set of rows what RowSet says.
LEMMA TableStep ==
    ASSUME TableInv, T!Next
    PROVE  TableInv' /\ T!Abstract!Next
  <1>1. ASSUME NEW row \in T!Row, T!Insert(row) PROVE TableInv' /\ T!Abstract!Next
    <2>1. T!InsertWith(row, FALSE)
      BY <1>1 DEF T!Insert
    <2>2. /\ TableInv'
          /\ ~ HasKey(row) => r' = "OK" /\ Rel' = Rel \cup {row}
          /\ HasKey(row) => r' = "EEXIST" /\ Rel' = Rel
      BY <2>1, InsertWithStep
    <2>3. row \in T!Abstract!Row
      BY DEF T!Row, T!Abstract!Row
    <2>4. T!Abstract!Insert(row)
      BY <2>2 DEF T!Abstract!Insert, T!Abstract!HasKey, HasKey, Rel
    <2> QED
      BY <2>2, <2>3, <2>4 DEF T!Abstract!Next
  <1>2. ASSUME NEW row \in T!Row, T!InsertOrReplace(row) PROVE TableInv' /\ T!Abstract!Next
    <2>1. T!InsertWith(row, TRUE)
      BY <1>2 DEF T!InsertOrReplace
    <2>2. /\ TableInv'
          /\ ~ HasKey(row) => r' = "OK" /\ Rel' = Rel \cup {row}
          /\ HasKey(row) => r' = "OK" /\ Rel' = {x \in Rel : x.key # row.key} \cup {row}
      BY <2>1, InsertWithStep
    <2>3. row \in T!Abstract!Row
      BY DEF T!Row, T!Abstract!Row
    <2>4. ~ HasKey(row) => {x \in Rel : x.key # row.key} = Rel
      BY DEF HasKey
    <2>5. T!Abstract!InsertOrReplace(row)
      <3>1. r' = "OK" /\ Rel' = {x \in Rel : x.key # row.key} \cup {row}
        BY <2>2, <2>4
      <3> QED
        BY <3>1 DEF T!Abstract!InsertOrReplace, Rel
    <2> QED
      BY <2>2, <2>3, <2>5 DEF T!Abstract!Next
  <1>3. ASSUME NEW k \in Keys,
               T!Delete(T!Keyed(k)) \/ \E x \in Vals : T!Update(T!Keyed(k), x)
        PROVE  TableInv' /\ T!Abstract!Next
    <2> DEFINE hits == T!Keyed(k)
               H == {id \in T!Live : rows[id].key = k}
               w == KeyIn(rows, T!Primary)
               asked == T!Abstract!Keyed(k)
    <2>1. Lists(hits, H, w)
      BY QueriesList
    <2>2. H \subseteq T!Live /\ asked = {rows[id] : id \in H}
      BY RowsAsked
    <2>3. \/ T!Delete(hits)
          \/ \E x \in Vals : T!Update(hits, x)
      BY <1>3
    <2> HIDE DEF hits, H, w, asked
    <2>4. CASE T!Delete(hits)
      <3>1. TableInv' /\ r' = (IF asked = {} THEN "ENOENT" ELSE "OK") /\ Rel' = Rel \ asked
        BY <2>1, <2>2, <2>4, DeleteOf
      <3>2. T!Abstract!Delete(T!Abstract!Keyed(k))
        BY <3>1 DEF T!Abstract!Delete, Rel, asked
      <3> QED
        BY <3>1, <3>2 DEF T!Abstract!Next, T!Abstract!Delete
    <2>5. ASSUME NEW x \in Vals, T!Update(hits, x) PROVE TableInv' /\ T!Abstract!Next
      <3>1. TableInv' /\ T!Abstract!Update(asked, x)
        BY <2>1, <2>2, <2>5, UpdateOf
      <3> QED
        BY <3>1 DEF T!Abstract!Next, asked
    <2> QED
      BY <2>3, <2>4, <2>5
  <1>4. ASSUME NEW a \in Vals, NEW b \in Vals,
               T!Delete(T!Ranged(a, b)) \/ \E x \in Vals : T!Update(T!Ranged(a, b), x)
        PROVE  TableInv' /\ T!Abstract!Next
    <2> DEFINE hits == T!Ranged(a, b)
               H == {id \in T!Live : a <= rows[id].val /\ rows[id].val <= b}
               w == KeyIn(rows, T!Lookup)
               asked == T!Abstract!Range(a, b)
    <2>1. Lists(hits, H, w)
      BY QueriesList
    <2>2. H \subseteq T!Live /\ asked = {rows[id] : id \in H}
      BY RowsAsked
    <2>3. \/ T!Delete(hits)
          \/ \E x \in Vals : T!Update(hits, x)
      BY <1>4
    <2> HIDE DEF hits, H, w, asked
    <2>4. CASE T!Delete(hits)
      <3>1. TableInv' /\ r' = (IF asked = {} THEN "ENOENT" ELSE "OK") /\ Rel' = Rel \ asked
        BY <2>1, <2>2, <2>4, DeleteOf
      <3>2. T!Abstract!Delete(T!Abstract!Range(a, b))
        BY <3>1 DEF T!Abstract!Delete, Rel, asked
      <3> QED
        BY <3>1, <3>2 DEF T!Abstract!Next, T!Abstract!Delete
    <2>5. ASSUME NEW x \in Vals, T!Update(hits, x) PROVE TableInv' /\ T!Abstract!Next
      <3>1. TableInv' /\ T!Abstract!Update(asked, x)
        BY <2>1, <2>2, <2>5, UpdateOf
      <3> QED
        BY <3>1 DEF T!Abstract!Next, asked
    <2> QED
      BY <2>3, <2>4, <2>5
  <1> QED
    BY <1>1, <1>2, <1>3, <1>4 DEF T!Next

\* An empty table is an empty set of rows.
LEMMA TableBegins ==
    ASSUME T!Init
    PROVE  TableInv /\ T!Abstract!Init
  <1>1. rows = <<>> /\ indexes = <<<<>>, <<>>>> /\ r = "OK"
    BY DEF T!Init
  <1>2. T!Live = {}
    BY <1>1 DEF T!Live, T!Ids, T!Primary
  <1>3. \A i \in 1 .. 2 : indexes[i] = <<>>
    BY <1>1
  <1>4. \A i \in 1 .. 2 : Lists(indexes[i], T!Live, KeyIn(rows, i))
    BY <1>2, <1>3, EmptyLists
  <1>5. indexes = <<indexes[1], indexes[2]>> /\ rows \in Seq(T!Row)
    BY <1>1
  <1> QED
    BY <1>1, <1>2, <1>4, <1>5 DEF TableInv, T!Abstract!Init

\* A step of the run: a turn of the search leaves the table alone.
LEMMA RunStep ==
    ASSUME TableInv, [Searching \/ Working]_allvars
    PROVE  TableInv' /\ (T!Abstract!Next \/ (Rel' = Rel /\ r' = r))
  <1>1. CASE Working
    <2>1. T!Next
      BY <1>1 DEF Working
    <2> QED
      BY <2>1, TableStep
  <1>2. CASE Searching \/ UNCHANGED allvars
    <2>1. UNCHANGED <<rows, indexes>> /\ r' = r
      BY <1>2 DEF Searching, allvars
    <2> QED
      BY <2>1, SameTable
  <1> QED
    BY <1>1, <1>2

\* The indexes list the live rows in every reachable state.
THEOREM TableInvariant == MCSpec => []TableInv
  <1>1. MCInit => TableInv
    BY TableBegins DEF MCInit
  <1>2. TableInv /\ [Searching \/ Working]_allvars => TableInv'
    BY RunStep
  <1> QED
    BY <1>1, <1>2, PTL DEF MCSpec

\* Table counts with the Cardinality of FiniteSets, as these proofs do.
LEMMA SameCardinality ==
    ASSUME NEW S
    PROVE  T!Cardinality(S) = Cardinality(S)
  BY DEF T!Cardinality, Cardinality

\* Both indexes hold the live rows once each, in the order of the rows as they
\* are now, and no two live rows share a key.
THEOREM IndexesAlwaysAgree == MCSpec => []IndexesAgree
  <1>1. TableInv => IndexesAgree
    <2> SUFFICES ASSUME TableInv PROVE T!IndexesAgree
      BY DEF IndexesAgree
    <2>1. rows \in Seq(T!Row) /\ T!Live \subseteq 1 .. Len(rows)
          /\ \A a, b \in T!Live : rows[a].key = rows[b].key => a = b
      BY DEF TableInv
    <2>2. T!Primary \in 1 .. 2 /\ T!Lookup \in 1 .. 2
      BY DEF T!Primary, T!Lookup
    <2>3. ASSUME NEW i \in 1 .. 2
          PROVE  /\ T!Ids(indexes[i]) = T!Live /\ Len(indexes[i]) = T!Cardinality(T!Live)
                 /\ T!IsSorted(indexes[i], T!CompareIn(rows, i))
      <3>1. /\ Lists(indexes[i], T!Live, KeyIn(rows, i)) /\ T!Live \subseteq 1 .. Len(rows)
            /\ Weighs(T!CompareIn(rows, i), KeyIn(rows, i), 1 .. Len(rows))
        BY IndexFacts
      <3>2. T!Ids(indexes[i]) = T!Live
        BY <3>1, ListsIds
      <3>3. Len(indexes[i]) = T!Cardinality(T!Live)
        BY <3>1, ListsCardinality, SameCardinality
      <3>4. T!IsSorted(indexes[i], T!CompareIn(rows, i))
        BY <3>1, ListsSorted
      <3> QED
        BY <3>2, <3>3, <3>4
    <2> QED
      BY <2>1, <2>2, <2>3 DEF T!IndexesAgree
  <1> QED
    BY <1>1, TableInvariant, PTL

\* The answers to queries over a range that the rows numbered `hits` lie in.
Answers(a, b, hits) ==
    /\ T!Ids(T!Ranged(a, b)) = hits /\ T!Count(a, b) = T!Cardinality(hits)
    /\ IF hits = {} THEN T!First(a, b) = 0 /\ T!Last(a, b) = 0
       ELSE /\ T!First(a, b) \in hits /\ T!Last(a, b) \in hits
            /\ \A id \in hits : /\ rows[T!First(a, b)].val <= rows[id].val
                                /\ rows[id].val <= rows[T!Last(a, b)].val
    /\ T!Ids(T!OrderedByKey(a, b)) = hits
    /\ T!IsSorted(T!OrderedByKey(a, b), T!CompareIn(rows, T!Primary))

\* Queries over a range answer as if they had looked at every live row.
THEOREM QueriesAlwaysExact == MCSpec => []QueriesExact
  <1>1. TableInv => QueriesExact
    <2> SUFFICES ASSUME TableInv, NEW a \in Vals, NEW b \in Vals
                 PROVE  Answers(a, b, {id \in T!Live : a <= rows[id].val /\ rows[id].val <= b})
      BY DEF QueriesExact, T!QueriesExact, Answers
    <2> DEFINE hits == {id \in T!Live : a <= rows[id].val /\ rows[id].val <= b}
    <2> SUFFICES Answers(a, b, hits)
      OBVIOUS
    <2> DEFINE s == indexes[T!Lookup]
               S == 1 .. Len(rows)
               w == KeyIn(rows, T!Lookup)
               v == KeyIn(rows, T!Primary)
               order == T!CompareIn(rows, T!Primary)
               f == T!InRange(a, b)
               first == T!FindIndex(s, f, FALSE)
               last == T!FindIndex(s, f, TRUE)
    <2>1. T!Primary \in 1 .. 2 /\ T!Lookup \in 1 .. 2 /\ a \in Int /\ b \in Int
      <3>1. a \in Int /\ b \in Int
        BY RowAssumption
      <3> QED
        BY <3>1 DEF T!Primary, T!Lookup
    <2>2. /\ Lists(s, T!Live, w) /\ w \in [S -> Int] /\ T!Live \subseteq S
          /\ \A id \in S : w[id] = rows[id].val
          /\ Weighs(order, v, S)
      BY <2>1, IndexFacts
    <2>3. /\ f \in [S -> Int] /\ FallsAlong(f, s)
          /\ \A id \in S : f[id] = 0 <=> a <= rows[id].val /\ rows[id].val <= b
      BY <2>1, InRangeFalls
    <2>4. hits = {id \in T!Live : f[id] = 0} /\ hits \subseteq S
      BY <2>2, <2>3
    <2>5. first = T!FindIndex(s, f, FALSE) /\ last = T!FindIndex(s, f, TRUE)
      OBVIOUS
    <2>6. T!First(a, b) = (IF first = 0 THEN 0 ELSE s[first])
          /\ T!Last(a, b) = (IF last = 0 THEN 0 ELSE s[last])
      BY DEF T!First, T!Last
    <2>7. Lists(T!Ranged(a, b), hits, w)
      BY QueriesList
    <2> HIDE DEF s, S, w, v, order, f, first, last, hits
    <2>8. EndsOf(s, T!Live, w, f)
      BY <2>2, <2>3, EndsListed
    <2>9. hits = {} => first = 0 /\ last = 0
      BY <2>4, <2>5, <2>8 DEF EndsOf
    <2>10. hits # {} => /\ first # 0 /\ last # 0 /\ s[first] \in hits /\ s[last] \in hits
                       /\ \A c \in hits : w[s[first]] <= w[c] /\ w[c] <= w[s[last]]
      BY <2>4, <2>5, <2>8 DEF EndsOf
    <2>11. T!Ids(T!Ranged(a, b)) = hits /\ T!Count(a, b) = T!Cardinality(hits)
      BY <2>7, ListsIds, ListsCardinality, SameCardinality DEF T!Count
    <2>12. ASSUME hits # {}
           PROVE  /\ T!First(a, b) \in hits /\ T!Last(a, b) \in hits
                  /\ \A id \in hits : /\ rows[T!First(a, b)].val <= rows[id].val
                                      /\ rows[id].val <= rows[T!Last(a, b)].val
      <3>1. T!First(a, b) = s[first] /\ T!Last(a, b) = s[last]
        BY <2>6, <2>10, <2>12
      <3>2. s[first] \in hits /\ s[last] \in hits
        BY <2>10, <2>12
      <3>3. ASSUME NEW id \in hits
            PROVE  rows[s[first]].val <= rows[id].val /\ rows[id].val <= rows[s[last]].val
        <4>1. w[s[first]] = rows[s[first]].val /\ w[s[last]] = rows[s[last]].val
              /\ w[id] = rows[id].val
          BY <2>2, <2>4, <3>2
        <4> QED
          BY <2>10, <2>12, <4>1
      <3> QED
        BY <3>1, <3>2, <3>3
    <2>13. Lists(T!OrderedByKey(a, b), hits, v)
      <3>1. Lists(T!Collect(T!Ranged(a, b), order), hits, v)
        BY <2>2, <2>4, <2>7, CollectLists
      <3> QED
        BY <3>1 DEF T!OrderedByKey, order
    <2>14. T!Ids(T!OrderedByKey(a, b)) = hits
      BY <2>13, ListsIds
    <2>15. T!IsSorted(T!OrderedByKey(a, b), order)
      BY <2>2, <2>4, <2>13, ListsSorted
    <2>16. hits = {} => T!First(a, b) = 0 /\ T!Last(a, b) = 0
      BY <2>6, <2>9
    <2> QED
      BY <2>11, <2>12, <2>14, <2>15, <2>16 DEF Answers, order
  <1> QED
    BY <1>1, TableInvariant, PTL

\* A table is a set of rows, whatever the arrays behind it do.
THEOREM TableIsRowSet == MCSpec => ImplementsRowSet
  <1>1. MCInit => T!Abstract!Init
    BY TableBegins DEF MCInit
  <1>2. TableInv /\ [Searching \/ Working]_allvars => [T!Abstract!Next]_<<{rows[id] : id \in T!Live}, r>>
    BY RunStep DEF Rel
  <1> QED
    BY <1>1, <1>2, TableInvariant, PTL DEF MCSpec, ImplementsRowSet, T!ImplementsRowSet, T!Abstract!Spec
=============================================================================
