----------------------------- MODULE BinarySearch ----------------------------
(***************************************************************************)
(* The two loops of array.c, one turn per step: the search for the first  *)
(* match of a filter (_array_sorted_find_index; the last match is the same *)
(* search on the mirrored array) and the search for the place of a new     *)
(* entry (array_sorted_insert).                                            *)
(*                                                                         *)
(* Only the signs that the filter or comparator returns matter: sign[i] is *)
(* its result for the key and entry i, positive when the key comes after   *)
(* the entry.  On a sorted array, with a filter "compatible with the sort  *)
(* comparator" (array.h), they fall from positive over zero to negative.   *)
(***************************************************************************)
EXTENDS Integers

CONSTANT MaxLen     \* bound on the number of entries

ASSUME MaxLenAssumption == MaxLen \in Nat

VARIABLES
    goal,   \* which of the two loops runs; "done" after the match of an insert
    fill,   \* the number of entries
    sign,   \* what the filter returns for each entry
    low, high, valid

vars == <<goal, fill, sign, low, high, valid>>

Sign == {-1, 0, 1}

Falling(s) == \A i, j \in DOMAIN s : i < j => s[i] >= s[j]

Init ==
    /\ goal \in {"find", "insert"}
    /\ fill \in 0 .. MaxLen
    /\ sign \in {s \in [0 .. fill - 1 -> Sign] : Falling(s)}
    /\ low = 0 /\ high = fill /\ valid = FALSE

mid == low + (high - low) \div 2

Turn == goal # "done" /\ low < high /\ UNCHANGED <<fill, sign>>

\* Mutant: the search ends at the first match that it meets.
Match_Any ==
    /\ Turn /\ goal = "find" /\ sign[mid] = 0
    /\ low' = mid /\ high' = mid /\ valid' = TRUE
    /\ UNCHANGED goal

\* A match is kept, and the search goes on to the left of it.
Match ==
    /\ Turn /\ goal = "find" /\ sign[mid] = 0
    /\ high' = mid /\ valid' = TRUE
    /\ UNCHANGED <<goal, low>>

\* The loop of an insertion breaks off at a match.
Place ==
    /\ Turn /\ goal = "insert" /\ sign[mid] = 0
    /\ goal' = "done" /\ low' = mid
    /\ UNCHANGED <<high, valid>>

\* Mutant: the upper bound is taken for an entry that may still match.
Before_Inclusive ==
    /\ Turn /\ sign[mid] < 0
    /\ high' = mid - 1 /\ valid' = FALSE
    /\ UNCHANGED <<goal, low>>

Before ==
    /\ Turn /\ sign[mid] < 0
    /\ high' = mid /\ valid' = FALSE
    /\ UNCHANGED <<goal, low>>

\* Mutant: the entry in the middle is looked at again.
After_Again ==
    /\ Turn /\ sign[mid] > 0
    /\ low' = mid
    /\ UNCHANGED <<goal, high, valid>>

\* Mutant: an entry is passed over.
After_Skips ==
    /\ Turn /\ sign[mid] > 0
    /\ low' = IF mid + 2 <= high THEN mid + 2 ELSE mid + 1
    /\ UNCHANGED <<goal, high, valid>>

After ==
    /\ Turn /\ sign[mid] > 0
    /\ low' = mid + 1
    /\ UNCHANGED <<goal, high, valid>>

Next == Match \/ Place \/ Before \/ After

Spec == Init /\ [][Next]_vars

\* The loop runs on.
FairSpec == Spec /\ WF_vars(Next)

Ended == goal = "done" \/ low >= high

-----------------------------------------------------------------------------
(* Properties. *)

\* The cursors stay in the array and never cross.
TypeOK ==
    /\ goal \in {"find", "insert", "done"}
    /\ fill \in Nat
    /\ sign \in [0 .. fill - 1 -> Sign] /\ Falling(sign)
    /\ low \in 0 .. fill /\ high \in 0 .. fill /\ low <= high
    /\ valid \in BOOLEAN

\* When the search ends, it has found the first entry that the filter accepts,
\* or there is none and it says so.
FindsFirst ==
    goal = "find" /\ Ended =>
        IF valid
        THEN /\ high < fill /\ sign[high] = 0
             /\ \A i \in 0 .. fill - 1 : sign[i] = 0 => high <= i
        ELSE \A i \in 0 .. fill - 1 : sign[i] # 0

\* When the other search ends, an entry put at `low` leaves the array sorted:
\* no entry before it is greater, none from there on is smaller.
KeepsSorted ==
    goal # "find" /\ Ended =>
        \A i \in 0 .. fill - 1 : IF i < low THEN sign[i] >= 0 ELSE sign[i] <= 0

\* Both searches end.
Ends == <>Ended
=============================================================================
