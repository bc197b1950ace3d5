----------------------------- MODULE SortedArray ------------------------------
(***************************************************************************)
(* The functions of array.c that the tables use, on sequences.  A filter, *)
(* `sign`, maps an entry to the sign of its comparison with the key: 1     *)
(* when the key comes after the entry, 0 for a match, -1 when it comes     *)
(* before.  A comparator, `order`, maps an entry to the filter for it.     *)
(* BinarySearch models the loops of the two searches turn by turn.         *)
(***************************************************************************)
EXTENDS Integers, Sequences

\* Where both searches look next.
Middle(low, high) == low + (high - low) \div 2

\* _array_sorted_find_index: the position of the first (last) match, 0 for
\* ENOENT.
FindIndex(entries, sign, reverse) ==
    LET n == Len(entries)
        r == [mid \in 0 .. n - 1 |->
                 IF reverse THEN -sign[entries[n - mid]] ELSE sign[entries[mid + 1]]]
        search[s \in [low: 0 .. n, high: 0 .. n, valid: BOOLEAN]] ==
            LET mid == Middle(s.low, s.high)
            IN  IF s.low >= s.high THEN IF s.valid THEN s.high + 1 ELSE 0
                ELSE IF r[mid] > 0 THEN search[[low |-> mid + 1, high |-> s.high, valid |-> s.valid]]
                ELSE search[[low |-> s.low, high |-> mid, valid |-> r[mid] = 0]]
        at == search[[low |-> 0, high |-> n, valid |-> FALSE]]
    IN  IF at # 0 /\ reverse THEN n + 1 - at ELSE at

\* array_sorted_each, array_sorted_extract: the entries from first to last match.
Matches(entries, sign) ==
    LET first == FindIndex(entries, sign, FALSE)
        last  == FindIndex(entries, sign, TRUE)
    IN  IF first = 0 THEN <<>> ELSE SubSeq(entries, first, last)

\* array_sorted_insert: the search for the place, then the move.
SortedInsert(entries, entry, order) ==
    LET n == Len(entries)
        r == [mid \in 0 .. n - 1 |-> order[entry][entries[mid + 1]]]
        place[s \in [low: 0 .. n, high: 0 .. n]] ==
            LET mid == Middle(s.low, s.high)
            IN  IF s.low >= s.high THEN s.low
                ELSE IF r[mid] < 0 THEN place[[low |-> s.low, high |-> mid]]
                ELSE IF r[mid] > 0 THEN place[[low |-> mid + 1, high |-> s.high]]
                ELSE mid
        dest == place[[low |-> 0, high |-> n]]
    IN  SubSeq(entries, 1, dest) \o <<entry>> \o SubSeq(entries, dest + 1, n)

\* What the callbacks of table.c gather: entries enter an empty sorted array.
Collect(entries, order) ==
    LET results[i \in 0 .. Len(entries)] ==
            IF i = 0 THEN <<>> ELSE SortedInsert(results[i - 1], entries[i], order)
    IN  results[Len(entries)]

\* array_delete: the filter matches the entries of `gone`; the rest keeps its order.
Compact(entries, gone) ==
    LET kept[i \in 0 .. Len(entries)] ==
            IF i = 0 THEN <<>>
            ELSE IF entries[i] \in gone THEN kept[i - 1]
            ELSE Append(kept[i - 1], entries[i])
    IN  kept[Len(entries)]

IsSorted(entries, order) ==
    \A i \in 1 .. Len(entries) - 1 : order[entries[i]][entries[i + 1]] <= 0

\* array_sort: qsort, which leaves entries that compare equal in any order.
Sorts(entries, order) ==
    LET n == Len(entries)
        orders == {p \in [1 .. n -> 1 .. n] : \A i, j \in 1 .. n : p[i] = p[j] => i = j}
    IN  {s \in {[i \in 1 .. n |-> entries[p[i]]] : p \in orders} : IsSorted(s, order)}
=============================================================================
