-------------------------------- MODULE Table ---------------------------------
(***************************************************************************)
(* table.c: rows that are only ever appended, and two indexes, arrays of  *)
(* row numbers sorted by the rows they refer to.  The primary index orders *)
(* by key, the second by value, where rows may tie, as they may in the     *)
(* lookup index of the nodes.  Deleting takes row numbers out of the       *)
(* indexes and leaves the rows where they are.                             *)
(***************************************************************************)
EXTENDS SortedArray, FiniteSets

CONSTANTS
    Keys, Vals,     \* what rows consist of: numbers
    MaxRows         \* bound: no row is appended once there are MaxRows

VARIABLES
    rows,       \* the rows ever appended; a row's number is its position
    indexes,    \* the two arrays of row numbers
    r           \* what the last operation returned

vars == <<rows, indexes, r>>

Row == [key: Keys, val: Vals]

Primary == 1
Lookup == 2

SignOf(a, b) == IF a < b THEN -1 ELSE IF a > b THEN 1 ELSE 0

\* The comparators of the indexes, on row numbers, over the rows `all`.
CompareIn(all, i) ==
    [a \in 1 .. Len(all) |-> [b \in 1 .. Len(all) |->
        IF i = Primary THEN SignOf(all[a].key, all[b].key)
        ELSE SignOf(all[a].val, all[b].val)]]

\* Filters: the rows of a key; the rows whose value lies in a range.
ByKey(key) == [id \in 1 .. Len(rows) |-> SignOf(key, rows[id].key)]
InRange(low, high) ==
    [id \in 1 .. Len(rows) |->
        IF high < rows[id].val THEN -1 ELSE IF low > rows[id].val THEN 1 ELSE 0]

Init == rows = <<>> /\ indexes = <<<<>>, <<>>>> /\ r = "OK"

-----------------------------------------------------------------------------
(* Operations. *)

\* Mutant: only the primary index is sorted again.
Resort_Primary(all) ==
    \E primary \in Sorts(indexes[Primary], CompareIn(all, Primary)) :
        indexes' = [indexes EXCEPT ![Primary] = primary]

\* array_sort on each index, the rows being `all` now.
Resort(all) ==
    \E primary \in Sorts(indexes[Primary], CompareIn(all, Primary)),
       lookup  \in Sorts(indexes[Lookup], CompareIn(all, Lookup)) :
        indexes' = <<primary, lookup>>

\* Mutant: a row that has been deleted is found, and not entered again.
InsertWith_Ghost(row, replace) ==
    LET ghosts == {id \in 1 .. Len(rows) : rows[id].key = row.key}
    IN  IF ghosts = {}
        THEN /\ Len(rows) < MaxRows
             /\ rows' = Append(rows, row)
             /\ indexes' = [i \in 1 .. 2 |-> SortedInsert(indexes[i], Len(rows'), CompareIn(rows', i))]
             /\ r' = "OK"
        ELSE IF ~replace THEN r' = "EEXIST" /\ UNCHANGED <<rows, indexes>>
        ELSE /\ rows' = [rows EXCEPT ![CHOOSE id \in ghosts : TRUE] = row]
             /\ Resort(rows')
             /\ r' = "OK"

\* _table_insert: a new row goes to the end and into each index; a row that is
\* there is overwritten in place, and every index is sorted again.
InsertWith(row, replace) ==
    LET at == FindIndex(indexes[Primary], ByKey(row.key), FALSE)
    IN  IF at = 0
        THEN /\ Len(rows) < MaxRows
             /\ rows' = Append(rows, row)
             /\ indexes' = [i \in 1 .. 2 |-> SortedInsert(indexes[i], Len(rows'), CompareIn(rows', i))]
             /\ r' = "OK"
        ELSE IF ~replace THEN r' = "EEXIST" /\ UNCHANGED <<rows, indexes>>
        ELSE /\ rows' = [rows EXCEPT ![indexes[Primary][at]] = row]
             /\ Resort(rows')
             /\ r' = "OK"

Insert(row) == InsertWith(row, FALSE)
InsertOrReplace(row) == InsertWith(row, TRUE)

Ids(hits) == {hits[n] : n \in 1 .. Len(hits)}

\* table_query_update: the mutator runs over a stretch of the index that was
\* found before it changed anything; then each index is sorted.
Update(hits, val) ==
    /\ rows' = [id \in 1 .. Len(rows) |->
                   IF id \in Ids(hits) THEN [rows[id] EXCEPT !.val = val] ELSE rows[id]]
    /\ Resort(rows')
    /\ r' = "OK"

\* table_query_delete: the row numbers are collected in a sorted array, and
\* every index is rid of what is found there.
Delete(hits) ==
    LET ByNumber == [a \in DOMAIN rows |-> [b \in DOMAIN rows |-> SignOf(a, b)]]
        collected == Collect(hits, ByNumber)
        found == {id \in DOMAIN rows : FindIndex(collected, ByNumber[id], FALSE) # 0}
    IN  /\ indexes' = [i \in 1 .. 2 |-> Compact(indexes[i], found)]
        /\ r' = IF hits = <<>> THEN "ENOENT" ELSE "OK"
        /\ UNCHANGED rows

-----------------------------------------------------------------------------
(* Queries. *)

Keyed(key) == Matches(indexes[Primary], ByKey(key))

\* Mutant: the filter is used on an index whose order it does not follow.
Ranged_WrongIndex(low, high) ==
    Matches(indexes[Primary], InRange(low, high))

Ranged(low, high) == Matches(indexes[Lookup], InRange(low, high))

\* table_query_first and table_query_last over a range: 0 for ENOENT.
First(low, high) ==
    LET at == FindIndex(indexes[Lookup], InRange(low, high), FALSE)
    IN  IF at = 0 THEN 0 ELSE indexes[Lookup][at]
Last(low, high) ==
    LET at == FindIndex(indexes[Lookup], InRange(low, high), TRUE)
    IN  IF at = 0 THEN 0 ELSE indexes[Lookup][at]

\* table_query_count: no match counts as none.
Count(low, high) == Len(Ranged(low, high))

\* table_query_order_by, in the order of the keys: rows enter a sorted array.
OrderedByKey(low, high) == Collect(Ranged(low, high), CompareIn(rows, Primary))

Next ==
    \/ \E row \in Row : Insert(row) \/ InsertOrReplace(row)
    \/ \E key \in Keys : Delete(Keyed(key)) \/ \E val \in Vals : Update(Keyed(key), val)
    \/ \E low, high \in Vals :
         Delete(Ranged(low, high)) \/ \E val \in Vals : Update(Ranged(low, high), val)

Spec == Init /\ [][Next]_vars

-----------------------------------------------------------------------------
(* Properties. *)

Live == Ids(indexes[Primary])

\* Both indexes hold the same row numbers, none twice, in the order of the rows
\* as they are now, whatever was overwritten, updated or deleted before; and no
\* two live rows share a key.  A search on an index relies on all of it.
IndexesAgree ==
    /\ rows \in Seq(Row) /\ Live \subseteq 1 .. Len(rows)
    /\ Ids(indexes[Lookup]) = Live
    /\ \A i \in {Primary, Lookup} :
         /\ Len(indexes[i]) = Cardinality(Live)
         /\ IsSorted(indexes[i], CompareIn(rows, i))
    /\ \A a, b \in Live : rows[a].key = rows[b].key => a = b

\* Queries over a range answer as if they had looked at every live row: the
\* first and last match are the least and greatest, all matches are visited
\* once and counted, and ordering them by another key loses none.
QueriesExact ==
    \A low, high \in Vals :
        LET hits == {id \in Live : low <= rows[id].val /\ rows[id].val <= high}
        IN  /\ Ids(Ranged(low, high)) = hits /\ Count(low, high) = Cardinality(hits)
            /\ IF hits = {} THEN First(low, high) = 0 /\ Last(low, high) = 0
               ELSE /\ First(low, high) \in hits /\ Last(low, high) \in hits
                    /\ \A id \in hits : /\ rows[First(low, high)].val <= rows[id].val
                                        /\ rows[id].val <= rows[Last(low, high)].val
            /\ Ids(OrderedByKey(low, high)) = hits
            /\ IsSorted(OrderedByKey(low, high), CompareIn(rows, Primary))

\* A table is a set of rows: every operation does to the live rows what RowSet
\* says, and returns what it says.
Abstract == INSTANCE RowSet WITH rel <- {rows[id] : id \in Live}
ImplementsRowSet == Abstract!Spec
=============================================================================
