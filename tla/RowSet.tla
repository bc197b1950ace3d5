-------------------------------- MODULE RowSet --------------------------------
(***************************************************************************)
(* What a table promises: a set of rows, one per key, changed by one whole *)
(* operation at a time.  OnceFSLog uses its two tables in this way.        *)
(***************************************************************************)
EXTENDS Naturals

CONSTANTS Keys, Vals

VARIABLES rel, r    \* the rows; what the last operation returned

Row == [key: Keys, val: Vals]

Init == rel = {} /\ r = "OK"

HasKey(row) == \E x \in rel : x.key = row.key

Insert(row) ==
    IF HasKey(row) THEN r' = "EEXIST" /\ UNCHANGED rel
    ELSE r' = "OK" /\ rel' = rel \cup {row}

InsertOrReplace(row) ==
    r' = "OK" /\ rel' = {x \in rel : x.key # row.key} \cup {row}

\* The rows of `hits`, and no others, get a new value.
Update(hits, val) ==
    r' = "OK" /\ rel' = (rel \ hits) \cup {[x EXCEPT !.val = val] : x \in hits}

Delete(hits) ==
    r' = (IF hits = {} THEN "ENOENT" ELSE "OK") /\ rel' = rel \ hits

\* A query selects the rows whose value lies in a range, or those of a key.
Range(low, high) == {x \in rel : low <= x.val /\ x.val <= high}
Keyed(key) == {x \in rel : x.key = key}

Next ==
    \/ \E row \in Row : Insert(row) \/ InsertOrReplace(row)
    \/ \E key \in Keys : Delete(Keyed(key)) \/ \E val \in Vals : Update(Keyed(key), val)
    \/ \E low, high \in Vals :
         Delete(Range(low, high)) \/ \E val \in Vals : Update(Range(low, high), val)

Spec == Init /\ [][Next]_<<rel, r>>
=============================================================================
