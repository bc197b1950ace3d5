-------------------------------- MODULE MCTable -------------------------------
(* BinarySearch and Table in one run, side by side: they share no state.  The  *)
(* table is at work beside the search of an empty array, which has ended.      *)
EXTENDS BinarySearch

CONSTANTS Keys, Vals, MaxRows

\* What a comparator compares: numbers.
ASSUME RowAssumption == Keys \subseteq Int /\ Vals \subseteq Int

VARIABLES rows, indexes, r

T == INSTANCE Table

allvars == <<goal, fill, sign, low, high, valid, rows, indexes, r>>

MCInit == Init /\ T!Init

Searching == Next /\ UNCHANGED <<rows, indexes, r>>

Working == goal = "find" /\ fill = 0 /\ T!Next /\ UNCHANGED vars

MCSpec == MCInit /\ [][Searching \/ Working]_allvars /\ WF_vars(Next)

\* The properties of Table, under their own names.
IndexesAgree == T!IndexesAgree
QueriesExact == T!QueriesExact
ImplementsRowSet == T!ImplementsRowSet
=============================================================================
