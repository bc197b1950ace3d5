--------------------------- MODULE MCOnceFSHandles ----------------------------
(* Values for the constants of OnceFSHandles that a .cfg cannot spell. *)
EXTENDS OnceFSHandles, TLC

FlatPaths == {<<n>> : n \in Names}

OneExtent == {<<0, 1>>}

\* No action and no property tells one handle from another, or one name from
\* another of its kind; where a CHOOSE takes one of two rows, they have one name.
Alike == Permutations(Handle) \cup Permutations(Hidden) \cup Permutations(Names \ Hidden)
=============================================================================
