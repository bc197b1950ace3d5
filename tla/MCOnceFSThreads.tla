--------------------------- MODULE MCOnceFSThreads ----------------------------
(* Values for the constants of OnceFSThreads that a .cfg cannot spell. *)
EXTENDS OnceFSThreads

FlatPaths == {<<n>> : n \in Names}

TwoExtents == {<<0, 1>>, <<1, 3>>}
=============================================================================
