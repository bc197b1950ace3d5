------------------------------ MODULE MCOnceFS -------------------------------
(* Values for the constants of OnceFS that a .cfg cannot spell. *)
EXTENDS OnceFSCalls

FlatPaths == {<<n>> : n \in Names}
NestedPaths == FlatPaths \cup {<<"a", "b">>}

TwoChunks == {<<0, 3>>}
SmallExtents == {<<0, 1>>, <<0, 3>>}
=============================================================================
