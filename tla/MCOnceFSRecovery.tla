-------------------------- MODULE MCOnceFSRecovery ---------------------------
(* Values for the constants of OnceFSRecovery that a .cfg cannot spell. *)
EXTENDS OnceFSRecovery

FlatPaths == {<<n>> : n \in Names}

NoExtents == {}
TwoChunks == {<<0, 3>>}
=============================================================================
