----------------------------- MODULE MCOnceFSData ----------------------------
(* Values for the constants of OnceFSData that a .cfg cannot spell. *)
EXTENDS OnceFSData

FlatPaths == {<<n>> : n \in Names}

\* Payload 2: a byte, and two blocks after it.
Chunked == {<<0, 1>>, <<1, 3>>}
\* Payload 3: a block, a block and a byte that overlap it, a byte beyond a hole.
Overlapping == {<<0, 3>>, <<1, 4>>, <<6, 1>>}
=============================================================================
