--------------------------- MODULE OnceFSRecovery ----------------------------
(***************************************************************************)
(* What a mount rebuilds, compared with what the process held when it     *)
(* ended.  `saved` is the machine of the last process at its end, in the  *)
(* middle of a call or not, until a mount has succeeded; it is an         *)
(* observer and constrains nothing.                                        *)
(***************************************************************************)
EXTENDS OnceFS

VARIABLE saved

rvars == <<fs, mode, job, todo, saved>>

Nothing == Fresh([b \in Block |-> NoRecord])

RecInit == Init /\ saved = Nothing

Saves ==
    saved' = IF mode = "mounted" /\ mode' = "down" THEN Return(fs, "OK")
             ELSE IF Remounted THEN Nothing
             ELSE saved

RecNext == Next /\ Saves

RecSpec == RecInit /\ [][RecNext]_rvars

-----------------------------------------------------------------------------
(* Views of a machine. *)

\* No record was ever overwritten: each sequence number has its own block.
NeverReused(m) == m.next_seq_id = m.next_block_id

Keys(nodes) == {<<x.node, x.type>> : x \in nodes}

-----------------------------------------------------------------------------
(* Properties. *)

\* As long as the log is append only, a mount rebuilds the very tables of the
\* process before, times and trimmed sizes included; only the rows of a call
\* that wrote no record are gone.
AppendRecovery ==
    [][ Remounted /\ NeverReused(saved) =>
          /\ fs'.nodes = Logged(saved)
          /\ fs'.blocks = saved.blocks
          /\ fs'.next_block_id = saved.next_block_id
          /\ fs'.next_seq_id = saved.next_seq_id
          /\ fs'.next_node_id <= saved.next_node_id ]_rvars

\* Reuse included: a mount rebuilds the block table exactly (nothing freed
\* comes back, nothing in use is lost), no node returns that was gone, and
\* every node that a record in use carries is where it was.
ReuseRecovery ==
    [][ Remounted =>
          /\ fs'.blocks = saved.blocks
          /\ fs'.next_block_id = saved.next_block_id
          /\ fs'.next_seq_id = saved.next_seq_id
          /\ Keys(fs'.nodes) \subseteq Keys(saved.nodes)
          /\ {Timeless(x) : x \in Logged(saved)} \subseteq {Timeless(x) : x \in fs'.nodes} ]_rvars

\* A mount succeeds.
MountSucceeds == mode # "failed"

-----------------------------------------------------------------------------
(* What the repository says and the code does not do. *)

\* The data a truncation cut off stays cut off: a data row is never larger
\* after a mount than it was before (test.c: "This data should have been
\* truncated").
TruncationLasts ==
    [][ Remounted => \A b \in Block :
          fs'.blocks[b].op = "DATA" /\ fs'.blocks[b].seq = saved.blocks[b].seq =>
            /\ saved.blocks[b].op = "DATA"
            /\ fs'.blocks[b].fill <= saved.blocks[b].fill ]_rvars
=============================================================================
