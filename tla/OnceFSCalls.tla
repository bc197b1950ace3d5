----------------------------- MODULE OnceFSCalls ------------------------------
(***************************************************************************)
(* Whole calls of OnceFS.  A call that writes several records is several  *)
(* actions; here its end is compared with its beginning.  `began` is the   *)
(* machine as the call in progress found it; it is an observer and         *)
(* constrains nothing.                                                     *)
(***************************************************************************)
EXTENDS OnceFS

VARIABLE began

callvars == <<fs, mode, job, todo, began>>

CallInit == Init /\ began = fs

\* Between two calls the next one finds the machine that is there.
CallNext == Next /\ began' = IF job' = NoJob THEN fs' ELSE began

CallSpec == CallInit /\ [][CallNext]_callvars

-----------------------------------------------------------------------------
(* Properties. *)

\* The name that a rename in progress goes to was the name of several rows.
Shared == \E x, y \in Lookup(began.nodes, job.row.parent, job.row.name) : x # y

\* A call refused for another reason than space has changed nothing since it
\* began.  A rename over a file has deleted the file when its second attempt to
\* move is refused; that happens only where a mount had left several rows of
\* that name.
RefusedCleanly ==
    [][ mode = "mounted" /\ mode' = "mounted" /\ fs'.r \in {"ENOENT", "EEXIST", "EINVAL"} =>
          fs' = Return(began, fs'.r) \/ (job.kind = "move" /\ Shared) ]_callvars

\* What a truncation refused for lack of space leaves of a data row: the bytes
\* below the new size.
Trimmed(row, size) ==
    [row EXCEPT !.fill = IF size < row.offset + row.fill THEN size - row.offset ELSE row.fill]

\* A call refused for lack of space has cost no data since it began: a file in
\* the way of a rename is not deleted in vain, a file that is partly written
\* keeps what it had.  A truncation has cut off what it was to cut off, but freed
\* no row, and one to 0 has cut nothing.
RefusedKeepsData ==
    [][ mode = "mounted" /\ mode' = "mounted" /\ fs'.r = "ENOSPC" =>
          \A b \in Rows(began, "DATA") :
             \/ fs'.blocks[b] = began.blocks[b]
             \/ \E size \in Sizes : /\ began.blocks[b].offset < size
                                    /\ DelData(began.blocks[b].node, size)
                                    /\ fs'.blocks[b] = Trimmed(began.blocks[b], size) ]_callvars

=============================================================================
