--------------------------- MODULE OnceFSContainer ---------------------------
(***************************************************************************)
(* The container below OnceFS.  A record that is written reaches the page *)
(* cache; the kernel writes blocks back in any order at any time, fsync    *)
(* writes all of them, and a power loss leaves what was written back.      *)
(* Formatting invalidates the tags block by block, in the cache as well,   *)
(* does not sync them, and can be interrupted.  The write of one block is  *)
(* atomic.                                                                 *)
(*                                                                         *)
(* "power" and "format" in Calls let power losses and formatting happen.   *)
(***************************************************************************)
EXTENDS OnceFS

VARIABLES
    stable,     \* the records that a power loss leaves
    cursor,     \* the block that formatting overwrites next; 1 at other times
    past,       \* observer: what a mount may show, the views since the last sync
    haunted     \* observer: a mount has left records behind that it did not read,
                \* or is to read records that were cleared or overwritten before

cvars == <<fs, mode, job, todo, stable, cursor, past, haunted>>

\* What a mount is to rebuild of a machine.
View(m) == [nodes |-> Logged(m), blocks |-> m.blocks,
            next_block_id |-> m.next_block_id, next_seq_id |-> m.next_seq_id]

CInit ==
    /\ Init
    /\ stable = fs.disk
    /\ cursor = 1
    /\ past = {View(fs)}
    /\ haunted = FALSE

\* The observers after a step: a view counts until all of it is written back.
Observe ==
    /\ haunted' = (haunted \/ (Remounted /\ Valid(fs.disk) # Scanned(fs.disk)))
    /\ past' = IF mode' # "mounted" THEN past
               ELSE IF haunted' THEN {}
               ELSE IF stable' = fs'.disk THEN {View(fs')} ELSE past \cup {View(fs')}

-----------------------------------------------------------------------------
(* The container. *)

\* What is written stays in the page cache; where the power does not fail it
\* makes no difference when it is written back.
Cached == stable' = IF "power" \in Calls THEN stable ELSE fs'.disk

Works == (Call \/ Finish \/ Mount \/ Load \/ Stop) /\ cursor' = 1 /\ Cached /\ Observe

\* oncefs_sync, which flush and fsync call.
Sync ==
    /\ Begin("sync")
    /\ stable' = fs.disk
    /\ UNCHANGED <<fs, job, cursor>>
    /\ Observe

Writeback(b) ==
    /\ "power" \in Calls
    /\ stable[b] # fs.disk[b]
    /\ stable' = [stable EXCEPT ![b] = fs.disk[b]]
    /\ UNCHANGED <<fs, mode, job, todo, cursor>>
    /\ Observe

\* The next mount reads a record that is no longer there: its tag was cleared, or
\* its block overwritten, and that has not been written back.
Revived == \E b \in Scanned(stable) : stable[b] # fs.disk[b]

PowerLoss ==
    /\ "power" \in Calls
    /\ stable # fs.disk
    /\ fs' = Fresh(stable)
    /\ mode' = "down" /\ job' = NoJob /\ todo' = {}
    /\ cursor' = 1
    /\ haunted' = (haunted \/ Revived)
    /\ UNCHANGED <<stable, past>>

-----------------------------------------------------------------------------
(* Formatting. *)

\* Whatever the last process has left in the cache.  The next mount may show the
\* old file system or an empty one.
BeginFormat ==
    /\ "format" \in Calls
    /\ mode = "down"
    /\ mode' = "formatting" /\ UNCHANGED cursor
    /\ past' = past \cup {View(Fresh(fs.disk))}
    /\ UNCHANGED <<fs, job, todo, stable, haunted>>

\* Mutant: the blocks are invalidated from the last to the first.
FormatBlock_Backwards ==
    /\ mode = "formatting"
    /\ fs' = [fs EXCEPT !.disk[LastBlock + 1 - cursor] = NoRecord]
    /\ cursor' = IF cursor = LastBlock THEN 1 ELSE cursor + 1
    /\ mode' = IF cursor = LastBlock THEN "mounted" ELSE mode
    /\ haunted' = (cursor # LastBlock /\ haunted)
    /\ past' = IF mode' = "mounted" THEN {View(fs')} ELSE past
    /\ Cached
    /\ UNCHANGED <<job, todo>>

\* Mutant: the first block is left out.
FormatBlock_NotFirst ==
    /\ mode = "formatting"
    /\ fs' = IF cursor = 1 THEN fs ELSE [fs EXCEPT !.disk[cursor] = NoRecord]
    /\ cursor' = IF cursor = LastBlock THEN 1 ELSE cursor + 1
    /\ mode' = IF cursor = LastBlock THEN "mounted" ELSE mode
    /\ haunted' = (cursor # LastBlock /\ haunted)
    /\ past' = IF mode' = "mounted" THEN {View(fs')} ELSE past
    /\ Cached
    /\ UNCHANGED <<job, todo>>

\* One turn of the loop of _oncefs_format, an io_write like any other; after the
\* last, the tables are empty, and no sync follows.
FormatBlock ==
    /\ mode = "formatting"
    /\ fs' = [fs EXCEPT !.disk[cursor] = NoRecord]
    /\ cursor' = IF cursor = LastBlock THEN 1 ELSE cursor + 1
    /\ mode' = IF cursor = LastBlock THEN "mounted" ELSE mode
    /\ haunted' = (cursor # LastBlock /\ haunted)
    /\ past' = IF mode' = "mounted" THEN {View(fs')} ELSE past
    /\ Cached
    /\ UNCHANGED <<job, todo>>

CNext ==
    \/ Works \/ Sync \/ PowerLoss \/ BeginFormat \/ FormatBlock
    \/ \E b \in Block : Writeback(b)

CSpec == CInit /\ [][CNext]_cvars

-----------------------------------------------------------------------------
(* Properties, of a container that is never full. *)

\* After a power loss a mount shows the file system as it was after one of the
\* records written since the last sync: nothing that was synced is lost, no
\* later record without the earlier ones.  After a formatting, interrupted or
\* not, it shows all of the old file system or none of it, and what was written
\* since.  Not so where the power fails while a tag that formatting cleared, and
\* that the mount reads, has not been written back: no sync follows a formatting.
PrefixRecovery == [][ Remounted /\ ~haunted => View(fs') \in past ]_cvars

\* The records of the container are those of the mounted machine: no others
\* wait behind them for the log to reach them.
NoGhosts == mode = "mounted" /\ ~haunted => Valid(fs.disk) = 1 .. fs.next_block_id - 1
=============================================================================
