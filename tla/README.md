# OnceFS in TLA+

A model of OnceFS, the log-structured file system of this repository: what its
in-memory tables, its container and its mount promise each other, model-checked
with TLC on small containers and, for the log, the reuse of blocks, recovery and
the contents of files, proved with TLAPS for containers of every size. The arrays and tables below it,
the container under power losses, and the FUSE handlers above it have models of
their own.

## The system

| Part | State | Operations | Interacts with |
|---|---|---|---|
| Log and block allocator (`oncefs.c`: `_oncefs_create_block`, `_oncefs_block_reuse`, `_oncefs_init_block`) | table `blocks`, counters `next_block_id`, `next_seq_id`, `next_node_id` | grant a block, enter its row, then `io_write` the record | called by every operation that changes anything |
| Namespace (`oncefs_set_file`, `set_dir`, `set_link`, `set_time`, `move_node`, `del_node`) | table `nodes`, keyed by (node, type), indexed by (parent, name) | resolve a path, change the table, write one record (a link and a rename over a file: two) | allocator |
| File data (`oncefs_set_data`, `get_data`, `del_data`) | rows `DATA` and `TRUNCATE` of `blocks`, bytes in the container | write in chunks of `payload_size`; merge on reading; cut rows on truncating | allocator, io |
| Mount (`oncefs_init`, `_oncefs_load`) | rebuilds both tables and the counters | scan tags up to the first invalid one, sort by sequence number, replay | the same helpers as the live calls |
| Format (`_oncefs_format`) | container | one invalid tag per block | io |
| Queries (`get_status`, `get_node`, `get_dir`, `get_link`) | none | read the tables | table |
| Table (`lib/table.c`) and array (`lib/array.c`) | rows; indexes as sorted arrays of row numbers | insert or replace, query with a comparison function, update, delete | under `nodes` and `blocks` |
| io (`lib/io.c`) | a file or a buffer | read and write at a block, sync | under all of it |
| FUSE layer (`fuse.c`) | globals `ofs`, `io`; a node id per open file | one handler per request, run in several threads | calls `oncefs.h` |

What is hard here, and what each part must guarantee:

* **The container fills up.** Appending gives way to the reuse of blocks, in an
  order that decides whether the next mount can make sense of the log. The
  allocator must overwrite only what is obsolete, and a reused block must not
  bring back what it had cancelled.
* **The process ends anywhere**, also between the two records of one call. The
  mount must rebuild what the tables held.
* **The table changes before the record is written**, and the write can be
  refused with `ENOSPC`.
* **History is rewritten.** A record is meaningful in the context of older ones
  that may have been overwritten since; the mount replays what is left.
* **Truncation** keeps cut data records in the container and relies on a later
  record to cut them again.
* **Reading** merges overlapping records; the size of a file is derived from one
  of them.
* **Power losses** keep any subset of the blocks written since the last sync, the
  tags of a formatting among them, and formatting can be interrupted; the scan of a
  mount stops at the first invalid tag.
* **Threads** share the instance without a lock, and **open files** hold a node id
  that nothing checks again; what keeps the node in being is libfuse, which has names
  and open counts of its own.
* **Two indexes** refer to rows that are overwritten in place, and are searched by
  bisection.

`PROJECT.json` lists the hazards one by one, with the line where each bites and
the properties that watch it.

## The modules

| Module | Models |
|---|---|
| `OnceFSLog` | One instance as a value, a *machine*, and the functions of `oncefs.c` as operators from machine to machine. No state machine, no recursion. |
| `OnceFS` | The process as a state machine: one action per call of `oncefs.h`, per further record of a call, per record of a mount, and the end of the process. Invariants and action properties. |
| `OnceFSCalls` | `OnceFS` with an observer, `began`, the machine as the call in progress found it. What a refused call may leave. |
| `OnceFSRecovery` | `OnceFS` with an observer, `saved`, that keeps the machine the last process held. What a mount must rebuild. |
| `OnceFSProofs` | The forms that a step of `OnceFS` can take; the theorems about its rows, records and counters, and about the tree that its rows make. |
| `OnceFSRecoveryProofs` | The theorems about reuse and a full container, about `OnceFSCalls`, and about `OnceFSRecovery`. |
| `OnceFSDataProofs` | The theorems about `OnceFSData`. |
| `OnceFSContainerProofs` | The theorems about `OnceFSContainer`: where the log ends, what a power loss may leave of a log or of a formatting. |
| `OnceFSThreadsProofs` | The theorems about `OnceFSThreads` with one thread. |
| `OnceFSHandlesProofs` | The theorems about `OnceFSHandles`. |
| `OnceFSNamespaceProofs` | The theorems about `OnceFSNamespace`: places in the tree, what a directory lists, the refinement of `Namespace`. |
| `OnceFSData` | `OnceFSRecovery` with an observer, `ideal`, a plain array of bytes per file; reading (`get_data`, `get_node`'s size) as operators. |
| `Namespace` | Abstract: a tree of paths, changed by whole operations, without process, log or crash. |
| `OnceFSNamespace` | `OnceFSRecovery` with the tree read off its rows, as an implementation of `Namespace`; `get_dir`, `get_link`. |
| `OnceFSContainer` | `OnceFS` over a page cache: writeback in any order, `fsync`, power loss; formatting block by block, through the same cache. |
| `OnceFSThreads` | `do_create` and `do_write` run by threads, cut at the accesses of the shared counters, the table and the container. |
| `OnceFSHandles` | The handlers of `fuse.c` with open files, one at a time, under libfuse's names. |
| `BinarySearch` | The two bisections of `array.c`, one turn of the loop per step. |
| `SortedArray` | The functions of `array.c` as operators on sequences. |
| `RowSet` | Abstract: a set of rows with one per key. |
| `Table` | `table.c` on `SortedArray`: rows and two indexes, as an implementation of `RowSet`. |
| `TableProofs` | The theorems about `BinarySearch`, `SortedArray` and `Table`. |
| `MC...` | Constants that a `.cfg` cannot spell. |

`OnceFSCalls`, `OnceFSRecovery`, `OnceFSContainer`, `OnceFSThreads` and `OnceFSHandles`
extend `OnceFS`, `OnceFSData` and `OnceFSNamespace` extend `OnceFSRecovery`; each takes the
actions below it over as they are and adds the part of the world that its questions
are about. `MCTable` checks `BinarySearch` and `Table` side by side, and
`MCOnceFSNamespace` checks `OnceFSNamespace` and `OnceFSData` so: in each the two share no
state. `MCOnceFSContainer` starts `OnceFSContainer` with one of two workloads.

### State

| Model | Code |
|---|---|
| `fs.nodes` | `oncefs_t.nodes`: a set of rows, `InsertOrReplace` keeps (node, type) unique as the primary index does |
| `fs.blocks[b]` | the row of block `b` in `oncefs_t.blocks`; `op = "NONE"` when the table has none |
| `fs.disk[b]` | the record in block `b` of the container: tag, then a node row or `oncefs_data_t`; `op = "INVALID"` for a tag left by formatting |
| `fs.next_*` | the counters |
| `fs.r` | what the last call returned |
| `job` | the local state of a call between two of its records |
| `mode`, `todo` | where the process is; the records the mount has yet to replay |

A row of `blocks` and the record in the block are kept apart because they may
differ: freeing and trimming change the row and leave the record. The mount sees
only the record. Most of the properties are about this difference.

### Actions

Every call that writes at most one record is one action, from resolving the path
to the write, on every path through it, failures included: `SetFile`, `SetDir`,
`SetTime`, `DelNode`, `DelData`, and `MoveNode` when nothing is in the way. Calls
that write more set `job`: `SetLink` then `FinishLink`; `MoveNode` (deletes the
file in the way) then `FinishMove`; `SetData` then a `WriteChunk` per block. `Stop`
may come between any two actions: it stands for an unmount, a kill or the exit
after a failed mount, and leaves the container. A crash between granting a block
and writing the record leaves the same container as a crash before the call.
`Mount` scans, each `LoadRecord` replays one record by sequence number, `Mounted`
ends the mount. A replayed MOVE that conflicts ends in mode `"failed"`.

`_oncefs_load` sets `next_seq_id` once, after the last record; the model moves it
with every record, which nothing reads before the mount ends.

### The other machines

* `OnceFSCalls.began` is the machine before the call in progress. A rename over a file,
  a link and a write of several blocks are several actions; comparing with `began`
  makes a property one of the call and not of its last step.
* `OnceFSData.ideal[n]` holds for every position of node `n` the sequence number
  of the record that wrote it last, 0 for none. A byte is its record. It survives
  the process, so what a read delivers is compared across mounts.
* `OnceFSNamespace.tree` is a function of the other variables: resolved from the
  node table while a process serves the container, from a replay of the log while
  none does. A step of a mount may therefore not move it, and a call takes effect
  with its record.
* `OnceFSContainer.stable` is what a power loss leaves, `fs.disk` what the page
  cache shows. `Writeback(b)` takes any dirty block, `Sync` is `oncefs_sync`,
  `PowerLoss` starts over from `stable`. `FormatBlock` is one turn of the loop of
  `_oncefs_format`; its `io_write` stays in the cache like that of any record (`Cached`),
  nothing syncs it, and the process or the power may end between two turns or after the
  last. `past` collects the views a mount may show. `haunted` notes what no order of
  records explains: a mount has left records behind a hole, or the power has failed
  while a record that the next mount reads was cleared or overwritten in the cache only
  (`Revived`).
* `OnceFSThreads.thread[t]` is the local state of a handler: `grant` reads
  `next_block_id`, `advance` writes it back, `number` and `renumber` do the same
  with `next_seq_id`, `enter` changes the block table, `record` writes the block.
* `OnceFSHandles.fh[h]` is `fi->fh`. `OpenToRead`, `OpenNew`, `OpenToAppend` and
  `OpenToWrite` are the paths through `do_open`. `opened[h]` is libfuse's: the path under
  which it counts the handle's file as open. It asks this name, and not OnceFS, whether
  a file is open (`IsOpen`), hides such a file instead of removing it (`Hide`), removes
  it after the last handle (`Release`), and renames its own names when a rename has
  returned 0 and only then (`Renames`); `do_init` leaves all of that at libfuse's
  defaults. `onto` is a rename that waits for the hiding of the file in its way.
  `adrift` notes the handles whose file a rename has moved and then refused with
  `ENOSPC`: the row has its new name, libfuse still counts the file under the old one.
* `BinarySearch` knows of an array only the signs that the filter returns.
* `Table.rows` is only appended to or overwritten in place; `indexes` holds the
  two arrays of row numbers. The first orders by key, the second by value, with
  ties, as the lookup index of `nodes` has them.

### What is abstracted

Names are model values of legal length, so `dirname`, `basename` and `strtok_r`
act on sequences of names; the bytes of a data record are its identity; access
time and mode, which no control flow reads, are left out; 32- and 64-bit counters
do not wrap; a container has at least one block for records (`io_block_last() >= 1`).
A record write is atomic; it is ordered except in `OnceFSContainer`. One call runs
at a time except in `OnceFSThreads`. Callers pass paths other than `/` and node ids
of files they looked up, as `fuse.c` does, and the kernel does not rename a path to
itself or below itself.

In `OnceFSThreads` the kernel serialises writes to one file and creates in one
directory; the change of a table is one step, so the races of the arrays below it
are left out; a counter is read once and written back once. In `OnceFSHandles`
handlers run one at a time, and all paths are in the root directory. Memory never runs
out.

## What is checked

| Run | Container and workload | Properties |
|---|---|---|
| `namespace` | 3 blocks, soon full; nested paths over 2 names, truncation to 1; every call, stop and mount anywhere | `JustifiedFree`, `HonestFull`, `AppendOnly`, `RefusedCleanly`, `RefusedKeepsData`, `KeepsTree` |
| `recycled` | 3 blocks, soon full; two names, files, links, renames, deletions, data of one and two blocks, truncation to 0, stop and mount anywhere | `TypeOK`, `LogMirror`, `AppendFrontier`, `JustifiedFree`, `AppendOnly`, `ReuseRecovery`, `ReadsBack`, `SizeWithin` |
| `append` | 7 blocks, never full; every call, nested paths, truncation to 0 and 1, stop and mount anywhere. Beside it, one file, extents that overlap and leave a hole, truncation to 0, 2 and 4, stop and mount anywhere | `MountSucceeds`, `AppendRecovery`, `ImplementsNamespace`, `ListsChildren`, `MountEnds`, `CallEnds`, `ReadsBack`, `SizeWithin` |
| `power` | 4 blocks, never full, power losses at any point; files, two-block writes, truncation, renames, deletions, syncs, 3 records; or files, writes, deletions, syncs and formatting, 2 records | `PrefixRecovery`, `NoGhosts` |
| `single` | 3 blocks, full; one thread that creates and writes | `EveryCallLogged`, `ImplementsOnceFS` |
| `handles` | 5 blocks, up to full; 2 handles, 2 visible and 2 hidden names | `HandlesLive`, `NoOrphans` |
| `table` | arrays of up to 8 entries, every falling sequence of signs; 3 keys, 2 values, 4 rows ever | `TypeOK`, `FindsFirst`, `KeepsSorted`, `Ends`, `IndexesAgree`, `QueriesExact`, `ImplementsRowSet` |

* `LogMirror`, `AppendFrontier`: row, record and counters agree in every state.
* `JustifiedFree`: every freed block's record is cancelled by a younger record in
  use. It is what the comment in `_oncefs_block_reuse` (a DELETE block is obsolete
  when no block is free) depends on, and it holds where all truncations are to one
  size; for several see `truncate` below.
* `KeepsTree`: calls keep the rows a tree without shared names, orphans or cycles,
  also when they fail half way. It is about calls, because on a full container a
  mount may show what is none: the name that a refused rename gave up can be taken
  twice, and a node whose directory was never logged hangs from a number that the
  next node is given.
* `HonestFull`: after `ENOSPC`, `get_status` reports no free block. (The converse
  does not hold: takeover may still succeed.)
* `AppendOnly`: a record is overwritten only in a full container, by a younger one,
  and only if it is free, a deletion, freed by the very call, or a NODE of the same
  node.
* `RefusedCleanly`: a call refused for a reason other than space has changed nothing
  since it began, over all its records. One call is excepted, and does otherwise: a
  rename over a file whose name a mount has given to several rows deletes one of them,
  finds another, and returns `EEXIST`. It takes three names to get there, one more than
  `namespace` has; that nothing else is excepted is what the proof says.
* `RefusedKeepsData`: a call that returns `ENOSPC` has cost no data since it began. A
  deletion, a rename over a file and a truncation free rows before they look for a
  block; those that freed one find one. A truncation that freed none may be refused
  after it has trimmed rows in memory: it has then trimmed what it was to trim, and
  freed no row.
* `AppendRecovery`: without reuse, a mount rebuilds both tables exactly, times and
  trims included, whichever record the process ended after.
* `ReuseRecovery`: with reuse, the block table is rebuilt exactly, no deleted node
  returns, and a node whose youngest record is in use is where it was. Times are
  left out, since an older record of the same node can be the last one left. A row
  that no record carries (a create that returned `ENOSPC` leaves one) does not
  return.
* `MountEnds`, `CallEnds`: a mount ends, mounted or failed; a call returns.
* `ReadsBack`: for every file, offset and size, every byte a read delivers is the
  one written last there, and everything up to the first position never written
  (or cut off) is delivered. In `recycled`, blocks and node ids are used again and a
  new file starts empty all the same. How many bytes a read says it delivered is
  another matter: see `count` below.
* `SizeWithin`: the last byte of the reported size is there. Only this direction
  holds: after writing bytes 0 to 2 and byte 1 again, a truncation to 3 leaves a size
  of 2, because the row that `oncefs_get_node` looks at is not the one that reaches
  farthest.
* `ImplementsNamespace`: each step is one operation on the tree of paths or leaves
  it alone, crashes and mounts included. A rename over a file is two operations, a
  link gets its target with its second record; the code promises no more.
* `ListsChildren`: a directory lists its children, each once.
* `PrefixRecovery`: after a power loss, a mount shows the state after some record
  written since the last sync. Whichever blocks were kept, the scan stops at the
  first hole, so no later record counts without the earlier ones. A formatting,
  complete or not, leaves to the next mount all of the old file system, or none of it
  and what was written since.
* `NoGhosts`: the records of the container are those of the mounted machine; a
  complete formatting leaves none in the cache.

  Neither says anything of a container that is `haunted`. A mount that has left
  records behind a hole, as a power loss or an interrupted formatting can make it, will
  have its log written over them, or, once the gap is filled, followed by them. And a
  power loss before the tags of a formatting are synced can bring back old records, in
  front of new ones or behind them. Nothing in the code is against that, although
  `fuse.c:294` calls the option "Format (wipe) container": whoever formats has to sync.
* `EveryCallLogged`, `ImplementsOnceFS`: with one thread, the cut steps add up to
  the actions of `OnceFS`, wherever the process ends. This is what justifies one
  action per record in all other modules, for `fuse -s`.
* `HandlesLive`: no handle outlives its node, on a full container too, except one
  that is `adrift`: after a rename refused with `ENOSPC` the row has moved, and a
  deletion by its new name is one of a file that libfuse does not know to be open.
* `NoOrphans`: no data row belongs to a node that is gone, while the container was
  never full.
* `IndexesAgree`, `QueriesExact`, `ImplementsRowSet`: the table is what
  `OnceFSLog` takes it for.
* `FindsFirst`, `KeepsSorted`, `Ends`: both bisections are right and end.

### Bounds

`MaxSeq` and `MaxNode` stop new calls, never a call that has begun. Three blocks
are enough to fill, to free and to reuse with something else still in use; where
reuse matters `MaxSeq` is at least two more than the blocks, and calls of
several records go past it, so some block is reused and what was reused is
reused again. `append` has a block for every record it can write, and for the tree
`MaxSeq = 4` calls is the shortest history with a directory, a file in it, a second file
and a rename over it. `Payload = 2` with extents of one and three bytes gives a
partial block and a call of two blocks. Runs do not check for deadlock: the
bounds end the workload.

`recycled` has `MaxSeq = 6`: three records fill the container and three more reuse it.
The four node ids for two names let an id freed by a mount be given out again.
The second part of `append` has `Payload = 3` and the extents [0,3), [1,5) and [6,7): a
whole block, a block and a byte that overlap it, and a byte beyond a hole; six records
are enough to overlap, cut and overlap again. `power` has blocks for a synced record, one lost and
one kept out of order, for a block on either side of the formatting cursor, and for a
record written after the formatting in front of one that comes back. `handles` has as
many hidden names as handles, node ids for a file that takes the name of one that is
still open, and one call more than blocks, so that a rename of an open file is refused;
handles, visible and hidden names are symmetric. In `table`, four rows with three keys let
a deleted key return; ties are frequent with two values. The proofs lift all of these
bounds.

All runs have `Times = {0}`: a second time doubles the rows, and `namespace` and
`recycled` no longer end in a few minutes. `set_time` then finds the time it is to set
and returns (`oncefs.c:706`) or an error, but writes no record in any run. That it does
when the time differs, and that a mount restores it, rests on the proofs (`AppendRecovered`,
`TimeStep`), which hold for any times.

### Fairness

`FairSpec` asks for weak fairness of `Finish` (a thread that has entered a call
goes on to return from it) and of `Load` (the loop of `_oncefs_load` runs on).
Nothing is assumed of calls, of the end of the process or of the next mount. Both
are loops of one thread without waiting, so a step that stays possible is taken.
`NFairSpec` is the same for `OnceFSNamespace`. `MCTable` asks for weak fairness of the
next turn of the search loop, for the same reason. No fairness is assumed of the
other machines, and nothing is claimed to happen eventually there.

### What the code does otherwise

Five runs end in a violation of what the repository says:

| Run | Property | What happens |
|---|---|---|
| `takeover` | `ReusesObsolete` | In a full container a write to a file takes over the file's only NODE record; the file is gone after the next mount. |
| `mount` | `MountSucceeds` | On a full container a file gives up a name by a rename, a second takes it by another, and the deletion of the first overwrites its freed MOVE. The MOVE of the second then meets the first under that name when it is replayed; the mount fails and the container cannot be opened. |
| `truncate` | `TruncationLasts` | Truncating to 1 frees no TRUNCATE record, truncating to 2 frees that one and, the container being full, reuses its block; after a mount the data is back to 2 bytes. |
| `race` | `EveryCallLogged` | Two threads get the same block; both calls succeed and one record is lost. |
| `count` | `CountsExactly` | A read that starts within a block counts `skip + amount` bytes and returns more than it was asked for. The test of `test.c:1033` compares the two and returns `r`, which is 0. |
`MountSucceeds` holds in `append` and for every log that was only appended to
(`AppendMounted`): only reuse endangers it. `EveryCallLogged` holds in
`single`: only threads endanger it.

## What is proved

All theorems hold for all values of the constants that satisfy the assumptions named
in the modules: a container of at least one block; non-empty paths of names; times and
sizes that are naturals; extents of positive size, and for reading a finite, non-empty
set of them; a positive payload; for the table, keys and values that are integers. Three results need one more assumption, stated with
the theorem:

* `OneSize`, all truncations cut to one size. `JustifiedFree` is false otherwise: a
  larger truncation frees the record of a smaller one, which had freed the data. That
  is the run `truncate`.
* `ZeroSizes`, truncations cut to 0. A trimmed row loses the rest of its bytes, but
  the record keeps them, and a mount restores them if the TRUNCATE is gone. `do_open`
  truncates to 0 and so does `O_TRUNC`; only `truncate(2)` and `ftruncate(2)` name
  other sizes.
* `OneThread`, the machine of `OnceFSThreads` has one thread, which is `fuse -s`.

### The log

`OnceFSProofs`:

* `Invariant`: `Spec => []IInv`,
* `TypeCorrect`, `LogMirrored`, `FrontierKept`: `[]TypeOK`, `[]LogMirror`,
  `[]AppendFrontier`,
* `OverwritesObsolete`: `AppendOnly`.

Every step of a mounted process has one of five forms (`Form`): nothing but the result
changes; the node table changes and an entry is written; a node is dropped and its
DELETE written; data is cut and its TRUNCATE written; a DATA record is written
(`StepForm`). The proofs, these and the later ones, go through the forms and not
through the calls.

The properties are not inductive: a mount starts from a container alone, so what
holds of it must follow from what every process leaves behind. `IInv` therefore
says, besides the types and `Linked` (below), that

1. the container is one a mount can read (`DiskSound`: entries where the operation
   has one, distinct sequence numbers, no gap);
2. every row mirrors its record (`MirrorsAll`), in every mode;
3. a mounted machine has rows for exactly the blocks below `next_block_id`
   (`Sound`);
4. a loading machine has rows for exactly the records replayed, all older than
   those left, and its counter is one past the last of them (`Replaying`), so that
   an empty rest gives (3) back;
5. a process that is down has left nothing but the container.

Each form is a composition of two things: `Fades` covers what writes no record (rows
come and go in the node table, are freed or trimmed in the block table), `WriteSound`
covers writing one.

`Resolve` walks a path with a recursive function; these theorems need only that the
result is an error or a row of the table. Those about the tree take the walk apart.

### Calls that are refused

`OnceFSRecoveryProofs`, of `OnceFSCalls`:

* `RefusalsClean`: `RefusedCleanly`,
* `RefusalsKeepData`: `RefusedKeepsData`, for truncations to any sizes.

Both compare the end of a call with its beginning, so their invariant, `CInv`, is `IInv` and what the calls
half way have done since (`Underway`): a link has put its first row and record in, a
rename over a file has deleted one row of the name it goes to and written the DELETE, a
write has touched no data row it did not write itself. The second record of a link is
refused for lack of space or not at all: its row is in the table already (`Linked`). The
second record of a rename is refused for a conflict only where the name had a row more
than the one deleted, and never for lack of space, since the DELETE of its first part is
in use and may be overwritten. A deletion or truncation that has freed a row finds its
block, so what is refused with `ENOSPC` has freed none.

### The tree

`OnceFSProofs`, its last part:

* `RowsRooted`: `Spec => []NInv`,
* `TreeKept`: `KeepsTree`.

`Walk` is a function given by recursion along the path. `WalkResolves` shows by least
counterexample that it composes: what a path denotes is the child that its last name has
in what its directory denotes. From that, `ResolvedRow`, and `OnePath`: two paths that
denote one row are one path, provided that ids are not shared (`Family`, `Unique`), be the
rows a tree or not.

`OnePath` is why a rename closes no cycle. The guard that the kernel provides speaks of
paths: the new path does not begin with the old one. A cycle would be one of rows: if the
moved directory were an ancestor of its new parent, going up from that parent along the
new path would meet it at some prefix, and then by `OnePath` that prefix is the old path
(`MoveTree`).

`Tree` is `Strays = {}` in three parts (`StraysTree`). Each call has a lemma of its own
(`PlantTree`, `PayloadTree`, `RetimeTree`, `DropTree`, `MoveTree`). They need more than the
table: the id of a new row is unknown to every row *and to every record* (`Rooted`, of
the table, the entries of the log and the row of the call in progress), because a crash
and a mount may bring any of them back. A rename over a file is two steps, and its
second tests the name again but not the path; `Fits` says, from the first step on, that
the row has its place once the name is free.

### Reuse

`OnceFSRecoveryProofs`, its first part:

* `SpaceInvariant`: `Spec => []SInv`,
* `FreeJustified` (with `OneSize`): `[]JustifiedFree`,
* `ReuseSafe`: for any sizes, a freed row has the record that freed it in use, and
  the replay of no record frees a row that is in use and older,
* `FullHonestly`: `[]HonestFull`.

`JustifiedFree` alone does not survive the reuse of a block: the record that goes may be
the one that voids others. `Settled` adds what makes it go round: no younger record,
used *or free*, would free a row in use (`Spared`), so when nothing is free a deletion
has nothing left to void and may go; truncations cut to sizes of the workload; the
sequence counter follows the youngest row. `Ready` is the same statement between the
freeing of rows and the write of the record that frees them, the moment at which
`ENOSPC` may come. `Settled` holds in the middle of a mount as well.

### Recovery

`OnceFSRecoveryProofs`, its second part:

* `RecoveryInvariant`: `RecSpec => []RInv`,
* `ReuseRecovered` (with `ZeroSizes`): `ReuseRecovery`,
* `NamespaceRecovered`: its statements on nodes and counters, for any sizes.

The proof does not follow the replay of one log against the history that wrote it, which
is gone. Both the machine a process leaves and the machine a mount ends with are sound and
settled, over the same container; two such machines agree. A row that is free in one and
used in the other would be voided by a record that the other must spare. `RInv` carries
that to the end of the mount: `saved` is sound, settled and has in its node table what its
records carry (`Recoverable`), the loading machine has in its node table what the youngest
records replayed so far say (`Youngest`).

Its third part, for a log none of whose blocks was reused, truncations to any sizes and
rows that records of several calls have changed:

* `HistoryInvariant`: `RecSpec => [](RInv /\ NInv /\ HInv)`,
* `AppendRecovered`: `AppendRecovery`,
* `AppendMounted`: a mount of such a log succeeds (`AppendMounts`),
* `AppendTreeKept`: a process that serves such a log has a tree of nodes (`AppendTree`),
  also when the log ends in the middle of a call.

In such a log (`Appended`) the sequence number of a record is that of its block, and every
record is still there. Then the machine is a function of it, and `Faithful` is that
function, stated without recursion: a block row is what the younger records that free it
or trim it have made of it (`Exact`: free since the first that frees it, and cut to the
least size of those that trim it until then); a node row is that of the youngest record in
use that carries it (`Live`); the record of a rename finds its name free among the rows
that the records before it leave (`Orderly`), which is why no mount fails; the rows that
records carry are a tree. A machine that serves calls and one that replays records
are both exact, so they agree where they have the same blocks (`ExactSame`). Between the
two records of a link the table has a row that no record carries; `Enlisted` says that,
until the container is full, it has no others. `Traces` has for every step of a call the
one thing it does to all this: a row enters the table and the log (`Enrols`), or rows are
cut or dropped and the record that says so is written (`Strips`), in that order, the
refusal with `ENOSPC` included. `Intact` notes that a log once rewritten
shows it by a sequence number beyond the last block, so that `Appended` never comes back.

### The container

`OnceFSContainerProofs`:

* `ContainerInvariant`: `CSpec => []GInv`,
* `GhostFree`: `[]NoGhosts`,
* `LossInvariant`: `CSpec /\ []Unwrapped => [](GInv /\ XInv)`,
* `PrefixRecovered`: `CSpec /\ []Unwrapped => PrefixRecovery`,
* `LossMounts`: `CSpec /\ []Unwrapped => [](~ haunted => mode # "failed")`.

Power losses leave holes in the log, and records of an abandoned history behind them, so
sequence numbers repeat and `IInv` is lost. What is left to build on are the types, that
every record has the entry that its replay reads (`Readable`, of the page cache and of
the disk), and where the log ends: a mount has read the blocks below its counter and
stops at the first hole (`Reading`), which without a haunting is behind the last record
(`Frontier`); no form of a step moves one without the other, on a full container either.
`GInv` has for formatting that the tags below the cursor are cleared in the cache; on the
disk any of them may still be the old one.

The last three are about containers that are never full: `Unwrapped` says that each
record lies in the block with its number, until a mount has left records behind. Without
it a loss may keep an overwriting record and not the ones before it, and the property is
not claimed. Every state of the run `power` satisfies it. `PrefixRecovery` is about
mounts that succeed, which `LossMounts` says all of them do. The argument:

1. The log may end behind block `k` (`MayEnd`) when the cache has records in the blocks
   up to `k`, and block `k + 1` has none in the cache or none on the disk. Wherever that
   is, some machine `s` satisfies the invariants of a mounted process and has written just
   those records (`Author`), and what `s` shows is one of the views in `past` (`Foreseen`). A witness is the process
   itself as it was after record `k`, which is why nothing has to be said about how a
   process gets from one record to the next: an empty log has the empty machine
   (`BlankAuthor`), and each call adds the machine it leads to (`CallXInv`, from the
   theorems about `OnceFS`: `CallMounted`).
   Of `RInv`, `NInv` and `HInv` only what they say of a mounted process is used, where the
   observer `saved` of `OnceFSRecovery` has no part.
2. A write touches one block (`FormWrites`) and overwrites none (`WritesAppend`), so the
   shorter logs stay what they were. A sync or a block that is written back takes places
   away where the log may end, a power loss makes one of those left the log.
3. A mount reads the blocks up to the first hole (`ScanStops`), and replaying them does
   not look at what lies behind (`ReplayOver`, `OverView`). So the mount is one of a log
   that `s` wrote, which rebuilds what `s` shows and satisfies the same invariants
   (`AuthorMounts`, by `MountFaithful`, the lemma behind `AppendRecovery`). If nothing
   lies behind, the new process is an author of its container again; if something does,
   the mount is one that haunts.
4. Formatting clears the first block first. A mount of the cache shows an empty file
   system from then on, whatever the other blocks hold (`BlankForeseen`). A power loss
   before that tag is written back is one that revives a record, and haunts.

### The contents of files

`OnceFSDataProofs`, all with `ZeroSizes`:

* `DataInvariant`: `DataSpec => []DInv`,
* `SizeHonest`: `[]SizeWithin`,
* `ReadsAreCurrent`: `[]ReadsBack`.

`DInv` says that for every file the rows *show* its array of bytes: at each position the
youngest row that covers it has the number in the array, and none covers it where the
array has 0. To keep that, no node without a row in the node table may have data rows
that a new file would inherit, which is why `DInv` has the ids below `next_node_id`
(`Below`) and what a rename in progress will put back (`JobFits`). `Recoverable` carries the
array over a mount. `ReadsAreCurrent` then needs only the state: one chunk delivers what
the rows show, and the loop of `oncefs_get_data` is taken from its end, by least
counterexample.

### One thread

`OnceFSThreadsProofs`, both with `OneThread`:

* `SingleThreadImplements`: `ImplementsOnceFS`,
* `SingleThreadLogs`: `EveryCallLogged`.

The refinement mapping shows `OnceFS` the machine from before the call until the record is
written. `OInv` says for every point of a handler which of its changes the machine already
has (`Stage`), relative to that earlier machine; the last stage and the record are then
`Write` of `OnceFSLog`, step by step what the abstract action does at once. `Preserved` says
that the earlier machine is sound in the sense of `OnceFSProofs`, and that what was
acknowledged is in it.

### Open files

`OnceFSHandlesProofs`, for any handles, any names that libfuse hides files under, and any
history that a process may have mounted:

* `HandlesInvariant`: `HSpec => []FInv`,
* `HandlesNameFiles`: `[]HandlesLive`,
* `FilesInvariant`: `HSpec => []OInv`,
* `NoneOrphaned`: `[]NoOrphans`.

They assume of the constants that all paths are names in the root directory
(`FlatAssumption`), the hidden ones among them (`HiddenAssumption`), and that 0 is among
the sizes, because `do_open` truncates to it (`OpenAssumption`). Every step of `HSpec` is a
step of `OnceFS`, an answer that rests on a search, or the end of a hidden file
(`HandlerStep`), so the invariants of `OnceFS` carry over.

`HandlesLive` says that the node of a handle is there. To stay there it must be out of
reach of every deletion by path, except through libfuse's test for an open file, which
is by its own names. So two things have to keep pace: the path under which libfuse counts
a handle, and the row of its node. `Tracked` says that they do: the node of each handle
is a file, and the one that a search for that path finds (`Safe`). The search matters,
since a mount of a rewritten history may leave several rows with one name, a search takes
one of them, and an open file under another could be deleted without being noticed.
`InPlace` says that a row is the one found; opening makes it so (`FoundInPlace`), and a
row goes only to a name that nothing had (`Vacant`), so it stays so (`StaysAtInsert`,
`StaysAtDrop`). When a rename returns 0 the row and libfuse's name move together; when it
is refused for a conflict neither does. When it is refused for lack of space the row has
moved and the name has not, and nothing can be said of its handles any more: they are
`adrift`, and `Tracked` is about the others. `Guarded` adds what a rename in progress
relies on: the row it has yet to move is where libfuse takes it to be (`Moving`), and its
target is no open file any more.

`NoOrphans` relates block rows to node rows, which are replayed separately. What brings
them together is the log: while the last block has no record nothing was overwritten,
and the node table has the files that the records with rows make and none of them ends
since (`Filed`); each data, truncation and file-rename record follows such a record, with
no deletion between them (`Founded`). The first makes the second true of each new record
(`JoinFounded`), the second keeps the first true through a mount, where a record of a
rename brings back a row without asking whether the file is there (`ReplayFiled`). A
row in use has no younger deletion in the table (`Spared`), so its file is there. `Filing`
adds that while there is room no handle is adrift, since no rename was refused for space.

### Paths

`OnceFSNamespaceProofs`:

* `NamespaceInvariant`: `NSpec => [](RInv /\ NInv /\ HInv /\ PInv /\ Mirrored)`,
* `ChildrenListed`: `[](Strays(fs) = {} => ListsChildren)`,
* `AppendListsChildren`: `[](Appended(fs.disk) => ListsChildren)`,
* `NamespaceImplemented`: `NSpec /\ []NeverFull => ImplementsNamespace`.

`_oncefs_resolve_node` is a loop over the components of a path, and the tree is a
function of what it returns; to reason about the tree without counting turns, the
proofs name the pairs of a path and the row it leads to (`Places`). They are the
only set that solves the equation a reader expects: a pair is below a directory
that has a place itself, and its row is one of that directory's rows (`Solves`,
`PlacesSolve`; `OneSolution` by least counterexample on the length of a path). So
what a call does to the places is shown by naming the new places and checking the
equation: `PlantPlaces` for a new row, `DropPlaces`, `MovePlaces` (all below a
directory moves along) and `PayloadPlaces` (the name of a link's target is a row of
the same table and leads nowhere). `PInv` bounds the depth: each row has its own id
below the bound on nodes, so no path of the tree is longer than `Deep` allows.
`ListsChildren` needs the rows to form a tree, because a search takes one of two
rows that share parent and name while `get_dir` lists both; a mount of a
rewritten history may leave such rows, a log that was only appended to never does.

`NamespaceImplemented` says that every step, the end of a process between two records
of a call and each step of a mount included, is one operation of `Namespace` or leaves
its tree alone. `NeverFull` is its hypothesis: no record was overwritten, and no call
was refused with `ENOSPC`. Both are needed. A history with holes may mount to
other rows, and a call that finds no block has changed the tables already and logs
nothing, so the tree of the process is not the one of the container. Every state of
the run `append` satisfies it. The argument:

1. `RebuiltSure`: a mount of an append-only log makes just the rows that records carry,
   by least counterexample on the number of records replayed.
2. `Waits`: all rows are carried by a record (`Written`) but the target of a link whose
   second record is still to come; such a link has a place, and the row of a rename half
   way still has the place it came from (`Moves`), with nothing at the one it goes to.
3. So the tree is `TreeOf(Rebuilt(fs.disk).nodes)` in every state (`OnDisk`), and a step
   that logs nothing changes nothing: the end of a process and the records of a mount
   are invisible.
4. What a call does to the places is what the operation does to the tree
   (`CreateStep`, `TargetStep`, `UnlinkStep`, `TimeStep`, `RenameStep`), and what the
   code of each call does to the rows is one of these forms (`NameCallShows`,
   `SetLinkShows`, `FinishLinkShows`, `MoveNodeShows`, `FinishMoveShows`, `DataShows`).
   A symbolic link is a creation and, one record later, the setting of its target; a
   rename onto a file is the deletion of that file and, one record later, the rename.

### Arrays and tables

`TableProofs` has four layers. For the loops of `array.c`, turn by turn, and arrays of
every length:

* `Invariant`: what lies left of `low` comes before the key, what lies from `high` on
  does not, and `high` is a match exactly when `is_valid` says so,
* `TypeCorrect`: `[]TypeOK`, the cursors stay in the array,
* `SearchCorrect`: `[]FindsFirst`; the search for the last entry is its mirror image,
* `InsertCorrect`: `[]KeepsSorted`.

The first is needed because neither property says anything before the loop ends. At
its end `low = high`, and the two parts meet: no entry before it matches.

The tables use the same searches as recursive functions. What such a function returns is
not read off its turns: it is first written down without recursion (`Found`, from the
first entry that does not come before the key), then shown to satisfy the turns
(`SearchExists`), then shown by least counterexample to be the only function that does
(`SearchReturns`, `PlaceReturns`). `FindsTheFirst` and `FindsTheLast` follow, for a
filter that falls along the array (`FallsAlong`), which is what the comment in `array.h`
asks of one when it calls it compatible with the sort order.

The third layer is one notion: a sequence *lists* a set by a weight (`Lists`) when it has
each element once and never a heavier one before a lighter one. Insertion, deletion,
sorting, the stretch that a filter accepts and the gathering of results all turn
listings into listings (`InsertLists`, `CompactLists`, `SortsLists`, `MatchesLists`,
`CollectLists`). `qsort` is any permutation that ends sorted, and ties stay in any order.

The last is the table:

* `TableInvariant`: `MCSpec => []TableInv`,
* `IndexesAlwaysAgree`: `[]IndexesAgree`,
* `QueriesAlwaysExact`: `[]QueriesExact`,
* `TableIsRowSet`: `ImplementsRowSet`.

`TableInv` says that each index lists the live rows by what it compares of them, and that
no two live rows share a key. The filter of a query falls along the index that the query
names (`ByKeyFalls`, `InRangeFalls`), so the search finds what it is after; an insertion
finds the row with its key or knows that there is none (`InsertFinds`). Rows overwritten
in place break the order of both indexes until each is sorted again; what an index lists
does not change, only the weights (`ResortLists`). A deletion finds the numbers it has
collected by a search of its own, ordered by number (`DeleteStep`). `TableStep` has one
case for each operation and matches it with that of `RowSet`. The result of a query is a
set of row numbers, and since keys are not shared, distinct numbers are distinct rows: so
taking the numbers away takes just those rows away.

### Only model-checked

Out of the prover's reach: `MountEnds`, `CallEnds` and `Ends`, which rest on fairness.

The refinement of `Namespace` and `PrefixRecovery` are proved for containers that are never
full. `ListsChildren` is proved for rows that form a tree, which those of a log that was only
appended to do. `MountSucceeds` is proved for logs that were only appended to
(`AppendMounted`); it is false for others, which is the run `mount`. `ReadsBack` for truncations to other sizes than 0 is checked in `append`.

## Not modelled, and the plan

Left for later:

1. `OnceFSContainer` on a full container: which mixtures of overwritten and old
   records a power loss may leave.
2. Short and failed writes, which `io.c` does not look at.
3. Races of two threads inside the arrays below the tables, and within a counter.

Not modelled, and why:

* `set_time` of `/` logs a row of indeterminate bytes; reads past the end of an array
  or a name, and the null pointer of a truncation by path, end the process or do
  nothing a state could show. They are listed as hazards.
* What the repository does not promise is not held against it: `do_open` truncates
  without `O_TRUNC`; a create refused with `ENOSPC` stays listed until the next mount. Of
  creates on a full container the repository says two things: the comment at
  `test.c:583` that a create after a delete should succeed, and the test below it that it
  must not (`r == 0` is an error). The code does what the test asks for.
* `oncefs_dumps` and argument parsing print and parse text; the stubs of `fuse.c`
  (`chmod`, `chown`, extended attributes) do nothing; the FUSE library appears only
  as the external `Hide`, `Release`, `IsOpen` and `Renames`.
