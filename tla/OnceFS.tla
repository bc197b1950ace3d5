------------------------------- MODULE OnceFS --------------------------------
(***************************************************************************)
(* One OnceFS instance served by a single thread (fuse -s, or the API of  *)
(* oncefs.h called directly): the calls of oncefs.h that change state, the *)
(* mount, which replays the container record by record, and the end of    *)
(* the process, orderly or not, at any point between two record writes.   *)
(*                                                                         *)
(* A call that writes one record is one action.  A call that writes more  *)
(* (oncefs_set_link, a rename over a file, oncefs_set_data) is an action   *)
(* for its first part and one for each record after it, with `job` for    *)
(* what is left to do: a crash may fall between two records.              *)
(***************************************************************************)
EXTENDS OnceFSLog, FiniteSets

CONSTANTS
    Paths,      \* the paths calls name: sequences of Names, none empty
    Times,      \* the modification times clock and callers supply
    Sizes,      \* the new sizes oncefs_del_data is called with
    Extents,    \* the <<offset, size>> that oncefs_set_data is called with
    Payload,    \* payload_size: the bytes of data a block holds
    Calls,      \* the calls of this workload
    MaxSeq,     \* bound: no call begins once next_seq_id exceeds it
    MaxNode     \* bound: no node is created once next_node_id exceeds it

ASSUME PathsAssumption == Paths \subseteq Seq(Names) \ {<<>>}
ASSUME TimesAssumption == Times \subseteq Nat
ASSUME SizesAssumption == Sizes \subseteq Nat
ASSUME ExtentsAssumption == Extents \subseteq Nat \X (Nat \ {0})
ASSUME PayloadAssumption == Payload \in Nat \ {0}
ASSUME BoundsAssumption == MaxSeq \in Nat /\ MaxNode \in Nat

VARIABLES
    fs,     \* the machine
    mode,   \* what the process is doing
    job,    \* what the call in progress still has to write
    todo    \* the blocks the mount has yet to replay

vars == <<fs, mode, job, todo>>

NoJob == [kind |-> "none"]

Job == {NoJob}
       \cup [kind: {"link", "move"}, row: NodeRow]
       \cup [kind: {"data"}, node: Nat, offset: Nat, size: Nat \ {0}]

Mode == {"down", "loading", "mounted", "failed"}

Init ==
    /\ fs = Fresh([b \in Block |-> NoRecord])
    /\ mode = "mounted"
    /\ job = NoJob
    /\ todo = {}

-----------------------------------------------------------------------------
(* The calls. *)

Begin(call) ==
    /\ mode = "mounted" /\ job = NoJob
    /\ call \in Calls
    /\ fs.next_seq_id <= MaxSeq /\ fs.next_node_id <= MaxNode
    /\ UNCHANGED <<mode, todo>>

SetFile(path) ==
    /\ Begin("set_file")
    /\ \E now \in Times : fs' = Create(fs, path, "FILE", now)
    /\ UNCHANGED job

SetDir(path) ==
    /\ Begin("set_dir")
    /\ \E now \in Times : fs' = Create(fs, path, "DIR", now)
    /\ UNCHANGED job

\* Both rows enter the table, then the first record is written.
SetLink(path, target) ==
    /\ Begin("set_link")
    /\ \E now \in Times :
         LET new     == InitNode(fs, path, "LINK", now)
             payload == [node |-> new.row.node, parent |-> new.row.node,
                         type |-> "LINK_PAYLOAD", name |-> target, mtime |-> 0]
         IN  IF new.r # "OK" THEN fs' = Return(fs, new.r) /\ UNCHANGED job
             ELSE /\ fs' = WriteEntry([fs EXCEPT
                             !.nodes = InsertOrReplace(InsertOrReplace(@, new.row), payload),
                             !.next_node_id = @ + 1], "NODE", new.row)
                  /\ job' = IF fs'.r = "OK" THEN [kind |-> "link", row |-> payload]
                            ELSE NoJob

FinishLink ==
    /\ mode = "mounted" /\ job.kind = "link"
    /\ fs' = WriteEntry(fs, "NODE", job.row)
    /\ job' = NoJob
    /\ UNCHANGED <<mode, todo>>

SetTime(path) ==
    /\ Begin("set_time")
    /\ \E mtime \in Times : fs' = SetTimeOf(fs, path, mtime)
    /\ UNCHANGED job

\* A file in the way is deleted, with a record, before the move is retried.
\* The kernel never renames a path to itself or below itself.
MoveNode(from, to) ==
    /\ Begin("move_node")
    /\ ~ \E n \in 1 .. Len(to) : from = SubSeq(to, 1, n)
    /\ LET src   == Resolve(fs.nodes, from)
           dir   == Resolve(fs.nodes, Dirname(to))
           row   == [src.row EXCEPT !.parent = dir.row.node, !.name = Basename(to)]
           moved == MoveRow(fs, row)
       IN  IF src.r # "OK" THEN fs' = Return(fs, src.r) /\ UNCHANGED job
           ELSE IF dir.r # "OK" THEN fs' = Return(fs, dir.r) /\ UNCHANGED job
           ELSE IF dir.row.type # "DIR" THEN fs' = Return(fs, "EINVAL") /\ UNCHANGED job
           ELSE IF moved.r = "OK" THEN fs' = WriteEntry(moved, "MOVE", row) /\ UNCHANGED job
           ELSE IF moved.r # "EEXIST" THEN fs' = moved /\ UNCHANGED job
           ELSE /\ fs' = Delete(fs, to)
                /\ job' = IF fs'.r = "OK" THEN [kind |-> "move", row |-> row] ELSE NoJob

FinishMove ==
    /\ mode = "mounted" /\ job.kind = "move"
    /\ LET moved == MoveRow(fs, job.row)
       IN  fs' = IF moved.r = "OK" THEN WriteEntry(moved, "MOVE", job.row) ELSE moved
    /\ job' = NoJob
    /\ UNCHANGED <<mode, todo>>

DelNode(path) ==
    /\ Begin("del_node")
    /\ fs' = Delete(fs, path)
    /\ UNCHANGED job

\* Callers pass the node id of a file they looked up.
DelData(node, size) ==
    /\ Begin("del_data")
    /\ fs' = Truncate(fs, node, size)
    /\ UNCHANGED job

SetData(node, offset, size) ==
    /\ Begin("set_data")
    /\ job' = [kind |-> "data", node |-> node, offset |-> offset, size |-> size]
    /\ UNCHANGED fs

\* Mutant: the loop runs once more when the data ends at the end of a block.
WriteChunk_AtZero ==
    /\ mode = "mounted" /\ job.kind = "data"
    /\ LET amount == IF job.size > Payload THEN Payload ELSE job.size
       IN  /\ fs' = Write(fs, "DATA", job.node, amount, job.offset, NoEntry)
           /\ job' = IF fs'.r = "OK" /\ job.size >= amount
                     THEN [job EXCEPT !.offset = @ + amount, !.size = @ - amount]
                     ELSE NoJob
    /\ UNCHANGED <<mode, todo>>

\* Mutant: the loop ends neither on an error nor when nothing is left.
WriteChunk_Endless ==
    /\ mode = "mounted" /\ job.kind = "data"
    /\ LET amount == IF job.size > Payload THEN Payload ELSE job.size
       IN  /\ fs' = Write(fs, "DATA", job.node, amount, job.offset, NoEntry)
           /\ job' = [job EXCEPT !.offset = @ + amount, !.size = @ - amount]
    /\ UNCHANGED <<mode, todo>>

\* One turn of the loop of oncefs_set_data.
WriteChunk ==
    /\ mode = "mounted" /\ job.kind = "data"
    /\ LET amount == IF job.size > Payload THEN Payload ELSE job.size
       IN  /\ fs' = Write(fs, "DATA", job.node, amount, job.offset, NoEntry)
           /\ job' = IF fs'.r = "OK" /\ job.size > amount
                     THEN [job EXCEPT !.offset = @ + amount, !.size = @ - amount]
                     ELSE NoJob
    /\ UNCHANGED <<mode, todo>>

-----------------------------------------------------------------------------
(* The process. *)

\* Unmount, kill, or exit after a failed mount: only the container stays.
Stop ==
    /\ "stop" \in Calls
    /\ mode # "down"
    /\ fs' = Fresh(fs.disk)
    /\ mode' = "down"
    /\ job' = NoJob
    /\ todo' = {}

Mount ==
    /\ mode = "down"
    /\ mode' = "loading"
    /\ todo' = Scanned(fs.disk)
    /\ UNCHANGED <<fs, job>>

\* Mutant: the records are replayed in the order of their blocks.
LoadRecord_BlockOrder(b) ==
    /\ mode = "loading" /\ b \in todo
    /\ \A c \in todo : b <= c
    /\ fs' = Replay(fs, b)
    /\ todo' = IF fs'.r = "OK" THEN todo \ {b} ELSE {}
    /\ mode' = IF fs'.r = "OK" THEN mode ELSE "failed"
    /\ UNCHANGED job

\* Mutant: the cursor stays on the record that was replayed.
LoadRecord_Stuck(b) ==
    /\ mode = "loading" /\ b \in todo
    /\ \A c \in todo : fs.disk[b].seq <= fs.disk[c].seq
    /\ fs' = Replay(fs, b)
    /\ todo' = IF fs'.r = "OK" THEN todo ELSE {}
    /\ mode' = IF fs'.r = "OK" THEN mode ELSE "failed"
    /\ UNCHANGED job

\* The scanned records are replayed in the order of their sequence numbers.
LoadRecord(b) ==
    /\ mode = "loading" /\ b \in todo
    /\ \A c \in todo : fs.disk[b].seq <= fs.disk[c].seq
    /\ fs' = Replay(fs, b)
    /\ todo' = IF fs'.r = "OK" THEN todo \ {b} ELSE {}
    /\ mode' = IF fs'.r = "OK" THEN mode ELSE "failed"
    /\ UNCHANGED job

Mounted ==
    /\ mode = "loading" /\ todo = {}
    /\ mode' = "mounted"
    /\ UNCHANGED <<fs, job, todo>>

\* The node ids a handle can hold.
FileIds == {x.node : x \in {y \in fs.nodes : y.type = "FILE"}}

Call ==
    \/ \E path \in Paths : \/ SetFile(path) \/ SetDir(path)
                           \/ SetTime(path) \/ DelNode(path)
    \/ \E path \in Paths, target \in Names : SetLink(path, target)
    \/ \E from, to \in Paths : MoveNode(from, to)
    \/ \E node \in FileIds, size \in Sizes : DelData(node, size)
    \/ \E node \in FileIds, x \in Extents : SetData(node, x[1], x[2])

Finish == FinishLink \/ FinishMove \/ WriteChunk

Load == Mounted \/ \E b \in Block : LoadRecord(b)

\* A mount has succeeded.
Remounted == mode = "loading" /\ mode' = "mounted"

Next == Call \/ Finish \/ Stop \/ Mount \/ Load

Spec == Init /\ [][Next]_vars

\* The thread that serves a call returns from it, and a mount runs on.
FairSpec == Spec /\ WF_vars(Finish) /\ WF_vars(Load)

-----------------------------------------------------------------------------
(* Invariants. *)

\* Every variable has its type; the job of a call belongs to a mounted machine.
TypeOK ==
    /\ fs \in Machine
    /\ mode \in Mode
    /\ job \in Job /\ (job # NoJob => mode = "mounted")
    /\ todo \subseteq Block /\ (todo # {} => mode = "loading")

Valid(disk) == {b \in Block : disk[b].op # "INVALID"}

\* The row of block b describes the record that lies in the block.
Mirrors(m, b) ==
    LET row == m.blocks[b]
        rec == m.disk[b]
    IN  /\ rec.op \in LogOp /\ rec.seq = row.seq /\ rec.node = row.node
        /\ row.seq < m.next_seq_id /\ row.node < m.next_node_id
        /\ row.op # "FREE" => /\ rec.op = row.op /\ rec.offset = row.offset
                              /\ row.fill <= rec.fill

\* The block table mirrors the container: a row describes the record that lies
\* in its block (a freed row keeps the identity of the record it freed, a
\* trimmed data row never exceeds it); sequence numbers identify records, and
\* the next sequence number and node id are new.
LogMirror ==
    /\ \A b \in Block : fs.blocks[b].op # "NONE" => Mirrors(fs, b)
    /\ \A b, c \in Valid(fs.disk) : fs.disk[b].seq = fs.disk[c].seq => b = c

\* A mounted machine has a row for exactly the blocks below next_block_id, so
\* that appending never falls on a record; blocks are used without a gap.
AppendFrontier ==
    /\ \A c \in Valid(fs.disk) : 1 .. c \subseteq Valid(fs.disk)
    /\ mode = "mounted" => \A b \in Block :
         /\ fs.blocks[b].op = "NONE" <=> fs.next_block_id <= b
         /\ b \in Valid(fs.disk) <=> b < fs.next_block_id

\* Record c makes the replay of record b void.
Cancels(m, c, b) ==
    /\ m.blocks[c].node = m.blocks[b].node /\ m.blocks[c].seq > m.blocks[b].seq
    /\ \/ m.blocks[c].op = "DELETE"
       \/ /\ m.blocks[c].op = "TRUNCATE"
          /\ \/ m.disk[b].op = "TRUNCATE"
             \/ m.disk[b].op = "DATA" /\ m.blocks[c].offset <= m.disk[b].offset

\* A freed block keeps its record in the container, so the mount will see it:
\* a younger record in use must void it again.  This is what makes a DELETE
\* block safe to reuse, and only when no block is free (the comment in
\* _oncefs_block_reuse); it is stated for truncations to size 0.
JustifiedFree ==
    \A b \in Rows(fs, "FREE") : \E c \in Block : Cancels(fs, c, b)

\* The rows that are not in their place in a tree: those whose parent is not a
\* directory (or, of a link's payload, not a link), those that share their name
\* with a sibling, and the directories of a cycle.
Strays(m) ==
    LET dirs == {x \in m.nodes : x.type = "DIR"}
        Holds(x) == IF x.type = "LINK_PAYLOAD" THEN {y \in m.nodes : y.type = "LINK"} ELSE dirs
    IN  {x \in m.nodes : x.parent # 0 /\ \A y \in Holds(x) : y.node # x.parent}
        \cup {x \in m.nodes : \E y \in m.nodes \ {x} : y.parent = x.parent /\ y.name = x.name}
        \cup UNION {S \in SUBSET dirs : \A x \in S : \E y \in S : y.node = x.parent}

\* get_status: free_blocks.
FreeBlocks(m) ==
    LastBlock - m.next_block_id + 1
    + Cardinality(Rows(m, "FREE")) + Cardinality(Rows(m, "DELETE"))

\* A call that fails for lack of space leaves a file system whose statistics
\* promise no free block.
HonestFull == mode = "mounted" /\ fs.r = "ENOSPC" => FreeBlocks(fs) = 0

-----------------------------------------------------------------------------
(* Action properties. *)

\* From m to n no record is overwritten, or the container is full, the new
\* record is younger than all, and the old one is obsolete (free or a deletion,
\* or freed by this very call) or a NODE of the same node.
OnlyObsolete(m, n) ==
    \A b \in Block : m.disk[b] # n.disk[b] /\ m.disk[b].op # "INVALID" =>
        /\ \A c \in Block : m.disk[c].op # "INVALID" /\ m.disk[c].seq < n.disk[b].seq
        /\ \/ m.blocks[b].op \in {"FREE", "DELETE"}
           \/ m.blocks[b].op = "NODE" /\ m.blocks[b].node = n.disk[b].node
           \/ n.disk[b].op = "DELETE" /\ m.blocks[b].node = n.disk[b].node
           \/ /\ n.disk[b].op = "TRUNCATE" /\ m.blocks[b].node = n.disk[b].node
              /\ m.blocks[b].op \in {"DATA", "TRUNCATE"}

\* A record in the container is overwritten in no other way.
AppendOnly == [][OnlyObsolete(fs, fs')]_vars

\* The rows of a mounted machine stay a tree, whether a call succeeds, is refused
\* or stops half way.  (A mount of a rewritten history may show what is none.)
KeepsTree ==
    [][ mode = "mounted" /\ mode' = "mounted" /\ Strays(fs) = {} => Strays(fs') = {} ]_vars

-----------------------------------------------------------------------------
(* What the repository says and the code does not do. *)

\* The records in use that carry a row of the node table for this key.
Carriers(m, x) ==
    {b \in Block : /\ m.blocks[b].op \in {"NODE", "MOVE"}
                   /\ m.disk[b].entry.node = x.node /\ m.disk[b].entry.type = x.type}

Timeless(row) == [row EXCEPT !.mtime = 0]

\* The rows that agree, times apart, with the youngest record that carries
\* them: all but those of calls that returned ENOSPC or have yet to return,
\* and those whose records a same-node takeover destroyed.
Logged(m) ==
    {x \in m.nodes : \E b \in Carriers(m, x) :
        /\ Timeless(m.disk[b].entry) = Timeless(x)
        /\ \A c \in Carriers(m, x) : m.disk[c].seq <= m.disk[b].seq}

\* Only obsolete entries are reused (README): a node that stays in the table
\* keeps a record.
ReusesObsolete ==
    [][ \A x \in fs.nodes \cap fs'.nodes :
          Carriers(fs, x) # {} => Carriers(fs', x) # {} ]_vars

-----------------------------------------------------------------------------
(* Liveness. *)

\* A mount ends, one way or the other; a call that has begun returns.
MountEnds == mode = "loading" ~> mode # "loading"
CallEnds == job # NoJob ~> job = NoJob
=============================================================================
