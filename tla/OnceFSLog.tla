------------------------------ MODULE OnceFSLog ------------------------------
(***************************************************************************)
(* The data of one OnceFS instance and the functions of oncefs.c that     *)
(* transform it, as pure operators from machine to machine.               *)
(*                                                                         *)
(* A machine is what oncefs_t and the container hold together:            *)
(*   nodes    the in-memory table of node rows, keyed by (node, type);    *)
(*   blocks   the in-memory table of block rows, keyed by block id;       *)
(*   disk     the records in the container, one per block;                *)
(*   next_*   the three allocation counters;                              *)
(*   r        the value the last call returned.                           *)
(*                                                                         *)
(* Names stand for path components and link targets, the bytes of a data  *)
(* record are left out (a byte is identified by the record that holds     *)
(* it), last_access and mode are never read by the control and are left   *)
(* out, and the 32-bit node, 64-bit sequence and block counters do not    *)
(* wrap.                                                                   *)
(***************************************************************************)
EXTENDS Naturals, Sequences

CONSTANTS
    Names,      \* path components (and link targets) of legal length
    NoName,     \* the name of a row that has none
    LastBlock   \* io_block_last(): valid blocks are 1 .. LastBlock

ASSUME LastBlockAssumption == LastBlock \in Nat \ {0}
ASSUME NoNameAssumption == NoName \notin Names

Block == 1 .. LastBlock

NodeType == {"DIR", "FILE", "LINK", "LINK_PAYLOAD"}

NodeRow == [node: Nat, parent: Nat, type: NodeType, name: Names, mtime: Nat]

Root == [node |-> 0, parent |-> 0, type |-> "DIR", name |-> NoName, mtime |-> 0]

\* The entry of a record that carries no node row (DATA, TRUNCATE).
NoEntry == [Root EXCEPT !.type = "NONE"]

LogOp == {"NODE", "DATA", "TRUNCATE", "DELETE", "MOVE"}

\* The operations whose record is a node row; the others carry oncefs_data_t.
EntryOp == {"NODE", "DELETE", "MOVE"}

\* A row of the block table; "NONE" says that the table has no row.
BlockRow == [op: LogOp \cup {"FREE", "NONE"}, seq: Nat, node: Nat,
             fill: Nat, offset: Nat]

NoRow == [op |-> "NONE", seq |-> 0, node |-> 0, fill |-> 0, offset |-> 0]

\* A record of the container; "INVALID" is a tag that formatting left.
DiskRecord == [op: LogOp \cup {"INVALID"}, seq: Nat, node: Nat,
               fill: Nat, offset: Nat, entry: NodeRow \cup {NoEntry}]

NoRecord == [op |-> "INVALID", seq |-> 0, node |-> 0, fill |-> 0, offset |-> 0,
             entry |-> NoEntry]

Errno == {"ENOENT", "EEXIST", "EINVAL", "ENOSPC"}

Machine == [nodes: SUBSET NodeRow, blocks: [Block -> BlockRow],
            disk: [Block -> DiskRecord], next_node_id: Nat,
            next_block_id: Nat, next_seq_id: Nat, r: Errno \cup {"OK"}]

\* oncefs_init before it loads: empty tables over the container `disk`.
Fresh(disk) ==
    [nodes |-> {}, blocks |-> [b \in Block |-> NoRow], disk |-> disk,
     next_node_id |-> 1, next_block_id |-> 1, next_seq_id |-> 1, r |-> "OK"]

Return(m, r) == [m EXCEPT !.r = r]

Larger(x, y) == IF x > y THEN x ELSE y

-----------------------------------------------------------------------------
(* The node table. *)

InsertOrReplace(nodes, row) ==
    {x \in nodes : x.node # row.node \/ x.type # row.type} \cup {row}

Lookup(nodes, parent, name) == {x \in nodes : x.parent = parent /\ x.name = name}

\* dirname() and basename() of a path other than "/".
Dirname(path) == SubSeq(path, 1, Len(path) - 1)
Basename(path) == path[Len(path)]

\* The result of a search: a row, or the errno.
Found(row) == [r |-> "OK", row |-> row]
Missing(errno) == [r |-> errno, row |-> NoEntry]

\* One turn of the loop of _oncefs_resolve_node: one path component.
Child(nodes, at, name) ==
    LET hits == Lookup(nodes, at.row.node, name)
    IN  IF at.r \in {"ENOENT", "EINVAL"} THEN at
        ELSE IF at.row.type # "DIR" THEN Missing("EINVAL")
        ELSE IF hits = {} THEN Missing("ENOENT")
        ELSE Found(CHOOSE x \in hits : TRUE)

Walk(nodes, path) ==
    LET at[n \in 0 .. Len(path)] ==
            IF n = 0 THEN Found(Root) ELSE Child(nodes, at[n - 1], path[n])
    IN  at[Len(path)]

\* _oncefs_resolve_node; the last turn is written out for the proofs.
Resolve(nodes, path) ==
    IF path = <<>> THEN Found(Root)
    ELSE Child(nodes, Walk(nodes, Dirname(path)), Basename(path))

\* _oncefs_init_node; its caller reserves the node id of a row that is found.
InitNode(m, path, type, now) ==
    LET there == Resolve(m.nodes, path)
        dir   == Resolve(m.nodes, Dirname(path))
    IN  IF there.r = "OK" THEN Missing("EEXIST")
        ELSE IF there.r # "ENOENT" THEN there
        ELSE IF dir.r # "OK" THEN dir
        ELSE IF dir.row.type # "DIR" THEN Missing("EINVAL")
        ELSE Found([node |-> m.next_node_id, parent |-> dir.row.node,
                    type |-> type, name |-> Basename(path), mtime |-> now])

\* _oncefs_move_node.  Calls leave one row of a name at most (KeepsTree); where a
\* mount of a rewritten history has left several, the query takes the one that a
\* resolution of the path takes.
MoveRow(m, row) ==
    LET hits == Lookup(m.nodes, row.parent, row.name)
    IN  IF hits = {} THEN [m EXCEPT !.nodes = InsertOrReplace(@, row), !.r = "OK"]
        ELSE Return(m, IF (CHOOSE x \in hits : TRUE).type = "FILE" THEN "EEXIST" ELSE "EINVAL")

-----------------------------------------------------------------------------
(* The block table. *)

Rows(m, op) == {b \in Block : m.blocks[b].op = op}

\* _oncefs_block_cmp_lookup on two rows of the same operation.
Before(m, b, c) ==
    LET x == m.blocks[b]
        y == m.blocks[c]
    IN  \/ x.node < y.node
        \/ x.node = y.node /\ x.offset < y.offset
        \/ x.node = y.node /\ x.offset = y.offset /\ x.fill < y.fill
        \/ x.node = y.node /\ x.offset = y.offset /\ x.fill = y.fill /\ b <= c

First(m, rows) == {b \in rows : \A c \in rows : Before(m, b, c)}

\* Mutant: deletions are reused before free blocks.
Reuse_DeleteFirst(m, node) ==
    IF Rows(m, "DELETE") # {} THEN First(m, Rows(m, "DELETE"))
    ELSE IF Rows(m, "FREE") # {} THEN First(m, Rows(m, "FREE"))
    ELSE IF node < 1 THEN {}
    ELSE First(m, {b \in Rows(m, "NODE") : m.blocks[b].node = node})

\* Mutant: deletions are never reused.
Reuse_NoDelete(m, node) ==
    IF Rows(m, "FREE") # {} THEN First(m, Rows(m, "FREE"))
    ELSE IF node < 1 THEN {}
    ELSE First(m, {b \in Rows(m, "NODE") : m.blocks[b].node = node})

\* Mutant: free blocks are not looked for.
Reuse_NoFree(m, node) ==
    IF Rows(m, "DELETE") # {} THEN First(m, Rows(m, "DELETE"))
    ELSE IF node < 1 THEN {}
    ELSE First(m, {b \in Rows(m, "NODE") : m.blocks[b].node = node})

\* Mutant: the NODE record that is taken over may be another node's.
Reuse_AnyNode(m, node) ==
    IF Rows(m, "FREE") # {} THEN First(m, Rows(m, "FREE"))
    ELSE IF Rows(m, "DELETE") # {} THEN First(m, Rows(m, "DELETE"))
    ELSE First(m, Rows(m, "NODE"))

\* _oncefs_block_reuse: the block it grants, none when it returns ENOSPC.
Reuse(m, node) ==
    IF Rows(m, "FREE") # {} THEN First(m, Rows(m, "FREE"))
    ELSE IF Rows(m, "DELETE") # {} THEN First(m, Rows(m, "DELETE"))
    ELSE IF node < 1 THEN {}
    ELSE First(m, {b \in Rows(m, "NODE") : m.blocks[b].node = node})

\* Mutant: blocks are reused before the container is full.
Grants_ReuseFirst(m, node) ==
    IF Reuse(m, node) # {} THEN Reuse(m, node)
    ELSE IF m.next_block_id <= LastBlock THEN {m.next_block_id} ELSE {}

Grants(m, node) ==
    IF m.next_block_id <= LastBlock THEN {m.next_block_id} ELSE Reuse(m, node)

\* _oncefs_create_block, then the io_write of the record it allocated.
Write(m, op, node, fill, offset, entry) ==
    LET b   == CHOOSE c \in Grants(m, node) : TRUE
        row == [op |-> op, seq |-> m.next_seq_id, node |-> node,
                fill |-> fill, offset |-> offset]
    IN  IF Grants(m, node) = {} THEN Return(m, "ENOSPC")
        ELSE [m EXCEPT !.blocks[b] = row,
                       !.disk[b] = [op |-> op, seq |-> m.next_seq_id, node |-> node,
                                    fill |-> fill, offset |-> offset, entry |-> entry],
                       !.next_block_id = IF @ <= LastBlock THEN @ + 1 ELSE @,
                       !.next_seq_id = @ + 1,
                       !.next_node_id = Larger(@, node + 1),
                       !.r = "OK"]

WriteEntry(m, op, row) == Write(m, op, row.node, 0, 0, row)

\* Mutant: only the records that carry a node row are freed.
DropNode_Entries(m, node) ==
    [m EXCEPT !.nodes = {x \in @ : x.node # node},
              !.blocks = [b \in Block |->
                  IF @[b].node = node /\ @[b].op \in EntryOp
                  THEN [@[b] EXCEPT !.op = "FREE"] ELSE @[b]],
              !.r = "OK"]

\* Mutant: the blocks are freed, the row stays.
DropNode_KeepsRow(m, node) ==
    [m EXCEPT !.blocks = [b \in Block |->
                  IF @[b].node = node /\ @[b].op # "NONE"
                  THEN [@[b] EXCEPT !.op = "FREE"] ELSE @[b]],
              !.r = "OK"]

\* _oncefs_del_node without its check: no row of the node stays, no block.
DropNode(m, node) ==
    [m EXCEPT !.nodes = {x \in @ : x.node # node},
              !.blocks = [b \in Block |->
                  IF @[b].node = node /\ @[b].op # "NONE"
                  THEN [@[b] EXCEPT !.op = "FREE"] ELSE @[b]],
              !.r = "OK"]

\* The block row left by _oncefs_del_data with new_size = size.
Cut(row, size) ==
    IF row.op = "TRUNCATE" \/ (row.op = "DATA" /\ row.offset >= size)
    THEN [row EXCEPT !.op = "FREE"]
    ELSE IF row.op = "DATA" /\ row.offset + row.fill > size
    THEN [row EXCEPT !.fill = size - row.offset]
    ELSE row

\* _oncefs_del_data.
DropData(m, node, size) ==
    [m EXCEPT !.blocks = [b \in Block |->
                  IF @[b].node = node THEN Cut(@[b], size) ELSE @[b]],
              !.r = "OK"]

-----------------------------------------------------------------------------
(* The operations that write one record. *)

\* oncefs_set_file, oncefs_set_dir: the row stays when the write fails.
Create(m, path, type, now) ==
    LET new == InitNode(m, path, type, now)
    IN  IF new.r # "OK" THEN Return(m, new.r)
        ELSE WriteEntry([m EXCEPT !.nodes = InsertOrReplace(@, new.row),
                                  !.next_node_id = @ + 1], "NODE", new.row)

\* oncefs_set_time, of a path other than "/".
SetTimeOf(m, path, mtime) ==
    LET at  == Resolve(m.nodes, path)
        row == [at.row EXCEPT !.mtime = mtime]
    IN  IF at.r # "OK" THEN Return(m, at.r)
        ELSE IF at.row.mtime = mtime THEN Return(m, "OK")
        ELSE WriteEntry([m EXCEPT !.nodes = InsertOrReplace(@, row)], "NODE", row)

\* Mutant: a directory is deleted whether it is empty or not.
Delete_NotEmpty(m, path) ==
    LET at == Resolve(m.nodes, path)
    IN  IF at.r # "OK" THEN Return(m, at.r)
        ELSE WriteEntry(DropNode(m, at.row.node), "DELETE", at.row)

\* oncefs_del_node.
Delete(m, path) ==
    LET at == Resolve(m.nodes, path)
    IN  IF at.r # "OK" THEN Return(m, at.r)
        ELSE IF at.row.type = "DIR" /\ \E x \in m.nodes : x.parent = at.row.node
        THEN Return(m, "EINVAL")
        ELSE WriteEntry(DropNode(m, at.row.node), "DELETE", at.row)

\* Mutant: the record is written before the rows are cut.
Truncate_CutLast(m, node, size) ==
    IF \E x \in m.nodes : x.node = node /\ x.type = "FILE"
    THEN DropData(Write(m, "TRUNCATE", node, 0, size, NoEntry), node, size)
    ELSE Return(m, "ENOENT")

\* oncefs_del_data.
Truncate(m, node, size) ==
    IF \E x \in m.nodes : x.node = node /\ x.type = "FILE"
    THEN Write(DropData(m, node, size), "TRUNCATE", node, 0, size, NoEntry)
    ELSE Return(m, "ENOENT")

-----------------------------------------------------------------------------
(* One record of the loop of _oncefs_load.  next_seq_id follows every record:
   the code sets it once, after the last, and reads it nowhere before. *)

\* Mutant: the replay has no case for a deletion.
Effect_NoDelete(m, rec) ==
    CASE rec.op \in {"DATA", "DELETE"} -> Return(m, "OK")
      [] rec.op = "NODE"     -> [m EXCEPT !.nodes = InsertOrReplace(@, rec.entry), !.r = "OK"]
      [] rec.op = "MOVE"     -> MoveRow(m, rec.entry)
      [] rec.op = "TRUNCATE" -> DropData(m, rec.node, rec.offset)

\* Mutant: the new size of a truncation is read from the wrong field.
Effect_Fill(m, rec) ==
    CASE rec.op = "DATA"     -> Return(m, "OK")
      [] rec.op = "NODE"     -> [m EXCEPT !.nodes = InsertOrReplace(@, rec.entry), !.r = "OK"]
      [] rec.op = "MOVE"     -> MoveRow(m, rec.entry)
      [] rec.op = "DELETE"   -> DropNode(m, rec.node)
      [] rec.op = "TRUNCATE" -> DropData(m, rec.node, rec.fill)

Effect(m, rec) ==
    CASE rec.op = "DATA"     -> Return(m, "OK")
      [] rec.op = "NODE"     -> [m EXCEPT !.nodes = InsertOrReplace(@, rec.entry), !.r = "OK"]
      [] rec.op = "MOVE"     -> MoveRow(m, rec.entry)
      [] rec.op = "DELETE"   -> DropNode(m, rec.node)
      [] rec.op = "TRUNCATE" -> DropData(m, rec.node, rec.offset)

\* Mutant: the sequence number of the last record is used again.
Replay_SameSeq(m, b) ==
    LET rec  == m.disk[b]
        done == Effect(m, rec)
    IN  IF done.r # "OK" THEN done
        ELSE [done EXCEPT
                  !.blocks[b] = [op |-> rec.op, seq |-> rec.seq, node |-> rec.node,
                                 fill |-> rec.fill, offset |-> rec.offset],
                  !.next_node_id = Larger(@, rec.node + 1),
                  !.next_block_id = Larger(@, b + 1),
                  !.next_seq_id = rec.seq]

\* Mutant: the block counter stops at the last record.
Replay_SameBlock(m, b) ==
    LET rec  == m.disk[b]
        done == Effect(m, rec)
    IN  IF done.r # "OK" THEN done
        ELSE [done EXCEPT
                  !.blocks[b] = [op |-> rec.op, seq |-> rec.seq, node |-> rec.node,
                                 fill |-> rec.fill, offset |-> rec.offset],
                  !.next_node_id = Larger(@, rec.node + 1),
                  !.next_block_id = Larger(@, b),
                  !.next_seq_id = rec.seq + 1]

\* Mutant: the node counter follows the records that carry a node row.
Replay_EntryNodes(m, b) ==
    LET rec  == m.disk[b]
        done == Effect(m, rec)
    IN  IF done.r # "OK" THEN done
        ELSE [done EXCEPT
                  !.blocks[b] = [op |-> rec.op, seq |-> rec.seq, node |-> rec.node,
                                 fill |-> rec.fill, offset |-> rec.offset],
                  !.next_node_id = IF rec.op \in EntryOp THEN Larger(@, rec.node + 1) ELSE @,
                  !.next_block_id = Larger(@, b + 1),
                  !.next_seq_id = rec.seq + 1]

Replay(m, b) ==
    LET rec  == m.disk[b]
        done == Effect(m, rec)
    IN  IF done.r # "OK" THEN done
        ELSE [done EXCEPT
                  !.blocks[b] = [op |-> rec.op, seq |-> rec.seq, node |-> rec.node,
                                 fill |-> rec.fill, offset |-> rec.offset],
                  !.next_node_id = Larger(@, rec.node + 1),
                  !.next_block_id = Larger(@, b + 1),
                  !.next_seq_id = rec.seq + 1]

\* Mutant: the scan passes over an invalid tag.
Scanned_PastHoles(disk) == {b \in Block : disk[b].op # "INVALID"}

\* The tags the scan reads: it stops at the first invalid one.
Scanned(disk) == {b \in Block : \A c \in 1 .. b : disk[c].op # "INVALID"}
=============================================================================
