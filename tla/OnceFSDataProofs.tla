-------------------------- MODULE OnceFSDataProofs ---------------------------
(***************************************************************************)
(* Theorems about the contents of files, for truncations to size 0.       *)
(***************************************************************************)
EXTENDS OnceFSData, OnceFSRecoveryProofs

-----------------------------------------------------------------------------
(* Bounds. *)

\* The greatest element of a set is its maximum.
LEMMA MaxIs ==
    ASSUME NEW S, S \subseteq Nat, NEW k \in S, \A y \in S : y <= k
    PROVE  Max(S) = k
  <1>1. \A x \in S : (\A y \in S : x >= y) <=> x = k
    OBVIOUS
  <1>2. \E x \in S : \A y \in S : x >= y
    BY <1>1
  <1> QED
    BY <1>1, <1>2 DEF Max

\* Every write ends at or below Reach.
LEMMA ReachBounds ==
    /\ Reach \in Nat
    /\ \A x \in Extents : x[1] + x[2] <= Reach
  <1> DEFINE f == [x \in Extents |-> x[1] + x[2]]
             T == {x[1] + x[2] : x \in Extents}
  <1>1. \A x \in Extents : x[1] \in Nat /\ x[2] \in Nat
    BY ExtentsAssumption
  <1>2. f \in [Extents -> Nat]
    BY <1>1
  <1>3. PICK x \in Extents : \A y \in Extents : f[y] <= f[x]
    <2> HIDE DEF f
    <2> QED
      BY <1>2, FiniteMax, ReachAssumption
  <1>4. T \subseteq Nat /\ f[x] \in T /\ \A y \in T : y <= f[x]
    BY <1>1, <1>3
  <1>5. Max(T) = f[x]
    <2> HIDE DEF T, f
    <2> QED
      BY <1>4, MaxIs
  <1>6. Reach = Max(T)
    BY DEF Reach
  <1> QED
    BY <1>1, <1>3, <1>4, <1>5, <1>6

-----------------------------------------------------------------------------
(* The rows of a file. *)

\* From m to n the data rows of a node stay as they are.
SameFile(m, n, node) ==
    /\ DataRows(n, node) = DataRows(m, node)
    /\ \A b \in DataRows(m, node) : n.blocks[b] = m.blocks[b]

\* The rows that hold position p of a file.
Covering(m, node, p) ==
    {b \in DataRows(m, node) : LET row == m.blocks[b] IN
        row.offset <= p /\ p < row.offset + row.fill}

\* The array of bytes is what the rows of the file amount to: at each position
\* the sequence number of the youngest row that holds it, 0 where none does.
Shows(m, node, bytes) ==
    /\ bytes \in [0 .. Reach - 1 -> Nat]
    /\ \A b \in DataRows(m, node) : LET row == m.blocks[b] IN
         row.fill \in 1 .. Payload /\ row.offset + row.fill <= Reach /\ row.seq >= 1
    /\ \A p \in 0 .. Reach - 1 :
         \/ Covering(m, node, p) = {} /\ bytes[p] = 0
         \/ \E b \in Covering(m, node, p) :
              /\ bytes[p] = m.blocks[b].seq
              /\ \A c \in Covering(m, node, p) : m.blocks[c].seq <= m.blocks[b].seq

\* The rows alone decide what a file shows.
LEMMA SameShows ==
    ASSUME NEW m, NEW n, NEW node, NEW bytes, SameFile(m, n, node), Shows(m, node, bytes)
    PROVE  Shows(n, node, bytes)
  <1>1. DataRows(n, node) = DataRows(m, node)
        /\ \A b \in DataRows(m, node) : n.blocks[b] = m.blocks[b]
    BY DEF SameFile
  <1>2. \A p : Covering(n, node, p) = Covering(m, node, p)
    BY <1>1 DEF Covering
  <1>3. \A p : \A b \in Covering(m, node, p) : n.blocks[b] = m.blocks[b]
    BY <1>1 DEF Covering
  <1> QED
    BY <1>1, <1>2, <1>3 DEF Shows

\* A file without rows shows nothing.
LEMMA NoRowsShow ==
    ASSUME NEW m, NEW node, DataRows(m, node) = {},
           NEW bytes \in [0 .. Reach - 1 -> Nat], \A p \in 0 .. Reach - 1 : bytes[p] = 0
    PROVE  Shows(m, node, bytes)
  <1>1. \A p : Covering(m, node, p) = {}
    BY DEF Covering
  <1> QED
    BY <1>1 DEF Shows

\* What two steps leave as it is.
LEMMA SameTrans ==
    ASSUME NEW m, NEW f, NEW n, NEW node, SameFile(m, f, node), SameFile(f, n, node)
    PROVE  SameFile(m, n, node)
  BY DEF SameFile

\* The same rows hold the same files.
LEMMA SameBlocksFile ==
    ASSUME NEW m, NEW n, n.blocks = m.blocks, NEW node
    PROVE  SameFile(m, n, node)
  BY DEF SameFile, DataRows, Rows

\* A write puts its row over one that is no data row, or changes no row.
LEMMA WriteRow ==
    ASSUME NEW f, Sound(f), NEW op \in LogOp, NEW node \in Nat, NEW fill \in Nat,
           NEW offset \in Nat, NEW entry \in NodeRow \cup {NoEntry},
           NEW w, w = Write(f, op, node, fill, offset, entry)
    PROVE  \/ w.blocks = f.blocks /\ w.r = "ENOSPC"
           \/ \E b \in Block :
                /\ f.blocks[b].op # "DATA"
                /\ w.blocks[b] = [op |-> op, seq |-> f.next_seq_id, node |-> node,
                                  fill |-> fill, offset |-> offset]
                /\ \A c \in Block : c # b => w.blocks[c] = f.blocks[c]
                /\ w.r = "OK"
  <1> DEFINE row == [op |-> op, seq |-> f.next_seq_id, node |-> node,
                     fill |-> fill, offset |-> offset]
  <1>1. Good(f) /\ f \in Machine /\ f.blocks \in [Block -> BlockRow]
    BY DEF Sound, Good, Machine
  <1>2. CASE Grants(f, node) = {}
    <2>1. w = [f EXCEPT !.r = "ENOSPC"]
      BY <1>2 DEF Write, Return
    <2> QED
      BY <1>1, <2>1 DEF Machine
  <1>3. CASE Grants(f, node) # {}
    <2>1. PICK b \in Grants(f, node) :
            Write(f, op, node, fill, offset, entry) =
              [nodes |-> f.nodes,
               blocks |-> [f.blocks EXCEPT ![b] = row],
               disk |-> [f.disk EXCEPT ![b] =
                   [op |-> op, seq |-> f.next_seq_id, node |-> node,
                    fill |-> fill, offset |-> offset, entry |-> entry]],
               next_node_id |-> Larger(f.next_node_id, node + 1),
               next_block_id |-> IF f.next_block_id <= LastBlock
                                 THEN f.next_block_id + 1 ELSE f.next_block_id,
               next_seq_id |-> f.next_seq_id + 1,
               r |-> "OK"]
      <3>1. PICK b \in Grants(f, node) :
              Write(f, op, node, fill, offset, entry) = Laid(f, op, node, fill, offset, entry, b)
        BY <1>1, <1>3, WriteEffect
      <3> QED
        BY <3>1 DEF Laid
    <2>2. b \in Block /\ (b = f.next_block_id \/ f.blocks[b].op \in {"FREE", "DELETE", "NODE"})
      BY <1>1, GrantsType
    <2>3. f.blocks[b].op # "DATA"
      <3>1. b = f.next_block_id => f.blocks[b].op = "NONE"
        BY <1>1, <2>2 DEF Sound, Good
      <3> QED
        BY <2>2, <3>1
    <2>4. w.blocks = [f.blocks EXCEPT ![b] = row] /\ w.r = "OK"
      BY <2>1
    <2> HIDE DEF row
    <2>5. w.blocks[b] = row /\ \A c \in Block : c # b => w.blocks[c] = f.blocks[c]
      BY <1>1, <2>2, <2>4
    <2> QED
      BY <2>2, <2>3, <2>4, <2>5 DEF row
  <1> QED
    BY <1>2, <1>3

\* The write of any other record leaves the files alone.
LEMMA WriteSame ==
    ASSUME NEW f, Sound(f), NEW op \in LogOp \ {"DATA"}, NEW node \in Nat, NEW fill \in Nat,
           NEW offset \in Nat, NEW entry \in NodeRow \cup {NoEntry}, NEW file
    PROVE  SameFile(f, Write(f, op, node, fill, offset, entry), file)
  <1> DEFINE w == Write(f, op, node, fill, offset, entry)
  <1>0. w = Write(f, op, node, fill, offset, entry)
    OBVIOUS
  <1> HIDE DEF w
  <1>1. op \in LogOp /\ op # "DATA"
    OBVIOUS
  <1>2. \/ w.blocks = f.blocks
        \/ \E b \in Block : /\ f.blocks[b].op # "DATA"
                            /\ w.blocks[b] = [op |-> op, seq |-> f.next_seq_id, node |-> node,
                                             fill |-> fill, offset |-> offset]
                            /\ \A c \in Block : c # b => w.blocks[c] = f.blocks[c]
    BY <1>0, <1>1, WriteRow
  <1>3. SameFile(f, w, file)
    BY <1>1, <1>2 DEF SameFile, DataRows, Rows
  <1> QED
    BY <1>3 DEF w

\* A deletion takes away the rows of its node and leaves the others, and so does a
\* truncation to size 0.
LEMMA DropsFile ==
    ASSUME NEW m \in Machine, NEW node \in Nat, NEW file
    PROVE  /\ file # node => /\ SameFile(m, DropNode(m, node), file)
                             /\ SameFile(m, DropData(m, node, 0), file)
           /\ DataRows(DropNode(m, node), node) = {}
           /\ DataRows(DropData(m, node, 0), node) = {}
  <1>1. m.blocks \in [Block -> BlockRow]
    BY DEF Machine
  <1>2. \A b \in Block : m.blocks[b].offset \in Nat /\ m.blocks[b].node \in Nat
    BY <1>1 DEF BlockRow
  <1>3. /\ file # node => SameFile(m, DropNode(m, node), file)
        /\ DataRows(DropNode(m, node), node) = {}
    <2> DEFINE f == DropNode(m, node)
    <2>1. \A b \in Block : f.blocks[b] = IF m.blocks[b].node = node /\ m.blocks[b].op # "NONE"
                                         THEN [m.blocks[b] EXCEPT !.op = "FREE"] ELSE m.blocks[b]
      BY DEF DropNode, Machine
    <2> HIDE DEF f
    <2>2. \A b \in Block : f.blocks[b].node = m.blocks[b].node
      BY <1>1, <2>1 DEF BlockRow
    <2>3. \A b \in Block : m.blocks[b].node = node => f.blocks[b].op # "DATA"
      BY <1>1, <2>1 DEF BlockRow
    <2>4. \A b \in Block : m.blocks[b].node # node => f.blocks[b] = m.blocks[b]
      BY <2>1
    <2>5. (file # node => SameFile(m, f, file)) /\ DataRows(f, node) = {}
      BY <2>2, <2>3, <2>4 DEF SameFile, DataRows, Rows
    <2> QED
      BY <2>5 DEF f
  <1>4. /\ file # node => SameFile(m, DropData(m, node, 0), file)
        /\ DataRows(DropData(m, node, 0), node) = {}
    <2> DEFINE f == DropData(m, node, 0)
    <2>1. \A b \in Block : f.blocks[b] = IF m.blocks[b].node = node
                                         THEN Cut(m.blocks[b], 0) ELSE m.blocks[b]
      BY DEF DropData, Machine
    <2> HIDE DEF f
    <2>2. \A b \in Block : Cut(m.blocks[b], 0).node = m.blocks[b].node
      BY <1>1, CutType
    <2>3. \A b \in Block : Cut(m.blocks[b], 0).op # "DATA"
      <3> SUFFICES ASSUME NEW b \in Block PROVE Cut(m.blocks[b], 0).op # "DATA"
        OBVIOUS
      <3> DEFINE row == m.blocks[b]
      <3>1. row \in BlockRow /\ row.offset >= 0
        BY <1>1, <1>2
      <3> HIDE DEF row
      <3>2. Cut(row, 0).op # "DATA"
        BY <3>1 DEF Cut, BlockRow
      <3> QED
        BY <3>2 DEF row
    <2>4. (file # node => SameFile(m, f, file)) /\ DataRows(f, node) = {}
      BY <2>1, <2>2, <2>3 DEF SameFile, DataRows, Rows
    <2> QED
      BY <2>4 DEF f
  <1> QED
    BY <1>3, <1>4

-----------------------------------------------------------------------------
(* The nodes of a table. *)

\* Node ids of the table are below the counter they are taken from.
Below(m) == \A x \in m.nodes : x.node < m.next_node_id

\* From m to n only rows of new nodes enter the node table, and those in `more`.
Grows(m, n, more) ==
    /\ n.next_node_id >= m.next_node_id
    /\ \A x \in n.nodes :
         \/ HasKey(m.nodes, x)
         \/ /\ x.node = m.next_node_id /\ m.next_node_id <= MaxNode
            /\ n.next_node_id > m.next_node_id
         \/ HasKey(more, x)

\* What is written after a change of the table makes no difference to the table.
LEMMA WriteGrows ==
    ASSUME NEW m \in Machine, NEW f, Good(f), NEW more, Grows(m, f, more),
           NEW op \in LogOp, NEW node \in Nat, NEW fill \in Nat,
           NEW offset \in Nat, NEW entry \in NodeRow \cup {NoEntry}
    PROVE  Grows(m, Write(f, op, node, fill, offset, entry), more)
  <1> DEFINE w == Write(f, op, node, fill, offset, entry)
  <1>1. w.nodes = f.nodes /\ w.next_node_id \in Nat /\ w.next_node_id >= f.next_node_id
    BY WriteIds
  <1>2. m.next_node_id \in Nat /\ f.next_node_id \in Nat
    BY DEF Good, Machine
  <1> HIDE DEF w
  <1>3. Grows(m, w, more)
    BY <1>1, <1>2 DEF Grows
  <1> QED
    BY <1>3 DEF w

\* Nothing new in the table.
LEMMA SameGrows ==
    ASSUME NEW m \in Machine, NEW n, n.nodes \subseteq m.nodes, n.next_node_id = m.next_node_id,
           NEW more
    PROVE  Grows(m, n, more)
  <1>1. m.next_node_id \in Nat
    BY DEF Machine
  <1> QED
    BY <1>1 DEF Grows, HasKey

\* A row that replaces one of the table, one of the rows in `more`, or one of a new
\* node for which the counter was raised.
LEMMA InsertGrows ==
    ASSUME NEW m \in Machine, NEW row \in NodeRow, NEW more,
           NEW f, f.nodes = InsertOrReplace(m.nodes, row), f.next_node_id >= m.next_node_id,
           \/ HasKey(m.nodes, row) \/ HasKey(more, row)
           \/ /\ row.node = m.next_node_id /\ m.next_node_id <= MaxNode
              /\ f.next_node_id > m.next_node_id
    PROVE  Grows(m, f, more)
  <1>1. \A x \in f.nodes : x \in m.nodes \/ x = row
    BY DEF InsertOrReplace
  <1> QED
    BY <1>1 DEF Grows, HasKey

\* Creating a file or a directory.
LEMMA CreateGrows ==
    ASSUME NEW m, Good(m), m.next_node_id <= MaxNode, NEW path \in Paths,
           NEW type \in {"FILE", "DIR", "LINK"}, NEW now \in Nat, NEW more
    PROVE  Grows(m, Create(m, path, type, now), more)
  <1> DEFINE new == InitNode(m, path, type, now)
             nodes == InsertOrReplace(m.nodes, new.row)
             id == m.next_node_id + 1
             f == [m EXCEPT !.nodes = nodes, !.next_node_id = id]
             n == Create(m, path, type, now)
  <1>1. m \in Machine /\ m.nodes \in SUBSET NodeRow /\ m.next_node_id \in Nat
    BY DEF Good, Machine
  <1>2. new.r = "OK" => new.row \in NodeRow /\ new.row.node = m.next_node_id
    BY <1>1, InitNodeType
  <1>3. n = IF new.r # "OK" THEN Return(m, new.r) ELSE WriteEntry(f, "NODE", new.row)
    BY DEF Create
  <1> HIDE DEF new, n
  <1>4. CASE new.r # "OK"
    <2>1. n.nodes = m.nodes /\ n.next_node_id = m.next_node_id
      BY <1>1, <1>3, <1>4 DEF Return, Machine
    <2>2. Grows(m, n, more)
      BY <1>1, <2>1, SameGrows
    <2> QED
      BY <2>2 DEF n
  <1>5. CASE new.r = "OK"
    <2>1. nodes \in SUBSET NodeRow /\ id \in Nat /\ id > m.next_node_id /\ id >= m.next_node_id
      BY <1>1, <1>2, <1>5, InsertType
    <2>2. f.nodes = nodes /\ f.next_node_id = id
      BY <1>1 DEF Machine
    <2>3. Grows(m, f, more)
      <3> HIDE DEF f, id
      <3> QED
        BY <1>1, <1>2, <1>5, <2>1, <2>2, InsertGrows
    <2>4. Good(f)
      <3> HIDE DEF nodes, id
      <3>1. Fades(m, f)
        BY <1>1, <2>1, NodesFades
      <3> HIDE DEF f
      <3> QED
        BY <3>1 DEF Fades, Good
    <2> HIDE DEF f
    <2>5. new.row.node \in Nat
      BY <1>1, <1>2, <1>5
    <2>6. Grows(m, Write(f, "NODE", new.row.node, 0, 0, new.row), more)
      BY <1>1, <1>2, <1>5, <2>3, <2>4, <2>5, WriteGrows DEF LogOp
    <2>7. Grows(m, n, more)
      BY <1>3, <1>5, <2>6 DEF WriteEntry
    <2> QED
      BY <2>7 DEF n
  <1> QED
    BY <1>4, <1>5

\* Setting a time.
LEMMA SetTimeGrows ==
    ASSUME NEW m, Good(m), NEW path \in Paths, NEW mtime \in Nat, NEW more
    PROVE  Grows(m, SetTimeOf(m, path, mtime), more)
  <1> DEFINE at == Resolve(m.nodes, path)
             row == [at.row EXCEPT !.mtime = mtime]
             nodes == InsertOrReplace(m.nodes, row)
             f == [m EXCEPT !.nodes = nodes]
             n == SetTimeOf(m, path, mtime)
  <1>1. m \in Machine /\ m.nodes \in SUBSET NodeRow /\ m.next_node_id \in Nat
    BY DEF Good, Machine
  <1>2. at.r = "OK" => at.row \in m.nodes /\ at.row \in NodeRow
    BY <1>1, PathType
  <1>3. at.r = "OK" => row \in NodeRow /\ row.node = at.row.node /\ row.type = at.row.type
    BY <1>2 DEF NodeRow
  <1>4. \/ \E r : n = Return(m, r)
        \/ at.r = "OK" /\ n = WriteEntry(f, "NODE", row)
    BY DEF SetTimeOf
  <1> HIDE DEF at, row, n
  <1>5. CASE \E r : n = Return(m, r)
    <2>1. n.nodes = m.nodes /\ n.next_node_id = m.next_node_id
      BY <1>1, <1>5 DEF Return, Machine
    <2>2. Grows(m, n, more)
      BY <1>1, <2>1, SameGrows
    <2> QED
      BY <2>2 DEF n
  <1>6. CASE at.r = "OK" /\ n = WriteEntry(f, "NODE", row)
    <2>1. nodes \in SUBSET NodeRow
      BY <1>1, <1>3, <1>6, InsertType
    <2>2. f.nodes = nodes /\ f.next_node_id = m.next_node_id
      BY <1>1 DEF Machine
    <2>3. f = [m EXCEPT !.nodes = nodes, !.next_node_id = m.next_node_id]
      BY <1>1 DEF Machine
    <2>4. Fades(m, f)
      <3> HIDE DEF nodes, f
      <3>1. m.next_node_id >= m.next_node_id
        BY <1>1
      <3> QED
        BY <1>1, <2>1, <2>3, <3>1, NodesFades
    <2>5. HasKey(m.nodes, row)
      BY <1>2, <1>3, <1>6 DEF HasKey
    <2>6. Grows(m, f, more)
      <3> HIDE DEF f
      <3>1. f.next_node_id >= m.next_node_id
        BY <1>1, <2>2
      <3> QED
        BY <1>1, <1>3, <1>6, <2>2, <2>5, <3>1, InsertGrows
    <2> HIDE DEF f
    <2>7. Good(f) /\ row.node \in Nat
      BY <1>3, <1>6, <2>4 DEF Fades, Good, NodeRow
    <2>8. Grows(m, Write(f, "NODE", row.node, 0, 0, row), more)
      BY <1>1, <1>3, <1>6, <2>6, <2>7, WriteGrows DEF LogOp
    <2>9. Grows(m, n, more)
      BY <1>6, <2>8 DEF WriteEntry
    <2> QED
      BY <2>9 DEF n
  <1> QED
    BY <1>4, <1>5, <1>6

\* Deleting a node.
LEMMA DropGrows ==
    ASSUME NEW m, Good(m), NEW row \in NodeRow, NEW more
    PROVE  Grows(m, WriteEntry(DropNode(m, row.node), "DELETE", row), more)
  <1> DEFINE f == DropNode(m, row.node)
  <1>1. m \in Machine /\ row.node \in Nat
    BY DEF Good, NodeRow
  <1>2. f.nodes \subseteq m.nodes /\ f.next_node_id = m.next_node_id
    BY <1>1 DEF DropNode, Machine
  <1>3. Fades(m, f)
    BY <1>1, DropNodeFades
  <1> HIDE DEF f
  <1>4. Good(f)
    BY <1>3 DEF Fades, Good
  <1>5. Grows(m, f, more)
    BY <1>1, <1>2, SameGrows
  <1>6. Grows(m, Write(f, "DELETE", row.node, 0, 0, row), more)
    BY <1>1, <1>4, <1>5, WriteGrows DEF LogOp
  <1> QED
    BY <1>6 DEF f, WriteEntry

LEMMA DeleteGrows ==
    ASSUME NEW m, Good(m), NEW path \in Paths, NEW more
    PROVE  Grows(m, Delete(m, path), more)
  <1> DEFINE at == Resolve(m.nodes, path)
             n == Delete(m, path)
  <1>1. m \in Machine /\ m.nodes \in SUBSET NodeRow
    BY DEF Good, Machine
  <1>2. at.r = "OK" => at.row \in NodeRow
    BY <1>1, PathType
  <1>3. \/ \E r : n = Return(m, r)
        \/ at.r = "OK" /\ n = WriteEntry(DropNode(m, at.row.node), "DELETE", at.row)
    BY DEF Delete
  <1> HIDE DEF at, n
  <1>4. CASE \E r : n = Return(m, r)
    <2>1. n.nodes = m.nodes /\ n.next_node_id = m.next_node_id
      BY <1>1, <1>4 DEF Return, Machine
    <2>2. Grows(m, n, more)
      BY <1>1, <2>1, SameGrows
    <2> QED
      BY <2>2 DEF n
  <1>5. CASE at.r = "OK" /\ n = WriteEntry(DropNode(m, at.row.node), "DELETE", at.row)
    <2>1. Grows(m, n, more)
      BY <1>2, <1>5, DropGrows
    <2> QED
      BY <2>1 DEF n
  <1> QED
    BY <1>3, <1>4, <1>5

\* Moving a row that is in the table, or was.
LEMMA MoveGrows ==
    ASSUME NEW m, Good(m), NEW row \in NodeRow, NEW more,
           HasKey(m.nodes, row) \/ HasKey(more, row)
    PROVE  /\ Grows(m, MoveRow(m, row), more)
           /\ Grows(m, WriteEntry(MoveRow(m, row), "MOVE", row), more)
  <1> DEFINE f == MoveRow(m, row)
  <1>1. m \in Machine /\ m.next_node_id \in Nat /\ row.node \in Nat
    BY DEF Good, Machine, NodeRow
  <1>2. /\ f.next_node_id = m.next_node_id
        /\ f.nodes = m.nodes \/ f.nodes = InsertOrReplace(m.nodes, row)
    BY <1>1 DEF MoveRow, Return, Machine
  <1>3. Fades(m, f)
    BY <1>1, MoveRowFades
  <1> HIDE DEF f
  <1>4. Good(f) /\ f.next_node_id >= m.next_node_id
    BY <1>1, <1>2, <1>3 DEF Fades, Good
  <1>5. Grows(m, f, more)
    <2>1. CASE f.nodes = m.nodes
      BY <1>1, <1>2, <2>1, SameGrows
    <2>2. CASE f.nodes = InsertOrReplace(m.nodes, row)
      BY <1>1, <1>4, <2>2, InsertGrows
    <2> QED
      BY <1>2, <2>1, <2>2
  <1>6. Grows(m, Write(f, "MOVE", row.node, 0, 0, row), more)
    BY <1>1, <1>4, <1>5, WriteGrows DEF LogOp
  <1> QED
    BY <1>5, <1>6 DEF f, WriteEntry

-----------------------------------------------------------------------------
(* The steps of a mounted process. *)

\* The row that a rename has yet to move, once it has deleted the file in the way.
Moving == IF job.kind = "move" THEN {job.row} ELSE {}

\* A link's two rows are of one new node.
LEMMA SetLinkGrows ==
    ASSUME IInv, NEW path \in Paths, NEW target \in Names, SetLink(path, target)
    PROVE  Grows(fs, fs', Moving)
  <1>1. mode = "mounted" /\ Good(fs) /\ fs.next_node_id <= MaxNode
    BY DEF IInv, Begin, SetLink
  <1>2. fs \in Machine /\ fs.nodes \in SUBSET NodeRow /\ fs.next_node_id \in Nat
    BY <1>1 DEF Good, Machine
  <1>3. PICK now \in Times :
          LET new     == InitNode(fs, path, "LINK", now)
              payload == [node |-> new.row.node, parent |-> new.row.node,
                          type |-> "LINK_PAYLOAD", name |-> target, mtime |-> 0]
          IN  IF new.r # "OK" THEN fs' = Return(fs, new.r) /\ UNCHANGED job
              ELSE /\ fs' = WriteEntry([fs EXCEPT
                              !.nodes = InsertOrReplace(InsertOrReplace(@, new.row), payload),
                              !.next_node_id = @ + 1], "NODE", new.row)
                   /\ job' = IF fs'.r = "OK" THEN [kind |-> "link", row |-> payload]
                             ELSE NoJob
    BY DEF SetLink
  <1> DEFINE new == InitNode(fs, path, "LINK", now)
             payload == [node |-> new.row.node, parent |-> new.row.node,
                         type |-> "LINK_PAYLOAD", name |-> target, mtime |-> 0]
             one == InsertOrReplace(fs.nodes, new.row)
             nodes == InsertOrReplace(one, payload)
             id == fs.next_node_id + 1
             f == [fs EXCEPT !.nodes = nodes, !.next_node_id = id]
  <1>4. new.r = "OK" => /\ new.row \in NodeRow /\ new.row.node \in Nat
                        /\ new.row.node = fs.next_node_id
    BY <1>2, InitNodeType, TimesAssumption DEF NodeRow
  <1>5. \/ new.r # "OK" /\ fs' = Return(fs, new.r)
        \/ new.r = "OK" /\ fs' = WriteEntry(f, "NODE", new.row)
    BY <1>3
  <1> HIDE DEF new
  <1>6. CASE new.r # "OK"
    <2>1. fs'.nodes = fs.nodes /\ fs'.next_node_id = fs.next_node_id
      BY <1>2, <1>5, <1>6 DEF Return, Machine
    <2> QED
      BY <1>2, <2>1, SameGrows
  <1>7. CASE new.r = "OK"
    <2>1. payload \in NodeRow /\ payload.node = fs.next_node_id
      BY <1>4, <1>7 DEF NodeRow, NodeType
    <2> HIDE DEF payload
    <2>2. one \in SUBSET NodeRow /\ nodes \in SUBSET NodeRow
      BY <1>2, <1>4, <1>7, <2>1, InsertType
    <2>3. \A x \in nodes : x \in fs.nodes \/ x = new.row \/ x = payload
      BY DEF InsertOrReplace
    <2>4. id \in Nat /\ id > fs.next_node_id /\ id >= fs.next_node_id
      BY <1>2
    <2> HIDE DEF one, nodes, id
    <2>5. f.nodes = nodes /\ f.next_node_id = id
      BY <1>2 DEF Machine
    <2>6. Fades(fs, f)
      BY <1>2, <2>2, <2>4, NodesFades
    <2> HIDE DEF f
    <2>7. Good(f)
      BY <1>1, <2>6 DEF Fades, Good
    <2>8. Grows(fs, f, Moving)
      BY <1>1, <1>4, <1>7, <2>1, <2>3, <2>4, <2>5 DEF Grows, HasKey
    <2>9. Grows(fs, Write(f, "NODE", new.row.node, 0, 0, new.row), Moving)
      BY <1>2, <1>4, <1>7, <2>7, <2>8, WriteGrows DEF LogOp
    <2> QED
      BY <1>5, <1>7, <2>9 DEF WriteEntry
  <1> QED
    BY <1>6, <1>7

\* No step of a mounted process brings a row that is not its own.
LEMMA StepGrows ==
    ASSUME IInv, [Next]_vars, mode = "mounted", mode' = "mounted"
    PROVE  Grows(fs, fs', Moving)
  <1>1. Good(fs) /\ Sound(fs) /\ fs \in Machine /\ job \in Job
    BY DEF IInv, Typed, Good
  <1>2. fs.nodes \in SUBSET NodeRow
    BY <1>1 DEF Machine
  <1>3. ASSUME fs' = fs PROVE Grows(fs, fs', Moving)
    BY <1>1, <1>3, SameGrows
  <1>4. ASSUME NEW path \in Paths,
               SetFile(path) \/ SetDir(path) \/ SetTime(path) \/ DelNode(path)
        PROVE  Grows(fs, fs', Moving)
    <2>1. fs.next_node_id <= MaxNode
      BY <1>4 DEF SetFile, SetDir, SetTime, DelNode, Begin
    <2>2. CASE SetFile(path) \/ SetDir(path)
      <3>1. \E now \in Times, type \in {"FILE", "DIR", "LINK"} : fs' = Create(fs, path, type, now)
        BY <2>2 DEF SetFile, SetDir
      <3> QED
        BY <1>1, <2>1, <3>1, CreateGrows, TimesAssumption
    <2>3. CASE SetTime(path)
      <3>1. \E mtime \in Times : fs' = SetTimeOf(fs, path, mtime)
        BY <2>3 DEF SetTime
      <3> QED
        BY <1>1, <3>1, SetTimeGrows, TimesAssumption
    <2>4. CASE DelNode(path)
      BY <1>1, <2>4, DeleteGrows DEF DelNode
    <2> QED
      BY <1>4, <2>2, <2>3, <2>4
  <1>5. ASSUME NEW from \in Paths, NEW to \in Paths, MoveNode(from, to)
        PROVE  Grows(fs, fs', Moving)
    <2> DEFINE src == Resolve(fs.nodes, from)
               dir == Resolve(fs.nodes, Dirname(to))
               row == [src.row EXCEPT !.parent = dir.row.node, !.name = Basename(to)]
    <2>1. /\ src.r = "OK" => src.row \in NodeRow /\ src.row \in fs.nodes
          /\ dir.r = "OK" => dir.row.node \in Nat
          /\ Basename(to) \in Names
      BY <1>2, PathType
    <2>2. src.r = "OK" /\ dir.r = "OK" =>
            row \in NodeRow /\ row.node = src.row.node /\ row.type = src.row.type
      BY <2>1 DEF NodeRow
    <2>3. \/ \E r : fs' = Return(fs, r)
          \/ /\ src.r = "OK" /\ dir.r = "OK"
             /\ fs' \in {MoveRow(fs, row), WriteEntry(MoveRow(fs, row), "MOVE", row)}
          \/ fs' = Delete(fs, to)
      BY <1>5 DEF MoveNode
    <2> HIDE DEF src, dir, row
    <2>4. CASE \E r : fs' = Return(fs, r)
      <3>1. fs'.nodes = fs.nodes /\ fs'.next_node_id = fs.next_node_id
        BY <1>1, <2>4 DEF Return, Machine
      <3> QED
        BY <1>1, <3>1, SameGrows
    <2>5. CASE /\ src.r = "OK" /\ dir.r = "OK"
               /\ fs' \in {MoveRow(fs, row), WriteEntry(MoveRow(fs, row), "MOVE", row)}
      <3>1. HasKey(fs.nodes, row)
        BY <2>1, <2>2, <2>5 DEF HasKey
      <3> QED
        BY <1>1, <2>2, <2>5, <3>1, MoveGrows
    <2>6. CASE fs' = Delete(fs, to)
      BY <1>1, <2>6, DeleteGrows
    <2> QED
      BY <2>3, <2>4, <2>5, <2>6
  <1>6. ASSUME NEW node \in FileIds, NEW size \in Sizes, DelData(node, size)
        PROVE  Grows(fs, fs', Moving)
    <2>1. fs' = Truncate(fs, node, size) /\ node \in Nat /\ size \in Nat
      BY <1>2, <1>6, SizesAssumption DEF DelData, FileIds, NodeRow
    <2>2. CASE fs' = Return(fs, "ENOENT")
      <3>1. fs'.nodes = fs.nodes /\ fs'.next_node_id = fs.next_node_id
        BY <1>1, <2>2 DEF Return, Machine
      <3> QED
        BY <1>1, <3>1, SameGrows
    <2>3. CASE fs' = Write(DropData(fs, node, size), "TRUNCATE", node, 0, size, NoEntry)
      <3> DEFINE f == DropData(fs, node, size)
      <3>1. f.nodes \subseteq fs.nodes /\ f.next_node_id = fs.next_node_id
        BY <1>1 DEF DropData, Machine
      <3>2. Fades(fs, f)
        BY <1>1, <2>1, DropDataFades
      <3> HIDE DEF f
      <3>3. Good(f) /\ Grows(fs, f, Moving)
        BY <1>1, <3>1, <3>2, SameGrows DEF Fades, Good
      <3>4. Grows(fs, Write(f, "TRUNCATE", node, 0, size, NoEntry), Moving)
        BY <1>1, <2>1, <3>3, WriteGrows DEF LogOp
      <3> QED
        BY <2>3, <3>4 DEF f
    <2> QED
      BY <2>1, <2>2, <2>3 DEF Truncate
  <1>7. CASE Call
    <2>1. ASSUME NEW node \in FileIds, NEW x \in Extents, SetData(node, x[1], x[2])
          PROVE  Grows(fs, fs', Moving)
      BY <1>3, <2>1 DEF SetData
    <2> QED
      BY <1>4, <1>5, <1>6, <1>7, <2>1, SetLinkGrows DEF Call
  <1>8. CASE FinishLink
    <2>1. job.row \in NodeRow /\ fs' = WriteEntry(fs, "NODE", job.row) /\ job.row.node \in Nat
      BY <1>1, <1>8, JobType DEF FinishLink, NodeRow
    <2>2. Grows(fs, fs, Moving)
      BY <1>1, SameGrows
    <2>3. Grows(fs, Write(fs, "NODE", job.row.node, 0, 0, job.row), Moving)
      BY <1>1, <2>1, <2>2, WriteGrows DEF LogOp
    <2> QED
      BY <2>1, <2>3 DEF WriteEntry
  <1>9. CASE FinishMove
    <2>1. /\ job.kind = "move" /\ job.row \in NodeRow
          /\ fs' \in {MoveRow(fs, job.row), WriteEntry(MoveRow(fs, job.row), "MOVE", job.row)}
      BY <1>1, <1>9, JobType DEF FinishMove
    <2>2. HasKey(Moving, job.row)
      BY <2>1 DEF Moving, HasKey
    <2> QED
      BY <1>1, <2>1, <2>2, MoveGrows
  <1>10. CASE WriteChunk
    <2>1. PICK amount : fs' = Write(fs, "DATA", job.node, amount, job.offset, NoEntry)
                        /\ amount = (IF job.size > Payload THEN Payload ELSE job.size)
      BY <1>10 DEF WriteChunk
    <2>2. job.node \in Nat /\ job.offset \in Nat /\ amount \in Nat
      BY <1>1, <1>10, <2>1, JobType, PayloadAssumption DEF WriteChunk
    <2>3. Grows(fs, fs, Moving)
      BY <1>1, SameGrows
    <2> QED
      BY <1>1, <2>1, <2>2, <2>3, WriteGrows DEF LogOp
  <1>11. CASE Stop \/ Mount \/ Load
    BY <1>11 DEF Stop, Mount, Load, Mounted, LoadRecord
  <1>12. CASE UNCHANGED vars
    BY <1>3, <1>12 DEF vars
  <1> QED
    BY <1>7, <1>8, <1>9, <1>10, <1>11, <1>12 DEF Next, Finish

-----------------------------------------------------------------------------
(* The contents of all files. *)

FilesOf(nodes) == {x.node : x \in {y \in nodes : y.type = "FILE"}}

\* Every file shows its array of bytes.
Contents(m, bytes) ==
    \A node \in FilesOf(m.nodes) : node \in 1 .. MaxNode /\ Shows(m, node, bytes[node])

Arrays == [1 .. MaxNode -> [0 .. Reach - 1 -> Nat]]

\* A row that a rename has yet to move is still in the table, or the node has no
\* data; the file that is written is there, and what is left ends within Reach.
JobFits ==
    /\ job.kind = "move" =>
         /\ job.row.node < fs.next_node_id
         /\ job.row.type = "FILE" => job.row.node \in 1 .. MaxNode
         /\ HasKey(fs.nodes, job.row) \/ DataRows(fs, job.row.node) = {}
    /\ job.kind = "data" => job.node \in FilesOf(fs.nodes) /\ job.offset + job.size <= Reach

DInv ==
    /\ RInv
    /\ fs.next_node_id >= 1
    /\ ideal \in Arrays
    /\ mode = "mounted" => Below(fs) /\ Contents(fs, ideal) /\ JobFits
    /\ mode # "mounted" => Contents(saved, ideal)

\* A node id that was not given out has no rows.
LEMMA NewNode ==
    ASSUME NEW m, Sound(m), NEW node, node >= m.next_node_id
    PROVE  DataRows(m, node) = {}
  <1>1. m.next_node_id \in Nat /\ \A b \in Block : m.blocks[b].node \in Nat
    BY DEF Sound, Good, Machine, BlockRow
  <1>2. \A b \in Block : m.blocks[b].op = "DATA" => m.blocks[b].node < m.next_node_id
    BY DEF Sound, MirrorsAll, Mirrors
  <1> QED
    BY <1>1, <1>2 DEF DataRows, Rows

\* A call about names leaves the rows of the files that stay.
LEMMA NameFormFiles ==
    ASSUME NEW m, Sound(m), NEW n, NameForm(m, n), NEW node \in FilesOf(n.nodes)
    PROVE  SameFile(m, n, node)
  <1>1. m \in Machine
    BY DEF Sound, Good
  <1>2. CASE ReturnForm(m, n)
    <2>1. n.blocks = m.blocks
      BY <1>1, <1>2 DEF ReturnForm, Return, Machine
    <2> QED
      BY <2>1, SameBlocksFile
  <1>3. CASE EntryForm(m, n)
    <2>1. PICK f \in Machine, op \in {"NODE", "MOVE"}, row \in NodeRow :
            Fades(m, f) /\ f.blocks = m.blocks /\ n = WriteEntry(f, op, row)
      BY <1>3 DEF EntryForm
    <2>2. Sound(f) /\ row.node \in Nat /\ op \in LogOp \ {"DATA"}
      BY <2>1, FadesSound DEF NodeRow, LogOp
    <2>3. SameFile(f, n, node)
      BY <2>1, <2>2, WriteSame DEF WriteEntry
    <2> QED
      BY <2>1, <2>3, SameBlocksFile, SameTrans
  <1>4. CASE DeleteForm(m, n)
    <2>1. PICK row \in NodeRow : n = WriteEntry(DropNode(m, row.node), "DELETE", row)
      BY <1>4 DEF DeleteForm
    <2> DEFINE f == DropNode(m, row.node)
    <2>2. Sound(f) /\ row.node \in Nat /\ "DELETE" \in LogOp \ {"DATA"}
      BY DropNodeSound DEF NodeRow, LogOp
    <2>3. f.nodes = {x \in m.nodes : x.node # row.node} /\ f \in Machine
      BY <1>1, <2>2 DEF DropNode, Machine, Sound, Good
    <2>4. node # row.node => SameFile(m, f, node)
      BY <1>1, <2>2, DropsFile
    <2> HIDE DEF f
    <2>5. n = Write(f, "DELETE", row.node, 0, 0, row)
      BY <2>1 DEF WriteEntry, f
    <2>6. n.nodes = f.nodes
      BY <2>3, <2>5, WriteNodes
    <2>7. node # row.node
      BY <2>3, <2>6 DEF FilesOf
    <2>8. SameFile(f, n, node)
      BY <2>2, <2>5, WriteSame
    <2> QED
      BY <2>4, <2>7, <2>8, SameTrans
  <1> QED
    BY <1>2, <1>3, <1>4 DEF NameForm

\* After a call about names every file shows its array again; that of a new file,
\* and of one that a rename brings back, is empty.
LEMMA NameContents ==
    ASSUME DInv, mode = "mounted", NameForm(fs, fs'), Grows(fs, fs', Moving),
           ideal' = [n \in DOMAIN ideal |->
                        IF \E x \in fs'.nodes \ fs.nodes : x.node = n /\ n \notin FileIds
                        THEN Empty ELSE ideal[n]]
    PROVE  Contents(fs', ideal') /\ ideal' \in Arrays
  <1>1. /\ Sound(fs) /\ Below(fs) /\ Contents(fs, ideal) /\ JobFits
        /\ fs.next_node_id >= 1 /\ fs.next_node_id \in Nat /\ ideal \in Arrays
        /\ DOMAIN ideal = 1 .. MaxNode
    BY DEF DInv, RInv, SInv, IInv, Good, Machine, Arrays
  <1>2. Empty \in [0 .. Reach - 1 -> Nat] /\ \A p \in 0 .. Reach - 1 : Empty[p] = 0
    BY DEF Empty
  <1>3. ideal' \in Arrays
    BY <1>1, <1>2 DEF Arrays
  <1>4. FileIds = FilesOf(fs.nodes)
    BY DEF FileIds, FilesOf
  <1>5. ASSUME NEW node \in FilesOf(fs'.nodes)
        PROVE  node \in 1 .. MaxNode /\ Shows(fs', node, ideal'[node])
    <2>1. SameFile(fs, fs', node)
      BY <1>1, <1>5, NameFormFiles
    <2>2. PICK x \in fs'.nodes : x.type = "FILE" /\ x.node = node
      BY <1>5 DEF FilesOf
    <2>3. CASE node \in FileIds
      <3>1. node \in 1 .. MaxNode /\ Shows(fs, node, ideal[node])
        BY <1>1, <1>4, <2>3 DEF Contents
      <3>2. ideal'[node] = ideal[node]
        BY <1>1, <2>3, <3>1
      <3> QED
        BY <2>1, <3>1, <3>2, SameShows
    <2>4. CASE node \notin FileIds
      <3>1. x \notin fs.nodes /\ ~ HasKey(fs.nodes, x)
        BY <2>2, <2>4 DEF FileIds, HasKey
      <3>2. node \in 1 .. MaxNode /\ DataRows(fs, node) = {}
        <4>1. CASE x.node = fs.next_node_id /\ fs.next_node_id <= MaxNode
          <5>1. node >= fs.next_node_id
            BY <1>1, <2>2, <4>1
          <5> QED
            BY <1>1, <2>2, <4>1, <5>1, NewNode, BoundsAssumption
        <4>2. CASE HasKey(Moving, x)
          <5>1. job.kind = "move" /\ x.node = job.row.node /\ x.type = job.row.type
            BY <4>2 DEF HasKey, Moving
          <5>2. ~ HasKey(fs.nodes, job.row)
            BY <3>1, <5>1 DEF HasKey
          <5> QED
            BY <1>1, <2>2, <5>1, <5>2 DEF JobFits
        <4> QED
          BY <3>1, <4>1, <4>2 DEF Grows
      <3>3. ideal'[node] = Empty
        BY <1>1, <2>2, <2>4, <3>1, <3>2
      <3>4. DataRows(fs', node) = {}
        BY <2>1, <3>2 DEF SameFile
      <3>5. Shows(fs', node, Empty)
        BY <1>2, <3>4, NoRowsShow
      <3> QED
        BY <3>2, <3>3, <3>5
    <2> QED
      BY <2>3, <2>4
  <1> QED
    BY <1>3, <1>5 DEF Contents

\* A truncation to size 0 empties the array of its file, and no other.
LEMMA CutContents ==
    ASSUME DInv, ZeroSizes, mode = "mounted", NEW node \in FileIds, NEW size \in Sizes,
           DelData(node, size),
           ideal' = [ideal EXCEPT ![node] = [p \in DOMAIN @ |-> IF p < size THEN @[p] ELSE 0]]
    PROVE  Contents(fs', ideal') /\ ideal' \in Arrays
  <1> DEFINE f == DropData(fs, node, 0)
             w == Write(f, "TRUNCATE", node, 0, 0, NoEntry)
             zeros == [p \in DOMAIN ideal[node] |-> 0]
  <1>1. /\ Sound(fs) /\ Contents(fs, ideal) /\ ideal \in Arrays /\ fs \in Machine
        /\ FileIds = FilesOf(fs.nodes) /\ size = 0
    BY DEF DInv, RInv, SInv, IInv, Sound, Good, FileIds, FilesOf, ZeroSizes
  <1>2. node \in Nat /\ node \in 1 .. MaxNode
    BY <1>1 DEF Machine, FileIds, NodeRow, Contents
  <1>3. /\ ideal[node] \in [0 .. Reach - 1 -> Nat] /\ DOMAIN ideal[node] = 0 .. Reach - 1
        /\ DOMAIN ideal = 1 .. MaxNode
    BY <1>1, <1>2 DEF Arrays
  <1>4. zeros \in [0 .. Reach - 1 -> Nat] /\ \A p \in 0 .. Reach - 1 : zeros[p] = 0
    BY <1>3
  <1>5. ideal' = [ideal EXCEPT ![node] = zeros]
    <2>1. \A p \in DOMAIN ideal[node] : (IF p < size THEN ideal[node][p] ELSE 0) = 0
      BY <1>1, <1>3
    <2> QED
      BY <2>1
  <1> HIDE DEF zeros
  <1>6. ideal' \in Arrays
    BY <1>1, <1>4, <1>5 DEF Arrays
  <1>7. fs' = w
    <2>1. \E x \in fs.nodes : x.node = node /\ x.type = "FILE"
      BY DEF FileIds
    <2> QED
      BY <1>1, <2>1 DEF DelData, Truncate
  <1>8. Sound(f) /\ f.nodes = fs.nodes /\ f \in Machine
    <2>1. Sound(f)
      BY <1>1, <1>2, DropDataSound
    <2>2. f.nodes = fs.nodes
      BY <1>1 DEF DropData, Machine
    <2> HIDE DEF f
    <2> QED
      BY <2>1, <2>2 DEF Sound, Good
  <1>9. DataRows(f, node) = {} /\ \A file : file # node => SameFile(fs, f, file)
    BY <1>1, <1>2, DropsFile
  <1> HIDE DEF f
  <1>10. \A file : SameFile(f, w, file)
    <2>1. "TRUNCATE" \in LogOp \ {"DATA"}
      BY DEF LogOp
    <2> QED
      BY <1>2, <1>8, <2>1, WriteSame
  <1>11. w.nodes = fs.nodes
    BY <1>8, WriteNodes
  <1> HIDE DEF w
  <1>12. ASSUME NEW file \in FilesOf(fs'.nodes)
         PROVE  file \in 1 .. MaxNode /\ Shows(fs', file, ideal'[file])
    <2>1. file \in 1 .. MaxNode /\ Shows(fs, file, ideal[file])
      BY <1>1, <1>7, <1>11, <1>12 DEF Contents
    <2>2. CASE file = node
      <3>1. DataRows(fs', node) = {}
        BY <1>7, <1>9, <1>10 DEF SameFile
      <3>2. ideal'[node] = zeros
        BY <1>2, <1>3, <1>5
      <3> QED
        BY <1>4, <2>1, <2>2, <3>1, <3>2, NoRowsShow
    <2>3. CASE file # node
      <3>1. SameFile(fs, fs', file)
        BY <1>7, <1>9, <1>10, <2>3, SameTrans
      <3>2. ideal'[file] = ideal[file]
        BY <1>3, <1>5, <2>1, <2>3
      <3> QED
        BY <2>1, <3>1, <3>2, SameShows
    <2> QED
      BY <2>2, <2>3
  <1> QED
    BY <1>6, <1>12 DEF Contents

\* A block of data that is written is the youngest where it lies.
LEMMA AddShows ==
    ASSUME NEW m, Sound(m), Settled(m), NEW n, NEW node, NEW bytes, Shows(m, node, bytes),
           NEW fill \in 1 .. Payload, NEW offset \in Nat, offset + fill <= Reach,
           NEW b \in Block, m.blocks[b].op # "DATA",
           n.blocks[b] = [op |-> "DATA", seq |-> m.next_seq_id, node |-> node,
                          fill |-> fill, offset |-> offset],
           \A c \in Block : c # b => n.blocks[c] = m.blocks[c],
           NEW later, later = [p \in DOMAIN bytes |->
               IF p \in offset .. offset + fill - 1 THEN m.next_seq_id ELSE bytes[p]]
    PROVE  Shows(n, node, later)
  <1>1. m.next_seq_id \in Nat /\ m.next_seq_id >= 1
        /\ \A c \in Block : m.blocks[c].seq \in Nat
    BY DEF Sound, Good, Machine, BlockRow, Settled, NextFollows
  <1>2. \A c \in Block : m.blocks[c].op = "DATA" => m.blocks[c].seq < m.next_seq_id
    BY DEF Sound, MirrorsAll, Mirrors
  <1>3. DataRows(n, node) = DataRows(m, node) \cup {b} /\ b \notin DataRows(m, node)
        /\ \A c \in DataRows(m, node) : n.blocks[c] = m.blocks[c] /\ c \in Block
    BY DEF DataRows, Rows
  <1>4. /\ n.blocks[b].seq = m.next_seq_id /\ n.blocks[b].fill = fill
        /\ n.blocks[b].offset = offset
    OBVIOUS
  <1>5. ASSUME NEW p \in 0 .. Reach - 1
        PROVE  Covering(n, node, p) = IF p \in offset .. offset + fill - 1
                                      THEN Covering(m, node, p) \cup {b} ELSE Covering(m, node, p)
    <2>1. p \in offset .. offset + fill - 1 <=> offset <= p /\ p < offset + fill
      BY ReachBounds, PayloadAssumption
    <2> QED
      BY <1>3, <1>4, <2>1 DEF Covering
  <1>6. /\ bytes \in [0 .. Reach - 1 -> Nat]
        /\ \A c \in DataRows(m, node) : LET row == m.blocks[c] IN
             row.fill \in 1 .. Payload /\ row.offset + row.fill <= Reach /\ row.seq >= 1
        /\ \A p \in 0 .. Reach - 1 :
             \/ Covering(m, node, p) = {} /\ bytes[p] = 0
             \/ \E c \in Covering(m, node, p) :
                  /\ bytes[p] = m.blocks[c].seq
                  /\ \A d \in Covering(m, node, p) : m.blocks[d].seq <= m.blocks[c].seq
    BY DEF Shows
  <1>7. later \in [0 .. Reach - 1 -> Nat]
    BY <1>1, <1>6
  <1>8. \A c \in DataRows(n, node) : LET row == n.blocks[c] IN
          row.fill \in 1 .. Payload /\ row.offset + row.fill <= Reach /\ row.seq >= 1
    BY <1>1, <1>3, <1>4, <1>6
  <1>9. ASSUME NEW p \in 0 .. Reach - 1
        PROVE  \/ Covering(n, node, p) = {} /\ later[p] = 0
               \/ \E c \in Covering(n, node, p) :
                    /\ later[p] = n.blocks[c].seq
                    /\ \A d \in Covering(n, node, p) : n.blocks[d].seq <= n.blocks[c].seq
    <2>1. \A c \in Covering(m, node, p) : /\ n.blocks[c] = m.blocks[c]
                                          /\ m.blocks[c].seq < m.next_seq_id
                                          /\ m.blocks[c].seq \in Nat
      BY <1>1, <1>2, <1>3 DEF Covering, DataRows, Rows
    <2>2. CASE p \in offset .. offset + fill - 1
      <3>1. Covering(n, node, p) = Covering(m, node, p) \cup {b}
        BY <1>5, <2>2
      <3>2. later[p] = m.next_seq_id
        BY <1>6, <2>2
      <3> QED
        BY <1>1, <1>4, <2>1, <3>1, <3>2
    <2>3. CASE p \notin offset .. offset + fill - 1
      <3>1. Covering(n, node, p) = Covering(m, node, p)
        BY <1>5, <2>3
      <3>2. later[p] = bytes[p]
        BY <1>6, <2>3
      <3>3. CASE Covering(m, node, p) = {} /\ bytes[p] = 0
        BY <3>1, <3>2, <3>3
      <3>4. CASE \E c \in Covering(m, node, p) :
                   /\ bytes[p] = m.blocks[c].seq
                   /\ \A d \in Covering(m, node, p) : m.blocks[d].seq <= m.blocks[c].seq
        <4>1. PICK c \in Covering(m, node, p) :
                     /\ bytes[p] = m.blocks[c].seq
                     /\ \A d \in Covering(m, node, p) : m.blocks[d].seq <= m.blocks[c].seq
          BY <3>4
        <4>2. later[p] = n.blocks[c].seq
          BY <2>1, <3>2, <4>1
        <4>3. ASSUME NEW d \in Covering(m, node, p) PROVE n.blocks[d].seq <= n.blocks[c].seq
          BY <2>1, <4>1
        <4> QED
          BY <3>1, <4>1, <4>2, <4>3
      <3> QED
        BY <1>6, <3>3, <3>4
    <2> QED
      BY <2>2, <2>3
  <1> QED
    BY <1>7, <1>8, <1>9 DEF Shows

\* A block of data that is stored shows in the array of its file, and in no other;
\* one that is refused changes nothing.
LEMMA StoringContents ==
    ASSUME DInv, Storing
    PROVE  Contents(fs', ideal') /\ ideal' \in Arrays /\ JobFits'
  <1> DEFINE amount == IF job.size > Payload THEN Payload ELSE job.size
             w == Write(fs, "DATA", job.node, amount, job.offset, NoEntry)
             wrote == job.offset .. job.offset + amount - 1
             next == [job EXCEPT !.offset = @ + amount, !.size = @ - amount]
             after == [p \in DOMAIN ideal[job.node] |->
                         IF p \in wrote THEN fs.next_seq_id ELSE ideal[job.node][p]]
  <1>1. mode = "mounted" /\ job.kind = "data"
    BY DEF Storing, WriteChunk
  <1>2. /\ Sound(fs) /\ Settled(fs) /\ Contents(fs, ideal) /\ ideal \in Arrays /\ fs \in Machine
        /\ job \in Job /\ fs.next_seq_id \in Nat /\ NoEntry \in NodeRow \cup {NoEntry}
    BY <1>1 DEF DInv, RInv, SInv, IInv, Typed, Sound, Good, Machine
  <1>3. job.node \in FilesOf(fs.nodes) /\ job.offset + job.size <= Reach
    BY <1>1 DEF DInv, JobFits
  <1>4. /\ job.node \in Nat /\ job.offset \in Nat /\ job.size \in Nat \ {0}
        /\ job = [kind |-> "data", node |-> job.node, offset |-> job.offset, size |-> job.size]
    BY <1>1, <1>2, JobType
  <1>5. /\ amount \in 1 .. Payload /\ amount \in Nat /\ amount <= job.size
        /\ job.offset + amount <= Reach
    BY <1>3, <1>4, ReachBounds, PayloadAssumption
  <1>6. Smaller(job.size, Payload) = amount
    BY <1>4, PayloadAssumption DEF Smaller
  <1>7. /\ fs' = w /\ job' = IF fs'.r = "OK" /\ job.size > amount THEN next ELSE NoJob
        /\ ideal' = IF fs'.r # "OK" THEN ideal ELSE [ideal EXCEPT ![job.node] = after]
    <2>1. fs' = w /\ job' = IF fs'.r = "OK" /\ job.size > amount THEN next ELSE NoJob
      BY DEF Storing, WriteChunk
    <2>2. ideal' = IF fs'.r # "OK" THEN ideal
                   ELSE [ideal EXCEPT ![job.node] =
                            [p \in DOMAIN @ |-> IF p \in job.offset .. job.offset + amount - 1
                                                THEN fs.next_seq_id ELSE @[p]]]
      BY <1>6 DEF Storing
    <2> QED
      BY <2>1, <2>2
  <1>8. job.node \in 1 .. MaxNode /\ Shows(fs, job.node, ideal[job.node])
    BY <1>2, <1>3 DEF Contents
  <1>9. ideal[job.node] \in [0 .. Reach - 1 -> Nat] /\ after \in [0 .. Reach - 1 -> Nat]
    BY <1>2, <1>8 DEF Arrays
  <1>10. ideal' \in Arrays
    <2> HIDE DEF after
    <2> QED
      BY <1>2, <1>7, <1>9 DEF Arrays
  <1>11. w.nodes = fs.nodes
    BY <1>2, WriteNodes
  <1>12. JobFits'
    <2>1. next.kind = "data" /\ next.node = job.node /\ next.offset + next.size = job.offset + job.size
      BY <1>4, <1>5
    <2>2. job'.kind = "move" => FALSE
      BY <1>7, <2>1 DEF NoJob
    <2>3. job'.kind = "data" => job' = next
      BY <1>7 DEF NoJob
    <2> HIDE DEF w, next
    <2> QED
      BY <1>3, <1>7, <1>11, <2>1, <2>2, <2>3 DEF JobFits
  <1>13. Contents(fs', ideal')
    <2> HIDE DEF amount
    <2>0. w = Write(fs, "DATA", job.node, amount, job.offset, NoEntry) /\ "DATA" \in LogOp
      BY DEF LogOp
    <2> HIDE DEF w
    <2>1. \/ w.blocks = fs.blocks /\ w.r = "ENOSPC"
          \/ \E b \in Block :
               /\ fs.blocks[b].op # "DATA"
               /\ w.blocks[b] = [op |-> "DATA", seq |-> fs.next_seq_id, node |-> job.node,
                                 fill |-> amount, offset |-> job.offset]
               /\ \A c \in Block : c # b => w.blocks[c] = fs.blocks[c]
               /\ w.r = "OK"
      BY <1>2, <1>4, <1>5, <2>0, WriteRow
    <2>2. CASE w.blocks = fs.blocks /\ w.r = "ENOSPC"
      <3>1. ideal' = ideal
        BY <1>7, <2>2
      <3> QED
        BY <1>2, <1>7, <1>11, <2>2, <3>1, SameBlocksFile, SameShows DEF Contents
    <2>3. CASE \E b \in Block :
               /\ fs.blocks[b].op # "DATA"
               /\ w.blocks[b] = [op |-> "DATA", seq |-> fs.next_seq_id, node |-> job.node,
                                 fill |-> amount, offset |-> job.offset]
               /\ \A c \in Block : c # b => w.blocks[c] = fs.blocks[c]
               /\ w.r = "OK"
      <3>1. PICK b \in Block :
               /\ fs.blocks[b].op # "DATA"
               /\ w.blocks[b] = [op |-> "DATA", seq |-> fs.next_seq_id, node |-> job.node,
                                 fill |-> amount, offset |-> job.offset]
               /\ \A c \in Block : c # b => w.blocks[c] = fs.blocks[c]
               /\ w.r = "OK"
        BY <2>3
      <3>2. ideal' = [ideal EXCEPT ![job.node] = after]
        BY <1>7, <3>1
      <3>3. Shows(w, job.node, after)
        <4> DEFINE node == job.node
                   offset == job.offset
                   bytes == ideal[job.node]
        <4>1. after = [p \in DOMAIN bytes |->
                         IF p \in offset .. offset + amount - 1 THEN fs.next_seq_id ELSE bytes[p]]
          OBVIOUS
        <4>2. /\ Shows(fs, node, bytes) /\ offset \in Nat /\ offset + amount <= Reach
              /\ w.blocks[b] = [op |-> "DATA", seq |-> fs.next_seq_id, node |-> node,
                                fill |-> amount, offset |-> offset]
          BY <1>4, <1>5, <1>8, <3>1
        <4> HIDE DEF after, node, offset, bytes
        <4>3. Shows(w, node, after)
          BY <1>2, <1>5, <3>1, <4>1, <4>2, AddShows
        <4> QED
          BY <4>3 DEF node
      <3> HIDE DEF after
      <3>4. ASSUME NEW file \in FilesOf(fs.nodes)
            PROVE  file \in 1 .. MaxNode /\ Shows(w, file, ideal'[file])
        <4>1. file \in 1 .. MaxNode /\ Shows(fs, file, ideal[file])
          BY <1>2 DEF Contents
        <4>2. CASE file = job.node
          <5>1. ideal'[file] = after
            BY <1>2, <1>8, <3>2, <4>2 DEF Arrays
          <5> QED
            BY <3>3, <4>1, <4>2, <5>1
        <4>3. CASE file # job.node
          <5>1. ideal'[file] = ideal[file]
            BY <1>2, <3>2, <4>1, <4>3 DEF Arrays
          <5>2. SameFile(fs, w, file)
            BY <3>1, <4>3 DEF SameFile, DataRows, Rows
          <5> QED
            BY <4>1, <5>1, <5>2, SameShows
        <4> QED
          BY <4>2, <4>3
      <3> QED
        BY <1>7, <1>11, <3>4 DEF Contents
    <2> QED
      BY <2>1, <2>2, <2>3
  <1> QED
    BY <1>10, <1>12, <1>13

\* What a rename has yet to move: its row is there, unless it was deleted as the
\* file in the way of itself, and then its data is gone too.
LEMMA MoveJobFits ==
    ASSUME DInv, NEW from \in Paths, NEW to \in Paths, MoveNode(from, to)
    PROVE  JobFits'
  <1> DEFINE src == Resolve(fs.nodes, from)
             dir == Resolve(fs.nodes, Dirname(to))
             at == Resolve(fs.nodes, to)
             row == [src.row EXCEPT !.parent = dir.row.node, !.name = Basename(to)]
             node == src.row.node
             f == DropNode(fs, at.row.node)
  <1>1. /\ mode = "mounted" /\ mode' = "mounted" /\ job = NoJob
        /\ IInv /\ Sound(fs) /\ Below(fs) /\ Contents(fs, ideal)
    BY DEF DInv, RInv, SInv, IInv, MoveNode, Begin
  <1>2. fs \in Machine /\ fs.nodes \in SUBSET NodeRow
    BY <1>1 DEF Sound, Good, Machine
  <1>3. \/ job' = NoJob
        \/ /\ src.r = "OK" /\ fs' = Delete(fs, to) /\ fs'.r = "OK"
           /\ job' = [kind |-> "move", row |-> row]
    BY <1>1 DEF MoveNode
  <1>4. CASE job' = NoJob
    BY <1>4 DEF JobFits, NoJob
  <1>5. CASE /\ src.r = "OK" /\ fs' = Delete(fs, to) /\ fs'.r = "OK"
             /\ job' = [kind |-> "move", row |-> row]
    <2>1. src.row \in fs.nodes /\ src.row \in NodeRow
      BY <1>2, <1>5, PathType
    <2>2. row.node = node /\ row.type = src.row.type
      BY <2>1 DEF NodeRow
    <2>3. at.r = "OK" => at.row \in NodeRow /\ at.row.node \in Nat
      BY <1>2, PathType DEF NodeRow
    <2>4. \/ \E r : fs' = Return(fs, r)
          \/ at.r = "OK" /\ fs' = WriteEntry(f, "DELETE", at.row)
      BY <1>5 DEF Delete
    <2>5. node < fs'.next_node_id
      <3>1. fs'.next_node_id >= fs.next_node_id
        <4>1. Grows(fs, fs', {})
          BY <1>1, <1>5, DeleteGrows DEF Sound
        <4> QED
          BY <4>1 DEF Grows
      <3>2. node < fs.next_node_id /\ node \in Nat /\ fs.next_node_id \in Nat
        BY <1>1, <1>2, <2>1 DEF Below, Machine, NodeRow
      <3>3. fs'.next_node_id \in Nat
        <4>1. Sound(fs')
          BY <1>1, <1>5, DeleteCallForm, FormSound DEF Form, Sound, Good
        <4> QED
          BY <4>1 DEF Sound, Good, Machine
      <3> QED
        BY <3>1, <3>2, <3>3
    <2>6. src.row.type = "FILE" => node \in 1 .. MaxNode
      <3>1. src.row.type = "FILE" => node \in FilesOf(fs.nodes)
        BY <2>1 DEF FilesOf
      <3> QED
        BY <1>1, <3>1 DEF Contents
    <2>7. HasKey(fs'.nodes, row) \/ DataRows(fs', node) = {}
      <3>1. CASE \E r : fs' = Return(fs, r)
        <4>1. fs'.nodes = fs.nodes
          BY <1>2, <3>1 DEF Return, Machine
        <4> QED
          BY <2>1, <2>2, <4>1 DEF HasKey
      <3>2. CASE at.r = "OK" /\ fs' = WriteEntry(f, "DELETE", at.row)
        <4>1. f.nodes = {x \in fs.nodes : x.node # at.row.node}
          BY <1>2 DEF DropNode, Machine
        <4>2. Sound(f) /\ f \in Machine
          <5>1. Sound(f)
            BY <1>1, <2>3, <3>2, DropNodeSound
          <5> HIDE DEF f
          <5> QED
            BY <5>1 DEF Sound, Good
        <4>3. at.row.node = node => DataRows(f, node) = {}
          BY <1>2, <2>3, <3>2, DropsFile
        <4> HIDE DEF f, row, node
        <4>4. fs' = Write(f, "DELETE", at.row.node, 0, 0, at.row) /\ "DELETE" \in LogOp \ {"DATA"}
          BY <3>2 DEF WriteEntry, LogOp
        <4>5. SameFile(f, fs', node) /\ fs'.nodes = f.nodes
          BY <2>3, <3>2, <4>2, <4>4, WriteSame, WriteNodes
        <4>6. CASE at.row.node = node
          BY <4>3, <4>5, <4>6 DEF SameFile
        <4>7. CASE at.row.node # node
          <5>1. src.row \in fs'.nodes
            BY <2>1, <4>1, <4>5, <4>7 DEF node
          <5> QED
            BY <2>2, <5>1 DEF HasKey, node
        <4> QED
          BY <4>6, <4>7
      <3> QED
        BY <2>4, <3>1, <3>2
    <2> HIDE DEF row, src, node
    <2> QED
      BY <1>5, <2>2, <2>5, <2>6, <2>7 DEF JobFits
  <1> QED
    BY <1>3, <1>4, <1>5

\* A write is within Reach, and no other call leaves data to be written.
LEMMA CallJobFits ==
    ASSUME DInv, mode = "mounted", DataNext, ~ Storing, mode' = "mounted"
    PROVE  JobFits'
  <1>1. ASSUME job' = NoJob PROVE JobFits'
    BY <1>1 DEF JobFits, NoJob
  <1>2. ASSUME NEW path \in Paths,
               SetFile(path) \/ SetDir(path) \/ SetTime(path) \/ DelNode(path)
        PROVE  JobFits'
    BY <1>1, <1>2 DEF SetFile, SetDir, SetTime, DelNode, Begin
  <1>3. ASSUME NEW path \in Paths, NEW target \in Names, SetLink(path, target)
        PROVE  JobFits'
    <2>1. job' = NoJob \/ job'.kind = "link"
      BY <1>3 DEF SetLink, Begin
    <2> QED
      BY <1>1, <2>1 DEF JobFits
  <1>4. ASSUME NEW node \in FileIds, NEW size \in Sizes, DelData(node, size)
        PROVE  JobFits'
    BY <1>1, <1>4 DEF DelData, Begin
  <1>5. ASSUME NEW node \in FileIds, NEW x \in Extents, SetData(node, x[1], x[2])
        PROVE  JobFits'
    <2>1. job' = [kind |-> "data", node |-> node, offset |-> x[1], size |-> x[2]] /\ fs' = fs
      BY <1>5 DEF SetData
    <2>2. x[1] + x[2] <= Reach
      BY ReachBounds
    <2>3. node \in FilesOf(fs.nodes)
      BY DEF FileIds, FilesOf
    <2> QED
      BY <2>1, <2>2, <2>3 DEF JobFits
  <1>6. ASSUME Stop \/ Mount \/ Load
        PROVE  FALSE
    BY <1>6 DEF Stop, Mount, Load, Mounted, LoadRecord
  <1>7. CASE Namespace
    BY <1>1, <1>2, <1>3, <1>7, MoveJobFits DEF Namespace, FinishLink, FinishMove
  <1> QED
    BY <1>4, <1>5, <1>6, <1>7 DEF DataNext, Cutting, Others

-----------------------------------------------------------------------------
(* The invariant. *)

\* The contents are an observer: the steps are those of OnceFSRecovery.
LEMMA DataStep ==
    ASSUME [DataNext]_dvars
    PROVE  [RecNext]_rvars /\ [Next]_vars
  <1>1. CASE DataNext
    <2>1. Saves
      BY <1>1 DEF DataNext
    <2>2. Namespace => Next
      BY DEF Namespace, Next, Call, Finish
    <2>3. Cutting => Next
      BY DEF Cutting, Next, Call
    <2>4. Storing => Next
      BY DEF Storing, Next, Finish
    <2>5. Others => Next
      BY DEF Others, Next, Call
    <2> QED
      BY <1>1, <2>1, <2>2, <2>3, <2>4, <2>5 DEF DataNext, RecNext
  <1>2. CASE UNCHANGED dvars
    BY <1>2 DEF dvars, rvars, vars
  <1> QED
    BY <1>1, <1>2

\* The counter of node ids stays above the ids of the table.
LEMMA StepBelow ==
    ASSUME DInv, [Next]_vars, mode = "mounted", mode' = "mounted"
    PROVE  Below(fs') /\ fs'.next_node_id >= 1
  <1>1. IInv /\ IInv'
    BY StepIInv DEF DInv, RInv, SInv
  <1>2. /\ fs.next_node_id \in Nat /\ fs'.next_node_id \in Nat /\ fs.next_node_id >= 1
        /\ \A x \in fs.nodes : x.node \in Nat
        /\ \A x \in fs'.nodes : x.node \in Nat
    BY <1>1 DEF IInv, Good, Machine, NodeRow, DInv
  <1>3. Grows(fs, fs', Moving)
    BY <1>1, StepGrows
  <1>4. Below(fs) /\ JobFits
    BY DEF DInv
  <1>5. ASSUME NEW x \in fs'.nodes
        PROVE  x.node < fs'.next_node_id
    <2>1. CASE HasKey(fs.nodes, x)
      BY <1>2, <1>3, <1>4, <2>1 DEF HasKey, Below, Grows
    <2>2. CASE x.node = fs.next_node_id /\ fs'.next_node_id > fs.next_node_id
      BY <1>2, <2>2
    <2>3. CASE HasKey(Moving, x)
      <3>1. x.node < fs.next_node_id
        BY <1>4, <2>3 DEF HasKey, Moving, JobFits
      <3> QED
        BY <1>2, <1>3, <3>1 DEF Grows
    <2> QED
      BY <1>3, <2>1, <2>2, <2>3 DEF Grows
  <1> QED
    BY <1>2, <1>3, <1>5 DEF Below, Grows

\* Every step of a mounted process that stays mounted keeps the contents.
LEMMA MountedDInv ==
    ASSUME DInv, ZeroSizes, DataNext, mode = "mounted", mode' = "mounted"
    PROVE  DInv'
  <1>1. [RecNext]_rvars /\ [Next]_vars /\ DataNext
    BY DataStep
  <1>2. RInv' /\ Below(fs') /\ fs'.next_node_id >= 1
    BY <1>1, StepRInv, StepBelow DEF DInv
  <1>3. IInv /\ Grows(fs, fs', Moving)
    BY <1>1, StepGrows DEF DInv, RInv, SInv
  <1>4. Contents(fs', ideal') /\ ideal' \in Arrays
    <2>1. CASE Namespace
      <3>1. NameForm(fs, fs')
        <4>1. ASSUME NEW path \in Paths,
                     SetFile(path) \/ SetDir(path) \/ SetTime(path) \/ DelNode(path)
              PROVE  NameForm(fs, fs')
          BY <1>3, <4>1, NameCallForm DEF IInv
        <4>2. ASSUME NEW path \in Paths, NEW target \in Names, SetLink(path, target)
              PROVE  NameForm(fs, fs')
          BY <1>3, <4>2, SetLinkForm DEF IInv, NameForm
        <4>3. ASSUME NEW from \in Paths, NEW to \in Paths, MoveNode(from, to)
              PROVE  NameForm(fs, fs')
          BY <1>3, <4>3, MoveNodeForm DEF IInv
        <4>4. CASE FinishLink \/ FinishMove
          BY <1>3, <4>4, FinishForm DEF Finish, IInv
        <4> QED
          BY <2>1, <4>1, <4>2, <4>3, <4>4 DEF Namespace
      <3>2. ideal' = [n \in DOMAIN ideal |->
                         IF \E x \in fs'.nodes \ fs.nodes : x.node = n /\ n \notin FileIds
                         THEN Empty ELSE ideal[n]]
        BY <2>1 DEF Namespace
      <3> QED
        BY <1>3, <3>1, <3>2, NameContents
    <2>2. CASE Cutting
      BY <2>2, CutContents DEF Cutting
    <2>3. CASE Storing
      BY <2>3, StoringContents
    <2>4. CASE Others
      <3>1. fs' = fs /\ ideal' = ideal
        BY <2>4 DEF Others, SetData, Stop, Mount, Load, LoadRecord, Mounted
      <3> QED
        BY <3>1 DEF DInv
    <2> QED
      BY <1>1, <2>1, <2>2, <2>3, <2>4 DEF DataNext
  <1>5. JobFits'
    BY <1>1, StoringContents, CallJobFits
  <1> QED
    BY <1>2, <1>4, <1>5 DEF DInv

\* Contents show in the node table and the block table.
LEMMA SameContents ==
    ASSUME NEW m, NEW n, NEW bytes, Contents(m, bytes),
           FilesOf(n.nodes) \subseteq FilesOf(m.nodes), n.blocks = m.blocks
    PROVE  Contents(n, bytes)
  BY SameBlocksFile, SameShows DEF Contents

\* The replay of a record never lowers the counter of node ids.
LEMMA ReplayIds ==
    ASSUME NEW m, NEW left, Replaying(m, left), NEW b \in left
    PROVE  Replay(m, b).next_node_id >= m.next_node_id
  <1> DEFINE rec == m.disk[b]
             done == Effect(m, rec)
  <1>1. /\ m \in Machine /\ rec \in DiskRecord /\ rec.op \in LogOp
        /\ rec.op \in EntryOp => rec.entry \in NodeRow
    BY DEF Replaying, Good, DiskSound, Valid, DiskRecord
  <1>2. rec.node \in Nat /\ m.next_node_id \in Nat
    BY <1>1 DEF DiskRecord, Machine
  <1>3. Fades(m, done)
    BY <1>1, EffectFades
  <1>4. Replay(m, b) = IF done.r # "OK" THEN done
        ELSE [done EXCEPT
                  !.blocks[b] = [op |-> rec.op, seq |-> rec.seq, node |-> rec.node,
                                 fill |-> rec.fill, offset |-> rec.offset],
                  !.next_node_id = Larger(@, rec.node + 1),
                  !.next_block_id = Larger(@, b + 1),
                  !.next_seq_id = rec.seq + 1]
    BY DEF Replay
  <1> HIDE DEF done
  <1>5. done \in Machine /\ done.next_node_id \in Nat /\ done.next_node_id >= m.next_node_id
    BY <1>3 DEF Fades, Machine
  <1>6. Replay(m, b).next_node_id \in {done.next_node_id, Larger(done.next_node_id, rec.node + 1)}
    BY <1>4, <1>5 DEF Machine
  <1> QED
    BY <1>2, <1>5, <1>6 DEF Larger

\* The mounted machine shows what the process before it held.
LEMMA RemountDInv ==
    ASSUME DInv, ZeroSizes, [Next]_vars, Remounted, job' = job
    PROVE  /\ Below(fs') /\ Contents(fs', ideal) /\ JobFits'
           /\ fs'.next_node_id >= 1
  <1>1. /\ fs' = fs /\ Remains /\ Contents(saved, ideal)
        /\ Sound(fs) /\ Settled(fs) /\ Recoverable(fs) /\ Youngest(fs)
        /\ IInv /\ mode = "loading"
    BY RemountAgrees DEF DInv, RInv, SInv, Remounted
  <1>2. fs.blocks = saved.blocks /\ Keys(fs.nodes) \subseteq Keys(saved.nodes)
    BY <1>1, MountRecovers DEF Remains
  <1>3. FilesOf(fs.nodes) \subseteq FilesOf(saved.nodes)
    <2>1. ASSUME NEW x \in fs.nodes, x.type = "FILE"
          PROVE  x.node \in FilesOf(saved.nodes)
      <3>1. PICK y \in saved.nodes : <<x.node, x.type>> = <<y.node, y.type>>
        <4>1. <<x.node, x.type>> \in Keys(fs.nodes)
          BY DEF Keys
        <4>2. <<x.node, x.type>> \in Keys(saved.nodes)
          BY <1>2, <4>1
        <4> QED
          BY <4>2 DEF Keys
      <3> QED
        BY <2>1, <3>1 DEF FilesOf
    <2> QED
      BY <2>1 DEF FilesOf
  <1>4. Contents(fs, ideal)
    BY <1>1, <1>2, <1>3, SameContents
  <1>5. Below(fs)
    <2>1. ASSUME NEW x \in fs.nodes
          PROVE  x.node < fs.next_node_id
      <3>1. PICK b \in Carriers(fs, x) : fs.disk[b].entry = x
        BY <1>1 DEF Youngest
      <3>2. b \in Block /\ fs.blocks[b].op \in {"NODE", "MOVE"}
        BY <3>1 DEF Carriers
      <3>3. fs.disk[b].op = fs.blocks[b].op /\ fs.disk[b].node = fs.blocks[b].node
            /\ fs.blocks[b].node < fs.next_node_id
        BY <1>1, <3>2 DEF Sound, MirrorsAll, Mirrors
      <3>4. fs.disk[b].entry.node = fs.disk[b].node
        BY <1>1, <3>2, <3>3 DEF Sound, DiskSound, EntryOp
      <3> QED
        BY <3>1, <3>3, <3>4
    <2> QED
      BY <2>1 DEF Below
  <1>6. job' = NoJob
    BY <1>1 DEF IInv, Typed
  <1> QED
    BY <1>1, <1>4, <1>5, <1>6 DEF JobFits, NoJob, DInv

\* So do the steps of a mount, and the end of a process.
LEMMA ProcessDInv ==
    ASSUME DInv, ZeroSizes, DataNext, mode # "mounted" \/ mode' # "mounted"
    PROVE  DInv'
  <1>1. [RecNext]_rvars /\ [Next]_vars /\ RInv' /\ Saves
    BY DataStep, StepRInv DEF DInv, DataNext
  <1>2. IInv /\ fs.next_node_id >= 1 /\ ideal \in Arrays
    BY DEF DInv, RInv, SInv
  <1>3. ideal' = ideal /\ (Stop \/ Mount \/ Load)
    <2>1. ~ Namespace
      BY DEF Namespace, SetFile, SetDir, SetTime, DelNode, SetLink, MoveNode, FinishLink,
             FinishMove, Begin
    <2>2. ~ Cutting
      BY DEF Cutting, DelData, Begin
    <2>3. ~ Storing
      BY DEF Storing, WriteChunk
    <2>4. \A node \in FileIds, x \in Extents : ~ SetData(node, x[1], x[2])
      BY DEF SetData, Begin
    <2> QED
      BY <2>1, <2>2, <2>3, <2>4 DEF DataNext, Others
  <1>4. CASE Stop
    <2>1. fs' = Fresh(fs.disk) /\ mode' = "down"
      BY <1>4 DEF Stop
    <2>2. fs'.next_node_id >= 1
      BY <2>1 DEF Fresh
    <2>3. Contents(saved', ideal)
      <3>1. CASE mode = "mounted"
        <4>1. saved' = Return(fs, "OK") /\ Contents(fs, ideal) /\ fs \in Machine
          BY <1>1, <1>2, <2>1, <3>1 DEF Saves, DInv, IInv, Good
        <4>2. saved'.nodes = fs.nodes /\ saved'.blocks = fs.blocks
          BY <4>1 DEF Return, Machine
        <4> QED
          BY <4>1, <4>2, SameContents
      <3>2. CASE mode # "mounted"
        BY <1>1, <2>1, <3>2 DEF Saves, Remounted, DInv
      <3> QED
        BY <3>1, <3>2
    <2> QED
      BY <1>1, <1>2, <1>3, <2>1, <2>2, <2>3 DEF DInv
  <1>5. CASE Mount
    <2>1. mode = "down" /\ mode' = "loading" /\ fs' = fs
      BY <1>5 DEF Mount
    <2>2. saved' = saved
      BY <1>1, <2>1 DEF Saves, Remounted
    <2> QED
      BY <1>1, <1>2, <1>3, <2>1, <2>2 DEF DInv
  <1>6. CASE Load
    <2>1. CASE Mounted
      <3>1. mode' = "mounted" /\ Remounted /\ job' = job
        BY <2>1 DEF Mounted, Remounted
      <3>2. Below(fs') /\ Contents(fs', ideal) /\ JobFits' /\ fs'.next_node_id >= 1
        BY <1>1, <3>1, RemountDInv
      <3> QED
        BY <1>1, <1>2, <1>3, <3>1, <3>2 DEF DInv
    <2>2. ASSUME NEW b \in Block, LoadRecord(b)
          PROVE  DInv'
      <3>1. mode = "loading" /\ mode' \in {"loading", "failed"} /\ fs' = Replay(fs, b) /\ b \in todo
        BY <2>2 DEF LoadRecord
      <3>2. saved' = saved
        BY <1>1, <3>1 DEF Saves, Remounted
      <3>3. fs'.next_node_id >= fs.next_node_id
        BY <1>2, <3>1, ReplayIds DEF IInv
      <3>4. fs'.next_node_id \in Nat /\ fs.next_node_id \in Nat
        BY <1>1, <1>2 DEF RInv, SInv, IInv, Good, Machine
      <3> QED
        BY <1>1, <1>2, <1>3, <3>1, <3>2, <3>3, <3>4 DEF DInv
    <2> QED
      BY <1>6, <2>1, <2>2 DEF Load
  <1> QED
    BY <1>3, <1>4, <1>5, <1>6

LEMMA InitDInv == DataInit => DInv
  <1> SUFFICES ASSUME DataInit PROVE DInv
    OBVIOUS
  <1>1. RInv /\ fs.nodes = {} /\ fs.next_node_id = 1 /\ mode = "mounted" /\ job = NoJob
    BY InitRInv DEF DataInit, RecInit, Init, Fresh
  <1>2. Empty \in [0 .. Reach - 1 -> Nat]
    BY DEF Empty
  <1>3. ideal \in Arrays
    BY <1>2 DEF DataInit, Arrays
  <1> QED
    BY <1>1, <1>3 DEF DInv, Below, Contents, FilesOf, JobFits, NoJob

\* Every step keeps the invariant.
LEMMA StepDInv == ASSUME ZeroSizes PROVE DInv /\ [DataNext]_dvars => DInv'
  <1> SUFFICES ASSUME DInv, [DataNext]_dvars PROVE DInv'
    OBVIOUS
  <1>1. CASE DataNext
    BY <1>1, MountedDInv, ProcessDInv
  <1>2. CASE UNCHANGED dvars
    <2>1. RInv'
      BY DataStep, StepRInv DEF DInv
    <2>2. fs' = fs /\ mode' = mode /\ job' = job /\ saved' = saved /\ ideal' = ideal
      BY <1>2 DEF dvars
    <2> QED
      BY <2>1, <2>2 DEF DInv, JobFits
  <1> QED
    BY <1>1, <1>2

\* For every container, every set of files and extents and every history of calls,
\* crashes and mounts, with truncations to size 0: the rows of every file of a
\* mounted process, and of what a process left behind, amount to the bytes that
\* were written to it.
THEOREM DataInvariant == ASSUME ZeroSizes PROVE DataSpec => []DInv
  <1>1. DataInit => DInv
    BY InitDInv
  <1>2. DInv /\ [DataNext]_dvars => DInv'
    BY StepDInv
  <1> QED
    BY <1>1, <1>2, PTL DEF DataSpec

-----------------------------------------------------------------------------
(* The size of a file. *)

\* A position holds a byte when a row holds it, and then that of the youngest.
LEMMA HeldYoungest ==
    ASSUME NEW m, NEW node, NEW bytes, Shows(m, node, bytes), NEW p \in 0 .. Reach - 1
    PROVE  /\ bytes[p] # 0 <=> Covering(m, node, p) # {}
           /\ Covering(m, node, p) # {} =>
                \E b \in Covering(m, node, p) :
                  /\ bytes[p] = m.blocks[b].seq
                  /\ \A c \in Covering(m, node, p) : m.blocks[c].seq <= m.blocks[b].seq
  <1>1. \A b \in Covering(m, node, p) : m.blocks[b].seq >= 1
    BY DEF Shows, Covering
  <1>2. \/ Covering(m, node, p) = {} /\ bytes[p] = 0
        \/ \E b \in Covering(m, node, p) :
             /\ bytes[p] = m.blocks[b].seq
             /\ \A c \in Covering(m, node, p) : m.blocks[c].seq <= m.blocks[b].seq
    BY DEF Shows
  <1> QED
    BY <1>1, <1>2

\* What the contents say of one file, in the terms of the model.
LEMMA FileShows ==
    ASSUME DInv, mode = "mounted", NEW node \in FileIds
    PROVE  /\ Sound(fs) /\ Shows(fs, node, ideal[node])
           /\ DOMAIN ideal[node] = 0 .. Reach - 1
           /\ Stored(node) = {p \in 0 .. Reach - 1 : Covering(fs, node, p) # {}}
  <1>1. Sound(fs) /\ Shows(fs, node, ideal[node])
    BY DEF DInv, RInv, SInv, IInv, Contents, FileIds, FilesOf
  <1>2. DOMAIN ideal[node] = 0 .. Reach - 1
    BY <1>1 DEF Shows
  <1> QED
    BY <1>1, <1>2, HeldYoungest DEF Stored

\* The size that oncefs_get_node reports never promises more than was written,
\* after any history of writes, truncations to 0, crashes and mounts.
THEOREM SizeHonest == ASSUME ZeroSizes PROVE DataSpec => []SizeWithin
  <1>1. DInv => SizeWithin
    <2> SUFFICES ASSUME DInv, mode = "mounted", NEW node \in FileIds, GetSize(fs, node) > 0
                 PROVE  GetSize(fs, node) - 1 \in Stored(node)
      BY DEF SizeWithin
    <2> DEFINE last == {b \in DataRows(fs, node) : \A c \in DataRows(fs, node) : Before(fs, c, b)}
               b == CHOOSE x \in last : TRUE
               row == fs.blocks[b]
               p == row.offset + row.fill - 1
    <2>1. last # {} /\ GetSize(fs, node) = row.offset + row.fill
      BY DEF GetSize
    <2>2. b \in DataRows(fs, node)
      BY <2>1
    <2>3. row.offset \in Nat
      <3>1. b \in Block /\ fs.blocks \in [Block -> BlockRow]
        BY <2>2, FileShows DEF DataRows, Rows, Sound, Good, Machine
      <3> QED
        BY <3>1 DEF BlockRow
    <2>4. row.fill \in 1 .. Payload /\ row.offset + row.fill <= Reach
      BY <2>2, FileShows DEF Shows
    <2> HIDE DEF b, last
    <2>5. p \in 0 .. Reach - 1 /\ p < row.offset + row.fill /\ row.offset <= p
          /\ row.offset + row.fill - 1 = p
      BY <2>3, <2>4, ReachBounds, PayloadAssumption
    <2>6. b \in Covering(fs, node, p)
      BY <2>2, <2>5 DEF Covering
    <2>7. Stored(node) = {q \in 0 .. Reach - 1 : Covering(fs, node, q) # {}}
      BY FileShows
    <2> HIDE DEF p
    <2>8. p \in Stored(node)
      BY <2>5, <2>6, <2>7
    <2>9. GetSize(fs, node) - 1 = p
      BY <2>1, <2>3, <2>4, <2>5, PayloadAssumption
    <2> QED
      BY <2>8, <2>9
  <1> QED
    BY <1>1, DataInvariant, PTL

-----------------------------------------------------------------------------
(* One read of a block's worth. *)

\* The positions of a file that hold a byte.
Filled(m, node) == {p \in 0 .. Reach - 1 : Covering(m, node, p) # {}}

\* The greatest element of a bounded set.
LEMMA MaxBounded ==
    ASSUME NEW K \in Nat, NEW S, S \subseteq 1 .. K, S # {}
    PROVE  Max(S) \in S /\ Max(S) \in 1 .. K
  <1> DEFINE T == {K - x : x \in S}
  <1>1. T \subseteq Nat /\ T # {}
    <2>1. \A y \in S : K - y \in Nat
      OBVIOUS
    <2>2. T \subseteq Nat
      BY <2>1
    <2>3. PICK y \in S : TRUE
      OBVIOUS
    <2>4. K - y \in T
      OBVIOUS
    <2> QED
      BY <2>2, <2>4
  <1>2. PICK z \in T : \A y \in T : z <= y
    <2> HIDE DEF T
    <2> QED
      BY <1>1, NatMin
  <1>3. PICK k \in S : z = K - k
    BY <1>2
  <1>4. ASSUME NEW y \in S
        PROVE  y <= k
    <2>1. K - y \in T /\ z <= K - y
      BY <1>2
    <2>2. y \in 1 .. K /\ k \in 1 .. K
      OBVIOUS
    <2> QED
      BY <1>3, <2>1, <2>2
  <1>5. Max(S) = k
    <2>1. S \subseteq Nat
      OBVIOUS
    <2> HIDE DEF T
    <2> QED
      BY <1>4, <2>1, MaxIs
  <1> QED
    BY <1>3, <1>5

\* The bytes that a row holds of those asked for, and what it claims to be their
\* count: up to the last of them from the start of the row.
LEMMA OverlapIs ==
    ASSUME NEW row, row.offset \in Nat, row.fill \in Nat, NEW size \in Nat, NEW offset \in Nat
    PROVE  /\ Overlap(row, size, offset) =
                {p \in offset .. offset + size - 1 : row.offset <= p /\ p < row.offset + row.fill}
           /\ Overlap(row, size, offset) # {} => Claim(row, size, offset) \in 1 .. row.fill
  <1> DEFINE from == Larger(row.offset, offset)
             end == Smaller(row.offset + row.fill, offset + size)
             skip == IF row.offset < offset THEN offset - row.offset ELSE 0
  <1>1. from \in Nat /\ end \in Nat
    BY DEF Larger, Smaller
  <1>2. /\ from = IF row.offset > offset THEN row.offset ELSE offset
        /\ end = IF row.offset + row.fill < offset + size THEN row.offset + row.fill
                 ELSE offset + size
    BY DEF Larger, Smaller
  <1>3. Overlap(row, size, offset) = from .. end - 1
    BY DEF Overlap
  <1>4. Claim(row, size, offset) = skip + Cardinality(from .. end - 1)
    BY <1>3 DEF Claim
  <1> HIDE DEF from, end
  <1>5. from .. end - 1 =
          {p \in offset .. offset + size - 1 : row.offset <= p /\ p < row.offset + row.fill}
    BY <1>1, <1>2
  <1>6. ASSUME from .. end - 1 # {}
        PROVE  Claim(row, size, offset) \in 1 .. row.fill
    <2>1. from <= end - 1 /\ from <= end
      BY <1>1, <1>6
    <2>2. Cardinality(from .. end - 1) = end - from
      BY <1>1, <2>1, IntervalCardinality
    <2>3. skip + (end - from) \in 1 .. row.fill
      BY <1>1, <1>2, <2>1
    <2> QED
      BY <1>4, <2>2, <2>3
  <1> QED
    BY <1>3, <1>5, <1>6

\* One read of at most a block delivers every byte asked for that the file holds,
\* and counts at least one if there is any, at most a block.
LEMMA ChunkReads ==
    ASSUME NEW m, Sound(m), NEW node, NEW bytes, Shows(m, node, bytes),
           NEW offset \in Nat, NEW size \in 1 .. Payload, offset + size <= Reach
    PROVE  LET chunk == ReadChunk(m, node, size, offset)
               there == Filled(m, node) \cap (offset .. offset + size - 1)
           IN  /\ chunk.bytes = [p \in there |-> bytes[p]]
               /\ chunk.fill \in 0 .. Payload
               /\ chunk.fill = 0 <=> there = {}
  <1> DEFINE row(b) == m.blocks[b]
             part(b) == Overlap(row(b), size, offset)
             hits == {b \in Window(m, node, size, offset) : part(b) # {}}
             all == UNION {part(b) : b \in hits}
             Seqs(p) == {row(b).seq : b \in {c \in hits : p \in part(c)}}
             claims == {Claim(row(b), size, offset) : b \in hits}
             there == Filled(m, node) \cap (offset .. offset + size - 1)
             chunk == ReadChunk(m, node, size, offset)
  <1>1. chunk = [bytes |-> [p \in all |-> Max(Seqs(p))],
                 fill |-> IF hits = {} THEN 0 ELSE Max(claims)]
    BY DEF ReadChunk
  <1>2. \A b \in DataRows(m, node) :
          /\ b \in Block /\ row(b).node = node /\ b \in Rows(m, "DATA")
          /\ row(b).offset \in Nat /\ row(b).fill \in 1 .. Payload /\ row(b).fill \in Nat
          /\ row(b).seq \in Nat
    <2>1. \A b \in Block : m.blocks[b].offset \in Nat /\ m.blocks[b].seq \in Nat
                           /\ m.blocks[b].fill \in Nat
      BY DEF Sound, Good, Machine, BlockRow
    <2> QED
      BY <2>1 DEF Shows, DataRows, Rows
  <1>3. ASSUME NEW b \in DataRows(m, node)
        PROVE  /\ part(b) = {p \in offset .. offset + size - 1 :
                               row(b).offset <= p /\ p < row(b).offset + row(b).fill}
               /\ part(b) # {} => Claim(row(b), size, offset) \in 1 .. row(b).fill
    BY <1>2, <1>3, OverlapIs, PayloadAssumption
  <1>4. hits = {b \in DataRows(m, node) : part(b) # {}}
    <2>1. Window(m, node, size, offset) \subseteq DataRows(m, node)
      BY DEF Window, DataRows
    <2>2. ASSUME NEW b \in DataRows(m, node), part(b) # {}
          PROVE  b \in Window(m, node, size, offset)
      <3>1. PICK p \in offset .. offset + size - 1 :
              row(b).offset <= p /\ p < row(b).offset + row(b).fill
        BY <1>3, <2>2
      <3>2. row(b).offset <= offset + size + Payload /\ offset <= row(b).offset + size + Payload
        BY <1>2, <3>1, PayloadAssumption
      <3> QED
        BY <1>2, <3>2 DEF Window
    <2> QED
      BY <2>1, <2>2
  <1> HIDE DEF part
  <1>5. \A p \in offset .. offset + size - 1 :
          {c \in hits : p \in part(c)} = Covering(m, node, p)
    BY <1>3, <1>4 DEF Covering
  <1>6. offset .. offset + size - 1 \subseteq 0 .. Reach - 1
    BY ReachBounds, PayloadAssumption
  <1>7. all = there
    <2>1. all \subseteq offset .. offset + size - 1
      BY <1>3, <1>4
    <2>2. \A p \in offset .. offset + size - 1 : p \in all <=> Covering(m, node, p) # {}
      BY <1>5
    <2> HIDE DEF all
    <2> QED
      BY <1>6, <2>1, <2>2 DEF Filled
  <1>8. ASSUME NEW p \in there
        PROVE  Max(Seqs(p)) = bytes[p]
    <2>1. p \in offset .. offset + size - 1 /\ p \in 0 .. Reach - 1 /\ Covering(m, node, p) # {}
      BY <1>8 DEF Filled
    <2>2. PICK b \in Covering(m, node, p) :
            /\ bytes[p] = m.blocks[b].seq
            /\ \A c \in Covering(m, node, p) : m.blocks[c].seq <= m.blocks[b].seq
      BY <2>1, HeldYoungest
    <2>3. Seqs(p) = {row(c).seq : c \in Covering(m, node, p)}
      BY <1>5, <2>1
    <2>4. \A c \in Covering(m, node, p) : row(c).seq \in Nat
      BY <1>2 DEF Covering
    <2>5. Seqs(p) \subseteq Nat /\ row(b).seq \in Seqs(p) /\ \A y \in Seqs(p) : y <= row(b).seq
      BY <2>2, <2>3, <2>4
    <2> HIDE DEF Seqs
    <2>6. Max(Seqs(p)) = row(b).seq
      BY <2>5, MaxIs
    <2> QED
      BY <2>2, <2>6
  <1>9. chunk.bytes = [p \in there |-> bytes[p]]
    <2> HIDE DEF all, Seqs, there, chunk
    <2> QED
      BY <1>1, <1>7, <1>8
  <1>10. hits = {} <=> there = {}
    BY <1>4, <1>7
  <1>11. hits # {} => Max(claims) \in 1 .. Payload
    <2>1. claims \subseteq 1 .. Payload
      BY <1>2, <1>3, <1>4, PayloadAssumption
    <2>2. hits # {} => claims # {}
      OBVIOUS
    <2> HIDE DEF claims
    <2> QED
      BY <2>1, <2>2, MaxBounded, PayloadAssumption
  <1>12. chunk.fill \in 0 .. Payload /\ (chunk.fill = 0 <=> there = {})
    <2>1. chunk.fill = IF hits = {} THEN 0 ELSE Max(claims)
      BY <1>1
    <2> HIDE DEF chunk, hits, claims, there
    <2> QED
      BY <1>10, <1>11, <2>1, PayloadAssumption
  <1> QED
    BY <1>9, <1>12

-----------------------------------------------------------------------------
(* The loop over the blocks of a request. *)

\* A function that looks only ahead of its argument, as the loop does, ...
LooksAhead(f, N, ends, last, jump, piece) ==
    f = [t \in 0 .. N |-> IF t \in ends THEN last[t]
                          ELSE [f[jump[t]] EXCEPT !.bytes = Onto(@, piece[t])]]

\* ... exists.
LEMMA LoopExists ==
    ASSUME NEW N \in Nat, NEW ends, NEW last, NEW jump, NEW piece,
           \A t \in 0 .. N : t \notin ends => jump[t] \in t + 1 .. N
    PROVE  \E f : LooksAhead(f, N, ends, last, jump, piece)
  <1> DEFINE Body(f, t) == IF t \in ends THEN last[t]
                           ELSE [f[jump[t]] EXCEPT !.bytes = Onto(@, piece[t])]
             From(j) == \E f : /\ f = [t \in 0 .. N |-> f[t]]
                               /\ \A t \in j .. N : f[t] = Body(f, t)
             T == {j \in 0 .. N + 1 : From(j)}
  <1>1. N + 1 \in T
    <2>1. From(N + 1)
      <3> DEFINE f == [t \in 0 .. N |-> t]
      <3>1. f = [t \in 0 .. N |-> f[t]] /\ N + 1 .. N = {}
        OBVIOUS
      <3> QED
        BY <3>1
    <2> HIDE DEF From
    <2> QED
      BY <2>1
  <1>2. T \subseteq Nat /\ T # {}
    BY <1>1
  <1>3. PICK j \in T : \A i \in T : j <= i
    <2> HIDE DEF T
    <2> QED
      BY <1>2, NatMin
  <1>4. j = 0
    <2> SUFFICES ASSUME j # 0 PROVE FALSE
      OBVIOUS
    <2>1. j \in 1 .. N + 1 /\ From(j)
      <3> HIDE DEF From
      <3>1. j \in 0 .. N + 1 /\ From(j)
        OBVIOUS
      <3> QED
        BY <3>1
    <2>2. PICK f : /\ f = [t \in 0 .. N |-> f[t]]
                   /\ \A t \in j .. N : f[t] = Body(f, t)
      BY <2>1
    <2> DEFINE k == j - 1
               g == [t \in 0 .. N |-> IF t = k THEN Body(f, k) ELSE f[t]]
    <2>3. k \in 0 .. N /\ k < j
      BY <2>1
    <2>4. \A t \in k .. N : t \notin ends => g[jump[t]] = f[jump[t]]
      <3> SUFFICES ASSUME NEW t \in k .. N, t \notin ends PROVE g[jump[t]] = f[jump[t]]
        OBVIOUS
      <3>1. t \in 0 .. N
        BY <2>3
      <3>2. jump[t] \in t + 1 .. N
        BY <3>1
      <3>3. jump[t] \in 0 .. N /\ jump[t] # k
        BY <2>3, <3>2
      <3> QED
        BY <3>3
    <2>5. \A t \in k .. N : Body(g, t) = Body(f, t)
      <3> HIDE DEF g
      <3> QED
        BY <2>4
    <2>6. \A t \in k .. N : g[t] = Body(f, t)
      <3> SUFFICES ASSUME NEW t \in k .. N PROVE g[t] = Body(f, t)
        OBVIOUS
      <3>1. t \in 0 .. N /\ (t = k \/ t \in j .. N)
        BY <2>1, <2>3
      <3> HIDE DEF Body
      <3> QED
        BY <2>2, <3>1
    <2>7. g = [t \in 0 .. N |-> g[t]]
      <3> HIDE DEF Body, k
      <3> QED
        OBVIOUS
    <2>8. From(k)
      <3> HIDE DEF g, Body
      <3>1. \A t \in k .. N : g[t] = Body(g, t)
        BY <2>5, <2>6
      <3> QED
        BY <2>7, <3>1
    <2>9. k \in T
      <3> HIDE DEF From
      <3> QED
        BY <2>3, <2>8
    <2> HIDE DEF T
    <2> QED
      BY <1>3, <2>1, <2>3, <2>9
  <1>5. PICK f : /\ f = [t \in 0 .. N |-> f[t]]
                 /\ \A t \in 0 .. N : f[t] = Body(f, t)
    <2>1. From(0)
      <3> HIDE DEF From
      <3> QED
        BY <1>3, <1>4
    <2> QED
      BY <2>1
  <1>6. f = [t \in 0 .. N |-> Body(f, t)]
    <2> HIDE DEF Body
    <2> QED
      BY <1>5
  <1> QED
    BY <1>6 DEF LooksAhead

\* The read with which the loop goes on after `total` bytes.
ChunkAt(m, node, size, offset, total) ==
    ReadChunk(m, node, IF size - total > Payload THEN Payload ELSE size - total, offset + total)

\* What the loop makes of the rest of a request, `rest` for what it has read of it.
Turn(m, node, size, offset, total, rest) ==
    IF total >= size \/ ChunkAt(m, node, size, offset, total).fill = 0
    THEN [total |-> total, bytes |-> <<>>]
    ELSE [rest EXCEPT !.bytes = Onto(@, ChunkAt(m, node, size, offset, total).bytes)]

\* The reads of the loop, and where they lead.
LEMMA TurnReads ==
    ASSUME NEW m, Sound(m), NEW node, NEW bytes, Shows(m, node, bytes),
           NEW offset \in Nat, NEW size \in Nat, offset + size <= Reach,
           NEW total \in Nat, total < size
    PROVE  LET chunk == ChunkAt(m, node, size, offset, total)
               limit == IF size - total > Payload THEN Payload ELSE size - total
               there == Filled(m, node) \cap (offset + total .. offset + total + limit - 1)
           IN  /\ chunk.bytes = [p \in there |-> bytes[p]]
               /\ chunk.fill \in 0 .. Payload
               /\ chunk.fill = 0 <=> there = {}
  <1> DEFINE limit == IF size - total > Payload THEN Payload ELSE size - total
             from == offset + total
  <1>1. limit \in 1 .. Payload /\ from \in Nat /\ from + limit <= Reach
    BY ReachBounds, PayloadAssumption
  <1>2. ChunkAt(m, node, size, offset, total) = ReadChunk(m, node, limit, from)
    BY DEF ChunkAt
  <1> HIDE DEF limit, from
  <1>3. LET chunk == ReadChunk(m, node, limit, from)
            there == Filled(m, node) \cap (from .. from + limit - 1)
        IN  /\ chunk.bytes = [p \in there |-> bytes[p]]
            /\ chunk.fill \in 0 .. Payload
            /\ chunk.fill = 0 <=> there = {}
    BY <1>1, ChunkReads
  <1> QED
    BY <1>2, <1>3 DEF limit, from

\* oncefs_get_data is the first value of such a function.
LEMMA GetDataLoop ==
    ASSUME NEW m, Sound(m), NEW node, NEW bytes, Shows(m, node, bytes),
           NEW offset \in Nat, NEW size \in Nat, offset + size <= Reach
    PROVE  \E f : /\ GetData(m, node, size, offset) = f[0]
                  /\ \A t \in 0 .. size + Payload :
                       f[t] = Turn(m, node, size, offset, t,
                                   f[t + ChunkAt(m, node, size, offset, t).fill])
  <1> DEFINE N == size + Payload
             chunk(t) == ChunkAt(m, node, size, offset, t)
             Body(f, t) == Turn(m, node, size, offset, t, f[t + chunk(t).fill])
             Loop(f) == f = [t \in 0 .. N |-> Body(f, t)]
             ends == {t \in 0 .. N : t >= size \/ chunk(t).fill = 0}
             last == [t \in 0 .. N |-> [total |-> t, bytes |-> <<>>]]
             jump == [t \in 0 .. N |-> t + chunk(t).fill]
             piece == [t \in 0 .. N |-> chunk(t).bytes]
  <1>1. GetData(m, node, size, offset) = (CHOOSE f : Loop(f))[0]
    BY DEF GetData, Turn, ChunkAt
  <1>2. N \in Nat
    BY PayloadAssumption
  <1>3. \A t \in 0 .. N : t \notin ends => jump[t] \in t + 1 .. N
    <2> SUFFICES ASSUME NEW t \in 0 .. N, t \notin ends PROVE jump[t] \in t + 1 .. N
      OBVIOUS
    <2>1. t \in Nat /\ t < size /\ chunk(t).fill # 0
      BY <1>2
    <2>2. chunk(t).fill \in 0 .. Payload
      BY <2>1, TurnReads
    <2>3. jump[t] = t + chunk(t).fill
      OBVIOUS
    <2> HIDE DEF jump, chunk
    <2> QED
      BY <2>1, <2>2, <2>3, PayloadAssumption
  <1>4. \E f : LooksAhead(f, N, ends, last, jump, piece)
    <2> HIDE DEF N, ends, last, jump, piece
    <2> QED
      BY <1>2, <1>3, LoopExists
  <1>5. \E f : Loop(f)
    <2>1. PICK f : f = [t \in 0 .. N |->
                          IF t \in ends THEN last[t]
                          ELSE [f[jump[t]] EXCEPT !.bytes = Onto(@, piece[t])]]
      <3> HIDE DEF N, ends, last, jump, piece
      <3> QED
        BY <1>4 DEF LooksAhead
    <2>2. ASSUME NEW t \in 0 .. N
          PROVE  Body(f, t) = IF t \in ends THEN last[t]
                              ELSE [f[jump[t]] EXCEPT !.bytes = Onto(@, piece[t])]
      <3> HIDE DEF N
      <3> QED
        BY DEF Turn
    <2>3. f = [t \in 0 .. N |-> Body(f, t)]
      <3> HIDE DEF Body, N, ends, last, jump, piece
      <3> QED
        BY <2>1, <2>2
    <2>4. Loop(f)
      <3> HIDE DEF Body, N
      <3> QED
        BY <2>3
    <2> HIDE DEF Loop
    <2> QED
      BY <2>4
  <1>6. PICK f : Loop(f) /\ GetData(m, node, size, offset) = f[0]
    <2> HIDE DEF Loop
    <2> QED
      BY <1>1, <1>5
  <1>7. \A t \in 0 .. N : f[t] = Body(f, t)
    <2> HIDE DEF Body, N
    <2> QED
      BY <1>6
  <1> QED
    BY <1>6, <1>7

-----------------------------------------------------------------------------
(* What a read delivers. *)

\* The bytes g are of the file as they were written last, and every one is there up to
\* the first that the file does not hold.
Reads(m, node, bytes, size, offset, total, g) ==
    /\ \A p \in DOMAIN g : p \in Filled(m, node) /\ g[p] = bytes[p]
    /\ \A p \in offset + total .. offset + size - 1 :
         offset + total .. p \subseteq Filled(m, node) => p \in DOMAIN g

\* The result x of the loop from `total` on.
Delivers(m, node, bytes, size, offset, total, x) ==
    \E n, g :
        /\ n \in Nat /\ x = [total |-> n, bytes |-> g]
        /\ Reads(m, node, bytes, size, offset, total, g)

\* One turn adds a block's worth to what the rest of the loop delivers.
LEMMA TurnDelivers ==
    ASSUME NEW m, Sound(m), NEW node, NEW bytes, Shows(m, node, bytes),
           NEW offset \in Nat, NEW size \in Nat, offset + size <= Reach,
           NEW total \in Nat, NEW rest,
           LET fill == ChunkAt(m, node, size, offset, total).fill
           IN  total < size /\ fill # 0 =>
                 Delivers(m, node, bytes, size, offset, total + fill, rest)
    PROVE  Delivers(m, node, bytes, size, offset, total,
                    Turn(m, node, size, offset, total, rest))
  <1> DEFINE chunk == ChunkAt(m, node, size, offset, total)
             fill == chunk.fill
             limit == IF size - total > Payload THEN Payload ELSE size - total
             from == offset + total
             end == offset + size
             filled == Filled(m, node)
             there == filled \cap (from .. from + limit - 1)
             x == Turn(m, node, size, offset, total, rest)
  <1>1. from \in Nat /\ end \in Nat /\ filled \subseteq Nat
    BY DEF Filled
  <1>2. ASSUME total < size
        PROVE  /\ chunk.bytes = [p \in there |-> bytes[p]]
               /\ fill \in 0 .. Payload
               /\ fill = 0 <=> there = {}
               /\ limit \in 1 .. Payload /\ limit <= size - total
               /\ from + limit = end \/ limit = Payload
    <2>1. /\ chunk.bytes = [p \in there |-> bytes[p]]
          /\ fill \in 0 .. Payload
          /\ fill = 0 <=> there = {}
      <3> HIDE DEF chunk
      <3> QED
        BY <1>2, TurnReads DEF chunk
    <2>2. /\ limit \in 1 .. Payload /\ limit <= size - total
          /\ from + limit = end \/ limit = Payload
      BY <1>2, PayloadAssumption
    <2> QED
      BY <2>1, <2>2
  <1>3. CASE total >= size \/ fill = 0
    <2>1. x = [total |-> total, bytes |-> <<>>] /\ DOMAIN <<>> = {}
      BY <1>3 DEF Turn
    <2>2. total < size => there = {} /\ limit \in 1 .. Payload
      <3> HIDE DEF chunk, there, limit
      <3> QED
        BY <1>3, <1>2
    <2>3. from \notin filled \/ total >= size
      <3> SUFFICES ASSUME from \in filled, total < size PROVE FALSE
        OBVIOUS
      <3> HIDE DEF from, limit
      <3>1. from \in from .. from + limit - 1
        BY <1>1, <2>2, PayloadAssumption
      <3> QED
        BY <2>2, <3>1
    <2> HIDE DEF filled
    <2>4. \A p \in from .. end - 1 : ~ (from .. p \subseteq filled)
      <3> SUFFICES ASSUME NEW p \in from .. end - 1, from .. p \subseteq filled PROVE FALSE
        OBVIOUS
      <3>1. from \in from .. p /\ total < size
        OBVIOUS
      <3> QED
        BY <2>3, <3>1
    <2> HIDE DEF x
    <2>5. Reads(m, node, bytes, size, offset, total, <<>>)
      BY <2>1, <2>4 DEF Reads, filled
    <2>6. Delivers(m, node, bytes, size, offset, total, x)
      BY <2>1, <2>5 DEF Delivers
    <2> QED
      BY <2>6 DEF x
  <1>4. CASE total < size /\ fill # 0
    <2>1. PICK n, g :
            /\ n \in Nat /\ rest = [total |-> n, bytes |-> g]
            /\ \A p \in DOMAIN g : p \in filled /\ g[p] = bytes[p]
            /\ \A p \in offset + (total + fill) .. end - 1 :
                 offset + (total + fill) .. p \subseteq filled => p \in DOMAIN g
      BY <1>4 DEF Delivers, Reads
    <2>2. chunk.bytes = [p \in there |-> bytes[p]] /\ fill \in 1 .. Payload /\ fill \in Nat
      <3>1. chunk.bytes = [p \in there |-> bytes[p]] /\ fill \in 0 .. Payload
        BY <1>4, <1>2
      <3> HIDE DEF chunk
      <3> QED
        BY <1>4, <3>1, PayloadAssumption
    <2> DEFINE both == Onto(g, chunk.bytes)
               next == from + fill
    <2>3. x = [total |-> n, bytes |-> both]
      <3>1. x = [rest EXCEPT !.bytes = Onto(@, chunk.bytes)]
        BY <1>4 DEF Turn
      <3> HIDE DEF x, chunk
      <3> QED
        BY <2>1, <3>1
    <2>4. DOMAIN both = DOMAIN g \cup there /\ \A p \in DOMAIN both : both[p] = bytes[p]
      <3> HIDE DEF there, chunk
      <3> QED
        BY <2>1, <2>2 DEF Onto
    <2>5. offset + (total + fill) = next /\ next \in Nat /\ next > from
      <3> HIDE DEF fill
      <3> QED
        BY <2>2
    <2>6. limit \in Nat /\ limit <= Payload /\ (from + limit = end \/ limit = Payload)
      <3> HIDE DEF limit, from, end, chunk, there
      <3> QED
        BY <1>4, <1>2, PayloadAssumption
    <2> HIDE DEF fill, limit, chunk, both, next
    <2>7. ASSUME NEW p \in from .. end - 1, from .. p \subseteq filled
          PROVE  p \in DOMAIN both
      <3>1. p \in filled
        <4>1. p \in from .. p
          BY <1>1
        <4> QED
          BY <2>7, <4>1
      <3>2. CASE p \in from .. from + limit - 1
        BY <2>4, <3>1, <3>2
      <3>3. CASE p \notin from .. from + limit - 1
        <4>1. from + limit <= p /\ limit = Payload
          BY <1>1, <2>6, <3>3
        <4>2. next <= from + limit
          BY <1>1, <2>2, <2>6, <4>1, PayloadAssumption DEF next
        <4>3. p \in next .. end - 1 /\ next .. p \subseteq from .. p
          BY <1>1, <2>5, <2>6, <4>1, <4>2
        <4>4. next .. p \subseteq filled
          BY <2>7, <4>3
        <4> QED
          BY <2>1, <2>4, <2>5, <4>3, <4>4
      <3> QED
        BY <3>2, <3>3
    <2>8. \A p \in DOMAIN both : p \in filled /\ both[p] = bytes[p]
      BY <2>1, <2>4
    <2> HIDE DEF x
    <2>9. Reads(m, node, bytes, size, offset, total, both)
      BY <2>7, <2>8 DEF Reads
    <2>10. Delivers(m, node, bytes, size, offset, total, x)
      BY <2>1, <2>3, <2>9 DEF Delivers
    <2> QED
      BY <2>10 DEF x
  <1> QED
    BY <1>3, <1>4

\* What oncefs_get_data delivers.
LEMMA GetDataDelivers ==
    ASSUME NEW m, Sound(m), NEW node, NEW bytes, Shows(m, node, bytes),
           NEW offset \in Nat, NEW size \in Nat, offset + size <= Reach
    PROVE  Delivers(m, node, bytes, size, offset, 0, GetData(m, node, size, offset))
  <1> DEFINE N == size + Payload
             fill(t) == ChunkAt(m, node, size, offset, t).fill
  <1>1. PICK f : /\ GetData(m, node, size, offset) = f[0]
                 /\ \A t \in 0 .. N : f[t] = Turn(m, node, size, offset, t, f[t + fill(t)])
    BY GetDataLoop
  <1> DEFINE Done(t) == Delivers(m, node, bytes, size, offset, t, f[t])
             Bad == {k \in 0 .. N : ~ Done(N - k)}
  <1>2. N \in Nat /\ 0 \in 0 .. N
    BY PayloadAssumption
  <1>3. ASSUME NEW t \in 0 .. N, \A s \in t + 1 .. N : Done(s)
        PROVE  Done(t)
    <2>1. t \in Nat /\ f[t] = Turn(m, node, size, offset, t, f[t + fill(t)])
      BY <1>1, <1>2
    <2>2. ASSUME t < size, fill(t) # 0
          PROVE  Delivers(m, node, bytes, size, offset, t + fill(t), f[t + fill(t)])
      <3>1. fill(t) \in 0 .. Payload
        BY <2>1, <2>2, TurnReads
      <3> HIDE DEF fill
      <3>2. t + fill(t) \in t + 1 .. N
        BY <2>1, <2>2, <3>1, PayloadAssumption
      <3> QED
        BY <1>3, <3>2
    <2>3. Delivers(m, node, bytes, size, offset, t, Turn(m, node, size, offset, t, f[t + fill(t)]))
      BY <2>1, <2>2, TurnDelivers
    <2> QED
      BY <2>1, <2>3
  <1>4. Bad = {}
    <2> SUFFICES ASSUME Bad # {} PROVE FALSE
      OBVIOUS
    <2> HIDE DEF Done
    <2>1. PICK k \in Bad : \A i \in Bad : k <= i
      <3>1. Bad \subseteq Nat
        OBVIOUS
      <3> HIDE DEF Bad
      <3> QED
        BY <3>1, NatMin
    <2> HIDE DEF N
    <2>2. k \in 0 .. N /\ N - k \in 0 .. N /\ ~ Done(N - k)
      BY <1>2
    <2>3. ASSUME NEW s \in N - k + 1 .. N
          PROVE  Done(s)
      <3> DEFINE i == N - s
      <3>1. i \in 0 .. N /\ i < k /\ N - i = s
        BY <1>2, <2>2
      <3>2. i \notin Bad
        <4>1. i \in Nat /\ k \in Nat /\ ~ (k <= i)
          BY <1>2, <2>2, <3>1
        <4> HIDE DEF i, Bad
        <4> QED
          BY <2>1, <4>1
      <3> HIDE DEF i
      <3> QED
        BY <3>1, <3>2
    <2> QED
      BY <1>3, <2>2, <2>3
  <1>5. Done(0)
    <2> HIDE DEF Done, N
    <2>1. N \in 0 .. N /\ N - N = 0
      BY <1>2
    <2> QED
      BY <1>4, <2>1
  <1> QED
    BY <1>1, <1>5

\* Every byte that oncefs_get_data delivers is the one written last at its place,
\* and it delivers every byte up to the first that is not there, at every size of
\* a block, for every request and every history of overlapping writes, truncations
\* to 0, deletions, reused blocks and node numbers, crashes and mounts.
THEOREM ReadsAreCurrent == ASSUME ZeroSizes PROVE DataSpec => []ReadsBack
  <1>1. DInv => ReadsBack
    <2> SUFFICES ASSUME DInv, mode = "mounted", NEW node \in FileIds,
                        NEW offset \in 0 .. Reach - 1, NEW size \in 1 .. Reach - offset
                 PROVE  LET read == GetData(fs, node, size, offset)
                            got  == read.bytes
                            asked == offset .. offset + size - 1
                        IN  /\ \A p \in DOMAIN got : p \in Stored(node) /\ got[p] = ideal[node][p]
                            /\ \A p \in asked : offset .. p \subseteq Stored(node) => p \in DOMAIN got
      BY DEF ReadsBack
    <2> DEFINE read == GetData(fs, node, size, offset)
    <2>1. Sound(fs) /\ Shows(fs, node, ideal[node]) /\ Stored(node) = Filled(fs, node)
      BY FileShows DEF Filled
    <2>2. offset \in Nat /\ size \in Nat /\ offset + size <= Reach /\ offset + 0 = offset
      BY ReachBounds
    <2>3. Delivers(fs, node, ideal[node], size, offset, 0, read)
      BY <2>1, <2>2, GetDataDelivers
    <2> HIDE DEF read
    <2>4. PICK n, g :
            /\ n \in Nat /\ read = [total |-> n, bytes |-> g]
            /\ \A p \in DOMAIN g : p \in Filled(fs, node) /\ g[p] = ideal[node][p]
            /\ \A p \in offset + 0 .. offset + size - 1 :
                 offset + 0 .. p \subseteq Filled(fs, node) => p \in DOMAIN g
      BY <2>3 DEF Delivers, Reads
    <2>5. read.bytes = g
      BY <2>4
    <2>6. /\ \A p \in DOMAIN read.bytes : p \in Stored(node) /\ read.bytes[p] = ideal[node][p]
          /\ \A p \in offset .. offset + size - 1 :
               offset .. p \subseteq Stored(node) => p \in DOMAIN read.bytes
      BY <2>1, <2>2, <2>4, <2>5
    <2> QED
      BY <2>6 DEF read
  <1> QED
    BY <1>1, DataInvariant, PTL
=============================================================================
