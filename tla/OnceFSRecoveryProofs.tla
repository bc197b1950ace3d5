------------------------ MODULE OnceFSRecoveryProofs -------------------------
(***************************************************************************)
(* Theorems about the reuse of blocks, and about OnceFSRecovery.  First,   *)
(* for OnceFS: what a reused block may destroy, what a call that finds no  *)
(* block leaves behind, and what a refused call does.  Then a mount compared with the machine of the  *)
(* process before it: two settled machines over one container agree on     *)
(* what is in use, because what one of them has freed cannot be in use in  *)
(* the other.  Last, a mount of a log that was only appended to: there the *)
(* tables of every machine are a function of the records, so that the      *)
(* mount rebuilds all of them.                                             *)
(***************************************************************************)
EXTENDS OnceFSCalls, OnceFSRecovery, OnceFSProofs

-----------------------------------------------------------------------------
(* The search for a block. *)

\* The index order of the block table has a first row in every set of rows.
LEMMA FirstExists ==
    ASSUME NEW m \in Machine, NEW rows, rows \subseteq Block, rows # {}
    PROVE  First(m, rows) # {}
  <1>1. m.blocks \in [Block -> BlockRow] /\ Block \subseteq Nat
    BY LastBlockAssumption DEF Machine, Block
  <1>2. \A b \in rows : /\ m.blocks[b].node \in Nat /\ m.blocks[b].offset \in Nat
                        /\ m.blocks[b].fill \in Nat /\ b \in Nat
    BY <1>1 DEF BlockRow
  <1>3. PICK n \in {m.blocks[b].node : b \in rows} :
          \A y \in {m.blocks[b].node : b \in rows} : n <= y
    <2> DEFINE T == {m.blocks[b].node : b \in rows}
    <2>1. T \subseteq Nat /\ T # {}
      BY <1>2
    <2> HIDE DEF T
    <2>2. \E x \in T : \A y \in T : x <= y
      BY <2>1, NatMin
    <2> QED
      BY <2>2 DEF T
  <1> DEFINE rows1 == {b \in rows : m.blocks[b].node = n}
  <1>4. rows1 # {} /\ rows1 \subseteq rows
    BY <1>3
  <1>5. PICK o \in {m.blocks[b].offset : b \in rows1} :
          \A y \in {m.blocks[b].offset : b \in rows1} : o <= y
    <2> DEFINE T == {m.blocks[b].offset : b \in rows1}
    <2>1. T \subseteq Nat /\ T # {}
      BY <1>2, <1>4
    <2> HIDE DEF T
    <2>2. \E x \in T : \A y \in T : x <= y
      BY <2>1, NatMin
    <2> QED
      BY <2>2 DEF T
  <1> DEFINE rows2 == {b \in rows1 : m.blocks[b].offset = o}
  <1>6. rows2 # {} /\ rows2 \subseteq rows
    BY <1>5
  <1>7. PICK f \in {m.blocks[b].fill : b \in rows2} :
          \A y \in {m.blocks[b].fill : b \in rows2} : f <= y
    <2> DEFINE T == {m.blocks[b].fill : b \in rows2}
    <2>1. T \subseteq Nat /\ T # {}
      BY <1>2, <1>6
    <2> HIDE DEF T
    <2>2. \E x \in T : \A y \in T : x <= y
      BY <2>1, NatMin
    <2> QED
      BY <2>2 DEF T
  <1> DEFINE rows3 == {b \in rows2 : m.blocks[b].fill = f}
  <1>8. rows3 # {} /\ rows3 \subseteq Nat
    BY <1>2, <1>6, <1>7
  <1>9. PICK b \in rows3 : \A y \in rows3 : b <= y
    <2> HIDE DEF rows3
    <2> QED
      BY <1>8, NatMin
  <1>10. b \in rows /\ m.blocks[b].node = n /\ m.blocks[b].offset = o /\ m.blocks[b].fill = f
    BY <1>9
  <1>11. ASSUME NEW c \in rows PROVE Before(m, b, c)
    <2>1. m.blocks[c].node \in Nat /\ m.blocks[c].offset \in Nat /\ m.blocks[c].fill \in Nat
          /\ n \in Nat /\ o \in Nat /\ f \in Nat
      BY <1>2, <1>10
    <2>2. n <= m.blocks[c].node
      BY <1>3
    <2>3. m.blocks[c].node = n => o <= m.blocks[c].offset
      BY <1>5
    <2>4. m.blocks[c].node = n /\ m.blocks[c].offset = o => f <= m.blocks[c].fill
      BY <1>7
    <2>5. m.blocks[c].node = n /\ m.blocks[c].offset = o /\ m.blocks[c].fill = f => b <= c
      BY <1>9
    <2> QED
      BY <1>10, <2>1, <2>2, <2>3, <2>4, <2>5 DEF Before
  <1> QED
    BY <1>10, <1>11 DEF First

\* When no block is granted, the container is full, no block is free, none
\* holds a deletion, and a node of the table has no NODE record.
LEMMA NoGrant ==
    ASSUME NEW m, Good(m), NEW node \in Nat, Grants(m, node) = {}
    PROVE  /\ m.next_block_id = LastBlock + 1
           /\ Rows(m, "FREE") = {} /\ Rows(m, "DELETE") = {}
  <1>1. m \in Machine /\ m.next_block_id \in 1 .. LastBlock + 1
    BY DEF Good
  <1>2. m.next_block_id = LastBlock + 1 /\ Reuse(m, node) = {}
    BY <1>1, LastBlockAssumption DEF Grants
  <1>3. \A op : Rows(m, op) \subseteq Block
    BY DEF Rows
  <1>4. Rows(m, "FREE") = {}
    BY <1>1, <1>2, <1>3, FirstExists DEF Reuse
  <1>5. Rows(m, "DELETE") = {}
    BY <1>1, <1>2, <1>3, <1>4, FirstExists DEF Reuse
  <1> QED
    BY <1>2, <1>4, <1>5

\* A block that was in use is granted only when no block is free.
LEMMA GrantOrder ==
    ASSUME NEW m, Good(m), NEW node \in Nat, NEW b \in Grants(m, node)
    PROVE  \/ m.next_block_id <= LastBlock /\ b = m.next_block_id
           \/ m.blocks[b].op = "FREE"
           \/ Rows(m, "FREE") = {}
  <1>1. \A rows : First(m, rows) \subseteq rows
    BY DEF First
  <1> QED
    BY <1>1 DEF Grants, Reuse, Rows

-----------------------------------------------------------------------------
(* What the records of the container do to each other. *)

\* Every truncation cuts to the same size.
OneSize == \A x, y \in Sizes : x = y

Used(m, b) == m.blocks[b].op \notin {"NONE", "FREE"}

\* A record of `op` for `node`, younger than that of block b, makes its replay
\* void; what a truncation to another size does to a DATA record is left open.
Covers(m, op, node, offset, b) ==
    /\ m.blocks[b].node = node
    /\ \/ op = "DELETE"
       \/ /\ op = "TRUNCATE" /\ m.disk[b].op \in {"DATA", "TRUNCATE"}
          /\ OneSize /\ m.disk[b].op = "DATA" => offset <= m.disk[b].offset

\* Cancels of OnceFS, for any sizes: with one size it is the same.
Voids(m, c, b) ==
    /\ m.blocks[c].seq > m.blocks[b].seq
    /\ Covers(m, m.blocks[c].op, m.blocks[c].node, m.blocks[c].offset, b)

\* Every freed row is made void by a younger record in use.
Justified(m) == \A b \in Rows(m, "FREE") : \E c \in Block : Voids(m, c, b)

\* The replay of a record of `op` for `node`, younger than that of block b,
\* frees the row of b.
Frees(disk, op, node, offset, b) ==
    /\ disk[b].node = node
    /\ \/ op = "DELETE"
       \/ /\ op = "TRUNCATE"
          /\ disk[b].op = "TRUNCATE" \/ (disk[b].op = "DATA" /\ offset <= disk[b].offset)

\* No row in use is freed by the replay of a younger record, be that in use or not.
Spared(m) ==
    \A b, c \in Block :
        Used(m, b) /\ m.blocks[c].op # "NONE" /\ m.disk[c].seq > m.disk[b].seq =>
            ~ Frees(m.disk, m.disk[c].op, m.disk[c].node, m.disk[c].offset, b)

\* Truncations cut to the sizes of the workload.
CutsToSizes(disk) == \A b \in Block : disk[b].op = "TRUNCATE" => disk[b].offset \in Sizes

\* The next sequence number follows that of the youngest row.
NextFollows(m) ==
    \/ m.next_seq_id = 1 /\ \A b \in Block : m.blocks[b].op = "NONE"
    \/ \E b \in Block : m.blocks[b].op # "NONE" /\ m.blocks[b].seq + 1 = m.next_seq_id

\* What every machine keeps, mounted or in the middle of a mount.
Settled(m) == Justified(m) /\ Spared(m) /\ CutsToSizes(m.disk) /\ NextFollows(m)

\* The tables are ready for a record of `op` for `node`: it voids what was freed
\* for its sake, and nothing in use is left for it to free.
Ready(f, op, node, offset) ==
    /\ \A b \in Rows(f, "FREE") :
         (\E c \in Block : Voids(f, c, b)) \/ Covers(f, op, node, offset, b)
    /\ \A b \in Block : Used(f, b) => ~ Frees(f.disk, op, node, offset, b)
    /\ op = "TRUNCATE" => offset \in Sizes

-----------------------------------------------------------------------------
(* One record more. *)

\* The row of the youngest record enters a table that is ready for it, in a
\* block that had no row or a free one, or when no block is free.
LEMMA EnterSettled ==
    ASSUME NEW f, f \in Machine, MirrorsAll(f), Spared(f), CutsToSizes(f.disk),
           NEW n, n \in Machine, NEW b \in Block,
           NEW op \in LogOp, NEW node, NEW offset, Ready(f, op, node, offset),
           n.blocks[b].op = op, n.blocks[b].node = node, n.blocks[b].offset = offset,
           n.disk[b].op = op, n.disk[b].node = node, n.disk[b].offset = offset,
           n.disk[b].seq = n.blocks[b].seq,
           \A c \in Block : c # b => n.blocks[c] = f.blocks[c] /\ n.disk[c] = f.disk[c],
           \A c \in Block : c # b /\ f.blocks[c].op # "NONE" => f.blocks[c].seq < n.blocks[b].seq,
           n.next_seq_id = n.blocks[b].seq + 1,
           f.blocks[b].op \in {"NONE", "FREE"} \/ Rows(f, "FREE") = {}
    PROVE  Settled(n)
  <1>1. /\ n.blocks \in [Block -> BlockRow] /\ f.blocks \in [Block -> BlockRow]
        /\ n.disk \in [Block -> DiskRecord] /\ f.disk \in [Block -> DiskRecord]
    BY DEF Machine
  <1>2. \A c \in Block : /\ n.blocks[c].seq \in Nat /\ f.blocks[c].seq \in Nat
                         /\ n.disk[c].seq \in Nat /\ f.disk[c].seq \in Nat
    BY <1>1 DEF BlockRow, DiskRecord
  <1>3. op # "NONE" /\ op # "FREE" /\ op # "INVALID"
    BY DEF LogOp
  <1>4. \A c \in Block : f.blocks[c].op # "NONE" =>
          f.disk[c].seq = f.blocks[c].seq /\ f.disk[c].node = f.blocks[c].node
    BY DEF MirrorsAll, Mirrors
  <1>5. Justified(n)
    <2> SUFFICES ASSUME NEW c \in Rows(n, "FREE")
                 PROVE  \E d \in Block : Voids(n, d, c)
      BY DEF Justified
    <2>1. c \in Block /\ c # b /\ c \in Rows(f, "FREE")
      BY <1>3 DEF Rows
    <2>2. f.blocks[c].op # "NONE"
      BY <2>1 DEF Rows
    <2>3. CASE Covers(f, op, node, offset, c)
      <3>1. Voids(n, b, c)
        BY <1>2, <2>1, <2>2, <2>3 DEF Voids, Covers
      <3> QED
        BY <3>1
    <2>4. CASE \E d \in Block : Voids(f, d, c)
      <3>1. PICK d \in Block : Voids(f, d, c)
        BY <2>4
      <3>2. f.blocks[b].op \in {"NONE", "FREE"}
        BY <2>1
      <3>3. f.blocks[d].op \in {"DELETE", "TRUNCATE"}
        BY <3>1 DEF Voids, Covers
      <3>4. d # b
        BY <3>2, <3>3
      <3>5. Voids(n, d, c)
        BY <2>1, <3>1, <3>4 DEF Voids, Covers
      <3> QED
        BY <3>5
    <2> QED
      BY <2>1, <2>3, <2>4 DEF Ready
  <1>6. Spared(n)
    <2> SUFFICES ASSUME NEW c \in Block, NEW d \in Block, Used(n, c),
                        n.blocks[d].op # "NONE", n.disk[d].seq > n.disk[c].seq
                 PROVE  ~ Frees(n.disk, n.disk[d].op, n.disk[d].node, n.disk[d].offset, c)
      BY DEF Spared
    <2>1. CASE c = b
      <3>1. d # b
        BY <1>2, <2>1
      <3>2. f.blocks[d].op # "NONE" /\ f.blocks[d].seq < n.blocks[b].seq
            /\ n.disk[d].seq = f.blocks[d].seq
        BY <1>4, <3>1
      <3> QED
        BY <1>2, <2>1, <3>2
    <2>2. CASE c # b /\ d = b
      <3>1. Used(f, c) /\ n.disk[c] = f.disk[c]
        BY <2>2 DEF Used
      <3>2. ~ Frees(f.disk, op, node, offset, c)
        BY <3>1 DEF Ready
      <3> QED
        BY <2>2, <3>1, <3>2 DEF Frees
    <2>3. CASE c # b /\ d # b
      <3>1. Used(f, c) /\ f.blocks[d].op # "NONE" /\ n.disk[c] = f.disk[c] /\ n.disk[d] = f.disk[d]
        BY <2>3 DEF Used
      <3>2. ~ Frees(f.disk, f.disk[d].op, f.disk[d].node, f.disk[d].offset, c)
        BY <3>1 DEF Spared
      <3> QED
        BY <3>1, <3>2 DEF Frees
    <2> QED
      BY <2>1, <2>2, <2>3
  <1>7. CutsToSizes(n.disk)
    BY DEF CutsToSizes, Ready
  <1>8. NextFollows(n)
    BY <1>3 DEF NextFollows
  <1> QED
    BY <1>5, <1>6, <1>7, <1>8 DEF Settled

\* Rows that fade leave no row in use to be freed that was spared before.
LEMMA FadesSpared ==
    ASSUME NEW m \in Machine, NEW f, Fades(m, f)
    PROVE  /\ Spared(m) => Spared(f)
           /\ CutsToSizes(m.disk) => CutsToSizes(f.disk)
           /\ NextFollows(m) => NextFollows(f)
  <1>1. ASSUME Spared(m) PROVE Spared(f)
    <2>1. \A b \in Block : Used(f, b) => Used(m, b)
      BY DEF Fades, Used
    <2> QED
      BY <1>1, <2>1 DEF Fades, Spared, Frees
  <1> QED
    BY <1>1 DEF Fades, CutsToSizes, NextFollows

\* When the tables are ready for a record, its write settles them again; when no
\* block is granted for it, no row is free.
LEMMA WriteSettled ==
    ASSUME NEW f, Sound(f), Spared(f), CutsToSizes(f.disk), NextFollows(f),
           NEW op \in LogOp, NEW node \in Nat, NEW fill \in Nat,
           NEW offset \in Nat, NEW entry \in NodeRow \cup {NoEntry},
           Ready(f, op, node, offset)
    PROVE  Settled(Write(f, op, node, fill, offset, entry))
  <1> DEFINE w == Write(f, op, node, fill, offset, entry)
             row == [op |-> op, seq |-> f.next_seq_id, node |-> node,
                     fill |-> fill, offset |-> offset]
             rec == [op |-> op, seq |-> f.next_seq_id, node |-> node,
                     fill |-> fill, offset |-> offset, entry |-> entry]
  <1>1. Good(f) /\ f \in Machine /\ MirrorsAll(f)
    BY DEF Sound, Good
  <1>2. CASE Grants(f, node) = {}
    <2>1. w = [f EXCEPT !.r = "ENOSPC"]
      BY <1>2 DEF Write, Return
    <2>2. w.blocks = f.blocks /\ w.disk = f.disk /\ w.next_seq_id = f.next_seq_id
      BY <1>1, <2>1 DEF Machine
    <2>3. Rows(f, "FREE") = {}
      BY <1>1, <1>2, NoGrant
    <2> HIDE DEF w
    <2>4. Settled(w)
      BY <2>2, <2>3 DEF Settled, Justified, Rows, Spared, Used, CutsToSizes, NextFollows
    <2> QED
      BY <2>4 DEF w
  <1>3. CASE Grants(f, node) # {}
    <2>1. PICK b \in Grants(f, node) :
             w = [nodes |-> f.nodes,
                  blocks |-> [f.blocks EXCEPT ![b] = row],
                  disk |-> [f.disk EXCEPT ![b] = rec],
                  next_node_id |-> Larger(f.next_node_id, node + 1),
                  next_block_id |-> IF f.next_block_id <= LastBlock
                                    THEN f.next_block_id + 1 ELSE f.next_block_id,
                  next_seq_id |-> f.next_seq_id + 1,
                  r |-> "OK"]
      <3>1. PICK b \in Grants(f, node) :
              w = Laid(f, op, node, fill, offset, entry, b)
        BY <1>1, <1>3, WriteEffect
      <3> QED
        BY <3>1 DEF Laid
    <2>2. b \in Block
      BY <1>1, GrantsType
    <2>4. w.blocks = [f.blocks EXCEPT ![b] = row] /\ w.disk = [f.disk EXCEPT ![b] = rec]
          /\ w.next_seq_id = f.next_seq_id + 1
      BY <2>1
    <2>5. w \in Machine
      <3>1. row \in BlockRow /\ rec \in DiskRecord
        BY <1>1 DEF Machine, BlockRow, DiskRecord
      <3> HIDE DEF row, rec
      <3>2. /\ [f.blocks EXCEPT ![b] = row] \in [Block -> BlockRow]
            /\ [f.disk EXCEPT ![b] = rec] \in [Block -> DiskRecord]
        BY <1>1, <3>1 DEF Machine
      <3>3. Larger(f.next_node_id, node + 1) \in Nat /\ f.next_seq_id + 1 \in Nat
            /\ (IF f.next_block_id <= LastBlock
                THEN f.next_block_id + 1 ELSE f.next_block_id) \in Nat
        BY <1>1 DEF Machine, Larger
      <3> QED
        BY <1>1, <2>1, <3>2, <3>3 DEF Machine
    <2> HIDE DEF w
    <2>6. /\ f.blocks \in [Block -> BlockRow] /\ f.disk \in [Block -> DiskRecord]
          /\ f.next_seq_id \in Nat
      BY <1>1 DEF Machine
    <2>7. /\ w.blocks[b] = row /\ w.disk[b] = rec
          /\ \A c \in Block : c # b => w.blocks[c] = f.blocks[c] /\ w.disk[c] = f.disk[c]
      BY <2>2, <2>4, <2>6
    <2>8. \A c \in Block : f.blocks[c].op # "NONE" => f.blocks[c].seq < f.next_seq_id
      BY <1>1 DEF MirrorsAll, Mirrors
    <2>9. f.blocks[b].op \in {"NONE", "FREE"} \/ Rows(f, "FREE") = {}
      <3>1. CASE f.next_block_id <= LastBlock /\ b = f.next_block_id
        BY <2>2, <3>1 DEF Sound, Block
      <3> QED
        BY <1>1, <3>1, GrantOrder
    <2>10. /\ w.blocks[b].op = op /\ w.blocks[b].node = node /\ w.blocks[b].offset = offset
           /\ w.disk[b].op = op /\ w.disk[b].node = node /\ w.disk[b].offset = offset
           /\ w.disk[b].seq = w.blocks[b].seq /\ w.blocks[b].seq = f.next_seq_id
           /\ w.next_seq_id = w.blocks[b].seq + 1
      BY <2>4, <2>7
    <2>11. \A c \in Block : c # b /\ f.blocks[c].op # "NONE" => f.blocks[c].seq < w.blocks[b].seq
      BY <2>8, <2>10
    <2> HIDE DEF row, rec
    <2>12. Settled(w)
      BY <1>1, <2>2, <2>5, <2>7, <2>9, <2>10, <2>11, EnterSettled
    <2> QED
      BY <2>12 DEF w
  <1> QED
    BY <1>2, <1>3

\* A record that frees nothing finds settled tables ready.
LEMMA PlainReady ==
    ASSUME NEW f, Justified(f), NEW op \in {"NODE", "MOVE", "DATA"}, NEW node, NEW offset
    PROVE  Ready(f, op, node, offset)
  BY DEF Justified, Ready, Frees

\* The rows of a node make way for its DELETE.
LEMMA DropNodeReady ==
    ASSUME NEW m \in Machine, MirrorsAll(m), Settled(m), NEW node \in Nat, NEW offset
    PROVE  Ready(DropNode(m, node), "DELETE", node, offset)
  <1> DEFINE f == DropNode(m, node)
  <1>1. m.blocks \in [Block -> BlockRow]
    BY DEF Machine
  <1>2. f.disk = m.disk
        /\ \A b \in Block : f.blocks[b] = IF m.blocks[b].node = node /\ m.blocks[b].op # "NONE"
                                          THEN [m.blocks[b] EXCEPT !.op = "FREE"] ELSE m.blocks[b]
    BY DEF DropNode, Machine
  <1> HIDE DEF f
  <1>3. \A b \in Block : /\ m.blocks[b].node # node => f.blocks[b] = m.blocks[b]
                         /\ m.blocks[b].node = node => f.blocks[b].op \in {"NONE", "FREE"}
                         /\ f.blocks[b].node = m.blocks[b].node
    BY <1>1, <1>2 DEF BlockRow
  <1>4. ASSUME NEW b \in Rows(f, "FREE")
        PROVE  (\E c \in Block : Voids(f, c, b)) \/ Covers(f, "DELETE", node, offset, b)
    <2>1. CASE m.blocks[b].node = node
      BY <1>3, <2>1 DEF Covers, Rows
    <2>2. CASE m.blocks[b].node # node
      <3>1. b \in Block /\ b \in Rows(m, "FREE") /\ f.blocks[b] = m.blocks[b]
        BY <1>3, <2>2 DEF Rows
      <3>2. PICK c \in Block : Voids(m, c, b)
        BY <3>1 DEF Settled, Justified
      <3>3. f.blocks[c] = m.blocks[c]
        BY <1>3, <2>2, <3>2 DEF Voids, Covers
      <3>4. Voids(f, c, b)
        BY <1>2, <3>1, <3>2, <3>3 DEF Voids, Covers
      <3> QED
        BY <3>4
    <2> QED
      BY <2>1, <2>2
  <1>5. ASSUME NEW b \in Block, Used(f, b)
        PROVE  ~ Frees(f.disk, "DELETE", node, offset, b)
    BY <1>2, <1>3, <1>5 DEF Used, MirrorsAll, Mirrors, Frees
  <1>6. Ready(f, "DELETE", node, offset)
    BY <1>4, <1>5 DEF Ready
  <1> QED
    BY <1>6 DEF f

\* The data of a node make way for its TRUNCATE.
LEMMA DropDataReady ==
    ASSUME NEW m \in Machine, MirrorsAll(m), Settled(m), NEW node \in Nat, NEW size \in Sizes
    PROVE  Ready(DropData(m, node, size), "TRUNCATE", node, size)
  <1> DEFINE f == DropData(m, node, size)
  <1>1. m.blocks \in [Block -> BlockRow] /\ m.disk \in [Block -> DiskRecord] /\ size \in Nat
    BY SizesAssumption DEF Machine
  <1>2. f.disk = m.disk
        /\ \A b \in Block : f.blocks[b] = IF m.blocks[b].node = node
                                          THEN Cut(m.blocks[b], size) ELSE m.blocks[b]
    BY DEF DropData, Machine
  <1> HIDE DEF f
  <1>3. \A b \in Block : f.blocks[b].node = m.blocks[b].node /\ f.blocks[b].seq = m.blocks[b].seq
    BY <1>1, <1>2, CutType
  <1>4. \A b \in Block : m.blocks[b].op \notin {"NONE", "FREE"} =>
          m.disk[b].op = m.blocks[b].op /\ m.disk[b].offset = m.blocks[b].offset
    BY DEF MirrorsAll, Mirrors
  <1>5. ASSUME NEW b \in Rows(f, "FREE")
        PROVE  (\E c \in Block : Voids(f, c, b)) \/ Covers(f, "TRUNCATE", node, size, b)
    <2>0. b \in Block /\ f.blocks[b].op = "FREE" /\ m.blocks[b] \in BlockRow
      BY <1>1 DEF Rows
    <2>1. CASE m.blocks[b].op # "FREE"
      <3>1. m.blocks[b].node = node /\ Cut(m.blocks[b], size).op = "FREE"
        BY <1>2, <2>0, <2>1
      <3>2. m.blocks[b].op = "TRUNCATE" \/ (m.blocks[b].op = "DATA" /\ m.blocks[b].offset >= size)
        BY <2>0, <2>1, <3>1 DEF Cut, BlockRow
      <3>3. m.blocks[b].offset \in Nat
        BY <2>0 DEF BlockRow
      <3> QED
        BY <1>1, <1>2, <1>3, <1>4, <2>0, <3>1, <3>2, <3>3 DEF Covers
    <2>2. CASE m.blocks[b].op = "FREE"
      <3>1. PICK c \in Block : Voids(m, c, b)
        BY <2>0, <2>2 DEF Settled, Justified, Rows
      <3>2. CASE f.blocks[c].op = m.blocks[c].op /\ f.blocks[c].offset = m.blocks[c].offset
        <4>1. Voids(f, c, b)
          BY <1>2, <1>3, <2>0, <3>1, <3>2 DEF Voids, Covers
        <4> QED
          BY <4>1
      <3>3. CASE ~ (f.blocks[c].op = m.blocks[c].op /\ f.blocks[c].offset = m.blocks[c].offset)
        <4>1. m.blocks[c].node = node /\ m.blocks[c].op \in {"DELETE", "TRUNCATE"}
          BY <1>2, <3>1, <3>3 DEF Voids, Covers
        <4>2. m.blocks[c].op = "TRUNCATE"
          BY <1>1, <1>2, <3>3, <4>1 DEF Cut, BlockRow
        <4>3. m.blocks[c].offset \in Sizes
          BY <1>4, <4>2 DEF Settled, CutsToSizes
        <4>4. OneSize => m.blocks[c].offset = size
          BY <4>3 DEF OneSize
        <4> QED
          BY <1>2, <1>3, <2>0, <3>1, <4>1, <4>2, <4>4 DEF Voids, Covers
      <3> QED
        BY <3>2, <3>3
    <2> QED
      BY <2>1, <2>2
  <1>6. ASSUME NEW b \in Block, Used(f, b), Frees(f.disk, "TRUNCATE", node, size, b)
        PROVE  FALSE
    <2>1. m.blocks[b] \in BlockRow /\ m.blocks[b].offset \in Nat
      BY <1>1 DEF BlockRow
    <2>2. Used(m, b)
      BY <1>2, <1>6, <2>1, CutType DEF Used, Cut, BlockRow
    <2>3. m.blocks[b].node = node
      BY <1>2, <1>6, <2>2 DEF Frees, Used, MirrorsAll, Mirrors
    <2>4. m.blocks[b].op = "TRUNCATE" \/ (m.blocks[b].op = "DATA" /\ m.blocks[b].offset >= size)
      BY <1>1, <1>2, <1>4, <1>6, <2>1, <2>2 DEF Frees, Used
    <2>5. Cut(m.blocks[b], size).op = "FREE"
      BY <2>1, <2>4 DEF Cut, BlockRow
    <2> QED
      BY <1>2, <1>6, <2>3, <2>5 DEF Used
  <1>7. Ready(f, "TRUNCATE", node, size)
    BY <1>5, <1>6 DEF Ready
  <1> QED
    BY <1>7 DEF f

-----------------------------------------------------------------------------
(* The steps of a mounted process. *)

\* Neither is a block left to append to, nor one that is free or holds a deletion.
NoSpace(m) ==
    /\ m.next_block_id = LastBlock + 1
    /\ Rows(m, "FREE") = {} /\ Rows(m, "DELETE") = {}

\* What is settled shows in the block rows, the records and the next number.
LEMMA SameSettled ==
    ASSUME NEW m, Settled(m), NEW n,
           n.blocks = m.blocks, n.disk = m.disk, n.next_seq_id = m.next_seq_id
    PROVE  Settled(n)
  BY DEF Settled, Justified, Rows, Voids, Covers, Spared, Used, CutsToSizes, NextFollows

\* A write that returns ENOSPC leaves no space.
LEMMA WriteFull ==
    ASSUME NEW f, Sound(f), NEW op \in LogOp, NEW node \in Nat, NEW fill \in Nat,
           NEW offset \in Nat, NEW entry \in NodeRow \cup {NoEntry},
           Write(f, op, node, fill, offset, entry).r = "ENOSPC"
    PROVE  NoSpace(Write(f, op, node, fill, offset, entry))
  <1> DEFINE w == Write(f, op, node, fill, offset, entry)
  <1>1. Good(f) /\ f \in Machine
    BY DEF Sound, Good
  <1>2. Grants(f, node) = {}
    BY WriteResult
  <1>3. w = [f EXCEPT !.r = "ENOSPC"]
    BY <1>2 DEF Write, Return
  <1>4. w.blocks = f.blocks /\ w.next_block_id = f.next_block_id
    BY <1>1, <1>3 DEF Machine
  <1> HIDE DEF w
  <1>5. NoSpace(w)
    BY <1>1, <1>2, <1>4, NoGrant DEF NoSpace, Rows
  <1> QED
    BY <1>5 DEF w

\* Every form of a step keeps a machine settled, and returns ENOSPC only when no
\* space is left.
LEMMA FormSettled ==
    ASSUME NEW m, Sound(m), Settled(m), NEW n, Form(m, n)
    PROVE  Settled(n) /\ (n.r = "ENOSPC" => n = m \/ NoSpace(n))
  <1>1. m \in Machine /\ MirrorsAll(m)
    BY DEF Sound, Good
  <1>2. CASE ReturnForm(m, n)
    <2>1. CASE n = m
      BY <2>1
    <2>2. ASSUME NEW r \in Verdict, n = Return(m, r)
          PROVE  Settled(n) /\ n.r # "ENOSPC"
      <3>1. n.blocks = m.blocks /\ n.disk = m.disk /\ n.next_seq_id = m.next_seq_id /\ n.r = r
        BY <1>1, <2>2 DEF Return, Machine
      <3> QED
        BY <3>1, SameSettled DEF Verdict
    <2> QED
      BY <1>2, <2>1, <2>2 DEF ReturnForm
  <1>3. ASSUME NEW f, Fades(m, f), NEW op \in LogOp, NEW node \in Nat, NEW fill \in Nat,
               NEW offset \in Nat, NEW entry \in NodeRow \cup {NoEntry},
               Ready(f, op, node, offset), n = Write(f, op, node, fill, offset, entry)
        PROVE  Settled(n) /\ (n.r = "ENOSPC" => NoSpace(n))
    <2>1. Sound(f) /\ Spared(f) /\ CutsToSizes(f.disk) /\ NextFollows(f)
      BY <1>1, <1>3, FadesSound, FadesSpared DEF Settled
    <2> QED
      BY <1>3, <2>1, WriteSettled, WriteFull
  <1>4. CASE EntryForm(m, n)
    <2>1. PICK f \in Machine, op \in {"NODE", "MOVE"}, row \in NodeRow :
            Fades(m, f) /\ f.blocks = m.blocks /\ n = WriteEntry(f, op, row)
      BY <1>4 DEF EntryForm
    <2>2. Settled(f)
      BY <2>1, SameSettled DEF Fades
    <2>3. Ready(f, op, row.node, 0)
      BY <2>2, PlainReady DEF Settled
    <2> QED
      BY <1>3, <2>1, <2>3 DEF WriteEntry, LogOp, NodeRow
  <1>5. CASE DeleteForm(m, n)
    <2>1. PICK row \in NodeRow : n = WriteEntry(DropNode(m, row.node), "DELETE", row)
      BY <1>5 DEF DeleteForm
    <2>2. row.node \in Nat
      BY DEF NodeRow
    <2>3. Fades(m, DropNode(m, row.node)) /\ Ready(DropNode(m, row.node), "DELETE", row.node, 0)
      BY <1>1, <2>2, DropNodeFades, DropNodeReady
    <2> QED
      BY <1>3, <2>1, <2>2, <2>3 DEF WriteEntry, LogOp
  <1>6. CASE TruncateForm(m, n)
    <2>1. PICK node \in Nat, size \in Sizes :
            n = Write(DropData(m, node, size), "TRUNCATE", node, 0, size, NoEntry)
      BY <1>6 DEF TruncateForm
    <2>2. size \in Nat
      BY SizesAssumption
    <2>3. /\ Fades(m, DropData(m, node, size))
          /\ Ready(DropData(m, node, size), "TRUNCATE", node, size)
      BY <1>1, <2>2, DropDataFades, DropDataReady
    <2> QED
      BY <1>3, <2>1, <2>2, <2>3 DEF LogOp
  <1>7. CASE DataForm(m, n)
    <2>1. PICK node \in Nat, fill \in Nat, offset \in Nat :
            n = Write(m, "DATA", node, fill, offset, NoEntry)
      BY <1>7 DEF DataForm
    <2>2. Ready(m, "DATA", node, offset)
      BY PlainReady DEF Settled
    <2>3. Settled(n)
      BY <2>1, <2>2, WriteSettled DEF Settled, LogOp
    <2> QED
      BY <2>1, <2>3, WriteFull DEF LogOp
  <1> QED
    BY <1>2, <1>4, <1>5, <1>6, <1>7 DEF Form, NameForm

-----------------------------------------------------------------------------
(* The steps of a mount. *)

\* A mount begins settled.
LEMMA FreshSettled ==
    ASSUME NEW disk, CutsToSizes(disk)
    PROVE  Settled(Fresh(disk))
  <1> DEFINE m == Fresh(disk)
  <1>1. m.next_seq_id = 1 /\ m.disk = disk /\ \A b \in Block : m.blocks[b].op = "NONE"
    BY DEF Fresh, NoRow
  <1> HIDE DEF m
  <1>2. Settled(m)
    BY <1>1 DEF Settled, Justified, Rows, Spared, Used, NextFollows
  <1> QED
    BY <1>2 DEF m

\* Replaying the oldest record left keeps a machine settled, also when it fails.
LEMMA ReplaySettled ==
    ASSUME NEW m, NEW left, Replaying(m, left), Settled(m), NEW b \in left,
           \A c \in left : m.disk[b].seq <= m.disk[c].seq
    PROVE  Settled(Replay(m, b))
  <1> DEFINE rec == m.disk[b]
             done == Effect(m, rec)
             row == [op |-> rec.op, seq |-> rec.seq, node |-> rec.node,
                     fill |-> rec.fill, offset |-> rec.offset]
             n == Replay(m, b)
  <1>1. /\ DiskSound(m.disk) /\ MirrorsAll(m) /\ m \in Machine
        /\ m.disk \in [Block -> DiskRecord]
    BY DEF Replaying, Good, DiskSound
  <1>2. /\ b \in Block /\ b \in Valid(m.disk) /\ rec \in DiskRecord /\ rec.op \in LogOp
        /\ rec.node \in Nat /\ rec.offset \in Nat
    BY <1>1 DEF Replaying, Valid, DiskRecord
  <1>3. Fades(m, done) /\ done.r \in Errno \cup {"OK"}
    BY <1>1, <1>2, EffectFades DEF DiskSound
  <1>4. done \in Machine /\ MirrorsAll(done) /\ Spared(done) /\ CutsToSizes(done.disk)
        /\ done.disk = m.disk
    <2>1. Good(m) /\ Spared(m) /\ CutsToSizes(m.disk)
      BY DEF Replaying, Settled
    <2> HIDE DEF done
    <2>2. done \in Machine /\ done.disk = m.disk
      BY <1>3 DEF Fades
    <2>3. MirrorsAll(done)
      BY <1>1, <1>3, <2>1, FadesMirrors
    <2>4. Spared(done) /\ CutsToSizes(done.disk)
      BY <1>1, <1>3, <2>1, FadesSpared
    <2> QED
      BY <2>2, <2>3, <2>4
  <1>5. Ready(done, rec.op, rec.node, rec.offset) /\ (done.r # "OK" => Settled(done))
    <2>1. CASE rec.op \in {"DATA", "NODE", "MOVE"}
      <3>1. done.blocks = m.blocks /\ done.next_seq_id = m.next_seq_id
        BY <1>1, <2>1 DEF Effect, Return, MoveRow, Machine
      <3> HIDE DEF done
      <3>2. Settled(done)
        BY <1>4, <3>1, SameSettled
      <3>3. Ready(done, rec.op, rec.node, rec.offset)
        BY <2>1, <3>2, PlainReady DEF Settled
      <3> QED
        BY <3>2, <3>3
    <2>2. CASE rec.op = "DELETE"
      <3>1. done = DropNode(m, rec.node)
        BY <2>2 DEF Effect
      <3>2. done.r = "OK"
        BY <1>1, <3>1 DEF DropNode, Machine
      <3> QED
        BY <1>1, <1>2, <2>2, <3>1, <3>2, DropNodeReady
    <2>3. CASE rec.op = "TRUNCATE"
      <3>1. done = DropData(m, rec.node, rec.offset)
        BY <2>3 DEF Effect
      <3>2. done.r = "OK"
        BY <1>1, <3>1 DEF DropData, Machine
      <3>3. rec.offset \in Sizes
        BY <1>2, <2>3 DEF Settled, CutsToSizes
      <3> QED
        BY <1>1, <1>2, <2>3, <3>1, <3>2, <3>3, DropDataReady
    <2> QED
      BY <1>2, <2>1, <2>2, <2>3 DEF LogOp
  <1> HIDE DEF done
  <1>6. CASE done.r # "OK"
    BY <1>5, <1>6 DEF Replay, done
  <1>7. CASE done.r = "OK"
    <2>1. n \in Machine /\ n.disk = m.disk
      BY ReplaySound DEF Good
    <2>2. n = [done EXCEPT !.blocks[b] = row,
                           !.next_node_id = Larger(@, rec.node + 1),
                           !.next_block_id = Larger(@, b + 1),
                           !.next_seq_id = rec.seq + 1]
      BY <1>7 DEF Replay, done
    <2>3. done.blocks \in [Block -> BlockRow]
      BY <1>4 DEF Machine
    <2> HIDE DEF row, rec
    <2>4. n.blocks = [done.blocks EXCEPT ![b] = row] /\ n.next_seq_id = rec.seq + 1
      BY <1>4, <2>2 DEF Machine
    <2> HIDE DEF n
    <2>5. n.blocks[b] = row /\ \A c \in Block : c # b => n.blocks[c] = done.blocks[c]
      BY <1>2, <2>3, <2>4
    <2>6. n.disk[b] = rec
      BY <2>1 DEF rec
    <2>7. /\ n.blocks[b].op = rec.op /\ n.blocks[b].node = rec.node
          /\ n.blocks[b].offset = rec.offset /\ n.blocks[b].seq = rec.seq
          /\ n.next_seq_id = n.blocks[b].seq + 1
      BY <2>4, <2>5 DEF row
    <2>8. done.blocks[b].op = "NONE"
      BY <1>2, <1>3 DEF Replaying, Fades
    <2>9. \A c \in Block : done.blocks[c].op # "NONE" => done.blocks[c].seq < rec.seq
      <3> SUFFICES ASSUME NEW c \in Block, done.blocks[c].op # "NONE"
                   PROVE  done.blocks[c].seq < rec.seq
        OBVIOUS
      <3>1. c \in Valid(m.disk) \ left
        BY <1>3 DEF Replaying, Fades
      <3>2. m.disk[c].seq < rec.seq
        BY <3>1 DEF Replaying, rec
      <3> QED
        BY <1>4, <3>2 DEF MirrorsAll, Mirrors
    <2>10. Settled(n)
      BY <1>2, <1>4, <1>5, <2>1, <2>5, <2>6, <2>7, <2>8, <2>9, EnterSettled
    <2> QED
      BY <2>10 DEF n
  <1> QED
    BY <1>6, <1>7

-----------------------------------------------------------------------------
(* The invariants. *)

\* A mounted process that has returned ENOSPC has no space left.
Exhausted ==
    /\ mode = "loading" => fs.r = "OK"
    /\ mode = "mounted" /\ fs.r = "ENOSPC" => NoSpace(fs)

SInv == IInv /\ Settled(fs) /\ Exhausted

\* A formatted container is settled and has returned nothing.
LEMMA InitSInv == Init => SInv
  <1> SUFFICES ASSUME Init PROVE SInv
    OBVIOUS
  <1> DEFINE disk == [b \in Block |-> NoRecord]
  <1>1. CutsToSizes(disk)
    BY DEF CutsToSizes, NoRecord
  <1> HIDE DEF disk
  <1>2. fs = Fresh(disk) /\ mode = "mounted"
    BY DEF Init, disk
  <1>3. Settled(fs)
    BY <1>1, <1>2, FreshSettled
  <1>4. Exhausted
    BY <1>2 DEF Exhausted, Fresh
  <1> QED
    BY <1>3, <1>4, InitIInv DEF SInv

\* Every step of a process, mounting or mounted, keeps them.
LEMMA StepSInv == SInv /\ [Next]_vars => SInv'
  <1> SUFFICES ASSUME SInv, [Next]_vars PROVE SInv'
    OBVIOUS
  <1>1. IInv'
    BY StepIInv DEF SInv
  <1>2. CASE mode = "mounted" /\ mode' = "mounted"
    <2>1. Form(fs, fs') /\ Sound(fs) /\ Settled(fs)
      BY <1>2, StepForm DEF SInv, IInv
    <2>2. Settled(fs') /\ (fs'.r = "ENOSPC" => fs' = fs \/ NoSpace(fs'))
      BY <2>1, FormSettled
    <2> QED
      BY <1>1, <1>2, <2>2 DEF SInv, Exhausted
  <1>3. CASE Stop
    <2>1. fs' = Fresh(fs.disk) /\ mode' = "down"
      BY <1>3 DEF Stop
    <2>2. Settled(fs')
      BY <2>1, FreshSettled DEF SInv, Settled
    <2> QED
      BY <1>1, <2>1, <2>2 DEF SInv, Exhausted
  <1>4. CASE Mount
    <2>1. fs' = fs /\ mode' = "loading" /\ fs = Fresh(fs.disk)
      BY <1>4 DEF Mount, SInv, IInv
    <2>2. fs'.r = "OK"
      BY <2>1 DEF Fresh
    <2> QED
      BY <1>1, <2>1, <2>2 DEF SInv, Exhausted
  <1>5. CASE Mounted \/ UNCHANGED vars
    <2>1. fs' = fs
      BY <1>5 DEF Mounted, vars
    <2>2. mode' = mode \/ (mode = "loading" /\ mode' = "mounted")
      BY <1>5 DEF Mounted, vars
    <2> QED
      BY <1>1, <2>1, <2>2 DEF SInv, Exhausted
  <1>6. ASSUME NEW b \in Block, LoadRecord(b)
        PROVE  SInv'
    <2>1. /\ mode = "loading" /\ b \in todo /\ fs' = Replay(fs, b)
          /\ \A c \in todo : fs.disk[b].seq <= fs.disk[c].seq
          /\ mode' = IF fs'.r = "OK" THEN mode ELSE "failed"
      BY <1>6 DEF LoadRecord
    <2>2. Replaying(fs, todo) /\ Settled(fs)
      BY <2>1 DEF SInv, IInv
    <2>3. Settled(fs')
      BY <2>1, <2>2, ReplaySettled
    <2> QED
      BY <1>1, <2>1, <2>3 DEF SInv, Exhausted
  <1>7. ASSUME mode # "mounted" \/ mode' # "mounted"
        PROVE  ~ Call /\ ~ Finish
    BY <1>7 DEF Call, Finish, Begin, SetFile, SetDir, SetTime, DelNode, SetLink,
                MoveNode, DelData, SetData, FinishLink, FinishMove, WriteChunk
  <1> QED
    BY <1>2, <1>3, <1>4, <1>5, <1>6, <1>7 DEF Next, Load

\* They hold in every reachable state.
THEOREM SpaceInvariant == Spec => []SInv
  BY InitSInv, StepSInv, PTL DEF Spec

-----------------------------------------------------------------------------
(* What a reused block may destroy. *)

\* When all truncations cut to one size, a row is free only as long as a younger
\* record in use makes its record void again at the next mount: a block is safe
\* to reuse in the order of _oncefs_block_reuse, at every size of the container,
\* for every history of calls, crashes and mounts.
THEOREM FreeJustified == ASSUME OneSize PROVE Spec => []JustifiedFree
  <1>1. ASSUME NEW b \in Block, NEW c \in Block, Voids(fs, c, b), IInv, fs.blocks[b].op # "NONE"
        PROVE  Cancels(fs, c, b)
    BY <1>1 DEF Voids, Covers, Cancels
  <1>2. SInv => JustifiedFree
    BY <1>1 DEF SInv, Settled, Justified, JustifiedFree, Rows
  <1> QED
    BY <1>2, SpaceInvariant, PTL

\* The row of a node or of its data is freed only by a deletion of the node, the
\* row of data also by a truncation, and that record is still there.
FreedForCause ==
    \A b \in Rows(fs, "FREE") : \E c \in Block :
        /\ fs.blocks[c].node = fs.blocks[b].node /\ fs.blocks[c].seq > fs.blocks[b].seq
        /\ \/ fs.blocks[c].op = "DELETE"
           \/ fs.blocks[c].op = "TRUNCATE" /\ fs.disk[b].op \in {"DATA", "TRUNCATE"}

\* For truncations to any sizes: what was freed has a cause that is in use, and
\* nothing in use is undone by the replay of a younger record, be that in use or
\* free.
THEOREM ReuseSafe == Spec => [](FreedForCause /\ Spared(fs))
  <1>1. SInv => FreedForCause
    BY DEF SInv, Settled, Justified, FreedForCause, Voids, Covers
  <1>2. SInv => Spared(fs)
    BY DEF SInv, Settled
  <1> QED
    BY <1>1, <1>2, SpaceInvariant, PTL

\* A call that fails for lack of space leaves a file system whose statistics
\* promise no free block, whatever it has freed on its way.
THEOREM FullHonestly == Spec => []HonestFull
  <1>1. SInv => HonestFull
    <2> SUFFICES ASSUME SInv, mode = "mounted", fs.r = "ENOSPC"
                 PROVE  FreeBlocks(fs) = 0
      BY DEF HonestFull
    <2>1. NoSpace(fs)
      BY DEF SInv, Exhausted
    <2>2. Cardinality(Rows(fs, "FREE")) = 0 /\ Cardinality(Rows(fs, "DELETE")) = 0
      BY <2>1, EmptyCardinality DEF NoSpace
    <2> QED
      BY <2>1, <2>2, LastBlockAssumption DEF NoSpace, FreeBlocks
  <1> QED
    BY <1>1, SpaceInvariant, PTL

-----------------------------------------------------------------------------
(* Whole calls. *)

\* The data rows of m are the same in n.
SameData(m, n) == \A b \in Rows(m, "DATA") : n.blocks[b] = m.blocks[b]

\* What a call in progress has done since it began: a link or the data of a file has
\* cost no data; a rename over a file has left a deletion in use, and its name free.
Underway ==
    /\ job = NoJob => began = fs
    /\ job.kind \in {"link", "data"} => SameData(began, fs)
    /\ job.kind = "move" =>
         /\ Rows(fs, "DELETE") # {}
         /\ Shared \/ Lookup(fs.nodes, job.row.parent, job.row.name) = {}

CInv == IInv /\ Underway

\* A record never falls on a data row.
LEMMA WriteKeepsData ==
    ASSUME NEW f, Sound(f), NEW op \in LogOp, NEW node \in Nat, NEW fill \in Nat,
           NEW offset \in Nat, NEW entry \in NodeRow \cup {NoEntry},
           NEW n, n = Write(f, op, node, fill, offset, entry)
    PROVE  SameData(f, n)
  <1>1. Good(f) /\ f \in Machine
    BY DEF Sound, Good
  <1>2. CASE Grants(f, node) = {}
    <2>1. n.blocks = f.blocks
      BY <1>1, <1>2 DEF Write, Return, Machine
    <2> QED
      BY <2>1 DEF SameData
  <1>3. CASE Grants(f, node) # {}
    <2>1. PICK b \in Grants(f, node) : n = Laid(f, op, node, fill, offset, entry, b)
      BY <1>1, <1>3, WriteEffect
    <2>2. \A c \in Block : c # b => n.blocks[c] = f.blocks[c]
      BY <1>1, <2>1 DEF Laid, Machine
    <2>3. b \in Block /\ (b = f.next_block_id \/ f.blocks[b].op \in {"FREE", "DELETE", "NODE"})
      BY <1>1, <2>1, GrantsType
    <2>4. b = f.next_block_id => f.blocks[b].op = "NONE"
      BY <1>1, <2>3 DEF Sound, Good
    <2>5. f.blocks[b].op # "DATA"
      BY <2>3, <2>4
    <2> QED
      BY <2>2, <2>5 DEF SameData, Rows
  <1> QED
    BY <1>2, <1>3

\* So a step that frees nothing costs no data.
LEMMA FormIntact ==
    ASSUME NEW m, Sound(m), NEW n, ReturnForm(m, n) \/ EntryForm(m, n) \/ DataForm(m, n)
    PROVE  SameData(m, n)
  <1>1. m \in Machine
    BY DEF Sound, Good
  <1>2. CASE ReturnForm(m, n)
    <2>1. n.blocks = m.blocks
      BY <1>1, <1>2 DEF ReturnForm, Return, Machine
    <2> QED
      BY <2>1 DEF SameData
  <1>3. CASE EntryForm(m, n)
    <2>1. PICK f \in Machine, op \in {"NODE", "MOVE"}, row \in NodeRow :
            Fades(m, f) /\ f.blocks = m.blocks /\ n = WriteEntry(f, op, row)
      BY <1>3 DEF EntryForm
    <2>2. Sound(f) /\ row.node \in Nat /\ op \in LogOp
      BY <2>1, FadesSound DEF NodeRow, LogOp
    <2>3. SameData(f, n)
      BY <2>1, <2>2, WriteKeepsData DEF WriteEntry
    <2> QED
      BY <2>1, <2>3 DEF SameData, Rows
  <1>4. CASE DataForm(m, n)
    BY <1>4, WriteKeepsData DEF DataForm, LogOp
  <1> QED
    BY <1>2, <1>3, <1>4

\* A write refused for lack of space leaves every row, and has found no free one.
LEMMA RefusedWrite ==
    ASSUME NEW f, Sound(f), NEW op \in LogOp, NEW node \in Nat, NEW fill \in Nat,
           NEW offset \in Nat, NEW entry \in NodeRow \cup {NoEntry},
           NEW n, n = Write(f, op, node, fill, offset, entry), n.r = "ENOSPC"
    PROVE  n.blocks = f.blocks /\ Rows(f, "FREE") = {} /\ Rows(f, "DELETE") = {}
  <1>1. n.blocks = f.blocks
    BY WriteCases DEF Sound
  <1>2. NoSpace(n)
    BY WriteFull
  <1> QED
    BY <1>1, <1>2 DEF NoSpace, Rows

\* A deletion refused for lack of space has freed no row.
LEMMA RefusedDelete ==
    ASSUME NEW m, Sound(m), NEW n, DeleteForm(m, n), n.r = "ENOSPC"
    PROVE  SameData(m, n)
  <1>1. m \in Machine
    BY DEF Sound, Good
  <1>2. PICK row \in NodeRow : n = WriteEntry(DropNode(m, row.node), "DELETE", row)
    BY DEF DeleteForm
  <1> DEFINE f == DropNode(m, row.node)
  <1>3. Sound(f) /\ row.node \in Nat /\ "DELETE" \in LogOp
    BY DropNodeSound DEF NodeRow, LogOp
  <1>4. \A b \in Block : f.blocks[b] = IF m.blocks[b].node = row.node /\ m.blocks[b].op # "NONE"
                                       THEN [m.blocks[b] EXCEPT !.op = "FREE"] ELSE m.blocks[b]
    BY <1>1 DEF DropNode, Machine
  <1> HIDE DEF f
  <1>5. n = Write(f, "DELETE", row.node, 0, 0, row)
    BY <1>2 DEF WriteEntry, f
  <1>6. n.blocks = f.blocks /\ Rows(f, "FREE") = {}
    BY <1>3, <1>5, RefusedWrite
  <1>7. \A b \in Block : m.blocks[b] \in BlockRow
    BY <1>1 DEF Machine
  <1>8. ASSUME NEW b \in Rows(m, "DATA") PROVE n.blocks[b] = m.blocks[b]
    <2>1. b \in Block /\ m.blocks[b].op = "DATA" /\ f.blocks[b].op # "FREE"
      BY <1>6 DEF Rows
    <2>2. m.blocks[b].node # row.node
      BY <1>4, <1>7, <2>1 DEF BlockRow
    <2> QED
      BY <1>4, <1>6, <2>1, <2>2
  <1> QED
    BY <1>8 DEF SameData

\* A truncation refused for lack of space has freed no row either: every data row
\* of the file begins below the new size, and keeps the bytes that do.
LEMMA RefusedTruncation ==
    ASSUME NEW m, Sound(m), NEW node \in Nat, NEW size \in Nat,
           NEW n, n = Truncate(m, node, size), n.r = "ENOSPC", NEW b \in Rows(m, "DATA")
    PROVE  \/ n.blocks[b] = m.blocks[b]
           \/ /\ m.blocks[b].node = node /\ m.blocks[b].offset < size
              /\ n.blocks[b] = Trimmed(m.blocks[b], size)
  <1>1. m \in Machine /\ b \in Block /\ m.blocks[b].op = "DATA" /\ m.blocks[b] \in BlockRow
    BY DEF Sound, Good, Machine, Rows
  <1> DEFINE f == DropData(m, node, size)
             x == m.blocks[b]
  <1>2. n = Write(f, "TRUNCATE", node, 0, size, NoEntry)
    <2>1. Return(m, "ENOENT").r = "ENOENT"
      BY <1>1 DEF Return, Machine
    <2> QED
      BY <2>1 DEF Truncate
  <1>3. f.blocks[b] = IF x.node = node THEN Cut(x, size) ELSE x
    BY <1>1 DEF DropData, Machine
  <1>4. Sound(f) /\ "TRUNCATE" \in LogOp
    BY DropDataSound DEF LogOp
  <1> HIDE DEF f
  <1>5. n.blocks = f.blocks /\ Rows(f, "FREE") = {}
    BY <1>2, <1>4, RefusedWrite
  <1>6. CASE x.node = node
    <2>1. Cut(x, size).op # "FREE"
      BY <1>1, <1>3, <1>5, <1>6 DEF Rows
    <2>2. x.op = "DATA" /\ x \in BlockRow
      BY <1>1
    <2> HIDE DEF x
    <2>3. x.offset \in Nat /\ x.fill \in Nat /\ [x EXCEPT !.op = "FREE"].op = "FREE"
          /\ x = [x EXCEPT !.fill = x.fill]
      BY <2>2 DEF BlockRow
    <2>4. ~ (x.offset >= size)
      BY <2>1, <2>2, <2>3 DEF Cut
    <2>5. x.offset < size
      BY <2>3, <2>4
    <2>6. Cut(x, size) = Trimmed(x, size)
      <3>1. CASE x.offset + x.fill > size
        <4>1. size < x.offset + x.fill
          BY <2>3, <3>1
        <4> QED
          BY <2>2, <2>4, <3>1, <4>1 DEF Cut, Trimmed
      <3>2. CASE ~ (x.offset + x.fill > size)
        <4>1. ~ (size < x.offset + x.fill)
          BY <2>3, <3>2
        <4> QED
          BY <2>2, <2>3, <2>4, <3>2, <4>1 DEF Cut, Trimmed
      <3> QED
        BY <3>1, <3>2
    <2> QED
      BY <1>3, <1>5, <1>6, <2>5, <2>6 DEF x
  <1> QED
    BY <1>3, <1>5, <1>6

\* The second record of a link, and a record of data.
LEMMA FinishWrites ==
    ASSUME Typed, FinishLink \/ WriteChunk
    PROVE  EntryForm(fs, fs') \/ DataForm(fs, fs')
  <1>1. job \in Job /\ fs \in Machine
    BY DEF Typed
  <1>2. CASE FinishLink
    <2>1. job.row \in NodeRow /\ fs' = WriteEntry(fs, "NODE", job.row) /\ HasKey(fs.nodes, job.row)
      BY <1>1, <1>2, JobType DEF FinishLink, Typed, Linked
    <2>2. Fades(fs, fs)
      <3>1. \A b \in Block : fs.blocks[b].fill \in Nat
        BY <1>1 DEF Machine, BlockRow
      <3> QED
        BY <1>1, <3>1 DEF Fades, Machine
    <2>3. Keeps(fs.nodes, fs.nodes)
      BY DEF Keeps, HasKey
    <2> QED
      BY <1>1, <2>1, <2>2, <2>3 DEF EntryForm
  <1>3. CASE WriteChunk
    <2> DEFINE amount == IF job.size > Payload THEN Payload ELSE job.size
    <2>1. fs' = Write(fs, "DATA", job.node, amount, job.offset, NoEntry) /\ job.kind = "data"
      BY <1>3 DEF WriteChunk
    <2>2. job.node \in Nat /\ job.offset \in Nat /\ amount \in Nat
      BY <1>1, <2>1, JobType, PayloadAssumption
    <2> HIDE DEF amount
    <2> QED
      BY <2>1, <2>2 DEF DataForm
  <1> QED
    BY <1>2, <1>3

\* A rename that deletes a file has left its name free, unless it was not the only
\* row of that name; the deletion is in use.
LEMMA MoveUnderway ==
    ASSUME IInv, NEW from \in Paths, NEW to \in Paths, MoveNode(from, to), job' # NoJob,
           began' = fs
    PROVE  Underway'
  <1> DEFINE src == Resolve(fs.nodes, from)
             dir == Resolve(fs.nodes, Dirname(to))
             row == [src.row EXCEPT !.parent = dir.row.node, !.name = Basename(to)]
             hits == Lookup(fs.nodes, dir.row.node, Basename(to))
             z == Resolve(fs.nodes, to).row
  <1>1. job = NoJob /\ mode = "mounted" /\ Sound(fs) /\ fs \in Machine /\ NoJob.kind = "none"
    BY DEF MoveNode, Begin, IInv, Typed, NoJob
  <1>2. /\ src.r = "OK" /\ fs' = Delete(fs, to) /\ fs'.r = "OK"
        /\ job' = [kind |-> "move", row |-> row]
    BY <1>1 DEF MoveNode
  <1>3. to \in Seq(Names) /\ to # <<>>
    BY PathsAssumption
  <1>4. Resolve(fs.nodes, to).r = "OK" /\ fs' = WriteEntry(DropNode(fs, z.node), "DELETE", z)
    BY <1>1, <1>2 DEF Delete, Return, Machine
  <1>5. z \in hits /\ z \in fs.nodes
    <2>1. Resolve(fs.nodes, to) = Child(fs.nodes, dir, Basename(to))
      BY <1>3, WalkResolves, DirnameType DEF Resolve
    <2>2. z \in hits
      BY <1>4, <2>1 DEF Child, Missing, Found
    <2> QED
      BY <2>2 DEF Lookup
  <1>6. src.row \in NodeRow /\ z \in NodeRow
    BY <1>1, <1>2, <1>5, PathType DEF Machine
  <1>7. row.parent = dir.row.node /\ row.name = Basename(to)
    BY <1>6 DEF NodeRow
  <1> HIDE DEF src, dir, row, z
  <1> DEFINE f == DropNode(fs, z.node)
  <1>7a. z.node \in Nat /\ Sound(f)
    BY <1>1, <1>6, DropNodeSound DEF NodeRow
  <1>8. Sound(f) /\ z.node \in Nat /\ f.nodes = {x \in fs.nodes : x.node # z.node}
    BY <1>1, <1>7a DEF DropNode, Machine
  <1> HIDE DEF f
  <1>9. fs' = Write(f, "DELETE", z.node, 0, 0, z) /\ "DELETE" \in LogOp
    BY <1>4 DEF WriteEntry, f, LogOp
  <1>10. Rows(fs', "DELETE") # {}
    BY <1>2, <1>6, <1>8, <1>9, WriteCases DEF Sound, Rows
  <1>11. fs'.nodes = f.nodes
    BY <1>8, <1>9, WriteNodes DEF Sound, Good
  <1>12. hits = {z} => Lookup(fs'.nodes, row.parent, row.name) = {}
    BY <1>7, <1>8, <1>11 DEF Lookup
  <1>13. hits = {z} \/ \E x, y \in hits : x # y
    BY <1>5
  <1>14. job'.kind = "move" /\ job'.row = row
    BY <1>2
  <1>15. (\E x, y \in hits : x # y) => Shared'
    BY <1>7, <1>14 DEF Shared
  <1> HIDE DEF hits
  <1> QED
    BY <1>1, <1>10, <1>12, <1>13, <1>14, <1>15 DEF Underway

\* Every step of a call keeps what is known of the part behind it.
LEMMA StepCInv == CInv /\ [CallNext]_callvars => CInv'
  <1>1. ASSUME CInv, CallNext
        PROVE  CInv'
    <2>1. IInv /\ IInv' /\ NoJob.kind = "none" /\ began' = IF job' = NoJob THEN fs' ELSE began
      BY <1>1, StepIInv DEF CInv, CallNext, NoJob
    <2>2. CASE job' = NoJob
      BY <2>1, <2>2 DEF CInv, Underway
    <2>3. CASE job' # NoJob
      <3>1. mode' = "mounted" /\ began' = began
        BY <2>1, <2>3 DEF IInv, Typed
      <3>2. mode = "mounted" /\ Sound(fs) /\ Typed
        <4>1. Typed /\ (job # NoJob => mode = "mounted") /\ (mode = "mounted" => Sound(fs))
          BY <2>1 DEF IInv, Typed
        <4>2. job = NoJob => Call
          <5>1. CASE Finish
            BY <2>1, <5>1 DEF Finish, FinishLink, FinishMove, WriteChunk
          <5>2. CASE Stop \/ Mount
            BY <2>3, <5>2 DEF Stop, Mount
          <5>3. CASE Load
            BY <2>3, <5>3 DEF Load, Mounted, LoadRecord
          <5> QED
            BY <1>1, <5>1, <5>2, <5>3 DEF CallNext, Next
        <4>3. Call => mode = "mounted"
          BY DEF Call, SetFile, SetDir, SetTime, DelNode, SetLink, MoveNode, DelData, SetData, Begin
        <4> QED
          BY <4>1, <4>2, <4>3
      <3>3. ASSUME NEW path \in Paths, NEW target \in Names, SetLink(path, target)
            PROVE  Underway'
        <4>1. job'.kind = "link" /\ job = NoJob
          BY <2>3, <3>3 DEF SetLink, Begin
        <4>2. SameData(fs, fs') /\ began' = fs
          BY <1>1, <3>1, <3>2, <3>3, <4>1, SetLinkForm, FormIntact DEF CInv, Underway
        <4> QED
          BY <2>3, <4>1, <4>2 DEF Underway
      <3>4. ASSUME NEW from \in Paths, NEW to \in Paths, MoveNode(from, to)
            PROVE  Underway'
        <4>1. began' = fs
          BY <1>1, <3>1, <3>4 DEF CInv, Underway, MoveNode, Begin
        <4> QED
          BY <2>1, <2>3, <3>4, <4>1, MoveUnderway
      <3>5. ASSUME NEW node \in FileIds, NEW x \in Extents, SetData(node, x[1], x[2])
            PROVE  Underway'
        <4>1. job'.kind = "data" /\ fs' = fs /\ began' = fs
          BY <1>1, <3>1, <3>5 DEF SetData, Begin, CInv, Underway
        <4> QED
          BY <2>3, <4>1 DEF Underway, SameData
      <3>6. ASSUME WriteChunk
            PROVE  Underway'
        <4>1. job.kind = "data" /\ job'.kind = "data"
          <5>1. job \in Job /\ job.kind = "data"
            BY <3>2, <3>6 DEF Typed, WriteChunk
          <5>2. job \in [kind: {"data"}, node: Nat, offset: Nat, size: Nat \ {0}]
            BY <5>1 DEF Job, NoJob
          <5> QED
            BY <2>3, <3>6, <5>2 DEF WriteChunk
        <4>2. SameData(began, fs)
          BY <1>1, <4>1 DEF CInv, Underway
        <4>3. SameData(fs, fs')
          BY <3>2, <3>6, FinishWrites, FormIntact
        <4> QED
          BY <2>3, <3>1, <4>1, <4>2, <4>3 DEF Underway, SameData, Rows
      <3>7. CASE Call
        <4>1. Underway'
          BY <2>3, <3>3, <3>4, <3>5, <3>7
             DEF Call, SetFile, SetDir, SetTime, DelNode, DelData, Begin
        <4> QED
          BY <2>1, <4>1 DEF CInv
      <3>8. CASE Finish
        BY <2>1, <2>3, <3>6, <3>8 DEF Finish, FinishLink, FinishMove, CInv
      <3>9. ~ (Stop \/ Mount \/ Load)
        <4>1. ~ Stop
          BY <2>3 DEF Stop
        <4>2. ~ Mount
          BY <3>2 DEF Mount
        <4>3. ~ Load
          BY <3>2 DEF Load, Mounted, LoadRecord
        <4> QED
          BY <4>1, <4>2, <4>3
      <3> QED
        BY <1>1, <3>7, <3>8, <3>9 DEF CallNext, Next
    <2> QED
      BY <2>2, <2>3
  <1>2. ASSUME CInv, UNCHANGED callvars
        PROVE  CInv'
    <2>1. IInv'
      BY <1>2, StepIInv DEF CInv, callvars, vars
    <2>2. Underway'
      BY <1>2 DEF CInv, Underway, Shared, callvars
    <2> QED
      BY <2>1, <2>2 DEF CInv
  <1> QED
    BY <1>1, <1>2

\* It holds in every reachable state.
LEMMA CallInvariant == CallSpec => []CInv
  <1>1. CallInit => CInv
    BY InitIInv DEF CallInit, Init, CInv, Underway, NoJob
  <1> QED
    BY <1>1, StepCInv, PTL DEF CallSpec

\* A call that is refused for another reason than space leaves every table, every
\* counter and every record as it found them when it began, whichever of its checks
\* refuses it.  The one exception is a rename to a name that several rows share.
THEOREM RefusalsClean == CallSpec => RefusedCleanly
  <1> DEFINE Clean == mode = "mounted" /\ mode' = "mounted" /\ fs'.r \in {"ENOENT", "EEXIST", "EINVAL"}
                        => fs' = Return(began, fs'.r) \/ (job.kind = "move" /\ Shared)
  <1>1. ASSUME CInv, CallNext, mode = "mounted", mode' = "mounted",
               fs'.r \in {"ENOENT", "EEXIST", "EINVAL"}
        PROVE  fs' = Return(began, fs'.r) \/ (job.kind = "move" /\ Shared)
    <2>1. Sound(fs) /\ Typed /\ Underway /\ fs \in Machine
      BY <1>1 DEF CInv, IInv, Typed
    <2>2. CASE Call
      <3>1. began = fs
        BY <2>1, <2>2 DEF Underway, Call, SetFile, SetDir, SetTime, DelNode, SetLink, MoveNode,
                          DelData, SetData, Begin
      <3> QED
        BY <1>1, <2>1, <2>2, <3>1, CallForm, RefusedStep
    <2>3. CASE FinishLink \/ WriteChunk
      <3>1. EntryForm(fs, fs') \/ DataForm(fs, fs')
        BY <2>1, <2>3, FinishWrites
      <3> QED
        BY <1>1, <2>1, <3>1, WrittenResult
    <2>4. CASE FinishMove
      <3>1. job.kind = "move" /\ job.row \in NodeRow
        BY <2>1, <2>4, JobType DEF FinishMove, Typed
      <3>2. ASSUME Lookup(fs.nodes, job.row.parent, job.row.name) = {}
            PROVE  FALSE
        <4>1. MoveRow(fs, job.row).r = "OK"
          BY <2>1, <3>2 DEF MoveRow, Machine
        <4>2. EntryForm(fs, fs')
          BY <2>1, <2>4, <3>1, <4>1, MoveRowForm DEF FinishMove
        <4> QED
          BY <1>1, <2>1, <4>2, WrittenResult
      <3> QED
        BY <2>1, <3>1, <3>2 DEF Underway
    <2> QED
      BY <1>1, <2>2, <2>3, <2>4 DEF CallNext, Next, Finish, Stop, Mount, Load, Mounted, LoadRecord
  <1>2. CInv /\ [CallNext]_callvars => [Clean]_callvars
    BY <1>1
  <1> QED
    BY <1>2, CallInvariant, PTL DEF CallSpec, RefusedCleanly

\* A call refused for lack of space has cost no data since it began: a rename never
\* deletes a file in vain, a file written in part keeps what it had, and a truncation,
\* to whatever size, has cut off nothing but what it was to cut off.
THEOREM RefusalsKeepData == CallSpec => RefusedKeepsData
  <1> DEFINE Unharmed(b) ==
               \/ fs'.blocks[b] = began.blocks[b]
               \/ \E size \in Sizes : /\ began.blocks[b].offset < size
                                      /\ DelData(began.blocks[b].node, size)
                                      /\ fs'.blocks[b] = Trimmed(began.blocks[b], size)
             Keep == mode = "mounted" /\ mode' = "mounted" /\ fs'.r = "ENOSPC"
                       => \A b \in Rows(began, "DATA") : Unharmed(b)
  <1>1. ASSUME CInv, CallNext, mode = "mounted", mode' = "mounted", fs'.r = "ENOSPC",
               NEW b \in Rows(began, "DATA")
        PROVE  Unharmed(b)
    <2>1. Sound(fs) /\ Typed /\ Underway /\ fs \in Machine
      BY <1>1 DEF CInv, IInv, Typed
    <2>2. CASE Call
      <3>1. began = fs
        BY <2>1, <2>2 DEF Underway, Call, SetFile, SetDir, SetTime, DelNode, SetLink, MoveNode,
                          DelData, SetData, Begin
      <3>2. ASSUME NEW node \in FileIds, NEW size \in Sizes, DelData(node, size)
            PROVE  Unharmed(b)
        <4>1. node \in Nat /\ size \in Nat /\ fs' = Truncate(fs, node, size)
          BY <2>1, <3>2, SizesAssumption DEF FileIds, Machine, NodeRow, DelData
        <4>2. \/ fs'.blocks[b] = fs.blocks[b]
              \/ /\ fs.blocks[b].node = node /\ fs.blocks[b].offset < size
                 /\ fs'.blocks[b] = Trimmed(fs.blocks[b], size)
          BY <1>1, <2>1, <3>1, <4>1, RefusedTruncation
        <4> QED
          BY <3>1, <3>2, <4>2
      <3>3. ASSUME NEW node \in FileIds, NEW x \in Extents, SetData(node, x[1], x[2])
            PROVE  SameData(fs, fs')
        BY <3>3 DEF SetData, SameData
      <3>4. ASSUME NameForm(fs, fs')
            PROVE  SameData(fs, fs')
        BY <1>1, <2>1, <3>4, FormIntact, RefusedDelete DEF NameForm
      <3>5. ASSUME NEW path \in Paths, NEW target \in Names,
                   SetFile(path) \/ SetDir(path) \/ SetTime(path) \/ DelNode(path)
                   \/ SetLink(path, target)
            PROVE  SameData(fs, fs')
        BY <2>1, <3>4, <3>5, NameCallForm, SetLinkForm DEF NameForm
      <3>6. ASSUME NEW from \in Paths, NEW to \in Paths, MoveNode(from, to)
            PROVE  SameData(fs, fs')
        BY <2>1, <3>4, <3>6, MoveNodeForm
      <3>7. SameData(fs, fs') => Unharmed(b)
        BY <3>1 DEF SameData
      <3>8. ASSUME NEW path \in Paths,
                   SetFile(path) \/ SetDir(path) \/ SetTime(path) \/ DelNode(path)
            PROVE  SameData(fs, fs')
        BY <2>1, <3>4, <3>8, NameCallForm
      <3> HIDE DEF Unharmed
      <3> QED
        BY <2>2, <3>2, <3>3, <3>5, <3>6, <3>7, <3>8 DEF Call
    <2>3. CASE FinishLink \/ WriteChunk
      <3>1. EntryForm(fs, fs') \/ DataForm(fs, fs')
        BY <2>1, <2>3, FinishWrites
      <3>2. SameData(fs, fs')
        BY <2>1, <3>1, FormIntact
      <3>3. SameData(began, fs)
        BY <2>1, <2>3 DEF Underway, FinishLink, WriteChunk
      <3>4. fs'.blocks[b] = began.blocks[b]
        BY <3>2, <3>3 DEF SameData, Rows
      <3> QED
        BY <3>4
    <2>4. CASE FinishMove
      <3> DEFINE moved == MoveRow(fs, job.row)
      <3>1. job.kind = "move" /\ job.row \in NodeRow
        BY <2>1, <2>4, JobType DEF FinishMove, Typed
      <3>2. Rows(fs, "DELETE") # {}
        BY <2>1, <3>1 DEF Underway
      <3>3. Sound(moved) /\ moved.blocks = fs.blocks /\ moved.r # "ENOSPC"
        BY <2>1, <3>1, MoveRowFades, FadesSound DEF MoveRow, Return, Machine
      <3>4. fs' = Write(moved, "MOVE", job.row.node, 0, 0, job.row)
        BY <1>1, <2>4, <3>3 DEF FinishMove, WriteEntry
      <3> HIDE DEF moved
      <3>5. Rows(moved, "DELETE") = {}
        BY <1>1, <3>1, <3>3, <3>4, RefusedWrite DEF LogOp, NodeRow
      <3> QED
        BY <3>2, <3>3, <3>5 DEF Rows
    <2> QED
      BY <1>1, <2>2, <2>3, <2>4 DEF CallNext, Next, Finish, Stop, Mount, Load, Mounted, LoadRecord
  <1>2. CInv /\ [CallNext]_callvars => [Keep]_callvars
    BY <1>1
  <1> QED
    BY <1>2, CallInvariant, PTL DEF CallSpec, RefusedKeepsData

-----------------------------------------------------------------------------
(* The block table. *)

\* Every truncation cuts to size 0.
ZeroSizes == Sizes \subseteq {0}

\* No row was trimmed, and where there is no record the row is blank.
Untrimmed(m) ==
    \A b \in Block :
        \/ m.blocks[b] = NoRow
        \/ /\ m.blocks[b].op # "NONE"
           /\ m.blocks[b].fill = m.disk[b].fill /\ m.blocks[b].offset = m.disk[b].offset

\* What one machine has freed, the other, over the same container, has freed: the
\* rows of records with a node row always, the rest when truncations cut to one size.
LEMMA SameFreed ==
    ASSUME NEW m, Sound(m), Settled(m), NEW s, Sound(s), Settled(s), m.disk = s.disk,
           NEW b \in Block, m.blocks[b].op = "FREE", m.disk[b].op \in EntryOp \/ OneSize
    PROVE  s.blocks[b].op = "FREE"
  <1>1. MirrorsAll(m) /\ MirrorsAll(s)
    BY DEF Sound
  <1>2. PICK c \in Block : Voids(m, c, b)
    BY DEF Settled, Justified, Rows
  <1>3. m.blocks[c].op \in {"DELETE", "TRUNCATE"}
    BY <1>2 DEF Voids, Covers
  <1>4. /\ m.disk[c].op = m.blocks[c].op /\ m.disk[c].node = m.blocks[c].node
        /\ m.disk[c].offset = m.blocks[c].offset /\ m.disk[c].seq = m.blocks[c].seq
        /\ m.disk[b].node = m.blocks[b].node /\ m.disk[b].seq = m.blocks[b].seq
    BY <1>1, <1>3 DEF MirrorsAll, Mirrors
  <1>5. Frees(m.disk, m.disk[c].op, m.disk[c].node, m.disk[c].offset, b)
    BY <1>2, <1>4 DEF Voids, Covers, Frees, EntryOp
  <1>6. m.disk[c].seq > m.disk[b].seq
    BY <1>2, <1>4 DEF Voids
  <1>7. m.blocks[c].op # "NONE" /\ m.blocks[b].op # "NONE"
    BY <1>3
  <1>8. s.blocks[c].op # "NONE" /\ s.blocks[b].op # "NONE"
    <2>1. \A d \in Block : m.blocks[d].op = "NONE" <=> d \notin Valid(m.disk)
      BY LastBlockAssumption DEF Sound, Block, Good
    <2>2. \A d \in Block : s.blocks[d].op = "NONE" <=> d \notin Valid(s.disk)
      BY LastBlockAssumption DEF Sound, Block, Good
    <2> QED
      BY <1>7, <2>1, <2>2
  <1>9. ~ Used(s, b)
    BY <1>5, <1>6, <1>8 DEF Settled, Spared
  <1> QED
    BY <1>8, <1>9 DEF Used

\* Two settled machines over one container have rows of the same records, the same
\* counters, and agree on what is in use as far as nothing was trimmed.
LEMMA SameRows ==
    ASSUME NEW m, Sound(m), Settled(m), NEW s, Sound(s), Settled(s), m.disk = s.disk
    PROVE  /\ \A b \in Block :
                m.disk[b].op \in EntryOp \/ OneSize => m.blocks[b].op = s.blocks[b].op
           /\ \A b \in Block : m.blocks[b].op \in {"NODE", "MOVE"} <=> s.blocks[b].op \in {"NODE", "MOVE"}
           /\ m.next_block_id = s.next_block_id
           /\ m.next_seq_id = s.next_seq_id
  <1>1. /\ MirrorsAll(m) /\ MirrorsAll(s)
        /\ m.next_block_id \in 1 .. LastBlock + 1 /\ s.next_block_id \in 1 .. LastBlock + 1
        /\ m.next_seq_id \in Nat /\ s.next_seq_id \in Nat
    BY DEF Sound, Good, Machine
  <1>2. \A b \in Block : m.blocks[b].op = "NONE" <=> s.blocks[b].op = "NONE"
    <2>1. \A d \in Block : m.blocks[d].op = "NONE" <=> d \notin Valid(m.disk)
      BY LastBlockAssumption DEF Sound, Block, Good
    <2>2. \A d \in Block : s.blocks[d].op = "NONE" <=> d \notin Valid(s.disk)
      BY LastBlockAssumption DEF Sound, Block, Good
    <2> QED
      BY <2>1, <2>2
  <1>3. ASSUME NEW b \in Block, m.disk[b].op \in EntryOp \/ OneSize
        PROVE  m.blocks[b].op = s.blocks[b].op
    <2>1. m.blocks[b].op = "FREE" <=> s.blocks[b].op = "FREE"
      BY <1>3, SameFreed
    <2>2. m.blocks[b].op \notin {"FREE", "NONE"} => m.blocks[b].op = m.disk[b].op
      BY <1>1 DEF MirrorsAll, Mirrors
    <2>3. s.blocks[b].op \notin {"FREE", "NONE"} => s.blocks[b].op = m.disk[b].op
      BY <1>1 DEF MirrorsAll, Mirrors
    <2> QED
      BY <1>2, <2>1, <2>2, <2>3
  <1>4. ASSUME NEW b \in Block
        PROVE  m.blocks[b].op \in {"NODE", "MOVE"} <=> s.blocks[b].op \in {"NODE", "MOVE"}
    <2>1. m.blocks[b].op \in {"NODE", "MOVE"} => m.disk[b].op \in EntryOp
      BY <1>1 DEF MirrorsAll, Mirrors, EntryOp
    <2>2. s.blocks[b].op \in {"NODE", "MOVE"} => m.disk[b].op \in EntryOp
      BY <1>1 DEF MirrorsAll, Mirrors, EntryOp
    <2> QED
      BY <1>3, <2>1, <2>2
  <1>5. m.next_block_id = s.next_block_id
    <2>1. \A d \in 1 .. LastBlock : d < m.next_block_id <=> d < s.next_block_id
      BY DEF Sound, Block
    <2>2. CASE m.next_block_id < s.next_block_id
      <3>1. m.next_block_id \in 1 .. LastBlock
        BY <1>1, <2>2, LastBlockAssumption
      <3> QED
        BY <1>1, <2>1, <2>2, <3>1, LastBlockAssumption
    <2>3. CASE s.next_block_id < m.next_block_id
      <3>1. s.next_block_id \in 1 .. LastBlock
        BY <1>1, <2>3, LastBlockAssumption
      <3> QED
        BY <1>1, <2>1, <2>3, <3>1, LastBlockAssumption
    <2> QED
      BY <1>1, <2>2, <2>3, LastBlockAssumption
  <1>6. m.next_seq_id = s.next_seq_id
    <2>1. \A b \in Block : m.blocks[b].op # "NONE" =>
            /\ m.blocks[b].seq = s.blocks[b].seq /\ m.blocks[b].seq \in Nat
            /\ m.blocks[b].seq < m.next_seq_id /\ s.blocks[b].seq < s.next_seq_id
      BY <1>1, <1>2 DEF MirrorsAll, Mirrors, Sound, Good, Machine, BlockRow
    <2>2. CASE \A b \in Block : m.blocks[b].op = "NONE"
      BY <1>2, <2>2 DEF Settled, NextFollows
    <2>3. CASE \E b \in Block : m.blocks[b].op # "NONE"
      <3>1. PICK b \in Block : m.blocks[b].op # "NONE" /\ m.blocks[b].seq + 1 = m.next_seq_id
        BY <2>3 DEF Settled, NextFollows
      <3>2. PICK c \in Block : s.blocks[c].op # "NONE" /\ s.blocks[c].seq + 1 = s.next_seq_id
        BY <1>2, <2>3 DEF Settled, NextFollows
      <3> QED
        BY <1>1, <1>2, <2>1, <3>1, <3>2
    <2> QED
      BY <2>2, <2>3
  <1> QED
    BY <1>3, <1>4, <1>5, <1>6

\* When nothing was trimmed they have the same block table.
LEMMA SameBlocks ==
    ASSUME NEW m, Sound(m), Settled(m), NEW s, Sound(s), Settled(s), m.disk = s.disk,
           OneSize, Untrimmed(m), Untrimmed(s)
    PROVE  m.blocks = s.blocks
  <1>1. /\ MirrorsAll(m) /\ MirrorsAll(s)
        /\ m.blocks \in [Block -> BlockRow] /\ s.blocks \in [Block -> BlockRow]
    BY DEF Sound, Good, Machine
  <1>2. ASSUME NEW b \in Block PROVE m.blocks[b] = s.blocks[b]
    <2>1. m.blocks[b].op = s.blocks[b].op
      BY SameRows
    <2>2. CASE m.blocks[b].op # "NONE"
      <3>0. NoRow.op = "NONE"
        BY DEF NoRow
      <3>1. /\ m.blocks[b].seq = s.blocks[b].seq /\ m.blocks[b].node = s.blocks[b].node
            /\ m.blocks[b].fill = s.blocks[b].fill /\ m.blocks[b].offset = s.blocks[b].offset
        BY <1>1, <2>1, <2>2, <3>0 DEF MirrorsAll, Mirrors, Untrimmed
      <3> QED
        BY <1>1, <2>1, <3>1 DEF BlockRow
    <2>3. CASE m.blocks[b].op = "NONE"
      BY <2>1, <2>3 DEF Untrimmed
    <2> QED
      BY <2>2, <2>3
  <1> QED
    BY <1>1, <1>2

\* A write, and a change that only frees rows, trim none.
LEMMA WriteUntrimmed ==
    ASSUME NEW f, Good(f), Untrimmed(f), NEW op \in LogOp, NEW node \in Nat, NEW fill \in Nat,
           NEW offset \in Nat, NEW entry \in NodeRow \cup {NoEntry}
    PROVE  Untrimmed(Write(f, op, node, fill, offset, entry))
  <1> DEFINE w == Write(f, op, node, fill, offset, entry)
  <1>1. op # "NONE"
    BY DEF LogOp
  <1>0. w = Write(f, op, node, fill, offset, entry)
    OBVIOUS
  <1> HIDE DEF w
  <1>2. \/ w.blocks = f.blocks /\ w.disk = f.disk
        \/ \E b \in Block :
             /\ w.blocks[b].op = op /\ w.blocks[b].fill = w.disk[b].fill
             /\ w.blocks[b].offset = w.disk[b].offset
             /\ \A c \in Block : c # b => w.blocks[c] = f.blocks[c] /\ w.disk[c] = f.disk[c]
    BY <1>0, WriteCases
  <1>3. Untrimmed(w)
    BY <1>1, <1>2 DEF Untrimmed
  <1> QED
    BY <1>3 DEF w

LEMMA FreesUntrimmed ==
    ASSUME NEW m \in Machine, Untrimmed(m), NEW f, f.disk = m.disk,
           \A b \in Block : \/ f.blocks[b] = m.blocks[b]
                            \/ /\ m.blocks[b].op # "NONE"
                               /\ f.blocks[b] = [m.blocks[b] EXCEPT !.op = "FREE"]
    PROVE  Untrimmed(f)
  <1>1. m.blocks \in [Block -> BlockRow] /\ NoRow.op = "NONE"
    BY DEF Machine, NoRow
  <1>2. ASSUME NEW b \in Block, f.blocks[b] = [m.blocks[b] EXCEPT !.op = "FREE"]
        PROVE  /\ f.blocks[b].op = "FREE" /\ f.blocks[b].fill = m.blocks[b].fill
               /\ f.blocks[b].offset = m.blocks[b].offset
    BY <1>1, <1>2 DEF BlockRow
  <1> SUFFICES ASSUME NEW b \in Block
               PROVE  \/ f.blocks[b] = NoRow
                      \/ /\ f.blocks[b].op # "NONE"
                         /\ f.blocks[b].fill = f.disk[b].fill /\ f.blocks[b].offset = f.disk[b].offset
    BY DEF Untrimmed
  <1>3. \/ m.blocks[b] = NoRow
        \/ /\ m.blocks[b].op # "NONE"
           /\ m.blocks[b].fill = m.disk[b].fill /\ m.blocks[b].offset = m.disk[b].offset
    BY DEF Untrimmed
  <1>4. CASE f.blocks[b] = m.blocks[b]
    BY <1>3, <1>4
  <1>5. CASE f.blocks[b] # m.blocks[b]
    <2>1. m.blocks[b].op # "NONE" /\ f.blocks[b] = [m.blocks[b] EXCEPT !.op = "FREE"]
      BY <1>5
    <2>2. f.blocks[b].op = "FREE" /\ f.blocks[b].fill = m.blocks[b].fill
          /\ f.blocks[b].offset = m.blocks[b].offset
      BY <1>2, <2>1
    <2>3. m.blocks[b].fill = m.disk[b].fill /\ m.blocks[b].offset = m.disk[b].offset
      BY <1>1, <1>3, <2>1
    <2> QED
      BY <2>2, <2>3
  <1> QED
    BY <1>4, <1>5

\* Deletions, and truncations to size 0, only free rows.
LEMMA DropsUntrimmed ==
    ASSUME NEW m \in Machine, Untrimmed(m), NEW node \in Nat
    PROVE  /\ Untrimmed(DropNode(m, node))
           /\ Untrimmed(DropData(m, node, 0))
  <1>1. m.blocks \in [Block -> BlockRow]
    BY DEF Machine
  <1>2. Untrimmed(DropNode(m, node))
    <2> DEFINE f == DropNode(m, node)
    <2>1. f.disk = m.disk
          /\ \A b \in Block : \/ f.blocks[b] = m.blocks[b]
                              \/ /\ m.blocks[b].op # "NONE"
                                 /\ f.blocks[b] = [m.blocks[b] EXCEPT !.op = "FREE"]
      BY DEF DropNode, Machine
    <2> HIDE DEF f
    <2>2. Untrimmed(f)
      BY <2>1, FreesUntrimmed
    <2> QED
      BY <2>2 DEF f
  <1>3. Untrimmed(DropData(m, node, 0))
    <2> DEFINE f == DropData(m, node, 0)
    <2>1. f.disk = m.disk
          /\ \A b \in Block : f.blocks[b] = m.blocks[b] \/ f.blocks[b] = Cut(m.blocks[b], 0)
      BY DEF DropData, Machine
    <2> HIDE DEF f
    <2>2. ASSUME NEW b \in Block
          PROVE  \/ Cut(m.blocks[b], 0) = m.blocks[b]
                 \/ /\ m.blocks[b].op # "NONE"
                    /\ Cut(m.blocks[b], 0) = [m.blocks[b] EXCEPT !.op = "FREE"]
      <3>1. m.blocks[b].offset \in Nat
        BY <1>1 DEF BlockRow
      <3> QED
        BY <3>1 DEF Cut
    <2>3. Untrimmed(f)
      BY <2>1, <2>2, FreesUntrimmed
    <2> QED
      BY <2>3 DEF f
  <1> QED
    BY <1>2, <1>3

-----------------------------------------------------------------------------
(* The node table. *)

\* Every record in use that carries a node row has its node in the table.
Carried(m) ==
    \A b \in Block : m.blocks[b].op \in {"NODE", "MOVE"} => HasKey(m.nodes, m.disk[b].entry)

\* Every row of the table is the one that the youngest record in use for its
\* node carries.
Youngest(m) ==
    \A x \in m.nodes : \E b \in Carriers(m, x) :
        /\ m.disk[b].entry = x
        /\ \A c \in Carriers(m, x) : m.disk[c].seq <= m.disk[b].seq

\* A write of a row that is in the table.
LEMMA WriteCarried ==
    ASSUME NEW f, Good(f), Carried(f), NEW op \in LogOp, NEW node \in Nat, NEW fill \in Nat,
           NEW offset \in Nat, NEW entry \in NodeRow \cup {NoEntry},
           op \in {"NODE", "MOVE"} => HasKey(f.nodes, entry)
    PROVE  Carried(Write(f, op, node, fill, offset, entry))
  <1> DEFINE w == Write(f, op, node, fill, offset, entry)
  <1>1. w.nodes = f.nodes
    BY WriteNodes DEF Good
  <1>0. w = Write(f, op, node, fill, offset, entry)
    OBVIOUS
  <1> HIDE DEF w
  <1>2. \/ w.blocks = f.blocks /\ w.disk = f.disk
        \/ \E b \in Block :
             /\ w.blocks[b].op = op /\ w.disk[b].entry = entry
             /\ \A c \in Block : c # b => w.blocks[c] = f.blocks[c] /\ w.disk[c] = f.disk[c]
    BY <1>0, WriteCases
  <1>3. Carried(w)
    BY <1>1, <1>2 DEF Carried
  <1> QED
    BY <1>3 DEF w

\* A change of the tables that keeps the keys of what is in use.
LEMMA KeepsCarried ==
    ASSUME NEW m, Carried(m), NEW f, f.disk = m.disk, Keeps(m.nodes, f.nodes),
           \A b \in Block : f.blocks[b].op \in {"NODE", "MOVE"} => f.blocks[b].op = m.blocks[b].op
    PROVE  Carried(f)
  BY DEF Carried, Keeps, HasKey

\* The rows of a node that is dropped go with its records.
LEMMA DropNodeCarried ==
    ASSUME NEW m \in Machine, MirrorsAll(m), DiskSound(m.disk), Carried(m), NEW node \in Nat
    PROVE  Carried(DropNode(m, node))
  <1> DEFINE f == DropNode(m, node)
  <1>1. /\ f.disk = m.disk /\ f.nodes = {x \in m.nodes : x.node # node}
        /\ \A b \in Block : f.blocks[b].op \in {"NODE", "MOVE"} =>
              f.blocks[b] = m.blocks[b] /\ m.blocks[b].node # node
    BY DEF DropNode, Machine
  <1> HIDE DEF f
  <1>2. ASSUME NEW b \in Block, f.blocks[b].op \in {"NODE", "MOVE"}
        PROVE  HasKey(f.nodes, f.disk[b].entry)
    <2>1. m.blocks[b].op \in {"NODE", "MOVE"} /\ m.blocks[b].node # node
      BY <1>1, <1>2
    <2>2. m.disk[b].entry.node = m.blocks[b].node
      BY <2>1 DEF MirrorsAll, Mirrors, DiskSound, EntryOp
    <2>3. HasKey(m.nodes, m.disk[b].entry)
      BY <2>1 DEF Carried
    <2> QED
      BY <1>1, <2>1, <2>2, <2>3 DEF HasKey
  <1>3. Carried(f)
    BY <1>2 DEF Carried
  <1> QED
    BY <1>3 DEF f

\* Cutting data rows touches no node.
LEMMA DropDataCarried ==
    ASSUME NEW m \in Machine, Carried(m), NEW node \in Nat, NEW size \in Nat
    PROVE  Carried(DropData(m, node, size))
  <1> DEFINE f == DropData(m, node, size)
  <1>1. f.disk = m.disk /\ f.nodes = m.nodes
        /\ \A b \in Block : f.blocks[b] = m.blocks[b] \/ f.blocks[b] = Cut(m.blocks[b], size)
    BY DEF DropData, Machine
  <1> HIDE DEF f
  <1>2. \A b \in Block : m.blocks[b] \in BlockRow
    BY DEF Machine
  <1>3. \A b \in Block : f.blocks[b].op \in {"NODE", "MOVE"} => f.blocks[b].op = m.blocks[b].op
    BY <1>1, <1>2, CutType
  <1>4. Keeps(m.nodes, f.nodes)
    BY <1>1 DEF Keeps, HasKey
  <1>5. Carried(f)
    BY <1>1, <1>3, <1>4, KeepsCarried
  <1> QED
    BY <1>5 DEF f

-----------------------------------------------------------------------------
(* The steps. *)

\* What every machine keeps for the mount after it.
Recoverable(m) == Carried(m) /\ (ZeroSizes => Untrimmed(m))

\* It shows in the tables and the records.
LEMMA SameRecoverable ==
    ASSUME NEW m, Recoverable(m), NEW n,
           n.nodes = m.nodes, n.blocks = m.blocks, n.disk = m.disk
    PROVE  Recoverable(n)
  BY DEF Recoverable, Carried, Untrimmed

\* Every form of a step of a mounted process keeps it.
LEMMA FormRecoverable ==
    ASSUME NEW m, Sound(m), Recoverable(m), NEW n, Form(m, n)
    PROVE  Recoverable(n)
  <1>1. m \in Machine /\ MirrorsAll(m) /\ DiskSound(m.disk)
    BY DEF Sound, Good
  <1>2. CASE ReturnForm(m, n)
    <2>1. n.nodes = m.nodes /\ n.blocks = m.blocks /\ n.disk = m.disk
      BY <1>1, <1>2 DEF ReturnForm, Return, Machine
    <2> QED
      BY <2>1, SameRecoverable
  <1>3. ASSUME NEW f, Fades(m, f), Recoverable(f), NEW op \in LogOp, NEW node \in Nat,
               NEW fill \in Nat, NEW offset \in Nat, NEW entry \in NodeRow \cup {NoEntry},
               op \in {"NODE", "MOVE"} => HasKey(f.nodes, entry),
               n = Write(f, op, node, fill, offset, entry)
        PROVE  Recoverable(n)
    <2>1. Good(f)
      BY <1>3, FadesSound DEF Sound
    <2> QED
      BY <1>3, <2>1, WriteCarried, WriteUntrimmed DEF Recoverable
  <1>4. CASE EntryForm(m, n)
    <2>1. PICK f \in Machine, op \in {"NODE", "MOVE"}, row \in NodeRow :
            /\ Fades(m, f) /\ f.blocks = m.blocks
            /\ Keeps(m.nodes, f.nodes) /\ HasKey(f.nodes, row)
            /\ n = WriteEntry(f, op, row)
      BY <1>4 DEF EntryForm
    <2>2. f.disk = m.disk
      BY <2>1 DEF Fades
    <2>3. Carried(f)
      BY <2>1, <2>2, KeepsCarried DEF Recoverable
    <2>4. Recoverable(f)
      BY <2>1, <2>2, <2>3 DEF Recoverable, Untrimmed
    <2> QED
      BY <1>3, <2>1, <2>4 DEF WriteEntry, LogOp, NodeRow
  <1>5. CASE DeleteForm(m, n)
    <2>1. PICK row \in NodeRow : n = WriteEntry(DropNode(m, row.node), "DELETE", row)
      BY <1>5 DEF DeleteForm
    <2>2. row.node \in Nat
      BY DEF NodeRow
    <2>3. Fades(m, DropNode(m, row.node)) /\ Recoverable(DropNode(m, row.node))
      BY <1>1, <2>2, DropNodeFades, DropNodeCarried, DropsUntrimmed DEF Recoverable
    <2> QED
      BY <1>3, <2>1, <2>2, <2>3 DEF WriteEntry, LogOp
  <1>6. CASE TruncateForm(m, n)
    <2>1. PICK node \in Nat, size \in Sizes :
            n = Write(DropData(m, node, size), "TRUNCATE", node, 0, size, NoEntry)
      BY <1>6 DEF TruncateForm
    <2>2. size \in Nat /\ (ZeroSizes => size = 0)
      BY SizesAssumption DEF ZeroSizes
    <2>3. Fades(m, DropData(m, node, size)) /\ Recoverable(DropData(m, node, size))
      BY <1>1, <2>2, DropDataFades, DropDataCarried, DropsUntrimmed DEF Recoverable
    <2> QED
      BY <1>3, <2>1, <2>2, <2>3 DEF LogOp
  <1>7. CASE DataForm(m, n)
    <2>1. PICK node \in Nat, fill \in Nat, offset \in Nat :
            n = Write(m, "DATA", node, fill, offset, NoEntry)
      BY <1>7 DEF DataForm
    <2>2. Good(m)
      BY DEF Sound
    <2> QED
      BY <2>1, <2>2, WriteCarried, WriteUntrimmed DEF Recoverable, LogOp
  <1> QED
    BY <1>2, <1>4, <1>5, <1>6, <1>7 DEF Form, NameForm

\* A mount begins with it.
LEMMA FreshRecoverable ==
    ASSUME NEW disk
    PROVE  Recoverable(Fresh(disk)) /\ Youngest(Fresh(disk))
  <1> DEFINE m == Fresh(disk)
  <1>1. m.nodes = {} /\ \A b \in Block : m.blocks[b] = NoRow /\ m.blocks[b].op = "NONE"
    BY DEF Fresh, NoRow
  <1> HIDE DEF m
  <1>2. Recoverable(m) /\ Youngest(m)
    BY <1>1 DEF Recoverable, Carried, Untrimmed, Youngest
  <1> QED
    BY <1>2 DEF m

\* What the replay of record rec makes of the rows, where `done` is what comes out.
Does(m, done, rec) ==
    done.r = "OK" =>
        /\ rec.op \in {"NODE", "MOVE"} =>
             done.nodes = InsertOrReplace(m.nodes, rec.entry) /\ done.blocks = m.blocks
        /\ rec.op \in {"DATA", "TRUNCATE"} =>
             /\ done.nodes = m.nodes
             /\ \A c \in Block : done.blocks[c].op \in {"NODE", "MOVE"}
                                   <=> m.blocks[c].op \in {"NODE", "MOVE"}
        /\ rec.op = "DELETE" =>
             /\ done.nodes = {x \in m.nodes : x.node # rec.node}
             /\ \A c \in Block : done.blocks[c].op \in {"NODE", "MOVE"}
                                   <=> /\ m.blocks[c].op \in {"NODE", "MOVE"}
                                       /\ m.blocks[c].node # rec.node

\* The effect of a record that is replayed, before it has a row.
LEMMA EffectRecoverable ==
    ASSUME NEW m, m \in Machine, MirrorsAll(m), DiskSound(m.disk), CutsToSizes(m.disk),
           Recoverable(m), NEW b \in Block, m.disk[b].op \in LogOp
    PROVE  Recoverable(Effect(m, m.disk[b])) /\ Does(m, Effect(m, m.disk[b]), m.disk[b])
  <1> DEFINE rec == m.disk[b]
             done == Effect(m, rec)
  <1> SUFFICES Recoverable(done) /\ Does(m, done, rec)
    OBVIOUS
  <1>1. /\ m.disk \in [Block -> DiskRecord] /\ rec \in DiskRecord
        /\ rec.node \in Nat /\ rec.offset \in Nat
        /\ \A c \in Block : m.blocks[c] \in BlockRow
    BY DEF DiskSound, DiskRecord, Machine
  <1>2. done.disk = m.disk
    BY <1>1, EffectFades DEF Fades, DiskSound
  <1>3. CASE rec.op \in {"NODE", "MOVE"}
    <2>1. done.blocks = m.blocks
      BY <1>3 DEF Effect, MoveRow, Return, Machine
    <2>2. \/ done.nodes = InsertOrReplace(m.nodes, rec.entry)
          \/ done.r # "OK" /\ done.nodes = m.nodes
      BY <1>3 DEF Effect, MoveRow, Return, Machine
    <2> HIDE DEF done, rec
    <2>3. Keeps(m.nodes, InsertOrReplace(m.nodes, rec.entry)) /\ Keeps(m.nodes, m.nodes)
      BY InsertKeeps DEF Keeps, HasKey
    <2>4. Recoverable(done)
      BY <1>2, <2>1, <2>2, <2>3, KeepsCarried DEF Recoverable, Untrimmed
    <2> QED
      BY <1>3, <2>1, <2>2, <2>4 DEF Does
  <1>4. CASE rec.op = "DATA"
    <2>1. done.blocks = m.blocks /\ done.nodes = m.nodes
      BY <1>4 DEF Effect, Return, Machine
    <2> HIDE DEF done, rec
    <2>2. Recoverable(done)
      BY <1>2, <2>1, SameRecoverable
    <2> QED
      BY <1>4, <2>1, <2>2 DEF Does
  <1>5. CASE rec.op = "TRUNCATE"
    <2>1. done = DropData(m, rec.node, rec.offset)
      BY <1>5 DEF Effect
    <2>2. rec.offset \in Sizes /\ (ZeroSizes => rec.offset = 0)
      BY <1>5 DEF CutsToSizes, ZeroSizes
    <2>3. done.nodes = m.nodes
          /\ \A c \in Block : done.blocks[c] = m.blocks[c]
                              \/ done.blocks[c] = Cut(m.blocks[c], rec.offset)
      BY <2>1 DEF DropData, Machine
    <2>4. \A c \in Block : Cut(m.blocks[c], rec.offset).op \in {"NODE", "MOVE"}
                             <=> m.blocks[c].op \in {"NODE", "MOVE"}
      BY <1>1 DEF Cut, BlockRow
    <2>5. Recoverable(done)
      BY <1>1, <2>1, <2>2, DropDataCarried, DropsUntrimmed DEF Recoverable
    <2> HIDE DEF done, rec
    <2> QED
      BY <1>5, <2>3, <2>4, <2>5 DEF Does
  <1>6. CASE rec.op = "DELETE"
    <2>1. done = DropNode(m, rec.node)
      BY <1>6 DEF Effect
    <2>2. /\ done.nodes = {x \in m.nodes : x.node # rec.node}
          /\ \A c \in Block : done.blocks[c] =
                IF m.blocks[c].node = rec.node /\ m.blocks[c].op # "NONE"
                THEN [m.blocks[c] EXCEPT !.op = "FREE"] ELSE m.blocks[c]
      BY <2>1 DEF DropNode, Machine
    <2>3. Recoverable(done)
      BY <1>1, <2>1, DropNodeCarried, DropsUntrimmed DEF Recoverable
    <2> HIDE DEF done
    <2>4. \A c \in Block : done.blocks[c].op \in {"NODE", "MOVE"}
                             <=> m.blocks[c].op \in {"NODE", "MOVE"} /\ m.blocks[c].node # rec.node
      BY <1>1, <2>2 DEF BlockRow
    <2> HIDE DEF rec
    <2> QED
      BY <1>6, <2>2, <2>3, <2>4 DEF Does
  <1> QED
    BY <1>3, <1>4, <1>5, <1>6 DEF LogOp

\* Replaying the oldest record left keeps it, and keeps in the table what the
\* youngest records in use carry.
LEMMA ReplayRecoverable ==
    ASSUME NEW m, NEW left, Replaying(m, left), Settled(m), Recoverable(m), Youngest(m),
           NEW b \in left, \A c \in left : m.disk[b].seq <= m.disk[c].seq
    PROVE  Recoverable(Replay(m, b)) /\ (Replay(m, b).r = "OK" => Youngest(Replay(m, b)))
  <1> DEFINE rec == m.disk[b]
             done == Effect(m, rec)
             row == [op |-> rec.op, seq |-> rec.seq, node |-> rec.node,
                     fill |-> rec.fill, offset |-> rec.offset]
             n == Replay(m, b)
  <1>1. /\ DiskSound(m.disk) /\ MirrorsAll(m) /\ m \in Machine /\ CutsToSizes(m.disk)
        /\ m.disk \in [Block -> DiskRecord] /\ left \subseteq Block
    BY DEF Replaying, Good, DiskSound, Settled, Valid
  <1>2. b \in Block /\ rec \in DiskRecord /\ rec.op \in LogOp
    BY <1>1 DEF Replaying, Valid, DiskRecord
  <1>3. Fades(m, done)
    BY <1>1, <1>2, EffectFades DEF DiskSound
  <1>4. /\ Recoverable(done)
        /\ done.r = "OK" =>
             /\ rec.op \in {"NODE", "MOVE"} =>
                  done.nodes = InsertOrReplace(m.nodes, rec.entry) /\ done.blocks = m.blocks
             /\ rec.op \in {"DATA", "TRUNCATE"} =>
                  /\ done.nodes = m.nodes
                  /\ \A c \in Block : done.blocks[c].op \in {"NODE", "MOVE"}
                                        <=> m.blocks[c].op \in {"NODE", "MOVE"}
             /\ rec.op = "DELETE" =>
                  /\ done.nodes = {x \in m.nodes : x.node # rec.node}
                  /\ \A c \in Block : done.blocks[c].op \in {"NODE", "MOVE"}
                                        <=> /\ m.blocks[c].op \in {"NODE", "MOVE"}
                                            /\ m.blocks[c].node # rec.node
    <2>1. m.disk[b].op \in LogOp /\ MirrorsAll(m) /\ Recoverable(m)
      BY <1>1, <1>2
    <2>2. Recoverable(done) /\ Does(m, done, rec)
      BY <1>1, <1>2, <2>1, EffectRecoverable
    <2> HIDE DEF done, rec
    <2> QED
      BY <2>2 DEF Does
  <1>5. m.blocks[b].op = "NONE"
        /\ \A c \in Block : m.blocks[c].op # "NONE" => m.disk[c].seq < rec.seq
    BY <1>2 DEF Replaying
  <1>6. CASE done.r # "OK"
    <2>1. n = done
      BY <1>6 DEF Replay
    <2> QED
      BY <1>4, <1>6, <2>1
  <1>7. CASE done.r = "OK"
    <2>1. done.disk = m.disk /\ done \in Machine
      BY <1>3 DEF Fades
    <2> HIDE DEF done
    <2>2. n = [done EXCEPT !.blocks[b] = row,
                           !.next_node_id = Larger(@, rec.node + 1),
                           !.next_block_id = Larger(@, b + 1),
                           !.next_seq_id = rec.seq + 1]
      BY <1>7 DEF Replay, done
    <2>3. done.blocks \in [Block -> BlockRow]
      BY <2>1 DEF Machine
    <2> HIDE DEF row
    <2>4. n.blocks = [done.blocks EXCEPT ![b] = row] /\ n.nodes = done.nodes /\ n.disk = m.disk
      BY <2>1, <2>2 DEF Machine
    <2> HIDE DEF n
    <2>5. n.blocks[b] = row /\ \A c \in Block : c # b => n.blocks[c] = done.blocks[c]
      BY <1>2, <2>3, <2>4
    <2>6. /\ row.op = rec.op /\ row.op # "NONE"
          /\ row.fill = rec.fill /\ row.offset = rec.offset
      BY <1>2 DEF row, LogOp
    <2>7. ZeroSizes => Untrimmed(n)
      <3>1. ASSUME Untrimmed(done) PROVE Untrimmed(n)
        BY <2>1, <2>4, <2>5, <2>6, <3>1 DEF Untrimmed
      <3> QED
        BY <1>4, <3>1 DEF Recoverable
    <2>8. rec.op \in {"NODE", "MOVE"} => HasKey(done.nodes, rec.entry)
      BY <1>4, <1>7, InsertKeeps
    <2>9. Carried(n)
      <3>1. Carried(done)
        BY <1>4 DEF Recoverable
      <3> QED
        BY <2>1, <2>4, <2>5, <2>6, <2>8, <3>1 DEF Carried
    <2>10. Youngest(n)
      <3> SUFFICES ASSUME NEW x \in n.nodes
                   PROVE  \E d \in Carriers(n, x) :
                             /\ n.disk[d].entry = x
                             /\ \A c \in Carriers(n, x) : n.disk[c].seq <= n.disk[d].seq
        BY DEF Youngest
      <3>1. CASE rec.op \in {"NODE", "MOVE"} /\ x = rec.entry
        <4>1. b \in Carriers(n, x) /\ n.disk[b].entry = x
          BY <1>2, <2>4, <2>5, <2>6, <3>1 DEF Carriers
        <4>2. ASSUME NEW c \in Carriers(n, x) PROVE n.disk[c].seq <= n.disk[b].seq
          <5>1. c \in Block /\ m.disk[c].seq \in Nat /\ rec.seq \in Nat
            BY <1>1, <1>2 DEF Carriers, DiskRecord
          <5>2. CASE c = b
            BY <2>4, <5>1, <5>2
          <5>3. CASE c # b
            <6>1. m.blocks[c].op # "NONE"
              BY <1>4, <1>7, <2>5, <3>1, <5>1, <5>3 DEF Carriers
            <6> QED
              BY <1>5, <2>4, <5>1, <6>1
          <5> QED
            BY <5>2, <5>3
        <4> QED
          BY <4>1, <4>2
      <3>2. CASE ~ (rec.op \in {"NODE", "MOVE"} /\ x = rec.entry)
        <4>1. x \in m.nodes /\ Carriers(n, x) = Carriers(m, x)
          <5>1. CASE rec.op \in {"NODE", "MOVE"}
            <6>1. x \in m.nodes /\ (x.node # rec.entry.node \/ x.type # rec.entry.type)
              BY <1>4, <1>7, <2>4, <3>2, <5>1 DEF InsertOrReplace
            <6> QED
              BY <1>4, <1>5, <1>7, <2>4, <2>5, <5>1, <6>1 DEF Carriers
          <5>2. CASE rec.op \in {"DATA", "TRUNCATE"}
            <6>1. x \in m.nodes
              BY <1>4, <1>7, <2>4, <5>2
            <6> QED
              BY <1>4, <1>5, <1>7, <2>4, <2>5, <2>6, <5>2, <6>1 DEF Carriers
          <5>3. CASE rec.op = "DELETE"
            <6>1. x \in m.nodes /\ x.node # rec.node
              BY <1>4, <1>7, <2>4, <5>3
            <6>2. \A c \in Block : m.blocks[c].op \in {"NODE", "MOVE"} =>
                     m.disk[c].entry.node = m.blocks[c].node
              BY <1>1 DEF MirrorsAll, Mirrors, DiskSound, EntryOp
            <6> QED
              BY <1>4, <1>5, <1>7, <2>4, <2>5, <2>6, <5>3, <6>1, <6>2 DEF Carriers
          <5> QED
            BY <1>2, <5>1, <5>2, <5>3 DEF LogOp
        <4> QED
          BY <2>4, <4>1 DEF Youngest
      <3> QED
        BY <3>1, <3>2
    <2> QED
      BY <2>7, <2>9, <2>10 DEF Recoverable, n
  <1> QED
    BY <1>6, <1>7

\* A mounted machine, and the machine of a process before it over the same
\* container, agree.
LEMMA MountRecovers ==
    ASSUME NEW m, Sound(m), Settled(m), Recoverable(m), Youngest(m),
           NEW s, Sound(s), Settled(s), Recoverable(s), s.disk = m.disk
    PROVE  /\ ZeroSizes => m.blocks = s.blocks
           /\ m.next_block_id = s.next_block_id
           /\ m.next_seq_id = s.next_seq_id
           /\ Keys(m.nodes) \subseteq Keys(s.nodes)
           /\ {Timeless(x) : x \in Logged(s)} \subseteq {Timeless(x) : x \in m.nodes}
  <1>1. ZeroSizes => OneSize
    BY DEF ZeroSizes, OneSize
  <1>2. ZeroSizes => m.blocks = s.blocks
    BY <1>1, SameBlocks DEF Recoverable
  <1>3. /\ m.next_block_id = s.next_block_id /\ m.next_seq_id = s.next_seq_id
        /\ \A b \in Block : m.blocks[b].op \in {"NODE", "MOVE"} <=> s.blocks[b].op \in {"NODE", "MOVE"}
    BY SameRows
  <1>4. \A x : Carriers(m, x) = Carriers(s, x)
    BY <1>3 DEF Carriers
  <1>5. Keys(m.nodes) \subseteq Keys(s.nodes)
    <2> SUFFICES ASSUME NEW x \in m.nodes
                 PROVE  \E y \in s.nodes : <<x.node, x.type>> = <<y.node, y.type>>
      BY DEF Keys
    <2>1. PICK b \in Carriers(m, x) : m.disk[b].entry = x
      BY DEF Youngest
    <2>2. b \in Block /\ s.blocks[b].op \in {"NODE", "MOVE"}
      BY <1>4, <2>1 DEF Carriers
    <2>3. HasKey(s.nodes, x)
      BY <2>1, <2>2 DEF Recoverable, Carried
    <2> QED
      BY <2>3 DEF HasKey
  <1>6. ASSUME NEW x \in Logged(s)
        PROVE  \E y \in m.nodes : Timeless(y) = Timeless(x)
    <2>1. PICK b \in Carriers(s, x) :
            /\ Timeless(s.disk[b].entry) = Timeless(x)
            /\ \A c \in Carriers(s, x) : s.disk[c].seq <= s.disk[b].seq
      BY DEF Logged
    <2>2. /\ b \in Block /\ m.blocks[b].op \in {"NODE", "MOVE"}
          /\ m.disk[b].entry.node = x.node /\ m.disk[b].entry.type = x.type
      BY <1>3, <2>1 DEF Carriers
    <2>3. PICK y \in m.nodes : y.node = x.node /\ y.type = x.type
      BY <2>2 DEF Recoverable, Carried, HasKey
    <2>4. Carriers(m, y) = Carriers(m, x)
      BY <2>3 DEF Carriers
    <2>5. PICK d \in Carriers(m, y) :
            /\ m.disk[d].entry = y
            /\ \A c \in Carriers(m, y) : m.disk[c].seq <= m.disk[d].seq
      BY DEF Youngest
    <2>6. d = b
      <3>1. d \in Carriers(s, x) /\ b \in Carriers(m, y)
        BY <1>4, <2>1, <2>4, <2>5
      <3>2. m.disk[d].seq <= m.disk[b].seq /\ m.disk[b].seq <= m.disk[d].seq
        BY <2>1, <2>5, <3>1
      <3>3. d \in Block /\ m.disk[d].seq \in Nat /\ m.disk[b].seq \in Nat
        BY <2>2, <2>5 DEF Carriers, Sound, Good, Machine, DiskRecord
      <3>4. m.disk[d].seq = m.disk[b].seq
        BY <3>2, <3>3
      <3>5. b \in Valid(m.disk) /\ d \in Valid(m.disk)
        <4>1. m.blocks[b].op # "NONE" /\ m.blocks[d].op # "NONE"
          BY <2>2, <2>5 DEF Carriers
        <4> QED
          BY <2>2, <3>3, <4>1 DEF Sound, MirrorsAll, Mirrors, Valid, LogOp
      <3> QED
        BY <3>4, <3>5 DEF Sound, DiskSound
    <2> QED
      BY <2>1, <2>5, <2>6
  <1> QED
    BY <1>2, <1>3, <1>5, <1>6

-----------------------------------------------------------------------------
(* The invariant. *)

\* The machine that a process left behind, until a mount has succeeded.
Remains ==
    /\ saved.disk = fs.disk
    /\ Sound(saved) /\ Settled(saved) /\ Recoverable(saved)

RInv ==
    /\ SInv /\ Recoverable(fs)
    /\ mode = "loading" => Youngest(fs)
    /\ mode # "mounted" => Remains

LEMMA InitRInv == Init => RInv
  <1> SUFFICES ASSUME Init PROVE RInv
    OBVIOUS
  <1>1. SInv
    BY InitSInv
  <1>2. mode = "mounted" /\ fs = Fresh([b \in Block |-> NoRecord])
    BY DEF Init
  <1> QED
    BY <1>1, <1>2, FreshRecoverable DEF RInv

\* Every step keeps the invariant.
LEMMA StepRInv == RInv /\ [RecNext]_rvars => RInv'
  <1> SUFFICES ASSUME RInv, [RecNext]_rvars PROVE RInv'
    OBVIOUS
  <1>1. [Next]_vars
    BY DEF RecNext, rvars, vars
  <1>2. SInv'
    BY <1>1, StepSInv DEF RInv
  <1>3. CASE UNCHANGED rvars
    BY <1>2, <1>3 DEF RInv, rvars, Remains
  <1>4. CASE mode = "mounted" /\ mode' = "mounted"
    <2>1. Form(fs, fs') /\ Sound(fs)
      BY <1>1, <1>4, StepForm DEF RInv, SInv, IInv
    <2>2. Recoverable(fs')
      BY <2>1, FormRecoverable DEF RInv
    <2> QED
      BY <1>2, <1>4, <2>2 DEF RInv
  <1>5. CASE Stop /\ Saves
    <2>1. fs' = Fresh(fs.disk) /\ mode # "down" /\ mode' = "down" /\ fs'.disk = fs.disk
      BY <1>5 DEF Stop, Fresh
    <2>2. Recoverable(fs')
      BY <2>1, FreshRecoverable
    <2>3. CASE mode = "mounted"
      <3> DEFINE s == Return(fs, "OK")
      <3>1. saved' = s
        BY <1>5, <2>1, <2>3 DEF Saves
      <3>2. Sound(fs) /\ Settled(fs) /\ Recoverable(fs) /\ fs \in Machine
        BY <2>3 DEF RInv, SInv, IInv, Sound, Good
      <3>3. /\ s.blocks = fs.blocks /\ s.disk = fs.disk /\ s.nodes = fs.nodes
            /\ s.next_seq_id = fs.next_seq_id
        BY <3>2 DEF Return, Machine
      <3>4. Sound(s)
        BY <3>2, ReturnSound
      <3> HIDE DEF s
      <3>5. Settled(s) /\ Recoverable(s)
        BY <3>2, <3>3, SameSettled, SameRecoverable
      <3>6. Remains'
        BY <2>1, <3>1, <3>3, <3>4, <3>5 DEF Remains
      <3> QED
        BY <1>2, <2>1, <2>2, <3>6 DEF RInv
    <2>4. CASE mode # "mounted"
      <3>1. saved' = saved
        BY <1>5, <2>1, <2>4 DEF Saves, Remounted
      <3>2. Remains'
        BY <2>1, <2>4, <3>1 DEF RInv, Remains
      <3> QED
        BY <1>2, <2>1, <2>2, <3>2 DEF RInv
    <2> QED
      BY <2>3, <2>4
  <1>6. CASE Mount /\ Saves
    <2>1. fs' = fs /\ mode = "down" /\ mode' = "loading" /\ fs = Fresh(fs.disk) /\ saved' = saved
      BY <1>6 DEF Mount, Saves, Remounted, RInv, SInv, IInv
    <2>2. Recoverable(fs') /\ Youngest(fs')
      BY <2>1, FreshRecoverable
    <2> QED
      BY <1>2, <2>1, <2>2 DEF RInv, Remains
  <1>7. CASE Mounted
    <2>1. fs' = fs /\ mode' = "mounted"
      BY <1>7 DEF Mounted
    <2> QED
      BY <1>2, <2>1 DEF RInv
  <1>8. ASSUME NEW b \in Block, LoadRecord(b), Saves
        PROVE  RInv'
    <2>1. /\ mode = "loading" /\ b \in todo /\ fs' = Replay(fs, b)
          /\ \A c \in todo : fs.disk[b].seq <= fs.disk[c].seq
          /\ mode' = IF fs'.r = "OK" THEN mode ELSE "failed"
      BY <1>8 DEF LoadRecord
    <2>2. Replaying(fs, todo) /\ Settled(fs) /\ Recoverable(fs) /\ Youngest(fs)
      BY <2>1 DEF RInv, SInv, IInv
    <2>3. Recoverable(fs') /\ (fs'.r = "OK" => Youngest(fs'))
      BY <2>1, <2>2, ReplayRecoverable
    <2>4. fs'.disk = fs.disk
      BY <2>1, <2>2, ReplaySound
    <2>5. saved' = saved
      BY <1>8, <2>1 DEF Saves, Remounted
    <2> QED
      BY <1>2, <2>1, <2>3, <2>4, <2>5 DEF RInv, Remains
  <1>9. ASSUME mode # "mounted" \/ mode' # "mounted"
        PROVE  ~ Call /\ ~ Finish
    BY <1>9 DEF Call, Finish, Begin, SetFile, SetDir, SetTime, DelNode, SetLink,
                MoveNode, DelData, SetData, FinishLink, FinishMove, WriteChunk
  <1> QED
    BY <1>3, <1>4, <1>5, <1>6, <1>7, <1>8, <1>9 DEF RecNext, Next, Load

\* It holds in every reachable state.
THEOREM RecoveryInvariant == RecSpec => []RInv
  BY InitRInv, StepRInv, PTL DEF RecSpec, RecInit

\* A mount that succeeds ends with a machine that agrees with what remains.
LEMMA RemountAgrees ==
    ASSUME RInv, [Next]_vars, Remounted
    PROVE  /\ fs' = fs /\ Remains
           /\ Sound(fs) /\ Settled(fs) /\ Recoverable(fs) /\ Youngest(fs)
  <1>1. mode = "loading" /\ mode' = "mounted"
    BY DEF Remounted
  <1>2. Mounted
    BY <1>1 DEF Next, vars, Call, Finish, Begin, SetFile, SetDir, SetTime, DelNode, SetLink,
                MoveNode, DelData, SetData, FinishLink, FinishMove, WriteChunk, Stop, Mount,
                Load, LoadRecord
  <1>3. todo = {} /\ fs' = fs
    BY <1>2 DEF Mounted
  <1>4. Sound(fs)
    BY <1>1, <1>3, ReplayedSound DEF RInv, SInv, IInv
  <1> QED
    BY <1>1, <1>3, <1>4 DEF RInv, SInv

-----------------------------------------------------------------------------
(* What a mount recovers. *)

\* With truncations to size 0, for every container, every history of calls, crashes
\* and mounts, however often blocks were reused: the block table of the mounted
\* machine is that of the process before, no node returns that was gone, and every
\* node that a record in use carries is where it was.
THEOREM ReuseRecovered == ASSUME ZeroSizes PROVE RecSpec => ReuseRecovery
  <1> DEFINE Agree == /\ fs'.blocks = saved.blocks
                      /\ fs'.next_block_id = saved.next_block_id
                      /\ fs'.next_seq_id = saved.next_seq_id
                      /\ Keys(fs'.nodes) \subseteq Keys(saved.nodes)
                      /\ {Timeless(x) : x \in Logged(saved)} \subseteq {Timeless(x) : x \in fs'.nodes}
  <1>1. ASSUME RInv, [RecNext]_rvars, Remounted PROVE Agree
    <2>1. [Next]_vars
      BY <1>1 DEF RecNext, rvars, vars
    <2>2. /\ fs' = fs /\ Remains
          /\ Sound(fs) /\ Settled(fs) /\ Recoverable(fs) /\ Youngest(fs)
      BY <1>1, <2>1, RemountAgrees
    <2> QED
      BY <2>2, MountRecovers DEF Remains
  <1>2. RInv /\ [RecNext]_rvars => [Remounted => Agree]_rvars
    BY <1>1
  <1> QED
    BY <1>2, RecoveryInvariant, PTL DEF RecSpec, ReuseRecovery

\* The namespace and the counters are recovered whatever the sizes of truncations.
NamespaceRecovery ==
    [][ Remounted =>
          /\ fs'.next_block_id = saved.next_block_id
          /\ fs'.next_seq_id = saved.next_seq_id
          /\ Keys(fs'.nodes) \subseteq Keys(saved.nodes)
          /\ {Timeless(x) : x \in Logged(saved)} \subseteq {Timeless(x) : x \in fs'.nodes} ]_rvars

\* A mount recovers the nodes that records in use carry, and no others, and goes on
\* with the sequence and block numbers of the process before, for truncations to
\* any sizes.
THEOREM NamespaceRecovered == RecSpec => NamespaceRecovery
  <1> DEFINE Agree == /\ fs'.next_block_id = saved.next_block_id
                      /\ fs'.next_seq_id = saved.next_seq_id
                      /\ Keys(fs'.nodes) \subseteq Keys(saved.nodes)
                      /\ {Timeless(x) : x \in Logged(saved)} \subseteq {Timeless(x) : x \in fs'.nodes}
  <1>1. ASSUME RInv, [RecNext]_rvars, Remounted PROVE Agree
    <2>1. [Next]_vars
      BY <1>1 DEF RecNext, rvars, vars
    <2>2. /\ fs' = fs /\ Remains
          /\ Sound(fs) /\ Settled(fs) /\ Recoverable(fs) /\ Youngest(fs)
      BY <1>1, <2>1, RemountAgrees
    <2> QED
      BY <2>2, MountRecovers DEF Remains
  <1>2. RInv /\ [RecNext]_rvars => [Remounted => Agree]_rvars
    BY <1>1
  <1> QED
    BY <1>2, RecoveryInvariant, PTL DEF RecSpec, NamespaceRecovery

-----------------------------------------------------------------------------
(* A log that was only appended to. *)

\* No block was reused: the records have the sequence numbers of their blocks.
Appended(disk) == \A b \in Valid(disk) : disk[b].seq = b

Present(m, b) == m.blocks[b].op # "NONE"

\* Record d is younger than record b, and its replay frees the row of b.
Undoes(m, d, b) ==
    /\ Present(m, d) /\ m.disk[d].seq > m.disk[b].seq
    /\ Frees(m.disk, m.disk[d].op, m.disk[d].node, m.disk[d].offset, b)

\* Record d is younger than the data record b, and its replay may trim the row of b.
Trims(m, d, b) ==
    /\ Present(m, d) /\ m.disk[d].seq > m.disk[b].seq
    /\ m.disk[d].op = "TRUNCATE" /\ m.disk[b].op = "DATA"
    /\ m.disk[d].node = m.disk[b].node /\ m.disk[d].offset > m.disk[b].offset

\* The row of b has the size that its record and the truncations in S leave it.
Fit(m, b, S) ==
    LET end == m.disk[b].offset + m.blocks[b].fill
    IN  /\ m.blocks[b].fill <= m.disk[b].fill
        /\ \A d \in S : end <= m.disk[d].offset
        /\ m.blocks[b].fill = m.disk[b].fill \/ \E d \in S : end = m.disk[d].offset

\* The row of b is what the records after b have made of it.
InUse(m, b) ==
    /\ m.blocks[b].op # "FREE"
    /\ \A d \in Block : ~ Undoes(m, d, b)
    /\ Fit(m, b, {d \in Block : Trims(m, d, b)})

FreedAt(m, b, c) ==
    /\ m.blocks[b].op = "FREE"
    /\ Undoes(m, c, b)
    /\ \A d \in Block : Undoes(m, d, b) => m.disk[c].seq <= m.disk[d].seq
    /\ Fit(m, b, {d \in Block : Trims(m, d, b) /\ m.disk[d].seq < m.disk[c].seq})

\* The block table is a function of the records it describes.
Exact(m) ==
    \A b \in Block :
        \/ m.blocks[b] = NoRow
        \/ /\ Present(m, b) /\ m.blocks[b].offset = m.disk[b].offset
           /\ InUse(m, b) \/ \E c \in Block : FreedAt(m, b, c)

\* Every row that records in use carry is the one that the youngest of them has.
Live(m) ==
    \A x \in m.nodes : Carriers(m, x) # {} =>
        \E b \in Carriers(m, x) :
            /\ m.disk[b].entry = x
            /\ \A c \in Carriers(m, x) : m.disk[c].seq <= m.disk[b].seq

\* A node with a MOVE or a DATA record in use has a NODE record in use.
Sourced(m) ==
    \A b \in Block : m.blocks[b].op \in {"MOVE", "DATA"} =>
        \E c \in Rows(m, "NODE") : m.blocks[c].node = m.blocks[b].node

\* While there is room, a record carries each row but those that are yet to be written.
Enlisted(m, rest) ==
    m.next_block_id <= LastBlock => \A x \in m.nodes \ rest : Carriers(m, x) # {}

\* The rows that records in use carry.
Sure(m) == {x \in m.nodes : Carriers(m, x) # {}}

\* Of the log before block k, the replay keeps the row that record b carries.
Stands(disk, b, k) ==
    /\ b < k /\ disk[b].op \in {"NODE", "MOVE"}
    /\ \A d \in Block : b < d /\ d < k =>
         /\ disk[d].op = "DELETE" => disk[d].node # disk[b].node
         /\ disk[d].op \in {"NODE", "MOVE"} =>
              disk[d].entry.node # disk[b].entry.node \/ disk[d].entry.type # disk[b].entry.type

\* The replay of a MOVE finds its name free.
Orderly(disk) ==
    \A b, c \in Block : disk[c].op = "MOVE" /\ Stands(disk, b, c) =>
        \/ disk[b].entry.parent # disk[c].entry.parent
        \/ disk[b].entry.name # disk[c].entry.name

\* What a machine over such a log keeps.
Faithful(m) == Exact(m) /\ Live(m) /\ Sourced(m) /\ Orderly(m.disk) /\ Tree(Sure(m))

\* The next node id is one that a record gave.
IdFollows(m) ==
    m.next_node_id = 1 \/ \E b \in Block : Present(m, b) /\ m.next_node_id = m.blocks[b].node + 1

HasFile(m, node) == \E x \in m.nodes : x.node = node /\ x.type = "FILE"

\* The row of a link that has no record yet.
Unwritten == IF job.kind = "link" THEN {job.row} ELSE {}

\* What the call in progress has yet to write is about rows of the table.
Known ==
    /\ job.kind = "link" => job.row \in fs.nodes
    /\ job.kind = "move" => HasKey(fs.nodes, job.row)
    /\ job.kind = "data" => HasFile(fs, job.node)

\* A log is appended to until a block is reused.
Intact(disk) == Appended(disk) \/ \E b \in Valid(disk) : disk[b].seq > LastBlock

HInv ==
    /\ Known /\ Intact(fs.disk)
    /\ mode = "mounted" /\ Appended(fs.disk) =>
         Faithful(fs) /\ Enlisted(fs, Unwritten) /\ Tree(fs.nodes)
    /\ mode # "mounted" =>
         /\ Unique(saved.nodes) /\ saved.next_node_id >= 1
         /\ Appended(fs.disk) => Faithful(saved)
    /\ mode = "loading" => Exact(fs) /\ IdFollows(fs)
    /\ Appended(fs.disk) => mode # "failed"

-----------------------------------------------------------------------------
(* The block table of such a log. *)

\* What a record of `op` makes of an older row.
Afterwards(row, op, node, offset) ==
    IF row.op = "NONE" \/ row.node # node THEN row
    ELSE IF op = "DELETE" THEN [row EXCEPT !.op = "FREE"]
    ELSE IF op = "TRUNCATE" THEN Cut(row, offset)
    ELSE row

\* From m to n the record of block b, the youngest, enters the tables.
Arrives(m, n, b) ==
    LET rec == n.disk[b]
    IN  /\ m.blocks[b].op = "NONE" /\ rec.op \in LogOp
        /\ n.blocks[b] = [op |-> rec.op, seq |-> rec.seq, node |-> rec.node,
                          fill |-> rec.fill, offset |-> rec.offset]
        /\ \A c \in Block : c # b =>
             /\ n.blocks[c] = Afterwards(m.blocks[c], rec.op, rec.node, rec.offset)
             /\ n.disk[c] = m.disk[c]
             /\ Present(m, c) => m.disk[c].seq < rec.seq

\* A cut in full.
LEMMA CutRow ==
    ASSUME NEW row \in BlockRow, NEW size \in Nat
    PROVE  /\ row.op = "TRUNCATE" \/ (row.op = "DATA" /\ size <= row.offset) =>
                Cut(row, size) = [row EXCEPT !.op = "FREE"]
           /\ row.op = "DATA" /\ row.offset < size =>
                Cut(row, size) = IF row.offset + row.fill > size
                                 THEN [row EXCEPT !.fill = size - row.offset] ELSE row
           /\ row.op \notin {"DATA", "TRUNCATE"} => Cut(row, size) = row
  BY DEF Cut, BlockRow, LogOp

\* The younger records of a row are those it had, and the one that arrives.
LEMMA ArriveRelations ==
    ASSUME NEW m \in Machine, NEW n \in Machine, NEW b \in Block, Arrives(m, n, b),
           NEW c \in Block, c # b, Present(m, c)
    PROVE  /\ Present(n, c) /\ Present(n, b)
           /\ \A d \in Block : d # b => /\ Undoes(n, d, c) <=> Undoes(m, d, c)
                                        /\ Trims(n, d, c) <=> Trims(m, d, c)
           /\ ~ Undoes(m, b, c) /\ ~ Trims(m, b, c)
           /\ \A d \in Block : Present(m, d) => n.disk[d].seq < n.disk[b].seq
           /\ \A d \in Block : ~ Undoes(n, d, b) /\ ~ Trims(n, d, b)
  <1>1. \A d \in Block : d # b => (Present(n, d) <=> Present(m, d))
    <2> TAKE d \in Block
    <2> HAVE d # b
    <2>1. m.blocks[d] \in BlockRow /\ n.disk[b].offset \in Nat
      BY DEF Machine, DiskRecord
    <2>2. Cut(m.blocks[d], n.disk[b].offset).op = "NONE" <=> m.blocks[d].op = "NONE"
      BY <2>1, CutType
    <2>3. n.blocks[d] = Afterwards(m.blocks[d], n.disk[b].op, n.disk[b].node, n.disk[b].offset)
      BY DEF Arrives
    <2> QED BY <2>1, <2>2, <2>3 DEF Afterwards, Present, BlockRow
  <1>2. Present(n, b)
    BY DEF Arrives, Present, LogOp
  <1>3. \A d \in Block : n.disk[d].seq \in Nat /\ m.disk[d].seq \in Nat
    BY DEF Machine, DiskRecord
  <1>4. \A d \in Block : d # b => n.disk[d] = m.disk[d]
    BY DEF Arrives
  <1>5. \A d \in Block : Present(m, d) => d # b /\ n.disk[d].seq < n.disk[b].seq
    BY <1>4 DEF Arrives, Present
  <1>6. \A d \in Block : Present(n, d) /\ d # b => n.disk[d].seq < n.disk[b].seq
    BY <1>1, <1>5
  <1>7. \A d \in Block : d # b => /\ Undoes(n, d, c) <=> Undoes(m, d, c)
                                  /\ Trims(n, d, c) <=> Trims(m, d, c)
    BY <1>1, <1>4 DEF Undoes, Trims, Frees
  <1>8. \A d \in Block : ~ Undoes(n, d, b) /\ ~ Trims(n, d, b)
    BY <1>3, <1>6 DEF Undoes, Trims
  <1>9. ~ Undoes(m, b, c) /\ ~ Trims(m, b, c)
    BY <1>5 DEF Undoes, Trims
  <1> QED BY <1>1, <1>2, <1>5, <1>7, <1>8, <1>9

\* A record that arrives keeps the block table exact.
LEMMA ArriveExact ==
    ASSUME NEW m \in Machine, MirrorsAll(m), Exact(m), NEW n \in Machine,
           NEW b \in Block, Arrives(m, n, b)
    PROVE  Exact(n)
  <1> DEFINE Op == n.disk[b].op
             Node == n.disk[b].node
             Off == n.disk[b].offset
  <1>1. /\ Op \in LogOp /\ Node \in Nat /\ Off \in Nat
        /\ \A c \in Block : m.blocks[c] \in BlockRow /\ m.disk[c] \in DiskRecord
        /\ \A c \in Block : n.blocks[c] \in BlockRow /\ n.disk[c] \in DiskRecord
    BY DEF Arrives, Machine, DiskRecord
  <1>2. \A c \in Block : c # b =>
          n.blocks[c] = Afterwards(m.blocks[c], Op, Node, Off) /\ n.disk[c] = m.disk[c]
    BY DEF Arrives
  <1> SUFFICES ASSUME NEW c \in Block, n.blocks[c] # NoRow
               PROVE  /\ Present(n, c) /\ n.blocks[c].offset = n.disk[c].offset
                      /\ InUse(n, c) \/ \E e \in Block : FreedAt(n, c, e)
    BY DEF Exact
  <1>3. CASE c = b
    <2>1. n.blocks[b] = [op |-> Op, seq |-> n.disk[b].seq, node |-> Node,
                         fill |-> n.disk[b].fill, offset |-> Off]
      BY DEF Arrives
    <2>2. \A d \in Block : ~ Undoes(n, d, b) /\ ~ Trims(n, d, b)
      <3>1. \A d \in Block : d # b /\ Present(n, d) => n.disk[d].seq < n.disk[b].seq
        <4> TAKE d \in Block
        <4> HAVE d # b /\ Present(n, d)
        <4>1. Present(m, d)
          <5>1. Cut(m.blocks[d], Off).op = "NONE" <=> m.blocks[d].op = "NONE"
            BY <1>1, CutType
          <5> QED BY <1>1, <1>2, <5>1 DEF Afterwards, Present, BlockRow
        <4> QED BY <4>1, <1>2 DEF Arrives
      <3>2. \A d \in Block : n.disk[d].seq \in Nat
        BY <1>1 DEF DiskRecord
      <3> HIDE DEF Op, Node, Off
      <3> QED BY <3>1, <3>2 DEF Undoes, Trims
    <2>3. {d \in Block : Trims(n, d, b)} = {}
      BY <2>2
    <2>4. Fit(n, b, {d \in Block : Trims(n, d, b)})
      BY <2>1, <2>3, <1>1 DEF Fit, DiskRecord
    <2> QED BY <1>3, <2>1, <2>2, <2>4, <1>1 DEF InUse, Present, LogOp
  <1>4. CASE c # b
    <2>1. Present(m, c)
      <3> SUFFICES ASSUME m.blocks[c].op = "NONE" PROVE FALSE
        BY DEF Present
      <3> QED BY <1>2, <1>4 DEF Afterwards, Exact, Present
    <2> DEFINE Row == m.blocks[c]
               Younger(k) == {d \in Block : Trims(k, d, c)}
               Earlier(k, e) == {d \in Block : Trims(k, d, c) /\ k.disk[d].seq < k.disk[e].seq}
    <2>2. /\ Present(n, c) /\ Present(n, b)
          /\ \A d \in Block : d # b => /\ Undoes(n, d, c) <=> Undoes(m, d, c)
                                       /\ Trims(n, d, c) <=> Trims(m, d, c)
          /\ ~ Undoes(m, b, c) /\ ~ Trims(m, b, c)
          /\ \A d \in Block : Present(m, d) => n.disk[d].seq < n.disk[b].seq
      BY <1>4, <2>1, ArriveRelations
    <2>3. /\ n.blocks[c] = Afterwards(Row, Op, Node, Off) /\ n.disk[c] = m.disk[c]
          /\ Row \in BlockRow /\ Row # NoRow /\ Row.op # "NONE"
          /\ Row.offset = m.disk[c].offset
          /\ Row.op # "FREE" => Row.op = m.disk[c].op
          /\ Row.node = m.disk[c].node
          /\ m.disk[c].offset \in Nat /\ m.disk[c].fill \in Nat
          /\ n.disk[c].seq < n.disk[b].seq
      BY <1>1, <1>2, <1>4, <2>1, <2>2 DEF Exact, Present, MirrorsAll, Mirrors, NoRow, DiskRecord
    <2>4. InUse(m, c) \/ \E e \in Block : FreedAt(m, c, e)
      BY <2>3 DEF Exact
    <2>5. \A d \in Block : d # b => n.disk[d] = m.disk[d]
      BY <1>2
    <2>6. /\ Undoes(n, b, c) <=> Frees(n.disk, Op, Node, Off, c)
          /\ Trims(n, b, c) <=> /\ Op = "TRUNCATE" /\ m.disk[c].op = "DATA"
                                /\ Node = m.disk[c].node /\ Off > m.disk[c].offset
      BY <2>2, <2>3 DEF Undoes, Trims
    <2> HIDE DEF Op, Node, Off
    <2>7. CASE \E e \in Block : FreedAt(m, c, e)
      <3>1. PICK e \in Block : FreedAt(m, c, e)
        BY <2>7
      <3>2. Row.op = "FREE" /\ Undoes(m, e, c)
        BY <3>1 DEF FreedAt
      <3>3. n.blocks[c] = Row
        <4>1. Cut(Row, Off) = Row
          BY <2>3, <3>2, <1>1, CutRow
        <4> QED BY <2>3, <3>2, <4>1 DEF Afterwards, BlockRow
      <3>4. e # b /\ Undoes(n, e, c) /\ n.disk[e].seq < n.disk[b].seq /\ n.disk[e] = m.disk[e]
        BY <2>2, <2>5, <3>2 DEF Undoes
      <3>5. n.disk[e].seq \in Nat /\ n.disk[b].seq \in Nat
        BY <1>1 DEF DiskRecord
      <3>6. \A d \in Block : Undoes(n, d, c) => n.disk[e].seq <= n.disk[d].seq
        BY <2>2, <2>5, <3>1, <3>4, <3>5 DEF FreedAt
      <3>7. Earlier(n, e) = Earlier(m, e)
        BY <2>2, <2>5, <3>4, <3>5
      <3>8. Fit(m, c, Earlier(m, e))
        BY <3>1 DEF FreedAt
      <3>9. Fit(n, c, Earlier(n, e))
        <4>1. \A d \in Earlier(m, e) : n.disk[d] = m.disk[d]
          BY <2>2, <2>5
        <4> HIDE DEF Earlier, Row
        <4> QED BY <3>3, <3>7, <3>8, <4>1, <2>3 DEF Fit, Row
      <3>10. FreedAt(n, c, e)
        BY <3>2, <3>3, <3>4, <3>6, <3>9 DEF FreedAt
      <3> QED BY <2>2, <2>3, <3>3, <3>10
    <2>8. CASE InUse(m, c)
      <3>1. Row.op # "FREE" /\ (\A d \in Block : ~ Undoes(m, d, c)) /\ Fit(m, c, Younger(m))
        BY <2>8 DEF InUse
      <3>2. Row.op = m.disk[c].op /\ \A d \in Younger(m) : d # b /\ n.disk[d] = m.disk[d]
        BY <2>2, <2>3, <2>5, <3>1
      <3>3. CASE Frees(n.disk, Op, Node, Off, c)
        <4>1. n.blocks[c] = [Row EXCEPT !.op = "FREE"]
          BY <3>1, <3>2, <3>3, <2>3, <1>1, CutRow DEF Afterwards, Frees
        <4>2. Undoes(n, b, c) /\ \A d \in Block : Undoes(n, d, c) => d = b
          BY <3>3, <2>6, <2>2, <3>1
        <4>3. Earlier(n, b) = Younger(m)
          <5>1. \A d \in Block : d # b /\ Trims(m, d, c) => n.disk[d].seq < n.disk[b].seq
            BY <2>2 DEF Trims
          <5>2. ~ Trims(n, b, c)
            BY <2>6, <2>3, <3>3, <1>1 DEF Frees
          <5> QED BY <5>1, <5>2, <2>2
        <4>4. n.blocks[c].fill = Row.fill /\ n.blocks[c].offset = Row.offset /\ n.blocks[c].op = "FREE"
          BY <4>1, <2>3 DEF BlockRow
        <4>5. Fit(n, c, Earlier(n, b))
          <5> HIDE DEF Earlier, Younger
          <5> QED BY <4>3, <4>4, <3>1, <3>2, <2>3 DEF Fit
        <4>6. n.disk[b].seq \in Nat
          BY <1>1 DEF DiskRecord
        <4>7. FreedAt(n, c, b)
          BY <4>2, <4>4, <4>5, <4>6 DEF FreedAt
        <4> QED BY <4>7, <4>4, <2>2, <2>3
      <3>4. CASE Trims(n, b, c)
        <4>1. Younger(n) = Younger(m) \cup {b}
          BY <3>4, <2>2
        <4>2. n.blocks[c] = IF Row.offset + Row.fill > Off
                            THEN [Row EXCEPT !.fill = Off - Row.offset] ELSE Row
          BY <3>4, <2>6, <3>2, <2>3, <1>1, CutRow DEF Afterwards
        <4>3. \A d \in Block : ~ Undoes(n, d, c)
          BY <3>1, <3>4, <2>2, <2>6, <2>3, <1>1 DEF Frees
        <4>4. /\ n.blocks[c].op = Row.op /\ n.blocks[c].offset = Row.offset
              /\ n.blocks[c].fill = IF Row.offset + Row.fill > Off THEN Off - Row.offset ELSE Row.fill
          BY <4>2, <2>3 DEF BlockRow
        <4>5. /\ Row.fill \in Nat /\ Row.offset \in Nat /\ Off \in Nat /\ Off > Row.offset
              /\ n.disk[b].offset = Off
              /\ \A d \in Younger(m) : n.disk[d].offset \in Nat
          BY <2>3, <2>6, <3>4, <1>1 DEF BlockRow, DiskRecord, Off
        <4>6. Fit(n, c, Younger(m) \cup {b})
          <5>1. /\ Row.fill <= m.disk[c].fill
                /\ \A d \in Younger(m) : Row.offset + Row.fill <= n.disk[d].offset
                /\ \/ Row.fill = m.disk[c].fill
                   \/ \E d \in Younger(m) : Row.offset + Row.fill = n.disk[d].offset
            <6> HIDE DEF Younger
            <6> QED BY <3>1, <3>2, <2>3 DEF Fit
          <5> HIDE DEF Younger, Row
          <5>2. CASE Row.offset + Row.fill > Off
            BY <5>1, <5>2, <4>4, <4>5, <2>3 DEF Fit
          <5>3. CASE ~ (Row.offset + Row.fill > Off)
            BY <5>1, <5>3, <4>4, <4>5, <2>3 DEF Fit
          <5> QED BY <5>2, <5>3
        <4>7. InUse(n, c)
          BY <4>1, <4>3, <4>4, <4>6, <3>1 DEF InUse
        <4> QED BY <4>7, <4>4, <2>2, <2>3
      <3>5. CASE ~ Frees(n.disk, Op, Node, Off, c) /\ ~ Trims(n, b, c)
        <4>1. n.blocks[c] = Row
          BY <3>5, <2>6, <3>1, <3>2, <2>3, <1>1, CutRow DEF Afterwards, Frees
        <4>2. \A d \in Block : ~ Undoes(n, d, c)
          BY <3>1, <3>5, <2>2, <2>6
        <4>3. Younger(n) = Younger(m)
          BY <3>5, <2>2
        <4>4. Fit(n, c, Younger(n))
          <5> HIDE DEF Younger
          <5> QED BY <4>1, <4>3, <3>1, <3>2, <2>3 DEF Fit
        <4> QED BY <4>1, <4>2, <4>4, <3>1, <2>2, <2>3 DEF InUse
      <3> QED BY <3>3, <3>4, <3>5
    <2> QED BY <2>4, <2>7, <2>8
  <1> QED BY <1>3, <1>4

\* The size that a record and the truncations in S leave a row is one.
LEMMA FitSame ==
    ASSUME NEW m \in Machine, NEW s \in Machine, m.disk = s.disk, NEW b \in Block,
           NEW S, S \subseteq Block, Fit(m, b, S), Fit(s, b, S)
    PROVE  m.blocks[b].fill = s.blocks[b].fill
  <1>1. /\ m.blocks[b].fill \in Nat /\ s.blocks[b].fill \in Nat
        /\ m.disk[b].fill \in Nat /\ m.disk[b].offset \in Nat
        /\ \A d \in S : m.disk[d].offset \in Nat
    BY DEF Machine, BlockRow, DiskRecord
  <1> QED BY <1>1 DEF Fit

\* Over one container, exact tables with rows for the same blocks are the same.
LEMMA ExactSame ==
    ASSUME NEW m \in Machine, MirrorsAll(m), Exact(m), NEW s \in Machine, MirrorsAll(s), Exact(s),
           m.disk = s.disk, DiskSound(m.disk),
           \A b \in Block : Present(m, b) <=> Present(s, b)
    PROVE  m.blocks = s.blocks
  <1>1. /\ \A d, b \in Block : /\ Undoes(m, d, b) <=> Undoes(s, d, b)
                               /\ Trims(m, d, b) <=> Trims(s, d, b)
        /\ \A b \in Block : m.blocks[b] \in BlockRow /\ s.blocks[b] \in BlockRow
        /\ \A b \in Block : m.disk[b].seq \in Nat
    BY DEF Undoes, Trims, Machine, DiskRecord
  <1> SUFFICES ASSUME NEW b \in Block PROVE m.blocks[b] = s.blocks[b]
    BY DEF Machine
  <1>2. CASE ~ Present(m, b)
    BY <1>2 DEF Exact, Present
  <1>3. CASE Present(m, b)
    <2>1. m.blocks[b] # NoRow /\ s.blocks[b] # NoRow /\ Present(s, b)
      BY <1>3 DEF Present, NoRow
    <2>2. /\ m.blocks[b].seq = s.blocks[b].seq /\ m.blocks[b].node = s.blocks[b].node
          /\ m.blocks[b].offset = s.blocks[b].offset
          /\ m.blocks[b].op # "FREE" => m.blocks[b].op = m.disk[b].op
          /\ s.blocks[b].op # "FREE" => s.blocks[b].op = m.disk[b].op
      BY <1>3, <2>1 DEF Exact, Present, MirrorsAll, Mirrors
    <2>3. InUse(m, b) \/ \E c \in Block : FreedAt(m, b, c)
      BY <2>1 DEF Exact
    <2>4. InUse(s, b) \/ \E c \in Block : FreedAt(s, b, c)
      BY <2>1 DEF Exact
    <2>5. CASE InUse(m, b) /\ InUse(s, b)
      <3>1. {d \in Block : Trims(m, d, b)} = {d \in Block : Trims(s, d, b)}
        BY <1>1
      <3>2. m.blocks[b].fill = s.blocks[b].fill
        BY <2>5, <3>1, FitSame DEF InUse
      <3>3. m.blocks[b].op = s.blocks[b].op
        BY <2>2, <2>5 DEF InUse
      <3> QED BY <1>1, <2>2, <3>2, <3>3 DEF BlockRow
    <2>6. ASSUME NEW c \in Block, NEW d \in Block, FreedAt(m, b, c), FreedAt(s, b, d)
          PROVE  m.blocks[b] = s.blocks[b]
      <3>1. Undoes(m, c, b) /\ Undoes(m, d, b) /\ m.disk[c].seq = m.disk[d].seq
        BY <1>1, <2>6 DEF FreedAt
      <3>2. {e \in Block : Trims(m, e, b) /\ m.disk[e].seq < m.disk[c].seq}
              = {e \in Block : Trims(s, e, b) /\ s.disk[e].seq < s.disk[d].seq}
        BY <1>1, <3>1
      <3>3. m.blocks[b].fill = s.blocks[b].fill
        BY <2>6, <3>2, FitSame DEF FreedAt
      <3>4. m.blocks[b].op = s.blocks[b].op
        BY <2>6 DEF FreedAt
      <3> QED BY <1>1, <2>2, <3>3, <3>4 DEF BlockRow
    <2>7. CASE InUse(m, b) /\ \E c \in Block : FreedAt(s, b, c)
      BY <2>7, <1>1 DEF InUse, FreedAt
    <2>8. CASE InUse(s, b) /\ \E c \in Block : FreedAt(m, b, c)
      BY <2>8, <1>1 DEF InUse, FreedAt
    <2> QED BY <2>3, <2>4, <2>5, <2>6, <2>7, <2>8
  <1> QED BY <1>2, <1>3

-----------------------------------------------------------------------------
(* The replay of such a log. *)

\* What the effect of a record makes of the block table.
LEMMA EffectRows ==
    ASSUME NEW m \in Machine, NEW rec \in DiskRecord, rec.op \in LogOp, Effect(m, rec).r = "OK"
    PROVE  /\ \A c \in Block :
                Effect(m, rec).blocks[c] = Afterwards(m.blocks[c], rec.op, rec.node, rec.offset)
           /\ Effect(m, rec).next_node_id = m.next_node_id
  <1>1. \A c \in Block : m.blocks[c] \in BlockRow
    BY DEF Machine
  <1>2. CASE rec.op \in {"DATA", "NODE"}
    BY <1>2 DEF Effect, Return, Machine, Afterwards
  <1>3. CASE rec.op = "MOVE"
    <2>1. Effect(m, rec) = MoveRow(m, rec.entry)
      BY <1>3 DEF Effect
    <2> QED BY <1>3, <2>1 DEF MoveRow, Return, Machine, Afterwards
  <1>4. CASE rec.op = "DELETE"
    <2>1. Effect(m, rec) = DropNode(m, rec.node)
      BY <1>4 DEF Effect
    <2> QED BY <1>1, <1>4, <2>1 DEF DropNode, Machine, Afterwards
  <1>5. CASE rec.op = "TRUNCATE"
    <2>1. Effect(m, rec) = DropData(m, rec.node, rec.offset)
      BY <1>5 DEF Effect
    <2>2. \A c \in Block : m.blocks[c].op = "NONE" => Cut(m.blocks[c], rec.offset) = m.blocks[c]
      BY <1>1, CutRow DEF DiskRecord
    <2> QED BY <1>5, <2>1, <2>2 DEF DropData, Machine, Afterwards
  <1> QED BY <1>2, <1>3, <1>4, <1>5 DEF LogOp

\* Replaying the oldest record left keeps the tables a function of the records.
LEMMA ReplayExact ==
    ASSUME NEW m, NEW left, Replaying(m, left), Exact(m), IdFollows(m), NEW b \in left,
           \A c \in left : m.disk[b].seq <= m.disk[c].seq, Replay(m, b).r = "OK"
    PROVE  Exact(Replay(m, b)) /\ IdFollows(Replay(m, b))
  <1> DEFINE rec == m.disk[b]
             done == Effect(m, rec)
             row == [op |-> rec.op, seq |-> rec.seq, node |-> rec.node,
                     fill |-> rec.fill, offset |-> rec.offset]
             n == Replay(m, b)
  <1>1. /\ DiskSound(m.disk) /\ MirrorsAll(m) /\ m \in Machine
        /\ m.disk \in [Block -> DiskRecord] /\ left \subseteq Block
    BY DEF Replaying, Good, DiskSound, Valid
  <1>2. b \in Block /\ rec \in DiskRecord /\ rec.op \in LogOp
    BY <1>1 DEF Replaying, Valid, DiskRecord
  <1>3. Fades(m, done)
    BY <1>1, <1>2, EffectFades DEF DiskSound
  <1>4. done.r = "OK"
    BY DEF Replay
  <1>5. done \in Machine /\ done.disk = m.disk
    BY <1>3 DEF Fades
  <1>6. /\ \A c \in Block : done.blocks[c] = Afterwards(m.blocks[c], rec.op, rec.node, rec.offset)
        /\ done.next_node_id = m.next_node_id
    BY <1>1, <1>2, <1>4, EffectRows
  <1>7. n \in Machine /\ n.disk = m.disk
    BY ReplaySound DEF Good
  <1> HIDE DEF done
  <1>8. n = [done EXCEPT !.blocks[b] = row,
                         !.next_node_id = Larger(@, rec.node + 1),
                         !.next_block_id = Larger(@, b + 1),
                         !.next_seq_id = rec.seq + 1]
    BY <1>4 DEF Replay, done
  <1>9. /\ n.blocks[b] = row /\ \A c \in Block : c # b => n.blocks[c] = done.blocks[c]
        /\ n.next_node_id = Larger(m.next_node_id, rec.node + 1)
    BY <1>2, <1>5, <1>6, <1>8 DEF Machine
  <1>10. m.blocks[b].op = "NONE"
         /\ \A c \in Block : m.blocks[c].op # "NONE" => m.disk[c].seq < rec.seq
    BY <1>2 DEF Replaying
  <1> HIDE DEF n
  <1>11. Arrives(m, n, b)
    BY <1>2, <1>6, <1>7, <1>9, <1>10 DEF Arrives, Present
  <1>12. Exact(n)
    BY <1>1, <1>2, <1>7, <1>11, ArriveExact
  <1>13. IdFollows(n)
    <2>1. \A c \in Block : Present(m, c) => Present(n, c) /\ n.blocks[c].node = m.blocks[c].node
      <3> TAKE c \in Block
      <3> HAVE Present(m, c)
      <3>1. m.blocks[c] \in BlockRow /\ c # b
        BY <1>1, <1>10 DEF Machine, Present
      <3>2. Cut(m.blocks[c], rec.offset).node = m.blocks[c].node
            /\ (Cut(m.blocks[c], rec.offset).op = "NONE" <=> m.blocks[c].op = "NONE")
        BY <1>2, <3>1, CutType DEF DiskRecord
      <3>3. n.blocks[c] = Afterwards(m.blocks[c], rec.op, rec.node, rec.offset)
        BY <1>6, <1>9, <3>1
      <3> HIDE DEF rec
      <3>4. /\ Afterwards(m.blocks[c], rec.op, rec.node, rec.offset).node = m.blocks[c].node
            /\ m.blocks[c].op # "NONE" =>
                 Afterwards(m.blocks[c], rec.op, rec.node, rec.offset).op # "NONE"
        BY <3>1, <3>2 DEF Afterwards, BlockRow
      <3> QED BY <3>3, <3>4 DEF Present
    <2>2. Present(n, b) /\ n.blocks[b].node = rec.node
      BY <1>2, <1>9 DEF Present, LogOp
    <2>3. n.next_node_id = m.next_node_id \/ n.next_node_id = rec.node + 1
      BY <1>9 DEF Larger
    <2> QED BY <1>2, <2>1, <2>2, <2>3 DEF IdFollows
  <1> QED BY <1>12, <1>13 DEF n

\* Of a log that was only appended to, the replay moves rows to free names.
LEMMA ReplayOrderly ==
    ASSUME NEW m, NEW left, Replaying(m, left), Settled(m), Youngest(m),
           Appended(m.disk), Orderly(m.disk), NEW b \in left,
           \A c \in left : m.disk[b].seq <= m.disk[c].seq
    PROVE  Replay(m, b).r = "OK"
  <1> DEFINE rec == m.disk[b]
  <1>1. /\ DiskSound(m.disk) /\ MirrorsAll(m) /\ m \in Machine
        /\ m.disk \in [Block -> DiskRecord] /\ left \subseteq Block /\ b \in Valid(m.disk)
    BY DEF Replaying, Good, DiskSound, Valid
  <1>2. b \in Block /\ rec \in DiskRecord /\ rec.op \in LogOp
    BY <1>1 DEF Valid, DiskRecord
  <1>3. SUFFICES Effect(m, rec).r = "OK"
    <2>1. Fades(m, Effect(m, rec))
      BY <1>1, <1>2, EffectFades DEF DiskSound
    <2> QED BY <2>1 DEF Replay, Fades, Machine
  <1>4. rec.op # "MOVE" => Effect(m, rec).r = "OK"
    BY <1>1, <1>2 DEF Effect, Return, DropNode, DropData, Machine, LogOp
  <1>5. CASE rec.op = "MOVE"
    <2>1. Lookup(m.nodes, rec.entry.parent, rec.entry.name) = {} => Effect(m, rec).r = "OK"
      BY <1>1, <1>5 DEF Effect, MoveRow, Machine
    <2> SUFFICES ASSUME NEW x \in m.nodes, x.parent = rec.entry.parent, x.name = rec.entry.name
                 PROVE  FALSE
      BY <2>1 DEF Lookup
    <2>2. PICK d \in Carriers(m, x) : /\ m.disk[d].entry = x
                                      /\ \A c \in Carriers(m, x) : m.disk[c].seq <= m.disk[d].seq
      BY DEF Youngest
    <2>3. /\ d \in Block /\ m.blocks[d].op \in {"NODE", "MOVE"} /\ m.disk[d].op = m.blocks[d].op
          /\ d \in Valid(m.disk) /\ m.disk[d].seq = d /\ m.disk[b].seq = b
          /\ m.disk[d].node = x.node
      BY <1>1, <2>2 DEF Carriers, MirrorsAll, Mirrors, Valid, Appended, LogOp, DiskSound, EntryOp
    <2>4. d < b
      <3>1. m.disk[d].seq < m.disk[b].seq
        BY <2>3 DEF Replaying
      <3> QED BY <2>3, <3>1
    <2>5. ASSUME NEW e \in Block, d < e, e < b, m.disk[e].op # "INVALID"
          PROVE  m.blocks[e].op # "NONE" /\ m.disk[e].seq = e /\ m.disk[e].seq > m.disk[d].seq
      <3>1. e \in Valid(m.disk) /\ m.disk[e].seq = e
        BY <2>5 DEF Valid, Appended
      <3>2. e \notin left
        BY <1>2, <2>3, <2>5, <3>1 DEF Block
      <3> QED BY <2>3, <2>5, <3>1, <3>2 DEF Replaying
    <2>6. ASSUME NEW e \in Block, d < e, e < b, m.disk[e].op = "DELETE", m.disk[e].node = m.disk[d].node
          PROVE  FALSE
      <3>1. Used(m, d)
        BY <2>3 DEF Used
      <3> QED BY <2>5, <2>6, <3>1, <2>3 DEF Settled, Spared, Frees
    <2>7. ASSUME NEW e \in Block, d < e, e < b, m.disk[e].op \in {"NODE", "MOVE"},
                 m.disk[e].entry.node = x.node, m.disk[e].entry.type = x.type
          PROVE  FALSE
      <3>1. m.blocks[e].op # "NONE" /\ m.disk[e].seq = e
        BY <2>5, <2>7
      <3>2. m.blocks[e].op = "FREE"
        <4>1. m.blocks[e].op # "FREE" => m.blocks[e].op = m.disk[e].op
          BY <1>1, <3>1 DEF MirrorsAll, Mirrors
        <4>2. m.blocks[e].op # "FREE" => e \in Carriers(m, x)
          BY <2>7, <4>1 DEF Carriers
        <4> QED BY <2>2, <2>3, <2>7, <3>1, <4>2 DEF Block
      <3>3. PICK c \in Block : Voids(m, c, e)
        BY <3>2 DEF Settled, Justified, Rows
      <3>4. m.blocks[c].op = "DELETE" /\ m.blocks[c].node = m.blocks[e].node
            /\ m.blocks[c].seq > m.blocks[e].seq
        BY <3>3, <2>7 DEF Voids, Covers
      <3>5. /\ m.disk[c].op = "DELETE" /\ m.disk[c].seq = m.blocks[c].seq
            /\ m.disk[c].node = m.blocks[c].node
            /\ m.disk[e].seq = m.blocks[e].seq /\ m.disk[e].node = m.blocks[e].node
        BY <1>1, <3>1, <3>4 DEF MirrorsAll, Mirrors
      <3>6. m.disk[e].node = x.node
        BY <1>1, <2>7 DEF DiskSound, EntryOp
      <3>7. m.disk[c].seq \in Nat
        BY <1>1 DEF DiskRecord
      <3>8. m.disk[c].seq > m.disk[d].seq
        <4>1. d \in Int /\ e \in Int /\ d < e /\ m.disk[d].seq = d
          BY <2>3, <2>7 DEF Block
        <4>2. m.disk[c].seq > e
          BY <3>1, <3>4, <3>5
        <4> QED
          BY <3>7, <4>1, <4>2
      <3> QED BY <2>3, <3>4, <3>5, <3>6, <3>8 DEF Settled, Spared, Frees, Used
    <2>8. Stands(m.disk, d, b)
      BY <2>2, <2>3, <2>4, <2>6, <2>7 DEF Stands
    <2> QED BY <1>2, <1>5, <2>2, <2>3, <2>8 DEF Orderly
  <1> QED BY <1>4, <1>5

-----------------------------------------------------------------------------
(* A write to such a log. *)

\* The record is written behind the others, in the block of its number.
Appends(f, w, op, node, fill, offset, entry) ==
    LET b == f.next_block_id
    IN  /\ b \in Block /\ f.next_seq_id = b
        /\ w.nodes = f.nodes
        /\ w.blocks = [f.blocks EXCEPT ![b] =
              [op |-> op, seq |-> b, node |-> node, fill |-> fill, offset |-> offset]]
        /\ w.disk = [f.disk EXCEPT ![b] =
              [op |-> op, seq |-> b, node |-> node, fill |-> fill, offset |-> offset,
               entry |-> entry]]

\* The numbers of a log that was only appended to.
LEMMA AppendedCounts ==
    ASSUME NEW f, Sound(f), NextFollows(f), Appended(f.disk)
    PROVE  f.next_seq_id = f.next_block_id
  <1>1. /\ f.next_block_id \in 1 .. LastBlock + 1 /\ f.next_seq_id \in Nat
        /\ LastBlock \in Nat \ {0}
        /\ \A b \in Block : f.blocks[b].op = "NONE" <=> f.next_block_id <= b
        /\ \A b \in Block : b \in Valid(f.disk) <=> b < f.next_block_id
    BY LastBlockAssumption DEF Sound, Good, Machine
  <1>2. \A b \in Block : b < f.next_block_id =>
          f.blocks[b].seq = b /\ f.blocks[b].seq < f.next_seq_id
    <2> TAKE b \in Block
    <2> HAVE b < f.next_block_id
    <2>1. f.blocks[b].op # "NONE" /\ f.disk[b].seq = b
      BY <1>1 DEF Block, Appended
    <2> QED BY <2>1 DEF Sound, MirrorsAll, Mirrors
  <1>3. CASE f.next_seq_id = 1 /\ \A b \in Block : f.blocks[b].op = "NONE"
    <2>1. 1 \in Block
      BY <1>1 DEF Block
    <2> QED BY <1>1, <1>3, <2>1
  <1>4. CASE \E b \in Block : f.blocks[b].op # "NONE" /\ f.blocks[b].seq + 1 = f.next_seq_id
    <2>1. PICK b \in Block : f.blocks[b].op # "NONE" /\ f.blocks[b].seq + 1 = f.next_seq_id
      BY <1>4
    <2>2. b < f.next_block_id /\ f.next_seq_id = b + 1
      BY <1>1, <1>2, <2>1 DEF Block
    <2>3. CASE b + 1 < f.next_block_id
      <3>1. b + 1 \in Block
        BY <1>1, <2>3 DEF Block
      <3>2. b + 1 < f.next_seq_id
        BY <1>2, <2>3, <3>1
      <3> QED BY <1>1, <2>2, <3>2 DEF Block
    <2> QED BY <1>1, <2>2, <2>3 DEF Block
  <1> QED BY <1>3, <1>4 DEF NextFollows

\* A log stays intact or shows that it is not, and a write that leaves it intact has
\* appended its record or found no block.
LEMMA WriteAppends ==
    ASSUME NEW f, Sound(f), NextFollows(f), Intact(f.disk), NEW op \in LogOp, NEW node \in Nat,
           NEW fill \in Nat, NEW offset \in Nat, NEW entry \in NodeRow \cup {NoEntry},
           NEW w, w = Write(f, op, node, fill, offset, entry)
    PROVE  /\ Intact(w.disk)
           /\ Appended(w.disk) =>
                /\ Appended(f.disk)
                /\ \/ Appends(f, w, op, node, fill, offset, entry)
                   \/ Grants(f, node) = {} /\ w = Return(f, "ENOSPC")
  <1>1. /\ Good(f) /\ f \in Machine /\ f.next_block_id \in 1 .. LastBlock + 1
        /\ f.next_seq_id \in Nat /\ LastBlock \in Nat \ {0}
        /\ \A b \in Block : f.blocks[b].op = "NONE" <=> f.next_block_id <= b
        /\ \A b \in Block : b \in Valid(f.disk) <=> b < f.next_block_id
        /\ \A b \in Block : f.disk[b].seq \in Nat
    BY LastBlockAssumption DEF Sound, Good, Machine, DiskRecord
  <1>2. \A b \in Block : b < f.next_block_id => f.disk[b].seq < f.next_seq_id
    <2> TAKE b \in Block
    <2> HAVE b < f.next_block_id
    <2>1. f.blocks[b].op # "NONE"
      BY <1>1 DEF Block
    <2> QED BY <2>1 DEF Sound, MirrorsAll, Mirrors
  <1>3. CASE Grants(f, node) = {}
    <2>1. w = Return(f, "ENOSPC")
      BY <1>3 DEF Write
    <2>2. w.disk = f.disk
      BY <1>1, <2>1 DEF Return, Machine
    <2> QED BY <1>3, <2>1, <2>2
  <1>4. CASE Grants(f, node) # {}
    <2> DEFINE rec == [op |-> op, seq |-> f.next_seq_id, node |-> node,
                       fill |-> fill, offset |-> offset, entry |-> entry]
               row == [op |-> op, seq |-> f.next_seq_id, node |-> node,
                       fill |-> fill, offset |-> offset]
    <2>0. PICK b \in Grants(f, node) :
            Write(f, op, node, fill, offset, entry) =
              [nodes |-> f.nodes,
               blocks |-> [f.blocks EXCEPT ![b] = row],
               disk |-> [f.disk EXCEPT ![b] = rec],
               next_node_id |-> Larger(f.next_node_id, node + 1),
               next_block_id |-> IF f.next_block_id <= LastBlock
                                 THEN f.next_block_id + 1 ELSE f.next_block_id,
               next_seq_id |-> f.next_seq_id + 1,
               r |-> "OK"]
      <3>1. Good(f)
        BY <1>1
      <3>2. PICK b \in Grants(f, node) :
              Write(f, op, node, fill, offset, entry) = Laid(f, op, node, fill, offset, entry, b)
        BY <1>4, <3>1, WriteEffect
      <3> QED
        BY <3>2 DEF Laid
    <2>1. /\ w.nodes = f.nodes /\ w.blocks = [f.blocks EXCEPT ![b] = row]
          /\ w.disk = [f.disk EXCEPT ![b] = rec]
      BY <2>0
    <2>2. /\ b \in Block
          /\ b = f.next_block_id \/ (f.next_block_id = LastBlock + 1 /\ b < f.next_block_id)
      BY <1>1, GrantsType DEF Block
    <2>3. /\ w.disk[b] = rec /\ w.disk[b].seq = f.next_seq_id /\ w.disk[b].op # "INVALID"
          /\ \A c \in Block : c # b => w.disk[c] = f.disk[c]
      <3>1. f.disk \in [Block -> DiskRecord] /\ op # "INVALID"
        BY <1>1 DEF Machine, LogOp
      <3> HIDE DEF rec
      <3>2. w.disk[b] = rec /\ \A c \in Block : c # b => w.disk[c] = f.disk[c]
        BY <2>1, <2>2, <3>1
      <3> QED BY <3>1, <3>2 DEF rec
    <2> HIDE DEF rec
    <2>4. b \in Valid(w.disk) /\ \A c \in Block : c # b => (c \in Valid(w.disk) <=> c \in Valid(f.disk))
      BY <2>2, <2>3 DEF Valid
    <2>5. CASE b = f.next_block_id
      <3>1. b \notin Valid(f.disk)
        BY <1>1, <2>2, <2>5
      <3>2. Appended(f.disk) => Intact(w.disk)
        <4> SUFFICES ASSUME Appended(f.disk) PROVE Appended(w.disk)
          BY DEF Intact
        <4>1. f.next_seq_id = b
          BY <2>5, AppendedCounts
        <4> QED BY <2>2, <2>3, <2>4, <4>1 DEF Appended, Valid
      <3>3. (\E c \in Valid(f.disk) : f.disk[c].seq > LastBlock) => Intact(w.disk)
        BY <2>3, <2>4, <3>1 DEF Intact, Valid
      <3>4. ASSUME Appended(w.disk) PROVE Appended(f.disk) /\ f.next_seq_id = b
        <4>1. Appended(f.disk)
          BY <2>3, <2>4, <3>1, <3>4 DEF Appended, Valid
        <4> QED BY <4>1, <2>5, AppendedCounts
      <3>5. Appended(w.disk) => Appends(f, w, op, node, fill, offset, entry)
        BY <2>1, <2>2, <2>5, <3>4 DEF Appends, rec
      <3> QED BY <3>2, <3>3, <3>4, <3>5 DEF Intact
    <2>6. CASE f.next_block_id = LastBlock + 1
      <3>1. \A c \in Block : c \in Valid(f.disk) /\ c < f.next_block_id
        BY <1>1, <2>6 DEF Block
      <3>2. LastBlock \in Block
        BY <1>1 DEF Block
      <3>3. f.next_seq_id > LastBlock
        <4>1. CASE Appended(f.disk)
          BY <1>1, <1>2, <3>1, <3>2, <4>1 DEF Appended
        <4>2. CASE \E c \in Valid(f.disk) : f.disk[c].seq > LastBlock
          BY <1>1, <1>2, <3>1, <4>2 DEF Valid
        <4> QED BY <4>1, <4>2 DEF Intact
      <3>4. ~ Appended(w.disk)
        BY <1>1, <2>2, <2>3, <2>4, <3>3 DEF Appended, Block
      <3>5. Intact(w.disk)
        BY <2>3, <2>4, <3>3 DEF Intact
      <3> QED BY <3>4, <3>5
    <2> QED BY <2>2, <2>5, <2>6
  <1> QED BY <1>3, <1>4

\* A table without some of its payloads is still a tree.
LEMMA PruneTree ==
    ASSUME NEW nodes, Tree(nodes), NEW left, left \subseteq nodes,
           \A x \in nodes \ left : x.type = "LINK_PAYLOAD"
    PROVE  Tree(left)
  <1>1. Dirs(left) = Dirs(nodes)
    BY DEF Dirs
  <1>2. \A x \in left : Held(left, x)
    BY DEF Tree, Held
  <1>3. Apart(left) /\ Ringless(left)
    BY <1>1 DEF Tree, Apart, Ringless
  <1> QED BY <1>2, <1>3 DEF Tree

\* What the replay of the whole log keeps is in the table.
LEMMA StandsLive ==
    ASSUME NEW m, Sound(m), Settled(m), Carried(m), Live(m), Appended(m.disk),
           NEW b \in Block, Stands(m.disk, b, m.next_block_id)
    PROVE  m.disk[b].entry \in m.nodes
  <1>1. /\ DiskSound(m.disk) /\ MirrorsAll(m) /\ m \in Machine /\ m.next_block_id \in Nat
        /\ \A c \in Block : m.blocks[c].op = "NONE" <=> m.next_block_id <= c
        /\ \A c \in Block : c \in Valid(m.disk) <=> c < m.next_block_id
    BY LastBlockAssumption DEF Sound, Good
  <1>2. b < m.next_block_id /\ m.disk[b].op \in {"NODE", "MOVE"}
    BY DEF Stands
  <1>3. \A c \in Block : c < m.next_block_id => m.disk[c].seq = c /\ m.blocks[c].op # "NONE"
    BY <1>1 DEF Appended, Block
  <1>4. m.blocks[b].op # "FREE"
    <2> SUFFICES ASSUME m.blocks[b].op = "FREE" PROVE FALSE
      OBVIOUS
    <2>1. PICK c \in Block : Voids(m, c, b)
      BY DEF Settled, Justified, Rows
    <2>2. m.blocks[c].op = "DELETE" /\ m.blocks[c].node = m.blocks[b].node
          /\ m.blocks[c].seq > m.blocks[b].seq
      BY <1>2, <2>1 DEF Voids, Covers
    <2>3. /\ m.disk[c].op = "DELETE" /\ m.disk[c].seq = m.blocks[c].seq
          /\ m.disk[c].node = m.blocks[c].node
          /\ m.disk[b].seq = m.blocks[b].seq /\ m.disk[b].node = m.blocks[b].node
      BY <1>1, <1>2, <1>3, <2>2 DEF MirrorsAll, Mirrors
    <2>4. c < m.next_block_id /\ b < c
      <3>1. c < m.next_block_id
        BY <1>1, <2>2 DEF Block
      <3> QED BY <1>2, <1>3, <2>2, <2>3, <3>1
    <2> QED BY <2>2, <2>3, <2>4 DEF Stands
  <1>5. m.blocks[b].op \in {"NODE", "MOVE"}
    BY <1>1, <1>2, <1>3, <1>4 DEF MirrorsAll, Mirrors
  <1>6. PICK y \in m.nodes : y.node = m.disk[b].entry.node /\ y.type = m.disk[b].entry.type
    BY <1>5 DEF Carried, HasKey
  <1>7. b \in Carriers(m, y)
    BY <1>5, <1>6 DEF Carriers
  <1>8. PICK d \in Carriers(m, y) : /\ m.disk[d].entry = y
                                    /\ \A c \in Carriers(m, y) : m.disk[c].seq <= m.disk[d].seq
    BY <1>7 DEF Live
  <1>9. /\ d \in Block /\ d < m.next_block_id /\ m.disk[d].op \in {"NODE", "MOVE"}
        /\ m.disk[d].entry.node = y.node /\ m.disk[d].entry.type = y.type
    BY <1>1 DEF Carriers, MirrorsAll, Mirrors, Block
  <1>10. b <= d
    BY <1>2, <1>3, <1>7, <1>8, <1>9
  <1>11. ~ (b < d)
    BY <1>6, <1>9 DEF Stands
  <1>12. b = d
    BY <1>10, <1>11, <1>9 DEF Block
  <1> QED BY <1>8, <1>12

-----------------------------------------------------------------------------
(* A step over such a log. *)

\* That the block table is exact shows in the rows and the records.
LEMMA SameExact ==
    ASSUME NEW m, Exact(m), NEW n, n.blocks = m.blocks, n.disk = m.disk
    PROVE  Exact(n)
  <1>1. \A b \in Block : Present(n, b) <=> Present(m, b)
    BY DEF Present
  <1>2. \A b, d \in Block : (Undoes(n, d, b) <=> Undoes(m, d, b)) /\ (Trims(n, d, b) <=> Trims(m, d, b))
    BY <1>1 DEF Undoes, Trims
  <1>3. ASSUME NEW b \in Block, NEW S PROVE Fit(n, b, S) <=> Fit(m, b, S)
    BY DEF Fit
  <1>4. \A b \in Block : InUse(n, b) <=> InUse(m, b)
    <2> SUFFICES ASSUME NEW b \in Block PROVE InUse(n, b) <=> InUse(m, b)
      OBVIOUS
    <2>1. {d \in Block : Trims(n, d, b)} = {d \in Block : Trims(m, d, b)}
      BY <1>2
    <2> QED
      BY <1>2, <1>3, <2>1 DEF InUse
  <1>5. \A b, c \in Block : FreedAt(n, b, c) <=> FreedAt(m, b, c)
    <2> SUFFICES ASSUME NEW b \in Block, NEW c \in Block PROVE FreedAt(n, b, c) <=> FreedAt(m, b, c)
      OBVIOUS
    <2>1. {d \in Block : Trims(n, d, b) /\ n.disk[d].seq < n.disk[c].seq}
          = {d \in Block : Trims(m, d, b) /\ m.disk[d].seq < m.disk[c].seq}
      BY <1>2
    <2> QED
      BY <1>2, <1>3, <2>1 DEF FreedAt
  <1> QED
    BY <1>1, <1>4, <1>5 DEF Exact

\* What a machine keeps shows in its rows and records.
LEMMA SameFaithful ==
    ASSUME NEW m, Faithful(m), NEW rest, Enlisted(m, rest), NEW n,
           n.nodes = m.nodes, n.blocks = m.blocks, n.disk = m.disk,
           n.next_block_id = m.next_block_id
    PROVE  Faithful(n) /\ Enlisted(n, rest)
  <1>1. Exact(n)
    BY SameExact DEF Faithful
  <1>2. \A x : Carriers(n, x) = Carriers(m, x)
    BY DEF Carriers
  <1>3. Live(n)
    BY <1>2 DEF Faithful, Live
  <1>4. Sourced(n)
    BY DEF Faithful, Sourced, Rows
  <1>5. Sure(n) = Sure(m) /\ Enlisted(n, rest)
    BY <1>2 DEF Sure, Enlisted
  <1> QED BY <1>1, <1>3, <1>4, <1>5 DEF Faithful

\* The block that a record is appended in.
LEMMA AppendsBlock ==
    ASSUME NEW m, Sound(m), NEW f, Fades(m, f), NEW op \in LogOp, NEW node, NEW fill, NEW offset,
           NEW entry, NEW w, Appends(f, w, op, node, fill, offset, entry)
    PROVE  LET b == m.next_block_id
           IN  /\ b \in Block /\ b <= LastBlock /\ m.blocks[b].op = "NONE" /\ f.blocks[b].op = "NONE"
               /\ m.disk[b].op = "INVALID"
               /\ w.nodes = f.nodes
               /\ w.blocks[b] = [op |-> op, seq |-> b, node |-> node, fill |-> fill, offset |-> offset]
               /\ w.disk[b] = [op |-> op, seq |-> b, node |-> node, fill |-> fill,
                               offset |-> offset, entry |-> entry]
               /\ \A c \in Block : c # b => w.blocks[c] = f.blocks[c] /\ w.disk[c] = m.disk[c]
               /\ m.next_seq_id = b
  <1> DEFINE b == m.next_block_id
             row == [op |-> op, seq |-> b, node |-> node, fill |-> fill, offset |-> offset]
             rec == [op |-> op, seq |-> b, node |-> node, fill |-> fill,
                     offset |-> offset, entry |-> entry]
  <1>1. /\ f.next_block_id = b /\ f.disk = m.disk /\ f \in Machine /\ f.next_seq_id = m.next_seq_id
        /\ b \in 1 .. LastBlock + 1 /\ LastBlock \in Nat \ {0}
    BY LastBlockAssumption DEF Fades, Sound, Good
  <1>2. /\ b \in Block /\ w.nodes = f.nodes /\ f.next_seq_id = b
        /\ w.blocks = [f.blocks EXCEPT ![b] = row] /\ w.disk = [m.disk EXCEPT ![b] = rec]
    BY <1>1 DEF Appends
  <1>3. b <= LastBlock
    BY <1>1, <1>2 DEF Block
  <1>4. m.blocks[b].op = "NONE" /\ b \notin Valid(m.disk)
    BY <1>1, <1>2 DEF Sound
  <1>5. f.blocks[b].op = "NONE"
    BY <1>2, <1>4 DEF Fades
  <1>6. f.blocks \in [Block -> BlockRow] /\ m.disk \in [Block -> DiskRecord]
    BY <1>1 DEF Machine
  <1> HIDE DEF row, rec, b
  <1>7. /\ w.blocks[b] = row /\ w.disk[b] = rec
        /\ \A c \in Block : c # b => w.blocks[c] = f.blocks[c] /\ w.disk[c] = m.disk[c]
    BY <1>2, <1>6
  <1> QED BY <1>1, <1>2, <1>3, <1>4, <1>5, <1>7 DEF Valid, row, rec, b

\* The record voids and trims what it does at its replay.
LEMMA AppendExact ==
    ASSUME NEW m, Sound(m), Exact(m), NEW f, Fades(m, f), NEW op \in LogOp, NEW node, NEW fill,
           NEW offset, NEW entry, NEW w \in Machine, Appends(f, w, op, node, fill, offset, entry),
           \A c \in Block : f.blocks[c] = Afterwards(m.blocks[c], op, node, offset)
    PROVE  Exact(w)
  <1> DEFINE b == m.next_block_id
  <1>1. /\ m \in Machine /\ MirrorsAll(m)
    BY DEF Sound, Good
  <1>2. /\ b \in Block /\ m.blocks[b].op = "NONE"
        /\ w.blocks[b] = [op |-> op, seq |-> b, node |-> node, fill |-> fill, offset |-> offset]
        /\ w.disk[b] = [op |-> op, seq |-> b, node |-> node, fill |-> fill,
                        offset |-> offset, entry |-> entry]
        /\ \A c \in Block : c # b => w.blocks[c] = f.blocks[c] /\ w.disk[c] = m.disk[c]
        /\ m.next_seq_id = b
    BY AppendsBlock
  <1> HIDE DEF b
  <1>3. \A c \in Block : Present(m, c) => m.disk[c].seq < b
    BY <1>1, <1>2 DEF MirrorsAll, Mirrors, Present
  <1>4. Arrives(m, w, b)
    BY <1>2, <1>3 DEF Arrives
  <1> QED BY <1>1, <1>2, <1>4, ArriveExact

\* From m to n a record is appended that is no MOVE, or one that finds its name free:
\* the log stays orderly.
LEMMA AppendOrderly ==
    ASSUME NEW m, Sound(m), Settled(m), Carried(m), Live(m), Appended(m.disk), Orderly(m.disk),
           NEW f, Fades(m, f), NEW op \in LogOp, NEW node, NEW fill,
           NEW offset, NEW entry, NEW w, Appends(f, w, op, node, fill, offset, entry),
           op = "MOVE" => Lookup(m.nodes, entry.parent, entry.name) = {}
    PROVE  Orderly(w.disk)
  <1> DEFINE k == m.next_block_id
  <1>1. /\ k \in Block /\ m.disk[k].op = "INVALID"
        /\ w.disk[k].op = op /\ w.disk[k].entry = entry
        /\ \A c \in Block : c # k => w.disk[c] = m.disk[c]
    <2>1. /\ k \in Block /\ m.disk[k].op = "INVALID"
          /\ w.blocks[k] = [op |-> op, seq |-> k, node |-> node, fill |-> fill, offset |-> offset]
          /\ w.disk[k] = [op |-> op, seq |-> k, node |-> node, fill |-> fill,
                          offset |-> offset, entry |-> entry]
          /\ \A c \in Block : c # k => w.disk[c] = m.disk[c]
      BY AppendsBlock
    <2> HIDE DEF k
    <2> QED BY <2>1
  <1>2. \A c \in Block : c \in Valid(m.disk) <=> c < k
    BY DEF Sound
  <1> HIDE DEF k
  <1>3. ASSUME NEW b \in Block, NEW c \in Block, c <= k, Stands(w.disk, b, c)
        PROVE  Stands(m.disk, b, c) /\ w.disk[b] = m.disk[b] /\ b # k
    <2>1. b < c /\ b # k
      BY <1>1, <1>3 DEF Stands, Block
    <2>2. \A d \in Block : d < c => w.disk[d] = m.disk[d]
      BY <1>1, <1>3 DEF Block
    <2> QED BY <1>3, <2>1, <2>2 DEF Stands
  <1> SUFFICES ASSUME NEW b \in Block, NEW c \in Block, w.disk[c].op = "MOVE", Stands(w.disk, b, c)
               PROVE  \/ w.disk[b].entry.parent # w.disk[c].entry.parent
                      \/ w.disk[b].entry.name # w.disk[c].entry.name
    BY DEF Orderly
  <1>4. CASE c # k
    <2>1. c \in Valid(m.disk) /\ c <= k
      BY <1>1, <1>2, <1>4 DEF Valid, Block
    <2> QED BY <1>1, <1>3, <1>4, <2>1 DEF Orderly
  <1>5. CASE c = k
    <2>1. c <= k
      BY <1>1, <1>5 DEF Block
    <2>2. Stands(m.disk, b, k) /\ w.disk[b] = m.disk[b]
      BY <1>3, <1>5, <2>1
    <2>3. m.disk[b].entry \in m.nodes
      BY <2>2, StandsLive DEF k
    <2> QED BY <1>1, <1>5, <2>2, <2>3 DEF Lookup
  <1> QED BY <1>4, <1>5

\* No record carries a row of a node that is yet to come; the node of a record that
\* carries a row is that of the row.
LEMMA CarrierNodes ==
    ASSUME NEW m, m \in Machine, MirrorsAll(m), DiskSound(m.disk)
    PROVE  /\ \A x : \A b \in Carriers(m, x) :
                m.blocks[b].node = x.node /\ m.disk[b].node = x.node /\ x.node < m.next_node_id
           /\ \A x : x.node \in Nat /\ x.node >= m.next_node_id => Carriers(m, x) = {}
  <1>1. ASSUME NEW x, NEW b \in Carriers(m, x)
        PROVE  m.blocks[b].node = x.node /\ m.disk[b].node = x.node /\ x.node < m.next_node_id
    <2>1. /\ b \in Block /\ m.blocks[b].op \in {"NODE", "MOVE"} /\ m.disk[b].entry.node = x.node
      BY DEF Carriers
    <2>2. /\ m.disk[b].op = m.blocks[b].op /\ m.disk[b].node = m.blocks[b].node
          /\ m.blocks[b].node < m.next_node_id
      BY <2>1 DEF MirrorsAll, Mirrors
    <2> QED BY <2>1, <2>2 DEF DiskSound, EntryOp
  <1>2. m.next_node_id \in Nat
    BY DEF Machine
  <1> QED BY <1>1, <1>2

\* A node that finds no block has no NODE record in use, and nothing is free.
LEMMA NoBlock ==
    ASSUME NEW f, Good(f), NEW node \in Nat, Grants(f, node) = {}
    PROVE  /\ f.next_block_id = LastBlock + 1
           /\ \A b \in Block : f.blocks[b].op # "FREE"
           /\ node # 0 => \A b \in Block : f.blocks[b].op = "NODE" => f.blocks[b].node # node
  <1>1. f.next_block_id = LastBlock + 1 /\ Rows(f, "FREE") = {} /\ Rows(f, "DELETE") = {}
    BY NoGrant
  <1>2. ASSUME node # 0, NEW b \in Block, f.blocks[b].op = "NODE", f.blocks[b].node = node
        PROVE  FALSE
    <2> DEFINE rows == {c \in Rows(f, "NODE") : f.blocks[c].node = node}
    <2>1. rows \subseteq Block /\ rows # {}
      BY <1>2 DEF Rows
    <2>2. First(f, rows) # {}
      BY <2>1, FirstExists DEF Good
    <2>3. Grants(f, node) = First(f, rows)
      BY <1>1, <1>2, LastBlockAssumption DEF Grants, Reuse
    <2> QED BY <2>2, <2>3
  <1> QED BY <1>1, <1>2 DEF Rows

\* A call makes f of m, its node table, before it writes the record of `row`; `rest`
\* had no record before, `more` has none after.
Enrols(m, rest, f, op, row, more) ==
    /\ Fades(m, f) /\ f.blocks = m.blocks
    /\ op \in {"NODE", "MOVE"} /\ row \in NodeRow /\ row \in f.nodes /\ row.node # 0
    /\ \A x \in f.nodes : \/ x = row \/ x \in m.nodes \ rest
                          \/ x \in more /\ x.node >= m.next_node_id
    /\ \A x \in m.nodes : x \in f.nodes \/ (x.node = row.node /\ x.type = row.type)
    /\ op = "MOVE" => /\ \E x \in m.nodes \ rest : x.node = row.node
                      /\ Lookup(m.nodes, row.parent, row.name) = {}
    /\ \A x \in more : x.type = "LINK_PAYLOAD"

\* The row is appended.
LEMMA EntryAppended ==
    ASSUME NEW m, Sound(m), Settled(m), Carried(m), Appended(m.disk), Faithful(m),
           NEW rest, Enlisted(m, rest), NEW f, NEW op, NEW row, NEW more,
           Enrols(m, rest, f, op, row, more), NEW n, n \in Machine, Unique(n.nodes), Tree(n.nodes),
           Appends(f, n, op, row.node, 0, 0, row)
    PROVE  Faithful(n) /\ Enlisted(n, more)
  <1> DEFINE k == m.next_block_id
  <1>1. /\ m \in Machine /\ MirrorsAll(m) /\ DiskSound(m.disk) /\ Fades(m, f) /\ op \in LogOp
        /\ f.blocks = m.blocks /\ op \in {"NODE", "MOVE"} /\ n.nodes \subseteq NodeRow
        /\ \A c \in Block : m.blocks[c] \in BlockRow /\ m.disk[c].seq \in Nat
    BY DEF Sound, Good, Enrols, LogOp, Machine, DiskRecord
  <1>2. /\ k \in Block /\ k <= LastBlock /\ m.blocks[k].op = "NONE"
        /\ n.nodes = f.nodes
        /\ n.blocks[k] = [op |-> op, seq |-> k, node |-> row.node, fill |-> 0, offset |-> 0]
        /\ n.disk[k] = [op |-> op, seq |-> k, node |-> row.node, fill |-> 0,
                        offset |-> 0, entry |-> row]
        /\ \A c \in Block : c # k => n.blocks[c] = m.blocks[c] /\ n.disk[c] = m.disk[c]
        /\ m.next_seq_id = k
    BY <1>1, AppendsBlock
  <1> HIDE DEF k
  <1>3. \A c \in Block : m.blocks[c].op # "NONE" => c # k /\ m.disk[c].seq < k
    BY <1>1, <1>2 DEF MirrorsAll, Mirrors
  <1>4. Exact(n)
    <2>1. \A c \in Block : f.blocks[c] = Afterwards(m.blocks[c], op, row.node, 0)
      BY <1>1 DEF Afterwards
    <2> QED BY <1>1, <2>1, AppendExact DEF Faithful
  <1>5. \A x : \A c \in Block : c \in Carriers(n, x) <=>
          \/ c # k /\ c \in Carriers(m, x)
          \/ c = k /\ x.node = row.node /\ x.type = row.type
    BY <1>1, <1>2 DEF Carriers
  <1>6. \A x : k \notin Carriers(m, x)
    BY <1>2 DEF Carriers
  <1>7. ASSUME NEW x \in n.nodes, x # row PROVE Carriers(n, x) = Carriers(m, x)
    <2>1. ~ (x.node = row.node /\ x.type = row.type)
      BY <1>2, <1>7 DEF Unique, Enrols
    <2> QED BY <1>5, <1>6, <2>1 DEF Carriers
  <1>8. /\ \A x : \A b \in Carriers(m, x) : m.blocks[b].node = x.node
        /\ \A x : x.node \in Nat /\ x.node >= m.next_node_id => Carriers(m, x) = {}
    BY <1>1, CarrierNodes
  <1>9. ASSUME NEW x \in n.nodes, x # row
        PROVE  \/ x \in m.nodes \ rest /\ Carriers(m, x) # {}
               \/ x \in more /\ Carriers(m, x) = {}
    <2>1. x \in m.nodes \ rest \/ (x \in more /\ x.node >= m.next_node_id)
      BY <1>2, <1>9 DEF Enrols
    <2>2. x.node \in Nat
      BY <1>1 DEF NodeRow
    <2>3. x \in m.nodes \ rest => Carriers(m, x) # {}
      BY <1>2 DEF Enlisted, k
    <2> QED BY <1>8, <2>1, <2>2, <2>3
  <1>10. k \in Carriers(n, row)
    BY <1>2, <1>5
  <1>11. Live(n)
    <2> SUFFICES ASSUME NEW x \in n.nodes, Carriers(n, x) # {}
                 PROVE  \E b \in Carriers(n, x) :
                            /\ n.disk[b].entry = x
                            /\ \A c \in Carriers(n, x) : n.disk[c].seq <= n.disk[b].seq
      BY DEF Live
    <2>1. CASE x = row
      <3>1. \A c \in Carriers(n, x) : n.disk[c].seq <= n.disk[k].seq
        <4> TAKE c \in Carriers(n, x)
        <4>1. c \in Block /\ (c = k \/ c \in Carriers(m, x))
          BY <1>5 DEF Carriers
        <4>2. c # k => m.blocks[c].op # "NONE"
          BY <4>1 DEF Carriers
        <4> QED BY <1>1, <1>2, <1>3, <4>1, <4>2 DEF Block
      <3>2. n.disk[k].entry = row
        BY <1>2
      <3> QED BY <1>10, <2>1, <3>1, <3>2
    <2>2. CASE x # row
      <3>1. x \in m.nodes /\ Carriers(n, x) = Carriers(m, x)
        BY <1>7, <1>9, <2>2
      <3>2. \A c \in Carriers(m, x) : n.disk[c] = m.disk[c]
        BY <1>2, <1>6 DEF Carriers
      <3> QED BY <3>1, <3>2 DEF Faithful, Live
    <2> QED BY <2>1, <2>2
  <1>12. Sourced(n)
    <2>1. ASSUME NEW c \in Rows(m, "NODE")
          PROVE  c \in Rows(n, "NODE") /\ n.blocks[c].node = m.blocks[c].node
      BY <1>2 DEF Rows
    <2>2. ASSUME NEW x \in m.nodes, Carriers(m, x) # {}
          PROVE  \E c \in Rows(m, "NODE") : m.blocks[c].node = x.node
      <3>1. PICK b \in Carriers(m, x) : m.blocks[b].node = x.node
        BY <1>8, <2>2
      <3>2. b \in Block /\ m.blocks[b].op \in {"NODE", "MOVE"}
        BY <3>1 DEF Carriers
      <3> QED BY <3>1, <3>2 DEF Faithful, Sourced, Rows
    <2> SUFFICES ASSUME NEW b \in Block, n.blocks[b].op \in {"MOVE", "DATA"}
                 PROVE  \E c \in Rows(n, "NODE") : n.blocks[c].node = n.blocks[b].node
      BY DEF Sourced
    <2>3. CASE b # k
      BY <1>2, <2>1, <2>3 DEF Faithful, Sourced
    <2>4. CASE b = k
      <3>1. op = "MOVE" /\ n.blocks[b].node = row.node
        BY <1>1, <1>2, <2>4
      <3>2. PICK x \in m.nodes \ rest : x.node = row.node
        BY <3>1 DEF Enrols
      <3>3. Carriers(m, x) # {}
        BY <1>2 DEF Enlisted, k
      <3> QED BY <2>1, <2>2, <3>1, <3>2, <3>3
    <2> QED BY <2>3, <2>4
  <1>13. Orderly(n.disk)
    <2>1. op = "MOVE" => Lookup(m.nodes, row.parent, row.name) = {}
      BY DEF Enrols
    <2> QED BY <1>1, <2>1, AppendOrderly DEF Faithful
  <1>14. \A x \in n.nodes \ more : Carriers(n, x) # {}
    BY <1>7, <1>9, <1>10
  <1>15. Tree(Sure(n))
    <2>1. Sure(n) \subseteq n.nodes /\ \A x \in n.nodes \ Sure(n) : x.type = "LINK_PAYLOAD"
      BY <1>14 DEF Sure, Enrols
    <2> QED BY <2>1, PruneTree
  <1> QED BY <1>4, <1>11, <1>12, <1>13, <1>14, <1>15 DEF Faithful, Enlisted

\* No block is found for the row: then it is one that no record carries.
LEMMA EntryRefused ==
    ASSUME NEW m, Sound(m), Faithful(m), NEW rest, NEW f, NEW op, NEW row, NEW more,
           Enrols(m, rest, f, op, row, more), Grants(f, row.node) = {},
           NEW n, n = Return(f, "ENOSPC")
    PROVE  Faithful(n) /\ Enlisted(n, more)
  <1>1. /\ m \in Machine /\ MirrorsAll(m) /\ DiskSound(m.disk) /\ f \in Machine /\ Good(m)
        /\ f.blocks = m.blocks /\ f.disk = m.disk /\ f.next_block_id = m.next_block_id
        /\ row.node \in Nat /\ row.node # 0
    BY DEF Sound, Good, Enrols, Fades, NodeRow
  <1>2. /\ n.nodes = f.nodes /\ n.blocks = m.blocks /\ n.disk = m.disk
        /\ n.next_block_id = m.next_block_id
    BY <1>1 DEF Return, Machine
  <1>3. /\ m.next_block_id = LastBlock + 1
        /\ \A b \in Block : m.blocks[b].op = "NODE" => m.blocks[b].node # row.node
    <2>1. Good(f)
      BY <1>1 DEF Good
    <2> QED BY <1>1, <2>1, NoBlock
  <1>4. \A x : Carriers(n, x) = Carriers(m, x)
    BY <1>2 DEF Carriers
  <1>5. /\ \A x : \A b \in Carriers(m, x) : m.blocks[b].node = x.node
        /\ \A x : x.node \in Nat /\ x.node >= m.next_node_id => Carriers(m, x) = {}
    BY <1>1, CarrierNodes
  <1>6. \A x : x.node = row.node => Carriers(m, x) = {}
    <2> SUFFICES ASSUME NEW x, x.node = row.node, NEW b \in Carriers(m, x) PROVE FALSE
      OBVIOUS
    <2>1. b \in Block /\ m.blocks[b].op \in {"NODE", "MOVE"} /\ m.blocks[b].node = row.node
      BY <1>5 DEF Carriers
    <2> QED BY <1>3, <2>1 DEF Faithful, Sourced, Rows
  <1>7. \A x \in n.nodes : Carriers(m, x) # {} => x \in m.nodes
    <2> TAKE x \in n.nodes
    <2> HAVE Carriers(m, x) # {}
    <2>1. x.node \in Nat
      BY <1>1, <1>2 DEF Machine, NodeRow
    <2> QED BY <1>2, <1>5, <1>6, <2>1 DEF Enrols
  <1>8. Sure(n) = Sure(m)
    BY <1>2, <1>4, <1>6, <1>7 DEF Sure, Enrols
  <1>9. Exact(n)
    BY <1>2, SameExact DEF Faithful
  <1>10. Live(n)
    BY <1>2, <1>4, <1>7 DEF Faithful, Live
  <1>11. Sourced(n)
    BY <1>2 DEF Faithful, Sourced, Rows
  <1>12. Enlisted(n, more)
    BY <1>2, <1>3, LastBlockAssumption DEF Enlisted
  <1> QED BY <1>2, <1>8, <1>9, <1>10, <1>11, <1>12 DEF Faithful

\* A call cuts or drops the rows of m, which gives f, before it writes a record of
\* `op` that is no row.
Strips(m, f, op, node, offset) ==
    /\ Fades(m, f) /\ op \in {"DELETE", "DATA", "TRUNCATE"} /\ node \in Nat
    /\ f.nodes = {x \in m.nodes : op = "DELETE" => x.node # node}
    /\ \A c \in Block : f.blocks[c] = Afterwards(m.blocks[c], op, node, offset)
    /\ op # "DELETE" => node # 0 /\ HasFile(m, node)

\* What that does to the rows of the block table.
LEMMA StripRows ==
    ASSUME NEW m \in Machine, NEW f, NEW op, NEW node, NEW offset \in Nat,
           Strips(m, f, op, node, offset), NEW c \in Block
    PROVE  /\ f.blocks[c].op = "NODE" <=>
                m.blocks[c].op = "NODE" /\ (op = "DELETE" => m.blocks[c].node # node)
           /\ f.blocks[c].op = "MOVE" <=>
                m.blocks[c].op = "MOVE" /\ (op = "DELETE" => m.blocks[c].node # node)
           /\ f.blocks[c].op = "DATA" =>
                m.blocks[c].op = "DATA" /\ (op = "DELETE" => m.blocks[c].node # node)
           /\ f.blocks[c].node = m.blocks[c].node
  <1>1. m.blocks[c] \in BlockRow
    BY DEF Machine
  <1>2. f.blocks[c] = Afterwards(m.blocks[c], op, node, offset) /\ op \in {"DELETE", "DATA", "TRUNCATE"}
    BY DEF Strips
  <1>3. /\ Cut(m.blocks[c], offset).node = m.blocks[c].node
        /\ m.blocks[c].op \notin {"DATA", "TRUNCATE"} => Cut(m.blocks[c], offset) = m.blocks[c]
        /\ m.blocks[c].op \in {"DATA", "TRUNCATE"} => Cut(m.blocks[c], offset).op \in {m.blocks[c].op, "FREE"}
    BY <1>1, CutType, CutRow
  <1> QED BY <1>1, <1>2, <1>3 DEF Afterwards, BlockRow

\* The record is appended.
LEMMA StripAppended ==
    ASSUME NEW m, Sound(m), Settled(m), Carried(m), Appended(m.disk), Faithful(m),
           Enlisted(m, {}), NEW f, NEW op, NEW node, NEW fill, NEW offset \in Nat, NEW entry,
           Strips(m, f, op, node, offset), NEW n, n \in Machine, Tree(n.nodes),
           Appends(f, n, op, node, fill, offset, entry)
    PROVE  Faithful(n) /\ Enlisted(n, {})
  <1> DEFINE k == m.next_block_id
  <1>1. /\ m \in Machine /\ MirrorsAll(m) /\ DiskSound(m.disk) /\ Fades(m, f) /\ op \in LogOp
        /\ op \in {"DELETE", "DATA", "TRUNCATE"}
    BY DEF Sound, Good, Strips, LogOp
  <1>2. /\ k \in Block /\ k <= LastBlock /\ m.blocks[k].op = "NONE" /\ f.blocks[k].op = "NONE"
        /\ n.nodes = f.nodes
        /\ n.blocks[k] = [op |-> op, seq |-> k, node |-> node, fill |-> fill, offset |-> offset]
        /\ n.disk[k] = [op |-> op, seq |-> k, node |-> node, fill |-> fill,
                        offset |-> offset, entry |-> entry]
        /\ \A c \in Block : c # k => n.blocks[c] = f.blocks[c] /\ n.disk[c] = m.disk[c]
    BY <1>1, AppendsBlock
  <1> HIDE DEF k
  <1>3. \A c \in Block :
           /\ f.blocks[c].op = "NODE" <=>
                m.blocks[c].op = "NODE" /\ (op = "DELETE" => m.blocks[c].node # node)
           /\ f.blocks[c].op = "MOVE" <=>
                m.blocks[c].op = "MOVE" /\ (op = "DELETE" => m.blocks[c].node # node)
           /\ f.blocks[c].op = "DATA" =>
                m.blocks[c].op = "DATA" /\ (op = "DELETE" => m.blocks[c].node # node)
           /\ f.blocks[c].node = m.blocks[c].node
    BY <1>1, StripRows
  <1>4. Exact(n)
    <2>1. \A c \in Block : f.blocks[c] = Afterwards(m.blocks[c], op, node, offset)
      BY DEF Strips
    <2> QED BY <1>1, <2>1, AppendExact DEF Faithful
  <1>5. \A x : \A b \in Carriers(m, x) : m.blocks[b].node = x.node
    BY <1>1, CarrierNodes
  <1>6. \A x \in n.nodes : x \in m.nodes /\ (op = "DELETE" => x.node # node)
    BY <1>2 DEF Strips
  <1>7. \A x \in n.nodes : /\ Carriers(n, x) = Carriers(m, x)
                           /\ \A c \in Carriers(m, x) : n.disk[c] = m.disk[c]
    <2> TAKE x \in n.nodes
    <2>1. k \notin Carriers(m, x) /\ k \notin Carriers(n, x)
      BY <1>1, <1>2 DEF Carriers
    <2>2. \A c \in Block : c # k => (c \in Carriers(n, x) <=> c \in Carriers(m, x))
      <3> TAKE c \in Block
      <3> HAVE c # k
      <3>1. c \in Carriers(m, x) => m.blocks[c].node = x.node
        BY <1>5
      <3> QED BY <1>2, <1>3, <1>6, <3>1 DEF Carriers, MirrorsAll, Mirrors, DiskSound, EntryOp
    <2>3. Carriers(n, x) \subseteq Block /\ Carriers(m, x) \subseteq Block
      BY DEF Carriers
    <2>4. Carriers(n, x) = Carriers(m, x)
      BY <2>1, <2>2, <2>3
    <2>5. \A c \in Carriers(m, x) : n.disk[c] = m.disk[c]
      BY <1>2, <2>1, <2>3
    <2> QED BY <2>4, <2>5
  <1>8. Live(n)
    BY <1>6, <1>7 DEF Faithful, Live
  <1>9. \A x \in n.nodes : Carriers(n, x) # {}
    BY <1>2, <1>6, <1>7 DEF Enlisted, k
  <1>10. Sourced(n)
    <2> SUFFICES ASSUME NEW b \in Block, n.blocks[b].op \in {"MOVE", "DATA"}
                 PROVE  \E c \in Rows(n, "NODE") : n.blocks[c].node = n.blocks[b].node
      BY DEF Sourced
    <2>1. CASE b # k
      <3>1. /\ m.blocks[b].op \in {"MOVE", "DATA"} /\ n.blocks[b].node = m.blocks[b].node
            /\ op = "DELETE" => m.blocks[b].node # node
        BY <1>2, <1>3, <2>1
      <3>2. PICK c \in Rows(m, "NODE") : m.blocks[c].node = m.blocks[b].node
        BY <3>1 DEF Faithful, Sourced
      <3> QED BY <1>2, <1>3, <3>1, <3>2 DEF Rows
    <2>2. CASE b = k
      <3>1. op = "DATA" /\ n.blocks[b].node = node
        BY <1>1, <1>2, <2>2
      <3>2. PICK x \in m.nodes : x.node = node
        BY <3>1 DEF Strips, HasFile
      <3>3. PICK d \in Carriers(m, x) : m.blocks[d].node = node
        BY <1>2, <1>5, <3>2 DEF Enlisted, k
      <3>4. d \in Block /\ m.blocks[d].op \in {"NODE", "MOVE"}
        BY <3>3 DEF Carriers
      <3>5. PICK c \in Rows(m, "NODE") : m.blocks[c].node = node
        BY <3>3, <3>4 DEF Faithful, Sourced, Rows
      <3> QED BY <1>2, <1>3, <3>1, <3>5 DEF Rows
    <2> QED BY <2>1, <2>2
  <1>11. Orderly(n.disk)
    BY <1>1, AppendOrderly DEF Faithful
  <1>12. Sure(n) = n.nodes
    BY <1>9 DEF Sure
  <1> QED BY <1>4, <1>8, <1>9, <1>10, <1>11, <1>12 DEF Faithful, Enlisted

\* No block is found: then the call has cut no row and dropped none with a record.
LEMMA StripRefused ==
    ASSUME NEW m, Sound(m), Faithful(m), NEW f, NEW op, NEW node, NEW offset \in Nat,
           Strips(m, f, op, node, offset), Grants(f, node) = {},
           NEW n, n = Return(f, "ENOSPC")
    PROVE  Faithful(n) /\ Enlisted(n, {})
  <1>1. /\ m \in Machine /\ MirrorsAll(m) /\ DiskSound(m.disk) /\ f \in Machine /\ Good(m)
        /\ f.disk = m.disk /\ f.next_block_id = m.next_block_id /\ node \in Nat
        /\ op \in {"DELETE", "DATA", "TRUNCATE"}
        /\ \A c \in Block : m.blocks[c] \in BlockRow
    BY DEF Sound, Good, Strips, Fades, Machine
  <1>2. /\ n.nodes = f.nodes /\ n.blocks = f.blocks /\ n.disk = m.disk
        /\ n.next_block_id = m.next_block_id
    BY <1>1 DEF Return, Machine
  <1>3. /\ f.next_block_id = LastBlock + 1
        /\ \A b \in Block : f.blocks[b].op # "FREE"
        /\ node # 0 => \A b \in Block : f.blocks[b].op = "NODE" => f.blocks[b].node # node
    <2>1. Good(f)
      BY <1>1 DEF Good
    <2> QED BY <1>1, <2>1, NoBlock
  <1>4. \A c \in Block : f.blocks[c] = Afterwards(m.blocks[c], op, node, offset)
    BY DEF Strips
  <1>5. op = "DELETE" => \A c \in Block : m.blocks[c].op # "NONE" => m.blocks[c].node # node
    BY <1>1, <1>3, <1>4 DEF Afterwards, BlockRow
  <1>6. op # "DELETE" => \A c \in Block : m.blocks[c].op = "DATA" => m.blocks[c].node # node
    <2> SUFFICES ASSUME op # "DELETE", NEW b \in Block, m.blocks[b].op = "DATA", m.blocks[b].node = node
                 PROVE  FALSE
      OBVIOUS
    <2>1. PICK c \in Rows(m, "NODE") : m.blocks[c].node = node
      BY DEF Faithful, Sourced
    <2>2. c \in Block /\ f.blocks[c].op = "NODE" /\ f.blocks[c].node = node
      BY <1>1, <2>1, StripRows DEF Rows
    <2> QED BY <1>3, <2>2 DEF Strips
  <1>7. \A c \in Block : f.blocks[c] = m.blocks[c]
    <2> TAKE c \in Block
    <2>1. m.blocks[c].op = "TRUNCATE" => Cut(m.blocks[c], offset).op = "FREE"
      BY <1>1, CutRow DEF BlockRow
    <2>2. m.blocks[c].op \notin {"DATA", "TRUNCATE"} => Cut(m.blocks[c], offset) = m.blocks[c]
      BY <1>1, CutRow
    <2> QED BY <1>1, <1>3, <1>4, <1>5, <1>6, <2>1, <2>2 DEF Afterwards
  <1>8. n.blocks = m.blocks
    BY <1>1, <1>2, <1>7 DEF Machine
  <1>9. \A x : Carriers(n, x) = Carriers(m, x)
    BY <1>2, <1>8 DEF Carriers
  <1>10. n.nodes \subseteq m.nodes /\ \A x \in m.nodes : Carriers(m, x) # {} => x \in n.nodes
    <2>1. \A x : \A b \in Carriers(m, x) : b \in Block /\ m.blocks[b].node = x.node /\ m.blocks[b].op # "NONE"
      BY <1>1, CarrierNodes DEF Carriers
    <2> QED BY <1>2, <1>5, <2>1 DEF Strips
  <1>11. Sure(n) = Sure(m) /\ Live(n)
    BY <1>2, <1>9, <1>10 DEF Sure, Faithful, Live
  <1>12. Exact(n) /\ Sourced(n)
    BY <1>2, <1>8, SameExact DEF Faithful, Sourced, Rows
  <1>13. Enlisted(n, {})
    BY <1>1, <1>2, <1>3, LastBlockAssumption DEF Enlisted
  <1> QED BY <1>2, <1>11, <1>12, <1>13 DEF Faithful

-----------------------------------------------------------------------------
(* The end of a mount of such a log. *)

\* The machine that a mount of such a log ends with is the one before it, but for the
\* rows that no record carries.
LEMMA MountFaithful ==
    ASSUME NEW m, Sound(m), Settled(m), Carried(m), Youngest(m), Unique(m.nodes),
           Exact(m), IdFollows(m),
           NEW s, Sound(s), Settled(s), Carried(s), Unique(s.nodes), s.next_node_id >= 1,
           Faithful(s), s.disk = m.disk
    PROVE  /\ m.blocks = s.blocks /\ m.next_block_id = s.next_block_id
           /\ m.next_seq_id = s.next_seq_id /\ m.next_node_id <= s.next_node_id
           /\ m.nodes = Sure(s) /\ m.nodes = Logged(s)
           /\ Faithful(m) /\ Enlisted(m, {}) /\ Tree(m.nodes)
  <1>1. /\ m \in Machine /\ s \in Machine /\ MirrorsAll(m) /\ MirrorsAll(s) /\ DiskSound(m.disk)
        /\ m.next_node_id \in Nat /\ s.next_node_id \in Nat
    BY DEF Sound, Good, Machine
  <1>2. m.next_block_id = s.next_block_id /\ m.next_seq_id = s.next_seq_id
    BY SameRows
  <1>3. m.blocks = s.blocks
    <2>1. \A b \in Block : Present(m, b) <=> Present(s, b)
      BY <1>2 DEF Sound, Present
    <2> QED BY <1>1, <2>1, ExactSame DEF Faithful
  <1>4. \A x : Carriers(m, x) = Carriers(s, x)
    BY <1>3 DEF Carriers
  <1>5. m.next_node_id <= s.next_node_id
    <2>1. CASE m.next_node_id = 1
      BY <1>1, <2>1
    <2>2. CASE \E b \in Block : Present(m, b) /\ m.next_node_id = m.blocks[b].node + 1
      <3>1. PICK b \in Block : Present(m, b) /\ m.next_node_id = m.blocks[b].node + 1
        BY <2>2
      <3>2. s.blocks[b].node < s.next_node_id /\ s.blocks[b].node \in Nat
        BY <1>1, <1>3, <3>1 DEF Present, MirrorsAll, Mirrors, Machine, BlockRow
      <3> QED BY <1>1, <1>3, <3>1, <3>2
    <2> QED BY <2>1, <2>2 DEF IdFollows
  <1>6. ASSUME NEW x, NEW y, NEW d \in Carriers(m, x), NEW e \in Carriers(m, x),
               Carriers(m, y) = Carriers(m, x),
               m.disk[d].entry = x, m.disk[e].entry = y,
               \A c \in Carriers(m, x) : m.disk[c].seq <= m.disk[d].seq,
               \A c \in Carriers(m, x) : m.disk[c].seq <= m.disk[e].seq
        PROVE  x = y
    <2>1. /\ d \in Block /\ e \in Block /\ d \in Valid(m.disk) /\ e \in Valid(m.disk)
          /\ m.disk[d].seq \in Nat /\ m.disk[e].seq \in Nat
      BY <1>1 DEF Carriers, MirrorsAll, Mirrors, Valid, LogOp, Machine, DiskRecord
    <2>2. m.disk[d].seq = m.disk[e].seq
      BY <1>6, <2>1
    <2>3. d = e
      BY <1>1, <2>1, <2>2 DEF DiskSound
    <2> QED BY <1>6, <2>3
  <1>7. \A x, y : x.node = y.node /\ x.type = y.type => Carriers(m, x) = Carriers(m, y)
    BY DEF Carriers
  <1>8. \A x : \A b \in Carriers(m, x) : b \in Block /\ m.blocks[b].op \in {"NODE", "MOVE"}
          /\ m.disk[b].entry.node = x.node /\ m.disk[b].entry.type = x.type
    BY DEF Carriers
  <1>9. ASSUME NEW x \in m.nodes PROVE x \in Sure(s)
    <2>1. PICK d \in Carriers(m, x) : /\ m.disk[d].entry = x
                                      /\ \A c \in Carriers(m, x) : m.disk[c].seq <= m.disk[d].seq
      BY DEF Youngest
    <2>2. PICK y \in s.nodes : y.node = x.node /\ y.type = x.type
      BY <1>3, <1>8, <2>1 DEF Carried, HasKey
    <2>3. Carriers(m, y) = Carriers(m, x) /\ Carriers(s, y) = Carriers(m, x)
      BY <1>4, <1>7, <2>2
    <2>4. PICK e \in Carriers(m, x) : /\ m.disk[e].entry = y
                                      /\ \A c \in Carriers(m, x) : m.disk[c].seq <= m.disk[e].seq
      BY <2>1, <2>3 DEF Faithful, Live
    <2>5. x = y
      BY <1>6, <2>1, <2>3, <2>4
    <2> QED BY <2>1, <2>2, <2>3, <2>5 DEF Sure
  <1>10. ASSUME NEW x \in Sure(s) PROVE x \in m.nodes
    <2>1. x \in s.nodes /\ Carriers(m, x) # {} /\ Carriers(s, x) = Carriers(m, x)
      BY <1>4 DEF Sure
    <2>2. PICK e \in Carriers(m, x) : /\ m.disk[e].entry = x
                                      /\ \A c \in Carriers(m, x) : m.disk[c].seq <= m.disk[e].seq
      BY <2>1 DEF Faithful, Live
    <2>3. PICK y \in m.nodes : y.node = x.node /\ y.type = x.type
      BY <1>8, <2>2 DEF Carried, HasKey
    <2>4. Carriers(m, y) = Carriers(m, x)
      BY <1>7, <2>3
    <2>5. PICK d \in Carriers(m, x) : /\ m.disk[d].entry = y
                                      /\ \A c \in Carriers(m, x) : m.disk[c].seq <= m.disk[d].seq
      BY <2>3, <2>4 DEF Youngest
    <2>6. x = y
      BY <1>6, <2>2, <2>4, <2>5
    <2> QED BY <2>3, <2>6
  <1>11. m.nodes = Sure(s)
    BY <1>9, <1>10
  <1>12. Sure(s) = Logged(s)
    BY DEF Sure, Logged, Faithful, Live
  <1>13. \A x \in m.nodes : Carriers(m, x) # {}
    BY <1>4, <1>11 DEF Sure
  <1>14. Sure(m) = m.nodes /\ Enlisted(m, {}) /\ Live(m) /\ Sourced(m)
    BY <1>3, <1>13 DEF Sure, Enlisted, Live, Youngest, Faithful, Sourced, Rows
  <1>15. Tree(m.nodes)
    BY <1>11 DEF Faithful
  <1> QED BY <1>2, <1>3, <1>5, <1>11, <1>12, <1>14, <1>15 DEF Faithful

-----------------------------------------------------------------------------
(* The calls over such a log. *)

\* What a step of a mounted process does to the tables, with `rest` without a record
\* before it and `more` after it.
Traces(m, rest, n, more) ==
    \/ /\ more = rest /\ n.nodes = m.nodes /\ n.blocks = m.blocks /\ n.disk = m.disk
       /\ n.next_block_id = m.next_block_id
    \/ \E f, op, row : Enrols(m, rest, f, op, row, more) /\ n = WriteEntry(f, op, row)
    \/ /\ rest = {} /\ more = {}
       /\ \E f, op, node : \E fill, offset \in Nat, entry \in NodeRow \cup {NoEntry} :
             Strips(m, f, op, node, offset) /\ n = Write(f, op, node, fill, offset, entry)

\* The log stays intact or shows that it is not; if it is, a step keeps what it is.
LEMMA TraceFaithful ==
    ASSUME NEW m, Sound(m), Settled(m), Carried(m), Intact(m.disk), NEW rest,
           Appended(m.disk) => Faithful(m) /\ Enlisted(m, rest),
           NEW n, NEW more, Traces(m, rest, n, more), n \in Machine, Unique(n.nodes)
    PROVE  /\ Intact(n.disk)
           /\ Appended(n.disk) => Appended(m.disk)
           /\ Appended(n.disk) /\ Tree(n.nodes) => Faithful(n) /\ Enlisted(n, more)
  <1>1. CASE /\ more = rest /\ n.nodes = m.nodes /\ n.blocks = m.blocks /\ n.disk = m.disk
             /\ n.next_block_id = m.next_block_id
    BY <1>1, SameFaithful
  <1>2. ASSUME NEW f, NEW op, NEW row, Enrols(m, rest, f, op, row, more), n = WriteEntry(f, op, row)
        PROVE  /\ Intact(n.disk)
               /\ Appended(n.disk) => Appended(m.disk)
               /\ Appended(n.disk) /\ Tree(n.nodes) => Faithful(n) /\ Enlisted(n, more)
    <2>1. /\ Fades(m, f) /\ f.disk = m.disk /\ op \in LogOp /\ row.node \in Nat
          /\ row \in NodeRow \cup {NoEntry} /\ 0 \in Nat
          /\ n = Write(f, op, row.node, 0, 0, row)
      BY <1>2 DEF Enrols, Fades, LogOp, NodeRow, WriteEntry
    <2>2. Sound(f) /\ NextFollows(f) /\ Intact(f.disk)
      BY <2>1, FadesSound, FadesSpared DEF Settled, Sound, Good
    <2>3. /\ Intact(n.disk)
          /\ Appended(n.disk) =>
               /\ Appended(f.disk)
               /\ \/ Appends(f, n, op, row.node, 0, 0, row)
                  \/ Grants(f, row.node) = {} /\ n = Return(f, "ENOSPC")
      BY <2>1, <2>2, WriteAppends
    <2>4. Appends(f, n, op, row.node, 0, 0, row) /\ Appended(m.disk) /\ Tree(n.nodes)
            => Faithful(n) /\ Enlisted(n, more)
      BY <1>2, EntryAppended
    <2>5. Grants(f, row.node) = {} /\ n = Return(f, "ENOSPC") /\ Appended(m.disk)
            => Faithful(n) /\ Enlisted(n, more)
      BY <1>2, EntryRefused
    <2> QED BY <2>1, <2>3, <2>4, <2>5
  <1>3. ASSUME rest = {}, more = {}, NEW f, NEW op, NEW node, NEW fill \in Nat, NEW offset \in Nat,
               NEW entry \in NodeRow \cup {NoEntry},
               Strips(m, f, op, node, offset), n = Write(f, op, node, fill, offset, entry)
        PROVE  /\ Intact(n.disk)
               /\ Appended(n.disk) => Appended(m.disk)
               /\ Appended(n.disk) /\ Tree(n.nodes) => Faithful(n) /\ Enlisted(n, more)
    <2>1. Fades(m, f) /\ f.disk = m.disk /\ op \in LogOp /\ node \in Nat
      BY <1>3 DEF Strips, Fades, LogOp
    <2>2. Sound(f) /\ NextFollows(f) /\ Intact(f.disk)
      BY <2>1, FadesSound, FadesSpared DEF Settled, Sound, Good
    <2>3. /\ Intact(n.disk)
          /\ Appended(n.disk) =>
               /\ Appended(f.disk)
               /\ \/ Appends(f, n, op, node, fill, offset, entry)
                  \/ Grants(f, node) = {} /\ n = Return(f, "ENOSPC")
      BY <1>3, <2>1, <2>2, WriteAppends
    <2>4. Appends(f, n, op, node, fill, offset, entry) /\ Appended(m.disk) /\ Tree(n.nodes)
            => Faithful(n) /\ Enlisted(n, {})
      BY <1>3, StripAppended
    <2>5. Grants(f, node) = {} /\ n = Return(f, "ENOSPC") /\ Appended(m.disk)
            => Faithful(n) /\ Enlisted(n, {})
      BY <1>3, StripRefused
    <2> QED BY <1>3, <2>1, <2>3, <2>4, <2>5
  <1> QED BY <1>1, <1>2, <1>3 DEF Traces

\* A return code is a step that writes nothing.
LEMMA ReturnTraces ==
    ASSUME NEW m \in Machine, NEW rest, NEW r
    PROVE  Traces(m, rest, Return(m, r), rest)
  BY DEF Traces, Return, Machine

\* A row enters the table, in the place of one with its key, and its record is written.
LEMMA InsertTraces ==
    ASSUME NEW m \in Machine, NEW row \in NodeRow, row.node # 0, NEW id \in Nat,
           id >= m.next_node_id, NEW n,
           n = WriteEntry([m EXCEPT !.nodes = InsertOrReplace(m.nodes, row),
                                    !.next_node_id = id], "NODE", row)
    PROVE  Traces(m, {}, n, {})
  <1> DEFINE nodes == InsertOrReplace(m.nodes, row)
             f == [m EXCEPT !.nodes = nodes, !.next_node_id = id]
  <1>1. nodes \in SUBSET NodeRow
    BY InsertType DEF Machine
  <1>2. /\ row \in nodes /\ \A x \in nodes : x = row \/ x \in m.nodes \ {}
        /\ \A x \in m.nodes : x \in nodes \/ (x.node = row.node /\ x.type = row.type)
    BY DEF InsertOrReplace
  <1> HIDE DEF nodes
  <1>3. f.nodes = nodes /\ f.blocks = m.blocks /\ Fades(m, f)
    BY <1>1, NodesFades DEF Machine
  <1>4. n = WriteEntry(f, "NODE", row)
    BY DEF nodes
  <1> HIDE DEF f
  <1>5. Enrols(m, {}, f, "NODE", row, {})
    BY <1>2, <1>3 DEF Enrols
  <1> QED BY <1>4, <1>5 DEF Traces

\* Creating a file or a directory.
LEMMA CreateTraces ==
    ASSUME NEW m, Sound(m), Rooted(m, {}), NEW path \in Paths,
           NEW type \in {"FILE", "DIR"}, NEW now \in Nat, NEW n, n = Create(m, path, type, now)
    PROVE  Traces(m, {}, n, {})
  <1> DEFINE new == InitNode(m, path, type, now)
             row == new.row
  <1>1. m \in Machine /\ m.next_node_id \in Nat
    BY DEF Sound, Good, Machine
  <1>2. CASE new.r # "OK"
    BY <1>1, <1>2, ReturnTraces DEF Create
  <1>3. CASE new.r = "OK"
    <2>1. NewIn(m, row, type)
      BY <1>3, NewRow
    <2>2. n = WriteEntry([m EXCEPT !.nodes = InsertOrReplace(m.nodes, row),
                                   !.next_node_id = m.next_node_id + 1], "NODE", row)
      BY <1>1, <1>3 DEF Create, Machine
    <2>3. row \in NodeRow /\ row.node # 0
      BY <2>1 DEF NewIn, Family
    <2> HIDE DEF row
    <2>4. m.next_node_id + 1 \in Nat /\ m.next_node_id + 1 >= m.next_node_id
      BY <1>1
    <2> QED BY <1>1, <2>2, <2>3, <2>4, InsertTraces
  <1> QED BY <1>2, <1>3

\* Setting a time.
LEMMA SetTimeTraces ==
    ASSUME NEW m, Sound(m), Rooted(m, {}), NEW path \in Paths, NEW mtime \in Nat,
           NEW n, n = SetTimeOf(m, path, mtime)
    PROVE  Traces(m, {}, n, {})
  <1> DEFINE at == Resolve(m.nodes, path)
             row == [at.row EXCEPT !.mtime = mtime]
  <1>1. /\ m \in Machine /\ m.next_node_id \in Nat /\ m.nodes \in SUBSET NodeRow
        /\ path \in Seq(Names) /\ path # <<>> /\ Family(m.nodes)
    BY PathsAssumption, FamilySubset DEF Sound, Good, Machine, Rooted
  <1>2. CASE n = Return(m, at.r) \/ n = Return(m, "OK")
    BY <1>1, <1>2, ReturnTraces
  <1>3. CASE at.r = "OK" /\ n = WriteEntry([m EXCEPT !.nodes = InsertOrReplace(@, row)], "NODE", row)
    <2>1. at.row \in NodeRow /\ at.row.node # 0
      BY <1>1, <1>3, ResolvedRow
    <2>2. row \in NodeRow /\ row.node # 0
      BY <2>1 DEF NodeRow
    <2>3. n = WriteEntry([m EXCEPT !.nodes = InsertOrReplace(m.nodes, row),
                                   !.next_node_id = m.next_node_id], "NODE", row)
      <3> HIDE DEF row
      <3> QED BY <1>1, <1>3 DEF Machine
    <2> HIDE DEF row
    <2>4. m.next_node_id >= m.next_node_id
      BY <1>1
    <2> QED BY <1>1, <2>2, <2>3, <2>4, InsertTraces
  <1> QED BY <1>2, <1>3 DEF SetTimeOf

\* Deleting a node.
LEMMA DeleteTraces ==
    ASSUME NEW m, Sound(m), Rooted(m, {}), NEW path \in Paths, NEW n, n = Delete(m, path)
    PROVE  /\ Traces(m, {}, n, {})
           /\ \/ \E r \in Errno : n = Return(m, r)
              \/ /\ Resolve(m.nodes, path).r = "OK"
                 /\ n.nodes = {x \in m.nodes : x.node # Resolve(m.nodes, path).row.node}
  <1> DEFINE at == Resolve(m.nodes, path)
             f == DropNode(m, at.row.node)
  <1>1. /\ m \in Machine /\ m.nodes \in SUBSET NodeRow /\ m.blocks \in [Block -> BlockRow]
        /\ path \in Seq(Names) /\ path # <<>> /\ Family(m.nodes)
    BY PathsAssumption, FamilySubset DEF Sound, Good, Machine, Rooted
  <1>2. CASE n = Return(m, at.r) /\ at.r # "OK"
    <2>1. at.r \in Errno
      BY <1>1, <1>2, ResolveType DEF Errno
    <2> QED BY <1>1, <1>2, <2>1, ReturnTraces
  <1>3. CASE n = Return(m, "EINVAL")
    BY <1>1, <1>3, ReturnTraces DEF Errno
  <1>4. CASE at.r = "OK" /\ n = WriteEntry(f, "DELETE", at.row)
    <2>1. at.row \in NodeRow /\ at.row.node \in Nat
      BY <1>1, <1>4, ResolvedRow DEF NodeRow
    <2>2. n = Write(f, "DELETE", at.row.node, 0, 0, at.row) /\ 0 \in Nat
      BY <1>4 DEF WriteEntry
    <2> DEFINE node == at.row.node
               row == at.row
    <2>3. /\ node \in Nat /\ f = DropNode(m, node) /\ row \in NodeRow \cup {NoEntry}
          /\ n = Write(f, "DELETE", node, 0, 0, row)
      BY <2>1, <2>2
    <2> HIDE DEF at, node, f, row
    <2>4. /\ f.nodes = {x \in m.nodes : x.node # node}
          /\ \A c \in Block : f.blocks[c] =
               IF m.blocks[c].node = node /\ m.blocks[c].op # "NONE"
               THEN [m.blocks[c] EXCEPT !.op = "FREE"] ELSE m.blocks[c]
      BY <1>1, <2>3 DEF DropNode, Machine
    <2>5. Fades(m, f)
      BY <1>1, <2>3, DropNodeFades
    <2>6. \A c \in Block : f.blocks[c] = Afterwards(m.blocks[c], "DELETE", node, 0)
      BY <2>4 DEF Afterwards
    <2>7. Strips(m, f, "DELETE", node, 0)
      BY <2>3, <2>4, <2>5, <2>6 DEF Strips
    <2>8. n.nodes = f.nodes
      BY <2>3, <2>5, WriteNodes DEF Fades
    <2>9. Traces(m, {}, n, {})
      <3>1. 0 \in Nat
        OBVIOUS
      <3> QED BY <2>3, <2>7, <3>1 DEF Traces
    <2>10. n.nodes = {x \in m.nodes : x.node # Resolve(m.nodes, path).row.node}
      BY <2>4, <2>8 DEF node, at
    <2> QED BY <1>4, <2>9, <2>10 DEF at
  <1> QED BY <1>2, <1>3, <1>4 DEF Delete

\* Moving a row that the table has.
LEMMA MoveRowTraces ==
    ASSUME NEW m \in Machine, NEW row \in NodeRow, row.node # 0, HasKey(m.nodes, row), NEW n,
           n = IF MoveRow(m, row).r = "OK" THEN WriteEntry(MoveRow(m, row), "MOVE", row)
               ELSE MoveRow(m, row)
    PROVE  Traces(m, {}, n, {})
  <1> DEFINE f == MoveRow(m, row)
  <1>1. CASE f.r # "OK"
    <2>1. \E r : f = Return(m, r)
      BY <1>1 DEF MoveRow, Machine
    <2> QED BY <1>1, <2>1, ReturnTraces
  <1>2. CASE f.r = "OK"
    <2>1. Lookup(m.nodes, row.parent, row.name) = {}
      <3>1. ASSUME Lookup(m.nodes, row.parent, row.name) # {} PROVE FALSE
        BY <1>2, <3>1 DEF MoveRow, Return, Machine
      <3> QED BY <3>1
    <2>2. f.nodes = InsertOrReplace(m.nodes, row) /\ f.blocks = m.blocks
      BY <2>1 DEF MoveRow, Machine
    <2>3. Fades(m, f)
      BY MoveRowFades
    <2>4. n = WriteEntry(f, "MOVE", row)
      BY <1>2
    <2> HIDE DEF f
    <2>5. /\ row \in f.nodes /\ \A x \in f.nodes : x = row \/ x \in m.nodes \ {}
          /\ \A x \in m.nodes : x \in f.nodes \/ (x.node = row.node /\ x.type = row.type)
      BY <2>2 DEF InsertOrReplace
    <2>6. \E x \in m.nodes \ {} : x.node = row.node
      BY DEF HasKey
    <2>7. Enrols(m, {}, f, "MOVE", row, {})
      BY <2>1, <2>2, <2>3, <2>5, <2>6 DEF Enrols
    <2> QED BY <2>4, <2>7 DEF Traces
  <1> QED BY <1>1, <1>2

\* What a step of a call has to show: what it wrote of what it had to write.
Traced ==
    /\ Known'
    /\ \E more : /\ Traces(fs, Unwritten, fs', more)
                 /\ more = Unwritten' \/ fs'.r = "ENOSPC"

\* A call that is done.
LEMMA DoneTraced ==
    ASSUME job' = NoJob, Traces(fs, Unwritten, fs', {})
    PROVE  Traced
  <1>1. job'.kind = "none"
    BY DEF NoJob
  <1> QED BY <1>1 DEF Traced, Known, Unwritten

\* Creating, deleting, setting a time.
LEMMA NameCallTraced ==
    ASSUME NInv, NEW path \in Paths,
           SetFile(path) \/ SetDir(path) \/ SetTime(path) \/ DelNode(path)
    PROVE  Traced
  <1>1. mode = "mounted" /\ job = NoJob /\ job' = NoJob
    BY DEF SetFile, SetDir, SetTime, DelNode, Begin
  <1>2. Sound(fs) /\ Rooted(fs, {}) /\ Unwritten = {}
    BY <1>1 DEF NInv, IInv, Pending, Unwritten, NoJob
  <1>3. Times \subseteq Nat
    BY TimesAssumption
  <1>4. Traces(fs, {}, fs', {})
    <2>1. CASE SetFile(path) \/ SetDir(path)
      BY <1>2, <1>3, <2>1, CreateTraces DEF SetFile, SetDir
    <2>2. CASE SetTime(path)
      BY <1>2, <1>3, <2>2, SetTimeTraces DEF SetTime
    <2>3. CASE DelNode(path)
      BY <1>2, <2>3, DeleteTraces DEF DelNode
    <2> QED BY <2>1, <2>2, <2>3
  <1> QED BY <1>1, <1>2, <1>4, DoneTraced

\* The first part of a link: its row has a record, its payload none.
LEMMA SetLinkTraced ==
    ASSUME NInv, NEW path \in Paths, NEW target \in Names, SetLink(path, target)
    PROVE  Traced
  <1>1. mode = "mounted" /\ job = NoJob
    BY DEF SetLink, Begin
  <1>2. /\ Sound(fs) /\ Rooted(fs, {}) /\ Unwritten = {} /\ fs \in Machine
        /\ fs.next_node_id \in Nat /\ fs.nodes \in SUBSET NodeRow
    BY <1>1 DEF NInv, IInv, Typed, Pending, Unwritten, NoJob, Machine
  <1>3. PICK now \in Times :
          LET new     == InitNode(fs, path, "LINK", now)
              payload == [node |-> new.row.node, parent |-> new.row.node,
                          type |-> "LINK_PAYLOAD", name |-> target, mtime |-> 0]
          IN  IF new.r # "OK" THEN fs' = Return(fs, new.r) /\ UNCHANGED job
              ELSE /\ fs' = WriteEntry([fs EXCEPT
                              !.nodes = InsertOrReplace(InsertOrReplace(@, new.row), payload),
                              !.next_node_id = @ + 1], "NODE", new.row)
                   /\ job' = IF fs'.r = "OK" THEN [kind |-> "link", row |-> payload]
                             ELSE NoJob
    BY DEF SetLink
  <1> DEFINE new == InitNode(fs, path, "LINK", now)
             row == new.row
             payload == [node |-> row.node, parent |-> row.node,
                         type |-> "LINK_PAYLOAD", name |-> target, mtime |-> 0]
             both == InsertOrReplace(InsertOrReplace(fs.nodes, row), payload)
             f == [fs EXCEPT !.nodes = both, !.next_node_id = @ + 1]
  <1>4. CASE new.r # "OK"
    <2>1. job' = NoJob /\ Traces(fs, {}, fs', {})
      BY <1>1, <1>2, <1>3, <1>4, ReturnTraces
    <2> QED BY <1>2, <2>1, DoneTraced
  <1>5. CASE new.r = "OK"
    <2>1. /\ fs' = WriteEntry(f, "NODE", row)
          /\ job' = IF fs'.r = "OK" THEN [kind |-> "link", row |-> payload] ELSE NoJob
      BY <1>3, <1>5
    <2>2. NewIn(fs, row, "LINK")
      <3>1. now \in Nat
        BY TimesAssumption
      <3> QED
        BY <1>2, <1>5, <3>1, NewRow
    <2> HIDE DEF row
    <2>3. /\ payload \in NodeRow /\ payload.node = row.node /\ payload.type = "LINK_PAYLOAD"
          /\ row \in NodeRow /\ row.node = fs.next_node_id /\ row.node # 0 /\ row.type = "LINK"
          /\ \A x \in fs.nodes : x.node # row.node
      BY <2>2 DEF NodeRow, NodeType, NewIn, Family
    <2> HIDE DEF payload
    <2>4. both = fs.nodes \cup {row, payload}
      BY <2>3 DEF InsertOrReplace
    <2>5. both \in SUBSET NodeRow
      BY <1>2, <2>3, <2>4
    <2> HIDE DEF both
    <2>6. f = [fs EXCEPT !.nodes = both, !.next_node_id = fs.next_node_id + 1]
      BY <1>2 DEF Machine
    <2>7. f.nodes = both /\ f.blocks = fs.blocks
      BY <1>2 DEF Machine
    <2>8. Fades(fs, f)
      <3>1. fs.next_node_id + 1 \in Nat /\ fs.next_node_id + 1 >= fs.next_node_id
        BY <1>2
      <3> QED BY <1>2, <2>5, <2>6, <3>1, NodesFades
    <2> HIDE DEF f
    <2>9. Enrols(fs, {}, f, "NODE", row, {payload})
      <3>1. payload.node >= fs.next_node_id
        BY <1>2, <2>3
      <3> QED BY <2>3, <2>4, <2>7, <2>8, <3>1 DEF Enrols
    <2>10. Traces(fs, Unwritten, fs', {payload})
      BY <1>2, <2>1, <2>9 DEF Traces
    <2>11. fs'.nodes = both /\ (fs'.r = "OK" \/ fs'.r = "ENOSPC")
      <3>1. Sound(f) /\ "NODE" \in LogOp /\ row.node \in Nat /\ 0 \in Nat /\ row \in NodeRow \cup {NoEntry}
        BY <1>2, <2>3, <2>8, FadesSound DEF LogOp, NodeRow
      <3>2. fs' = Write(f, "NODE", row.node, 0, 0, row) /\ f \in Machine
        BY <2>1, <2>8 DEF WriteEntry, Fades
      <3>3. fs'.nodes = f.nodes
        BY <3>2, WriteNodes
      <3>4. fs'.r = "OK" \/ fs'.r = "ENOSPC"
        BY <3>1, <3>2, WriteResult
      <3> QED BY <2>7, <3>3, <3>4
    <2>12. CASE fs'.r = "OK"
      <3>1. job'.kind = "link" /\ job'.row = payload
        BY <2>1, <2>12
      <3>2. Unwritten' = {payload} /\ Known'
        BY <2>4, <2>11, <3>1 DEF Unwritten, Known
      <3> QED BY <2>10, <3>2 DEF Traced
    <2>13. CASE fs'.r = "ENOSPC"
      <3>1. job'.kind = "none"
        BY <2>1, <2>13 DEF NoJob
      <3> QED BY <2>10, <2>13, <3>1 DEF Traced, Known
    <2> QED BY <2>11, <2>12, <2>13
  <1> QED BY <1>4, <1>5

\* The first part of a rename.
LEMMA MoveNodeTraced ==
    ASSUME NInv, NEW from \in Paths, NEW to \in Paths, MoveNode(from, to)
    PROVE  Traced
  <1> DEFINE src == Resolve(fs.nodes, from)
             dir == Resolve(fs.nodes, Dirname(to))
             row == [src.row EXCEPT !.parent = dir.row.node, !.name = Basename(to)]
             moved == MoveRow(fs, row)
  <1>1. mode = "mounted" /\ job = NoJob
    BY DEF MoveNode, Begin
  <1>2. /\ Sound(fs) /\ Rooted(fs, {}) /\ Unwritten = {} /\ fs \in Machine
        /\ fs.nodes \in SUBSET NodeRow
    BY <1>1 DEF NInv, IInv, Typed, Pending, Unwritten, NoJob, Machine
  <1>3. /\ from \in Seq(Names) /\ from # <<>> /\ to \in Seq(Names) /\ to # <<>>
        /\ ~ \E n \in 1 .. Len(to) : from = SubSeq(to, 1, n)
    BY PathsAssumption DEF MoveNode
  <1>4. Family(fs.nodes) /\ Unique(fs.nodes)
    BY <1>2, FamilySubset DEF Rooted
  <1>5. \/ job' = NoJob /\ \E r : fs' = Return(fs, r)
        \/ /\ src.r = "OK" /\ dir.r = "OK" /\ dir.row.type = "DIR"
           /\ \/ job' = NoJob /\ moved.r = "OK" /\ fs' = WriteEntry(moved, "MOVE", row)
              \/ job' = NoJob /\ moved.r # "OK" /\ fs' = moved
              \/ /\ fs' = Delete(fs, to)
                 /\ job' = IF fs'.r = "OK" THEN [kind |-> "move", row |-> row] ELSE NoJob
    BY <1>1 DEF MoveNode
  <1>6. CASE job' = NoJob /\ \E r : fs' = Return(fs, r)
    BY <1>2, <1>6, ReturnTraces, DoneTraced
  <1>7. ASSUME src.r = "OK", dir.r = "OK", dir.row.type = "DIR"
        PROVE  /\ row \in NodeRow /\ row.node # 0 /\ src.row \in fs.nodes
               /\ row.node = src.row.node /\ row.type = src.row.type
    <2>1. src.row \in fs.nodes /\ src.row \in NodeRow /\ src.row.node # 0
      BY <1>2, <1>3, <1>4, <1>7, ResolvedRow
    <2>2. dir.row = Root \/ dir.row \in fs.nodes
      BY <1>3, <1>4, <1>7, ResolvedRow
    <2>3. Basename(to) \in Names
      BY <1>3, DirnameType
    <2>4. dir.row.node \in Nat
      BY <1>2, <2>2 DEF Root, NodeRow
    <2> QED BY <2>1, <2>3, <2>4 DEF NodeRow
  <1>8. CASE /\ src.r = "OK" /\ dir.r = "OK" /\ dir.row.type = "DIR" /\ job' = NoJob
             /\ \/ moved.r = "OK" /\ fs' = WriteEntry(moved, "MOVE", row)
                \/ moved.r # "OK" /\ fs' = moved
    <2>1. row \in NodeRow /\ row.node # 0 /\ HasKey(fs.nodes, row)
      BY <1>7, <1>8 DEF HasKey
    <2>2. fs' = IF MoveRow(fs, row).r = "OK" THEN WriteEntry(MoveRow(fs, row), "MOVE", row)
                ELSE MoveRow(fs, row)
      BY <1>8
    <2> HIDE DEF row
    <2>3. Traces(fs, {}, fs', {})
      BY <1>2, <2>1, <2>2, MoveRowTraces
    <2> QED BY <1>2, <1>8, <2>3, DoneTraced
  <1>9. CASE /\ src.r = "OK" /\ dir.r = "OK" /\ dir.row.type = "DIR" /\ fs' = Delete(fs, to)
             /\ job' = IF fs'.r = "OK" THEN [kind |-> "move", row |-> row] ELSE NoJob
    <2>1. /\ Traces(fs, {}, fs', {})
          /\ \/ \E r \in Errno : fs' = Return(fs, r)
             \/ /\ Resolve(fs.nodes, to).r = "OK"
                /\ fs'.nodes = {x \in fs.nodes : x.node # Resolve(fs.nodes, to).row.node}
      BY <1>2, <1>9, DeleteTraces
    <2>2. CASE job' = NoJob
      BY <1>2, <2>1, <2>2, DoneTraced
    <2>3. CASE fs'.r = "OK" /\ job' = [kind |-> "move", row |-> row]
      <3>1. \A r \in Errno : Return(fs, r).r # "OK"
        BY <1>2 DEF Return, Errno, Machine
      <3>2. /\ Resolve(fs.nodes, to).r = "OK"
            /\ fs'.nodes = {x \in fs.nodes : x.node # Resolve(fs.nodes, to).row.node}
        BY <2>1, <2>3, <3>1
      <3>3. from # to
        <4>1. Len(to) \in 1 .. Len(to) /\ SubSeq(to, 1, Len(to)) = to
          BY <1>3
        <4> QED BY <1>3, <4>1
      <3>4. src.row.node # Resolve(fs.nodes, to).row.node
        <4> HIDE DEF row, dir
        <4> QED BY <1>3, <1>4, <1>9, <3>2, <3>3, OneNode
      <3>5. HasKey(fs'.nodes, row)
        <4>1. src.row \in fs.nodes /\ row.node = src.row.node /\ row.type = src.row.type
          BY <1>7, <1>9
        <4> HIDE DEF row, src, dir
        <4> QED BY <3>2, <3>4, <4>1 DEF HasKey
      <3>6. job'.kind = "move" /\ job'.row = row
        BY <2>3
      <3> HIDE DEF row
      <3>7. Known' /\ Unwritten' = {}
        BY <3>5, <3>6 DEF Known, Unwritten
      <3> QED BY <1>2, <2>1, <3>7 DEF Traced
    <2> QED BY <1>9, <2>2, <2>3
  <1> QED BY <1>5, <1>6, <1>8, <1>9

\* Truncating a file, and the data of a write.
LEMMA DataTraced ==
    ASSUME NInv, Known,
           \/ \E node \in FileIds, size \in Sizes : DelData(node, size)
           \/ \E node \in FileIds, x \in Extents : SetData(node, x[1], x[2])
           \/ WriteChunk
    PROVE  Traced
  <1>1. mode = "mounted"
    BY DEF DelData, SetData, WriteChunk, Begin
  <1>2. Sound(fs) /\ fs \in Machine /\ job \in Job /\ Family(fs.nodes)
    BY <1>1, FamilySubset DEF NInv, IInv, Typed, Rooted
  <1>3. NoEntry \in NodeRow \cup {NoEntry} /\ 0 \in Nat
    OBVIOUS
  <1>4. ASSUME NEW node \in FileIds
        PROVE  node \in Nat /\ node # 0 /\ HasFile(fs, node)
    BY <1>2, <1>4 DEF FileIds, HasFile, Family, NodeRow
  <1>5. ASSUME NEW node \in FileIds, NEW size \in Sizes, DelData(node, size)
        PROVE  Traced
    <2>1. job = NoJob /\ job' = NoJob /\ fs' = Truncate(fs, node, size)
      BY <1>5 DEF DelData, Begin
    <2>2. node \in Nat /\ node # 0 /\ HasFile(fs, node) /\ size \in Nat
      BY <1>4, SizesAssumption
    <2> DEFINE f == DropData(fs, node, size)
    <2>3. /\ f.nodes = fs.nodes
          /\ \A c \in Block : f.blocks[c] =
               IF fs.blocks[c].node = node THEN Cut(fs.blocks[c], size) ELSE fs.blocks[c]
      BY <1>2 DEF DropData, Machine
    <2>4. Fades(fs, f)
      BY <1>2, <2>2, DropDataFades
    <2>5. fs' = Write(f, "TRUNCATE", node, 0, size, NoEntry)
      BY <2>1, <2>2 DEF Truncate, HasFile
    <2> HIDE DEF f
    <2>6. \A c \in Block : f.blocks[c] = Afterwards(fs.blocks[c], "TRUNCATE", node, size)
      <3>1. \A c \in Block : fs.blocks[c].op = "NONE" => Cut(fs.blocks[c], size) = fs.blocks[c]
        BY DEF Cut
      <3> QED BY <2>3, <3>1 DEF Afterwards
    <2>7. Strips(fs, f, "TRUNCATE", node, size)
      BY <2>2, <2>3, <2>4, <2>6 DEF Strips
    <2>8. Traces(fs, {}, fs', {})
      BY <1>3, <2>2, <2>5, <2>7 DEF Traces
    <2>9. Unwritten = {}
      BY <2>1 DEF Unwritten, NoJob
    <2> QED BY <2>1, <2>8, <2>9, DoneTraced
  <1>6. ASSUME NEW node \in FileIds, NEW x \in Extents, SetData(node, x[1], x[2])
        PROVE  Traced
    <2>1. job = NoJob /\ fs' = fs /\ job'.kind = "data" /\ job'.node = node
      BY <1>6 DEF SetData, Begin
    <2>2. Unwritten = {} /\ Unwritten' = {}
      BY <2>1 DEF Unwritten, NoJob
    <2>3. Known'
      BY <1>4, <2>1 DEF Known, HasFile
    <2> QED BY <2>1, <2>2, <2>3 DEF Traced, Traces
  <1>7. CASE WriteChunk
    <2> DEFINE amount == IF job.size > Payload THEN Payload ELSE job.size
               left == [job EXCEPT !.offset = @ + amount, !.size = @ - amount]
    <2>1. /\ job.kind = "data" /\ fs' = Write(fs, "DATA", job.node, amount, job.offset, NoEntry)
          /\ job' = NoJob \/ job' = left
      BY <1>7 DEF WriteChunk
    <2>2. /\ job.node \in Nat /\ job.offset \in Nat /\ amount \in Nat
          /\ job = [kind |-> "data", node |-> job.node, offset |-> job.offset, size |-> job.size]
      BY <1>2, <2>1, JobType, PayloadAssumption
    <2>3. left.kind = "data" /\ left.node = job.node
      <3> HIDE DEF amount
      <3> QED BY <2>2
    <2> HIDE DEF amount, left
    <2>4. Good(fs) /\ HasFile(fs, job.node) /\ job.node # 0 /\ Unwritten = {}
      BY <1>2, <2>1 DEF Sound, Known, HasFile, Family, Unwritten
    <2>5. Strips(fs, fs, "DATA", job.node, job.offset)
      <3>1. Fades(fs, fs)
        BY <1>2 DEF Fades, Machine, BlockRow
      <3>2. \A c \in Block : fs.blocks[c] = Afterwards(fs.blocks[c], "DATA", job.node, job.offset)
        BY DEF Afterwards
      <3> QED BY <2>2, <2>4, <3>1, <3>2 DEF Strips
    <2>6. Traces(fs, {}, fs', {})
      BY <1>3, <2>1, <2>2, <2>5 DEF Traces
    <2>7. CASE job' = NoJob
      BY <2>4, <2>6, <2>7, DoneTraced
    <2>8. CASE job' = left
      <3>1. fs'.nodes = fs.nodes
        BY <1>2, <2>1, WriteNodes
      <3>2. job'.kind = "data" /\ job'.node = job.node
        BY <2>3, <2>8
      <3>3. Known' /\ Unwritten' = {}
        BY <2>4, <3>1, <3>2 DEF Known, HasFile, Unwritten
      <3> QED BY <2>4, <2>6, <3>3 DEF Traced
    <2> QED BY <2>1, <2>7, <2>8
  <1> QED BY <1>5, <1>6, <1>7

\* The second record of a link, and the second part of a rename.
LEMMA FinishTraced ==
    ASSUME NInv, Known, FinishLink \/ FinishMove
    PROVE  Traced
  <1>1. mode = "mounted" /\ job.kind \in {"link", "move"} /\ job' = NoJob
    BY DEF FinishLink, FinishMove
  <1>2. /\ Sound(fs) /\ fs \in Machine /\ job.row \in NodeRow /\ Pending = {job.row}
        /\ Rooted(fs, {job.row})
    BY <1>1, JobType DEF NInv, IInv, Typed, Pending
  <1>3. job.row.node # 0
    BY <1>2 DEF Rooted, Family
  <1>4. CASE FinishLink
    <2> DEFINE row == job.row
    <2>1. /\ row \in fs.nodes /\ row \in NodeRow /\ row.node # 0
          /\ Unwritten = {row} /\ fs' = WriteEntry(fs, "NODE", row)
      BY <1>2, <1>3, <1>4 DEF FinishLink, Known, Unwritten
    <2> HIDE DEF row
    <2>2. Fades(fs, fs)
      BY <1>2 DEF Fades, Machine, BlockRow
    <2>3. Enrols(fs, {row}, fs, "NODE", row, {})
      BY <2>1, <2>2 DEF Enrols
    <2>4. Traces(fs, Unwritten, fs', {})
      BY <2>1, <2>3 DEF Traces
    <2> QED BY <1>1, <2>4, DoneTraced
  <1>5. CASE FinishMove
    <2>1. HasKey(fs.nodes, job.row) /\ Unwritten = {}
      BY <1>5 DEF FinishMove, Known, Unwritten
    <2>2. fs' = IF MoveRow(fs, job.row).r = "OK" THEN WriteEntry(MoveRow(fs, job.row), "MOVE", job.row)
                ELSE MoveRow(fs, job.row)
      BY <1>5 DEF FinishMove
    <2> QED BY <1>1, <1>2, <1>3, <2>1, <2>2, MoveRowTraces, DoneTraced
  <1> QED BY <1>4, <1>5

\* A call, from its first record to its last.
LEMMA CallTraced ==
    ASSUME NInv, Known, Call \/ Finish
    PROVE  Traced
  BY NameCallTraced, SetLinkTraced, MoveNodeTraced, DataTraced, FinishTraced DEF Call, Finish

-----------------------------------------------------------------------------
(* The invariant. *)

\* A formatted container satisfies it.
LEMMA InitHInv == Init => HInv
  <1> SUFFICES ASSUME Init PROVE HInv
    OBVIOUS
  <1>1. mode = "mounted" /\ job.kind = "none" /\ fs = Fresh([b \in Block |-> NoRecord])
    BY DEF Init, NoJob
  <1>2. /\ fs.nodes = {} /\ \A b \in Block : fs.blocks[b] = NoRow /\ fs.disk[b].op = "INVALID"
    BY <1>1 DEF Fresh, NoRecord
  <1>3. Appended(fs.disk) /\ Orderly(fs.disk)
    BY <1>2 DEF Appended, Orderly, Valid
  <1>4. Exact(fs) /\ Live(fs) /\ Sourced(fs) /\ Sure(fs) = {} /\ Enlisted(fs, Unwritten)
    BY <1>2 DEF Exact, Live, Sourced, Sure, Enlisted, NoRow
  <1>5. Tree({})
    BY DEF Tree, Apart, Ringless, Dirs
  <1> QED
    BY <1>1, <1>2, <1>3, <1>4, <1>5 DEF HInv, Known, Intact, Faithful

\* A call, from its first record to its last.
LEMMA CallHInv ==
    ASSUME RInv, NInv, HInv, Call \/ Finish, RInv', NInv'
    PROVE  HInv'
  <1>1. mode = "mounted" /\ mode' = "mounted"
    BY DEF Call, Finish, Begin, SetFile, SetDir, SetTime, DelNode, SetLink,
           MoveNode, DelData, SetData, FinishLink, FinishMove, WriteChunk
  <1>2. /\ Sound(fs) /\ Settled(fs) /\ Carried(fs) /\ Intact(fs.disk) /\ Known
        /\ Appended(fs.disk) => Faithful(fs) /\ Enlisted(fs, Unwritten) /\ Tree(fs.nodes)
    BY <1>1 DEF RInv, SInv, IInv, Recoverable, HInv
  <1>3. Traced /\ (Tree(fs.nodes) => Tree(fs'.nodes))
    BY <1>2, CallTraced, CallKept DEF Kept
  <1>4. PICK more : /\ Traces(fs, Unwritten, fs', more)
                    /\ more = Unwritten' \/ fs'.r = "ENOSPC"
    BY <1>3 DEF Traced
  <1>5. fs' \in Machine /\ Unique(fs'.nodes)
    BY DEF NInv, IInv, Typed, Rooted
  <1>6. /\ Intact(fs'.disk)
        /\ Appended(fs'.disk) => Appended(fs.disk)
        /\ Appended(fs'.disk) /\ Tree(fs'.nodes) => Faithful(fs') /\ Enlisted(fs', more)
    BY <1>2, <1>4, <1>5, TraceFaithful
  <1>7. Enlisted(fs', more) => Enlisted(fs', Unwritten')
    <2>1. CASE fs'.r = "ENOSPC"
      <3>1. fs'.next_block_id = LastBlock + 1
        BY <1>1, <2>1 DEF RInv, SInv, Exhausted, NoSpace
      <3>2. ~ (fs'.next_block_id <= LastBlock)
        BY <3>1, LastBlockAssumption
      <3> QED
        BY <3>2 DEF Enlisted
    <2> QED
      BY <1>4, <2>1
  <1> QED
    BY <1>1, <1>2, <1>3, <1>6, <1>7 DEF HInv, Traced

\* The end of a process, and the mount of the next.
LEMMA ProcessHInv ==
    ASSUME RInv, NInv, HInv, Stop \/ Mount \/ Load, Saves, RInv', NInv'
    PROVE  HInv'
  <1>1. Known'
    <2>1. job' = NoJob
      BY DEF Stop, Mount, Load, Mounted, LoadRecord, NInv, IInv, Typed
    <2>2. job'.kind = "none"
      BY <2>1 DEF NoJob
    <2> QED
      BY <2>2 DEF Known
  <1>2. CASE Stop
    <2>1. fs' = Fresh(fs.disk) /\ fs'.disk = fs.disk /\ mode # "down" /\ mode' = "down"
      BY <1>2 DEF Stop, Fresh
    <2>2. /\ Unique(saved'.nodes) /\ saved'.next_node_id >= 1
          /\ Appended(fs.disk) => Faithful(saved')
      <3>1. CASE mode = "mounted"
        <4>1. saved' = Return(fs, "OK") /\ fs \in Machine
          BY <2>1, <3>1 DEF Saves, NInv, IInv, Typed
        <4>2. /\ saved'.nodes = fs.nodes /\ saved'.blocks = fs.blocks /\ saved'.disk = fs.disk
              /\ saved'.next_block_id = fs.next_block_id /\ saved'.next_node_id = fs.next_node_id
          BY <4>1 DEF Return, Machine
        <4>3. Unique(fs.nodes) /\ 0 < fs.next_node_id /\ fs.next_node_id \in Nat
          <5>1. Rooted(fs, Pending) /\ Root.node = 0 /\ fs.next_node_id \in Nat
            BY <4>1 DEF NInv, Root, Machine
          <5>2. Root.node < fs.next_node_id
            BY <5>1 DEF Rooted
          <5> QED
            BY <5>1, <5>2 DEF Rooted
        <4>4. Appended(fs.disk) => Faithful(fs) /\ Enlisted(fs, Unwritten)
          BY <3>1 DEF HInv
        <4>5. Appended(fs.disk) => Faithful(saved')
          BY <4>2, <4>4, SameFaithful
        <4> QED
          BY <4>2, <4>3, <4>5
      <3>2. CASE mode # "mounted"
        <4>1. saved' = saved
          BY <2>1, <3>2 DEF Saves, Remounted
        <4> QED
          BY <3>2, <4>1 DEF HInv
      <3> QED
        BY <3>1, <3>2
    <2> QED
      BY <1>1, <2>1, <2>2 DEF HInv
  <1>3. CASE Mount
    <2>1. /\ fs' = fs /\ mode = "down" /\ mode' = "loading" /\ fs = Fresh(fs.disk)
          /\ saved' = saved
      BY <1>3 DEF Mount, Saves, Remounted, NInv, IInv
    <2>2. Exact(fs) /\ IdFollows(fs)
      <3>1. fs.next_node_id = 1 /\ \A b \in Block : fs.blocks[b] = NoRow
        BY <2>1 DEF Fresh
      <3> QED
        BY <3>1 DEF Exact, IdFollows
    <2> QED
      BY <1>1, <2>1, <2>2 DEF HInv
  <1>4. CASE Mounted
    <2>1. mode = "loading" /\ todo = {} /\ fs' = fs /\ mode' = "mounted" /\ job' = job /\ job = NoJob
      BY <1>4 DEF Mounted, NInv, IInv, Typed
    <2>2. Sound(fs) /\ Settled(fs) /\ Carried(fs) /\ Youngest(fs) /\ Unique(fs.nodes)
      BY <2>1, ReplayedSound DEF RInv, SInv, NInv, IInv, Rooted, Recoverable
    <2>3. Exact(fs) /\ IdFollows(fs)
      BY <2>1 DEF HInv
    <2>4. /\ Sound(saved) /\ Settled(saved) /\ Carried(saved) /\ saved.disk = fs.disk
          /\ Unique(saved.nodes) /\ saved.next_node_id >= 1
          /\ Appended(fs.disk) => Faithful(saved)
      BY <2>1 DEF RInv, Remains, Recoverable, HInv
    <2>5. Appended(fs.disk) => Faithful(fs) /\ Enlisted(fs, {}) /\ Tree(fs.nodes)
      BY <2>2, <2>3, <2>4, MountFaithful
    <2>6. Unwritten' = {}
      BY <2>1 DEF Unwritten, NoJob
    <2> QED
      BY <1>1, <2>1, <2>5, <2>6 DEF HInv
  <1>5. ASSUME NEW b \in Block, LoadRecord(b)
        PROVE  HInv'
    <2>1. /\ mode = "loading" /\ b \in todo /\ fs' = Replay(fs, b)
          /\ \A c \in todo : fs.disk[b].seq <= fs.disk[c].seq
          /\ mode' = IF fs'.r = "OK" THEN "loading" ELSE "failed"
      BY <1>5 DEF LoadRecord
    <2>2. Replaying(fs, todo) /\ Settled(fs) /\ Youngest(fs) /\ Exact(fs) /\ IdFollows(fs)
      BY <2>1 DEF RInv, SInv, IInv, HInv
    <2>3. fs'.r = "OK" => Exact(fs') /\ IdFollows(fs')
      BY <2>1, <2>2, ReplayExact
    <2>4. fs'.disk = fs.disk
      BY <2>1, <2>2, ReplaySound
    <2>5. saved' = saved
      BY <2>1 DEF Saves, Remounted
    <2>6. saved.disk = fs.disk /\ (Appended(fs.disk) => Faithful(saved))
      BY <2>1 DEF RInv, Remains, HInv
    <2>7. Appended(fs.disk) => fs'.r = "OK"
      BY <2>1, <2>2, <2>6, ReplayOrderly DEF Faithful
    <2> QED
      BY <1>1, <2>1, <2>3, <2>4, <2>5, <2>7 DEF HInv
  <1> QED
    BY <1>2, <1>3, <1>4, <1>5 DEF Load

\* Every step keeps it.
LEMMA StepHInv ==
    ASSUME RInv, NInv, HInv, [RecNext]_rvars, RInv', NInv'
    PROVE  HInv'
  <1>1. CASE UNCHANGED rvars
    BY <1>1 DEF HInv, rvars, Known, Unwritten
  <1> QED
    BY <1>1, CallHInv, ProcessHInv DEF RecNext, Next

\* It holds in every reachable state.
THEOREM HistoryInvariant == RecSpec => [](RInv /\ NInv /\ HInv)
  <1>1. RecInit => Init
    BY DEF RecInit
  <1>2. [RecNext]_rvars => [Next]_vars
    BY DEF RecNext, rvars, vars
  <1>3. RecSpec => []NInv
    BY <1>1, <1>2, RowsRooted, PTL DEF RecSpec, Spec
  <1>4. RInv /\ NInv /\ HInv /\ [RecNext]_rvars /\ RInv' /\ NInv' => HInv'
    BY StepHInv
  <1> QED
    BY <1>1, <1>3, <1>4, InitHInv, RecoveryInvariant, PTL DEF RecSpec

-----------------------------------------------------------------------------
(* The replay of such a log, record by record. *)

\* A record of such a log leaves one row for each key.
LEMMA ReplayUnique ==
    ASSUME NEW m, NEW left, Replaying(m, left), Settled(m), Recoverable(m), Unique(m.nodes),
           NEW b \in left, Replay(m, b).r = "OK"
    PROVE  Unique(Replay(m, b).nodes)
  <1> DEFINE rec == m.disk[b]
             done == Effect(m, rec)
  <1>1. m \in Machine /\ MirrorsAll(m) /\ DiskSound(m.disk) /\ CutsToSizes(m.disk)
        /\ b \in Block /\ rec.op \in LogOp
    BY DEF Replaying, Good, Settled, Valid, DiskSound, DiskRecord
  <1>2. done.r = "OK" /\ Replay(m, b).nodes = done.nodes
    <2>1. rec \in DiskRecord /\ (rec.op \in EntryOp => rec.entry \in NodeRow)
      BY <1>1 DEF DiskSound
    <2>2. done \in Machine
      BY <1>1, <2>1, EffectFades DEF Fades
    <2> HIDE DEF done, rec
    <2>3. done.r # "OK" => Replay(m, b) = done
      BY DEF Replay, done, rec
    <2> QED
      BY <2>2, <2>3 DEF Replay, Machine, done, rec
  <1>3. \/ done.nodes = InsertOrReplace(m.nodes, rec.entry)
        \/ done.nodes \subseteq m.nodes
    <2>1. /\ rec.op \in {"NODE", "MOVE"} => done.nodes = InsertOrReplace(m.nodes, rec.entry)
          /\ rec.op \in {"DATA", "TRUNCATE"} => done.nodes = m.nodes
          /\ rec.op = "DELETE" => done.nodes = {x \in m.nodes : x.node # rec.node}
      <3>1. Does(m, done, rec)
        BY <1>1, EffectRecoverable
      <3> HIDE DEF done, rec
      <3> QED
        BY <1>2, <3>1 DEF Does
    <2> HIDE DEF done, rec
    <2> QED
      BY <1>1, <2>1 DEF LogOp
  <1> HIDE DEF done, rec
  <1>4. Unique(InsertOrReplace(m.nodes, rec.entry))
    BY InsertUnique
  <1> QED
    BY <1>2, <1>3, <1>4 DEF Unique

\* What the replay of such a log has, whichever record it has come to.
Replayed(m, disk, left) ==
    /\ m.disk = disk /\ Replaying(m, left) /\ Settled(m) /\ Recoverable(m) /\ Youngest(m)
    /\ Unique(m.nodes) /\ Exact(m) /\ IdFollows(m)

\* The next record of an append-only log mounts and leaves the tables as they must be.
LEMMA ReplayedNext ==
    ASSUME NEW m, NEW disk, NEW left, Replayed(m, disk, left), Appended(disk), Orderly(disk),
           NEW b \in left, \A c \in left : disk[b].seq <= disk[c].seq
    PROVE  Replayed(Replay(m, b), disk, left \ {b})
  <1>1. \A c \in left : m.disk[b].seq <= m.disk[c].seq
    BY DEF Replayed
  <1>2. Replaying(m, left) /\ Settled(m) /\ Recoverable(m) /\ Youngest(m) /\ m.disk = disk
        /\ Unique(m.nodes) /\ Exact(m) /\ IdFollows(m)
    BY DEF Replayed
  <1>3. Replay(m, b).r = "OK"
    BY <1>1, <1>2, ReplayOrderly
  <1>4. Replay(m, b).disk = disk /\ Replaying(Replay(m, b), left \ {b})
    BY <1>1, <1>2, <1>3, ReplaySound
  <1>5. Settled(Replay(m, b))
    BY <1>1, <1>2, ReplaySettled
  <1>6. Recoverable(Replay(m, b)) /\ Youngest(Replay(m, b))
    BY <1>1, <1>2, <1>3, ReplayRecoverable
  <1>7. Exact(Replay(m, b)) /\ IdFollows(Replay(m, b))
    BY <1>1, <1>2, <1>3, ReplayExact
  <1>8. Unique(Replay(m, b).nodes)
    BY <1>2, <1>3, ReplayUnique
  <1> QED
    BY <1>4, <1>5, <1>6, <1>7, <1>8 DEF Replayed

\* A mount begins with all valid records left to replay.
LEMMA ReplayedFirst ==
    ASSUME NEW disk, DiskSound(disk), CutsToSizes(disk)
    PROVE  Replayed(Fresh(disk), disk, Valid(disk))
  <1>1. Scanned(disk) = Valid(disk)
    BY DEF Scanned, Valid, DiskSound, Block
  <1>2. Replaying(Fresh(disk), Valid(disk))
    BY <1>1, FreshReplaying
  <1>3. Settled(Fresh(disk)) /\ Recoverable(Fresh(disk)) /\ Youngest(Fresh(disk))
    BY FreshSettled, FreshRecoverable
  <1> QED
    BY <1>2, <1>3 DEF Replayed, Fresh, Unique, Exact, IdFollows

-----------------------------------------------------------------------------
(* What a mount of such a log recovers. *)

\* A log whose numbers are those of its blocks was only appended to.
LEMMA UnusedAppended ==
    ASSUME NEW m, Sound(m), Intact(m.disk), NeverReused(m)
    PROVE  Appended(m.disk)
  <1>1. m \in Machine /\ m.next_block_id \in Nat /\ m.next_block_id <= LastBlock + 1
    BY LastBlockAssumption DEF Sound, Good
  <1>2. ASSUME NEW b \in Valid(m.disk), m.disk[b].seq > LastBlock
        PROVE  FALSE
    <2>1. b \in Block /\ m.blocks[b].op # "NONE"
      <3>1. b \in Block /\ b \in Nat /\ b < m.next_block_id
        BY DEF Sound, Valid, Block
      <3>2. ~ (m.next_block_id <= b)
        BY <1>1, <3>1
      <3> QED
        BY <3>1, <3>2 DEF Sound
    <2>2. m.disk[b].seq < m.next_seq_id /\ m.disk[b].seq \in Nat /\ m.next_seq_id \in Nat
      BY <1>1, <2>1 DEF Sound, MirrorsAll, Mirrors, Machine, DiskRecord
    <2> QED
      BY <1>1, <1>2, <2>2, LastBlockAssumption DEF NeverReused
  <1> QED
    BY <1>2 DEF Intact

\* As long as no block was reused, a mount rebuilds the tables of the process before,
\* times and trimmed sizes included, for truncations to any sizes and after any
\* history of calls, crashes and mounts.
THEOREM AppendRecovered == RecSpec => AppendRecovery
  <1> DEFINE Same == /\ fs'.nodes = Logged(saved)
                     /\ fs'.blocks = saved.blocks
                     /\ fs'.next_block_id = saved.next_block_id
                     /\ fs'.next_seq_id = saved.next_seq_id
                     /\ fs'.next_node_id <= saved.next_node_id
  <1>1. ASSUME RInv, NInv, HInv, [RecNext]_rvars, Remounted, NeverReused(saved)
        PROVE  Same
    <2>1. [Next]_vars /\ mode = "loading"
      BY <1>1 DEF RecNext, rvars, vars, Remounted
    <2>2. /\ fs' = fs /\ Remains
          /\ Sound(fs) /\ Settled(fs) /\ Carried(fs) /\ Youngest(fs)
      BY <1>1, <2>1, RemountAgrees DEF Recoverable
    <2>3. /\ Sound(saved) /\ Settled(saved) /\ Carried(saved) /\ saved.disk = fs.disk
          /\ Unique(saved.nodes) /\ saved.next_node_id >= 1
          /\ Appended(fs.disk) => Faithful(saved)
      BY <1>1, <2>1, <2>2 DEF Remains, Recoverable, HInv
    <2>4. Unique(fs.nodes) /\ Exact(fs) /\ IdFollows(fs) /\ Intact(fs.disk)
      BY <1>1, <2>1 DEF NInv, Rooted, HInv
    <2>5. Faithful(saved)
      BY <1>1, <2>3, <2>4, UnusedAppended
    <2>6. /\ fs.blocks = saved.blocks /\ fs.next_block_id = saved.next_block_id
          /\ fs.next_seq_id = saved.next_seq_id /\ fs.next_node_id <= saved.next_node_id
          /\ fs.nodes = Logged(saved)
      BY <2>2, <2>3, <2>4, <2>5, MountFaithful
    <2> QED
      BY <2>2, <2>6
  <1>2. RInv /\ NInv /\ HInv /\ [RecNext]_rvars => [Remounted /\ NeverReused(saved) => Same]_rvars
    BY <1>1
  <1> QED
    BY <1>2, HistoryInvariant, PTL DEF RecSpec, AppendRecovery

\* A mount of a log none of whose blocks was reused.
AppendMounts == Appended(fs.disk) => MountSucceeds

\* Such a mount does not fail, whatever crash came before it.
THEOREM AppendMounted == RecSpec => []AppendMounts
  <1>1. HInv => AppendMounts
    BY DEF HInv, AppendMounts, MountSucceeds
  <1> QED
    BY <1>1, HistoryInvariant, PTL

\* A mounted process over such a log.
AppendTree == mode = "mounted" /\ Appended(fs.disk) => Strays(fs) = {}

\* It has a tree of nodes, not only as long as it runs, but also after a mount of what
\* a crash in the middle of any call has left.
THEOREM AppendTreeKept == RecSpec => []AppendTree
  <1>1. HInv => AppendTree
    BY StraysTree DEF HInv, AppendTree
  <1> QED
    BY <1>1, HistoryInvariant, PTL
=============================================================================
