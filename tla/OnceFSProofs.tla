---------------------------- MODULE OnceFSProofs -----------------------------
(***************************************************************************)
(* Theorems about OnceFS, for every container size, name set, path set    *)
(* and workload: about its rows, records and counters, and about the tree  *)
(* that its rows make.                                                     *)
(***************************************************************************)
EXTENDS OnceFS, FiniteSetTheorems, TLAPS

-----------------------------------------------------------------------------
(* Natural numbers and finite sets. *)

\* Every set of natural numbers that is not empty has a least element.
LEMMA NatMin ==
    ASSUME NEW T, T \subseteq Nat, T # {}
    PROVE  \E x \in T : \A y \in T : x <= y
  <1> DEFINE R == {ss \in Nat \X Nat : ss[1] < ss[2]}
  <1>1. IsWellFoundedOn(R, Nat)
    <2> SUFFICES ASSUME NEW f \in [Nat -> Nat], \A n \in Nat : <<f[n + 1], f[n]>> \in R
                 PROVE  FALSE
      BY DEF IsWellFoundedOn
    <2> DEFINE g == [n \in Nat |-> 0 .. (f[n] - 1)]
               S == StrictSubsetOrdering(Nat)
    <2>1. \A n \in Nat : f[n + 1] < f[n]
      OBVIOUS
    <2>2. ASSUME NEW n \in Nat PROVE g[n] \in FiniteSubsetsOf(Nat)
      <3>1. f[n] \in Nat /\ g[n] = 0 .. (f[n] - 1)
        OBVIOUS
      <3>2. IsFiniteSet(0 .. (f[n] - 1))
        BY <3>1, FS_Interval
      <3> QED
        BY <3>1, <3>2 DEF FiniteSubsetsOf
    <2>3. ASSUME NEW n \in Nat PROVE <<g[n + 1], g[n]>> \in S
      <3>1. f[n] \in Nat /\ f[n + 1] \in Nat /\ n + 1 \in Nat
        OBVIOUS
      <3>2. g[n + 1] \subseteq g[n] /\ g[n + 1] \subseteq Nat /\ g[n] \subseteq Nat
        BY <2>1, <3>1
      <3>3. f[n + 1] \in g[n] /\ f[n + 1] \notin g[n + 1]
        BY <2>1, <3>1
      <3>4. g[n + 1] # g[n]
        BY <3>3
      <3> HIDE DEF g
      <3>5. <<g[n + 1], g[n]>> \in (SUBSET Nat) \X (SUBSET Nat)
        BY <3>2
      <3> QED
        BY <3>2, <3>4, <3>5 DEF StrictSubsetOrdering
    <2>4. g \in [Nat -> FiniteSubsetsOf(Nat)]
      BY <2>2
    <2> QED
      BY <2>3, <2>4, FS_StrictSubsetOrderingWellFounded DEF IsWellFoundedOn
  <1>2. PICK x \in T : \A y \in T : ~ (<<y, x>> \in R)
    BY <1>1, WFMin
  <1>3. \A y \in T : ~ (y < x)
    BY <1>2
  <1> QED
    BY <1>3

\* The empty set has no elements to count.
LEMMA EmptyCardinality == Cardinality({}) = 0
  BY FS_EmptySet

\* An interval has as many elements as lie between its ends.
LEMMA IntervalCardinality ==
    ASSUME NEW a \in Nat, NEW b \in Nat, a <= b
    PROVE  IsFiniteSet(a .. b - 1) /\ Cardinality(a .. b - 1) = b - a
  <1>1. a \in Int /\ b - 1 \in Int
    OBVIOUS
  <1>2. /\ IsFiniteSet(a .. b - 1)
        /\ Cardinality(a .. b - 1) = IF a > b - 1 THEN 0 ELSE (b - 1) - a + 1
    BY <1>1, FS_Interval
  <1> QED
    BY <1>2

\* Every finite set of natural numbers has a bound.
LEMMA FiniteBounded ==
    ASSUME NEW T, T \subseteq Nat, IsFiniteSet(T)
    PROVE  \E k \in Nat : \A x \in T : x <= k
  <1> DEFINE Bounded(U) == \E k \in Nat : \A x \in U : x <= k
             Counts == {Cardinality(U) : U \in {V \in SUBSET T : ~ Bounded(V)}}
  <1> SUFFICES ASSUME ~ Bounded(T) PROVE FALSE
    OBVIOUS
  <1>1. \A U \in SUBSET T : IsFiniteSet(U) /\ Cardinality(U) \in Nat
    BY FS_Subset, FS_CardinalityType
  <1>2. Cardinality(T) \in Counts /\ Counts \subseteq Nat
    BY <1>1
  <1>3. PICK n \in Counts : \A k \in Counts : n <= k
    <2> HIDE DEF Counts
    <2> QED
      BY <1>2, NatMin
  <1>4. PICK U \in SUBSET T : n = Cardinality(U) /\ ~ Bounded(U)
    OBVIOUS
  <1>5. PICK x \in U : TRUE
    <2>1. U # {}
      BY <1>4
    <2> QED
      BY <2>1
  <1> DEFINE V == U \ {x}
  <1>6. Cardinality(V) = n - 1 /\ n \in Nat
    BY <1>1, <1>4, <1>5, FS_RemoveElement
  <1>7. CASE Bounded(V)
    <2>1. PICK k \in Nat : \A y \in V : y <= k
      BY <1>7
    <2>2. x \in Nat
      BY <1>5
    <2>3. \A y \in U : y <= k + x
      <3> SUFFICES ASSUME NEW y \in U PROVE y <= k + x
        OBVIOUS
      <3>1. y \in Nat /\ (y = x \/ y <= k)
        BY <2>1
      <3> QED
        BY <2>2, <3>1
    <2>4. Bounded(U)
      <3>1. k + x \in Nat
        BY <2>2
      <3> QED
        BY <2>3, <3>1
    <2> QED
      BY <1>4, <2>4
  <1>8. CASE ~ Bounded(V)
    <2>1. V \in SUBSET T
      OBVIOUS
    <2>2. Cardinality(V) \in Counts
      BY <1>8, <2>1
    <2> QED
      BY <1>3, <1>6, <2>2
  <1> QED
    BY <1>7, <1>8

\* On a finite set that is not empty a function takes a greatest value.
LEMMA FiniteMax ==
    ASSUME NEW S, IsFiniteSet(S), S # {}, NEW f \in [S -> Nat]
    PROVE  \E x \in S : \A y \in S : f[y] <= f[x]
  <1> DEFINE T == {f[x] : x \in S}
  <1>1. f \in Surjection(S, T)
    BY DEF Surjection
  <1>2. IsFiniteSet(T) /\ T \subseteq Nat
    <2> HIDE DEF T
    <2>1. IsFiniteSet(T)
      BY <1>1, FS_Surjection
    <2> QED
      BY <2>1 DEF T
  <1>3. PICK k \in Nat : \A x \in S : f[x] <= k
    <2>1. \E k \in Nat : \A y \in T : y <= k
      <3> HIDE DEF T
      <3> QED
        BY <1>2, FiniteBounded
    <2> QED
      BY <2>1
  <1> DEFINE D == {k - f[x] : x \in S}
  <1>4. D \subseteq Nat /\ D # {}
    BY <1>3
  <1>5. PICK d \in D : \A e \in D : d <= e
    <2> HIDE DEF D
    <2> QED
      BY <1>4, NatMin
  <1>6. PICK x \in S : d = k - f[x]
    OBVIOUS
  <1>7. ASSUME NEW y \in S PROVE f[y] <= f[x]
    <2>1. k - f[x] <= k - f[y]
      BY <1>5, <1>6
    <2> QED
      BY <2>1
  <1> QED
    BY <1>7

-----------------------------------------------------------------------------
(* What a machine satisfies. *)

\* Types, and a block counter within its range.
Good(m) == m \in Machine /\ m.next_block_id \in 1 .. LastBlock + 1

\* A container that a mount can read: entries where the operation has one,
\* distinct sequence numbers, no gap before the last record.
DiskSound(disk) ==
    /\ disk \in [Block -> DiskRecord]
    /\ \A b \in Block : disk[b].op \in EntryOp =>
         disk[b].entry \in NodeRow /\ disk[b].entry.node = disk[b].node
    /\ \A b, c \in Valid(disk) : disk[b].seq = disk[c].seq => b = c
    /\ \A c \in Valid(disk) : 1 .. c \subseteq Valid(disk)

MirrorsAll(m) == \A b \in Block : m.blocks[b].op # "NONE" => Mirrors(m, b)

\* A machine between two steps of a mounted process.
Sound(m) ==
    /\ Good(m)
    /\ DiskSound(m.disk)
    /\ MirrorsAll(m)
    /\ \A b \in Block : /\ m.blocks[b].op = "NONE" <=> m.next_block_id <= b
                        /\ b \in Valid(m.disk) <=> b < m.next_block_id

\* From m to n no record is written: node rows come and go, block rows stay,
\* are freed or are trimmed.
Fades(m, n) ==
    /\ n \in Machine
    /\ n.disk = m.disk /\ n.next_block_id = m.next_block_id
    /\ n.next_seq_id = m.next_seq_id /\ n.next_node_id >= m.next_node_id
    /\ \A b \in Block :
         /\ n.blocks[b].op = "NONE" <=> m.blocks[b].op = "NONE"
         /\ n.blocks[b].seq = m.blocks[b].seq /\ n.blocks[b].node = m.blocks[b].node
         /\ n.blocks[b].op # "FREE" =>
              /\ n.blocks[b].op = m.blocks[b].op
              /\ n.blocks[b].offset = m.blocks[b].offset
              /\ n.blocks[b].fill <= m.blocks[b].fill

-----------------------------------------------------------------------------
(* Types of the operators. *)

\* A search ends with OK or one of two errors, and what it finds is a row.
LEMMA ResolveType ==
    ASSUME NEW nodes \in SUBSET NodeRow, NEW path
    PROVE  /\ Resolve(nodes, path).r \in {"OK", "ENOENT", "EINVAL"}
           /\ Resolve(nodes, path).r = "OK" =>
                \/ path = <<>> /\ Resolve(nodes, path).row = Root
                \/ path # <<>> /\ Resolve(nodes, path).row \in nodes
  <1>1. CASE path = <<>>
    BY <1>1 DEF Resolve, Found
  <1>2. CASE path # <<>>
    <2> DEFINE at == Walk(nodes, Dirname(path))
    <2> DEFINE hits == Lookup(nodes, at.row.node, Basename(path))
    <2>1. hits \subseteq nodes
      BY DEF Lookup
    <2>2. Resolve(nodes, path) = Child(nodes, at, Basename(path))
      BY <1>2 DEF Resolve
    <2> HIDE DEF at
    <2>3. CASE at.r \in {"ENOENT", "EINVAL"}
      BY <2>2, <2>3 DEF Child
    <2>4. CASE at.r \notin {"ENOENT", "EINVAL"} /\ (at.row.type # "DIR" \/ hits = {})
      BY <2>2, <2>4 DEF Child, Missing
    <2>5. CASE at.r \notin {"ENOENT", "EINVAL"} /\ at.row.type = "DIR" /\ hits # {}
      <3>1. Resolve(nodes, path) = Found(CHOOSE x \in hits : TRUE)
        BY <2>2, <2>5 DEF Child
      <3>2. (CHOOSE x \in hits : TRUE) \in nodes
        BY <2>1, <2>5
      <3> QED
        BY <3>1, <3>2, <1>2 DEF Found
    <2> QED
      BY <2>3, <2>4, <2>5
  <1> QED
    BY <1>1, <1>2

\* The row of a new node.
LEMMA InitNodeType ==
    ASSUME NEW m \in Machine, NEW path \in Paths,
           NEW type \in {"FILE", "DIR", "LINK"}, NEW now \in Nat
    PROVE  /\ InitNode(m, path, type, now).r \in Errno \cup {"OK"}
           /\ InitNode(m, path, type, now).r = "OK" =>
                /\ InitNode(m, path, type, now).row \in NodeRow
                /\ InitNode(m, path, type, now).row.node = m.next_node_id
                /\ InitNode(m, path, type, now).row.type = type
  <1> DEFINE there == Resolve(m.nodes, path)
             dir == Resolve(m.nodes, Dirname(path))
             row == [node |-> m.next_node_id, parent |-> dir.row.node,
                     type |-> type, name |-> Basename(path), mtime |-> now]
  <1>1. m.nodes \in SUBSET NodeRow /\ m.next_node_id \in Nat
    BY DEF Machine
  <1>2. there.r \in {"OK", "ENOENT", "EINVAL"} /\ dir.r \in {"OK", "ENOENT", "EINVAL"}
    BY <1>1, ResolveType
  <1>3. dir.r = "OK" => dir.row.node \in Nat
    BY <1>1, ResolveType DEF Root, NodeRow
  <1>4. Basename(path) \in Names
    BY PathsAssumption DEF Basename
  <1>5. dir.r = "OK" => row \in NodeRow
    BY <1>1, <1>3, <1>4 DEF NodeRow, NodeType
  <1> HIDE DEF there, dir
  <1>6. InitNode(m, path, type, now) \in {Missing("EEXIST"), there, dir, Missing("EINVAL"), Found(row)}
    BY DEF InitNode, there, dir
  <1>7. InitNode(m, path, type, now).r = "OK" => InitNode(m, path, type, now) = Found(row) /\ dir.r = "OK"
    BY DEF InitNode, there, dir, Missing, Found
  <1> QED
    BY <1>2, <1>5, <1>6, <1>7 DEF Missing, Found, Errno

\* Only blocks of the container are granted, and when it is full only blocks
\* that have a row.
LEMMA GrantsType ==
    ASSUME NEW m, Good(m), NEW node \in Nat
    PROVE  /\ Grants(m, node) \subseteq Block
           /\ \A b \in Grants(m, node) :
                \/ b = m.next_block_id
                \/ m.next_block_id = LastBlock + 1 /\ m.blocks[b].op \in {"FREE", "DELETE", "NODE"}
  <1>1. CASE m.next_block_id <= LastBlock
    BY <1>1, LastBlockAssumption DEF Grants, Good, Block
  <1>2. CASE ~ (m.next_block_id <= LastBlock)
    <2>1. m.next_block_id = LastBlock + 1
      BY <1>2, LastBlockAssumption DEF Good
    <2>2. \A op : Rows(m, op) \subseteq Block
      BY DEF Rows
    <2>3. \A rows : First(m, rows) \subseteq rows
      BY DEF First
    <2>4. Grants(m, node) = Reuse(m, node)
      BY <1>2 DEF Grants
    <2>5. Reuse(m, node) \subseteq Rows(m, "FREE") \cup Rows(m, "DELETE") \cup Rows(m, "NODE")
      BY <2>3 DEF Reuse
    <2> QED
      BY <2>1, <2>4, <2>5 DEF Rows
  <1> QED
    BY <1>1, <1>2

\* A machine after a write that was granted block b.
Laid(m, op, node, fill, offset, entry, b) ==
    [nodes |-> m.nodes,
     blocks |-> [m.blocks EXCEPT ![b] =
        [op |-> op, seq |-> m.next_seq_id, node |-> node, fill |-> fill, offset |-> offset]],
     disk |-> [m.disk EXCEPT ![b] =
        [op |-> op, seq |-> m.next_seq_id, node |-> node,
         fill |-> fill, offset |-> offset, entry |-> entry]],
     next_node_id |-> Larger(m.next_node_id, node + 1),
     next_block_id |-> IF m.next_block_id <= LastBlock
                       THEN m.next_block_id + 1 ELSE m.next_block_id,
     next_seq_id |-> m.next_seq_id + 1,
     r |-> "OK"]

\* What a write that is granted a block changes.
LEMMA WriteEffect ==
    ASSUME NEW m, Good(m), NEW op \in LogOp, NEW node \in Nat, NEW fill \in Nat,
           NEW offset \in Nat, NEW entry \in NodeRow \cup {NoEntry},
           Grants(m, node) # {}
    PROVE  \E b \in Grants(m, node) :
             Write(m, op, node, fill, offset, entry)
               = Laid(m, op, node, fill, offset, entry, b)
  <1> DEFINE b == CHOOSE c \in Grants(m, node) : TRUE
  <1>1. b \in Grants(m, node)
    OBVIOUS
  <1> HIDE DEF b
  <1>2. Write(m, op, node, fill, offset, entry) =
          [m EXCEPT !.blocks[b] = [op |-> op, seq |-> m.next_seq_id, node |-> node,
                                   fill |-> fill, offset |-> offset],
                    !.disk[b] = [op |-> op, seq |-> m.next_seq_id, node |-> node,
                                 fill |-> fill, offset |-> offset, entry |-> entry],
                    !.next_block_id = IF @ <= LastBlock THEN @ + 1 ELSE @,
                    !.next_seq_id = @ + 1,
                    !.next_node_id = Larger(@, node + 1),
                    !.r = "OK"]
    BY DEF Write, b
  <1> QED
    BY <1>1, <1>2 DEF Good, Machine, Laid

-----------------------------------------------------------------------------
(* What keeps a machine sound. *)

\* Writing a record, wherever it is granted a block, keeps a machine sound.
LEMMA WriteSound ==
    ASSUME NEW m, Sound(m), NEW op \in LogOp, NEW node \in Nat, NEW fill \in Nat,
           NEW offset \in Nat, NEW entry \in NodeRow \cup {NoEntry},
           op \in EntryOp => entry \in NodeRow /\ entry.node = node
    PROVE  Sound(Write(m, op, node, fill, offset, entry))
  <1> DEFINE w == Write(m, op, node, fill, offset, entry)
             row == [op |-> op, seq |-> m.next_seq_id, node |-> node,
                     fill |-> fill, offset |-> offset]
             rec == [op |-> op, seq |-> m.next_seq_id, node |-> node,
                     fill |-> fill, offset |-> offset, entry |-> entry]
  <1>1. Good(m) /\ DiskSound(m.disk) /\ MirrorsAll(m)
    BY DEF Sound
  <1>2. CASE Grants(m, node) = {}
    <2>1. w = [m EXCEPT !.r = "ENOSPC"]
      BY <1>2 DEF Write, Return
    <2>2. w \in Machine /\ w.disk = m.disk /\ w.blocks = m.blocks
          /\ w.next_block_id = m.next_block_id /\ w.next_seq_id = m.next_seq_id
          /\ w.next_node_id = m.next_node_id
      BY <2>1, <1>1 DEF Good, Machine, Errno
    <2> HIDE DEF w
    <2> QED
      BY <2>2 DEF w, Sound, Good, MirrorsAll, Mirrors
  <1>3. CASE Grants(m, node) # {}
    <2>1. PICK b \in Grants(m, node) :
             w = [nodes |-> m.nodes,
                  blocks |-> [m.blocks EXCEPT ![b] = row],
                  disk |-> [m.disk EXCEPT ![b] = rec],
                  next_node_id |-> Larger(m.next_node_id, node + 1),
                  next_block_id |-> IF m.next_block_id <= LastBlock
                                    THEN m.next_block_id + 1 ELSE m.next_block_id,
                  next_seq_id |-> m.next_seq_id + 1,
                  r |-> "OK"]
      <3>1. PICK b \in Grants(m, node) :
              w = Laid(m, op, node, fill, offset, entry, b)
        BY <1>1, <1>3, WriteEffect
      <3> QED
        BY <3>1 DEF Laid
    <2>2. b \in Block /\ b <= m.next_block_id
          /\ (m.next_block_id <= LastBlock => b = m.next_block_id)
      BY <1>1, GrantsType, LastBlockAssumption DEF Good, Block
    <2>3. row \in BlockRow /\ rec \in DiskRecord /\ op # "NONE" /\ op # "FREE" /\ op # "INVALID"
      BY <1>1 DEF Good, Machine, BlockRow, DiskRecord, LogOp
    <2> HIDE DEF w
    <2>4. /\ w.blocks = [m.blocks EXCEPT ![b] = row]
          /\ w.disk = [m.disk EXCEPT ![b] = rec]
          /\ w.next_seq_id = m.next_seq_id + 1
          /\ w.next_node_id = Larger(m.next_node_id, node + 1)
          /\ w.next_block_id = IF m.next_block_id <= LastBlock
                               THEN m.next_block_id + 1 ELSE m.next_block_id
      BY <2>1
    <2>5. /\ m.blocks \in [Block -> BlockRow] /\ m.disk \in [Block -> DiskRecord]
          /\ m.next_seq_id \in Nat /\ m.next_node_id \in Nat
          /\ m.next_block_id \in 1 .. LastBlock + 1
      BY <1>1 DEF Good, Machine
    <2>6. Good(w)
      <3>1. w.next_block_id \in 1 .. LastBlock + 1
        BY <2>4, <2>5, LastBlockAssumption
      <3>2. w.next_block_id \in Nat /\ w.next_node_id \in Nat /\ w.next_seq_id \in Nat
        BY <3>1, <2>4, <2>5, LastBlockAssumption DEF Larger
      <3>3. w.blocks \in [Block -> BlockRow] /\ w.disk \in [Block -> DiskRecord]
        BY <2>2, <2>3, <2>4, <2>5
      <3>4. m.nodes \in SUBSET NodeRow
        BY <1>1 DEF Good, Machine
      <3> QED
        BY <2>1, <3>1, <3>2, <3>3, <3>4 DEF Good, Machine
    <2>7. /\ w.blocks[b] = row /\ w.disk[b] = rec
          /\ \A c \in Block : c # b => w.blocks[c] = m.blocks[c] /\ w.disk[c] = m.disk[c]
      BY <2>2, <2>4, <2>5
    <2>8. \A c \in Valid(m.disk) : m.disk[c].seq < m.next_seq_id
      <3> SUFFICES ASSUME NEW c \in Valid(m.disk)
                   PROVE  m.disk[c].seq < m.next_seq_id
        OBVIOUS
      <3>1. c \in Block
        BY DEF Valid
      <3>2. m.blocks[c].op # "NONE"
        BY <3>1, <2>5 DEF Sound, Block
      <3> QED
        BY <3>1, <3>2, <1>1 DEF MirrorsAll, Mirrors
    <2>9. Valid(w.disk) = Valid(m.disk) \cup {b}
      BY <2>2, <2>3, <2>7 DEF Valid
    <2>10. \A c \in Block : c \in Valid(m.disk) <=> c < m.next_block_id
      BY DEF Sound
    <2>11. \A c \in Block : c \in Valid(w.disk) <=> c < w.next_block_id
      <3>1. CASE m.next_block_id <= LastBlock
        <4>1. b = m.next_block_id /\ w.next_block_id = m.next_block_id + 1
          BY <3>1, <2>2, <2>4
        <4>2. m.next_block_id \in Nat
          BY <2>5, LastBlockAssumption
        <4> QED
          BY <4>1, <4>2, <2>2, <2>9, <2>10 DEF Block
      <3>2. CASE ~ (m.next_block_id <= LastBlock)
        <4>1. m.next_block_id = LastBlock + 1 /\ w.next_block_id = LastBlock + 1
          BY <3>2, <2>4, <2>5, LastBlockAssumption
        <4> QED
          BY <4>1, <2>2, <2>9, <2>10, LastBlockAssumption DEF Block
      <3> QED
        BY <3>1, <3>2
    <2>12. DiskSound(w.disk)
      <3>1. \A c \in Block : w.disk[c].op \in EntryOp =>
              w.disk[c].entry \in NodeRow /\ w.disk[c].entry.node = w.disk[c].node
        BY <1>1, <2>7 DEF DiskSound
      <3>2. \A c, d \in Valid(w.disk) : w.disk[c].seq = w.disk[d].seq => c = d
        BY <1>1, <2>5, <2>7, <2>8, <2>9 DEF DiskSound, Valid
      <3>3. \A c \in Valid(w.disk) : 1 .. c \subseteq Valid(w.disk)
        BY <2>11, <2>6, LastBlockAssumption DEF Valid, Block, Good
      <3>4. w.disk \in [Block -> DiskRecord]
        BY <2>6 DEF Good, Machine
      <3> QED
        BY <3>1, <3>2, <3>3, <3>4 DEF DiskSound
    <2>13. MirrorsAll(w)
      <3> SUFFICES ASSUME NEW c \in Block, w.blocks[c].op # "NONE"
                   PROVE  Mirrors(w, c)
        BY DEF MirrorsAll
      <3>1. CASE c = b
        BY <3>1, <2>3, <2>4, <2>5, <2>7 DEF Mirrors, Larger
      <3>2. CASE c # b
        <4>1. Mirrors(m, c)
          BY <3>2, <1>1, <2>7 DEF MirrorsAll
        <4>2. m.blocks[c].seq \in Nat /\ m.blocks[c].node \in Nat
          BY <2>5 DEF BlockRow
        <4> QED
          BY <3>2, <4>1, <4>2, <2>4, <2>5, <2>7 DEF Mirrors, Larger
      <3> QED
        BY <3>1, <3>2
    <2>14. \A c \in Block : w.blocks[c].op = "NONE" <=> w.next_block_id <= c
      <3> SUFFICES ASSUME NEW c \in Block
                   PROVE  w.blocks[c].op = "NONE" <=> w.next_block_id <= c
        OBVIOUS
      <3>1. w.blocks[c].op = "NONE" <=> c \notin Valid(w.disk)
        <4>1. CASE c = b
          BY <2>2, <2>3, <2>7, <2>9, <4>1
        <4>2. CASE c # b
          <5>1. m.blocks[c].op = "NONE" <=> ~ (c < m.next_block_id)
            BY <2>5 DEF Sound, Block
          <5> QED
            BY <2>7, <2>9, <2>10, <4>2, <5>1
        <4> QED
          BY <4>1, <4>2
      <3>2. w.next_block_id \in Int /\ c \in Int
        BY <2>6 DEF Good, Block
      <3> QED
        BY <2>11, <3>1, <3>2
    <2> QED
      BY <2>6, <2>11, <2>12, <2>13, <2>14 DEF Sound, w
  <1> QED
    BY <1>2, <1>3

\* So does a change that writes no record.
LEMMA FadesMirrors ==
    ASSUME NEW m, Good(m), MirrorsAll(m), NEW n, Fades(m, n)
    PROVE  Good(n) /\ MirrorsAll(n)
  <1>1. Good(n)
    BY DEF Good, Fades
  <1>2. /\ m.blocks \in [Block -> BlockRow] /\ n.blocks \in [Block -> BlockRow]
        /\ m.disk \in [Block -> DiskRecord] /\ m.next_node_id \in Nat /\ n.next_node_id \in Nat
    BY DEF Good, Fades, Machine
  <1>3. MirrorsAll(n)
    <2> SUFFICES ASSUME NEW b \in Block, n.blocks[b].op # "NONE"
                 PROVE  Mirrors(n, b)
      BY DEF MirrorsAll
    <2>1. Mirrors(m, b)
      BY DEF Fades, MirrorsAll
    <2>2. /\ m.blocks[b].fill \in Nat /\ n.blocks[b].fill \in Nat /\ m.disk[b].fill \in Nat
          /\ m.blocks[b].node \in Nat
      BY <1>2 DEF BlockRow, DiskRecord
    <2> QED
      BY <2>1, <2>2, <1>2 DEF Mirrors, Fades
  <1> QED
    BY <1>1, <1>3

\* A sound machine stays sound when its rows fade and no record is written.
LEMMA FadesSound ==
    ASSUME NEW m, Sound(m), NEW n, Fades(m, n)
    PROVE  Sound(n)
  <1>1. Good(n) /\ MirrorsAll(n)
    BY FadesMirrors DEF Sound
  <1> QED
    BY <1>1 DEF Sound, Fades

-----------------------------------------------------------------------------
(* The operations that write no record. *)

\* A return code, or a changed node table, touches no row.
LEMMA ReturnFades ==
    ASSUME NEW m \in Machine, NEW r \in Errno \cup {"OK"}
    PROVE  Fades(m, Return(m, r))
  <1> DEFINE n == Return(m, r)
  <1>2. /\ n \in Machine /\ n.disk = m.disk /\ n.blocks = m.blocks
        /\ n.next_block_id = m.next_block_id /\ n.next_seq_id = m.next_seq_id
        /\ n.next_node_id = m.next_node_id
    BY DEF Return, Machine
  <1> HIDE DEF n
  <1>3. /\ m.next_node_id \in Nat
        /\ \A b \in Block : m.blocks[b].fill \in Nat
    BY DEF Machine, BlockRow
  <1>4. Fades(m, n)
    BY <1>2, <1>3 DEF Fades
  <1> QED
    BY <1>4 DEF n

\* Replacing the node table and the next node id touches no row and no block.
LEMMA NodesFades ==
    ASSUME NEW m \in Machine, NEW nodes \in SUBSET NodeRow, NEW id \in Nat,
           id >= m.next_node_id
    PROVE  Fades(m, [m EXCEPT !.nodes = nodes, !.next_node_id = id])
  <1> DEFINE n == [m EXCEPT !.nodes = nodes, !.next_node_id = id]
  <1>2. /\ n \in Machine /\ n.disk = m.disk /\ n.blocks = m.blocks
        /\ n.next_block_id = m.next_block_id /\ n.next_seq_id = m.next_seq_id
        /\ n.next_node_id = id
    BY DEF Machine
  <1> HIDE DEF n
  <1>3. \A b \in Block : m.blocks[b].fill \in Nat
    BY DEF Machine, BlockRow
  <1>4. Fades(m, n)
    BY <1>2, <1>3 DEF Fades
  <1> QED
    BY <1>4 DEF n

\* Inserting a node row in the table gives a table of node rows.
LEMMA InsertType ==
    ASSUME NEW nodes \in SUBSET NodeRow, NEW row \in NodeRow
    PROVE  InsertOrReplace(nodes, row) \in SUBSET NodeRow
  BY DEF InsertOrReplace

\* Renaming a row of the node table touches no block.
LEMMA MoveRowFades ==
    ASSUME NEW m \in Machine, NEW row \in NodeRow
    PROVE  Fades(m, MoveRow(m, row))
  <1>1. CASE Lookup(m.nodes, row.parent, row.name) = {}
    <2> DEFINE nodes == InsertOrReplace(m.nodes, row)
               n == [m EXCEPT !.nodes = nodes, !.r = "OK"]
    <2>1. nodes \in SUBSET NodeRow
      BY InsertType DEF Machine
    <2>2. MoveRow(m, row) = n
      BY <1>1 DEF MoveRow
    <2> HIDE DEF nodes
    <2>3. /\ n \in Machine /\ n.disk = m.disk /\ n.blocks = m.blocks
          /\ n.next_block_id = m.next_block_id /\ n.next_seq_id = m.next_seq_id
          /\ n.next_node_id = m.next_node_id
      BY <2>1 DEF Machine
    <2> HIDE DEF n
    <2>4. m.next_node_id \in Nat /\ \A b \in Block : m.blocks[b].fill \in Nat
      BY DEF Machine, BlockRow
    <2> QED
      BY <2>2, <2>3, <2>4 DEF Fades
  <1>2. CASE Lookup(m.nodes, row.parent, row.name) # {}
    BY <1>2, ReturnFades DEF MoveRow, Errno
  <1> QED
    BY <1>1, <1>2

\* Deleting a node frees rows and drops node rows.
LEMMA DropNodeFades ==
    ASSUME NEW m \in Machine, NEW node \in Nat
    PROVE  Fades(m, DropNode(m, node))
  <1> DEFINE n == DropNode(m, node)
             nodes == {x \in m.nodes : x.node # node}
             blocks == [b \in Block |->
                  IF m.blocks[b].node = node /\ m.blocks[b].op # "NONE"
                  THEN [m.blocks[b] EXCEPT !.op = "FREE"] ELSE m.blocks[b]]
  <1>2. n = [m EXCEPT !.nodes = nodes, !.blocks = blocks, !.r = "OK"]
    BY DEF DropNode
  <1>3. nodes \in SUBSET NodeRow
    BY DEF Machine
  <1>4. m.blocks \in [Block -> BlockRow] /\ m.next_node_id \in Nat
    BY DEF Machine
  <1>5. \A b \in Block : [m.blocks[b] EXCEPT !.op = "FREE"] \in BlockRow
    BY <1>4 DEF BlockRow
  <1>6. blocks \in [Block -> BlockRow]
    BY <1>4, <1>5
  <1>7. \A b \in Block :
             /\ blocks[b].op = "NONE" <=> m.blocks[b].op = "NONE"
             /\ blocks[b].seq = m.blocks[b].seq /\ blocks[b].node = m.blocks[b].node
             /\ blocks[b].op # "FREE" => blocks[b] = m.blocks[b]
    BY <1>4 DEF BlockRow
  <1> HIDE DEF nodes, blocks
  <1>8. /\ n \in Machine /\ n.disk = m.disk /\ n.blocks = blocks
        /\ n.next_block_id = m.next_block_id /\ n.next_seq_id = m.next_seq_id
        /\ n.next_node_id = m.next_node_id
    BY <1>2, <1>3, <1>6 DEF Machine
  <1> HIDE DEF n
  <1>9. \A b \in Block : m.blocks[b].fill \in Nat
    BY <1>4 DEF BlockRow
  <1>10. Fades(m, n)
    BY <1>4, <1>7, <1>8, <1>9 DEF Fades
  <1> QED
    BY <1>10 DEF n

\* A cut frees a row, trims it or leaves it.
LEMMA CutType ==
    ASSUME NEW row \in BlockRow, NEW size \in Nat
    PROVE  /\ Cut(row, size) \in BlockRow
           /\ Cut(row, size).op = "NONE" <=> row.op = "NONE"
           /\ Cut(row, size).seq = row.seq /\ Cut(row, size).node = row.node
           /\ Cut(row, size).op # "FREE" =>
                /\ Cut(row, size).op = row.op /\ Cut(row, size).offset = row.offset
                /\ Cut(row, size).fill <= row.fill
  BY DEF Cut, BlockRow

\* Truncating frees and trims rows.
LEMMA DropDataFades ==
    ASSUME NEW m \in Machine, NEW node \in Nat, NEW size \in Nat
    PROVE  Fades(m, DropData(m, node, size))
  <1> DEFINE n == DropData(m, node, size)
             blocks == [b \in Block |-> IF m.blocks[b].node = node
                                        THEN Cut(m.blocks[b], size) ELSE m.blocks[b]]
  <1>2. n = [m EXCEPT !.blocks = blocks, !.r = "OK"]
    BY DEF DropData
  <1>3. m.blocks \in [Block -> BlockRow] /\ m.next_node_id \in Nat
    BY DEF Machine
  <1>4. blocks \in [Block -> BlockRow]
    BY <1>3, CutType
  <1>5. \A b \in Block : blocks[b] = IF m.blocks[b].node = node
                                    THEN Cut(m.blocks[b], size) ELSE m.blocks[b]
    OBVIOUS
  <1> HIDE DEF blocks
  <1>6. \A b \in Block :
             /\ blocks[b].op = "NONE" <=> m.blocks[b].op = "NONE"
             /\ blocks[b].seq = m.blocks[b].seq /\ blocks[b].node = m.blocks[b].node
             /\ blocks[b].op # "FREE" =>
                  /\ blocks[b].op = m.blocks[b].op
                  /\ blocks[b].offset = m.blocks[b].offset
                  /\ blocks[b].fill <= m.blocks[b].fill
    <2> SUFFICES ASSUME NEW b \in Block
                 PROVE  /\ blocks[b].op = "NONE" <=> m.blocks[b].op = "NONE"
                        /\ blocks[b].seq = m.blocks[b].seq
                        /\ blocks[b].node = m.blocks[b].node
                        /\ blocks[b].op # "FREE" =>
                             /\ blocks[b].op = m.blocks[b].op
                             /\ blocks[b].offset = m.blocks[b].offset
                             /\ blocks[b].fill <= m.blocks[b].fill
      OBVIOUS
    <2>1. m.blocks[b] \in BlockRow /\ m.blocks[b].fill \in Nat
      BY <1>3 DEF BlockRow
    <2>2. CASE m.blocks[b].node = node
      <3>1. blocks[b] = Cut(m.blocks[b], size)
        BY <2>2, <1>5
      <3>2. /\ Cut(m.blocks[b], size).op = "NONE" <=> m.blocks[b].op = "NONE"
            /\ Cut(m.blocks[b], size).seq = m.blocks[b].seq
            /\ Cut(m.blocks[b], size).node = m.blocks[b].node
            /\ Cut(m.blocks[b], size).op # "FREE" =>
                /\ Cut(m.blocks[b], size).op = m.blocks[b].op
                /\ Cut(m.blocks[b], size).offset = m.blocks[b].offset
                /\ Cut(m.blocks[b], size).fill <= m.blocks[b].fill
        BY <2>1, CutType
      <3> QED
        BY <3>1, <3>2
    <2>3. CASE m.blocks[b].node # node
      BY <2>1, <2>3, <1>5
    <2> QED
      BY <2>2, <2>3
  <1>7. /\ n \in Machine /\ n.disk = m.disk /\ n.blocks = blocks
        /\ n.next_block_id = m.next_block_id /\ n.next_seq_id = m.next_seq_id
        /\ n.next_node_id = m.next_node_id
    BY <1>2, <1>4 DEF Machine
  <1> HIDE DEF n
  <1>8. Fades(m, n)
    BY <1>3, <1>6, <1>7 DEF Fades
  <1> QED
    BY <1>8 DEF n

-----------------------------------------------------------------------------
(* The operations keep a machine sound. *)

\* Returning a code keeps a machine sound.
LEMMA ReturnSound ==
    ASSUME NEW m, Sound(m), NEW r \in Errno \cup {"OK"}
    PROVE  Sound(Return(m, r))
  BY ReturnFades, FadesSound DEF Sound, Good

\* Replacing the node table keeps a machine sound.
LEMMA NodesSound ==
    ASSUME NEW m, Sound(m), NEW nodes \in SUBSET NodeRow, NEW id \in Nat,
           id >= m.next_node_id
    PROVE  Sound([m EXCEPT !.nodes = nodes, !.next_node_id = id])
  BY NodesFades, FadesSound DEF Sound, Good

\* Dropping the rows of a deleted node keeps a machine sound.
LEMMA DropNodeSound ==
    ASSUME NEW m, Sound(m), NEW node \in Nat
    PROVE  Sound(DropNode(m, node))
  BY DropNodeFades, FadesSound DEF Sound, Good

\* Cutting the data of a truncated node keeps a machine sound.
LEMMA DropDataSound ==
    ASSUME NEW m, Sound(m), NEW node \in Nat, NEW size \in Nat
    PROVE  Sound(DropData(m, node, size))
  BY DropDataFades, FadesSound DEF Sound, Good

\* A record with a node row.
LEMMA WriteEntrySound ==
    ASSUME NEW m, Sound(m), NEW op \in LogOp, NEW row \in NodeRow
    PROVE  Sound(WriteEntry(m, op, row))
  <1>1. row.node \in Nat
    BY DEF NodeRow
  <1> QED
    BY <1>1, WriteSound DEF WriteEntry

\* A write always returns OK or ENOSPC.
LEMMA WriteResult ==
    ASSUME NEW m, Sound(m), NEW op \in LogOp, NEW node \in Nat, NEW fill \in Nat,
           NEW offset \in Nat, NEW entry \in NodeRow \cup {NoEntry}
    PROVE  Write(m, op, node, fill, offset, entry).r =
             IF Grants(m, node) = {} THEN "ENOSPC" ELSE "OK"
  <1>1. Good(m)
    BY DEF Sound
  <1>2. CASE Grants(m, node) = {}
    BY <1>1, <1>2 DEF Write, Return, Good, Machine
  <1>3. CASE Grants(m, node) # {}
    <2> DEFINE b == CHOOSE c \in Grants(m, node) : TRUE
    <2> HIDE DEF b
    <2>1. Write(m, op, node, fill, offset, entry) =
            [m EXCEPT !.blocks[b] = [op |-> op, seq |-> m.next_seq_id, node |-> node,
                                     fill |-> fill, offset |-> offset],
                      !.disk[b] = [op |-> op, seq |-> m.next_seq_id, node |-> node,
                                   fill |-> fill, offset |-> offset, entry |-> entry],
                      !.next_block_id = IF @ <= LastBlock THEN @ + 1 ELSE @,
                      !.next_seq_id = @ + 1,
                      !.next_node_id = Larger(@, node + 1),
                      !.r = "OK"]
      BY <1>3 DEF Write, b
    <2> QED
      BY <1>1, <1>3, <2>1 DEF Good, Machine
  <1> QED
    BY <1>2, <1>3

\* A write changes nothing in the tables, or the row and the record of one block.
LEMMA WriteCases ==
    ASSUME NEW f, Good(f), NEW op \in LogOp, NEW node \in Nat, NEW fill \in Nat,
           NEW offset \in Nat, NEW entry \in NodeRow \cup {NoEntry},
           NEW w, w = Write(f, op, node, fill, offset, entry)
    PROVE  \/ w.blocks = f.blocks /\ w.disk = f.disk /\ w.r = "ENOSPC"
           \/ \E b \in Block :
                /\ w.blocks[b].op = op /\ w.blocks[b].node = node
                /\ w.blocks[b].fill = fill /\ w.blocks[b].offset = offset
                /\ w.disk[b].op = op /\ w.disk[b].node = node /\ w.disk[b].fill = fill
                /\ w.disk[b].offset = offset /\ w.disk[b].entry = entry
                /\ w.disk[b].seq = f.next_seq_id /\ w.r = "OK"
                /\ \A c \in Block : c # b => w.blocks[c] = f.blocks[c] /\ w.disk[c] = f.disk[c]
  <1> DEFINE row == [op |-> op, seq |-> f.next_seq_id, node |-> node,
                     fill |-> fill, offset |-> offset]
             rec == [op |-> op, seq |-> f.next_seq_id, node |-> node,
                     fill |-> fill, offset |-> offset, entry |-> entry]
  <1>1. f.blocks \in [Block -> BlockRow] /\ f.disk \in [Block -> DiskRecord]
    BY DEF Good, Machine
  <1>2. CASE Grants(f, node) = {}
    <2>1. w = [f EXCEPT !.r = "ENOSPC"]
      BY <1>2 DEF Write, Return
    <2> QED
      BY <2>1 DEF Good, Machine
  <1>3. CASE Grants(f, node) # {}
    <2>1. PICK b \in Grants(f, node) :
            Write(f, op, node, fill, offset, entry) =
              [nodes |-> f.nodes,
               blocks |-> [f.blocks EXCEPT ![b] = row],
               disk |-> [f.disk EXCEPT ![b] = rec],
               next_node_id |-> Larger(f.next_node_id, node + 1),
               next_block_id |-> IF f.next_block_id <= LastBlock
                                 THEN f.next_block_id + 1 ELSE f.next_block_id,
               next_seq_id |-> f.next_seq_id + 1,
               r |-> "OK"]
      <3>1. PICK b \in Grants(f, node) :
              Write(f, op, node, fill, offset, entry) = Laid(f, op, node, fill, offset, entry, b)
        BY <1>3, WriteEffect
      <3> QED
        BY <3>1 DEF Laid
    <2>2. b \in Block
      BY GrantsType
    <2>3. /\ w.blocks = [f.blocks EXCEPT ![b] = row] /\ w.disk = [f.disk EXCEPT ![b] = rec]
          /\ w.r = "OK"
      BY <2>1
    <2> HIDE DEF row, rec
    <2>4. /\ w.blocks[b] = row /\ w.disk[b] = rec
          /\ \A c \in Block : c # b => w.blocks[c] = f.blocks[c] /\ w.disk[c] = f.disk[c]
      BY <1>1, <2>2, <2>3
    <2> QED
      BY <2>2, <2>3, <2>4 DEF row, rec
  <1> QED
    BY <1>2, <1>3

\* What a resolved path of a call denotes.
LEMMA PathType ==
    ASSUME NEW nodes \in SUBSET NodeRow, NEW path \in Paths
    PROVE  /\ Resolve(nodes, path).r \in Errno \cup {"OK"}
           /\ Resolve(nodes, path).r = "OK" => Resolve(nodes, path).row \in nodes
           /\ Resolve(nodes, Dirname(path)).r \in Errno \cup {"OK"}
           /\ Resolve(nodes, Dirname(path)).r = "OK" =>
                Resolve(nodes, Dirname(path)).row.node \in Nat
           /\ Basename(path) \in Names
  <1>1. path # <<>> /\ path \in Seq(Names)
    BY PathsAssumption
  <1> QED
    BY <1>1, ResolveType DEF Errno, Root, NodeRow, Basename

-----------------------------------------------------------------------------
(* The forms of a step. *)

\* The table has a row for the key of x.
HasKey(nodes, x) == \E y \in nodes : y.node = x.node /\ y.type = x.type

\* From one table to the other no key goes.
Keeps(nodes, later) == \A x \in nodes : HasKey(later, x)

\* A record with a node row is written, after a change of the node table.
EntryForm(m, n) ==
    \E f \in Machine, op \in {"NODE", "MOVE"}, row \in NodeRow :
        /\ Fades(m, f) /\ f.blocks = m.blocks
        /\ Keeps(m.nodes, f.nodes) /\ HasKey(f.nodes, row)
        /\ n = WriteEntry(f, op, row)

DeleteForm(m, n) ==
    \E row \in NodeRow : n = WriteEntry(DropNode(m, row.node), "DELETE", row)

TruncateForm(m, n) ==
    \E node \in Nat, size \in Sizes :
        n = Write(DropData(m, node, size), "TRUNCATE", node, 0, size, NoEntry)

DataForm(m, n) ==
    \E node \in Nat, fill \in Nat, offset \in Nat :
        n = Write(m, "DATA", node, fill, offset, NoEntry)

\* What a call returns that has written nothing, for another reason than space.
Verdict == {"OK", "ENOENT", "EEXIST", "EINVAL"}

ReturnForm(m, n) == n = m \/ \E r \in Verdict : n = Return(m, r)

\* What a call about names does, and what any call does.
NameForm(m, n) == ReturnForm(m, n) \/ EntryForm(m, n) \/ DeleteForm(m, n)

Form(m, n) == NameForm(m, n) \/ TruncateForm(m, n) \/ DataForm(m, n)

\* The row whose record a link has yet to write is in the table.
Linked == job.kind = "link" => HasKey(fs.nodes, job.row)

\* What the form of a step rests on, and no more.
Typed ==
    /\ fs \in Machine
    /\ job \in Job /\ (job # NoJob => mode = "mounted")
    /\ Linked

-----------------------------------------------------------------------------
(* The node table. *)

\* Inserting a row keeps every key, and adds its own.
LEMMA InsertKeeps ==
    ASSUME NEW nodes, NEW row
    PROVE  /\ Keeps(nodes, InsertOrReplace(nodes, row))
           /\ HasKey(InsertOrReplace(nodes, row), row)
  <1>1. row \in InsertOrReplace(nodes, row)
    BY DEF InsertOrReplace
  <1>2. ASSUME NEW x \in nodes PROVE HasKey(InsertOrReplace(nodes, row), x)
    <2>1. CASE x.node = row.node /\ x.type = row.type
      BY <1>1, <2>1 DEF HasKey
    <2>2. CASE ~ (x.node = row.node /\ x.type = row.type)
      BY <2>2 DEF HasKey, InsertOrReplace
    <2> QED
      BY <2>1, <2>2
  <1> QED
    BY <1>1, <1>2 DEF Keeps, HasKey

\* The write of a record leaves the node table alone.
LEMMA WriteNodes ==
    ASSUME NEW m \in Machine, NEW op, NEW node, NEW fill, NEW offset, NEW entry
    PROVE  Write(m, op, node, fill, offset, entry).nodes = m.nodes
  <1> DEFINE b == CHOOSE c \in Grants(m, node) : TRUE
  <1> HIDE DEF b
  <1>1. CASE Grants(m, node) = {}
    BY <1>1 DEF Write, Return, Machine
  <1>2. CASE Grants(m, node) # {}
    <2>1. Write(m, op, node, fill, offset, entry) =
            [m EXCEPT !.blocks[b] = [op |-> op, seq |-> m.next_seq_id, node |-> node,
                                     fill |-> fill, offset |-> offset],
                      !.disk[b] = [op |-> op, seq |-> m.next_seq_id, node |-> node,
                                   fill |-> fill, offset |-> offset, entry |-> entry],
                      !.next_block_id = IF @ <= LastBlock THEN @ + 1 ELSE @,
                      !.next_seq_id = @ + 1,
                      !.next_node_id = Larger(@, node + 1),
                      !.r = "OK"]
      BY <1>2 DEF Write, b
    <2> QED
      BY <2>1 DEF Machine
  <1> QED
    BY <1>1, <1>2

\* A write leaves the node table alone and never lowers the counter.
LEMMA WriteIds ==
    ASSUME NEW f, Good(f), NEW op \in LogOp, NEW node \in Nat, NEW fill \in Nat,
           NEW offset \in Nat, NEW entry \in NodeRow \cup {NoEntry}
    PROVE  LET w == Write(f, op, node, fill, offset, entry)
           IN  /\ w.nodes = f.nodes /\ w.next_node_id \in Nat
               /\ w.next_node_id >= f.next_node_id
  <1> DEFINE w == Write(f, op, node, fill, offset, entry)
             b == CHOOSE c \in Grants(f, node) : TRUE
  <1>1. f \in Machine /\ f.next_node_id \in Nat
    BY DEF Good, Machine
  <1>2. w.nodes = f.nodes
    BY <1>1, WriteNodes
  <1>0. w = Write(f, op, node, fill, offset, entry)
    OBVIOUS
  <1> HIDE DEF w, b
  <1>3. w.next_node_id \in {f.next_node_id, Larger(f.next_node_id, node + 1)}
    <2>1. CASE Grants(f, node) = {}
      <3>1. w = [f EXCEPT !.r = "ENOSPC"]
        BY <1>0, <2>1 DEF Write, Return
      <3> QED
        BY <1>1, <3>1 DEF Machine
    <2>2. CASE Grants(f, node) # {}
      <3>1. w = [f EXCEPT !.blocks[b] = [op |-> op, seq |-> f.next_seq_id, node |-> node,
                                         fill |-> fill, offset |-> offset],
                          !.disk[b] = [op |-> op, seq |-> f.next_seq_id, node |-> node,
                                       fill |-> fill, offset |-> offset, entry |-> entry],
                          !.next_block_id = IF @ <= LastBlock THEN @ + 1 ELSE @,
                          !.next_seq_id = @ + 1,
                          !.next_node_id = Larger(@, node + 1),
                          !.r = "OK"]
        BY <1>0, <2>2 DEF Write, b
      <3> QED
        BY <1>1, <3>1 DEF Machine
    <2> QED
      BY <2>1, <2>2
  <1>4. w.next_node_id \in Nat /\ w.next_node_id >= f.next_node_id
    BY <1>1, <1>3 DEF Larger
  <1> QED
    BY <1>2, <1>4 DEF w

\* Replacing the node table and the next node id, then writing an entry.
LEMMA NodesForm ==
    ASSUME NEW m \in Machine, NEW nodes \in SUBSET NodeRow, NEW id \in Nat,
           id >= m.next_node_id, Keeps(m.nodes, nodes),
           NEW op \in {"NODE", "MOVE"}, NEW row \in NodeRow, HasKey(nodes, row)
    PROVE  EntryForm(m, WriteEntry([m EXCEPT !.nodes = nodes, !.next_node_id = id], op, row))
  <1> DEFINE f == [m EXCEPT !.nodes = nodes, !.next_node_id = id]
  <1>1. f \in Machine /\ f.blocks = m.blocks /\ f.nodes = nodes
    BY DEF Machine
  <1>2. Fades(m, f)
    BY NodesFades
  <1> HIDE DEF f
  <1>3. EntryForm(m, WriteEntry(f, op, row))
    BY <1>1, <1>2 DEF EntryForm
  <1> QED
    BY <1>3 DEF f

\* No search ends for lack of space.
LEMMA SearchVerdict ==
    ASSUME NEW m \in Machine, NEW path
    PROVE  /\ Resolve(m.nodes, path).r \in Verdict
           /\ \A type, now : InitNode(m, path, type, now).r \in Verdict
  <1>1. \A p : Resolve(m.nodes, p).r \in {"OK", "ENOENT", "EINVAL"}
    BY ResolveType DEF Machine
  <1>2. ASSUME NEW type, NEW now
        PROVE  InitNode(m, path, type, now).r \in Verdict
    <2> DEFINE there == Resolve(m.nodes, path)
               dir == Resolve(m.nodes, Dirname(path))
               row == [node |-> m.next_node_id, parent |-> dir.row.node,
                       type |-> type, name |-> Basename(path), mtime |-> now]
    <2>1. there.r \in Verdict /\ dir.r \in Verdict
      BY <1>1 DEF Verdict
    <2>2. InitNode(m, path, type, now) \in {Missing("EEXIST"), there, dir, Missing("EINVAL"), Found(row)}
      BY DEF InitNode
    <2> HIDE DEF there, dir, row
    <2> QED
      BY <2>1, <2>2 DEF Missing, Found, Verdict
  <1> QED
    BY <1>1, <1>2 DEF Verdict

-----------------------------------------------------------------------------
(* The calls. *)

\* Creating a file or a directory.
LEMMA CreateForm ==
    ASSUME NEW m \in Machine, NEW path \in Paths,
           NEW type \in {"FILE", "DIR", "LINK"}, NEW now \in Nat
    PROVE  NameForm(m, Create(m, path, type, now))
  <1> DEFINE new == InitNode(m, path, type, now)
             nodes == InsertOrReplace(m.nodes, new.row)
             id == m.next_node_id + 1
             f == [m EXCEPT !.nodes = nodes, !.next_node_id = id]
  <1>1. m.nodes \in SUBSET NodeRow /\ m.next_node_id \in Nat
    BY DEF Machine
  <1>2. /\ new.r \in Verdict
        /\ new.r = "OK" => new.row \in NodeRow
    BY InitNodeType, SearchVerdict
  <1>3. Create(m, path, type, now) =
          IF new.r # "OK" THEN Return(m, new.r) ELSE WriteEntry(f, "NODE", new.row)
    BY DEF Create
  <1> HIDE DEF new
  <1>4. CASE new.r = "OK"
    <2>1. nodes \in SUBSET NodeRow /\ id \in Nat /\ id >= m.next_node_id
      BY <1>1, <1>2, <1>4, InsertType
    <2>2. Keeps(m.nodes, nodes) /\ HasKey(nodes, new.row)
      BY InsertKeeps
    <2> HIDE DEF nodes, id
    <2>3. EntryForm(m, WriteEntry(f, "NODE", new.row))
      BY <1>2, <1>4, <2>1, <2>2, NodesForm
    <2> HIDE DEF f
    <2> QED
      BY <1>3, <1>4, <2>3 DEF NameForm
  <1>5. CASE new.r # "OK"
    BY <1>2, <1>3, <1>5 DEF NameForm, ReturnForm
  <1> QED
    BY <1>4, <1>5

\* Setting a time.
LEMMA SetTimeForm ==
    ASSUME NEW m \in Machine, NEW path \in Paths, NEW mtime \in Nat
    PROVE  NameForm(m, SetTimeOf(m, path, mtime))
  <1> DEFINE at == Resolve(m.nodes, path)
             row == [at.row EXCEPT !.mtime = mtime]
             nodes == InsertOrReplace(m.nodes, row)
             f == [m EXCEPT !.nodes = nodes]
  <1>1. m.nodes \in SUBSET NodeRow /\ m.next_node_id \in Nat
    BY DEF Machine
  <1>2. at.r \in Verdict /\ (at.r = "OK" => at.row \in NodeRow)
    BY <1>1, PathType, SearchVerdict
  <1>3. at.r = "OK" => row \in NodeRow
    BY <1>2 DEF NodeRow
  <1>4. \/ SetTimeOf(m, path, mtime) = Return(m, at.r)
        \/ SetTimeOf(m, path, mtime) = Return(m, "OK")
        \/ at.r = "OK" /\ SetTimeOf(m, path, mtime) = WriteEntry(f, "NODE", row)
    BY DEF SetTimeOf
  <1> HIDE DEF at, row
  <1>5. CASE at.r = "OK" /\ SetTimeOf(m, path, mtime) = WriteEntry(f, "NODE", row)
    <2>1. nodes \in SUBSET NodeRow
      BY <1>1, <1>3, <1>5, InsertType
    <2>2. Keeps(m.nodes, nodes) /\ HasKey(nodes, row)
      BY InsertKeeps
    <2> HIDE DEF nodes
    <2>3. f = [m EXCEPT !.nodes = nodes, !.next_node_id = m.next_node_id]
      BY DEF Machine
    <2> HIDE DEF f
    <2>4. m.next_node_id >= m.next_node_id
      BY <1>1
    <2>5. EntryForm(m, WriteEntry([m EXCEPT !.nodes = nodes, !.next_node_id = m.next_node_id],
                                  "NODE", row))
      BY <1>1, <1>3, <1>5, <2>1, <2>2, <2>4, NodesForm
    <2> QED
      BY <1>5, <2>3, <2>5 DEF NameForm
  <1>6. CASE SetTimeOf(m, path, mtime) \in {Return(m, at.r), Return(m, "OK")}
    BY <1>2, <1>6 DEF NameForm, ReturnForm, Verdict
  <1> QED
    BY <1>4, <1>5, <1>6

\* Deleting a node.
LEMMA DeleteCallForm ==
    ASSUME NEW m \in Machine, NEW path \in Paths
    PROVE  NameForm(m, Delete(m, path))
  <1> DEFINE at == Resolve(m.nodes, path)
  <1>1. m.nodes \in SUBSET NodeRow
    BY DEF Machine
  <1>2. /\ at.r \in Verdict
        /\ at.r = "OK" => at.row \in NodeRow
    BY <1>1, PathType, SearchVerdict
  <1>3. \/ Delete(m, path) = Return(m, at.r)
        \/ Delete(m, path) = Return(m, "EINVAL")
        \/ at.r = "OK" /\ Delete(m, path) = WriteEntry(DropNode(m, at.row.node), "DELETE", at.row)
    BY DEF Delete
  <1> HIDE DEF at
  <1> QED
    BY <1>2, <1>3 DEF NameForm, ReturnForm, DeleteForm, Verdict

\* Moving a row: refused, or the table alone changes.
LEMMA MoveRowForm ==
    ASSUME NEW m \in Machine, NEW row \in NodeRow
    PROVE  /\ MoveRow(m, row).r # "OK" => ReturnForm(m, MoveRow(m, row))
           /\ MoveRow(m, row).r = "OK" => EntryForm(m, WriteEntry(MoveRow(m, row), "MOVE", row))
  <1> DEFINE f == MoveRow(m, row)
             nodes == InsertOrReplace(m.nodes, row)
  <1>1. CASE Lookup(m.nodes, row.parent, row.name) = {}
    <2>1. f = [m EXCEPT !.nodes = nodes, !.r = "OK"] /\ nodes \in SUBSET NodeRow
      BY <1>1, InsertType DEF MoveRow, Machine
    <2>2. Fades(m, f)
      BY MoveRowFades
    <2>3. Keeps(m.nodes, nodes) /\ HasKey(nodes, row)
      BY InsertKeeps
    <2> HIDE DEF f, nodes
    <2>4. f \in Machine /\ f.blocks = m.blocks /\ f.nodes = nodes /\ f.r = "OK"
      BY <2>1 DEF Machine
    <2>5. EntryForm(m, WriteEntry(f, "MOVE", row))
      BY <2>2, <2>3, <2>4 DEF EntryForm
    <2> QED
      BY <2>4, <2>5 DEF f
  <1>2. CASE Lookup(m.nodes, row.parent, row.name) # {}
    <2>1. PICK e \in {"EEXIST", "EINVAL"} : f = Return(m, e)
      BY <1>2 DEF MoveRow
    <2> HIDE DEF f
    <2>2. f.r = e
      BY <2>1 DEF Return, Machine
    <2> QED
      BY <2>1, <2>2 DEF ReturnForm, Verdict, f
  <1> QED
    BY <1>1, <1>2

-----------------------------------------------------------------------------
(* The steps of a mounted process. *)

\* A job is of one of four kinds.
LEMMA JobType ==
    ASSUME job \in Job
    PROVE  /\ job.kind \in {"link", "move"} => job.row \in NodeRow
           /\ job.kind = "data" => /\ job.node \in Nat /\ job.offset \in Nat
                                   /\ job.size \in Nat \ {0}
                                   /\ job = [kind |-> "data", node |-> job.node,
                                             offset |-> job.offset, size |-> job.size]
  BY DEF Job, NoJob

\* The first part of a link, and what it leaves to write.
LEMMA SetLinkForm ==
    ASSUME Typed, NEW path \in Paths, NEW target \in Names, SetLink(path, target)
    PROVE  (ReturnForm(fs, fs') \/ EntryForm(fs, fs')) /\ Linked' /\ job' \in Job
  <1>1. job = NoJob /\ NoJob \in Job
    BY DEF Begin, SetLink, Job
  <1>2. fs \in Machine /\ fs.nodes \in SUBSET NodeRow /\ fs.next_node_id \in Nat
    BY DEF Typed, Machine
  <1>3. PICK now \in Times :
          LET new     == InitNode(fs, path, "LINK", now)
              payload == [node |-> new.row.node, parent |-> new.row.node,
                          type |-> "LINK_PAYLOAD", name |-> target, mtime |-> 0]
          IN  IF new.r # "OK" THEN fs' = Return(fs, new.r) /\ UNCHANGED job
              ELSE /\ fs' = WriteEntry([fs EXCEPT
                              !.nodes = InsertOrReplace(InsertOrReplace(@, new.row), payload),
                              !.next_node_id = @ + 1], "NODE", new.row)
                   /\ job' = IF fs'.r = "OK" THEN [kind |-> "link", row |-> payload]
                             ELSE NoJob
    BY DEF SetLink
  <1> DEFINE new == InitNode(fs, path, "LINK", now)
             payload == [node |-> new.row.node, parent |-> new.row.node,
                         type |-> "LINK_PAYLOAD", name |-> target, mtime |-> 0]
             one == InsertOrReplace(fs.nodes, new.row)
             nodes == InsertOrReplace(one, payload)
             id == fs.next_node_id + 1
             f == [fs EXCEPT !.nodes = nodes, !.next_node_id = id]
  <1>4. /\ new.r \in Verdict
        /\ new.r = "OK" => new.row \in NodeRow /\ new.row.node \in Nat
    BY <1>2, InitNodeType, SearchVerdict, TimesAssumption DEF NodeRow
  <1>5. \/ new.r # "OK" /\ fs' = Return(fs, new.r) /\ job' = job
        \/ /\ new.r = "OK" /\ fs' = WriteEntry(f, "NODE", new.row)
           /\ job' \in {NoJob, [kind |-> "link", row |-> payload]}
    BY <1>3
  <1> HIDE DEF new
  <1>6. CASE new.r # "OK"
    BY <1>1, <1>4, <1>5, <1>6 DEF ReturnForm, Linked, NoJob
  <1>7. CASE new.r = "OK"
    <2>1. payload \in NodeRow
      BY <1>4, <1>7 DEF NodeRow, NodeType
    <2> HIDE DEF payload
    <2>2. one \in SUBSET NodeRow /\ nodes \in SUBSET NodeRow
      BY <1>2, <1>4, <1>7, <2>1, InsertType
    <2>3. /\ Keeps(fs.nodes, one) /\ HasKey(one, new.row)
          /\ Keeps(one, nodes) /\ HasKey(nodes, payload)
      BY InsertKeeps
    <2>4. id \in Nat /\ id >= fs.next_node_id
      BY <1>2
    <2> HIDE DEF one, nodes, id
    <2>5. Keeps(fs.nodes, nodes) /\ HasKey(nodes, new.row)
      BY <2>3 DEF Keeps, HasKey
    <2>6. EntryForm(fs, WriteEntry(f, "NODE", new.row))
      BY <1>2, <1>4, <1>7, <2>2, <2>4, <2>5, NodesForm
    <2>7. f.nodes = nodes
      BY <1>2 DEF Machine
    <2>8. f \in Machine
      BY <1>2, <2>2, <2>4, NodesFades DEF Fades, f
    <2> HIDE DEF f
    <2>9. WriteEntry(f, "NODE", new.row).nodes = nodes
      BY <2>7, <2>8, WriteNodes DEF WriteEntry
    <2>10. EntryForm(fs, fs')
      BY <1>5, <1>7, <2>6
    <2>11. job'.kind = "link" => job'.row = payload /\ fs'.nodes = nodes
      BY <1>5, <1>7, <2>9 DEF NoJob
    <2>12. job' \in Job
      BY <1>5, <1>7, <2>1 DEF Job
    <2> QED
      BY <2>3, <2>10, <2>11, <2>12 DEF Linked
  <1> QED
    BY <1>6, <1>7

\* A rename.
LEMMA MoveNodeForm ==
    ASSUME Typed, NEW from \in Paths, NEW to \in Paths, MoveNode(from, to)
    PROVE  NameForm(fs, fs') /\ Linked' /\ job' \in Job
  <1> DEFINE src == Resolve(fs.nodes, from)
             dir == Resolve(fs.nodes, Dirname(to))
             row == [src.row EXCEPT !.parent = dir.row.node, !.name = Basename(to)]
             moved == MoveRow(fs, row)
  <1>1. job = NoJob
    BY DEF Begin, MoveNode
  <1>2. fs \in Machine /\ fs.nodes \in SUBSET NodeRow
    BY DEF Typed, Machine
  <1>3. /\ src.r \in Verdict /\ dir.r \in Verdict
        /\ src.r = "OK" => src.row \in NodeRow
        /\ dir.r = "OK" => dir.row.node \in Nat
        /\ Basename(to) \in Names
    BY <1>2, PathType, SearchVerdict
  <1>4. src.r = "OK" /\ dir.r = "OK" => row \in NodeRow
    BY <1>3 DEF NodeRow
  <1>5. \/ fs' = Return(fs, src.r) /\ job' = job
        \/ fs' = Return(fs, dir.r) /\ job' = job
        \/ fs' = Return(fs, "EINVAL") /\ job' = job
        \/ /\ src.r = "OK" /\ dir.r = "OK" /\ job' = job
           /\ moved.r # "OK" /\ fs' = moved
        \/ /\ src.r = "OK" /\ dir.r = "OK" /\ job' = job
           /\ moved.r = "OK" /\ fs' = WriteEntry(moved, "MOVE", row)
        \/ /\ src.r = "OK" /\ dir.r = "OK" /\ fs' = Delete(fs, to)
           /\ job' \in {NoJob, [kind |-> "move", row |-> row]}
    BY DEF MoveNode
  <1> HIDE DEF src, dir, row
  <1>6. src.r = "OK" /\ dir.r = "OK" =>
          /\ moved.r # "OK" => ReturnForm(fs, moved)
          /\ moved.r = "OK" => EntryForm(fs, WriteEntry(moved, "MOVE", row))
    BY <1>2, <1>4, MoveRowForm
  <1> HIDE DEF moved
  <1>7. NameForm(fs, fs')
    <2>1. CASE fs' = Return(fs, src.r) \/ fs' = Return(fs, dir.r) \/ fs' = Return(fs, "EINVAL")
      BY <2>1, <1>3 DEF NameForm, ReturnForm, Verdict
    <2>2. CASE src.r = "OK" /\ dir.r = "OK" /\ moved.r # "OK" /\ fs' = moved
      BY <2>2, <1>6 DEF NameForm
    <2>3. CASE /\ src.r = "OK" /\ dir.r = "OK" /\ moved.r = "OK"
               /\ fs' = WriteEntry(moved, "MOVE", row)
      BY <2>3, <1>6 DEF NameForm
    <2>4. CASE fs' = Delete(fs, to)
      BY <2>4, <1>2, DeleteCallForm
    <2> QED
      BY <1>5, <2>1, <2>2, <2>3, <2>4
  <1>8. job'.kind # "link" /\ job' \in Job
    <2>1. job' = NoJob \/ (row \in NodeRow /\ job' = [kind |-> "move", row |-> row])
      BY <1>1, <1>4, <1>5
    <2> QED
      BY <2>1 DEF NoJob, Job
  <1> QED
    BY <1>7, <1>8 DEF Linked

\* A call that writes at most one record and is about a name.
LEMMA NameCallForm ==
    ASSUME Typed, NEW path \in Paths,
           SetFile(path) \/ SetDir(path) \/ SetTime(path) \/ DelNode(path)
    PROVE  NameForm(fs, fs') /\ Linked' /\ job' \in Job
  <1>0. fs \in Machine /\ fs.nodes \in SUBSET NodeRow
    BY DEF Typed, Machine
  <1>1. job = NoJob /\ job' = NoJob /\ NoJob \in Job
    BY DEF SetFile, SetDir, SetTime, DelNode, Begin, Job
  <1>2. CASE SetFile(path) \/ SetDir(path)
    <2>1. \E now \in Times, type \in {"FILE", "DIR", "LINK"} : fs' = Create(fs, path, type, now)
      BY <1>2 DEF SetFile, SetDir
    <2>2. NameForm(fs, fs')
      BY <1>0, <2>1, CreateForm, TimesAssumption
    <2> QED
      BY <1>1, <2>2 DEF Linked, NoJob
  <1>3. CASE SetTime(path)
    <2>1. \E mtime \in Times : fs' = SetTimeOf(fs, path, mtime)
      BY <1>3 DEF SetTime
    <2>2. NameForm(fs, fs')
      BY <1>0, <2>1, SetTimeForm, TimesAssumption
    <2> QED
      BY <1>1, <2>2 DEF Linked, NoJob
  <1>4. CASE DelNode(path)
    <2>1. NameForm(fs, fs')
      BY <1>0, <1>4, DeleteCallForm DEF DelNode
    <2> QED
      BY <1>1, <2>1 DEF Linked, NoJob
  <1> QED
    BY <1>2, <1>3, <1>4

\* A record that a call writes after its first.
LEMMA FinishForm ==
    ASSUME Typed, Finish
    PROVE  /\ Form(fs, fs') /\ Linked' /\ job' \in Job
           /\ FinishLink \/ FinishMove => NameForm(fs, fs')
  <1>1. job \in Job /\ NoJob \in Job
    BY DEF Typed, Job
  <1>2. fs \in Machine /\ fs.nodes \in SUBSET NodeRow /\ fs.next_node_id \in Nat
    BY DEF Typed, Machine
  <1>3. CASE FinishLink
    <2>1. /\ job.kind = "link" /\ job' = NoJob /\ job.row \in NodeRow
          /\ fs' = WriteEntry(fs, "NODE", job.row)
      BY <1>1, <1>3, JobType DEF FinishLink
    <2>2. HasKey(fs.nodes, job.row)
      BY <2>1 DEF Typed, Linked
    <2>3. Fades(fs, fs)
      <3>1. \A b \in Block : fs.blocks[b].fill \in Nat
        BY <1>2 DEF Machine, BlockRow
      <3> QED
        BY <1>2, <3>1 DEF Fades
    <2>4. Keeps(fs.nodes, fs.nodes)
      BY DEF Keeps, HasKey
    <2>5. EntryForm(fs, fs')
      BY <1>2, <2>1, <2>2, <2>3, <2>4 DEF EntryForm
    <2> QED
      BY <1>1, <1>3, <2>1, <2>5 DEF Form, NameForm, Linked, NoJob
  <1>4. CASE FinishMove
    <2>1. job.row \in NodeRow /\ job' = NoJob
      BY <1>1, <1>4, JobType DEF FinishMove
    <2>2. \/ MoveRow(fs, job.row).r = "OK" /\ fs' = WriteEntry(MoveRow(fs, job.row), "MOVE", job.row)
          \/ MoveRow(fs, job.row).r # "OK" /\ fs' = MoveRow(fs, job.row)
      BY <1>4 DEF FinishMove
    <2>3. EntryForm(fs, fs') \/ ReturnForm(fs, fs')
      BY <1>2, <2>1, <2>2, MoveRowForm
    <2> QED
      BY <1>1, <1>4, <2>1, <2>3 DEF Form, NameForm, Linked, NoJob
  <1>5. CASE WriteChunk
    <2> DEFINE amount == IF job.size > Payload THEN Payload ELSE job.size
               rest == [job EXCEPT !.offset = @ + amount, !.size = @ - amount]
    <2>1. /\ job.kind = "data" /\ fs' = Write(fs, "DATA", job.node, amount, job.offset, NoEntry)
          /\ job' = NoJob \/ (job' = rest /\ job.size > amount)
      BY <1>5 DEF WriteChunk
    <2>2. /\ job.node \in Nat /\ job.offset \in Nat /\ job.size \in Nat /\ amount \in Nat
          /\ job \in [kind: {"data"}, node: Nat, offset: Nat, size: Nat \ {0}]
      BY <1>1, <2>1, JobType, PayloadAssumption DEF Job, NoJob
    <2> HIDE DEF amount
    <2>3. DataForm(fs, fs')
      BY <2>1, <2>2 DEF DataForm
    <2>4. job.size > amount =>
            rest \in [kind: {"data"}, node: Nat, offset: Nat, size: Nat \ {0}]
      <3>1. job.offset + amount \in Nat /\ (job.size > amount => job.size - amount \in Nat \ {0})
        BY <2>2
      <3> QED
        BY <2>2, <3>1
    <2> HIDE DEF rest
    <2>5. job'.kind # "link" /\ job' \in Job
      BY <1>1, <2>1, <2>4 DEF NoJob, Job
    <2>6. ~ FinishLink /\ ~ FinishMove
      BY <2>1 DEF FinishLink, FinishMove
    <2> QED
      BY <2>3, <2>5, <2>6 DEF Form, Linked
  <1> QED
    BY <1>3, <1>4, <1>5 DEF Finish

\* The first part of any call has one of the forms.
LEMMA CallForm ==
    ASSUME Typed, Call
    PROVE  Form(fs, fs') /\ Linked' /\ job' \in Job
  <1>1. fs \in Machine /\ fs.nodes \in SUBSET NodeRow
    BY DEF Typed, Machine
  <1>2. ASSUME NEW path \in Paths,
               SetFile(path) \/ SetDir(path) \/ SetTime(path) \/ DelNode(path)
        PROVE  Form(fs, fs') /\ Linked' /\ job' \in Job
    BY <1>2, NameCallForm DEF Form
  <1>3. ASSUME NEW path \in Paths, NEW target \in Names, SetLink(path, target)
        PROVE  Form(fs, fs') /\ Linked' /\ job' \in Job
    BY <1>3, SetLinkForm DEF Form, NameForm
  <1>4. ASSUME NEW from \in Paths, NEW to \in Paths, MoveNode(from, to)
        PROVE  Form(fs, fs') /\ Linked' /\ job' \in Job
    BY <1>4, MoveNodeForm DEF Form
  <1>5. ASSUME NEW node \in FileIds, NEW size \in Sizes, DelData(node, size)
        PROVE  Form(fs, fs') /\ Linked' /\ job' \in Job
    <2>1. job = NoJob /\ job' = NoJob /\ fs' = Truncate(fs, node, size) /\ NoJob \in Job
      BY <1>5 DEF DelData, Begin, Job
    <2>2. node \in Nat
      BY <1>1 DEF FileIds, NodeRow
    <2>3. Form(fs, fs')
      BY <2>1, <2>2 DEF Truncate, Form, NameForm, TruncateForm, ReturnForm, Verdict
    <2> QED
      BY <2>1, <2>3 DEF Linked, NoJob
  <1>6. ASSUME NEW node \in FileIds, NEW x \in Extents, SetData(node, x[1], x[2])
        PROVE  Form(fs, fs') /\ Linked' /\ job' \in Job
    <2>1. fs' = fs /\ job' = [kind |-> "data", node |-> node, offset |-> x[1], size |-> x[2]]
      BY <1>6 DEF SetData
    <2>2. node \in Nat /\ x[1] \in Nat /\ x[2] \in Nat \ {0}
      BY <1>1, ExtentsAssumption DEF FileIds, NodeRow
    <2>3. job'.kind = "data" /\ job' \in Job
      BY <2>1, <2>2 DEF Job
    <2> QED
      BY <2>1, <2>3 DEF Form, NameForm, ReturnForm, Linked
  <1> QED
    BY <1>2, <1>3, <1>4, <1>5, <1>6 DEF Call

\* Every step of a mounted process that stays mounted has one of the forms.
LEMMA StepForm ==
    ASSUME Typed, [Next]_vars, mode = "mounted", mode' = "mounted"
    PROVE  Form(fs, fs')
  <1>1. CASE Call \/ Finish
    BY <1>1, CallForm, FinishForm
  <1>2. CASE UNCHANGED vars
    BY <1>2 DEF Form, NameForm, ReturnForm, vars
  <1>3. ~ (Stop \/ Mount \/ Load)
    BY DEF Stop, Mount, Load, Mounted, LoadRecord
  <1> QED
    BY <1>1, <1>2, <1>3 DEF Next

\* Every form keeps a machine sound, whether its record is written or not.
LEMMA FormSound ==
    ASSUME NEW m, Sound(m), NEW n, Form(m, n)
    PROVE  Sound(n)
  <1>1. CASE ReturnForm(m, n)
    BY <1>1, ReturnSound DEF ReturnForm, Verdict, Errno
  <1>2. CASE EntryForm(m, n)
    <2>1. PICK f \in Machine, op \in {"NODE", "MOVE"}, row \in NodeRow :
            Fades(m, f) /\ n = WriteEntry(f, op, row)
      BY <1>2 DEF EntryForm
    <2> QED
      BY <2>1, FadesSound, WriteEntrySound DEF LogOp
  <1>3. CASE DeleteForm(m, n)
    <2>1. PICK row \in NodeRow : n = WriteEntry(DropNode(m, row.node), "DELETE", row)
      BY <1>3 DEF DeleteForm
    <2>2. row.node \in Nat
      BY DEF NodeRow
    <2>3. Sound(DropNode(m, row.node))
      BY <2>2, DropNodeSound
    <2> QED
      BY <2>1, <2>3, WriteEntrySound DEF LogOp
  <1>4. CASE TruncateForm(m, n)
    <2>1. PICK node \in Nat, size \in Sizes :
            n = Write(DropData(m, node, size), "TRUNCATE", node, 0, size, NoEntry)
      BY <1>4 DEF TruncateForm
    <2>2. size \in Nat
      BY SizesAssumption
    <2>3. Sound(DropData(m, node, size))
      BY <2>2, DropDataSound
    <2> QED
      BY <2>1, <2>2, <2>3, WriteSound DEF LogOp, EntryOp
  <1>5. CASE DataForm(m, n)
    BY <1>5, WriteSound DEF DataForm, LogOp, EntryOp
  <1> QED
    BY <1>1, <1>2, <1>3, <1>4, <1>5 DEF Form, NameForm

-----------------------------------------------------------------------------
(* The mount. *)

\* A machine in the middle of a mount, with the blocks `left` to replay: the
\* rows are those of the records replayed, all of them older than the rest.
Replaying(m, left) ==
    /\ Good(m)
    /\ DiskSound(m.disk)
    /\ MirrorsAll(m)
    /\ left \subseteq Valid(m.disk)
    /\ \A b \in Block : m.blocks[b].op = "NONE" <=> b \notin Valid(m.disk) \ left
    /\ \A b \in left : \A c \in Valid(m.disk) \ left : m.disk[c].seq < m.disk[b].seq
    /\ \A b \in Valid(m.disk) \ left : b < m.next_block_id
    /\ m.next_block_id = 1 \/ m.next_block_id - 1 \in Valid(m.disk) \ left

\* A mount starts with no row and every record that it scanned to replay.
LEMMA FreshReplaying ==
    ASSUME NEW disk, DiskSound(disk)
    PROVE  /\ Good(Fresh(disk)) /\ MirrorsAll(Fresh(disk))
           /\ Replaying(Fresh(disk), Scanned(disk))
  <1> DEFINE m == Fresh(disk)
  <1>1. disk \in [Block -> DiskRecord]
    BY DEF DiskSound
  <1>2. NoRow \in BlockRow /\ NoRow.op = "NONE"
    BY DEF NoRow, BlockRow
  <1>3. /\ m.blocks = [b \in Block |-> NoRow] /\ m.disk = disk /\ m.nodes = {}
        /\ m.next_block_id = 1 /\ m.next_seq_id = 1 /\ m.next_node_id = 1 /\ m.r = "OK"
    BY DEF Fresh
  <1>4. m \in Machine
    BY <1>1, <1>2 DEF Machine, Fresh
  <1> HIDE DEF m
  <1>5. Good(m)
    BY <1>3, <1>4, LastBlockAssumption DEF Good
  <1>6. MirrorsAll(m)
    BY <1>2, <1>3 DEF MirrorsAll
  <1>7. Scanned(disk) = Valid(disk)
    <2>1. \A b \in Block : b \in 1 .. b /\ 1 .. b \subseteq Block
      BY LastBlockAssumption DEF Block
    <2>2. Scanned(disk) \subseteq Valid(disk)
      BY <2>1 DEF Scanned, Valid
    <2>3. Valid(disk) \subseteq Scanned(disk)
      BY DEF Scanned, Valid, DiskSound
    <2> QED
      BY <2>2, <2>3
  <1> QED
    BY <1>2, <1>3, <1>5, <1>6, <1>7, LastBlockAssumption DEF Replaying, m

\* The effect of a record on the tables writes no record.
LEMMA EffectFades ==
    ASSUME NEW m \in Machine, NEW rec \in DiskRecord, rec.op \in LogOp,
           rec.op \in EntryOp => rec.entry \in NodeRow
    PROVE  Fades(m, Effect(m, rec)) /\ Effect(m, rec).r \in Errno \cup {"OK"}
  <1>1. rec.node \in Nat /\ rec.offset \in Nat
    BY DEF DiskRecord
  <1>2. Fades(m, Effect(m, rec))
    <2>1. CASE rec.op = "DATA"
      BY <2>1, ReturnFades DEF Effect
    <2>2. CASE rec.op = "NODE"
      <3> DEFINE nodes == InsertOrReplace(m.nodes, rec.entry)
                 n == [m EXCEPT !.nodes = nodes, !.r = "OK"]
      <3>1. nodes \in SUBSET NodeRow
        BY <2>2, InsertType DEF Machine, EntryOp
      <3>2. Effect(m, rec) = n
        BY <2>2 DEF Effect
      <3> HIDE DEF nodes
      <3>3. /\ n \in Machine /\ n.disk = m.disk /\ n.blocks = m.blocks
            /\ n.next_block_id = m.next_block_id /\ n.next_seq_id = m.next_seq_id
            /\ n.next_node_id = m.next_node_id
        BY <3>1 DEF Machine
      <3> HIDE DEF n
      <3>4. m.next_node_id \in Nat /\ \A b \in Block : m.blocks[b].fill \in Nat
        BY DEF Machine, BlockRow
      <3> QED
        BY <3>2, <3>3, <3>4 DEF Fades
    <2>3. CASE rec.op = "MOVE"
      BY <2>3, MoveRowFades DEF Effect, EntryOp
    <2>4. CASE rec.op = "DELETE"
      BY <2>4, <1>1, DropNodeFades DEF Effect
    <2>5. CASE rec.op = "TRUNCATE"
      BY <2>5, <1>1, DropDataFades DEF Effect
    <2> QED
      BY <2>1, <2>2, <2>3, <2>4, <2>5 DEF LogOp
  <1> QED
    BY <1>2 DEF Fades, Machine

\* Replaying the oldest record left, when it succeeds, leaves a machine in the
\* middle of a mount, with one record less to replay.
LEMMA ReplaySound ==
    ASSUME NEW m, NEW left, Replaying(m, left), NEW b \in left,
           \A c \in left : m.disk[b].seq <= m.disk[c].seq
    PROVE  /\ Good(Replay(m, b)) /\ MirrorsAll(Replay(m, b))
           /\ Replay(m, b).disk = m.disk
           /\ Replay(m, b).r = "OK" => Replaying(Replay(m, b), left \ {b})
  <1> DEFINE rec == m.disk[b]
             done == Effect(m, rec)
             row == [op |-> rec.op, seq |-> rec.seq, node |-> rec.node,
                     fill |-> rec.fill, offset |-> rec.offset]
             n == Replay(m, b)
  <1>1. /\ Good(m) /\ DiskSound(m.disk) /\ MirrorsAll(m) /\ m \in Machine
        /\ m.disk \in [Block -> DiskRecord]
    BY DEF Replaying, Good, DiskSound
  <1>2. b \in Block /\ b \in Valid(m.disk) /\ rec \in DiskRecord /\ rec.op \in LogOp
    BY <1>1 DEF Replaying, Valid, DiskRecord
  <1>3. Fades(m, done) /\ done.r \in Errno \cup {"OK"}
    BY <1>1, <1>2, EffectFades DEF DiskSound
  <1>4. Good(done) /\ MirrorsAll(done) /\ done.disk = m.disk /\ done \in Machine
    BY <1>1, <1>3, FadesMirrors DEF Fades
  <1> HIDE DEF done
  <1>5. CASE done.r # "OK"
    BY <1>4, <1>5 DEF Replay, done
  <1>6. CASE done.r = "OK"
    <2>1. n = [done EXCEPT !.blocks[b] = row,
                           !.next_node_id = Larger(@, rec.node + 1),
                           !.next_block_id = Larger(@, b + 1),
                           !.next_seq_id = rec.seq + 1]
      BY <1>6 DEF Replay, done
    <2>2. row \in BlockRow /\ rec.node \in Nat /\ rec.seq \in Nat /\ rec.fill \in Nat
      BY <1>2 DEF BlockRow, DiskRecord
    <2>3. /\ done.blocks \in [Block -> BlockRow] /\ done.next_node_id \in Nat
          /\ done.next_block_id \in 1 .. LastBlock + 1 /\ done.next_seq_id \in Nat
          /\ b \in 1 .. LastBlock
      BY <1>2, <1>4 DEF Good, Machine, Block
    <2> HIDE DEF row, rec
    <2>4. /\ n.blocks = [done.blocks EXCEPT ![b] = row] /\ n.disk = m.disk
          /\ n.next_node_id = Larger(done.next_node_id, rec.node + 1)
          /\ n.next_block_id = Larger(done.next_block_id, b + 1)
          /\ n.next_seq_id = rec.seq + 1 /\ n.nodes = done.nodes /\ n.r = done.r
          /\ n = [nodes |-> n.nodes, blocks |-> n.blocks, disk |-> n.disk,
                  next_node_id |-> n.next_node_id, next_block_id |-> n.next_block_id,
                  next_seq_id |-> n.next_seq_id, r |-> n.r]
      BY <2>1, <1>4 DEF Machine
    <2> HIDE DEF n
    <2>5. Good(n)
      <3>1. n.next_block_id \in 1 .. LastBlock + 1
        BY <2>3, <2>4, LastBlockAssumption DEF Larger
      <3>2. n.next_block_id \in Nat /\ n.next_node_id \in Nat /\ n.next_seq_id \in Nat
        BY <3>1, <2>2, <2>3, <2>4, LastBlockAssumption DEF Larger
      <3>3. n.blocks \in [Block -> BlockRow]
        BY <2>2, <2>3, <2>4
      <3>4. /\ n.nodes \in SUBSET NodeRow /\ n.r \in Errno \cup {"OK"}
            /\ n.disk \in [Block -> DiskRecord]
        BY <1>1, <1>4, <2>4 DEF Machine
      <3> QED
        BY <2>4, <3>1, <3>2, <3>3, <3>4 DEF Good, Machine
    <2>6. /\ n.blocks[b] = row
          /\ \A c \in Block : c # b => n.blocks[c] = done.blocks[c]
      BY <1>2, <2>3, <2>4
    <2>7. \A c \in Block : done.blocks[c].op # "NONE" => c \in Valid(m.disk) \ left
      BY <1>3 DEF Fades, Replaying
    <2>8. \A c \in Valid(m.disk) \ left : m.disk[c].seq < rec.seq
      BY DEF Replaying, rec
    <2>9. \A c \in left : c # b => rec.seq < m.disk[c].seq
      <3> SUFFICES ASSUME NEW c \in left, c # b
                   PROVE  rec.seq < m.disk[c].seq
        OBVIOUS
      <3>1. c \in Valid(m.disk) /\ c \in Block
        BY DEF Replaying, Valid
      <3>2. m.disk[c].seq \in Nat /\ rec.seq <= m.disk[c].seq
        BY <1>1, <3>1 DEF DiskRecord, rec
      <3>3. m.disk[c].seq # rec.seq
        BY <1>1, <1>2, <3>1 DEF DiskSound, rec
      <3> QED
        BY <3>2, <3>3, <2>2
    <2>10. MirrorsAll(n)
      <3> SUFFICES ASSUME NEW c \in Block, n.blocks[c].op # "NONE"
                   PROVE  Mirrors(n, c)
        BY DEF MirrorsAll
      <3>1. CASE c = b
        <4>1. n.disk[c] = rec
          BY <3>1, <2>4 DEF rec
        <4> QED
          BY <3>1, <4>1, <1>2, <2>2, <2>3, <2>4, <2>6 DEF Mirrors, Larger, row, rec
      <3>2. CASE c # b
        <4>1. n.blocks[c] = done.blocks[c] /\ done.blocks[c].op # "NONE"
          BY <3>2, <2>6
        <4>2. Mirrors(done, c)
          BY <4>1, <1>4 DEF MirrorsAll
        <4>3. /\ done.blocks[c].seq \in Nat /\ done.blocks[c].node \in Nat
              /\ m.disk[c].seq < rec.seq
          BY <4>1, <2>3, <2>7, <2>8 DEF BlockRow
        <4> QED
          BY <4>1, <4>2, <4>3, <1>4, <2>2, <2>3, <2>4 DEF Mirrors, Larger
      <3> QED
        BY <3>1, <3>2
    <2>11. Valid(m.disk) \ (left \ {b}) = (Valid(m.disk) \ left) \cup {b}
      BY <1>2 DEF Replaying
    <2>12. \A c \in Block : n.blocks[c].op = "NONE" <=> c \notin Valid(m.disk) \ (left \ {b})
      <3>1. row.op # "NONE"
        BY <1>2 DEF row, LogOp
      <3>2. \A c \in Block : done.blocks[c].op = "NONE" <=> c \notin Valid(m.disk) \ left
        BY <1>3 DEF Fades, Replaying
      <3> QED
        BY <3>1, <3>2, <2>6, <2>11
    <2>13. \A c \in left \ {b} : \A d \in Valid(m.disk) \ (left \ {b}) :
             m.disk[d].seq < m.disk[c].seq
      BY <2>9, <2>11 DEF Replaying, rec
    <2>14. m.next_block_id = done.next_block_id
      BY <1>3 DEF Fades
    <2>15. \A c \in Valid(m.disk) \ (left \ {b}) : c < n.next_block_id
      <3>1. \A c \in Valid(m.disk) \ left : c < m.next_block_id
        BY DEF Replaying
      <3>2. \A c \in Valid(m.disk) : c \in Nat
        BY LastBlockAssumption DEF Valid, Block
      <3> QED
        BY <3>1, <3>2, <2>3, <2>4, <2>11, <2>14, LastBlockAssumption DEF Larger
    <2>16. n.next_block_id = 1 \/ n.next_block_id - 1 \in Valid(m.disk) \ (left \ {b})
      <3>1. m.next_block_id = 1 \/ m.next_block_id - 1 \in Valid(m.disk) \ left
        BY DEF Replaying
      <3> QED
        BY <3>1, <2>3, <2>4, <2>11, <2>14, LastBlockAssumption DEF Larger
    <2>17. left \ {b} \subseteq Valid(m.disk)
      BY DEF Replaying
    <2>18. Replaying(n, left \ {b})
      BY <1>1, <2>4, <2>5, <2>10, <2>12, <2>13, <2>15, <2>16, <2>17 DEF Replaying
    <2> QED
      BY <2>4, <2>5, <2>10, <2>18 DEF n
  <1> QED
    BY <1>5, <1>6

\* When nothing is left to replay the machine is that of a mounted process.
LEMMA ReplayedSound ==
    ASSUME NEW m, Replaying(m, {})
    PROVE  Sound(m)
  <1>1. Good(m) /\ DiskSound(m.disk) /\ MirrorsAll(m)
    BY DEF Replaying
  <1>2. m.next_block_id \in 1 .. LastBlock + 1
    BY <1>1 DEF Good
  <1>3. \A b \in Block : b \in Valid(m.disk) <=> b < m.next_block_id
    <2> SUFFICES ASSUME NEW b \in Block
                 PROVE  b \in Valid(m.disk) <=> b < m.next_block_id
      OBVIOUS
    <2>1. b \in Valid(m.disk) => b < m.next_block_id
      BY DEF Replaying
    <2>2. ASSUME b < m.next_block_id
          PROVE  b \in Valid(m.disk)
      <3>1. b \in 1 .. LastBlock
        BY DEF Block
      <3>2. m.next_block_id # 1
        BY <2>2, <3>1, LastBlockAssumption
      <3>3. m.next_block_id - 1 \in Valid(m.disk)
        BY <3>2 DEF Replaying
      <3>4. 1 .. (m.next_block_id - 1) \subseteq Valid(m.disk)
        BY <3>3, <1>1 DEF DiskSound
      <3>5. b \in 1 .. (m.next_block_id - 1)
        BY <2>2, <3>1, <1>2, LastBlockAssumption
      <3> QED
        BY <3>4, <3>5
    <2> QED
      BY <2>1, <2>2
  <1>4. \A b \in Block : m.blocks[b].op = "NONE" <=> b \notin Valid(m.disk)
    BY DEF Replaying
  <1>5. \A b \in Block : ~(b < m.next_block_id) <=> m.next_block_id <= b
    BY <1>2, LastBlockAssumption DEF Block
  <1> QED
    BY <1>1, <1>3, <1>4, <1>5 DEF Sound

-----------------------------------------------------------------------------
(* The invariant of the specification. *)

\* What every state satisfies: the machine of a mounted process is sound, one
\* that loads is in the middle of a mount, and a process that is down has left
\* nothing but the container, which a mount can read.
IInv ==
    /\ Typed
    /\ mode \in Mode
    /\ todo \subseteq Block /\ (todo # {} => mode = "loading")
    /\ Good(fs) /\ DiskSound(fs.disk) /\ MirrorsAll(fs)
    /\ mode = "mounted" => Sound(fs)
    /\ mode = "loading" => Replaying(fs, todo)
    /\ mode = "down" => fs = Fresh(fs.disk)

\* A formatted container satisfies it.
LEMMA InitIInv == Init => IInv
  <1> SUFFICES ASSUME Init PROVE IInv
    OBVIOUS
  <1> DEFINE disk == [b \in Block |-> NoRecord]
  <1>1. NoRecord \in DiskRecord /\ NoRecord.op = "INVALID" /\ "INVALID" \notin EntryOp
    BY DEF NoRecord, DiskRecord, EntryOp
  <1>2. Valid(disk) = {}
    BY <1>1 DEF Valid
  <1>3. DiskSound(disk)
    BY <1>1, <1>2 DEF DiskSound
  <1> HIDE DEF disk
  <1>4. fs = Fresh(disk) /\ mode = "mounted" /\ job = NoJob /\ todo = {}
    BY DEF Init, disk
  <1>5. Good(fs) /\ MirrorsAll(fs)
    BY <1>3, <1>4, FreshReplaying
  <1>6. fs.disk = disk /\ fs.next_block_id = 1 /\ fs.blocks = [b \in Block |-> NoRow]
    BY <1>4 DEF Fresh
  <1>7. \A b \in Block : fs.blocks[b].op = "NONE" /\ 1 <= b /\ ~(b < 1) /\ b \notin Valid(disk)
    BY <1>2, <1>6, LastBlockAssumption DEF NoRow, Block
  <1>8. Sound(fs)
    BY <1>3, <1>5, <1>6, <1>7 DEF Sound
  <1> QED
    BY <1>3, <1>4, <1>5, <1>6, <1>8 DEF IInv, Typed, Linked, Good, Mode, Job, NoJob

\* A call, from its first record to its last, keeps it.
LEMMA CallIInv ==
    ASSUME IInv, Call \/ Finish
    PROVE  IInv'
  <1>1. mode = "mounted" /\ UNCHANGED <<mode, todo>>
    BY DEF Call, Begin, SetFile, SetDir, SetTime, DelNode, SetLink, MoveNode, DelData, SetData,
           Finish, FinishLink, FinishMove, WriteChunk
  <1>2. Form(fs, fs') /\ Linked' /\ job' \in Job
    BY CallForm, FinishForm DEF IInv
  <1>3. Sound(fs')
    BY <1>1, <1>2, FormSound DEF IInv
  <1> QED
    BY <1>1, <1>2, <1>3 DEF IInv, Typed, Sound, Good

\* The end of a process and the mount of the next.
LEMMA ProcessIInv ==
    ASSUME IInv, Stop \/ Mount \/ Load
    PROVE  IInv'
  <1>1. Good(fs) /\ DiskSound(fs.disk) /\ MirrorsAll(fs)
    BY DEF IInv
  <1>2. NoJob \in Job /\ NoJob.kind # "link"
    BY DEF Job, NoJob
  <1>3. CASE Stop
    <2>1. fs' = Fresh(fs.disk) /\ mode' = "down" /\ job' = NoJob /\ todo' = {}
      BY <1>3 DEF Stop
    <2>2. fs'.disk = fs.disk /\ Good(fs') /\ MirrorsAll(fs')
      <3>1. Fresh(fs.disk).disk = fs.disk
        BY DEF Fresh
      <3> QED
        BY <1>1, <2>1, <3>1, FreshReplaying
    <2> QED
      BY <1>1, <1>2, <2>1, <2>2 DEF IInv, Typed, Linked, Good, Mode
  <1>4. CASE Mount
    <2>1. mode = "down" /\ mode' = "loading" /\ todo' = Scanned(fs.disk) /\ UNCHANGED <<fs, job>>
      BY <1>4 DEF Mount
    <2>2. fs = Fresh(fs.disk) /\ job = NoJob
      BY <2>1 DEF IInv, Typed
    <2>3. Replaying(fs, Scanned(fs.disk))
      BY <1>1, <2>2, FreshReplaying
    <2>4. Scanned(fs.disk) \subseteq Block
      BY DEF Scanned
    <2> QED
      BY <1>1, <1>2, <2>1, <2>2, <2>3, <2>4 DEF IInv, Typed, Linked, Good, Mode
  <1>5. CASE Mounted
    <2>1. mode = "loading" /\ todo = {} /\ mode' = "mounted" /\ UNCHANGED <<fs, job, todo>>
      BY <1>5 DEF Mounted
    <2>2. Sound(fs)
      BY <2>1, ReplayedSound DEF IInv
    <2> QED
      BY <1>1, <1>2, <2>1, <2>2 DEF IInv, Typed, Linked, Good, Mode
  <1>6. ASSUME NEW b \in Block, LoadRecord(b)
        PROVE  IInv'
    <2> DEFINE n == Replay(fs, b)
    <2>1. /\ mode = "loading" /\ b \in todo /\ fs' = n /\ job' = job
          /\ \A c \in todo : fs.disk[b].seq <= fs.disk[c].seq
          /\ todo' = IF n.r = "OK" THEN todo \ {b} ELSE {}
          /\ mode' = IF n.r = "OK" THEN mode ELSE "failed"
      BY <1>6 DEF LoadRecord
    <2>2. Replaying(fs, todo) /\ job = NoJob /\ todo \subseteq Block
      BY <2>1 DEF IInv, Typed
    <2>3. /\ Good(n) /\ MirrorsAll(n) /\ n.disk = fs.disk
          /\ n.r = "OK" => Replaying(n, todo \ {b})
      BY <2>1, <2>2, ReplaySound
    <2> HIDE DEF n
    <2>4. CASE n.r = "OK"
      BY <1>1, <1>2, <2>1, <2>2, <2>3, <2>4 DEF IInv, Typed, Linked, Good, Mode
    <2>5. CASE n.r # "OK"
      BY <1>1, <1>2, <2>1, <2>2, <2>3, <2>5 DEF IInv, Typed, Linked, Good, Mode
    <2> QED
      BY <2>4, <2>5
  <1> QED
    BY <1>3, <1>4, <1>5, <1>6 DEF Load

\* Every step keeps the invariant.
LEMMA StepIInv == IInv /\ [Next]_vars => IInv'
  <1>1. IInv /\ UNCHANGED vars => IInv'
    BY DEF vars, IInv, Typed, Linked
  <1> QED
    BY <1>1, CallIInv, ProcessIInv DEF Next

\* The invariant holds in every reachable state.
THEOREM Invariant == Spec => []IInv
  BY InitIInv, StepIInv, PTL DEF Spec

-----------------------------------------------------------------------------
(* The properties. *)

\* Every variable has its type, at every size of the container.
THEOREM TypeCorrect == Spec => []TypeOK
  <1>1. IInv => TypeOK
    BY DEF IInv, Typed, TypeOK, Good
  <1> QED
    BY <1>1, Invariant, PTL

\* The block table describes the records of the container, sequence numbers
\* identify records, and the next sequence number and node id are new.
THEOREM LogMirrored == Spec => []LogMirror
  <1>1. IInv => LogMirror
    BY DEF IInv, LogMirror, MirrorsAll, DiskSound
  <1> QED
    BY <1>1, Invariant, PTL

\* Blocks are used without a gap, and a mounted machine has a row for exactly
\* the blocks below the counter from which create_block takes fresh blocks.
THEOREM FrontierKept == Spec => []AppendFrontier
  <1>1. IInv => AppendFrontier
    BY DEF IInv, AppendFrontier, DiskSound, Sound
  <1> QED
    BY <1>1, Invariant, PTL

-----------------------------------------------------------------------------
(* What a step may overwrite. *)

\* A step that writes no record overwrites none.
LEMMA SameDisk ==
    ASSUME NEW m, NEW n, n.disk = m.disk
    PROVE  OnlyObsolete(m, n)
  BY DEF OnlyObsolete

\* A full container grants a free block, a deletion, or a NODE of the same node.
LEMMA GrantsObsolete ==
    ASSUME NEW m, Good(m), NEW node \in Nat, NEW b \in Grants(m, node),
           b # m.next_block_id
    PROVE  \/ m.blocks[b].op \in {"FREE", "DELETE"}
           \/ m.blocks[b].op = "NODE" /\ m.blocks[b].node = node
  <1>1. b \in Reuse(m, node)
    BY DEF Grants
  <1>2. \A rows : First(m, rows) \subseteq rows
    BY DEF First
  <1>3. b \in Rows(m, "FREE") \cup Rows(m, "DELETE")
              \cup {c \in Rows(m, "NODE") : m.blocks[c].node = node}
    BY <1>1, <1>2 DEF Reuse
  <1> QED
    BY <1>3 DEF Rows

\* A call that changes the tables, then writes a record for a node, overwrites
\* only what was obsolete or what it freed as a deletion or a truncation does.
LEMMA FadeWriteObsolete ==
    ASSUME NEW m, Sound(m), NEW f, Fades(m, f), NEW op \in LogOp, NEW node \in Nat,
           NEW fill \in Nat, NEW offset \in Nat, NEW entry \in NodeRow \cup {NoEntry},
           \A b \in Block : f.blocks[b].op = "FREE" =>
              \/ m.blocks[b].op = "FREE"
              \/ op = "DELETE" /\ m.blocks[b].node = node
              \/ /\ op = "TRUNCATE" /\ m.blocks[b].node = node
                 /\ m.blocks[b].op \in {"DATA", "TRUNCATE"}
    PROVE  OnlyObsolete(m, Write(f, op, node, fill, offset, entry))
  <1> DEFINE w == Write(f, op, node, fill, offset, entry)
             rec == [op |-> op, seq |-> f.next_seq_id, node |-> node,
                     fill |-> fill, offset |-> offset, entry |-> entry]
  <1>1. Sound(f) /\ Good(f) /\ f.disk = m.disk
    BY FadesSound DEF Sound, Fades
  <1>2. f \in Machine /\ f.disk \in [Block -> DiskRecord]
    BY <1>1 DEF Good, Machine
  <1>3. CASE Grants(f, node) = {}
    <2>1. w = [f EXCEPT !.r = "ENOSPC"]
      BY <1>3 DEF Write, Return
    <2>2. w.disk = m.disk
      BY <2>1, <1>1, <1>2 DEF Machine
    <2> QED
      BY <2>2, SameDisk
  <1>4. CASE Grants(f, node) # {}
    <2>1. PICK b \in Grants(f, node) : w.disk = [f.disk EXCEPT ![b] = rec]
      <3>1. PICK b \in Grants(f, node) :
              w = [nodes |-> f.nodes,
                   blocks |-> [f.blocks EXCEPT ![b] =
                      [op |-> op, seq |-> f.next_seq_id, node |-> node,
                       fill |-> fill, offset |-> offset]],
                   disk |-> [f.disk EXCEPT ![b] = rec],
                   next_node_id |-> Larger(f.next_node_id, node + 1),
                   next_block_id |-> IF f.next_block_id <= LastBlock
                                     THEN f.next_block_id + 1 ELSE f.next_block_id,
                   next_seq_id |-> f.next_seq_id + 1,
                   r |-> "OK"]
        <4>1. PICK b \in Grants(f, node) :
                w = Laid(f, op, node, fill, offset, entry, b)
          BY <1>1, <1>4, WriteEffect
        <4> QED
          BY <4>1 DEF Laid
      <3> HIDE DEF w, rec
      <3> QED
        BY <3>1
    <2> HIDE DEF w
    <2>2. b \in Block /\ (b = f.next_block_id \/ f.next_block_id = LastBlock + 1)
      BY <1>1, GrantsType
    <2>3. /\ w.disk[b] = rec
          /\ \A c \in Block : c # b => w.disk[c] = f.disk[c]
      BY <2>1, <2>2, <1>2
    <2>4. CASE b = f.next_block_id
      <3>1. b \notin Valid(f.disk)
        BY <2>2, <2>4, <1>1, LastBlockAssumption DEF Sound, Block
      <3>2. \A c \in Block : m.disk[c] # w.disk[c] /\ m.disk[c].op # "INVALID" => FALSE
        BY <1>1, <2>2, <2>3, <3>1 DEF Valid
      <3> QED
        BY <3>2 DEF OnlyObsolete, w
    <2>5. CASE b # f.next_block_id
      <3>1. f.next_block_id = LastBlock + 1
        BY <2>2, <2>5
      <3>2. \A c \in Block : c \in Valid(f.disk) /\ f.blocks[c].op # "NONE"
        BY <3>1, <1>1, LastBlockAssumption DEF Sound, Block
      <3>3. \A c \in Block : m.disk[c].op # "INVALID" /\ m.disk[c].seq < rec.seq
        BY <3>2, <1>1 DEF Valid, Sound, MirrorsAll, Mirrors
      <3>4. \/ f.blocks[b].op \in {"FREE", "DELETE"}
            \/ f.blocks[b].op = "NODE" /\ f.blocks[b].node = node
        BY <1>1, <2>5, GrantsObsolete
      <3>5. \/ m.blocks[b].op \in {"FREE", "DELETE"}
            \/ m.blocks[b].op = "NODE" /\ m.blocks[b].node = node
            \/ op = "DELETE" /\ m.blocks[b].node = node
            \/ /\ op = "TRUNCATE" /\ m.blocks[b].node = node
               /\ m.blocks[b].op \in {"DATA", "TRUNCATE"}
        BY <2>2, <3>4 DEF Fades
      <3>6. rec.op = op /\ rec.node = node
        OBVIOUS
      <3> HIDE DEF rec
      <3>7. OnlyObsolete(m, w)
        BY <1>1, <2>3, <3>3, <3>5, <3>6 DEF OnlyObsolete
      <3> QED
        BY <3>7 DEF w
    <2> QED
      BY <2>4, <2>5
  <1> QED
    BY <1>3, <1>4

\* No form of a step overwrites anything else.
LEMMA FormObsolete ==
    ASSUME NEW m, Sound(m), NEW n, Form(m, n)
    PROVE  OnlyObsolete(m, n)
  <1>1. m \in Machine /\ Fades(m, m)
    <2>1. m \in Machine
      BY DEF Sound, Good
    <2>2. m.next_node_id \in Nat /\ \A b \in Block : m.blocks[b].fill \in Nat
      BY <2>1 DEF Machine, BlockRow
    <2> QED
      BY <2>1, <2>2 DEF Fades
  <1>2. CASE ReturnForm(m, n)
    <2>1. n.disk = m.disk
      BY <1>1, <1>2 DEF ReturnForm, Return, Machine
    <2> QED
      BY <2>1, SameDisk
  <1>3. CASE EntryForm(m, n)
    <2>1. PICK f \in Machine, op \in {"NODE", "MOVE"}, row \in NodeRow :
            Fades(m, f) /\ f.blocks = m.blocks /\ n = WriteEntry(f, op, row)
      BY <1>3 DEF EntryForm
    <2>2. row.node \in Nat /\ op \in LogOp
      BY DEF NodeRow, LogOp
    <2> QED
      BY <2>1, <2>2, FadeWriteObsolete DEF WriteEntry
  <1>4. CASE DeleteForm(m, n)
    <2>1. PICK row \in NodeRow : n = WriteEntry(DropNode(m, row.node), "DELETE", row)
      BY <1>4 DEF DeleteForm
    <2> DEFINE f == DropNode(m, row.node)
    <2>2. row.node \in Nat
      BY DEF NodeRow
    <2>3. Fades(m, f)
      BY <1>1, <2>2, DropNodeFades
    <2>4. \A b \in Block : f.blocks[b].op = "FREE" =>
             m.blocks[b].op = "FREE" \/ m.blocks[b].node = row.node
      BY <1>1 DEF DropNode, Machine
    <2> HIDE DEF f
    <2>5. OnlyObsolete(m, Write(f, "DELETE", row.node, 0, 0, row))
      BY <2>2, <2>3, <2>4, FadeWriteObsolete DEF LogOp
    <2> QED
      BY <2>1, <2>5 DEF WriteEntry, f
  <1>5. CASE TruncateForm(m, n)
    <2>1. PICK node \in Nat, size \in Sizes :
            n = Write(DropData(m, node, size), "TRUNCATE", node, 0, size, NoEntry)
      BY <1>5 DEF TruncateForm
    <2> DEFINE f == DropData(m, node, size)
    <2>2. size \in Nat
      BY SizesAssumption
    <2>3. Fades(m, f)
      BY <1>1, <2>2, DropDataFades
    <2>4. \A b \in Block : f.blocks[b].op = "FREE" =>
             \/ m.blocks[b].op = "FREE"
             \/ m.blocks[b].node = node /\ m.blocks[b].op \in {"DATA", "TRUNCATE"}
      BY <1>1 DEF DropData, Cut, Machine, BlockRow
    <2> HIDE DEF f
    <2>5. OnlyObsolete(m, Write(f, "TRUNCATE", node, 0, size, NoEntry))
      BY <2>2, <2>3, <2>4, FadeWriteObsolete DEF LogOp
    <2> QED
      BY <2>1, <2>5 DEF f
  <1>6. CASE DataForm(m, n)
    BY <1>1, <1>6, FadeWriteObsolete DEF DataForm, LogOp
  <1> QED
    BY <1>2, <1>3, <1>4, <1>5, <1>6 DEF Form, NameForm

\* A record in the container is overwritten only when the container is full, by
\* a younger one, and only if it is obsolete or a NODE of the same node.
THEOREM OverwritesObsolete == Spec => AppendOnly
  <1>1. IInv /\ [Next]_vars => OnlyObsolete(fs, fs')
    <2> SUFFICES ASSUME IInv, [Next]_vars PROVE OnlyObsolete(fs, fs')
      OBVIOUS
    <2>1. CASE Call \/ Finish
      <3>1. mode = "mounted"
        BY <2>1 DEF Call, Begin, SetFile, SetDir, SetTime, DelNode, SetLink, MoveNode, DelData,
                    SetData, Finish, FinishLink, FinishMove, WriteChunk
      <3> QED
        BY <2>1, <3>1, CallForm, FinishForm, FormObsolete DEF IInv
    <2>2. CASE Stop \/ Mount \/ Mounted \/ UNCHANGED vars
      BY <2>2, SameDisk DEF Stop, Mount, Mounted, vars, Fresh
    <2>3. ASSUME NEW b \in Block, LoadRecord(b)
          PROVE  OnlyObsolete(fs, fs')
      BY <2>3, ReplaySound, SameDisk DEF LoadRecord, IInv
    <2> QED
      BY <2>1, <2>2, <2>3 DEF Next, Load
  <1>2. IInv /\ [Next]_vars => [OnlyObsolete(fs, fs')]_vars
    BY <1>1
  <1> QED
    BY <1>2, Invariant, PTL DEF Spec, AppendOnly

-----------------------------------------------------------------------------
(* Refusals. *)

\* A step that looks for a block finds one, or reports that there is none.
LEMMA WrittenResult ==
    ASSUME NEW m, Sound(m), NEW n,
           EntryForm(m, n) \/ DeleteForm(m, n) \/ TruncateForm(m, n) \/ DataForm(m, n)
    PROVE  n.r \in {"OK", "ENOSPC"}
  <1>1. CASE EntryForm(m, n)
    <2>1. PICK f \in Machine, op \in {"NODE", "MOVE"}, row \in NodeRow :
            Fades(m, f) /\ n = WriteEntry(f, op, row)
      BY <1>1 DEF EntryForm
    <2>2. Sound(f) /\ row.node \in Nat /\ op \in LogOp
      BY <2>1, FadesSound DEF NodeRow, LogOp
    <2> QED
      BY <2>1, <2>2, WriteResult DEF WriteEntry
  <1>2. CASE DeleteForm(m, n)
    <2>1. PICK row \in NodeRow : n = WriteEntry(DropNode(m, row.node), "DELETE", row)
      BY <1>2 DEF DeleteForm
    <2>2. Sound(DropNode(m, row.node)) /\ row.node \in Nat
      BY DropNodeSound DEF NodeRow
    <2> QED
      BY <2>1, <2>2, WriteResult DEF WriteEntry, LogOp
  <1>3. CASE TruncateForm(m, n)
    <2>1. PICK node \in Nat, size \in Sizes :
            n = Write(DropData(m, node, size), "TRUNCATE", node, 0, size, NoEntry)
      BY <1>3 DEF TruncateForm
    <2>2. Sound(DropData(m, node, size)) /\ size \in Nat
      BY DropDataSound, SizesAssumption
    <2> QED
      BY <2>1, <2>2, WriteResult DEF LogOp
  <1>4. CASE DataForm(m, n)
    BY <1>4, WriteResult DEF DataForm, LogOp
  <1> QED
    BY <1>1, <1>2, <1>3, <1>4

\* A step that is refused for another reason than space has changed nothing but the
\* result.
LEMMA RefusedStep ==
    ASSUME NEW m, Sound(m), NEW n, Form(m, n), n.r \in {"ENOENT", "EEXIST", "EINVAL"}
    PROVE  n = Return(m, n.r)
  <1>1. m \in Machine
    BY DEF Sound, Good
  <1>2. ReturnForm(m, n)
    BY WrittenResult DEF Form, NameForm
  <1> QED
    BY <1>1, <1>2 DEF ReturnForm, Return, Machine

-----------------------------------------------------------------------------
(* Paths. *)

\* One component of a path after the other, as far as the n-th.
Steps(nodes, path, n, f) ==
    f = [i \in 0 .. n |-> IF i = 0 THEN Found(Root) ELSE Child(nodes, f[i - 1], path[i])]

\* There is such a function.
LEMMA StepsExist ==
    ASSUME NEW nodes, NEW path, NEW n \in Nat
    PROVE  \E f : Steps(nodes, path, n, f)
  <1> DEFINE Bad == {k \in Nat : ~ \E f : Steps(nodes, path, k, f)}
  <1> SUFFICES ASSUME Bad # {} PROVE FALSE
    OBVIOUS
  <1>1. PICK k \in Bad : \A j \in Bad : k <= j
    <2>1. Bad \subseteq Nat
      OBVIOUS
    <2> HIDE DEF Bad
    <2> QED
      BY <2>1, NatMin
  <1>2. CASE k = 0
    <2> DEFINE f == [i \in 0 .. 0 |-> Found(Root)]
    <2>1. f = [i \in 0 .. 0 |-> IF i = 0 THEN Found(Root) ELSE Child(nodes, f[i - 1], path[i])]
      OBVIOUS
    <2> QED
      BY <1>2, <2>1 DEF Steps
  <1>3. CASE k # 0
    <2>1. k - 1 \in Nat /\ k - 1 \notin Bad
      BY <1>1, <1>3
    <2>2. PICK g : Steps(nodes, path, k - 1, g)
      BY <2>1
    <2> DEFINE f == [i \in 0 .. k |-> IF i = k THEN Child(nodes, g[k - 1], path[k]) ELSE g[i]]
               h == [i \in 0 .. k |-> IF i = 0 THEN Found(Root) ELSE Child(nodes, f[i - 1], path[i])]
    <2>3. \A i \in 0 .. k - 1 :
            g[i] = IF i = 0 THEN Found(Root) ELSE Child(nodes, g[i - 1], path[i])
      BY <2>2 DEF Steps
    <2>4. ASSUME NEW i \in 0 .. k
          PROVE  f[i] = h[i]
      <3>1. i = 0 \/ i - 1 \in 0 .. k - 1
        BY <2>1
      <3>2. k # 0 /\ (i # k => i \in 0 .. k - 1) /\ (i # 0 => f[i - 1] = g[i - 1])
        BY <1>3, <2>1
      <3>3. f[i] = IF i = k THEN Child(nodes, g[k - 1], path[k]) ELSE g[i]
        OBVIOUS
      <3>4. h[i] = IF i = 0 THEN Found(Root) ELSE Child(nodes, f[i - 1], path[i])
        OBVIOUS
      <3> HIDE DEF f, h
      <3> QED
        BY <2>3, <3>2, <3>3, <3>4
    <2>5. f = h
      <3>1. /\ f = [i \in 0 .. k |-> f[i]] /\ h = [i \in 0 .. k |-> h[i]]
        OBVIOUS
      <3> HIDE DEF f, h
      <3> QED
        BY <2>4, <3>1
    <2>6. Steps(nodes, path, k, f)
      BY <2>5 DEF Steps
    <2> HIDE DEF f
    <2> QED
      BY <1>1, <2>6
  <1> QED
    BY <1>2, <1>3

\* Two such functions agree as far as they and their paths go.
LEMMA StepsAgree ==
    ASSUME NEW nodes, NEW p, NEW q, NEW n \in Nat, NEW m \in Nat, m <= n,
           \A i \in 1 .. m : p[i] = q[i],
           NEW f, Steps(nodes, p, n, f), NEW g, Steps(nodes, q, m, g)
    PROVE  f[m] = g[m]
  <1> DEFINE Bad == {k \in 0 .. m : f[k] # g[k]}
  <1>1. /\ \A i \in 0 .. n : f[i] = IF i = 0 THEN Found(Root) ELSE Child(nodes, f[i - 1], p[i])
        /\ \A i \in 0 .. m : g[i] = IF i = 0 THEN Found(Root) ELSE Child(nodes, g[i - 1], q[i])
    BY DEF Steps
  <1> SUFFICES ASSUME Bad # {} PROVE FALSE
    OBVIOUS
  <1>2. PICK k \in Bad : \A j \in Bad : k <= j
    <2>1. Bad \subseteq Nat
      OBVIOUS
    <2> HIDE DEF Bad
    <2> QED
      BY <2>1, NatMin
  <1>3. k # 0
    BY <1>1, <1>2
  <1>4. k - 1 \in 0 .. m /\ k - 1 \notin Bad /\ k \in 1 .. m
    BY <1>2, <1>3
  <1>5. f[k - 1] = g[k - 1] /\ p[k] = q[k] /\ k \in 0 .. n /\ k \in 0 .. m
    BY <1>4
  <1> QED
    BY <1>1, <1>2, <1>3, <1>5

\* A walk is the last value of such a function.
LEMMA WalkSteps ==
    ASSUME NEW nodes, NEW path \in Seq(Names)
    PROVE  \E f : Steps(nodes, path, Len(path), f) /\ Walk(nodes, path) = f[Len(path)]
  <1> DEFINE S(f) == f = [n \in 0 .. Len(path) |->
                           IF n = 0 THEN Found(Root) ELSE Child(nodes, f[n - 1], path[n])]
  <1>1. Walk(nodes, path) = (CHOOSE f : S(f))[Len(path)]
    BY DEF Walk
  <1>2. \E f : S(f)
    <2>1. \E f : Steps(nodes, path, Len(path), f)
      <3>1. Len(path) \in Nat
        OBVIOUS
      <3> QED
        BY <3>1, StepsExist
    <2>2. \A f : Steps(nodes, path, Len(path), f) => S(f)
      BY DEF Steps
    <2> HIDE DEF S
    <2> QED
      BY <2>1, <2>2
  <1>3. S(CHOOSE f : S(f))
    <2> HIDE DEF S
    <2> QED
      BY <1>2
  <1> QED
    BY <1>1, <1>3 DEF Steps

\* A path is its directory and a name.
LEMMA DirnameType ==
    ASSUME NEW path \in Seq(Names), path # <<>>
    PROVE  /\ Len(path) \in Nat \ {0} /\ Dirname(path) \in Seq(Names)
           /\ Len(Dirname(path)) = Len(path) - 1 /\ Basename(path) \in Names
           /\ \A i \in 1 .. Len(path) - 1 : Dirname(path)[i] = path[i]
  <1>1. Len(path) \in Nat /\ Len(path) # 0 /\ path \in [1 .. Len(path) -> Names]
    OBVIOUS
  <1>2. Len(path) - 1 \in 0 .. Len(path)
    BY <1>1
  <1>3. /\ SubSeq(path, 1, Len(path) - 1) \in Seq(Names)
        /\ Len(SubSeq(path, 1, Len(path) - 1)) = Len(path) - 1
        /\ \A i \in 1 .. Len(path) - 1 : SubSeq(path, 1, Len(path) - 1)[i] = path[i]
    BY <1>1, <1>2
  <1> QED
    BY <1>1, <1>3 DEF Dirname, Basename

\* Paths with the same directory and the same name are the same.
LEMMA DirnameBasename ==
    ASSUME NEW p \in Seq(Names), p # <<>>, NEW q \in Seq(Names), q # <<>>,
           Dirname(p) = Dirname(q), Basename(p) = Basename(q)
    PROVE  p = q
  <1>1. /\ Len(p) \in Nat \ {0} /\ Len(q) \in Nat \ {0}
        /\ p \in [1 .. Len(p) -> Names] /\ q \in [1 .. Len(q) -> Names]
    BY DirnameType
  <1>2. Len(p) = Len(q)
    <2>1. Len(p) - 1 = Len(q) - 1
      BY DirnameType
    <2>2. \A a, b \in Nat : a - 1 = b - 1 => a = b
      OBVIOUS
    <2> QED
      BY <1>1, <2>1, <2>2
  <1>3. \A i \in 1 .. Len(p) - 1 : p[i] = q[i]
    BY <1>1, <1>2, DirnameType
  <1>4. p[Len(p)] = q[Len(p)]
    BY <1>2 DEF Basename
  <1>5. \A i \in 1 .. Len(p) : p[i] = q[i]
    BY <1>1, <1>3, <1>4
  <1> QED
    BY <1>1, <1>2, <1>5

\* Walking is resolving: the loop goes on from where the path was one shorter.
LEMMA WalkResolves ==
    ASSUME NEW nodes, NEW path \in Seq(Names)
    PROVE  Walk(nodes, path) = Resolve(nodes, path)
  <1>1. PICK f : Steps(nodes, path, Len(path), f) /\ Walk(nodes, path) = f[Len(path)]
    BY WalkSteps
  <1>2. \A i \in 0 .. Len(path) :
          f[i] = IF i = 0 THEN Found(Root) ELSE Child(nodes, f[i - 1], path[i])
    BY <1>1 DEF Steps
  <1>3. CASE path = <<>>
    BY <1>1, <1>2, <1>3 DEF Resolve
  <1>4. CASE path # <<>>
    <2> DEFINE dir == Dirname(path)
    <2>1. /\ Len(path) \in Nat \ {0} /\ dir \in Seq(Names) /\ Len(dir) = Len(path) - 1
          /\ \A i \in 1 .. Len(dir) : path[i] = dir[i]
      BY <1>4, DirnameType
    <2> HIDE DEF dir
    <2>2. PICK g : Steps(nodes, dir, Len(dir), g) /\ Walk(nodes, dir) = g[Len(dir)]
      BY <2>1, WalkSteps
    <2>3. f[Len(dir)] = g[Len(dir)]
      BY <1>1, <2>1, <2>2, StepsAgree
    <2>4. f[Len(path)] = Child(nodes, f[Len(dir)], path[Len(path)])
      BY <1>2, <2>1
    <2> QED
      BY <1>1, <1>4, <2>2, <2>3, <2>4 DEF Resolve, Basename, dir
  <1> QED
    BY <1>3, <1>4

-----------------------------------------------------------------------------
(* Rows that can stand in one table. *)

\* Rows of one node are of one type, but for a link and its payload.
Kin(x, y) ==
    x.node = y.node => x.type = y.type \/ {x.type, y.type} \subseteq {"LINK", "LINK_PAYLOAD"}

\* The rows, of the table or of the log, are those of a file system: no row is the
\* root's, and the payload of a link names the link as its parent.
Family(rows) ==
    /\ rows \subseteq NodeRow
    /\ \A x, y \in rows : Kin(x, y)
    /\ \A x \in rows : x.node # 0 /\ (x.type = "LINK_PAYLOAD" => x.parent = x.node)

\* A table has one row for a key, as its primary index sees to.
Unique(nodes) == \A x, y \in nodes : x.node = y.node /\ x.type = y.type => x = y

\* Fewer rows of a family are a family.
LEMMA FamilySubset ==
    ASSUME NEW rows, Family(rows), NEW fewer, fewer \subseteq rows
    PROVE  Family(fewer)
  BY DEF Family

\* A row for a key that the family has.
LEMMA FamilyAgain ==
    ASSUME NEW rows, Family(rows), NEW x \in rows, NEW row \in NodeRow,
           row.node = x.node, row.type = x.type,
           row.type = "LINK_PAYLOAD" => row.parent = row.node
    PROVE  Family(rows \cup {row})
  <1>1. \A y \in rows : Kin(row, y) /\ Kin(y, row)
    BY DEF Family, Kin
  <1>2. Kin(row, row)
    BY DEF Kin
  <1> QED
    BY <1>1, <1>2 DEF Family

\* A row of a new node.
LEMMA FamilyNew ==
    ASSUME NEW rows, Family(rows), NEW row \in NodeRow, row.node # 0,
           \A x \in rows : x.node # row.node, row.type # "LINK_PAYLOAD"
    PROVE  Family(rows \cup {row})
  <1>1. \A y \in rows : Kin(row, y) /\ Kin(y, row)
    BY DEF Kin
  <1>2. Kin(row, row)
    BY DEF Kin
  <1> QED
    BY <1>1, <1>2 DEF Family

\* The payload of a link.
LEMMA FamilyPayload ==
    ASSUME NEW rows, Family(rows), NEW link \in rows, link.type = "LINK",
           NEW row \in NodeRow, row.node = link.node, row.parent = row.node,
           row.type = "LINK_PAYLOAD"
    PROVE  Family(rows \cup {row})
  <1>1. \A y \in rows : Kin(link, y) /\ Kin(y, link)
    BY DEF Family
  <1>2. \A y \in rows : Kin(row, y) /\ Kin(y, row)
    BY <1>1 DEF Kin
  <1>3. Kin(row, row)
    BY DEF Kin
  <1> QED
    BY <1>2, <1>3 DEF Family

\* Inserting a row keeps the keys of a table apart.
LEMMA InsertUnique ==
    ASSUME NEW nodes, Unique(nodes), NEW row
    PROVE  Unique(InsertOrReplace(nodes, row))
  BY DEF Unique, InsertOrReplace

\* What a path that resolves denotes: a row with the last name of the path, in the
\* directory that the rest of the path denotes.
LEMMA ResolvedRow ==
    ASSUME NEW nodes, Family(nodes), NEW path \in Seq(Names), path # <<>>
    PROVE  /\ Resolve(nodes, path).r = "OK" =>
                /\ Resolve(nodes, path).row \in nodes
                /\ Resolve(nodes, path).row.node # 0
                /\ Resolve(nodes, path).row.name = Basename(path)
                /\ Resolve(nodes, path).row.type # "LINK_PAYLOAD"
                /\ Resolve(nodes, path).row.parent = Resolve(nodes, Dirname(path)).row.node
                /\ Resolve(nodes, Dirname(path)).r = "OK"
                /\ Resolve(nodes, Dirname(path)).row.type = "DIR"
           /\ Resolve(nodes, Dirname(path)).r = "OK" =>
                \/ Resolve(nodes, Dirname(path)).row = Root
                \/ Resolve(nodes, Dirname(path)).row \in nodes
           /\ /\ Resolve(nodes, path).r # "OK" /\ Resolve(nodes, Dirname(path)).r = "OK"
              /\ Resolve(nodes, Dirname(path)).row.type = "DIR"
              => Lookup(nodes, Resolve(nodes, Dirname(path)).row.node, Basename(path)) = {}
  <1> DEFINE at == Resolve(nodes, path)
             dir == Resolve(nodes, Dirname(path))
             hits == Lookup(nodes, dir.row.node, Basename(path))
  <1>1. Dirname(path) \in Seq(Names) /\ nodes \in SUBSET NodeRow
    BY DirnameType DEF Family
  <1>2. at = Child(nodes, dir, Basename(path))
    BY <1>1, WalkResolves DEF Resolve
  <1>3. /\ dir.r \in {"OK", "ENOENT", "EINVAL"}
        /\ dir.r = "OK" => dir.row = Root \/ dir.row \in nodes
    BY <1>1, ResolveType
  <1>4. \A x \in hits : x \in nodes /\ x.parent = dir.row.node /\ x.name = Basename(path)
    BY DEF Lookup
  <1> HIDE DEF hits, at, dir
  <1>5. CASE dir.r # "OK"
    BY <1>2, <1>3, <1>5 DEF Child, at, dir
  <1>6. CASE dir.r = "OK" /\ dir.row.type # "DIR"
    BY <1>2, <1>3, <1>6 DEF Child, Missing, at, dir
  <1>7. CASE dir.r = "OK" /\ dir.row.type = "DIR" /\ hits = {}
    BY <1>2, <1>3, <1>7 DEF Child, Missing, hits, at, dir
  <1>8. CASE dir.r = "OK" /\ dir.row.type = "DIR" /\ hits # {}
    <2>1. at = Found(CHOOSE x \in hits : TRUE)
      BY <1>2, <1>8 DEF Child, hits
    <2>2. at.r = "OK" /\ at.row \in hits
      BY <1>8, <2>1 DEF Found
    <2>3. at.row \in nodes /\ at.row.parent = dir.row.node /\ at.row.name = Basename(path)
      BY <1>4, <2>2
    <2>4. ASSUME at.row.type = "LINK_PAYLOAD"
          PROVE  FALSE
      <3>1. at.row.node = dir.row.node /\ at.row.node # 0
        BY <2>3, <2>4 DEF Family
      <3>2. dir.row \in nodes
        BY <1>3, <1>8, <3>1 DEF Root
      <3>3. Kin(dir.row, at.row)
        BY <2>3, <3>2 DEF Family
      <3> QED
        BY <1>8, <2>4, <3>1, <3>3 DEF Kin
    <2>5. at.row.node # 0
      BY <2>3 DEF Family
    <2> QED
      BY <1>3, <1>8, <2>2, <2>3, <2>4, <2>5 DEF at, dir
  <1> QED
    BY <1>5, <1>6, <1>7, <1>8 DEF at, dir

-----------------------------------------------------------------------------
(* Trees. *)

\* The row has its place: in the root, in a directory, or the payload with its link.
Held(nodes, x) ==
    x.parent = 0 \/ \E y \in nodes :
        y.node = x.parent /\ y.type = IF x.type = "LINK_PAYLOAD" THEN "LINK" ELSE "DIR"

\* No two rows share a name.
Apart(nodes) == \A x, y \in nodes : x.parent = y.parent /\ x.name = y.name => x = y

Dirs(nodes) == {x \in nodes : x.type = "DIR"}

\* Directories each of which lies in another.
Ring(S) == \A x \in S : \E y \in S : y.node = x.parent

Ringless(nodes) == \A S \in SUBSET Dirs(nodes) : Ring(S) => S = {}

Tree(nodes) == (\A x \in nodes : Held(nodes, x)) /\ Apart(nodes) /\ Ringless(nodes)

\* A table without strays is a tree.
LEMMA StraysTree ==
    ASSUME NEW m
    PROVE  Strays(m) = {} <=> Tree(m.nodes)
  <1> DEFINE nodes == m.nodes
             Holds(x) == IF x.type = "LINK_PAYLOAD" THEN {y \in nodes : y.type = "LINK"}
                         ELSE Dirs(nodes)
             lost == {x \in nodes : x.parent # 0 /\ \A y \in Holds(x) : y.node # x.parent}
             twins == {x \in nodes : \E y \in nodes \ {x} : y.parent = x.parent /\ y.name = x.name}
             rings == UNION {S \in SUBSET Dirs(nodes) : Ring(S)}
  <1>1. Strays(m) = lost \cup twins \cup rings
    BY DEF Strays, Dirs, Ring
  <1>2. lost = {} <=> \A x \in nodes : Held(nodes, x)
    <2>1. \A x \in nodes : Held(nodes, x) <=> ~ (x.parent # 0 /\ \A y \in Holds(x) : y.node # x.parent)
      BY DEF Held, Dirs
    <2> QED
      BY <2>1
  <1>3. twins = {} <=> Apart(nodes)
    BY DEF Apart
  <1>4. rings = {} <=> Ringless(nodes)
    BY DEF Ringless
  <1> HIDE DEF lost, twins, rings
  <1> QED
    BY <1>1, <1>2, <1>3, <1>4 DEF Tree

\* A row is reached by one path.
LEMMA OnePath ==
    ASSUME NEW nodes, Family(nodes), Unique(nodes), NEW p \in Seq(Names), NEW q \in Seq(Names),
           Resolve(nodes, p).r = "OK", Resolve(nodes, q).r = "OK",
           Resolve(nodes, p).row = Resolve(nodes, q).row
    PROVE  p = q
  <1> DEFINE Same(s, t) == /\ Resolve(nodes, s).r = "OK" /\ Resolve(nodes, t).r = "OK"
                           /\ Resolve(nodes, s).row = Resolve(nodes, t).row
             Bad == {n \in Nat : \E s, t \in Seq(Names) : Len(s) = n /\ Same(s, t) /\ s # t}
  <1> SUFFICES ASSUME Bad # {} PROVE FALSE
    <2>1. Len(p) \in Nat
      OBVIOUS
    <2> QED
      BY <2>1
  <1>1. PICK n \in Bad : \A k \in Bad : n <= k
    <2>1. Bad \subseteq Nat
      OBVIOUS
    <2> HIDE DEF Bad
    <2> QED
      BY <2>1, NatMin
  <1>2. PICK s \in Seq(Names), t \in Seq(Names) : Len(s) = n /\ Same(s, t) /\ s # t
    BY <1>1
  <1>3. Resolve(nodes, <<>>).row = Root /\ Root.node = 0
    BY DEF Resolve, Found, Root
  <1>4. s # <<>> /\ t # <<>>
    <2>1. ASSUME NEW a \in Seq(Names), Resolve(nodes, a).r = "OK", a # <<>>
          PROVE  Resolve(nodes, a).row.node # 0
      BY <2>1, ResolvedRow
    <2>2. Resolve(nodes, s).row.node = Resolve(nodes, t).row.node
      BY <1>2
    <2> QED
      BY <1>2, <1>3, <2>1, <2>2
  <1>5. Same(Dirname(s), Dirname(t))
    <2> DEFINE d == Resolve(nodes, Dirname(s)).row
               e == Resolve(nodes, Dirname(t)).row
    <2>1. d.node = e.node /\ d.type = "DIR" /\ e.type = "DIR"
          /\ (d = Root \/ d \in nodes) /\ (e = Root \/ e \in nodes)
          /\ Resolve(nodes, Dirname(s)).r = "OK" /\ Resolve(nodes, Dirname(t)).r = "OK"
      BY <1>2, <1>4, ResolvedRow
    <2>2. d = e
      BY <1>3, <2>1 DEF Family, Unique
    <2> QED
      BY <2>1, <2>2
  <1>6. Basename(s) = Basename(t)
    <2>1. Resolve(nodes, s).row.name = Basename(s) /\ Resolve(nodes, t).row.name = Basename(t)
      BY <1>2, <1>4, ResolvedRow
    <2> QED
      BY <1>2, <2>1
  <1>7. /\ n \in Nat \ {0} /\ Dirname(s) \in Seq(Names) /\ Dirname(t) \in Seq(Names)
        /\ Len(Dirname(s)) = n - 1
    BY <1>2, <1>4, DirnameType
  <1>8. Dirname(s) = Dirname(t)
    <2>1. n - 1 \in Nat /\ n - 1 \notin Bad
      BY <1>1, <1>7
    <2> QED
      BY <1>5, <1>7, <2>1
  <1>9. s = t
    BY <1>2, <1>4, <1>6, <1>8, DirnameBasename
  <1> QED
    BY <1>2, <1>9

-----------------------------------------------------------------------------
(* What a call does to a tree. *)

\* The parent of a row of a tree is the root or a node of the tree.
LEMMA ParentKnown ==
    ASSUME NEW nodes, Tree(nodes), NEW id, id # 0, \A x \in nodes : x.node # id
    PROVE  \A x \in nodes : x.parent # id
  BY DEF Tree, Held

\* A row of a new node, in a directory that has no such name.
LEMMA PlantTree ==
    ASSUME NEW nodes, Tree(nodes), NEW row, row.node # 0, row.type # "LINK_PAYLOAD",
           \A x \in nodes : x.node # row.node,
           row.parent = 0 \/ \E y \in Dirs(nodes) : y.node = row.parent,
           Lookup(nodes, row.parent, row.name) = {}
    PROVE  Tree(nodes \cup {row})
  <1> DEFINE later == nodes \cup {row}
  <1>1. \A x \in nodes : x.parent # row.node
    BY ParentKnown
  <1>2. row.parent # row.node
    BY DEF Dirs
  <1>3. ASSUME NEW x \in later
        PROVE  Held(later, x)
    <2>1. CASE x \in nodes
      BY <2>1 DEF Tree, Held
    <2>2. CASE x = row
      BY <2>2 DEF Held, Dirs
    <2> QED
      BY <2>1, <2>2
  <1>4. Apart(later)
    BY DEF Tree, Apart, Lookup
  <1>5. ASSUME NEW S \in SUBSET Dirs(later), Ring(S)
        PROVE  S = {}
    <2> DEFINE T == S \ {row}
    <2>1. T \in SUBSET Dirs(nodes)
      BY DEF Dirs
    <2>2. Ring(T)
      BY <1>1, <1>5, <2>1 DEF Ring, Dirs
    <2>3. T = {}
      BY <2>1, <2>2 DEF Tree, Ringless
    <2> QED
      BY <1>2, <1>5, <2>3 DEF Ring
  <1> QED
    BY <1>3, <1>4, <1>5 DEF Tree, Ringless

\* The payload of a link that has none.
LEMMA PayloadTree ==
    ASSUME NEW nodes, Tree(nodes), NEW link \in nodes, link.type = "LINK",
           NEW row, row.type = "LINK_PAYLOAD", row.parent = link.node,
           \A x \in nodes : x.parent # link.node
    PROVE  Tree(nodes \cup {row})
  <1> DEFINE later == nodes \cup {row}
  <1>1. \A x \in later : Held(later, x)
    BY DEF Tree, Held
  <1>2. Apart(later)
    BY DEF Tree, Apart
  <1>3. Dirs(later) = Dirs(nodes)
    BY DEF Dirs
  <1> QED
    BY <1>1, <1>2, <1>3 DEF Tree, Ringless

\* A row that replaces one with the same key, name and parent.
LEMMA RetimeTree ==
    ASSUME NEW nodes, Tree(nodes), Unique(nodes), NEW old \in nodes, NEW row,
           row.node = old.node, row.type = old.type, row.parent = old.parent, row.name = old.name
    PROVE  Tree(InsertOrReplace(nodes, row))
  <1> DEFINE later == InsertOrReplace(nodes, row)
  <1>1. later = (nodes \ {old}) \cup {row}
    BY DEF InsertOrReplace, Unique
  <1> HIDE DEF later
  <1>2. ASSUME NEW x \in later
        PROVE  Held(later, x)
    <2>1. PICK z \in nodes : z.parent = x.parent /\ z.type = x.type
      BY <1>1
    <2>2. Held(nodes, z)
      BY DEF Tree
    <2>3. \A y \in nodes : \E v \in later : v.node = y.node /\ v.type = y.type
      BY <1>1
    <2> QED
      BY <2>1, <2>2, <2>3 DEF Held
  <1>3. Apart(later)
    BY <1>1 DEF Tree, Apart
  <1>4. ASSUME NEW S \in SUBSET Dirs(later), Ring(S)
        PROVE  S = {}
    <2> DEFINE T == IF row \in S THEN (S \ {row}) \cup {old} ELSE S
    <2>1. T \in SUBSET Dirs(nodes)
      BY <1>1 DEF Dirs
    <2>2. \A x \in T : \E v \in S : v.parent = x.parent
      OBVIOUS
    <2>3. \A v \in S : \E x \in T : x.node = v.node
      BY <1>1 DEF Dirs
    <2>4. Ring(T)
      <3> HIDE DEF T
      <3> QED
        BY <1>4, <2>2, <2>3 DEF Ring
    <2>5. T = {}
      BY <2>1, <2>4 DEF Tree, Ringless
    <2> QED
      BY <2>5
  <1> QED
    BY <1>2, <1>3, <1>4 DEF Tree, Ringless, later

\* The rows of a node that is no directory, or an empty one, leave together.
LEMMA DropTree ==
    ASSUME NEW nodes, Tree(nodes), Family(nodes), NEW at \in nodes, at.type # "LINK_PAYLOAD",
           at.type = "DIR" => \A x \in nodes : x.parent # at.node
    PROVE  Tree({x \in nodes : x.node # at.node})
  <1> DEFINE later == {x \in nodes : x.node # at.node}
  <1>1. ASSUME NEW x \in later, NEW y \in nodes, y.node = x.parent,
               y.type = IF x.type = "LINK_PAYLOAD" THEN "LINK" ELSE "DIR"
        PROVE  y \in later
    <2> SUFFICES ASSUME y.node = at.node PROVE FALSE
      OBVIOUS
    <2>1. Kin(y, at) /\ x \in nodes
      BY DEF Family
    <2>2. CASE x.type = "LINK_PAYLOAD"
      BY <1>1, <2>2 DEF Family
    <2>3. CASE x.type # "LINK_PAYLOAD"
      BY <1>1, <2>1, <2>3 DEF Kin
    <2> QED
      BY <2>2, <2>3
  <1>2. \A x \in later : Held(later, x)
    BY <1>1 DEF Tree, Held
  <1>3. Apart(later)
    BY DEF Tree, Apart
  <1>4. Dirs(later) \subseteq Dirs(nodes)
    BY DEF Dirs
  <1> QED
    BY <1>2, <1>3, <1>4 DEF Tree, Ringless

\* A prefix of a path, and the directory of a prefix.
LEMMA PrefixType ==
    ASSUME NEW path \in Seq(Names), NEW i \in 0 .. Len(path)
    PROVE  /\ SubSeq(path, 1, i) \in Seq(Names) /\ Len(SubSeq(path, 1, i)) = i
           /\ i # 0 => SubSeq(path, 1, i) # <<>>
                       /\ Dirname(SubSeq(path, 1, i)) = SubSeq(path, 1, i - 1)
  <1> DEFINE s == SubSeq(path, 1, i)
  <1>1. s \in Seq(Names) /\ Len(s) = i
    OBVIOUS
  <1>2. ASSUME i # 0
        PROVE  SubSeq(s, 1, i - 1) = SubSeq(path, 1, i - 1)
    <2>1. \A k \in 1 .. i : s[k] = path[k]
      OBVIOUS
    <2> HIDE DEF s
    <2>2. /\ SubSeq(s, 1, i - 1) = [k \in 1 .. i - 1 |-> s[k]]
          /\ SubSeq(path, 1, i - 1) = [k \in 1 .. i - 1 |-> path[k]]
      BY <1>1, <1>2
    <2> QED
      BY <2>1, <2>2
  <1> QED
    BY <1>1, <1>2 DEF Dirname

\* Two resolved rows of one node are one row, reached by one path.
LEMMA OneNode ==
    ASSUME NEW nodes, Family(nodes), Unique(nodes),
           NEW p \in Seq(Names), p # <<>>, NEW q \in Seq(Names), q # <<>>,
           Resolve(nodes, p).r = "OK", Resolve(nodes, q).r = "OK",
           Resolve(nodes, p).row.node = Resolve(nodes, q).row.node
    PROVE  p = q
  <1> DEFINE x == Resolve(nodes, p).row
             y == Resolve(nodes, q).row
  <1>1. x \in nodes /\ y \in nodes /\ x.type # "LINK_PAYLOAD" /\ y.type # "LINK_PAYLOAD"
    BY ResolvedRow
  <1>2. x.type = y.type
    BY <1>1 DEF Family, Kin
  <1>3. x = y
    BY <1>1, <1>2 DEF Unique
  <1> QED
    BY <1>3, OnePath

\* A row that goes to another directory, or gets another name, in what is left of
\* the table when a node in its way is gone.  No directory goes below itself: the
\* directories on the path to its new place are reached by one path each.
LEMMA MoveTree ==
    ASSUME NEW nodes, Family(nodes), Unique(nodes),
           NEW from \in Seq(Names), from # <<>>, NEW to \in Seq(Names), to # <<>>,
           ~ \E n \in 1 .. Len(to) : from = SubSeq(to, 1, n),
           Resolve(nodes, from).r = "OK",
           Resolve(nodes, Dirname(to)).r = "OK", Resolve(nodes, Dirname(to)).row.type = "DIR",
           NEW row, row = [Resolve(nodes, from).row EXCEPT
                              !.parent = Resolve(nodes, Dirname(to)).row.node,
                              !.name = Basename(to)],
           NEW left, left \subseteq nodes, Tree(left),
           \A x \in nodes \ left : /\ Resolve(nodes, to).r = "OK"
                                   /\ x.node = Resolve(nodes, to).row.node,
           Lookup(left, row.parent, row.name) = {}
    PROVE  Tree(InsertOrReplace(left, row))
  <1> DEFINE src == Resolve(nodes, from).row
             dir == Resolve(nodes, Dirname(to)).row
             later == InsertOrReplace(left, row)
             pre(i) == SubSeq(to, 1, i)
  <1>1. src \in nodes /\ src \in NodeRow /\ src.node # 0 /\ src.type # "LINK_PAYLOAD"
    <2>1. src \in nodes /\ src.node # 0 /\ src.type # "LINK_PAYLOAD"
      BY ResolvedRow
    <2> QED
      BY <2>1 DEF Family
  <1>2. /\ row.node = src.node /\ row.type = src.type
        /\ row.parent = dir.node /\ row.name = Basename(to)
    BY <1>1 DEF NodeRow
  <1>3. Len(to) \in Nat \ {0} /\ Dirname(to) = pre(Len(to) - 1)
        /\ Dirname(to) \in Seq(Names) /\ Len(Dirname(to)) = Len(to) - 1
    BY DirnameType DEF Dirname
  <1>4. \A i \in 1 .. Len(to) : from # pre(i)
    OBVIOUS
  <1>5. ASSUME NEW i \in 1 .. Len(to), Resolve(nodes, pre(i)).r = "OK"
        PROVE  Resolve(nodes, pre(i)).row.node # src.node
    <2>1. pre(i) \in Seq(Names) /\ pre(i) # <<>>
      BY PrefixType
    <2> HIDE DEF pre
    <2> QED
      BY <1>4, <1>5, <2>1, OneNode
  <1>6. pre(Len(to)) = to
    BY <1>3
  <1>7. src \in left
    <2> SUFFICES ASSUME src \in nodes \ left PROVE FALSE
      BY <1>1
    <2>1. Resolve(nodes, to).r = "OK" /\ src.node = Resolve(nodes, to).row.node
      OBVIOUS
    <2> HIDE DEF pre
    <2> QED
      BY <1>3, <1>5, <1>6, <2>1
  <1>8. dir = Root \/ dir \in nodes
    BY ResolvedRow
  <1>9. ASSUME dir \in nodes
        PROVE  dir \in left /\ dir.node # src.node
    <2>1. Dirname(to) # <<>>
      <3>1. dir # Root
        BY <1>9 DEF Family, Root
      <3> QED
        BY <3>1 DEF Resolve, Found
    <2>2. Len(to) - 1 \in 1 .. Len(to)
      BY <1>3, <2>1
    <2>3. dir.node # src.node
      <3> HIDE DEF pre
      <3> QED
        BY <1>3, <1>5, <2>2
    <2>4. Dirname(to) # to
      BY <1>3
    <2>5. ASSUME dir \in nodes \ left PROVE FALSE
      BY <1>3, <2>1, <2>4, <2>5, OneNode
    <2> QED
      BY <1>9, <2>3, <2>5
  <1>10. \A y \in left : \E z \in later : z.node = y.node /\ z.type = y.type
    <2>1. \A y \in left : y \in later \/ (y.node = row.node /\ y.type = row.type)
      BY DEF InsertOrReplace
    <2>2. row \in later
      BY DEF InsertOrReplace
    <2> HIDE DEF later
    <2> QED
      BY <2>1, <2>2
  <1>11. \A x \in later : x = row \/ (x \in left /\ ~ (x.node = row.node /\ x.type = row.type))
    BY DEF InsertOrReplace
  <1> HIDE DEF later
  <1>12. ASSUME NEW x \in later
         PROVE  Held(later, x)
    <2>1. CASE x = row
      <3>1. CASE dir = Root
        BY <1>2, <2>1, <3>1 DEF Held, Root
      <3>2. CASE dir \in nodes
        <4>1. dir \in left /\ dir.type = "DIR"
          BY <1>9, <3>2
        <4> QED
          BY <1>1, <1>2, <1>10, <2>1, <4>1 DEF Held
      <3> QED
        BY <1>8, <3>1, <3>2
    <2>2. CASE x \in left
      BY <1>10, <2>2 DEF Tree, Held
    <2> QED
      BY <1>11, <2>1, <2>2
  <1>13. Apart(later)
    BY <1>11 DEF Tree, Apart, Lookup
  <1>14. ASSUME NEW S \in SUBSET Dirs(later), Ring(S)
         PROVE  S = {}
    <2> DEFINE On(i) == /\ Resolve(nodes, pre(i)).r = "OK"
                        /\ Resolve(nodes, pre(i)).row.type = "DIR"
                        /\ \E z \in S : z.node = Resolve(nodes, pre(i)).row.node
               Bad == {i \in 0 .. Len(to) - 1 : On(i)}
    <2>1. CASE row \notin S
      <3>1. S \in SUBSET Dirs(left)
        BY <1>11, <2>1 DEF Dirs
      <3> QED
        BY <1>14, <3>1 DEF Tree, Ringless
    <2>2. CASE row \in S
      <3>1. Len(to) - 1 \in Bad
        <4>1. \E z \in S : z.node = dir.node
          BY <1>2, <1>14, <2>2 DEF Ring
        <4> QED
          BY <1>3, <4>1
      <3>2. PICK i \in Bad : \A k \in Bad : i <= k
        <4>1. Bad \subseteq Nat
          BY <1>3
        <4> HIDE DEF Bad
        <4> QED
          BY <3>1, <4>1, NatMin
      <3>3. i \in 0 .. Len(to) - 1 /\ On(i)
        BY <3>2
      <3>4. PICK z \in S : z.node = Resolve(nodes, pre(i)).row.node
        BY <3>3
      <3>5. z \in later /\ z.type = "DIR"
        BY DEF Dirs
      <3>6. z.node # 0
        BY <1>1, <1>2, <1>11, <3>5 DEF Family
      <3>7. i # 0
        <4>1. SubSeq(to, 1, 0) = <<>>
          OBVIOUS
        <4>2. Resolve(nodes, <<>>).row.node = 0
          BY DEF Resolve, Found, Root
        <4>3. ASSUME i = 0 PROVE pre(i) = <<>>
          BY <4>1, <4>3
        <4> HIDE DEF pre
        <4> QED
          BY <3>4, <3>6, <4>2, <4>3
      <3>8. /\ i \in 1 .. Len(to) /\ i - 1 \in 0 .. Len(to) - 1
            /\ pre(i) \in Seq(Names) /\ pre(i) # <<>> /\ Dirname(pre(i)) = pre(i - 1)
        BY <1>3, <3>3, <3>7, PrefixType
      <3> DEFINE d == Resolve(nodes, pre(i)).row
                 e == Resolve(nodes, pre(i - 1)).row
      <3> HIDE DEF pre
      <3>9. /\ d \in nodes /\ d.type = "DIR" /\ d.parent = e.node
            /\ Resolve(nodes, pre(i - 1)).r = "OK" /\ e.type = "DIR"
        BY <3>3, <3>8, ResolvedRow
      <3>10. z # row
        BY <1>2, <1>5, <3>3, <3>4, <3>8
      <3>11. z = d
        BY <1>11, <3>4, <3>5, <3>9, <3>10 DEF Unique
      <3>12. \E y \in S : y.node = e.node
        BY <1>14, <3>9, <3>11 DEF Ring
      <3>13. i - 1 \in Bad
        BY <3>8, <3>9, <3>12
      <3>14. i \in Nat /\ i - 1 \in Nat
        BY <3>3, <3>8, <1>3
      <3> HIDE DEF Bad
      <3> QED
        BY <3>2, <3>13, <3>14
    <2> QED
      BY <2>1, <2>2
  <1> QED
    BY <1>12, <1>13, <1>14 DEF Tree, Ringless, later

-----------------------------------------------------------------------------
(* The rows a machine knows: of its table, of its records, of its call. *)

Entries(disk) == {disk[b].entry : b \in {c \in Block : disk[c].op \in EntryOp}}

\* The row that the call in progress has yet to write a record for.
Pending == IF job.kind \in {"link", "move"} THEN {job.row} ELSE {}

\* What a process knows, whatever it replays and creates, are rows of a file system;
\* the ids of those in memory, and the root's, are below the counter.
Rooted(m, more) ==
    /\ Family(m.nodes \cup Entries(m.disk) \cup more)
    /\ Unique(m.nodes)
    /\ \A x \in m.nodes \cup more \cup {Root} : x.node < m.next_node_id

\* From f to w a record is written: its entry is known, the table stays.
Recorded(f, w, op, entry) ==
    /\ w.nodes = f.nodes /\ w.next_node_id \in Nat /\ w.next_node_id >= f.next_node_id
    /\ Entries(w.disk) \subseteq Entries(f.disk) \cup {entry}
    /\ op \notin EntryOp => Entries(w.disk) \subseteq Entries(f.disk)

\* A write does that, whether or not a block is granted.
LEMMA WriteKnown ==
    ASSUME NEW f, Good(f), NEW op \in LogOp, NEW node \in Nat, NEW fill \in Nat,
           NEW offset \in Nat, NEW entry \in NodeRow \cup {NoEntry},
           NEW w, w = Write(f, op, node, fill, offset, entry)
    PROVE  Recorded(f, w, op, entry)
  <1> DEFINE written == Write(f, op, node, fill, offset, entry)
  <1>1. w.nodes = f.nodes /\ w.next_node_id \in Nat /\ w.next_node_id >= f.next_node_id
    <2>1. /\ written.nodes = f.nodes /\ written.next_node_id \in Nat
          /\ written.next_node_id >= f.next_node_id
      BY WriteIds
    <2>2. w = written
      OBVIOUS
    <2> HIDE DEF written
    <2> QED
      BY <2>1, <2>2
  <1>2. \/ w.disk = f.disk
        \/ \E b \in Block : /\ w.disk[b].op = op /\ w.disk[b].entry = entry
                            /\ \A c \in Block : c # b => w.disk[c] = f.disk[c]
    BY WriteCases
  <1>3. ASSUME NEW c \in Block, w.disk[c].op \in EntryOp
        PROVE  \/ f.disk[c].op \in EntryOp /\ f.disk[c].entry = w.disk[c].entry
               \/ op \in EntryOp /\ entry = w.disk[c].entry
    BY <1>2, <1>3
  <1> QED
    BY <1>1, <1>3 DEF Entries, Recorded

\* From m to n the rows in `new` become known, and no other.
Learns(m, more, n, rest, new) ==
    /\ Family(m.nodes \cup Entries(m.disk) \cup more \cup new)
    /\ m.next_node_id \in Nat /\ n.next_node_id \in Nat /\ n.next_node_id >= m.next_node_id
    /\ \A x \in new : x.node \in Nat /\ x.node < n.next_node_id
    /\ n.nodes \cup rest \subseteq m.nodes \cup more \cup new
    /\ Entries(n.disk) \subseteq m.nodes \cup Entries(m.disk) \cup more \cup new
    /\ Unique(n.nodes)

\* Such a step leaves the rows rooted.
LEMMA RootedStep ==
    ASSUME NEW m, NEW n, NEW more, NEW rest, NEW new, Rooted(m, more),
           Learns(m, more, n, rest, new)
    PROVE  Rooted(n, rest)
  <1> DEFINE known == m.nodes \cup Entries(m.disk) \cup more \cup new
  <1>1. n.nodes \cup Entries(n.disk) \cup rest \subseteq known
    BY DEF Learns
  <1>2. Family(n.nodes \cup Entries(n.disk) \cup rest)
    <2>1. Family(known)
      BY DEF Learns
    <2> HIDE DEF known
    <2> QED
      BY <1>1, <2>1, FamilySubset
  <1>3. ASSUME NEW x \in n.nodes \cup rest \cup {Root}
        PROVE  x.node < n.next_node_id
    <2>1. CASE x \in new
      BY <2>1 DEF Learns
    <2>2. CASE x \in m.nodes \cup more \cup {Root}
      <3>1. x.node < m.next_node_id
        BY <2>2 DEF Rooted
      <3>2. x.node \in Nat
        <4>1. x = Root \/ x \in known
          BY <2>2
        <4>2. \A y \in known : y \in NodeRow
          BY DEF Family, Learns
        <4> QED
          BY <4>1, <4>2 DEF Root, NodeRow
      <3> QED
        BY <3>1, <3>2 DEF Learns
    <2>3. x = Root \/ x \in m.nodes \cup more \cup new
      BY DEF Learns
    <2> QED
      BY <2>1, <2>2, <2>3
  <1> QED
    BY <1>2, <1>3 DEF Rooted, Learns

\* The next node id is new to the table and to the log of a mounted machine.
LEMMA FreshId ==
    ASSUME NEW m, Sound(m), Rooted(m, {})
    PROVE  /\ m.next_node_id \in Nat \ {0}
           /\ \A x \in m.nodes \cup Entries(m.disk) : x.node # m.next_node_id
  <1>1. m.next_node_id \in Nat /\ m.nodes \subseteq NodeRow
    BY DEF Sound, Good, Machine
  <1>2. m.next_node_id # 0
    <2>1. Root.node = 0
      BY DEF Root
    <2>2. Root.node < m.next_node_id
      BY DEF Rooted
    <2> QED
      BY <1>1, <2>1, <2>2
  <1>3. ASSUME NEW x \in m.nodes
        PROVE  x.node # m.next_node_id
    BY <1>1 DEF Rooted, NodeRow
  <1>4. ASSUME NEW b \in Block, m.disk[b].op \in EntryOp
        PROVE  m.disk[b].entry.node # m.next_node_id
    <2>1. m.disk[b].entry.node = m.disk[b].node /\ m.disk[b].entry \in NodeRow
      BY <1>4 DEF Sound, DiskSound
    <2>2. b \in Valid(m.disk)
      BY <1>4 DEF Valid, EntryOp
    <2>3. m.blocks[b].op # "NONE"
      <3>1. b \in Nat /\ m.next_block_id \in Nat
        BY LastBlockAssumption DEF Block, Sound, Good
      <3> QED
        BY <2>2, <3>1 DEF Sound
    <2>4. m.disk[b].node < m.next_node_id
      BY <2>3 DEF Sound, MirrorsAll, Mirrors
    <2> QED
      BY <1>1, <2>1, <2>4 DEF NodeRow
  <1> QED
    BY <1>1, <1>2, <1>3, <1>4 DEF Entries

-----------------------------------------------------------------------------
(* The calls. *)

\* From m to n the rows stay rooted, with `rest` to be written, and a tree a tree.
Grown(m, n, rest) == Rooted(n, rest) /\ (Tree(m.nodes) => Tree(n.nodes))

\* A return code is no row.
LEMMA ReturnGrown ==
    ASSUME NEW m \in Machine, NEW more, Rooted(m, more), NEW r
    PROVE  Grown(m, Return(m, r), {})
  <1> DEFINE n == Return(m, r)
  <1>1. /\ n.nodes = m.nodes /\ n.disk = m.disk
        /\ n.next_node_id = m.next_node_id /\ m.next_node_id \in Nat
    BY DEF Return, Machine
  <1> HIDE DEF n
  <1>2. m.nodes \cup Entries(m.disk) \cup more \cup {} = m.nodes \cup Entries(m.disk) \cup more
    OBVIOUS
  <1>3. Rooted(n, {})
    <2>1. Family(m.nodes \cup Entries(m.disk) \cup more \cup {}) /\ Unique(n.nodes)
      BY <1>1, <1>2 DEF Rooted
    <2>2. /\ n.nodes \cup {} \subseteq m.nodes \cup more \cup {}
          /\ Entries(n.disk) \subseteq m.nodes \cup Entries(m.disk) \cup more \cup {}
          /\ \A x \in {} : x.node \in Nat /\ x.node < n.next_node_id
          /\ n.next_node_id \in Nat /\ n.next_node_id >= m.next_node_id
      BY <1>1
    <2>3. Learns(m, more, n, {}, {})
      BY <1>1, <2>1, <2>2 DEF Learns
    <2> QED
      BY <2>3, RootedStep
  <1> QED
    BY <1>1, <1>3 DEF Grown, n

\* A row of a new node, and its place.
NewIn(m, row, type) ==
    /\ row \in NodeRow /\ row.node = m.next_node_id /\ row.type = type
    /\ row.parent # row.node
    /\ \A x \in m.nodes : x.node # row.node
    /\ Family(m.nodes \cup Entries(m.disk) \cup {row})
    /\ InsertOrReplace(m.nodes, row) = m.nodes \cup {row}
    /\ Tree(m.nodes) => Tree(m.nodes \cup {row})

\* Such is the row that a creation makes.
LEMMA NewRow ==
    ASSUME NEW m, Sound(m), Rooted(m, {}), NEW path \in Paths,
           NEW type \in {"FILE", "DIR", "LINK"}, NEW now \in Nat,
           InitNode(m, path, type, now).r = "OK",
           NEW row, row = InitNode(m, path, type, now).row
    PROVE  NewIn(m, row, type)
  <1> DEFINE there == Resolve(m.nodes, path)
             dir == Resolve(m.nodes, Dirname(path))
  <1>1. m \in Machine /\ path \in Seq(Names) /\ path # <<>>
    BY PathsAssumption DEF Sound, Good
  <1>2. row \in NodeRow /\ row.node = m.next_node_id /\ row.type = type
    BY <1>1, InitNodeType
  <1>3. Family(m.nodes \cup Entries(m.disk)) /\ Family(m.nodes)
    <2>1. Family(m.nodes \cup Entries(m.disk) \cup {})
      BY DEF Rooted
    <2> QED
      BY <2>1, FamilySubset
  <1>4. m.next_node_id \in Nat \ {0} /\ \A x \in m.nodes \cup Entries(m.disk) : x.node # m.next_node_id
    BY FreshId
  <1>5. /\ there.r # "OK" /\ dir.r = "OK" /\ dir.row.type = "DIR"
        /\ row.parent = dir.row.node /\ row.name = Basename(path)
    BY DEF InitNode, Found, Missing
  <1>6. /\ dir.row = Root \/ dir.row \in m.nodes
        /\ Lookup(m.nodes, row.parent, row.name) = {}
    <2>1. dir.row = Root \/ dir.row \in m.nodes
      BY <1>1, <1>3, <1>5, ResolvedRow
    <2>2. Lookup(m.nodes, dir.row.node, Basename(path)) = {}
      BY <1>1, <1>3, <1>5, ResolvedRow
    <2> QED
      BY <1>5, <2>1, <2>2
  <1>7. row.parent = 0 \/ \E y \in Dirs(m.nodes) : y.node = row.parent
    BY <1>5, <1>6 DEF Dirs, Root
  <1>8. row.parent # row.node
    BY <1>2, <1>4, <1>7 DEF Dirs
  <1>9. Family(m.nodes \cup Entries(m.disk) \cup {row})
    BY <1>2, <1>3, <1>4, FamilyNew
  <1>10. InsertOrReplace(m.nodes, row) = m.nodes \cup {row}
    BY <1>2, <1>4 DEF InsertOrReplace
  <1>11. Tree(m.nodes) => Tree(m.nodes \cup {row})
    BY <1>2, <1>4, <1>6, <1>7, PlantTree
  <1> QED
    BY <1>2, <1>4, <1>8, <1>9, <1>10, <1>11 DEF NewIn

\* A call makes f of the machine m, its table and counter, before it writes `row`; the
\* rows in `new` are new, those in `rest` remain to be written, and a tree stays one.
Enters(m, more, f, row, rest, new) ==
    /\ Good(f) /\ f.disk = m.disk /\ f.next_node_id >= m.next_node_id
    /\ row \in NodeRow /\ row \in m.nodes \cup more \cup new
    /\ Family(m.nodes \cup Entries(m.disk) \cup more \cup new)
    /\ \A x \in new : x.node < f.next_node_id
    /\ f.nodes \cup rest \subseteq m.nodes \cup more \cup new
    /\ Unique(f.nodes) /\ (Tree(m.nodes) => Tree(f.nodes))

\* The record with the row is written.
LEMMA EnterGrown ==
    ASSUME NEW m, Sound(m), NEW more, Rooted(m, more), NEW f, NEW op \in EntryOp,
           NEW row, NEW rest, NEW new, Enters(m, more, f, row, rest, new),
           NEW n, n = WriteEntry(f, op, row)
    PROVE  Grown(m, n, rest) /\ n.nodes = f.nodes
  <1>1. m.next_node_id \in Nat /\ f.next_node_id \in Nat
    BY DEF Sound, Good, Machine, Enters
  <1>2. Recorded(f, n, op, row)
    <2>1. Good(f) /\ op \in LogOp /\ row.node \in Nat /\ 0 \in Nat
      BY DEF LogOp, EntryOp, NodeRow, Enters
    <2>2. row \in NodeRow \cup {NoEntry} /\ n = Write(f, op, row.node, 0, 0, row)
      BY DEF Enters, WriteEntry
    <2> QED
      BY <2>1, <2>2, WriteKnown
  <1>3. \A x \in new : x.node \in Nat /\ x.node < n.next_node_id
    <2>1. \A x \in new : x.node \in Nat
      BY DEF Family, NodeRow, Enters
    <2> QED
      BY <1>1, <1>2, <2>1 DEF Enters, Recorded
  <1>4. n.next_node_id >= m.next_node_id
    BY <1>1, <1>2 DEF Enters, Recorded
  <1>5. Learns(m, more, n, rest, new)
    BY <1>1, <1>2, <1>3, <1>4 DEF Learns, Enters, Recorded
  <1>6. Rooted(n, rest)
    BY <1>5, RootedStep
  <1> QED
    BY <1>2, <1>6 DEF Grown, Enters, Recorded

\* Creating a file or a directory.
LEMMA CreateGrown ==
    ASSUME NEW m, Sound(m), Rooted(m, {}), NEW path \in Paths,
           NEW type \in {"FILE", "DIR"}, NEW now \in Nat
    PROVE  Grown(m, Create(m, path, type, now), {})
  <1> DEFINE new == InitNode(m, path, type, now)
             row == new.row
             f == [m EXCEPT !.nodes = InsertOrReplace(@, row), !.next_node_id = @ + 1]
  <1>1. m \in Machine /\ m.next_node_id \in Nat /\ m.nodes \in SUBSET NodeRow
    BY DEF Sound, Good, Machine
  <1>2. CASE new.r # "OK"
    BY <1>1, <1>2, ReturnGrown DEF Create
  <1>3. CASE new.r = "OK"
    <2>1. NewIn(m, row, type)
      <3>1. type \in {"FILE", "DIR", "LINK"}
        OBVIOUS
      <3> QED
        BY <1>3, <3>1, NewRow
    <2>2. Create(m, path, type, now) = WriteEntry(f, "NODE", row)
      BY <1>3 DEF Create
    <2> HIDE DEF row
    <2>3. /\ f.nodes = m.nodes \cup {row} /\ f.disk = m.disk
          /\ f.next_node_id = m.next_node_id + 1
      BY <1>1, <2>1 DEF NewIn, Machine
    <2>4. Good(f)
      <3>1. /\ InsertOrReplace(m.nodes, row) \in SUBSET NodeRow
            /\ m.next_node_id + 1 \in Nat /\ m.next_node_id + 1 >= m.next_node_id
        BY <1>1, <2>1, InsertType DEF NewIn
      <3>2. f = [m EXCEPT !.nodes = InsertOrReplace(m.nodes, row),
                          !.next_node_id = m.next_node_id + 1]
        BY <1>1 DEF Machine
      <3> QED
        BY <3>1, <3>2, NodesSound DEF Sound
    <2>5. Unique(f.nodes)
      <3>1. f.nodes = InsertOrReplace(m.nodes, row)
        BY <1>1 DEF Machine
      <3> QED
        BY <3>1, InsertUnique DEF Rooted
    <2> HIDE DEF f
    <2>6. m.nodes \cup Entries(m.disk) \cup {} \cup {row} = m.nodes \cup Entries(m.disk) \cup {row}
      OBVIOUS
    <2>7. Enters(m, {}, f, row, {}, {row})
      BY <1>1, <2>1, <2>3, <2>4, <2>5, <2>6 DEF Enters, NewIn
    <2>8. "NODE" \in EntryOp
      BY DEF EntryOp
    <2> QED
      BY <2>2, <2>7, <2>8, EnterGrown
  <1> QED
    BY <1>2, <1>3

\* Setting a time.
LEMMA SetTimeGrown ==
    ASSUME NEW m, Sound(m), Rooted(m, {}), NEW path \in Paths, NEW mtime \in Nat
    PROVE  Grown(m, SetTimeOf(m, path, mtime), {})
  <1> DEFINE at == Resolve(m.nodes, path)
             row == [at.row EXCEPT !.mtime = mtime]
             f == [m EXCEPT !.nodes = InsertOrReplace(@, row)]
  <1>1. /\ m \in Machine /\ m.next_node_id \in Nat /\ m.nodes \in SUBSET NodeRow
        /\ path \in Seq(Names) /\ path # <<>>
    BY PathsAssumption DEF Sound, Good, Machine
  <1>2. CASE at.r # "OK" \/ at.row.mtime = mtime
    BY <1>1, <1>2, ReturnGrown DEF SetTimeOf
  <1>3. CASE at.r = "OK" /\ at.row.mtime # mtime
    <2>1. Family(m.nodes \cup Entries(m.disk)) /\ Family(m.nodes)
      <3>1. Family(m.nodes \cup Entries(m.disk) \cup {})
        BY DEF Rooted
      <3> QED
        BY <3>1, FamilySubset
    <2>2. at.row \in m.nodes /\ at.row.type # "LINK_PAYLOAD"
      BY <1>1, <1>3, <2>1, ResolvedRow
    <2>3. /\ row \in NodeRow /\ row.node = at.row.node /\ row.type = at.row.type
          /\ row.parent = at.row.parent /\ row.name = at.row.name
      <3>1. at.row \in NodeRow
        BY <1>1, <2>2
      <3> HIDE DEF at
      <3> QED
        BY <3>1 DEF NodeRow
    <2>4. SetTimeOf(m, path, mtime) = WriteEntry(f, "NODE", row)
      BY <1>3 DEF SetTimeOf
    <2> HIDE DEF at, row
    <2>5. /\ f.nodes = InsertOrReplace(m.nodes, row) /\ f.disk = m.disk
          /\ f.next_node_id = m.next_node_id
      BY <1>1 DEF Machine
    <2>6. Good(f)
      <3>1. InsertOrReplace(m.nodes, row) \in SUBSET NodeRow /\ m.next_node_id >= m.next_node_id
        BY <1>1, <2>3, InsertType
      <3>2. f = [m EXCEPT !.nodes = InsertOrReplace(m.nodes, row),
                          !.next_node_id = m.next_node_id]
        BY <1>1 DEF Machine
      <3>3. Sound([m EXCEPT !.nodes = InsertOrReplace(m.nodes, row),
                            !.next_node_id = m.next_node_id])
        BY <1>1, <3>1, NodesSound
      <3> QED
        BY <3>2, <3>3 DEF Sound
    <2> HIDE DEF f
    <2>7. Unique(f.nodes) /\ (Tree(m.nodes) => Tree(f.nodes))
      BY <2>2, <2>3, <2>5, InsertUnique, RetimeTree DEF Rooted
    <2>8. Family(m.nodes \cup Entries(m.disk) \cup {} \cup {row})
      <3>1. Family(m.nodes \cup Entries(m.disk) \cup {row})
        BY <2>1, <2>2, <2>3, FamilyAgain
      <3>2. m.nodes \cup Entries(m.disk) \cup {} \cup {row} = m.nodes \cup Entries(m.disk) \cup {row}
        OBVIOUS
      <3> QED
        BY <3>1, <3>2
    <2>9. /\ f.nodes \cup {} \subseteq m.nodes \cup {} \cup {row}
          /\ row.node < f.next_node_id
      BY <2>2, <2>3, <2>5 DEF InsertOrReplace, Rooted
    <2>10. Enters(m, {}, f, row, {}, {row})
      BY <1>1, <2>3, <2>5, <2>6, <2>7, <2>8, <2>9 DEF Enters
    <2>11. "NODE" \in EntryOp
      BY DEF EntryOp
    <2> QED
      BY <2>4, <2>10, <2>11, EnterGrown
  <1> QED
    BY <1>2, <1>3

\* What a deletion that is not refused leaves of the table.
Dropped(m, path) == {x \in m.nodes : x.node # Resolve(m.nodes, path).row.node}

\* The row of the node can be deleted: it is no directory, or an empty one.
Removable(m, path) ==
    LET at == Resolve(m.nodes, path)
    IN  at.r = "OK" /\ (at.row.type = "DIR" => \A x \in m.nodes : x.parent # at.row.node)

\* Deleting a node, with rows that remain to be written after it.
LEMMA DeleteGrown ==
    ASSUME NEW m, Sound(m), Rooted(m, {}), NEW path \in Paths, NEW rest,
           Family(m.nodes \cup Entries(m.disk) \cup {} \cup rest),
           \A x \in rest : x.node < m.next_node_id,
           NEW n, n = Delete(m, path)
    PROVE  \/ \E r \in Errno : n = Return(m, r)
           \/ /\ Removable(m, path) /\ n.nodes = Dropped(m, path)
              /\ Grown(m, n, rest)
  <1> DEFINE at == Resolve(m.nodes, path)
             f == DropNode(m, at.row.node)
  <1>1. /\ m \in Machine /\ m.next_node_id \in Nat /\ m.nodes \in SUBSET NodeRow
        /\ path \in Seq(Names) /\ path # <<>>
    BY PathsAssumption DEF Sound, Good, Machine
  <1>2. CASE at.r # "OK"
    <2>1. n = Return(m, at.r) /\ at.r \in Errno
      <3>1. at.r \in {"OK", "ENOENT", "EINVAL"}
        BY <1>1, ResolveType
      <3> QED
        BY <1>2, <3>1 DEF Delete, Errno
    <2> QED
      BY <2>1
  <1>3. CASE at.r = "OK" /\ at.row.type = "DIR" /\ \E x \in m.nodes : x.parent = at.row.node
    BY <1>3 DEF Delete, Errno
  <1>4. CASE at.r = "OK" /\ ~ (at.row.type = "DIR" /\ \E x \in m.nodes : x.parent = at.row.node)
    <2>1. Removable(m, path) /\ n = WriteEntry(f, "DELETE", at.row)
      BY <1>4 DEF Delete, Removable
    <2>2. Family(m.nodes)
      BY FamilySubset
    <2>3. at.row \in m.nodes /\ at.row.type # "LINK_PAYLOAD" /\ at.row \in NodeRow
      BY <1>1, <1>4, <2>2, ResolvedRow
    <2>4. f.nodes = Dropped(m, path) /\ f.disk = m.disk /\ f.next_node_id = m.next_node_id
      BY <1>1 DEF DropNode, Dropped, Machine
    <2>5. Good(f)
      <3>1. at.row.node \in Nat
        BY <2>3 DEF NodeRow
      <3> HIDE DEF at
      <3> QED
        BY <3>1, DropNodeSound DEF Sound
    <2>6. Tree(m.nodes) => Tree(Dropped(m, path))
      <3>1. at.row.type = "DIR" => \A x \in m.nodes : x.parent # at.row.node
        BY <1>4
      <3>2. Dropped(m, path) = {x \in m.nodes : x.node # at.row.node}
        BY DEF Dropped
      <3> HIDE DEF at
      <3> QED
        BY <2>2, <2>3, <3>1, <3>2, DropTree
    <2> HIDE DEF at, f
    <2>7. Unique(f.nodes)
      BY <2>4 DEF Rooted, Unique, Dropped
    <2>8. /\ f.nodes \cup rest \subseteq m.nodes \cup {} \cup rest
          /\ at.row \in m.nodes \cup {} \cup rest
      BY <2>3, <2>4 DEF Dropped
    <2>9. Enters(m, {}, f, at.row, rest, rest)
      BY <1>1, <2>3, <2>4, <2>5, <2>6, <2>7, <2>8 DEF Enters
    <2>10. "DELETE" \in EntryOp
      BY DEF EntryOp
    <2>11. Grown(m, n, rest) /\ n.nodes = f.nodes
      BY <2>1, <2>9, <2>10, EnterGrown
    <2> QED
      BY <2>1, <2>4, <2>11
  <1> QED
    BY <1>2, <1>3, <1>4

\* The row that a rename has yet to move has a place in the tree, once its name is free.
Fits(nodes, row) ==
    Tree(nodes) /\ Lookup(nodes, row.parent, row.name) = {}
    => Tree(InsertOrReplace(nodes, row))

\* Moving a row that is in the table or remains to be written.
LEMMA MoveRowGrown ==
    ASSUME NEW m, Sound(m), NEW more, Rooted(m, more), NEW row, NEW new,
           row \in more \cup new, row \in NodeRow,
           Family(m.nodes \cup Entries(m.disk) \cup more \cup new),
           \A x \in new : x.node < m.next_node_id,
           MoveRow(m, row).r = "OK", Fits(m.nodes, row)
    PROVE  Grown(m, WriteEntry(MoveRow(m, row), "MOVE", row), {})
  <1> DEFINE f == MoveRow(m, row)
  <1>1. m \in Machine /\ m.next_node_id \in Nat /\ m.nodes \in SUBSET NodeRow
    BY DEF Sound, Good, Machine
  <1>2. Lookup(m.nodes, row.parent, row.name) = {}
    BY DEF MoveRow, Return
  <1>3. /\ f.nodes = InsertOrReplace(m.nodes, row) /\ f.disk = m.disk
        /\ f.next_node_id = m.next_node_id
    BY <1>1, <1>2 DEF MoveRow, Machine
  <1>4. Good(f)
    BY <1>1, MoveRowFades, FadesMirrors DEF Sound
  <1> HIDE DEF f
  <1>5. Unique(f.nodes) /\ (Tree(m.nodes) => Tree(f.nodes))
    BY <1>2, <1>3, InsertUnique DEF Rooted, Fits
  <1>6. f.nodes \cup {} \subseteq m.nodes \cup more \cup new
    BY <1>3 DEF InsertOrReplace
  <1>7. Enters(m, more, f, row, {}, new)
    BY <1>1, <1>3, <1>4, <1>5, <1>6 DEF Enters
  <1>8. "MOVE" \in EntryOp
    BY DEF EntryOp
  <1>9. Grown(m, WriteEntry(f, "MOVE", row), {})
    BY <1>7, <1>8, EnterGrown
  <1> QED
    BY <1>9 DEF f

-----------------------------------------------------------------------------
(* The invariant. *)

\* What every state satisfies: the rows of the table, of the log and of the call are
\* those of one file system, and a rename that goes on does not close a ring.
NInv == IInv /\ Rooted(fs, Pending) /\ (job.kind = "move" => Fits(fs.nodes, job.row))

\* What a step has to show beside IInv, of a mounted process.
Kept == /\ Rooted(fs', Pending') /\ (job'.kind = "move" => Fits(fs'.nodes, job'.row))
        /\ Tree(fs.nodes) => Tree(fs'.nodes)

\* A call that leaves nothing to write.
LEMMA DoneKept ==
    ASSUME job' = NoJob, Grown(fs, fs', {})
    PROVE  Kept
  BY DEF Kept, Grown, Pending, NoJob

\* A call that writes at most one record and is about a name.
LEMMA NameCallKept ==
    ASSUME NInv, NEW path \in Paths,
           SetFile(path) \/ SetDir(path) \/ SetTime(path) \/ DelNode(path)
    PROVE  Kept
  <1>1. mode = "mounted" /\ job = NoJob /\ job' = NoJob
    BY DEF SetFile, SetDir, SetTime, DelNode, Begin
  <1>2. Sound(fs) /\ fs \in Machine /\ Rooted(fs, {})
    BY <1>1 DEF NInv, IInv, Typed, Pending, NoJob
  <1>3. CASE SetFile(path) \/ SetDir(path)
    <2>1. \E now \in Times, type \in {"FILE", "DIR"} : fs' = Create(fs, path, type, now)
      BY <1>3 DEF SetFile, SetDir
    <2> QED
      BY <1>1, <1>2, <2>1, CreateGrown, DoneKept, TimesAssumption
  <1>4. CASE SetTime(path)
    <2>1. \E mtime \in Times : fs' = SetTimeOf(fs, path, mtime)
      BY <1>4 DEF SetTime
    <2> QED
      BY <1>1, <1>2, <2>1, SetTimeGrown, DoneKept, TimesAssumption
  <1>5. CASE DelNode(path)
    <2>1. fs' = Delete(fs, path)
      BY <1>5 DEF DelNode
    <2>2. Family(fs.nodes \cup Entries(fs.disk) \cup {} \cup {})
      <3>1. Family(fs.nodes \cup Entries(fs.disk) \cup {})
        BY <1>2 DEF Rooted
      <3> QED
        BY <3>1, FamilySubset
    <2>3. \A x \in {} : x.node < fs.next_node_id
      OBVIOUS
    <2>4. (\E r \in Errno : fs' = Return(fs, r)) \/ Grown(fs, fs', {})
      BY <1>2, <2>1, <2>2, <2>3, DeleteGrown
    <2> QED
      BY <1>1, <1>2, <2>4, ReturnGrown, DoneKept
  <1> QED
    BY <1>3, <1>4, <1>5

\* The first part of a link.
LEMMA SetLinkKept ==
    ASSUME NInv, NEW path \in Paths, NEW target \in Names, SetLink(path, target)
    PROVE  Kept
  <1>1. mode = "mounted" /\ job = NoJob
    BY DEF SetLink, Begin
  <1>2. /\ Sound(fs) /\ fs \in Machine /\ Rooted(fs, {})
        /\ fs.next_node_id \in Nat /\ fs.nodes \in SUBSET NodeRow
    BY <1>1 DEF NInv, IInv, Typed, Pending, NoJob, Machine
  <1>3. PICK now \in Times : 
          LET new     == InitNode(fs, path, "LINK", now)
              payload == [node |-> new.row.node, parent |-> new.row.node,
                          type |-> "LINK_PAYLOAD", name |-> target, mtime |-> 0]
          IN  IF new.r # "OK" THEN fs' = Return(fs, new.r) /\ UNCHANGED job
              ELSE /\ fs' = WriteEntry([fs EXCEPT
                              !.nodes = InsertOrReplace(InsertOrReplace(@, new.row), payload),
                              !.next_node_id = @ + 1], "NODE", new.row)
                   /\ job' = IF fs'.r = "OK" THEN [kind |-> "link", row |-> payload]
                             ELSE NoJob
    BY DEF SetLink
  <1> DEFINE new == InitNode(fs, path, "LINK", now)
             row == new.row
             payload == [node |-> row.node, parent |-> row.node,
                         type |-> "LINK_PAYLOAD", name |-> target, mtime |-> 0]
             both == InsertOrReplace(InsertOrReplace(fs.nodes, row), payload)
             f == [fs EXCEPT !.nodes = both, !.next_node_id = @ + 1]
  <1>4. CASE new.r # "OK"
    BY <1>1, <1>2, <1>3, <1>4, ReturnGrown, DoneKept
  <1>5. CASE new.r = "OK"
    <2>1. /\ fs' = WriteEntry(f, "NODE", row)
          /\ job' = NoJob \/ job' = [kind |-> "link", row |-> payload]
      BY <1>3, <1>5
    <2>2. NewIn(fs, row, "LINK")
      <3>1. now \in Nat
        BY TimesAssumption
      <3> QED
        BY <1>2, <1>5, <3>1, NewRow
    <2> HIDE DEF row
    <2>3. /\ payload \in NodeRow /\ payload.node = row.node /\ payload.parent = row.node
          /\ payload.type = "LINK_PAYLOAD"
      BY <2>2 DEF NodeRow, NodeType, NewIn
    <2> HIDE DEF payload
    <2>4. both = fs.nodes \cup {row, payload} /\ both \in SUBSET NodeRow
      <3>1. \A x \in fs.nodes \cup {row} : x.node # payload.node \/ x.type # payload.type
        BY <2>2, <2>3 DEF NewIn
      <3>2. both = fs.nodes \cup {row} \cup {payload}
        BY <2>2, <3>1 DEF InsertOrReplace, NewIn
      <3> QED
        BY <1>2, <2>2, <2>3, <3>2 DEF NewIn
    <2>5. Unique(both)
      BY <1>2, InsertUnique DEF Rooted
    <2> HIDE DEF both
    <2>6. f.nodes = both /\ f.disk = fs.disk /\ f.next_node_id = fs.next_node_id + 1
      BY <1>2 DEF Machine
    <2>7. Good(f)
      <3>1. f = [fs EXCEPT !.nodes = both, !.next_node_id = fs.next_node_id + 1]
        BY <1>2 DEF Machine
      <3>2. Sound([fs EXCEPT !.nodes = both, !.next_node_id = fs.next_node_id + 1])
        <4>1. fs.next_node_id + 1 \in Nat /\ fs.next_node_id + 1 >= fs.next_node_id
          BY <1>2
        <4> QED
          BY <1>2, <2>4, <4>1, NodesSound
      <3> QED
        BY <3>1, <3>2 DEF Sound
    <2> HIDE DEF f
    <2>8. Family(fs.nodes \cup Entries(fs.disk) \cup {} \cup {row, payload})
      <3> DEFINE rows == fs.nodes \cup Entries(fs.disk) \cup {row}
      <3>1. Family(rows) /\ row \in rows /\ row.type = "LINK"
        BY <2>2 DEF NewIn
      <3>2. rows \cup {payload} = fs.nodes \cup Entries(fs.disk) \cup {} \cup {row, payload}
        OBVIOUS
      <3> HIDE DEF rows
      <3> QED
        BY <2>3, <3>1, <3>2, FamilyPayload
    <2>9. ASSUME Tree(fs.nodes) PROVE Tree(both)
      <3> DEFINE nodes == fs.nodes \cup {row}
      <3>1. Tree(nodes) /\ row \in nodes /\ row.type = "LINK"
        BY <2>2, <2>9 DEF NewIn
      <3>2. row.node # 0
        BY <2>2 DEF NewIn, Family
      <3>3. \A x \in nodes : x.parent # row.node
        BY <2>2, <2>9, <3>2, ParentKnown DEF NewIn
      <3>4. both = nodes \cup {payload}
        BY <2>4
      <3> HIDE DEF nodes
      <3> QED
        BY <2>3, <3>1, <3>3, <3>4, PayloadTree
    <2>10. ASSUME NEW rest, rest \in {{}, {payload}}
           PROVE  Grown(fs, fs', rest)
      <3>1. f.nodes \cup rest \subseteq fs.nodes \cup {} \cup {row, payload}
        BY <2>4, <2>6, <2>10
      <3>2. Enters(fs, {}, f, row, rest, {row, payload})
        BY <1>2, <2>2, <2>3, <2>5, <2>6, <2>7, <2>8, <2>9, <3>1 DEF Enters, NewIn
      <3>3. "NODE" \in EntryOp
        BY DEF EntryOp
      <3> QED
        BY <1>2, <2>1, <3>2, <3>3, EnterGrown
    <2>11. CASE job' = NoJob
      BY <2>10, <2>11, DoneKept
    <2>12. CASE job' = [kind |-> "link", row |-> payload]
      <3>1. Grown(fs, fs', {payload})
        BY <2>10
      <3>2. job'.kind = "link" /\ Pending' = {payload}
        BY <2>12 DEF Pending
      <3> QED
        BY <3>1, <3>2 DEF Kept, Grown
    <2> QED
      BY <2>1, <2>11, <2>12
  <1> QED
    BY <1>4, <1>5

\* The first part of a rename: the row fits where it goes, whatever was in its way.
LEMMA MoveNodeKept ==
    ASSUME NInv, NEW from \in Paths, NEW to \in Paths, MoveNode(from, to)
    PROVE  Kept
  <1> DEFINE src == Resolve(fs.nodes, from)
             dir == Resolve(fs.nodes, Dirname(to))
             row == [src.row EXCEPT !.parent = dir.row.node, !.name = Basename(to)]
             moved == MoveRow(fs, row)
  <1>1. mode = "mounted" /\ job = NoJob
    BY DEF MoveNode, Begin
  <1>2. /\ Sound(fs) /\ fs \in Machine /\ Rooted(fs, {})
        /\ fs.next_node_id \in Nat /\ fs.nodes \in SUBSET NodeRow
    BY <1>1 DEF NInv, IInv, Typed, Pending, NoJob, Machine
  <1>3. /\ from \in Seq(Names) /\ from # <<>> /\ to \in Seq(Names) /\ to # <<>>
        /\ ~ \E n \in 1 .. Len(to) : from = SubSeq(to, 1, n)
    BY PathsAssumption DEF MoveNode
  <1>4. Family(fs.nodes \cup Entries(fs.disk)) /\ Family(fs.nodes) /\ Unique(fs.nodes)
    <2>1. Family(fs.nodes \cup Entries(fs.disk) \cup {}) /\ Unique(fs.nodes)
      BY <1>2 DEF Rooted
    <2> QED
      BY <2>1, FamilySubset
  <1>5. \/ job' = NoJob /\ \E r : fs' = Return(fs, r)
        \/ /\ src.r = "OK" /\ dir.r = "OK" /\ dir.row.type = "DIR"
           /\ \/ job' = NoJob /\ moved.r = "OK" /\ fs' = WriteEntry(moved, "MOVE", row)
              \/ job' = NoJob /\ moved.r \notin {"OK", "EEXIST"} /\ fs' = moved
              \/ /\ fs' = Delete(fs, to)
                 /\ job' = IF fs'.r = "OK" THEN [kind |-> "move", row |-> row] ELSE NoJob
    BY <1>1 DEF MoveNode
  <1>6. CASE job' = NoJob /\ \E r : fs' = Return(fs, r)
    BY <1>2, <1>6, ReturnGrown, DoneKept
  <1>7. ASSUME src.r = "OK", dir.r = "OK", dir.row.type = "DIR"
        PROVE  /\ row \in NodeRow /\ row.node < fs.next_node_id
               /\ Family(fs.nodes \cup Entries(fs.disk) \cup {} \cup {row})
               /\ Fits(fs.nodes, row)
               /\ Removable(fs, to) => Fits(Dropped(fs, to), row)
    <2>1. src.row \in fs.nodes /\ src.row \in NodeRow /\ src.row.type # "LINK_PAYLOAD"
      BY <1>2, <1>3, <1>4, <1>7, ResolvedRow
    <2>2. dir.row = Root \/ dir.row \in fs.nodes
      BY <1>3, <1>4, <1>7, ResolvedRow
    <2>3. Basename(to) \in Names
      BY <1>3, DirnameType
    <2>4. dir.row.node \in Nat
      BY <1>2, <2>2 DEF Root, NodeRow
    <2>5. /\ row \in NodeRow /\ row.node = src.row.node /\ row.type = src.row.type
      BY <2>1, <2>3, <2>4 DEF NodeRow
    <2>6. row.node < fs.next_node_id
      BY <1>2, <2>1, <2>5 DEF Rooted
    <2>7. Family(fs.nodes \cup Entries(fs.disk) \cup {} \cup {row})
      <3>1. Family(fs.nodes \cup Entries(fs.disk) \cup {row})
        BY <1>4, <2>1, <2>5, FamilyAgain
      <3>2. fs.nodes \cup Entries(fs.disk) \cup {} \cup {row} = fs.nodes \cup Entries(fs.disk) \cup {row}
        OBVIOUS
      <3> HIDE DEF row
      <3> QED
        BY <3>1, <3>2
    <2>8. ASSUME NEW left, left \subseteq fs.nodes,
                 \A x \in fs.nodes \ left : /\ Resolve(fs.nodes, to).r = "OK"
                                            /\ x.node = Resolve(fs.nodes, to).row.node
          PROVE  Fits(left, row)
      <3>1. row = [Resolve(fs.nodes, from).row EXCEPT
                      !.parent = Resolve(fs.nodes, Dirname(to)).row.node,
                      !.name = Basename(to)]
        OBVIOUS
      <3>2. Resolve(fs.nodes, from).r = "OK" /\ Resolve(fs.nodes, Dirname(to)).r = "OK"
            /\ Resolve(fs.nodes, Dirname(to)).row.type = "DIR"
        BY <1>7
      <3> HIDE DEF row, src, dir
      <3>3. Tree(left) /\ Lookup(left, row.parent, row.name) = {} => Tree(InsertOrReplace(left, row))
        BY <1>3, <1>4, <2>8, <3>1, <3>2, MoveTree
      <3> QED
        BY <3>3 DEF Fits
    <2>9. Removable(fs, to) => Fits(Dropped(fs, to), row)
      <3>1. /\ Dropped(fs, to) \subseteq fs.nodes
            /\ \A x \in fs.nodes \ Dropped(fs, to) : x.node = Resolve(fs.nodes, to).row.node
        BY DEF Dropped
      <3>2. Removable(fs, to) => Resolve(fs.nodes, to).r = "OK"
        BY DEF Removable
      <3> HIDE DEF row
      <3> QED
        BY <2>8, <3>1, <3>2
    <2>10. Fits(fs.nodes, row)
      <3> HIDE DEF row
      <3> QED
        BY <2>8
    <2> QED
      BY <2>5, <2>6, <2>7, <2>9, <2>10
  <1>8. CASE /\ src.r = "OK" /\ dir.r = "OK" /\ dir.row.type = "DIR"
             /\ job' = NoJob /\ moved.r = "OK" /\ fs' = WriteEntry(moved, "MOVE", row)
    <2>1. /\ row \in NodeRow /\ row \in {} \cup {row} /\ \A x \in {row} : x.node < fs.next_node_id
          /\ Family(fs.nodes \cup Entries(fs.disk) \cup {} \cup {row})
          /\ Fits(fs.nodes, row)
      BY <1>7, <1>8
    <2>2. moved.r = "OK" /\ fs' = WriteEntry(MoveRow(fs, row), "MOVE", row) /\ job' = NoJob
      BY <1>8
    <2> HIDE DEF row
    <2>3. Grown(fs, fs', {})
      BY <1>2, <2>1, <2>2, MoveRowGrown
    <2> QED
      BY <2>2, <2>3, DoneKept
  <1>9. CASE job' = NoJob /\ moved.r \notin {"OK", "EEXIST"} /\ fs' = moved
    <2>1. \E r : fs' = Return(fs, r)
      BY <1>2, <1>9 DEF MoveRow, Machine
    <2> QED
      BY <1>6, <1>9, <2>1
  <1>10. CASE /\ src.r = "OK" /\ dir.r = "OK" /\ dir.row.type = "DIR"
              /\ fs' = Delete(fs, to)
              /\ job' = IF fs'.r = "OK" THEN [kind |-> "move", row |-> row] ELSE NoJob
    <2>1. /\ row \in NodeRow /\ \A x \in {row} : x.node < fs.next_node_id
          /\ Family(fs.nodes \cup Entries(fs.disk) \cup {} \cup {row})
          /\ Removable(fs, to) => Fits(Dropped(fs, to), row)
      BY <1>7, <1>10
    <2>2. /\ Family(fs.nodes \cup Entries(fs.disk) \cup {} \cup {})
          /\ \A x \in {} : x.node < fs.next_node_id
      <3>1. fs.nodes \cup Entries(fs.disk) \cup {} \cup {} = fs.nodes \cup Entries(fs.disk)
        OBVIOUS
      <3> QED
        BY <1>4, <3>1
    <2>3. fs' = Delete(fs, to) /\ (job' = NoJob \/ (fs'.r = "OK" /\ job' = [kind |-> "move", row |-> row]))
      BY <1>10
    <2> HIDE DEF row
    <2>4. CASE job' = NoJob
      <3>1. (\E r \in Errno : fs' = Return(fs, r)) \/ Grown(fs, fs', {})
        BY <1>2, <2>2, <2>3, DeleteGrown
      <3> QED
        BY <1>2, <2>4, <3>1, ReturnGrown, DoneKept
    <2>5. CASE fs'.r = "OK" /\ job' = [kind |-> "move", row |-> row]
      <3>1. \/ \E r \in Errno : fs' = Return(fs, r)
            \/ Removable(fs, to) /\ fs'.nodes = Dropped(fs, to) /\ Grown(fs, fs', {row})
        BY <1>2, <2>1, <2>3, DeleteGrown
      <3>2. ~ \E r \in Errno : fs' = Return(fs, r)
        <4>1. \A r \in Errno : Return(fs, r).r # "OK"
          BY <1>2 DEF Return, Errno, Machine
        <4> QED
          BY <2>5, <4>1
      <3>3. Pending' = {row} /\ job'.row = row
        BY <2>5 DEF Pending
      <3> QED
        BY <2>1, <3>1, <3>2, <3>3 DEF Kept, Grown
    <2> QED
      BY <2>3, <2>4, <2>5
  <1> QED
    BY <1>5, <1>6, <1>8, <1>9, <1>10

\* A record without a row is written, after a change of the block table.
LEMMA DataGrown ==
    ASSUME NEW m, Sound(m), NEW more, Rooted(m, more), NEW f, Good(f),
           f.nodes = m.nodes, f.disk = m.disk, f.next_node_id = m.next_node_id,
           NEW op \in {"DATA", "TRUNCATE"}, NEW node \in Nat, NEW fill \in Nat, NEW offset \in Nat,
           NEW n, n = Write(f, op, node, fill, offset, NoEntry)
    PROVE  Grown(m, n, {})
  <1>1. op \in LogOp /\ op \notin EntryOp /\ NoEntry \in NodeRow \cup {NoEntry}
    BY DEF LogOp, EntryOp
  <1>2. Recorded(f, n, op, NoEntry)
    BY <1>1, WriteKnown
  <1>3. m.next_node_id \in Nat
    BY DEF Sound, Good, Machine
  <1>4. Family(m.nodes \cup Entries(m.disk) \cup more \cup {}) /\ Unique(n.nodes)
    <2>1. m.nodes \cup Entries(m.disk) \cup more \cup {} = m.nodes \cup Entries(m.disk) \cup more
      OBVIOUS
    <2> QED
      BY <1>2, <2>1 DEF Rooted, Recorded
  <1>5. Learns(m, more, n, {}, {})
    BY <1>1, <1>2, <1>3, <1>4 DEF Learns, Recorded
  <1> QED
    BY <1>2, <1>5, RootedStep DEF Grown, Recorded

\* Truncating a file, and the data of a write.
LEMMA DataKept ==
    ASSUME NInv,
           \/ \E node \in FileIds, size \in Sizes : DelData(node, size)
           \/ \E node \in FileIds, x \in Extents : SetData(node, x[1], x[2])
           \/ WriteChunk
    PROVE  Kept
  <1>1. mode = "mounted"
    BY DEF DelData, SetData, WriteChunk, Begin
  <1>2. Sound(fs) /\ fs \in Machine /\ job \in Job /\ Rooted(fs, Pending)
    BY <1>1 DEF NInv, IInv, Typed
  <1>3. ASSUME NEW node \in FileIds, NEW size \in Sizes, DelData(node, size)
        PROVE  Kept
    <2>1. job = NoJob /\ job' = NoJob /\ fs' = Truncate(fs, node, size)
      BY <1>3 DEF DelData, Begin
    <2>2. node \in Nat /\ size \in Nat
      BY <1>2, SizesAssumption DEF FileIds, Machine, NodeRow
    <2> DEFINE f == DropData(fs, node, size)
    <2>3. /\ Good(f) /\ f.nodes = fs.nodes /\ f.disk = fs.disk
          /\ f.next_node_id = fs.next_node_id
      <3>1. Good(f)
        BY <1>2, <2>2, DropDataSound DEF Sound
      <3> QED
        BY <1>2, <3>1 DEF DropData, Machine
    <2>4. fs' = Return(fs, "ENOENT") \/ fs' = Write(f, "TRUNCATE", node, 0, size, NoEntry)
      BY <2>1 DEF Truncate
    <2> HIDE DEF f
    <2>5. Grown(fs, fs', {})
      BY <1>2, <2>2, <2>3, <2>4, DataGrown, ReturnGrown
    <2> QED
      BY <2>1, <2>5, DoneKept
  <1>4. ASSUME NEW node \in FileIds, NEW x \in Extents, SetData(node, x[1], x[2])
        PROVE  Kept
    <2>1. job = NoJob /\ fs' = fs /\ job'.kind = "data"
      BY <1>4 DEF SetData, Begin
    <2>2. Pending = {} /\ Pending' = {}
      BY <2>1 DEF Pending, NoJob
    <2> QED
      BY <1>2, <2>1, <2>2 DEF Kept
  <1>5. CASE WriteChunk
    <2> DEFINE amount == IF job.size > Payload THEN Payload ELSE job.size
               left == [job EXCEPT !.offset = @ + amount, !.size = @ - amount]
    <2>1. /\ job.kind = "data" /\ fs' = Write(fs, "DATA", job.node, amount, job.offset, NoEntry)
          /\ job' = NoJob \/ job' = left
      BY <1>5 DEF WriteChunk
    <2>2. /\ job.node \in Nat /\ job.offset \in Nat /\ job.size \in Nat /\ amount \in Nat
      BY <1>2, <2>1, JobType, PayloadAssumption
    <2>3. left.kind = "data"
      <3>1. job \in [kind: {"data"}, node: Nat, offset: Nat, size: Nat \ {0}]
        BY <1>2, <2>1 DEF Job, NoJob
      <3> HIDE DEF amount
      <3> QED
        BY <3>1
    <2> HIDE DEF amount, left
    <2>4. Good(fs)
      BY <1>2 DEF Sound
    <2>5. Grown(fs, fs', {})
      BY <1>2, <2>1, <2>2, <2>4, DataGrown
    <2>6. job'.kind # "move" /\ Pending' = {}
      BY <2>1, <2>3 DEF NoJob, Pending
    <2> QED
      BY <2>5, <2>6 DEF Kept, Grown
  <1> QED
    BY <1>3, <1>4, <1>5

\* The second record of a link, and the second part of a rename.
LEMMA FinishKept ==
    ASSUME NInv, FinishLink \/ FinishMove
    PROVE  Kept
  <1>1. mode = "mounted" /\ job.kind \in {"link", "move"} /\ job' = NoJob
    BY DEF FinishLink, FinishMove
  <1>2. /\ Sound(fs) /\ fs \in Machine /\ job.row \in NodeRow
        /\ Pending = {job.row} /\ Rooted(fs, {job.row})
    BY <1>1, JobType DEF NInv, IInv, Typed, Pending
  <1>3. Family(fs.nodes \cup Entries(fs.disk) \cup {job.row} \cup {}) /\ Unique(fs.nodes)
    <2>1. fs.nodes \cup Entries(fs.disk) \cup {job.row} \cup {} = fs.nodes \cup Entries(fs.disk) \cup {job.row}
      OBVIOUS
    <2> QED
      BY <1>2, <2>1 DEF Rooted
  <1>4. \A x \in {} : x.node < fs.next_node_id
    OBVIOUS
  <1>5. CASE FinishLink
    <2>1. fs' = WriteEntry(fs, "NODE", job.row)
      BY <1>5 DEF FinishLink
    <2>2. /\ Good(fs) /\ fs.next_node_id \in Nat
          /\ fs.nodes \cup {} \subseteq fs.nodes \cup {job.row} \cup {}
      BY <1>2 DEF Sound, Machine
    <2>3. Enters(fs, {job.row}, fs, job.row, {}, {})
      BY <1>2, <1>3, <1>4, <2>2 DEF Enters
    <2>4. "NODE" \in EntryOp
      BY DEF EntryOp
    <2> QED
      BY <1>1, <1>2, <2>1, <2>3, <2>4, EnterGrown, DoneKept
  <1>6. CASE FinishMove
    <2>1. job.kind = "move"
      BY <1>6 DEF FinishMove
    <2>2. Fits(fs.nodes, job.row)
      BY <2>1 DEF NInv
    <2>3. \/ MoveRow(fs, job.row).r = "OK" /\ fs' = WriteEntry(MoveRow(fs, job.row), "MOVE", job.row)
          \/ MoveRow(fs, job.row).r # "OK" /\ fs' = MoveRow(fs, job.row)
      BY <1>6 DEF FinishMove
    <2>4. CASE MoveRow(fs, job.row).r = "OK"
      <3> DEFINE row == job.row
      <3>1. /\ row \in {row} \cup {row} /\ row \in NodeRow /\ Rooted(fs, {row})
            /\ MoveRow(fs, row).r = "OK" /\ Fits(fs.nodes, row)
            /\ \A x \in {row} : x.node < fs.next_node_id
        BY <1>2, <2>2, <2>4 DEF Rooted
      <3>2. Family(fs.nodes \cup Entries(fs.disk) \cup {row} \cup {row})
        <4>1. fs.nodes \cup Entries(fs.disk) \cup {row} \cup {row} = fs.nodes \cup Entries(fs.disk) \cup {row}
          OBVIOUS
        <4> QED
          BY <3>1, <4>1 DEF Rooted
      <3> HIDE DEF row
      <3>3. Grown(fs, WriteEntry(MoveRow(fs, row), "MOVE", row), {})
        BY <1>2, <3>1, <3>2, MoveRowGrown
      <3>4. Grown(fs, WriteEntry(MoveRow(fs, job.row), "MOVE", job.row), {})
        BY <3>3 DEF row
      <3> QED
        BY <1>1, <2>3, <2>4, <3>4, DoneKept
    <2>5. CASE MoveRow(fs, job.row).r # "OK"
      <3>1. \E r : fs' = Return(fs, r)
        BY <1>2, <2>3, <2>5 DEF MoveRow, Machine
      <3> QED
        BY <1>1, <1>2, <3>1, ReturnGrown, DoneKept
    <2> QED
      BY <2>4, <2>5
  <1> QED
    BY <1>5, <1>6

\* The end of a process and the mount of the next: what a replay puts in the table is
\* an entry of the log, of the node that the counter then follows.
LEMMA ProcessRooted ==
    ASSUME NInv, Stop \/ Mount \/ Load
    PROVE  Rooted(fs', Pending') /\ job'.kind # "move"
  <1>1. Good(fs) /\ fs \in Machine /\ fs.next_node_id \in Nat /\ Rooted(fs, Pending)
    BY DEF NInv, IInv, Good, Machine
  <1>2. NoJob.kind \notin {"link", "move"}
    BY DEF NoJob
  <1>3. Family(fs.nodes \cup Entries(fs.disk))
    BY <1>1, FamilySubset DEF Rooted
  <1>4. CASE Stop
    <2>1. /\ fs'.nodes = {} /\ fs'.disk = fs.disk /\ fs'.next_node_id = 1 /\ job' = NoJob
      BY <1>4 DEF Stop, Fresh
    <2>2. Pending' = {} /\ job'.kind # "move"
      BY <1>2, <2>1 DEF Pending
    <2>3. {} \cup Entries(fs.disk) \cup {} \subseteq fs.nodes \cup Entries(fs.disk)
      OBVIOUS
    <2>4. Family({} \cup Entries(fs.disk) \cup {})
      BY <1>3, <2>3, FamilySubset
    <2> QED
      BY <2>1, <2>2, <2>4 DEF Rooted, Unique, Root
  <1>5. CASE Mount \/ Mounted
    <2>1. UNCHANGED <<fs, job>> /\ mode # "mounted"
      BY <1>5 DEF Mount, Mounted
    <2>2. job = NoJob
      BY <2>1 DEF NInv, IInv, Typed
    <2> QED
      BY <1>1, <1>2, <2>1, <2>2 DEF Pending
  <1>6. ASSUME NEW b \in Block, LoadRecord(b)
        PROVE  Rooted(fs', Pending') /\ job'.kind # "move"
    <2> DEFINE rec == fs.disk[b]
               done == Effect(fs, rec)
               new == IF done.r = "OK" /\ rec.op \in EntryOp THEN {rec.entry} ELSE {}
    <2>1. mode = "loading" /\ b \in todo /\ fs' = Replay(fs, b) /\ job' = job
      BY <1>6 DEF LoadRecord
    <2>2. job = NoJob /\ Replaying(fs, todo)
      BY <2>1 DEF NInv, IInv, Typed
    <2>3. Pending = {} /\ Pending' = {} /\ job'.kind # "move"
      BY <1>2, <2>1, <2>2 DEF Pending
    <2>4. /\ rec \in DiskRecord /\ rec.op \in LogOp
          /\ rec.op \in EntryOp => rec.entry \in NodeRow /\ rec.entry.node = rec.node
      BY <1>1, <2>1, <2>2 DEF Replaying, DiskSound, Valid, DiskRecord, Machine
    <2>5. fs.nodes \in SUBSET NodeRow /\ fs.next_node_id \in Nat /\ rec.node \in Nat
      BY <1>1, <2>4 DEF Machine, DiskRecord
    <2>6. /\ done.nodes \subseteq fs.nodes \cup new
          /\ Unique(done.nodes) /\ done.disk = fs.disk /\ done.next_node_id = fs.next_node_id
      <3>1. Unique(fs.nodes) /\ Unique(InsertOrReplace(fs.nodes, rec.entry))
        BY <1>1, InsertUnique DEF Rooted
      <3> HIDE DEF rec
      <3>2. CASE rec.op = "DATA"
        BY <1>1, <3>1, <3>2 DEF Effect, Return, Machine
      <3>3. CASE rec.op = "NODE"
        BY <1>1, <3>1, <3>3 DEF Effect, InsertOrReplace, EntryOp, Machine
      <3>4. CASE rec.op = "MOVE"
        BY <1>1, <3>1, <3>4 DEF Effect, MoveRow, Return, InsertOrReplace, EntryOp, Machine
      <3>5. CASE rec.op = "DELETE"
        BY <1>1, <3>1, <3>5 DEF Effect, DropNode, Unique, Machine
      <3>6. CASE rec.op = "TRUNCATE"
        BY <1>1, <3>1, <3>6 DEF Effect, DropData, Machine
      <3> QED
        BY <2>4, <3>2, <3>3, <3>4, <3>5, <3>6 DEF LogOp
    <2>7. /\ fs'.nodes = done.nodes /\ fs'.disk = done.disk
          /\ \/ done.r # "OK" /\ fs' = done
             \/ done.r = "OK" /\ fs'.next_node_id = Larger(done.next_node_id, rec.node + 1)
      <3>1. done \in Machine
        BY <1>1, <2>4, EffectFades DEF Fades
      <3> HIDE DEF done, rec
      <3> QED
        BY <2>1, <3>1 DEF Replay, Machine, done, rec
    <2>8. /\ fs'.next_node_id \in Nat /\ fs'.next_node_id >= fs.next_node_id
          /\ \A x \in new : x.node \in Nat /\ x.node < fs'.next_node_id
      <3> HIDE DEF rec, done
      <3>1. CASE done.r # "OK"
        BY <2>5, <2>6, <2>7, <3>1
      <3>2. CASE done.r = "OK"
        BY <2>4, <2>5, <2>6, <2>7, <3>2 DEF Larger
      <3> QED
        BY <3>1, <3>2
    <2>9. new \subseteq Entries(fs.disk)
      BY DEF Entries
    <2> HIDE DEF rec, done, new
    <2>10. Family(fs.nodes \cup Entries(fs.disk) \cup Pending \cup new)
      <3>1. fs.nodes \cup Entries(fs.disk) \cup Pending \cup new = fs.nodes \cup Entries(fs.disk)
        BY <2>3, <2>9
      <3> QED
        BY <1>3, <3>1
    <2>11. Learns(fs, Pending, fs', {}, new)
      BY <2>3, <2>5, <2>6, <2>7, <2>8, <2>10 DEF Learns
    <2> QED
      BY <1>1, <2>3, <2>11, RootedStep
  <1> QED
    BY <1>4, <1>5, <1>6 DEF Load

-----------------------------------------------------------------------------
(* The theorems. *)

\* A call, from its first record to its last.
LEMMA CallKept ==
    ASSUME NInv, Call \/ Finish
    PROVE  Kept
  BY NameCallKept, SetLinkKept, MoveNodeKept, DataKept, FinishKept DEF Call, Finish

\* A formatted container satisfies the invariant.
LEMMA InitNInv == Init => NInv
  <1> SUFFICES ASSUME Init PROVE NInv
    OBVIOUS
  <1>1. IInv
    BY InitIInv
  <1>2. fs.nodes = {} /\ fs.next_node_id = 1 /\ job = NoJob /\ NoJob.kind = "none"
    BY DEF Init, Fresh, NoJob
  <1>3. Entries(fs.disk) = {}
    <2>1. \A b \in Block : fs.disk[b].op = "INVALID"
      BY DEF Init, Fresh, NoRecord
    <2> QED
      BY <2>1 DEF Entries, EntryOp
  <1>4. Pending = {}
    BY <1>2 DEF Pending
  <1> QED
    BY <1>1, <1>2, <1>3, <1>4 DEF NInv, Rooted, Family, Unique, Root

\* Every step keeps the invariant.
LEMMA StepNInv == NInv /\ [Next]_vars => NInv'
  <1>1. NInv /\ UNCHANGED vars => NInv'
    BY StepIInv DEF vars, NInv, Pending
  <1>2. NInv /\ [Next]_vars => IInv'
    BY StepIInv DEF NInv
  <1>3. NInv /\ (Call \/ Finish) =>
          Rooted(fs', Pending') /\ (job'.kind = "move" => Fits(fs'.nodes, job'.row))
    BY CallKept DEF Kept
  <1>4. NInv /\ (Stop \/ Mount \/ Load) => Rooted(fs', Pending') /\ job'.kind # "move"
    BY ProcessRooted
  <1> QED
    BY <1>1, <1>2, <1>3, <1>4 DEF Next, NInv

\* In every reachable state, after any number of crashes and mounts of whatever they
\* left, the rows a process knows are those of one file system.
THEOREM RowsRooted == Spec => []NInv
  BY InitNInv, StepNInv, PTL DEF Spec

\* Whatever a call does, whether it succeeds, is refused, finds the container full or
\* stops half way, the rows of a mounted machine stay a tree if they were one.
THEOREM TreeKept == Spec => KeepsTree
  <1>1. ASSUME NInv, [Next]_vars, mode = "mounted", mode' = "mounted", Strays(fs) = {}
        PROVE  Strays(fs') = {}
    <2>1. Tree(fs.nodes)
      BY <1>1, StraysTree
    <2>2. CASE Call \/ Finish
      BY <1>1, <2>1, <2>2, CallKept, StraysTree DEF Kept
    <2>3. CASE UNCHANGED vars
      BY <2>1, <2>3, StraysTree DEF vars
    <2>4. CASE Stop \/ Mount \/ Load
      BY <1>1, <2>4 DEF Stop, Mount, Load, Mounted, LoadRecord
    <2> QED
      BY <1>1, <2>2, <2>3, <2>4 DEF Next
  <1>2. NInv /\ [Next]_vars
          => (mode = "mounted" /\ mode' = "mounted" /\ Strays(fs) = {} => Strays(fs') = {})
    BY <1>1
  <1> QED
    BY <1>2, RowsRooted, PTL DEF Spec, KeepsTree
=============================================================================
