------------------------- MODULE OnceFSHandlesProofs -------------------------
(***************************************************************************)
(* Theorems about OnceFSHandles.                                           *)
(***************************************************************************)
EXTENDS OnceFSHandles, OnceFSRecoveryProofs

-----------------------------------------------------------------------------
(* The rows that paths of the root directory lead to. *)

\* What a search that has more than one hit returns.
Picked(hits) == CHOOSE x \in hits : TRUE

\* The row lies in the root, and is the one that a search for its name finds: a mount
\* of a rewritten history may leave others with its parent and name.
InPlace(nodes, x) == x \in nodes /\ x.parent = 0 /\ x = Picked(Lookup(nodes, 0, x.name))

\* A handle that libfuse counts under the path may hold the id.
Safe(nodes, id, path) ==
    \E x \in nodes : x.node = id /\ x.type = "FILE" /\ InPlace(nodes, x) /\ path = <<x.name>>

\* The row goes to a path that leads nowhere yet.
Vacant(nodes, path, row) ==
    row.parent = 0 /\ path = <<row.name>> /\ Lookup(nodes, 0, row.name) = {}

\* What a rename that deleted a file has yet to move is still where it was.
Moving(nodes, row, from, to) ==
    /\ row.parent = 0 /\ to = <<row.name>>
    /\ \E x \in nodes : /\ x.node = row.node /\ x.type = row.type
                        /\ InPlace(nodes, x) /\ from = <<x.name>>

-----------------------------------------------------------------------------
(* The invariant. *)

\* Each handle holds the id of the file that the path leads to under which libfuse
\* counts it, but for those that a refused rename has set adrift.
Tracked ==
    /\ fh \in [Handle -> Nat] /\ opened \in [Handle -> Paths \cup {Closed}]
    /\ \A h \in Handle : fh[h] # 0 => opened[h] \in Paths
    /\ \A h \in Handle \ adrift : fh[h] # 0 => Safe(fs.nodes, fh[h], opened[h])

\* Only a process that is mounted has handles; a file that is open is out of the way of
\* a rename before the rename goes on; and what the rename has yet to move is where
\* libfuse takes it to be.
Guarded ==
    /\ Tracked
    /\ mode # "mounted" => onto = NoRename /\ \A h \in Handle : fh[h] = 0
    /\ job.kind # "link"
    /\ job.kind = "move" => onto # NoRename /\ Moving(fs.nodes, job.row, onto[1], onto[2])
    /\ job.kind = "data" => onto = NoRename /\ (adrift = {} => HasFile(fs, job.node))
    /\ onto # NoRename => onto \in Visible \X Visible /\ ~ IsOpen(onto[2])

\* What every state satisfies, whatever history a mount has replayed.
FInv == NInv /\ Guarded

-----------------------------------------------------------------------------
(* Rows that stay in place. *)

\* A path is a name.
LEMMA FlatPath ==
    ASSUME NEW path \in Paths
    PROVE  /\ path \in Seq(Names) /\ path # <<>> /\ Dirname(path) = <<>>
           /\ path = <<Basename(path)>> /\ Basename(path) \in Names
  <1>1. path \in Seq(Names) /\ path # <<>> /\ Len(path) = 1
    BY PathsAssumption, FlatAssumption
  <1>2. Dirname(path) \in Seq(Names) /\ Len(Dirname(path)) = 0 /\ Basename(path) \in Names
    BY <1>1, DirnameType
  <1>3. path = <<Basename(path)>>
    BY <1>1 DEF Basename
  <1>4. Dirname(path) = <<>>
    BY <1>2
  <1> QED
    BY <1>1, <1>2, <1>3, <1>4

\* So a search goes through the rows of the root, once.
LEMMA FlatSearch ==
    ASSUME NEW nodes, NEW path \in Paths, NEW hits, hits = Lookup(nodes, 0, Basename(path))
    PROVE  Resolve(nodes, path) = IF hits = {} THEN Missing("ENOENT") ELSE Found(Picked(hits))
  <1>1. path # <<>> /\ Dirname(path) = <<>> /\ <<>> \in Seq(Names)
    BY FlatPath
  <1>2. Resolve(nodes, path) = Child(nodes, Walk(nodes, <<>>), Basename(path))
    BY <1>1 DEF Resolve
  <1>3. Walk(nodes, <<>>) = Found(Root)
    BY <1>1, WalkResolves DEF Resolve
  <1>4. Resolve(nodes, path) = Child(nodes, Found(Root), Basename(path))
    BY <1>2, <1>3
  <1> QED
    BY <1>4 DEF Child, Found, Root, Picked

\* A row that a path leads to is in its place.
LEMMA FoundInPlace ==
    ASSUME NEW nodes, NEW path \in Paths, Resolve(nodes, path).r = "OK",
           NEW x, x = Resolve(nodes, path).row
    PROVE  InPlace(nodes, x) /\ path = <<x.name>>
  <1> DEFINE hits == Lookup(nodes, 0, Basename(path))
  <1>1. hits # {} /\ x = Picked(hits)
    BY FlatSearch DEF Found, Missing
  <1>2. x \in hits
    BY <1>1 DEF Picked
  <1>3. x \in nodes /\ x.parent = 0 /\ x.name = Basename(path)
    BY <1>2 DEF Lookup
  <1> QED
    BY <1>1, <1>3, FlatPath DEF InPlace

\* A path that leads nowhere is free.
LEMMA MissingVacant ==
    ASSUME NEW nodes, NEW path \in Paths, Resolve(nodes, path).r # "OK",
           NEW row, row.parent = 0, row.name = Basename(path)
    PROVE  Vacant(nodes, path, row)
  <1>1. Lookup(nodes, 0, Basename(path)) = {}
    BY FlatSearch DEF Found
  <1> QED
    BY <1>1, FlatPath DEF Vacant

\* A row with a name that was free is the one that is found.
LEMMA NewInPlace ==
    ASSUME NEW nodes, NEW row, row.parent = 0, Lookup(nodes, 0, row.name) = {}
    PROVE  /\ InPlace(InsertOrReplace(nodes, row), row)
           /\ Lookup(InsertOrReplace(nodes, row), 0, row.name) = {row}
  <1> DEFINE new == InsertOrReplace(nodes, row)
  <1>1. Lookup(new, 0, row.name) = {row} /\ row \in new
    BY DEF Lookup, InsertOrReplace
  <1>2. Picked({row}) = row
    BY DEF Picked
  <1> HIDE DEF new
  <1>3. InPlace(new, row)
    BY <1>1, <1>2 DEF InPlace
  <1> QED
    BY <1>1, <1>3 DEF new

\* Two rows in their places do not share a name.
LEMMA OneInPlace ==
    ASSUME NEW nodes, NEW x, InPlace(nodes, x), NEW y, InPlace(nodes, y), x.name = y.name
    PROVE  x = y
  BY DEF InPlace

\* A row stays in its place when another one goes to a name that is free, be it new or
\* in its own place until then.
LEMMA StaysAtInsert ==
    ASSUME NEW nodes, NEW row, row.parent = 0, Lookup(nodes, 0, row.name) = {},
           \A y \in nodes : y.node = row.node /\ y.type = row.type => InPlace(nodes, y),
           NEW x, InPlace(nodes, x), ~ (x.node = row.node /\ x.type = row.type)
    PROVE  InPlace(InsertOrReplace(nodes, row), x)
  <1> DEFINE new == InsertOrReplace(nodes, row)
  <1>1. x \in nodes /\ x \in new /\ x.parent = 0
    BY DEF InPlace, InsertOrReplace
  <1>2. row.name # x.name
    BY <1>1 DEF Lookup
  <1>3. ASSUME NEW y \in nodes, y.node = row.node, y.type = row.type
        PROVE  y.name # x.name
    BY <1>3, OneInPlace
  <1>4. Lookup(new, 0, x.name) = Lookup(nodes, 0, x.name)
    BY <1>2, <1>3 DEF Lookup, InsertOrReplace
  <1> HIDE DEF new
  <1>5. InPlace(new, x)
    BY <1>1, <1>4 DEF InPlace
  <1> QED
    BY <1>5 DEF new

\* In the root, a node has one row.
LEMMA OneRow ==
    ASSUME NEW nodes, Family(nodes), Unique(nodes), NEW x \in nodes, NEW y \in nodes,
           x.node = y.node, x.parent = 0, y.parent = 0
    PROVE  x = y
  <1>1. /\ Kin(x, y) /\ x.node # 0 /\ y.node # 0
        /\ x.type = "LINK_PAYLOAD" => x.parent = x.node
        /\ y.type = "LINK_PAYLOAD" => y.parent = y.node
    BY DEF Family
  <1>2. x.type = y.type
    BY <1>1 DEF Kin
  <1> QED
    BY <1>2 DEF Unique

\* A row stays in its place when another node goes.
LEMMA StaysAtDrop ==
    ASSUME NEW nodes, Family(nodes), Unique(nodes), NEW z, InPlace(nodes, z),
           NEW x, InPlace(nodes, x), x.node # z.node,
           NEW new, new = {y \in nodes : y.node # z.node}
    PROVE  InPlace(new, x)
  <1>1. x \in nodes /\ z \in nodes /\ x \in new /\ x.parent = 0 /\ z.parent = 0
    BY DEF InPlace
  <1>2. ASSUME NEW y \in nodes, y.node = z.node, y.parent = 0
        PROVE  y.name # x.name
    <2>1. y = z
      BY <1>1, <1>2, OneRow
    <2> QED
      BY <2>1, OneInPlace
  <1>3. Lookup(new, 0, x.name) = Lookup(nodes, 0, x.name)
    BY <1>2 DEF Lookup
  <1> QED
    BY <1>1, <1>3 DEF InPlace

-----------------------------------------------------------------------------
(* What the calls do to the node table. *)

\* Creating a file or a directory: a row of a new node, or none.
LEMMA CreateTable ==
    ASSUME NEW m, Sound(m), Rooted(m, {}), NEW path \in Paths,
           NEW type \in {"FILE", "DIR"}, NEW now \in Nat, NEW n, n = Create(m, path, type, now)
    PROVE  \/ n.nodes = m.nodes /\ n.r # "OK"
           \/ \E row \in NodeRow :
                /\ row.type = type /\ (\A x \in m.nodes : x.node # row.node)
                /\ Vacant(m.nodes, path, row) /\ n.nodes = InsertOrReplace(m.nodes, row)
  <1> DEFINE new == InitNode(m, path, type, now)
             f == [m EXCEPT !.nodes = InsertOrReplace(m.nodes, new.row),
                            !.next_node_id = m.next_node_id + 1]
  <1>1. m \in Machine /\ Resolve(m.nodes, Dirname(path)) = Found(Root)
    BY FlatPath DEF Sound, Good, Resolve
  <1>2. CASE new.r # "OK"
    BY <1>1, <1>2 DEF Create, Return, Machine
  <1>3. CASE new.r = "OK"
    <2>1. n = WriteEntry(f, "NODE", new.row)
      BY <1>3 DEF Create
    <2>2. NewIn(m, new.row, type)
      BY <1>3, NewRow
    <2>3. Resolve(m.nodes, path).r # "OK" /\ new.row.parent = 0 /\ new.row.name = Basename(path)
      BY <1>1, <1>3 DEF InitNode, Found, Missing, Root
    <2>4. n.nodes = InsertOrReplace(m.nodes, new.row)
      <3>1. new.row \in NodeRow
        BY <2>2 DEF NewIn
      <3>2. f \in Machine
        <4>1. m.nodes \in SUBSET NodeRow /\ m.next_node_id + 1 \in Nat
          BY <1>1 DEF Machine
        <4>2. InsertOrReplace(m.nodes, new.row) \in SUBSET NodeRow
          BY <3>1, <4>1, InsertType
        <4> HIDE DEF new
        <4> QED
          BY <1>1, <4>1, <4>2 DEF Machine
      <3>3. f.nodes = InsertOrReplace(m.nodes, new.row)
        BY <1>1 DEF Machine
      <3> HIDE DEF f, new
      <3> QED
        BY <2>1, <3>2, <3>3, WriteNodes DEF WriteEntry
    <2> HIDE DEF new
    <2>5. Vacant(m.nodes, path, new.row)
      BY <2>3, MissingVacant
    <2> QED
      BY <2>2, <2>4, <2>5 DEF NewIn
  <1> QED
    BY <1>2, <1>3

\* Deleting a node: all its rows go, or none.
LEMMA DeleteTable ==
    ASSUME NEW m, Sound(m), Rooted(m, {}), NEW path \in Paths, NEW n, n = Delete(m, path)
    PROVE  \/ n.nodes = m.nodes
           \/ Removable(m, path) /\ n.nodes = Dropped(m, path)
  <1>1. Family(m.nodes \cup Entries(m.disk) \cup {} \cup {})
    <2>1. Family(m.nodes \cup Entries(m.disk) \cup {})
      BY DEF Rooted
    <2> QED
      BY <2>1, FamilySubset
  <1>2. \A x \in {} : x.node < m.next_node_id
    OBVIOUS
  <1>3. \A r : Return(m, r).nodes = m.nodes
    BY DEF Return, Sound, Good, Machine
  <1> QED
    BY <1>1, <1>2, <1>3, DeleteGrown

\* Truncating a file leaves the node table alone.
LEMMA TruncateNodes ==
    ASSUME NEW m \in Machine, NEW node \in Nat, NEW size \in Nat
    PROVE  Truncate(m, node, size).nodes = m.nodes
  <1>1. DropData(m, node, size) \in Machine
    BY DropDataFades DEF Fades
  <1>2. DropData(m, node, size).nodes = m.nodes
    BY DEF DropData, Machine
  <1>3. \A r : Return(m, r).nodes = m.nodes
    BY DEF Return, Machine
  <1> QED
    BY <1>1, <1>2, <1>3, WriteNodes DEF Truncate

\* From m to n the row goes to its free name, or the table stays and the call fails.
Shifts(m, n, row) ==
    \/ n.nodes = m.nodes /\ n.r # "OK"
    \/ /\ Lookup(m.nodes, 0, row.name) = {} /\ n.nodes = InsertOrReplace(m.nodes, row)
       /\ n.r \in {"OK", "ENOSPC"}

\* The call of _oncefs_move_node, and the record that follows when it succeeds.
LEMMA MoveShifts ==
    ASSUME NEW m, Sound(m), NEW row \in NodeRow, row.parent = 0,
           NEW moved, moved = MoveRow(m, row),
           NEW n, n = IF moved.r = "OK" THEN WriteEntry(moved, "MOVE", row) ELSE moved
    PROVE  Shifts(m, n, row)
  <1>1. m \in Machine /\ moved \in Machine /\ Sound(moved)
    BY MoveRowFades, FadesSound DEF Fades, Sound, Good
  <1>2. CASE moved.r = "OK"
    <2>1. Lookup(m.nodes, 0, row.name) = {} /\ moved.nodes = InsertOrReplace(m.nodes, row)
      BY <1>1, <1>2 DEF MoveRow, Return, Machine
    <2>2. n = Write(moved, "MOVE", row.node, 0, 0, row)
      BY <1>2 DEF WriteEntry
    <2>3. n.nodes = moved.nodes
      BY <1>1, <2>2, WriteNodes
    <2>4. n.r \in {"OK", "ENOSPC"}
      <3>1. "MOVE" \in LogOp /\ row.node \in Nat /\ row \in NodeRow \cup {NoEntry} /\ 0 \in Nat
        BY DEF LogOp, NodeRow
      <3> QED
        BY <1>1, <2>2, <3>1, WriteResult
    <2> QED
      BY <2>1, <2>3, <2>4 DEF Shifts
  <1>3. CASE moved.r # "OK"
    <2>1. moved.nodes = m.nodes
      BY <1>1, <1>3 DEF MoveRow, Return, Machine
    <2> QED
      BY <1>3, <2>1 DEF Shifts
  <1> QED
    BY <1>2, <1>3

\* What a process that serves a handler knows.
LEMMA Serving ==
    ASSUME NInv, mode = "mounted", job = NoJob
    PROVE  /\ Sound(fs) /\ fs \in Machine /\ Rooted(fs, {}) /\ fs.nodes \in SUBSET NodeRow
           /\ Family(fs.nodes) /\ Unique(fs.nodes)
  <1>1. /\ Sound(fs) /\ fs \in Machine /\ Rooted(fs, Pending)
    BY DEF NInv, IInv, Typed
  <1>2. Pending = {}
    BY DEF Pending, NoJob
  <1>3. Family(fs.nodes \cup Entries(fs.disk) \cup {}) /\ Unique(fs.nodes)
    BY <1>1, <1>2 DEF Rooted
  <1> QED
    BY <1>1, <1>2, <1>3, FamilySubset DEF Machine

\* The rename was refused, or done but for its record.
Settles(from, to) ==
    /\ job' = NoJob
    /\ \/ fs'.nodes = fs.nodes /\ fs'.r # "OK"
       \/ \E row \in NodeRow : Moving(fs.nodes, row, from, to) /\ Shifts(fs, fs', row)

\* It has deleted what was in its way.
Displaces(from, to) ==
    /\ Removable(fs, to) /\ fs'.nodes = Dropped(fs, to)
    /\ \/ job' = NoJob /\ fs'.r # "OK"
       \/ \E row \in NodeRow : /\ job' = [kind |-> "move", row |-> row] /\ fs'.r = "OK"
                               /\ Moving(fs'.nodes, row, from, to)

\* A call of oncefs_move_node does one or the other.
LEMMA MoveTable ==
    ASSUME NInv, NEW from \in Paths, NEW to \in Paths, MoveNode(from, to)
    PROVE  Settles(from, to) \/ Displaces(from, to)
  <1> DEFINE src == Resolve(fs.nodes, from)
             row == [src.row EXCEPT !.parent = 0, !.name = Basename(to)]
             moved == MoveRow(fs, row)
  <1>1. mode = "mounted" /\ job = NoJob
    BY DEF MoveNode, Begin
  <1>2. /\ Sound(fs) /\ fs \in Machine /\ Rooted(fs, {}) /\ fs.nodes \in SUBSET NodeRow
        /\ Family(fs.nodes) /\ Unique(fs.nodes)
    BY <1>1, Serving
  <1>3. \A r : Return(fs, r).nodes = fs.nodes /\ Return(fs, r).r = r
    BY <1>2 DEF Return, Machine
  <1>4. Resolve(fs.nodes, Dirname(to)) = Found(Root)
    BY FlatPath DEF Resolve
  <1>5. \/ job' = NoJob /\ \E r : r # "OK" /\ fs' = Return(fs, r)
        \/ /\ src.r = "OK"
           /\ \/ job' = NoJob /\ moved.r = "OK" /\ fs' = WriteEntry(moved, "MOVE", row)
              \/ job' = NoJob /\ moved.r # "OK" /\ fs' = moved
              \/ /\ fs' = Delete(fs, to)
                 /\ \/ fs'.r = "OK" /\ job' = [kind |-> "move", row |-> row]
                    \/ fs'.r # "OK" /\ job' = NoJob
    <2>1. Found(Root).r = "OK" /\ Found(Root).row.type = "DIR" /\ Found(Root).row.node = 0
      BY DEF Found, Root
    <2> QED
      BY <1>1, <1>4, <2>1 DEF MoveNode
  <1>6. ASSUME src.r = "OK"
        PROVE  /\ InPlace(fs.nodes, src.row) /\ from = <<src.row.name>> /\ src.row \in NodeRow
               /\ row \in NodeRow /\ row.node = src.row.node /\ row.type = src.row.type
               /\ row.parent = 0 /\ to = <<row.name>>
    <2>1. InPlace(fs.nodes, src.row) /\ from = <<src.row.name>>
      BY <1>6, FoundInPlace
    <2>2. src.row \in NodeRow
      BY <1>2, <2>1 DEF InPlace
    <2> HIDE DEF src
    <2>3. to = <<Basename(to)>> /\ Basename(to) \in Names
      BY FlatPath
    <2> QED
      BY <2>1, <2>2, <2>3 DEF NodeRow
  <1>7. CASE src.r = "OK" /\ job' = NoJob
             /\ fs' = IF moved.r = "OK" THEN WriteEntry(moved, "MOVE", row) ELSE moved
    <2>1. /\ InPlace(fs.nodes, src.row) /\ from = <<src.row.name>> /\ src.row \in fs.nodes
          /\ row \in NodeRow /\ row.node = src.row.node /\ row.type = src.row.type
          /\ row.parent = 0 /\ to = <<row.name>>
      BY <1>6, <1>7 DEF InPlace
    <2> HIDE DEF src, row
    <2>2. Moving(fs.nodes, row, from, to)
      BY <2>1 DEF Moving
    <2>3. Shifts(fs, fs', row)
      BY <1>2, <1>7, <2>1, MoveShifts
    <2> QED
      BY <1>7, <2>1, <2>2, <2>3 DEF Settles
  <1>8. CASE src.r = "OK" /\ fs' = Delete(fs, to)
             /\ (\/ fs'.r = "OK" /\ job' = [kind |-> "move", row |-> row]
                 \/ fs'.r # "OK" /\ job' = NoJob)
    <2>1. (\E r \in Errno : fs' = Return(fs, r)) \/ (Removable(fs, to) /\ fs'.nodes = Dropped(fs, to))
      <3>1. Family(fs.nodes \cup Entries(fs.disk) \cup {} \cup {})
        <4>1. Family(fs.nodes \cup Entries(fs.disk) \cup {})
          BY <1>2 DEF Rooted
        <4> QED
          BY <4>1, FamilySubset
      <3>2. \A x \in {} : x.node < fs.next_node_id
        OBVIOUS
      <3>3. fs' = Delete(fs, to) /\ Sound(fs) /\ Rooted(fs, {})
        BY <1>2, <1>8
      <3> HIDE DEF src, row
      <3> QED
        BY <3>1, <3>2, <3>3, DeleteGrown
    <2>2. CASE \E r \in Errno : fs' = Return(fs, r)
      <3>1. fs'.nodes = fs.nodes /\ fs'.r # "OK"
        BY <1>3, <2>2 DEF Errno
      <3> QED
        BY <1>8, <3>1 DEF Settles
    <2>3. CASE Removable(fs, to) /\ fs'.nodes = Dropped(fs, to)
      <3> DEFINE z == Resolve(fs.nodes, to).row
      <3>1. InPlace(fs.nodes, z) /\ to = <<z.name>>
        BY <2>3, FoundInPlace DEF Removable
      <3>2. from # to
        <4>1. Len(to) = 1 /\ to \in Seq(Names)
          BY FlatPath, FlatAssumption
        <4>2. SubSeq(to, 1, 1) = to
          BY <4>1
        <4> QED
          BY <4>1, <4>2 DEF MoveNode
      <3>3. src.row.node # z.node
        <4>1. src.row \in fs.nodes /\ z \in fs.nodes /\ src.row.parent = 0 /\ z.parent = 0
          BY <1>6, <1>8, <3>1 DEF InPlace
        <4> HIDE DEF src, row, z
        <4>2. src.row.node = z.node => src.row = z
          BY <1>2, <4>1, OneRow
        <4> QED
          BY <1>6, <1>8, <3>1, <3>2, <4>2
      <3>4. fs'.nodes = {y \in fs.nodes : y.node # z.node}
        BY <2>3 DEF Dropped
      <3> HIDE DEF z
      <3>5. InPlace(fs'.nodes, src.row)
        BY <1>2, <1>6, <1>8, <3>1, <3>3, <3>4, StaysAtDrop
      <3>6. Moving(fs'.nodes, row, from, to)
        <4>1. /\ src.row \in fs'.nodes /\ from = <<src.row.name>>
              /\ row.node = src.row.node /\ row.type = src.row.type
              /\ row.parent = 0 /\ to = <<row.name>>
          BY <1>6, <1>8, <3>5 DEF InPlace
        <4> HIDE DEF row, src
        <4> QED
          BY <3>5, <4>1 DEF Moving
      <3>7. row \in NodeRow
        BY <1>6, <1>8
      <3> HIDE DEF row, src
      <3> QED
        BY <1>8, <2>3, <3>6, <3>7 DEF Displaces
    <2> QED
      BY <2>1, <2>2, <2>3
  <1>9. CASE job' = NoJob /\ \E r : r # "OK" /\ fs' = Return(fs, r)
    BY <1>3, <1>9 DEF Settles
  <1> HIDE DEF src, row, moved
  <1> QED
    BY <1>5, <1>7, <1>8, <1>9

-----------------------------------------------------------------------------
(* The nodes of open files. *)

\* No other path leads to the node.
LEMMA OtherNode ==
    ASSUME NEW nodes, Family(nodes), Unique(nodes), NEW id, NEW path, Safe(nodes, id, path),
           NEW z, InPlace(nodes, z), path # <<z.name>>
    PROVE  z.node # id
  <1>1. PICK x \in nodes : x.node = id /\ InPlace(nodes, x) /\ path = <<x.name>>
    BY DEF Safe
  <1>2. x.parent = 0 /\ z.parent = 0 /\ z \in nodes
    BY <1>1 DEF InPlace
  <1>3. z.node = id => x = z
    BY <1>1, <1>2, OneRow
  <1> QED
    BY <1>1, <1>3

\* An id that may be held may be held when a row of a new node comes.
LEMMA SafeAtNew ==
    ASSUME NEW nodes, NEW id, NEW path, Safe(nodes, id, path),
           NEW at, NEW row, Vacant(nodes, at, row), \A x \in nodes : x.node # row.node
    PROVE  Safe(InsertOrReplace(nodes, row), id, path)
  <1> DEFINE new == InsertOrReplace(nodes, row)
  <1>1. PICK x \in nodes :
          x.node = id /\ x.type = "FILE" /\ InPlace(nodes, x) /\ path = <<x.name>>
    BY DEF Safe
  <1>2. InPlace(new, x)
    BY <1>1, StaysAtInsert DEF Vacant
  <1> HIDE DEF new
  <1>3. Safe(new, id, path)
    BY <1>1, <1>2 DEF Safe, InPlace
  <1> QED
    BY <1>3 DEF new

\* So it may, under the name the rename gives it, when a row goes to a free name.
LEMMA SafeAtMove ==
    ASSUME NEW nodes, Unique(nodes), NEW id, NEW path, Safe(nodes, id, path),
           NEW row, NEW from, NEW to, Moving(nodes, row, from, to),
           Lookup(nodes, 0, row.name) = {}
    PROVE  Safe(InsertOrReplace(nodes, row), id, IF path = from THEN to ELSE path)
  <1> DEFINE new == InsertOrReplace(nodes, row)
  <1>1. PICK x \in nodes :
          x.node = id /\ x.type = "FILE" /\ InPlace(nodes, x) /\ path = <<x.name>>
    BY DEF Safe
  <1>2. PICK y \in nodes :
          y.node = row.node /\ y.type = row.type /\ InPlace(nodes, y) /\ from = <<y.name>>
    BY DEF Moving
  <1>3. row.parent = 0 /\ to = <<row.name>>
    BY DEF Moving
  <1>4. CASE path = from
    <2>1. x = y
      BY <1>1, <1>2, <1>4, OneInPlace
    <2>2. InPlace(new, row)
      BY <1>3, NewInPlace
    <2> HIDE DEF new
    <2>3. Safe(new, id, to)
      BY <1>1, <1>2, <1>3, <2>1, <2>2 DEF Safe, InPlace
    <2> QED
      BY <1>4, <2>3 DEF new
  <1>5. CASE path # from
    <2>1. ~ (x.node = row.node /\ x.type = row.type)
      BY <1>1, <1>2, <1>5 DEF Unique
    <2>2. \A z \in nodes : z.node = row.node /\ z.type = row.type => InPlace(nodes, z)
      BY <1>2 DEF Unique
    <2>3. InPlace(new, x)
      BY <1>1, <1>3, <2>1, <2>2, StaysAtInsert
    <2> HIDE DEF new
    <2>4. Safe(new, id, path)
      BY <1>1, <2>3 DEF Safe, InPlace
    <2> QED
      BY <1>5, <2>4 DEF new
  <1> QED
    BY <1>4, <1>5

\* So it may when another node goes.
LEMMA SafeAtDrop ==
    ASSUME NEW nodes, Family(nodes), Unique(nodes), NEW id, NEW path, Safe(nodes, id, path),
           NEW z, InPlace(nodes, z), path # <<z.name>>,
           NEW new, new = {y \in nodes : y.node # z.node}
    PROVE  Safe(new, id, path)
  <1>1. PICK x \in nodes :
          x.node = id /\ x.type = "FILE" /\ InPlace(nodes, x) /\ path = <<x.name>>
    BY DEF Safe
  <1>2. x.node # z.node
    BY <1>1, OtherNode
  <1>3. InPlace(new, x)
    BY <1>1, <1>2, StaysAtDrop
  <1> QED
    BY <1>1, <1>3 DEF Safe, InPlace

\* Deleting what another path leads to.
LEMMA SafeAtDelete ==
    ASSUME NEW m, Family(m.nodes), Unique(m.nodes), NEW at \in Paths, NEW n,
           n.nodes = m.nodes \/ (Removable(m, at) /\ n.nodes = Dropped(m, at)),
           NEW id, NEW path, Safe(m.nodes, id, path), path # at
    PROVE  Safe(n.nodes, id, path)
  <1>1. CASE Removable(m, at) /\ n.nodes = Dropped(m, at)
    <2> DEFINE z == Resolve(m.nodes, at).row
    <2>1. InPlace(m.nodes, z) /\ at = <<z.name>>
      BY <1>1, FoundInPlace DEF Removable
    <2>2. n.nodes = {y \in m.nodes : y.node # z.node}
      BY <1>1 DEF Dropped
    <2> HIDE DEF z
    <2> QED
      BY <2>1, <2>2, SafeAtDrop
  <1> QED
    BY <1>1

-----------------------------------------------------------------------------
(* What libfuse counts. *)

\* A step that leaves the handles alone, and what they hold in its place.
LEMMA TrackedAgain ==
    ASSUME Tracked, fh' = fh, opened' = opened, adrift \subseteq adrift',
           \A h \in Handle \ adrift : fh[h] # 0 => Safe(fs'.nodes, fh[h], opened[h])
    PROVE  Tracked'
  BY DEF Tracked

\* libfuse keeps its names as they are when the handler has failed or has yet to end.
LEMMA RenamesNot ==
    ASSUME Tracked, NEW from, NEW to, Renames(from, to), fs'.r # "OK" \/ job' # NoJob,
           \A h \in Handle \ adrift : fh[h] # 0 => Safe(fs'.nodes, fh[h], opened[h])
    PROVE  Tracked' /\ opened' = opened
  <1>1. fh' = fh /\ opened' = opened /\ adrift \subseteq adrift'
    BY DEF Renames
  <1> QED
    BY <1>1, TrackedAgain

\* The row goes to its free name: libfuse follows, or the open file is adrift.
LEMMA RenamesTracked ==
    ASSUME Tracked, Unique(fs.nodes), NEW from \in Paths, NEW to \in Paths, Renames(from, to),
           NEW row, Moving(fs.nodes, row, from, to), Shifts(fs, fs', row), job' = NoJob
    PROVE  Tracked'
  <1>1. CASE fs'.nodes = fs.nodes /\ fs'.r # "OK"
    <2>1. \A h \in Handle \ adrift : fh[h] # 0 => Safe(fs'.nodes, fh[h], opened[h])
      BY <1>1 DEF Tracked
    <2> QED
      BY <1>1, <2>1, RenamesNot
  <1>2. CASE /\ Lookup(fs.nodes, 0, row.name) = {} /\ fs'.nodes = InsertOrReplace(fs.nodes, row)
             /\ fs'.r \in {"OK", "ENOSPC"}
    <2>1. ASSUME NEW h \in Handle \ adrift, fh[h] # 0
          PROVE  Safe(fs'.nodes, fh[h], IF opened[h] = from THEN to ELSE opened[h])
      <3>1. Safe(fs.nodes, fh[h], opened[h])
        BY <2>1 DEF Tracked
      <3> QED
        BY <1>2, <3>1, SafeAtMove
    <2>2. CASE fs'.r = "OK"
      <3>1. /\ opened' = [h \in Handle |-> IF opened[h] = from THEN to ELSE opened[h]]
            /\ fh' = fh /\ adrift' = adrift
        BY <2>2 DEF Renames
      <3>2. opened' \in [Handle -> Paths \cup {Closed}]
        BY <3>1 DEF Tracked
      <3>3. \A h \in Handle : opened'[h] = IF opened[h] = from THEN to ELSE opened[h]
        BY <3>1
      <3>4. \A h \in Handle : fh'[h] # 0 => opened'[h] \in Paths
        BY <3>1, <3>3 DEF Tracked
      <3>5. \A h \in Handle \ adrift' : fh'[h] # 0 => Safe(fs'.nodes, fh'[h], opened'[h])
        BY <2>1, <3>1, <3>3
      <3>6. fh' \in [Handle -> Nat]
        BY <3>1 DEF Tracked
      <3> QED
        BY <3>2, <3>4, <3>5, <3>6 DEF Tracked
    <2>3. CASE fs'.r = "ENOSPC"
      <3>1. /\ opened' = opened /\ fh' = fh
            /\ adrift' = adrift \cup {h \in Handle : opened[h] = from}
        BY <2>3 DEF Renames
      <3>2. \A h \in Handle \ adrift' : fh'[h] # 0 => Safe(fs'.nodes, fh'[h], opened'[h])
        BY <2>1, <3>1
      <3>3. /\ fh' \in [Handle -> Nat] /\ opened' \in [Handle -> Paths \cup {Closed}]
            /\ \A h \in Handle : fh'[h] # 0 => opened'[h] \in Paths
        BY <3>1 DEF Tracked
      <3> QED
        BY <3>2, <3>3 DEF Tracked
    <2> QED
      BY <1>2, <2>2, <2>3
  <1> QED
    BY <1>1, <1>2 DEF Shifts

\* After a rename that has succeeded, no open file has its old name.
LEMMA RenamesAway ==
    ASSUME NEW from, NEW to, from # to, Renames(from, to), fs'.r = "OK", job' = NoJob
    PROVE  ~ IsOpen(from)'
  <1>1. opened' = [h \in Handle |-> IF opened[h] = from THEN to ELSE opened[h]]
    BY DEF Renames
  <1>2. \A h \in Handle : opened'[h] # from
    BY <1>1
  <1> QED
    BY <1>2 DEF IsOpen

-----------------------------------------------------------------------------
(* The steps of the handlers are steps of OnceFS, but for three. *)

\* The paths of a workload are paths, and so are the names of hidden files.
LEMMA VisiblePath == \A path \in Visible : path \in Paths /\ Basename(path) \notin Hidden
  BY DEF Visible

LEMMA HiddenPath ==
    ASSUME NEW name \in Hidden
    PROVE  <<name>> \in Paths /\ Basename(<<name>>) = name
  <1>1. <<name>> \in Paths /\ Len(<<name>>) = 1
    BY HiddenAssumption
  <1> QED
    BY <1>1 DEF Basename

\* libfuse deletes a hidden file outside the calls of the workload.
Clears(path) ==
    /\ mode = "mounted" /\ job = NoJob
    /\ fs' = Delete(fs, path)
    /\ UNCHANGED <<mode, job, todo>>

\* A handle that is adrift may write to a node that is gone: nothing is looked up.
Spends ==
    /\ mode = "mounted" /\ job = NoJob
    /\ fs' = fs /\ job' \in [kind: {"data"}, node: Nat, offset: Nat, size: Nat \ {0}]
    /\ UNCHANGED <<mode, todo>>

\* A step of OnceFS, an answer that rests on a search alone, the end of a hidden file,
\* or a write that begins.
LEMMA HandlerStep ==
    ASSUME FInv, HNext
    PROVE  \/ [Next]_vars
           \/ \E r \in Verdict : Answers(r)
           \/ \E path \in Paths : Clears(path)
           \/ Spends
  <1>1. \A path \in Visible : path \in Paths
    BY VisiblePath
  <1>2. NInv /\ Tracked /\ fh \in [Handle -> Nat]
    BY DEF FInv, Guarded, Tracked
  <1>3. ASSUME NEW name \in Hidden
        PROVE  <<name>> \in Paths
    BY <1>3, HiddenPath
  <1>4. ASSUME NEW h \in Handle, NEW path \in Visible, Open(h, path)
        PROVE  Call \/ \E r \in Verdict : Answers(r)
    <2>1. CASE OpenToRead(h, path)
      <3>1. mode = "mounted" /\ job = NoJob
        BY <2>1 DEF OpenToRead, Answers
      <3>2. At(path).r \in {"OK", "ENOENT", "EINVAL"}
        BY <1>2, <3>1, Serving, ResolveType DEF At
      <3> QED
        BY <2>1, <3>2 DEF OpenToRead, Verdict
    <2>2. CASE OpenNew(h, path)
      BY <1>1, <2>2 DEF OpenNew, Call
    <2>3. CASE OpenToAppend(h, path)
      BY <2>3 DEF OpenToAppend, Verdict
    <2>4. CASE OpenToWrite(h, path)
      <3>1. At(path).r = "OK" /\ At(path).row.type = "FILE" /\ DelData(At(path).row.node, 0)
        BY <2>4 DEF OpenToWrite
      <3>2. At(path).row \in fs.nodes
        BY <1>1, <3>1, FoundInPlace DEF At, InPlace
      <3>3. At(path).row.node \in FileIds
        BY <3>1, <3>2 DEF FileIds
      <3> QED
        BY <3>1, <3>3, OpenAssumption DEF Call
    <2> QED
      BY <1>4, <2>1, <2>2, <2>3, <2>4 DEF Open
  <1>5. ASSUME NEW h \in Handle, Release(h)
        PROVE  UNCHANGED vars \/ \E path \in Paths : Clears(path)
    <2>1. opened[h] \in Paths
      BY <1>2, <1>5 DEF Release, Tracked
    <2> QED
      BY <1>5, <2>1 DEF Release, Clears, vars
  <1>6. ASSUME NEW h \in Handle, NEW x \in Extents, DoWrite(h, x[1], x[2])
        PROVE  Call \/ Spends
    <2>1. SetData(fh[h], x[1], x[2]) /\ fh[h] \in Nat
      BY <1>2, <1>6 DEF DoWrite
    <2>2. x[1] \in Nat /\ x[2] \in Nat \ {0}
      BY ExtentsAssumption
    <2>3. Spends
      BY <2>1, <2>2 DEF SetData, Begin, Spends
    <2> QED
      BY <2>3
  <1>7. ASSUME NEW h \in Handle, NEW size \in Sizes, DoTruncate(h, size)
        PROVE  Call \/ \E r \in Verdict : Answers(r)
    <2>1. DelData(fh[h], size)
      BY <1>7 DEF DoTruncate
    <2>2. CASE fh[h] \in FileIds
      BY <2>1, <2>2 DEF Call
    <2>3. CASE fh[h] \notin FileIds
      <3>1. ~ \E x \in fs.nodes : x.node = fh[h] /\ x.type = "FILE"
        BY <2>3 DEF FileIds
      <3>2. fs' = Return(fs, "ENOENT")
        BY <2>1, <3>1 DEF DelData, Truncate
      <3>3. Answers("ENOENT")
        BY <2>1, <3>2 DEF DelData, Begin, Answers
      <3> QED
        BY <3>3 DEF Verdict
    <2> QED
      BY <2>2, <2>3
  <1>8. ASSUME NEW path \in Visible, DoUnlink(path) \/ DoRmdir(path) \/ DoMkdir(path)
        PROVE  Call
    BY <1>1, <1>3, <1>8 DEF DoUnlink, DoRmdir, DoMkdir, Hide, Call
  <1>9. ASSUME NEW from \in Visible, NEW to \in Visible, DoRename(from, to)
        PROVE  Call
    BY <1>1, <1>3, <1>9 DEF DoRename, Passed, Hide, Call
  <1>10. ASSUME DoRenameOnto
         PROVE  Call
    <2>1. onto[1] \in Paths /\ onto[2] \in Paths
      BY <1>1, <1>10 DEF DoRenameOnto, FInv, Guarded
    <2> QED
      BY <1>10, <2>1 DEF DoRenameOnto, Passed, Call
  <1>11. ASSUME FinishHandler \/ Restart
         PROVE  Next
    BY <1>11 DEF FinishHandler, Restart, Next
  <1> QED
    BY <1>4, <1>5, <1>6, <1>7, <1>8, <1>9, <1>10, <1>11 DEF HNext, Next

\* What a deletion does to the invariant of OnceFS, when it is a step of its own.
LEMMA ClearsNInv ==
    ASSUME NInv, NEW path \in Paths, Clears(path)
    PROVE  NInv'
  <1>1. /\ IInv /\ Sound(fs) /\ fs \in Machine /\ Rooted(fs, {})
        /\ NoJob.kind = "none" /\ mode = "mounted" /\ job = NoJob
        /\ UNCHANGED <<mode, job, todo>> /\ fs' = Delete(fs, path)
    BY DEF NInv, IInv, Typed, Pending, NoJob, Clears
  <1>2. Sound(fs')
    BY <1>1, DeleteCallForm, FormSound DEF Form
  <1>3. IInv'
    BY <1>1, <1>2 DEF IInv, Typed, Linked, Sound, Good
  <1>4. Grown(fs, fs', {})
    <2>1. Family(fs.nodes \cup Entries(fs.disk) \cup {} \cup {})
      <3>1. Family(fs.nodes \cup Entries(fs.disk) \cup {})
        BY <1>1 DEF Rooted
      <3> QED
        BY <3>1, FamilySubset
    <2>2. \A x \in {} : x.node < fs.next_node_id
      OBVIOUS
    <2>3. (\E r \in Errno : fs' = Return(fs, r)) \/ Grown(fs, fs', {})
      BY <1>1, <2>1, <2>2, DeleteGrown
    <2> QED
      BY <1>1, <2>3, ReturnGrown
  <1>5. Pending' = {}
    BY <1>1 DEF Pending
  <1> QED
    BY <1>1, <1>3, <1>4, <1>5 DEF NInv, Grown

\* So does an answer.
LEMMA AnswersNInv ==
    ASSUME NInv, NEW r \in Verdict, Answers(r)
    PROVE  NInv'
  <1>1. /\ IInv /\ Sound(fs) /\ fs \in Machine /\ Rooted(fs, {})
        /\ NoJob.kind = "none" /\ mode = "mounted" /\ job = NoJob /\ fs' = Return(fs, r)
        /\ UNCHANGED <<mode, job, todo>> /\ r \in Errno \cup {"OK"}
    BY DEF NInv, IInv, Typed, Pending, NoJob, Answers, Verdict, Errno
  <1>2. Sound(fs')
    BY <1>1, ReturnSound
  <1>3. IInv'
    BY <1>1, <1>2 DEF IInv, Typed, Linked, Sound, Good
  <1>4. Grown(fs, fs', {})
    BY <1>1, ReturnGrown
  <1>5. Pending' = {}
    BY <1>1 DEF Pending
  <1> QED
    BY <1>1, <1>3, <1>4, <1>5 DEF NInv, Grown

\* And a write that begins.
LEMMA SpendsNInv ==
    ASSUME NInv, Spends
    PROVE  NInv'
  <1>1. /\ IInv /\ Rooted(fs, {}) /\ mode = "mounted" /\ fs' = fs /\ mode' = mode /\ todo' = todo
        /\ job' \in Job /\ job'.kind = "data"
    BY DEF NInv, Pending, NoJob, Spends, Job
  <1>2. IInv'
    BY <1>1 DEF IInv, Typed, Linked
  <1>3. Pending' = {} /\ Rooted(fs', {})
    BY <1>1 DEF Pending
  <1> QED
    BY <1>1, <1>2, <1>3 DEF NInv

\* Every step of the handlers keeps what the steps of OnceFS keep.
LEMMA HStepNInv ==
    ASSUME FInv, [HNext]_hvars
    PROVE  NInv'
  <1>1. NInv
    BY DEF FInv
  <1>2. CASE HNext
    BY <1>1, <1>2, HandlerStep, StepNInv, AnswersNInv, ClearsNInv, SpendsNInv
  <1>3. CASE UNCHANGED hvars
    BY <1>1, <1>3, StepNInv DEF hvars, vars
  <1> QED
    BY <1>2, <1>3

-----------------------------------------------------------------------------
(* What the steps do to the handles. *)

\* A step that leaves no call in progress, and no rename to pass on.
LEMMA QuietGuarded ==
    ASSUME Tracked', mode' = "mounted", job' = NoJob, onto' = NoRename
    PROVE  Guarded'
  BY DEF Guarded, NoJob

\* What opening a file does to the handle.
LEMMA OpensTracked ==
    ASSUME Tracked, \A h \in Handle \ adrift : fh[h] # 0 => Safe(fs'.nodes, fh[h], opened[h]),
           NEW g \in Handle, NEW path \in Paths, NEW node, Opens(g, path, node),
           fs'.r = "OK" => node \in Nat /\ Safe(fs'.nodes, node, path)
    PROVE  Tracked'
  <1>1. CASE fs'.r = "OK"
    <2>1. /\ fh' = [fh EXCEPT ![g] = node] /\ opened' = [opened EXCEPT ![g] = path]
          /\ adrift' = adrift
      BY <1>1 DEF Opens
    <2>2. /\ fh' \in [Handle -> Nat] /\ opened' \in [Handle -> Paths \cup {Closed}]
          /\ fh'[g] = node /\ opened'[g] = path
          /\ \A h \in Handle : h # g => fh'[h] = fh[h] /\ opened'[h] = opened[h]
      BY <1>1, <2>1 DEF Tracked
    <2>3. \A h \in Handle : fh'[h] # 0 => opened'[h] \in Paths
      BY <2>2 DEF Tracked
    <2>4. \A h \in Handle \ adrift' : fh'[h] # 0 => Safe(fs'.nodes, fh'[h], opened'[h])
      BY <1>1, <2>1, <2>2
    <2> QED
      BY <2>2, <2>3, <2>4 DEF Tracked
  <1>2. CASE fs'.r # "OK"
    <2>1. fh' = fh /\ opened' = opened /\ adrift' = adrift
      BY <1>2 DEF Opens
    <2> QED
      BY <2>1, TrackedAgain
  <1> QED
    BY <1>1, <1>2

\* Creating a file or a directory leaves what is open in its place.
LEMMA CreateSafe ==
    ASSUME NInv, Tracked, mode = "mounted", job = NoJob, NEW path \in Paths,
           NEW type \in {"FILE", "DIR"}, NEW now \in Nat, fs' = Create(fs, path, type, now),
           NEW h \in Handle \ adrift, fh[h] # 0
    PROVE  Safe(fs'.nodes, fh[h], opened[h])
  <1>1. Sound(fs) /\ Rooted(fs, {}) /\ Safe(fs.nodes, fh[h], opened[h])
    BY Serving DEF Tracked
  <1> QED
    BY <1>1, CreateTable, SafeAtNew

\* A file that is created is found under its path.
LEMMA CreatedFound ==
    ASSUME NEW nodes, NEW path \in Paths, NEW row \in NodeRow, row.type = "FILE",
           Vacant(nodes, path, row), NEW new, new = InsertOrReplace(nodes, row),
           NEW id, id = Resolve(new, path).row.node
    PROVE  id \in Nat /\ Safe(new, id, path)
  <1>1. Basename(path) = row.name /\ row.parent = 0 /\ Lookup(nodes, 0, row.name) = {}
    BY DEF Vacant, Basename
  <1>2. InPlace(new, row) /\ Lookup(new, 0, row.name) = {row}
    BY <1>1, NewInPlace
  <1>3. Resolve(new, path) = Found(row)
    <2>1. Picked({row}) = row /\ {row} # {}
      BY DEF Picked
    <2> QED
      BY <1>1, <1>2, <2>1, FlatSearch
  <1>4. id = row.node
    BY <1>3 DEF Found
  <1> QED
    BY <1>2, <1>4 DEF Safe, InPlace, Vacant, NodeRow

\* What a path leads to, if it is a file, may be held.
LEMMA FoundSafe ==
    ASSUME NEW nodes, Family(nodes), NEW path \in Paths, Resolve(nodes, path).r = "OK",
           NEW x, x = Resolve(nodes, path).row, x.type = "FILE"
    PROVE  x.node \in Nat /\ Safe(nodes, x.node, path)
  <1>1. x \in nodes /\ InPlace(nodes, x) /\ path = <<x.name>>
    BY FoundInPlace DEF InPlace
  <1>2. x \in NodeRow
    BY <1>1 DEF Family
  <1> QED
    BY <1>1, <1>2 DEF Safe, NodeRow

\* Opening a file, for whatever it is opened.
LEMMA OpenGuarded ==
    ASSUME FInv, NEW h \in Handle, NEW path \in Visible, Open(h, path)
    PROVE  Guarded'
  <1>1. /\ onto' = NoRename /\ mode = "mounted" /\ mode' = "mounted"
        /\ job = NoJob /\ job' = NoJob
    BY DEF Open, OpenToRead, OpenNew, OpenToAppend, OpenToWrite, Handler, Answers,
           SetFile, DelData, Begin
  <1>2. /\ NInv /\ Tracked /\ path \in Paths /\ fs \in Machine /\ Family(fs.nodes)
        /\ \A g \in Handle \ adrift : fh[g] # 0 => Safe(fs.nodes, fh[g], opened[g])
    BY <1>1, Serving, VisiblePath DEF FInv, Guarded, Tracked
  <1>3. \A r : Return(fs, r).nodes = fs.nodes /\ Return(fs, r).r = r
    BY <1>2 DEF Return, Machine
  <1>4. CASE OpenToRead(h, path) \/ OpenToAppend(h, path)
    <2>1. fs'.nodes = fs.nodes
      BY <1>3, <1>4 DEF OpenToRead, OpenToAppend, Answers
    <2>2. fs'.r = "OK" => At(path).r = "OK" /\ At(path).row.type = "FILE"
      BY <1>3, <1>4 DEF OpenToRead, OpenToAppend, Answers
    <2>3. Opens(h, path, At(path).row.node)
      BY <1>4 DEF OpenToRead, OpenToAppend
    <2>4. fs'.r = "OK" => At(path).row.node \in Nat /\ Safe(fs'.nodes, At(path).row.node, path)
      BY <1>2, <2>1, <2>2, FoundSafe DEF At
    <2>5. Tracked'
      BY <1>2, <2>1, <2>3, <2>4, OpensTracked
    <2> QED
      BY <1>1, <2>5, QuietGuarded
  <1>5. CASE OpenToWrite(h, path)
    <2>1. /\ At(path).r = "OK" /\ At(path).row.type = "FILE"
          /\ fs' = Truncate(fs, At(path).row.node, 0) /\ Opens(h, path, At(path).row.node)
      BY <1>5 DEF OpenToWrite, DelData
    <2>2. At(path).row.node \in Nat /\ Safe(fs.nodes, At(path).row.node, path)
      BY <1>2, <2>1, FoundSafe DEF At
    <2>3. fs'.nodes = fs.nodes
      BY <1>2, <2>1, <2>2, TruncateNodes
    <2>4. Tracked'
      BY <1>2, <2>1, <2>2, <2>3, OpensTracked
    <2> QED
      BY <1>1, <2>4, QuietGuarded
  <1>6. CASE OpenNew(h, path)
    <2>1. PICK now \in Times : fs' = Create(fs, path, "FILE", now)
      BY <1>6 DEF OpenNew, SetFile
    <2>2. now \in Nat /\ Sound(fs) /\ Rooted(fs, {})
      BY <1>1, <1>2, Serving, TimesAssumption
    <2>3. \A g \in Handle \ adrift : fh[g] # 0 => Safe(fs'.nodes, fh[g], opened[g])
      BY <1>1, <1>2, <2>1, <2>2, CreateSafe
    <2> DEFINE id == Resolve(fs'.nodes, path).row.node
    <2>4. fs'.r = "OK" => id \in Nat /\ Safe(fs'.nodes, id, path)
      <3>1. \/ fs'.nodes = fs.nodes /\ fs'.r # "OK"
            \/ \E row \in NodeRow :
                 /\ row.type = "FILE" /\ (\A x \in fs.nodes : x.node # row.node)
                 /\ Vacant(fs.nodes, path, row) /\ fs'.nodes = InsertOrReplace(fs.nodes, row)
        BY <1>2, <2>1, <2>2, CreateTable
      <3> QED
        BY <1>2, <3>1, CreatedFound
    <2>5. Opens(h, path, id)
      BY <1>6 DEF OpenNew
    <2> HIDE DEF id
    <2>6. Tracked'
      BY <1>2, <2>3, <2>4, <2>5, OpensTracked
    <2> QED
      BY <1>1, <2>6, QuietGuarded
  <1> QED
    BY <1>4, <1>5, <1>6 DEF Open

\* The other handlers of an open file.
LEMMA FileGuarded ==
    ASSUME FInv, NEW h \in Handle,
           \/ \E x \in Extents : DoWrite(h, x[1], x[2])
           \/ \E size \in Sizes : DoTruncate(h, size)
           \/ Release(h)
    PROVE  Guarded'
  <1>1. /\ onto = NoRename /\ onto' = NoRename /\ mode = "mounted" /\ mode' = "mounted"
        /\ job = NoJob /\ fh[h] # 0
    BY DEF DoWrite, DoTruncate, Release, Handler, SetData, DelData, Begin
  <1>2. /\ NInv /\ Tracked /\ fs \in Machine /\ fh \in [Handle -> Nat]
        /\ Sound(fs) /\ Rooted(fs, {}) /\ Family(fs.nodes) /\ Unique(fs.nodes)
        /\ \A g \in Handle \ adrift : fh[g] # 0 => Safe(fs.nodes, fh[g], opened[g])
    BY <1>1, Serving DEF FInv, Guarded, Tracked
  <1>3. ASSUME NEW x \in Extents, DoWrite(h, x[1], x[2])
        PROVE  Guarded'
    <2>1. /\ job' = [kind |-> "data", node |-> fh[h], offset |-> x[1], size |-> x[2]]
          /\ fs' = fs /\ fh' = fh /\ opened' = opened /\ adrift' = adrift
      BY <1>3 DEF DoWrite, SetData, held
    <2>2. adrift = {} => HasFile(fs, fh[h])
      BY <1>1, <1>2 DEF Safe, HasFile
    <2>3. Tracked'
      BY <1>2, <2>1, TrackedAgain
    <2> QED
      BY <1>1, <2>1, <2>2, <2>3 DEF Guarded, HasFile
  <1>4. ASSUME NEW size \in Sizes, DoTruncate(h, size)
        PROVE  Guarded'
    <2>1. /\ fs' = Truncate(fs, fh[h], size) /\ job' = NoJob
          /\ fh' = fh /\ opened' = opened /\ adrift' = adrift
      BY <1>1, <1>4 DEF DoTruncate, DelData, held
    <2>2. fs'.nodes = fs.nodes
      BY <1>2, <2>1, SizesAssumption, TruncateNodes
    <2>3. Tracked'
      BY <1>2, <2>1, <2>2, TrackedAgain
    <2> QED
      BY <1>1, <2>1, <2>3, QuietGuarded
  <1>5. CASE Release(h)
    <2>1. /\ fh' = [fh EXCEPT ![h] = 0] /\ opened' = [opened EXCEPT ![h] = Closed]
          /\ adrift' = adrift \ {h} /\ job' = NoJob /\ opened[h] \in Paths
      BY <1>1, <1>2, <1>5 DEF Release, Tracked
    <2>2. /\ fh' \in [Handle -> Nat] /\ opened' \in [Handle -> Paths \cup {Closed}]
          /\ fh'[h] = 0
          /\ \A g \in Handle : g # h => fh'[g] = fh[g] /\ opened'[g] = opened[g]
      BY <2>1, <1>2 DEF Tracked
    <2>3. \A g \in Handle : fh'[g] # 0 => opened'[g] \in Paths
      BY <1>2, <2>2 DEF Tracked
    <2>4. ASSUME NEW g \in Handle \ adrift', fh'[g] # 0
          PROVE  Safe(fs'.nodes, fh'[g], opened'[g])
      <3>1. g # h /\ g \notin adrift /\ fh[g] # 0 /\ fh'[g] = fh[g] /\ opened'[g] = opened[g]
        BY <2>1, <2>2, <2>4
      <3>2. Safe(fs.nodes, fh[g], opened[g])
        BY <1>2, <3>1
      <3>3. CASE fs' = fs
        BY <3>1, <3>2, <3>3
      <3>4. CASE fs' = Delete(fs, opened[h]) /\ opened[g] # opened[h]
        <4>1. \/ fs'.nodes = fs.nodes
              \/ Removable(fs, opened[h]) /\ fs'.nodes = Dropped(fs, opened[h])
          BY <1>2, <2>1, <3>4, DeleteTable
        <4> QED
          BY <1>2, <2>1, <3>1, <3>2, <3>4, <4>1, SafeAtDelete
      <3> QED
        BY <1>5, <3>1, <3>3, <3>4 DEF Release
    <2>5. Tracked'
      BY <2>2, <2>3, <2>4 DEF Tracked
    <2> QED
      BY <1>1, <2>1, <2>5, QuietGuarded
  <1> QED
    BY <1>3, <1>4, <1>5

\* Deleting what no open file has the name of.
LEMMA UnlinkGuarded ==
    ASSUME FInv, NEW path \in Visible, onto = NoRename, onto' = NoRename,
           DelNode(path), UNCHANGED held, ~ IsOpen(path) \/ At(path).row.type = "DIR"
    PROVE  Guarded'
  <1>1. /\ fs' = Delete(fs, path) /\ mode = "mounted" /\ mode' = mode /\ job = NoJob /\ job' = NoJob
        /\ fh' = fh /\ opened' = opened /\ adrift' = adrift /\ path \in Paths
    BY VisiblePath DEF DelNode, Begin, held
  <1>2. /\ NInv /\ Tracked /\ Sound(fs) /\ Rooted(fs, {}) /\ Family(fs.nodes) /\ Unique(fs.nodes)
    BY <1>1, Serving DEF FInv, Guarded
  <1>3. fs'.nodes = fs.nodes \/ (Removable(fs, path) /\ fs'.nodes = Dropped(fs, path))
    BY <1>1, <1>2, DeleteTable
  <1>4. ASSUME NEW h \in Handle \ adrift, fh[h] # 0
        PROVE  Safe(fs'.nodes, fh[h], opened[h])
    <2>1. Safe(fs.nodes, fh[h], opened[h])
      BY <1>2, <1>4 DEF Tracked
    <2>2. CASE opened[h] # path
      BY <1>1, <1>2, <1>3, <2>1, <2>2, SafeAtDelete
    <2>3. CASE opened[h] = path /\ Removable(fs, path)
      <3> DEFINE z == At(path).row
      <3>1. InPlace(fs.nodes, z) /\ path = <<z.name>> /\ z.type = "DIR"
        BY <1>1, <2>3, FoundInPlace DEF At, Removable, IsOpen
      <3>2. PICK x \in fs.nodes : x.type = "FILE" /\ InPlace(fs.nodes, x) /\ path = <<x.name>>
        BY <2>1, <2>3 DEF Safe
      <3> HIDE DEF z
      <3>3. x = z
        BY <3>1, <3>2, OneInPlace
      <3> QED
        BY <3>1, <3>2, <3>3
    <2> QED
      BY <1>3, <2>1, <2>2, <2>3
  <1>5. Tracked'
    BY <1>1, <1>2, <1>4, TrackedAgain
  <1> QED
    BY <1>1, <1>5, QuietGuarded

\* libfuse hides a file that is open: it stays one that its handles may hold, and its
\* path is not that of an open file any more.
LEMMA HideGuarded ==
    ASSUME FInv, NEW path \in Visible, Hide(path)
    PROVE  /\ mode = "mounted" /\ mode' = mode /\ job' = NoJob /\ Tracked'
           /\ fs'.r = "OK" => ~ IsOpen(path)'
  <1>1. PICK name \in Hidden : /\ At(<<name>>).r = "ENOENT" /\ MoveNode(path, <<name>>)
                               /\ Renames(path, <<name>>)
    BY DEF Hide
  <1> DEFINE to == <<name>>
  <1>2. path \in Paths /\ to \in Paths /\ path # to
    BY VisiblePath, HiddenPath
  <1>3. mode = "mounted" /\ mode' = mode /\ job = NoJob
    BY <1>1 DEF MoveNode, Begin
  <1>4. NInv /\ Tracked /\ Unique(fs.nodes)
    BY <1>3, Serving DEF FInv, Guarded
  <1>5. ~ Displaces(path, to)
    BY <1>1 DEF Displaces, Removable, At
  <1> HIDE DEF to
  <1>6. Settles(path, to)
    BY <1>1, <1>2, <1>4, <1>5, MoveTable DEF to
  <1>7. Tracked'
    <2>1. CASE fs'.nodes = fs.nodes /\ fs'.r # "OK"
      <3>1. \A h \in Handle \ adrift : fh[h] # 0 => Safe(fs'.nodes, fh[h], opened[h])
        BY <1>4, <2>1 DEF Tracked
      <3> QED
        BY <1>1, <1>4, <2>1, <3>1, RenamesNot DEF to
    <2>2. CASE \E row \in NodeRow : Moving(fs.nodes, row, path, to) /\ Shifts(fs, fs', row)
      BY <1>1, <1>2, <1>4, <1>6, <2>2, RenamesTracked DEF to, Settles
    <2> QED
      BY <1>6, <2>1, <2>2 DEF Settles
  <1>8. fs'.r = "OK" => ~ IsOpen(path)'
    BY <1>1, <1>2, <1>6, RenamesAway DEF to, Settles
  <1> QED
    BY <1>3, <1>6, <1>7, <1>8 DEF Settles

\* A rename to a name that no open file has.
LEMMA PassedGuarded ==
    ASSUME FInv, NEW from \in Visible, NEW to \in Visible, Passed(from, to), ~ IsOpen(to)
    PROVE  Guarded'
  <1>1. /\ mode = "mounted" /\ mode' = "mounted" /\ job = NoJob /\ MoveNode(from, to)
        /\ Renames(from, to) /\ onto' = IF job' = NoJob THEN NoRename ELSE <<from, to>>
    BY DEF Passed, MoveNode, Begin
  <1>2. NInv /\ Tracked /\ Family(fs.nodes) /\ Unique(fs.nodes) /\ from \in Paths /\ to \in Paths
    BY <1>1, Serving, VisiblePath DEF FInv, Guarded
  <1>3. CASE Settles(from, to)
    <2>1. job' = NoJob /\ onto' = NoRename
      BY <1>1, <1>3 DEF Settles
    <2>2. CASE fs'.nodes = fs.nodes /\ fs'.r # "OK"
      <3>1. \A h \in Handle \ adrift : fh[h] # 0 => Safe(fs'.nodes, fh[h], opened[h])
        BY <1>2, <2>2 DEF Tracked
      <3>2. Tracked'
        BY <1>1, <1>2, <2>2, <3>1, RenamesNot
      <3> QED
        BY <1>1, <2>1, <3>2, QuietGuarded
    <2>3. CASE \E row \in NodeRow : Moving(fs.nodes, row, from, to) /\ Shifts(fs, fs', row)
      <3>1. Tracked'
        BY <1>1, <1>2, <2>1, <2>3, RenamesTracked
      <3> QED
        BY <1>1, <2>1, <3>1, QuietGuarded
    <2> QED
      BY <1>3, <2>2, <2>3 DEF Settles
  <1>4. CASE Displaces(from, to)
    <2>1. ASSUME NEW h \in Handle \ adrift, fh[h] # 0
          PROVE  Safe(fs'.nodes, fh[h], opened[h])
      <3>1. Safe(fs.nodes, fh[h], opened[h]) /\ opened[h] # to
        BY <1>2, <2>1 DEF Tracked, IsOpen
      <3> QED
        BY <1>2, <1>4, <3>1, SafeAtDelete DEF Displaces
    <2>2. fs'.r # "OK" \/ job' # NoJob
      BY <1>4 DEF Displaces, NoJob
    <2>3. Tracked' /\ opened' = opened
      BY <1>1, <1>2, <2>1, <2>2, RenamesNot
    <2>4. CASE job' = NoJob
      BY <1>1, <2>3, <2>4, QuietGuarded
    <2>5. ASSUME NEW row \in NodeRow, job' = [kind |-> "move", row |-> row],
                 Moving(fs'.nodes, row, from, to)
          PROVE  Guarded'
      <3>1. /\ job' # NoJob /\ job'.kind = "move" /\ job'.row = row
            /\ onto' = <<from, to>> /\ onto' \in Visible \X Visible /\ onto' # NoRename
        BY <1>1, <2>5 DEF NoJob, NoRename
      <3>2. onto'[1] = from /\ onto'[2] = to
        BY <3>1
      <3>3. ~ IsOpen(onto[2])'
        BY <2>3, <3>2 DEF IsOpen
      <3> QED
        BY <1>1, <2>3, <2>5, <3>1, <3>2, <3>3 DEF Guarded
    <2> QED
      BY <1>4, <2>4, <2>5 DEF Displaces
  <1> QED
    BY <1>1, <1>2, <1>3, <1>4, MoveTable

\* The handlers of names.
LEMMA NameGuarded ==
    ASSUME FInv,
           \/ \E path \in Visible : DoUnlink(path) \/ DoRmdir(path) \/ DoMkdir(path)
           \/ \E from, to \in Visible : DoRename(from, to)
           \/ DoRenameOnto
    PROVE  Guarded'
  <1>1. NInv /\ Tracked /\ Guarded
    BY DEF FInv, Guarded
  <1>2. ASSUME NEW path \in Visible, DoMkdir(path)
        PROVE  Guarded'
    <2>1. PICK now \in Times : fs' = Create(fs, path, "DIR", now)
      BY <1>2 DEF DoMkdir, SetDir
    <2>2. /\ onto' = NoRename /\ mode = "mounted" /\ mode' = mode /\ job = NoJob /\ job' = NoJob
          /\ fh' = fh /\ opened' = opened /\ adrift' = adrift /\ path \in Paths /\ now \in Nat
      BY <1>2, TimesAssumption, VisiblePath DEF DoMkdir, SetDir, Begin, Handler, held
    <2>3. \A h \in Handle \ adrift : fh[h] # 0 => Safe(fs'.nodes, fh[h], opened[h])
      BY <1>1, <2>1, <2>2, CreateSafe
    <2>4. Tracked'
      BY <1>1, <2>2, <2>3, TrackedAgain
    <2> QED
      BY <2>2, <2>4, QuietGuarded
  <1>3. ASSUME NEW path \in Visible, DoUnlink(path)
        PROVE  Guarded'
    <2>1. onto = NoRename /\ onto' = NoRename
      BY <1>3 DEF DoUnlink, Handler
    <2>2. CASE IsOpen(path)
      <3>1. Hide(path)
        BY <1>3, <2>2 DEF DoUnlink
      <3> QED
        BY <2>1, <3>1, HideGuarded, QuietGuarded
    <2>3. CASE ~ IsOpen(path)
      BY <1>3, <2>1, <2>3, UnlinkGuarded DEF DoUnlink
    <2> QED
      BY <2>2, <2>3
  <1>4. ASSUME NEW path \in Visible, DoRmdir(path)
        PROVE  Guarded'
    BY <1>4, UnlinkGuarded DEF DoRmdir, Handler
  <1>5. ASSUME NEW from \in Visible, NEW to \in Visible, DoRename(from, to)
        PROVE  Guarded'
    <2>1. CASE IsOpen(to)
      <3>1. Hide(to) /\ onto' = IF fs'.r = "OK" THEN <<from, to>> ELSE NoRename
        BY <1>5, <2>1 DEF DoRename
      <3>2. /\ mode = "mounted" /\ mode' = mode /\ job' = NoJob /\ Tracked'
            /\ fs'.r = "OK" => ~ IsOpen(to)'
        BY <3>1, HideGuarded
      <3>3. CASE fs'.r = "OK"
        <4>1. onto' = <<from, to>>
          BY <3>1, <3>3
        <4>2. onto' \in Visible \X Visible /\ onto'[2] = to
          BY <4>1
        <4>3. ~ IsOpen(onto[2])'
          BY <3>2, <3>3, <4>2 DEF IsOpen
        <4> QED
          BY <3>2, <4>2, <4>3 DEF Guarded, NoJob
      <3>4. CASE fs'.r # "OK"
        BY <3>1, <3>2, <3>4, QuietGuarded
      <3> QED
        BY <3>3, <3>4
    <2>2. CASE ~ IsOpen(to)
      BY <1>5, <2>2, PassedGuarded DEF DoRename
    <2> QED
      BY <2>1, <2>2
  <1>6. ASSUME DoRenameOnto
        PROVE  Guarded'
    <2>1. onto[1] \in Visible /\ onto[2] \in Visible /\ ~ IsOpen(onto[2])
      BY <1>1, <1>6 DEF DoRenameOnto, Guarded
    <2> QED
      BY <1>6, <2>1, PassedGuarded DEF DoRenameOnto
  <1> QED
    BY <1>2, <1>3, <1>4, <1>5, <1>6

\* The second part of a rename, and the data of a write.
LEMMA FinishGuarded ==
    ASSUME FInv, FinishHandler
    PROVE  Guarded'
  <1>1. /\ mode = "mounted" /\ mode' = "mounted" /\ onto' = NoRename
        /\ NInv /\ Guarded /\ Tracked /\ job.kind # "link"
        /\ IF onto = NoRename THEN UNCHANGED held ELSE Renames(onto[1], onto[2])
    BY DEF FinishHandler, Finish, FinishLink, FinishMove, WriteChunk, FInv, Guarded
  <1>2. Sound(fs) /\ fs \in Machine /\ job \in Job /\ Unique(fs.nodes)
    BY <1>1 DEF NInv, IInv, Typed, Rooted
  <1>3. CASE FinishMove
    <2>1. /\ job' = NoJob /\ job.kind = "move" /\ job.row \in NodeRow
          /\ Moving(fs.nodes, job.row, onto[1], onto[2]) /\ job.row.parent = 0
          /\ Renames(onto[1], onto[2]) /\ onto[1] \in Paths /\ onto[2] \in Paths
      BY <1>1, <1>2, <1>3, JobType, VisiblePath DEF FinishMove, Guarded, Moving
    <2>2. fs' = IF MoveRow(fs, job.row).r = "OK"
                THEN WriteEntry(MoveRow(fs, job.row), "MOVE", job.row) ELSE MoveRow(fs, job.row)
      BY <1>3 DEF FinishMove
    <2>3. Shifts(fs, fs', job.row)
      BY <1>2, <2>1, <2>2, MoveShifts
    <2>4. Tracked'
      BY <1>1, <1>2, <2>1, <2>3, RenamesTracked
    <2> QED
      BY <1>1, <2>1, <2>4, QuietGuarded
  <1>4. CASE WriteChunk
    <2>1. /\ fs'.nodes = fs.nodes /\ job.kind = "data"
          /\ job' = IF fs'.r = "OK" /\ job.size > (IF job.size > Payload THEN Payload ELSE job.size)
                    THEN [job EXCEPT !.offset = @ + (IF job.size > Payload THEN Payload ELSE job.size),
                                     !.size = @ - (IF job.size > Payload THEN Payload ELSE job.size)]
                    ELSE NoJob
      BY <1>2, <1>4, WriteNodes DEF WriteChunk
    <2>2. /\ fh' = fh /\ opened' = opened /\ adrift' = adrift
          /\ adrift = {} => HasFile(fs, job.node)
      BY <1>1, <2>1 DEF Guarded, held
    <2>3. Tracked'
      BY <1>1, <2>1, <2>2, TrackedAgain DEF Tracked
    <2>4. CASE job' = NoJob
      BY <1>1, <2>3, <2>4, QuietGuarded
    <2>5. CASE job' # NoJob
      <3>1. job'.kind = "data" /\ job'.node = job.node
        <4>1. job = [kind |-> "data", node |-> job.node, offset |-> job.offset, size |-> job.size]
          BY <1>2, <2>1, JobType
        <4> QED
          BY <2>1, <2>5, <4>1
      <3>2. adrift' = {} => HasFile(fs', job'.node)
        BY <2>1, <2>2, <3>1 DEF HasFile
      <3> QED
        BY <1>1, <2>3, <3>1, <3>2 DEF Guarded
    <2> QED
      BY <2>4, <2>5
  <1> QED
    BY <1>1, <1>3, <1>4 DEF FinishHandler, Finish, FinishLink

\* The end of a process, and the mount of the next: there are no handles.
LEMMA RestartGuarded ==
    ASSUME FInv, Restart
    PROVE  Guarded'
  <1>1. Guarded /\ Tracked /\ job \in Job /\ (job # NoJob => mode = "mounted")
    BY DEF FInv, NInv, IInv, Typed, Guarded
  <1>2. CASE /\ Stop /\ fh' = [h \in Handle |-> 0] /\ opened' = [h \in Handle |-> Closed]
             /\ adrift' = {} /\ onto' = NoRename
    <2>1. Tracked'
      BY <1>2 DEF Tracked
    <2> QED
      BY <1>2, <2>1 DEF Guarded, Stop, NoJob
  <1>3. CASE (Mount \/ Load) /\ UNCHANGED <<held, onto>>
    <2>1. mode # "mounted" /\ job' = job /\ job = NoJob
      BY <1>1, <1>3 DEF Mount, Load, Mounted, LoadRecord
    <2>2. fh' = fh /\ opened' = opened /\ adrift' = adrift /\ onto' = NoRename
          /\ \A h \in Handle : fh[h] = 0
      BY <1>1, <1>3, <2>1 DEF Guarded, held
    <2>3. Tracked'
      BY <1>1, <2>2, TrackedAgain
    <2> QED
      BY <2>1, <2>2, <2>3 DEF Guarded, NoJob
  <1> QED
    BY <1>2, <1>3 DEF Restart

\* Every step keeps the handles safe.
LEMMA StepFInv == FInv /\ [HNext]_hvars => FInv'
  <1>1. FInv /\ HNext => Guarded'
    BY OpenGuarded, FileGuarded, NameGuarded, FinishGuarded, RestartGuarded DEF HNext
  <1>2. FInv /\ UNCHANGED hvars => Guarded'
    BY DEF FInv, Guarded, Tracked, hvars, held, IsOpen
  <1> QED
    BY <1>1, <1>2, HStepNInv DEF FInv

\* A process that has just formatted its container has no handles.
LEMMA InitFInv == HInit => FInv
  <1> SUFFICES ASSUME HInit PROVE FInv
    OBVIOUS
  <1>1. Tracked
    BY DEF HInit, Tracked
  <1> QED
    BY <1>1, InitNInv DEF HInit, FInv, Guarded, Init, NoJob

\* It holds in every reachable state.
THEOREM HandlesInvariant == HSpec => []FInv
  BY InitFInv, StepFInv, PTL DEF HSpec

\* The id of an open file names a file, whatever is removed, renamed, or renamed over
\* while it is open, whichever of these calls is refused, and whatever history the
\* process has mounted: no handler writes to or cuts the data of a node that is gone.
\* The exception is a file that a rename has moved and then, for lack of space, refused.
THEOREM HandlesNameFiles == HSpec => []HandlesLive
  <1>1. FInv => HandlesLive
    BY DEF FInv, Guarded, Tracked, HandlesLive, Safe
  <1> QED
    BY <1>1, HandlesInvariant, PTL

-----------------------------------------------------------------------------
(* What the records say of files, while there is room for more. *)

Room(disk) == LastBlock \notin Valid(disk)

\* A record makes the node a file.
Makes(disk, c, node) ==
    disk[c].op = "NODE" /\ disk[c].node = node /\ disk[c].entry.type = "FILE"

Ends(disk, d, node) == disk[d].op = "DELETE" /\ disk[d].node = node

\* Of the records that have a row, one made the node a file, and none ended it since.
Born(m, node) ==
    \E c \in Block :
        /\ Present(m, c) /\ Makes(m.disk, c, node)
        /\ \A d \in Block :
             Present(m, d) /\ Ends(m.disk, d, node) => m.disk[d].seq < m.disk[c].seq

\* The files of the node table are those of the records.
Filed(m) == \A node : HasFile(m, node) <=> Born(m, node)

\* A record that only a file has.
OfFile(rec) == rec.op \in {"DATA", "TRUNCATE"} \/ (rec.op = "MOVE" /\ rec.entry.type = "FILE")

\* Each such record follows one that made its node a file, and none that ended it came
\* between.
Founded(disk) ==
    \A b \in Valid(disk) : OfFile(disk[b]) =>
        \E c \in Valid(disk) :
            /\ Makes(disk, c, disk[b].node) /\ disk[c].seq < disk[b].seq
            /\ \A d \in Valid(disk) :
                 Ends(disk, d, disk[b].node) =>
                     disk[d].seq < disk[c].seq \/ disk[b].seq < disk[d].seq

\* From m to n the record of block b, the youngest, gets its row.
Joins(m, n, b) ==
    /\ ~ Present(m, b) /\ Present(n, b)
    /\ \A c \in Block : c # b => /\ Present(n, c) <=> Present(m, c)
                                 /\ Present(m, c) => n.disk[c] = m.disk[c]
    /\ \A c \in Block : Present(m, c) => m.disk[c].seq < n.disk[b].seq

\* What such a record does to the files.
Effects(m, n, rec) ==
    \A node : HasFile(n, node) <=>
        \/ HasFile(m, node) /\ ~ (rec.op = "DELETE" /\ rec.node = node)
        \/ rec.op = "NODE" /\ rec.entry.type = "FILE" /\ rec.node = node

\* It keeps the files of the table those of the records.
LEMMA EnterFiled ==
    ASSUME NEW m, Filed(m), NEW n \in Machine, NEW b \in Block, Joins(m, n, b),
           m \in Machine, Effects(m, n, n.disk[b])
    PROVE  Filed(n)
  <1>1. ASSUME NEW node
        PROVE  Born(n, node) <=>
                 \/ Born(m, node) /\ ~ Ends(n.disk, b, node)
                 \/ Makes(n.disk, b, node)
    <2>1. \A c \in Block : n.disk[c].seq \in Nat /\ m.disk[c].seq \in Nat
      BY DEF Machine, DiskRecord
    <2>2. ASSUME Born(n, node)
          PROVE  (Born(m, node) /\ ~ Ends(n.disk, b, node)) \/ Makes(n.disk, b, node)
      <3>1. PICK c \in Block :
              /\ Present(n, c) /\ Makes(n.disk, c, node)
              /\ \A d \in Block :
                   Present(n, d) /\ Ends(n.disk, d, node) => n.disk[d].seq < n.disk[c].seq
        BY <2>2 DEF Born
      <3>2. CASE c = b
        BY <3>1, <3>2
      <3>3. CASE c # b
        <4>1. Present(m, c) /\ Makes(m.disk, c, node) /\ n.disk[c] = m.disk[c]
          BY <3>1, <3>3 DEF Joins, Makes
        <4>2. ~ Ends(n.disk, b, node)
          BY <2>1, <3>1, <4>1 DEF Joins
        <4>3. \A d \in Block :
                Present(m, d) /\ Ends(m.disk, d, node) => m.disk[d].seq < m.disk[c].seq
          BY <3>1, <4>1 DEF Joins, Ends
        <4> QED
          BY <4>1, <4>2, <4>3 DEF Born
      <3> QED
        BY <3>2, <3>3
    <2>3. ASSUME Born(m, node), ~ Ends(n.disk, b, node)
          PROVE  Born(n, node)
      <3>1. PICK c \in Block :
              /\ Present(m, c) /\ Makes(m.disk, c, node)
              /\ \A d \in Block :
                   Present(m, d) /\ Ends(m.disk, d, node) => m.disk[d].seq < m.disk[c].seq
        BY <2>3 DEF Born
      <3>2. Present(n, c) /\ Makes(n.disk, c, node) /\ n.disk[c] = m.disk[c]
        BY <3>1 DEF Joins, Makes
      <3>3. \A d \in Block :
              Present(n, d) /\ Ends(n.disk, d, node) => n.disk[d].seq < n.disk[c].seq
        BY <2>3, <3>1, <3>2 DEF Joins, Ends
      <3> QED
        BY <3>2, <3>3 DEF Born
    <2>4. ASSUME Makes(n.disk, b, node)
          PROVE  Born(n, node)
      <3>1. \A d \in Block :
              Present(n, d) /\ Ends(n.disk, d, node) => n.disk[d].seq < n.disk[b].seq
        BY <2>4 DEF Joins, Ends, Makes
      <3> QED
        BY <2>4, <3>1 DEF Born, Joins
    <2> QED
      BY <2>2, <2>3, <2>4
  <1> QED
    BY <1>1 DEF Filed, Effects, Ends, Makes

\* When all older records have their rows, the table has the file of such a record.
LEMMA FoundedFile ==
    ASSUME NEW m \in Machine, Filed(m), Founded(m.disk), NEW b \in Valid(m.disk),
           OfFile(m.disk[b]),
           \A c \in Valid(m.disk) : m.disk[c].seq < m.disk[b].seq => Present(m, c),
           \A d \in Valid(m.disk) : Present(m, d) /\ Ends(m.disk, d, m.disk[b].node)
                                       => m.disk[d].seq <= m.disk[b].seq,
           \A c \in Block : Present(m, c) => c \in Valid(m.disk)
    PROVE  HasFile(m, m.disk[b].node)
  <1> DEFINE node == m.disk[b].node
  <1>1. PICK c \in Valid(m.disk) :
          /\ Makes(m.disk, c, node) /\ m.disk[c].seq < m.disk[b].seq
          /\ \A d \in Valid(m.disk) :
               Ends(m.disk, d, node) =>
                   m.disk[d].seq < m.disk[c].seq \/ m.disk[b].seq < m.disk[d].seq
    BY DEF Founded
  <1>2. \A d \in Block : m.disk[d].seq \in Nat
    BY DEF Machine, DiskRecord
  <1>3. Present(m, c) /\ c \in Block /\ b \in Block
    BY <1>1 DEF Valid
  <1>4. ASSUME NEW d \in Block, Present(m, d), Ends(m.disk, d, node)
        PROVE  m.disk[d].seq < m.disk[c].seq
    BY <1>1, <1>2, <1>3, <1>4
  <1> QED
    BY <1>1, <1>3, <1>4 DEF Filed, Born

\* Block b, which had no record, has the youngest, about a node of the table f left.
Records(m, n, f, b, op, node, entry) ==
    /\ Joins(m, n, b) /\ b \notin Valid(m.disk) /\ Valid(n.disk) = Valid(m.disk) \cup {b}
    /\ n.disk[b].op = op /\ n.disk[b].node = node /\ n.disk[b].entry = entry
    /\ \A c \in Valid(m.disk) : n.disk[c] = m.disk[c] /\ m.disk[c].seq < n.disk[b].seq
    /\ n.nodes = f.nodes

\* A record that is written while there is room goes to a block that has none.
LEMMA WriteJoins ==
    ASSUME NEW m, Sound(m), m.next_block_id <= LastBlock, NEW f, Fades(m, f),
           NEW op \in LogOp, NEW node \in Nat, NEW fill \in Nat,
           NEW offset \in Nat, NEW entry \in NodeRow \cup {NoEntry},
           Write(f, op, node, fill, offset, entry) \in Machine
    PROVE  \E b \in Block : Records(m, Write(f, op, node, fill, offset, entry), f, b, op, node, entry)
  <1> DEFINE n == Write(f, op, node, fill, offset, entry)
  <1>1. Sound(f) /\ Good(f) /\ f.next_block_id = m.next_block_id /\ f.disk = m.disk
    BY FadesSound DEF Fades, Sound
  <1>2. Grants(f, node) = {f.next_block_id}
    BY <1>1 DEF Grants
  <1> DEFINE b == f.next_block_id
  <1>4. /\ n.nodes = f.nodes
        /\ n.blocks = [f.blocks EXCEPT ![b] =
              [op |-> op, seq |-> f.next_seq_id, node |-> node, fill |-> fill, offset |-> offset]]
        /\ n.disk = [f.disk EXCEPT ![b] =
              [op |-> op, seq |-> f.next_seq_id, node |-> node,
               fill |-> fill, offset |-> offset, entry |-> entry]]
    <2>1. \E c \in Grants(f, node) :
            n = [nodes |-> f.nodes,
                 blocks |-> [f.blocks EXCEPT ![c] =
                    [op |-> op, seq |-> f.next_seq_id, node |-> node,
                     fill |-> fill, offset |-> offset]],
                 disk |-> [f.disk EXCEPT ![c] =
                    [op |-> op, seq |-> f.next_seq_id, node |-> node,
                     fill |-> fill, offset |-> offset, entry |-> entry]],
                 next_node_id |-> Larger(f.next_node_id, node + 1),
                 next_block_id |-> IF f.next_block_id <= LastBlock
                                   THEN f.next_block_id + 1 ELSE f.next_block_id,
                 next_seq_id |-> f.next_seq_id + 1,
                 r |-> "OK"]
      <3>1. Grants(f, node) # {}
        BY <1>2
      <3>2. PICK c \in Grants(f, node) : n = Laid(f, op, node, fill, offset, entry, c)
        BY <1>1, <3>1, WriteEffect
      <3> QED
        BY <3>2 DEF Laid
    <2> QED
      BY <1>2, <2>1
  <1>5. b \in Block /\ f.blocks[b].op = "NONE" /\ b \notin Valid(m.disk)
    <2>1. b \in Block
      BY <1>1 DEF Good, Block
    <2> QED
      BY <1>1, <2>1 DEF Sound, Good
  <1>6. \A c \in Block : Present(m, c) <=> Present(f, c)
    BY DEF Fades, Present
  <1>7. /\ f.blocks \in [Block -> BlockRow] /\ f.disk \in [Block -> DiskRecord]
        /\ \A c \in Valid(f.disk) : f.disk[c].seq < f.next_seq_id
    <2>1. \A c \in Valid(f.disk) : c \in Block /\ f.blocks[c].op # "NONE"
      BY <1>1 DEF Sound, Good, Valid, Block
    <2>2. \A c \in Valid(f.disk) : Mirrors(f, c)
      BY <1>1, <2>1 DEF Sound, MirrorsAll
    <2> QED
      BY <1>1, <2>2 DEF Mirrors, Good, Machine
  <1>8. \A c \in Block : Present(f, c) => c \in Valid(f.disk)
    BY <1>1 DEF Sound, Good, Block, Present
  <1> HIDE DEF b, n
  <1>9. Joins(m, n, b)
    BY <1>1, <1>4, <1>5, <1>6, <1>7, <1>8 DEF Joins, Present, LogOp
  <1>10. Valid(n.disk) = Valid(m.disk) \cup {b}
    BY <1>1, <1>4, <1>5, <1>7 DEF Valid, LogOp
  <1>11. Records(m, n, f, b, op, node, entry)
    BY <1>1, <1>4, <1>5, <1>7, <1>9, <1>10 DEF Records
  <1> QED
    BY <1>5, <1>11 DEF n

\* The log stays founded when the youngest record is about no file, or about one.
LEMMA JoinFounded ==
    ASSUME NEW m, Sound(m), Filed(m), Founded(m.disk), NEW n \in Machine, NEW b \in Block,
           b \notin Valid(m.disk), Valid(n.disk) = Valid(m.disk) \cup {b},
           \A c \in Valid(m.disk) : n.disk[c] = m.disk[c] /\ m.disk[c].seq < n.disk[b].seq,
           OfFile(n.disk[b]) => HasFile(m, n.disk[b].node)
    PROVE  Founded(n.disk)
  <1>1. \A c \in Block : n.disk[c].seq \in Nat /\ m.disk[c].seq \in Nat
    BY DEF Machine, DiskRecord, Sound, Good
  <1>2. \A c \in Block : Present(m, c) <=> c \in Valid(m.disk)
    BY DEF Sound, Good, Machine, Block, Present
  <1>3. ASSUME NEW a \in Valid(m.disk), OfFile(n.disk[a])
        PROVE  \E c \in Valid(n.disk) :
                 /\ Makes(n.disk, c, n.disk[a].node) /\ n.disk[c].seq < n.disk[a].seq
                 /\ \A d \in Valid(n.disk) :
                      Ends(n.disk, d, n.disk[a].node) =>
                          n.disk[d].seq < n.disk[c].seq \/ n.disk[a].seq < n.disk[d].seq
    <2>1. PICK c \in Valid(m.disk) :
            /\ Makes(m.disk, c, m.disk[a].node) /\ m.disk[c].seq < m.disk[a].seq
            /\ \A d \in Valid(m.disk) :
                 Ends(m.disk, d, m.disk[a].node) =>
                     m.disk[d].seq < m.disk[c].seq \/ m.disk[a].seq < m.disk[d].seq
      BY <1>3 DEF Founded
    <2>2. Makes(n.disk, c, n.disk[a].node) /\ n.disk[c].seq < n.disk[a].seq
      BY <2>1 DEF Makes
    <2>3. ASSUME NEW d \in Valid(n.disk), Ends(n.disk, d, n.disk[a].node)
          PROVE  n.disk[d].seq < n.disk[c].seq \/ n.disk[a].seq < n.disk[d].seq
      BY <2>1, <2>3 DEF Ends
    <2> QED
      BY <2>1, <2>2, <2>3
  <1>4. ASSUME OfFile(n.disk[b])
        PROVE  \E c \in Valid(n.disk) :
                 /\ Makes(n.disk, c, n.disk[b].node) /\ n.disk[c].seq < n.disk[b].seq
                 /\ \A d \in Valid(n.disk) :
                      Ends(n.disk, d, n.disk[b].node) =>
                          n.disk[d].seq < n.disk[c].seq \/ n.disk[b].seq < n.disk[d].seq
    <2>1. Born(m, n.disk[b].node)
      BY <1>4 DEF Filed
    <2>2. PICK c \in Block :
            /\ Present(m, c) /\ Makes(m.disk, c, n.disk[b].node)
            /\ \A d \in Block :
                 Present(m, d) /\ Ends(m.disk, d, n.disk[b].node) => m.disk[d].seq < m.disk[c].seq
      BY <2>1 DEF Born
    <2>3. c \in Valid(m.disk) /\ n.disk[c] = m.disk[c] /\ m.disk[c].seq < n.disk[b].seq
      BY <1>2, <2>2
    <2>4. Makes(n.disk, c, n.disk[b].node)
      BY <2>2, <2>3 DEF Makes
    <2>5. ~ Ends(n.disk, b, n.disk[b].node)
      BY <1>4 DEF Ends, OfFile
    <2>6. ASSUME NEW d \in Valid(n.disk), Ends(n.disk, d, n.disk[b].node)
          PROVE  n.disk[d].seq < n.disk[c].seq
      <3>1. d \in Valid(m.disk) /\ d \in Block
        BY <2>5, <2>6 DEF Valid
      <3> QED
        BY <1>2, <2>2, <2>3, <2>6, <3>1 DEF Ends
    <2> QED
      BY <2>3, <2>4, <2>6
  <1> QED
    BY <1>3, <1>4 DEF Founded

\* What a call does to the files is what its record says.
LEMMA TraceFiled ==
    ASSUME NEW m, Sound(m), Room(m.disk), Filed(m), Founded(m.disk), NEW rest,
           NEW n \in Machine, NEW more, Traces(m, rest, n, more), Family(n.nodes)
    PROVE  Filed(n) /\ Founded(n.disk)
  <1>1. m \in Machine /\ m.next_block_id <= LastBlock /\ LastBlock \in Nat
    BY LastBlockAssumption DEF Sound, Good, Room, Block
  <1>2. CASE n.nodes = m.nodes /\ n.blocks = m.blocks /\ n.disk = m.disk
    BY <1>2 DEF Filed, HasFile, Born, Present
  <1>3. ASSUME NEW f, NEW op, NEW row, Enrols(m, rest, f, op, row, more), n = WriteEntry(f, op, row)
        PROVE  Filed(n) /\ Founded(n.disk)
    <2>1. /\ Fades(m, f) /\ op \in {"NODE", "MOVE"} /\ row \in NodeRow /\ row \in f.nodes
          /\ op \in LogOp /\ row.node \in Nat
      BY <1>3 DEF Enrols, LogOp, NodeRow
    <2>2. n = Write(f, op, row.node, 0, 0, row) /\ row \in NodeRow \cup {NoEntry} /\ 0 \in Nat
      BY <1>3, <2>1 DEF WriteEntry
    <2>3. \E b \in Block : Records(m, n, f, b, op, row.node, row)
      BY <1>1, <2>1, <2>2, WriteJoins
    <2>4. PICK b \in Block : Records(m, n, f, b, op, row.node, row)
      BY <2>3
    <2>5. op = "MOVE" /\ row.type = "FILE" => HasFile(m, row.node)
      <3> SUFFICES ASSUME op = "MOVE", row.type = "FILE" PROVE HasFile(m, row.node)
        OBVIOUS
      <3>1. PICK x \in m.nodes : x.node = row.node
        BY <1>3 DEF Enrols
      <3>2. x \in f.nodes \/ (x.node = row.node /\ x.type = row.type)
        BY <1>3, <3>1 DEF Enrols
      <3>3. x \in f.nodes => Kin(x, row)
        BY <2>1, <2>4 DEF Family, Records
      <3>4. x.type = "FILE"
        BY <3>1, <3>2, <3>3 DEF Kin
      <3> QED
        BY <3>1, <3>4 DEF HasFile
    <2>6. ASSUME NEW node
          PROVE  HasFile(n, node) <=> HasFile(m, node) \/ (row.type = "FILE" /\ row.node = node)
      <3>1. ASSUME HasFile(n, node), ~ (row.type = "FILE" /\ row.node = node)
            PROVE  HasFile(m, node)
        BY <1>3, <2>4, <3>1 DEF Enrols, HasFile, Records
      <3>2. ASSUME HasFile(m, node)
            PROVE  HasFile(n, node)
        BY <1>3, <2>1, <2>4, <3>2 DEF Enrols, HasFile, Records
      <3>3. row.type = "FILE" /\ row.node = node => HasFile(n, node)
        BY <2>1, <2>4 DEF HasFile, Records
      <3> QED
        BY <3>1, <3>2, <3>3
    <2>7. Effects(m, n, n.disk[b])
      BY <2>1, <2>4, <2>5, <2>6 DEF Effects, Records
    <2>8. OfFile(n.disk[b]) => HasFile(m, n.disk[b].node)
      BY <2>1, <2>4, <2>5 DEF OfFile, Records
    <2> QED
      BY <1>1, <2>4, <2>7, <2>8, EnterFiled, JoinFounded DEF Records
  <1>4. ASSUME NEW f, NEW op, NEW node, NEW fill \in Nat, NEW offset \in Nat,
               NEW entry \in NodeRow \cup {NoEntry}, Strips(m, f, op, node, offset),
               n = Write(f, op, node, fill, offset, entry)
        PROVE  Filed(n) /\ Founded(n.disk)
    <2>1. /\ Fades(m, f) /\ op \in {"DELETE", "DATA", "TRUNCATE"} /\ op \in LogOp /\ node \in Nat
          /\ f.nodes = {x \in m.nodes : op = "DELETE" => x.node # node}
          /\ op # "DELETE" => HasFile(m, node)
      BY <1>4 DEF Strips, LogOp
    <2>2. n \in Machine /\ Write(f, op, node, fill, offset, entry) \in Machine
      BY <1>4
    <2>3. \E b \in Block : Records(m, n, f, b, op, node, entry)
      BY <1>1, <1>4, <2>1, <2>2, WriteJoins
    <2>4. PICK b \in Block : Records(m, n, f, b, op, node, entry)
      BY <2>3
    <2>5. Effects(m, n, n.disk[b])
      BY <2>1, <2>4 DEF Effects, HasFile, Records
    <2>6. OfFile(n.disk[b]) => HasFile(m, n.disk[b].node)
      BY <2>1, <2>4 DEF OfFile, Records
    <2> QED
      BY <1>1, <2>4, <2>5, <2>6, EnterFiled, JoinFounded DEF Records
  <1> QED
    BY <1>2, <1>3, <1>4 DEF Traces

\* So does the replay of a record.
LEMMA ReplayFiled ==
    ASSUME NEW m, NEW left, Replaying(m, left), Filed(m), Founded(m.disk), NEW b \in left,
           \A c \in left : m.disk[b].seq <= m.disk[c].seq, Replay(m, b).r = "OK"
    PROVE  Filed(Replay(m, b))
  <1> DEFINE rec == m.disk[b]
             f == Effect(m, rec)
             n == Replay(m, b)
  <1>1. /\ m \in Machine /\ DiskSound(m.disk) /\ left \subseteq Valid(m.disk) /\ b \in Block
        /\ rec \in DiskRecord /\ rec.op \in LogOp
        /\ rec.op \in EntryOp => rec.entry \in NodeRow /\ rec.entry.node = rec.node
    BY DEF Replaying, Good, DiskSound, Valid, DiskRecord
  <1>2. /\ Good(n) /\ n \in Machine /\ n.disk = m.disk
    BY ReplaySound DEF Good
  <1>3. Fades(m, f) /\ f \in Machine
    BY <1>1, EffectFades DEF Fades
  <1>4. f.r = "OK"
    BY <1>3 DEF Replay
  <1>5. /\ n.nodes = f.nodes
        /\ n.blocks = [f.blocks EXCEPT ![b] = [op |-> rec.op, seq |-> rec.seq, node |-> rec.node,
                                               fill |-> rec.fill, offset |-> rec.offset]]
    <2> HIDE DEF f
    <2>1. n = [f EXCEPT !.blocks[b] = [op |-> rec.op, seq |-> rec.seq, node |-> rec.node,
                                       fill |-> rec.fill, offset |-> rec.offset],
                        !.next_node_id = Larger(@, rec.node + 1),
                        !.next_block_id = Larger(@, b + 1),
                        !.next_seq_id = rec.seq + 1]
      BY <1>4 DEF Replay, f
    <2> QED
      BY <1>3, <2>1 DEF Machine
  <1> HIDE DEF f, n
  <1>6. \A c \in Block : Present(m, c) <=> c \in Valid(m.disk) \ left
    BY DEF Replaying, Present
  <1>7. \A c \in Block : m.disk[c].seq \in Nat
    BY <1>1 DEF Machine, DiskRecord
  <1>8. Joins(m, n, b)
    <2>1. ~ Present(m, b) /\ Present(n, b)
      BY <1>1, <1>3, <1>5, <1>6 DEF Present, Machine, LogOp
    <2>2. \A c \in Block : c # b => (Present(n, c) <=> Present(m, c))
      BY <1>3, <1>5 DEF Present, Machine, Fades
    <2>3. \A c \in Block : Present(m, c) => m.disk[c].seq < n.disk[b].seq
      BY <1>2, <1>6 DEF Replaying
    <2> QED
      BY <1>2, <2>1, <2>2, <2>3 DEF Joins
  <1>9. OfFile(rec) => HasFile(m, rec.node)
    <2>1. b \in Valid(m.disk)
      BY <1>1
    <2>2. ASSUME NEW c \in Valid(m.disk), m.disk[c].seq < rec.seq
          PROVE  Present(m, c)
      <3>1. c \in Block /\ c \notin left
        BY <1>1, <1>7, <2>2 DEF Valid
      <3> QED
        BY <1>6, <2>2, <3>1
    <2>3. ASSUME NEW d \in Valid(m.disk), Present(m, d)
          PROVE  m.disk[d].seq <= rec.seq
      <3>1. d \in Block
        BY DEF Valid
      <3>2. m.disk[d].seq < rec.seq
        BY <1>6, <2>3, <3>1 DEF Replaying
      <3> QED
        BY <1>1, <1>7, <3>1, <3>2
    <2> QED
      BY <1>1, <1>6, <2>1, <2>2, <2>3, FoundedFile
  <1>10. f.nodes = CASE rec.op \in {"DATA", "TRUNCATE"} -> m.nodes
                     [] rec.op \in {"NODE", "MOVE"} -> InsertOrReplace(m.nodes, rec.entry)
                     [] rec.op = "DELETE" -> {x \in m.nodes : x.node # rec.node}
    <2>1. CASE rec.op = "DATA"
      BY <1>1, <2>1 DEF f, Effect, Return, Machine
    <2>2. CASE rec.op = "TRUNCATE"
      BY <1>1, <2>2 DEF f, Effect, DropData, Machine
    <2>3. CASE rec.op = "NODE"
      BY <1>1, <2>3 DEF f, Effect, Machine
    <2>4. CASE rec.op = "MOVE"
      <3>1. f = MoveRow(m, rec.entry)
        BY <2>4 DEF f, Effect
      <3> QED
        BY <1>1, <1>4, <2>4, <3>1 DEF MoveRow, Return, Machine
    <2>5. CASE rec.op = "DELETE"
      BY <1>1, <2>5 DEF f, Effect, DropNode, Machine
    <2> QED
      BY <1>1, <2>1, <2>2, <2>3, <2>4, <2>5 DEF LogOp
  <1>11. Effects(m, n, rec)
    <2>1. CASE rec.op \in {"DATA", "TRUNCATE"}
      BY <1>5, <1>10, <2>1 DEF Effects, HasFile
    <2>2. CASE rec.op = "DELETE"
      BY <1>5, <1>10, <2>2 DEF Effects, HasFile
    <2>3. CASE rec.op \in {"NODE", "MOVE"}
      <3>1. ASSUME NEW node
            PROVE  HasFile(n, node) <=>
                     HasFile(m, node) \/ (rec.entry.type = "FILE" /\ rec.entry.node = node)
        <4>1. n.nodes = InsertOrReplace(m.nodes, rec.entry)
          BY <1>5, <1>10, <2>3
        <4> HIDE DEF rec
        <4> QED
          BY <4>1 DEF HasFile, InsertOrReplace
      <3> QED
        BY <1>1, <1>9, <2>3, <3>1 DEF Effects, OfFile, EntryOp
    <2> QED
      BY <1>1, <2>1, <2>2, <2>3 DEF LogOp
  <1>12. Filed(n)
    BY <1>1, <1>2, <1>8, <1>11, EnterFiled
  <1> QED
    BY <1>12 DEF n

-----------------------------------------------------------------------------
(* The invariant, with the files of the records. *)

\* Until the last block has a record, no rename has been refused for lack of space, the
\* log is founded, and the table of a machine that did not fail has the files that its
\* records make.
Filing ==
    Room(fs.disk) => adrift = {} /\ Founded(fs.disk) /\ (mode # "failed" => Filed(fs))

OInv == FInv /\ SInv /\ Filing

\* A write takes no record out of the container.
LEMMA WriteValid ==
    ASSUME NEW f, Good(f), NEW op \in LogOp, NEW node \in Nat, NEW fill \in Nat,
           NEW offset \in Nat, NEW entry \in NodeRow \cup {NoEntry}
    PROVE  Valid(f.disk) \subseteq Valid(Write(f, op, node, fill, offset, entry).disk)
  <1>1. f \in Machine
    BY DEF Good
  <1>2. CASE Grants(f, node) = {}
    <2>1. Write(f, op, node, fill, offset, entry) = Return(f, "ENOSPC")
      BY <1>2 DEF Write
    <2> QED
      BY <1>1, <2>1 DEF Return, Machine
  <1>3. CASE Grants(f, node) # {}
    <2>1. PICK b \in Grants(f, node) :
            Write(f, op, node, fill, offset, entry) = Laid(f, op, node, fill, offset, entry, b)
      BY <1>3, WriteEffect
    <2>2. Laid(f, op, node, fill, offset, entry, b).disk =
             [f.disk EXCEPT ![b] = [op |-> op, seq |-> f.next_seq_id, node |-> node,
                                    fill |-> fill, offset |-> offset, entry |-> entry]]
      BY DEF Laid
    <2>3. op # "INVALID" /\ f.disk \in [Block -> DiskRecord]
      BY <1>1 DEF LogOp, Machine
    <2> QED
      BY <2>1, <2>2, <2>3 DEF Valid
  <1> QED
    BY <1>2, <1>3

\* So there is room before a call if there is room after it.
LEMMA FormRoom ==
    ASSUME NEW m, Sound(m), NEW n, Form(m, n), Room(n.disk)
    PROVE  Room(m.disk)
  <1>1. m \in Machine /\ Good(m)
    BY DEF Sound, Good
  <1>2. ASSUME NEW f, Fades(m, f), NEW op \in LogOp, NEW node \in Nat, NEW fill \in Nat,
               NEW offset \in Nat, NEW entry \in NodeRow \cup {NoEntry},
               n = Write(f, op, node, fill, offset, entry)
        PROVE  Room(m.disk)
    <2>1. Good(f) /\ f.disk = m.disk
      BY <1>2, FadesSound DEF Sound, Fades
    <2>2. Valid(m.disk) \subseteq Valid(n.disk)
      BY <1>2, <2>1, WriteValid
    <2> QED
      BY <2>2 DEF Room
  <1>3. CASE ReturnForm(m, n)
    BY <1>1, <1>3 DEF ReturnForm, Return, Machine
  <1>4. CASE EntryForm(m, n)
    <2>1. PICK f \in Machine, op \in {"NODE", "MOVE"}, row \in NodeRow :
            Fades(m, f) /\ n = WriteEntry(f, op, row)
      BY <1>4 DEF EntryForm
    <2>2. op \in LogOp /\ row.node \in Nat /\ 0 \in Nat /\ row \in NodeRow \cup {NoEntry}
      BY DEF LogOp, NodeRow
    <2> QED
      BY <1>2, <2>1, <2>2 DEF WriteEntry
  <1>5. CASE DeleteForm(m, n)
    <2>1. PICK row \in NodeRow : n = WriteEntry(DropNode(m, row.node), "DELETE", row)
      BY <1>5 DEF DeleteForm
    <2>2. "DELETE" \in LogOp /\ row.node \in Nat /\ 0 \in Nat /\ row \in NodeRow \cup {NoEntry}
      BY DEF LogOp, NodeRow
    <2>3. Fades(m, DropNode(m, row.node))
      BY <1>1, <2>2, DropNodeFades
    <2> QED
      BY <1>2, <2>1, <2>2, <2>3 DEF WriteEntry
  <1>6. CASE TruncateForm(m, n)
    <2>1. PICK node \in Nat, size \in Sizes :
            n = Write(DropData(m, node, size), "TRUNCATE", node, 0, size, NoEntry)
      BY <1>6 DEF TruncateForm
    <2>2. "TRUNCATE" \in LogOp /\ size \in Nat /\ 0 \in Nat /\ NoEntry \in NodeRow \cup {NoEntry}
      BY SizesAssumption DEF LogOp
    <2>3. Fades(m, DropData(m, node, size))
      BY <1>1, <2>2, DropDataFades
    <2> QED
      BY <1>2, <2>1, <2>2, <2>3
  <1>7. CASE DataForm(m, n)
    <2>1. PICK node \in Nat, fill \in Nat, offset \in Nat :
            n = Write(m, "DATA", node, fill, offset, NoEntry)
      BY <1>7 DEF DataForm
    <2>2. Valid(m.disk) \subseteq Valid(n.disk)
      BY <1>1, <2>1, WriteValid DEF LogOp
    <2> QED
      BY <2>2 DEF Room
  <1> QED
    BY <1>3, <1>4, <1>5, <1>6, <1>7 DEF Form, NameForm

\* Handles are set adrift by a rename that finds no space, and by nothing else.
LEMMA AdriftFull ==
    ASSUME [HNext]_hvars
    PROVE  adrift' \subseteq adrift \/ (mode' = "mounted" /\ fs'.r = "ENOSPC")
  <1>1. ASSUME NEW from, NEW to, Renames(from, to)
        PROVE  adrift' \subseteq adrift \/ fs'.r = "ENOSPC"
    BY <1>1 DEF Renames
  <1>2. ASSUME NEW path, Hide(path)
        PROVE  adrift' \subseteq adrift \/ (mode' = "mounted" /\ fs'.r = "ENOSPC")
    BY <1>1, <1>2 DEF Hide, MoveNode, Begin
  <1>3. ASSUME NEW from, NEW to, Passed(from, to)
        PROVE  adrift' \subseteq adrift \/ (mode' = "mounted" /\ fs'.r = "ENOSPC")
    BY <1>1, <1>3 DEF Passed, MoveNode, Begin
  <1>4. ASSUME FinishHandler
        PROVE  adrift' \subseteq adrift \/ (mode' = "mounted" /\ fs'.r = "ENOSPC")
    <2>1. mode' = "mounted"
      BY <1>4 DEF FinishHandler, Finish, FinishLink, FinishMove, WriteChunk
    <2> QED
      BY <1>1, <1>4, <2>1 DEF FinishHandler, held
  <1>5. ASSUME NEW h \in Handle, NEW path \in Visible, Open(h, path)
        PROVE  adrift' \subseteq adrift
    BY <1>5 DEF Open, OpenToRead, OpenNew, OpenToAppend, OpenToWrite, Opens
  <1>6. CASE HNext
    BY <1>2, <1>3, <1>4, <1>5, <1>6
    DEF HNext, DoWrite, DoTruncate, Release, DoUnlink, DoRmdir, DoMkdir, DoRename,
        DoRenameOnto, Restart, held
  <1> QED
    BY <1>6 DEF hvars, held

\* While there is room, there are none.
LEMMA NoneAdrift ==
    ASSUME Filing, SInv', Room(fs'.disk), Room(fs.disk),
           adrift' \subseteq adrift \/ (mode' = "mounted" /\ fs'.r = "ENOSPC")
    PROVE  adrift' = {}
  <1>1. CASE adrift' \subseteq adrift
    BY <1>1 DEF Filing
  <1>2. CASE mode' = "mounted" /\ fs'.r = "ENOSPC"
    <2>1. Sound(fs') /\ fs'.next_block_id = LastBlock + 1
      BY <1>2 DEF SInv, IInv, Exhausted, NoSpace
    <2>2. LastBlock \in Block /\ LastBlock < LastBlock + 1
      BY LastBlockAssumption DEF Block
    <2> QED
      BY <2>1, <2>2 DEF Sound, Room
  <1> QED
    BY <1>1, <1>2

\* Then a call that is in progress is about a node of the table.
LEMMA GuardedKnown ==
    ASSUME Guarded, adrift = {}
    PROVE  Known
  BY DEF Guarded, Known, Moving, HasKey

\* A step of a mounted process, whatever call or handler it belongs to.
LEMMA CallFiling ==
    ASSUME NInv, Filing, mode = "mounted", mode' = "mounted", NInv', SInv', Form(fs, fs'),
           adrift' \subseteq adrift \/ (mode' = "mounted" /\ fs'.r = "ENOSPC"),
           adrift = {} => \E rest, more : Traces(fs, rest, fs', more)
    PROVE  Filing'
  <1> SUFFICES ASSUME Room(fs'.disk)
               PROVE  adrift' = {} /\ Founded(fs'.disk) /\ Filed(fs')
    BY DEF Filing
  <1>1. Sound(fs) /\ Sound(fs') /\ fs' \in Machine /\ Family(fs'.nodes)
    <2>1. Sound(fs) /\ Sound(fs') /\ fs' \in Machine
      BY DEF NInv, IInv, Typed
    <2>2. Family(fs'.nodes \cup Entries(fs'.disk) \cup Pending')
      BY DEF NInv, Rooted
    <2> QED
      BY <2>1, <2>2, FamilySubset
  <1>2. Room(fs.disk)
    BY <1>1, FormRoom
  <1>3. adrift = {} /\ Founded(fs.disk) /\ Filed(fs)
    BY <1>2 DEF Filing
  <1>4. PICK rest, more : Traces(fs, rest, fs', more)
    BY <1>3
  <1>5. Filed(fs') /\ Founded(fs'.disk)
    BY <1>1, <1>2, <1>3, <1>4, TraceFiled
  <1> QED
    BY <1>2, <1>5, NoneAdrift

\* A machine without rows has no files.
LEMMA FreshFiled ==
    ASSUME NEW disk
    PROVE  Filed(Fresh(disk))
  <1>1. Fresh(disk).nodes = {} /\ \A b \in Block : Fresh(disk).blocks[b].op = "NONE"
    BY DEF Fresh, NoRow
  <1> QED
    BY <1>1 DEF Filed, HasFile, Born, Present

\* The end of a process, and the mount of the next.
LEMMA ProcessFiling ==
    ASSUME NInv, Filing, Stop \/ Mount \/ Load, SInv',
           adrift' \subseteq adrift \/ (mode' = "mounted" /\ fs'.r = "ENOSPC")
    PROVE  Filing'
  <1>1. CASE Stop
    <2>1. fs' = Fresh(fs.disk) /\ fs'.disk = fs.disk
      BY <1>1 DEF Stop, Fresh
    <2>2. Filed(fs')
      BY <2>1, FreshFiled
    <2> QED
      BY <2>1, <2>2, NoneAdrift DEF Filing
  <1>2. CASE Mount \/ Mounted
    <2>1. fs' = fs /\ mode # "failed" /\ mode' # "failed"
      BY <1>2 DEF Mount, Mounted
    <2> QED
      BY <2>1, NoneAdrift DEF Filing
  <1>3. ASSUME NEW b \in Block, LoadRecord(b)
        PROVE  Filing'
    <2>1. /\ mode = "loading" /\ b \in todo /\ fs' = Replay(fs, b)
          /\ \A c \in todo : fs.disk[b].seq <= fs.disk[c].seq
          /\ mode' = IF fs'.r = "OK" THEN mode ELSE "failed"
      BY <1>3 DEF LoadRecord
    <2>2. Replaying(fs, todo)
      BY <2>1 DEF NInv, IInv
    <2>3. fs'.disk = fs.disk
      BY <2>1, <2>2, ReplaySound
    <2>4. Filed(fs) /\ Founded(fs.disk) /\ fs'.r = "OK" => Filed(fs')
      BY <2>1, <2>2, ReplayFiled
    <2> QED
      BY <2>1, <2>3, <2>4, NoneAdrift DEF Filing
  <1> QED
    BY <1>1, <1>2, <1>3 DEF Load

\* What a handler does outside the calls of OnceFS has their form.
LEMMA FormSInv ==
    ASSUME SInv, IInv', mode = "mounted", mode' = "mounted", Form(fs, fs')
    PROVE  SInv'
  <1>1. Sound(fs) /\ Settled(fs)
    BY DEF SInv, IInv
  <1>2. Settled(fs') /\ (fs'.r = "ENOSPC" => fs' = fs \/ NoSpace(fs'))
    BY <1>1, FormSettled
  <1> QED
    BY <1>2 DEF SInv, Exhausted

\* Every step keeps the invariant.
LEMMA StepOInv == OInv /\ [HNext]_hvars => OInv'
  <1> SUFFICES ASSUME OInv, [HNext]_hvars PROVE OInv'
    OBVIOUS
  <1>1. /\ FInv /\ NInv /\ IInv /\ SInv /\ Filing /\ Typed
        /\ FInv' /\ NInv' /\ IInv'
    BY StepFInv DEF OInv, FInv, NInv, IInv
  <1>2. adrift = {} => Known
    BY <1>1, GuardedKnown DEF FInv
  <1>3. adrift' \subseteq adrift \/ (mode' = "mounted" /\ fs'.r = "ENOSPC")
    BY AdriftFull
  <1>4. CASE [Next]_vars
    <2>1. SInv'
      BY <1>1, <1>4, StepSInv
    <2>2. CASE Call \/ Finish
      <3>1. mode = "mounted" /\ mode' = "mounted"
        BY <2>2 DEF Call, Finish, Begin, SetFile, SetDir, SetTime, DelNode, SetLink,
                    MoveNode, DelData, SetData, FinishLink, FinishMove, WriteChunk
      <3>2. adrift = {} => \E more : Traces(fs, Unwritten, fs', more)
        BY <1>1, <1>2, <2>2, CallTraced DEF Traced
      <3>3. Form(fs, fs')
        BY <1>1, <1>4, <3>1, StepForm
      <3>4. Filing'
        BY <1>1, <1>3, <2>1, <3>1, <3>2, <3>3, CallFiling
      <3> QED
        BY <1>1, <2>1, <3>4 DEF OInv
    <2>3. CASE Stop \/ Mount \/ Load
      BY <1>1, <1>3, <2>1, <2>3, ProcessFiling DEF OInv
    <2>4. CASE UNCHANGED vars
      <3>1. Filing'
        BY <1>1, <1>3, <2>1, <2>4, NoneAdrift DEF Filing, vars
      <3> QED
        BY <1>1, <2>1, <3>1 DEF OInv
    <2> QED
      BY <1>4, <2>2, <2>3, <2>4 DEF Next
  <1>5. ASSUME mode = "mounted", mode' = "mounted", Form(fs, fs'), Traces(fs, {}, fs', {})
        PROVE  OInv'
    <2>1. SInv'
      BY <1>1, <1>5, FormSInv
    <2>2. Filing'
      BY <1>1, <1>3, <1>5, <2>1, CallFiling
    <2> QED
      BY <1>1, <2>1, <2>2 DEF OInv
  <1>6. CASE \E r \in Verdict : Answers(r)
    <2>1. PICK r \in Verdict : Answers(r)
      BY <1>6
    <2>2. mode = "mounted" /\ mode' = "mounted" /\ fs' = Return(fs, r) /\ fs \in Machine
      BY <1>1, <2>1 DEF Answers, IInv, Typed, NInv
    <2>3. Form(fs, fs')
      BY <2>2 DEF Form, NameForm, ReturnForm
    <2>4. Traces(fs, {}, fs', {})
      BY <2>2, ReturnTraces
    <2> QED
      BY <1>5, <2>2, <2>3, <2>4
  <1>7. CASE \E path \in Paths : Clears(path)
    <2>1. PICK path \in Paths : Clears(path)
      BY <1>7
    <2>2. mode = "mounted" /\ mode' = "mounted" /\ job = NoJob /\ fs' = Delete(fs, path)
      BY <2>1 DEF Clears
    <2>3. Sound(fs) /\ fs \in Machine /\ Rooted(fs, {})
      BY <1>1, <2>2, Serving
    <2>4. Form(fs, fs')
      BY <2>2, <2>3, DeleteCallForm DEF Form
    <2>5. Traces(fs, {}, fs', {})
      BY <2>2, <2>3, DeleteTraces
    <2> QED
      BY <1>5, <2>2, <2>4, <2>5
  <1>8. CASE Spends
    <2>1. mode = "mounted" /\ mode' = "mounted" /\ fs' = fs
      BY <1>8 DEF Spends
    <2>2. Form(fs, fs') /\ Traces(fs, {}, fs', {})
      BY <2>1 DEF Form, NameForm, ReturnForm, Traces
    <2> QED
      BY <1>5, <2>1, <2>2
  <1>9. CASE ~ HNext
    <2>1. UNCHANGED vars
      BY <1>9 DEF hvars, vars
    <2> QED
      BY <1>4, <2>1
  <1> QED
    BY <1>1, <1>4, <1>6, <1>7, <1>8, <1>9, HandlerStep

\* A formatted container satisfies it.
LEMMA InitOInv == HInit => OInv
  <1> SUFFICES ASSUME HInit PROVE OInv
    OBVIOUS
  <1>1. FInv /\ SInv /\ adrift = {}
    BY InitFInv, InitSInv DEF HInit
  <1>2. fs = Fresh([b \in Block |-> NoRecord])
    BY DEF HInit, Init
  <1>3. Valid(fs.disk) = {}
    BY <1>2 DEF Fresh, Valid, NoRecord
  <1> QED
    BY <1>1, <1>2, <1>3, FreshFiled DEF OInv, Filing, Founded

\* It holds in every reachable state.
THEOREM FilesInvariant == HSpec => []OInv
  BY InitOInv, StepOInv, PTL DEF HSpec

\* Data in use belongs to a file: a record made the node one before the data was written,
\* and a deletion of the node since would have freed the row.
LEMMA UsedHasFile ==
    ASSUME NEW m, Sound(m), Settled(m), Filed(m), Founded(m.disk),
           NEW b \in Rows(m, "DATA") \cup Rows(m, "TRUNCATE")
    PROVE  HasFile(m, m.blocks[b].node)
  <1>1. /\ m \in Machine /\ b \in Block /\ m.blocks[b].op \in {"DATA", "TRUNCATE"}
        /\ \A c \in Block : Present(m, c) <=> c \in Valid(m.disk)
    BY DEF Rows, Sound, Good, Machine, Block, Present
  <1>2. Mirrors(m, b) /\ b \in Valid(m.disk)
    BY <1>1 DEF Sound, MirrorsAll, Present
  <1>3. m.disk[b].op = m.blocks[b].op /\ m.disk[b].node = m.blocks[b].node
    BY <1>1, <1>2 DEF Mirrors
  <1>4. \A d \in Block : m.disk[d].seq \in Nat
    BY <1>1 DEF Machine, DiskRecord
  <1>5. ASSUME NEW d \in Valid(m.disk), Ends(m.disk, d, m.disk[b].node)
        PROVE  m.disk[d].seq <= m.disk[b].seq
    <2>1. d \in Block /\ m.blocks[d].op # "NONE"
      BY <1>1 DEF Valid, Present
    <2>2. Frees(m.disk, m.disk[d].op, m.disk[d].node, m.disk[d].offset, b)
      BY <1>5 DEF Ends, Frees
    <2>3. ~ (m.disk[d].seq > m.disk[b].seq)
      BY <1>1, <2>1, <2>2 DEF Settled, Spared, Used
    <2> QED
      BY <1>1, <1>4, <2>1, <2>3
  <1>6. \A c \in Valid(m.disk) : Present(m, c)
    BY <1>1 DEF Valid
  <1>7. OfFile(m.disk[b])
    BY <1>1, <1>3 DEF OfFile
  <1>8. HasFile(m, m.disk[b].node)
    BY <1>1, <1>2, <1>5, <1>6, <1>7, FoundedFile
  <1> QED
    BY <1>3, <1>8

\* As long as the container was never full, no block is lost to data that nobody can
\* delete: whatever files were removed while they were open, renamed or renamed over,
\* and wherever a crash came between the records of a call, every data and truncation
\* row in use belongs to a file of the table.
THEOREM NoneOrphaned == HSpec => []NoOrphans
  <1>1. ASSUME OInv PROVE NoOrphans
    <2> SUFFICES ASSUME mode = "mounted", fs.disk[LastBlock] = NoRecord,
                        NEW b \in Rows(fs, "DATA") \cup Rows(fs, "TRUNCATE")
                 PROVE  HasFile(fs, fs.blocks[b].node)
      BY DEF NoOrphans, HasFile
    <2>1. Room(fs.disk)
      BY DEF Room, Valid, NoRecord
    <2>2. Sound(fs) /\ Settled(fs) /\ Filed(fs) /\ Founded(fs.disk)
      BY <1>1, <2>1 DEF OInv, SInv, IInv, Filing
    <2> QED
      BY <2>2, UsedHasFile
  <1> QED
    BY <1>1, FilesInvariant, PTL
=============================================================================
