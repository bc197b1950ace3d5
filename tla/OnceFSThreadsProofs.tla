------------------------- MODULE OnceFSThreadsProofs --------------------------
(***************************************************************************)
(* With one thread, the steps of the handlers in OnceFSThreads add up to  *)
(* the actions of OnceFS, and every call that returned 0 is in the log.   *)
(*                                                                         *)
(* At each stage of a block under way the machine is the one before it    *)
(* with the changes made so far (Stage); the last stage and the record     *)
(* add up to Write, at which OnceFS takes its step.  The machine before    *)
(* the block is one of OnceFS, so it is sound as OnceFSProofs shows.       *)
(***************************************************************************)
EXTENDS OnceFSThreads, OnceFSProofs

\* A single thread serves the file system (fuse -s).
OneThread == \E t : Threads = {t}

me == thread[Only]

-----------------------------------------------------------------------------
(* The stages of a block under way, as seen from the machine before it. *)

Shaped(m) ==
    m \in [nodes: {m.nodes}, blocks: {m.blocks}, disk: {m.disk},
          next_node_id: {m.next_node_id}, next_block_id: {m.next_block_id},
          next_seq_id: {m.next_seq_id}, r: {m.r}]

Pc == {"idle", "grant", "advance", "number", "renumber", "enter", "record"}

Formed(x) ==
    /\ DOMAIN x = {"pc", "op", "node", "offset", "size", "block", "seq", "entry"}
    /\ x.pc \in Pc /\ x.op \in {"DATA", "NODE"}

\* The machine for which the handler asks a block.
Asking(m, x) ==
    IF x.op = "NODE"
    THEN [m EXCEPT !.nodes = InsertOrReplace(@, x.entry), !.next_node_id = @ + 1]
    ELSE m

Advanced(m) == [m EXCEPT !.next_block_id = IF @ <= LastBlock THEN @ + 1 ELSE @]

Renumbered(m) == [Advanced(m) EXCEPT !.next_seq_id = @ + 1]

Entered(m, x) ==
    [Renumbered(m) EXCEPT
        !.blocks[x.block] = [op |-> x.op, seq |-> x.seq, node |-> x.node,
                             fill |-> Amount(x), offset |-> x.offset],
        !.next_node_id = Larger(@, x.node + 1)]

\* The record that the handler of x is about to write is that of a call that
\* OnceFS would let begin in m.
Asked(m, x) ==
    IF x.op = "NODE"
    THEN /\ \E path \in Paths, now \in Times : InitNode(m, path, "FILE", now) = Found(x.entry)
         /\ "set_file" \in Calls /\ m.next_seq_id <= MaxSeq /\ m.next_node_id <= MaxNode
         /\ x.node = x.entry.node /\ x.offset = 0 /\ x.size = 0
    ELSE x.entry = NoEntry

Stage(m, x, n) ==
    /\ x.pc \in {"grant", "advance"} => n = m
    /\ x.pc \in {"number", "renumber"} => n = Advanced(m)
    /\ x.pc = "enter" => n = Renumbered(m)
    /\ x.pc = "record" => n = Entered(m, x)
    /\ x.pc # "grant" => /\ Grants(m, x.node) # {}
                         /\ x.block = CHOOSE b \in Grants(m, x.node) : TRUE
    /\ x.pc = "advance" => m.next_block_id <= LastBlock
    /\ x.pc \in {"renumber", "enter", "record"} => x.seq = m.next_seq_id

OInv ==
    /\ job = NoJob
    /\ Shaped(before) /\ Shaped(fs)
    /\ fs.disk = before.disk
    /\ thread \in [Threads -> {thread[Only]}] /\ Formed(me)
    /\ IF me.pc = "idle" THEN fs = before
       ELSE /\ mode = "mounted"
            /\ Asked(before, me)
            /\ Stage(Asking(before, me), me, fs)

\* The machine before the block under way is sound, the local state has its
\* types, and the records of the operations that returned 0 are in the log.
Preserved ==
    /\ DiskSound(before.disk)
    /\ mode = "mounted" => Sound(before)
    /\ mode = "loading" => Replaying(before, todo)
    /\ mode = "down" => before = Fresh(before.disk)
    /\ todo # {} => mode = "loading"
    /\ me.op = "DATA" => me.node \in Nat /\ me.offset \in Nat /\ me.size \in Nat
    /\ \A rec \in acked : rec.op \in LogOp
    /\ EveryCallLogged

-----------------------------------------------------------------------------
(* The operators of the abstract machine are those of this one. *)

\* The constants.
LEMMA SameConstants ==
    /\ Whole!Block = Block /\ Whole!NoEntry = NoEntry /\ Whole!EntryOp = EntryOp
    /\ Whole!Root = Root /\ Whole!NoRow = NoRow /\ Whole!NoRecord = NoRecord
    /\ Whole!NoJob = NoJob
  BY DEF Block, Whole!Block, NoEntry, Whole!NoEntry, Root, Whole!Root, EntryOp, Whole!EntryOp,
         NoRow, Whole!NoRow, NoRecord, Whole!NoRecord, NoJob, Whole!NoJob

\* The blocks a write may be granted.
LEMMA SameGrants ==
    ASSUME NEW m, NEW node
    PROVE  Whole!Grants(m, node) = Grants(m, node)
  BY DEF Whole!Grants, Grants, Whole!Reuse, Reuse, Whole!First, First, Whole!Rows, Rows,
         Whole!Before, Before, Block, Whole!Block

\* The write of a record.
LEMMA SameWrite ==
    ASSUME NEW m, NEW op, NEW node, NEW fill, NEW offset, NEW entry
    PROVE  Whole!Write(m, op, node, fill, offset, entry) = Write(m, op, node, fill, offset, entry)
  BY SameGrants DEF Whole!Write, Write, Whole!Larger, Larger, Whole!Return, Return

\* The walk along a path.
LEMMA SameWalk ==
    ASSUME NEW nodes, NEW path
    PROVE  Whole!Walk(nodes, path) = Walk(nodes, path)
  BY DEF Whole!Walk, Walk, Child, Whole!Child, Lookup, Whole!Lookup, Missing, Whole!Missing,
         Found, Whole!Found, Root, Whole!Root, NoEntry, Whole!NoEntry

\* The search for a path.
LEMMA SameResolve ==
    ASSUME NEW nodes, NEW path
    PROVE  Whole!Resolve(nodes, path) = Resolve(nodes, path)
  BY SameWalk DEF Whole!Resolve, Resolve, Child, Whole!Child, Lookup, Whole!Lookup, Missing,
                  Whole!Missing, Found, Whole!Found, Root, Whole!Root, NoEntry, Whole!NoEntry,
                  Whole!Dirname, Dirname, Whole!Basename, Basename

\* The row of a new node, and its creation.
LEMMA SameCreate ==
    ASSUME NEW m, NEW path, NEW type, NEW now
    PROVE  /\ Whole!InitNode(m, path, type, now) = InitNode(m, path, type, now)
           /\ Whole!Create(m, path, type, now) = Create(m, path, type, now)
  <1>1. Whole!InitNode(m, path, type, now) = InitNode(m, path, type, now)
    BY SameResolve, SameConstants
       DEF Whole!InitNode, InitNode, Found, Missing, Whole!Missing, Whole!Found, Whole!Dirname,
           Dirname, Whole!Basename, Basename
  <1> QED
    BY <1>1, SameWrite DEF Whole!Create, Create, Whole!Return, Return, Whole!InsertOrReplace,
                           InsertOrReplace, Whole!WriteEntry, WriteEntry

\* The machine before a mount.
LEMMA SameFresh ==
    ASSUME NEW disk
    PROVE  Whole!Fresh(disk) = Fresh(disk)
  <1>1. Whole!Block = Block /\ Whole!NoRow = NoRow
    BY SameConstants
  <1> QED
    BY <1>1 DEF Whole!Fresh, Fresh

\* The records that a mount scans.
LEMMA SameScanned ==
    ASSUME NEW disk
    PROVE  Whole!Scanned(disk) = Scanned(disk)
  <1>1. Whole!Block = Block
    BY SameConstants
  <1> QED
    BY <1>1 DEF Whole!Scanned, Scanned

\* The effect of one record that is replayed.
LEMMA SameEffect ==
    ASSUME NEW m, NEW rec
    PROVE  Whole!Effect(m, rec) = Effect(m, rec)
  BY SameConstants
     DEF Whole!Effect, Effect, Whole!Return, Return, Whole!InsertOrReplace, InsertOrReplace,
         Whole!MoveRow, MoveRow, Whole!Lookup, Lookup, Whole!DropNode, DropNode,
         Whole!DropData, DropData, Whole!Cut, Cut

\* The replay of one record.
LEMMA SameReplay ==
    ASSUME NEW m, NEW b
    PROVE  Whole!Replay(m, b) = Replay(m, b)
  BY SameEffect DEF Whole!Replay, Replay, Whole!Larger, Larger

-----------------------------------------------------------------------------
(* The steps of the handlers. *)

\* The set of threads has one member.
LEMMA OnlyThread ==
    ASSUME OneThread
    PROVE  Threads = {Only}
  BY DEF OneThread, Only

\* A step of the only thread replaces its local state.
LEMMA OnlyLocal ==
    ASSUME OneThread, thread \in [Threads -> {thread[Only]}], NEW x,
           thread' = [thread EXCEPT ![Only] = x]
    PROVE  thread' \in [Threads -> {thread'[Only]}] /\ thread'[Only] = x
  BY OnlyThread

\* The start of a create: refused, it is oncefs_set_file; else nothing has
\* happened yet.
LEMMA StartCreateStep ==
    ASSUME OneThread, OInv, NEW path \in Paths, StartCreate(Only, path)
    PROVE  OInv' /\ [Whole!Next]_(Whole!vars)
  <1> DEFINE new(now) == InitNode(fs, path, "FILE", now)
             next(now) == [Idle EXCEPT !.pc = "grant", !.op = "NODE", !.node = new(now).row.node,
                                       !.entry = new(now).row]
  <1>1. me.pc = "idle" /\ fs = before /\ job = NoJob
    BY DEF StartCreate, Starts, OInv, me
  <1>2. /\ mode = "mounted" /\ "set_file" \in Calls
        /\ before.next_seq_id <= MaxSeq /\ before.next_node_id <= MaxNode
        /\ UNCHANGED <<mode, todo, job, acked>>
    BY <1>1 DEF StartCreate, Starts, Begin
  <1>3. Rest(thread[Only]) = NoJob
    BY <1>1 DEF Rest, me
  <1>4. PICK now \in Times :
          IF new(now).r # "OK"
          THEN fs' = Return(fs, new(now).r) /\ before' = fs' /\ UNCHANGED thread
          ELSE /\ fs' = [fs EXCEPT !.nodes = InsertOrReplace(@, new(now).row),
                                   !.next_node_id = @ + 1]
               /\ thread' = [thread EXCEPT ![Only] = next(now)]
               /\ before' = fs
    BY Zenon DEF StartCreate
  <1>5. CASE new(now).r # "OK"
    <2>1. fs' = Return(fs, new(now).r) /\ before' = fs' /\ thread' = thread
      BY <1>4, <1>5
    <2>2. Shaped(fs') /\ me' = me
      BY <2>1 DEF OInv, Shaped, Return, me
    <2>3. OInv'
      BY <1>1, <1>2, <2>1, <2>2 DEF OInv
    <2>4. before' = Create(before, path, "FILE", now)
      BY <1>1, <1>5, <2>1 DEF Create
    <2>5. Whole!SetFile(path)
      BY <1>1, <1>2, <1>3, <2>1, <2>4, SameCreate, SameConstants DEF Whole!SetFile, Whole!Begin
    <2>6. Whole!Next
      BY <2>5 DEF Whole!Next, Whole!Call
    <2> QED
      BY <2>3, <2>6
  <1>6. CASE new(now).r = "OK"
    <2> DEFINE x == next(now)
    <2>1. /\ fs' = [fs EXCEPT !.nodes = InsertOrReplace(@, new(now).row), !.next_node_id = @ + 1]
          /\ thread' = [thread EXCEPT ![Only] = x]
          /\ before' = before
      BY <1>1, <1>4, <1>6
    <2>2. me' = x /\ (thread \in [Threads -> {thread[Only]}])'
      BY <2>1, OnlyLocal DEF OInv, me
    <2>3. new(now) = Found(new(now).row)
      BY <1>6 DEF InitNode, Found, Missing
    <2>4. Formed(x) /\ x.pc = "grant" /\ x.op = "NODE" /\ x.entry = new(now).row
          /\ x.node = x.entry.node /\ x.offset = 0 /\ x.size = 0
      BY DEF Formed, Idle, Pc
    <2> HIDE DEF x
    <2>5. Asked(before, x)
      BY <1>1, <1>2, <2>3, <2>4 DEF Asked
    <2>6. fs' = Asking(before, x)
      BY <1>1, <2>1, <2>4 DEF Asking
    <2>7. Stage(Asking(before, x), x, fs')
      BY <2>4, <2>6 DEF Stage
    <2>8. Shaped(fs') /\ fs'.disk = before.disk
      BY <1>1, <2>1 DEF Shaped, OInv
    <2>9. OInv'
      BY <1>1, <1>2, <2>1, <2>2, <2>4, <2>5, <2>7, <2>8 DEF OInv
    <2>10. Rest(thread[Only])' = NoJob
      BY <2>2, <2>4 DEF Rest, me
    <2>11. UNCHANGED Whole!vars
      BY <1>2, <1>3, <2>1, <2>10 DEF Whole!vars
    <2> QED
      BY <2>9, <2>11
  <1> QED
    BY <1>5, <1>6

\* The start of a write is oncefs_set_data.
LEMMA StartWriteStep ==
    ASSUME OneThread, OInv, NEW node \in FileIds, NEW e \in Extents,
           StartWrite(Only, node, e[1], e[2])
    PROVE  OInv' /\ [Whole!Next]_(Whole!vars)
  <1> DEFINE x == [Idle EXCEPT !.pc = "grant", !.node = node, !.offset = e[1], !.size = e[2]]
  <1>1. me.pc = "idle" /\ fs = before /\ job = NoJob
    BY DEF StartWrite, Starts, OInv, me
  <1>2. /\ mode = "mounted" /\ "set_data" \in Calls
        /\ before.next_seq_id <= MaxSeq /\ before.next_node_id <= MaxNode
        /\ UNCHANGED <<mode, todo, job, acked, fs>>
        /\ thread' = [thread EXCEPT ![Only] = x] /\ before' = before
    BY <1>1 DEF StartWrite, Starts, Begin
  <1>3. Rest(thread[Only]) = NoJob
    BY <1>1 DEF Rest, me
  <1>4. me' = x /\ (thread \in [Threads -> {thread[Only]}])'
    BY <1>2, OnlyLocal DEF OInv, me
  <1>5. Formed(x) /\ x.pc = "grant" /\ x.op = "DATA" /\ x.entry = NoEntry
        /\ x.node = node /\ x.offset = e[1] /\ x.size = e[2]
    BY DEF Formed, Idle, Pc
  <1> HIDE DEF x
  <1>6. Asked(before, x) /\ Asking(before, x) = before
    BY <1>5 DEF Asked, Asking
  <1>7. Stage(Asking(before, x), x, fs)
    BY <1>1, <1>5, <1>6 DEF Stage
  <1>8. OInv'
    BY <1>1, <1>2, <1>4, <1>5, <1>6, <1>7 DEF OInv
  <1>9. Rest(thread[Only])' = [kind |-> "data", node |-> node, offset |-> e[1], size |-> e[2]]
    BY <1>4, <1>5 DEF Rest, me
  <1>10. Whole!SetData(node, e[1], e[2])
    BY <1>2, <1>3, <1>9, SameConstants DEF Whole!SetData, Whole!Begin
  <1>11. node \in Whole!FileIds
    BY <1>1 DEF Whole!FileIds, FileIds
  <1>12. Whole!Next
    BY <1>10, <1>11 DEF Whole!Next, Whole!Call
  <1> QED
    BY <1>8, <1>12

\* A step to a later stage of the block under way changes nothing that OnceFS
\* sees.
LEMMA NextStage ==
    ASSUME OneThread, OInv, me.pc # "idle", NEW x, Formed(x), x.pc # "idle",
           x.op = me.op, x.node = me.node, x.offset = me.offset, x.size = me.size,
           x.entry = me.entry,
           thread' = [thread EXCEPT ![Only] = x], UNCHANGED <<before, mode, job, todo>>,
           Shaped(fs'), fs'.disk = before.disk, Stage(Asking(before, me), x, fs')
    PROVE  OInv' /\ UNCHANGED Whole!vars
  <1>1. me' = x /\ (thread \in [Threads -> {thread[Only]}])'
    BY OnlyLocal DEF OInv, me
  <1>2. Asked(before, x)
    BY DEF OInv, Asked
  <1>3. Asking(before, x) = Asking(before, me)
    BY DEF Asking
  <1>4. OInv'
    BY <1>1, <1>2, <1>3 DEF OInv
  <1>5. Rest(thread[Only])' = Rest(thread[Only])
    BY <1>1 DEF Rest, me
  <1> QED
    BY <1>4, <1>5 DEF Whole!vars

\* The stages keep the shape of a machine, and its records.
LEMMA StagesShaped ==
    ASSUME NEW m, Shaped(m), NEW x
    PROVE  /\ Shaped(Asking(m, x)) /\ Asking(m, x).disk = m.disk
           /\ Shaped(Advanced(m)) /\ Advanced(m).disk = m.disk
           /\ Shaped(Renumbered(m)) /\ Renumbered(m).disk = m.disk
           /\ Shaped(Entered(m, x)) /\ Entered(m, x).disk = m.disk
  <1>1. Shaped(Asking(m, x)) /\ Asking(m, x).disk = m.disk
    BY DEF Shaped, Asking
  <1>2. Shaped(Advanced(m)) /\ Advanced(m).disk = m.disk
    BY DEF Shaped, Advanced
  <1>3. Shaped(Renumbered(m)) /\ Renumbered(m).disk = m.disk
    BY <1>2 DEF Shaped, Renumbered
  <1>4. Shaped(Entered(m, x)) /\ Entered(m, x).disk = m.disk
    <2> DEFINE r      == Renumbered(m)
               blocks == [r.blocks EXCEPT ![x.block] =
                             [op |-> x.op, seq |-> x.seq, node |-> x.node,
                              fill |-> Amount(x), offset |-> x.offset]]
               id     == Larger(r.next_node_id, x.node + 1)
    <2>1. Entered(m, x) = [r EXCEPT !.blocks = blocks, !.next_node_id = id]
      BY <1>3 DEF Entered, Shaped
    <2>2. Shaped(r) /\ r.disk = m.disk
      BY <1>3
    <2> HIDE DEF r, blocks, id
    <2> QED
      BY <2>1, <2>2 DEF Shaped
  <1> QED
    BY <1>1, <1>2, <1>3, <1>4

\* The block counter is written back.
LEMMA AdvanceStep ==
    ASSUME OneThread, OInv, Advance(Only)
    PROVE  OInv' /\ UNCHANGED Whole!vars
  <1> DEFINE m == Asking(before, me)
             x == [me EXCEPT !.pc = "number"]
  <1>1. me.pc = "advance" /\ UNCHANGED <<before, mode, job, todo>>
        /\ fs' = [fs EXCEPT !.next_block_id = me.block + 1]
        /\ thread' = [thread EXCEPT ![Only] = x]
    BY DEF Advance, Stands, Goto, me
  <1>2. fs = m /\ m.next_block_id <= LastBlock /\ Grants(m, me.node) # {}
        /\ me.block = CHOOSE b \in Grants(m, me.node) : TRUE
    BY <1>1 DEF OInv, Stage
  <1>3. Shaped(m) /\ m.disk = before.disk /\ Formed(me)
    BY StagesShaped DEF OInv
  <1>4. me.block = m.next_block_id
    BY <1>2 DEF Grants
  <1>5. Formed(x) /\ x.pc = "number"
        /\ x.op = me.op /\ x.node = me.node /\ x.offset = me.offset /\ x.size = me.size
        /\ x.block = me.block /\ x.entry = me.entry
    BY <1>3 DEF Formed, Pc
  <1> HIDE DEF m, x
  <1>6. fs' = Advanced(m)
    BY <1>1, <1>2, <1>4 DEF Advanced
  <1>7. Stage(m, x, fs')
    BY <1>2, <1>5, <1>6 DEF Stage
  <1>8. Shaped(fs') /\ fs'.disk = before.disk
    BY <1>3, <1>6, StagesShaped
  <1> QED
    BY <1>1, <1>5, <1>7, <1>8, NextStage DEF m

\* The sequence number is read.
LEMMA NumberStep ==
    ASSUME OneThread, OInv, Number(Only)
    PROVE  OInv' /\ UNCHANGED Whole!vars
  <1> DEFINE m == Asking(before, me)
             x == [me EXCEPT !.seq = fs.next_seq_id, !.pc = "renumber"]
  <1>1. me.pc = "number" /\ UNCHANGED <<before, mode, job, todo, fs>>
        /\ thread' = [thread EXCEPT ![Only] = x]
    BY DEF Number, Stands, me
  <1>2. fs = Advanced(m) /\ Grants(m, me.node) # {}
        /\ me.block = CHOOSE b \in Grants(m, me.node) : TRUE
    BY <1>1 DEF OInv, Stage
  <1>3. Shaped(m) /\ m.disk = before.disk /\ Formed(me)
    BY StagesShaped DEF OInv
  <1>4. fs.next_seq_id = m.next_seq_id
    BY <1>2, <1>3 DEF Advanced, Shaped
  <1>5. Formed(x) /\ x.pc = "renumber" /\ x.seq = fs.next_seq_id
        /\ x.op = me.op /\ x.node = me.node /\ x.offset = me.offset /\ x.size = me.size
        /\ x.block = me.block /\ x.entry = me.entry
    BY <1>3 DEF Formed, Pc
  <1> HIDE DEF m, x
  <1>6. Stage(m, x, fs')
    BY <1>1, <1>2, <1>4, <1>5 DEF Stage
  <1>7. Shaped(fs') /\ fs'.disk = before.disk
    BY <1>1 DEF OInv
  <1> QED
    BY <1>1, <1>5, <1>6, <1>7, NextStage DEF m

\* The sequence number is written back.
LEMMA RenumberStep ==
    ASSUME OneThread, OInv, Renumber(Only)
    PROVE  OInv' /\ UNCHANGED Whole!vars
  <1> DEFINE m == Asking(before, me)
             x == [me EXCEPT !.pc = "enter"]
  <1>1. me.pc = "renumber" /\ UNCHANGED <<before, mode, job, todo>>
        /\ fs' = [fs EXCEPT !.next_seq_id = me.seq + 1]
        /\ thread' = [thread EXCEPT ![Only] = x]
    BY DEF Renumber, Stands, Goto, me
  <1>2. fs = Advanced(m) /\ me.seq = m.next_seq_id /\ Grants(m, me.node) # {}
        /\ me.block = CHOOSE b \in Grants(m, me.node) : TRUE
    BY <1>1 DEF OInv, Stage
  <1>3. Shaped(m) /\ m.disk = before.disk /\ Formed(me)
    BY StagesShaped DEF OInv
  <1>4. Advanced(m).next_seq_id = m.next_seq_id
    BY <1>3 DEF Advanced, Shaped
  <1>5. Formed(x) /\ x.pc = "enter" /\ x.seq = me.seq
        /\ x.op = me.op /\ x.node = me.node /\ x.offset = me.offset /\ x.size = me.size
        /\ x.block = me.block /\ x.entry = me.entry
    BY <1>3 DEF Formed, Pc
  <1> HIDE DEF m, x
  <1>6. fs' = Renumbered(m)
    BY <1>1, <1>2, <1>4 DEF Renumbered
  <1>7. Stage(m, x, fs')
    BY <1>2, <1>5, <1>6 DEF Stage
  <1>8. Shaped(fs') /\ fs'.disk = before.disk
    BY <1>3, <1>6, StagesShaped
  <1> QED
    BY <1>1, <1>5, <1>7, <1>8, NextStage DEF m

\* The row enters the block table.
LEMMA EnterStep ==
    ASSUME OneThread, OInv, Enter(Only)
    PROVE  OInv' /\ UNCHANGED Whole!vars
  <1> DEFINE m == Asking(before, me)
             x == [me EXCEPT !.pc = "record"]
  <1>1. me.pc = "enter" /\ UNCHANGED <<before, mode, job, todo>>
        /\ fs' = [fs EXCEPT
                    !.blocks[me.block] = [op |-> me.op, seq |-> me.seq, node |-> me.node,
                                          fill |-> Amount(me), offset |-> me.offset],
                    !.next_node_id = Larger(@, me.node + 1)]
        /\ thread' = [thread EXCEPT ![Only] = x]
    BY DEF Enter, Stands, Goto, me
  <1>2. fs = Renumbered(m) /\ me.seq = m.next_seq_id /\ Grants(m, me.node) # {}
        /\ me.block = CHOOSE b \in Grants(m, me.node) : TRUE
    BY <1>1 DEF OInv, Stage
  <1>3. Shaped(m) /\ m.disk = before.disk /\ Formed(me)
    BY StagesShaped DEF OInv
  <1>4. Formed(x) /\ x.pc = "record" /\ x.seq = me.seq
        /\ x.op = me.op /\ x.node = me.node /\ x.offset = me.offset /\ x.size = me.size
        /\ x.block = me.block /\ x.entry = me.entry
    BY <1>3 DEF Formed, Pc
  <1> HIDE DEF m, x
  <1>5. Amount(x) = Amount(me)
    BY <1>4 DEF Amount
  <1>6. fs' = Entered(m, x)
    BY <1>1, <1>2, <1>4, <1>5 DEF Entered
  <1>7. Stage(m, x, fs')
    BY <1>2, <1>4, <1>6 DEF Stage
  <1>8. Shaped(fs') /\ fs'.disk = before.disk
    BY <1>3, <1>6, StagesShaped
  <1> QED
    BY <1>1, <1>4, <1>7, <1>8, NextStage DEF m

\* The last stage and the write of the record add up to Write.
LEMMA StagesWrite ==
    ASSUME NEW m, Shaped(m), NEW x, x.seq = m.next_seq_id,
           Grants(m, x.node) # {}, x.block = CHOOSE b \in Grants(m, x.node) : TRUE,
           NEW rec, rec = [op |-> x.op, seq |-> x.seq, node |-> x.node, fill |-> Amount(x),
                           offset |-> x.offset, entry |-> x.entry]
    PROVE  [Entered(m, x) EXCEPT !.disk[x.block] = rec, !.r = "OK"]
             = Write(m, x.op, x.node, Amount(x), x.offset, x.entry)
  <1> DEFINE row    == [op |-> x.op, seq |-> x.seq, node |-> x.node, fill |-> Amount(x),
                        offset |-> x.offset]
             blocks == [m.blocks EXCEPT ![x.block] = row]
             disk   == [m.disk EXCEPT ![x.block] = rec]
             next   == IF m.next_block_id <= LastBlock THEN m.next_block_id + 1
                       ELSE m.next_block_id
             id     == Larger(m.next_node_id, x.node + 1)
             seq    == m.next_seq_id + 1
  <1>1. Write(m, x.op, x.node, Amount(x), x.offset, x.entry)
          = [m EXCEPT !.blocks[x.block] = row, !.disk[x.block] = rec,
                      !.next_block_id = IF @ <= LastBlock THEN @ + 1 ELSE @,
                      !.next_seq_id = @ + 1, !.next_node_id = Larger(@, x.node + 1), !.r = "OK"]
    BY DEF Write
  <1>2. @ = [m EXCEPT !.blocks = blocks, !.disk = disk, !.next_block_id = next,
                      !.next_seq_id = seq, !.next_node_id = id, !.r = "OK"]
    BY DEF Shaped
  <1>3. Renumbered(m) = [[m EXCEPT !.next_block_id = next] EXCEPT !.next_seq_id = seq]
    BY DEF Renumbered, Advanced, Shaped
  <1>4. /\ Renumbered(m).blocks = m.blocks /\ Renumbered(m).next_node_id = m.next_node_id
        /\ Renumbered(m).disk = m.disk /\ Shaped(Renumbered(m))
    BY <1>3 DEF Shaped
  <1>5. Entered(m, x) = [Renumbered(m) EXCEPT !.blocks = blocks, !.next_node_id = id]
    BY <1>4 DEF Entered, Shaped
  <1>6. Entered(m, x).disk = m.disk /\ Shaped(Entered(m, x))
    BY StagesShaped
  <1>7. [Entered(m, x) EXCEPT !.disk[x.block] = rec, !.r = "OK"]
          = [Entered(m, x) EXCEPT !.disk = disk, !.r = "OK"]
    BY <1>6 DEF Shaped
  <1> HIDE DEF blocks, disk, next, id, seq
  <1>8. [[[[m EXCEPT !.next_block_id = next] EXCEPT !.next_seq_id = seq]
          EXCEPT !.blocks = blocks, !.next_node_id = id] EXCEPT !.disk = disk, !.r = "OK"]
        = [m EXCEPT !.blocks = blocks, !.disk = disk, !.next_block_id = next,
                    !.next_seq_id = seq, !.next_node_id = id, !.r = "OK"]
    BY DEF Shaped
  <1> QED
    BY <1>1, <1>2, <1>3, <1>5, <1>7, <1>8

\* When the block under way is written, or refused, OnceFS takes the step of the
\* call it belongs to.
LEMMA Completes ==
    ASSUME OneThread, OInv, me.pc # "idle",
           before' = Write(Asking(before, me), me.op, me.node, Amount(me), me.offset, me.entry),
           UNCHANGED <<mode, todo>>,
           Rest(thread[Only])' = IF before'.r = "OK" /\ me.size > Amount(me)
                                 THEN [kind |-> "data", node |-> me.node,
                                       offset |-> me.offset + Amount(me),
                                       size |-> me.size - Amount(me)]
                                 ELSE NoJob
    PROVE  Whole!Next
  <1>1. mode = "mounted" /\ Asked(before, me) /\ me.op \in {"DATA", "NODE"}
    BY DEF OInv, Formed
  <1>2. CASE me.op = "NODE"
    <2>1. PICK path \in Paths, now \in Times :
            InitNode(before, path, "FILE", now) = Found(me.entry)
      BY <1>1, <1>2 DEF Asked
    <2>2. /\ "set_file" \in Calls /\ before.next_seq_id <= MaxSeq /\ before.next_node_id <= MaxNode
          /\ me.node = me.entry.node /\ me.offset = 0 /\ me.size = 0
      BY <1>1, <1>2 DEF Asked
    <2>3. Amount(me) = 0 /\ ~ (me.size > Amount(me))
      BY <2>2, PayloadAssumption DEF Amount
    <2>4. before' = Create(before, path, "FILE", now)
      <3>1. Found(me.entry).r = "OK" /\ Found(me.entry).row = me.entry
        BY DEF Found
      <3>2. Create(before, path, "FILE", now) = WriteEntry(Asking(before, me), "NODE", me.entry)
        BY <1>2, <2>1, <3>1 DEF Create, Asking
      <3> QED
        BY <1>2, <2>2, <2>3, <3>2 DEF WriteEntry
    <2>5. Rest(thread[Only]) = NoJob /\ Rest(thread[Only])' = NoJob
      BY <1>2, <2>3 DEF Rest, me
    <2>6. Whole!SetFile(path)
      BY <1>1, <2>2, <2>4, <2>5, SameCreate, SameConstants DEF Whole!SetFile, Whole!Begin
    <2> QED
      BY <2>6 DEF Whole!Next, Whole!Call
  <1>3. CASE me.op = "DATA"
    <2> DEFINE j == Rest(thread[Only])
    <2>1. j = [kind |-> "data", node |-> me.node, offset |-> me.offset, size |-> me.size]
      BY <1>3 DEF Rest, me
    <2>2. before' = Write(before, "DATA", me.node, Amount(me), me.offset, NoEntry)
      BY <1>1, <1>3 DEF Asking, Asked
    <2>3. /\ j.kind = "data" /\ j.node = me.node /\ j.offset = me.offset /\ j.size = me.size
          /\ [j EXCEPT !.offset = @ + Amount(me), !.size = @ - Amount(me)]
               = [kind |-> "data", node |-> me.node, offset |-> me.offset + Amount(me),
                  size |-> me.size - Amount(me)]
      <3>1. j.kind = "data" /\ j.node = me.node /\ j.offset = me.offset /\ j.size = me.size
        BY <2>1
      <3> DEFINE later == me.offset + Amount(me)
                 less  == me.size - Amount(me)
      <3>2. [j EXCEPT !.offset = later, !.size = less]
              = [kind |-> "data", node |-> me.node, offset |-> later, size |-> less]
        <4> DEFINE S == [kind: {"data"}, node: {me.node}, offset: {later}, size: {less}]
        <4>1. j \in [kind: {"data"}, node: {me.node}, offset: {me.offset}, size: {me.size}]
          BY <2>1
        <4> HIDE DEF later, less, j
        <4>2. [j EXCEPT !.offset = later, !.size = less] \in S
          BY <4>1
        <4>3. [kind |-> "data", node |-> me.node, offset |-> later, size |-> less] \in S
          OBVIOUS
        <4>4. ASSUME NEW s \in S, NEW t \in S PROVE s = t
          OBVIOUS
        <4> HIDE DEF S
        <4> QED
          BY <4>2, <4>3, <4>4
      <3> QED
        BY <3>1, <3>2
    <2>4. j' = IF before'.r = "OK" /\ j.size > Amount(me)
               THEN [j EXCEPT !.offset = @ + Amount(me), !.size = @ - Amount(me)]
               ELSE NoJob
      BY <2>3
    <2> HIDE DEF j
    <2>5. (IF j.size > Payload THEN Payload ELSE j.size) = Amount(me)
      BY <2>3 DEF Amount
    <2>6. Whole!WriteChunk
      BY <1>1, <2>2, <2>3, <2>4, <2>5, SameWrite, SameConstants DEF Whole!WriteChunk, j
    <2> QED
      BY <2>6 DEF Whole!Next, Whole!Finish
  <1> QED
    BY <1>1, <1>2, <1>3

\* A block is granted, or the call returns ENOSPC.
LEMMA GrantStep ==
    ASSUME OneThread, OInv, Grant(Only)
    PROVE  OInv' /\ [Whole!Next]_(Whole!vars)
  <1> DEFINE m == Asking(before, me)
  <1>1. me.pc = "grant" /\ UNCHANGED <<mode, job, todo, acked>>
    BY DEF Grant, Stands, me
  <1>2. fs = m
    BY <1>1 DEF OInv, Stage
  <1>3. Shaped(m) /\ m.disk = before.disk /\ Formed(me) /\ job = NoJob
    BY StagesShaped DEF OInv
  <1>4. CASE Grants(m, me.node) = {}
    <2>1. fs' = Return(m, "ENOSPC") /\ before' = fs' /\ thread' = [thread EXCEPT ![Only] = Idle]
      BY <1>2, <1>4 DEF Grant, me
    <2>2. me' = Idle /\ (thread \in [Threads -> {thread[Only]}])'
      BY <2>1, OnlyLocal DEF OInv, me
    <2>3. Formed(Idle) /\ Idle.pc = "idle"
      BY DEF Formed, Idle, Pc
    <2>4. Shaped(fs')
      BY <1>3, <2>1 DEF Shaped, Return
    <2>5. OInv'
      BY <1>1, <1>3, <2>1, <2>2, <2>3, <2>4 DEF OInv
    <2>6. Rest(thread[Only])' = NoJob
      BY <2>2, <2>3 DEF Rest, me
    <2>7. before' = Write(m, me.op, me.node, Amount(me), me.offset, me.entry)
      BY <1>4, <2>1 DEF Write
    <2>8. before'.r = "ENOSPC"
      BY <1>3, <2>1 DEF Return, Shaped
    <2>9. Whole!Next
      BY <1>1, <2>6, <2>7, <2>8, Completes
    <2> QED
      BY <2>5, <2>9
  <1>5. CASE Grants(m, me.node) # {}
    <2> DEFINE b == CHOOSE c \in Grants(m, me.node) : TRUE
               next == IF m.next_block_id <= LastBlock THEN "advance" ELSE "number"
               x == [me EXCEPT !.block = b, !.pc = next]
    <2>1. thread' = [thread EXCEPT ![Only] = x] /\ UNCHANGED <<fs, before>>
      BY <1>2, <1>5 DEF Grant, me
    <2>2. Formed(x) /\ x.pc = next /\ x.block = b
          /\ x.op = me.op /\ x.node = me.node /\ x.offset = me.offset /\ x.size = me.size
          /\ x.entry = me.entry
      BY <1>3 DEF Formed, Pc
    <2> HIDE DEF x
    <2>3. ~ (m.next_block_id <= LastBlock) => m = Advanced(m)
      <3> SUFFICES ASSUME ~ (m.next_block_id <= LastBlock)
                   PROVE  m = Advanced(m)
        OBVIOUS
      <3>1. Advanced(m) = [m EXCEPT !.next_block_id = m.next_block_id]
        BY <1>3 DEF Advanced, Shaped
      <3> HIDE DEF m
      <3> QED
        BY <1>3, <3>1 DEF Shaped
    <2>4. Stage(m, x, fs')
      BY <1>2, <1>5, <2>1, <2>2, <2>3 DEF Stage
    <2>5. Shaped(fs') /\ fs'.disk = before.disk /\ x.pc # "idle"
      BY <1>2, <1>3, <2>1, <2>2
    <2>6. OInv' /\ UNCHANGED Whole!vars
      BY <1>1, <2>1, <2>2, <2>4, <2>5, NextStage
    <2> QED
      BY <2>6
  <1> QED
    BY <1>4, <1>5

\* The last step of a handler completes the write.
LEMMA RecordWrites ==
    ASSUME OneThread, OInv, Record(Only)
    PROVE  before' = Write(Asking(before, me), me.op, me.node, Amount(me), me.offset, me.entry)
  <1> DEFINE m   == Asking(before, me)
             rec == [op |-> me.op, seq |-> me.seq, node |-> me.node, fill |-> Amount(me),
                     offset |-> me.offset, entry |-> me.entry]
  <1>1. me.pc = "record" /\ before' = [fs EXCEPT !.disk[me.block] = rec, !.r = "OK"]
    BY DEF Record, me
  <1>2. /\ fs = Entered(m, me) /\ me.seq = m.next_seq_id /\ Grants(m, me.node) # {}
        /\ me.block = CHOOSE b \in Grants(m, me.node) : TRUE
    BY <1>1 DEF OInv, Stage
  <1>3. Shaped(m)
    BY StagesShaped DEF OInv
  <1>4. [Entered(m, me) EXCEPT !.disk[me.block] = rec, !.r = "OK"]
           = Write(m, me.op, me.node, Amount(me), me.offset, me.entry)
    BY <1>2, <1>3, StagesWrite
  <1> QED
    BY <1>1, <1>2, <1>4

\* The record is written: OnceFS takes the step of the call.
LEMMA RecordStep ==
    ASSUME OneThread, OInv, Record(Only)
    PROVE  OInv' /\ [Whole!Next]_(Whole!vars)
  <1> DEFINE m   == Asking(before, me)
             rec == [op |-> me.op, seq |-> me.seq, node |-> me.node, fill |-> Amount(me),
                     offset |-> me.offset, entry |-> me.entry]
             more == [me EXCEPT !.offset = @ + Amount(me), !.size = @ - Amount(me),
                                !.pc = "grant"]
             x   == IF me.size > Amount(me) THEN more ELSE Idle
  <1>1. /\ me.pc = "record" /\ mode = "mounted" /\ UNCHANGED <<mode, job, todo>>
        /\ fs' = [fs EXCEPT !.disk[me.block] = rec, !.r = "OK"]
        /\ thread' = [thread EXCEPT ![Only] = x]
        /\ before' = fs'
    BY DEF Record, me
  <1>2. /\ fs = Entered(m, me) /\ me.seq = m.next_seq_id /\ Grants(m, me.node) # {}
        /\ me.block = CHOOSE b \in Grants(m, me.node) : TRUE
    BY <1>1 DEF OInv, Stage
  <1>3. Shaped(m) /\ Shaped(fs) /\ Formed(me) /\ job = NoJob /\ Asked(before, me)
    BY <1>1, StagesShaped DEF OInv
  <1>4. before' = Write(m, me.op, me.node, Amount(me), me.offset, me.entry)
    BY RecordWrites
  <1>5. me' = x /\ (thread \in [Threads -> {thread[Only]}])'
    BY <1>1, OnlyLocal DEF OInv, me
  <1>6. Shaped(fs') /\ fs'.r = "OK"
    BY <1>1, <1>3 DEF Shaped
  <1>7. CASE me.size > Amount(me)
    <2>1. me.op = "DATA"
      <3> SUFFICES ASSUME me.op = "NODE" PROVE FALSE
        BY <1>3 DEF Formed
      <3>1. me.size = 0 /\ Amount(me) = 0
        BY <1>3, PayloadAssumption DEF Asked, Amount
      <3> QED
        BY <1>7, <3>1
    <2>2. /\ Formed(more) /\ more.pc = "grant" /\ more.op = "DATA" /\ more.entry = me.entry
          /\ more.node = me.node /\ more.offset = me.offset + Amount(me)
          /\ more.size = me.size - Amount(me)
      BY <1>3, <2>1 DEF Formed, Pc
    <2>3. x = more
      BY <1>7
    <2> HIDE DEF x, more
    <2>4. Asked(fs', more) /\ Asking(fs', more) = fs'
      BY <1>3, <2>1, <2>2 DEF Asked, Asking
    <2>5. Stage(fs', more, fs')
      BY <2>2 DEF Stage
    <2>6. OInv'
      BY <1>1, <1>3, <1>5, <1>6, <2>2, <2>3, <2>4, <2>5 DEF OInv
    <2>7. Rest(thread[Only])' = [kind |-> "data", node |-> me.node,
                                 offset |-> me.offset + Amount(me), size |-> me.size - Amount(me)]
      BY <1>5, <2>2, <2>3 DEF Rest, me
    <2>8. Whole!Next
      BY <1>1, <1>4, <1>6, <1>7, <2>7, Completes
    <2> QED
      BY <2>6, <2>8
  <1>8. CASE ~ (me.size > Amount(me))
    <2>1. x = Idle
      BY <1>8
    <2>2. Formed(Idle) /\ Idle.pc = "idle"
      BY DEF Formed, Idle, Pc
    <2> HIDE DEF x
    <2>3. OInv'
      BY <1>1, <1>3, <1>5, <1>6, <2>1, <2>2 DEF OInv
    <2>4. Rest(thread[Only])' = NoJob
      BY <1>5, <2>1, <2>2 DEF Rest, me
    <2>5. Whole!Next
      BY <1>1, <1>4, <1>8, <2>4, Completes
    <2> QED
      BY <2>3, <2>5
  <1> QED
    BY <1>7, <1>8

-----------------------------------------------------------------------------
(* The process, and the specification. *)

\* Replaying a record keeps the shape of a machine, and its records.
LEMMA ReplayShaped ==
    ASSUME NEW m, Shaped(m), NEW b, m.disk[b].op \in LogOp
    PROVE  Shaped(Replay(m, b)) /\ Replay(m, b).disk = m.disk
  <1> DEFINE done == Effect(m, m.disk[b])
  <1>1. ASSUME NEW r PROVE Shaped(Return(m, r)) /\ Return(m, r).disk = m.disk
    BY DEF Shaped, Return
  <1>2. ASSUME NEW nodes
        PROVE  LET n == [m EXCEPT !.nodes = nodes, !.r = "OK"]
               IN  Shaped(n) /\ n.disk = m.disk
    BY DEF Shaped
  <1>3. ASSUME NEW nodes, NEW blocks
        PROVE  LET n == [m EXCEPT !.nodes = nodes, !.blocks = blocks, !.r = "OK"]
               IN  Shaped(n) /\ n.disk = m.disk
    BY DEF Shaped
  <1>4. ASSUME NEW blocks
        PROVE  LET n == [m EXCEPT !.blocks = blocks, !.r = "OK"]
               IN  Shaped(n) /\ n.disk = m.disk
    BY DEF Shaped
  <1>5. ASSUME NEW row PROVE Shaped(MoveRow(m, row)) /\ MoveRow(m, row).disk = m.disk
    BY <1>1, <1>2 DEF MoveRow
  <1>6. ASSUME NEW node PROVE Shaped(DropNode(m, node)) /\ DropNode(m, node).disk = m.disk
    BY <1>3 DEF DropNode
  <1>7. ASSUME NEW node, NEW size
        PROVE  Shaped(DropData(m, node, size)) /\ DropData(m, node, size).disk = m.disk
    BY <1>4 DEF DropData
  <1>8. Shaped(done) /\ done.disk = m.disk
    BY <1>1, <1>2, <1>5, <1>6, <1>7 DEF Effect, LogOp
  <1> HIDE DEF done
  <1>9. CASE done.r # "OK"
    BY <1>8, <1>9 DEF Replay, done
  <1>10. CASE done.r = "OK"
    <2> DEFINE rec    == m.disk[b]
               blocks == [done.blocks EXCEPT ![b] =
                            [op |-> rec.op, seq |-> rec.seq, node |-> rec.node,
                             fill |-> rec.fill, offset |-> rec.offset]]
    <2>1. Replay(m, b) = [done EXCEPT !.blocks = blocks,
                                      !.next_node_id = Larger(done.next_node_id, rec.node + 1),
                                      !.next_block_id = Larger(done.next_block_id, b + 1),
                                      !.next_seq_id = rec.seq + 1]
      BY <1>8, <1>10 DEF Replay, done, Shaped
    <2> DEFINE node  == Larger(done.next_node_id, rec.node + 1)
               block == Larger(done.next_block_id, b + 1)
               seq   == rec.seq + 1
    <2> HIDE DEF blocks, node, block, seq
    <2>2. Replay(m, b) = [done EXCEPT !.blocks = blocks, !.next_node_id = node,
                                      !.next_block_id = block, !.next_seq_id = seq]
      BY <2>1 DEF node, block, seq
    <2> QED
      BY <1>8, <2>2 DEF Shaped
  <1> QED
    BY <1>9, <1>10

\* The process ends, mounts and loads as in OnceFS.
LEMMA ProcessStep ==
    ASSUME OneThread, OInv, Preserved, Process, before' = fs'
    PROVE  OInv' /\ [Whole!Next]_(Whole!vars)
  <1>1. CASE Stop /\ thread' = [t \in Threads |-> Idle]
    <2>1. fs' = Fresh(before.disk) /\ mode' = "down" /\ job' = NoJob /\ todo' = {}
          /\ "stop" \in Calls /\ mode # "down"
      BY <1>1 DEF Stop, OInv
    <2>2. me' = Idle /\ (thread \in [Threads -> {thread[Only]}])'
      BY <1>1, OnlyThread DEF me
    <2>3. Formed(Idle) /\ Idle.pc = "idle"
      BY DEF Formed, Idle, Pc
    <2>4. Shaped(fs')
      BY <2>1 DEF Shaped, Fresh
    <2>5. OInv'
      BY <2>1, <2>2, <2>3, <2>4 DEF OInv
    <2>6. Rest(thread[Only])' = NoJob
      BY <2>2, <2>3 DEF Rest, me
    <2>7. Whole!Stop
      <3>1. Whole!Fresh(before.disk) = Fresh(before.disk) /\ Whole!NoJob = NoJob
        BY SameFresh, SameConstants
      <3> QED
        BY <2>1, <2>6, <3>1 DEF Whole!Stop
    <2> QED
      BY <2>5, <2>7 DEF Whole!Next
  <1>2. CASE (Mount \/ Load) /\ UNCHANGED thread
    <2>1. me.pc = "idle" /\ fs = before /\ me' = me /\ thread' = thread /\ job = NoJob
      <3>1. mode # "mounted" /\ thread' = thread
        BY <1>2 DEF Mount, Load, Mounted, LoadRecord
      <3> QED
        BY <3>1 DEF OInv, me
    <2>2. Rest(thread[Only]) = NoJob /\ Rest(thread[Only])' = NoJob
      BY <2>1 DEF Rest, me
    <2>3. ASSUME job' = NoJob, Shaped(fs') PROVE OInv'
      BY <2>1, <2>3 DEF OInv
    <2>4. CASE Mount
      <3>1. Whole!Mount
        <4>1. Whole!Scanned(before.disk) = Scanned(before.disk)
          BY SameScanned
        <4> QED
          BY <2>1, <2>2, <2>4, <4>1 DEF Mount, Whole!Mount
      <3>2. OInv'
        BY <2>1, <2>3, <2>4 DEF Mount, OInv
      <3> QED
        BY <3>1, <3>2 DEF Whole!Next
    <2>5. CASE Mounted
      <3>1. Whole!Mounted
        BY <2>1, <2>2, <2>5 DEF Mounted, Whole!Mounted
      <3>2. OInv'
        BY <2>1, <2>3, <2>5 DEF Mounted, OInv
      <3> QED
        BY <3>1, <3>2 DEF Whole!Next, Whole!Load
    <2>6. ASSUME NEW b \in Block, LoadRecord(b)
          PROVE  OInv' /\ Whole!Next
      <3>1. Whole!LoadRecord(b)
        BY <2>1, <2>2, <2>6, SameReplay DEF LoadRecord, Whole!LoadRecord
      <3>2. fs' = Replay(fs, b) /\ job' = job /\ Shaped(fs)
        BY <2>6 DEF LoadRecord, OInv
      <3>3. fs.disk[b].op \in LogOp
        <4>1. mode = "loading" /\ b \in todo
          BY <2>6 DEF LoadRecord
        <4>2. b \in Valid(fs.disk) /\ fs.disk \in [Block -> DiskRecord]
          BY <2>1, <4>1 DEF Preserved, Replaying, DiskSound
        <4> QED
          BY <4>2 DEF Valid, DiskRecord
      <3>4. OInv'
        BY <2>1, <2>3, <3>2, <3>3, ReplayShaped
      <3>5. Whole!Next
        BY <3>1, SameConstants DEF Whole!Next, Whole!Load
      <3> QED
        BY <3>4, <3>5
    <2> QED
      BY <1>2, <2>4, <2>5, <2>6 DEF Load
  <1> QED
    BY <1>1, <1>2 DEF Process

\* Every step.
LEMMA EveryStep ==
    ASSUME OneThread, OInv, Preserved, [TNext]_tvars
    PROVE  OInv' /\ [Whole!Next]_(Whole!vars)
  <1>1. CASE UNCHANGED tvars
    BY <1>1 DEF tvars, OInv, me, Whole!vars, Rest, Asked, Stage
  <1>2. ASSUME NEW t \in Threads, Start(t) \/ Serve(t)
        PROVE  OInv' /\ [Whole!Next]_(Whole!vars)
    <2>1. t = Only
      BY OnlyThread
    <2>2. CASE Start(t)
      BY <2>1, <2>2, StartCreateStep, StartWriteStep DEF Start
    <2>3. CASE Serve(t)
      BY <2>1, <2>3, GrantStep, AdvanceStep, NumberStep, RenumberStep, EnterStep, RecordStep
         DEF Serve
    <2> QED
      BY <1>2, <2>2, <2>3
  <1>3. CASE Process /\ before' = fs' /\ UNCHANGED acked
    BY <1>3, ProcessStep
  <1> QED
    BY <1>1, <1>2, <1>3 DEF TNext

\* The machine for which a handler asks a block is sound.
LEMMA AskingSound ==
    ASSUME OInv, Preserved, me.pc # "idle"
    PROVE  /\ Sound(before) /\ Sound(Asking(before, me))
           /\ me.node \in Nat /\ me.op \in LogOp /\ Amount(me) \in Nat /\ me.offset \in Nat
           /\ me.entry \in NodeRow \cup {NoEntry}
           /\ me.op \in EntryOp => me.entry \in NodeRow /\ me.entry.node = me.node
  <1>1. mode = "mounted" /\ Asked(before, me) /\ me.op \in {"DATA", "NODE"} /\ Sound(before)
    BY DEF OInv, Preserved, Formed
  <1>2. CASE me.op = "NODE"
    <2>1. PICK path \in Paths, now \in Times :
            InitNode(before, path, "FILE", now) = Found(me.entry)
      BY <1>1, <1>2 DEF Asked
    <2>2. me.node = me.entry.node /\ me.offset = 0 /\ me.size = 0
      BY <1>1, <1>2 DEF Asked
    <2>3. before \in Machine /\ before.next_node_id \in Nat /\ before.nodes \in SUBSET NodeRow
      BY <1>1 DEF Sound, Good, Machine
    <2>4. me.entry \in NodeRow
      <3>1. Found(me.entry).r = "OK" /\ Found(me.entry).row = me.entry
        BY DEF Found
      <3> QED
        BY <2>1, <2>3, <3>1, TimesAssumption, InitNodeType
    <2>5. Sound(Asking(before, me))
      <3> DEFINE nodes == InsertOrReplace(before.nodes, me.entry)
                 id    == before.next_node_id + 1
      <3>1. nodes \in SUBSET NodeRow /\ id \in Nat /\ id >= before.next_node_id
        BY <2>3, <2>4, InsertType
      <3>2. Asking(before, me) = [before EXCEPT !.nodes = nodes, !.next_node_id = id]
        BY <1>2 DEF Asking
      <3> HIDE DEF nodes, id
      <3>3. Sound([before EXCEPT !.nodes = nodes, !.next_node_id = id])
        BY <1>1, <3>1, NodesSound
      <3> QED
        BY <3>2, <3>3
    <2> QED
      BY <1>1, <1>2, <2>2, <2>4, <2>5, PayloadAssumption DEF NodeRow, LogOp, Amount
  <1>3. CASE me.op = "DATA"
    <2>1. me.entry = NoEntry /\ Asking(before, me) = before
      BY <1>1, <1>3 DEF Asked, Asking
    <2>2. me.node \in Nat /\ me.offset \in Nat /\ me.size \in Nat
      BY <1>3 DEF Preserved
    <2> QED
      BY <1>1, <1>3, <2>1, <2>2, PayloadAssumption DEF LogOp, EntryOp, Amount
  <1> QED
    BY <1>1, <1>2, <1>3

\* As long as the last block is unwritten, a write lands on an empty block.
LEMMA RecordLogged ==
    ASSUME NEW m, Sound(m), NEW node \in Nat, NEW b \in Grants(m, node),
           NEW rec, rec.op # "INVALID",
           [m.disk EXCEPT ![b] = rec][LastBlock] = NoRecord
    PROVE  b \in Block /\ m.disk[LastBlock] = NoRecord /\ m.disk[b].op = "INVALID"
  <1>1. /\ m \in Machine /\ m.next_block_id \in 1 .. LastBlock + 1
        /\ m.disk \in [Block -> DiskRecord] /\ LastBlock \in Block /\ Good(m)
        /\ \A c \in Block : c \in Valid(m.disk) <=> c < m.next_block_id
    BY LastBlockAssumption DEF Sound, Good, DiskSound, Block
  <1>2. b \in Block /\ (b = m.next_block_id \/ m.next_block_id = LastBlock + 1)
    BY <1>1, GrantsType
  <1>3. NoRecord.op = "INVALID"
    BY DEF NoRecord
  <1>4. b # LastBlock /\ m.disk[LastBlock] = NoRecord
    BY <1>1, <1>2, <1>3
  <1>5. LastBlock \notin Valid(m.disk)
    BY <1>3, <1>4 DEF Valid
  <1>6. b = m.next_block_id
    BY <1>1, <1>2, <1>5, LastBlockAssumption
  <1>7. b \notin Valid(m.disk)
    BY <1>1, <1>2, <1>6, LastBlockAssumption DEF Block
  <1> QED
    BY <1>2, <1>4, <1>7 DEF Valid

\* A step that leaves `before` and the log alone, and the types of the local state.
LEMMA SameKept ==
    ASSUME OInv, Preserved, OInv', UNCHANGED <<before, mode, todo, acked>>,
           me'.op = "DATA" => me'.node \in Nat /\ me'.offset \in Nat /\ me'.size \in Nat
    PROVE  Preserved'
  <1>1. fs'.disk = fs.disk
    BY DEF OInv
  <1>2. EveryCallLogged'
    BY <1>1 DEF Preserved, EveryCallLogged
  <1> QED
    BY <1>2 DEF Preserved

\* The start of a call.
LEMMA StartKept ==
    ASSUME OneThread, OInv, Preserved, OInv', Start(Only)
    PROVE  Preserved'
  <1>1. mode = "mounted" /\ UNCHANGED <<mode, todo, acked>> /\ fs = before /\ Sound(before)
        /\ me.pc = "idle"
    BY DEF Start, StartCreate, StartWrite, Starts, Begin, OInv, Preserved, me
  <1>2. before \in Machine
    BY <1>1 DEF Sound, Good
  <1>3. ASSUME NEW path \in Paths, StartCreate(Only, path)
        PROVE  Preserved'
    <2> DEFINE new(now) == InitNode(fs, path, "FILE", now)
               next(now) == [Idle EXCEPT !.pc = "grant", !.op = "NODE",
                                         !.node = new(now).row.node, !.entry = new(now).row]
    <2>1. PICK now \in Times :
            IF new(now).r # "OK"
            THEN fs' = Return(fs, new(now).r) /\ before' = fs' /\ UNCHANGED thread
            ELSE /\ fs' = [fs EXCEPT !.nodes = InsertOrReplace(@, new(now).row),
                                     !.next_node_id = @ + 1]
                 /\ thread' = [thread EXCEPT ![Only] = next(now)]
                 /\ before' = fs
      BY <1>3, Zenon DEF StartCreate
    <2>2. CASE new(now).r # "OK"
      <3>1. before' = Return(before, new(now).r) /\ me' = me
        BY <1>1, <2>1, <2>2 DEF me
      <3>2. new(now).r \in Errno \cup {"OK"}
        BY <1>1, <1>2, TimesAssumption, InitNodeType
      <3>3. Sound(before') /\ before'.disk = before.disk
        BY <1>1, <1>2, <3>1, <3>2, ReturnSound DEF Return, Machine
      <3>4. fs'.disk = fs.disk
        BY <3>3 DEF OInv
      <3>5. EveryCallLogged'
        BY <1>1, <3>4 DEF Preserved, EveryCallLogged
      <3> QED
        BY <1>1, <3>1, <3>3, <3>5 DEF Preserved
    <2>3. CASE new(now).r = "OK"
      <3>1. thread' = [thread EXCEPT ![Only] = next(now)] /\ before' = before
        BY <1>1, <2>1, <2>3
      <3>2. me' = next(now)
        BY <3>1, OnlyLocal DEF OInv, me
      <3>3. me'.op = "NODE"
        BY <3>2 DEF Idle
      <3> QED
        BY <1>1, <3>1, <3>3, SameKept
    <2> QED
      BY <2>2, <2>3
  <1>4. ASSUME NEW node \in FileIds, NEW e \in Extents, StartWrite(Only, node, e[1], e[2])
        PROVE  Preserved'
    <2> DEFINE x == [Idle EXCEPT !.pc = "grant", !.node = node, !.offset = e[1], !.size = e[2]]
    <2>1. thread' = [thread EXCEPT ![Only] = x] /\ before' = before
      BY <1>1, <1>4 DEF StartWrite
    <2>2. me' = x
      BY <2>1, OnlyLocal DEF OInv, me
    <2>3. x.node = node /\ x.offset = e[1] /\ x.size = e[2]
      BY DEF Idle
    <2>4. node \in Nat /\ e[1] \in Nat /\ e[2] \in Nat
      BY <1>1, <1>2, ExtentsAssumption DEF FileIds, Machine, NodeRow
    <2> QED
      BY <1>1, <2>1, <2>2, <2>3, <2>4, SameKept
  <1> QED
    BY <1>3, <1>4 DEF Start

\* The stages before the record.
LEMMA ServeKept ==
    ASSUME OneThread, OInv, Preserved, OInv',
           Grant(Only) \/ Advance(Only) \/ Number(Only) \/ Renumber(Only) \/ Enter(Only)
    PROVE  Preserved'
  <1>1. /\ mode = "mounted" /\ UNCHANGED <<mode, todo, acked>> /\ Formed(me)
        /\ me.pc # "idle"
    BY DEF Grant, Advance, Number, Renumber, Enter, Stands, OInv, me
  <1>2. ASSUME NEW x, x.op = me.op, x.node = me.node, x.offset = me.offset, x.size = me.size,
               thread' = [thread EXCEPT ![Only] = x], before' = before
        PROVE  Preserved'
    <2>1. me' = x
      BY <1>2, OnlyLocal DEF OInv, me
    <2>2. me'.op = "DATA" => me'.node \in Nat /\ me'.offset \in Nat /\ me'.size \in Nat
      BY <1>2, <2>1 DEF Preserved
    <2> QED
      BY <1>1, <1>2, <2>2, SameKept
  <1>3. CASE Advance(Only) \/ Renumber(Only) \/ Enter(Only)
    <2>1. PICK pc : thread' = [thread EXCEPT ![Only] = [me EXCEPT !.pc = pc]] /\ before' = before
      BY <1>3 DEF Advance, Renumber, Enter, Goto, me
    <2> DEFINE x == [me EXCEPT !.pc = pc]
    <2>2. x.op = me.op /\ x.node = me.node /\ x.offset = me.offset /\ x.size = me.size
      BY <1>1 DEF Formed
    <2> HIDE DEF x
    <2> QED
      BY <1>2, <2>1, <2>2 DEF x
  <1>4. CASE Number(Only)
    <2> DEFINE x == [me EXCEPT !.seq = fs.next_seq_id, !.pc = "renumber"]
    <2>1. thread' = [thread EXCEPT ![Only] = x] /\ before' = before
      BY <1>4 DEF Number, me
    <2>2. x.op = me.op /\ x.node = me.node /\ x.offset = me.offset /\ x.size = me.size
      BY <1>1 DEF Formed
    <2> HIDE DEF x
    <2> QED
      BY <1>2, <2>1, <2>2
  <1>5. CASE Grant(Only)
    <2>1. CASE Grants(fs, me.node) # {}
      <3> DEFINE b == CHOOSE c \in Grants(fs, me.node) : TRUE
                 next == IF fs.next_block_id <= LastBlock THEN "advance" ELSE "number"
                 x == [me EXCEPT !.block = b, !.pc = next]
      <3>1. thread' = [thread EXCEPT ![Only] = x] /\ before' = before
        BY <1>5, <2>1 DEF Grant, me
      <3>2. x.op = me.op /\ x.node = me.node /\ x.offset = me.offset /\ x.size = me.size
        BY <1>1 DEF Formed
      <3> HIDE DEF x
      <3> QED
        BY <1>2, <3>1, <3>2
    <2>2. CASE Grants(fs, me.node) = {}
      <3>1. fs' = Return(fs, "ENOSPC") /\ before' = fs' /\ thread' = [thread EXCEPT ![Only] = Idle]
        BY <1>5, <2>2 DEF Grant, me
      <3>2. me' = Idle
        BY <3>1, OnlyLocal DEF OInv, me
      <3>3. Sound(fs)
        <4>1. fs = Asking(before, me)
          BY <1>1, <1>5 DEF OInv, Stage, Grant, Stands, me
        <4> QED
          BY <1>1, <4>1, AskingSound
      <3>4. Sound(before') /\ DiskSound(before'.disk) /\ fs'.disk = fs.disk
        BY <3>1, <3>3, ReturnSound DEF Errno, Sound, Good, Return, Machine
      <3>5. EveryCallLogged'
        BY <1>1, <3>4 DEF Preserved, EveryCallLogged
      <3> QED
        BY <1>1, <3>2, <3>4, <3>5 DEF Preserved, Idle
    <2> QED
      BY <2>1, <2>2
  <1> QED
    BY <1>3, <1>4, <1>5

\* The record is written: it is in the log, and it has taken no logged one's place
\* unless the container was full.
LEMMA RecordKept ==
    ASSUME OneThread, OInv, Preserved, OInv', Record(Only)
    PROVE  Preserved'
  <1> DEFINE m   == Asking(before, me)
             rec == [op |-> me.op, seq |-> me.seq, node |-> me.node, fill |-> Amount(me),
                     offset |-> me.offset, entry |-> me.entry]
             more == [me EXCEPT !.offset = @ + Amount(me), !.size = @ - Amount(me),
                                !.pc = "grant"]
             x   == IF me.size > Amount(me) THEN more ELSE Idle
  <1>1. /\ me.pc = "record" /\ mode = "mounted" /\ UNCHANGED <<mode, todo>>
        /\ fs' = [fs EXCEPT !.disk[me.block] = rec, !.r = "OK"]
        /\ thread' = [thread EXCEPT ![Only] = x]
        /\ before' = fs' /\ acked' = acked \cup {rec}
    BY DEF Record, me
  <1>2. /\ fs = Entered(m, me) /\ me.seq = m.next_seq_id /\ Grants(m, me.node) # {}
        /\ me.block = CHOOSE b \in Grants(m, me.node) : TRUE
    BY <1>1 DEF OInv, Stage
  <1>3. Shaped(m) /\ m.disk = before.disk /\ fs.disk = before.disk /\ Shaped(fs) /\ Formed(me)
    BY StagesShaped DEF OInv
  <1>4. /\ Sound(m) /\ me.node \in Nat /\ me.op \in LogOp /\ Amount(me) \in Nat
        /\ me.offset \in Nat /\ me.entry \in NodeRow \cup {NoEntry}
        /\ me.op \in EntryOp => me.entry \in NodeRow /\ me.entry.node = me.node
    BY <1>1, AskingSound
  <1>5. Sound(before')
    <2>1. before' = Write(m, me.op, me.node, Amount(me), me.offset, me.entry)
      BY RecordWrites
    <2> QED
      BY <1>4, <2>1, WriteSound
  <1>6. me' = x
    BY <1>1, OnlyLocal DEF OInv, me
  <1>7. me'.op = "DATA" => me'.node \in Nat /\ me'.offset \in Nat /\ me'.size \in Nat
    <2>1. CASE me.size > Amount(me)
      <3>1. x = more
        BY <2>1
      <3>2. /\ more.op = me.op /\ more.node = me.node /\ more.offset = me.offset + Amount(me)
            /\ more.size = me.size - Amount(me)
        BY <1>3 DEF Formed
      <3>3. me.op = "DATA" => me.size \in Nat
        BY DEF Preserved
      <3> HIDE DEF more, x
      <3> QED
        BY <1>4, <1>6, <2>1, <3>1, <3>2, <3>3
    <2>2. CASE ~ (me.size > Amount(me))
      BY <1>6, <2>2 DEF Idle
    <2> QED
      BY <2>1, <2>2
  <1>8. fs'.disk = [before.disk EXCEPT ![me.block] = rec]
    BY <1>1, <1>3 DEF Shaped
  <1>9. rec.op = me.op /\ rec.op # "INVALID"
    BY <1>4 DEF LogOp
  <1>10. me.block \in Grants(m, me.node)
    BY <1>2
  <1> HIDE DEF rec
  <1>11. EveryCallLogged'
    <2> SUFFICES ASSUME fs'.disk[LastBlock] = NoRecord, NEW a \in acked'
                 PROVE  \E b \in Block : fs'.disk[b] = a
      BY DEF EveryCallLogged
    <2>1. me.block \in Block /\ m.disk[LastBlock] = NoRecord /\ m.disk[me.block].op = "INVALID"
      BY <1>3, <1>4, <1>8, <1>9, <1>10, RecordLogged
    <2>2. before.disk \in [Block -> DiskRecord]
      BY DEF Preserved, DiskSound
    <2>3. CASE a = rec
      BY <1>8, <2>1, <2>2, <2>3
    <2>4. CASE a \in acked
      <3>1. PICK b \in Block : fs.disk[b] = a
        BY <1>3, <2>1, <2>4 DEF Preserved, EveryCallLogged
      <3>2. a.op \in LogOp
        BY <2>4 DEF Preserved
      <3>3. b # me.block
        BY <1>3, <2>1, <3>1, <3>2 DEF LogOp
      <3> QED
        BY <1>3, <1>8, <2>2, <3>1, <3>3
    <2> QED
      BY <1>1, <2>3, <2>4
  <1>12. \A a \in acked' : a.op \in LogOp
    BY <1>1, <1>4, <1>9 DEF Preserved
  <1>13. DiskSound(before'.disk)
    BY <1>5 DEF Sound
  <1> QED
    BY <1>1, <1>5, <1>7, <1>11, <1>12, <1>13 DEF Preserved

\* The end of the process, and the next mount.
LEMMA ProcessKept ==
    ASSUME OneThread, OInv, Preserved, OInv', Process, before' = fs', UNCHANGED acked
    PROVE  Preserved'
  <1>1. fs.disk = before.disk /\ DiskSound(before.disk)
    BY DEF OInv, Preserved
  <1>2. ASSUME fs'.disk = fs.disk PROVE EveryCallLogged' /\ DiskSound(before'.disk)
    BY <1>1, <1>2 DEF Preserved, EveryCallLogged
  <1>3. CASE Stop /\ thread' = [t \in Threads |-> Idle]
    <2>1. fs' = Fresh(fs.disk) /\ mode' = "down" /\ todo' = {}
      BY <1>3 DEF Stop
    <2>2. me' = Idle
      BY <1>3, OnlyThread DEF me
    <2>3. fs'.disk = fs.disk
      BY <2>1 DEF Fresh
    <2> QED
      BY <1>2, <2>1, <2>2, <2>3 DEF Preserved, Idle
  <1>4. CASE Mount /\ UNCHANGED thread
    <2>1. mode = "down" /\ mode' = "loading" /\ todo' = Scanned(fs.disk) /\ fs' = fs /\ me' = me
      BY <1>4 DEF Mount, me
    <2>2. fs = before /\ fs = Fresh(fs.disk)
      BY <2>1 DEF OInv, Preserved
    <2>3. Replaying(before', todo')
      BY <1>1, <2>1, <2>2, FreshReplaying
    <2> QED
      BY <1>2, <2>1, <2>3 DEF Preserved
  <1>5. CASE Mounted /\ UNCHANGED thread
    <2>1. mode = "loading" /\ todo = {} /\ mode' = "mounted" /\ todo' = todo /\ fs' = fs /\ me' = me
          /\ fs = before
      BY <1>5 DEF Mounted, me, OInv
    <2>2. Sound(before')
      BY <2>1, ReplayedSound DEF Preserved
    <2> QED
      BY <1>2, <2>1, <2>2 DEF Preserved
  <1>6. ASSUME NEW b \in Block, LoadRecord(b), UNCHANGED thread
        PROVE  Preserved'
    <2>1. /\ mode = "loading" /\ b \in todo /\ fs = before /\ me' = me /\ fs' = Replay(fs, b)
          /\ \A c \in todo : fs.disk[b].seq <= fs.disk[c].seq
          /\ todo' = IF fs'.r = "OK" THEN todo \ {b} ELSE {}
          /\ mode' = IF fs'.r = "OK" THEN mode ELSE "failed"
      BY <1>6 DEF LoadRecord, me, OInv
    <2>2. /\ fs'.disk = fs.disk
          /\ fs'.r = "OK" => Replaying(before', todo')
      BY <2>1, ReplaySound DEF Preserved
    <2> QED
      BY <1>2, <2>1, <2>2 DEF Preserved
  <1> QED
    BY <1>3, <1>4, <1>5, <1>6 DEF Process, Load

\* Every step.
LEMMA KeptStep ==
    ASSUME OneThread, OInv, Preserved, [TNext]_tvars
    PROVE  Preserved'
  <1>1. OInv'
    BY EveryStep
  <1>2. CASE UNCHANGED tvars
    BY <1>1, <1>2, SameKept DEF tvars, me, Preserved
  <1>3. ASSUME NEW t \in Threads, Start(t) \/ Serve(t)
        PROVE  Preserved'
    <2>1. t = Only
      BY OnlyThread
    <2> QED
      BY <1>1, <1>3, <2>1, StartKept, ServeKept, RecordKept DEF Serve
  <1>4. CASE Process /\ before' = fs' /\ UNCHANGED acked
    BY <1>1, <1>4, ProcessKept
  <1> QED
    BY <1>2, <1>3, <1>4 DEF TNext
\* The initial states satisfy both invariants, and are those of OnceFS.
LEMMA Initially ==
    ASSUME OneThread, TInit
    PROVE  OInv /\ Preserved /\ Whole!Init
  <1>1. me = Idle /\ thread \in [Threads -> {thread[Only]}]
    BY OnlyThread DEF TInit, me
  <1>2. Formed(Idle) /\ Idle.pc = "idle"
    BY DEF Formed, Idle, Pc
  <1>3. fs = Fresh([b \in Block |-> NoRecord]) /\ before = fs /\ mode = "mounted"
        /\ job = NoJob /\ todo = {}
    BY DEF TInit, Init
  <1>4. Shaped(fs)
    BY <1>3 DEF Shaped, Fresh
  <1>5. OInv
    BY <1>1, <1>2, <1>3, <1>4 DEF OInv
  <1>6. Rest(thread[Only]) = NoJob
    BY <1>1, <1>2 DEF Rest, me
  <1>7. Preserved
    <2>1. IInv
      BY InitIInv DEF TInit
    <2>2. DiskSound(before.disk) /\ Sound(before) /\ acked = {}
      BY <1>3, <2>1 DEF IInv, TInit
    <2> QED
      BY <1>1, <1>3, <2>2 DEF Preserved, EveryCallLogged, Idle
  <1>8. Whole!Init
    <2>1. [b \in Whole!Block |-> Whole!NoRecord] = [b \in Block |-> NoRecord]
      BY SameConstants
    <2>2. Whole!Fresh([b \in Block |-> NoRecord]) = Fresh([b \in Block |-> NoRecord])
      BY SameFresh
    <2>3. Whole!NoJob = NoJob
      BY SameConstants
    <2> QED
      BY <1>3, <1>6, <2>1, <2>2, <2>3 DEF Whole!Init
  <1> QED
    BY <1>5, <1>7, <1>8

\* With a single thread, the invariant holds in every reachable state.
LEMMA ThreadInvariant ==
    ASSUME OneThread
    PROVE  TSpec => [](OInv /\ Preserved)
  <1>1. TInit => OInv /\ Preserved
    BY Initially
  <1>2. OInv /\ Preserved /\ [TNext]_tvars => OInv' /\ Preserved'
    BY EveryStep, KeptStep
  <1> QED
    BY <1>1, <1>2, PTL DEF TSpec

\* With a single thread, the handlers of OnceFSThreads, cut at every access to
\* the counters and the tables and stopped anywhere, implement OnceFS: a call
\* that writes one record may be treated as one action.
THEOREM SingleThreadImplements ==
    ASSUME OneThread
    PROVE  TSpec => ImplementsOnceFS
  <1>1. TInit => Whole!Init
    BY Initially
  <1>2. OInv /\ Preserved /\ [TNext]_tvars => [Whole!Next]_(Whole!vars)
    BY EveryStep
  <1> QED
    BY <1>1, <1>2, ThreadInvariant, PTL DEF TSpec, ImplementsOnceFS, Whole!Spec

\* With a single thread, every create and update that returned 0 is in the log
\* until the container is full, wherever the process ended.
THEOREM SingleThreadLogs ==
    ASSUME OneThread
    PROVE  TSpec => []EveryCallLogged
  <1>1. Preserved => EveryCallLogged
    BY DEF Preserved
  <1> QED
    BY <1>1, ThreadInvariant, PTL
=============================================================================
