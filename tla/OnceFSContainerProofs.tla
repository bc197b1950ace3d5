------------------------ MODULE OnceFSContainerProofs ------------------------
(***************************************************************************)
(* Theorems about OnceFSContainer: the container below a process, through  *)
(* power losses that keep any of the blocks and formatting that stops      *)
(* anywhere.  The log may have holes here, and records of two histories,   *)
(* so little of the invariant of OnceFSProofs is left: the types, and      *)
(* where the log ends.  A container that was never full has more: what a   *)
(* power loss may leave, some process wrote up to one of its records.      *)
(***************************************************************************)
EXTENDS OnceFSContainer, OnceFSRecoveryProofs

\* Records of either history have an entry where their operation has one.
Readable(disk) ==
    /\ disk \in [Block -> DiskRecord]
    /\ \A b \in Block : disk[b].op \in EntryOp => disk[b].entry \in NodeRow

\* The records are those below the counter, without a hole.
Frontier(m) == Valid(m.disk) = 1 .. m.next_block_id - 1

\* A mount has got to the blocks below the counter, the last of which it has read.
Reading(m, left) ==
    /\ left \subseteq Scanned(m.disk)
    /\ \A b \in Scanned(m.disk) \ left : b < m.next_block_id
    /\ m.next_block_id = 1 \/ m.next_block_id - 1 \in Scanned(m.disk) \ left

\* The invariant: formatting has cleared what lies below its cursor, a mount reads
\* up to the first hole, and a machine that no mount has haunted ends at its log.
GInv ==
    /\ Typed /\ Good(fs) /\ Readable(fs.disk) /\ Readable(stable)
    /\ cursor \in Block
    /\ mode = "mounted" /\ ~ haunted => Frontier(fs)
    /\ mode = "loading" => Reading(fs, todo)
    /\ mode \in {"down", "formatting"} => fs.next_block_id = 1 /\ job = NoJob
    /\ mode = "formatting" => \A b \in Block : b < cursor => fs.disk[b].op = "INVALID"
    /\ mode # "formatting" => cursor = 1

-----------------------------------------------------------------------------
(* A record is written, or replayed. *)

\* A write appends to the log, or replaces a record of a full container.
LEMMA WriteFrontier ==
    ASSUME NEW f, Good(f), Readable(f.disk), NEW op \in LogOp, NEW node \in Nat, NEW fill \in Nat,
           NEW offset \in Nat, NEW entry \in NodeRow \cup {NoEntry},
           op \in EntryOp => entry \in NodeRow,
           NEW w, w = Write(f, op, node, fill, offset, entry)
    PROVE  Good(w) /\ Readable(w.disk) /\ (Frontier(f) => Frontier(w))
  <1> DEFINE row == [op |-> op, seq |-> f.next_seq_id, node |-> node,
                     fill |-> fill, offset |-> offset]
             rec == [op |-> op, seq |-> f.next_seq_id, node |-> node,
                     fill |-> fill, offset |-> offset, entry |-> entry]
             next == IF f.next_block_id <= LastBlock
                     THEN f.next_block_id + 1 ELSE f.next_block_id
  <1>1. /\ f \in Machine /\ f.blocks \in [Block -> BlockRow] /\ f.disk \in [Block -> DiskRecord]
        /\ f.next_block_id \in 1 .. LastBlock + 1 /\ f.next_seq_id \in Nat /\ f.next_node_id \in Nat
    BY DEF Good, Machine
  <1>2. CASE Grants(f, node) = {}
    <2>1. w = [f EXCEPT !.r = "ENOSPC"]
      BY <1>2 DEF Write, Return
    <2>2. w \in Machine /\ w.disk = f.disk /\ w.next_block_id = f.next_block_id
      BY <1>1, <2>1 DEF Machine, Errno
    <2> QED
      BY <1>1, <2>2 DEF Good, Frontier
  <1>3. CASE Grants(f, node) # {}
    <2>1. PICK b \in Grants(f, node) :
            w = [nodes |-> f.nodes,
                 blocks |-> [f.blocks EXCEPT ![b] = row],
                 disk |-> [f.disk EXCEPT ![b] = rec],
                 next_node_id |-> Larger(f.next_node_id, node + 1),
                 next_block_id |-> next,
                 next_seq_id |-> f.next_seq_id + 1,
                 r |-> "OK"]
      <3>1. PICK b \in Grants(f, node) :
              w = Laid(f, op, node, fill, offset, entry, b)
        BY <1>3, WriteEffect
      <3> QED
        BY <3>1 DEF Laid
    <2>2. b \in Block /\ (b = f.next_block_id \/ f.next_block_id = LastBlock + 1)
      BY GrantsType
    <2>3. row \in BlockRow /\ rec \in DiskRecord
      BY <1>1 DEF BlockRow, DiskRecord
    <2>4. next \in 1 .. LastBlock + 1 /\ next \in Nat
      BY <1>1, LastBlockAssumption
    <2>5. Larger(f.next_node_id, node + 1) \in Nat
      BY <1>1 DEF Larger
    <2>6. rec.op = op /\ rec.entry = entry /\ op # "INVALID"
      BY DEF LogOp
    <2> HIDE DEF row, rec, next
    <2>7. w \in Machine /\ w.disk = [f.disk EXCEPT ![b] = rec] /\ w.next_block_id = next
      BY <1>1, <2>1, <2>2, <2>3, <2>4, <2>5 DEF Machine
    <2>8. Good(w)
      BY <2>4, <2>7 DEF Good
    <2>9. Readable(w.disk)
      BY <1>1, <2>2, <2>3, <2>6, <2>7 DEF Readable
    <2>10. Valid(w.disk) = Valid(f.disk) \cup {b}
      BY <1>1, <2>2, <2>6, <2>7 DEF Valid
    <2>11. ASSUME Frontier(f) PROVE Frontier(w)
      <3>1. Valid(w.disk) = (1 .. f.next_block_id - 1) \cup {b}
        BY <2>10, <2>11 DEF Frontier
      <3>2. CASE f.next_block_id <= LastBlock
        <4>1. b = f.next_block_id /\ next = f.next_block_id + 1
          BY <1>1, <2>2, <3>2, LastBlockAssumption DEF next
        <4>2. (1 .. f.next_block_id - 1) \cup {b} = 1 .. next - 1
          BY <1>1, <4>1
        <4> QED
          BY <2>7, <3>1, <4>2 DEF Frontier
      <3>3. CASE ~ (f.next_block_id <= LastBlock)
        <4>1. next = LastBlock + 1 /\ f.next_block_id = LastBlock + 1
          BY <1>1, <3>3, LastBlockAssumption DEF next
        <4>2. (1 .. f.next_block_id - 1) \cup {b} = 1 .. next - 1
          BY <2>2, <4>1, LastBlockAssumption DEF Block
        <4> QED
          BY <2>7, <3>1, <4>2 DEF Frontier
      <3> QED
        BY <3>2, <3>3
    <2> QED
      BY <2>8, <2>9, <2>11
  <1> QED
    BY <1>2, <1>3

\* What writes no record leaves the log as it is.
LEMMA FadesFrontier ==
    ASSUME NEW m, Good(m), Readable(m.disk), NEW f, Fades(m, f)
    PROVE  Good(f) /\ Readable(f.disk) /\ (Frontier(m) => Frontier(f))
  BY DEF Fades, Good, Frontier

\* Every form of a step leaves the end of the log at the counter.
LEMMA FormFrontier ==
    ASSUME NEW m, Good(m), Readable(m.disk), NEW n, Form(m, n)
    PROVE  Good(n) /\ Readable(n.disk) /\ (Frontier(m) => Frontier(n))
  <1>1. m \in Machine
    BY DEF Good
  <1>2. CASE ReturnForm(m, n)
    <2>1. n = m \/ \E r \in Errno \cup {"OK"} : n = Return(m, r)
      BY <1>2 DEF ReturnForm, Verdict, Errno
    <2> QED
      BY <1>1, <2>1, ReturnFades, FadesFrontier
  <1>3. CASE EntryForm(m, n)
    <2>1. PICK f \in Machine, op \in {"NODE", "MOVE"}, row \in NodeRow :
            Fades(m, f) /\ n = Write(f, op, row.node, 0, 0, row)
      BY <1>3 DEF EntryForm, WriteEntry
    <2>2. row.node \in Nat /\ op \in LogOp
      BY DEF NodeRow, LogOp
    <2>3. Good(f) /\ Readable(f.disk) /\ (Frontier(m) => Frontier(f))
      BY <2>1, FadesFrontier
    <2> QED
      BY <2>1, <2>2, <2>3, WriteFrontier
  <1>4. CASE DeleteForm(m, n)
    <2>1. PICK row \in NodeRow : n = Write(DropNode(m, row.node), "DELETE", row.node, 0, 0, row)
      BY <1>4 DEF DeleteForm, WriteEntry
    <2> DEFINE f == DropNode(m, row.node)
    <2>2. row.node \in Nat /\ "DELETE" \in LogOp
      BY DEF NodeRow, LogOp
    <2>3. Fades(m, f)
      BY <1>1, <2>2, DropNodeFades
    <2> HIDE DEF f
    <2>4. Good(f) /\ Readable(f.disk) /\ (Frontier(m) => Frontier(f))
      BY <2>3, FadesFrontier
    <2>5. n = Write(f, "DELETE", row.node, 0, 0, row)
      BY <2>1 DEF f
    <2> QED
      BY <2>2, <2>4, <2>5, WriteFrontier
  <1>5. CASE TruncateForm(m, n)
    <2>1. PICK node \in Nat, size \in Sizes :
            n = Write(DropData(m, node, size), "TRUNCATE", node, 0, size, NoEntry)
      BY <1>5 DEF TruncateForm
    <2> DEFINE f == DropData(m, node, size)
    <2>2. size \in Nat /\ "TRUNCATE" \in LogOp \ EntryOp
      BY SizesAssumption DEF LogOp, EntryOp
    <2>3. Fades(m, f)
      BY <1>1, <2>2, DropDataFades
    <2> HIDE DEF f
    <2>4. Good(f) /\ Readable(f.disk) /\ (Frontier(m) => Frontier(f))
      BY <2>3, FadesFrontier
    <2>5. n = Write(f, "TRUNCATE", node, 0, size, NoEntry)
      BY <2>1 DEF f
    <2> QED
      BY <2>2, <2>4, <2>5, WriteFrontier
  <1>6. CASE DataForm(m, n)
    <2>1. "DATA" \in LogOp \ EntryOp
      BY DEF LogOp, EntryOp
    <2> QED
      BY <1>6, <2>1, WriteFrontier DEF DataForm
  <1> QED
    BY <1>2, <1>3, <1>4, <1>5, <1>6 DEF Form, NameForm

\* Replaying a record, whatever else the container holds, keeps the types and
\* moves the counter past it.
LEMMA ReplayFrontier ==
    ASSUME NEW m, Good(m), Readable(m.disk), NEW b \in Valid(m.disk),
           NEW n, n = Replay(m, b)
    PROVE  /\ Good(n) /\ n.disk = m.disk
           /\ n.r = "OK" => n.next_block_id = Larger(m.next_block_id, b + 1)
           /\ n.r # "OK" => n.next_block_id = m.next_block_id
  <1> DEFINE rec == m.disk[b]
             done == Effect(m, rec)
             row == [op |-> rec.op, seq |-> rec.seq, node |-> rec.node,
                     fill |-> rec.fill, offset |-> rec.offset]
  <1>1. b \in Block /\ rec \in DiskRecord /\ rec.op \in LogOp
        /\ (rec.op \in EntryOp => rec.entry \in NodeRow) /\ m \in Machine
    BY DEF Valid, Readable, DiskRecord, Good
  <1>2. Fades(m, done) /\ done.r \in Errno \cup {"OK"}
    BY <1>1, EffectFades
  <1>3. /\ done \in Machine /\ done.disk = m.disk /\ done.next_block_id = m.next_block_id
        /\ m.next_block_id \in 1 .. LastBlock + 1
    BY <1>2 DEF Fades, Good
  <1>4. /\ row \in BlockRow /\ rec.seq + 1 \in Nat /\ rec.node + 1 \in Nat
    BY <1>1 DEF DiskRecord, BlockRow
  <1>5. n = IF done.r # "OK" THEN done
            ELSE [done EXCEPT !.blocks[b] = row,
                              !.next_node_id = Larger(@, rec.node + 1),
                              !.next_block_id = Larger(@, b + 1),
                              !.next_seq_id = rec.seq + 1]
    BY DEF Replay
  <1> HIDE DEF done, row, rec
  <1>6. CASE done.r # "OK"
    BY <1>3, <1>5, <1>6 DEF Good
  <1>7. CASE done.r = "OK"
    <2> DEFINE blocks == [done.blocks EXCEPT ![b] = row]
               id == Larger(done.next_node_id, rec.node + 1)
               top == Larger(m.next_block_id, b + 1)
               seq == rec.seq + 1
    <2>1. blocks \in [Block -> BlockRow] /\ seq \in Nat
      BY <1>1, <1>3, <1>4 DEF Machine
    <2>2. id \in Nat
      BY <1>3, <1>4 DEF Larger, Machine
    <2>3. top \in 1 .. LastBlock + 1 /\ top \in Nat
      BY <1>1, <1>3, LastBlockAssumption DEF Larger, Block
    <2>4. n = [done EXCEPT !.blocks = blocks, !.next_node_id = id,
                           !.next_block_id = top, !.next_seq_id = seq]
      BY <1>3, <1>5, <1>7 DEF Machine
    <2> HIDE DEF blocks, id, top, seq
    <2>5. n \in Machine /\ n.disk = m.disk /\ n.r = "OK" /\ n.next_block_id = top
      BY <1>3, <1>7, <2>1, <2>2, <2>3, <2>4 DEF Machine
    <2> QED
      BY <2>3, <2>5 DEF Good, top
  <1> QED
    BY <1>6, <1>7

-----------------------------------------------------------------------------
(* The process. *)

\* Empty tables over any container are well typed.
LEMMA FreshGood ==
    ASSUME NEW disk, Readable(disk)
    PROVE  /\ Good(Fresh(disk)) /\ Fresh(disk).disk = disk
           /\ Fresh(disk).next_block_id = 1
  <1>1. disk \in [Block -> DiskRecord] /\ NoRow \in BlockRow
    BY DEF Readable, NoRow, BlockRow
  <1>2. Fresh(disk) \in Machine
    BY <1>1 DEF Machine, Fresh
  <1>3. Fresh(disk).disk = disk /\ Fresh(disk).next_block_id = 1
    BY DEF Fresh
  <1> QED
    BY <1>2, <1>3, LastBlockAssumption DEF Good

\* Where the scan has stopped, a mount that has read all of it ends at the counter.
LEMMA ScanEnds ==
    ASSUME NEW m, Good(m), Reading(m, {})
    PROVE  Scanned(m.disk) = 1 .. m.next_block_id - 1
  <1>1. m.next_block_id \in 1 .. LastBlock + 1
    BY DEF Good
  <1>2. \A b \in Scanned(m.disk) : b < m.next_block_id
    BY DEF Reading
  <1>3. Scanned(m.disk) \subseteq 1 .. m.next_block_id - 1
    BY <1>1, <1>2, LastBlockAssumption DEF Scanned, Block
  <1>4. ASSUME NEW b \in 1 .. m.next_block_id - 1
        PROVE  b \in Scanned(m.disk)
    <2>1. m.next_block_id - 1 \in Scanned(m.disk)
      BY <1>1, <1>4, LastBlockAssumption DEF Reading
    <2>2. b \in Block /\ 1 .. b \subseteq 1 .. m.next_block_id - 1
      BY <1>1, <1>4, LastBlockAssumption DEF Block
    <2> QED
      BY <2>1, <2>2 DEF Scanned
  <1> QED
    BY <1>3, <1>4

\* A formatted container satisfies the invariant.
LEMMA InitGInv == CInit => GInv
  <1> SUFFICES ASSUME CInit PROVE GInv
    OBVIOUS
  <1> DEFINE empty == [b \in Block |-> NoRecord]
  <1>1. /\ fs = Fresh(empty) /\ mode = "mounted" /\ job = NoJob /\ todo = {}
        /\ stable = fs.disk /\ cursor = 1
    BY DEF CInit, Init
  <1>2. NoJob \in Job /\ NoJob.kind # "link"
    BY DEF Job, NoJob
  <1>3. Readable(empty)
    BY DEF Readable, NoRecord, DiskRecord, EntryOp
  <1>4. Valid(empty) = {}
    BY DEF Valid, NoRecord
  <1> HIDE DEF empty
  <1>5. Good(fs) /\ fs.disk = empty /\ fs.next_block_id = 1
    BY <1>1, <1>3, FreshGood
  <1>6. Frontier(fs)
    BY <1>4, <1>5 DEF Frontier
  <1>7. 1 \in Block
    BY LastBlockAssumption DEF Block
  <1> QED
    BY <1>1, <1>2, <1>3, <1>5, <1>6, <1>7 DEF GInv, Typed, Linked, Good

\* What is cached or written back is readable when what is written is.
LEMMA CachedReadable ==
    ASSUME GInv, Cached, Readable(fs'.disk)
    PROVE  Readable(stable')
  BY DEF GInv, Cached

\* A call, from its first record to its last.
LEMMA CallGInv ==
    ASSUME GInv, Works, Call \/ Finish
    PROVE  GInv'
  <1>1. mode = "mounted" /\ UNCHANGED <<mode, todo>>
    BY DEF Call, Begin, SetFile, SetDir, SetTime, DelNode, SetLink, MoveNode, DelData, SetData,
           Finish, FinishLink, FinishMove, WriteChunk
  <1>2. cursor' = 1 /\ Cached /\ (~ haunted' => ~ haunted)
    BY <1>1 DEF Works, Observe, Remounted
  <1>3. Form(fs, fs') /\ Linked' /\ job' \in Job
    BY CallForm, FinishForm DEF GInv
  <1>4. Good(fs') /\ Readable(fs'.disk) /\ (Frontier(fs) => Frontier(fs'))
    BY <1>3, FormFrontier DEF GInv
  <1>5. Readable(stable')
    BY <1>2, <1>4, CachedReadable
  <1>6. 1 \in Block
    BY LastBlockAssumption DEF Block
  <1> QED
    BY <1>1, <1>2, <1>3, <1>4, <1>5, <1>6 DEF GInv, Typed, Good

\* One record of a mount, and its end.
LEMMA LoadGInv ==
    ASSUME GInv, Works, Load
    PROVE  GInv'
  <1>1. cursor' = 1 /\ 1 \in Block /\ Cached
    BY LastBlockAssumption DEF Works, Block
  <1>2. Good(fs) /\ Readable(fs.disk) /\ (mode = "loading" => Reading(fs, todo) /\ job = NoJob)
    BY DEF GInv, Typed
  <1>3. NoJob \in Job /\ NoJob.kind # "link"
    BY DEF Job, NoJob
  <1>4. CASE Mounted
    <2>1. mode = "loading" /\ todo = {} /\ mode' = "mounted" /\ UNCHANGED <<fs, job, todo>>
      BY <1>4 DEF Mounted
    <2>2. haunted' = (haunted \/ Valid(fs.disk) # Scanned(fs.disk))
      BY <2>1 DEF Works, Observe, Remounted
    <2>3. ~ haunted' => Frontier(fs)
      BY <1>2, <2>1, <2>2, ScanEnds DEF Frontier
    <2>4. Readable(stable')
      BY <1>1, <1>2, <2>1, CachedReadable
    <2> QED
      BY <1>1, <1>2, <1>3, <2>1, <2>3, <2>4 DEF GInv, Typed, Linked, Good, Frontier
  <1>5. ASSUME NEW b \in Block, LoadRecord(b)
        PROVE  GInv'
    <2> DEFINE n == Replay(fs, b)
    <2>1. /\ mode = "loading" /\ b \in todo /\ fs' = n /\ job' = job
          /\ todo' = IF n.r = "OK" THEN todo \ {b} ELSE {}
          /\ mode' = IF n.r = "OK" THEN mode ELSE "failed"
      BY <1>5 DEF LoadRecord
    <2>2. Reading(fs, todo) /\ job = NoJob
      BY <1>2, <2>1
    <2>3. b \in Valid(fs.disk)
      BY <2>1, <2>2, LastBlockAssumption DEF Reading, Scanned, Valid, Block
    <2>4. /\ Good(n) /\ n.disk = fs.disk
          /\ n.r = "OK" => n.next_block_id = Larger(fs.next_block_id, b + 1)
      BY <1>2, <2>3, ReplayFrontier
    <2>5. Readable(stable')
      BY <1>1, <1>2, <2>1, <2>4, CachedReadable
    <2> HIDE DEF n
    <2>6. CASE n.r = "OK"
      <3>1. fs.next_block_id \in Nat /\ b \in Nat
        BY <1>2, <2>3 DEF Good, Machine, Valid, Block
      <3>2. n.next_block_id = Larger(fs.next_block_id, b + 1)
        BY <2>4, <2>6
      <3>3. Scanned(fs.disk) \ (todo \ {b}) = (Scanned(fs.disk) \ todo) \cup {b}
        BY <2>1, <2>2 DEF Reading
      <3>4. \A c \in Scanned(fs.disk) \ todo : c \in Nat /\ c < fs.next_block_id
        BY <2>2 DEF Reading, Scanned, Block
      <3>5. \A c \in (Scanned(fs.disk) \ todo) \cup {b} : c < n.next_block_id
        BY <3>1, <3>2, <3>4 DEF Larger
      <3>6. \/ n.next_block_id - 1 = b
            \/ n.next_block_id = fs.next_block_id
        BY <3>1, <3>2 DEF Larger
      <3>7. Reading(n, todo \ {b})
        BY <2>2, <2>4, <3>3, <3>5, <3>6 DEF Reading
      <3> QED
        BY <1>1, <1>2, <1>3, <2>1, <2>2, <2>4, <2>5, <2>6, <3>7 DEF GInv, Typed, Linked, Good
    <2>7. CASE n.r # "OK"
      BY <1>1, <1>2, <1>3, <2>1, <2>2, <2>4, <2>5, <2>7 DEF GInv, Typed, Linked, Good
    <2> QED
      BY <2>6, <2>7
  <1> QED
    BY <1>4, <1>5 DEF Load

\* The end of a process, and the scan with which the next begins.
LEMMA ProcessGInv ==
    ASSUME GInv, Works, Stop \/ Mount
    PROVE  GInv'
  <1>1. cursor' = 1 /\ 1 \in Block /\ Cached
    BY LastBlockAssumption DEF Works, Block
  <1>2. Good(fs) /\ Readable(fs.disk)
    BY DEF GInv
  <1>3. NoJob \in Job /\ NoJob.kind # "link"
    BY DEF Job, NoJob
  <1>4. CASE Stop
    <2>1. fs' = Fresh(fs.disk) /\ mode' = "down" /\ job' = NoJob /\ todo' = {}
      BY <1>4 DEF Stop
    <2>2. Good(fs') /\ fs'.disk = fs.disk /\ fs'.next_block_id = 1
      BY <1>2, <2>1, FreshGood
    <2>3. Readable(stable')
      BY <1>1, <1>2, <2>2, CachedReadable
    <2> QED
      BY <1>1, <1>2, <1>3, <2>1, <2>2, <2>3 DEF GInv, Typed, Linked, Good
  <1>5. CASE Mount
    <2>1. mode = "down" /\ mode' = "loading" /\ todo' = Scanned(fs.disk) /\ UNCHANGED <<fs, job>>
      BY <1>5 DEF Mount
    <2>2. fs.next_block_id = 1 /\ job = NoJob
      BY <2>1 DEF GInv
    <2>3. Reading(fs, Scanned(fs.disk))
      BY <2>2 DEF Reading
    <2>4. Readable(stable')
      BY <1>1, <1>2, <2>1, CachedReadable
    <2> QED
      BY <1>1, <1>2, <1>3, <2>1, <2>2, <2>3, <2>4 DEF GInv, Typed, Linked, Good
  <1> QED
    BY <1>4, <1>5

\* Syncing, writing back a block, and losing what was not written back.
LEMMA PowerGInv ==
    ASSUME GInv, Sync \/ PowerLoss \/ \E b \in Block : Writeback(b)
    PROVE  GInv'
  <1>1. NoJob \in Job /\ NoJob.kind # "link" /\ 1 \in Block
    BY LastBlockAssumption DEF Job, NoJob, Block
  <1>2. CASE Sync
    <2>1. mode = "mounted" /\ UNCHANGED <<fs, mode, job, todo, cursor>> /\ stable' = fs.disk
      BY <1>2 DEF Sync, Begin
    <2>2. ~ haunted' => ~ haunted
      BY <1>2 DEF Sync, Observe
    <2> QED
      BY <2>1, <2>2 DEF GInv, Typed, Linked, Good, Frontier
  <1>3. CASE PowerLoss
    <2>1. /\ fs' = Fresh(stable) /\ mode' = "down" /\ job' = NoJob /\ todo' = {}
          /\ cursor' = 1 /\ stable' = stable
      BY <1>3 DEF PowerLoss
    <2>2. Good(fs') /\ fs'.disk = stable /\ fs'.next_block_id = 1
      BY <2>1, FreshGood DEF GInv
    <2> QED
      BY <1>1, <2>1, <2>2 DEF GInv, Typed, Linked, Good
  <1>4. ASSUME NEW b \in Block, Writeback(b)
        PROVE  GInv'
    <2>1. UNCHANGED <<fs, mode, job, todo, cursor>> /\ stable' = [stable EXCEPT ![b] = fs.disk[b]]
      BY <1>4 DEF Writeback
    <2>2. ~ haunted' => ~ haunted
      BY <1>4 DEF Writeback, Observe
    <2>3. Readable(stable')
      BY <2>1 DEF GInv, Readable
    <2> QED
      BY <2>1, <2>2, <2>3 DEF GInv, Typed, Linked, Good, Frontier, Reading
  <1> QED
    BY <1>2, <1>3, <1>4

\* Invalidating a tag leaves a readable container.
LEMMA InvalidateReadable ==
    ASSUME NEW disk, Readable(disk), NEW b \in Block
    PROVE  Readable([disk EXCEPT ![b] = NoRecord])
  BY DEF Readable, NoRecord, DiskRecord, EntryOp

\* Formatting, of a block and of the last, after which the container is empty.
LEMMA FormatGInv ==
    ASSUME GInv, BeginFormat \/ FormatBlock
    PROVE  GInv'
  <1>1. NoJob \in Job /\ NoJob.kind # "link" /\ 1 \in Block
    BY LastBlockAssumption DEF Job, NoJob, Block
  <1>2. CASE BeginFormat
    <2>1. /\ mode = "down" /\ mode' = "formatting"
          /\ UNCHANGED <<fs, job, todo, stable, cursor, haunted>>
      BY <1>2 DEF BeginFormat
    <2>2. cursor = 1 /\ fs.next_block_id = 1 /\ job = NoJob
      BY <2>1 DEF GInv
    <2>3. ~ \E b \in Block : b < 1
      BY DEF Block
    <2> QED
      BY <1>1, <2>1, <2>2, <2>3 DEF GInv, Typed, Linked, Good
  <1>3. CASE FormatBlock
    <2> DEFINE disk == [fs.disk EXCEPT ![cursor] = NoRecord]
    <2>1. /\ mode = "formatting" /\ fs' = [fs EXCEPT !.disk = disk]
          /\ cursor' = IF cursor = LastBlock THEN 1 ELSE cursor + 1
          /\ mode' = IF cursor = LastBlock THEN "mounted" ELSE mode
          /\ Cached /\ UNCHANGED <<job, todo>>
      BY <1>3 DEF FormatBlock
    <2>2. /\ cursor \in Block /\ fs.next_block_id = 1 /\ job = NoJob /\ Good(fs)
          /\ fs.disk \in [Block -> DiskRecord]
          /\ \A b \in Block : b < cursor => fs.disk[b].op = "INVALID"
      BY <2>1 DEF GInv, Readable
    <2>3. Readable(disk)
      BY <2>2, InvalidateReadable DEF GInv
    <2>4. \A b \in Block : b < cursor + 1 => disk[b].op = "INVALID"
      <3>1. disk[cursor].op = "INVALID"
        BY <2>2 DEF NoRecord
      <3>2. ASSUME NEW b \in Block, b < cursor + 1, b # cursor
            PROVE  disk[b].op = "INVALID"
        <4>1. b < cursor
          BY <2>2, <3>2 DEF Block
        <4> QED
          BY <2>2, <3>2, <4>1
      <3> QED
        BY <3>1, <3>2
    <2>5. disk \in [Block -> DiskRecord]
      BY <2>3 DEF Readable
    <2> HIDE DEF disk
    <2>6. Good(fs') /\ fs'.disk = disk /\ fs'.next_block_id = 1
      BY <2>1, <2>2, <2>5 DEF Good, Machine
    <2>6a. Readable(stable')
      BY <2>1, <2>3, <2>6, CachedReadable
    <2>7. CASE cursor = LastBlock
      <3>1. mode' = "mounted" /\ cursor' = 1
        BY <2>1, <2>7
      <3>2. Valid(disk) = {}
        <4>1. \A b \in Block : b < cursor + 1
          BY <2>7, LastBlockAssumption DEF Block
        <4> QED
          BY <2>4, <4>1 DEF Valid
      <3>3. Frontier(fs')
        BY <2>6, <3>2 DEF Frontier
      <3> QED
        BY <1>1, <2>1, <2>2, <2>3, <2>6, <2>6a, <3>1, <3>3 DEF GInv, Typed, Linked, Good
    <2>8. CASE cursor # LastBlock
      <3>1. mode' = "formatting" /\ cursor' = cursor + 1
        BY <2>1, <2>8
      <3>2. cursor + 1 \in Block
        BY <2>2, <2>8, LastBlockAssumption DEF Block
      <3> QED
        BY <1>1, <2>1, <2>2, <2>3, <2>4, <2>6, <2>6a, <3>1, <3>2 DEF GInv, Typed, Linked, Good
    <2> QED
      BY <2>7, <2>8
  <1> QED
    BY <1>2, <1>3

\* Every step keeps the invariant.
LEMMA StepGInv == GInv /\ [CNext]_cvars => GInv'
  <1> SUFFICES ASSUME GInv, [CNext]_cvars
               PROVE  GInv'
    OBVIOUS
  <1>1. CASE Works
    BY <1>1, CallGInv, LoadGInv, ProcessGInv DEF Works
  <1>2. CASE Sync \/ PowerLoss \/ \E b \in Block : Writeback(b)
    BY <1>2, PowerGInv
  <1>3. CASE BeginFormat \/ FormatBlock
    BY <1>3, FormatGInv
  <1>4. CASE UNCHANGED cvars
    BY <1>4 DEF cvars, GInv, Typed, Linked, Good, Frontier, Reading
  <1> QED
    BY <1>1, <1>2, <1>3, <1>4 DEF CNext

\* The invariant of a container that may lose power and be formatted holds in
\* every reachable state.
THEOREM ContainerInvariant == CSpec => []GInv
  BY InitGInv, StepGInv, PTL DEF CSpec

-----------------------------------------------------------------------------
(* Nothing waits behind the log. *)

\* The records of the container are those of the mounted machine, unless a mount
\* has left some behind a hole: whatever power losses and formattings came before.
THEOREM GhostFree == CSpec => []NoGhosts
  <1>1. GInv => NoGhosts
    BY DEF GInv, NoGhosts, Frontier
  <1> QED
    BY <1>1, ContainerInvariant, PTL

-----------------------------------------------------------------------------
(* The log up to a block. *)

\* The records in the blocks of S, over a blank container.
Only(disk, S) == [b \in Block |-> IF b \in S THEN disk[b] ELSE NoRecord]

\* A tag that does not count is one that formatting left.
Blank(disk) == \A b \in Block : disk[b].op = "INVALID" => disk[b] = NoRecord

\* What a scan reads is what remains.
LEMMA OnlyScanned ==
    ASSUME NEW disk, Readable(disk), NEW k \in 0 .. LastBlock,
           1 .. k \subseteq Valid(disk), k + 1 \notin Valid(disk)
    PROVE  Scanned(disk) = 1 .. k
  <1>1. LastBlock \in Nat /\ k \in Nat
    BY LastBlockAssumption
  <1>2. ASSUME NEW b \in 1 .. k PROVE b \in Scanned(disk)
    <2>1. b \in Block /\ \A c \in 1 .. b : c \in 1 .. k
      BY <1>1, <1>2 DEF Block
    <2> QED
      BY <2>1 DEF Scanned, Valid
  <1>3. ASSUME NEW b \in Scanned(disk) PROVE b \in 1 .. k
    <2>1. b \in Block /\ \A c \in 1 .. b : disk[c].op # "INVALID"
      BY <1>3 DEF Scanned
    <2>2. ASSUME b > k PROVE FALSE
      <3>1. k + 1 \in Block /\ k + 1 \in 1 .. b
        BY <1>1, <2>1, <2>2 DEF Block
      <3> QED
        BY <2>1, <3>1 DEF Valid
    <2> QED
      BY <1>1, <2>1, <2>2 DEF Block
  <1> QED
    BY <1>2, <1>3

\* A scan ends somewhere.
LEMMA ScanStops ==
    ASSUME NEW disk, Readable(disk)
    PROVE  \E k \in 0 .. LastBlock : /\ 1 .. k \subseteq Valid(disk) /\ k + 1 \notin Valid(disk)
                                     /\ Scanned(disk) = 1 .. k
  <1> DEFINE T == {j \in Nat : j >= 1 /\ j \notin Valid(disk)}
  <1>1. LastBlock \in Nat
    BY LastBlockAssumption
  <1>2. LastBlock + 1 \in T
    BY <1>1 DEF Valid, Block
  <1>3. PICK j \in T : \A i \in T : j <= i
    <2>1. T \subseteq Nat /\ T # {}
      BY <1>2
    <2> HIDE DEF T
    <2> QED
      BY <2>1, NatMin
  <1>4. j \in Nat /\ j >= 1 /\ j \notin Valid(disk) /\ j <= LastBlock + 1
    BY <1>2, <1>3
  <1>5. j - 1 \in 0 .. LastBlock /\ (j - 1) + 1 = j
    BY <1>1, <1>4
  <1>6. ASSUME NEW i \in 1 .. j - 1 PROVE i \in Valid(disk)
    <2>1. i \in Nat /\ i >= 1 /\ i < j
      BY <1>4
    <2>2. i \notin T
      <3> HIDE DEF T
      <3> QED
        BY <1>3, <1>4, <2>1
    <2> QED
      BY <2>1, <2>2
  <1>7. 1 .. j - 1 \subseteq Valid(disk)
    BY <1>6
  <1>8. Scanned(disk) = 1 .. j - 1
    BY <1>4, <1>5, <1>7, OnlyScanned
  <1> QED
    BY <1>4, <1>5, <1>7, <1>8

\* A log that is blank beyond block k is all there up to it.
LEMMA OnlyAll ==
    ASSUME NEW disk, Readable(disk), Blank(disk), NEW S, Valid(disk) \subseteq S
    PROVE  Only(disk, S) = disk
  <1>1. ASSUME NEW b \in Block PROVE Only(disk, S)[b] = disk[b]
    BY DEF Only, Blank, Valid
  <1> QED
    BY <1>1 DEF Only, Readable

\* The records of such a part.
LEMMA OnlyValid ==
    ASSUME NEW disk, NEW S, S \subseteq Valid(disk)
    PROVE  /\ Valid(Only(disk, S)) = S /\ Scanned(Only(disk, S)) \subseteq S
           /\ \A b \in S : Only(disk, S)[b] = disk[b]
  <1>1. \A b \in S : b \in Block /\ disk[b].op # "INVALID"
    BY DEF Valid
  <1>2. Valid(Only(disk, S)) = S
    BY <1>1 DEF Valid, Only, NoRecord
  <1>3. \A b \in S : Only(disk, S)[b] = disk[b]
    BY <1>1 DEF Only
  <1>4. ASSUME NEW b \in Scanned(Only(disk, S)) PROVE b \in S
    <2>1. b \in Block /\ b \in 1 .. b
      BY DEF Scanned, Block
    <2> QED
      BY <1>2, <2>1 DEF Scanned, Valid
  <1> QED
    BY <1>2, <1>3, <1>4

-----------------------------------------------------------------------------
(* A mount of a part. *)

\* s wrote these records, and no others.
Author(s, disk) ==
    /\ s.disk = disk /\ Sound(s) /\ Settled(s) /\ Recoverable(s) /\ Faithful(s)
    /\ Rooted(s, {})

\* A process that was never full wrote the records of its container.
LEMMA AuthorItself ==
    ASSUME NEW m, Sound(m), Settled(m), Recoverable(m), Faithful(m), NEW more, Rooted(m, more)
    PROVE  Author(m, m.disk)
  <1>1. Rooted(m, {})
    <2>1. m.nodes \cup Entries(m.disk) \cup {} \subseteq m.nodes \cup Entries(m.disk) \cup more
      OBVIOUS
    <2>2. Family(m.nodes \cup Entries(m.disk) \cup {})
      BY <2>1, FamilySubset DEF Rooted
    <2> QED
      BY <2>2 DEF Rooted
  <1> QED
    BY <1>1 DEF Author

\* The machine, had it these records only.
Over(m, disk) == [m EXCEPT !.disk = disk]

\* Neither does the work on the tables.
LEMMA DropOver ==
    ASSUME NEW m \in Machine, NEW disk \in [Block -> DiskRecord], NEW node
    PROVE  DropNode(Over(m, disk), node) = Over(DropNode(m, node), disk)
  BY DEF DropNode, Over, Machine

LEMMA MoveOver ==
    ASSUME NEW m \in Machine, NEW disk \in [Block -> DiskRecord], NEW row
    PROVE  MoveRow(Over(m, disk), row) = Over(MoveRow(m, row), disk)
  BY DEF MoveRow, Return, Over, Machine

\* The replay of a record does not look at the others.
LEMMA ReplayOver ==
    ASSUME NEW m \in Machine, NEW disk \in [Block -> DiskRecord], NEW b \in Block,
           disk[b] = m.disk[b], m.disk[b].op \in LogOp,
           m.disk[b].op \in EntryOp => m.disk[b].entry \in NodeRow
    PROVE  Replay(Over(m, disk), b) = Over(Replay(m, b), disk)
  <1> DEFINE rec == m.disk[b]
             done == Effect(m, rec)
  <1>1. rec \in DiskRecord /\ done \in Machine
    <2>1. rec \in DiskRecord
      BY DEF Machine
    <2> QED
      BY <2>1, EffectFades DEF Fades
  <1>2. Over(m, disk) \in Machine /\ Over(m, disk).disk = disk
    BY DEF Over, Machine
  <1>3. Effect(Over(m, disk), rec) = Over(done, disk)
    <2>1. CASE rec.op = "DATA"
      BY <2>1 DEF Effect, Return, Over, Machine
    <2>2. CASE rec.op = "NODE"
      BY <2>2 DEF Effect, Over, Machine
    <2>3. CASE rec.op = "MOVE"
      <3> HIDE DEF rec
      <3>1. Effect(Over(m, disk), rec) = MoveRow(Over(m, disk), rec.entry)
        BY <2>3 DEF Effect
      <3>2. done = MoveRow(m, rec.entry)
        BY <2>3 DEF Effect, done
      <3> QED
        BY <3>1, <3>2, MoveOver
    <2>4. CASE rec.op = "DELETE"
      <3> HIDE DEF rec
      <3>1. Effect(Over(m, disk), rec) = DropNode(Over(m, disk), rec.node)
        BY <2>4 DEF Effect
      <3>2. done = DropNode(m, rec.node)
        BY <2>4 DEF Effect, done
      <3> QED
        BY <3>1, <3>2, DropOver
    <2>5. CASE rec.op = "TRUNCATE"
      BY <2>5 DEF Effect, DropData, Over, Machine
    <2> QED
      BY <2>1, <2>2, <2>3, <2>4, <2>5 DEF LogOp
  <1> HIDE DEF done, rec
  <1>4. Over(done, disk).r = done.r
    BY <1>1 DEF Over, Machine
  <1>5. disk[b] = rec
    BY DEF rec
  <1>6. CASE done.r # "OK"
    BY <1>2, <1>3, <1>4, <1>5, <1>6 DEF Replay, rec, done
  <1>7. CASE done.r = "OK"
    <2> DEFINE Grow(f) == [f EXCEPT
                  !.blocks[b] = [op |-> rec.op, seq |-> rec.seq, node |-> rec.node,
                                 fill |-> rec.fill, offset |-> rec.offset],
                  !.next_node_id = Larger(@, rec.node + 1),
                  !.next_block_id = Larger(@, b + 1),
                  !.next_seq_id = rec.seq + 1]
    <2>1. Replay(m, b) = Grow(done)
      BY <1>7 DEF Replay, rec, done
    <2>2. Replay(Over(m, disk), b) = Grow(Over(done, disk))
      BY <1>2, <1>3, <1>4, <1>5, <1>7 DEF Replay
    <2>3. Grow(Over(done, disk)) = Over(Grow(done), disk)
      BY <1>1 DEF Over, Machine
    <2> QED
      BY <2>1, <2>2, <2>3
  <1> QED
    BY <1>6, <1>7

\* What a mount makes of the records of an author.
LEMMA AuthorMounts ==
    ASSUME NEW m, NEW s, NEW disk, Replayed(m, disk, {}), Author(s, disk)
    PROVE  /\ Sound(m) /\ Settled(m) /\ Recoverable(m) /\ Faithful(m) /\ Rooted(m, {})
           /\ Enlisted(m, {}) /\ Tree(m.nodes)
           /\ View(m) = View(s) /\ Logged(m) = m.nodes
  <1>1. /\ m.disk = disk /\ Replaying(m, {}) /\ Settled(m) /\ Recoverable(m) /\ Youngest(m)
        /\ Unique(m.nodes) /\ Exact(m) /\ IdFollows(m) /\ Carried(m)
    BY DEF Replayed, Recoverable
  <1>2. Sound(m)
    BY <1>1, ReplayedSound
  <1>3. m \in Machine /\ MirrorsAll(m) /\ DiskSound(m.disk) /\ m.next_node_id \in Nat
    BY <1>2 DEF Sound, Good, Machine
  <1>4. /\ Sound(s) /\ Settled(s) /\ Carried(s) /\ Unique(s.nodes) /\ s.next_node_id >= 1
        /\ Faithful(s) /\ s.disk = m.disk /\ Family(s.nodes \cup Entries(s.disk))
    <2>1. /\ Sound(s) /\ Settled(s) /\ Carried(s) /\ Faithful(s) /\ s.disk = disk /\ Rooted(s, {})
      BY DEF Author, Recoverable
    <2>2. Root.node < s.next_node_id /\ Root.node = 0
      BY <2>1 DEF Rooted, Root
    <2>3. s.next_node_id \in Nat
      BY <2>1 DEF Sound, Good, Machine
    <2>4. s.nodes \cup Entries(s.disk) \cup {} = s.nodes \cup Entries(s.disk)
      OBVIOUS
    <2>5. Family(s.nodes \cup Entries(s.disk))
      BY <2>1, <2>4 DEF Rooted
    <2> QED
      BY <1>1, <2>1, <2>2, <2>3, <2>5 DEF Rooted
  <1>5. /\ m.blocks = s.blocks /\ m.next_block_id = s.next_block_id
        /\ m.next_seq_id = s.next_seq_id
        /\ m.nodes = Logged(s)
        /\ Faithful(m) /\ Enlisted(m, {}) /\ Tree(m.nodes)
    BY <1>1, <1>2, <1>4, MountFaithful
  <1>6. ASSUME NEW x \in m.nodes
        PROVE  x \in Logged(m) /\ x \in Entries(m.disk) /\ x.node < m.next_node_id
    <2>1. PICK b \in Carriers(m, x) :
            /\ m.disk[b].entry = x
            /\ \A c \in Carriers(m, x) : m.disk[c].seq <= m.disk[b].seq
      BY <1>1 DEF Youngest
    <2>2. x \in Logged(m)
      BY <2>1 DEF Logged
    <2>3. b \in Block /\ m.disk[b].op \in {"NODE", "MOVE"}
      BY <1>3, <2>1 DEF Carriers, MirrorsAll, Mirrors
    <2>4. x \in Entries(m.disk)
      BY <2>1, <2>3 DEF Entries, EntryOp
    <2>5. x.node < m.next_node_id
      BY <1>3, <2>1, CarrierNodes
    <2> QED
      BY <2>2, <2>4, <2>5
  <1>7. Logged(m) = m.nodes
    BY <1>6 DEF Logged
  <1>8. Rooted(m, {})
    <2>1. m.nodes \cup Entries(m.disk) \cup {} \subseteq s.nodes \cup Entries(s.disk)
      BY <1>4, <1>6
    <2>2. Family(m.nodes \cup Entries(m.disk) \cup {})
      BY <1>4, <2>1, FamilySubset
    <2>3. 0 < m.next_node_id
      <3>1. CASE m.next_node_id = 1
        BY <3>1
      <3>2. ASSUME NEW b \in Block, m.next_node_id = m.blocks[b].node + 1
            PROVE  0 < m.next_node_id
        <4>1. m.blocks[b].node \in Nat
          BY <1>3 DEF Machine, BlockRow
        <4> QED
          BY <3>2, <4>1
      <3> QED
        BY <1>1, <3>1, <3>2 DEF IdFollows
    <2>4. Root.node < m.next_node_id
      BY <2>3 DEF Root
    <2> QED
      BY <1>1, <1>6, <2>2, <2>4 DEF Rooted
  <1> QED
    BY <1>1, <1>2, <1>5, <1>7, <1>8 DEF View

\* Records that the mount did not read have no part in what it shows.
LEMMA OverView ==
    ASSUME NEW m \in Machine, NEW S, S \subseteq Valid(m.disk),
           NEW f, f = Over(m, Only(m.disk, S)), Sound(f)
    PROVE  View(f) = View(m)
  <1> DEFINE disk == Only(m.disk, S)
  <1>1. disk \in [Block -> DiskRecord]
    <2>1. NoRecord \in DiskRecord
      BY DEF NoRecord, DiskRecord
    <2> QED
      BY <2>1 DEF Only, Machine
  <1>2. \A b \in S : disk[b] = m.disk[b]
    BY OnlyValid
  <1>3. Valid(disk) = S
    BY OnlyValid
  <1> HIDE DEF disk
  <1>4. /\ f.nodes = m.nodes /\ f.blocks = m.blocks /\ f.disk = disk
        /\ f.next_block_id = m.next_block_id /\ f.next_seq_id = m.next_seq_id
    BY DEF Over, Machine, disk
  <1>5. ASSUME NEW b \in Block, m.blocks[b].op \in {"NODE", "MOVE"}
        PROVE  f.disk[b] = m.disk[b]
    <2>1. f.disk[b].op \in LogOp
      BY <1>4, <1>5 DEF Sound, MirrorsAll, Mirrors
    <2>2. b \in S
      BY <1>3, <1>4, <2>1 DEF Valid, LogOp
    <2> QED
      BY <1>2, <1>4, <2>2
  <1>6. \A x : Carriers(f, x) = Carriers(m, x)
    BY <1>4, <1>5 DEF Carriers
  <1>7. \A x : \A b \in Carriers(m, x) : f.disk[b] = m.disk[b]
    BY <1>5 DEF Carriers
  <1>8. Logged(f) = Logged(m)
    BY <1>4, <1>6, <1>7 DEF Logged
  <1> QED
    BY <1>4, <1>8 DEF View

-----------------------------------------------------------------------------
(* One record is written at a time. *)

\* From m to n one record was written, or none.
Writes(m, n) ==
    \/ n.disk = m.disk
    \/ \E b \in Block : /\ n.disk[b].op \in LogOp
                        /\ \A c \in Block : c # b => n.disk[c] = m.disk[c]

\* A write does that.
LEMMA WriteWrites ==
    ASSUME NEW m, NEW f, Good(f), f.disk = m.disk, NEW op \in LogOp, NEW node \in Nat,
           NEW fill \in Nat, NEW offset \in Nat, NEW entry \in NodeRow \cup {NoEntry}
    PROVE  Writes(m, Write(f, op, node, fill, offset, entry))
  <1> DEFINE w == Write(f, op, node, fill, offset, entry)
  <1>1. \/ w.disk = f.disk
        \/ \E b \in Block : /\ w.disk[b].op = op
                            /\ \A c \in Block : c # b => w.disk[c] = f.disk[c]
    <2>1. w = Write(f, op, node, fill, offset, entry)
      OBVIOUS
    <2> HIDE DEF w
    <2> QED
      BY <2>1, WriteCases
  <1> QED
    BY <1>1 DEF Writes

\* So does every form of a step.
LEMMA FormWrites ==
    ASSUME NEW m, Good(m), NEW n, Form(m, n)
    PROVE  Writes(m, n)
  <1>1. m \in Machine
    BY DEF Good
  <1>2. CASE ReturnForm(m, n)
    BY <1>1, <1>2 DEF ReturnForm, Return, Machine, Writes
  <1>3. CASE EntryForm(m, n)
    <2>1. PICK f \in Machine, op \in {"NODE", "MOVE"}, row \in NodeRow :
            Fades(m, f) /\ n = Write(f, op, row.node, 0, 0, row)
      BY <1>3 DEF EntryForm, WriteEntry
    <2>2. row.node \in Nat /\ op \in LogOp
      BY DEF NodeRow, LogOp
    <2>3. Good(f) /\ f.disk = m.disk
      BY <2>1 DEF Fades, Good
    <2> QED
      BY <2>1, <2>2, <2>3, WriteWrites
  <1>4. CASE DeleteForm(m, n)
    <2>1. PICK row \in NodeRow : n = Write(DropNode(m, row.node), "DELETE", row.node, 0, 0, row)
      BY <1>4 DEF DeleteForm, WriteEntry
    <2>2. row.node \in Nat /\ "DELETE" \in LogOp
      BY DEF NodeRow, LogOp
    <2>3. Good(DropNode(m, row.node)) /\ DropNode(m, row.node).disk = m.disk
      BY <1>1, <2>2, DropNodeFades DEF Fades, Good
    <2> QED
      BY <2>1, <2>2, <2>3, WriteWrites
  <1>5. CASE TruncateForm(m, n)
    <2>1. PICK node \in Nat, size \in Sizes :
            n = Write(DropData(m, node, size), "TRUNCATE", node, 0, size, NoEntry)
      BY <1>5 DEF TruncateForm
    <2>2. size \in Nat /\ "TRUNCATE" \in LogOp
      BY SizesAssumption DEF LogOp
    <2>3. Good(DropData(m, node, size)) /\ DropData(m, node, size).disk = m.disk
      BY <1>1, <2>2, DropDataFades DEF Fades, Good
    <2> QED
      BY <2>1, <2>2, <2>3, WriteWrites
  <1>6. CASE DataForm(m, n)
    <2>1. "DATA" \in LogOp
      BY DEF LogOp
    <2> QED
      BY <1>6, <2>1, WriteWrites DEF DataForm
  <1> QED
    BY <1>2, <1>3, <1>4, <1>5, <1>6 DEF Form, NameForm

\* What was blank stays so, or holds a record.
LEMMA WritesBlank ==
    ASSUME NEW m, NEW n, Writes(m, n), Blank(m.disk)
    PROVE  Blank(n.disk)
  <1>1. "INVALID" \notin LogOp
    BY DEF LogOp
  <1> QED
    BY <1>1 DEF Writes, Blank

\* In a log that is only appended to, no record is overwritten.
LEMMA WritesAppend ==
    ASSUME NEW m, Sound(m), NEW n, Form(m, n), Appended(m.disk), Appended(n.disk)
    PROVE  \A b \in Valid(m.disk) : n.disk[b] = m.disk[b]
  <1>1. Writes(m, n) /\ OnlyObsolete(m, n)
    BY FormWrites, FormObsolete DEF Sound
  <1> SUFFICES ASSUME NEW b \in Valid(m.disk), n.disk[b] # m.disk[b]
               PROVE  FALSE
    OBVIOUS
  <1>2. b \in Block /\ m.disk[b].op # "INVALID" /\ m.disk[b].seq = b
    BY DEF Valid, Appended
  <1>3. n.disk[b].op \in LogOp
    BY <1>1, <1>2 DEF Writes
  <1>4. n.disk[b].seq = b
    BY <1>2, <1>3 DEF Valid, Appended, LogOp
  <1>5. m.disk[b].seq < n.disk[b].seq
    BY <1>1, <1>2 DEF OnlyObsolete
  <1> QED
    BY <1>2, <1>4, <1>5 DEF Block

-----------------------------------------------------------------------------
(* What a loss of power may leave. *)

\* The log may end behind block k: it does, or it will when the blocks that `old`
\* does not have are lost.
MayEnd(disk, old, k) == /\ 1 .. k \subseteq Valid(disk)
                        /\ k + 1 \notin Valid(disk) \/ k + 1 \notin Valid(old)

\* A mount of these records will show one of the views.
Shown(disk, views) == \E s : Author(s, disk) /\ View(s) \in views

\* So it will wherever the log ends.
Foreseen(disk, old, views) ==
    \A k \in 0 .. LastBlock : MayEnd(disk, old, k) => Shown(Only(disk, 1 .. k), views)

\* Less may be lost, and more counts.
LEMMA ForeseenLess ==
    ASSUME NEW disk, NEW old, NEW views, Foreseen(disk, old, views),
           NEW disk2, NEW old2, NEW views2, views \subseteq views2,
           \A k \in 0 .. LastBlock : MayEnd(disk2, old2, k) =>
               MayEnd(disk, old, k) /\ Only(disk2, 1 .. k) = Only(disk, 1 .. k)
    PROVE  Foreseen(disk2, old2, views2)
  BY DEF Foreseen, Shown

\* A process counts on what it shows itself, and on shorter logs.
LEMMA ForeseenOn ==
    ASSUME NEW m, Readable(m.disk), Blank(m.disk), Author(m, m.disk),
           NEW old, NEW views, View(m) \in views,
           \A k \in 0 .. LastBlock : k + 1 \in Valid(m.disk) /\ MayEnd(m.disk, old, k) =>
               Shown(Only(m.disk, 1 .. k), views)
    PROVE  Foreseen(m.disk, old, views)
  <1> SUFFICES ASSUME NEW k \in 0 .. LastBlock, MayEnd(m.disk, old, k), k + 1 \notin Valid(m.disk)
               PROVE  Shown(Only(m.disk, 1 .. k), views)
    BY DEF Foreseen
  <1>1. Scanned(m.disk) = 1 .. k
    BY OnlyScanned DEF MayEnd
  <1>2. Valid(m.disk) \subseteq Scanned(m.disk)
    BY DEF Author, Sound, DiskSound, Scanned, Valid
  <1>3. Only(m.disk, 1 .. k) = m.disk
    BY <1>1, <1>2, OnlyAll
  <1> QED
    BY <1>3 DEF Shown

\* The log as a mount reads it.
Log == Only(fs.disk, Scanned(fs.disk))

\* The invariant, until a mount leaves records behind.  Wherever the log may end, some
\* process wrote just these records, and its view counts; a mounted process is one
\* whose container was only written to by itself, and a mounting one has what the
\* replay of such a log makes of the records it has read.
XInv ==
    /\ Blank(fs.disk) /\ Blank(stable)
    /\ mode \in {"down", "formatting"} => fs = Fresh(fs.disk)
    /\ mode = "formatting" /\ ~ haunted => View(Fresh(fs.disk)) \in past
    /\ mode # "loading" => todo = {}
    /\ ~ haunted =>
         /\ Foreseen(fs.disk, stable, past)
         /\ mode # "failed"
         /\ mode = "mounted" => RInv /\ NInv /\ HInv
         /\ mode = "loading" => fs.r = "OK" /\ Replayed(Over(fs, Log), Log, todo)

\* No record is overwritten, as long as no mount leaves any behind.
Unwrapped == haunted \/ Appended(fs.disk)

\* A mounted process wrote what lies in its container.
LEMMA MountedAuthor ==
    ASSUME RInv, NInv, HInv, mode = "mounted", Appended(fs.disk)
    PROVE  Author(fs, fs.disk)
  BY AuthorItself DEF RInv, SInv, IInv, NInv, HInv

\* The invariants of the process hold on while it does nothing.
LEMMA StillMounted ==
    ASSUME RInv, NInv, HInv, mode = "mounted", UNCHANGED vars
    PROVE  RInv' /\ NInv' /\ HInv'
  <1>1. NInv' /\ SInv'
    BY StepNInv, StepSInv DEF RInv
  <1> QED
    BY <1>1 DEF vars, RInv, HInv, Known, Unwritten

\* A call takes them over to its next record.
LEMMA CallMounted ==
    ASSUME RInv, NInv, HInv, Call \/ Finish
    PROVE  RInv' /\ NInv' /\ HInv'
  <1>1. mode = "mounted" /\ mode' = "mounted"
    BY DEF Call, Finish, Begin, SetFile, SetDir, SetTime, DelNode, SetLink,
           MoveNode, DelData, SetData, FinishLink, FinishMove, WriteChunk
  <1>2. [Next]_vars
    BY DEF Next
  <1>3. NInv' /\ SInv'
    BY <1>2, StepNInv, StepSInv DEF RInv
  <1>4. Form(fs, fs') /\ Sound(fs)
    BY <1>1, <1>2, StepForm DEF RInv, SInv, IInv
  <1>5. Recoverable(fs')
    BY <1>4, FormRecoverable DEF RInv
  <1>6. RInv'
    BY <1>1, <1>3, <1>5 DEF RInv
  <1> QED
    BY <1>3, <1>6, CallHInv

\* What a step that is no mount makes of the observers.
LEMMA Unmoved ==
    ASSUME Works, ~ Remounted
    PROVE  /\ stable' = stable \/ stable' = fs'.disk
           /\ haunted' <=> haunted
           /\ ~ haunted' => past' = IF mode' # "mounted" THEN past
                                   ELSE IF stable' = fs'.disk THEN {View(fs')}
                                   ELSE past \cup {View(fs')}
  <1>1. stable' = stable \/ stable' = fs'.disk
    BY DEF Works, Cached
  <1>2. haunted' <=> haunted
    BY DEF Works, Observe
  <1>3. Observe
    BY DEF Works
  <1> QED
    BY <1>1, <1>2, <1>3 DEF Observe

\* A call, from its first record to its last.
LEMMA CallXInv ==
    ASSUME GInv, GInv', XInv, Unwrapped, Unwrapped', Works, Call \/ Finish
    PROVE  XInv'
  <1>1. mode = "mounted" /\ UNCHANGED <<mode, todo>>
    BY DEF Call, Begin, SetFile, SetDir, SetTime, DelNode, SetLink, MoveNode, DelData, SetData,
           Finish, FinishLink, FinishMove, WriteChunk
  <1>2. /\ stable' = stable \/ stable' = fs'.disk
        /\ haunted' <=> haunted
        /\ ~ haunted' => past' = IF stable' = fs'.disk THEN {View(fs')} ELSE past \cup {View(fs')}
    BY <1>1, Unmoved DEF Remounted
  <1>3. Form(fs, fs') /\ Good(fs)
    BY CallForm, FinishForm DEF GInv
  <1>4. Writes(fs, fs')
    BY <1>3, FormWrites
  <1>5. Blank(fs'.disk) /\ Blank(stable')
    BY <1>2, <1>4, WritesBlank DEF XInv
  <1>6. CASE haunted
    BY <1>1, <1>2, <1>5, <1>6 DEF XInv
  <1>7. CASE ~ haunted
    <2>1. RInv /\ NInv /\ HInv /\ Foreseen(fs.disk, stable, past)
      BY <1>1, <1>7 DEF XInv
    <2>2. RInv' /\ NInv' /\ HInv'
      BY <2>1, CallMounted
    <2>3. Appended(fs.disk) /\ Appended(fs'.disk)
      BY <1>2, <1>7 DEF Unwrapped
    <2>4. Author(fs', fs'.disk)
      <3>1. /\ Sound(fs') /\ Settled(fs') /\ Recoverable(fs') /\ Faithful(fs')
            /\ Rooted(fs', Pending')
        BY <1>1, <2>2, <2>3 DEF RInv, SInv, IInv, NInv, HInv
      <3> QED
        BY <3>1, AuthorItself
    <2>5. Sound(fs)
      BY <1>1, <2>1 DEF NInv, IInv
    <2>6. \A b \in Valid(fs.disk) : fs'.disk[b] = fs.disk[b]
      BY <1>3, <2>3, <2>5, WritesAppend
    <2>7. View(fs') \in past'
      BY <1>2, <1>7
    <2>8. ASSUME NEW k \in 0 .. LastBlock, k + 1 \in Valid(fs'.disk),
                 MayEnd(fs'.disk, stable', k)
          PROVE  Shown(Only(fs'.disk, 1 .. k), past')
      <3>1. k \in Nat /\ k + 1 \notin Valid(stable') /\ 1 .. k \subseteq Valid(fs'.disk)
        BY <2>8, LastBlockAssumption DEF MayEnd
      <3>2. stable' # fs'.disk /\ stable' = stable /\ past' = past \cup {View(fs')}
        BY <1>2, <1>7, <2>8, <3>1
      <3>3. ASSUME NEW j \in 1 .. k, j \notin Valid(fs.disk) PROVE FALSE
        <4>1. j \in Block /\ j # k + 1 /\ k + 1 \in Block /\ j \in 1 .. k + 1
          BY <2>8, <3>1, <3>3 DEF Valid
        <4>2. fs'.disk[j] # fs.disk[j]
          BY <3>1, <3>3, <4>1 DEF Valid
        <4>3. fs'.disk[k + 1] = fs.disk[k + 1]
          BY <1>4, <4>1, <4>2 DEF Writes
        <4>4. k + 1 \in Valid(fs.disk)
          BY <2>8, <4>3 DEF Valid
        <4> QED
          BY <2>5, <3>3, <4>1, <4>4 DEF Sound, DiskSound
      <3>4. 1 .. k \subseteq Valid(fs.disk)
        BY <3>3
      <3>5. Only(fs'.disk, 1 .. k) = Only(fs.disk, 1 .. k)
        BY <2>6, <3>4 DEF Only
      <3>6. Shown(Only(fs.disk, 1 .. k), past)
        BY <2>1, <3>1, <3>2, <3>4 DEF Foreseen, MayEnd
      <3> QED
        BY <3>2, <3>5, <3>6 DEF Shown
    <2>9. Readable(fs'.disk)
      BY DEF GInv
    <2>10. Foreseen(fs'.disk, stable', past')
      BY <1>5, <2>4, <2>7, <2>8, <2>9, ForeseenOn
    <2> QED
      BY <1>1, <1>5, <2>2, <2>10 DEF XInv
  <1> QED
    BY <1>6, <1>7

\* What a mount reads of the container is what some process wrote.
LEMMA LogShown ==
    ASSUME Readable(fs.disk), Foreseen(fs.disk, stable, past)
    PROVE  Shown(Log, past) /\ Valid(Log) = Scanned(fs.disk)
  <1>1. PICK k \in 0 .. LastBlock : /\ 1 .. k \subseteq Valid(fs.disk)
                                    /\ k + 1 \notin Valid(fs.disk)
                                    /\ Scanned(fs.disk) = 1 .. k
    BY ScanStops
  <1>2. Shown(Log, past)
    BY <1>1 DEF Foreseen, MayEnd, Log
  <1> QED
    BY <1>1, <1>2, OnlyValid DEF Log

\* A step that writes nothing and mounts nothing leaves what may be lost.
LEMMA Idle ==
    ASSUME XInv, Works, ~ Remounted, mode' # "mounted", fs'.disk = fs.disk
    PROVE  /\ Blank(fs'.disk) /\ Blank(stable') /\ (haunted' <=> haunted)
           /\ ~ haunted' => past' = past /\ Foreseen(fs'.disk, stable', past')
  <1>1. stable' = stable \/ stable' = fs.disk
    BY Unmoved
  <1>2. (haunted' <=> haunted) /\ (~ haunted' => past' = past)
    BY Unmoved
  <1>3. Blank(fs'.disk) /\ Blank(stable')
    BY <1>1 DEF XInv
  <1>4. ASSUME ~ haunted
        PROVE  Foreseen(fs'.disk, stable', past')
    <2>1. Foreseen(fs.disk, stable, past)
      BY <1>4 DEF XInv
    <2>2. \A k : MayEnd(fs.disk, stable', k) => MayEnd(fs.disk, stable, k)
      BY <1>1 DEF MayEnd
    <2> QED
      BY <1>2, <1>4, <2>1, <2>2 DEF Foreseen
  <1> QED
    BY <1>2, <1>3, <1>4

\* The end of a process loses nothing.
LEMMA StopXInv ==
    ASSUME GInv, XInv, Works, Stop
    PROVE  XInv'
  <1>1. /\ fs' = Fresh(fs.disk) /\ fs'.disk = fs.disk /\ mode' = "down" /\ todo' = {}
    BY DEF Stop, Fresh
  <1>2. /\ Blank(fs'.disk) /\ Blank(stable')
        /\ ~ haunted' => Foreseen(fs'.disk, stable', past')
    BY <1>1, Idle DEF Remounted
  <1> QED
    BY <1>1, <1>2 DEF XInv

\* The scan with which the next begins.
LEMMA MountXInv ==
    ASSUME GInv, XInv, Works, Mount
    PROVE  XInv'
  <1>1. /\ mode = "down" /\ mode' = "loading" /\ todo' = Scanned(fs.disk)
        /\ fs' = fs /\ fs = Fresh(fs.disk)
    BY DEF Mount, XInv
  <1>2. /\ Blank(fs'.disk) /\ Blank(stable') /\ (haunted' <=> haunted)
        /\ ~ haunted' => Foreseen(fs'.disk, stable', past')
    BY <1>1, Idle DEF Remounted
  <1>3. ASSUME ~ haunted
        PROVE  fs.r = "OK" /\ Replayed(Over(fs, Log), Log, Scanned(fs.disk))
    <2>1. Foreseen(fs.disk, stable, past) /\ Readable(fs.disk)
      BY <1>3 DEF XInv, GInv
    <2>2. Shown(Log, past) /\ Valid(Log) = Scanned(fs.disk)
      BY <2>1, LogShown
    <2>3. DiskSound(Log) /\ CutsToSizes(Log)
      BY <2>2 DEF Shown, Author, Sound, Settled
    <2>4. Replayed(Fresh(Log), Log, Valid(Log))
      BY <2>3, ReplayedFirst
    <2>5. Over(fs, Log) = Fresh(Log)
      <3>1. fs = Fresh(fs.disk)
        BY <1>1
      <3> HIDE DEF Log
      <3> QED
        BY <3>1 DEF Over, Fresh
    <2> QED
      BY <1>1, <2>2, <2>4, <2>5 DEF Fresh
  <1>4. Log' = Log
    BY <1>1 DEF Log
  <1> QED
    BY <1>1, <1>2, <1>3, <1>4 DEF XInv

\* The replay of a record.
LEMMA RecordXInv ==
    ASSUME GInv, XInv, Unwrapped, Works, NEW b \in Block, LoadRecord(b)
    PROVE  XInv'
  <1> DEFINE n == Replay(fs, b)
  <1>1. /\ mode = "loading" /\ b \in todo /\ \A c \in todo : fs.disk[b].seq <= fs.disk[c].seq
        /\ fs' = n
        /\ todo' = IF n.r = "OK" THEN todo \ {b} ELSE {}
        /\ mode' = IF n.r = "OK" THEN "loading" ELSE "failed"
    BY DEF LoadRecord
  <1>2. Good(fs) /\ Readable(fs.disk) /\ todo \subseteq Scanned(fs.disk)
    BY <1>1 DEF GInv, Reading
  <1>3. b \in Valid(fs.disk)
    BY <1>1, <1>2, LastBlockAssumption DEF Scanned, Valid, Block
  <1>4. n.disk = fs.disk
    BY <1>2, <1>3, ReplayFrontier
  <1> HIDE DEF n
  <1>5. /\ Blank(fs'.disk) /\ Blank(stable') /\ (haunted' <=> haunted)
        /\ ~ haunted' => Foreseen(fs'.disk, stable', past')
    BY <1>1, <1>4, Idle DEF Remounted
  <1>6. ASSUME ~ haunted
        PROVE  n.r = "OK" /\ Replayed(Over(n, Log), Log, todo \ {b})
    <2>1. /\ Foreseen(fs.disk, stable, past)
          /\ Replayed(Over(fs, Log), Log, todo)
      BY <1>1, <1>6 DEF XInv
    <2>2. Shown(Log, past) /\ Valid(Log) = Scanned(fs.disk)
      BY <1>2, <2>1, LogShown
    <2>3. \A c \in Scanned(fs.disk) : Log[c] = fs.disk[c]
      BY DEF Log, Only, Scanned
    <2>4. Orderly(Log) /\ Appended(Log)
      <3>1. Appended(fs.disk)
        BY <1>6 DEF Unwrapped
      <3>2. \A c \in Scanned(fs.disk) : c \in Valid(fs.disk)
        BY LastBlockAssumption DEF Scanned, Valid, Block
      <3> QED
        BY <2>2, <2>3, <3>1, <3>2 DEF Shown, Author, Faithful, Appended
    <2>5. Log \in [Block -> DiskRecord] /\ fs \in Machine
      BY <1>2, <2>1 DEF Replayed, Replaying, DiskSound, Good
    <2>6. /\ Log[b] = fs.disk[b] /\ \A c \in todo : Log[b].seq <= Log[c].seq
      BY <1>1, <1>2, <2>3
    <2>7. Over(fs, Log).disk = Log
      BY <2>1 DEF Replayed
    <2>8. fs.disk[b].op \in LogOp /\ (fs.disk[b].op \in EntryOp => fs.disk[b].entry \in NodeRow)
      <3>1. fs.disk[b] \in DiskRecord /\ fs.disk[b].op # "INVALID"
        BY <1>2, <1>3 DEF Readable, Valid
      <3> QED
        BY <1>2, <3>1 DEF Readable, DiskRecord, LogOp
    <2> HIDE DEF Log
    <2>9. Replay(Over(fs, Log), b) = Over(n, Log)
      BY <2>5, <2>6, <2>8, ReplayOver DEF n
    <2>10. Replayed(Over(n, Log), Log, todo \ {b})
      BY <1>1, <2>1, <2>4, <2>6, <2>9, ReplayedNext
    <2>11. Replay(Over(fs, Log), b).r = "OK"
      <3>1. /\ Replaying(Over(fs, Log), todo) /\ Settled(Over(fs, Log)) /\ Youngest(Over(fs, Log))
        BY <2>1 DEF Replayed
      <3> QED
        BY <1>1, <2>4, <2>6, <2>7, <3>1, ReplayOrderly
    <2>12. n \in Machine
      BY <1>2, <1>3, ReplayFrontier DEF n, Good
    <2>13. Over(n, Log).r = n.r
      BY <2>12 DEF Over, Machine
    <2> QED
      BY <2>9, <2>10, <2>11, <2>13
  <1>7. Log' = Log
    BY <1>1, <1>4 DEF Log
  <1> QED
    BY <1>1, <1>5, <1>6, <1>7 DEF XInv

\* The end of a mount, which found what it read to be what some process wrote.
LEMMA MountShows ==
    ASSUME GInv, XInv, ~ haunted, Mounted,
           NEW f, f = Over(fs, Log)
    PROVE  /\ Sound(f) /\ Settled(f) /\ Recoverable(f) /\ Faithful(f) /\ Rooted(f, {})
           /\ Enlisted(f, {}) /\ Tree(f.nodes)
           /\ View(fs) \in past
  <1>1. mode = "loading" /\ todo = {}
    BY DEF Mounted
  <1>2. /\ Foreseen(fs.disk, stable, past)
        /\ Replayed(f, Log, {}) /\ Readable(fs.disk) /\ fs \in Machine
    BY <1>1 DEF XInv, GInv, Good
  <1>3. PICK s : Author(s, Log) /\ View(s) \in past
    BY <1>2, LogShown DEF Shown
  <1>4. /\ Sound(f) /\ Settled(f) /\ Recoverable(f) /\ Faithful(f) /\ Rooted(f, {})
        /\ Enlisted(f, {}) /\ Tree(f.nodes) /\ View(f) = View(s)
    <2> HIDE DEF Log
    <2> QED
      BY <1>2, <1>3, AuthorMounts
  <1>5. Scanned(fs.disk) \subseteq Valid(fs.disk)
    BY LastBlockAssumption DEF Scanned, Valid, Block
  <1>6. View(f) = View(fs)
    BY <1>2, <1>4, <1>5, OverView DEF Log
  <1> QED
    BY <1>3, <1>4, <1>6

\* A mounted process whose container was just written back, or whose view counts
\* with those of before.
LEMMA Counted ==
    ASSUME XInv, Readable(fs.disk), fs' = fs, ~ haunted, Author(fs, fs.disk),
           stable' \in {stable, fs.disk},
           past' = IF stable' = fs.disk THEN {View(fs)} ELSE past \cup {View(fs)}
    PROVE  Foreseen(fs'.disk, stable', past')
  <1>1. Foreseen(fs.disk, stable, past) /\ Blank(fs.disk)
    BY DEF XInv
  <1>2. View(fs) \in past'
    OBVIOUS
  <1>3. ASSUME NEW k \in 0 .. LastBlock, k + 1 \in Valid(fs.disk), MayEnd(fs.disk, stable', k)
        PROVE  Shown(Only(fs.disk, 1 .. k), past')
    <2>1. stable' # fs.disk
      BY <1>3 DEF MayEnd
    <2>2. stable' = stable /\ past \subseteq past'
      BY <2>1
    <2> QED
      BY <1>1, <1>3, <2>2 DEF Foreseen, Shown
  <1> QED
    BY <1>1, <1>2, <1>3, ForeseenOn

\* With its end the process is what the one before was.
LEMMA MountedXInv ==
    ASSUME GInv, GInv', XInv, Unwrapped, Works, Mounted
    PROVE  XInv'
  <1>1. /\ mode = "loading" /\ todo = {} /\ mode' = "mounted" /\ UNCHANGED <<fs, job, todo>>
    BY DEF Mounted
  <1>2. /\ stable' = stable \/ stable' = fs.disk
        /\ haunted' <=> (haunted \/ Valid(fs.disk) # Scanned(fs.disk))
        /\ ~ haunted' => past' = IF stable' = fs.disk THEN {View(fs)} ELSE past \cup {View(fs)}
    <2>1. Cached /\ Observe
      BY DEF Works
    <2>2. stable' = stable \/ stable' = fs.disk
      BY <1>1, <2>1 DEF Cached
    <2>3. haunted' <=> (haunted \/ Valid(fs.disk) # Scanned(fs.disk))
      BY <1>1, <2>1 DEF Observe, Remounted
    <2>4. ~ haunted' => past' = IF stable' = fs.disk THEN {View(fs)} ELSE past \cup {View(fs)}
      BY <1>1, <2>1 DEF Observe
    <2> QED
      BY <2>2, <2>3, <2>4
  <1>3. Blank(fs'.disk) /\ Blank(stable')
    BY <1>1, <1>2 DEF XInv
  <1>4. ASSUME ~ haunted'
        PROVE  /\ RInv' /\ NInv' /\ HInv'
               /\ Foreseen(fs'.disk, stable', past')
    <2>1. ~ haunted /\ Valid(fs.disk) = Scanned(fs.disk)
      BY <1>2, <1>4
    <2>2. Readable(fs.disk) /\ Blank(fs.disk) /\ fs \in Machine /\ fs.r = "OK" /\ job = NoJob
      BY <1>1, <2>1 DEF GInv, XInv, Good, Typed
    <2>3. Log = fs.disk
      BY <2>1, <2>2, OnlyAll DEF Log
    <2>4. Over(fs, Log) = fs
      BY <2>2, <2>3 DEF Over, Machine
    <2>5. /\ Sound(fs) /\ Settled(fs) /\ Recoverable(fs) /\ Faithful(fs) /\ Rooted(fs, {})
          /\ Enlisted(fs, {}) /\ Tree(fs.nodes)
      BY <2>1, <2>4, MountShows
    <2>6. Author(fs, fs.disk)
      BY <2>5 DEF Author
    <2>7. Foreseen(fs'.disk, stable', past')
      BY <1>1, <1>2, <1>4, <2>1, <2>2, <2>6, Counted
    <2>8. NoJob \in Job /\ NoJob.kind = "none"
      BY DEF Job, NoJob
    <2>9. IInv'
      BY <1>1, <2>2, <2>5, <2>8 DEF IInv, Typed, Linked, Mode, Sound, Good
    <2>10. RInv'
      BY <1>1, <2>2, <2>5, <2>9 DEF RInv, SInv, Exhausted
    <2>11. NInv'
      BY <1>1, <2>2, <2>5, <2>8, <2>9 DEF NInv, Pending
    <2>12. Appended(fs.disk)
      BY <2>1 DEF Unwrapped
    <2>13. HInv'
      BY <1>1, <2>2, <2>5, <2>8, <2>12 DEF HInv, Known, Intact, Unwritten
    <2> QED
      BY <2>7, <2>10, <2>11, <2>13
  <1> QED
    BY <1>1, <1>3, <1>4 DEF XInv

\* Syncing writes all of the container back.
LEMMA SyncXInv ==
    ASSUME GInv, XInv, Unwrapped, Sync
    PROVE  XInv'
  <1>1. /\ mode = "mounted" /\ UNCHANGED <<fs, mode, job, todo, cursor>> /\ stable' = fs.disk
        /\ Observe
    BY DEF Sync, Begin
  <1>2. /\ haunted' <=> haunted
        /\ ~ haunted' => past' = {View(fs)}
    BY <1>1 DEF Observe, Remounted
  <1>3. Blank(fs'.disk) /\ Blank(stable')
    BY <1>1 DEF XInv
  <1>4. ASSUME ~ haunted
        PROVE  /\ RInv' /\ NInv' /\ HInv'
               /\ Foreseen(fs'.disk, stable', past')
    <2>1. RInv /\ NInv /\ HInv /\ Appended(fs.disk) /\ Readable(fs.disk)
      BY <1>1, <1>4 DEF XInv, GInv, Unwrapped
    <2>2. RInv' /\ NInv' /\ HInv'
      BY <1>1, <2>1, StillMounted DEF vars
    <2>3. Author(fs, fs.disk)
      BY <1>1, <2>1, MountedAuthor
    <2> QED
      BY <1>1, <1>2, <1>4, <2>1, <2>2, <2>3, Counted
  <1> QED
    BY <1>1, <1>2, <1>3, <1>4 DEF XInv

\* Writing a block back takes one of the places away where the log may end.
LEMMA WritebackXInv ==
    ASSUME GInv, XInv, Unwrapped, NEW b \in Block, Writeback(b)
    PROVE  XInv'
  <1>1. /\ UNCHANGED <<fs, mode, job, todo, cursor>> /\ stable[b] # fs.disk[b]
        /\ stable' = [stable EXCEPT ![b] = fs.disk[b]]
        /\ Observe
    BY DEF Writeback
  <1>2. /\ haunted' <=> haunted
        /\ ~ haunted' => past' = IF mode # "mounted" THEN past
                                 ELSE IF stable' = fs.disk THEN {View(fs)}
                                 ELSE past \cup {View(fs)}
    <2>1. haunted' <=> haunted
      BY <1>1 DEF Observe, Remounted
    <2> QED
      BY <1>1, <2>1 DEF Observe
  <1>3. Readable(stable) /\ Readable(fs.disk)
    BY DEF GInv
  <1>4. \A c \in Block : stable'[c] = IF c = b THEN fs.disk[c] ELSE stable[c]
    BY <1>1, <1>3 DEF Readable
  <1>5. Blank(fs'.disk) /\ Blank(stable')
    BY <1>1, <1>4 DEF XInv, Blank
  <1>6. ASSUME ~ haunted
        PROVE  Foreseen(fs'.disk, stable', past')
    <2>1. Foreseen(fs.disk, stable, past)
      BY <1>6 DEF XInv
    <2>3. \A k : MayEnd(fs.disk, stable', k) => MayEnd(fs.disk, stable, k)
      BY <1>4 DEF MayEnd, Valid
    <2>4. ASSUME NEW views, past \subseteq views
          PROVE  Foreseen(fs.disk, stable', views)
      BY <2>1, <2>3, <2>4, ForeseenLess
    <2>5. CASE mode = "mounted" /\ stable' = fs.disk
      <3>1. past' = {View(fs)}
        BY <1>2, <1>6, <2>5
      <3>2. Author(fs, fs.disk) /\ Blank(fs.disk)
        BY <1>6, <2>5, MountedAuthor DEF XInv, Unwrapped
      <3>3. \A k \in 0 .. LastBlock : ~ (k + 1 \in Valid(fs.disk) /\ MayEnd(fs.disk, stable', k))
        BY <2>5 DEF MayEnd
      <3>4. Foreseen(fs.disk, stable', past')
        BY <1>3, <3>1, <3>2, <3>3, ForeseenOn
      <3> QED
        BY <1>1, <3>4
    <2>6. CASE ~ (mode = "mounted" /\ stable' = fs.disk)
      <3>1. past \subseteq past'
        BY <1>2, <1>6, <2>6
      <3> QED
        BY <1>1, <2>4, <3>1
    <2> QED
      BY <2>5, <2>6
  <1>7. ASSUME ~ haunted, mode = "mounted" PROVE RInv' /\ NInv' /\ HInv'
    BY <1>1, <1>7, StillMounted DEF XInv, vars
  <1>8. Log' = Log
    BY <1>1 DEF Log
  <1> QED
    BY <1>1, <1>2, <1>5, <1>6, <1>7, <1>8 DEF XInv

\* A loss of power leaves one of the logs that were foreseen.
LEMMA PowerXInv ==
    ASSUME GInv, XInv, PowerLoss
    PROVE  XInv'
  <1>1. /\ fs' = Fresh(stable) /\ fs'.disk = stable /\ mode' = "down" /\ todo' = {}
        /\ haunted' = (haunted \/ Revived) /\ UNCHANGED <<stable, past>>
    BY DEF PowerLoss, Fresh
  <1>2. Blank(stable) /\ Readable(stable)
    BY DEF XInv, GInv
  <1>3. ASSUME ~ haunted, ~ Revived
        PROVE  Foreseen(stable, stable, past)
    <2>1. Foreseen(fs.disk, stable, past)
      BY <1>3 DEF XInv
    <2>2. ASSUME NEW k \in 0 .. LastBlock, MayEnd(stable, stable, k)
          PROVE  MayEnd(fs.disk, stable, k) /\ Only(stable, 1 .. k) = Only(fs.disk, 1 .. k)
      <3>1. 1 .. k \subseteq Valid(stable) /\ k + 1 \notin Valid(stable)
        BY <2>2 DEF MayEnd
      <3>2. Scanned(stable) = 1 .. k
        BY <1>2, <3>1, OnlyScanned
      <3>3. \A b \in 1 .. k : b \in Valid(fs.disk) /\ stable[b] = fs.disk[b]
        BY <1>3, <3>1, <3>2 DEF Revived, Valid
      <3> QED
        BY <3>1, <3>3 DEF MayEnd, Only
    <2> QED
      BY <2>1, <2>2, ForeseenLess
  <1> QED
    BY <1>1, <1>2, <1>3 DEF XInv

-----------------------------------------------------------------------------
(* Formatting. *)

\* The records of an empty container were written by a process that wrote none.
LEMMA BlankAuthor ==
    ASSUME NEW disk, disk = [b \in Block |-> NoRecord]
    PROVE  Author(Fresh(disk), disk)
  <1> DEFINE m == Fresh(disk)
  <1>1. /\ m.nodes = {} /\ m.disk = disk /\ m.next_node_id = 1
        /\ \A b \in Block : m.blocks[b] = NoRow /\ disk[b].op = "INVALID"
    BY DEF Fresh, NoRecord
  <1>2. DiskSound(disk) /\ CutsToSizes(disk) /\ Valid(disk) = {}
    <2>1. NoRecord \in DiskRecord
      BY DEF NoRecord, DiskRecord
    <2>2. disk \in [Block -> DiskRecord]
      BY <2>1
    <2> QED
      BY <1>1, <2>2 DEF DiskSound, CutsToSizes, Valid, EntryOp
  <1>3. Replayed(m, disk, {})
    BY <1>2, ReplayedFirst
  <1> HIDE DEF m
  <1>4. Replaying(m, {}) /\ Settled(m) /\ Recoverable(m) /\ Exact(m)
    BY <1>3 DEF Replayed
  <1>5. Sound(m)
    BY <1>4, ReplayedSound
  <1>6. Faithful(m)
    <2>1. Orderly(m.disk) /\ Live(m) /\ Sourced(m) /\ Sure(m) = {}
      BY <1>1 DEF Orderly, Live, Sourced, Sure, NoRow
    <2>2. Tree({})
      BY DEF Tree, Apart, Ringless, Dirs
    <2> QED
      BY <1>4, <2>1, <2>2 DEF Faithful
  <1>7. Rooted(m, {})
    <2>1. Entries(m.disk) = {}
      BY <1>1 DEF Entries, EntryOp
    <2> QED
      BY <1>1, <2>1 DEF Rooted, Family, Unique, Root
  <1> QED
    BY <1>1, <1>4, <1>5, <1>6, <1>7 DEF Author, m

\* An empty machine looks the same whatever lies in its container.
LEMMA FreshView ==
    ASSUME NEW disk, NEW other
    PROVE  View(Fresh(disk)) = View(Fresh(other))
  <1>1. Logged(Fresh(disk)) = {} /\ Logged(Fresh(other)) = {}
    BY DEF Logged, Fresh
  <1> QED
    BY <1>1 DEF View, Fresh

\* Of a container whose first block is empty a mount shows an empty file system.
LEMMA BlankForeseen ==
    ASSUME NEW disk, 1 \notin Valid(disk), NEW old, NEW views,
           NEW other, View(Fresh(other)) \in views
    PROVE  Foreseen(disk, old, views)
  <1> SUFFICES ASSUME NEW k \in 0 .. LastBlock, MayEnd(disk, old, k)
               PROVE  Shown(Only(disk, 1 .. k), views)
    BY DEF Foreseen
  <1> DEFINE blank == [b \in Block |-> NoRecord]
  <1>1. 1 .. k = {}
    BY LastBlockAssumption DEF MayEnd
  <1>2. Only(disk, 1 .. k) = blank
    BY <1>1 DEF Only
  <1>3. Author(Fresh(blank), blank)
    BY BlankAuthor
  <1> HIDE DEF blank
  <1>4. View(Fresh(blank)) \in views
    BY FreshView
  <1> QED
    BY <1>2, <1>3, <1>4 DEF Shown

\* What a formatted container starts with.
LEMMA StartXInv ==
    ASSUME GInv, Init, Blank(stable), past = {View(fs)}
    PROVE  XInv
  <1>1. RInv /\ NInv /\ HInv
    BY InitRInv, InitNInv, InitHInv
  <1>2. /\ fs = Fresh(fs.disk) /\ \A b \in Block : fs.disk[b] = NoRecord
        /\ mode = "mounted" /\ todo = {}
    BY DEF Init, Fresh
  <1>3. Blank(fs.disk)
    BY <1>2 DEF Blank
  <1>4. 1 \notin Valid(fs.disk)
    BY <1>2 DEF Valid, NoRecord
  <1>5. View(Fresh(fs.disk)) \in past
    BY <1>2
  <1>6. Foreseen(fs.disk, stable, past)
    BY <1>4, <1>5, BlankForeseen
  <1> QED
    BY <1>1, <1>2, <1>3, <1>6 DEF XInv

\* Formatting, until the last block is cleared.
LEMMA FormatXInv ==
    ASSUME GInv, GInv', XInv, BeginFormat \/ FormatBlock
    PROVE  XInv' \/ (Init /\ Blank(stable) /\ past = {View(fs)})'
  <1>1. CASE BeginFormat
    <2>1. /\ mode = "down" /\ mode' = "formatting"
          /\ past' = past \cup {View(Fresh(fs.disk))}
          /\ UNCHANGED <<fs, job, todo, stable, haunted>>
      BY <1>1 DEF BeginFormat
    <2>2. ~ haunted => Foreseen(fs'.disk, stable', past')
      BY <2>1 DEF XInv, Foreseen, Shown
    <2>3. View(Fresh(fs'.disk)) \in past'
      BY <2>1
    <2> QED
      BY <2>1, <2>2, <2>3 DEF XInv
  <1>2. CASE FormatBlock
    <2> DEFINE disk == [fs.disk EXCEPT ![cursor] = NoRecord]
    <2>1. /\ mode = "formatting" /\ fs' = [fs EXCEPT !.disk = disk]
          /\ mode' = IF cursor = LastBlock THEN "mounted" ELSE mode
          /\ cursor' = IF cursor = LastBlock THEN 1 ELSE cursor + 1
          /\ haunted' = (cursor # LastBlock /\ haunted)
          /\ past' = IF mode' = "mounted" THEN {View(fs')} ELSE past
          /\ Cached /\ UNCHANGED <<job, todo>>
      BY <1>2 DEF FormatBlock
    <2>2. /\ fs = Fresh(fs.disk) /\ Blank(stable) /\ todo = {} /\ job = NoJob
          /\ Blank(fs.disk) /\ cursor \in Block /\ fs.disk \in [Block -> DiskRecord]
          /\ ~ haunted => View(Fresh(fs.disk)) \in past
      BY <2>1 DEF XInv, GInv, Readable
    <2>3. \A b \in Block : disk[b] = IF b = cursor THEN NoRecord ELSE fs.disk[b]
      BY <2>2
    <2>4. Blank(disk)
      BY <2>2, <2>3 DEF Blank
    <2>5. disk = [b \in Block |-> disk[b]]
      BY <2>2
    <2> HIDE DEF disk
    <2>6. fs' = Fresh(disk) /\ fs'.disk = disk
      BY <2>1, <2>2 DEF Fresh
    <2>6a. Blank(stable')
      BY <2>1, <2>2, <2>4, <2>6 DEF Cached
    <2>7. CASE cursor = LastBlock
      <3>1. mode' = "mounted" /\ past' = {View(fs')} /\ ~ haunted'
        BY <2>1, <2>7
      <3>2. Valid(disk) = {}
        <4>1. Valid(disk) = 1 .. 0
          BY <2>6, <3>1 DEF GInv, Frontier, Fresh
        <4> QED
          BY <4>1
      <3>3. \A b \in Block : disk[b] = NoRecord
        BY <2>4, <3>2 DEF Blank, Valid
      <3>4. disk = [b \in Block |-> NoRecord]
        BY <2>5, <3>3
      <3> QED
        BY <2>1, <2>2, <2>6, <2>6a, <3>1, <3>4 DEF Init
    <2>8. CASE cursor # LastBlock
      <3>1. mode' = "formatting" /\ past' = past /\ (haunted' <=> haunted) /\ cursor' = cursor + 1
        BY <2>1, <2>8
      <3>2. ~ haunted' => View(Fresh(disk)) \in past'
        BY <2>2, <3>1, FreshView
      <3>3. 1 \notin Valid(disk)
        <4>1. cursor' \in Nat /\ 1 < cursor'
          BY <2>2, <3>1 DEF Block
        <4> QED
          BY <2>6, <3>1, <4>1, LastBlockAssumption DEF GInv, Valid, Block
      <3>4. ~ haunted' => Foreseen(disk, stable', past')
        BY <3>2, <3>3, BlankForeseen
      <3> QED
        BY <2>1, <2>2, <2>4, <2>6, <2>6a, <3>1, <3>2, <3>4 DEF XInv
    <2> QED
      BY <2>7, <2>8
  <1> QED
    BY <1>1, <1>2

-----------------------------------------------------------------------------
(* The theorem. *)

\* Every other step keeps the invariant.
LEMMA StepXInv ==
    ASSUME GInv, GInv', XInv, Unwrapped, Unwrapped', [CNext]_cvars,
           ~ (BeginFormat \/ FormatBlock)
    PROVE  XInv'
  <1>1. CASE Works
    <2>1. CASE Load
      BY <1>1, <2>1, MountedXInv, RecordXInv DEF Load
    <2> QED
      BY <1>1, <2>1, CallXInv, StopXInv, MountXInv DEF Works
  <1>2. CASE Sync \/ PowerLoss \/ \E b \in Block : Writeback(b)
    BY <1>2, SyncXInv, PowerXInv, WritebackXInv
  <1>3. CASE UNCHANGED cvars
    <2>1. /\ UNCHANGED <<fs, mode, todo, stable, past, haunted>> /\ UNCHANGED vars
      BY <1>3 DEF cvars, vars
    <2>2. Log' = Log
      BY <2>1 DEF Log
    <2>3. mode = "mounted" /\ ~ haunted => RInv' /\ NInv' /\ HInv'
      BY <2>1, StillMounted DEF XInv
    <2> QED
      BY <2>1, <2>2, <2>3 DEF XInv
  <1> QED
    BY <1>1, <1>2, <1>3 DEF CNext

\* As long as no record is overwritten, power losses that keep any of the unsynced
\* blocks and interrupted formattings leave the invariant.
THEOREM LossInvariant == CSpec /\ []Unwrapped => [](GInv /\ XInv)
  <1>1. CInit => GInv
    BY InitGInv
  <1>2. GInv /\ [CNext]_cvars => GInv'
    BY StepGInv
  <1>3. CInit => XInv
    <2> SUFFICES ASSUME CInit PROVE XInv
      OBVIOUS
    <2>1. Blank(stable)
      BY DEF CInit, Init, Fresh, Blank
    <2> QED
      BY <2>1, InitGInv, StartXInv DEF CInit
  <1>4. GInv /\ Init /\ Blank(stable) /\ past = {View(fs)} => XInv
    BY StartXInv
  <1>5. GInv /\ GInv' /\ XInv /\ Unwrapped /\ Unwrapped' /\ [CNext]_cvars =>
            XInv' \/ (Init /\ Blank(stable) /\ past = {View(fs)})'
    BY StepXInv, FormatXInv
  <1> QED
    BY <1>1, <1>2, <1>3, <1>4, <1>5, PTL DEF CSpec

\* A mount after a power loss shows the file system as it was after one of the records
\* written since the last sync, and after an interrupted formatting the old one or none.
THEOREM PrefixRecovered == CSpec /\ []Unwrapped => PrefixRecovery
  <1>1. ASSUME GInv, XInv, [CNext]_cvars, Remounted, ~ haunted
        PROVE  View(fs') \in past
    <2>1. mode = "loading" /\ mode' = "mounted"
      BY <1>1 DEF Remounted
    <2>2. Mounted
      BY <1>1, <2>1 DEF CNext, cvars, Works, Sync, Begin, PowerLoss, BeginFormat, FormatBlock,
         Writeback, Call, SetFile, SetDir, SetTime, DelNode, SetLink, MoveNode, DelData, SetData,
         Finish, FinishLink, FinishMove, WriteChunk, Load, LoadRecord, Stop, Mount
    <2> QED
      BY <1>1, <2>2, MountShows DEF Mounted
  <1>2. GInv /\ XInv /\ [CNext]_cvars => [Remounted /\ ~haunted => View(fs') \in past]_cvars
    BY <1>1
  <1> QED
    BY <1>2, LossInvariant, PTL DEF CSpec, PrefixRecovery

\* And it does mount: no power loss leaves a log that oncefs_mount refuses.
THEOREM LossMounts == CSpec /\ []Unwrapped => [](~ haunted => mode # "failed")
  <1>1. XInv => (~ haunted => mode # "failed")
    BY DEF XInv
  <1> QED
    BY <1>1, LossInvariant, PTL
=============================================================================
