----------------------------- MODULE OnceFSData ------------------------------
(***************************************************************************)
(* The contents of files.  A file is stored as overlapping DATA records;  *)
(* oncefs_get_data merges them when it reads, oncefs_get_node computes a  *)
(* size from one of them.  Here both are compared with a plain array of    *)
(* bytes per file, `ideal`, that every write and truncation updates        *)
(* directly.  `ideal` is an observer and constrains nothing; it outlives   *)
(* the process.                                                            *)
(*                                                                         *)
(* A byte is known by the sequence number of the record that wrote it.     *)
(***************************************************************************)
EXTENDS OnceFSRecovery, FiniteSetsExt

ASSUME ReachAssumption == Extents # {} /\ IsFiniteSet(Extents)

VARIABLE ideal

dvars == <<fs, mode, job, todo, saved, ideal>>

\* Positions from Reach on are never written.
Reach == Max({x[1] + x[2] : x \in Extents})

Empty == [p \in 0 .. Reach - 1 |-> 0]

-----------------------------------------------------------------------------
(* Reading. *)

Smaller(x, y) == IF x < y THEN x ELSE y

\* Mutant: the window is not widened by the size of a block.
Window_Narrow(m, node, size, offset) ==
    {b \in Rows(m, "DATA") : LET row == m.blocks[b] IN
        /\ row.node = node
        /\ row.offset <= offset + size
        /\ offset <= row.offset + size}

\* The rows that may hold bytes of the request (_filter of _oncefs_get_data).
Window(m, node, size, offset) ==
    {b \in Rows(m, "DATA") : LET row == m.blocks[b] IN
        /\ row.node = node
        /\ row.offset <= offset + size + Payload
        /\ offset <= row.offset + size + Payload}

\* The bytes of the request that a row holds.
Overlap(row, size, offset) ==
    Larger(row.offset, offset) .. Smaller(row.offset + row.fill, offset + size) - 1

\* What _callback makes of a row for the count of bytes: skip + amount.
Claim(row, size, offset) ==
    LET skip   == IF row.offset < offset THEN offset - row.offset ELSE 0
        amount == Cardinality(Overlap(row, size, offset))
    IN  skip + amount

\* _oncefs_get_data: the bytes it puts into the buffer, and its count of them.
\* The rows are copied in the order of their sequence numbers, so the youngest
\* stays; the rest of the buffer is not touched.
ReadChunk(m, node, size, offset) ==
    LET hits  == {b \in Window(m, node, size, offset) :
                     Overlap(m.blocks[b], size, offset) # {}}
        bytes == UNION {Overlap(m.blocks[b], size, offset) : b \in hits}
        Seqs(p) == {m.blocks[b].seq : b \in {c \in hits : p \in Overlap(m.blocks[c], size, offset)}}
    IN  [bytes |-> [p \in bytes |-> Max(Seqs(p))],
         fill  |-> IF hits = {} THEN 0
                   ELSE Max({Claim(m.blocks[b], size, offset) : b \in hits})]

\* The buffer after a later read has put its bytes over those of an earlier one.
Onto(later, earlier) ==
    [p \in DOMAIN later \cup DOMAIN earlier |->
        IF p \in DOMAIN later THEN later[p] ELSE earlier[p]]

\* oncefs_get_data: the loop over blocks, until nothing more is read.
GetData(m, node, size, offset) ==
    LET loop[total \in 0 .. size + Payload] ==
            LET limit == IF size - total > Payload THEN Payload ELSE size - total
                chunk == ReadChunk(m, node, limit, offset + total)
            IN  IF total >= size \/ chunk.fill = 0 THEN [total |-> total, bytes |-> <<>>]
                ELSE LET rest == loop[total + chunk.fill]
                     IN  [rest EXCEPT !.bytes = Onto(@, chunk.bytes)]
    IN  loop[0]

DataRows(m, node) == {b \in Rows(m, "DATA") : m.blocks[b].node = node}

\* Mutant: the size takes the last block for a full one.
GetSize_FullBlock(m, node) ==
    LET last == {b \in DataRows(m, node) : \A c \in DataRows(m, node) : Before(m, c, b)}
    IN  IF last = {} THEN 0
        ELSE LET row == m.blocks[CHOOSE b \in last : TRUE] IN row.offset + Payload

\* The size oncefs_get_node reports: the end of the last row in index order.
GetSize(m, node) ==
    LET last == {b \in DataRows(m, node) : \A c \in DataRows(m, node) : Before(m, c, b)}
    IN  IF last = {} THEN 0
        ELSE LET row == m.blocks[CHOOSE b \in last : TRUE] IN row.offset + row.fill

-----------------------------------------------------------------------------
(* The observer. *)

\* A file that comes into being is empty; nothing else happens to contents.
Namespace ==
    /\ \/ \E path \in Paths : \/ SetFile(path) \/ SetDir(path)
                              \/ SetTime(path) \/ DelNode(path)
       \/ \E path \in Paths, target \in Names : SetLink(path, target)
       \/ \E from, to \in Paths : MoveNode(from, to)
       \/ FinishLink \/ FinishMove
    /\ ideal' = [n \in DOMAIN ideal |->
                    IF \E x \in fs'.nodes \ fs.nodes : x.node = n /\ n \notin FileIds
                    THEN Empty ELSE ideal[n]]

Cutting ==
    \E node \in FileIds, size \in Sizes :
        /\ DelData(node, size)
        /\ ideal' = [ideal EXCEPT ![node] =
                        [p \in DOMAIN @ |-> IF p < size THEN @[p] ELSE 0]]

Storing ==
    /\ WriteChunk
    /\ LET amount == Smaller(job.size, Payload)
           wrote  == job.offset .. job.offset + amount - 1
       IN  ideal' = IF fs'.r # "OK" THEN ideal
                    ELSE [ideal EXCEPT ![job.node] =
                             [p \in DOMAIN @ |-> IF p \in wrote THEN fs.next_seq_id ELSE @[p]]]

DataInit == RecInit /\ ideal = [n \in 1 .. MaxNode |-> Empty]

Others ==
    /\ \/ \E node \in FileIds, x \in Extents : SetData(node, x[1], x[2])
       \/ Stop \/ Mount \/ Load
    /\ UNCHANGED ideal

DataNext == (Namespace \/ Cutting \/ Storing \/ Others) /\ Saves

DataSpec == DataInit /\ [][DataNext]_dvars

-----------------------------------------------------------------------------
(* Properties. *)

Stored(node) == {p \in DOMAIN ideal[node] : ideal[node][p] # 0}

\* Every byte a read delivers is the one written last at its position, and a
\* read delivers every byte up to the first that was never written or was cut
\* off.  A file that was just created has none, whoever had its number before.
ReadsBack ==
    mode = "mounted" =>
        \A node \in FileIds, offset \in 0 .. Reach - 1 : \A size \in 1 .. Reach - offset :
            LET read == GetData(fs, node, size, offset)
                got  == read.bytes
                asked == offset .. offset + size - 1
            IN  /\ \A p \in DOMAIN got : p \in Stored(node) /\ got[p] = ideal[node][p]
                /\ \A p \in asked : offset .. p \subseteq Stored(node) => p \in DOMAIN got

\* The size of a file never promises more than was written: its last byte is
\* there to be read.
SizeWithin ==
    mode = "mounted" =>
        \A node \in FileIds : GetSize(fs, node) > 0 => GetSize(fs, node) - 1 \in Stored(node)

-----------------------------------------------------------------------------
(* What the repository says and the code does not do. *)

\* A read of bytes that are all there counts those it was asked for (test.c:
\* "if (amount != size)").
CountsExactly ==
    mode = "mounted" =>
        \A node \in FileIds, offset \in 0 .. Reach - 1 : \A size \in 1 .. Reach - offset :
            offset .. offset + size - 1 \subseteq Stored(node) =>
                GetData(fs, node, size, offset).total = size
=============================================================================
