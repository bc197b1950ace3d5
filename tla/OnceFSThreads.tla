---------------------------- MODULE OnceFSThreads -----------------------------
(***************************************************************************)
(* The FUSE threads.  fuse_main starts several unless it is told -s, and  *)
(* their handlers share one oncefs_t without a lock.  Here creating a file *)
(* (do_create) and writing to one (do_write) are cut at the accesses of    *)
(* _oncefs_create_block to the shared counters, at the change of the block *)
(* table and at the write of the record.                                   *)
(*                                                                         *)
(* The kernel lets one thread at a time write to a file or add to a        *)
(* directory.  The tables change in one step: their own races are left     *)
(* out.  A counter is read once per use and written back, as -O3 compiles  *)
(* it.  The process may end between any two steps.                         *)
(***************************************************************************)
EXTENDS OnceFS

CONSTANT Threads

VARIABLES
    thread,     \* the local state of the handler each thread runs
    before,     \* observer: the machine before the block under way
    acked       \* observer: the records of the operations that returned 0

tvars == <<fs, mode, job, todo, thread, before, acked>>

Idle == [pc |-> "idle", op |-> "DATA", node |-> 0, offset |-> 0, size |-> 0,
         block |-> 0, seq |-> 0, entry |-> NoEntry]

\* The bytes of the record that a handler is about to write.
Amount(me) == IF me.size > Payload THEN Payload ELSE me.size

Goto(t, pc) == thread' = [thread EXCEPT ![t].pc = pc]

TInit ==
    /\ Init
    /\ thread = [t \in Threads |-> Idle]
    /\ before = fs
    /\ acked = {}

Starts(t, call) == Begin(call) /\ thread[t].pc = "idle" /\ UNCHANGED <<job, acked>>

\* do_create: the row of oncefs_set_file enters the table, then a block is asked
\* for.
StartCreate(t, path) ==
    /\ Starts(t, "set_file")
    /\ \A u \in Threads : thread[u].op = "NODE" => thread[u].pc = "idle"
    /\ \E now \in Times :
         LET new == InitNode(fs, path, "FILE", now)
         IN  IF new.r # "OK" THEN fs' = Return(fs, new.r) /\ before' = fs' /\ UNCHANGED thread
             ELSE /\ fs' = [fs EXCEPT !.nodes = InsertOrReplace(@, new.row), !.next_node_id = @ + 1]
                  /\ thread' = [thread EXCEPT ![t] = [Idle EXCEPT
                                  !.pc = "grant", !.op = "NODE", !.node = new.row.node,
                                  !.entry = new.row]]
                  /\ before' = fs

\* do_write: the loop of oncefs_set_data begins.
StartWrite(t, node, offset, size) ==
    /\ Starts(t, "set_data")
    /\ \A u \in Threads : thread[u].node = node => thread[u].pc = "idle"
    /\ thread' = [thread EXCEPT ![t] = [Idle EXCEPT
                     !.pc = "grant", !.node = node, !.offset = offset, !.size = size]]
    /\ before' = fs
    /\ UNCHANGED fs

-----------------------------------------------------------------------------
(* _oncefs_create_block. *)

Stands(t, pc) == mode = "mounted" /\ thread[t].pc = pc /\ UNCHANGED <<mode, job, todo, acked>>

\* next_block_id is read; past the last block, a block is reused.
Grant(t) ==
    /\ Stands(t, "grant")
    /\ LET granted == Grants(fs, thread[t].node)
       IN  IF granted = {}
           THEN /\ fs' = Return(fs, "ENOSPC")
                /\ thread' = [thread EXCEPT ![t] = Idle]
                /\ before' = fs'
           ELSE /\ thread' = [thread EXCEPT
                     ![t].block = CHOOSE b \in granted : TRUE,
                     ![t].pc = IF fs.next_block_id <= LastBlock THEN "advance" ELSE "number"]
                /\ UNCHANGED <<fs, before>>

\* Mutant: the counter is not advanced.
Advance_Not(t) == Stands(t, "advance") /\ Goto(t, "number") /\ UNCHANGED <<fs, before>>

Advance(t) ==
    /\ Stands(t, "advance")
    /\ fs' = [fs EXCEPT !.next_block_id = thread[t].block + 1]
    /\ Goto(t, "number")
    /\ UNCHANGED before

Number(t) ==
    /\ Stands(t, "number")
    /\ thread' = [thread EXCEPT ![t].seq = fs.next_seq_id, ![t].pc = "renumber"]
    /\ UNCHANGED <<fs, before>>

Renumber(t) ==
    /\ Stands(t, "renumber")
    /\ fs' = [fs EXCEPT !.next_seq_id = thread[t].seq + 1]
    /\ Goto(t, "enter")
    /\ UNCHANGED before

\* _oncefs_init_block, and the row enters the block table.
Enter(t) ==
    /\ Stands(t, "enter")
    /\ LET me == thread[t]
       IN  fs' = [fs EXCEPT
                    !.blocks[me.block] = [op |-> me.op, seq |-> me.seq, node |-> me.node,
                                          fill |-> Amount(me), offset |-> me.offset],
                    !.next_node_id = Larger(@, me.node + 1)]
    /\ Goto(t, "record")
    /\ UNCHANGED before

\* Mutant: a write of several blocks stores all of them at the first offset.
Record_SameOffset(t) ==
    LET me  == thread[t]
        rec == [op |-> me.op, seq |-> me.seq, node |-> me.node, fill |-> Amount(me),
                offset |-> me.offset, entry |-> me.entry]
    IN  /\ mode = "mounted" /\ me.pc = "record"
        /\ fs' = [fs EXCEPT !.disk[me.block] = rec, !.r = "OK"]
        /\ thread' = [thread EXCEPT ![t] =
                         IF me.size > Amount(me)
                         THEN [me EXCEPT !.size = @ - Amount(me), !.pc = "grant"]
                         ELSE Idle]
        /\ before' = fs'
        /\ acked' = acked \cup {rec}
        /\ UNCHANGED <<mode, job, todo>>

\* io_write of the record; then the next block of the data, or the return.
Record(t) ==
    LET me  == thread[t]
        rec == [op |-> me.op, seq |-> me.seq, node |-> me.node, fill |-> Amount(me),
                offset |-> me.offset, entry |-> me.entry]
    IN  /\ mode = "mounted" /\ me.pc = "record"
        /\ fs' = [fs EXCEPT !.disk[me.block] = rec, !.r = "OK"]
        /\ thread' = [thread EXCEPT ![t] =
                         IF me.size > Amount(me)
                         THEN [me EXCEPT !.offset = @ + Amount(me), !.size = @ - Amount(me), !.pc = "grant"]
                         ELSE Idle]
        /\ before' = fs'
        /\ acked' = acked \cup {rec}
        /\ UNCHANGED <<mode, job, todo>>

-----------------------------------------------------------------------------
Start(t) ==
    \/ \E path \in Paths : StartCreate(t, path)
    \/ \E node \in FileIds, x \in Extents : StartWrite(t, node, x[1], x[2])

Serve(t) == Grant(t) \/ Advance(t) \/ Number(t) \/ Renumber(t) \/ Enter(t) \/ Record(t)

Process ==
    \/ Stop /\ thread' = [t \in Threads |-> Idle]
    \/ (Mount \/ Load) /\ UNCHANGED thread

TNext ==
    \/ \E t \in Threads : Start(t) \/ Serve(t)
    \/ Process /\ before' = fs' /\ UNCHANGED acked

TSpec == TInit /\ [][TNext]_tvars

-----------------------------------------------------------------------------
(* Properties. *)

\* As long as the last block was never written, none was ever reused: then the
\* record of every operation that returned 0 is in the log (README: every create
\* and update is written as a new log entry).
EveryCallLogged ==
    fs.disk[LastBlock] = NoRecord => \A rec \in acked : \E b \in Block : fs.disk[b] = rec

Only == CHOOSE t \in Threads : TRUE

\* What a write under way still has to store, as a job of OnceFS.
Rest(me) ==
    IF me.pc # "idle" /\ me.op = "DATA"
    THEN [kind |-> "data", node |-> me.node, offset |-> me.offset, size |-> me.size]
    ELSE NoJob

\* One thread: the machine as OnceFS sees it, with the block under way not yet
\* asked for.
Whole == INSTANCE OnceFS WITH fs <- before, job <- Rest(thread[Only])

\* With one thread, the steps add up to the actions of OnceFS, wherever the
\* process ends: OnceFS may treat a call that writes one record as one action.
ImplementsOnceFS == Whole!Spec
=============================================================================
