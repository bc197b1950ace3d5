---------------------------- MODULE OnceFSHandles -----------------------------
(***************************************************************************)
(* The handlers of fuse.c over OnceFS, one at a time (fuse -s).  An open  *)
(* file is a handle, `fi->fh`, that holds a node id and nothing else;      *)
(* oncefs_set_data asks no further question about it.  That the id still   *)
(* names the file rests on libfuse (external).  libfuse keeps names of its *)
(* own and counts opens by name: a file that is open is not removed but    *)
(* renamed to a hidden name, and removed when its last handle is released. *)
(* A rename changes libfuse's name only when the handler has succeeded.    *)
(*                                                                         *)
(* Paths here are in the root directory.                                   *)
(***************************************************************************)
EXTENDS OnceFS

CONSTANTS
    Handle,     \* the files a process may have open at once
    Hidden      \* the names libfuse gives to open files that were removed

\* The names libfuse hides a file under are paths in the root directory.
ASSUME HiddenAssumption == Hidden \subseteq Names /\ {<<n>> : n \in Hidden} \subseteq Paths

ASSUME FlatAssumption == \A path \in Paths : Len(path) = 1

\* do_open truncates to size 0.
ASSUME OpenAssumption == 0 \in Sizes

VARIABLES
    fh,         \* the node id of each handle, 0 when it is not open
    opened,     \* the path under which libfuse counts it as open
    onto,       \* the rename that libfuse has in hand
    adrift      \* observer: the handles whose file a refused rename has moved

held == <<fh, opened, adrift>>

hvars == <<fs, mode, job, todo, onto, held>>

Closed == <<>>

NoRename == <<>>

HInit ==
    /\ Init
    /\ fh = [h \in Handle |-> 0] /\ opened = [h \in Handle |-> Closed] /\ adrift = {}
    /\ onto = NoRename

\* A handler runs to its end before the next one starts.
Handler == onto = NoRename /\ UNCHANGED onto

Visible == {p \in Paths : Basename(p) \notin Hidden}

At(path) == Resolve(fs.nodes, path)

\* libfuse's is_open: it asks its own names, not OnceFS.
IsOpen(path) == \E h \in Handle : opened[h] = path

\* The handler's result is that of its last call; a handle is set on success.
Opens(h, path, node) ==
    /\ fh' = IF fs'.r = "OK" THEN [fh EXCEPT ![h] = node] ELSE fh
    /\ opened' = IF fs'.r = "OK" THEN [opened EXCEPT ![h] = path] ELSE opened
    /\ UNCHANGED adrift

\* libfuse's rename_node, once the handler has succeeded.  A rename refused for
\* lack of space has moved the row nevertheless.
Renames(from, to) ==
    LET known == {h \in Handle : opened[h] = from}
    IN  /\ opened' = IF fs'.r = "OK" /\ job' = NoJob
                     THEN [h \in Handle |-> IF h \in known THEN to ELSE opened[h]]
                     ELSE opened
        /\ adrift' = IF fs'.r = "ENOSPC" THEN adrift \cup known ELSE adrift
        /\ UNCHANGED fh

-----------------------------------------------------------------------------
(* do_open and do_create. *)

Answers(r) ==
    /\ mode = "mounted" /\ job = NoJob
    /\ fs' = Return(fs, r)
    /\ UNCHANGED <<mode, job, todo>>

OpenToRead(h, path) ==
    /\ Handler
    /\ Answers(IF At(path).r = "OK" /\ At(path).row.type # "FILE" THEN "EINVAL" ELSE At(path).r)
    /\ Opens(h, path, At(path).row.node)

\* O_CREAT: the node id is fetched after the create.
OpenNew(h, path) ==
    /\ Handler
    /\ At(path).r = "ENOENT"
    /\ SetFile(path)
    /\ Opens(h, path, Resolve(fs'.nodes, path).row.node)

\* O_APPEND: the file is left as it is.
OpenToAppend(h, path) ==
    /\ Handler
    /\ At(path).r = "OK"
    /\ Answers(IF At(path).row.type # "FILE" THEN "EINVAL" ELSE "OK")
    /\ Opens(h, path, At(path).row.node)

\* Without O_APPEND the data is deleted, whoever else has the file open.
OpenToWrite(h, path) ==
    /\ Handler
    /\ At(path).r = "OK" /\ At(path).row.type = "FILE"
    /\ DelData(At(path).row.node, 0)
    /\ Opens(h, path, At(path).row.node)

Open(h, path) ==
    /\ fh[h] = 0
    /\ OpenToRead(h, path) \/ OpenNew(h, path) \/ OpenToAppend(h, path) \/ OpenToWrite(h, path)

-----------------------------------------------------------------------------
(* Handlers of an open file: only the id is passed on. *)

DoWrite(h, offset, size) ==
    Handler /\ fh[h] # 0 /\ SetData(fh[h], offset, size) /\ UNCHANGED held

DoTruncate(h, size) ==
    Handler /\ fh[h] # 0 /\ DelData(fh[h], size) /\ UNCHANGED held

\* libfuse removes the hidden file after its last handle.
Release(h) ==
    /\ Handler
    /\ mode = "mounted" /\ job = NoJob
    /\ fh[h] # 0
    /\ fh' = [fh EXCEPT ![h] = 0]
    /\ opened' = [opened EXCEPT ![h] = Closed]
    /\ adrift' = adrift \ {h}
    /\ IF Basename(opened[h]) \in Hidden /\ \A g \in Handle \ {h} : opened[g] # opened[h]
       THEN fs' = Delete(fs, opened[h])
       ELSE UNCHANGED fs
    /\ UNCHANGED <<mode, job, todo>>

-----------------------------------------------------------------------------
(* Handlers of names. *)

\* libfuse's hide_node: a rename, within do_rename, to a name not in use.
Hide(path) ==
    \E name \in Hidden : /\ At(<<name>>).r = "ENOENT" /\ ~ IsOpen(<<name>>)
                         /\ MoveNode(path, <<name>>)
                         /\ Renames(path, <<name>>)

\* Mutant: do_init asks libfuse for hard_remove.
DoUnlink_Hard(path) ==
    Handler /\ At(path).row.type # "DIR" /\ DelNode(path) /\ UNCHANGED held

DoUnlink(path) ==
    /\ Handler
    /\ At(path).row.type # "DIR"
    /\ IF IsOpen(path) THEN Hide(path) ELSE DelNode(path) /\ UNCHANGED held

DoRmdir(path) ==
    Handler /\ At(path).row.type = "DIR" /\ DelNode(path) /\ UNCHANGED held

DoMkdir(path) == Handler /\ SetDir(path) /\ UNCHANGED held

\* The part of a rename that OnceFS does; a file in the way takes a second step.
Passed(from, to) ==
    /\ MoveNode(from, to)
    /\ Renames(from, to)
    /\ onto' = IF job' = NoJob THEN NoRename ELSE <<from, to>>

DoRename(from, to) ==
    /\ onto = NoRename
    /\ IF IsOpen(to)
       THEN Hide(to) /\ onto' = IF fs'.r = "OK" THEN <<from, to>> ELSE NoRename
       ELSE Passed(from, to)

\* The rename itself, once the open file is out of its way.
DoRenameOnto == onto # NoRename /\ Passed(onto[1], onto[2])

\* The rest of the call in progress.
FinishHandler ==
    /\ Finish
    /\ IF onto = NoRename THEN UNCHANGED held ELSE Renames(onto[1], onto[2])
    /\ onto' = NoRename

-----------------------------------------------------------------------------
\* Handles do not outlive the process.
Restart ==
    \/ /\ Stop
       /\ fh' = [h \in Handle |-> 0] /\ opened' = [h \in Handle |-> Closed] /\ adrift' = {}
       /\ onto' = NoRename
    \/ (Mount \/ Load) /\ UNCHANGED <<held, onto>>

HNext ==
    \/ \E h \in Handle, path \in Visible : Open(h, path)
    \/ \E h \in Handle, x \in Extents : DoWrite(h, x[1], x[2])
    \/ \E h \in Handle, size \in Sizes : DoTruncate(h, size)
    \/ \E h \in Handle : Release(h)
    \/ \E path \in Visible : DoUnlink(path) \/ DoRmdir(path) \/ DoMkdir(path)
    \/ \E from, to \in Visible : DoRename(from, to)
    \/ DoRenameOnto
    \/ FinishHandler
    \/ Restart

HSpec == HInit /\ [][HNext]_hvars

-----------------------------------------------------------------------------
(* Properties. *)

\* The node id of a handle names a file, whatever is removed or renamed while
\* it is open: no handler writes to or cuts the data of a node that is gone.
\* This ends with a rename of the open file that OnceFS refuses for lack of
\* space after it has moved the row (oncefs_move_node): libfuse does not know
\* the file under its new name.
HandlesLive ==
    \A h \in Handle \ adrift :
        fh[h] # 0 => \E x \in fs.nodes : x.node = fh[h] /\ x.type = "FILE"

\* No block is lost to data that nobody can delete: as long as the container
\* was never full, every data and truncation row in use belongs to a file.
NoOrphans ==
    mode = "mounted" /\ fs.disk[LastBlock] = NoRecord =>
        \A b \in Rows(fs, "DATA") \cup Rows(fs, "TRUNCATE") :
            \E x \in fs.nodes : x.node = fs.blocks[b].node /\ x.type = "FILE"
=============================================================================
