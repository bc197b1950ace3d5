--------------------------- MODULE OnceFSNamespace ---------------------------
(***************************************************************************)
(* OnceFS as an implementation of Namespace.  The tree is read off the    *)
(* node table, as _oncefs_resolve_node reads it, while a process serves    *)
(* the container, and off the log when none does: the end of a process, at *)
(* any point, and every step of a mount must leave the tree alone.  So a   *)
(* call takes effect when its record is written, the link's target with    *)
(* the second record, and a rename over a file is a removal and a rename.  *)
(***************************************************************************)
EXTENDS OnceFSRecovery, FiniteSetsExt  \* Max

VARIABLE tree   \* the tree of paths, a function of the other variables

\* A tree of n nodes is at most n deep.
Deep == UNION {[1 .. n -> Names] : n \in 1 .. MaxNode}

\* The machine that has replayed the records up to number `last`, in the order of
\* their numbers.
ReplayedTo(disk, last) ==
    LET At(s) == {b \in Scanned(disk) : disk[b].seq = s}
        upTo[s \in 0 .. last] ==
            IF s = 0 THEN Fresh(disk)
            ELSE IF At(s) = {} THEN upTo[s - 1]
            ELSE Replay(upTo[s - 1], CHOOSE b \in At(s) : TRUE)
    IN  upTo[last]

\* What a mount will make of the container.
Rebuilt(disk) == ReplayedTo(disk, Max({0} \cup {disk[b].seq : b \in Scanned(disk)}))

Payloads(nodes, node) == {x \in nodes : x.node = node /\ x.type = "LINK_PAYLOAD"}

\* oncefs_get_link: the name in the payload row of the link.
LinkTarget(nodes, node) ==
    LET payload == Payloads(nodes, node)
    IN  IF payload = {} THEN NoName ELSE (CHOOSE x \in payload : TRUE).name

TreeOf(nodes) ==
    [p \in {q \in Deep : Resolve(nodes, q).r = "OK"} |->
        LET row == Resolve(nodes, p).row
        IN  [kind |-> row.type,
             target |-> IF row.type = "LINK" THEN LinkTarget(nodes, row.node) ELSE NoName]]

\* The rows that count: the payload of a link counts once its record is written.
Committed(m, how, rest) ==
    IF how # "mounted" THEN Rebuilt(m.disk).nodes
    ELSE IF rest.kind = "link" THEN m.nodes \ {rest.row}
    ELSE m.nodes

nvars == <<fs, mode, job, todo, saved, tree>>

NInit == RecInit /\ tree = TreeOf(Committed(fs, mode, job))

NNext == RecNext /\ tree' = TreeOf(Committed(fs', mode', job'))

NSpec == NInit /\ [][NNext]_nvars

\* As in OnceFS: a call returns, and a mount runs on.
NFairSpec == NSpec /\ WF_vars(Finish) /\ WF_vars(Load)

NS == INSTANCE Namespace WITH Path <- Deep, Target <- Names, NoTarget <- NoName

\* Mutant: the search key is the parent of the directory.
GetDir_Parent(nodes, path) ==
    {x \in nodes : x.parent = Resolve(nodes, path).row.parent}

\* oncefs_get_dir: the rows it passes to the callback; it asks for no type.
GetDir(nodes, path) ==
    {x \in nodes : x.parent = Resolve(nodes, path).row.node}

-----------------------------------------------------------------------------
(* Properties. *)

\* A directory lists each of its children once, and nothing that cannot be
\* resolved below it: neither a name twice nor the payload of a link.
ListsChildren ==
    mode = "mounted" =>
        \A p \in {<<>>} \cup {q \in DOMAIN tree : tree[q].kind = "DIR"} :
            LET listed   == GetDir(fs.nodes, p)
                children == {q \in DOMAIN tree : q # <<>> /\ Dirname(q) = p}
            IN  /\ {Append(p, x.name) : x \in listed} = children
                /\ Cardinality(listed) = Cardinality(children)

\* On a container that is never full, every step of every process, its end and
\* the next mount included, is one operation of the namespace or invisible.
ImplementsNamespace == NS!Spec
=============================================================================
