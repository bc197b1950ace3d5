------------------------------ MODULE Namespace ------------------------------
(***************************************************************************)
(* What the namespace of a file system promises: a tree of paths, changed *)
(* by one whole operation at a time.  There is no process, no log and no   *)
(* crash here; an implementation may end and start again, and must show    *)
(* the same tree when it does.                                             *)
(***************************************************************************)
EXTENDS SequencesExt  \* IsPrefix, IsStrictPrefix

CONSTANTS
    Path,       \* the paths of the tree; <<>> is the root and not among them
    Target,     \* what a link may point to
    NoTarget    \* the target of everything else, and of a link at first

VARIABLE tree   \* the kind and target of every path that exists

Kind == {"DIR", "FILE", "LINK"}

Parent(p) == SubSeq(p, 1, Len(p) - 1)

IsDirectory(p) == p = <<>> \/ (p \in DOMAIN tree /\ tree[p].kind = "DIR")

Init == tree = [p \in {} |-> {}]

Create(p, kind) ==
    /\ p \notin DOMAIN tree /\ IsDirectory(Parent(p))
    /\ tree' = [q \in DOMAIN tree \cup {p} |->
                   IF q = p THEN [kind |-> kind, target |-> NoTarget] ELSE tree[q]]

\* A link gets its target once.
SetTarget(p, target) ==
    /\ p \in DOMAIN tree /\ tree[p] = [kind |-> "LINK", target |-> NoTarget]
    /\ tree' = [tree EXCEPT ![p].target = target]

Unlink(p) ==
    /\ p \in DOMAIN tree
    /\ ~ \E q \in DOMAIN tree : IsStrictPrefix(p, q)
    /\ tree' = [q \in DOMAIN tree \ {p} |-> tree[q]]

\* All that lies below a renamed directory moves along.
Rename(from, to) ==
    LET New(q) == IF IsPrefix(from, q) THEN to \o SubSeq(q, Len(from) + 1, Len(q)) ELSE q
    IN  /\ from \in DOMAIN tree /\ to \notin DOMAIN tree
        /\ IsDirectory(Parent(to)) /\ ~IsPrefix(from, to)
        /\ tree' = [p \in {New(q) : q \in DOMAIN tree} |->
                       tree[CHOOSE q \in DOMAIN tree : New(q) = p]]

Next ==
    \/ \E p \in Path, kind \in Kind : Create(p, kind)
    \/ \E p \in Path, target \in Target : SetTarget(p, target)
    \/ \E p \in Path : Unlink(p)
    \/ \E from, to \in Path : Rename(from, to)

Spec == Init /\ [][Next]_tree
=============================================================================
