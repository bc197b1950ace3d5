-------------------------- MODULE MCOnceFSNamespace --------------------------
(* Containers that are never full, in two systems side by side: every call, on *)
(* a tree; and one file, written and cut at positions that overlap.  They      *)
(* share no variable; their containers have the same size.                     *)
EXTENDS OnceFSNamespace

NestedPaths == {<<n>> : n \in Names} \cup {<<"a", "b">>}
OnePath == {<<"a">>}

TwoChunks == {<<0, 3>>}
\* Payload 3: a block, a block and a byte that overlap it, a byte beyond a hole.
Overlapping == {<<0, 3>>, <<1, 4>>, <<6, 1>>}

CONSTANTS
    CutCalls, CutSizes, CutExtents, CutPayload,
    CutSeq, CutNode \* bounds: as MaxSeq and MaxNode, for the second system

VARIABLES
    cut,            \* whether this behaviour is one of the second system
    cfs, cmode, cjob, ctodo, csaved, ideal

C == INSTANCE OnceFSData
       WITH fs <- cfs, mode <- cmode, job <- cjob, todo <- ctodo, saved <- csaved,
            Calls <- CutCalls, Paths <- OnePath, Sizes <- CutSizes, Extents <- CutExtents,
            Payload <- CutPayload, MaxSeq <- CutSeq, MaxNode <- CutNode

cutvars == <<cfs, cmode, cjob, ctodo, csaved, ideal>>

MCInit == NInit /\ C!DataInit /\ cut \in BOOLEAN

MCNext ==
    /\ UNCHANGED cut
    /\ \/ ~ cut /\ NNext /\ UNCHANGED cutvars
       \/ cut /\ C!DataNext /\ UNCHANGED nvars

\* As NFairSpec.
MCSpec == MCInit /\ [][MCNext]_<<nvars, cutvars, cut>> /\ WF_vars(Finish) /\ WF_vars(Load)

\* Of the second system, for truncations to several sizes.
ReadsBack == C!ReadsBack
SizeWithin == C!SizeWithin
=============================================================================
