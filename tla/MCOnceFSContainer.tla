------------------------- MODULE MCOnceFSContainer --------------------------
(* Two workloads in one run: power losses under every call that writes, and   *)
(* power losses under formatting and what is written before and after it.     *)
EXTENDS OnceFSContainer

FlatPaths == {<<n>> : n \in Names}

TwoChunks == {<<0, 3>>}

CONSTANTS
    FormatCalls,    \* the calls of a container that is formatted
    FormatSeq       \* bound: as MaxSeq, for such a container

VARIABLE formatted  \* whether the container of this behaviour is one

F == INSTANCE OnceFSContainer WITH Calls <- FormatCalls, MaxSeq <- FormatSeq

allvars == <<cvars, formatted>>

MCInit == CInit /\ formatted \in BOOLEAN

MCNext ==
    /\ UNCHANGED formatted
    /\ \/ ~ formatted /\ CNext
       \/ formatted /\ F!CNext

MCSpec == MCInit /\ [][MCNext]_allvars
=============================================================================
