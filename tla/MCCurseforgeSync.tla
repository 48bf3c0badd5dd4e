-------------------------- MODULE MCCurseforgeSync --------------------------
(* CurseforgeSync on small bounds, given in the configuration. *)
EXTENDS CurseforgeSync

CONSTANT refresh

\* The bound on what is explored: all that two tasks do while there has been one
\* edit, in the second of what it replaces or in the next; after the last edit,
\* which falls in a second of its own, only what the refresh does, that has to
\* repair what an edit in a shared second has left unseen.
Explored ==
    /\ second[MaxModified] > second[MaxModified - 1]
    /\ upstream.modified = MaxModified => \A t \in Tasks \ {refresh} : job[t] = NoJob
=============================================================================
