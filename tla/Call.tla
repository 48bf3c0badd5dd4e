-------------------------------- MODULE Call --------------------------------
(***************************************************************************)
(* What the other modules take a request to be: a call that returns, at    *)
(* some time after it began, either what upstream showed at some time in   *)
(* between (that it had nothing, perhaps), or an error that says nothing.  *)
(* Module Http implements it.                                              *)
(***************************************************************************)
CONSTANTS
    Tasks,      \* whoever calls
    Contents    \* what upstream may show, that it has nothing included

NoResult == "none"
Failed   == "failed"

VARIABLES
    upstream,   \* what upstream shows now
    had,        \* of each open call, all that upstream has shown since it began
    result      \* of each task, what its last call returned

vars == <<upstream, had, result>>

Init ==
    /\ upstream \in Contents
    /\ had = [t \in Tasks |-> {}]
    /\ result = [t \in Tasks |-> NoResult]

Edit ==
    /\ \E c \in Contents :
         /\ upstream' = c
         /\ had' = [t \in Tasks |-> IF had[t] = {} THEN {} ELSE had[t] \cup {c}]
    /\ UNCHANGED result

Open(t) ==
    /\ had[t] = {}
    /\ had' = [had EXCEPT ![t] = {upstream}]
    /\ result' = [result EXCEPT ![t] = NoResult]
    /\ UNCHANGED upstream

Return(t) ==
    /\ had[t] # {}
    /\ \E r \in had[t] \cup {Failed} : result' = [result EXCEPT ![t] = r]
    /\ had' = [had EXCEPT ![t] = {}]
    /\ UNCHANGED upstream

Next == Edit \/ \E t \in Tasks : Open(t) \/ Return(t)

Spec == Init /\ [][Next]_vars
=============================================================================
