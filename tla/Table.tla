-------------------------------- MODULE Table --------------------------------
(***************************************************************************)
(* What the readers of a dictionary table are promised: complete listings  *)
(* come, in any order and several at a time, but one goes only while a     *)
(* later one is there; so the latest a table holds never goes back, and no *)
(* table that has had a listing is ever without.  Module DictRefresh       *)
(* implements it with single inserts and deletes.                          *)
(***************************************************************************)
EXTENDS Naturals

CONSTANTS
    Runs,       \* refreshes
    Tables

VARIABLES
    holds,      \* the runs whose listing a table holds completely
    stamp       \* the timestamp of each run

vars == <<holds, stamp>>

Init ==
    /\ holds = [t \in Tables |-> {}]
    /\ stamp = [r \in Runs |-> 0]

\* A run gets its timestamp before any table holds its listing.
Stamp(r) ==
    /\ \A t \in Tables : r \notin holds[t]
    /\ stamp' \in [Runs -> Nat] /\ \A q \in Runs \ {r} : stamp'[q] = stamp[q]
    /\ UNCHANGED holds

Appear(r, t) ==
    /\ holds' = [holds EXCEPT ![t] = @ \cup {r}]
    /\ UNCHANGED stamp

Retire(r, t) ==
    /\ \E q \in holds[t] : stamp[q] > stamp[r]
    /\ holds' = [holds EXCEPT ![t] = @ \ {r}]
    /\ UNCHANGED stamp

Next == \E r \in Runs : Stamp(r) \/ \E t \in Tables : Appear(r, t) \/ Retire(r, t)

Spec == Init /\ [][Next]_vars
=============================================================================
