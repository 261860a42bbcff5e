------------------------------ MODULE Lifecycle ------------------------------
(***************************************************************************)
(* What a manager of containers or virtual machines promises, with no      *)
(* table in sight: every machine has an id of its own that is never given  *)
(* again, starts stopped, and moves one at a time along the permitted      *)
(* transitions until it is deleted.                                        *)
(***************************************************************************)
EXTENDS Integers

CONSTANTS
    Initial,        \* the state of a new machine
    Transitions     \* the permitted pairs <<from, to>>

VARIABLES
    machines,       \* the state of every machine that exists, by id
    issued          \* the ids given so far are 1 .. issued

vars == <<machines, issued>>

Init ==
    /\ machines = [id \in {} |-> Initial]
    /\ issued = 0

Create ==
    /\ issued' = issued + 1
    /\ machines' = [id \in DOMAIN machines \cup {issued + 1} |->
                       IF id = issued + 1 THEN Initial ELSE machines[id]]

Move ==
    \E id \in DOMAIN machines, t \in Transitions :
        /\ machines[id] = t[1]
        /\ machines' = [machines EXCEPT ![id] = t[2]]
        /\ UNCHANGED issued

Delete ==
    \E id \in DOMAIN machines :
        /\ machines' = [x \in DOMAIN machines \ {id} |-> machines[x]]
        /\ UNCHANGED issued

Next == Create \/ Move \/ Delete

Spec == Init /\ [][Next]_vars
=============================================================================
