----------------------------- MODULE LinkFollower -----------------------------
(***************************************************************************)
(* What the notifier and a service that follows it promise together: the   *)
(* service is told of one change of the link at a time, and is bound to    *)
(* what it was told before it is told of the next.                         *)
(***************************************************************************)
CONSTANTS Addr, NoAddr

VARIABLES told, bound

vars == <<told, bound>>

Init == told = NoAddr /\ bound = NoAddr

Tell ==
    /\ told = bound
    /\ \E a \in Addr \cup {NoAddr} : a # told /\ told' = a
    /\ UNCHANGED bound

Follow ==
    /\ told # bound
    /\ bound' = told
    /\ UNCHANGED told

Next == Tell \/ Follow

Spec == Init /\ [][Next]_vars
================================================================================
