---------------------------- MODULE ExecutableUpdate ----------------------------
(***************************************************************************)
(* What UpdateLoader, its scripts and whatever starts the loader promise   *)
(* together of its executable: it is replaced by a content that a client   *)
(* vouched for, by one copy at a time and while no process runs, and no    *)
(* process is made from half of one.                                       *)
(***************************************************************************)
CONSTANTS
    Shipped,   \* what was installed first
    Torn,      \* half of a content
    Content    \* what a client may send

VARIABLES exe, vouched, running, copying

vars == <<exe, vouched, running, copying>>

Init == exe = Shipped /\ vouched = {} /\ ~running /\ ~copying

Vouch ==
    /\ \E x \in Content : vouched' = vouched \cup {x}
    /\ UNCHANGED <<exe, running, copying>>

Launch ==
    /\ ~running /\ exe # Torn
    /\ running'
    /\ UNCHANGED <<exe, vouched, copying>>

Exit ==
    /\ running
    /\ ~running'
    /\ UNCHANGED <<exe, vouched, copying>>

\* The executable is truncated.
Begin ==
    /\ ~running /\ ~copying
    /\ exe' = Torn /\ copying'
    /\ UNCHANGED <<vouched, running>>

End ==
    /\ ~running /\ copying
    /\ exe' \in vouched /\ ~copying'
    /\ UNCHANGED <<vouched, running>>

\* The copy, if there is one, is not gone on with.
PowerLoss ==
    /\ ~running' /\ ~copying'
    /\ UNCHANGED <<exe, vouched>>

Next == Vouch \/ Launch \/ Exit \/ Begin \/ End \/ PowerLoss

Spec == Init /\ [][Next]_vars
================================================================================
