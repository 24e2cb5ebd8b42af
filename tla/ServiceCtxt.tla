------------------------------ MODULE ServiceCtxt ------------------------------
(***************************************************************************)
(* service.ServiceCtxt: the gRPC server of the loader and the TCP listener *)
(* it makes each time it is told that the link is up.  The operators are   *)
(* the pieces of its NetworkChanged callback and the goroutine that calls  *)
(* gs.Serve; LoaderNetwork says when they run.                             *)
(***************************************************************************)
EXTENDS HostNetwork, Sequences

VARIABLES
    gs,         \* s.gs: "running", or "stopped" once gs.Stop() was called
    laddr,      \* the address of every listener made so far, in order
    listener,   \* s.listener: an index into laddr, 0 for nil
    open,       \* the listeners whose socket is open
    spawned,    \* the listeners whose work goroutine has not called gs.Serve yet
    serving,    \* the listeners gs.Serve accepts on
    unbinding   \* unbindInterface is between gs.Stop() and listener.Close()

svcVars == <<gs, laddr, listener, open, spawned, serving, unbinding>>

Listeners == 1..Len(laddr)

SvcTypeOK ==
    /\ gs \in {"running", "stopped"}
    /\ laddr \in Seq(Addr)
    /\ listener \in 0..Len(laddr)
    /\ open \in SUBSET Listeners
    /\ spawned \in SUBSET Listeners
    /\ serving \in SUBSET Listeners
    /\ unbinding \in BOOLEAN

SvcInit ==
    /\ gs = "running"
    /\ laddr = <<>>
    /\ listener = 0
    /\ open = {}
    /\ spawned = {}
    /\ serving = {}
    /\ unbinding = FALSE

\* The address s.listener is bound to.
Bound == IF listener = 0 THEN NoAddr ELSE laddr[listener]
--------------------------------------------------------------------------------
\* Mutant of SvcBind: Listen is tried once.
SvcBindOnce(a) ==
    IF Assigned(a)
        THEN /\ laddr' = Append(laddr, a)
             /\ listener' = Len(laddr) + 1
             /\ open' = open \cup {Len(laddr) + 1}
             /\ spawned' = spawned \cup {Len(laddr) + 1}
             /\ UNCHANGED <<gs, serving, unbinding>>
        ELSE UNCHANGED svcVars

\* Mutant of SvcBind: the listener it replaces is closed.
SvcRebind(a) ==
    /\ Assigned(a)
    /\ laddr' = Append(laddr, a)
    /\ listener' = Len(laddr) + 1
    /\ open' = (open \ {listener}) \cup {Len(laddr) + 1}
    /\ spawned' = spawned \cup {Len(laddr) + 1}
    /\ UNCHANGED <<gs, serving, unbinding>>

\* bindInterface: net.Listen is repeated until the host has the address.  The
\* listener an earlier call left in s.listener is overwritten, not closed.
SvcBind(a) ==
    /\ Assigned(a)
    /\ laddr' = Append(laddr, a)
    /\ listener' = Len(laddr) + 1
    /\ open' = open \cup {Len(laddr) + 1}
    /\ spawned' = spawned \cup {Len(laddr) + 1}
    /\ UNCHANGED <<gs, serving, unbinding>>

\* work: gs.Serve(l) accepts on l, or closes it at once when gs is stopped.
SvcServe(l) ==
    /\ l \in spawned
    /\ spawned' = spawned \ {l}
    /\ IF gs = "stopped"
           THEN open' = open \ {l} /\ UNCHANGED serving
           ELSE serving' = serving \cup {l} /\ UNCHANGED open
    /\ UNCHANGED <<gs, laddr, listener, unbinding>>

\* unbindInterface, gs.Stop(): every listener being served is closed, for good.
SvcStop ==
    /\ ~unbinding
    /\ unbinding' = TRUE
    /\ gs' = "stopped"
    /\ open' = open \ serving
    /\ serving' = {}
    /\ UNCHANGED <<laddr, listener, spawned>>

\* Mutant of SvcClose: the closed listener stays in s.listener.
SvcCloseOnly ==
    /\ unbinding
    /\ unbinding' = FALSE
    /\ open' = open \ {listener}
    /\ UNCHANGED <<gs, laddr, listener, spawned, serving>>

\* unbindInterface, s.listener.Close() and s.listener = nil.
SvcClose ==
    /\ unbinding
    /\ unbinding' = FALSE
    /\ open' = open \ {listener}
    /\ listener' = 0
    /\ UNCHANGED <<gs, laddr, spawned, serving>>
================================================================================
