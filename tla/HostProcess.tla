------------------------------ MODULE HostProcess ------------------------------
(***************************************************************************)
(* The loader's process, of which main_linux.go and main_windows.go are    *)
(* two versions: it is launched, calls ServiceCtxt.Init, Start and Stop,   *)
(* and ends by itself, by a signal, or by a panic that nothing recovers.   *)
(***************************************************************************)
EXTENDS Integers, Sequences

VARIABLES
    os,         \* the system the loader was built for
    proc,       \* "none", "init" (before ServiceCtxt.Init returned), "up"
    services,   \* "new", "started", "stopped": the last of Init, Start, Stop called
    cause       \* why the last process ended, "" before any did

procVars == <<os, proc, services, cause>>

ProcTypeOK ==
    /\ os \in {"linux", "windows"}
    /\ proc \in {"none", "init", "up"}
    /\ services \in {"new", "started", "stopped"}
    /\ cause \in {"", "initError", "panic", "signal", "exit", "powerLoss"}

ProcInit ==
    /\ os \in {"linux", "windows"}
    /\ proc = "none" /\ services = "new" /\ cause = ""
--------------------------------------------------------------------------------
\* A new process of the loader, with a new ServiceCtxt.
Launched ==
    /\ proc = "none"
    /\ proc' = "init" /\ services' = "new"
    /\ UNCHANGED <<os, cause>>

\* ServiceCtxt.Init has returned.
Initialised ==
    /\ proc = "init"
    /\ proc' = "up"
    /\ UNCHANGED <<os, services, cause>>

\* ServiceCtxt.Start: the notifier runs; the services' own Start are empty.
Started ==
    /\ proc = "up" /\ services = "new"
    /\ services' = "started"
    /\ UNCHANGED <<os, proc, cause>>

\* ServiceCtxt.Stop: the services' own Stop are empty, the server is not stopped.
Stopped ==
    /\ proc = "up"
    /\ services' = "stopped"
    /\ UNCHANGED <<os, proc, cause>>

\* The process ends, and every goroutine with it.
Ended(why) ==
    /\ proc # "none"
    /\ proc' = "none" /\ cause' = why
    /\ UNCHANGED <<os, services>>
================================================================================
