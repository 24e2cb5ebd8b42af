----------------------------- MODULE WindowsService -----------------------------
(***************************************************************************)
(* The process on Windows (main_windows.go): a service that the service    *)
(* control manager launches from the executable on the disk and asks to    *)
(* stop.  Run on a console, where nobody controls it, it is not modelled.  *)
(***************************************************************************)
EXTENDS HostProcess

CONSTANTS
    Shipped,   \* the content of the executable that was installed first
    Torn       \* the content of an executable that is half overwritten

VARIABLES
    scm,    \* the manager's state: "stopped", "startPending", "running", "stopPending"
    exe     \* the content of the executable on the disk

scmVars == <<scm, exe>>

ScmTypeOK == scm \in {"stopped", "startPending", "running", "stopPending"}

ScmInit == scm = "stopped" /\ exe = Shipped

Runnable == proc = "none" /\ scm = "stopped" /\ exe # Torn
--------------------------------------------------------------------------------
\* StartService: the manager makes the process when it can read the executable.
ScStart ==
    /\ os = "windows" /\ Runnable
    /\ Launched
    /\ scm' = "startPending"
    /\ UNCHANGED exe

\* ControlService(STOP): only a running service accepts it, and it is not awaited.
ScStop == IF scm = "running" THEN scm' = "stopPending" ELSE UNCHANGED scm

\* program.Init: ServiceCtxt.Init returns an error when PowerCtl has no privilege.
InitError ==
    /\ os = "windows" /\ proc = "init"
    /\ Ended("initError")
    /\ scm' = "stopped"
    /\ UNCHANGED exe

ServiceInit ==
    /\ os = "windows" /\ Initialised
    /\ UNCHANGED scmVars

\* Execute: program.Start, then the service is reported as running.
ServiceStart ==
    /\ scm = "startPending" /\ Started
    /\ scm' = "running"
    /\ UNCHANGED exe

\* Execute: program.Stop.
ServiceStop ==
    /\ scm = "stopPending" /\ services = "started"
    /\ Stopped
    /\ UNCHANGED scmVars

\* Mutant of ServiceExit: Execute returns without a call of Stop.
ServiceExitEarly ==
    /\ scm = "stopPending"
    /\ Ended("exit")
    /\ scm' = "stopped"
    /\ UNCHANGED exe

\* Execute and main return; the manager sees the service stopped.
ServiceExit ==
    /\ scm = "stopPending" /\ services # "started"
    /\ Ended("exit")
    /\ scm' = "stopped"
    /\ UNCHANGED exe

ServiceMain == ServiceInit \/ ServiceStart \/ ServiceStop \/ ServiceExit
================================================================================
