----------------------------- MODULE LoaderProcess -----------------------------
(***************************************************************************)
(* The loader from its launch to its end on either system: the signals or  *)
(* the service manager that control it, the calls that clients make of it, *)
(* the update by which it replaces its own executable, and the scripts     *)
(* that outlive it.                                                        *)
(***************************************************************************)
EXTENDS Daemon, LoaderUpdate

vars == <<procVars, daemonVars, scmVars, rpcVars, updVars>>

TypeOK == ProcTypeOK /\ DaemonTypeOK /\ ScmTypeOK /\ RpcTypeOK /\ UpdTypeOK

Init == ProcInit /\ DaemonInit /\ ScmInit /\ RpcInit /\ UpdInit
--------------------------------------------------------------------------------
\* A step in which the process may end: its goroutines end with it.
Ending(A) ==
    /\ A
    /\ UNCHANGED sent
    /\ IF proc # "none" /\ proc' = "none" THEN NoGoroutines ELSE UNCHANGED goVars

Signals ==
    /\ Reborn \/ Main \/ Handle \/ Work \/ \E sig \in Signal : Deliver(sig)
    /\ UNCHANGED <<scmVars, rpcVars, updVars>>

Killed == Kill /\ Cut /\ UNCHANGED <<scmVars, updVars>>

\* The manager, for a script or for someone else, and the service's own steps.
Manager == ScStart /\ UNCHANGED <<daemonVars, rpcVars, updVars>>
Service ==
    /\ Ending(ServiceMain \/ InitError)
    /\ IF proc' = "none" THEN Cut ELSE UNCHANGED rpcVars
    /\ UNCHANGED updVars

Network == (LinkUp \/ LinkDown) /\ UNCHANGED <<daemonVars, scmVars, updVars>>

Client(c) ==
    /\ (\E m \in Method : NewStream(c, m)) \/ Stub(c) \/ CloseSend(c) \/ ClientGone(c)
    /\ UNCHANGED <<daemonVars, scmVars, updVars>>

\* The methods that other modules describe, of which these can panic.
OtherMethod(c) ==
    /\ calls[c].method # "UpdateLoader"
    /\ \/ Return(c)
       \/ /\ calls[c].handler = "body"
          /\ calls[c].method \in {"FormatDisks", "Upload", "BootEntries"}
          /\ Ended("panic") /\ Cut

ManagerSees == scm' = IF proc' = "none" THEN "stopped" ELSE scm

Serving(c) ==
    \/ /\ Ending(Server(c) \/ OtherMethod(c))
       /\ ManagerSees /\ UNCHANGED <<exe, updVars>>
    \/ Ending(Handler(c))

Scripts == \E s \in DOMAIN scripts : Script(s) /\ UNCHANGED daemonVars

\* The machine loses its power; what was being copied stays half written.
PowerLoss ==
    /\ proc' = "none" /\ cause' = "powerLoss" /\ UNCHANGED <<os, services>>
    /\ NoGoroutines /\ UNCHANGED sent
    /\ Cut
    /\ scm' = "stopped"
    /\ scripts' = [s \in DOMAIN scripts |-> [scripts[s] EXCEPT !.pc = "end"]]
    /\ UNCHANGED <<exe, files, upd, vouched>>

Next ==
    \/ Signals \/ Killed
    \/ Manager \/ Service
    \/ Network
    \/ \E c \in Call : Client(c) \/ Serving(c)
    \/ Scripts
    \/ PowerLoss

Spec == Init /\ [][Next]_vars

\* What goes on by itself: the process' goroutines, the client's library and the
\* scripts.  Nobody has to launch or signal the process, to call it, to go on with
\* a stream, or to return from a method.
Internal ==
    \/ Signals /\ (Main \/ Handle \/ Work)
    \/ Service /\ ServiceMain
    \/ \E c \in Call : (Client(c) /\ Stub(c)) \/ (Serving(c) /\ Server(c))
    \/ Scripts

FairSpec == Spec /\ WF_vars(Internal)
--------------------------------------------------------------------------------
(***************************************************************************)
(* The services are stopped before the handler of a SIGQUIT returns        *)
(* (main_linux.go:107-113): when ServeSignals is back to waiting after     *)
(* one, prg.Stop has been called.                                          *)
(***************************************************************************)
QuitWaitsForStop ==
    [][serve = "done" /\ serve' = "wait" => services = "stopped"]_vars

(***************************************************************************)
(* Once the handler is asked to terminate, by a SIGTERM whose handler does *)
(* not wait included, the services are stopped or the process is gone.     *)
(***************************************************************************)
TerminationStopsServices == Terminating ~> services = "stopped" \/ proc = "none"

(***************************************************************************)
(* Every signal that was queued is handled, unless a second one demanded   *)
(* termination: worker has taken the first and is gone, and the handler of *)
(* the second keeps ServeSignals at stop <- for ever (main_linux.go:109).  *)
(***************************************************************************)
SignalsHandled == <>[](queue = <<>> \/ demands > 1)

(***************************************************************************)
(* On either system a process whose services run ends only by a panic, by  *)
(* a loss of power, or by a signal that comes while worker has started     *)
(* them and main has not come to ServeSignals (main_linux.go:67-69).       *)
(***************************************************************************)
StopBeforeExit ==
    [][proc # "none" /\ proc' = "none" /\ services = "started" =>
           cause' \in {"panic", "powerLoss"} \/ (os = "linux" /\ serve = "off")]_vars
--------------------------------------------------------------------------------
(***************************************************************************)
(* Whatever updates, second Infos, scripts, launches and crashes           *)
(* interleave, the executable goes from one content whose size and hash a  *)
(* client sent to another, by one copy at a time and while no process      *)
(* runs, and only a loss of power leaves it half written                   *)
(* (maintenance.go:79-102).                                                *)
(***************************************************************************)
Executable == INSTANCE ExecutableUpdate WITH running <- proc # "none", copying <- Copying
UpdateInstalls == Executable!Spec

(***************************************************************************)
(* After an update the service is back once the scripts have ended.  The   *)
(* exceptions are all there are: sc start was refused because the process  *)
(* that sc stop does not wait for was still there, or the executable was   *)
(* being copied by another script; Init failed; a panic; a loss of power.  *)
(***************************************************************************)
UpdateComesBack ==
    <>[](\/ scripts = <<>>
         \/ \E s \in DOMAIN scripts :
                scripts[s].pc # "end" \/ scripts[s].start \in {"alive", "unreadable"}
         \/ proc # "none"
         \/ cause \in {"initError", "panic", "powerLoss"})

(***************************************************************************)
(* A call that was begun comes to an end for its client or reaches its     *)
(* method, whatever its kind, also when the server is stopped, the client  *)
(* gives up or the process ends meanwhile.                                 *)
(***************************************************************************)
CallsEnter ==
    \A c \in Call :
        Waiting(c) ~> ~Waiting(c) \/ calls[c].handler = "body"

(***************************************************************************)
(* loader_grpc.pb.go:143-145: implementations embed the Unimplemented      *)
(* server, which answers a method they do not define with Unimplemented.   *)
(***************************************************************************)
UndefinedIsUnimplemented ==
    [][\A c \in Call :
           calls[c].handler = "recv" /\ ~Defined(calls[c].method) /\ calls'[c].handler = "end" =>
               \/ calls'[c].client = "answered"
               \/ Lost(c) \/ (proc' = "none" /\ cause' # "panic")]_vars
================================================================================
