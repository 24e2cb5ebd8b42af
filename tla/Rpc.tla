---------------------------------- MODULE Rpc ----------------------------------
(***************************************************************************)
(* The calls of the loader's four services: the client's stubs and the     *)
(* server's handlers that protoc made of loader.proto, with what grpc does *)
(* between them.  A call is a stream; the stub of a unary method sends one *)
(* message and closes it at once, that of a server stream in three steps,  *)
(* and the client of a bidirectional one holds it open as long as it likes.*)
(***************************************************************************)
EXTENDS HostProcess

CONSTANTS
    Call,     \* the calls that clients make, each once
    Callers   \* bound: per system, which call may be one of which method

MaintainDesc ==
    [UpdateLoader |-> "bidi", FormatDisks |-> "server", ApplyImage |-> "server",
     BCDFix |-> "unary"]
LoaderDesc == [PowerCtl |-> "unary", BootEntries |-> "unary"]
DeploymentDesc == [Info |-> "unary", Exec |-> "unary", Upload |-> "bidi"]
RecordingDesc == [Status |-> "unary", RecordControl |-> "unary"]

Descs == {MaintainDesc, LoaderDesc, DeploymentDesc, RecordingDesc}
Method == UNION {DOMAIN d : d \in Descs}
Kind(m) == LET d == CHOOSE d \in Descs : m \in DOMAIN d IN d[m]

\* MaintenanceService embeds a nil api.MaintainServer: what no file of the build
\* defines is a call through that nil interface.
Defined(m) == os = "windows" => m \notin {"FormatDisks", "ApplyImage", "BCDFix"}

ASSUME RpcAssumption == Callers \in [{"linux", "windows"} -> SUBSET (Call \X Method)]

VARIABLES
    net,     \* gs: "idle" (no listener yet), "serving", or "stopped" for good
    calls    \* per call, where its client and its handler are

rpcVars == <<net, calls>>

NewCall == [method |-> "Info", client |-> "idle", handler |-> "none"]

RpcTypeOK ==
    /\ net \in {"idle", "serving", "stopped"}
    /\ calls \in [Call -> [method : Method,
                           client : {"idle", "open", "sent", "closed", "answered", "lost"},
                           handler : {"none", "queued", "recv", "body", "end"}]]

RpcInit == net = "idle" /\ calls = [c \in Call |-> NewCall]

Waiting(c) == calls[c].client \in {"open", "sent", "closed"}
Lost(c) == calls[c].client = "lost"
--------------------------------------------------------------------------------
\* The connections break; the handlers that run are not told.
Hangup == [c \in Call |-> [calls[c] EXCEPT !.client = IF Waiting(c) THEN "lost" ELSE @]]

\* The process is gone: the connections break and no handler is left.
Cut ==
    /\ net' = "idle"
    /\ calls' = [c \in Call |-> [Hangup[c] EXCEPT !.handler = IF @ = "none" THEN @ ELSE "end"]]

\* bindInterface: a listener is served.
LinkUp ==
    /\ proc = "up" /\ services # "new" /\ net = "idle"
    /\ net' = "serving"
    /\ UNCHANGED <<procVars, calls>>

\* unbindInterface: gs.Stop closes every connection and waits for no handler.
LinkDown ==
    /\ net = "serving"
    /\ net' = "stopped"
    /\ calls' = Hangup
    /\ UNCHANGED procVars
--------------------------------------------------------------------------------
\* The stubs' NewStream, and Invoke whole.
NewStream(c, m) ==
    /\ net = "serving" /\ calls[c].client = "idle" /\ <<c, m>> \in Callers[os]
    /\ calls' = [calls EXCEPT ![c] = [method |-> m, handler |-> "queued",
                                      client |-> IF Kind(m) = "unary" THEN "closed" ELSE "open"]]
    /\ UNCHANGED <<procVars, net>>

\* The stub of a server stream: SendMsg, then CloseSend.
SendMsg(c) ==
    /\ calls[c].client = "open" /\ Kind(calls[c].method) = "server"
    /\ calls' = [calls EXCEPT ![c].client = "sent"]
    /\ UNCHANGED <<procVars, net>>

CloseSend(c) ==
    /\ \/ calls[c].client = "sent"
       \/ calls[c].client = "open" /\ Kind(calls[c].method) = "bidi"
    /\ calls' = [calls EXCEPT ![c].client = "closed"]
    /\ UNCHANGED <<procVars, net>>

\* The client gives up, or dies, or its host does.
ClientGone(c) ==
    /\ Waiting(c)
    /\ calls' = [calls EXCEPT ![c].client = "lost"]
    /\ UNCHANGED <<procVars, net>>
--------------------------------------------------------------------------------
\* Mutant of Dispatch: every handler receives a request before its method is called.
DispatchRecv(c) ==
    /\ calls[c].handler = "queued"
    /\ calls' = [calls EXCEPT ![c].handler = "recv"]
    /\ UNCHANGED <<procVars, net>>

\* grpc finds the method in a descriptor and calls its handler in a goroutine; that
\* of a bidirectional stream calls the method, the others receive the request first.
Dispatch(c) ==
    /\ calls[c].handler = "queued"
    /\ calls' = [calls EXCEPT ![c].handler =
                     IF Kind(calls[c].method) = "bidi" THEN "body" ELSE "recv"]
    /\ UNCHANGED <<procVars, net>>

\* The handler has the request and calls a method that the service defines.
Request(c) ==
    /\ calls[c].handler = "recv" /\ Defined(calls[c].method)
    /\ calls[c].client \in {"sent", "closed"} \/ Lost(c)
    /\ calls' = [calls EXCEPT ![c].handler = "body"]
    /\ UNCHANGED <<procVars, net>>

\* The handler has no request: the stream ended first.
RequestError(c) ==
    /\ calls[c].handler = "recv" /\ Lost(c)
    /\ calls' = [calls EXCEPT ![c].handler = "end"]
    /\ UNCHANGED <<procVars, net>>

\* The handler calls a method that the service does not define.
Undefined(c) ==
    /\ calls[c].handler = "recv" /\ ~Defined(calls[c].method)
    /\ calls[c].client \in {"sent", "closed"} \/ Lost(c)
    /\ Ended("panic")
    /\ Cut

\* The method returns; a client that still waits gets its response or its error.
Return(c) ==
    /\ calls[c].handler = "body"
    /\ calls' = [calls EXCEPT ![c].handler = "end",
                              ![c].client = IF Waiting(c) THEN "answered" ELSE @]
    /\ UNCHANGED <<procVars, net>>

\* What the generated stubs go on with by themselves.
Stub(c) == SendMsg(c) \/ (calls[c].client = "sent" /\ CloseSend(c))
Server(c) == Dispatch(c) \/ Request(c) \/ RequestError(c) \/ Undefined(c)
================================================================================
