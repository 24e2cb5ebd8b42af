----------------------------- MODULE LoaderNetwork -----------------------------
(***************************************************************************)
(* The network side of the loader: the notifier's goroutine calls          *)
(* NetworkChanged of ServiceCtxt and of AnnounceService, while gs.Serve    *)
(* and the announcing goroutines run beside it and the host's interfaces   *)
(* change.                                                                 *)
(***************************************************************************)
EXTENDS NetworkChangeNotifier, AnnounceService

CONSTANTS
    Grpc, Announce,   \* the two observers that Init subscribes
    MaxPolls          \* bound: how often the notifier's goroutine is woken

ASSUME LoaderAssumption ==
    /\ Observer = {Grpc, Announce} /\ Grpc # Announce
    /\ MaxPolls \in Nat

VARIABLES
    changes,    \* changes of the interface table so far
    lost,       \* ghost: an interface went down or gave up an address
    toldDown    \* ghost: a service was told NetworkChanged(false, nil)

envVars == <<changes, lost, toldDown>>
vars == <<notifierVars, svcVars, annVars, envVars>>

TypeOK ==
    /\ NTypeOK /\ SvcTypeOK /\ AnnTypeOK
    /\ changes \in 0..MaxPolls
    /\ lost \in BOOLEAN /\ toldDown \in BOOLEAN

Init ==
    /\ NInit /\ SvcInit /\ AnnInit
    /\ changes = 0 /\ lost = FALSE /\ toldDown = FALSE
--------------------------------------------------------------------------------
\* It is woken once or, on Windows, twice from Start, and once by a change at most.
Polls == changes + (IF Windows THEN 2 ELSE 1)

Host ==
    /\ ~crashed
    /\ Polls < MaxPolls
    /\ HostChange
    /\ changes' = changes + 1
    /\ lost' = (lost \/ \E i \in Iface :
                    \/ ifs[i].up /\ ~ifs'[i].up
                    \/ ifs[i].addr \notin {NoAddr, ifs'[i].addr})
    /\ UNCHANGED <<svcVars, annVars, toldDown>>

\* The steps of the notifier outside the callbacks.
Quiet(A) == ~crashed /\ A /\ UNCHANGED <<svcVars, annVars, envVars>>
Notify == Quiet(Start) \/ Quiet(Receiver) \/ Quiet(Scan)

Calling(k, up) == ~crashed /\ loop = "call" /\ cur = k /\ (status[k] # NoAddr) = up
StillCalling == UNCHANGED notifierVars
NoteDown == toldDown' = TRUE /\ UNCHANGED <<changes, lost>>

\* ServiceCtxt.NetworkChanged
GrpcUp ==
    /\ Calling(Grpc, TRUE) /\ SvcBind(status[Grpc]) /\ Return
    /\ UNCHANGED <<annVars, envVars>>

GrpcDown ==
    /\ Calling(Grpc, FALSE) /\ NoteDown
    /\ \/ SvcStop /\ StillCalling
       \/ SvcClose /\ Return
    /\ UNCHANGED annVars

\* AnnounceService.NetworkChanged
AnnounceUp ==
    /\ Calling(Announce, TRUE) /\ Return
    /\ AnnDial(status[Announce]) \/ AnnDialError(status[Announce])
    /\ UNCHANGED <<svcVars, envVars>>

AnnounceDown ==
    /\ Calling(Announce, FALSE) /\ NoteDown
    /\ \/ AnnClose /\ StillCalling
       \/ AnnForget /\ Return
    /\ UNCHANGED svcVars

Callback == GrpcUp \/ GrpcDown \/ AnnounceUp \/ AnnounceDown

\* ServiceCtxt.work for listener l, and AnnounceService.work of goroutine w.
Serve(l) == ~crashed /\ SvcServe(l) /\ UNCHANGED <<notifierVars, annVars, envVars>>
Announcing(w) == ~crashed /\ Work(w) /\ UNCHANGED <<notifierVars, svcVars, envVars>>

Next ==
    \/ Host \/ Notify \/ Callback
    \/ \E l \in Listeners : Serve(l)
    \/ \E w \in Conns : Announcing(w)

Spec == Init /\ [][Next]_vars

\* The goroutines are scheduled and every system call but the Listen of an
\* address the host lacks ends; the host owes nothing.  A scan makes one call of a
\* service at most.
Fairness ==
    /\ WF_vars(Quiet(Start)) /\ WF_vars(Quiet(Receiver)) /\ WF_vars(Quiet(Scan))
    /\ WF_vars(GrpcUp /\ Usable(status[Grpc]))
    /\ WF_vars(GrpcDown) /\ WF_vars(AnnounceUp) /\ WF_vars(AnnounceDown)
    /\ \A l \in 1..MaxPolls : WF_vars(l \in Listeners /\ Serve(l))
    /\ \A w \in 1..MaxPolls : WF_vars(w \in Conns /\ Announcing(w))

FairSpec == Spec /\ Fairness
--------------------------------------------------------------------------------
(***************************************************************************)
(* Outside its own callback the gRPC service has the listener it was told  *)
(* to have, whatever the interface table did since and however the other   *)
(* observer's calls interleave (the notifier and ServiceCtxt together).    *)
(***************************************************************************)
ListenerFollowsStatus ==
    ~(loop = "call" /\ cur = Grpc) => Bound = status[Grpc] /\ ~unbinding

(***************************************************************************)
(* The daemon dies of a nil dereference only after a service was told that *)
(* the link is down: until then s.conn and s.ctx.listener, which the       *)
(* announcing goroutines read without a lock, only go from nil to a value. *)
(***************************************************************************)
CrashNeedsDownCall == crashed => toldDown

(***************************************************************************)
(* What was last announced is an address on which this daemon listens and  *)
(* serves, or is about to, unless its server was stopped by a loss of the  *)
(* link: a rebind leaves the announced listener open.                      *)
(***************************************************************************)
AnnouncedIsServed ==
    announced # 0 /\ gs = "running" =>
        announced \in open /\ announced \in serving \cup spawned

(***************************************************************************)
(* On a host that only gains interfaces and addresses, a service told that *)
(* the link is up keeps an announcing goroutine with an open connection,   *)
(* also when lookups fail and the link is taken down and up again.         *)
(***************************************************************************)
AnnouncerSurvives ==
    ~lost /\ status[Announce] # NoAddr /\ ~(loop = "call" /\ cur = Announce) =>
        conn \in copen /\ \E w \in Conns : Running(w)
--------------------------------------------------------------------------------
\* bindInterface waits for an address the host may not have any more, and the
\* notifier's only goroutine waits with it.
BindStuck ==
    /\ loop = "call" /\ cur = Grpc
    /\ status[Grpc] # NoAddr /\ ~Usable(status[Grpc])

(***************************************************************************)
(* When the host's network settles, the gRPC service ends up listening on  *)
(* the link's address, and being served if its server never stopped.  The  *)
(* exceptions are all there are: a crash, a Listen that waits for an       *)
(* address that is gone, a failed lookup.                                  *)
(***************************************************************************)
SettlesListening ==
    <>[](\/ crashed \/ BindStuck \/ misread[Grpc]
         \/ /\ IsLink(Bound)
            /\ listener # 0 /\ gs = "running" => listener \in serving)

(***************************************************************************)
(* When the host's network settles with the link up, the listener that is  *)
(* announced for good is the one s.listener holds, unless the notifier is  *)
(* blocked or no announcing goroutine is left.                             *)
(***************************************************************************)
SettlesAnnouncing ==
    <>[](\/ crashed \/ BindStuck \/ conn = 0 \/ listener = 0
         \/ \A w \in Conns : ~Running(w)
         \/ announced = listener)

(***************************************************************************)
(* When the host's network settles, every observer has been told so for    *)
(* good, unless its own last lookup met a failing system call, which no    *)
(* later event repeats, or the notifier is blocked or gone.                *)
(***************************************************************************)
SettlesTold ==
    <>[](crashed \/ BindStuck \/ \A k \in Observer : IsLink(status[k]) \/ misread[k])

\* The notifier and ServiceCtxt implement LinkFollower.
Follower == INSTANCE LinkFollower WITH told <- status[Grpc], bound <- Bound
FollowsLink == Follower!Spec

\* grpc/server.go:787: after Stop, Serve "is now illegal because of the server
\* being stopped": no goroutine is started to call it on a stopped server.
NoServeAfterStop == [][gs = "stopped" => spawned' \subseteq spawned]_vars
================================================================================
