------------------------------ MODULE LoaderProofs ------------------------------
(***************************************************************************)
(* For any host, any number of interface changes and any length of run:    *)
(* the gRPC service's listener follows the status the notifier recorded,   *)
(* the notifier and ServiceCtxt implement LinkFollower, a crash needs a    *)
(* "down" call, and what is announced is served until the server stops.    *)
(***************************************************************************)
EXTENDS LoaderNetwork, NotifierProofs

USE HostAssumption, NotifierAssumption, LoaderAssumption

InGrpcCall == loop = "call" /\ cur = Grpc

\* What relates the notifier's record to the listener: they differ exactly
\* while the gRPC service is being called.
FollowInv ==
    /\ NTypeOK
    /\ SvcTypeOK
    /\ Bound = status[Grpc] <=> ~InGrpcCall
    /\ unbinding => InGrpcCall /\ status[Grpc] = NoAddr

\* The address of the current listener is an address, and never "nil".
LEMMA BoundType ==
    ASSUME SvcTypeOK
    PROVE  /\ listener # 0 => Bound \in Addr
           /\ listener = 0 => Bound = NoAddr
<1>1. listener # 0 => listener \in 1..Len(laddr)
  BY DEF SvcTypeOK
<1> QED
  BY <1>1 DEF SvcTypeOK, Bound

\* A new listener is bound to the address it was made for.
LEMMA BindBound ==
    ASSUME SvcTypeOK, NEW a \in Addr, SvcBind(a)
    PROVE  SvcTypeOK' /\ Bound' = a
<1>1. laddr \in Seq(Addr) /\ Len(laddr) \in Nat
  BY DEF SvcTypeOK
<1>2. /\ laddr' \in Seq(Addr)
      /\ Len(laddr') = Len(laddr) + 1
      /\ laddr'[Len(laddr) + 1] = a
  BY <1>1 DEF SvcBind
<1>3. Listeners' = Listeners \cup {Len(laddr) + 1}
  BY <1>1, <1>2 DEF Listeners
<1>4. SvcTypeOK'
  BY <1>1, <1>2, <1>3 DEF SvcTypeOK, SvcBind
<1> QED
  BY <1>1, <1>2, <1>4 DEF SvcBind, Bound

\* Stopping the server leaves s.listener as it was.
LEMMA StopBound ==
    ASSUME SvcTypeOK, SvcStop
    PROVE  SvcTypeOK' /\ Bound' = Bound
BY DEF SvcTypeOK, SvcStop, Bound, Listeners

\* unbindInterface leaves no listener.
LEMMA CloseBound ==
    ASSUME SvcTypeOK, SvcClose
    PROVE  SvcTypeOK' /\ Bound' = NoAddr
<1>1. Len(laddr) \in Nat /\ open' \in SUBSET Listeners
  BY DEF SvcTypeOK, SvcClose
<1>2. UNCHANGED <<gs, laddr, spawned, serving>> /\ listener' = 0 /\ unbinding' = FALSE
  BY DEF SvcClose
<1>3. SvcTypeOK'
  <2>1. listener' \in 0..Len(laddr')
    BY <1>1, <1>2
  <2>2. Listeners' = Listeners
    BY <1>2 DEF Listeners
  <2> QED
    BY <1>1, <1>2, <2>1, <2>2 DEF SvcTypeOK
<1> QED
  BY <1>2, <1>3 DEF Bound

\* gs.Serve changes no listener's address.
LEMMA ServeBound ==
    ASSUME SvcTypeOK, NEW l \in Listeners, SvcServe(l)
    PROVE  SvcTypeOK' /\ Bound' = Bound
<1>1. UNCHANGED <<gs, laddr, listener, unbinding>>
  BY DEF SvcServe
<1>2. open' \in SUBSET Listeners /\ serving' \in SUBSET Listeners
  <2>1. CASE gs = "stopped"
    BY <2>1 DEF SvcTypeOK, SvcServe
  <2>2. CASE gs # "stopped"
    BY <2>2 DEF SvcTypeOK, SvcServe
  <2> QED
    BY <2>1, <2>2
<1>3. spawned' \in SUBSET Listeners
  BY DEF SvcTypeOK, SvcServe
<1> QED
  BY <1>1, <1>2, <1>3 DEF SvcTypeOK, Bound, Listeners

\* A step that leaves the service's variables alone.
LEMMA SvcStutter ==
    ASSUME SvcTypeOK, UNCHANGED svcVars
    PROVE  SvcTypeOK' /\ Bound' = Bound
BY DEF SvcTypeOK, svcVars, Bound, Listeners

\* Every step of the loader is a step of the notifier or leaves it alone.
LEMMA NotifierStep == [Next]_vars => [NNext]_notifierVars
BY DEF Next, vars, Host, Notify, Quiet, Callback, GrpcUp, GrpcDown, AnnounceUp,
   AnnounceDown, Serve, Announcing, StillCalling, NNext

\* Outside the callbacks the notifier records a new status for the observer it
\* is about to call, and for no other.
LEMMA ScanStatus ==
    ASSUME NTypeOK, Scan
    PROVE  /\ loop # "call"
           /\ loop' = "call" => status'[cur'] # status[cur']
           /\ \A k \in Observer : ~(loop' = "call" /\ cur' = k) => status'[k] = status[k]
<1>1. CASE Emit
  BY <1>1 DEF Emit
<1>2. ASSUME NEW k \in Observer, ListInterfaces(k)
      PROVE loop # "call" /\ loop' # "call" /\ status' = status
  BY <1>2 DEF ListInterfaces
<1>3. ASSUME NEW k \in Observer, ListError(k)
      PROVE  /\ loop # "call" /\ cur' = k
             /\ loop' = "call" => status'[k] # status[k]
             /\ loop' # "call" => status' = status
             /\ \A j \in Observer : j # k => status'[j] = status[j]
  BY <1>3 DEF ListError, NTypeOK
<1>4. ASSUME NEW up, NEW a, Decide(up, a)
      PROVE  /\ loop' = "call" => status'[cur] # status[cur]
             /\ loop' # "call" => status' = status
             /\ \A j \in Observer : j # cur => status'[j] = status[j]
  BY <1>4 DEF Decide, NTypeOK
<1>5. CASE ReadAddrs
  BY <1>4, <1>5 DEF ReadAddrs
<1>6. CASE ReadError
  BY <1>6 DEF ReadError
<1>7. CASE NoMatch
  BY <1>4, <1>7 DEF NoMatch
<1>8. CASE ScanDone
  BY <1>8 DEF ScanDone
<1> QED
  BY <1>1, <1>2, <1>3, <1>5, <1>6, <1>7, <1>8 DEF Scan
--------------------------------------------------------------------------------
\* Each step keeps FollowInv.
LEMMA FollowStep == FollowInv /\ [Next]_vars => FollowInv'
<1> SUFFICES ASSUME FollowInv, [Next]_vars PROVE FollowInv'
  OBVIOUS
<1>1. NTypeOK /\ NTypeOK' /\ SvcTypeOK
  BY NotifierStep, NTypeStep DEF FollowInv
<1>2. status[Grpc] \in MaybeAddr /\ Grpc \in Observer
  BY <1>1 DEF NTypeOK
<1>3. CASE Host
  <2>1. UNCHANGED svcVars /\ UNCHANGED <<loop, cur, status>>
    BY <1>3 DEF Host, HostChange
  <2> QED
    BY <1>1, <2>1, SvcStutter DEF FollowInv, InGrpcCall, svcVars
<1>4. CASE Quiet(Start) \/ Quiet(Receiver)
  <2>1. UNCHANGED svcVars /\ UNCHANGED <<cur, status>> /\ (loop = "call" <=> loop' = "call")
    BY <1>4 DEF Quiet, Start, Receiver, Recvfrom, RecvError, Register
  <2> QED
    BY <1>1, <2>1, SvcStutter DEF FollowInv, InGrpcCall, svcVars
<1>5. CASE Quiet(Scan)
  <2>1. UNCHANGED svcVars /\ loop # "call"
    BY <1>1, <1>5, ScanStatus DEF Quiet
  <2>2. /\ InGrpcCall' => status'[Grpc] # status[Grpc]
        /\ ~InGrpcCall' => status'[Grpc] = status[Grpc]
    BY <1>1, <1>2, <1>5, ScanStatus DEF Quiet, InGrpcCall
  <2> QED
    BY <1>1, <2>1, <2>2, SvcStutter DEF FollowInv, InGrpcCall, svcVars
<1>6. CASE GrpcUp
  <2>1. SvcTypeOK' /\ Bound' = status[Grpc] /\ UNCHANGED unbinding
    BY <1>1, <1>2, <1>6, BindBound DEF GrpcUp, Calling, MaybeAddr, SvcBind
  <2> QED
    BY <1>1, <1>6, <2>1 DEF GrpcUp, Calling, Return, FollowInv, InGrpcCall
<1>7. CASE GrpcDown
  <2>1. CASE SvcStop /\ StillCalling
    <3>1. UNCHANGED <<loop, cur, status>>
      BY <2>1 DEF StillCalling, notifierVars
    <3> QED
      BY <1>1, <1>7, <2>1, <3>1, StopBound DEF GrpcDown, Calling, FollowInv, InGrpcCall
  <2>2. CASE SvcClose /\ Return
    BY <1>1, <1>7, <2>2, CloseBound
       DEF GrpcDown, Calling, Return, SvcClose, FollowInv, InGrpcCall
  <2> QED
    BY <1>7, <2>1, <2>2 DEF GrpcDown
<1>8. CASE AnnounceUp \/ AnnounceDown
  <2>1. UNCHANGED svcVars /\ UNCHANGED <<cur, status>> /\ cur = Announce
    BY <1>8 DEF AnnounceUp, AnnounceDown, Calling, Return, StillCalling, notifierVars
  <2> QED
    BY <1>1, <2>1, SvcStutter DEF FollowInv, InGrpcCall, svcVars
<1>9. ASSUME NEW l \in Listeners, Serve(l) PROVE FollowInv'
  <2>1. SvcTypeOK' /\ Bound' = Bound /\ UNCHANGED unbinding
    BY <1>1, <1>9, ServeBound DEF Serve, SvcServe
  <2> QED
    BY <1>1, <1>9, <2>1 DEF Serve, FollowInv, InGrpcCall, notifierVars
<1>10. ASSUME NEW w \in Conns, Announcing(w) PROVE FollowInv'
  BY <1>1, <1>10, SvcStutter
     DEF Announcing, FollowInv, InGrpcCall, svcVars, notifierVars
<1>11. CASE UNCHANGED vars
  BY <1>1, <1>11, SvcStutter DEF vars, FollowInv, InGrpcCall, svcVars, notifierVars
<1> QED
  BY <1>3, <1>4, <1>5, <1>6, <1>7, <1>8, <1>9, <1>10, <1>11 DEF Next, Notify, Callback

\* The initial state satisfies FollowInv.
LEMMA FollowInit == Init => FollowInv
<1> SUFFICES ASSUME Init PROVE FollowInv
  OBVIOUS
<1>1. NTypeOK
  BY NInitInv DEF Init, NInv
<1>2. SvcTypeOK
  <2>1. laddr \in Seq(Addr) /\ Len(laddr) = 0
    BY DEF Init, SvcInit
  <2>2. listener \in 0..Len(laddr)
    BY <2>1 DEF Init, SvcInit
  <2> QED
    BY <2>1, <2>2 DEF Init, SvcInit, SvcTypeOK
<1> QED
  BY <1>1, <1>2 DEF Init, NInit, SvcInit, FollowInv, Bound, InGrpcCall

\* The notifier and the gRPC service agree in every state: FollowInv is inductive.
THEOREM FollowInvariant == Spec => []FollowInv
BY FollowInit, FollowStep, PTL DEF Spec

\* Outside its own callback the gRPC service has the listener it was told to
\* have, on any host and after any number of changes.
THEOREM ListenerFollows == Spec => []ListenerFollowsStatus
<1>1. FollowInv => ListenerFollowsStatus
  BY DEF FollowInv, ListenerFollowsStatus, InGrpcCall
<1> QED
  BY <1>1, FollowInvariant, PTL
--------------------------------------------------------------------------------
\* A step of the loader is a step of LinkFollower, or leaves it alone.
LEMMA FollowerStep ==
    FollowInv /\ [Next]_vars => [Follower!Next]_(Follower!vars)
<1> SUFFICES ASSUME FollowInv, FollowInv', [Next]_vars
             PROVE  [Follower!Next]_(Follower!vars)
  BY FollowStep
<1> USE DEF Follower!Next, Follower!Tell, Follower!Follow, Follower!vars
<1>1. /\ NTypeOK /\ NTypeOK' /\ SvcTypeOK
      /\ status[Grpc] \in MaybeAddr /\ status'[Grpc] \in MaybeAddr
  BY DEF FollowInv, NTypeOK
<1>2. CASE UNCHANGED svcVars /\ UNCHANGED status
  BY <1>1, <1>2, SvcStutter
<1>3. CASE Quiet(Scan)
  <2>1. Bound' = Bound /\ loop # "call"
    BY <1>1, <1>3, SvcStutter, ScanStatus DEF Quiet
  <2>2. Bound = status[Grpc]
    BY <2>1 DEF FollowInv, InGrpcCall
  <2> QED
    BY <1>1, <2>1, <2>2 DEF MaybeAddr
<1>4. CASE GrpcUp
  <2>1. Bound' = status[Grpc] /\ UNCHANGED status
    BY <1>1, <1>4, BindBound DEF GrpcUp, Calling, MaybeAddr, Return
  <2>2. Bound # status[Grpc]
    BY <1>4 DEF GrpcUp, Calling, FollowInv, InGrpcCall
  <2> QED
    BY <2>1, <2>2
<1>5. CASE GrpcDown
  <2>1. CASE SvcStop /\ StillCalling
    BY <1>1, <2>1, StopBound DEF StillCalling, notifierVars
  <2>2. CASE SvcClose /\ Return
    <3>1. Bound' = status[Grpc] /\ UNCHANGED status
      BY <1>1, <1>5, <2>2, CloseBound DEF GrpcDown, Calling, Return
    <3>2. Bound # status[Grpc]
      BY <1>5 DEF GrpcDown, Calling, FollowInv, InGrpcCall
    <3> QED
      BY <3>1, <3>2
  <2> QED
    BY <1>5, <2>1, <2>2 DEF GrpcDown
<1>6. ASSUME NEW l \in Listeners, Serve(l) PROVE [Follower!Next]_(Follower!vars)
  BY <1>1, <1>6, ServeBound DEF Serve, notifierVars
<1>7. Host \/ Quiet(Start) \/ Quiet(Receiver) => UNCHANGED svcVars /\ UNCHANGED status
  BY DEF Host, HostChange, Quiet, Start, Receiver, Recvfrom, RecvError, Register
<1>8. AnnounceUp \/ AnnounceDown => UNCHANGED svcVars /\ UNCHANGED status
  BY DEF AnnounceUp, AnnounceDown, Return, StillCalling, notifierVars
<1>9. ASSUME NEW w \in Conns, Announcing(w) PROVE UNCHANGED svcVars /\ UNCHANGED status
  BY <1>9 DEF Announcing, notifierVars
<1>10. UNCHANGED vars => UNCHANGED svcVars /\ UNCHANGED status
  BY DEF vars, notifierVars
<1> QED
  BY <1>2, <1>3, <1>4, <1>5, <1>6, <1>7, <1>8, <1>9, <1>10 DEF Next, Notify, Callback

\* The notifier and ServiceCtxt implement LinkFollower: the service is told of
\* one change at a time and is bound to it before it is told of the next.
THEOREM LoaderFollowsLink == Spec => FollowsLink
<1>1. Init => Follower!Init
  <2>1. Init => status[Grpc] = NoAddr
    BY DEF Init, NInit
  <2>2. Init => Bound = NoAddr
    BY DEF Init, SvcInit, Bound
  <2> QED
    BY <2>1, <2>2 DEF Follower!Init
<1> QED
  BY <1>1, FollowInvariant, FollowerStep, PTL DEF Spec, FollowsLink, Follower!Spec
--------------------------------------------------------------------------------
\* While no service was told "down", what a goroutine checked is still so, and
\* while the server runs every listener is open and served or about to be.
AnnInv ==
    /\ SvcTypeOK
    /\ conn \in Nat /\ caddr \in Seq(Addr)
    /\ workers \in Seq(WorkerState) /\ Len(workers) = Len(caddr)
    /\ announced \in 0..Len(laddr)
    /\ \A w \in Conns : workers[w].msg \in 0..Len(laddr)
    /\ gs = "running" => /\ open = Listeners /\ serving \cup spawned = Listeners
                         /\ ~unbinding
    /\ ~toldDown => /\ ~crashed
                    /\ \A w \in Conns :
                         /\ workers[w].pc \in {"listener", "load"} => conn # 0
                         /\ workers[w].pc = "load" => listener # 0

\* A step of one announcing goroutine.
LEMMA WorkKeepsInv ==
    ASSUME AnnInv, NEW w \in Conns, Work(w), UNCHANGED <<svcVars, toldDown>>
    PROVE  AnnInv'
<1>1. SvcTypeOK' /\ listener \in 0..Len(laddr) /\ Len(laddr) \in Nat
  BY SvcStutter DEF AnnInv, SvcTypeOK
<1>2. UNCHANGED <<gs, laddr, listener, open, spawned, serving, unbinding, caddr, conn, toldDown>>
  BY DEF Work, CheckConn, CheckListener, LoadMessage, WriteOk, WriteError, svcVars
<1>3. Conns = 1..Len(workers) /\ Conns' = Conns /\ Listeners' = Listeners
  BY <1>2 DEF AnnInv, Conns, Listeners
<1>4. PICK s \in WorkerState : workers' = [workers EXCEPT ![w] = s]
  <2>1. workers[w] \in WorkerState
    BY <1>3 DEF AnnInv
  <2>2. ASSUME NEW label \in {"conn", "listener", "load", "write", "exit"}, Goto(w, label)
        PROVE  /\ [workers[w] EXCEPT !.pc = label] \in WorkerState
               /\ workers' = [workers EXCEPT ![w] = [workers[w] EXCEPT !.pc = label]]
    BY <2>1, <2>2 DEF Goto, WorkerState
  <2>3. conn \in Nat /\ listener \in Nat
    BY <1>1 DEF AnnInv
  <2>4. CASE CheckConn(w) \/ CheckListener(w)
    BY <2>2, <2>4 DEF CheckConn, CheckListener
  <2>5. CASE LoadMessage(w) \/ WriteOk(w) \/ WriteError(w)
    BY <2>3, <2>5 DEF LoadMessage, WriteOk, WriteError, WorkerState
  <2> QED
    BY <2>4, <2>5 DEF Work
<1>5. /\ workers' \in Seq(WorkerState) /\ Len(workers') = Len(workers)
      /\ workers'[w] = s /\ \A v \in Conns : v # w => workers'[v] = workers[v]
  BY <1>3, <1>4 DEF AnnInv
<1>6. /\ announced' \in 0..Len(laddr)
      /\ workers'[w].msg \in 0..Len(laddr)
      /\ ~toldDown => /\ ~crashed'
                      /\ workers'[w].pc \in {"listener", "load"} => conn # 0
                      /\ workers'[w].pc = "load" => listener # 0
  <2>1. /\ announced \in 0..Len(laddr) /\ workers[w].msg \in 0..Len(laddr)
        /\ workers[w] \in WorkerState
    BY <1>3 DEF AnnInv
  <2>2. CASE CheckConn(w)
    BY <1>3, <2>1, <2>2 DEF CheckConn, Goto, AnnInv, WorkerState
  <2>3. CASE CheckListener(w)
    BY <1>3, <2>1, <2>3 DEF CheckListener, Goto, AnnInv, WorkerState
  <2>4. CASE LoadMessage(w)
    <3>1. ~toldDown => conn # 0 /\ listener # 0
      BY <2>4 DEF LoadMessage, AnnInv
    <3>2. workers'[w] = [pc |-> "write", conn |-> conn, msg |-> listener]
      BY <1>3, <2>4 DEF LoadMessage, AnnInv
    <3>3. crashed' = (conn = 0 \/ listener = 0) /\ announced' = announced
      BY <2>4 DEF LoadMessage
    <3>4. ~toldDown => ~crashed'
      BY <3>1, <3>3
    <3> QED
      BY <1>1, <2>1, <3>2, <3>3, <3>4
  <2>5. CASE WriteOk(w) \/ WriteError(w)
    BY <1>1, <1>3, <2>1, <2>5 DEF WriteOk, WriteError, AnnInv
  <2> QED
    BY <2>2, <2>3, <2>4, <2>5 DEF Work
<1>7. ASSUME NEW v \in Conns
      PROVE  /\ workers'[v].msg \in 0..Len(laddr)
             /\ ~toldDown => /\ workers'[v].pc \in {"listener", "load"} => conn # 0
                             /\ workers'[v].pc = "load" => listener # 0
  <2>1. CASE v = w
    BY <1>6, <2>1
  <2>2. CASE v # w
    <3>1. workers'[v] = workers[v]
      BY <1>5, <2>2
    <3> QED
      BY <3>1 DEF AnnInv
  <2> QED
    BY <2>1, <2>2
<1>8. gs = "running" => /\ open = Listeners /\ serving \cup spawned = Listeners
                        /\ ~unbinding
  BY DEF AnnInv
<1>9. conn \in Nat /\ caddr \in Seq(Addr) /\ Len(workers) = Len(caddr)
  BY DEF AnnInv
<1> QED
  BY <1>1, <1>2, <1>3, <1>5, <1>6, <1>7, <1>8, <1>9 DEF AnnInv

\* A new connection and its goroutine.
LEMMA DialKeepsInv ==
    ASSUME AnnInv, NEW a \in Addr, AnnDial(a), UNCHANGED <<svcVars, toldDown>>
    PROVE  AnnInv'
<1>1. SvcTypeOK' /\ Len(laddr) \in Nat
  BY SvcStutter DEF AnnInv, SvcTypeOK
<1>2. UNCHANGED <<gs, laddr, listener, open, spawned, serving, unbinding, toldDown, announced,
                  crashed>>
  BY DEF AnnDial, svcVars
<1> DEFINE fresh == [pc |-> "conn", conn |-> 0, msg |-> 0]
<1>3. fresh \in WorkerState
  BY DEF WorkerState
<1>4. /\ workers' \in Seq(WorkerState) /\ Len(workers') = Len(caddr) + 1
      /\ workers'[Len(caddr) + 1] = fresh
      /\ \A w \in Conns : workers'[w] = workers[w]
  <2>1. workers' = Append(workers, fresh) /\ workers \in Seq(WorkerState)
    BY DEF AnnDial, AnnInv
  <2>2. Len(workers) = Len(caddr) /\ Conns = 1..Len(workers)
    BY DEF AnnInv, Conns
  <2> HIDE DEF fresh
  <2> QED
    BY <1>3, <2>1, <2>2
<1>5. /\ caddr' \in Seq(Addr) /\ Len(caddr') = Len(caddr) + 1
      /\ conn' = Len(caddr) + 1 /\ conn' \in Nat
  <2>1. caddr \in Seq(Addr)
    BY DEF AnnInv
  <2> QED
    BY <2>1 DEF AnnDial
<1>6. Conns' = Conns \cup {Len(caddr) + 1}
  BY <1>5 DEF AnnInv, Conns
<1>7. \A w \in Conns' :
        /\ workers'[w].msg \in 0..Len(laddr)
        /\ ~toldDown => /\ workers'[w].pc \in {"listener", "load"} => conn' # 0
                        /\ workers'[w].pc = "load" => listener # 0
  <2>1. fresh.msg \in 0..Len(laddr) /\ fresh.pc = "conn"
    BY <1>1
  <2>2. Len(caddr) + 1 # 0
    BY DEF AnnInv
  <2> QED
    BY <1>4, <1>5, <1>6, <2>1, <2>2 DEF AnnInv
<1>8. Listeners' = Listeners /\ Len(workers') = Len(caddr')
  BY <1>2, <1>4, <1>5 DEF Listeners
<1> HIDE DEF fresh
<1> QED
  BY <1>1, <1>2, <1>4, <1>5, <1>7, <1>8 DEF AnnInv

\* The gRPC callbacks and gs.Serve.
LEMMA SvcKeepsInv ==
    ASSUME AnnInv, UNCHANGED annVars, SvcTypeOK', toldDown => toldDown',
           \/ SvcBind(status[Grpc])
           \/ (SvcStop \/ SvcClose) /\ toldDown'
           \/ \E l \in Listeners : SvcServe(l)
    PROVE  AnnInv'
<1>1. Len(laddr) \in Nat /\ laddr \in Seq(Addr)
  BY DEF AnnInv, SvcTypeOK
<1>2. UNCHANGED <<conn, caddr, workers, announced, crashed>> /\ Conns' = Conns
  BY DEF annVars, Conns
<1>3. CASE SvcBind(status[Grpc])
  <2>1. Len(laddr') = Len(laddr) + 1 /\ listener' # 0
    BY <1>1, <1>3 DEF SvcBind
  <2>2. Listeners' = Listeners \cup {Len(laddr) + 1}
    BY <1>1, <2>1 DEF Listeners
  <2>3. gs' = "running" => /\ open' = Listeners' /\ serving' \cup spawned' = Listeners'
                           /\ ~unbinding'
    BY <1>3, <2>2 DEF SvcBind, AnnInv
  <2>4. 0..Len(laddr) \subseteq 0..Len(laddr')
    BY <1>1, <2>1
  <2> QED
    BY <1>2, <2>1, <2>3, <2>4 DEF AnnInv
<1>4. CASE (SvcStop \/ SvcClose) /\ toldDown'
  <2>1. UNCHANGED laddr
    BY <1>4 DEF SvcStop, SvcClose
  <2>2. gs' # "running"
    BY <1>4 DEF SvcStop, SvcClose, AnnInv, SvcTypeOK
  <2> QED
    BY <1>2, <1>4, <2>1, <2>2 DEF AnnInv
<1>5. ASSUME NEW l \in Listeners, SvcServe(l) PROVE AnnInv'
  <2>1. UNCHANGED <<gs, laddr, listener>> /\ Listeners' = Listeners
    BY <1>5 DEF SvcServe, Listeners
  <2>2. gs' = "running" => /\ open' = Listeners /\ serving' \cup spawned' = Listeners
                           /\ ~unbinding'
    BY <1>5, <2>1 DEF SvcServe, AnnInv
  <2> QED
    BY <1>2, <2>1, <2>2 DEF AnnInv
<1> QED
  BY <1>3, <1>4, <1>5

\* Each step keeps AnnInv.
LEMMA AnnStep == FollowInv /\ FollowInv' /\ AnnInv /\ [Next]_vars => AnnInv'
<1> SUFFICES ASSUME FollowInv, FollowInv', AnnInv, [Next]_vars PROVE AnnInv'
  OBVIOUS
<1>1. SvcTypeOK /\ SvcTypeOK' /\ status[Grpc] \in MaybeAddr /\ status[Announce] \in MaybeAddr
  BY DEF FollowInv, NTypeOK
<1>2. CASE UNCHANGED <<svcVars, annVars, toldDown>>
  BY <1>1, <1>2 DEF svcVars, annVars, AnnInv, Listeners, Conns
<1>3. Host \/ Notify => UNCHANGED <<svcVars, annVars, toldDown>>
  BY DEF Host, Notify, Quiet, envVars
<1>4. CASE GrpcUp
  BY <1>1, <1>4, SvcKeepsInv DEF GrpcUp, envVars
<1>5. CASE GrpcDown
  BY <1>1, <1>5, SvcKeepsInv DEF GrpcDown, NoteDown
<1>6. CASE AnnounceUp
  <2>1. CASE AnnDial(status[Announce])
    BY <1>1, <1>6, <2>1, DialKeepsInv DEF AnnounceUp, Calling, MaybeAddr, envVars
  <2>2. CASE AnnDialError(status[Announce])
    BY <1>2, <1>6, <2>2 DEF AnnounceUp, AnnDialError, envVars
  <2> QED
    BY <1>6, <2>1, <2>2 DEF AnnounceUp
<1>7. CASE AnnounceDown
  <2>1. toldDown' /\ UNCHANGED <<svcVars, caddr, workers, announced>>
    BY <1>7 DEF AnnounceDown, NoteDown, AnnClose, AnnForget
  <2>2. conn' \in Nat
    BY <1>7 DEF AnnounceDown, AnnClose, AnnForget, AnnInv
  <2> QED
    BY <1>1, <2>1, <2>2 DEF svcVars, AnnInv, Listeners, Conns
<1>8. ASSUME NEW l \in Listeners, Serve(l) PROVE AnnInv'
  BY <1>1, <1>8, SvcKeepsInv DEF Serve, envVars
<1>9. ASSUME NEW w \in Conns, Announcing(w) PROVE AnnInv'
  BY <1>9, WorkKeepsInv DEF Announcing, envVars
<1>10. UNCHANGED vars => UNCHANGED <<svcVars, annVars, toldDown>>
  BY DEF vars, envVars
<1> QED
  BY <1>2, <1>3, <1>4, <1>5, <1>6, <1>7, <1>8, <1>9, <1>10 DEF Next, Callback

\* The initial state satisfies AnnInv.
LEMMA AnnInitInv == Init => AnnInv
<1> SUFFICES ASSUME Init PROVE AnnInv
  OBVIOUS
<1>1. SvcTypeOK
  BY FollowInit DEF FollowInv
<1>2. Listeners = {} /\ Conns = {}
  BY DEF Init, SvcInit, AnnInit, Listeners, Conns
<1>3. /\ caddr \in Seq(Addr) /\ workers \in Seq(WorkerState) /\ Len(workers) = Len(caddr)
      /\ announced \in 0..Len(laddr) /\ conn \in Nat
  BY DEF Init, SvcInit, AnnInit
<1> QED
  BY <1>1, <1>2, <1>3 DEF Init, SvcInit, AnnInit, AnnInv

\* The announcing side's invariant, which relates listeners, connections and
\* workers, holds in every state.
THEOREM AnnInvariant == Spec => []AnnInv
BY AnnInitInv, AnnStep, FollowInvariant, PTL DEF Spec

\* A nil dereference needs a "down" call before it: with any number of
\* announcing goroutines, none of them can crash a daemon never told "down".
THEOREM NoCrashBeforeDown == Spec => []CrashNeedsDownCall
<1>1. AnnInv => CrashNeedsDownCall
  BY DEF AnnInv, CrashNeedsDownCall
<1> QED
  BY <1>1, AnnInvariant, PTL

\* Until the server is stopped, the announced listener is open and served, or
\* its goroutine is about to serve it.
THEOREM AnnouncedServed == Spec => []AnnouncedIsServed
<1>1. AnnInv => AnnouncedIsServed
  BY DEF AnnInv, AnnouncedIsServed, SvcTypeOK, Listeners
<1> QED
  BY <1>1, AnnInvariant, PTL
--------------------------------------------------------------------------------
InAnnounceCall == loop = "call" /\ cur = Announce

\* While nothing was lost, what the notifier has read of the host is still there.
NetPart ==
    /\ \A i \in Iface : flags[i] => ifs[i].up
    /\ \A k \in Observer : status[k] # NoAddr => Usable(status[k])

\* A goroutine writes to its own connection or to a later one, and the one of the
\* last dial has one that it can write to.
LastPart ==
    /\ \A w \in Conns : Usable(caddr[w])
    /\ status[Announce] # NoAddr /\ ~InAnnounceCall =>
           conn \in Conns /\ conn \in copen /\ workers[conn].pc # "exit"

DialPart ==
    /\ conn \in {0, Len(caddr)}
    /\ \A w \in Conns :
           workers[w].pc = "write" /\ ~crashed => workers[w].conn \in w..Len(caddr)

SurvInv == DialPart /\ (lost \/ (NetPart /\ LastPart))

\* An address that the host can use stays so while nothing is lost.
LEMMA UsableKept ==
    ASSUME NTypeOK, Host, ~lost', NEW a \in Addr, Usable(a)
    PROVE  Usable(a)'
<1>1. PICK i \in Iface : ifs[i].addr = a /\ ifs[i].up
  BY DEF Usable
<1>2. a # NoAddr
  OBVIOUS
<1>3. ifs'[i].up /\ ifs'[i].addr = a
  BY <1>1, <1>2 DEF Host, NTypeOK, HostTypeOK, Interfaces
<1> QED
  BY <1>1, <1>3 DEF Usable

\* A change of the host's interfaces.
LEMMA HostSurvives ==
    ASSUME NTypeOK, AnnInv, Host, SurvInv PROVE SurvInv'
<1>1. /\ UNCHANGED <<flags, status, loop, cur, annVars>>
      /\ lost => lost'
  BY DEF Host, HostChange
<1>2. DialPart'
  BY <1>1 DEF SurvInv, DialPart, Conns, annVars
<1>3. ASSUME ~lost' PROVE NetPart' /\ LastPart'
  <2>1. NetPart /\ LastPart
    BY <1>1, <1>3 DEF SurvInv
  <2>2. \A i \in Iface : ifs[i].up => ifs'[i].up
    BY <1>3 DEF Host, NTypeOK, HostTypeOK, Interfaces
  <2>3. \A k \in Observer : status[k] # NoAddr => Usable(status[k])'
    BY <1>1, <1>3, <2>1, UsableKept DEF NetPart, NTypeOK, MaybeAddr
  <2>4. \A w \in Conns : caddr[w] \in Addr
    BY DEF AnnInv, Conns
  <2>5. \A w \in Conns : Usable(caddr[w])'
    BY <1>1, <1>3, <2>1, <2>4, UsableKept DEF LastPart, annVars
  <2>6. NetPart'
    BY <1>1, <2>1, <2>2, <2>3 DEF NetPart, Usable
  <2> QED
    BY <1>1, <2>1, <2>5, <2>6 DEF LastPart, InAnnounceCall, annVars, Conns, Usable
<1> QED
  BY <1>2, <1>3 DEF SurvInv

\* The notifier's own steps: what it records was read, and is there.
LEMMA NetStays ==
    ASSUME NTypeOK, NetPart, Start \/ Receiver \/ Scan
    PROVE  NetPart'
<1>1. /\ flags \in [Iface -> BOOLEAN] /\ status \in [Observer -> MaybeAddr] /\ cur \in Observer
      /\ ifs \in Interfaces
  BY DEF NTypeOK, HostTypeOK
<1>2. CASE UNCHANGED <<ifs, flags, status>>
  BY <1>2 DEF NetPart, Usable
<1>3. ASSUME NEW k \in Observer, ListInterfaces(k) PROVE NetPart'
  BY <1>3 DEF ListInterfaces, NetPart, Usable
<1>4. ASSUME NEW k \in Observer, ListError(k) PROVE NetPart'
  <2>1. UNCHANGED <<ifs, flags>> /\ \A j \in Observer : status'[j] \in {status[j], NoAddr}
    BY <1>1, <1>4 DEF ListError
  <2> QED
    BY <2>1 DEF NetPart, Usable
<1>5. CASE ReadAddrs
  <2>1. CASE Matching(idx) /\ flags[idx]
    <3>1. ifs[idx].up /\ idx \in Iface
      BY <1>5, <2>1 DEF ReadAddrs, NetPart
    <3>2. Usable(ifs[idx].addr)
      BY <3>1 DEF Usable
    <3>3. UNCHANGED <<ifs, flags>>
          /\ \A j \in Observer : status'[j] \in {status[j], ifs[idx].addr}
      BY <1>1, <1>5, <2>1 DEF ReadAddrs, Decide
    <3> QED
      BY <3>2, <3>3 DEF NetPart, Usable
  <2>2. CASE ~(Matching(idx) /\ flags[idx])
    <3>1. flags[idx] \in BOOLEAN
      BY <1>1, <1>5 DEF ReadAddrs
    <3>2. UNCHANGED <<ifs, flags>> /\ \A j \in Observer : status'[j] \in {status[j], NoAddr}
      BY <1>1, <1>5, <2>2, <3>1 DEF ReadAddrs, Decide
    <3> QED
      BY <3>2 DEF NetPart, Usable
  <2> QED
    BY <2>1, <2>2
<1>6. CASE NoMatch
  <2>1. UNCHANGED <<ifs, flags>> /\ \A j \in Observer : status'[j] \in {status[j], NoAddr}
    BY <1>1, <1>6 DEF NoMatch, Decide
  <2> QED
    BY <2>1 DEF NetPart, Usable
<1>7. Start \/ Receiver \/ Emit \/ ReadError \/ ScanDone => UNCHANGED <<ifs, flags, status>>
  BY DEF Start, Receiver, Recvfrom, RecvError, Register, Emit, ReadError, ScanDone
<1> QED
  BY <1>2, <1>3, <1>4, <1>5, <1>6, <1>7 DEF Scan

\* The announcing goroutines: one that writes to the connection of the last dial
\* does not fail while that is open and its address usable.
LEMMA WorkSurvives ==
    ASSUME AnnInv, SurvInv, NEW w \in Conns, ~crashed, Work(w),
           UNCHANGED <<notifierVars, lost>>
    PROVE  SurvInv'
<1>1. Conns = 1..Len(workers) /\ Conns = 1..Len(caddr) /\ Len(caddr) \in Nat
  BY DEF AnnInv, Conns
<1>2. workers[w] \in WorkerState
  BY <1>1 DEF AnnInv
<1>3. UNCHANGED <<caddr, conn, copen>> /\ Conns' = Conns
  BY DEF Work, CheckConn, CheckListener, LoadMessage, WriteOk, WriteError, Conns
<1>4. \A v \in Conns : v # w => workers'[v] = workers[v]
  BY <1>1 DEF Work, CheckConn, CheckListener, LoadMessage, WriteOk, WriteError, Goto, AnnInv
<1>5. workers'[w].pc = "write" /\ ~crashed' => workers'[w].conn = conn /\ conn # 0
  <2>1. CASE CheckConn(w)
    BY <1>1, <1>2, <2>1 DEF CheckConn, Goto, AnnInv, WorkerState
  <2>2. CASE CheckListener(w)
    BY <1>1, <1>2, <2>2 DEF CheckListener, Goto, AnnInv, WorkerState
  <2>3. CASE LoadMessage(w)
    <3>1. workers'[w] = [pc |-> "write", conn |-> conn, msg |-> listener]
      BY <1>1, <2>3 DEF LoadMessage, AnnInv
    <3>2. crashed' = (conn = 0 \/ listener = 0)
      BY <2>3 DEF LoadMessage
    <3>3. conn = 0 => crashed'
      BY <3>2, Zenon
    <3>4. workers'[w].conn = conn
      BY <3>1
    <3> QED
      BY <3>3, <3>4
  <2>4. CASE WriteOk(w) \/ WriteError(w)
    BY <1>1, <2>4 DEF WriteOk, WriteError, AnnInv
  <2> QED
    BY <2>1, <2>2, <2>3, <2>4 DEF Work
<1>6. DialPart'
  BY <1>1, <1>3, <1>4, <1>5 DEF SurvInv, DialPart
<1>7. ASSUME ~lost PROVE NetPart' /\ LastPart'
  <2>1. NetPart /\ LastPart
    BY <1>7 DEF SurvInv
  <2>2. NetPart'
    BY <2>1 DEF NetPart, notifierVars, Usable
  <2>3. ASSUME conn = w, conn \in copen PROVE ~WriteError(w)
    <3>1. workers[w].pc = "write" => workers[w].conn = conn
      <4>1. w = Len(caddr)
        BY <1>1, <2>3 DEF SurvInv, DialPart
      <4>2. workers[w].pc = "write" => workers[w].conn \in w..Len(caddr)
        BY DEF SurvInv, DialPart
      <4> QED
        BY <1>1, <2>3, <4>1, <4>2
    <3>2. Usable(caddr[w])
      BY <2>1 DEF LastPart
    <3> QED
      BY <2>3, <3>1, <3>2 DEF WriteError
  <2>4. ~WriteError(w) => workers'[w].pc # "exit"
    <3>1. CASE CheckConn(w) \/ CheckListener(w)
      BY <1>1, <1>2, <3>1 DEF CheckConn, CheckListener, Goto, AnnInv, WorkerState
    <3>2. CASE LoadMessage(w) \/ WriteOk(w)
      BY <1>1, <3>2 DEF LoadMessage, WriteOk, AnnInv
    <3> QED
      BY <3>1, <3>2 DEF Work
  <2>5. UNCHANGED <<status, loop, cur, ifs>>
    BY DEF notifierVars
  <2> QED
    BY <1>3, <1>4, <2>1, <2>2, <2>3, <2>4, <2>5 DEF LastPart, InAnnounceCall, Usable
<1> QED
  BY <1>6, <1>7 DEF SurvInv

\* A dial while nothing was lost: the new connection can be written to.
LEMMA DialSurvives ==
    ASSUME AnnInv, SurvInv, NEW a \in Addr, a = status[Announce], AnnDial(a), Announce \in Observer,
           UNCHANGED <<ifs, flags, status, lost>>, loop' # "call"
    PROVE  SurvInv'
<1> DEFINE n == Len(caddr) + 1
<1>1. /\ Conns = 1..Len(caddr) /\ Len(caddr) \in Nat
      /\ workers \in Seq(WorkerState) /\ Len(workers) = Len(caddr)
  BY DEF AnnInv, Conns
<1>2. /\ Len(caddr') = n /\ caddr'[n] = a /\ \A w \in Conns : caddr'[w] = caddr[w]
      /\ conn' = n /\ copen' = copen \cup {n} /\ UNCHANGED crashed
  BY <1>1 DEF AnnDial, AnnInv
<1> DEFINE fresh == [pc |-> "conn", conn |-> 0, msg |-> 0]
<1>3. fresh \in WorkerState
  BY DEF WorkerState
<1>4. workers' = Append(workers, fresh)
  BY DEF AnnDial
<1>5. fresh.pc = "conn"
  OBVIOUS
<1> HIDE DEF fresh
<1>6. workers'[n] = fresh /\ \A w \in Conns : workers'[w] = workers[w]
  BY <1>1, <1>3, <1>4
<1>7. Conns' = Conns \cup {n}
  BY <1>1, <1>2 DEF Conns
<1>8. DialPart'
  BY <1>1, <1>2, <1>5, <1>6, <1>7 DEF SurvInv, DialPart
<1>9. ASSUME ~lost PROVE NetPart' /\ LastPart'
  <2>1. NetPart /\ LastPart
    BY <1>9 DEF SurvInv
  <2>2. NetPart'
    BY <2>1 DEF NetPart, Usable
  <2>3. Usable(a)
    BY <2>1 DEF NetPart
  <2> QED
    BY <1>1, <1>2, <1>5, <1>6, <1>7, <2>1, <2>2, <2>3 DEF LastPart, InAnnounceCall, Usable
<1> QED
  BY <1>8, <1>9 DEF SurvInv

\* Each step keeps SurvInv.
LEMMA SurvStep == FollowInv /\ AnnInv /\ SurvInv /\ [Next]_vars => SurvInv'
<1> SUFFICES ASSUME FollowInv, AnnInv, SurvInv, [Next]_vars PROVE SurvInv'
  OBVIOUS
<1>1. NTypeOK /\ Announce \in Observer /\ status[Announce] \in MaybeAddr
  BY DEF FollowInv, NTypeOK
<1>2. CASE Host
  BY <1>1, <1>2, HostSurvives
<1>3. CASE Notify
  <2>1. /\ Start \/ Receiver \/ Scan
        /\ UNCHANGED <<annVars, lost>>
    BY <1>3 DEF Notify, Quiet, envVars
  <2>2. DialPart'
    BY <2>1 DEF SurvInv, DialPart, annVars, Conns
  <2>3. /\ ifs' = ifs
        /\ ~InAnnounceCall' => ~InAnnounceCall /\ status'[Announce] = status[Announce]
    <3>1. CASE Start \/ Receiver
      BY <3>1 DEF Start, Receiver, Recvfrom, RecvError, Register, InAnnounceCall
    <3>2. CASE Scan
      BY <1>1, <3>2, ScanStatus
         DEF InAnnounceCall, Scan, Emit, ListInterfaces, ListError, ReadAddrs, ReadError, NoMatch,
             ScanDone
    <3> QED
      BY <2>1, <3>1, <3>2
  <2>4. NetPart => NetPart'
    BY <1>1, <2>1, NetStays
  <2>5. LastPart => LastPart'
    BY <2>1, <2>3 DEF LastPart, InAnnounceCall, annVars, Conns, Usable
  <2> QED
    BY <2>1, <2>2, <2>4, <2>5 DEF SurvInv
<1>4. CASE \/ GrpcUp \/ GrpcDown \/ \E l \in Listeners : Serve(l)
  <2>1. /\ UNCHANGED <<ifs, flags, status, cur, annVars, lost>>
        /\ UNCHANGED loop \/ (loop' = "scan" /\ cur = Grpc)
    BY <1>4 DEF GrpcUp, GrpcDown, Serve, Calling, StillCalling, Return, NoteDown, envVars,
         notifierVars
  <2> QED
    BY <2>1 DEF SurvInv, DialPart, NetPart, LastPart, InAnnounceCall, annVars, Conns, Usable
<1>5. CASE AnnounceUp
  <2>1. /\ UNCHANGED <<ifs, flags, status, lost>> /\ loop' # "call"
        /\ status[Announce] \in Addr
    BY <1>1, <1>5 DEF AnnounceUp, Return, Calling, MaybeAddr, envVars
  <2>2. CASE AnnDial(status[Announce])
    BY <1>1, <2>1, <2>2, DialSurvives
  <2>3. CASE AnnDialError(status[Announce])
    <3>1. ~NetPart
      BY <1>1, <2>1, <2>3 DEF AnnDialError, NetPart
    <3> QED
      BY <2>1, <2>3, <3>1 DEF AnnDialError, SurvInv, DialPart, annVars, Conns
  <2> QED
    BY <1>5, <2>2, <2>3 DEF AnnounceUp
<1>6. CASE AnnounceDown
  <2>1. /\ UNCHANGED <<ifs, flags, status, lost, caddr, workers>> /\ status[Announce] = NoAddr
        /\ conn' \in {0, conn} /\ (crashed => crashed')
    BY <1>6 DEF AnnounceDown, Calling, StillCalling, Return, NoteDown, AnnClose, AnnForget,
         notifierVars
  <2> QED
    BY <2>1 DEF SurvInv, DialPart, NetPart, LastPart, Conns, Usable
<1>7. ASSUME NEW w \in Conns, Announcing(w) PROVE SurvInv'
  BY <1>7, WorkSurvives DEF Announcing, envVars
<1>8. CASE UNCHANGED vars
  BY <1>8 DEF vars, notifierVars, annVars, envVars, SurvInv, DialPart, NetPart, LastPart,
       InAnnounceCall, Conns, Usable
<1> QED
  BY <1>2, <1>3, <1>4, <1>5, <1>6, <1>7, <1>8 DEF Next, Callback

\* The initial state satisfies SurvInv.
LEMMA SurvInit == Init => SurvInv
<1> SUFFICES ASSUME Init PROVE SurvInv
  OBVIOUS
<1>1. Conns = {} /\ conn = 0 /\ Len(caddr) = 0
  BY DEF Init, AnnInit, Conns
<1>2. NetPart
  BY DEF Init, NInit, NetPart
<1> QED
  BY <1>1, <1>2 DEF Init, NInit, SurvInv, DialPart, LastPart

\* On a host that only gains interfaces and addresses the announcing goroutine of
\* the last dial goes on, however lookups fail and the link goes up and down.
THEOREM AnnouncerGoesOn == Spec => []AnnouncerSurvives
<1>1. SurvInv => AnnouncerSurvives
  BY DEF SurvInv, LastPart, InAnnounceCall, AnnouncerSurvives, Running
<1>2. Spec => []SurvInv
  BY SurvInit, SurvStep, FollowInvariant, AnnInvariant, PTL DEF Spec
<1> QED
  BY <1>1, <1>2, PTL
--------------------------------------------------------------------------------
\* What of TypeOK the invariants above do not say.
RestTypeOK ==
    /\ copen \in SUBSET Conns
    /\ changes \in 0..MaxPolls
    /\ crashed \in BOOLEAN /\ lost \in BOOLEAN /\ toldDown \in BOOLEAN

\* The connections that are open were dialled.
LEMMA CopenStep ==
    ASSUME AnnInv, copen \in SUBSET Conns, [Next]_vars
    PROVE  (copen \in SUBSET Conns)'
<1>1. Len(caddr) \in Nat /\ Conns = 1..Len(caddr)
  BY DEF AnnInv, Conns
<1>2. CASE UNCHANGED <<caddr, copen>>
  BY <1>2 DEF Conns
<1>3. ASSUME NEW a, AnnDial(a) PROVE (copen \in SUBSET Conns)'
  <2>1. Len(caddr') = Len(caddr) + 1 /\ copen' = copen \cup {Len(caddr) + 1}
    BY <1>3 DEF AnnDial, AnnInv
  <2>2. Conns' = Conns \cup {Len(caddr) + 1}
    BY <1>1, <2>1 DEF Conns
  <2>3. copen' \subseteq Conns'
    BY <2>1, <2>2
  <2> QED
    BY <2>3
<1>4. CASE AnnClose
  BY <1>4 DEF AnnClose, Conns
<1>5. \/ UNCHANGED <<caddr, copen>> \/ AnnClose
      \/ \E a \in {status[Announce]} : AnnDial(a)
  BY DEF Next, Host, Notify, Quiet, Callback, GrpcUp, GrpcDown, AnnounceUp, AnnDialError,
       AnnounceDown, AnnForget, Serve, Announcing, Work, CheckConn, CheckListener, LoadMessage,
       WriteOk, WriteError, vars, annVars
<1> QED
  BY <1>2, <1>3, <1>4, <1>5

\* The flags and the counter of changes.
LEMMA FlagsStep ==
    ASSUME RestTypeOK, [Next]_vars
    PROVE  (/\ changes \in 0..MaxPolls
            /\ crashed \in BOOLEAN /\ lost \in BOOLEAN /\ toldDown \in BOOLEAN)'
<1>1. CASE Host
  <2>1. changes \in Nat /\ changes + 1 <= MaxPolls /\ MaxPolls \in Nat
    BY <1>1, LoaderAssumption DEF Host, Polls, RestTypeOK
  <2>2. changes' \in 0..MaxPolls
    BY <1>1, <2>1 DEF Host
  <2>3. lost' \in BOOLEAN
    BY <1>1 DEF Host
  <2> QED
    BY <1>1, <2>2, <2>3 DEF Host, annVars, RestTypeOK
<1>2. CASE UNCHANGED <<changes, crashed, lost, toldDown>>
  BY <1>2 DEF RestTypeOK
<1>3. CASE Callback
  <2>1. UNCHANGED <<changes, lost>> /\ toldDown' \in {toldDown, TRUE}
    BY <1>3 DEF Callback, GrpcUp, GrpcDown, AnnounceUp, AnnounceDown, NoteDown, envVars
  <2>2. crashed' = crashed \/ crashed' = (conn = 0)
    BY <1>3 DEF Callback, GrpcUp, GrpcDown, AnnounceUp, AnnDial, AnnDialError, AnnounceDown,
         AnnClose, AnnForget, annVars
  <2> QED
    BY <2>1, <2>2 DEF RestTypeOK
<1>4. ASSUME NEW w \in Conns, Announcing(w)
      PROVE  /\ UNCHANGED <<changes, lost, toldDown>>
             /\ crashed' = crashed \/ crashed' = (conn = 0 \/ listener = 0)
  BY <1>4 DEF Announcing, Work, CheckConn, CheckListener, LoadMessage, WriteOk, WriteError, envVars
<1>5. ASSUME NEW w \in Conns, Announcing(w)
      PROVE  (/\ changes \in 0..MaxPolls
              /\ crashed \in BOOLEAN /\ lost \in BOOLEAN /\ toldDown \in BOOLEAN)'
  BY <1>4, <1>5 DEF RestTypeOK
<1>6. Notify \/ (\E l \in Listeners : Serve(l)) \/ UNCHANGED vars
      => UNCHANGED <<changes, crashed, lost, toldDown>>
  BY DEF Notify, Quiet, Serve, vars, annVars, envVars
<1> QED
  BY <1>1, <1>2, <1>3, <1>5, <1>6 DEF Next

\* The table, the notifier, the two services and their goroutines keep their types,
\* for any number of interfaces, addresses and dials.
THEOREM TypeCorrect == Spec => []TypeOK
<1>1. Init => RestTypeOK
  <2> SUFFICES ASSUME Init PROVE RestTypeOK
    OBVIOUS
  <2>1. copen = {} /\ changes = 0
    BY DEF Init, AnnInit
  <2>2. crashed \in BOOLEAN /\ lost \in BOOLEAN /\ toldDown \in BOOLEAN
    BY DEF Init, AnnInit
  <2>3. changes \in 0..MaxPolls /\ copen \in SUBSET Conns
    BY <2>1, LoaderAssumption
  <2> QED
    BY <2>2, <2>3 DEF RestTypeOK
<1>2. AnnInv /\ RestTypeOK /\ [Next]_vars => RestTypeOK'
  BY CopenStep, FlagsStep DEF RestTypeOK
<1>3. FollowInv /\ AnnInv /\ SurvInv /\ RestTypeOK => TypeOK
  <2> SUFFICES ASSUME FollowInv, AnnInv, SurvInv, RestTypeOK PROVE TypeOK
    OBVIOUS
  <2>1. Len(caddr) \in Nat /\ conn \in 0..Len(caddr)
    BY DEF AnnInv, SurvInv, DialPart
  <2>2. AnnTypeOK
    BY <2>1 DEF AnnInv, RestTypeOK, AnnTypeOK
  <2> QED
    BY <2>2 DEF FollowInv, RestTypeOK, TypeOK
<1> QED
  BY <1>1, <1>2, <1>3, SurvInit, SurvStep, FollowInvariant, AnnInvariant, PTL DEF Spec
================================================================================
