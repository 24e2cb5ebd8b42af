---------------------------- MODULE AnnounceService ----------------------------
(***************************************************************************)
(* service.AnnounceService: each time the link comes up it dials a UDP     *)
(* multicast socket and starts a goroutine that announces, every second,   *)
(* the address of ServiceCtxt's listener.  The goroutines read s.conn and  *)
(* s.ctx.listener while the callbacks of the two services write them.      *)
(***************************************************************************)
EXTENDS ServiceCtxt

VARIABLES
    caddr,      \* the local address of every connection dialled so far, in order
    conn,       \* s.conn: an index into caddr, 0 for nil
    copen,      \* the connections that are not closed
    workers,    \* the goroutine started with each connection: where it is, what it holds
    announced,  \* the listener whose address was last sent to the group, 0 for none
    crashed     \* a nil pointer was dereferenced; nothing recovers, the daemon is gone

annVars == <<caddr, conn, copen, workers, announced, crashed>>

Conns == 1..Len(caddr)
WorkerState == [pc : {"conn", "listener", "load", "write", "exit"}, conn : Nat, msg : Nat]

AnnTypeOK ==
    /\ caddr \in Seq(Addr)
    /\ conn \in 0..Len(caddr)
    /\ copen \in SUBSET Conns
    /\ workers \in Seq(WorkerState) /\ Len(workers) = Len(caddr)
    /\ announced \in 0..Len(laddr)
    /\ crashed \in BOOLEAN

AnnInit ==
    /\ caddr = <<>>
    /\ conn = 0
    /\ copen = {}
    /\ workers = <<>>
    /\ announced = 0
    /\ crashed = FALSE

Running(w) == w \in Conns /\ workers[w].pc # "exit"
--------------------------------------------------------------------------------
\* Mutant of AnnDial: no goroutine is started.
AnnDialOnly(a) ==
    /\ Assigned(a)
    /\ caddr' = Append(caddr, a)
    /\ conn' = Len(caddr) + 1
    /\ copen' = copen \cup {Len(caddr) + 1}
    /\ UNCHANGED <<workers, announced, crashed>>

\* Mutant of AnnDial: a goroutine that still runs is taken over.
AnnDialReuse(a) ==
    /\ Assigned(a)
    /\ caddr' = Append(caddr, a)
    /\ conn' = Len(caddr) + 1
    /\ copen' = copen \cup {Len(caddr) + 1}
    /\ workers' = Append(workers,
           [pc |-> IF \E w \in Conns : Running(w) THEN "exit" ELSE "conn", conn |-> 0, msg |-> 0])
    /\ UNCHANGED <<announced, crashed>>

\* bindInterface: the dial succeeds; the connection an earlier call left in
\* s.conn is overwritten, not closed, and its goroutine goes on.
AnnDial(a) ==
    /\ Assigned(a)
    /\ caddr' = Append(caddr, a)
    /\ conn' = Len(caddr) + 1
    /\ copen' = copen \cup {Len(caddr) + 1}
    /\ workers' = Append(workers, [pc |-> "conn", conn |-> 0, msg |-> 0])
    /\ UNCHANGED <<announced, crashed>>

\* bindInterface: the dial fails; the caller drops the error and nothing retries.
AnnDialError(a) ==
    /\ ~Usable(a)
    /\ UNCHANGED annVars

\* unbindInterface, s.conn.Close(): a nil connection is a nil dereference.
AnnClose ==
    /\ conn = 0 \/ conn \in copen
    /\ crashed' = (conn = 0)
    /\ copen' = copen \ {conn}
    /\ UNCHANGED <<caddr, conn, workers, announced>>

\* unbindInterface, s.conn = nil.
AnnForget ==
    /\ conn # 0 /\ conn \notin copen
    /\ conn' = 0
    /\ UNCHANGED <<caddr, copen, workers, announced, crashed>>
--------------------------------------------------------------------------------
Goto(w, label) == workers' = [workers EXCEPT ![w].pc = label]

\* work: s.conn != nil; if not, sleep a second and try again.
CheckConn(w) ==
    /\ Running(w) /\ workers[w].pc = "conn"
    /\ conn # 0
    /\ Goto(w, "listener")
    /\ UNCHANGED <<caddr, conn, copen, announced, crashed>>

\* Mutant of CheckListener: only s.conn is checked.
SkipListenerCheck(w) ==
    /\ Running(w) /\ workers[w].pc = "listener"
    /\ Goto(w, "load")
    /\ UNCHANGED <<caddr, conn, copen, announced, crashed>>

\* work: s.ctx.listener != nil.
CheckListener(w) ==
    /\ Running(w) /\ workers[w].pc = "listener"
    /\ Goto(w, IF listener # 0 THEN "load" ELSE "conn")
    /\ UNCHANGED <<caddr, conn, copen, announced, crashed>>

\* Mutant of LoadMessage: the message is made once and kept.
KeepMessage(w) ==
    /\ Running(w) /\ workers[w].pc = "load"
    /\ crashed' = (conn = 0 \/ listener = 0)
    /\ workers' = [workers EXCEPT ![w] =
           [pc |-> "write", conn |-> conn, msg |-> IF announced = 0 THEN listener ELSE announced]]
    /\ UNCHANGED <<caddr, conn, copen, announced>>

\* work: both are read again for the call, and either may be nil by now.
LoadMessage(w) ==
    /\ Running(w) /\ workers[w].pc = "load"
    /\ crashed' = (conn = 0 \/ listener = 0)
    /\ workers' = [workers EXCEPT ![w] = [pc |-> "write", conn |-> conn, msg |-> listener]]
    /\ UNCHANGED <<caddr, conn, copen, announced>>

\* work: the datagram is sent.
WriteOk(w) ==
    /\ Running(w) /\ workers[w].pc = "write"
    /\ workers[w].conn \in copen /\ Assigned(caddr[workers[w].conn])
    /\ announced' = workers[w].msg
    /\ workers' = [workers EXCEPT ![w] = [pc |-> "conn", conn |-> 0, msg |-> 0]]
    /\ UNCHANGED <<caddr, conn, copen, crashed>>

\* work: Write fails, the goroutine ends.
WriteError(w) ==
    /\ Running(w) /\ workers[w].pc = "write"
    /\ workers[w].conn \notin copen \/ ~Usable(caddr[workers[w].conn])
    /\ workers' = [workers EXCEPT ![w] = [pc |-> "exit", conn |-> 0, msg |-> 0]]
    /\ UNCHANGED <<caddr, conn, copen, announced, crashed>>

Work(w) ==
    CheckConn(w) \/ CheckListener(w) \/ LoadMessage(w) \/ WriteOk(w) \/ WriteError(w)
================================================================================
