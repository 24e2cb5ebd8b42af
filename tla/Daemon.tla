--------------------------------- MODULE Daemon ---------------------------------
(***************************************************************************)
(* The process on Linux (main_linux.go): go-daemon's Reborn makes it, its  *)
(* main goroutine ends in ServeSignals, which calls a handler for each     *)
(* signal in turn, and a second goroutine, worker, starts the services and *)
(* stops them when the handler says so, over the unbuffered channels stop  *)
(* and done.  The handlers return nil, so main never comes to the end that *)
(* logs "daemon terminated" and releases the pid file.                     *)
(***************************************************************************)
EXTENDS HostProcess

CONSTANTS
    MaxSignals,   \* bound: how many signals are sent to the process
    QueueSize     \* the capacity of ServeSignals' channel, 8 in the code

ASSUME DaemonAssumption == MaxSignals \in Nat /\ QueueSize \in Nat

Signal == {"QUIT", "TERM", "HUP"}

VARIABLES
    sent,       \* signals sent so far
    queue,      \* delivered to ServeSignals' channel, not yet handled
    serve,      \* ServeSignals: "off" (not called), "wait", "stop" (at stop <-),
                \* "done" (at <-done), "returned"
    handling,   \* the signal being handled
    worker,     \* worker: "off", "start", "wait" (at <-stop), "stopping",
                \* "done" (at done <-), "end"
    demands     \* ghost: how many handlers came to stop <- in this process

goVars == <<queue, serve, handling, worker, demands>>
daemonVars == <<sent, goVars>>

DaemonTypeOK ==
    /\ sent \in 0..MaxSignals
    /\ queue \in Seq(Signal) /\ Len(queue) <= QueueSize
    /\ serve \in {"off", "wait", "stop", "done", "returned"}
    /\ handling \in Signal
    /\ worker \in {"off", "start", "wait", "stopping", "done", "end"}
    /\ demands \in 0..MaxSignals

DaemonInit ==
    /\ sent = 0 /\ queue = <<>> /\ serve = "off" /\ handling = "HUP"
    /\ worker = "off" /\ demands = 0

\* The goroutines of a process that has ended, or has not come to start any.
NoGoroutines ==
    /\ queue' = <<>> /\ serve' = "off" /\ handling' = "HUP" /\ worker' = "off" /\ demands' = 0
--------------------------------------------------------------------------------
\* main without -s: Reborn leaves a child, which goes on; the parent returns.
Reborn ==
    /\ os = "linux" /\ Launched
    /\ NoGoroutines /\ UNCHANGED sent

\* main: prg.Init(), whose error is ignored, and go worker().
Main ==
    /\ os = "linux" /\ Initialised
    /\ worker' = "start"
    /\ UNCHANGED <<sent, queue, serve, handling, demands>>

\* main: ServeSignals installs its channel.
ServeSignals ==
    /\ os = "linux" /\ proc = "up" /\ serve = "off"
    /\ serve' = "wait"
    /\ UNCHANGED <<procVars, sent, queue, handling, worker, demands>>

\* A signal, from -s or from elsewhere: it ends a process that does not catch it
\* yet, else Go's runtime queues it, or drops it when the channel is full.
Kill ==
    /\ os = "linux" /\ proc # "none" /\ serve = "off" /\ sent < MaxSignals
    /\ Ended("signal")
    /\ sent' = sent + 1
    /\ NoGoroutines

Deliver(sig) ==
    /\ proc = "up" /\ serve # "off" /\ sent < MaxSignals
    /\ sent' = sent + 1
    /\ queue' = IF Len(queue) < QueueSize THEN Append(queue, sig) ELSE queue
    /\ UNCHANGED <<procVars, serve, handling, worker, demands>>

\* ServeSignals goes on for as long as its handlers return nil.
Returns(err) == serve' = IF err = "nil" THEN "wait" ELSE "returned"

\* ServeSignals takes the next signal; reloadHandler only logs.
TakeSignal ==
    /\ serve = "wait" /\ queue # <<>>
    /\ handling' = Head(queue) /\ queue' = Tail(queue)
    /\ IF Head(queue) = "HUP"
           THEN Returns("nil") /\ UNCHANGED demands
           ELSE serve' = "stop" /\ demands' = demands + 1
    /\ UNCHANGED <<procVars, sent, worker>>

\* Mutant of StopRendezvous: a SIGTERM ends worker at once.
StopRendezvousEnds ==
    /\ serve = "stop" /\ worker = "wait"
    /\ worker' = IF handling = "QUIT" THEN "stopping" ELSE "end"
    /\ IF handling = "QUIT" THEN serve' = "done" ELSE Returns("nil")
    /\ UNCHANGED <<procVars, sent, queue, handling, demands>>

\* termHandler's rendezvous on stop; a SIGQUIT then waits for done.
StopRendezvous ==
    /\ serve = "stop" /\ worker = "wait"
    /\ worker' = "stopping"
    /\ IF handling = "QUIT" THEN serve' = "done" ELSE Returns("nil")
    /\ UNCHANGED <<procVars, sent, queue, handling, demands>>

\* termHandler's rendezvous on done.
DoneRendezvous ==
    /\ serve = "done" /\ worker = "done"
    /\ worker' = "end"
    /\ Returns("nil")
    /\ UNCHANGED <<procVars, sent, queue, handling, demands>>

\* worker: prg.Start(), then it waits for stop.
StartServices ==
    /\ worker = "start" /\ Started
    /\ worker' = "wait"
    /\ UNCHANGED <<sent, queue, serve, handling, demands>>

\* Mutant of StopServices: done is sent and prg.Stop is not called.
DoneWithoutStop ==
    /\ worker = "stopping"
    /\ worker' = "done"
    /\ UNCHANGED <<procVars, sent, queue, serve, handling, demands>>

\* Mutant of StopServices: worker ends without sending on done.
StopWithoutDone ==
    /\ worker = "stopping" /\ Stopped
    /\ worker' = "end"
    /\ UNCHANGED <<sent, queue, serve, handling, demands>>

\* worker: prg.Stop(), then it sends on done.
StopServices ==
    /\ worker = "stopping" /\ Stopped
    /\ worker' = "done"
    /\ UNCHANGED <<sent, queue, serve, handling, demands>>

Handle == ServeSignals \/ TakeSignal \/ StopRendezvous \/ DoneRendezvous
Work == StartServices \/ StopServices
--------------------------------------------------------------------------------
\* The handler has been asked to terminate and has not returned from it.
Terminating == serve \in {"stop", "done"}
================================================================================
