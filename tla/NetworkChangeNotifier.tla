------------------------- MODULE NetworkChangeNotifier -------------------------
(***************************************************************************)
(* util.NetworkChangeNotifier: a change of the network wakes, through the  *)
(* unbuffered channel emits, a goroutine that polls the interface table    *)
(* and calls each observer whose recorded status no longer agrees with it. *)
(*                                                                         *)
(* On Linux another goroutine receives from a netlink socket and sends on  *)
(* emits.  The messages themselves are never looked at, so the socket's    *)
(* queue is a count; the kernel drops what does not fit and makes the next *)
(* receive fail once.  On Windows the system calls back, in a thread of    *)
(* its own for each change, and that thread blocks in the send on emits.   *)
(* A lookup is not atomic: the flags come from net.Interfaces, the         *)
(* addresses from one later call per interface, and either may fail.       *)
(***************************************************************************)
EXTENDS HostNetwork

CONSTANTS
    Observer,   \* the subscribers of the notifier
    Systems,    \* the systems the loader may have been built for
    QueueMax    \* netlink messages the socket buffer holds

ASSUME NotifierAssumption ==
    QueueMax \in Nat \ {0} /\ Systems \subseteq {"linux", "windows"}

VARIABLES
    pending,    \* netlink messages in the socket buffer, or callback threads at emits <-
    overrun,    \* a message was dropped: the next Recvfrom returns ENOBUFS
    recv,       \* Linux' receiver goroutine: "off", "emit" (at n.emits <-), "recv";
                \* Windows' init: the registration it is at, then "callbacks"
    loop,       \* notifier goroutine: "off", "select", "scan", "read", "call"
    todo,       \* observers the range over n.observers has not reached yet
    cur,        \* the observer being looked up or called
    flags,      \* per interface, the flags net.Interfaces() returned
    idx,        \* the interface whose addresses are read next
    misread,    \* ghost: an observer's last lookup met a failing system call
    status      \* n.status: what each observer was last told

nVars == <<pending, overrun, recv, loop, todo, cur, flags, idx, misread, status>>
notifierVars == <<ifs, pending, overrun, recv, loop, todo, cur, flags, idx, misread,
                  status>>

Windows == recv \in {"interfaces", "addresses", "callbacks"}

NTypeOK ==
    /\ HostTypeOK
    /\ pending \in Nat /\ (~Windows => pending <= QueueMax)
    /\ overrun \in BOOLEAN
    /\ recv \in {"off", "emit", "recv", "interfaces", "addresses", "callbacks"}
    /\ loop \in {"off", "select", "scan", "read", "call"}
    /\ todo \in SUBSET Observer
    /\ cur \in Observer
    /\ flags \in [Iface -> BOOLEAN]
    /\ idx \in 1..(NIfaces + 1)
    /\ misread \in [Observer -> BOOLEAN]
    /\ status \in [Observer -> MaybeAddr]
--------------------------------------------------------------------------------
\* Subscribe has recorded every observer with a nil status; Start has not run.
NInit ==
    /\ ifs \in Interfaces
    /\ pending = 0
    /\ overrun = FALSE
    /\ recv = "off"
    /\ loop = "off"
    /\ todo = {}
    /\ cur \in Observer
    /\ flags = [i \in Iface |-> FALSE]
    /\ idx = 1
    /\ misread = [k \in Observer |-> FALSE]
    /\ status = [k \in Observer |-> NoAddr]

\* Start: the polling goroutine runs and init is called.  On Linux init binds the
\* socket, and its goroutine's first statement is a send on emits, which makes the
\* first poll; on Windows two registrations follow.
Start ==
    /\ loop = "off" /\ recv = "off"
    /\ loop' = "select"
    /\ \/ "linux" \in Systems /\ recv' = "emit"
       \/ "windows" \in Systems /\ recv' = "interfaces"
    /\ UNCHANGED <<ifs, pending, overrun, todo, cur, flags, idx, misread, status>>

\* Windows' NotifyIpInterfaceChange, then NotifyUnicastIpAddressChange, each with
\* an initial notification, which is one callback.
Register ==
    /\ \/ recv = "interfaces" /\ recv' = "addresses"
       \/ recv = "addresses" /\ recv' = "callbacks"
    /\ pending' = pending + 1
    /\ UNCHANGED <<ifs, overrun, loop, todo, cur, flags, idx, misread, status>>

\* A kernel multicast: queued, or dropped with the socket marked overrun.
Netlink ==
    IF loop = "off" THEN UNCHANGED <<pending, overrun>>
    ELSE IF pending < QueueMax THEN pending' = pending + 1 /\ UNCHANGED overrun
    ELSE overrun' = TRUE /\ UNCHANGED pending

\* A callback in a new thread, for a change of a kind that is registered.
CallbackThread ==
    /\ \/ pending' = pending + 1
       \/ recv # "callbacks" /\ UNCHANGED pending
    /\ UNCHANGED overrun

\* The host's interfaces change and the system announces it.
HostChange ==
    /\ ChangeTable
    /\ IF Windows THEN CallbackThread ELSE Netlink
    /\ UNCHANGED <<recv, loop, todo, cur, flags, idx, misread, status>>

\* Mutant of RecvError: an overrun empties the socket.
RecvErrorFlushes ==
    /\ recv = "recv" /\ overrun
    /\ overrun' = FALSE /\ pending' = 0
    /\ UNCHANGED <<ifs, recv, loop, todo, cur, flags, idx, misread, status>>

\* Recvfrom fails once after an overrun; the error is ignored and nothing emitted.
RecvError ==
    /\ recv = "recv" /\ overrun
    /\ overrun' = FALSE
    /\ UNCHANGED <<ifs, pending, recv, loop, todo, cur, flags, idx, misread, status>>

Recvfrom ==
    /\ recv = "recv" /\ ~overrun /\ pending > 0
    /\ pending' = pending - 1
    /\ recv' = "emit"
    /\ UNCHANGED <<ifs, overrun, loop, todo, cur, flags, idx, misread, status>>

\* The rendezvous on emits: the receiver goes back to Recvfrom, or the callback of
\* one thread returns, and networkChanged starts its range over the observers.
Emit ==
    /\ loop = "select"
    /\ \/ recv = "emit" /\ recv' = "recv" /\ UNCHANGED pending
       \/ Windows /\ pending > 0 /\ pending' = pending - 1 /\ UNCHANGED recv
    /\ loop' = "scan"
    /\ todo' = Observer
    /\ UNCHANGED <<ifs, overrun, cur, flags, idx, misread, status>>
--------------------------------------------------------------------------------
\* Mutant of Decide: the loss of the link is not reported.
DecideUpOnly(up, a) ==
    IF up /\ status[cur] # a
        THEN status' = [status EXCEPT ![cur] = a] /\ loop' = "call"
    ELSE UNCHANGED status /\ loop' = "scan"

\* networkChanged records and reports what the lookup for cur found.
Decide(up, a) ==
    IF up /\ status[cur] # a
        THEN status' = [status EXCEPT ![cur] = a] /\ loop' = "call"
    ELSE IF ~up /\ status[cur] # NoAddr
        THEN status' = [status EXCEPT ![cur] = NoAddr] /\ loop' = "call"
    ELSE UNCHANGED status /\ loop' = "scan"

\* net.Interfaces() for the next observer, in the map's random order.
ListInterfaces(k) ==
    /\ loop = "scan" /\ k \in todo
    /\ todo' = todo \ {k}
    /\ cur' = k
    /\ flags' = [i \in Iface |-> ifs[i].up]
    /\ idx' = 1
    /\ misread' = [misread EXCEPT ![k] = FALSE]
    /\ loop' = "read"
    /\ UNCHANGED <<ifs, pending, overrun, recv, status>>

\* net.Interfaces() fails: the lookup answers nil, read as "no link".
ListError(k) ==
    /\ loop = "scan" /\ k \in todo
    /\ todo' = todo \ {k}
    /\ cur' = k
    /\ misread' = [misread EXCEPT ![k] = TRUE]
    /\ IF status[k] # NoAddr
           THEN status' = [status EXCEPT ![k] = NoAddr] /\ loop' = "call"
           ELSE UNCHANGED status /\ loop' = "scan"
    /\ UNCHANGED <<ifs, pending, overrun, recv, flags, idx>>

\* ifs[idx].Addrs(): a match ends the lookup, with the flags read before it.
ReadAddrs ==
    /\ loop = "read" /\ idx \in Iface
    /\ IF Matching(idx)
           THEN Decide(flags[idx], ifs[idx].addr) /\ UNCHANGED idx
           ELSE idx' = idx + 1 /\ UNCHANGED <<loop, status>>
    /\ UNCHANGED <<ifs, pending, overrun, recv, todo, cur, flags, misread>>

\* ifs[idx].Addrs() fails: the interface is skipped.
ReadError ==
    /\ loop = "read" /\ idx \in Iface
    /\ idx' = idx + 1
    /\ misread' = [misread EXCEPT ![cur] = TRUE]
    /\ UNCHANGED <<ifs, pending, overrun, recv, loop, todo, cur, flags, status>>

NoMatch ==
    /\ loop = "read" /\ idx = NIfaces + 1
    /\ Decide(FALSE, NoAddr)
    /\ UNCHANGED <<ifs, pending, overrun, recv, todo, cur, flags, idx, misread>>

\* The observer's NetworkChanged(status[cur] # NoAddr, status[cur]) returns.
Return ==
    /\ loop = "call"
    /\ loop' = "scan"
    /\ UNCHANGED <<ifs, pending, overrun, recv, todo, cur, flags, idx, misread, status>>

\* networkChanged returns to the select.
ScanDone ==
    /\ loop = "scan" /\ todo = {}
    /\ loop' = "select"
    /\ UNCHANGED <<ifs, pending, overrun, recv, todo, cur, flags, idx, misread, status>>
--------------------------------------------------------------------------------
Receiver == Recvfrom \/ RecvError \/ Register
Scan ==
    \/ Emit
    \/ \E k \in Observer : ListInterfaces(k) \/ ListError(k)
    \/ ReadAddrs \/ ReadError \/ NoMatch \/ ScanDone

NNext == Start \/ HostChange \/ Receiver \/ Scan \/ Return

NSpec == NInit /\ [][NNext]_notifierVars
--------------------------------------------------------------------------------
WakeupPending == pending > 0 \/ recv \in {"emit", "interfaces", "addresses"}

(***************************************************************************)
(* No wake-up is lost (network_change_linux.go:39-48, the registrations in *)
(* network_change_windows.go, and the loop of networkChanged): when the    *)
(* notifier is back in its select and no message, registration or send on  *)
(* emits is outstanding, every observer was last told the link's state as  *)
(* it is now, unless its own last lookup met a failing system call.  This  *)
(* is what makes it safe that messages are dropped, that changes coalesce, *)
(* that a change before the second registration is not heard of, and that  *)
(* a lookup is not atomic.                                                 *)
(***************************************************************************)
NoLostWakeup ==
    loop = "select" /\ ~WakeupPending =>
        \A k \in Observer : IsLink(status[k]) \/ misread[k]

(***************************************************************************)
(* Why no wake-up is lost, as an inductive invariant.  An observer that    *)
(* may be out of date is still in todo, or is being looked up with what    *)
(* was read so far still true, or a wake-up is outstanding.                *)
(***************************************************************************)
Looking ==
    /\ flags = [i \in Iface |-> ifs[i].up]
    /\ \A j \in Iface : j < idx => ~Matching(j)

Fresh(k) ==
    \/ WakeupPending
    \/ misread[k]
    \/ loop = "read" /\ cur = k /\ Looking
    \/ ~(loop = "read" /\ cur = k) /\ (k \in todo \/ IsLink(status[k]))

NInv ==
    /\ NTypeOK
    /\ overrun => recv \in {"emit", "recv"} /\ pending = QueueMax
    /\ loop \in {"off", "select"} => todo = {}
    /\ loop = "off" <=> recv = "off"
    /\ loop # "off" => \A k \in Observer : Fresh(k)
================================================================================
