----------------------------- MODULE NotifierProofs -----------------------------
(***************************************************************************)
(* For any number of interfaces, addresses and observers and any socket    *)
(* buffer: NTypeOK and NoLostWakeup hold of NetworkChangeNotifier.         *)
(***************************************************************************)
EXTENDS NetworkChangeNotifier, TLAPS

\* Whatever table the host has, at most one interface is the first match.
LEMMA FirstMatchUnique ==
    ASSUME HostTypeOK,
           NEW i \in Iface, FirstMatch(i)
    PROVE  \A j \in Iface : FirstMatch(j) => j = i
BY HostAssumption DEF FirstMatch, Matching, Iface

\* The first interface found to match is the link when its flags are up.
LEMMA MatchIsLink ==
    ASSUME HostTypeOK,
           NEW i \in Iface, FirstMatch(i)
    PROVE  /\ ifs[i].up => IsLink(ifs[i].addr)
           /\ ~ifs[i].up => IsLink(NoAddr)
BY FirstMatchUnique DEF IsLink

\* With no interface matching there is no link.
LEMMA NoMatchIsNoLink ==
    ASSUME \A j \in Iface : ~Matching(j)
    PROVE  IsLink(NoAddr)
BY DEF IsLink, FirstMatch

\* networkChanged's decision about an observer leaves its status at the link
\* it was given, and the goroutine either calls the observer or goes on.
LEMMA DecideStatus ==
    ASSUME NTypeOK, NEW up \in BOOLEAN, NEW a \in MaybeAddr, Decide(up, a)
    PROVE  /\ status' \in [Observer -> MaybeAddr]
           /\ status'[cur] = IF up THEN a ELSE NoAddr
           /\ \A k \in Observer : k # cur => status'[k] = status[k]
           /\ loop' \in {"scan", "call"}
BY DEF NTypeOK, Decide, MaybeAddr

\* A kernel message keeps the buffer within its bound; callbacks have none.
LEMMA AnnouncedTypes ==
    ASSUME NTypeOK, IF Windows THEN CallbackThread ELSE Netlink
    PROVE  /\ pending' \in Nat /\ (~Windows => pending' <= QueueMax)
           /\ overrun' \in BOOLEAN
<1>1. pending \in Nat /\ (~Windows => pending <= QueueMax) /\ overrun \in BOOLEAN
  BY DEF NTypeOK
<1>2. CASE Windows
  BY <1>1, <1>2 DEF CallbackThread
<1>3. CASE ~Windows
  <2>1. Netlink /\ pending <= QueueMax /\ QueueMax \in Nat
    BY <1>1, <1>3, NotifierAssumption
  <2>2. CASE loop # "off" /\ pending < QueueMax
    <3>1. pending' = pending + 1 /\ overrun' = overrun
      BY <2>1, <2>2 DEF Netlink
    <3> QED
      BY <1>1, <2>1, <2>2, <3>1
  <2>3. CASE loop = "off" \/ ~(pending < QueueMax)
    <3>1. pending' = pending /\ overrun' \in {overrun, TRUE}
      BY <2>1, <2>3 DEF Netlink
    <3> QED
      BY <1>1, <2>1, <3>1
  <2> QED
    BY <2>2, <2>3
<1> QED
  BY <1>2, <1>3

\* After it a message is in the buffer, a callback blocks, or a registration is to
\* come, and only a full buffer of a socket that is bound overruns.
LEMMA AnnouncedWakes ==
    ASSUME NInv, IF Windows THEN CallbackThread ELSE Netlink
    PROVE  /\ loop # "off" => pending' > 0 \/ recv \in {"interfaces", "addresses"}
           /\ overrun' => recv \in {"emit", "recv"} /\ pending' = QueueMax
<1>1. /\ pending \in Nat /\ (~Windows => pending <= QueueMax)
      /\ recv \in {"off", "emit", "recv", "interfaces", "addresses", "callbacks"}
      /\ loop = "off" <=> recv = "off"
      /\ overrun => recv \in {"emit", "recv"} /\ pending = QueueMax
  BY DEF NInv, NTypeOK
<1>2. CASE Windows
  BY <1>1, <1>2 DEF CallbackThread, Windows
<1>3. CASE ~Windows
  BY <1>1, <1>3, NotifierAssumption DEF Netlink, Windows
<1> QED
  BY <1>2, <1>3

\* Each step keeps every variable in its type.
LEMMA NTypeStep == NTypeOK /\ [NNext]_notifierVars => NTypeOK'
<1> SUFFICES ASSUME NTypeOK, [NNext]_notifierVars PROVE NTypeOK'
  OBVIOUS
<1> USE NotifierAssumption, HostAssumption
<1>1. CASE Start
  BY <1>1 DEF Start, NTypeOK, Windows, HostTypeOK
<1>2. CASE HostChange
  <2>1. ifs' \in Interfaces
    BY <1>2 DEF HostChange, ChangeTable, NTypeOK, Windows, HostTypeOK, Interfaces
  <2>2. pending' \in Nat /\ (~Windows => pending' <= QueueMax) /\ overrun' \in BOOLEAN
    BY <1>2, AnnouncedTypes DEF HostChange
  <2> QED
    BY <1>2, <2>1, <2>2 DEF HostChange, NTypeOK, Windows, HostTypeOK
<1>3. CASE RecvError
  BY <1>3 DEF RecvError, NTypeOK, Windows, HostTypeOK
<1>4. CASE Recvfrom
  BY <1>4 DEF Recvfrom, NTypeOK, Windows, HostTypeOK
<1>5. CASE Emit
  BY <1>5 DEF Emit, NTypeOK, Windows, HostTypeOK
<1>6. ASSUME NEW k \in Observer, ListInterfaces(k) PROVE NTypeOK'
  BY <1>6 DEF ListInterfaces, NTypeOK, Windows, HostTypeOK, Interfaces, Iface
<1>7. ASSUME NEW k \in Observer, ListError(k) PROVE NTypeOK'
  BY <1>7 DEF ListError, NTypeOK, Windows, HostTypeOK, MaybeAddr
<1>8. CASE ReadAddrs
  <2>1. CASE Matching(idx)
    <3>1. flags[idx] \in BOOLEAN /\ ifs[idx].addr \in MaybeAddr
      BY <1>8 DEF ReadAddrs, NTypeOK, Windows, HostTypeOK, Interfaces
    <3>2. Decide(flags[idx], ifs[idx].addr)
      BY <1>8, <2>1 DEF ReadAddrs
    <3> QED
      BY <1>8, <2>1, <3>1, <3>2, DecideStatus DEF ReadAddrs, NTypeOK, Windows, HostTypeOK
  <2>2. CASE ~Matching(idx)
    BY <1>8, <2>2 DEF ReadAddrs, NTypeOK, Windows, HostTypeOK, Iface
  <2> QED
    BY <2>1, <2>2
<1>9. CASE ReadError
  BY <1>9 DEF ReadError, NTypeOK, Windows, HostTypeOK, Iface
<1>10. CASE NoMatch
  <2>1. Decide(FALSE, NoAddr)
    BY <1>10 DEF NoMatch
  <2> QED
    BY <1>10, <2>1, DecideStatus DEF NoMatch, NTypeOK, Windows, HostTypeOK, MaybeAddr
<1>11. CASE ScanDone
  BY <1>11 DEF ScanDone, NTypeOK, Windows, HostTypeOK
<1>12. CASE Return
  BY <1>12 DEF Return, NTypeOK, Windows, HostTypeOK
<1>13. CASE UNCHANGED notifierVars
  BY <1>13 DEF notifierVars, NTypeOK, Windows, HostTypeOK
<1>14. CASE Register
  BY <1>14 DEF Register, NTypeOK, Windows, HostTypeOK
<1> QED
  BY <1>1, <1>2, <1>3, <1>4, <1>5, <1>6, <1>7, <1>8, <1>9, <1>10, <1>11, <1>12, <1>13, <1>14
     DEF NNext, Receiver, Scan

\* The initial state satisfies the invariant.
LEMMA NInitInv == NInit => NInv
<1> SUFFICES ASSUME NInit PROVE NInv
  OBVIOUS
<1>1. NTypeOK
  <2>1. flags \in [Iface -> BOOLEAN] /\ misread \in [Observer -> BOOLEAN]
    BY DEF NInit
  <2>2. status \in [Observer -> MaybeAddr]
    BY DEF NInit, MaybeAddr
  <2>3. pending \in Nat /\ pending <= QueueMax /\ idx \in 1..(NIfaces + 1)
    BY NotifierAssumption, HostAssumption DEF NInit
  <2> QED
    BY <2>1, <2>2, <2>3 DEF NInit, NTypeOK, HostTypeOK
<1> QED
  BY <1>1 DEF NInit, NInv

\* The variables of the notifier are always in their types: interfaces and
\* addresses stay the host's, idx never passes the end of the list.
THEOREM NTypeCorrect == NSpec => []NTypeOK
<1>1. NInit => NTypeOK
  BY NInitInv DEF NInv
<1> QED
  BY <1>1, NTypeStep, PTL DEF NSpec
--------------------------------------------------------------------------------
\* The two ways a lookup ends leave the observer looked up with the link, or
\* a wake-up or a failed call to account for it, and no other one worse off.
LEMMA DecideFresh ==
    ASSUME NInv, loop = "read",
           NEW up \in BOOLEAN, NEW a \in MaybeAddr, Decide(up, a),
           Looking => IsLink(IF up THEN a ELSE NoAddr),
           UNCHANGED <<ifs, pending, recv, todo, cur, misread>>
    PROVE  \A k \in Observer : Fresh(k)'
<1> SUFFICES ASSUME NEW k \in Observer PROVE Fresh(k)'
  OBVIOUS
<1>1. NTypeOK /\ Fresh(k)
  BY DEF NInv
<1>2. loop' # "read" /\ status'[cur] = (IF up THEN a ELSE NoAddr)
  BY <1>1, DecideStatus
<1>3. k # cur => status'[k] = status[k]
  BY <1>1, DecideStatus
<1>4. \A b : IsLink(b) => IsLink(b)'
  BY DEF IsLink, FirstMatch, Matching
<1>5. CASE WakeupPending \/ misread[k]
  BY <1>5 DEF Fresh, WakeupPending
<1>6. CASE ~WakeupPending /\ ~misread[k] /\ k = cur
  <2>1. IsLink(status'[k])
    BY <1>1, <1>2, <1>6 DEF Fresh
  <2> QED
    BY <2>1, <1>2, <1>4 DEF Fresh, IsLink, FirstMatch, Matching
<1>7. CASE ~WakeupPending /\ ~misread[k] /\ k # cur
  <2>1. k \in todo \/ IsLink(status[k])
    BY <1>1, <1>7 DEF Fresh
  <2> QED
    BY <2>1, <1>2, <1>3, <1>7 DEF Fresh, IsLink, FirstMatch, Matching
<1> QED
  BY <1>5, <1>6, <1>7

\* Each step of the receiver, the notifier or the host keeps NInv.
LEMMA NInvStep == NInv /\ [NNext]_notifierVars => NInv'
<1> SUFFICES ASSUME NInv, [NNext]_notifierVars PROVE NInv'
  OBVIOUS
<1>0. NTypeOK /\ NTypeOK'
  BY NTypeStep DEF NInv
<1>1. CASE Start
  <2>1. /\ recv' \in {"emit", "interfaces"} /\ loop' = "select" /\ ~overrun
        /\ UNCHANGED <<pending, overrun, todo>>
    BY <1>1 DEF Start, NInv
  <2>2. WakeupPending'
    BY <2>1 DEF WakeupPending
  <2> QED
    BY <1>0, <1>1, <2>1, <2>2 DEF Start, NInv, Fresh
<1>2. CASE HostChange
  <2>1. loop # "off" => pending' > 0 \/ recv \in {"interfaces", "addresses"}
    BY <1>2, AnnouncedWakes DEF HostChange
  <2>2. overrun' => recv \in {"emit", "recv"} /\ pending' = QueueMax
    BY <1>2, AnnouncedWakes DEF HostChange
  <2> QED
    BY <1>0, <1>2, <2>1, <2>2 DEF HostChange, NInv, Fresh, WakeupPending
<1>3. CASE RecvError
  <2>1. pending' > 0
    BY <1>0, <1>3, NotifierAssumption DEF RecvError, NInv, NTypeOK
  <2> QED
    BY <1>0, <1>3, <2>1 DEF RecvError, NInv, Fresh, WakeupPending
<1>4. CASE Recvfrom
  BY <1>0, <1>4 DEF Recvfrom, NInv, Fresh, WakeupPending
<1>5. CASE Emit
  <2>1. \A k \in Observer : Fresh(k)'
    BY <1>5 DEF Emit, Fresh
  <2> QED
    BY <1>0, <1>5, <2>1 DEF Emit, NInv, Windows
<1>6. ASSUME NEW k \in Observer, ListInterfaces(k) PROVE NInv'
  <2>1. ASSUME NEW j \in Observer PROVE Fresh(j)'
    <3>1. CASE j = k
      <4>1. Looking'
        BY <1>0, <1>6, HostAssumption DEF ListInterfaces, Looking, NTypeOK, Iface
      <4> QED
        BY <1>6, <3>1, <4>1 DEF ListInterfaces, Fresh
    <3>2. CASE j # k
      <4>1. Fresh(j) /\ misread'[j] = misread[j]
        BY <1>0, <1>6, <3>2 DEF ListInterfaces, NInv, NTypeOK
      <4> QED
        BY <1>6, <3>2, <4>1
           DEF ListInterfaces, Fresh, WakeupPending, IsLink, FirstMatch, Matching
    <3> QED
      BY <3>1, <3>2
  <2> QED
    BY <1>0, <1>6, <2>1 DEF ListInterfaces, NInv
<1>7. ASSUME NEW k \in Observer, ListError(k) PROVE NInv'
  <2>1. ASSUME NEW j \in Observer PROVE Fresh(j)'
    <3>1. CASE j = k
      BY <1>0, <1>7, <3>1 DEF ListError, Fresh, NTypeOK
    <3>2. CASE j # k
      <4>1. Fresh(j) /\ misread'[j] = misread[j] /\ status'[j] = status[j]
        BY <1>0, <1>7, <3>2 DEF ListError, NInv, NTypeOK
      <4> QED
        BY <1>7, <3>2, <4>1
           DEF ListError, Fresh, WakeupPending, IsLink, FirstMatch, Matching
    <3> QED
      BY <3>1, <3>2
  <2> QED
    BY <1>0, <1>7, <2>1 DEF ListError, NInv
<1>8. CASE ReadAddrs
  <2>1. CASE Matching(idx)
    <3>1. flags[idx] \in BOOLEAN /\ ifs[idx].addr \in MaybeAddr
      BY <1>0, <1>8 DEF ReadAddrs, NTypeOK, HostTypeOK, Interfaces
    <3>2. Looking => IsLink(IF flags[idx] THEN ifs[idx].addr ELSE NoAddr)
      <4>1. Looking => FirstMatch(idx) /\ flags[idx] = ifs[idx].up
        BY <1>8, <2>1 DEF ReadAddrs, Looking, FirstMatch
      <4> QED
        BY <1>0, <1>8, <4>1, MatchIsLink DEF ReadAddrs, NTypeOK
    <3>3. \A k \in Observer : Fresh(k)'
      <4>1. /\ loop = "read" /\ Decide(flags[idx], ifs[idx].addr)
            /\ UNCHANGED <<ifs, pending, recv, todo, cur, misread>>
        BY <1>8, <2>1 DEF ReadAddrs
      <4> QED
        BY <3>1, <3>2, <4>1, DecideFresh
    <3>4. loop' \in {"scan", "call"}
      BY <1>0, <1>8, <2>1, <3>1, DecideStatus DEF ReadAddrs
    <3> QED
      BY <1>0, <1>8, <3>3, <3>4 DEF ReadAddrs, NInv
  <2>2. CASE ~Matching(idx)
    <3>1. Looking => Looking'
      BY <1>0, <1>8, <2>2 DEF ReadAddrs, Looking, NTypeOK, Iface, Matching
    <3>2. \A k \in Observer : Fresh(k)'
      BY <1>8, <2>2, <3>1
         DEF ReadAddrs, NInv, Fresh, WakeupPending, IsLink, FirstMatch, Matching
    <3> QED
      BY <1>0, <1>8, <2>2, <3>2 DEF ReadAddrs, NInv
  <2> QED
    BY <2>1, <2>2
<1>9. CASE ReadError
  <2>1. ASSUME NEW k \in Observer PROVE Fresh(k)'
    <3>1. CASE k = cur
      BY <1>0, <1>9, <3>1 DEF ReadError, Fresh, NTypeOK
    <3>2. CASE k # cur
      <4>1. Fresh(k) /\ misread'[k] = misread[k]
        BY <1>0, <1>9, <3>2 DEF ReadError, NInv, NTypeOK
      <4> QED
        BY <1>9, <3>2, <4>1
           DEF ReadError, Fresh, WakeupPending, IsLink, FirstMatch, Matching
    <3> QED
      BY <3>1, <3>2
  <2> QED
    BY <1>0, <1>9, <2>1 DEF ReadError, NInv
<1>10. CASE NoMatch
  <2>1. Looking => IsLink(NoAddr)
    <3>1. Looking => \A j \in Iface : ~Matching(j)
      BY <1>10, HostAssumption DEF NoMatch, Looking, Iface
    <3> QED
      BY <3>1, NoMatchIsNoLink
  <2>2. \A k \in Observer : Fresh(k)'
    <3>1. /\ loop = "read" /\ Decide(FALSE, NoAddr)
          /\ UNCHANGED <<ifs, pending, recv, todo, cur, misread>>
          /\ NoAddr \in MaybeAddr
      BY <1>10 DEF NoMatch, MaybeAddr
    <3>2. Looking => IsLink(IF FALSE THEN NoAddr ELSE NoAddr)
      BY <2>1
    <3> QED
      BY <3>1, <3>2, DecideFresh
  <2>3. loop' \in {"scan", "call"}
    BY <1>0, <1>10, DecideStatus DEF NoMatch, MaybeAddr
  <2> QED
    BY <1>0, <1>10, <2>2, <2>3 DEF NoMatch, NInv
<1>11. CASE ScanDone
  BY <1>0, <1>11
     DEF ScanDone, NInv, Fresh, WakeupPending, IsLink, FirstMatch, Matching
<1>12. CASE Return
  BY <1>0, <1>12
     DEF Return, NInv, Fresh, WakeupPending, IsLink, FirstMatch, Matching
<1>13. CASE UNCHANGED notifierVars
  BY <1>0, <1>13 DEF notifierVars, NInv, Fresh, WakeupPending, Looking, IsLink,
     FirstMatch, Matching
<1>14. CASE Register
  <2>1. pending' > 0 /\ recv' # "off" /\ recv # "off"
    BY <1>0, <1>14 DEF Register, NTypeOK
  <2> QED
    BY <1>0, <1>14, <2>1 DEF Register, NInv, Fresh, WakeupPending
<1> QED
  BY <1>1, <1>2, <1>3, <1>4, <1>5, <1>6, <1>7, <1>8, <1>9, <1>10, <1>11, <1>12, <1>13, <1>14
     DEF NNext, Receiver, Scan

\* NInv is an invariant: every step accounts for every observer.
THEOREM NInvariant == NSpec => []NInv
BY NInitInv, NInvStep, PTL DEF NSpec

\* No wake-up is lost: an idle notifier with nothing outstanding has told every
\* observer the link as it is, however messages, changes and lookups interleave.
THEOREM NNoLostWakeup == NSpec => []NoLostWakeup
<1>1. NInv => NoLostWakeup
  BY DEF NInv, NoLostWakeup, Fresh
<1> QED
  BY <1>1, NInvariant, PTL
================================================================================
