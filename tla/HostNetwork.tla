------------------------------ MODULE HostNetwork ------------------------------
(***************************************************************************)
(* The host's interface table, as the loader sees it through Go's net      *)
(* package, and the lookup util.InterfaceByAddress makes in it.  The table *)
(* is the environment: the operating system changes it at any moment.      *)
(***************************************************************************)
EXTENDS Integers

CONSTANTS
    NIfaces,   \* how many interfaces net.Interfaces() lists, always in one order
    Addr,      \* the addresses that start with the observed prefix "10.10."
    NoAddr     \* no such address; also Go's nil net.Addr

ASSUME HostAssumption == NIfaces \in Nat /\ NoAddr \notin Addr

Iface == 1..NIfaces
MaybeAddr == Addr \cup {NoAddr}

VARIABLE ifs   \* per interface: its first matching address, and FlagUp & FlagRunning

Interfaces == [Iface -> [addr : MaybeAddr, up : BOOLEAN]]

HostTypeOK == ifs \in Interfaces

(***************************************************************************)
(* What InterfaceByAddress answers when nothing changes while it runs: the *)
(* FIRST interface with a matching address decides, even when it is down   *)
(* and a later one is up.                                                  *)
(***************************************************************************)
Matching(i) == i \in Iface /\ ifs[i].addr # NoAddr
FirstMatch(i) == Matching(i) /\ \A j \in Iface : j < i => ~Matching(j)

\* The link state a callback should report: the address, or NoAddr for "down".
IsLink(a) ==
    \/ \E i \in Iface : FirstMatch(i) /\ ifs[i].up /\ a = ifs[i].addr
    \/ /\ \A i \in Iface : ~(FirstMatch(i) /\ ifs[i].up)
       /\ a = NoAddr

Assigned(a) == \E i \in Iface : ifs[i].addr = a
Usable(a) == \E i \in Iface : ifs[i].addr = a /\ ifs[i].up

\* One interface gains, loses or changes its address, or goes up or down.
ChangeTable ==
    \E i \in Iface, a \in MaybeAddr, u \in BOOLEAN :
        /\ ifs[i] # [addr |-> a, up |-> u]
        /\ ifs' = [ifs EXCEPT ![i] = [addr |-> a, up |-> u]]
================================================================================
