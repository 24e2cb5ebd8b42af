-------------------------------- MODULE PowerCtl --------------------------------
(***************************************************************************)
(* service.PowerCtl: the RestartTo order reads the UEFI variable BootOrder,*)
(* reads the description of each entry, moves the last one that matches to *)
(* the front, writes BootOrder back and restarts the machine; BootEntries  *)
(* reads the same and answers with the descriptions.  gRPC runs each call  *)
(* in a goroutine of its own, and other programs on the machine add and    *)
(* delete boot entries; nothing makes the read and the write one step.     *)
(***************************************************************************)
EXTENDS Integers, Sequences, BootVariable

CONSTANTS
    Call,       \* the calls of the RPCs PowerCtl and BootEntries
    Entry,      \* the numbers of the boot entries, uint16
    Content,    \* what a boot variable may hold
    Text,       \* what a call may search; every description contains ""
    MaxFirst,   \* bound: entries in BootOrder at the beginning
    MaxAdds,    \* bound: boot entries other programs add
    Deletable   \* bound: boot entries other programs delete, each of them once

ASSUME PowerAssumption ==
    /\ Entry \subseteq UInt16
    /\ MaxFirst \in Nat /\ MaxAdds \in Nat
    /\ Deletable \subseteq Entry

ASSUME TextAssumption == Text \subseteq Seq(Unit \ {0})

ASSUME ContentAssumption == Content \subseteq Seq(Byte)

VARIABLES
    order,      \* BootOrder
    boot,       \* per number, what the variable Boot#### holds, or held until deleted
    deleted,    \* the numbers whose variable has been deleted
    calls,      \* per call, the handler's locals
    machine,    \* "up", "restarting" (Windows: shutdown.exe has been started), "down"
    alive,      \* the daemon's process
    first,      \* ghost: BootOrder at the beginning
    moved,      \* ghost: entries that a call wrote at the front
    added,      \* ghost: entries added by other programs
    raced       \* ghost: those added or deleted while a call was between its Get and its Set

vars == <<order, boot, deleted, calls, machine, alive, first, moved, added, raced>>

CallState ==
    [pc : {"new", "size", "get", "restart", "done"},
     kind : {"none", "order", "list"},
     search : Seq(Unit),
     read : Seq(Entry),          \* boorOder
     i : Nat \ {0},              \* the place looked at
     size : Nat,                 \* what GetSizeHint answered
     target : Nat,               \* targetIndex, from 1; 0 for none
     listed : Seq(Seq(Unit))]    \* entries, as far as they are filled

NewCall ==
    [pc |-> "new", kind |-> "none", search |-> <<>>, read |-> <<>>, i |-> 1, size |-> 0,
     target |-> 0, listed |-> <<>>]

TypeOK ==
    /\ order \in Seq(Entry) /\ first \in Seq(Entry)
    /\ DOMAIN boot \subseteq Entry /\ \A e \in DOMAIN boot : boot[e] \in Content
    /\ deleted \subseteq DOMAIN boot
    /\ calls \in [Call -> CallState]
    /\ \A c \in Call : calls[c].target <= Len(calls[c].read)
    /\ machine \in {"up", "restarting", "down"} /\ alive \in BOOLEAN
    /\ moved \subseteq Entry /\ added \subseteq Entry /\ raced \subseteq added \cup deleted

Entries(s) == {s[i] : i \in 1..Len(s)}
Distinct(s) == \A i, j \in 1..Len(s) : i # j => s[i] # s[j]
Before(s, x, y) == \E i, j \in 1..Len(s) : i < j /\ s[i] = x /\ s[j] = y

\* The firmware lists each entry it has once.
Init ==
    /\ \E n \in 0..MaxFirst : order \in [1..n -> Entry]
    /\ Distinct(order)
    /\ boot \in [Entries(order) -> Content]
    /\ deleted = {}
    /\ first = order
    /\ calls = [c \in Call |-> NewCall]
    /\ machine = "up" /\ alive = TRUE
    /\ moved = {} /\ added = {} /\ raced = {}
--------------------------------------------------------------------------------
At(c, pc) == machine # "down" /\ alive /\ calls[c].pc = pc
Becomes(c, s) == calls' = [calls EXCEPT ![c] = s]
\* The call is answered, with a result or an error; its locals are gone.
Answers(c) == Becomes(c, [NewCall EXCEPT !.pc = "done"])
Locals == <<order, boot, deleted, machine, alive, first, moved, added, raced>>

\* The order RestartTo: BootOrder is read.
GetOrder(c) ==
    /\ At(c, "new")
    /\ \E s \in Text :
        Becomes(c, [calls[c] EXCEPT !.pc = "size", !.kind = "order", !.search = s,
                                    !.read = order])
    /\ UNCHANGED Locals

\* The RPC BootEntries: the same.
GetEntries(c) ==
    /\ At(c, "new")
    /\ Becomes(c, [calls[c] EXCEPT !.pc = "size", !.kind = "list", !.read = order])
    /\ UNCHANGED Locals

\* The orders Restart and Shutdown.
PlainOrder(c) ==
    /\ At(c, "new")
    /\ Becomes(c, [calls[c] EXCEPT !.pc = "restart"])
    /\ UNCHANGED Locals

\* The order Logoff (Windows looks for a session to end only if "query session" fails,
\* and answers "Success" otherwise), and any number that is no order: "Success" too.
OtherOrder(c) ==
    /\ At(c, "new")
    /\ Answers(c)
    /\ UNCHANGED Locals

\* Sprintf("Boot%04d", n), read as the hexadecimal number that the name of a boot
\* variable ends in.  A name of five digits is no boot variable's.
Digit(n, place) == (n \div place) % 10
VariableOf(n) ==
    IF n > 9999 THEN 65536
    ELSE 4096 * Digit(n, 1000) + 256 * Digit(n, 100) + 16 * Digit(n, 10) + Digit(n, 1)

There(v) == v \in DOMAIN boot \ deleted
Looking(c, pc) == At(c, pc) /\ calls[c].i <= Len(calls[c].read)
Variable(c) == VariableOf(calls[c].read[calls[c].i])

\* What is done with a description; a later match replaces an earlier one.
Look(c, desc) ==
    LET k == calls[c]
        hit == k.kind = "order" /\ HasText(desc, k.search)
    IN Becomes(c, [k EXCEPT !.pc = "size", !.i = @ + 1,
                            !.target = IF hit THEN k.i ELSE @,
                            !.listed = IF k.kind = "list" THEN Append(@, desc) ELSE @])

\* getEnvVar: the size of the next entry's variable.  Without one, or on any other
\* error, the description is "".
GetSize(c) ==
    /\ Looking(c, "size")
    /\ \/ /\ There(Variable(c))
          /\ Becomes(c, [calls[c] EXCEPT !.pc = "get", !.size = Len(boot[Variable(c)])])
       \/ Look(c, <<>>)
    /\ UNCHANGED Locals

\* What Get leaves in the buffer of that size, whose error is dropped.
Got(c) ==
    {Zeros(calls[c].size)} \cup (IF There(Variable(c)) THEN {UpTo(boot[Variable(c)], calls[c].size)} ELSE {})

\* getEnvVar and getBootDesc: the variable is read and decoded.
GetVariable(c) ==
    /\ Looking(c, "get")
    /\ \E b \in Got(c) :
        IF Panics(b) THEN alive' = FALSE /\ UNCHANGED calls
        ELSE Look(c, Trim(Decode(b))) /\ UNCHANGED alive
    /\ UNCHANGED <<order, boot, deleted, machine, first, moved, added, raced>>

Looked(c, kind) ==
    At(c, "size") /\ calls[c].i > Len(calls[c].read) /\ calls[c].kind = kind

\* BootEntries answers.
ListEntries(c) ==
    /\ Looked(c, "list")
    /\ Answers(c)
    /\ UNCHANGED Locals

\* Mutant of MoveToFront: the target stays in its old place too.
CopyToFront(s, t) == [i \in 1..(Len(s) + 1) |-> IF i = 1 THEN s[t] ELSE s[i - 1]]

\* Mutant of MoveToFront: the target and the first entry are exchanged.
SwapWithFront(s, t) ==
    [i \in 1..Len(s) |-> IF i = 1 THEN s[t] ELSE IF i = t THEN s[1] ELSE s[i]]

\* newOrder: the target, what was before it, what was after it.
MoveToFront(s, t) ==
    [i \in 1..Len(s) |-> IF i = 1 THEN s[t] ELSE IF i <= t THEN s[i - 1] ELSE s[i]]

\* Mutant of SetOrder: what was read is written.
SetOrderUnmoved(c) ==
    /\ Looked(c, "order") /\ calls[c].target > 0
    /\ order' = calls[c].read
    /\ moved' = moved \cup {calls[c].read[calls[c].target]}
    /\ Becomes(c, [calls[c] EXCEPT !.pc = "restart"])
    /\ UNCHANGED <<boot, deleted, machine, alive, first, added, raced>>

\* BootOrder is written as this call knows it.
SetOrder(c) ==
    /\ Looked(c, "order") /\ calls[c].target > 0
    /\ order' = MoveToFront(calls[c].read, calls[c].target)
    /\ moved' = moved \cup {calls[c].read[calls[c].target]}
    /\ Becomes(c, [calls[c] EXCEPT !.pc = "restart"])
    /\ UNCHANGED <<boot, deleted, machine, alive, first, added, raced>>

\* BootOrder cannot be read or written, the text is in no description, or the
\* session cannot be ended or the machine restarted.
Fails(c) ==
    /\ At(c, "new") \/ Looked(c, "order") \/ At(c, "restart")
    /\ Answers(c)
    /\ UNCHANGED Locals

\* Restart and Shutdown on Linux: reboot(2) does not return.
Reboot(c) ==
    /\ At(c, "restart")
    /\ machine' = "down"
    /\ UNCHANGED <<order, boot, deleted, calls, alive, first, moved, added, raced>>

\* On Windows shutdown.exe does, the call is answered and the machine runs on.
RunShutdown(c) ==
    /\ At(c, "restart")
    /\ machine' = "restarting"
    /\ Answers(c)
    /\ UNCHANGED <<order, boot, deleted, alive, first, moved, added, raced>>

GoDown ==
    /\ machine = "restarting"
    /\ machine' = "down"
    /\ UNCHANGED <<order, boot, deleted, calls, alive, first, moved, added, raced>>

\* A call knows an order that it may still write.  What other programs do is followed
\* for as long as the daemon runs.
Racing(e) ==
    IF \E c \in Call : calls[c].pc \in {"size", "get"} THEN raced \cup {e} ELSE raced

\* Another program makes a boot entry, first or last in BootOrder.
AddEntry(e) ==
    /\ machine # "down" /\ alive /\ Len(order) < MaxFirst + MaxAdds
    /\ e \notin DOMAIN boot
    /\ order' \in {<<e>> \o order, Append(order, e)}
    /\ \E b \in Content :
        boot' = [v \in DOMAIN boot \cup {e} |-> IF v = e THEN b ELSE boot[v]]
    /\ added' = added \cup {e}
    /\ raced' = Racing(e)
    /\ UNCHANGED <<deleted, calls, machine, alive, first, moved>>

Places(s, e) == {i \in 1..Len(s) : s[i] = e}
Without(s, p) == [i \in 1..(Len(s) - 1) |-> IF i < p THEN s[i] ELSE s[i + 1]]

\* Another program deletes one, with its place in BootOrder.
DeleteEntry(e) ==
    /\ machine # "down" /\ alive /\ e \in Deletable /\ There(e)
    /\ deleted' = deleted \cup {e}
    /\ order' \in IF e \in Entries(order) THEN {Without(order, i) : i \in Places(order, e)}
                  ELSE {order}
    /\ raced' = Racing(e)
    /\ UNCHANGED <<boot, calls, machine, alive, first, moved, added>>

Handler(c) ==
    \/ GetOrder(c) \/ GetEntries(c) \/ PlainOrder(c) \/ OtherOrder(c)
    \/ GetSize(c) \/ GetVariable(c)
    \/ ListEntries(c) \/ SetOrder(c) \/ Fails(c) \/ Reboot(c) \/ RunShutdown(c)

Next ==
    \/ \E c \in Call : Handler(c)
    \/ GoDown
    \/ \E e \in Entry : AddEntry(e) \/ DeleteEntry(e)

Spec == Init /\ [][Next]_vars
--------------------------------------------------------------------------------
Known == Entries(first) \cup added

(***************************************************************************)
(* However the orders interleave, BootOrder loses no entry it had at the   *)
(* beginning and repeats none, so that the machine can boot what it could. *)
(* An entry another program adds may be lost, or one that it deletes come  *)
(* back, but only if a call was between its read and its write meanwhile.  *)
(***************************************************************************)
KeepsEntries ==
    /\ Distinct(order)
    /\ (Known \ deleted) \ (added \cap raced) \subseteq Entries(order)
    /\ Entries(order) \subseteq Known \ (deleted \ raced)

(***************************************************************************)
(* Entries that no call asked for and no program deleted keep their order  *)
(* among themselves, also when one call overwrites what another wrote.     *)
(***************************************************************************)
KeepsRelativeOrder ==
    \A x, y \in Entries(first) \ (moved \cup deleted) :
        Before(first, x, y) => Before(order, x, y)

(***************************************************************************)
(* Once a RestartTo wrote BootOrder the machine will boot an entry that    *)
(* some call asked for, or a new one, even if it was not this call's,      *)
(* unless one that was asked for has been deleted.                         *)
(***************************************************************************)
FrontWasAskedFor ==
    moved # {} /\ moved \cap deleted = {} => order # <<>> /\ order[1] \in moved \cup added

Chosen(c) == calls[c].read[calls[c].target]
Describes(e, s) == e \in DOMAIN boot /\ HasText(Description(boot[e]), s)

\* A description as a reader of the variable should see it, or the "" of a failed read.
IsTextOf(t, e) ==
    t # <<>> /\ e \in DOMAIN boot /\ Terminated(boot[e]) =>
        Trim(UpToNul(t)) \in {Trim(Description(boot[e])), <<>>}

(***************************************************************************)
(* Where the number of an entry is the same in decimal and in hexadecimal, *)
(* which is how its description is found: a RestartTo moves to the front   *)
(* an entry whose description has the text asked for, and BootEntries      *)
(* lists, up to a NUL, the description, or nothing if it cannot be read.   *)
(* The two calls read each variable in two steps and with a decoder that   *)
(* stops before the last unit.                                             *)
(***************************************************************************)
LowNumbersAreRead ==
    \A c \in Call :
        /\ calls[c].target > 0 /\ calls[c].search # <<>> /\ Chosen(c) < 10 =>
                Describes(Chosen(c), calls[c].search)
        /\ \A i \in 1..Len(calls[c].listed) :
                calls[c].read[i] < 10 => IsTextOf(calls[c].listed[i], calls[c].read[i])

(***************************************************************************)
(* An order or a listing ends the daemon only for a variable shorter than  *)
(* the header of a load option, which an entry of the boot order names,    *)
(* rightly or wrongly.                                                     *)
(***************************************************************************)
PanicNeedsShortVariable ==
    alive \/ \E e \in Known :
        VariableOf(e) \in DOMAIN boot /\ Len(boot[VariableOf(e)]) \in 1..(Header - 1)

\* efivars/bootvariables.go:80: "Boot returns an EFI Variable pointing to the boot
\* LoadOption for the given index": the description read for a number is its own.
TargetMatches ==
    \A c \in Call :
        calls[c].target > 0 /\ calls[c].search # <<>> =>
            Describes(Chosen(c), calls[c].search)
================================================================================
