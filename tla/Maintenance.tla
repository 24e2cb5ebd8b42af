------------------------------ MODULE Maintenance ------------------------------
(***************************************************************************)
(* MaintenanceService on Linux: ApplyImage and BCDFix calls that run at    *)
(* the same time on the partitions of one host, while FormatDisks, called  *)
(* by another client, makes or formats a partition.                        *)
(***************************************************************************)
EXTENDS ImageApply, BCDFix

CONSTANT MaxFormats   \* bound: partitions FormatDisks makes or formats

ASSUME MaintenanceAssumption ==
    /\ Job = Applies \cup Fixes /\ Applies \cap Fixes = {}
    /\ MaxFormats \in Nat

VARIABLES
    formats,    \* partitions FormatDisks made or formatted so far
    touched     \* ghost: which they are

vars == <<tableVars, apply, crashed, fix, formats, touched>>

TypeOK ==
    /\ TableTypeOK /\ ApplyTypeOK /\ FixTypeOK
    /\ formats \in 0..MaxFormats /\ touched \subseteq Part

Init == TableInit /\ ApplyInit /\ FixInit /\ formats = 0 /\ touched = {}

\* A partition that FormatDisks made has no file system until it is formatted.
FormatDisks(p) ==
    /\ ~crashed /\ formats < MaxFormats
    /\ \E fs \in {"ntfs", "fat32", "none"} : Mkfs(p, fs)
    /\ formats' = formats + 1
    /\ touched' = touched \cup {p}
    /\ UNCHANGED <<apply, crashed, fix>>

Applying(j) == Apply(j) /\ UNCHANGED <<fix, formats, touched>>
Fixing(j) == ~crashed /\ Fix(j) /\ UNCHANGED <<apply, crashed, formats, touched>>

Next ==
    \/ \E j \in Applies : Applying(j)
    \/ \E j \in Fixes : Fixing(j)
    \/ \E p \in Part : FormatDisks(p)

Spec == Init /\ [][Next]_vars

\* Handlers and their goroutines are scheduled and external programs end; nobody
\* has to call.
Fairness ==
    /\ \A j \in Applies :
        WF_vars((Wimapply(j) \/ Prepare(j) \/ Extract(j)) /\ UNCHANGED <<fix, formats, touched>>)
    /\ \A j \in Fixes : WF_vars(~FixAt(j, "new") /\ Fixing(j))

FairSpec == Spec /\ Fairness
--------------------------------------------------------------------------------
\* Somebody else had to do with the partition of j, or j's directory.
Disturbed(j) ==
    \/ Target(j) \in touched
    \/ \E k \in Applies \ {j} : Target(k) = Target(j) \/ apply[k].raced

(***************************************************************************)
(* A client told that its image is applied has it, whole, on the partition *)
(* it named: unless the partition is of a type Mount does not know, wimlib *)
(* failed with errno 0, or another call disturbed the partition.           *)
(***************************************************************************)
OkMeansApplied ==
    \A j \in Applies :
        apply[j].result = "ok" /\ apply[j].fs # "other" /\ ~apply[j].hidden /\ ~Disturbed(j)
            => part[Target(j)].content = [by |-> j, whole |-> TRUE]

(***************************************************************************)
(* A temporary mount always has a call or goroutine that will remove it,   *)
(* unless one tried and failed.                                            *)
(***************************************************************************)
MountsAreOwned ==
    /\ \A j \in Applies : mnt[j] # NoPart =>
        apply[j].broken \/ apply[j].writer \in {"extract", "fill", "send", "sendErr", "unmount"}
    /\ \A j \in Fixes : mnt[j] # NoPart =>
        fix[j].left \/ fix[j].pc \in {"find", "walk", "leaveBcd", "leaveEsp"}

(***************************************************************************)
(* A BCDFix that succeeds has rewritten the store of the partition it was  *)
(* asked to: ApplyImage, which unmounts and formats what it finds mounted, *)
(* cannot take the partition away from under the mounted store.            *)
(***************************************************************************)
StoreIsFixed ==
    \A j \in Fixes : fix[j].pc = "leaveBcd" =>
        /\ mnt[j] = fix[j].esp
        /\ fix[j].result = "ok" => part[fix[j].esp].bcd = "fixed"

(***************************************************************************)
(* What is mounted stays so until its own call unmounts it or an ApplyImage*)
(* of that very partition does, unless two ApplyImage calls searched the   *)
(* mount table at the same time.                                           *)
(***************************************************************************)
OthersStayMounted ==
    [][\A d \in Dir : mnt[d] # NoPart /\ mnt'[d] = NoPart =>
        \/ d \in Applies /\ apply[d].writer = "unmount"
        \/ d \in Fixes /\ fix[d].pc = "leaveEsp"
        \/ \E j \in Applies : apply[j].pc = "umount" /\ apply[j].found = d
                              /\ (Target(j) = mnt[d] \/ apply[j].raced)]_vars

(***************************************************************************)
(* Every ApplyImage that found its partition is answered and its mount is  *)
(* gone in the end, unless preparing the partition fails, where the        *)
(* handler blocks for ever on its own channel.                             *)
(***************************************************************************)
ApplyEnds ==
    \A j \in Applies :
        apply[j].pc \in {"open", "wimapply"} ~>
            \/ crashed \/ apply[j].broken
            \/ apply[j].pc = "done" /\ apply[j].writer \in {"none", "end"} /\ mnt[j] = NoPart
================================================================================
