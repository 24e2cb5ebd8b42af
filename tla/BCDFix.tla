--------------------------------- MODULE BCDFix ---------------------------------
(***************************************************************************)
(* MaintenanceService.BCDFix on Linux: it mounts the EFI system partition, *)
(* in it mounts the file of Windows' boot configuration as a file system,  *)
(* rewrites the entries that name the partition Windows is on, and leaves  *)
(* by two deferred Unmounts, the inner one first.                          *)
(***************************************************************************)
EXTENDS MountTable

CONSTANT Fixes     \* the BCDFix calls

ASSUME FixAssumption == Fixes \subseteq Job

VARIABLE fix       \* per BCDFix call, the handler's locals

FixState ==
    [pc : {"new", "find", "walk", "leaveBcd", "leaveEsp", "done"},
     esp : Part \cup {NoPart},
     left : BOOLEAN,               \* ghost: an Unmount failed; nobody looks
     result : {"none", "ok", "error"}]

NewFix == [pc |-> "new", esp |-> NoPart, left |-> FALSE, result |-> "none"]

FixTypeOK == fix \in [Fixes -> FixState]
FixInit == fix = [j \in Fixes |-> NewFix]
--------------------------------------------------------------------------------
FixAt(j, pc) == fix[j].pc = pc
FixGoto(j, pc, result) == fix' = [fix EXCEPT ![j].pc = pc, ![j].result = result]

MountEsp(j, p) ==
    /\ FixAt(j, "new")
    /\ Mount(p, "fat32", j)
    /\ fix' = [fix EXCEPT ![j].pc = "find", ![j].esp = p]

\* The partition is not found or not mounted.
MountEspError(j) == FixAt(j, "new") /\ FixGoto(j, "done", "error") /\ UNCHANGED tableVars

\* The disk and the partition of Windows are found, and the store is, in what is
\* mounted on j's directory; it is mounted.
MountStore(j) ==
    /\ FixAt(j, "find")
    /\ mnt[j] # NoPart /\ part[mnt[j]].bcd # "none"
    /\ pinned' = pinned \cup {j}
    /\ FixGoto(j, "walk", "none")
    /\ UNCHANGED <<part, mnt, held>>

\* Mutant of MountStoreError: the partition stays mounted.
MountStoreReturns(j) ==
    /\ FixAt(j, "find")
    /\ FixGoto(j, "done", "error")
    /\ UNCHANGED tableVars

MountStoreError(j) ==
    /\ FixAt(j, "find")
    /\ FixGoto(j, "leaveEsp", "error")
    /\ UNCHANGED tableVars

\* filepath.Walk: every entry is rewritten, or one cannot be.
RewriteStore(j) ==
    /\ FixAt(j, "walk")
    /\ part' = [part EXCEPT ![mnt[j]].bcd = "fixed"]
    /\ FixGoto(j, "leaveBcd", "ok")
    /\ UNCHANGED <<mnt, held, pinned>>

\* Mutant of RewriteError: the error of an entry is dropped.
RewriteErrorDropped(j) ==
    /\ FixAt(j, "walk")
    /\ FixGoto(j, "leaveBcd", "ok")
    /\ UNCHANGED tableVars

RewriteError(j) ==
    /\ FixAt(j, "walk")
    /\ FixGoto(j, "leaveBcd", "error")
    /\ UNCHANGED tableVars

\* defer Unmount(mntBCD), which may fail.
LeaveStore(j) ==
    /\ FixAt(j, "leaveBcd")
    /\ \/ pinned' = pinned \ {j}
       \/ UNCHANGED pinned
    /\ FixGoto(j, "leaveEsp", fix[j].result)
    /\ UNCHANGED <<part, mnt, held>>

\* defer Unmount(mntDir), which may fail, and does while the store is mounted.
LeaveEsp(j) ==
    /\ FixAt(j, "leaveEsp")
    /\ \/ Unmount(j) /\ FixGoto(j, "done", fix[j].result)
       \/ /\ fix' = [fix EXCEPT ![j].pc = "done", ![j].left = TRUE]
          /\ UNCHANGED tableVars

Fix(j) ==
    \/ \E p \in Part : MountEsp(j, p)
    \/ MountEspError(j) \/ MountStore(j) \/ MountStoreError(j)
    \/ RewriteStore(j) \/ RewriteError(j) \/ LeaveStore(j) \/ LeaveEsp(j)
================================================================================
