------------------------------- MODULE ImageApply -------------------------------
(***************************************************************************)
(* MaintenanceService.ApplyImage on Linux.  An NTFS partition is written   *)
(* by a wimapply process; any other is formatted, mounted and filled by    *)
(* tools/wim: WIM.Apply prepares it and starts a goroutine in wimlib, the  *)
(* handler waits for what arrives on the unbuffered channel chFinish.      *)
(* wimlib calls notifyCB from that goroutine.                              *)
(***************************************************************************)
EXTENDS MountTable

CONSTANT Applies   \* the ApplyImage calls

ASSUME ApplyAssumption == Applies \subseteq Job

VARIABLES
    apply,      \* per ApplyImage call, the handler's locals and its goroutine
    crashed     \* a nil fs_type or a nil WIM was dereferenced: the daemon is gone

ApplyState ==
    [pc : {"new", "wimapply", "open", "check", "umount", "mkfs", "mount",
           "select", "stuck", "done"},
     part : Part \cup {NoPart},
     fs : FsType,                  \* what GetFSType answered
     found : Dir \cup {NoPart},    \* the directory CheckMount answered
     wim : BOOLEAN,                \* the image is open
     writer : {"none", "wimapply", "extract", "fill", "send", "sendErr", "unmount", "end"},
     errno : BOOLEAN,              \* the error of the failed extraction is not nil
     raced : BOOLEAN,              \* ghost: found may be the answer to another call
     hidden : BOOLEAN,             \* ghost: a failure came with errno 0, read as none
     broken : BOOLEAN,             \* ghost: preparing the partition failed
     result : {"none", "ok", "error"}]

NewApply ==
    [pc |-> "new", part |-> NoPart, fs |-> "none", found |-> NoPart, wim |-> FALSE,
     writer |-> "none", errno |-> TRUE, raced |-> FALSE, hidden |-> FALSE,
     broken |-> FALSE, result |-> "none"]

ApplyTypeOK ==
    /\ apply \in [Applies -> ApplyState]
    /\ \A j \in Applies : apply[j].pc \notin {"new", "done"} => apply[j].part \in Part
    /\ crashed \in BOOLEAN

ApplyInit == apply = [j \in Applies |-> NewApply] /\ crashed = FALSE
--------------------------------------------------------------------------------
At(j, pc) == ~crashed /\ apply[j].pc = pc
Writing(j, at) == ~crashed /\ apply[j].writer = at
Target(j) == apply[j].part

Becomes(j, s) == apply' = [apply EXCEPT ![j] = s] /\ UNCHANGED crashed
Goto(j, pc) == Becomes(j, [apply[j] EXCEPT !.pc = pc])
Answers(j, result) == Becomes(j, [apply[j] EXCEPT !.pc = "done", !.result = result])

\* w.chFinish <- err before Apply has returned the channel: nobody receives.
Blocks(j) == Becomes(j, [apply[j] EXCEPT !.pc = "stuck", !.broken = TRUE])

\* ApplyImage finds the partition and asks its type, which needs one.
ApplyImage(j, p) ==
    /\ At(j, "new")
    /\ IF part[p].fs = "none" THEN crashed' = TRUE /\ UNCHANGED apply
       ELSE Becomes(j, [apply[j] EXCEPT
                !.part = p, !.fs = part[p].fs,
                !.pc = IF part[p].fs = "ntfs" THEN "wimapply" ELSE "open"])
    /\ UNCHANGED tableVars

\* The disk or the partition is not found.
ApplyNotFound(j) == At(j, "new") /\ Answers(j, "error") /\ UNCHANGED tableVars

\* wimapply opens a partition nobody uses, or fails.
WimapplyStart(j) ==
    /\ At(j, "wimapply") /\ Free(Target(j))
    /\ held' = held \cup {Target(j)}
    /\ Writes(Target(j), [by |-> j, whole |-> FALSE])
    /\ Becomes(j, [apply[j] EXCEPT !.writer = "wimapply", !.pc = "select"])
    /\ UNCHANGED <<mnt, pinned>>

WimapplyError(j) == At(j, "wimapply") /\ Answers(j, "error") /\ UNCHANGED tableVars

\* Its output ends and Wait answers its exit status.
WimapplyEnd(j) ==
    /\ Writing(j, "wimapply")
    /\ held' = held \ {Target(j)}
    /\ \E r \in {"ok", "error"} :
        /\ Becomes(j, [apply[j] EXCEPT !.writer = "end", !.pc = "done", !.result = r])
        /\ IF r = "ok" THEN Writes(Target(j), [by |-> j, whole |-> TRUE]) ELSE UNCHANGED part
    /\ UNCHANGED <<mnt, pinned>>
--------------------------------------------------------------------------------
\* ApplyImage2 asks the type again and opens the image.  An error of wimlib that
\* leaves errno 0 is no error to Open.
OpenImage(j) ==
    /\ At(j, "open")
    /\ IF part[Target(j)].fs = "none" THEN crashed' = TRUE /\ UNCHANGED apply
       ELSE \E w \in BOOLEAN :
            Becomes(j, [apply[j] EXCEPT !.fs = part[Target(j)].fs, !.wim = w,
                                        !.hidden = ~w, !.pc = "check"])
    /\ UNCHANGED tableVars

OpenError(j) == At(j, "open") /\ Answers(j, "error") /\ UNCHANGED tableVars

\* Apply: CheckMount.
Check(j) ==
    /\ At(j, "check")
    /\ \E raced \in {r \in BOOLEAN : r => \E k \in Applies \ {j} : At(k, "check")} :
       \E d \in IF raced THEN CheckMountRaced ELSE CheckMount(Target(j)) :
            Becomes(j, [apply[j] EXCEPT !.found = d, !.raced = raced,
                                        !.pc = IF d = NoPart THEN "mkfs" ELSE "umount"])
    /\ UNCHANGED tableVars

\* Unmount of what was found, which may be busy or gone.
UnmountFound(j) ==
    /\ At(j, "umount")
    /\ Unmount(apply[j].found)
    /\ Goto(j, "mkfs")

\* Apply: only these two types are formatted.
Format(j) ==
    /\ At(j, "mkfs")
    /\ IF apply[j].fs \in {"ntfs", "fat32"} THEN Mkfs(Target(j), apply[j].fs)
                                             ELSE UNCHANGED tableVars
    /\ Goto(j, "mount")

\* Apply: the partition is mounted on j's directory and the goroutine started.
MountTarget(j) ==
    /\ At(j, "mount")
    /\ Mount(Target(j), apply[j].fs, j)
    /\ Becomes(j, [apply[j] EXCEPT !.pc = "select", !.writer = "extract"])

\* Any of the three fails.
PrepareError(j) ==
    /\ \/ At(j, "umount")
       \/ (At(j, "mkfs") \/ At(j, "mount")) /\ apply[j].fs \in {"ntfs", "fat32"}
    /\ Blocks(j)
    /\ UNCHANGED tableVars
--------------------------------------------------------------------------------
\* The directory that is filled is the partition's only while that is mounted.
OnTarget(j) == mnt[j] = Target(j)

\* wimlib_extract_image begins; without a WIM it dereferences nil or fails.
ExtractBegin(j) ==
    /\ Writing(j, "extract") /\ apply[j].wim
    /\ Becomes(j, [apply[j] EXCEPT !.writer = "fill"])
    /\ IF OnTarget(j) THEN Writes(Target(j), [by |-> j, whole |-> FALSE]) ELSE UNCHANGED part
    /\ UNCHANGED <<mnt, held, pinned>>

ExtractCrash(j) ==
    /\ Writing(j, "extract") /\ ~apply[j].wim
    /\ crashed' = TRUE
    /\ UNCHANGED <<apply, tableVars>>

\* The last file is written and notifyCB is called with the end of the image.
ExtractEnd(j) ==
    /\ Writing(j, "fill")
    /\ Becomes(j, [apply[j] EXCEPT !.writer = "send"])
    /\ IF OnTarget(j) /\ part[Target(j)].content = [by |-> j, whole |-> FALSE]
           THEN Writes(Target(j), [by |-> j, whole |-> TRUE])
           ELSE UNCHANGED part
    /\ UNCHANGED <<mnt, held, pinned>>

\* Mutant of ExtractError: the goroutine ends and sends nothing.
ExtractErrorUnsent(j) ==
    /\ Writing(j, "extract") \/ Writing(j, "fill")
    /\ Becomes(j, [apply[j] EXCEPT !.writer = "end"])
    /\ UNCHANGED tableVars

\* The extraction fails; errno, which becomes the error, may be 0.
ExtractError(j) ==
    /\ Writing(j, "extract") \/ Writing(j, "fill")
    /\ \E e \in BOOLEAN :
        Becomes(j, [apply[j] EXCEPT !.writer = "sendErr", !.errno = e,
                                    !.hidden = @ \/ ~e])
    /\ UNCHANGED tableVars

\* Mutant of Finish: what is received is not looked at.
FinishAnyhow(j) ==
    /\ At(j, "select")
    /\ Writing(j, "send") \/ Writing(j, "sendErr")
    /\ Becomes(j, [apply[j] EXCEPT !.writer = "unmount", !.pc = "done", !.result = "ok"])
    /\ UNCHANGED tableVars

\* chFinish: the handler receives and answers while the partition is mounted yet.
Finish(j) ==
    /\ At(j, "select")
    /\ \/ /\ Writing(j, "send")
          /\ Becomes(j, [apply[j] EXCEPT !.writer = "unmount", !.pc = "done", !.result = "ok"])
       \/ /\ Writing(j, "sendErr")
          /\ Becomes(j, [apply[j] EXCEPT !.writer = "unmount", !.pc = "done",
                                         !.result = IF apply[j].errno THEN "error" ELSE "ok"])
    /\ UNCHANGED tableVars

\* The deferred Unmount of j's directory; it fails if nothing is mounted there.
Leave(j) ==
    /\ Writing(j, "unmount")
    /\ \/ Unmount(j)
       \/ mnt[j] = NoPart /\ UNCHANGED tableVars
    /\ Becomes(j, [apply[j] EXCEPT !.writer = "end"])

LeaveError(j) ==
    /\ Writing(j, "unmount")
    /\ Becomes(j, [apply[j] EXCEPT !.writer = "end", !.broken = TRUE])
    /\ UNCHANGED tableVars

Prepare(j) ==
    OpenImage(j) \/ OpenError(j) \/ Check(j) \/ UnmountFound(j) \/ Format(j)
        \/ MountTarget(j) \/ PrepareError(j)
Extract(j) ==
    ExtractBegin(j) \/ ExtractCrash(j) \/ ExtractEnd(j) \/ ExtractError(j)
        \/ Finish(j) \/ Leave(j) \/ LeaveError(j)
Wimapply(j) == WimapplyStart(j) \/ WimapplyError(j) \/ WimapplyEnd(j)

Apply(j) ==
    (\E p \in Part : ApplyImage(j, p)) \/ ApplyNotFound(j)
        \/ Wimapply(j) \/ Prepare(j) \/ Extract(j)
================================================================================
