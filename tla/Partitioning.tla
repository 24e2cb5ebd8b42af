------------------------------ MODULE Partitioning ------------------------------
(***************************************************************************)
(* MaintenanceService.FormatDisks (maintenance_linux.go): concurrent and   *)
(* repeated calls read a disk's partition table, change it in memory, write*)
(* it back, and only when every disk is done make the file systems.  Any   *)
(* step may fail, and the daemon may be killed or panic between two steps, *)
(* with the disks as they are.                                             *)
(***************************************************************************)
EXTENDS PartTable, Sequences

CONSTANTS
    Call,       \* the calls, in any order and number at a time
    Disk,
    Requests,   \* what a client asks for: a sequence of disks and their partitions
    Layouts,    \* the tables that the disks may have at first
    MsrStart    \* the start of a partition that another system left without file system

ASSUME PartitioningAssumption ==
    /\ <<>> \notin Requests   \* a call without disks answers at once
    /\ Requests \subseteq Seq([disk : Disk, parts : Seq([fs : STRING, size : Nat])])
    /\ \A r \in Requests : \A j, k \in 1..Len(r) :
        r[j].disk \in Disk /\ (r[j].disk = r[k].disk => j = k)
    /\ \A t \in Layouts : WellFormed(t)

Signature == Known \cup {"none"}
Causes == {"no", "bare", "full", "type"}

VARIABLES
    layout,     \* per disk, the table on the medium: numbers to geometries
    sig,        \* per disk, the file system that begins at a sector, if there is one
    call,       \* the calls
    panic,      \* why the daemon panicked, if it did, and in which call
    met,        \* ghost: the calls that ran while another one did
    squeezed    \* ghost: which partitions libparted made elsewhere or smaller, for which call

vars == <<layout, sig, call, panic, met, squeezed>>

At(c, pc) == panic.why = "no" /\ call[c].pc = pc
Active(c) == call[c].pc \notin {"new", "done"}
Becomes(c, r) == call' = [call EXCEPT ![c] = r]

Job(c) == call[c].req[call[c].disk]        \* the disk it is at
Wants(c) == Job(c).parts
Want(c) == Wants(c)[call[c].part]
Table(c) == call[c].table
Probed(d, s) == IF s \in DOMAIN sig[d] THEN sig[d][s] ELSE "none"

TypeOK ==
    /\ \A d \in Disk : /\ WellFormed(layout[d])
                       /\ \A s \in DOMAIN sig[d] : sig[d][s] \in Signature
    /\ \A c \in Call : Active(c) => WellFormed(Table(c))
    /\ panic.why \in Causes
    /\ met \subseteq Call /\ squeezed \subseteq Call \X Disk \X (Nat \ {0})

Init ==
    /\ \E t \in [Disk -> Layouts], fs \in {"ntfs", "ext4"} :
        /\ layout = [d \in Disk |-> [n \in DOMAIN t[d] |-> Geo(t[d][n])]]
        /\ sig = [d \in Disk |->
            [s \in {t[d][n].start : n \in DOMAIN t[d]} \ {MsrStart} |-> fs]]
    /\ call = [c \in Call |-> [pc |-> "new", req |-> <<>>, disk |-> 1, part |-> 1,
                               table |-> <<>>, result |-> "none"]]
    /\ panic = [why |-> "no", call |-> CHOOSE c \in Call : TRUE]
    /\ met = {} /\ squeezed = {}
--------------------------------------------------------------------------------
\* A client calls.
FormatDisks(c) ==
    /\ At(c, "new")
    /\ \E r \in Requests : Becomes(c, [call[c] EXCEPT !.pc = "open", !.req = r])
    /\ LET others == {b \in Call \ {c} : Active(b)} IN
        met' = IF others = {} THEN met ELSE met \cup others \cup {c}
    /\ UNCHANGED <<layout, sig, panic, squeezed>>

Fail(c) == Becomes(c, [call[c] EXCEPT !.pc = "done", !.result = "error"])

\* The disk is not found, or its device cannot be opened.
NoDevice(c) ==
    /\ At(c, "open") \/ At(c, "reopen")
    /\ Fail(c)
    /\ UNCHANGED <<layout, sig, panic, met, squeezed>>

\* GetDisk reads the table and probes the file systems; a disk without a table
\* gets an empty one, in memory.
GetDisk(c) ==
    LET d == Job(c).disk
        t == [n \in DOMAIN layout[d] |->
                [start |-> layout[d][n].start, end |-> layout[d][n].end,
                 fs    |-> Probed(d, layout[d][n].start)]]
    IN Becomes(c, [call[c] EXCEPT !.table = t, !.part = 1,
                                  !.pc = IF @ = "open" THEN "part" ELSE "format"])

Open(c) ==
    /\ At(c, "open") \/ At(c, "reopen")
    /\ GetDisk(c)
    /\ UNCHANGED <<layout, sig, panic, met, squeezed>>

Panic(c, why) == panic' = [why |-> why, call |-> c] /\ UNCHANGED call

\* MkPart into the table t, with its two panics and its error.
Make(c, t) ==
    \/ /\ Want(c).fs \notin Known
       /\ Panic(c, "type") /\ UNCHANGED squeezed
    \/ /\ Want(c).fs \in Known /\ ~OnDisk(t, Want(c).size)
       /\ Panic(c, "full") /\ UNCHANGED squeezed
    \/ /\ Want(c).fs \in Known /\ OnDisk(t, Want(c).size) /\ ~HasRoom(t)
       /\ Fail(c) /\ UNCHANGED <<panic, squeezed>>
    \/ /\ Want(c).fs \in Known /\ OnDisk(t, Want(c).size) /\ HasRoom(t)
       /\ Becomes(c, [call[c] EXCEPT !.table = MkPart(t, Want(c)), !.part = @ + 1])
       /\ squeezed' = IF Placed(t, Want(c).size) = Wanted(t, Want(c).size) THEN squeezed
                       ELSE squeezed \cup {<<c, Job(c).disk, call[c].part>>}
       /\ UNCHANGED panic

Planning(c) == At(c, "part") /\ call[c].part <= Len(Wants(c))
Has(c) == call[c].part \in DOMAIN Table(c)
Found(c) == Table(c)[call[c].part]

\* There is no partition of that number yet.
Create(c) ==
    /\ Planning(c) /\ ~Has(c)
    /\ Make(c, Table(c))
    /\ UNCHANGED <<layout, sig, met>>

\* The partition is as requested.
Keep(c) ==
    /\ Planning(c) /\ Has(c) /\ Found(c).fs # "none" /\ Matches(Found(c), Want(c))
    /\ Becomes(c, [call[c] EXCEPT !.part = @ + 1])
    /\ UNCHANGED <<layout, sig, panic, met, squeezed>>

\* GetFSType dereferences fs_type, which is nil when libparted finds none.
Bare(c) ==
    /\ Planning(c) /\ Has(c) /\ Found(c).fs = "none"
    /\ Panic(c, "bare")
    /\ UNCHANGED <<layout, sig, met, squeezed>>

\* Mutant of Delete: the loop counts the partition it deletes.
DeleteBehind(c) ==
    /\ Planning(c) /\ Has(c) /\ Found(c).fs # "none" /\ ~Matches(Found(c), Want(c))
    /\ Make(c, Restrict(Table(c), {n \in DOMAIN Table(c) : n < call[c].part}))
    /\ UNCHANGED <<layout, sig, met>>

\* The loop that deletes: it counts i and deletes pi + 1 each time, so it deletes one
\* partition, if libparted lets it, and then either ends, or fails to find the one it
\* has just deleted.
Delete(c) ==
    /\ Planning(c) /\ Has(c) /\ Found(c).fs # "none" /\ ~Matches(Found(c), Want(c))
    /\ LET pi    == call[c].part - 1
           count == Cardinality(DOMAIN Table(c))
       IN IF pi + 1 < count - 1
              THEN Fail(c) /\ UNCHANGED <<panic, squeezed>>
              ELSE \/ Make(c, RmPart(Table(c), pi + 1))
                   \/ Fail(c) /\ UNCHANGED <<panic, squeezed>>
    /\ UNCHANGED <<layout, sig, met>>
--------------------------------------------------------------------------------
Planned(c) == At(c, "part") /\ call[c].part > Len(Wants(c))
Done(c) == At(c, "format") /\ call[c].part > Len(Wants(c))

Write(c) == layout' = [layout EXCEPT ![Job(c).disk] = [n \in DOMAIN Table(c) |-> Geo(Table(c)[n])]]

\* Commit writes the table; then comes the next disk, and after the last disk the
\* formatting of the first.
Commit(c) ==
    /\ Planned(c)
    /\ Write(c)
    /\ Becomes(c, IF call[c].disk < Len(call[c].req)
                      THEN [call[c] EXCEPT !.pc = "open", !.disk = @ + 1]
                      ELSE [call[c] EXCEPT !.pc = "reopen", !.disk = 1])
    /\ UNCHANGED <<sig, panic, met, squeezed>>

\* Commit fails before it writes, or after, when the kernel is not told.
CommitError(c) ==
    /\ Planned(c) \/ Done(c)
    /\ Write(c) \/ UNCHANGED layout
    /\ Fail(c)
    /\ UNCHANGED <<sig, panic, met, squeezed>>

Formatting(c) == At(c, "format") /\ call[c].part <= Len(Wants(c))

\* mkfs.vfat chooses between FAT16 and FAT32 by the size.
Made(fs) == IF fs = "fat32" THEN {"fat32", "fat16"} ELSE {fs}

\* A file system begins at a sector.
Begins(s, fs, g) == [r \in DOMAIN g \cup {s} |-> IF r = s THEN fs ELSE g[r]]

\* Mkntfs and Mkvfat, on the kernel's partition of that number.
Mkfs(c) ==
    /\ Formatting(c) /\ Has(c) /\ Want(c).fs \in Formatted
    /\ LET d == Job(c).disk IN
        /\ call[c].part \in DOMAIN layout[d]
        /\ \E fs \in Made(Want(c).fs) :
            sig' = [sig EXCEPT ![d] = Begins(layout[d][call[c].part].start, fs, @)]
    /\ Becomes(c, [call[c] EXCEPT !.part = @ + 1])
    /\ UNCHANGED <<layout, panic, met, squeezed>>

\* Other types are not formatted, and a partition that is not there is passed over.
MkfsNothing(c) ==
    /\ Formatting(c) /\ (Has(c) => Want(c).fs \notin Formatted)
    /\ Becomes(c, [call[c] EXCEPT !.part = @ + 1])
    /\ UNCHANGED <<layout, sig, panic, met, squeezed>>

\* Mutant of MkfsError: the error is logged and the next partition formatted.
MkfsErrorLogged(c) ==
    /\ Formatting(c) /\ Has(c)
    /\ Becomes(c, [call[c] EXCEPT !.part = @ + 1])
    /\ UNCHANGED <<layout, sig, panic, met, squeezed>>

\* The kernel does not have the partition, or mkfs fails.
MkfsError(c) ==
    /\ Formatting(c) /\ Has(c)
    /\ Fail(c)
    /\ UNCHANGED <<layout, sig, panic, met, squeezed>>

\* The table that was read before the formatting is written again.
Recommit(c) ==
    /\ Done(c)
    /\ Write(c)
    /\ Becomes(c, IF call[c].disk < Len(call[c].req)
                      THEN [call[c] EXCEPT !.pc = "reopen", !.disk = @ + 1]
                      ELSE [call[c] EXCEPT !.pc = "done", !.result = "ok"])
    /\ UNCHANGED <<sig, panic, met, squeezed>>

\* The daemon is killed, or has panicked, and is started again.
Restart ==
    /\ \E c \in Call : Active(c)
    /\ call' = [c \in Call |->
        IF Active(c) THEN [call[c] EXCEPT !.pc = "done", !.result = "lost"] ELSE call[c]]
    /\ panic' = [panic EXCEPT !.why = "no"]
    /\ UNCHANGED <<layout, sig, met, squeezed>>

Plan(c) == Create(c) \/ Keep(c) \/ Bare(c) \/ Delete(c)
Format(c) == Mkfs(c) \/ MkfsNothing(c) \/ MkfsError(c)

Next ==
    \/ \E c \in Call :
        \/ FormatDisks(c) \/ NoDevice(c) \/ Open(c) \/ Plan(c)
        \/ Commit(c) \/ CommitError(c) \/ Format(c) \/ Recommit(c)
    \/ Restart

Spec == Init /\ [][Next]_vars
--------------------------------------------------------------------------------
Provided(c, want, d, n) ==
    /\ n \in DOMAIN layout[d]
    /\ CloseTo(layout[d][n], want) \/ <<c, d, n>> \in squeezed
    /\ want.fs \in Formatted => Probed(d, layout[d][n].start) \in Made(want.fs)

(***************************************************************************)
(* A client told "ok" has every partition it asked for, of the size it     *)
(* asked for to 2 MB and formatted: unless libparted did not have the room *)
(* where MkPart wanted the partition, or other calls ran meanwhile.        *)
(***************************************************************************)
OkMeansProvided ==
    [][\A c \in Call \ met : call[c].result = "none" /\ call'[c].result = "ok" =>
        \A k \in DOMAIN call[c].req :
            \A n \in DOMAIN call[c].req[k].parts :
                Provided(c, call[c].req[k].parts[n], call[c].req[k].disk, n)']_vars

Changed(d, n) == n \notin DOMAIN layout'[d] \/ layout'[d][n] # layout[d][n]

Mismatch(c, d, n) ==
    /\ Job(c).disk = d
    /\ n \in DOMAIN Wants(c)
    /\ ~Matches([start |-> layout[d][n].start, end |-> layout[d][n].end,
                 fs    |-> Probed(d, layout[d][n].start)], Wants(c)[n])

(***************************************************************************)
(* A partition stays where it is until a call that asks for its number and *)
(* finds it of another size or type commits: partitions nobody asked for   *)
(* and those that are as requested are kept, by a repeated call as well.   *)
(***************************************************************************)
OthersAreKept ==
    [][\A d \in Disk : \A n \in DOMAIN layout[d] : Changed(d, n) =>
        \E c \in Call : (Planned(c) \/ Done(c)) /\ (c \in met \/ Mismatch(c, d, n))]_vars

\* The call was cut short, or asked for a partition that is not formatted.
LeavesBare(c) ==
    \/ call[c].result \in {"error", "lost"}
    \/ \E k \in DOMAIN call[c].req : \E n \in DOMAIN call[c].req[k].parts :
        call[c].req[k].parts[n].fs \notin Formatted

(***************************************************************************)
(* A call that runs alone panics on a partition without file system only   *)
(* when another system left it so, or a failed or interrupted call did, or *)
(* one for a type that is not formatted, or one that ran while another     *)
(* did: repeating a call that ran alone and answered "ok" is safe,         *)
(* repeating one that did not may end the daemon.                          *)
(***************************************************************************)
BareNeedsUnfinished ==
    panic.why = "bare" /\ panic.call \notin met =>
        \/ Found(panic.call).start = MsrStart
        \/ \E c \in Call \ {panic.call} : LeavesBare(c) \/ c \in met
================================================================================
