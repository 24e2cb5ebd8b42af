------------------------------- MODULE MountTable -------------------------------
(***************************************************************************)
(* The partitions and the mount table of the host, as tools/parted changes *)
(* them with external programs: mkfs, mount, umount.  The RPC handlers of  *)
(* MaintenanceService share both and lock neither.                         *)
(*                                                                         *)
(* Every Mount makes a temporary directory of its own, so a directory is   *)
(* known by the job it was made for; the directory on which the host       *)
(* itself mounts a partition is known by the partition.                    *)
(***************************************************************************)
EXTENDS Integers, FiniteSets

CONSTANTS
    Job,        \* the RPC calls that mount something
    Part,       \* the partitions
    NoPart,     \* nothing is mounted
    Nobody      \* no job wrote what a partition holds

ASSUME MountAssumption ==
    Job \cap Part = {} /\ NoPart \notin Part /\ Nobody \notin Job

VARIABLES
    part,       \* per partition, its file system and what that holds
    mnt,        \* per directory, the partition mounted on it
    held,       \* the partitions that a wimapply process has open
    pinned      \* the directories that hold a file mounted in its turn

tableVars == <<part, mnt, held, pinned>>

Dir == Job \cup Part
FsType == {"ntfs", "fat32", "other", "none"}   \* "none": libparted knows no type
Content == [by : Job \cup {Nobody}, whole : BOOLEAN]
Store == {"none", "stale", "fixed"}            \* Windows' boot configuration

TableTypeOK ==
    /\ part \in [Part -> [fs : FsType, content : Content, bcd : Store]]
    /\ mnt \in [Dir -> Part \cup {NoPart}]
    /\ held \subseteq Part
    /\ pinned \subseteq Job

TableInit ==
    /\ part \in [Part -> [fs : FsType, content : {[by |-> Nobody, whole |-> TRUE]},
                         bcd : {"none", "stale"}]]
    /\ \E H \in SUBSET {p \in Part : part[p].fs # "none"} :
        mnt = [d \in Dir |-> IF d \in H THEN d ELSE NoPart]
    /\ held = {} /\ pinned = {}

MountsOf(p) == {d \in Dir : mnt[d] = p}
Free(p) == MountsOf(p) = {} /\ p \notin held
--------------------------------------------------------------------------------
\* mkntfs and mkfs.vfat refuse a partition that is in use.
Mkfs(p, fs) ==
    /\ Free(p)
    /\ part' = [part EXCEPT ![p] = [fs |-> fs, content |-> [by |-> Nobody, whole |-> FALSE],
                                    bcd |-> "none"]]
    /\ UNCHANGED <<mnt, held, pinned>>

\* Mount: of a type it does not know it mounts nothing, and says it did.
Mount(p, fs, d) ==
    /\ IF fs \in {"ntfs", "fat32"}
           THEN p \notin held /\ part[p].fs # "none" /\ mnt' = [mnt EXCEPT ![d] = p]
           ELSE UNCHANGED mnt
    /\ UNCHANGED <<part, held, pinned>>

\* Unmount: umount2 succeeds, and the directory is deleted.
Unmount(d) ==
    /\ mnt[d] # NoPart /\ d \notin pinned
    /\ mnt' = [mnt EXCEPT ![d] = NoPart]
    /\ UNCHANGED <<part, held, pinned>>

\* Mutant of CheckMount: sda1 is taken for sda10.
CheckMountPrefix(p) == {d \in Dir : mnt[d] # NoPart} \cup {NoPart}

\* c_GetMount: a directory on which p is mounted, if there is one.
CheckMount(p) == IF MountsOf(p) = {} THEN {NoPart} ELSE MountsOf(p)

\* Its getmntent answers in a static buffer: what two threads find at the same
\* time may be the other's.
CheckMountRaced == {NoPart} \cup {d \in Dir : mnt[d] # NoPart}

Writes(p, c) == part' = [part EXCEPT ![p].content = c]
================================================================================
