------------------------------- MODULE PartTable -------------------------------
(***************************************************************************)
(* The partition table of a disk as tools/parted computes it, in sectors:  *)
(* where MkPart puts a partition, what libparted then makes of that, and   *)
(* which partitions FormatDisks takes for the ones it was asked for.       *)
(* A table is a function from partition numbers to partitions.             *)
(***************************************************************************)
EXTENDS Integers, FiniteSetsExt, Functions, TLC

CONSTANT Grains   \* the size of every disk, in grains

ASSUME TableAssumption == Grains \in Nat \ {0, 1, 2}

SectorSize == 512
Grain == 2048     \* libparted's optimal alignment, in sectors

\* The file systems libparted knows: FormatDisks makes the first two only.
Formatted == {"ntfs", "fat32"}
Known == Formatted \cup {"fat16", "ext4"}

Geometry == {g \in [start : 0..(Grains * Grain - 1), end : 0..(Grains * Grain - 1)] :
                g.start <= g.end}
Geo(p) == [start |-> p.start, end |-> p.end]

\* Partitions are numbered from 1, do not overlap and do not reach where the labels are.
WellFormed(t) ==
    /\ IsFiniteSet(DOMAIN t) /\ DOMAIN t \subseteq Nat \ {0}
    /\ \A n \in DOMAIN t : Geo(t[n]) \in Geometry /\ t[n].start >= Grain
    /\ \A m, n \in DOMAIN t : m # n => t[m].end < t[n].start \/ t[n].end < t[m].start
--------------------------------------------------------------------------------
\* What Euclid's algorithm returns for positive numbers.
GCD(a, b) == Max({k \in 1..a : a % k = 0 /\ b % k = 0})
LCM(a, b) == (a * b) \div GCD(a, b)

Slot == LCM(34, Grain)

\* Go's division rounds towards zero.
Quotient(a, b) == IF a < 0 THEN -((-a) \div b) ELSE a \div b

\* The end of the partition whose number is the number of partitions, if it has one.
LastEnd(t) ==
    LET n == Cardinality(DOMAIN t) IN IF n \in DOMAIN t THEN t[n].end ELSE 0

\* Where MkPart wants a partition of so many megabytes to start and to end.
WantedStart(t) == (Quotient(LastEnd(t) - 1, Slot) + 1) * Slot
WantedEnd(t, size) == WantedStart(t) + (size * 1000 * 1000) \div SectorSize

\* ped_partition_new: the geometry has to be on the disk.
OnDisk(t, size) == WantedEnd(t, size) < Grains * Grain
--------------------------------------------------------------------------------
\* ped_disk_add_partition: libparted's room for a partition that starts at s.
RoomStart(t, s) ==
    Min({lo \in {Grain} \cup {t[n].end + 1 : n \in DOMAIN t} :
            \A n \in DOMAIN t : t[n].start < s \/ t[n].start <= lo => t[n].end < lo})

\* The room ends before the next partition, or before the label at the disk's end.
RoomEnd(t, s) ==
    Min({(Grains - 1) * Grain} \cup
        {t[n].start : n \in {m \in DOMAIN t : t[m].start > RoomStart(t, s)}}) - 1

HasRoom(t) == RoomEnd(t, WantedStart(t)) - RoomStart(t, WantedStart(t)) >= Grain - 1

Clamp(x, lo, hi) == IF x < lo THEN lo ELSE IF x > hi THEN hi ELSE x

\* The wanted geometry, with its end at the nearest aligned sector.
Wanted(t, size) ==
    [start |-> WantedStart(t),
     end   |-> ((WantedEnd(t, size) + 1 + Grain \div 2) \div Grain) * Grain - 1]

\* What libparted makes of it: both ends are moved inside the room.
Placed(t, size) ==
    LET w     == Wanted(t, size)
        hi    == RoomEnd(t, w.start)
        start == Clamp(w.start, RoomStart(t, w.start), hi - Grain + 1)
    IN [start |-> start, end |-> Clamp(w.end, start + Grain - 1, hi)]

\* A new partition has the lowest free number.
FreeNumber(t) == Min((1..(Cardinality(DOMAIN t) + 1)) \ DOMAIN t)

\* MkPart; in memory the new partition has the type that was asked for.
MkPart(t, want) ==
    LET g == Placed(t, want.size)
    IN [n \in DOMAIN t \cup {FreeNumber(t)} |->
            IF n \in DOMAIN t THEN t[n] ELSE [start |-> g.start, end |-> g.end, fs |-> want.fs]]

RmPart(t, n) == Restrict(t, DOMAIN t \ {n})
--------------------------------------------------------------------------------
SizeMB(p) == (((p.end - p.start + 1) * SectorSize) \div 1000) \div 1000

CloseTo(p, want) == SizeMB(p) - want.size \in -2..2

\* Mutant of Matches: the type is compared, the size is not.
MatchesType(p, want) == p.fs = want.fs

\* FormatDisks leaves a partition where it is when size and type are as requested.
Matches(p, want) == CloseTo(p, want) /\ p.fs = want.fs
================================================================================
