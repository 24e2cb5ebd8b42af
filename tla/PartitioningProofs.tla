--------------------------- MODULE PartitioningProofs ---------------------------
(***************************************************************************)
(* For any disks, tables, requests and number of calls: what FormatDisks   *)
(* leaves alone (KInv: where it puts a new partition plays no part in      *)
(* that), what it has done when it answers "ok", and what it may have left *)
(* undone (BInv: here it does, and the first part is about that).          *)
(***************************************************************************)
EXTENDS Partitioning, SequenceTheorems, FiniteSetTheorems, TLAPS

\* A set of natural numbers has a least element, and a greatest if it is bounded.
LEMMA NatMin ==
    ASSUME NEW S \in SUBSET Nat, S # {}
    PROVE  \E x \in S : \A y \in S : x <= y
<1> DEFINE R == OpToRel(<, Nat)
<1>1. IsWellFoundedOn(R, Nat)
  BY NatLessThanWellFounded
<1>2. \A x, y \in Nat : x < y => <<x, y>> \in R
  BY DEF OpToRel
<1> HIDE DEF R
<1>3. PICK x \in S : \A y \in S : ~ (<<y, x>> \in R)
  BY <1>1, WFMin
<1>4. ASSUME NEW y \in S PROVE x <= y
  <2>1. x \in Nat /\ y \in Nat
    OBVIOUS
  <2>2. ~(y < x)
    BY <1>2, <1>3, <2>1
  <2> QED
    BY <2>1, <2>2
<1> QED
  BY <1>4

LEMMA MinOf ==
    ASSUME NEW S \in SUBSET Nat, S # {}
    PROVE  Min(S) \in S /\ \A x \in S : Min(S) <= x
BY NatMin DEF Min

LEMMA MaxExists ==
    ASSUME NEW S \in SUBSET Nat, S # {}, NEW b \in Nat, \A x \in S : x <= b
    PROVE  \E x \in S : \A y \in S : y <= x
<1> DEFINE T == {b - x : x \in S}
<1>1. \A x \in S : x \in Nat /\ b - x \in T /\ b - x \in Nat
  OBVIOUS
<1>2. T \in SUBSET Nat /\ T # {}
  BY <1>1
<1>3. PICK z \in T : \A w \in T : z <= w
  BY <1>2, NatMin
<1>4. PICK x \in S : z = b - x
  OBVIOUS
<1>5. ASSUME NEW y \in S PROVE y <= x
  <2>1. b - x <= b - y /\ x \in Nat /\ y \in Nat
    BY <1>1, <1>3, <1>4
  <2> QED
    BY <2>1
<1> QED
  BY <1>5

\* MkPart's alignment is 17 grains.
LEMMA SlotIs == Slot = 17 * 2048
<1> DEFINE D == {k \in 1..34 : 34 % k = 0 /\ 2048 % k = 0}
<1>1. 2 \in D
  OBVIOUS
<1>2. ASSUME NEW k \in D PROVE k <= 2
  <2>1. k \in 1..34 /\ 34 % k = 0 /\ 2048 % k = 0
    OBVIOUS
  <2>2. CASE k \in 3..16
    <3>1. k \in {3, 4, 5, 6, 7, 8, 9, 10, 11, 12, 13, 14, 15, 16}
      BY <2>2
    <3> QED
      BY <2>1, <3>1
  <2>3. CASE k \in 17..33
    <3>1. k \in {17, 18, 19, 20, 21, 22, 23, 24, 25, 26, 27, 28, 29, 30, 31, 32, 33}
      BY <2>3
    <3> QED
      BY <2>1, <3>1
  <2>4. CASE k = 34
    BY <2>1, <2>4
  <2> QED
    BY <2>1, <2>2, <2>3, <2>4
<1> HIDE DEF D
<1>3. Max(D) = 2
  <2>1. \A y \in D : y \in Int
    BY DEF D
  <2>2. \A x \in D : (\A y \in D : x >= y) <=> x = 2
    BY <1>1, <1>2, <2>1
  <2> QED
    BY <1>1, <2>2 DEF Max
<1>4. GCD(34, Grain) = 2
  BY <1>3 DEF GCD, D, Grain
<1> QED
  BY <1>4 DEF Slot, LCM, Grain

\* The bounds of a well formed table's partitions.
LEMMA BoundsOf ==
    ASSUME NEW t, WellFormed(t), NEW n \in DOMAIN t
    PROVE  /\ t[n].start \in Nat /\ t[n].end \in Nat /\ Grain <= t[n].start
           /\ t[n].start <= t[n].end /\ t[n].end < Grains * Grain
<1> DEFINE last == Grains * Grain - 1
<1>1. last \in Int
  BY TableAssumption DEF Grain
<1>2. Geo(t[n]) \in Geometry /\ t[n].start >= Grain
  BY DEF WellFormed
<1>3. Geo(t[n]).start = t[n].start /\ Geo(t[n]).end = t[n].end
  BY DEF Geo
<1> HIDE DEF last
<1>4. Geometry = {g \in [start : 0..last, end : 0..last] : g.start <= g.end}
  BY DEF Geometry, last
<1>5. t[n].start \in 0..last /\ t[n].end \in 0..last /\ t[n].start <= t[n].end
  BY <1>2, <1>3, <1>4
<1>6. last < Grains * Grain
  BY TableAssumption DEF last, Grain
<1>7. Grains * Grain \in Int /\ Grain \in Int
  BY TableAssumption DEF Grain
<1> QED
  BY <1>1, <1>2, <1>5, <1>6, <1>7

\* Where MkPart wants a partition.
LEMMA WantedIs ==
    ASSUME NEW t, WellFormed(t), NEW size \in Nat
    PROVE  WantedStart(t) \in Int /\ Wanted(t, size).start \in Int /\ Wanted(t, size).end \in Int
<1>1. LastEnd(t) \in Int
  BY BoundsOf DEF LastEnd
<1>2. \A a \in Int : Quotient(a, 17 * 2048) \in Int
  BY DEF Quotient
<1>3. WantedStart(t) \in Int
  BY <1>1, <1>2, SlotIs DEF WantedStart
<1>4. WantedEnd(t, size) \in Int
  BY <1>3 DEF WantedEnd, SectorSize
<1> QED
  BY <1>3, <1>4 DEF Wanted, Grain

\* libparted's room: no partition that is there reaches into it.
LEMMA RoomIsFree ==
    ASSUME NEW t, WellFormed(t), NEW s \in Int
    PROVE  /\ RoomStart(t, s) \in Nat /\ Grain <= RoomStart(t, s)
           /\ RoomEnd(t, s) \in Int /\ RoomEnd(t, s) < (Grains - 1) * Grain
           /\ \A n \in DOMAIN t : t[n].end < RoomStart(t, s) \/ RoomEnd(t, s) < t[n].start
<1> DEFINE Ends == {Grain} \cup {t[n].end + 1 : n \in DOMAIN t}
<1> DEFINE Free(lo) == \A n \in DOMAIN t : t[n].start < s \/ t[n].start <= lo => t[n].end < lo
<1> DEFINE Starts == {lo \in Ends : Free(lo)}
<1> DEFINE lo == RoomStart(t, s)
<1> DEFINE Limits == {(Grains - 1) * Grain} \cup {t[n].start : n \in {m \in DOMAIN t : t[m].start > lo}}
<1>1. /\ Ends \in SUBSET Nat /\ Ends # {} /\ Grains * Grain \in Nat
      /\ \A x \in Ends : x <= Grains * Grain /\ Grain <= x
  <2>1. Grain \in Nat /\ Grains * Grain \in Nat /\ Grain <= Grains * Grain
    BY TableAssumption DEF Grain
  <2>2. \A n \in DOMAIN t : t[n].end + 1 \in Nat /\ t[n].end + 1 <= Grains * Grain
                            /\ Grain <= t[n].end + 1
    BY <2>1, BoundsOf
  <2> QED
    BY <2>1, <2>2
<1>2. PICK m \in Ends : \A x \in Ends : x <= m
  BY <1>1, MaxExists
<1>3. Free(m)
  <2>1. \A n \in DOMAIN t : t[n].end \in Nat /\ t[n].end + 1 <= m /\ m \in Nat
    BY <1>1, <1>2, BoundsOf
  <2> QED
    BY <2>1
<1>4. Starts \in SUBSET Nat /\ Starts # {}
  BY <1>1, <1>2, <1>3
<1>5. lo = Min(Starts)
  BY DEF RoomStart
<1> HIDE DEF Starts, lo
<1>6. lo \in Starts
  BY <1>4, <1>5, MinOf
<1>7. lo \in Nat /\ Grain <= lo /\ Free(lo)
  BY <1>1, <1>6 DEF Starts
<1>8. Limits \in SUBSET Nat /\ Limits # {}
  <2>1. (Grains - 1) * Grain \in Nat
    BY TableAssumption DEF Grain
  <2> QED
    BY <2>1, BoundsOf
<1>9. RoomEnd(t, s) = Min(Limits) - 1
  BY DEF RoomEnd, lo
<1> HIDE DEF Limits
<1>10. Min(Limits) \in Nat /\ \A x \in Limits : Min(Limits) <= x
  BY <1>8, MinOf
<1>11. Min(Limits) <= (Grains - 1) * Grain /\ (Grains - 1) * Grain \in Int
  BY <1>10, TableAssumption DEF Limits, Grain
<1>12. ASSUME NEW n \in DOMAIN t PROVE t[n].end < lo \/ RoomEnd(t, s) < t[n].start
  <2>1. t[n].start \in Nat
    BY BoundsOf
  <2>2. CASE t[n].start <= lo
    BY <1>7, <2>2
  <2>3. CASE t[n].start > lo
    <3>1. t[n].start \in Limits
      BY <2>3 DEF Limits
    <3> QED
      BY <1>9, <1>10, <2>1, <3>1
  <2> QED
    BY <1>7, <2>1, <2>2, <2>3
<1> QED
  BY <1>7, <1>9, <1>10, <1>11, <1>12 DEF lo

\* A partition that libparted makes is on the disk, and in nobody's way.
LEMMA PlacedFits ==
    ASSUME NEW t, WellFormed(t), NEW size \in Nat, HasRoom(t)
    PROVE  LET g == Placed(t, size) IN
           /\ g.start \in Nat /\ g.end \in Nat /\ Grain <= g.start /\ g.start <= g.end
           /\ g.end < (Grains - 1) * Grain
           /\ \A n \in DOMAIN t : t[n].end < g.start \/ g.end < t[n].start
<1> DEFINE s == WantedStart(t)
<1> DEFINE lo == RoomStart(t, s)
<1> DEFINE hi == RoomEnd(t, s)
<1> DEFINE w == Wanted(t, size).end
<1> DEFINE from == Clamp(s, lo, hi - Grain + 1)
<1> DEFINE to == Clamp(w, from + Grain - 1, hi)
<1>1. s \in Int /\ w \in Int /\ Wanted(t, size).start = s
  BY WantedIs DEF Wanted
<1>2. /\ lo \in Nat /\ Grain <= lo /\ hi \in Int /\ hi < (Grains - 1) * Grain
      /\ \A n \in DOMAIN t : t[n].end < lo \/ hi < t[n].start
  BY <1>1, RoomIsFree
<1>3. hi - lo >= Grain - 1
  BY DEF HasRoom
<1>4. Placed(t, size) = [start |-> from, end |-> to]
  BY <1>1 DEF Placed
<1> HIDE DEF s, lo, hi, w
<1>5. from \in Int /\ lo <= from /\ from + Grain - 1 <= hi
  BY <1>1, <1>2, <1>3 DEF Clamp, Grain
<1> HIDE DEF from
<1>6. to \in Int /\ from <= to /\ to <= hi
  BY <1>1, <1>2, <1>5 DEF Clamp, Grain
<1> HIDE DEF to
<1>7. ASSUME NEW n \in DOMAIN t PROVE t[n].end < from \/ to < t[n].start
  <2>1. t[n].start \in Int /\ t[n].end \in Int
    BY BoundsOf
  <2> QED
    BY <1>2, <1>5, <1>6, <2>1
<1>8. Grain \in Nat /\ (Grains - 1) * Grain \in Int
  BY TableAssumption DEF Grain
<1>9. from \in Nat /\ to \in Nat /\ Grain <= from /\ to < (Grains - 1) * Grain
  BY <1>2, <1>5, <1>6, <1>8
<1> QED
  BY <1>4, <1>6, <1>7, <1>9

\* Where it did not have to move the partition, it is as large as was asked for.
LEMMA WantedIsClose ==
    ASSUME NEW t, WellFormed(t), NEW want, want.size \in Nat
    PROVE  CloseTo(Wanted(t, want.size), want)
<1> DEFINE s == WantedStart(t)
<1> DEFINE b == want.size * 1000000
<1> DEFINE w == b \div 512
<1> DEFINE e == ((s + w + 1 + 1024) \div 2048) * 2048 - 1
<1>1. s \in Int /\ b \in Nat
  BY WantedIs
<1>2. w \in Int /\ 512 * w <= b /\ b < 512 * w + 512
  BY <1>1
<1>3. Wanted(t, want.size) = [start |-> s, end |-> e]
  <2>1. want.size * 1000 * 1000 = b
    OBVIOUS
  <2> QED
    BY <2>1 DEF Wanted, WantedEnd, SectorSize, Grain
<1> HIDE DEF s, w
<1>4. e \in Int /\ e + 1 <= s + w + 1025 /\ s + w + 1025 < e + 1 + 2048
  BY <1>1, <1>2
<1> HIDE DEF e
<1> DEFINE l == (e - s + 1) * 512
<1>5. l \in Int /\ b - 1000000 < l /\ l < b + 1000000
  BY <1>1, <1>2, <1>4
<1> HIDE DEF l
<1> DEFINE k == l \div 1000
<1>6. k \in Int /\ 1000 * k <= l /\ l < 1000 * k + 1000
  BY <1>5
<1> HIDE DEF k
<1> DEFINE m == k \div 1000
<1>7. m \in Int /\ 1000 * m <= k /\ k < 1000 * m + 1000
  BY <1>6
<1> HIDE DEF m
<1>8. m - want.size \in -2..2
  BY <1>5, <1>6, <1>7
<1>9. SizeMB(Wanted(t, want.size)) = m
  BY <1>3 DEF SizeMB, SectorSize, l, k, m
<1> QED
  BY <1>8, <1>9 DEF CloseTo
--------------------------------------------------------------------------------
\* The number of a new partition, when those below a number are taken.
LEMMA FreeIs ==
    ASSUME NEW t, WellFormed(t)
    PROVE  /\ FreeNumber(t) \in Nat \ {0}
           /\ \A k \in Nat \ {0} : k \notin DOMAIN t /\ 1..(k - 1) \subseteq DOMAIN t =>
                  FreeNumber(t) = k
<1> DEFINE c == Cardinality(DOMAIN t)
<1> DEFINE S == (1..(c + 1)) \ DOMAIN t
<1>1. c \in Nat /\ IsFiniteSet(DOMAIN t)
  BY FS_CardinalityType DEF WellFormed
<1>2. S # {}
  <2> SUFFICES ASSUME 1..(c + 1) \subseteq DOMAIN t PROVE FALSE
    OBVIOUS
  <2>1. Cardinality(1..(c + 1)) <= c
    BY <1>1, FS_Subset
  <2>2. Cardinality(1..(c + 1)) = c + 1
    BY <1>1, FS_Interval
  <2> QED
    BY <1>1, <2>1, <2>2
<1>3. S \in SUBSET Nat /\ \A x \in S : x \in Nat \ {0}
  BY <1>1
<1>4. FreeNumber(t) = Min(S)
  BY DEF FreeNumber
<1>5. ASSUME NEW k \in Nat \ {0}, k \notin DOMAIN t, 1..(k - 1) \subseteq DOMAIN t
      PROVE  Min(S) = k
  <2>1. Cardinality(1..(k - 1)) <= c
    BY <1>1, <1>5, FS_Subset
  <2>2. Cardinality(1..(k - 1)) = k - 1
    BY FS_Interval
  <2>3. k \in S
    BY <1>1, <1>5, <2>1, <2>2
  <2>4. \A x \in S : k <= x
    BY <1>3, <1>5
  <2> HIDE DEF S
  <2>5. Min(S) \in S /\ Min(S) <= k /\ k <= Min(S) /\ Min(S) \in Nat
    BY <1>2, <1>3, <2>3, <2>4, MinOf
  <2> QED
    BY <2>5
<1> HIDE DEF S
<1>6. Min(S) \in S
  BY <1>2, <1>3, MinOf
<1>7. Min(S) \in Nat \ {0}
  BY <1>3, <1>6
<1> QED
  BY <1>4, <1>5, <1>7

\* A table with some of the partitions of a well formed one is well formed.
LEMMA PartsFormed ==
    ASSUME NEW t, WellFormed(t), NEW u, DOMAIN u \subseteq DOMAIN t,
           \A n \in DOMAIN u : u[n].start = t[n].start /\ u[n].end = t[n].end
    PROVE  WellFormed(u)
<1>1. IsFiniteSet(DOMAIN u) /\ DOMAIN u \subseteq Nat \ {0}
  BY FS_Subset DEF WellFormed
<1>2. \A n \in DOMAIN u : Geo(u[n]) = Geo(t[n])
  BY DEF Geo
<1>3. \A n \in DOMAIN u : Geo(u[n]) \in Geometry /\ u[n].start >= Grain
  BY <1>2 DEF WellFormed
<1>4. \A m, n \in DOMAIN u : m # n => u[m].end < u[n].start \/ u[n].end < u[m].start
  BY DEF WellFormed
<1> QED
  BY <1>1, <1>3, <1>4 DEF WellFormed

\* So is one with a new partition that libparted placed.
LEMMA MkPartFormed ==
    ASSUME NEW t, WellFormed(t), NEW want, want.size \in Nat, HasRoom(t)
    PROVE  WellFormed(MkPart(t, want))
<1> DEFINE g == Placed(t, want.size)
<1> DEFINE f == FreeNumber(t)
<1> DEFINE u == MkPart(t, want)
<1>1. /\ g.start \in Nat /\ g.end \in Nat /\ Grain <= g.start /\ g.start <= g.end
      /\ g.end < (Grains - 1) * Grain
      /\ \A n \in DOMAIN t : t[n].end < g.start \/ g.end < t[n].start
  BY PlacedFits
<1>2. f \in Nat \ {0}
  BY FreeIs
<1>3. u = [n \in DOMAIN t \cup {f} |->
              IF n \in DOMAIN t THEN t[n] ELSE [start |-> g.start, end |-> g.end, fs |-> want.fs]]
  BY DEF MkPart
<1> HIDE DEF g, f, u
<1>4. /\ DOMAIN u = DOMAIN t \cup {f} /\ \A n \in DOMAIN t : u[n] = t[n]
      /\ f \notin DOMAIN t => u[f].start = g.start /\ u[f].end = g.end
  BY <1>3
<1>5. IsFiniteSet(DOMAIN u) /\ DOMAIN u \subseteq Nat \ {0}
  BY <1>2, <1>4, FS_AddElement DEF WellFormed
<1>6. ASSUME NEW n \in DOMAIN u PROVE Geo(u[n]) \in Geometry /\ u[n].start >= Grain
  <2>1. CASE n \in DOMAIN t
    BY <1>4, <2>1 DEF WellFormed
  <2>2. CASE n \notin DOMAIN t
    <3>1. u[n].start = g.start /\ u[n].end = g.end
      BY <1>4, <2>2
    <3> DEFINE last == Grains * Grain - 1
    <3>2. last \in Int /\ (Grains - 1) * Grain <= last + 1 /\ Grain \in Nat
          /\ (Grains - 1) * Grain \in Int
      BY TableAssumption DEF Grain
    <3>3. Geometry = {h \in [start : 0..last, end : 0..last] : h.start <= h.end}
      BY DEF Geometry
    <3> HIDE DEF last
    <3>4. g.start \in 0..last /\ g.end \in 0..last
      BY <1>1, <3>2
    <3>5. [start |-> g.start, end |-> g.end] \in Geometry
      BY <1>1, <3>3, <3>4
    <3> QED
      BY <1>1, <3>1, <3>2, <3>5 DEF Geo
  <2> QED
    BY <2>1, <2>2
<1>7. ASSUME NEW m \in DOMAIN u, NEW n \in DOMAIN u, m # n
      PROVE  u[m].end < u[n].start \/ u[n].end < u[m].start
  <2>1. CASE m \in DOMAIN t /\ n \in DOMAIN t
    BY <1>4, <1>7, <2>1 DEF WellFormed
  <2>2. CASE m \notin DOMAIN t
    BY <1>1, <1>4, <1>7, <2>2
  <2>3. CASE n \notin DOMAIN t
    BY <1>1, <1>4, <1>7, <2>3
  <2> QED
    BY <2>1, <2>2, <2>3
<1> QED
  BY <1>5, <1>6, <1>7 DEF WellFormed, u
--------------------------------------------------------------------------------

Pcs == {"new", "open", "part", "reopen", "format", "done"}

\* A call's locals; the table may be any function, so it has no type.
Locals(table, result) ==
    [pc : Pcs, req : Requests \cup {<<>>}, disk : Nat \ {0}, part : Nat \ {0},
     table : {table}, result : {result}]

Shaped(r) ==
    /\ r \in Locals(r.table, r.result)
    /\ r.pc = "new" => r.disk = 1
    /\ r.pc \notin {"new", "done"} => r.req \in Requests /\ r.disk <= Len(r.req)

\* What is on the medium are geometries.
DiskPart ==
    /\ layout = [d \in Disk |-> layout[d]]
    /\ \A d \in Disk : \A n \in DOMAIN layout[d] : layout[d][n] = Geo(layout[d][n])

\* A call that met no other runs alone.
AlonePart(c) == c \notin met /\ Active(c) => \A b \in Call \ {c} : ~Active(b)

AsRead(d, n) ==
    [start |-> layout[d][n].start, end |-> layout[d][n].end,
     fs    |-> Probed(d, layout[d][n].start)]

\* The table in memory of a call that runs alone: a partition on the medium is in it
\* as it was read, or was found to be of another size or type than asked for; when
\* the file systems are made, it is what is on the medium.
TablePart(c) ==
    c \notin met =>
        /\ call[c].pc = "part" => \A n \in DOMAIN layout[Job(c).disk] :
              \/ Mismatch(c, Job(c).disk, n)
              \/ n \in DOMAIN Table(c) /\ Table(c)[n] = AsRead(Job(c).disk, n)
        /\ call[c].pc = "format" => \A n \in DOMAIN layout[Job(c).disk] :
              n \in DOMAIN Table(c) /\ Geo(Table(c)[n]) = layout[Job(c).disk][n]

KInv ==
    /\ call = [c \in Call |-> call[c]] /\ \A c \in Call : Shaped(call[c])
    /\ DiskPart
    /\ \A c \in Call : AlonePart(c) /\ TablePart(c)
--------------------------------------------------------------------------------
\* The disk an active call is at.
LEMMA AtDisk ==
    ASSUME KInv, NEW c \in Call, Active(c)
    PROVE  /\ Job(c).disk \in Disk /\ Wants(c) \in Seq([fs : STRING, size : Nat])
           /\ call[c].part \in Nat \ {0}
<1>1. /\ call[c].req \in Requests /\ call[c].disk \in Nat \ {0} /\ call[c].part \in Nat \ {0}
      /\ call[c].disk <= Len(call[c].req)
  <2>1. Shaped(call[c]) /\ call[c].pc \notin {"new", "done"}
    BY DEF KInv, Active
  <2> QED
    BY <2>1 DEF Shaped, Locals
<1> DEFINE Parts == Seq([fs : STRING, size : Nat])
<1> DEFINE Jobs == [disk : Disk, parts : Parts]
<1>2. call[c].req \in Seq(Jobs)
  BY <1>1, PartitioningAssumption
<1> HIDE DEF Parts, Jobs
<1>3. call[c].disk \in 1..Len(call[c].req)
  BY <1>1, <1>2, LenProperties
<1>4. Job(c) \in Jobs
  BY <1>2, <1>3, ElementOfSeq DEF Job
<1>5. Job(c).disk \in Disk /\ Job(c).parts \in Parts
  BY <1>4 DEF Jobs
<1> QED
  BY <1>1, <1>5 DEF Wants, Parts

\* A step of one active call, which no other call that runs alone can see: what is
\* left to show of the call itself.
LEMMA OneFormat ==
    ASSUME KInv, NEW c \in Call, Active(c), NEW r, Shaped(r), r.pc # "new",
           call' = [call EXCEPT ![c] = r], UNCHANGED met, DiskPart', TablePart(c)'
    PROVE  KInv'
<1>1. /\ call'[c] = r /\ \A b \in Call : b # c => call'[b] = call[b]
      /\ call' = [b \in Call |-> call'[b]] /\ \A b \in Call : Shaped(call'[b])
  BY DEF KInv
<1>2. ASSUME NEW b \in Call PROVE AlonePart(b)'
  BY <1>1 DEF KInv, AlonePart, Active
<1>3. ASSUME NEW b \in Call, b # c PROVE TablePart(b)'
  <2>1. b \in met \/ ~Active(b)
    BY <1>3 DEF KInv, AlonePart
  <2> QED
    BY <1>1, <1>3, <2>1 DEF TablePart, Active
<1> QED
  BY <1>1, <1>2, <1>3 DEF KInv

\* A call that ends, with the disks as it found them or as it has just written them.
LEMMA EndFormat ==
    ASSUME KInv, NEW c \in Call, Active(c), Fail(c), UNCHANGED met, DiskPart'
    PROVE  KInv'
<1> DEFINE r == [call[c] EXCEPT !.pc = "done", !.result = "error"]
<1>4. call[c] \in Locals(call[c].table, call[c].result)
  BY DEF KInv, Shaped
<1>1. Shaped(r) /\ r.pc = "done"
  BY <1>4 DEF Locals, Shaped, Pcs
<1>2. call' = [call EXCEPT ![c] = r]
  BY DEF Fail, Becomes
<1> HIDE DEF r
<1>3. TablePart(c)'
  BY <1>1, <1>2 DEF TablePart, KInv
<1> QED
  BY <1>1, <1>2, <1>3, OneFormat

\* Writing the table in memory keeps geometries on the medium.
LEMMA WriteKeeps ==
    ASSUME KInv, NEW c \in Call, Active(c), Write(c)
    PROVE  /\ DiskPart'
           /\ \A d \in Disk : d # Job(c).disk => layout'[d] = layout[d]
           /\ layout'[Job(c).disk] = [n \in DOMAIN Table(c) |-> Geo(Table(c)[n])]
<1>1. Job(c).disk \in Disk
  BY AtDisk
<1> DEFINE t == [n \in DOMAIN Table(c) |-> Geo(Table(c)[n])]
<1> DEFINE here == Job(c).disk
<1>2. \A n \in DOMAIN t : t[n] = Geo(t[n])
  BY DEF Geo
<1>3. layout' = [layout EXCEPT ![here] = t] /\ layout = [d \in Disk |-> layout[d]]
  BY DEF Write, KInv, DiskPart
<1> HIDE DEF t, here
<1>4. /\ layout' = [d \in Disk |-> layout'[d]] /\ layout'[here] = t
      /\ \A d \in Disk : d # here => layout'[d] = layout[d]
  BY <1>1, <1>3 DEF here
<1>5. DiskPart'
  BY <1>2, <1>4 DEF DiskPart, KInv, Geo
<1> QED
  BY <1>4, <1>5 DEF t, here

\* What a step makes of a call's locals.
Begun(a, q) == [a EXCEPT !.pc = "open", !.req = q]
Opened(a, t, pc) == [a EXCEPT !.table = t, !.part = 1, !.pc = pc]
Advanced(a) == [a EXCEPT !.part = @ + 1]
Filled(a, t) == [a EXCEPT !.table = t, !.part = @ + 1]
Moved(a, pc, k) == [a EXCEPT !.pc = pc, !.disk = k]
Ended(a, result) == [a EXCEPT !.pc = "done", !.result = result]

LEMMA BegunShape ==
    ASSUME NEW a, Shaped(a), a.pc = "new", NEW q \in Requests
    PROVE  LET r == Begun(a, q) IN
           /\ Shaped(r) /\ r.pc = "open" /\ r.req = q /\ r.disk = 1 /\ r.table = a.table
           /\ r.result = a.result
<1>1. a \in Locals(a.table, a.result) /\ a.disk = 1
  BY DEF Shaped
<1> DEFINE r == Begun(a, q)
<1>5. r = [a EXCEPT !.pc = "open", !.req = q]
  BY DEF Begun
<1> HIDE DEF r
<1>2. r = [pc |-> "open", req |-> q, disk |-> a.disk, part |-> a.part, table |-> a.table,
           result |-> a.result]
  BY <1>1, <1>5 DEF Locals
<1>3. r \in Locals(r.table, r.result)
  BY <1>1, <1>2 DEF Locals, Pcs
<1>6. q \in Seq([disk : Disk, parts : Seq([fs : STRING, size : Nat])]) /\ q # <<>>
  BY PartitioningAssumption
<1>7. 1 <= Len(q)
  BY <1>6, LenProperties, EmptySeq
<1>4. Shaped(r)
  BY <1>1, <1>2, <1>3, <1>7 DEF Shaped
<1> QED
  BY <1>1, <1>2, <1>4 DEF r

LEMMA OpenedShape ==
    ASSUME NEW a, Shaped(a), a.pc \in {"open", "reopen"}, NEW t, NEW pc \in {"part", "format"}
    PROVE  LET r == Opened(a, t, pc) IN
           /\ Shaped(r) /\ r.pc = pc /\ r.table = t /\ r.req = a.req /\ r.disk = a.disk
           /\ r.part = 1 /\ r.result = a.result
<1>1. a \in Locals(a.table, a.result) /\ a.req \in Requests /\ a.disk <= Len(a.req)
  BY DEF Shaped
<1> DEFINE r == Opened(a, t, pc)
<1>5. r = [a EXCEPT !.table = t, !.part = 1, !.pc = pc]
  BY DEF Opened
<1> HIDE DEF r
<1>2. r = [pc |-> pc, req |-> a.req, disk |-> a.disk, part |-> 1, table |-> t,
           result |-> a.result]
  BY <1>1, <1>5 DEF Locals
<1>3. r \in Locals(r.table, r.result)
  BY <1>1, <1>2 DEF Locals, Pcs
<1>4. Shaped(r)
  BY <1>1, <1>2, <1>3 DEF Shaped
<1> QED
  BY <1>2, <1>4 DEF r

LEMMA AdvancedShape ==
    ASSUME NEW a, Shaped(a)
    PROVE  LET r == Advanced(a) IN
           /\ Shaped(r) /\ r.pc = a.pc /\ r.table = a.table /\ r.req = a.req /\ r.disk = a.disk
           /\ r.part = a.part + 1 /\ r.result = a.result
<1>1. a \in Locals(a.table, a.result)
  BY DEF Shaped
<1> DEFINE r == Advanced(a)
<1>5. r = [a EXCEPT !.part = @ + 1]
  BY DEF Advanced
<1> HIDE DEF r
<1>2. r = [pc |-> a.pc, req |-> a.req, disk |-> a.disk, part |-> a.part + 1, table |-> a.table,
           result |-> a.result]
  BY <1>1, <1>5 DEF Locals
<1>3. r \in Locals(r.table, r.result)
  BY <1>1, <1>2 DEF Locals
<1>4. Shaped(r)
  BY <1>2, <1>3 DEF Shaped
<1> QED
  BY <1>2, <1>4 DEF r

LEMMA FilledShape ==
    ASSUME NEW a, Shaped(a), NEW t
    PROVE  LET r == Filled(a, t) IN
           /\ Shaped(r) /\ r.pc = a.pc /\ r.table = t /\ r.req = a.req /\ r.disk = a.disk
           /\ r.part = a.part + 1 /\ r.result = a.result
<1>1. a \in Locals(a.table, a.result)
  BY DEF Shaped
<1> DEFINE r == Filled(a, t)
<1>5. r = [a EXCEPT !.table = t, !.part = @ + 1]
  BY DEF Filled
<1> HIDE DEF r
<1>2. r = [pc |-> a.pc, req |-> a.req, disk |-> a.disk, part |-> a.part + 1, table |-> t,
           result |-> a.result]
  BY <1>1, <1>5 DEF Locals
<1>3. r \in Locals(r.table, r.result)
  BY <1>1, <1>2 DEF Locals
<1>4. Shaped(r)
  BY <1>2, <1>3 DEF Shaped
<1> QED
  BY <1>2, <1>4 DEF r

LEMMA MovedShape ==
    ASSUME NEW a, Shaped(a), a.pc \notin {"new", "done"}, NEW pc \in {"open", "reopen"},
           NEW k \in Nat \ {0}, k <= Len(a.req)
    PROVE  LET r == Moved(a, pc, k) IN
           /\ Shaped(r) /\ r.pc = pc /\ r.req = a.req /\ r.disk = k /\ r.table = a.table
           /\ r.result = a.result
<1>1. a \in Locals(a.table, a.result) /\ a.req \in Requests
  BY DEF Shaped
<1> DEFINE r == Moved(a, pc, k)
<1>5. r = [a EXCEPT !.pc = pc, !.disk = k]
  BY DEF Moved
<1> HIDE DEF r
<1>2. r = [pc |-> pc, req |-> a.req, disk |-> k, part |-> a.part, table |-> a.table,
           result |-> a.result]
  BY <1>1, <1>5 DEF Locals
<1>3. r \in Locals(r.table, r.result)
  BY <1>1, <1>2 DEF Locals, Pcs
<1>4. Shaped(r)
  BY <1>1, <1>2, <1>3 DEF Shaped
<1> QED
  BY <1>2, <1>4 DEF r

LEMMA EndedShape ==
    ASSUME NEW a, Shaped(a), NEW result
    PROVE  LET r == Ended(a, result) IN
           Shaped(r) /\ r.pc = "done" /\ r.req = a.req /\ r.result = result
<1>1. a \in Locals(a.table, a.result)
  BY DEF Shaped
<1> DEFINE r == Ended(a, result)
<1>5. r = [a EXCEPT !.pc = "done", !.result = result]
  BY DEF Ended
<1> HIDE DEF r
<1>2. r = [pc |-> "done", req |-> a.req, disk |-> a.disk, part |-> a.part, table |-> a.table,
           result |-> result]
  BY <1>1, <1>5 DEF Locals
<1>3. r \in Locals(r.table, r.result)
  BY <1>1, <1>2 DEF Locals, Pcs
<1>4. Shaped(r)
  BY <1>2, <1>3 DEF Shaped
<1> QED
  BY <1>2, <1>4 DEF r

\* The table is read.
LEMMA OpenStep ==
    ASSUME KInv, NEW c \in Call, Open(c)
    PROVE  KInv'
<1>1. call[c].pc \in {"open", "reopen"} /\ Active(c) /\ UNCHANGED <<layout, sig, met>>
  BY DEF Open, At, Active
<1>2. PICK d \in Disk : d = Job(c).disk
  BY <1>1, AtDisk
<1> DEFINE t == [n \in DOMAIN layout[d] |->
                    [start |-> layout[d][n].start, end |-> layout[d][n].end,
                     fs    |-> Probed(d, layout[d][n].start)]]
<1> DEFINE pc == IF call[c].pc = "open" THEN "part" ELSE "format"
<1> DEFINE r == Opened(call[c], t, pc)
<1>3. call[c] \in Locals(call[c].table, call[c].result) /\ Shaped(call[c])
  BY DEF KInv, Shaped
<1>4. call' = [call EXCEPT ![c] = r]
  BY <1>2, <1>3 DEF Open, GetDisk, Becomes, Locals, Opened
<1>5. pc \in {"part", "format"}
  OBVIOUS
<1>6. \A n \in DOMAIN layout[d] : n \in DOMAIN t /\ t[n] = AsRead(d, n)
  BY DEF AsRead
<1> HIDE DEF t, pc
<1>7. Shaped(r) /\ r.pc = pc /\ r.table = t /\ r.req = call[c].req /\ r.disk = call[c].disk
  BY <1>1, <1>3, <1>5, OpenedShape
<1> HIDE DEF r
<1>8. call'[c] = r
  BY <1>4 DEF KInv
<1>9. Job(c)'.disk = d /\ Table(c)' = t
  BY <1>2, <1>7, <1>8 DEF Job, Table
<1>10. ASSUME NEW n \in DOMAIN layout[d]
       PROVE  Geo(AsRead(d, n)) = layout[d][n]
  <2>1. layout[d][n] = Geo(layout[d][n])
    BY DEF KInv, DiskPart
  <2> QED
    BY <2>1 DEF AsRead, Geo
<1>11. \A n \in DOMAIN layout[d] : AsRead(d, n)' = AsRead(d, n)
  BY <1>1 DEF AsRead, Probed
<1>12. layout' = layout
  BY <1>1
<1>13. \A n \in DOMAIN layout'[d] :
          n \in DOMAIN Table(c)' /\ Table(c)'[n] = AsRead(d, n)'
          /\ Geo(Table(c)'[n]) = layout'[d][n]
  BY <1>6, <1>9, <1>10, <1>11, <1>12
<1>14. TablePart(c)'
  BY <1>9, <1>13 DEF TablePart
<1>15. DiskPart'
  BY <1>1 DEF KInv, DiskPart
<1> QED
  BY <1>1, <1>4, <1>5, <1>7, <1>14, <1>15, OneFormat

--------------------------------------------------------------------------------
\* A step that leaves the disks alone and advances within a loop, by a table in which
\* every partition of the medium is still there or does not match.
LEMMA LoopStep ==
    ASSUME KInv, NEW c \in Call, At(c, "part"), NEW r, Shaped(r), r.pc = "part",
           r.req = call[c].req, r.disk = call[c].disk,
           call' = [call EXCEPT ![c] = r], UNCHANGED <<layout, sig, met>>,
           c \notin met => \A n \in DOMAIN layout[Job(c).disk] :
              \/ Mismatch(c, Job(c).disk, n)
              \/ n \in DOMAIN r.table /\ r.table[n] = AsRead(Job(c).disk, n)
    PROVE  KInv'
<1>1. Active(c)
  BY DEF At, Active
<1>2. PICK d \in Disk : d = Job(c).disk
  BY <1>1, AtDisk
<1>3. call'[c] = r
  BY DEF KInv
<1>4. Job(c)' = Job(c) /\ Table(c)' = r.table /\ Wants(c)' = Wants(c)
  BY <1>3 DEF Job, Table, Wants
<1>5. \A n : (AsRead(d, n)' = AsRead(d, n)) /\ (Mismatch(c, d, n)' <=> Mismatch(c, d, n))
  <2>1. \A n : AsRead(d, n)' = AsRead(d, n)
    BY DEF AsRead, Probed
  <2>2. \A n : Mismatch(c, d, n) <=> Job(c).disk = d /\ n \in DOMAIN Wants(c)
                                     /\ ~Matches(AsRead(d, n), Wants(c)[n])
    BY DEF Mismatch, AsRead
  <2>3. \A n : Mismatch(c, d, n)' <=> Job(c)'.disk = d /\ n \in DOMAIN Wants(c)'
                                     /\ ~Matches(AsRead(d, n)', Wants(c)'[n])
    BY DEF Mismatch, AsRead, Matches, CloseTo, SizeMB
  <2> QED
    BY <1>4, <2>1, <2>2, <2>3
<1>6. layout' = layout /\ met' = met
  OBVIOUS
<1>7. c \notin met => \A n \in DOMAIN layout'[d] :
          \/ Mismatch(c, d, n)'
          \/ n \in DOMAIN Table(c)' /\ Table(c)'[n] = AsRead(d, n)'
  BY <1>2, <1>4, <1>5, <1>6
<1>8. TablePart(c)'
  BY <1>2, <1>3, <1>4, <1>6, <1>7 DEF TablePart
<1>9. DiskPart'
  BY DEF KInv, DiskPart
<1> QED
  BY <1>1, <1>8, <1>9, OneFormat

\* A panic only stops the others: the calls, like the disks, are as they were.
LEMMA Idle ==
    ASSUME KInv, UNCHANGED <<layout, sig, call, met>>
    PROVE  KInv'
<1>1. DiskPart' /\ (\A c \in Call : Shaped(call[c]))' /\ (call = [c \in Call |-> call[c]])'
  BY DEF KInv, DiskPart
<1>2. ASSUME NEW c \in Call PROVE AlonePart(c)'
  BY DEF KInv, AlonePart, Active
<1>3. ASSUME NEW c \in Call PROVE TablePart(c)'
  <2>1. TablePart(c)
    BY DEF KInv
  <2> QED
    BY <2>1 DEF TablePart, Table, Job, Wants, Mismatch, AsRead, Probed
<1> QED
  BY <1>1, <1>2, <1>3 DEF KInv

\* Making a partition keeps the others; removing one, too.
LEMMA MkPartKeeps ==
    ASSUME NEW t, NEW w, NEW n \in DOMAIN t
    PROVE  n \in DOMAIN MkPart(t, w) /\ MkPart(t, w)[n] = t[n]
BY DEF MkPart

LEMMA RmPartKeeps ==
    ASSUME NEW t, NEW k, NEW n \in DOMAIN t, n # k
    PROVE  n \in DOMAIN RmPart(t, k) /\ RmPart(t, k)[n] = t[n]
BY DEF RmPart, Restrict

\* A partition is made in a table in which the medium's are still there.
LEMMA MakeStep ==
    ASSUME KInv, NEW c \in Call, At(c, "part"), NEW t, Make(c, t), UNCHANGED <<layout, sig, met>>,
           c \notin met => \A n \in DOMAIN layout[Job(c).disk] :
              \/ Mismatch(c, Job(c).disk, n)
              \/ n \in DOMAIN t /\ t[n] = AsRead(Job(c).disk, n)
    PROVE  KInv'
<1>1. Active(c) /\ DiskPart'
  BY DEF At, Active, KInv, DiskPart
<1>2. CASE UNCHANGED call
  BY <1>2, Idle
<1>3. CASE Fail(c)
  BY <1>1, <1>3, EndFormat
<1>4. CASE Becomes(c, [call[c] EXCEPT !.table = MkPart(t, Want(c)), !.part = @ + 1])
  <2> DEFINE r == Filled(call[c], MkPart(t, Want(c)))
  <2>1. call' = [call EXCEPT ![c] = r]
    BY <1>4 DEF Becomes, Filled
  <2>2. Shaped(r) /\ r.pc = "part" /\ r.table = MkPart(t, Want(c)) /\ r.req = call[c].req
        /\ r.disk = call[c].disk
    BY FilledShape DEF KInv, At
  <2> HIDE DEF r
  <2>3. c \notin met => \A n \in DOMAIN layout[Job(c).disk] :
              \/ Mismatch(c, Job(c).disk, n)
              \/ n \in DOMAIN r.table /\ r.table[n] = AsRead(Job(c).disk, n)
    BY <2>2, MkPartKeeps
  <2> QED
    BY <2>1, <2>2, <2>3, LoopStep
<1> QED
  BY <1>2, <1>3, <1>4 DEF Make, Panic

--------------------------------------------------------------------------------
\* Planning: what the table in memory has lost did not match.
LEMMA PlanStep ==
    ASSUME KInv, NEW c \in Call, Plan(c)
    PROVE  KInv'
<1>1. At(c, "part") /\ Active(c) /\ UNCHANGED <<layout, sig, met>>
  BY DEF Plan, Create, Keep, Bare, Delete, Planning, At, Active
<1>2. c \notin met => \A n \in DOMAIN layout[Job(c).disk] :
          \/ Mismatch(c, Job(c).disk, n)
          \/ n \in DOMAIN Table(c) /\ Table(c)[n] = AsRead(Job(c).disk, n)
  BY <1>1 DEF KInv, TablePart, At
<1>3. CASE Create(c)
  BY <1>1, <1>2, <1>3, MakeStep DEF Create
<1>4. CASE Keep(c)
  <2> DEFINE r == Advanced(call[c])
  <2>1. call' = [call EXCEPT ![c] = r]
    BY <1>4 DEF Keep, Becomes, Advanced
  <2>2. Shaped(r) /\ r.pc = "part" /\ r.table = Table(c) /\ r.req = call[c].req
        /\ r.disk = call[c].disk
    BY <1>1, AdvancedShape DEF KInv, At, Table
  <2> HIDE DEF r
  <2> QED
    BY <1>1, <1>2, <2>1, <2>2, LoopStep
<1>5. CASE Bare(c)
  BY <1>1, <1>5, Idle DEF Bare, Panic
<1>6. CASE Delete(c)
  <2>1. CASE Fail(c)
    BY <1>1, <2>1, EndFormat DEF KInv, DiskPart
  <2>2. CASE Make(c, RmPart(Table(c), call[c].part))
    <3> DEFINE t == RmPart(Table(c), call[c].part)
    <3>1. call[c].part \in 1..Len(Wants(c)) /\ ~Matches(Found(c), Want(c))
      BY <1>1, <1>6, AtDisk, LenProperties DEF Delete, Planning
    <3>2. call[c].part \in DOMAIN Wants(c)
      BY <1>1, <3>1, AtDisk, LenProperties
    <3>3. ASSUME NEW n \in DOMAIN layout[Job(c).disk], c \notin met
          PROVE  \/ Mismatch(c, Job(c).disk, n)
                 \/ n \in DOMAIN t /\ t[n] = AsRead(Job(c).disk, n)
      <4>1. CASE n = call[c].part
        <5>1. Table(c)[n] = AsRead(Job(c).disk, n) => ~Matches(AsRead(Job(c).disk, n), Wants(c)[n])
          BY <3>1, <4>1 DEF Found, Want
        <5> QED
          BY <1>2, <3>2, <3>3, <4>1, <5>1 DEF Mismatch, AsRead
      <4>2. CASE n # call[c].part
        BY <1>2, <3>3, <4>2, RmPartKeeps
      <4> QED
        BY <4>1, <4>2
    <3> HIDE DEF t
    <3>4. Make(c, t)
      BY <2>2 DEF t
    <3> QED
      BY <1>1, <3>3, <3>4, MakeStep
  <2>3. (call[c].part - 1) + 1 = call[c].part
    BY <1>1, AtDisk
  <2> QED
    BY <1>6, <2>1, <2>2, <2>3 DEF Delete
<1> QED
  BY <1>3, <1>4, <1>5, <1>6 DEF Plan

\* The table is written: the call reads the next one, or ends.
LEMMA CommitStep ==
    ASSUME KInv, NEW c \in Call, Commit(c) \/ Recommit(c)
    PROVE  KInv'
<1>1. Active(c) /\ Write(c) /\ UNCHANGED met
  BY DEF Commit, Recommit, Planned, Done, At, Active
<1>2. DiskPart' /\ Shaped(call[c])
  BY <1>1, WriteKeeps DEF KInv
<1>3. /\ call[c].req \in Seq([disk : Disk, parts : Seq([fs : STRING, size : Nat])])
      /\ call[c].disk \in Nat \ {0} /\ call[c].disk <= Len(call[c].req)
  BY <1>1, <1>2, PartitioningAssumption DEF Shaped, Active, Locals
<1>4. Len(call[c].req) \in Nat
  BY <1>3, LenProperties
<1>5. ASSUME NEW r, Shaped(r), r.pc \in {"open", "reopen", "done"}, call' = [call EXCEPT ![c] = r]
      PROVE  KInv'
  <2>1. call'[c] = r
    BY <1>5 DEF KInv
  <2>2. TablePart(c)'
    BY <1>5, <2>1 DEF TablePart
  <2> QED
    BY <1>1, <1>2, <1>5, <2>2, OneFormat
<1>6. ASSUME NEW pc \in {"open", "reopen"}, NEW k \in {1, call[c].disk + 1}, k <= Len(call[c].req),
             Becomes(c, Moved(call[c], pc, k))
      PROVE  KInv'
  <2>1. Shaped(Moved(call[c], pc, k)) /\ Moved(call[c], pc, k).pc = pc
    BY <1>1, <1>2, <1>3, <1>6, MovedShape DEF Active
  <2> QED
    BY <1>5, <1>6, <2>1 DEF Becomes
<1>7. ASSUME Becomes(c, Ended(call[c], "ok")) PROVE KInv'
  BY <1>2, <1>5, <1>7, EndedShape DEF Becomes
<1>8. CASE call[c].disk < Len(call[c].req)
  <2>1. call[c].disk + 1 <= Len(call[c].req)
    BY <1>3, <1>4, <1>8
  <2>2. \E pc \in {"open", "reopen"} : Becomes(c, Moved(call[c], pc, call[c].disk + 1))
    BY <1>8 DEF Commit, Recommit, Moved
  <2> QED
    BY <1>6, <2>1, <2>2
<1>9. CASE ~(call[c].disk < Len(call[c].req))
  <2>1. 1 <= Len(call[c].req)
    BY <1>3, <1>4
  <2>2. Becomes(c, Moved(call[c], "reopen", 1)) \/ Becomes(c, Ended(call[c], "ok"))
    BY <1>9 DEF Commit, Recommit, Moved, Ended
  <2> QED
    BY <1>6, <1>7, <2>1, <2>2
<1> QED
  BY <1>8, <1>9

\* File systems are made: the table stays what is on the medium.
LEMMA FormatStep ==
    ASSUME KInv, NEW c \in Call, Format(c)
    PROVE  KInv'
<1>1. Active(c) /\ At(c, "format") /\ UNCHANGED <<layout, met>>
  BY DEF Format, Mkfs, MkfsNothing, MkfsError, Formatting, At, Active
<1>2. DiskPart'
  BY <1>1 DEF KInv, DiskPart
<1>3. CASE MkfsError(c)
  BY <1>1, <1>2, <1>3, EndFormat DEF MkfsError
<1>4. CASE Mkfs(c) \/ MkfsNothing(c)
  <2> DEFINE r == Advanced(call[c])
  <2>1. call' = [call EXCEPT ![c] = r]
    BY <1>4 DEF Mkfs, MkfsNothing, Becomes, Advanced
  <2>2. Shaped(r) /\ r.pc = "format" /\ r.table = Table(c) /\ r.req = call[c].req
        /\ r.disk = call[c].disk
    BY <1>1, AdvancedShape DEF KInv, At, Table
  <2> HIDE DEF r
  <2>3. call'[c] = r
    BY <2>1 DEF KInv
  <2>4. Job(c)' = Job(c) /\ Table(c)' = Table(c) /\ layout' = layout
    BY <1>1, <2>2, <2>3 DEF Job, Table
  <2>5. c \notin met => \A n \in DOMAIN layout[Job(c).disk] :
            n \in DOMAIN Table(c) /\ Geo(Table(c)[n]) = layout[Job(c).disk][n]
    BY <1>1 DEF KInv, TablePart, At
  <2>6. TablePart(c)'
    <3>1. met' = met /\ call'[c].pc = "format"
      BY <1>1, <2>2, <2>3
    <3>2. c \notin met' => \A n \in DOMAIN layout'[Job(c)'.disk] :
            n \in DOMAIN Table(c)' /\ Geo(Table(c)'[n]) = layout'[Job(c)'.disk][n]
      BY <2>4, <2>5, <3>1
    <3> QED
      BY <3>1, <3>2 DEF TablePart, Geo
  <2> QED
    BY <1>1, <1>2, <2>1, <2>2, <2>6, OneFormat
<1> QED
  BY <1>3, <1>4 DEF Format

\* A call begins: those that run with it, and it, are no longer alone.
LEMMA BeginStep ==
    ASSUME KInv, NEW c \in Call, FormatDisks(c)
    PROVE  KInv'
<1>1. PICK q \in Requests : call' = [call EXCEPT ![c] = Begun(call[c], q)]
  BY DEF FormatDisks, Becomes, Begun
<1>2. call[c].pc = "new" /\ UNCHANGED <<layout, sig>> /\ Shaped(call[c])
  BY DEF FormatDisks, At, KInv
<1> DEFINE r == Begun(call[c], q)
<1>3. Shaped(r) /\ r.pc = "open"
  BY <1>2, BegunShape
<1>4. call' = [call EXCEPT ![c] = r]
  BY <1>1
<1> HIDE DEF r
<1>5. /\ call'[c] = r /\ \A b \in Call : b # c => call'[b] = call[b]
      /\ call' = [b \in Call |-> call'[b]] /\ \A b \in Call : Shaped(call'[b])
  BY <1>3, <1>4 DEF KInv
<1>6. met \subseteq met' /\ (\A b \in Call \ {c} : Active(b) => {b, c} \subseteq met')
  BY DEF FormatDisks
<1>7. ASSUME NEW b \in Call PROVE AlonePart(b)'
  BY <1>5, <1>6, <1>7 DEF KInv, AlonePart, Active
<1>8. ASSUME NEW b \in Call PROVE TablePart(b)'
  <2>1. CASE b = c
    BY <1>3, <1>5, <2>1 DEF TablePart
  <2>2. CASE b # c
    <3>1. TablePart(b) /\ call'[b] = call[b]
      BY <1>5, <2>2 DEF KInv
    <3>2. Table(b)' = Table(b) /\ Job(b)' = Job(b) /\ Wants(b)' = Wants(b)
      BY <3>1 DEF Table, Job, Wants
    <3>3. \A d, n : AsRead(d, n)' = AsRead(d, n)
      BY <1>2 DEF AsRead, Probed
    <3>4. \A d, n : Mismatch(b, d, n) => Mismatch(b, d, n)'
      BY <1>2, <3>2 DEF Mismatch, Probed, Matches, CloseTo, SizeMB
    <3> QED
      BY <1>2, <1>6, <3>1, <3>2, <3>3, <3>4 DEF TablePart, Geo
  <2> QED
    BY <2>1, <2>2
<1>9. DiskPart'
  BY <1>2 DEF KInv, DiskPart
<1> QED
  BY <1>5, <1>7, <1>8, <1>9 DEF KInv

\* After a restart no call is active.
LEMMA RestartStep ==
    ASSUME KInv, Restart
    PROVE  KInv'
<1>1. call' = [c \in Call |-> IF Active(c) THEN Ended(call[c], "lost") ELSE call[c]]
  BY DEF Restart, Ended
<1>2. UNCHANGED <<layout, sig, met>> /\ \A c \in Call : Shaped(call[c])
  BY DEF Restart, KInv
<1>3. ASSUME NEW c \in Call PROVE Shaped(call'[c]) /\ call'[c].pc \in {"new", "done"}
  BY <1>1, <1>2, EndedShape DEF Active
<1>4. ASSUME NEW c \in Call PROVE AlonePart(c)' /\ TablePart(c)'
  BY <1>3 DEF AlonePart, TablePart, Active
<1>5. DiskPart' /\ call' = [c \in Call |-> call'[c]]
  BY <1>1, <1>2 DEF KInv, DiskPart
<1> QED
  BY <1>3, <1>4, <1>5 DEF KInv
--------------------------------------------------------------------------------
LEMMA KInit == Init => KInv
<1> SUFFICES ASSUME Init PROVE KInv
  OBVIOUS
<1>1. DiskPart
  <2>1. PICK t \in [Disk -> Layouts] : layout = [d \in Disk |-> [n \in DOMAIN t[d] |-> Geo(t[d][n])]]
    BY DEF Init
  <2> QED
    BY <2>1 DEF DiskPart, Geo
<1>2. call = [c \in Call |-> [pc |-> "new", req |-> <<>>, disk |-> 1, part |-> 1,
                              table |-> <<>>, result |-> "none"]]
  BY DEF Init
<1>3. ASSUME NEW c \in Call
      PROVE  Shaped(call[c]) /\ AlonePart(c) /\ TablePart(c)
  <2>1. call[c].pc = "new" /\ call[c].disk = 1 /\ call[c] \in Locals(call[c].table, call[c].result)
    BY <1>2 DEF Locals, Pcs
  <2> QED
    BY <2>1 DEF Shaped, AlonePart, TablePart, Active
<1> QED
  BY <1>1, <1>2, <1>3 DEF KInv

LEMMA KStep == KInv /\ [Next]_vars => KInv'
<1> SUFFICES ASSUME KInv, [Next]_vars PROVE KInv'
  OBVIOUS
<1>1. CASE UNCHANGED vars
  BY <1>1, Idle DEF vars
<1>2. CASE Restart
  BY <1>2, RestartStep
<1>3. ASSUME NEW c \in Call,
             \/ FormatDisks(c) \/ NoDevice(c) \/ Open(c) \/ Plan(c)
             \/ Commit(c) \/ CommitError(c) \/ Format(c) \/ Recommit(c)
      PROVE  KInv'
  <2>1. CASE NoDevice(c)
    <3>1. Active(c) /\ Fail(c) /\ UNCHANGED <<layout, met>>
      BY <2>1 DEF NoDevice, At, Active
    <3> QED
      BY <3>1, EndFormat DEF KInv, DiskPart
  <2>2. CASE CommitError(c)
    <3>1. Active(c) /\ Fail(c) /\ UNCHANGED met /\ (Write(c) \/ UNCHANGED layout)
      BY <2>2 DEF CommitError, Planned, Done, At, Active
    <3>2. DiskPart'
      BY <3>1, WriteKeeps DEF KInv, DiskPart
    <3> QED
      BY <3>1, <3>2, EndFormat
  <2> QED
    BY <1>3, <2>1, <2>2, BeginStep, OpenStep, PlanStep, CommitStep, FormatStep
<1> QED
  BY <1>1, <1>2, <1>3 DEF Next

\* The strengthening: a call that runs alone has in memory what the medium has, but for
\* what did not match what it was asked for.
THEOREM KInvariant == Spec => []KInv
BY KInit, KStep, PTL DEF Spec

(***************************************************************************)
(* What was on the disks stays there, unless a call asked for another      *)
(* partition of its number: MaintenanceService.FormatDisks never moves or  *)
(* removes a partition because of one that comes before or after it.       *)
(***************************************************************************)
THEOREM OthersKept == Spec => OthersAreKept
<1> DEFINE Asked(d, n) ==
        \E c \in Call : (Planned(c) \/ Done(c)) /\ (c \in met \/ Mismatch(c, d, n))
<1>1. ASSUME KInv, [Next]_vars, NEW d \in Disk, NEW n \in DOMAIN layout[d], Changed(d, n)
      PROVE  Asked(d, n)
  <2>1. layout' # layout
    BY <1>1 DEF Changed
  <2>2. PICK c \in Call : (Planned(c) \/ Done(c)) /\ Write(c)
    BY <1>1, <2>1 DEF Next, vars, FormatDisks, NoDevice, Open, Plan, Create, Keep, Bare, Delete,
       Commit, CommitError, Format, Mkfs, MkfsNothing, MkfsError, Recommit, Restart
  <2>3. Active(c)
    BY <2>2 DEF Planned, Done, At, Active
  <2>4. Job(c).disk = d
    BY <1>1, <2>2, <2>3, WriteKeeps DEF Changed
  <2>5. layout'[d] = [k \in DOMAIN Table(c) |-> Geo(Table(c)[k])]
    BY <1>1, <2>2, <2>3, <2>4, WriteKeeps
  <2>6. ~(n \in DOMAIN Table(c) /\ Geo(Table(c)[n]) = layout[d][n])
    BY <1>1, <2>5 DEF Changed
  <2>7. ASSUME c \notin met PROVE Mismatch(c, d, n)
    <3>1. CASE Done(c)
      BY <1>1, <2>4, <2>6, <2>7, <3>1 DEF KInv, TablePart, Done, At
    <3>2. CASE Planned(c)
      <4>1. Geo(AsRead(d, n)) = layout[d][n]
        BY <1>1 DEF KInv, DiskPart, AsRead, Geo
      <4> QED
        BY <1>1, <2>4, <2>6, <2>7, <3>2, <4>1 DEF KInv, TablePart, Planned, At
    <3> QED
      BY <2>2, <3>1, <3>2
  <2> QED
    BY <2>2, <2>7
<1>2. KInv /\ [Next]_vars =>
        [\A d \in Disk : \A n \in DOMAIN layout[d] : Changed(d, n) => Asked(d, n)]_vars
  BY <1>1
<1> QED
  BY <1>2, KInvariant, PTL DEF Spec, OthersAreKept
--------------------------------------------------------------------------------
\* What a step makes of its call, as far as the parts below ask; the other calls' locals
\* stay as they are.
Only(c) == \A b \in Call \ {c} : call'[b] = call[b]

LEMMA FailDoes ==
    ASSUME KInv, NEW c \in Call, Fail(c)
    PROVE  /\ call'[c].pc = "done" /\ call'[c].result = "error" /\ call'[c].req = call[c].req
           /\ Only(c)
<1> DEFINE r == Ended(call[c], "error")
<1>1. call' = [call EXCEPT ![c] = r]
  BY DEF Fail, Becomes, Ended
<1>2. r.pc = "done" /\ r.req = call[c].req /\ r.result = "error"
  BY EndedShape DEF KInv
<1> HIDE DEF r
<1> QED
  BY <1>1, <1>2 DEF KInv, Only

LEMMA BeginDoes ==
    ASSUME KInv, NEW c \in Call, FormatDisks(c)
    PROVE  /\ call[c].pc = "new" /\ call'[c].pc = "open" /\ call'[c].disk = 1
           /\ call'[c].table = call[c].table /\ call'[c].result = call[c].result /\ Only(c)
           /\ met \subseteq met' /\ met' \subseteq met \cup Call
<1>1. PICK q \in Requests : call' = [call EXCEPT ![c] = Begun(call[c], q)]
  BY DEF FormatDisks, Becomes, Begun
<1>2. call[c].pc = "new" /\ Shaped(call[c])
  BY DEF FormatDisks, At, KInv
<1> DEFINE r == Begun(call[c], q)
<1>3. r.pc = "open" /\ r.disk = 1 /\ r.table = call[c].table /\ r.result = call[c].result
  BY <1>2, BegunShape
<1>4. call' = [call EXCEPT ![c] = r]
  BY <1>1
<1> HIDE DEF r
<1>5. met \subseteq met' /\ met' \subseteq met \cup Call
  BY DEF FormatDisks
<1> QED
  BY <1>2, <1>3, <1>4, <1>5 DEF KInv, Only

LEMMA OpenDoes ==
    ASSUME KInv, NEW c \in Call, Open(c)
    PROVE  /\ call[c].pc \in {"open", "reopen"}
           /\ call'[c].pc = IF call[c].pc = "open" THEN "part" ELSE "format"
           /\ call'[c].table = [n \in DOMAIN layout[Job(c).disk] |-> AsRead(Job(c).disk, n)]
           /\ call'[c].req = call[c].req /\ call'[c].disk = call[c].disk /\ call'[c].part = 1
           /\ call'[c].result = call[c].result /\ Only(c)
           /\ UNCHANGED <<layout, sig, panic, met, squeezed>>
<1>1. call[c].pc \in {"open", "reopen"} /\ UNCHANGED <<layout, sig, panic, met, squeezed>>
  BY DEF Open, At
<1> DEFINE t == [n \in DOMAIN layout[Job(c).disk] |->
                    [start |-> layout[Job(c).disk][n].start, end |-> layout[Job(c).disk][n].end,
                     fs    |-> Probed(Job(c).disk, layout[Job(c).disk][n].start)]]
<1> DEFINE pc == IF call[c].pc = "open" THEN "part" ELSE "format"
<1> DEFINE r == Opened(call[c], t, pc)
<1>2. call[c] \in Locals(call[c].table, call[c].result) /\ Shaped(call[c])
  BY DEF KInv, Shaped
<1>3. call' = [call EXCEPT ![c] = r]
  BY <1>2 DEF Open, GetDisk, Becomes, Locals, Opened
<1>4. pc \in {"part", "format"} /\ (pc = IF call[c].pc = "open" THEN "part" ELSE "format")
  OBVIOUS
<1>5. t = [n \in DOMAIN layout[Job(c).disk] |-> AsRead(Job(c).disk, n)]
  BY DEF AsRead
<1> HIDE DEF t, pc
<1>6. /\ r.pc = pc /\ r.table = t /\ r.req = call[c].req /\ r.disk = call[c].disk
      /\ r.part = 1 /\ r.result = call[c].result
  BY <1>1, <1>2, <1>4, OpenedShape
<1> HIDE DEF r
<1>7. call'[c] = r /\ Only(c)
  BY <1>3 DEF KInv, Only
<1> QED
  BY <1>1, <1>4, <1>5, <1>6, <1>7

\* The partition at hand is as it should be, now.
LEMMA AdvanceDoes ==
    ASSUME KInv, NEW c \in Call, Becomes(c, [call[c] EXCEPT !.part = @ + 1])
    PROVE  /\ call'[c].pc = call[c].pc /\ call'[c].table = call[c].table
           /\ call'[c].req = call[c].req /\ call'[c].disk = call[c].disk
           /\ call'[c].part = call[c].part + 1 /\ call'[c].result = call[c].result /\ Only(c)
<1> DEFINE r == Advanced(call[c])
<1>1. call' = [call EXCEPT ![c] = r]
  BY DEF Becomes, Advanced
<1>2. /\ r.pc = call[c].pc /\ r.table = call[c].table /\ r.req = call[c].req
      /\ r.disk = call[c].disk /\ r.part = call[c].part + 1 /\ r.result = call[c].result
  BY AdvancedShape DEF KInv
<1> HIDE DEF r
<1> QED
  BY <1>1, <1>2 DEF KInv, Only

LEMMA FillDoes ==
    ASSUME KInv, NEW c \in Call, NEW t, Becomes(c, [call[c] EXCEPT !.table = t, !.part = @ + 1])
    PROVE  /\ call'[c].pc = call[c].pc /\ call'[c].table = t
           /\ call'[c].req = call[c].req /\ call'[c].disk = call[c].disk
           /\ call'[c].part = call[c].part + 1 /\ call'[c].result = call[c].result /\ Only(c)
<1> DEFINE r == Filled(call[c], t)
<1>1. call' = [call EXCEPT ![c] = r]
  BY DEF Becomes, Filled
<1>2. /\ r.pc = call[c].pc /\ r.table = t /\ r.req = call[c].req
      /\ r.disk = call[c].disk /\ r.part = call[c].part + 1 /\ r.result = call[c].result
  BY FilledShape DEF KInv
<1> HIDE DEF r
<1> QED
  BY <1>1, <1>2 DEF KInv, Only

\* The request of an active call.
LEMMA RequestIs ==
    ASSUME KInv, NEW c \in Call, Active(c)
    PROVE  /\ call[c].req \in Requests
           /\ call[c].req \in Seq([disk : Disk, parts : Seq([fs : STRING, size : Nat])])
           /\ call[c].disk \in Nat \ {0} /\ call[c].disk <= Len(call[c].req)
           /\ Len(call[c].req) \in Nat
<1>1. Shaped(call[c])
  BY DEF KInv
<1>2. call[c].req \in Requests /\ call[c].disk \in Nat \ {0} /\ call[c].disk <= Len(call[c].req)
  BY <1>1 DEF Shaped, Active, Locals
<1>3. call[c].req \in Seq([disk : Disk, parts : Seq([fs : STRING, size : Nat])])
  BY <1>2, PartitioningAssumption
<1>4. Len(call[c].req) \in Nat
  BY <1>3, LenProperties
<1> QED
  BY <1>2, <1>3, <1>4

LEMMA CommitDoes ==
    ASSUME KInv, NEW c \in Call, Commit(c)
    PROVE  /\ call[c].pc = "part" /\ call[c].part > Len(Wants(c)) /\ Write(c)
           /\ \/ call'[c].pc = "open" /\ call'[c].disk = call[c].disk + 1
              \/ /\ call'[c].pc = "reopen" /\ call'[c].disk = 1
                 /\ ~(call[c].disk < Len(call[c].req))
           /\ call'[c].req = call[c].req /\ call'[c].table = call[c].table
           /\ call'[c].result = call[c].result /\ Only(c)
           /\ UNCHANGED <<sig, panic, met, squeezed>>
<1>1. /\ call[c].pc = "part" /\ call[c].part > Len(Wants(c)) /\ Write(c)
      /\ UNCHANGED <<sig, panic, met, squeezed>>
  BY DEF Commit, Planned, At
<1>2. Shaped(call[c]) /\ call[c].pc \notin {"new", "done"}
  BY <1>1 DEF KInv
<1>3. /\ call[c].disk \in Nat \ {0} /\ call[c].disk <= Len(call[c].req)
      /\ Len(call[c].req) \in Nat
  BY <1>2, RequestIs DEF Active
<1>5. ASSUME NEW pc \in {"open", "reopen"}, NEW k \in Nat \ {0}, k <= Len(call[c].req),
             Becomes(c, Moved(call[c], pc, k))
      PROVE  /\ call'[c].pc = pc /\ call'[c].disk = k /\ call'[c].req = call[c].req
             /\ call'[c].table = call[c].table /\ call'[c].result = call[c].result /\ Only(c)
  <2> DEFINE r == Moved(call[c], pc, k)
  <2>1. /\ r.pc = pc /\ r.disk = k /\ r.req = call[c].req /\ r.table = call[c].table
        /\ r.result = call[c].result
    BY <1>2, <1>5, MovedShape
  <2>2. call' = [call EXCEPT ![c] = r]
    BY <1>5 DEF Becomes
  <2> HIDE DEF r
  <2> QED
    BY <2>1, <2>2 DEF KInv, Only
<1>6. CASE call[c].disk < Len(call[c].req)
  <2>1. call[c].disk + 1 <= Len(call[c].req) /\ call[c].disk + 1 \in Nat \ {0}
    BY <1>3, <1>6
  <2>2. Becomes(c, Moved(call[c], "open", call[c].disk + 1))
    BY <1>6 DEF Commit, Moved
  <2> QED
    BY <1>1, <1>5, <2>1, <2>2
<1>7. CASE ~(call[c].disk < Len(call[c].req))
  <2>1. 1 <= Len(call[c].req)
    BY <1>3
  <2>2. Becomes(c, Moved(call[c], "reopen", 1))
    BY <1>7 DEF Commit, Moved
  <2> QED
    BY <1>1, <1>5, <1>7, <2>1, <2>2
<1> QED
  BY <1>6, <1>7

LEMMA RecommitDoes ==
    ASSUME KInv, NEW c \in Call, Recommit(c)
    PROVE  /\ call[c].pc = "format" /\ call[c].part > Len(Wants(c)) /\ Write(c)
           /\ \/ /\ call'[c].pc = "reopen" /\ call'[c].disk = call[c].disk + 1
                 /\ call'[c].result = call[c].result
              \/ /\ call'[c].pc = "done" /\ call'[c].result = "ok"
                 /\ ~(call[c].disk < Len(call[c].req))
           /\ call'[c].req = call[c].req /\ (call'[c].pc # "done" => call'[c].table = call[c].table)
           /\ Only(c) /\ UNCHANGED <<sig, panic, met, squeezed>>
<1>1. /\ call[c].pc = "format" /\ call[c].part > Len(Wants(c)) /\ Write(c)
      /\ UNCHANGED <<sig, panic, met, squeezed>>
  BY DEF Recommit, Done, At
<1>2. Shaped(call[c]) /\ call[c].pc \notin {"new", "done"}
  BY <1>1 DEF KInv
<1>3. /\ call[c].disk \in Nat \ {0} /\ call[c].disk <= Len(call[c].req)
      /\ Len(call[c].req) \in Nat
  BY <1>2, RequestIs DEF Active
<1>6. CASE call[c].disk < Len(call[c].req)
  <2> DEFINE r == Moved(call[c], "reopen", call[c].disk + 1)
  <2>1. call[c].disk + 1 <= Len(call[c].req) /\ call[c].disk + 1 \in Nat \ {0}
    BY <1>3, <1>6
  <2>2. /\ r.pc = "reopen" /\ r.disk = call[c].disk + 1 /\ r.req = call[c].req
        /\ r.table = call[c].table /\ r.result = call[c].result
    BY <1>2, <2>1, MovedShape
  <2>3. call' = [call EXCEPT ![c] = r]
    BY <1>6 DEF Recommit, Moved, Becomes
  <2> HIDE DEF r
  <2> QED
    BY <1>1, <2>2, <2>3 DEF KInv, Only
<1>7. CASE ~(call[c].disk < Len(call[c].req))
  <2> DEFINE r == Ended(call[c], "ok")
  <2>1. r.pc = "done" /\ r.req = call[c].req /\ r.result = "ok"
    BY <1>2, EndedShape
  <2>2. call' = [call EXCEPT ![c] = r]
    BY <1>7 DEF Recommit, Ended, Becomes
  <2> HIDE DEF r
  <2> QED
    BY <1>1, <1>7, <2>1, <2>2 DEF KInv, Only
<1> QED
  BY <1>6, <1>7

\* A restart ends every call.
LEMMA RestartDoes ==
    ASSUME KInv, Restart, NEW c \in Call
    PROVE  /\ Active(c) => /\ call'[c].pc = "done" /\ call'[c].result = "lost"
                           /\ call'[c].req = call[c].req
           /\ ~Active(c) => call'[c] = call[c]
<1>1. call'[c] = IF Active(c) THEN Ended(call[c], "lost") ELSE call[c]
  BY DEF Restart, Ended
<1>2. Ended(call[c], "lost").pc = "done" /\ Ended(call[c], "lost").req = call[c].req
      /\ Ended(call[c], "lost").result = "lost"
  BY EndedShape DEF KInv
<1> QED
  BY <1>1, <1>2

\* A call has written the table of its k-th disk.
Touched(r, k) == r.pc \in {"reopen", "format", "done"} \/ k < r.disk

\* A call has made the file system of that partition of its k-th disk, or passed over it.
Formed(r, k, n) ==
    /\ r.pc \in {"reopen", "format"}
    /\ k < r.disk \/ (k = r.disk /\ r.pc = "format" /\ n < r.part)

\* The geometry g is as large as the call asked for, or squeezed.
Sized(c, k, n, g) ==
    CloseTo(g, call[c].req[k].parts[n]) \/ <<c, call[c].req[k].disk, n>> \in squeezed

FreshPart(c) ==
    /\ call[c].pc = "new" => call[c].table = <<>>
    /\ call[c].pc # "done" => call[c].result = "none"

\* The plan up to the partition at hand is as asked for, in memory; a call that runs
\* alone has otherwise what the medium has.
PlanPart(c) ==
    /\ call[c].pc = "part" =>
        /\ call[c].part <= Len(Wants(c)) + 1
        /\ \A n \in 1..(call[c].part - 1) :
              n \in DOMAIN Table(c) /\ Sized(c, call[c].disk, n, Table(c)[n])
        /\ c \notin met => \A n \in DOMAIN Table(c) :
              \/ n \in DOMAIN layout[Job(c).disk] /\ Table(c)[n] = AsRead(Job(c).disk, n)
              \/ n < call[c].part
    /\ call[c].pc = "format" /\ c \notin met =>
        DOMAIN Table(c) \subseteq DOMAIN layout[Job(c).disk]

\* So far a call that runs alone has done what it was asked for.
DonePart(c) ==
    Active(c) /\ c \notin met =>
        \A k \in DOMAIN call[c].req : \A n \in DOMAIN call[c].req[k].parts :
            /\ Touched(call[c], k) =>
                  /\ n \in DOMAIN layout[call[c].req[k].disk]
                  /\ Sized(c, k, n, layout[call[c].req[k].disk][n])
            /\ Formed(call[c], k, n) /\ call[c].req[k].parts[n].fs \in Formatted =>
                  Probed(call[c].req[k].disk, layout[call[c].req[k].disk][n].start)
                      \in Made(call[c].req[k].parts[n].fs)

\* A call may have left the partition without file system, or will still make it.
Bears(c, d, n) ==
    \E k \in DOMAIN call[c].req :
        /\ call[c].req[k].disk = d /\ Touched(call[c], k)
        /\ \/ c \in met \/ LeavesBare(c)
           \/ Active(c) /\ n \in DOMAIN call[c].req[k].parts /\ ~Formed(call[c], k, n)

Clothed(d, n) ==
    Probed(d, layout[d][n].start) # "none" \/ layout[d][n].start = MsrStart

BarePart ==
    \A d \in Disk : \A n \in DOMAIN layout[d] :
        Clothed(d, n) \/ \E c \in Call : Bears(c, d, n)

Shapes ==
    sig = [d \in Disk |-> sig[d]] /\ panic = [why |-> panic.why, call |-> panic.call]

BInv ==
    /\ KInv /\ TypeOK /\ Shapes
    /\ \A c \in Call : FreshPart(c) /\ PlanPart(c) /\ DonePart(c)
    /\ BarePart /\ BareNeedsUnfinished

\* What a request is.
LEMMA RequestOf ==
    ASSUME NEW q \in Requests \cup {<<>>}, NEW k \in DOMAIN q
    PROVE  /\ k \in Nat \ {0} /\ k <= Len(q) /\ q[k].disk \in Disk
           /\ \A j \in DOMAIN q : q[j].disk = q[k].disk => j = k
           /\ Len(q[k].parts) \in Nat /\ DOMAIN q[k].parts = 1..Len(q[k].parts)
           /\ \A n \in DOMAIN q[k].parts : q[k].parts[n].size \in Nat
<1> DEFINE Parts == Seq([fs : STRING, size : Nat])
<1> DEFINE Jobs == [disk : Disk, parts : Parts]
<1>1. q # <<>>
  OBVIOUS
<1>2. q \in Requests
  BY <1>1
<1>3. q \in Seq(Jobs) /\ \A i, j \in 1..Len(q) : q[i].disk = q[j].disk => i = j
  BY <1>2, PartitioningAssumption
<1> HIDE DEF Jobs
<1>4. DOMAIN q = 1..Len(q) /\ Len(q) \in Nat
  BY <1>3, LenProperties
<1>5. k \in 1..Len(q) /\ q[k] \in Jobs
  BY <1>3, <1>4, ElementOfSeq
<1>6. q[k].disk \in Disk /\ q[k].parts \in Parts
  BY <1>5 DEF Jobs
<1>7. Len(q[k].parts) \in Nat /\ DOMAIN q[k].parts = 1..Len(q[k].parts)
  BY <1>6, LenProperties
<1>8. ASSUME NEW n \in DOMAIN q[k].parts PROVE q[k].parts[n].size \in Nat
  <2>1. q[k].parts[n] \in [fs : STRING, size : Nat]
    BY <1>6, <1>7, ElementOfSeq
  <2> QED
    BY <2>1
<1> QED
  BY <1>3, <1>4, <1>5, <1>6, <1>7, <1>8

\* The disk an active call is at, in its request.
LEMMA JobOf ==
    ASSUME KInv, NEW c \in Call, Active(c)
    PROVE  /\ call[c].req \in Requests \cup {<<>>} /\ call[c].disk \in DOMAIN call[c].req
           /\ call[c].disk \in Nat \ {0} /\ call[c].part \in Nat \ {0}
           /\ Job(c) = call[c].req[call[c].disk] /\ Wants(c) = call[c].req[call[c].disk].parts
           /\ Job(c).disk \in Disk
           /\ Len(Wants(c)) \in Nat /\ DOMAIN Wants(c) = 1..Len(Wants(c))
           /\ \A n \in DOMAIN Wants(c) : Wants(c)[n].size \in Nat
<1>1. call[c].req \in Seq([disk : Disk, parts : Seq([fs : STRING, size : Nat])])
      /\ call[c].disk \in Nat \ {0} /\ call[c].disk <= Len(call[c].req)
      /\ call[c].req \in Requests
  BY RequestIs
<1>2. call[c].disk \in DOMAIN call[c].req
  BY <1>1, LenProperties
<1>3. call[c].part \in Nat \ {0}
  BY AtDisk
<1> QED
  BY <1>1, <1>2, <1>3, RequestOf DEF Job, Wants

LEMMA ReqOf ==
    ASSUME KInv, NEW c \in Call
    PROVE  call[c].req \in Requests \cup {<<>>} /\ call[c].disk \in Nat \ {0}
BY DEF KInv, Shaped, Locals

\* A step of one call leaves the parts of the others as they are.
LEMMA OneCall ==
    ASSUME BInv, NEW c \in Call, Active(c), Only(c), met' = met, squeezed \subseteq squeezed',
           FreshPart(c)', PlanPart(c)', DonePart(c)', NEW b \in Call
    PROVE  FreshPart(b)' /\ PlanPart(b)' /\ DonePart(b)'
<1>1. CASE b = c
  BY <1>1
<1>2. CASE b # c
  <2>1. call'[b] = call[b] /\ (b \in met \/ ~Active(b)) /\ FreshPart(b) /\ PlanPart(b)
    BY <1>2 DEF BInv, KInv, AlonePart, Only
  <2>2. FreshPart(b)' /\ DonePart(b)'
    BY <2>1 DEF FreshPart, DonePart, Active
  <2>3. ASSUME call[b].pc = "part" PROVE b \in met
    BY <2>1, <2>3 DEF Active
  <2>4. ASSUME call[b].pc = "format" PROVE b \in met
    BY <2>1, <2>4 DEF Active
  <2>5. \A k, n, g : Sized(b, k, n, g) => Sized(b, k, n, g)'
    BY <2>1 DEF Sized, CloseTo, SizeMB
  <2>6. Wants(b)' = Wants(b) /\ Table(b)' = Table(b)
    BY <2>1 DEF Wants, Job, Table
  <2>7. PlanPart(b)'
    BY <2>1, <2>3, <2>4, <2>5, <2>6 DEF PlanPart
  <2> QED
    BY <2>2, <2>7
<1> QED
  BY <1>1, <1>2

\* What the others may have left bare, they still may.
LEMMA OthersBear ==
    ASSUME NEW b \in Call, call'[b] = call[b], met \subseteq met', NEW d, NEW n, Bears(b, d, n)
    PROVE  Bears(b, d, n)'
<1>1. PICK k \in DOMAIN call[b].req :
        /\ call[b].req[k].disk = d /\ Touched(call[b], k)
        /\ \/ b \in met \/ LeavesBare(b)
           \/ Active(b) /\ n \in DOMAIN call[b].req[k].parts /\ ~Formed(call[b], k, n)
  BY DEF Bears
<1>2. k \in DOMAIN call'[b].req /\ call'[b].req[k].disk = d /\ Touched(call'[b], k)
  BY <1>1
<1>3. \/ b \in met' \/ LeavesBare(b)'
      \/ Active(b)' /\ n \in DOMAIN call'[b].req[k].parts /\ ~Formed(call'[b], k, n)
  BY <1>1 DEF LeavesBare, Active
<1> QED
  BY <1>2, <1>3 DEF Bears

\* A step of one call: every partition it does not leave as it was has a file system
\* then, or the call bears it.
LEMMA OneBare ==
    ASSUME BarePart, NEW c \in Call, Only(c), met \subseteq met',
           \A d \in Disk : \A s : Probed(d, s) # "none" => Probed(d, s)' # "none",
           \A d \in Disk : \A n \in DOMAIN layout'[d] :
              \/ Clothed(d, n)' \/ Bears(c, d, n)'
              \/ n \in DOMAIN layout[d] /\ layout'[d][n] = layout[d][n] /\ ~Bears(c, d, n)
    PROVE  BarePart'
<1> SUFFICES ASSUME NEW d \in Disk, NEW n \in DOMAIN layout'[d], ~Clothed(d, n)', ~Bears(c, d, n)'
             PROVE  \E b \in Call : Bears(b, d, n)'
  BY DEF BarePart
<1>1. n \in DOMAIN layout[d] /\ layout'[d][n] = layout[d][n] /\ ~Bears(c, d, n)
  OBVIOUS
<1>2. ~Clothed(d, n)
  BY <1>1 DEF Clothed
<1>3. PICK b \in Call : Bears(b, d, n)
  BY <1>1, <1>2 DEF BarePart
<1>4. b # c
  BY <1>1, <1>3
<1>5. call'[b] = call[b]
  BY <1>4 DEF Only
<1> QED
  BY <1>3, <1>5, OthersBear

LEMMA EmptyFormed == WellFormed(<<>>)
<1>1. DOMAIN <<>> = {}
  BY EmptySeq, LenProperties
<1> QED
  BY <1>1, FS_EmptySet DEF WellFormed

LEMMA BInit == Init => BInv
<1> SUFFICES ASSUME Init PROVE BInv
  OBVIOUS
<1>1. PICK t \in [Disk -> Layouts], fs \in {"ntfs", "ext4"} :
        /\ layout = [d \in Disk |-> [n \in DOMAIN t[d] |-> Geo(t[d][n])]]
        /\ sig = [d \in Disk |->
            [s \in {t[d][n].start : n \in DOMAIN t[d]} \ {MsrStart} |-> fs]]
  BY DEF Init
<1>2. call = [c \in Call |-> [pc |-> "new", req |-> <<>>, disk |-> 1, part |-> 1,
                              table |-> <<>>, result |-> "none"]]
      /\ panic = [why |-> "no", call |-> CHOOSE c \in Call : TRUE]
      /\ met = {} /\ squeezed = {}
  BY DEF Init
<1>3. ASSUME NEW d \in Disk
      PROVE  /\ DOMAIN layout[d] = DOMAIN t[d] /\ WellFormed(t[d])
             /\ \A n \in DOMAIN t[d] : layout[d][n].start = t[d][n].start
                                       /\ layout[d][n].end = t[d][n].end
             /\ DOMAIN sig[d] = {t[d][n].start : n \in DOMAIN t[d]} \ {MsrStart}
             /\ \A s \in DOMAIN sig[d] : sig[d][s] = fs
  <2>1. t[d] \in Layouts
    OBVIOUS
  <2> QED
    BY <1>1, <2>1, PartitioningAssumption DEF Geo
<1>4. TypeOK
  <2>1. ASSUME NEW d \in Disk PROVE WellFormed(layout[d])
    BY <1>3, PartsFormed
  <2>2. \A d \in Disk : \A s \in DOMAIN sig[d] : sig[d][s] \in Signature
    BY <1>3 DEF Signature, Known, Formatted
  <2>3. \A c \in Call : ~Active(c)
    BY <1>2 DEF Active
  <2> QED
    BY <1>2, <2>1, <2>2, <2>3 DEF TypeOK, Causes
<1>5. Shapes
  BY <1>1, <1>2 DEF Shapes
<1>6. \A c \in Call : FreshPart(c) /\ PlanPart(c) /\ DonePart(c)
  BY <1>2 DEF FreshPart, PlanPart, DonePart, Active
<1>7. BarePart
  <2> SUFFICES ASSUME NEW d \in Disk, NEW n \in DOMAIN layout[d] PROVE Clothed(d, n)
    BY DEF BarePart
  <2>1. layout[d][n].start = MsrStart \/ Probed(d, layout[d][n].start) = fs
    BY <1>3 DEF Probed
  <2> QED
    BY <2>1 DEF Clothed
<1>8. BareNeedsUnfinished
  BY <1>2 DEF BareNeedsUnfinished
<1> QED
  BY <1>4, <1>5, <1>6, <1>7, <1>8, KInit DEF BInv
--------------------------------------------------------------------------------
\* Steps that change neither the disks nor a call, but for the cause of a panic.
LEMMA Still ==
    ASSUME BInv, UNCHANGED <<layout, sig, call, met, squeezed>>
    PROVE  /\ \A c \in Call : FreshPart(c)' /\ PlanPart(c)' /\ DonePart(c)'
           /\ BarePart'
<1>1. \A c \in Call : FreshPart(c)'
  BY DEF BInv, FreshPart
<1>2. \A c, k, n, g : Sized(c, k, n, g)' <=> Sized(c, k, n, g)
  BY DEF Sized, CloseTo, SizeMB
<1>3. ASSUME NEW c \in Call PROVE PlanPart(c)'
  <2>1. PlanPart(c)
    BY DEF BInv
  <2>2. \A d, n : AsRead(d, n)' = AsRead(d, n)
    BY DEF AsRead, Probed
  <2>3. Wants(c)' = Wants(c) /\ Table(c)' = Table(c) /\ Job(c)' = Job(c)
    BY DEF Wants, Table, Job
  <2> QED
    BY <1>2, <2>1, <2>2, <2>3 DEF PlanPart
<1>4. ASSUME NEW c \in Call PROVE DonePart(c)'
  <2>1. DonePart(c)
    BY DEF BInv
  <2>2. \A k, n : (Touched(call[c], k)' <=> Touched(call[c], k))
                  /\ (Formed(call[c], k, n)' <=> Formed(call[c], k, n))
    BY DEF Touched, Formed
  <2>3. \A d, s : Probed(d, s)' = Probed(d, s)
    BY DEF Probed
  <2> QED
    BY <1>2, <2>1, <2>2, <2>3 DEF DonePart, Active
<1>5. BarePart'
  <2>1. \A d, n : Clothed(d, n) => Clothed(d, n)'
    BY DEF Clothed, Probed
  <2>2. \A b \in Call : \A d, n : Bears(b, d, n) => Bears(b, d, n)'
    BY OthersBear
  <2>3. BarePart
    BY DEF BInv
  <2> QED
    BY <2>1, <2>2, <2>3 DEF BarePart
<1> QED
  BY <1>1, <1>3, <1>4, <1>5

\* What the type and a call's part say after a step.
LEMMA TypeThen ==
    TypeOK' <=> /\ \A d \in Disk : /\ WellFormed(layout'[d])
                                    /\ \A s \in DOMAIN sig'[d] : sig'[d][s] \in Signature
                /\ \A b \in Call : Active(b)' => WellFormed(Table(b)')
                /\ panic'.why \in Causes
                /\ met' \subseteq Call /\ squeezed' \subseteq Call \X Disk \X (Nat \ {0})
BY DEF TypeOK, WellFormed, Geometry, Geo, Signature, Causes, Known, Formatted, Grain

LEMMA DoneThen ==
    ASSUME NEW c
    PROVE  DonePart(c)' <=>
        (Active(c)' /\ c \notin met' =>
           \A j \in DOMAIN call'[c].req : \A n \in DOMAIN call'[c].req[j].parts :
            /\ Touched(call'[c], j) =>
                  /\ n \in DOMAIN layout'[call'[c].req[j].disk]
                  /\ Sized(c, j, n, layout[call[c].req[j].disk][n])'
            /\ Formed(call'[c], j, n) /\ call'[c].req[j].parts[n].fs \in Formatted =>
                  Probed(call[c].req[j].disk, layout[call[c].req[j].disk][n].start)'
                      \in Made(call'[c].req[j].parts[n].fs))
BY DEF DonePart, Touched, Formed, Made

\* What is left to show of a step of one call.
LEMMA OneStep ==
    ASSUME BInv, [Next]_vars, NEW c \in Call, Active(c), Only(c), met' = met,
           squeezed \subseteq squeezed', squeezed' \subseteq Call \X Disk \X (Nat \ {0}),
           \A d \in Disk : WellFormed(layout'[d]),
           \A d \in Disk : \A s \in DOMAIN sig'[d] : sig'[d][s] \in Signature,
           call'[c].pc # "done" => WellFormed(call'[c].table),
           Shapes', panic'.why \in {"no", "full", "type"},
           FreshPart(c)', PlanPart(c)', DonePart(c)', BarePart'
    PROVE  BInv'
<1>1. KInv'
  BY KStep DEF BInv
<1>2. TypeOK'
  <2>1. ASSUME NEW b \in Call, Active(b)' PROVE WellFormed(Table(b)')
    <3>1. CASE b = c
      BY <2>1, <3>1 DEF Active, Table
    <3>2. CASE b # c
      BY <2>1, <3>2 DEF BInv, TypeOK, Active, Table, Only
    <3> QED
      BY <3>1, <3>2
  <2>2. panic'.why \in Causes /\ met' \subseteq Call
    BY DEF Causes, BInv, TypeOK
  <2> QED
    BY <2>1, <2>2, TypeThen
<1>3. \A b \in Call : FreshPart(b)' /\ PlanPart(b)' /\ DonePart(b)'
  BY OneCall
<1>4. BareNeedsUnfinished'
  BY DEF BareNeedsUnfinished
<1> QED
  BY <1>1, <1>2, <1>3, <1>4 DEF BInv

\* Writing the table in memory keeps the tables well formed.
LEMMA WriteFormed ==
    ASSUME BInv, NEW c \in Call, Active(c), Write(c)
    PROVE  \A d \in Disk : WellFormed(layout'[d])
<1>1. /\ \A d \in Disk : d # Job(c).disk => layout'[d] = layout[d]
      /\ layout'[Job(c).disk] = [n \in DOMAIN Table(c) |-> Geo(Table(c)[n])]
  BY WriteKeeps DEF BInv
<1>2. WellFormed(Table(c)) /\ \A d \in Disk : WellFormed(layout[d])
  BY DEF BInv, TypeOK
<1> DEFINE u == [n \in DOMAIN Table(c) |-> Geo(Table(c)[n])]
<1>3. DOMAIN u = DOMAIN Table(c)
      /\ \A n \in DOMAIN u : u[n].start = Table(c)[n].start /\ u[n].end = Table(c)[n].end
  BY DEF Geo
<1> HIDE DEF u
<1>4. WellFormed(u)
  BY <1>2, <1>3, PartsFormed
<1> QED
  BY <1>1, <1>2, <1>4 DEF u

\* A call that is cut short may have left every partition of its disks bare.
LEMMA CutBears ==
    ASSUME NEW c \in Call, call'[c].pc = "done", call'[c].result \in {"error", "lost"},
           call'[c].req = call[c].req, NEW k \in DOMAIN call[c].req, NEW n
    PROVE  Bears(c, call[c].req[k].disk, n)'
<1>1. k \in DOMAIN call'[c].req /\ Touched(call'[c], k) /\ LeavesBare(c)'
      /\ call'[c].req[k].disk = call[c].req[k].disk
  BY DEF Touched, LeavesBare
<1> QED
  BY <1>1 DEF Bears

LEMMA FailStep ==
    ASSUME BInv, [Next]_vars, NEW c \in Call, Active(c), Fail(c), panic.why = "no",
           UNCHANGED <<sig, panic, met, squeezed>>, Write(c) \/ UNCHANGED layout
    PROVE  BInv'
<1>1. /\ call'[c].pc = "done" /\ call'[c].result = "error" /\ call'[c].req = call[c].req
      /\ Only(c)
  BY FailDoes DEF BInv
<1>2. FreshPart(c)' /\ PlanPart(c)' /\ DonePart(c)'
  BY <1>1 DEF FreshPart, PlanPart, DonePart, Active
<1>3. \A d \in Disk : WellFormed(layout'[d])
  BY WriteFormed DEF BInv, TypeOK
<1>4. BarePart'
  <2>1. ASSUME NEW d \in Disk, NEW n \in DOMAIN layout'[d]
        PROVE  \/ Bears(c, d, n)'
               \/ n \in DOMAIN layout[d] /\ layout'[d][n] = layout[d][n] /\ ~Bears(c, d, n)
    <3>1. CASE d = Job(c).disk
      <4>1. call[c].disk \in DOMAIN call[c].req /\ d = call[c].req[call[c].disk].disk
        BY <3>1, JobOf DEF BInv
      <4> QED
        BY <1>1, <4>1, CutBears
    <3>2. CASE Bears(c, d, n)
      <4>1. PICK k \in DOMAIN call[c].req : call[c].req[k].disk = d
        BY <3>2 DEF Bears
      <4> QED
        BY <1>1, <4>1, CutBears
    <3>3. CASE d # Job(c).disk /\ ~Bears(c, d, n)
      <4>1. layout'[d] = layout[d]
        BY <3>3, WriteKeeps DEF BInv
      <4> QED
        BY <3>3, <4>1
    <3> QED
      BY <3>1, <3>2, <3>3
  <2>2. \A d \in Disk : \A s : Probed(d, s) # "none" => Probed(d, s)' # "none"
    BY DEF Probed
  <2> QED
    BY <1>1, <2>1, <2>2, OneBare DEF BInv
<1>5. Shapes' /\ \A d \in Disk : \A s \in DOMAIN sig'[d] : sig'[d][s] \in Signature
  BY DEF BInv, Shapes, TypeOK
<1>6. squeezed' \subseteq Call \X Disk \X (Nat \ {0}) /\ panic'.why \in {"no", "full", "type"}
  BY DEF BInv, TypeOK
<1> QED
  BY <1>1, <1>2, <1>3, <1>4, <1>5, <1>6, OneStep

\* A step that leaves the disks alone and neither writes a table nor makes a file system.
LEMMA SameDisks ==
    ASSUME BInv, NEW c \in Call, Active(c), Active(c)', Only(c), UNCHANGED <<layout, sig, met>>,
           squeezed \subseteq squeezed', call'[c].req = call[c].req,
           \A k \in DOMAIN call[c].req :
              /\ Touched(call'[c], k) <=> Touched(call[c], k)
              /\ \A n \in DOMAIN call[c].req[k].parts :
                    Formed(call'[c], k, n) <=> Formed(call[c], k, n)
    PROVE  /\ DonePart(c)' /\ BarePart'
           /\ \A d \in Disk : WellFormed(layout'[d])
           /\ \A d \in Disk : \A s \in DOMAIN sig'[d] : sig'[d][s] \in Signature
<1>1. \A k, n, g : Sized(c, k, n, g) => Sized(c, k, n, g)'
  BY DEF Sized, CloseTo, SizeMB
<1>2. \A d, s : Probed(d, s)' = Probed(d, s)
  BY DEF Probed
<1>3. DonePart(c)'
  <2>1. DonePart(c)
    BY DEF BInv
  <2> QED
    BY <1>1, <1>2, <2>1 DEF DonePart
<1>4. ASSUME NEW d \in Disk, NEW n \in DOMAIN layout[d], Bears(c, d, n) PROVE Bears(c, d, n)'
  <2>1. PICK k \in DOMAIN call[c].req :
            /\ call[c].req[k].disk = d /\ Touched(call[c], k)
            /\ \/ c \in met \/ LeavesBare(c)
               \/ Active(c) /\ n \in DOMAIN call[c].req[k].parts /\ ~Formed(call[c], k, n)
    BY <1>4 DEF Bears
  <2>2. LeavesBare(c) => LeavesBare(c)'
    BY DEF LeavesBare, BInv, FreshPart, Active
  <2> QED
    BY <2>1, <2>2 DEF Bears
<1>5. BarePart'
  BY <1>2, <1>4, OneBare DEF BInv
<1>6. \A d \in Disk : WellFormed(layout'[d])
  BY DEF BInv, TypeOK
<1>7. \A d \in Disk : \A s \in DOMAIN sig'[d] : sig'[d][s] \in Signature
  BY DEF BInv, TypeOK
<1> QED
  BY <1>3, <1>5, <1>6, <1>7

LEMMA OpenBare ==
    ASSUME BInv, [Next]_vars, NEW c \in Call, Open(c)
    PROVE  BInv'
<1>1. /\ call[c].pc \in {"open", "reopen"}
      /\ call'[c].pc = IF call[c].pc = "open" THEN "part" ELSE "format"
      /\ call'[c].table = [n \in DOMAIN layout[Job(c).disk] |-> AsRead(Job(c).disk, n)]
      /\ call'[c].req = call[c].req /\ call'[c].disk = call[c].disk /\ call'[c].part = 1
      /\ call'[c].result = call[c].result /\ Only(c)
      /\ UNCHANGED <<layout, sig, panic, met, squeezed>>
  BY OpenDoes DEF BInv
<1>2. Active(c) /\ Active(c)' /\ panic.why = "no"
  BY <1>1 DEF Active, Open, At
<1>3. /\ Job(c)' = Job(c) /\ Wants(c)' = Wants(c) /\ Job(c).disk \in Disk /\ Len(Wants(c)) \in Nat
      /\ Table(c)' = [n \in DOMAIN layout[Job(c).disk] |-> AsRead(Job(c).disk, n)]
  BY <1>1, <1>2, JobOf DEF Job, Wants, Table, BInv
<1>4. \A n \in DOMAIN layout[Job(c).disk] : AsRead(Job(c).disk, n)' = AsRead(Job(c).disk, n)
  BY <1>1, <1>3 DEF AsRead, Probed
<1>5. WellFormed(call'[c].table)
  <2>1. WellFormed(layout[Job(c).disk])
    BY <1>3 DEF BInv, TypeOK
  <2> QED
    BY <1>1, <2>1, PartsFormed DEF AsRead
<1>6. FreshPart(c)'
  BY <1>1, <1>2 DEF FreshPart, BInv, Active
<1>7. PlanPart(c)'
  <2>1. CASE call'[c].pc = "part"
    <3>1. 1 <= Len(Wants(c)) + 1 /\ 1..(1 - 1) = {}
      BY <1>3
    <3> QED
      BY <1>1, <1>3, <1>4, <2>1, <3>1 DEF PlanPart
  <2>2. CASE call'[c].pc = "format"
    BY <1>1, <1>3, <2>2 DEF PlanPart
  <2> QED
    BY <1>1, <2>1, <2>2
<1>8. ASSUME NEW k \in DOMAIN call[c].req
      PROVE  /\ Touched(call'[c], k) <=> Touched(call[c], k)
             /\ \A n \in DOMAIN call[c].req[k].parts :
                    Formed(call'[c], k, n) <=> Formed(call[c], k, n)
  <2>1. \A n \in DOMAIN call[c].req[k].parts : ~(n < 1)
    BY ReqOf, RequestOf DEF BInv
  <2> QED
    BY <1>1, <2>1 DEF Touched, Formed
<1>9. /\ DonePart(c)' /\ BarePart'
      /\ \A d \in Disk : WellFormed(layout'[d])
      /\ \A d \in Disk : \A s \in DOMAIN sig'[d] : sig'[d][s] \in Signature
  BY <1>1, <1>2, <1>8, SameDisks
<1>10. Shapes' /\ squeezed' \subseteq Call \X Disk \X (Nat \ {0})
       /\ panic'.why \in {"no", "full", "type"}
  BY <1>1, <1>2 DEF BInv, Shapes, TypeOK
<1> QED
  BY <1>1, <1>2, <1>5, <1>6, <1>7, <1>9, <1>10, OneStep

LEMMA KeepBare ==
    ASSUME BInv, [Next]_vars, NEW c \in Call, Keep(c)
    PROVE  BInv'
<1>1. /\ call[c].pc = "part" /\ call[c].part <= Len(Wants(c)) /\ panic.why = "no"
      /\ Has(c) /\ Matches(Found(c), Want(c)) /\ UNCHANGED <<layout, sig, panic, met, squeezed>>
  BY DEF Keep, Planning, At
<1>2. /\ call'[c].pc = "part" /\ call'[c].table = call[c].table
      /\ call'[c].req = call[c].req /\ call'[c].disk = call[c].disk
      /\ call'[c].part = call[c].part + 1 /\ call'[c].result = call[c].result /\ Only(c)
  BY <1>1, AdvanceDoes DEF Keep, BInv
<1>3. Active(c) /\ Active(c)'
  BY <1>1, <1>2 DEF Active
<1>4. /\ Job(c)' = Job(c) /\ Wants(c)' = Wants(c) /\ Table(c)' = Table(c)
      /\ Job(c).disk \in Disk /\ Len(Wants(c)) \in Nat /\ call[c].part \in Nat \ {0}
      /\ Wants(c) = call[c].req[call[c].disk].parts
  BY <1>2, <1>3, JobOf DEF Job, Wants, Table, BInv
<1>5. WellFormed(call'[c].table)
  BY <1>2, <1>3 DEF BInv, TypeOK, Table
<1>6. FreshPart(c)'
  BY <1>2, <1>3 DEF FreshPart, BInv, Active
<1>7. PlanPart(c)'
  <2>1. PlanPart(c)
    BY DEF BInv
  <2>2. \A n, g : Sized(c, call[c].disk, n, g)' <=> Sized(c, call[c].disk, n, g)
    BY <1>1, <1>2 DEF Sized, CloseTo, SizeMB
  <2>3. \A n : AsRead(Job(c).disk, n)' = AsRead(Job(c).disk, n)
    BY <1>1, <1>4 DEF AsRead, Probed
  <2>4. ASSUME NEW n \in 1..call[c].part
        PROVE  n \in DOMAIN Table(c) /\ Sized(c, call[c].disk, n, Table(c)[n])
    <3>1. CASE n = call[c].part
      BY <1>1, <1>4, <3>1 DEF Has, Matches, Found, Want, Sized
    <3>2. CASE n # call[c].part
      <4>1. n \in 1..(call[c].part - 1)
        BY <1>4, <3>2
      <4> QED
        BY <1>1, <2>1, <4>1 DEF PlanPart
    <3> QED
      BY <3>1, <3>2
  <2>5. /\ call'[c].part <= Len(Wants(c)) + 1 /\ call'[c].part - 1 = call[c].part
        /\ \A n \in Nat : n < call[c].part => n < call'[c].part
    <3>1. /\ call[c].part \in Nat /\ Len(Wants(c)) \in Nat /\ call[c].part <= Len(Wants(c))
          /\ call'[c].part = call[c].part + 1
      BY <1>1, <1>2, <1>4
    <3> QED
      BY <3>1
  <2>6. ASSUME c \notin met, NEW n \in DOMAIN Table(c)
        PROVE  \/ n \in DOMAIN layout[Job(c).disk] /\ Table(c)[n] = AsRead(Job(c).disk, n)
               \/ n < call'[c].part
    <3>1. n \in Nat
      BY <1>3 DEF BInv, TypeOK, WellFormed
    <3> QED
      BY <1>1, <2>1, <2>5, <2>6, <3>1 DEF PlanPart
  <2> QED
    BY <1>1, <1>2, <1>4, <2>2, <2>3, <2>4, <2>5, <2>6 DEF PlanPart
<1>8. ASSUME NEW k \in DOMAIN call[c].req
      PROVE  /\ Touched(call'[c], k) <=> Touched(call[c], k)
             /\ \A n \in DOMAIN call[c].req[k].parts :
                    Formed(call'[c], k, n) <=> Formed(call[c], k, n)
  BY <1>1, <1>2 DEF Touched, Formed
<1>9. /\ DonePart(c)' /\ BarePart'
      /\ \A d \in Disk : WellFormed(layout'[d])
      /\ \A d \in Disk : \A s \in DOMAIN sig'[d] : sig'[d][s] \in Signature
  BY <1>1, <1>2, <1>3, <1>8, SameDisks
<1>10. Shapes' /\ squeezed' \subseteq Call \X Disk \X (Nat \ {0})
       /\ panic'.why \in {"no", "full", "type"}
  BY <1>1 DEF BInv, Shapes, TypeOK
<1> QED
  BY <1>1, <1>2, <1>3, <1>5, <1>6, <1>7, <1>9, <1>10, OneStep

\* What a panic leaves is what there was.
LEMMA PanicStep ==
    ASSUME BInv, [Next]_vars, NEW c \in Call, NEW why \in Causes \ {"bare"}, Panic(c, why),
           UNCHANGED <<layout, sig, met, squeezed>>
    PROVE  BInv'
<1>1. call' = call /\ panic' = [why |-> why, call |-> c]
  BY DEF Panic
<1>2. /\ \A b \in Call : FreshPart(b)' /\ PlanPart(b)' /\ DonePart(b)'
      /\ BarePart'
  BY <1>1, Still
<1>3. KInv'
  BY KStep DEF BInv
<1>4. TypeOK'
  <2>1. panic'.why \in Causes
    BY <1>1
  <2>2. \A b \in Call : (Active(b)' <=> Active(b)) /\ Table(b)' = Table(b)
    BY <1>1 DEF Active, Table
  <2> QED
    BY <2>1, <2>2, TypeThen DEF BInv, TypeOK
<1>5. Shapes' /\ BareNeedsUnfinished'
  BY <1>1 DEF BInv, Shapes, BareNeedsUnfinished
<1> QED
  BY <1>2, <1>3, <1>4, <1>5 DEF BInv

\* A size after a step is a size before, if the request is the same.
LEMMA SizedThen ==
    ASSUME NEW c \in Call, call'[c].req = call[c].req, NEW k, NEW n, NEW g
    PROVE  Sized(c, k, n, g)' <=>
               \/ CloseTo(g, call[c].req[k].parts[n])
               \/ <<c, call[c].req[k].disk, n>> \in squeezed'
BY DEF Sized, CloseTo, SizeMB

\* The new partition has the number it was asked for by, and is of that size or squeezed.
LEMMA MakeBare ==
    ASSUME BInv, [Next]_vars, NEW c \in Call, Planning(c), NEW t, WellFormed(t), Make(c, t),
           UNCHANGED <<layout, sig, met>>, call[c].part \notin DOMAIN t,
           1..(call[c].part - 1) \subseteq DOMAIN t,
           \A n \in DOMAIN t : n \in DOMAIN Table(c) /\ t[n] = Table(c)[n]
    PROVE  BInv'
<1>1. call[c].pc = "part" /\ call[c].part <= Len(Wants(c)) /\ panic.why = "no" /\ Active(c)
  BY DEF Planning, At, Active
<1>2. CASE Panic(c, "type") /\ UNCHANGED squeezed
  BY <1>2, PanicStep DEF Causes
<1>3. CASE Panic(c, "full") /\ UNCHANGED squeezed
  BY <1>3, PanicStep DEF Causes
<1>4. CASE Fail(c) /\ UNCHANGED <<panic, squeezed>>
  BY <1>1, <1>4, FailStep
<1>5. CASE /\ HasRoom(t)
           /\ Becomes(c, [call[c] EXCEPT !.table = MkPart(t, Want(c)), !.part = @ + 1])
           /\ squeezed' = IF Placed(t, Want(c).size) = Wanted(t, Want(c).size) THEN squeezed
                           ELSE squeezed \cup {<<c, Job(c).disk, call[c].part>>}
           /\ UNCHANGED panic
  <2>1. PICK p, k, u : p = call[c].part /\ k = call[c].disk /\ u = MkPart(t, Want(c))
    OBVIOUS
  <2>2. /\ call'[c].pc = "part" /\ call'[c].table = u
        /\ call'[c].req = call[c].req /\ call'[c].disk = k
        /\ call'[c].part = p + 1 /\ call'[c].result = call[c].result /\ Only(c)
    BY <1>1, <1>5, <2>1, FillDoes DEF BInv
  <2>3. Active(c)'
    BY <2>2 DEF Active
  <2>4. /\ Job(c)' = Job(c) /\ Wants(c)' = Wants(c) /\ Table(c)' = u
        /\ Job(c).disk \in Disk /\ Len(Wants(c)) \in Nat /\ p \in Nat \ {0}
        /\ Wants(c) = call[c].req[k].parts /\ Job(c) = call[c].req[k]
        /\ DOMAIN Wants(c) = 1..Len(Wants(c))
        /\ \A n \in DOMAIN Wants(c) : Wants(c)[n].size \in Nat
    BY <1>1, <2>1, <2>2, JobOf DEF Job, Wants, Table, BInv
  <2>5. p \in DOMAIN Wants(c) /\ Want(c).size \in Nat /\ p <= Len(Wants(c)) /\ Want(c) = Wants(c)[p]
    <3>1. p \in 1..Len(Wants(c)) /\ p <= Len(Wants(c))
      BY <1>1, <2>1, <2>4
    <3> QED
      BY <2>1, <2>4, <3>1 DEF Want
  <2>6. WellFormed(u)
    BY <1>5, <2>1, <2>5, MkPartFormed
  <2>7. FreeNumber(t) = p
    BY <2>1, <2>4, FreeIs
  <2>8. /\ DOMAIN u = DOMAIN t \cup {p} /\ \A n \in DOMAIN t : u[n] = t[n]
        /\ u[p].start = Placed(t, Want(c).size).start /\ u[p].end = Placed(t, Want(c).size).end
    BY <2>1, <2>7 DEF MkPart
  <2>9. squeezed \subseteq squeezed' /\ squeezed' \subseteq Call \X Disk \X (Nat \ {0})
    <3>1. <<c, Job(c).disk, p>> \in Call \X Disk \X (Nat \ {0})
      BY <2>4
    <3>2. squeezed \subseteq Call \X Disk \X (Nat \ {0})
      BY DEF BInv, TypeOK
    <3> QED
      BY <1>5, <2>1, <3>1, <3>2
  <2>10. FreshPart(c)'
    BY <1>1, <2>2, <2>3 DEF FreshPart, BInv, Active
  <2>11. Sized(c, k, p, u[p])'
    <3>1. CASE Placed(t, Want(c).size) = Wanted(t, Want(c).size)
      <4>1. CloseTo(Wanted(t, Want(c).size), Want(c))
        BY <2>5, WantedIsClose DEF BInv
      <4>2. CloseTo(u[p], Want(c))
        BY <2>8, <3>1, <4>1 DEF CloseTo, SizeMB
      <4>3. CloseTo(u[p], call[c].req[k].parts[p])
        BY <2>4, <2>5, <4>2
      <4> QED
        BY <2>2, <4>3, SizedThen
    <3>2. CASE Placed(t, Want(c).size) # Wanted(t, Want(c).size)
      <4>1. <<c, call[c].req[k].disk, p>> \in squeezed'
        BY <1>5, <2>1, <2>4, <3>2
      <4> QED
        BY <2>2, <4>1, SizedThen
    <3> QED
      BY <3>1, <3>2
  <2>12. PlanPart(c)
    BY DEF BInv
  <2>13. ASSUME NEW n \in 1..p PROVE n \in DOMAIN u /\ Sized(c, k, n, u[n])'
    <3>1. CASE n = p
      BY <2>8, <2>11, <3>1
    <3>2. CASE n # p
      <4>1. n \in 1..(p - 1)
        BY <2>4, <3>2
      <4>2. n \in DOMAIN t /\ u[n] = Table(c)[n] /\ n \in DOMAIN u
        BY <2>1, <2>8, <4>1
      <4>3. Sized(c, k, n, Table(c)[n])
        BY <1>1, <2>1, <2>12, <4>1 DEF PlanPart
      <4>4. Sized(c, k, n, u[n])
        BY <4>2, <4>3
      <4> QED
        BY <2>2, <2>9, <4>2, <4>4, SizedThen DEF Sized
    <3> QED
      BY <3>1, <3>2
  <2>14. ASSUME c \notin met, NEW n \in DOMAIN u
         PROVE  \/ n \in DOMAIN layout[Job(c).disk] /\ u[n] = AsRead(Job(c).disk, n)
                \/ n < p + 1
    <3>1. CASE n = p
      BY <2>4, <3>1
    <3>2. CASE n # p
      <4>1. n \in DOMAIN Table(c) /\ u[n] = Table(c)[n]
        BY <2>8, <3>2
      <4>2. n \in Nat
        BY <2>6 DEF WellFormed
      <4>3. \/ n \in DOMAIN layout[Job(c).disk] /\ Table(c)[n] = AsRead(Job(c).disk, n)
            \/ n < p
        BY <1>1, <2>1, <2>12, <2>14, <4>1 DEF PlanPart
      <4> QED
        BY <2>4, <4>1, <4>2, <4>3
    <3> QED
      BY <3>1, <3>2
  <2>15. \A n : AsRead(Job(c).disk, n)' = AsRead(Job(c).disk, n)
    BY <2>4 DEF AsRead, Probed
  <2>16. PlanPart(c)'
    <3>1. p + 1 <= Len(Wants(c)) + 1 /\ (p + 1) - 1 = p
      BY <2>4, <2>5
    <3> QED
      BY <2>2, <2>4, <2>13, <2>14, <2>15, <3>1 DEF PlanPart
  <2>17. ASSUME NEW j \in DOMAIN call[c].req
         PROVE  /\ Touched(call'[c], j) <=> Touched(call[c], j)
                /\ \A n \in DOMAIN call[c].req[j].parts :
                       Formed(call'[c], j, n) <=> Formed(call[c], j, n)
    BY <1>1, <2>1, <2>2 DEF Touched, Formed
  <2>18. /\ DonePart(c)' /\ BarePart'
         /\ \A d \in Disk : WellFormed(layout'[d])
         /\ \A d \in Disk : \A s \in DOMAIN sig'[d] : sig'[d][s] \in Signature
    BY <1>1, <2>2, <2>3, <2>9, <2>17, SameDisks
  <2>19. Shapes' /\ panic'.why \in {"no", "full", "type"}
    BY <1>1, <1>5 DEF BInv, Shapes
  <2> QED
    BY <1>1, <2>2, <2>6, <2>9, <2>10, <2>16, <2>18, <2>19, OneStep
<1> QED
  BY <1>2, <1>3, <1>4, <1>5 DEF Make

LEMMA CreateBare ==
    ASSUME BInv, [Next]_vars, NEW c \in Call, Create(c)
    PROVE  BInv'
<1>1. Planning(c) /\ ~Has(c) /\ Make(c, Table(c)) /\ UNCHANGED <<layout, sig, met>>
  BY DEF Create
<1>2. call[c].pc = "part" /\ Active(c)
  BY <1>1 DEF Planning, At, Active
<1>3. WellFormed(Table(c)) /\ PlanPart(c)
  BY <1>2 DEF BInv, TypeOK
<1>4. 1..(call[c].part - 1) \subseteq DOMAIN Table(c)
  BY <1>2, <1>3 DEF PlanPart
<1> QED
  BY <1>1, <1>3, <1>4, MakeBare DEF Has

LEMMA DeleteBare ==
    ASSUME BInv, [Next]_vars, NEW c \in Call, Delete(c)
    PROVE  BInv'
<1>1. Planning(c) /\ UNCHANGED <<layout, sig, met>>
      /\ \/ Make(c, RmPart(Table(c), (call[c].part - 1) + 1))
         \/ Fail(c) /\ UNCHANGED <<panic, squeezed>>
  BY DEF Delete
<1>2. call[c].pc = "part" /\ Active(c) /\ panic.why = "no"
  BY <1>1 DEF Planning, At, Active
<1>3. WellFormed(Table(c)) /\ PlanPart(c)
  BY <1>2 DEF BInv, TypeOK
<1>4. call[c].part \in Nat \ {0} /\ (call[c].part - 1) + 1 = call[c].part
  BY <1>2, JobOf DEF BInv
<1>5. PICK t : t = RmPart(Table(c), call[c].part)
  OBVIOUS
<1>6. /\ DOMAIN t = DOMAIN Table(c) \ {call[c].part}
      /\ \A n \in DOMAIN t : n \in DOMAIN Table(c) /\ t[n] = Table(c)[n]
  BY <1>5 DEF RmPart, Restrict
<1>7. WellFormed(t)
  BY <1>3, <1>6, PartsFormed
<1>8. 1..(call[c].part - 1) \subseteq DOMAIN t
  <2>1. 1..(call[c].part - 1) \subseteq DOMAIN Table(c)
    BY <1>2, <1>3 DEF PlanPart
  <2>2. call[c].part \notin 1..(call[c].part - 1)
    BY <1>4
  <2> QED
    BY <1>6, <2>1, <2>2
<1>9. CASE Make(c, t)
  BY <1>1, <1>6, <1>7, <1>8, <1>9, MakeBare
<1>10. CASE Fail(c) /\ UNCHANGED <<panic, squeezed>>
  BY <1>1, <1>2, <1>10, FailStep
<1> QED
  BY <1>1, <1>4, <1>5, <1>9, <1>10

\* A call that runs alone panics on a partition that another one has left bare.
LEMMA BareBare ==
    ASSUME BInv, [Next]_vars, NEW c \in Call, Bare(c)
    PROVE  BInv'
<1>1. /\ call[c].pc = "part" /\ call[c].part <= Len(Wants(c)) /\ Has(c) /\ Found(c).fs = "none"
      /\ call' = call /\ panic' = [why |-> "bare", call |-> c]
      /\ UNCHANGED <<layout, sig, met, squeezed>>
  BY DEF Bare, Planning, At, Panic
<1>2. /\ \A b \in Call : FreshPart(b)' /\ PlanPart(b)' /\ DonePart(b)'
      /\ BarePart'
  BY <1>1, Still
<1>3. KInv' /\ Active(c)
  BY <1>1, KStep DEF BInv, Active
<1>4. TypeOK'
  <2>1. panic'.why \in Causes
    BY <1>1 DEF Causes
  <2>2. \A b \in Call : (Active(b)' <=> Active(b)) /\ Table(b)' = Table(b)
    BY <1>1 DEF Active, Table
  <2> QED
    BY <1>1, <2>1, <2>2, TypeThen DEF BInv, TypeOK
<1>5. ASSUME c \notin met
      PROVE  Found(c).start = MsrStart \/ \E b \in Call \ {c} : LeavesBare(b) \/ b \in met
  <2>1. PICK d, n : d = Job(c).disk /\ n = call[c].part
    OBVIOUS
  <2>2. /\ call[c].disk \in DOMAIN call[c].req /\ call[c].disk \in Nat /\ d \in Disk /\ n \in Nat
        /\ Job(c) = call[c].req[call[c].disk] /\ call[c].req \in Requests \cup {<<>>}
    BY <1>3, <2>1, JobOf DEF BInv
  <2>3. n \in DOMAIN layout[d] /\ Table(c)[n] = AsRead(d, n)
    <3>1. PlanPart(c) /\ ~(n < n)
      BY <2>2 DEF BInv
    <3> QED
      BY <1>1, <1>5, <2>1, <3>1 DEF PlanPart, Has
  <2>4. Found(c).start = layout[d][n].start /\ Probed(d, layout[d][n].start) = "none"
    BY <1>1, <2>1, <2>3 DEF Found, AsRead
  <2>5. CASE layout[d][n].start = MsrStart
    BY <2>4, <2>5
  <2>6. CASE layout[d][n].start # MsrStart
    <3>1. PICK b \in Call : Bears(b, d, n)
      BY <2>2, <2>3, <2>4, <2>6 DEF BInv, BarePart, Clothed
    <3>2. b # c
      <4> SUFFICES ASSUME b = c PROVE FALSE
        OBVIOUS
      <4>1. PICK k \in DOMAIN call[c].req : call[c].req[k].disk = d /\ Touched(call[c], k)
        BY <3>1 DEF Bears
      <4>2. k = call[c].disk
        BY <2>1, <2>2, <4>1, RequestOf
      <4>3. ~(k < call[c].disk)
        BY <2>2, <4>2
      <4> QED
        BY <1>1, <4>1, <4>3 DEF Touched
    <3>3. ~Active(b)
      BY <1>3, <1>5, <3>2 DEF BInv, KInv, AlonePart
    <3>4. LeavesBare(b) \/ b \in met
      BY <3>1, <3>3 DEF Bears
    <3> QED
      BY <3>2, <3>4
  <2> QED
    BY <2>5, <2>6
<1>6. BareNeedsUnfinished'
  <2>1. Found(c)' = Found(c) /\ \A b \in Call : LeavesBare(b)' <=> LeavesBare(b)
    BY <1>1 DEF Found, Table, LeavesBare
  <2>2. BareNeedsUnfinished' <=>
            (panic'.why = "bare" /\ panic'.call \notin met' =>
                \/ (Found(panic.call)').start = MsrStart
                \/ \E b \in Call \ {panic'.call} : LeavesBare(b)' \/ b \in met')
    BY DEF BareNeedsUnfinished
  <2>3. Found(panic.call)' = Found(c)'
    BY <1>1 DEF Found, Table
  <2> QED
    BY <1>1, <1>5, <2>1, <2>2, <2>3
<1>7. Shapes'
  BY <1>1 DEF BInv, Shapes
<1> QED
  BY <1>2, <1>3, <1>4, <1>6, <1>7 DEF BInv

\* Where a disk is in a request.
LEMMA AtJob ==
    ASSUME KInv, NEW c \in Call, Active(c), NEW j \in DOMAIN call[c].req,
           call[c].req[j].disk = Job(c).disk
    PROVE  j = call[c].disk
BY JobOf, RequestOf

\* The table is written: the partitions of this disk are as asked for, those of a call
\* that runs alone.
LEMMA CommitBare ==
    ASSUME BInv, [Next]_vars, NEW c \in Call, Commit(c)
    PROVE  BInv'
<1>1. PICK k, p, d, u : /\ k = call[c].disk /\ p = call[c].part /\ d = Job(c).disk
                        /\ u = [n \in DOMAIN Table(c) |-> Geo(Table(c)[n])]
  OBVIOUS
<1>2. /\ call[c].pc = "part" /\ p > Len(Wants(c)) /\ Write(c)
      /\ \/ call'[c].pc = "open" /\ call'[c].disk = k + 1
         \/ /\ call'[c].pc = "reopen" /\ call'[c].disk = 1
            /\ ~(k < Len(call[c].req))
      /\ call'[c].req = call[c].req /\ call'[c].table = call[c].table
      /\ call'[c].result = call[c].result /\ Only(c)
      /\ UNCHANGED <<sig, panic, met, squeezed>>
  BY <1>1, CommitDoes DEF BInv
<1>3. Active(c) /\ Active(c)' /\ panic.why = "no"
  BY <1>2 DEF Active, Commit, Planned, At
<1>4. /\ k \in DOMAIN call[c].req /\ k \in Nat \ {0} /\ p \in Nat \ {0} /\ d \in Disk
      /\ call[c].req \in Requests \cup {<<>>}
      /\ Job(c) = call[c].req[k] /\ Wants(c) = call[c].req[k].parts
      /\ Len(Wants(c)) \in Nat /\ DOMAIN Wants(c) = 1..Len(Wants(c))
  BY <1>1, <1>3, JobOf DEF BInv
<1>5. /\ \A e \in Disk : e # d => layout'[e] = layout[e]
      /\ layout'[d] = u /\ DOMAIN u = DOMAIN Table(c)
      /\ \A n \in DOMAIN u : u[n] = Geo(Table(c)[n])
  BY <1>1, <1>2, <1>3, WriteKeeps DEF BInv
<1>6. PlanPart(c) /\ DonePart(c) /\ DiskPart
  BY DEF BInv, KInv
<1>7. FreshPart(c)' /\ PlanPart(c)'
  BY <1>2, <1>3 DEF FreshPart, PlanPart, BInv, Active
<1>8. ASSUME NEW j \in DOMAIN call[c].req PROVE Touched(call'[c], j) => j = k \/ Touched(call[c], j)
  <2>1. j \in Nat /\ j <= Len(call[c].req) /\ (call[c].req[j].disk = d => j = k)
        /\ Len(call[c].req) \in Nat
    BY <1>1, <1>3, <1>4, RequestOf, AtJob, RequestIs DEF BInv
  <2>2. (j < k + 1 => j = k \/ j < k) /\ (~(k < Len(call[c].req)) => j = k \/ j < k)
    BY <1>4, <2>1
  <2> QED
    BY <1>1, <1>2, <2>2 DEF Touched
<1>9. ASSUME NEW j \in DOMAIN call[c].req, NEW n PROVE ~Formed(call'[c], j, n)
  <2>1. j \in Nat \ {0}
    BY <1>4, RequestOf
  <2> QED
    BY <1>2, <2>1 DEF Formed
<1>10. \A j, n, g : Sized(c, j, n, g)' <=> Sized(c, j, n, g)
  BY <1>2, SizedThen DEF Sized
<1>11. DonePart(c)'
  <2>1. ASSUME c \notin met, NEW j \in DOMAIN call[c].req, NEW n \in DOMAIN call[c].req[j].parts,
               Touched(call'[c], j)
        PROVE  /\ n \in DOMAIN layout'[call[c].req[j].disk]
               /\ Sized(c, j, n, layout'[call[c].req[j].disk][n])
    <3>1. CASE j = k
      <4>1. n \in 1..(p - 1)
        BY <1>2, <1>4, <3>1
      <4>2. n \in DOMAIN Table(c) /\ Sized(c, k, n, Table(c)[n])
        BY <1>1, <1>2, <1>6, <4>1 DEF PlanPart
      <4>3. Sized(c, k, n, u[n])
        BY <1>5, <4>2 DEF Sized, CloseTo, SizeMB, Geo
      <4> QED
        BY <1>1, <1>4, <1>5, <3>1, <4>2, <4>3
    <3>2. CASE j # k
      <4>1. call[c].req[j].disk # d /\ call[c].req[j].disk \in Disk
        BY <1>1, <1>3, <1>4, <3>2, AtJob, RequestOf DEF BInv
      <4> QED
        BY <1>3, <1>5, <1>6, <1>8, <2>1, <3>2, <4>1 DEF DonePart
    <3> QED
      BY <3>1, <3>2
  <2>2. \A j, n : Sized(c, j, n, layout[call[c].req[j].disk][n])' <=>
                  Sized(c, j, n, layout'[call[c].req[j].disk][n])
    BY <1>2 DEF Sized, CloseTo, SizeMB
  <2> QED
    BY <1>2, <1>9, <2>1, <2>2, DoneThen
<1>12. Touched(call'[c], k)
  <2>1. k < k + 1
    BY <1>4
  <2> QED
    BY <1>2, <2>1 DEF Touched
<1>13. BarePart'
  <2>1. ASSUME NEW e \in Disk, NEW n, Bears(c, e, n) PROVE Bears(c, e, n)'
    <3>1. PICK j \in DOMAIN call[c].req :
              /\ call[c].req[j].disk = e /\ Touched(call[c], j)
              /\ \/ c \in met \/ LeavesBare(c)
                 \/ Active(c) /\ n \in DOMAIN call[c].req[j].parts /\ ~Formed(call[c], j, n)
      BY <2>1 DEF Bears
    <3>2. LeavesBare(c) => LeavesBare(c)'
      BY <1>2 DEF LeavesBare
    <3>3. Touched(call'[c], j)
      <4>1. j < k
        BY <1>1, <1>2, <3>1 DEF Touched
      <4>2. j \in Nat
        BY <1>4, RequestOf
      <4> QED
        BY <1>2, <1>4, <4>1, <4>2 DEF Touched
    <3> QED
      BY <1>2, <1>3, <1>9, <3>1, <3>2, <3>3 DEF Bears
  <2>2. ASSUME NEW n \in DOMAIN u
        PROVE  \/ Bears(c, d, n)'
               \/ n \in DOMAIN layout[d] /\ u[n] = layout[d][n]
    <3>1. CASE c \in met
      BY <1>1, <1>2, <1>4, <1>12, <3>1 DEF Bears
    <3>2. CASE c \notin met /\ n < p
      <4>1. n \in Nat \ {0}
        BY <1>3, <1>5 DEF BInv, TypeOK, WellFormed
      <4>2. n \in DOMAIN Wants(c)
        <5>1. p <= Len(Wants(c)) + 1
          BY <1>1, <1>2, <1>6 DEF PlanPart
        <5> QED
          BY <1>4, <3>2, <4>1, <5>1
      <4> QED
        BY <1>1, <1>2, <1>3, <1>4, <1>9, <1>12, <4>2 DEF Bears
    <3>3. CASE c \notin met /\ n \in DOMAIN layout[d] /\ Table(c)[n] = AsRead(d, n)
      <4>1. layout[d][n] = Geo(layout[d][n])
        BY <1>4, <1>6, <3>3 DEF DiskPart
      <4> QED
        BY <1>5, <3>3, <4>1 DEF AsRead, Geo
    <3> QED
      BY <1>1, <1>2, <1>5, <1>6, <3>1, <3>2, <3>3 DEF PlanPart
  <2>3. ASSUME NEW e \in Disk, NEW n \in DOMAIN layout'[e]
        PROVE  \/ Bears(c, e, n)'
               \/ n \in DOMAIN layout[e] /\ layout'[e][n] = layout[e][n] /\ ~Bears(c, e, n)
    BY <1>5, <2>1, <2>2
  <2>4. \A e \in Disk : \A s : Probed(e, s) # "none" => Probed(e, s)' # "none"
    BY <1>2 DEF Probed
  <2> QED
    BY <1>2, <2>3, <2>4, OneBare DEF BInv
<1>14. \A e \in Disk : WellFormed(layout'[e])
  BY <1>2, <1>3, WriteFormed
<1>15. WellFormed(call'[c].table)
  BY <1>2, <1>3 DEF BInv, TypeOK, Table
<1>16. /\ Shapes' /\ panic'.why \in {"no", "full", "type"}
       /\ squeezed' \subseteq Call \X Disk \X (Nat \ {0})
       /\ \A e \in Disk : \A s \in DOMAIN sig'[e] : sig'[e][s] \in Signature
  BY <1>2, <1>3 DEF BInv, Shapes, TypeOK
<1> QED
  BY <1>2, <1>3, <1>7, <1>11, <1>13, <1>14, <1>15, <1>16, OneStep

\* The partition at hand has been formatted, or need not be; nothing else has changed.
LEMMA FormatNext ==
    ASSUME BInv, [Next]_vars, NEW c \in Call, Formatting(c),
           Becomes(c, [call[c] EXCEPT !.part = @ + 1]), UNCHANGED <<layout, panic, met, squeezed>>,
           Shapes', \A e \in Disk : \A s \in DOMAIN sig'[e] : sig'[e][s] \in Signature,
           \A e \in Disk : \A s : Probed(e, s) # "none" => Probed(e, s)' # "none",
           NEW d, d = Job(c).disk, NEW p, p = call[c].part,
           c \notin met /\ Want(c).fs \in Formatted =>
              Probed(d, layout[d][p].start)' \in Made(Want(c).fs),
           \A e \in Disk : \A n \in DOMAIN layout[e] : e # d \/ n # p =>
              \A s : s = layout[e][n].start /\ p \in DOMAIN layout[d] =>
                  Probed(e, s)' = Probed(e, s),
           c \notin met => p \in DOMAIN layout[d],
           Clothed(d, p)' \/ c \in met \/ LeavesBare(c)'
    PROVE  BInv'
<1>1. call[c].pc = "format" /\ p <= Len(Wants(c)) /\ panic.why = "no" /\ Active(c)
  BY DEF Formatting, At, Active
<1>2. /\ call'[c].pc = "format" /\ call'[c].table = call[c].table
      /\ call'[c].req = call[c].req /\ call'[c].disk = call[c].disk
      /\ call'[c].part = p + 1 /\ call'[c].result = call[c].result /\ Only(c)
  BY <1>1, AdvanceDoes DEF BInv
<1>3. PICK k : k = call[c].disk
  OBVIOUS
<1>4. /\ k \in DOMAIN call[c].req /\ k \in Nat \ {0} /\ p \in Nat \ {0} /\ d \in Disk
      /\ call[c].req \in Requests \cup {<<>>}
      /\ Job(c) = call[c].req[k] /\ Wants(c) = call[c].req[k].parts
      /\ Len(Wants(c)) \in Nat /\ DOMAIN Wants(c) = 1..Len(Wants(c))
  BY <1>1, <1>3, JobOf DEF BInv
<1>5. Active(c)' /\ FreshPart(c)'
  BY <1>1, <1>2 DEF Active, FreshPart, BInv
<1>6. PlanPart(c)'
  <2>1. PlanPart(c) /\ Table(c)' = Table(c) /\ Job(c)' = Job(c)
    BY <1>2 DEF BInv, Table, Job
  <2> QED
    BY <1>1, <1>2, <2>1 DEF PlanPart
<1>7. ASSUME NEW j \in DOMAIN call[c].req, NEW n \in DOMAIN call[c].req[j].parts
      PROVE  /\ Touched(call'[c], j) /\ Touched(call[c], j)
             /\ Formed(call'[c], j, n) <=> (Formed(call[c], j, n) \/ (j = k /\ n = p))
  <2>1. n \in Nat
    <3>1. DOMAIN call[c].req[j].parts = 1..Len(call[c].req[j].parts)
          /\ Len(call[c].req[j].parts) \in Nat
      BY <1>4, RequestOf
    <3> QED
      BY <3>1
  <2>2. n < p + 1 <=> n < p \/ n = p
    <3>1. p \in Nat
      BY <1>4
    <3> QED
      BY <2>1, <3>1
  <2> QED
    BY <1>1, <1>2, <1>3, <2>2 DEF Touched, Formed
<1>8. DonePart(c)'
  <2>1. DonePart(c)
    BY DEF BInv
  <2>2. \A j, n, g : Sized(c, j, n, g)' <=> Sized(c, j, n, g)
    BY <1>2, SizedThen DEF Sized
  <2>3. ASSUME c \notin met, NEW j \in DOMAIN call[c].req, NEW n \in DOMAIN call[c].req[j].parts
        PROVE  /\ n \in DOMAIN layout[call[c].req[j].disk]
               /\ Sized(c, j, n, layout[call[c].req[j].disk][n])
    BY <1>1, <1>7, <2>1, <2>3 DEF DonePart
  <2>4. ASSUME c \notin met, NEW j \in DOMAIN call[c].req, NEW n \in DOMAIN call[c].req[j].parts,
               Formed(call'[c], j, n), call[c].req[j].parts[n].fs \in Formatted,
               NEW e, e = call[c].req[j].disk, NEW s, s = layout[e][n].start
        PROVE  Probed(e, s)' \in Made(call[c].req[j].parts[n].fs)
    <3>1. CASE j = k /\ n = p
      <4>1. call[c].req[j].parts[n] = Want(c) /\ e = d
        BY <1>4, <2>4, <3>1 DEF Want
      <4>2. Probed(d, layout[d][p].start)' \in Made(Want(c).fs)
        BY <2>4, <4>1
      <4>3. Probed(d, layout[d][p].start)' = Probed(e, s)'
        BY <2>4, <3>1, <4>1 DEF Probed
      <4> QED
        BY <4>1, <4>2, <4>3
    <3>2. CASE ~(j = k /\ n = p)
      <4>1. e \in Disk /\ (e = d => j = k)
        BY <1>1, <1>3, <1>4, <2>4, RequestOf, AtJob DEF BInv
      <4>2. n \in DOMAIN layout[e] /\ Formed(call[c], j, n)
        BY <1>7, <2>3, <2>4, <3>2
      <4>3. Probed(e, s)' = Probed(e, s)
        BY <2>4, <3>2, <4>1, <4>2
      <4>4. Probed(e, s) \in Made(call[c].req[j].parts[n].fs)
        BY <1>1, <2>1, <2>4, <4>2 DEF DonePart
      <4> QED
        BY <4>3, <4>4
    <3> QED
      BY <3>1, <3>2
  <2>5. \A j, n : Sized(c, j, n, layout[call[c].req[j].disk][n])' <=>
                  Sized(c, j, n, layout[call[c].req[j].disk][n])
    BY <1>2 DEF Sized, CloseTo, SizeMB
  <2>6. \A j, n, e, s : e = call[c].req[j].disk /\ s = layout[e][n].start =>
            Probed(call[c].req[j].disk, layout[call[c].req[j].disk][n].start)' = Probed(e, s)'
    BY <1>2 DEF Probed
  <2>7. ASSUME c \notin met, NEW j \in DOMAIN call[c].req, NEW n \in DOMAIN call[c].req[j].parts,
               Formed(call'[c], j, n), call[c].req[j].parts[n].fs \in Formatted
        PROVE  Probed(call[c].req[j].disk, layout[call[c].req[j].disk][n].start)'
                   \in Made(call[c].req[j].parts[n].fs)
    BY <2>4, <2>6, <2>7
  <2> QED
    BY <1>2, <2>3, <2>5, <2>7, DoneThen
<1>9. BarePart'
  <2>1. ASSUME NEW e \in Disk, NEW n \in DOMAIN layout[e], Bears(c, e, n)
        PROVE  Bears(c, e, n)' \/ Clothed(e, n)'
    <3>1. PICK j \in DOMAIN call[c].req :
              /\ call[c].req[j].disk = e /\ Touched(call[c], j)
              /\ \/ c \in met \/ LeavesBare(c)
                 \/ Active(c) /\ n \in DOMAIN call[c].req[j].parts /\ ~Formed(call[c], j, n)
      BY <2>1 DEF Bears
    <3>2. LeavesBare(c) => LeavesBare(c)'
      BY <1>2 DEF LeavesBare
    <3>3. j \in DOMAIN call'[c].req /\ call'[c].req[j].disk = e /\ Touched(call'[c], j)
      BY <1>1, <1>2, <3>1 DEF Touched
    <3>4. CASE c \in met \/ LeavesBare(c)'
      BY <3>3, <3>4 DEF Bears
    <3>5. CASE /\ c \notin met /\ ~LeavesBare(c)' /\ Active(c)
               /\ n \in DOMAIN call[c].req[j].parts /\ ~Formed(call[c], j, n)
      <4>1. CASE j = k /\ n = p
        BY <1>4, <3>1, <3>5, <4>1
      <4>2. CASE ~(j = k /\ n = p)
        BY <1>2, <1>5, <1>7, <3>3, <3>5, <4>2 DEF Bears
      <4> QED
        BY <4>1, <4>2
    <3> QED
      BY <3>1, <3>2, <3>4, <3>5
  <2> QED
    BY <1>2, <2>1, OneBare DEF BInv
<1>10. /\ squeezed' \subseteq Call \X Disk \X (Nat \ {0}) /\ panic'.why \in {"no", "full", "type"}
       /\ \A e \in Disk : WellFormed(layout'[e])
  BY <1>1 DEF BInv, TypeOK
<1>11. WellFormed(call'[c].table)
  BY <1>1, <1>2 DEF BInv, TypeOK, Table
<1> QED
  BY <1>1, <1>2, <1>5, <1>6, <1>8, <1>9, <1>10, <1>11, OneStep

\* Partitions of a well formed table begin at different sectors.
LEMMA StartsDiffer ==
    ASSUME NEW t, WellFormed(t), NEW m \in DOMAIN t, NEW n \in DOMAIN t, t[m].start = t[n].start
    PROVE  m = n
<1>1. /\ t[m].start \in Nat /\ t[m].end \in Nat /\ t[m].start <= t[m].end
      /\ t[n].start \in Nat /\ t[n].end \in Nat /\ t[n].start <= t[n].end
  BY BoundsOf
<1>2. m # n => t[m].end < t[n].start \/ t[n].end < t[m].start
  BY DEF WellFormed
<1> QED
  BY <1>1, <1>2

LEMMA MkfsBare ==
    ASSUME BInv, [Next]_vars, NEW c \in Call, Mkfs(c)
    PROVE  BInv'
<1>1. /\ Formatting(c) /\ Want(c).fs \in Formatted
      /\ Becomes(c, [call[c] EXCEPT !.part = @ + 1]) /\ UNCHANGED <<layout, panic, met, squeezed>>
  BY DEF Mkfs
<1>2. Active(c)
  BY <1>1 DEF Formatting, At, Active
<1>3. PICK d, p, w : d = Job(c).disk /\ p = call[c].part /\ w = Want(c).fs
  OBVIOUS
<1>4. PICK fs \in Made(w) : sig' = [sig EXCEPT ![d] = Begins(layout[d][p].start, fs, @)]
                            /\ p \in DOMAIN layout[d]
  BY <1>3 DEF Mkfs
<1>5. d \in Disk
  BY <1>2, <1>3, JobOf DEF BInv
<1>6. PICK s0 : s0 = layout[d][p].start
  OBVIOUS
<1>7. /\ sig' = [e \in Disk |-> sig'[e]] /\ sig'[d] = Begins(s0, fs, sig[d])
      /\ \A e \in Disk : e # d => sig'[e] = sig[e]
  <2>1. sig = [e \in Disk |-> sig[e]] /\ sig' = [sig EXCEPT ![d] = Begins(s0, fs, sig[d])]
    BY <1>4, <1>6 DEF BInv, Shapes
  <2> QED
    BY <1>5, <2>1
<1>8. DOMAIN sig'[d] = DOMAIN sig[d] \cup {s0}
      /\ \A s \in DOMAIN sig'[d] : sig'[d][s] = IF s = s0 THEN fs ELSE sig[d][s]
  BY <1>7 DEF Begins
<1>9. \A s : Probed(d, s)' = IF s = s0 THEN fs ELSE Probed(d, s)
  BY <1>8 DEF Probed
<1>10. \A e \in Disk : \A s : e # d => Probed(e, s)' = Probed(e, s)
  BY <1>7 DEF Probed
<1>11. fs # "none" /\ fs \in Signature
  BY <1>1, <1>3, <1>4 DEF Made, Formatted, Signature, Known
<1>12. \A e \in Disk : \A s \in DOMAIN sig'[e] : sig'[e][s] \in Signature
  BY <1>7, <1>8, <1>11 DEF BInv, TypeOK
<1>13. Shapes'
  BY <1>1, <1>7 DEF BInv, Shapes
<1>14. \A e \in Disk : \A s : Probed(e, s) # "none" => Probed(e, s)' # "none"
  BY <1>9, <1>10, <1>11
<1>15. Probed(d, layout[d][p].start)' = fs
  <2>1. layout' = layout
    BY <1>1
  <2> QED
    BY <1>6, <1>8, <2>1 DEF Probed
<1>16. ASSUME NEW e \in Disk, NEW n \in DOMAIN layout[e], e # d \/ n # p,
              NEW s, s = layout[e][n].start
       PROVE  Probed(e, s)' = Probed(e, s)
  <2>1. CASE e # d
    BY <1>10, <2>1
  <2>2. CASE e = d /\ n # p
    <3>1. WellFormed(layout[d])
      BY <1>5 DEF BInv, TypeOK
    <3>2. s # s0
      BY <1>4, <1>6, <1>16, <2>2, <3>1, StartsDiffer
    <3> QED
      BY <1>9, <2>2, <3>2
  <2> QED
    BY <1>16, <2>1, <2>2
<1>17. Clothed(d, p)'
  BY <1>11, <1>15 DEF Clothed
<1>18. Probed(d, layout[d][p].start)' \in Made(Want(c).fs)
  BY <1>3, <1>4, <1>15
<1>19. \A e \in Disk : \A n \in DOMAIN layout[e] : e # d \/ n # p =>
          \A s : s = layout[e][n].start /\ p \in DOMAIN layout[d] => Probed(e, s)' = Probed(e, s)
  BY <1>16
<1>20. /\ c \notin met /\ Want(c).fs \in Formatted =>
              Probed(d, layout[d][p].start)' \in Made(Want(c).fs)
       /\ c \notin met => p \in DOMAIN layout[d]
       /\ Clothed(d, p)' \/ c \in met \/ LeavesBare(c)'
  BY <1>4, <1>17, <1>18
<1> QED
  BY <1>1, <1>3, <1>12, <1>13, <1>14, <1>19, <1>20, FormatNext

LEMMA MkfsNothingBare ==
    ASSUME BInv, [Next]_vars, NEW c \in Call, MkfsNothing(c)
    PROVE  BInv'
<1>1. /\ Formatting(c) /\ Has(c) => Want(c).fs \notin Formatted
      /\ Becomes(c, [call[c] EXCEPT !.part = @ + 1])
      /\ UNCHANGED <<layout, sig, panic, met, squeezed>>
  BY DEF MkfsNothing
<1>2. Active(c) /\ call[c].pc = "format" /\ call[c].part <= Len(Wants(c)) /\ Formatting(c)
  BY DEF MkfsNothing, Formatting, At, Active
<1>3. PICK d, p, k : d = Job(c).disk /\ p = call[c].part /\ k = call[c].disk
  OBVIOUS
<1>4. /\ k \in DOMAIN call[c].req /\ p \in Nat \ {0} /\ d \in Disk
      /\ Job(c) = call[c].req[k] /\ Wants(c) = call[c].req[k].parts
      /\ Len(Wants(c)) \in Nat /\ DOMAIN Wants(c) = 1..Len(Wants(c))
  BY <1>2, <1>3, JobOf DEF BInv
<1>5. p \in DOMAIN Wants(c)
  BY <1>2, <1>3, <1>4
<1>6. ASSUME c \notin met PROVE p \in DOMAIN layout[d] /\ Has(c)
  <2>1. DonePart(c) /\ TablePart(c)
    BY DEF BInv, KInv
  <2>2. p \in DOMAIN layout[d]
    BY <1>2, <1>3, <1>4, <1>5, <1>6, <2>1 DEF DonePart, Touched
  <2> QED
    BY <1>2, <1>3, <1>6, <2>1, <2>2 DEF TablePart, Has
<1>7. Want(c).fs \notin Formatted \/ c \in met
  BY <1>1, <1>2, <1>6
<1>8. ASSUME Want(c).fs \notin Formatted PROVE LeavesBare(c)'
  <2>1. call'[c].req = call[c].req
    BY <1>1, AdvanceDoes DEF BInv
  <2>2. call[c].req[k].parts[p] = Want(c)
    BY <1>3, <1>4 DEF Want
  <2>3. p \in DOMAIN call[c].req[k].parts
    BY <1>4, <1>5
  <2> QED
    BY <1>4, <1>8, <2>1, <2>2, <2>3 DEF LeavesBare
<1>9. \A e, s : Probed(e, s)' = Probed(e, s)
  BY <1>1 DEF Probed
<1>10. /\ Shapes' /\ \A e \in Disk : \A s \in DOMAIN sig'[e] : sig'[e][s] \in Signature
  BY <1>1 DEF BInv, Shapes, TypeOK
<1> QED
  BY <1>1, <1>2, <1>3, <1>6, <1>7, <1>8, <1>9, <1>10, FormatNext

\* The table that a call that runs alone writes again is what is there.
LEMMA RecommitSame ==
    ASSUME BInv, NEW c \in Call, Recommit(c), c \notin met
    PROVE  \A e \in Disk : /\ DOMAIN layout'[e] = DOMAIN layout[e]
                           /\ \A n \in DOMAIN layout[e] : layout'[e][n] = layout[e][n]
<1>1. PICK d : d = Job(c).disk
  OBVIOUS
<1>2. call[c].pc = "format" /\ Write(c) /\ Active(c)
  BY DEF Recommit, Done, At, Active
<1>3. /\ \A e \in Disk : e # d => layout'[e] = layout[e]
      /\ layout'[d] = [n \in DOMAIN Table(c) |-> Geo(Table(c)[n])]
  BY <1>1, <1>2, WriteKeeps DEF BInv
<1>4. PlanPart(c) /\ TablePart(c)
  BY DEF BInv, KInv
<1>5. \A n \in DOMAIN layout[d] : n \in DOMAIN Table(c) /\ Geo(Table(c)[n]) = layout[d][n]
  BY <1>1, <1>2, <1>4 DEF TablePart
<1>6. DOMAIN Table(c) \subseteq DOMAIN layout[d]
  BY <1>1, <1>2, <1>4 DEF PlanPart
<1>7. DOMAIN layout'[d] = DOMAIN Table(c) /\ \A n \in DOMAIN Table(c) : layout'[d][n] = Geo(Table(c)[n])
  BY <1>3
<1>8. DOMAIN layout'[d] = DOMAIN layout[d] /\ \A n \in DOMAIN layout[d] : layout'[d][n] = layout[d][n]
  BY <1>5, <1>6, <1>7
<1> QED
  BY <1>3, <1>8

LEMMA RecommitBare ==
    ASSUME BInv, [Next]_vars, NEW c \in Call, Recommit(c)
    PROVE  BInv'
<1>1. PICK k, p, d : k = call[c].disk /\ p = call[c].part /\ d = Job(c).disk
  OBVIOUS
<1>2. /\ call[c].pc = "format" /\ p > Len(Wants(c)) /\ Write(c)
      /\ \/ /\ call'[c].pc = "reopen" /\ call'[c].disk = k + 1
            /\ call'[c].result = call[c].result
         \/ /\ call'[c].pc = "done" /\ call'[c].result = "ok"
            /\ ~(k < Len(call[c].req))
      /\ call'[c].req = call[c].req /\ (call'[c].pc # "done" => call'[c].table = call[c].table)
      /\ Only(c) /\ UNCHANGED <<sig, panic, met, squeezed>>
  BY <1>1, RecommitDoes DEF BInv
<1>3. Active(c) /\ panic.why = "no"
  BY <1>2 DEF Active, Recommit, Done, At
<1>4. /\ k \in DOMAIN call[c].req /\ k \in Nat \ {0} /\ p \in Nat \ {0} /\ d \in Disk
      /\ call[c].req \in Requests \cup {<<>>}
      /\ Job(c) = call[c].req[k] /\ Wants(c) = call[c].req[k].parts
      /\ Len(Wants(c)) \in Nat /\ DOMAIN Wants(c) = 1..Len(Wants(c))
  BY <1>1, <1>3, JobOf DEF BInv
<1>5. \A e \in Disk : e # d => layout'[e] = layout[e]
  BY <1>1, <1>2, <1>3, WriteKeeps DEF BInv
<1>6. ASSUME c \notin met
      PROVE  \A e \in Disk : /\ DOMAIN layout'[e] = DOMAIN layout[e]
                             /\ \A n \in DOMAIN layout[e] : layout'[e][n] = layout[e][n]
  BY <1>6, RecommitSame
<1>7. FreshPart(c)' /\ PlanPart(c)'
  BY <1>2, <1>3 DEF FreshPart, PlanPart, BInv, Active
<1>8. ASSUME NEW j \in DOMAIN call[c].req
      PROVE  /\ Touched(call'[c], j) /\ Touched(call[c], j)
             /\ \A n \in DOMAIN call[c].req[j].parts :
                   /\ call'[c].pc = "reopen" => (Formed(call'[c], j, n) <=> Formed(call[c], j, n))
                   /\ call'[c].pc = "done" => Formed(call[c], j, n)
  <2>1. /\ j \in Nat /\ j <= Len(call[c].req) /\ Len(call[c].req) \in Nat
        /\ \A n \in DOMAIN call[c].req[j].parts : n \in Nat /\ (j = k => n < p)
    <3>1. \A n \in DOMAIN call[c].req[j].parts : n \in 1..Len(call[c].req[j].parts)
      BY <1>4, RequestOf
    <3>2. Len(call[c].req[j].parts) \in Nat
      BY <1>4, RequestOf
    <3>3. j \in Nat /\ j <= Len(call[c].req) /\ Len(call[c].req) \in Nat
      BY <1>3, <1>4, RequestOf, RequestIs DEF BInv
    <3> QED
      BY <1>2, <1>4, <3>1, <3>2, <3>3
  <2>2. Touched(call'[c], j) /\ Touched(call[c], j)
    BY <1>2 DEF Touched
  <2>3. ASSUME NEW n \in DOMAIN call[c].req[j].parts PROVE Formed(call[c], j, n) <=> j <= k
    BY <1>1, <1>2, <1>4, <2>1 DEF Formed
  <2>4. ASSUME NEW n, call'[c].pc = "reopen" PROVE Formed(call'[c], j, n) <=> j < k + 1
    BY <1>2, <2>4 DEF Formed
  <2>5. (j <= k <=> j < k + 1) /\ (~(k < Len(call[c].req)) => j <= k)
    BY <1>4, <2>1
  <2> QED
    BY <1>2, <2>2, <2>3, <2>4, <2>5
<1>9. DonePart(c)'
  <2>1. CASE call'[c].pc = "done"
    BY <2>1 DEF DonePart, Active
  <2>2. CASE call'[c].pc = "reopen"
    <3>1. DonePart(c)
      BY DEF BInv
    <3>2. ASSUME c \notin met, NEW j \in DOMAIN call[c].req, NEW n \in DOMAIN call[c].req[j].parts
          PROVE  /\ n \in DOMAIN layout'[call[c].req[j].disk]
                 /\ Sized(c, j, n, layout[call[c].req[j].disk][n])'
                 /\ Formed(call'[c], j, n) /\ call[c].req[j].parts[n].fs \in Formatted =>
                       Probed(call[c].req[j].disk, layout[call[c].req[j].disk][n].start)'
                           \in Made(call[c].req[j].parts[n].fs)
      <4>1. PICK e : e = call[c].req[j].disk
        OBVIOUS
      <4>2. e \in Disk
        BY <1>4, <4>1, RequestOf
      <4>3. /\ n \in DOMAIN layout[e] /\ Sized(c, j, n, layout[e][n])
            /\ Formed(call[c], j, n) /\ call[c].req[j].parts[n].fs \in Formatted =>
                  Probed(e, layout[e][n].start) \in Made(call[c].req[j].parts[n].fs)
        BY <1>3, <1>8, <3>1, <3>2, <4>1 DEF DonePart
      <4>4. n \in DOMAIN layout'[e] /\ layout'[e][n] = layout[e][n]
        BY <1>6, <3>2, <4>2, <4>3
      <4>5. Sized(c, j, n, layout[e][n])' <=> Sized(c, j, n, layout[e][n])
        BY <1>2, <4>4 DEF Sized, CloseTo, SizeMB
      <4>6. Probed(e, layout[e][n].start)' = Probed(e, layout[e][n].start)
        BY <1>2, <4>4 DEF Probed
      <4>7. /\ Sized(c, j, n, layout[call[c].req[j].disk][n])' <=> Sized(c, j, n, layout[e][n])'
            /\ Probed(call[c].req[j].disk, layout[call[c].req[j].disk][n].start)' =
                   Probed(e, layout[e][n].start)'
        BY <1>2, <4>1 DEF Sized, CloseTo, SizeMB, Probed
      <4> QED
        BY <1>8, <2>2, <4>1, <4>3, <4>4, <4>5, <4>6, <4>7
    <3> QED
      BY <1>2, <3>2, DoneThen
  <2> QED
    BY <1>2, <2>1, <2>2
<1>10. BarePart'
  <2>1. ASSUME NEW e \in Disk, NEW n, Bears(c, e, n) PROVE Bears(c, e, n)'
    <3>1. PICK j \in DOMAIN call[c].req :
              /\ call[c].req[j].disk = e
              /\ \/ c \in met \/ LeavesBare(c)
                 \/ n \in DOMAIN call[c].req[j].parts /\ ~Formed(call[c], j, n)
      BY <2>1 DEF Bears
    <3>2. LeavesBare(c) => LeavesBare(c)'
      BY <1>2, <1>3 DEF LeavesBare, BInv, FreshPart, Active
    <3>3. n \in DOMAIN call[c].req[j].parts /\ ~Formed(call[c], j, n) =>
              Active(c)' /\ n \in DOMAIN call'[c].req[j].parts /\ ~Formed(call'[c], j, n)
      BY <1>2, <1>8 DEF Active
    <3>4. Touched(call'[c], j) /\ j \in DOMAIN call'[c].req /\ call'[c].req[j].disk = e
      BY <1>2, <1>8, <3>1
    <3> QED
      BY <1>2, <3>1, <3>2, <3>3, <3>4 DEF Bears
  <2>2. ASSUME NEW e \in Disk, NEW n \in DOMAIN layout'[e]
        PROVE  \/ Bears(c, e, n)'
               \/ n \in DOMAIN layout[e] /\ layout'[e][n] = layout[e][n] /\ ~Bears(c, e, n)
    <3>1. CASE c \in met /\ e = d
      <4>1. /\ k \in DOMAIN call'[c].req /\ call'[c].req[k].disk = e /\ Touched(call'[c], k)
            /\ c \in met'
        BY <1>1, <1>2, <1>4, <1>8, <3>1
      <4> QED
        BY <4>1 DEF Bears
    <3>2. CASE c \notin met \/ e # d
      BY <1>5, <1>6, <2>1, <3>2
    <3> QED
      BY <3>1, <3>2
  <2>3. \A e \in Disk : \A s : Probed(e, s) # "none" => Probed(e, s)' # "none"
    BY <1>2 DEF Probed
  <2> QED
    BY <1>2, <2>2, <2>3, OneBare DEF BInv
<1>11. \A e \in Disk : WellFormed(layout'[e])
  BY <1>2, <1>3, WriteFormed
<1>12. call'[c].pc # "done" => WellFormed(call'[c].table)
  BY <1>2, <1>3 DEF BInv, TypeOK, Table
<1>13. /\ Shapes' /\ panic'.why \in {"no", "full", "type"}
       /\ squeezed' \subseteq Call \X Disk \X (Nat \ {0})
       /\ \A e \in Disk : \A s \in DOMAIN sig'[e] : sig'[e][s] \in Signature
  BY <1>2, <1>3 DEF BInv, Shapes, TypeOK
<1> QED
  BY <1>2, <1>3, <1>7, <1>9, <1>10, <1>11, <1>12, <1>13, OneStep

LEMMA RestartBare ==
    ASSUME BInv, Restart
    PROVE  BInv'
<1>1. UNCHANGED <<layout, sig, met, squeezed>> /\ panic' = [panic EXCEPT !.why = "no"]
  BY DEF Restart
<1>2. ASSUME NEW c \in Call
      PROVE  /\ Active(c) => /\ call'[c].pc = "done" /\ call'[c].result = "lost"
                             /\ call'[c].req = call[c].req
             /\ ~Active(c) => call'[c] = call[c]
  BY RestartDoes DEF BInv
<1>3. \A c \in Call : ~Active(c)'
  BY <1>2 DEF Active
<1>4. KInv'
  BY RestartStep DEF BInv
<1>5. panic'.why = "no" /\ Shapes'
  <2>1. panic' = [why |-> "no", call |-> panic.call]
    BY <1>1 DEF BInv, Shapes
  <2> QED
    BY <1>1, <2>1 DEF BInv, Shapes
<1>6. TypeOK'
  <2> QED
    BY <1>1, <1>3, <1>5, TypeThen DEF BInv, TypeOK, Causes
<1>7. ASSUME NEW c \in Call PROVE FreshPart(c)' /\ PlanPart(c)' /\ DonePart(c)'
  BY <1>2, <1>3, <1>7 DEF FreshPart, PlanPart, DonePart, BInv, Active
<1>8. BarePart'
  <2>1. ASSUME NEW b \in Call, NEW d, NEW n, Bears(b, d, n) PROVE Bears(b, d, n)'
    <3>1. CASE Active(b)
      <4>1. PICK k \in DOMAIN call[b].req : call[b].req[k].disk = d
        BY <2>1 DEF Bears
      <4> QED
        BY <1>2, <3>1, <4>1, CutBears
    <3>2. CASE ~Active(b)
      BY <1>1, <1>2, <2>1, <3>2, OthersBear
    <3> QED
      BY <3>1, <3>2
  <2>2. \A d, n : Clothed(d, n) => Clothed(d, n)'
    BY <1>1 DEF Clothed, Probed
  <2> QED
    BY <1>1, <2>1, <2>2 DEF BInv, BarePart
<1>9. BareNeedsUnfinished'
  BY <1>5 DEF BareNeedsUnfinished
<1> QED
  BY <1>4, <1>5, <1>6, <1>7, <1>8, <1>9 DEF BInv

LEMMA BeginBare ==
    ASSUME BInv, NEW c \in Call, FormatDisks(c)
    PROVE  BInv'
<1>1. /\ call[c].pc = "new" /\ call'[c].pc = "open" /\ call'[c].disk = 1
      /\ call'[c].table = call[c].table /\ call'[c].result = call[c].result /\ Only(c)
      /\ met \subseteq met' /\ met' \subseteq met \cup Call
  BY BeginDoes DEF BInv
<1>2. UNCHANGED <<layout, sig, panic, squeezed>> /\ panic.why = "no"
  BY DEF FormatDisks, At
<1>3. KInv'
  BY BeginStep DEF BInv
<1>4. call[c].table = <<>> /\ call[c].result = "none"
  BY <1>1 DEF BInv, FreshPart
<1>5. TypeOK'
  <2>2. ASSUME NEW b \in Call, Active(b)' PROVE WellFormed(Table(b)')
    <3>1. CASE b = c
      BY <1>1, <1>4, <3>1, EmptyFormed DEF Table
    <3>2. CASE b # c
      BY <1>1, <2>2, <3>2 DEF BInv, TypeOK, Active, Table, Only
    <3> QED
      BY <3>1, <3>2
  <2> QED
    BY <1>1, <1>2, TypeThen, <2>2 DEF BInv, TypeOK
<1>6. Shapes' /\ BareNeedsUnfinished'
  BY <1>2 DEF BInv, Shapes, BareNeedsUnfinished
<1>7. ASSUME NEW j \in DOMAIN call'[c].req PROVE ~(j < 1)
  <2>1. call'[c].req \in Requests \cup {<<>>}
    BY <1>3 DEF KInv, Shaped, Locals
  <2> QED
    BY <2>1, RequestOf
<1>8. FreshPart(c)' /\ PlanPart(c)' /\ DonePart(c)'
  <2>1. \A j \in DOMAIN call'[c].req : ~Touched(call'[c], j) /\ \A n : ~Formed(call'[c], j, n)
    BY <1>1, <1>7 DEF Touched, Formed
  <2>2. DonePart(c)'
    BY <2>1 DEF DonePart
  <2> QED
    BY <1>1, <1>4, <2>2 DEF FreshPart, PlanPart
<1>9. ASSUME NEW b \in Call, b # c PROVE FreshPart(b)' /\ PlanPart(b)' /\ DonePart(b)'
  <2>1. call'[b] = call[b] /\ FreshPart(b) /\ PlanPart(b) /\ DonePart(b)
    BY <1>1, <1>9 DEF BInv, Only
  <2>2. \A k, n, g : Sized(b, k, n, g)' <=> Sized(b, k, n, g)
    BY <1>2, <2>1 DEF Sized, CloseTo, SizeMB
  <2>3. \A d, n : AsRead(d, n)' = AsRead(d, n)
    BY <1>2 DEF AsRead, Probed
  <2>4. Wants(b)' = Wants(b) /\ Table(b)' = Table(b) /\ Job(b)' = Job(b)
    BY <2>1 DEF Wants, Table, Job
  <2>5. PlanPart(b)'
    BY <1>1, <1>2, <2>1, <2>2, <2>3, <2>4 DEF PlanPart
  <2>6. \A d, s : Probed(d, s)' = Probed(d, s)
    BY <1>2 DEF Probed
  <2>7. DonePart(b)'
    BY <1>1, <1>2, <2>1, <2>2, <2>6 DEF DonePart, Active
  <2> QED
    BY <2>1, <2>5, <2>7 DEF FreshPart
<1>10. BarePart'
  <2>1. ASSUME NEW d, NEW n, Bears(c, d, n) PROVE FALSE
    <3>1. PICK k \in DOMAIN call[c].req : Touched(call[c], k)
      BY <2>1 DEF Bears
    <3>2. call[c].disk = 1 /\ call[c].req \in Requests \cup {<<>>}
      BY <1>1 DEF BInv, KInv, Shaped, Locals
    <3>3. ~(k < 1)
      BY <3>2, RequestOf
    <3> QED
      BY <1>1, <3>1, <3>2, <3>3 DEF Touched
  <2>2. \A d \in Disk : \A s : Probed(d, s) # "none" => Probed(d, s)' # "none"
    BY <1>2 DEF Probed
  <2> QED
    BY <1>1, <1>2, <2>1, <2>2, OneBare DEF BInv
<1> QED
  BY <1>3, <1>5, <1>6, <1>8, <1>9, <1>10 DEF BInv

LEMMA BStep == BInv /\ [Next]_vars => BInv'
<1> SUFFICES ASSUME BInv, [Next]_vars PROVE BInv'
  OBVIOUS
<1>1. CASE UNCHANGED vars
  <2>1. UNCHANGED <<layout, sig, call, panic, met, squeezed>>
    BY <1>1 DEF vars
  <2>2. KInv' /\ \A c \in Call : FreshPart(c)' /\ PlanPart(c)' /\ DonePart(c)'
    BY <2>1, KStep, Still DEF BInv
  <2>3. BarePart' /\ Shapes' /\ BareNeedsUnfinished'
    BY <2>1, Still DEF BInv, Shapes, BareNeedsUnfinished, Found, Table, LeavesBare
  <2>4. TypeOK'
    BY <2>1 DEF BInv, TypeOK, Active, Table, WellFormed, Geometry, Geo
  <2> QED
    BY <2>2, <2>3, <2>4 DEF BInv
<1>2. CASE Restart
  BY <1>2, RestartBare
<1>3. ASSUME NEW c \in Call,
             \/ FormatDisks(c) \/ NoDevice(c) \/ Open(c) \/ Plan(c)
             \/ Commit(c) \/ CommitError(c) \/ Format(c) \/ Recommit(c)
      PROVE  BInv'
  <2>1. CASE NoDevice(c)
    BY <2>1, FailStep DEF NoDevice, At, Active
  <2>2. CASE CommitError(c)
    BY <2>2, FailStep DEF CommitError, Planned, Done, At, Active
  <2>3. CASE Plan(c)
    BY <2>3, CreateBare, KeepBare, BareBare, DeleteBare DEF Plan
  <2>4. CASE MkfsError(c)
    BY <2>4, FailStep DEF MkfsError, Formatting, At, Active
  <2>5. CASE Format(c)
    BY <2>4, <2>5, MkfsBare, MkfsNothingBare DEF Format
  <2> QED
    BY <1>3, <2>1, <2>2, <2>3, <2>5, BeginBare, OpenBare, CommitBare, RecommitBare
<1> QED
  BY <1>1, <1>2, <1>3 DEF Next

\* The strengthening: what FormatDisks has done so far, and what it may have left undone.
THEOREM BInvariant == Spec => []BInv
BY BInit, BStep, PTL DEF Spec

\* The tables, on the medium and in memory, are tables that libparted can make: their
\* partitions are on the disk and do not overlap.
THEOREM TypeCorrect == Spec => []TypeOK
<1>1. BInv => TypeOK
  BY DEF BInv
<1> QED
  BY <1>1, BInvariant, PTL

(***************************************************************************)
(* A call of MaintenanceService.FormatDisks that runs alone ends the       *)
(* daemon by GetFSType on a partition without file system only if another  *)
(* system left it so, or a call that failed, was interrupted, asked for a  *)
(* type that is not formatted, or ran while another did.                   *)
(***************************************************************************)
THEOREM BareUnfinished == Spec => []BareNeedsUnfinished
<1>1. BInv => BareNeedsUnfinished
  BY DEF BInv
<1> QED
  BY <1>1, BInvariant, PTL

\* The step that answers "ok" is the commit of the last disk's table.
LEMMA OkIsRecommit ==
    ASSUME BInv, [Next]_vars, NEW c \in Call, call[c].result = "none", call'[c].result = "ok"
    PROVE  Recommit(c)
<1>1. KInv /\ call' # call
  BY DEF BInv
<1>2. CASE UNCHANGED vars
  BY <1>1, <1>2 DEF vars
<1>3. CASE Restart
  BY <1>1, <1>3, RestartDoes
<1>4. ASSUME NEW a \in Call,
             \/ FormatDisks(a) \/ NoDevice(a) \/ Open(a) \/ Plan(a)
             \/ Commit(a) \/ CommitError(a) \/ Format(a) \/ Recommit(a)
      PROVE  Recommit(c)
  <2>1. ASSUME Only(a), call'[a].result \in {call[a].result, "error"} PROVE FALSE
    BY <2>1 DEF Only
  <2>2. ASSUME Fail(a) PROVE FALSE
    BY <1>1, <2>1, <2>2, FailDoes
  <2>3. CASE FormatDisks(a)
    BY <1>1, <2>1, <2>3, BeginDoes
  <2>4. CASE NoDevice(a) \/ CommitError(a) \/ MkfsError(a)
    BY <2>2, <2>4 DEF NoDevice, CommitError, MkfsError
  <2>5. CASE Open(a)
    BY <1>1, <2>1, <2>5, OpenDoes
  <2>6. CASE Becomes(a, [call[a] EXCEPT !.part = @ + 1])
    BY <1>1, <2>1, <2>6, AdvanceDoes
  <2>7. ASSUME NEW t, Make(a, t) PROVE FALSE
    <3>1. CASE Becomes(a, [call[a] EXCEPT !.table = MkPart(t, Want(a)), !.part = @ + 1])
      BY <1>1, <2>1, <3>1, FillDoes
    <3> QED
      BY <1>1, <2>2, <2>7, <3>1 DEF Make, Panic
  <2>8. CASE Plan(a)
    BY <1>1, <2>2, <2>6, <2>7, <2>8 DEF Plan, Create, Keep, Bare, Delete, Panic
  <2>9. CASE Format(a)
    BY <2>4, <2>6, <2>9 DEF Format, Mkfs, MkfsNothing
  <2>10. CASE Commit(a)
    BY <1>1, <2>1, <2>10, CommitDoes
  <2>11. CASE Recommit(a)
    <3>1. Only(a)
      BY <1>1, <2>11, RecommitDoes
    <3>2. a = c
      BY <3>1 DEF Only
    <3> QED
      BY <2>11, <3>2
  <2> QED
    BY <1>4, <2>3, <2>4, <2>5, <2>8, <2>9, <2>10, <2>11
<1> QED
  BY <1>2, <1>3, <1>4 DEF Next

\* By then it has been through all of its request.
LEMMA OkHasAll ==
    ASSUME BInv, NEW c \in Call \ met, Recommit(c), call[c].result = "none", call'[c].result = "ok",
           NEW k \in DOMAIN call[c].req, NEW n \in DOMAIN call[c].req[k].parts
    PROVE  Provided(c, call[c].req[k].parts[n], call[c].req[k].disk, n)'
<1>1. /\ call[c].pc = "format" /\ call[c].part > Len(Wants(c))
      /\ ~(call[c].disk < Len(call[c].req)) /\ call'[c].req = call[c].req
      /\ UNCHANGED <<sig, squeezed>> /\ Active(c)
  BY RecommitDoes DEF BInv, Active
<1>2. PICK e, want : e = call[c].req[k].disk /\ want = call[c].req[k].parts[n]
  OBVIOUS
<1>3. call[c].req \in Requests \cup {<<>>} /\ e \in Disk
  BY <1>2, ReqOf, RequestOf DEF BInv
<1>4. Formed(call[c], k, n) /\ Touched(call[c], k)
  <2>1. /\ k \in Nat /\ k <= Len(call[c].req) /\ Len(call[c].req) \in Nat /\ call[c].disk \in Nat
    BY <1>1, <1>3, RequestOf, RequestIs DEF BInv
  <2>2. k < call[c].disk \/ k = call[c].disk
    BY <1>1, <2>1
  <2>3. k = call[c].disk => n \in 1..Len(Wants(c)) /\ Len(Wants(c)) \in Nat
    BY <1>1, JobOf DEF BInv
  <2>4. k = call[c].disk => n < call[c].part
    <3>1. call[c].part \in Nat
      BY <1>1, JobOf DEF BInv
    <3> QED
      BY <1>1, <2>3, <3>1
  <2> QED
    BY <1>1, <2>2, <2>4 DEF Formed, Touched
<1>5. /\ n \in DOMAIN layout[e] /\ Sized(c, k, n, layout[e][n])
      /\ want.fs \in Formatted => Probed(e, layout[e][n].start) \in Made(want.fs)
  BY <1>1, <1>2, <1>4 DEF BInv, DonePart
<1>6. n \in DOMAIN layout'[e] /\ layout'[e][n] = layout[e][n]
  BY <1>3, <1>5, RecommitSame
<1>7. CloseTo(layout'[e][n], want) \/ <<c, e, n>> \in squeezed'
  BY <1>1, <1>2, <1>5, <1>6 DEF Sized
<1>8. want.fs \in Formatted => Probed(e, layout[e][n].start)' \in Made(want.fs)
  <2>1. Probed(e, layout[e][n].start)' = Probed(e, layout[e][n].start)
    BY <1>1, <1>6 DEF Probed
  <2> QED
    BY <1>5, <2>1
<1>9. call'[c].req[k].parts[n] = want /\ call'[c].req[k].disk = e
  BY <1>1, <1>2
<1>10. Provided(c, call[c].req[k].parts[n], call[c].req[k].disk, n)' <=>
         /\ n \in DOMAIN layout'[e]
         /\ CloseTo(layout'[e][n], want) \/ <<c, e, n>> \in squeezed'
         /\ want.fs \in Formatted => Probed(e, layout[e][n].start)' \in Made(want.fs)
  BY <1>9 DEF Provided, CloseTo, SizeMB, Probed, Made
<1> QED
  BY <1>6, <1>7, <1>8, <1>10

(***************************************************************************)
(* A client whose call ran alone and answered "ok" has every partition it  *)
(* asked for, formatted, of its size to 2 MB unless libparted squeezed it: *)
(* what MaintenanceService.FormatDisks promises, over both of its loops.   *)
(***************************************************************************)
THEOREM OkProvided == Spec => OkMeansProvided
<1>1. BInv /\ [Next]_vars =>
        [\A c \in Call \ met : call[c].result = "none" /\ call'[c].result = "ok" =>
            \A k \in DOMAIN call[c].req :
                \A n \in DOMAIN call[c].req[k].parts :
                    Provided(c, call[c].req[k].parts[n], call[c].req[k].disk, n)']_vars
  BY OkIsRecommit, OkHasAll
<1> QED
  BY <1>1, BInvariant, PTL DEF Spec, OkMeansProvided
================================================================================
