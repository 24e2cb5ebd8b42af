--------------------------- MODULE MaintenanceProofs ---------------------------
(***************************************************************************)
(* For any number of ApplyImage and BCDFix calls, partitions and formats:  *)
(* what an image or a store reported as done is worth, who removes a       *)
(* temporary mount, and what a call may unmount that is not its own.       *)
(***************************************************************************)
EXTENDS Maintenance, TLAPS

USE MountAssumption, ApplyAssumption, FixAssumption, MaintenanceAssumption

Owning == {"extract", "fill", "send", "sendErr", "unmount"}

\* What an ApplyImage call has on its own directory, and what it has chosen.
OwnPart(j) ==
    /\ apply[j].pc \notin {"select", "done"} => apply[j].writer = "none"
    /\ apply[j].writer \in {"wimapply", "extract", "fill", "send", "sendErr"} =>
           apply[j].pc = "select"
    /\ apply[j].writer \in {"none", "wimapply"} => mnt[j] = NoPart
    /\ mnt[j] # NoPart => apply[j].broken \/ apply[j].writer \in Owning
    /\ Target(j) = NoPart =>
           apply[j].pc \in {"new", "done"} /\ apply[j].writer = "none" /\ apply[j].result # "ok"
    /\ apply[j].pc = "new" => Target(j) = NoPart
    /\ apply[j].pc \in {"new", "wimapply", "open", "check"} => ~apply[j].raced
    /\ apply[j].pc \in {"mkfs", "mount", "umount", "check"} => apply[j].fs # "none"
    /\ apply[j].pc # "done" => apply[j].result = "none"

\* What it found in the mount table and will unmount: a directory mounts one
\* partition in its time, so this one is the call's or is unmounted already.
FoundPart(j) ==
    /\ apply[j].pc = "umount" => apply[j].found \in Dir
    /\ apply[j].pc = "umount" /\ ~apply[j].raced =>
        /\ mnt[apply[j].found] \in {Target(j), NoPart}
        /\ apply[j].found \in Applies => apply[apply[j].found].writer # "none"
        /\ apply[j].found \in Fixes => fix[apply[j].found].pc # "new"

\* What of the image is on the partition while nobody disturbs it.
ImagePart(j) ==
    /\ ~apply[j].hidden /\ apply[j].writer = "sendErr" => apply[j].errno
    /\ apply[j].fs # "other" /\ ~apply[j].hidden /\ ~Disturbed(j) =>
        /\ apply[j].writer \in {"extract", "fill"} => mnt[j] = Target(j)
        /\ apply[j].writer = "fill" => part[Target(j)].content = [by |-> j, whole |-> FALSE]
        /\ apply[j].writer = "send" \/ apply[j].result = "ok" =>
               part[Target(j)].content = [by |-> j, whole |-> TRUE]

\* The two mounts of a BCDFix call; the inner one holds the outer.
StorePart(j) ==
    /\ fix[j].pc = "new" => mnt[j] = NoPart /\ fix[j].result = "none"
    /\ mnt[j] # NoPart => fix[j].left \/ fix[j].pc \in {"find", "walk", "leaveBcd", "leaveEsp"}
    /\ fix[j].pc \in {"find", "walk", "leaveBcd"} => fix[j].esp \in Part
    /\ fix[j].pc = "find" => mnt[j] \in {fix[j].esp, NoPart} /\ fix[j].result = "none"
    /\ fix[j].pc \in {"walk", "leaveBcd"} => j \in pinned /\ mnt[j] = fix[j].esp
    /\ fix[j].pc = "walk" => fix[j].result = "none"
    /\ fix[j].pc = "leaveBcd" /\ fix[j].result = "ok" => part[fix[j].esp].bcd = "fixed"

MInv ==
    /\ TypeOK
    /\ \A j \in Applies : OwnPart(j) /\ FoundPart(j) /\ ImagePart(j)
    /\ \A j \in Fixes : StorePart(j)
--------------------------------------------------------------------------------
\* What a step of the ApplyImage call j may do to the table: other mounts go only
\* through the umount it found, other partitions stay, and so does a mounted store.
TableStep(j) ==
    /\ UNCHANGED <<fix, formats, touched, pinned>>
    /\ part' \in [Part -> [fs : FsType, content : Content, bcd : Store]]
    /\ mnt' \in [Dir -> Part \cup {NoPart}] /\ held' \subseteq Part
    /\ \A d \in Dir \ {j} : \/ mnt'[d] = mnt[d]
                            \/ /\ mnt'[d] = NoPart /\ d \notin pinned
                               /\ apply[j].pc = "umount" /\ apply[j].found = d
    /\ \A p \in Part : p # Target(j) => part'[p] = part[p]
    /\ \A p \in Part : MountsOf(p) # {} => part'[p].bcd = part[p].bcd

\* A step of one ApplyImage call: what is left to show of the call itself.
LEMMA OneApply ==
    ASSUME MInv, NEW j \in Applies, NEW s \in ApplyState,
           apply' = [apply EXCEPT ![j] = s], crashed' \in BOOLEAN,
           s.pc \notin {"new", "done"} => s.part \in Part,
           TableStep(j), apply[j].raced => s.raced,
           Target(j) # NoPart => s.part = Target(j),
           apply[j].writer # "none" => s.writer # "none" /\ mnt'[j] \in {mnt[j], NoPart},
           OwnPart(j)', FoundPart(j)', ImagePart(j)'
    PROVE  MInv'
<1>1. /\ apply \in [Applies -> ApplyState] /\ apply'[j] = s
      /\ \A k \in Applies : k # j => apply'[k] = apply[k]
  BY DEF MInv, TypeOK, ApplyTypeOK
<1>2. /\ mnt \in [Dir -> Part \cup {NoPart}] /\ touched \subseteq Part
      /\ Applies \subseteq Dir /\ Fixes \subseteq Dir /\ j \notin Fixes
      /\ \A k \in Applies : Target(k) \in Part \cup {NoPart}
      /\ part \in [Part -> [fs : FsType, content : Content, bcd : Store]]
  BY <1>1 DEF MInv, TypeOK, TableTypeOK, Dir, ApplyState, Target
<1> USE DEF TableStep
<1>3. TypeOK'
  <2>1. apply' \in [Applies -> ApplyState]
    BY <1>1
  <2>2. \A k \in Applies : apply'[k].pc \notin {"new", "done"} => apply'[k].part \in Part
    BY <1>1 DEF MInv, TypeOK, ApplyTypeOK
  <2>3. TableTypeOK' /\ FixTypeOK' /\ formats' \in 0..MaxFormats /\ touched' \subseteq Part
    BY DEF MInv, TypeOK, TableTypeOK, FixTypeOK
  <2> QED
    BY <2>1, <2>2, <2>3 DEF TypeOK, ApplyTypeOK
<1>4. ASSUME NEW k \in Applies, k # j PROVE OwnPart(k)'
  <2>1. apply'[k] = apply[k] /\ OwnPart(k) /\ (mnt'[k] = mnt[k] \/ mnt'[k] = NoPart)
    BY <1>1, <1>2, <1>4 DEF MInv
  <2> QED
    BY <2>1 DEF OwnPart, Target
<1>5. ASSUME NEW k \in Applies, k # j PROVE FoundPart(k)'
  <2> SUFFICES ASSUME apply[k].pc = "umount", ~apply[k].raced PROVE FoundPart(k)'
    BY <1>1, <1>5 DEF MInv, FoundPart
  <2> DEFINE d == apply[k].found
  <2>1. /\ apply'[k] = apply[k] /\ d \in Dir /\ mnt[d] \in {Target(k), NoPart}
        /\ d \in Applies => apply[d].writer # "none"
        /\ d \in Fixes => fix[d].pc # "new"
    BY <1>1, <1>5 DEF MInv, FoundPart
  <2>2. d \in Applies => apply'[d].writer # "none"
    BY <1>1, <2>1
  <2>3. mnt'[d] \in {mnt[d], NoPart}
    BY <1>2, <2>1
  <2> QED
    BY <1>1, <1>5, <2>1, <2>2, <2>3 DEF FoundPart, Target
<1>6. ASSUME NEW k \in Applies, k # j PROVE ImagePart(k)'
  <2>1. /\ apply'[k] = apply[k] /\ Target(k) \in Part \cup {NoPart}
        /\ OwnPart(k) /\ ImagePart(k) /\ FoundPart(j)
    BY <1>1, <1>2, <1>6 DEF MInv
  <2>2. ~apply[k].hidden /\ apply[k].writer = "sendErr" => apply[k].errno
    BY <2>1 DEF ImagePart
  <2>3. ASSUME apply[k].fs # "other", ~apply[k].hidden, ~Disturbed(k)', Target(k) \in Part
        PROVE  /\ apply[k].writer \in {"extract", "fill"} => mnt'[k] = Target(k)
               /\ apply[k].writer = "fill" =>
                      part'[Target(k)].content = [by |-> k, whole |-> FALSE]
               /\ apply[k].writer = "send" \/ apply[k].result = "ok" =>
                      part'[Target(k)].content = [by |-> k, whole |-> TRUE]
    <3>1. /\ Target(k) \notin touched /\ s.part # Target(k) /\ ~s.raced
          /\ \A i \in Applies \ {k, j} : Target(i) # Target(k) /\ ~apply[i].raced
      BY <1>1, <1>6, <2>1, <2>3 DEF Disturbed, Target
    <3>2. Target(j) # Target(k) /\ ~apply[j].raced
      BY <2>3, <3>1
    <3>3. ~Disturbed(k)
      BY <3>1, <3>2 DEF Disturbed
    <3>4. /\ apply[k].writer \in {"extract", "fill"} => mnt[k] = Target(k)
          /\ apply[k].writer = "fill" => part[Target(k)].content = [by |-> k, whole |-> FALSE]
          /\ apply[k].writer = "send" \/ apply[k].result = "ok" =>
                part[Target(k)].content = [by |-> k, whole |-> TRUE]
      BY <2>1, <2>3, <3>3 DEF ImagePart
    <3>5. part'[Target(k)] = part[Target(k)]
      BY <2>3, <3>2
    <3>6. ASSUME mnt[k] = Target(k) PROVE mnt'[k] = Target(k)
      <4>1. CASE apply[j].pc = "umount" /\ apply[j].found = k
        BY <2>1, <2>3, <3>2, <3>6, <4>1 DEF FoundPart
      <4>2. CASE ~(apply[j].pc = "umount" /\ apply[j].found = k)
        BY <1>2, <1>6, <3>6, <4>2
      <4> QED
        BY <4>1, <4>2
    <3> QED
      BY <3>4, <3>5, <3>6
  <2>4. Target(k) = NoPart => apply[k].writer = "none" /\ apply[k].result # "ok"
    BY <2>1 DEF OwnPart
  <2> QED
    BY <2>1, <2>2, <2>3, <2>4 DEF ImagePart, Target
<1>7. ASSUME NEW k \in Fixes PROVE StorePart(k)'
  <2>1. StorePart(k) /\ k # j /\ k \in Dir
    BY <1>2 DEF MInv
  <2>4. k \in Dir \ {j}
    BY <2>1
  <2>2. mnt'[k] = mnt[k] \/ (mnt'[k] = NoPart /\ k \notin pinned)
    BY <2>4
  <2>3. ASSUME fix[k].pc \in {"walk", "leaveBcd"}
        PROVE  mnt'[k] = mnt[k] /\ part'[fix[k].esp].bcd = part[fix[k].esp].bcd
    <3>1. k \in pinned /\ mnt[k] = fix[k].esp /\ fix[k].esp \in Part
      BY <2>1, <2>3 DEF StorePart
    <3>2. MountsOf(fix[k].esp) # {}
      BY <2>1, <3>1 DEF MountsOf
    <3> QED
      BY <2>2, <3>1, <3>2
  <2> QED
    BY <2>1, <2>2, <2>3 DEF StorePart
<1>8. ASSUME NEW k \in Applies PROVE OwnPart(k)' /\ FoundPart(k)' /\ ImagePart(k)'
  BY <1>4, <1>5, <1>6
<1> QED
  BY <1>3, <1>7, <1>8 DEF MInv

\* A step of an ApplyImage call that leaves the table alone.
LEMMA OneApplyQuiet ==
    ASSUME MInv, NEW j \in Applies, NEW s \in ApplyState,
           apply' = [apply EXCEPT ![j] = s], crashed' \in BOOLEAN,
           s.pc \notin {"new", "done"} => s.part \in Part,
           UNCHANGED <<fix, formats, touched, tableVars>>,
           apply[j].raced => s.raced,
           Target(j) # NoPart => s.part = Target(j),
           apply[j].writer # "none" => s.writer # "none",
           OwnPart(j)', FoundPart(j)', ImagePart(j)'
    PROVE  MInv'
<1>1. /\ UNCHANGED <<part, mnt, held, pinned>>
      /\ part \in [Part -> [fs : FsType, content : Content, bcd : Store]]
      /\ mnt \in [Dir -> Part \cup {NoPart}] /\ held \subseteq Part
  BY DEF MInv, TypeOK, TableTypeOK, tableVars
<1>2. TableStep(j)
  BY <1>1 DEF TableStep
<1>3. apply[j].writer # "none" => s.writer # "none" /\ mnt'[j] \in {mnt[j], NoPart}
  BY <1>1
<1> QED
  BY <1>2, <1>3, OneApply

\* A crash changes nothing else.
LEMMA CrashKeeps ==
    ASSUME MInv, crashed' \in BOOLEAN, UNCHANGED <<apply, fix, formats, touched, tableVars>>
    PROVE  MInv'
<1>1. TypeOK'
  BY DEF MInv, TypeOK, TableTypeOK, ApplyTypeOK, FixTypeOK, tableVars
<1>2. ASSUME NEW j \in Applies PROVE OwnPart(j)' /\ FoundPart(j)' /\ ImagePart(j)'
  <2>1. OwnPart(j) /\ FoundPart(j) /\ ImagePart(j)
    BY DEF MInv
  <2>2. OwnPart(j)'
    BY <2>1 DEF OwnPart, Target, tableVars
  <2>3. FoundPart(j)'
    BY <2>1 DEF FoundPart, Target, tableVars
  <2>4. Disturbed(j)' <=> Disturbed(j)
    BY DEF Disturbed, Target
  <2>5. ImagePart(j)'
    BY <2>1, <2>4 DEF ImagePart, Target, tableVars
  <2> QED
    BY <2>2, <2>3, <2>5
<1>3. \A j \in Fixes : StorePart(j)'
  BY DEF MInv, StorePart, tableVars
<1> QED
  BY <1>1, <1>2, <1>3 DEF MInv

\* A call whose partition stays the same is disturbed by others only.
LEMMA SameDisturbed ==
    ASSUME MInv, NEW j \in Applies, NEW s \in ApplyState,
           apply' = [apply EXCEPT ![j] = s], UNCHANGED touched, s.part = Target(j)
    PROVE  Disturbed(j)' <=> Disturbed(j)
<1>1. apply'[j] = s /\ \A k \in Applies : k # j => apply'[k] = apply[k]
  BY DEF MInv, TypeOK, ApplyTypeOK
<1> QED
  BY <1>1 DEF Disturbed, Target

\* What the invariant says of one call, with its types.
LEMMA OfCall ==
    ASSUME MInv, NEW j \in Applies
    PROVE  /\ apply \in [Applies -> ApplyState] /\ apply[j] \in ApplyState
           /\ OwnPart(j) /\ FoundPart(j) /\ ImagePart(j)
           /\ mnt \in [Dir -> Part \cup {NoPart}] /\ j \in Dir /\ held \subseteq Part
           /\ part \in [Part -> [fs : FsType, content : Content, bcd : Store]]
           /\ apply[j].pc \notin {"new", "done"} => Target(j) \in Part
           /\ crashed \in BOOLEAN
BY DEF MInv, TypeOK, TableTypeOK, ApplyTypeOK, Target, Dir

\* ApplyImage begins, or finds no partition.
LEMMA BeginStep ==
    ASSUME MInv, NEW j \in Applies, UNCHANGED <<fix, formats, touched>>,
           (\E p \in Part : ApplyImage(j, p)) \/ ApplyNotFound(j)
    PROVE  MInv'
<1>1. /\ apply[j] \in ApplyState /\ OwnPart(j) /\ apply[j].pc = "new"
      /\ part \in [Part -> [fs : FsType, content : Content, bcd : Store]] /\ crashed \in BOOLEAN
      /\ apply \in [Applies -> ApplyState]
  BY OfCall DEF ApplyImage, ApplyNotFound, At
<1>2. /\ apply[j].writer = "none" /\ apply[j].result = "none" /\ Target(j) = NoPart
      /\ ~apply[j].raced /\ mnt[j] = NoPart
  BY <1>1 DEF OwnPart
<1>3. CASE ApplyNotFound(j)
  <2> DEFINE s == [apply[j] EXCEPT !.pc = "done", !.result = "error"]
  <2>1. /\ s \in ApplyState /\ s.pc = "done" /\ s.result = "error" /\ s.writer = "none"
        /\ s.part = NoPart /\ s.raced = FALSE
    BY <1>1, <1>2 DEF ApplyState, Target
  <2>2. apply' = [apply EXCEPT ![j] = s] /\ UNCHANGED <<crashed, tableVars>>
    BY <1>3 DEF ApplyNotFound, Answers, Becomes
  <2> HIDE DEF s
  <2>3. apply'[j] = s /\ UNCHANGED mnt
    BY <1>1, <2>2 DEF tableVars
  <2>4. OwnPart(j)' /\ FoundPart(j)' /\ ImagePart(j)'
    BY <1>2, <2>1, <2>3 DEF OwnPart, FoundPart, ImagePart, Target
  <2> QED
    BY <1>1, <1>2, <2>1, <2>2, <2>4, OneApplyQuiet
<1>4. ASSUME NEW p \in Part, ApplyImage(j, p) PROVE MInv'
  <2>1. CASE part[p].fs = "none"
    BY <1>4, <2>1, CrashKeeps DEF ApplyImage
  <2>2. CASE part[p].fs # "none"
    <3> DEFINE pc == IF part[p].fs = "ntfs" THEN "wimapply" ELSE "open"
    <3> DEFINE s == [apply[j] EXCEPT !.part = p, !.fs = part[p].fs, !.pc = pc]
    <3>1. apply' = [apply EXCEPT ![j] = s] /\ UNCHANGED <<crashed, tableVars>>
      BY <1>4, <2>2 DEF ApplyImage, Becomes
    <3>2. pc \in {"wimapply", "open"} /\ part[p].fs \in FsType
      BY <1>1
    <3> HIDE DEF pc
    <3>3. /\ s \in ApplyState /\ s.pc = pc /\ s.result = "none" /\ s.writer = "none"
          /\ s.part = p /\ s.raced = FALSE
      BY <1>1, <1>2, <3>2 DEF ApplyState
    <3> HIDE DEF s
    <3>4. apply'[j] = s /\ UNCHANGED mnt /\ p # NoPart
      BY <1>1, <3>1 DEF tableVars
    <3>5. OwnPart(j)' /\ FoundPart(j)' /\ ImagePart(j)'
      BY <1>2, <3>2, <3>3, <3>4 DEF OwnPart, FoundPart, ImagePart, Target
    <3> QED
      BY <1>1, <1>2, <3>1, <3>2, <3>3, <3>5, OneApplyQuiet
  <2> QED
    BY <2>1, <2>2
<1> QED
  BY <1>3, <1>4

\* Steps of the handler before its goroutine is there, but for those that change
\* the table.
LEMMA HandlerStep ==
    ASSUME MInv, NEW j \in Applies, UNCHANGED <<fix, formats, touched>>,
           \/ WimapplyError(j) \/ OpenImage(j) \/ OpenError(j) \/ Check(j) \/ PrepareError(j)
    PROVE  MInv'
<1>1. /\ apply[j] \in ApplyState /\ OwnPart(j) /\ FoundPart(j)
      /\ part \in [Part -> [fs : FsType, content : Content, bcd : Store]] /\ crashed \in BOOLEAN
      /\ apply \in [Applies -> ApplyState] /\ mnt \in [Dir -> Part \cup {NoPart}]
  BY OfCall
<1>2. /\ apply[j].pc \in {"wimapply", "open", "check", "umount", "mkfs", "mount"}
      /\ Target(j) \in Part /\ UNCHANGED tableVars
  BY OfCall DEF WimapplyError, OpenImage, OpenError, Check, PrepareError, At
<1>3. /\ apply[j].writer = "none" /\ apply[j].result = "none" /\ mnt[j] = NoPart
  BY <1>1, <1>2 DEF OwnPart
<1>4. UNCHANGED <<part, mnt, held, pinned>>
  BY <1>2 DEF tableVars
<1>5. CASE OpenImage(j) /\ part[Target(j)].fs = "none"
  BY <1>5, CrashKeeps DEF OpenImage
<1>6. ASSUME NEW s \in ApplyState, Becomes(j, s), s.part = Target(j), s.writer = "none",
             s.pc \notin {"new", "wimapply", "open", "select", "umount"},
             s.pc \in {"mkfs", "mount", "check"} => s.fs # "none",
             s.result \in {"none", "error"}, s.pc # "done" => s.result = "none",
             apply[j].raced => s.raced, s.pc = "check" => ~s.raced
      PROVE  MInv'
  <2>1. apply' = [apply EXCEPT ![j] = s] /\ apply'[j] = s /\ UNCHANGED crashed
    BY <1>1, <1>6 DEF Becomes
  <2>2. OwnPart(j)' /\ FoundPart(j)' /\ ImagePart(j)'
    BY <1>2, <1>3, <1>4, <1>6, <2>1 DEF OwnPart, FoundPart, ImagePart, Target
  <2> QED
    BY <1>1, <1>2, <1>3, <1>6, <2>1, <2>2, OneApplyQuiet
<1>7. CASE WimapplyError(j) \/ OpenError(j)
  <2> DEFINE s == [apply[j] EXCEPT !.pc = "done", !.result = "error"]
  <2>1. /\ s \in ApplyState /\ s.pc = "done" /\ s.result = "error" /\ s.writer = "none"
        /\ s.part = Target(j) /\ s.raced = apply[j].raced
    BY <1>1, <1>3 DEF ApplyState, Target
  <2>2. Becomes(j, s)
    BY <1>7 DEF WimapplyError, OpenError, Answers
  <2> HIDE DEF s
  <2> QED
    BY <1>6, <2>1, <2>2
<1>8. CASE OpenImage(j) /\ part[Target(j)].fs # "none"
  <2>1. PICK w \in BOOLEAN :
          Becomes(j, [apply[j] EXCEPT !.fs = part[Target(j)].fs, !.wim = w,
                                      !.hidden = ~w, !.pc = "check"])
    BY <1>8 DEF OpenImage
  <2> DEFINE h == ~w
  <2> DEFINE s == [apply[j] EXCEPT !.fs = part[Target(j)].fs, !.wim = w, !.hidden = h,
                                   !.pc = "check"]
  <2>2. Becomes(j, s) /\ h \in BOOLEAN /\ apply[j].pc = "open" /\ part[Target(j)].fs \in FsType
    BY <1>1, <1>2, <1>8, <2>1 DEF OpenImage, At
  <2> HIDE DEF h
  <2>5. s \in ApplyState
    BY <1>1, <2>2 DEF ApplyState
  <2>3. /\ s.pc = "check" /\ s.result = "none" /\ s.writer = "none"
        /\ s.part = Target(j) /\ s.raced = apply[j].raced /\ s.fs # "none"
    BY <1>1, <1>3, <1>8, <2>2 DEF ApplyState, Target
  <2>4. ~apply[j].raced
    BY <1>1, <2>2 DEF OwnPart
  <2> HIDE DEF s
  <2> QED
    BY <1>6, <2>2, <2>3, <2>4, <2>5
<1>9. CASE PrepareError(j)
  <2> DEFINE s == [apply[j] EXCEPT !.pc = "stuck", !.broken = TRUE]
  <2>1. /\ s \in ApplyState /\ s.pc = "stuck" /\ s.result = "none" /\ s.writer = "none"
        /\ s.part = Target(j) /\ s.raced = apply[j].raced
    BY <1>1, <1>3 DEF ApplyState, Target
  <2>2. Becomes(j, s)
    BY <1>9 DEF PrepareError, Blocks
  <2> HIDE DEF s
  <2> QED
    BY <1>6, <2>1, <2>2
<1>10. CASE Check(j)
  <2>1. apply[j].pc = "check" /\ ~apply[j].raced /\ apply[j].fs # "none"
    BY <1>1, <1>10 DEF Check, At, OwnPart
  <2>11. PICK raced \in BOOLEAN : \E d \in IF raced THEN CheckMountRaced ELSE CheckMount(Target(j)) :
          Becomes(j, [apply[j] EXCEPT !.found = d, !.raced = raced,
                                      !.pc = IF d = NoPart THEN "mkfs" ELSE "umount"])
    <3>1. PICK raced \in {r \in BOOLEAN : r => \E k \in Applies \ {j} : At(k, "check")} :
           \E d \in IF raced THEN CheckMountRaced ELSE CheckMount(Target(j)) :
            Becomes(j, [apply[j] EXCEPT !.found = d, !.raced = raced,
                                        !.pc = IF d = NoPart THEN "mkfs" ELSE "umount"])
      BY <1>10 DEF Check
    <3> QED
      BY <3>1
  <2>2. PICK d \in IF raced THEN CheckMountRaced ELSE CheckMount(Target(j)) :
          Becomes(j, [apply[j] EXCEPT !.found = d, !.raced = raced,
                                      !.pc = IF d = NoPart THEN "mkfs" ELSE "umount"])
    BY <2>11
  <2>3. /\ d \in Dir \cup {NoPart}
        /\ ~raced /\ d # NoPart => d \in Dir /\ mnt[d] = Target(j)
    BY <2>2 DEF CheckMountRaced, CheckMount, MountsOf
  <2> DEFINE pc == IF d = NoPart THEN "mkfs" ELSE "umount"
  <2> DEFINE s == [apply[j] EXCEPT !.found = d, !.raced = raced, !.pc = pc]
  <2>4. apply' = [apply EXCEPT ![j] = s] /\ UNCHANGED crashed /\ pc \in {"mkfs", "umount"}
    BY <2>2 DEF Becomes
  <2>5. pc = "umount" => d # NoPart
    OBVIOUS
  <2> HIDE DEF pc
  <2>6. /\ s \in ApplyState /\ s.pc = pc /\ s.result = "none" /\ s.writer = "none"
        /\ s.part = Target(j) /\ s.raced = raced /\ s.fs = apply[j].fs /\ s.found = d
    BY <1>1, <1>3, <2>3, <2>4 DEF ApplyState, Target
  <2> HIDE DEF s
  <2>7. apply'[j] = s /\ \A k \in Applies : k # j => apply'[k] = apply[k]
    BY <1>1, <2>4
  <2>8. OwnPart(j)' /\ ImagePart(j)'
    BY <1>2, <1>3, <1>4, <2>1, <2>4, <2>6, <2>7 DEF OwnPart, ImagePart, Target
  <2>9. FoundPart(j)'
    <3> SUFFICES ASSUME pc = "umount", ~raced PROVE FoundPart(j)'
      BY <2>3, <2>5, <2>6, <2>7 DEF FoundPart
    <3>1. d \in Dir /\ mnt[d] = Target(j) /\ mnt[d] # NoPart
      BY <1>2, <2>3, <2>5
    <3>2. d \in Applies => apply[d].writer # "none" /\ d # j
      BY <1>3, <3>1 DEF MInv, OwnPart
    <3>3. d \in Fixes => fix[d].pc # "new"
      BY <3>1 DEF MInv, StorePart
    <3> QED
      BY <1>4, <2>6, <2>7, <3>1, <3>2, <3>3 DEF FoundPart, Target
  <2> QED
    BY <1>1, <1>2, <1>3, <2>1, <2>4, <2>6, <2>8, <2>9, OneApplyQuiet
<1> QED
  BY <1>5, <1>7, <1>8, <1>9, <1>10 DEF OpenImage

\* What a step of j's own that keeps its partition leaves to show: its own parts,
\* from what it does to the table.
LEMMA OwnStep ==
    ASSUME MInv, NEW j \in Applies, NEW s \in ApplyState, Becomes(j, s),
           UNCHANGED <<fix, formats, touched, pinned>>,
           s.part = Target(j), Target(j) \in Part, s.pc # "new",
           part' \in [Part -> [fs : FsType, content : Content, bcd : Store]],
           mnt' \in [Dir -> Part \cup {NoPart}], held' \subseteq Part,
           \A d \in Dir \ {j} : \/ mnt'[d] = mnt[d]
                                \/ /\ mnt'[d] = NoPart /\ d \notin pinned
                                   /\ apply[j].pc = "umount" /\ apply[j].found = d,
           \A p \in Part : p # Target(j) => part'[p] = part[p],
           \A p \in Part : MountsOf(p) # {} => part'[p].bcd = part[p].bcd,
           s.raced = apply[j].raced,
           apply[j].writer # "none" => s.writer # "none" /\ mnt'[j] \in {mnt[j], NoPart},
           s.pc \notin {"wimapply", "open", "check", "umount"},
           s.pc \in {"mkfs", "mount"} => s.fs # "none",
           s.pc \notin {"select", "done"} => s.writer = "none",
           s.writer \in {"wimapply", "extract", "fill", "send", "sendErr"} => s.pc = "select",
           s.pc # "done" => s.result = "none",
           s.writer \in {"none", "wimapply"} => mnt'[j] = NoPart,
           mnt'[j] # NoPart => s.broken \/ s.writer \in Owning,
           ~s.hidden /\ s.writer = "sendErr" => s.errno,
           s.fs # "other" /\ ~s.hidden /\ ~Disturbed(j) =>
               /\ s.writer \in {"extract", "fill"} => mnt'[j] = Target(j)
               /\ s.writer = "fill" => part'[Target(j)].content = [by |-> j, whole |-> FALSE]
               /\ s.writer = "send" \/ s.result = "ok" =>
                      part'[Target(j)].content = [by |-> j, whole |-> TRUE]
    PROVE  MInv'
<1>1. /\ apply' = [apply EXCEPT ![j] = s] /\ apply'[j] = s /\ crashed' \in BOOLEAN
      /\ Target(j)' = Target(j) /\ Target(j) # NoPart
  BY OfCall DEF Becomes, Target
<1>2. Disturbed(j)' <=> Disturbed(j)
  BY <1>1, SameDisturbed
<1>3. OwnPart(j)'
  BY <1>1 DEF OwnPart, Target
<1>4. FoundPart(j)'
  BY <1>1 DEF FoundPart
<1>5. ImagePart(j)'
  BY <1>1, <1>2 DEF ImagePart
<1>6. TableStep(j)
  BY DEF TableStep
<1>7. /\ apply' = [apply EXCEPT ![j] = s] /\ crashed' \in BOOLEAN
      /\ s.pc \notin {"new", "done"} => s.part \in Part
      /\ apply[j].raced => s.raced
      /\ Target(j) # NoPart => s.part = Target(j)
      /\ apply[j].writer # "none" => s.writer # "none" /\ mnt'[j] \in {mnt[j], NoPart}
  BY <1>1
<1> QED
  BY <1>3, <1>4, <1>5, <1>6, <1>7, OneApply

\* Writing an image changes the contents of one partition.
LEMMA WritesContent ==
    ASSUME part \in [Part -> [fs : FsType, content : Content, bcd : Store]],
           NEW p \in Part, NEW j \in Job, NEW w \in BOOLEAN,
           Writes(p, [by |-> j, whole |-> w])
    PROVE  /\ part' \in [Part -> [fs : FsType, content : Content, bcd : Store]]
           /\ \A q \in Part : q # p => part'[q] = part[q]
           /\ \A q \in Part : part'[q].bcd = part[q].bcd
           /\ part'[p].content = [by |-> j, whole |-> w]
<1> DEFINE c == [by |-> j, whole |-> w]
<1> DEFINE r == [part[p] EXCEPT !.content = c]
<1>1. c \in Content
  BY DEF Content
<1>2. part' = [part EXCEPT ![p] = r]
  BY DEF Writes
<1> HIDE DEF c
<1>3. r \in [fs : FsType, content : Content, bcd : Store] /\ r.content = c /\ r.bcd = part[p].bcd
  BY <1>1
<1> HIDE DEF r
<1>4. part' \in [Part -> [fs : FsType, content : Content, bcd : Store]]
  BY <1>2, <1>3
<1> QED
  BY <1>2, <1>3, <1>4 DEF c

\* wimapply, which holds the partition while it writes.
LEMMA WimapplyStep ==
    ASSUME MInv, NEW j \in Applies, UNCHANGED <<fix, formats, touched>>,
           WimapplyStart(j) \/ WimapplyEnd(j)
    PROVE  MInv'
<1>1. /\ apply[j] \in ApplyState /\ OwnPart(j) /\ held \subseteq Part /\ j \in Dir
      /\ part \in [Part -> [fs : FsType, content : Content, bcd : Store]]
      /\ mnt \in [Dir -> Part \cup {NoPart}]
  BY OfCall
<1>2. UNCHANGED <<mnt, pinned>>
  BY DEF WimapplyStart, WimapplyEnd
<1>3. CASE WimapplyStart(j)
  <2> DEFINE s == [apply[j] EXCEPT !.writer = "wimapply", !.pc = "select"]
  <2>1. /\ Becomes(j, s) /\ apply[j].pc = "wimapply" /\ held' = held \cup {Target(j)}
        /\ Writes(Target(j), [by |-> j, whole |-> FALSE])
    BY <1>3 DEF WimapplyStart, At
  <2>2. /\ s \in ApplyState /\ s.pc = "select" /\ s.writer = "wimapply"
        /\ s.part = Target(j) /\ s.raced = apply[j].raced /\ s.result = apply[j].result
    BY <1>1 DEF ApplyState, Target
  <2> HIDE DEF s
  <2>3. Target(j) \in Part /\ apply[j].writer = "none" /\ apply[j].result = "none"
        /\ mnt[j] = NoPart
    BY <1>1, <2>1, OfCall DEF OwnPart
  <2>4. /\ part' \in [Part -> [fs : FsType, content : Content, bcd : Store]]
        /\ \A p \in Part : p # Target(j) => part'[p] = part[p]
        /\ \A p \in Part : part'[p].bcd = part[p].bcd
    BY <1>1, <2>1, <2>3, WritesContent
  <2> QED
    BY <1>1, <1>2, <2>1, <2>2, <2>3, <2>4, OwnStep
<1>4. CASE WimapplyEnd(j)
  <2>1. /\ apply[j].writer = "wimapply" /\ held' = held \ {Target(j)}
    BY <1>4 DEF WimapplyEnd, Writing
  <2>2. PICK r \in {"ok", "error"} :
          /\ Becomes(j, [apply[j] EXCEPT !.writer = "end", !.pc = "done", !.result = r])
          /\ IF r = "ok" THEN Writes(Target(j), [by |-> j, whole |-> TRUE]) ELSE UNCHANGED part
    BY <1>4 DEF WimapplyEnd
  <2> DEFINE s == [apply[j] EXCEPT !.writer = "end", !.pc = "done", !.result = r]
  <2>3. /\ s \in ApplyState /\ s.pc = "done" /\ s.writer = "end" /\ s.result = r
        /\ s.part = Target(j) /\ s.raced = apply[j].raced
    BY <1>1 DEF ApplyState, Target
  <2>4. Becomes(j, s)
    BY <2>2
  <2> HIDE DEF s
  <2>5. Target(j) \in Part /\ mnt[j] = NoPart
    BY <1>1, <2>1 DEF OwnPart, ApplyState, Target
  <2>6. /\ part' \in [Part -> [fs : FsType, content : Content, bcd : Store]]
        /\ \A p \in Part : p # Target(j) => part'[p] = part[p]
        /\ \A p \in Part : part'[p].bcd = part[p].bcd
        /\ r = "ok" => part'[Target(j)].content = [by |-> j, whole |-> TRUE]
    BY <1>1, <2>2, <2>5, WritesContent
  <2> QED
    BY <1>1, <1>2, <2>1, <2>3, <2>4, <2>5, <2>6, OwnStep
<1> QED
  BY <1>3, <1>4

\* Apply unmounts what it found, formats the partition and mounts it.
LEMMA PrepareStep ==
    ASSUME MInv, NEW j \in Applies, UNCHANGED <<fix, formats, touched>>,
           UnmountFound(j) \/ Format(j) \/ MountTarget(j)
    PROVE  MInv'
<1>1. /\ apply[j] \in ApplyState /\ OwnPart(j) /\ FoundPart(j) /\ held \subseteq Part /\ j \in Dir
      /\ part \in [Part -> [fs : FsType, content : Content, bcd : Store]]
      /\ mnt \in [Dir -> Part \cup {NoPart}]
  BY OfCall
<1>2. /\ apply[j].pc \in {"umount", "mkfs", "mount"} /\ Target(j) \in Part
  BY OfCall DEF UnmountFound, Format, MountTarget, At
<1>3. /\ apply[j].writer = "none" /\ apply[j].result = "none" /\ mnt[j] = NoPart
      /\ apply[j].fs # "none"
  BY <1>1, <1>2 DEF OwnPart
<1>4. CASE UnmountFound(j)
  <2> DEFINE s == [apply[j] EXCEPT !.pc = "mkfs"]
  <2> DEFINE d == apply[j].found
  <2>1. /\ Becomes(j, s) /\ d \in Dir /\ mnt[d] # NoPart /\ d \notin pinned
        /\ apply[j].pc = "umount"
        /\ mnt' = [mnt EXCEPT ![d] = NoPart] /\ UNCHANGED <<part, held, pinned>>
    BY <1>1, <1>4 DEF UnmountFound, Unmount, Goto, At, FoundPart
  <2>2. /\ s \in ApplyState /\ s.pc = "mkfs" /\ s.writer = "none" /\ s.fs = apply[j].fs
        /\ s.part = Target(j) /\ s.raced = apply[j].raced /\ s.result = "none"
    BY <1>1, <1>3 DEF ApplyState, Target
  <2> HIDE DEF s
  <2>3. /\ mnt' \in [Dir -> Part \cup {NoPart}] /\ mnt'[j] = NoPart
        /\ \A e \in Dir \ {j} : mnt'[e] = mnt[e] \/ (mnt'[e] = NoPart /\ e = d)
    BY <1>1, <1>3, <2>1
  <2>4. \A e \in Dir \ {j} : \/ mnt'[e] = mnt[e]
                             \/ /\ mnt'[e] = NoPart /\ e \notin pinned
                                /\ apply[j].pc = "umount" /\ apply[j].found = e
    BY <2>1, <2>3
  <2> QED
    BY <1>1, <1>2, <1>3, <2>1, <2>2, <2>3, <2>4, OwnStep
<1>5. CASE Format(j)
  <2> DEFINE s == [apply[j] EXCEPT !.pc = "mount"]
  <2>1. Becomes(j, s)
    BY <1>5 DEF Format, Goto
  <2>2. /\ s \in ApplyState /\ s.pc = "mount" /\ s.writer = "none" /\ s.fs = apply[j].fs
        /\ s.part = Target(j) /\ s.raced = apply[j].raced /\ s.result = "none"
    BY <1>1, <1>3 DEF ApplyState, Target
  <2> HIDE DEF s
  <2>3. /\ part' \in [Part -> [fs : FsType, content : Content, bcd : Store]]
        /\ \A p \in Part : p # Target(j) => part'[p] = part[p]
        /\ \A p \in Part : MountsOf(p) # {} => part'[p].bcd = part[p].bcd
        /\ UNCHANGED <<mnt, held, pinned>>
    <3>1. CASE Mkfs(Target(j), apply[j].fs)
      <4>1. /\ MountsOf(Target(j)) = {}
            /\ part' = [part EXCEPT ![Target(j)] =
                           [fs |-> apply[j].fs, content |-> [by |-> Nobody, whole |-> FALSE],
                            bcd |-> "none"]]
            /\ UNCHANGED <<mnt, held, pinned>> /\ apply[j].fs \in FsType
        BY <1>1, <3>1 DEF Mkfs, Free, ApplyState
      <4> QED
        BY <1>1, <1>2, <4>1 DEF Content, Store
    <3>2. CASE UNCHANGED tableVars
      BY <1>1, <3>2 DEF tableVars
    <3> QED
      BY <1>5, <3>1, <3>2 DEF Format
  <2> QED
    BY <1>1, <1>2, <1>3, <2>1, <2>2, <2>3, OwnStep
<1>6. CASE MountTarget(j)
  <2> DEFINE s == [apply[j] EXCEPT !.pc = "select", !.writer = "extract"]
  <2>1. Becomes(j, s) /\ UNCHANGED <<part, held, pinned>>
    BY <1>6 DEF MountTarget, Mount
  <2>2. /\ s \in ApplyState /\ s.pc = "select" /\ s.writer = "extract" /\ s.fs = apply[j].fs
        /\ s.part = Target(j) /\ s.raced = apply[j].raced /\ s.result = "none"
    BY <1>1, <1>3 DEF ApplyState, Target
  <2> HIDE DEF s
  <2>3. mnt' = [mnt EXCEPT ![j] = Target(j)] \/ (apply[j].fs = "other" /\ UNCHANGED mnt)
    BY <1>1, <1>3, <1>6 DEF MountTarget, Mount, ApplyState, FsType
  <2>4. /\ mnt' \in [Dir -> Part \cup {NoPart}] /\ \A d \in Dir \ {j} : mnt'[d] = mnt[d]
        /\ apply[j].fs # "other" => mnt'[j] = Target(j)
    BY <1>1, <1>2, <2>3
  <2> QED
    BY <1>1, <1>2, <1>3, <2>1, <2>2, <2>4, OwnStep DEF Owning
<1> QED
  BY <1>4, <1>5, <1>6

\* The goroutine fills the directory, says so, and unmounts it.
LEMMA ExtractStep ==
    ASSUME MInv, NEW j \in Applies, UNCHANGED <<fix, formats, touched>>, Extract(j)
    PROVE  MInv'
<1>1. /\ apply[j] \in ApplyState /\ OwnPart(j) /\ ImagePart(j) /\ held \subseteq Part /\ j \in Dir
      /\ part \in [Part -> [fs : FsType, content : Content, bcd : Store]]
      /\ mnt \in [Dir -> Part \cup {NoPart}]
  BY OfCall
<1>2. CASE ExtractCrash(j)
  BY <1>2, CrashKeeps DEF ExtractCrash
<1> SUFFICES ASSUME ~ExtractCrash(j) PROVE MInv'
  BY <1>2
<1>3. apply[j].writer \in {"extract", "fill", "send", "sendErr", "unmount"}
  BY DEF Extract, ExtractBegin, ExtractEnd, ExtractError, Finish, Leave, LeaveError, Writing
<1>4. /\ Target(j) \in Part /\ apply[j].pc \in {"select", "done"}
      /\ apply[j].pc = "select" => apply[j].result = "none"
  BY <1>1, <1>3 DEF OwnPart, ApplyState, Target
<1>5. /\ ~apply[j].hidden /\ apply[j].writer = "sendErr" => apply[j].errno
      /\ apply[j].fs # "other" /\ ~apply[j].hidden /\ ~Disturbed(j) =>
          /\ apply[j].writer \in {"extract", "fill"} => mnt[j] = Target(j)
          /\ apply[j].writer = "fill" =>
                 part[Target(j)].content = [by |-> j, whole |-> FALSE]
          /\ apply[j].writer = "send" \/ apply[j].result = "ok" =>
                 part[Target(j)].content = [by |-> j, whole |-> TRUE]
  BY <1>1 DEF ImagePart
<1>6. ASSUME NEW s \in ApplyState, Becomes(j, s), s.part = Target(j), s.fs = apply[j].fs,
             s.raced = apply[j].raced, ~s.hidden => ~apply[j].hidden,
             s.writer \in Owning \cup {"end"},
             s.writer # "unmount" /\ s.writer # "end" => s.pc = "select",
             s.pc \in {"select", "done"}, s.pc # "done" => s.result = "none",
             mnt' \in [Dir -> Part \cup {NoPart}], mnt'[j] \in {mnt[j], NoPart},
             \A d \in Dir \ {j} : mnt'[d] = mnt[d],
             UNCHANGED <<held, pinned>>,
             \/ UNCHANGED part
             \/ Writes(Target(j), [by |-> j, whole |-> FALSE])
             \/ Writes(Target(j), [by |-> j, whole |-> TRUE]),
             mnt'[j] # NoPart => s.broken \/ s.writer \in Owning,
             ~s.hidden /\ s.writer = "sendErr" => s.errno,
             s.fs # "other" /\ ~s.hidden /\ ~Disturbed(j) =>
               /\ s.writer \in {"extract", "fill"} => mnt'[j] = Target(j)
               /\ s.writer = "fill" => part'[Target(j)].content = [by |-> j, whole |-> FALSE]
               /\ s.writer = "send" \/ s.result = "ok" =>
                      part'[Target(j)].content = [by |-> j, whole |-> TRUE]
      PROVE  MInv'
  <2>1. /\ part' \in [Part -> [fs : FsType, content : Content, bcd : Store]]
        /\ \A p \in Part : p # Target(j) => part'[p] = part[p]
        /\ \A p \in Part : part'[p].bcd = part[p].bcd
    <3>1. CASE UNCHANGED part
      BY <1>1, <3>1
    <3>2. CASE Writes(Target(j), [by |-> j, whole |-> FALSE])
      BY <1>1, <1>4, <3>2, WritesContent
    <3>3. CASE Writes(Target(j), [by |-> j, whole |-> TRUE])
      BY <1>1, <1>4, <3>3, WritesContent
    <3> QED
      BY <1>6, <3>1, <3>2, <3>3
  <2>2. s.writer \notin {"none", "wimapply"}
    BY <1>6 DEF Owning
  <2> QED
    BY <1>1, <1>4, <1>6, <2>1, <2>2, OwnStep
<1>7. CASE ExtractBegin(j)
  <2> DEFINE s == [apply[j] EXCEPT !.writer = "fill"]
  <2>1. /\ apply[j].writer = "extract" /\ Becomes(j, s)
        /\ UNCHANGED <<mnt, held, pinned>>
        /\ IF mnt[j] = Target(j) THEN Writes(Target(j), [by |-> j, whole |-> FALSE])
                                 ELSE UNCHANGED part
    BY <1>7 DEF ExtractBegin, OnTarget, Writing
  <2>2. apply[j].pc = "select" /\ apply[j].result = "none"
    BY <1>1, <1>4, <2>1 DEF OwnPart
  <2>3. /\ s \in ApplyState /\ s.pc = "select" /\ s.writer = "fill" /\ s.fs = apply[j].fs
        /\ s.part = Target(j) /\ s.raced = apply[j].raced /\ s.result = "none"
        /\ s.hidden = apply[j].hidden
    BY <1>1, <2>2 DEF ApplyState, Target
  <2> HIDE DEF s
  <2>4. mnt[j] = Target(j) => part'[Target(j)].content = [by |-> j, whole |-> FALSE]
    BY <1>1, <1>4, <2>1, WritesContent
  <2> QED
    BY <1>1, <1>5, <1>6, <2>1, <2>3, <2>4 DEF Owning
<1>8. CASE ExtractEnd(j)
  <2> DEFINE s == [apply[j] EXCEPT !.writer = "send"]
  <2>1. /\ apply[j].writer = "fill" /\ Becomes(j, s)
        /\ UNCHANGED <<mnt, held, pinned>>
        /\ IF mnt[j] = Target(j) /\ part[Target(j)].content = [by |-> j, whole |-> FALSE]
               THEN Writes(Target(j), [by |-> j, whole |-> TRUE])
               ELSE UNCHANGED part
    BY <1>8 DEF ExtractEnd, OnTarget, Writing
  <2>2. apply[j].pc = "select" /\ apply[j].result = "none"
    BY <1>1, <1>4, <2>1 DEF OwnPart
  <2>3. /\ s \in ApplyState /\ s.pc = "select" /\ s.writer = "send" /\ s.fs = apply[j].fs
        /\ s.part = Target(j) /\ s.raced = apply[j].raced /\ s.result = "none"
        /\ s.hidden = apply[j].hidden
    BY <1>1, <2>2 DEF ApplyState, Target
  <2> HIDE DEF s
  <2>4. mnt[j] = Target(j) /\ part[Target(j)].content = [by |-> j, whole |-> FALSE] =>
            part'[Target(j)].content = [by |-> j, whole |-> TRUE]
    BY <1>1, <1>4, <2>1, WritesContent
  <2>5. s.fs # "other" /\ ~s.hidden /\ ~Disturbed(j) =>
            part'[Target(j)].content = [by |-> j, whole |-> TRUE]
    BY <1>5, <2>1, <2>3, <2>4
  <2> QED
    BY <1>1, <1>6, <2>1, <2>3, <2>5 DEF Owning
<1>9. CASE ExtractError(j)
  <2>1. PICK e \in BOOLEAN :
          Becomes(j, [apply[j] EXCEPT !.writer = "sendErr", !.errno = e, !.hidden = @ \/ ~e])
    BY <1>9 DEF ExtractError
  <2> DEFINE h == apply[j].hidden \/ ~e
  <2> DEFINE s == [apply[j] EXCEPT !.writer = "sendErr", !.errno = e, !.hidden = h]
  <2>2. Becomes(j, s) /\ h \in BOOLEAN
    BY <1>1, <2>1 DEF ApplyState
  <2>3. ~h => e /\ ~apply[j].hidden
    OBVIOUS
  <2> HIDE DEF h
  <2>4. apply[j].pc = "select" /\ apply[j].result = "none" /\ UNCHANGED <<part, mnt, held, pinned>>
    BY <1>1, <1>4, <1>9 DEF OwnPart, ExtractError, Writing, tableVars
  <2>5. /\ s \in ApplyState /\ s.pc = "select" /\ s.writer = "sendErr" /\ s.fs = apply[j].fs
        /\ s.part = Target(j) /\ s.raced = apply[j].raced /\ s.result = "none"
        /\ s.hidden = h /\ s.errno = e
    BY <1>1, <2>2, <2>4 DEF ApplyState, Target
  <2> HIDE DEF s
  <2>6. (~s.hidden => ~apply[j].hidden) /\ (~s.hidden => s.errno)
    BY <2>3, <2>5
  <2> QED
    BY <1>1, <1>6, <2>2, <2>4, <2>5, <2>6 DEF Owning
<1>10. CASE Finish(j)
  <2>1. PICK r \in {"ok", "error"} :
          /\ Becomes(j, [apply[j] EXCEPT !.writer = "unmount", !.pc = "done", !.result = r])
          /\ r = "ok" => apply[j].writer = "send"
                         \/ (apply[j].writer = "sendErr" /\ ~apply[j].errno)
    BY <1>10 DEF Finish, Writing
  <2> DEFINE s == [apply[j] EXCEPT !.writer = "unmount", !.pc = "done", !.result = r]
  <2>2. Becomes(j, s) /\ UNCHANGED <<part, mnt, held, pinned>>
    BY <1>10, <2>1 DEF Finish, tableVars
  <2>3. /\ s \in ApplyState /\ s.pc = "done" /\ s.writer = "unmount" /\ s.fs = apply[j].fs
        /\ s.part = Target(j) /\ s.raced = apply[j].raced /\ s.result = r
        /\ s.hidden = apply[j].hidden
    BY <1>1 DEF ApplyState, Target
  <2> HIDE DEF s
  <2>4. s.fs # "other" /\ ~s.hidden /\ ~Disturbed(j) /\ r = "ok" =>
            part'[Target(j)].content = [by |-> j, whole |-> TRUE]
    BY <1>5, <2>1, <2>2, <2>3
  <2> QED
    BY <1>1, <1>6, <2>2, <2>3, <2>4 DEF Owning
<1>11. CASE Leave(j) \/ LeaveError(j)
  <2>1. PICK b \in BOOLEAN :
          /\ Becomes(j, [apply[j] EXCEPT !.writer = "end", !.broken = b])
          /\ mnt'[j] # NoPart => b
    <3>1. CASE LeaveError(j)
      BY <3>1 DEF LeaveError
    <3>2. CASE Leave(j)
      <4>1. [apply[j] EXCEPT !.writer = "end"]
                = [apply[j] EXCEPT !.writer = "end", !.broken = apply[j].broken]
        BY <1>1 DEF ApplyState
      <4>2. mnt'[j] = NoPart
        BY <1>1, <3>2 DEF Leave, Unmount, tableVars
      <4>3. apply[j].broken \in BOOLEAN
        BY <1>1 DEF ApplyState
      <4> QED
        BY <3>2, <4>1, <4>2, <4>3 DEF Leave
    <3> QED
      BY <1>11, <3>1, <3>2
  <2> DEFINE s == [apply[j] EXCEPT !.writer = "end", !.broken = b]
  <2>2. Becomes(j, s) /\ apply[j].writer = "unmount"
    BY <1>11, <2>1 DEF Leave, LeaveError, Writing
  <2>3. /\ UNCHANGED <<part, held, pinned>>
        /\ mnt' = [mnt EXCEPT ![j] = NoPart] \/ UNCHANGED mnt
    BY <1>11 DEF Leave, LeaveError, Unmount, tableVars
  <2>4. /\ s \in ApplyState /\ s.pc = apply[j].pc /\ s.writer = "end" /\ s.fs = apply[j].fs
        /\ s.part = Target(j) /\ s.raced = apply[j].raced /\ s.result = apply[j].result
        /\ s.hidden = apply[j].hidden /\ s.broken = b
    BY <1>1 DEF ApplyState, Target
  <2> HIDE DEF s
  <2>5. /\ mnt' \in [Dir -> Part \cup {NoPart}] /\ mnt'[j] \in {mnt[j], NoPart}
        /\ \A d \in Dir \ {j} : mnt'[d] = mnt[d]
    BY <1>1, <2>3
  <2>6. s.pc # "done" => s.result = "none"
    BY <1>4, <2>4
  <2>7. s.fs # "other" /\ ~s.hidden /\ ~Disturbed(j) /\ s.result = "ok" =>
            part'[Target(j)].content = [by |-> j, whole |-> TRUE]
    BY <1>5, <2>3, <2>4
  <2> QED
    BY <1>4, <1>6, <2>1, <2>2, <2>3, <2>4, <2>5, <2>6, <2>7
<1> QED
  BY <1>7, <1>8, <1>9, <1>10, <1>11 DEF Extract
--------------------------------------------------------------------------------
\* A step of one BCDFix call: it mounts or unmounts its own directory only, and
\* writes to no partition but a store.
LEMMA OneFix ==
    ASSUME MInv, NEW j \in Fixes, NEW s \in FixState,
           fix' = [fix EXCEPT ![j] = s],
           UNCHANGED <<apply, crashed, formats, touched, held>>,
           part' \in [Part -> [fs : FsType, content : Content, bcd : Store]],
           mnt' \in [Dir -> Part \cup {NoPart}], pinned' \subseteq Job,
           \A d \in Dir \ {j} : mnt'[d] = mnt[d] /\ (d \in pinned => d \in pinned'),
           \A p \in Part : /\ part'[p].content = part[p].content
                           /\ part'[p].bcd \in {part[p].bcd, "fixed"},
           s.pc # "new", fix[j].pc # "new" => mnt'[j] \in {mnt[j], NoPart},
           StorePart(j)'
    PROVE  MInv'
<1>1. /\ fix \in [Fixes -> FixState] /\ fix'[j] = s
      /\ \A k \in Fixes : k # j => fix'[k] = fix[k]
  BY DEF MInv, TypeOK, FixTypeOK
<1>2. /\ mnt \in [Dir -> Part \cup {NoPart}]
      /\ Applies \subseteq Dir /\ Fixes \subseteq Dir /\ j \notin Applies
      /\ apply \in [Applies -> ApplyState]
      /\ part \in [Part -> [fs : FsType, content : Content, bcd : Store]]
  BY DEF MInv, TypeOK, TableTypeOK, ApplyTypeOK, Dir
<1>3. TypeOK'
  <2>1. fix' \in [Fixes -> FixState]
    BY <1>1
  <2>2. ApplyTypeOK' /\ formats' \in 0..MaxFormats /\ touched' \subseteq Part /\ held' \subseteq Part
    BY DEF MInv, TypeOK, TableTypeOK, ApplyTypeOK
  <2> QED
    BY <2>1, <2>2 DEF TypeOK, TableTypeOK, FixTypeOK
<1>4. ASSUME NEW k \in Applies PROVE OwnPart(k)' /\ FoundPart(k)' /\ ImagePart(k)'
  <2>1. OwnPart(k) /\ FoundPart(k) /\ ImagePart(k) /\ mnt'[k] = mnt[k]
        /\ apply[k] \in ApplyState
    BY <1>2 DEF MInv
  <2>2. OwnPart(k)'
    BY <2>1 DEF OwnPart, Target
  <2>3. FoundPart(k)'
    <3> DEFINE d == apply[k].found
    <3> SUFFICES ASSUME apply[k].pc = "umount", ~apply[k].raced PROVE FoundPart(k)'
      BY <2>1 DEF FoundPart
    <3>1. /\ d \in Dir /\ mnt[d] \in {Target(k), NoPart}
          /\ d \in Applies => apply[d].writer # "none"
          /\ d \in Fixes => fix[d].pc # "new"
      BY <2>1 DEF FoundPart
    <3>2. mnt'[d] \in {Target(k), NoPart}
      BY <3>1
    <3>3. d \in Fixes => fix'[d].pc # "new"
      BY <1>1, <3>1
    <3> QED
      BY <3>1, <3>2, <3>3 DEF FoundPart, Target
  <2>4. ImagePart(k)'
    <3>1. Disturbed(k)' <=> Disturbed(k)
      BY DEF Disturbed, Target
    <3>2. Target(k) \in Part => part'[Target(k)].content = part[Target(k)].content
      OBVIOUS
    <3>3. Target(k) = NoPart => apply[k].writer = "none" /\ apply[k].result # "ok"
      BY <2>1 DEF OwnPart
    <3>4. Target(k) \in Part \cup {NoPart}
      BY <2>1 DEF Target, ApplyState
    <3> QED
      BY <2>1, <3>1, <3>2, <3>3, <3>4 DEF ImagePart, Target
  <2> QED
    BY <2>2, <2>3, <2>4
<1>5. ASSUME NEW k \in Fixes, k # j PROVE StorePart(k)'
  <2>1. /\ StorePart(k) /\ fix'[k] = fix[k] /\ mnt'[k] = mnt[k]
        /\ k \in pinned => k \in pinned'
    BY <1>1, <1>2, <1>5 DEF MInv
  <2>2. ASSUME fix[k].esp \in Part, part[fix[k].esp].bcd = "fixed"
        PROVE  part'[fix[k].esp].bcd = "fixed"
    BY <2>2
  <2> QED
    BY <2>1, <2>2 DEF StorePart
<1> QED
  BY <1>3, <1>4, <1>5 DEF MInv

\* BCDFix: the store is mounted in the partition, which is held by that.
LEMMA FixStep ==
    ASSUME MInv, NEW j \in Fixes, Fix(j), UNCHANGED <<apply, crashed, formats, touched>>
    PROVE  MInv'
<1>1. /\ fix \in [Fixes -> FixState] /\ fix[j] \in FixState /\ StorePart(j)
      /\ part \in [Part -> [fs : FsType, content : Content, bcd : Store]]
      /\ mnt \in [Dir -> Part \cup {NoPart}] /\ pinned \subseteq Job /\ j \in Dir /\ j \in Job
  BY DEF MInv, TypeOK, FixTypeOK, TableTypeOK, Dir
<1>2. ASSUME NEW s \in FixState, fix' = [fix EXCEPT ![j] = s], s.pc # "new",
             UNCHANGED <<held, part>>,
             mnt' \in [Dir -> Part \cup {NoPart}], pinned' \subseteq Job,
             \A d \in Dir \ {j} : mnt'[d] = mnt[d] /\ (d \in pinned => d \in pinned'),
             fix[j].pc # "new" => mnt'[j] \in {mnt[j], NoPart}, StorePart(j)'
      PROVE  MInv'
  BY <1>1, <1>2, OneFix
<1>3. ASSUME NEW p \in Part, MountEsp(j, p) PROVE MInv'
  <2> DEFINE s == [fix[j] EXCEPT !.pc = "find", !.esp = p]
  <2>1. fix' = [fix EXCEPT ![j] = s] /\ mnt' = [mnt EXCEPT ![j] = p]
        /\ UNCHANGED <<part, held, pinned>> /\ fix[j].pc = "new"
    BY <1>1, <1>3 DEF MountEsp, Mount, FixAt
  <2>2. s \in FixState /\ s.pc = "find" /\ s.esp = p /\ s.result = fix[j].result
    BY <1>1 DEF FixState
  <2> HIDE DEF s
  <2>3. fix'[j] = s /\ mnt'[j] = p /\ \A d \in Dir \ {j} : mnt'[d] = mnt[d]
    BY <1>1, <2>1
  <2>4. mnt' \in [Dir -> Part \cup {NoPart}]
    BY <1>1, <2>1
  <2>5. fix[j].result = "none"
    BY <1>1, <2>1 DEF StorePart
  <2>6. StorePart(j)'
    BY <2>2, <2>3, <2>5 DEF StorePart
  <2> QED
    BY <1>1, <1>2, <2>1, <2>2, <2>3, <2>4, <2>6
<1> DEFINE goes(pc, r) == [fix[j] EXCEPT !.pc = pc, !.result = r]
<1>4. ASSUME NEW pc \in {"walk", "leaveBcd", "leaveEsp", "done"}, NEW r \in {"none", "ok", "error"},
             FixGoto(j, pc, r), UNCHANGED <<held, mnt>>,
             part' \in [Part -> [fs : FsType, content : Content, bcd : Store]],
             \A p \in Part : /\ part'[p].content = part[p].content
                             /\ part'[p].bcd \in {part[p].bcd, "fixed"},
             pinned' \subseteq Job, \A d \in Dir \ {j} : d \in pinned => d \in pinned',
             fix[j].pc = "new" => pc = "done",
             fix[j].pc # "new" => pc # "done",
             pc \in {"walk", "leaveBcd"} =>
                 j \in pinned' /\ mnt[j] = fix[j].esp /\ fix[j].esp \in Part,
             pc = "walk" => r = "none",
             pc = "leaveBcd" /\ r = "ok" => part'[fix[j].esp].bcd = "fixed"
      PROVE  MInv'
  <2>1. fix' = [fix EXCEPT ![j] = goes(pc, r)]
    BY <1>1, <1>4 DEF FixGoto
  <2>2. goes(pc, r) \in FixState /\ goes(pc, r).pc = pc /\ goes(pc, r).result = r
        /\ goes(pc, r).esp = fix[j].esp /\ goes(pc, r).left = fix[j].left
    BY <1>1, <1>4 DEF FixState
  <2> HIDE DEF goes
  <2>3. fix'[j] = goes(pc, r)
    BY <1>1, <2>1
  <2>4. mnt[j] # NoPart => pc # "done"
    BY <1>1, <1>4 DEF StorePart
  <2>5. StorePart(j)'
    BY <1>4, <2>2, <2>3, <2>4 DEF StorePart
  <2> QED
    BY <1>1, <1>4, <2>1, <2>2, <2>5, OneFix
<1>5. CASE MountEspError(j)
  BY <1>1, <1>4, <1>5 DEF MountEspError, FixAt, tableVars
<1>6. CASE MountStore(j)
  <2>1. /\ fix[j].pc = "find" /\ mnt[j] # NoPart /\ pinned' = pinned \cup {j}
        /\ FixGoto(j, "walk", "none") /\ UNCHANGED <<part, mnt, held>>
    BY <1>6 DEF MountStore, FixAt
  <2>2. mnt[j] = fix[j].esp /\ fix[j].esp \in Part
    BY <1>1, <2>1 DEF StorePart
  <2> QED
    BY <1>1, <1>4, <2>1, <2>2
<1>7. CASE MountStoreError(j)
  BY <1>1, <1>4, <1>7 DEF MountStoreError, FixAt, tableVars
<1>8. CASE RewriteStore(j)
  <2>1. /\ fix[j].pc = "walk" /\ j \in pinned /\ mnt[j] = fix[j].esp /\ fix[j].esp \in Part
    BY <1>1, <1>8 DEF RewriteStore, FixAt, StorePart
  <2> DEFINE r == [part[mnt[j]] EXCEPT !.bcd = "fixed"]
  <2>2. part' = [part EXCEPT ![mnt[j]] = r]
    BY <1>8 DEF RewriteStore
  <2>3. r \in [fs : FsType, content : Content, bcd : Store] /\ r.bcd = "fixed"
        /\ r.content = part[mnt[j]].content
    BY <1>1, <2>1 DEF Store
  <2> HIDE DEF r
  <2>4. /\ part' \in [Part -> [fs : FsType, content : Content, bcd : Store]]
        /\ \A p \in Part : /\ part'[p].content = part[p].content
                           /\ part'[p].bcd \in {part[p].bcd, "fixed"}
        /\ part'[fix[j].esp].bcd = "fixed"
    BY <1>1, <2>1, <2>2, <2>3
  <2>5. FixGoto(j, "leaveBcd", "ok") /\ UNCHANGED <<mnt, held, pinned>>
    BY <1>8 DEF RewriteStore
  <2> QED
    BY <1>1, <1>4, <2>1, <2>4, <2>5
<1>9. CASE RewriteError(j)
  <2>1. /\ fix[j].pc = "walk" /\ j \in pinned /\ mnt[j] = fix[j].esp /\ fix[j].esp \in Part
    BY <1>1, <1>9 DEF RewriteError, FixAt, StorePart
  <2> QED
    BY <1>1, <1>4, <1>9, <2>1 DEF RewriteError, tableVars
<1>10. CASE LeaveStore(j)
  <2>1. fix[j].result \in {"none", "ok", "error"}
    BY <1>1 DEF FixState
  <2> QED
    BY <1>1, <1>4, <1>10, <2>1 DEF LeaveStore, FixAt
<1>11. CASE LeaveEsp(j)
  <2>1. fix[j].pc = "leaveEsp"
    BY <1>11 DEF LeaveEsp, FixAt
  <2>2. CASE Unmount(j) /\ FixGoto(j, "done", fix[j].result)
    <3> DEFINE s == [fix[j] EXCEPT !.pc = "done", !.result = fix[j].result]
    <3>1. fix' = [fix EXCEPT ![j] = s] /\ mnt' = [mnt EXCEPT ![j] = NoPart]
          /\ UNCHANGED <<part, held, pinned>>
      BY <1>1, <2>2 DEF Unmount, FixGoto
    <3>2. s \in FixState /\ s.pc = "done"
      BY <1>1 DEF FixState
    <3> HIDE DEF s
    <3>3. fix'[j] = s /\ mnt'[j] = NoPart /\ \A d \in Dir \ {j} : mnt'[d] = mnt[d]
      BY <1>1, <3>1
    <3>4. mnt' \in [Dir -> Part \cup {NoPart}]
      BY <1>1, <3>1
    <3>5. StorePart(j)'
      BY <3>2, <3>3 DEF StorePart
    <3> QED
      BY <1>1, <1>2, <3>1, <3>2, <3>3, <3>4, <3>5
  <2>3. CASE /\ fix' = [fix EXCEPT ![j].pc = "done", ![j].left = TRUE]
             /\ UNCHANGED tableVars
    <3> DEFINE s == [fix[j] EXCEPT !.pc = "done", !.left = TRUE]
    <3>1. fix' = [fix EXCEPT ![j] = s] /\ UNCHANGED <<part, mnt, held, pinned>>
      BY <1>1, <2>3 DEF tableVars
    <3>2. s \in FixState /\ s.pc = "done" /\ s.left = TRUE
      BY <1>1 DEF FixState
    <3> HIDE DEF s
    <3>3. fix'[j] = s
      BY <1>1, <3>1
    <3>5. StorePart(j)'
      BY <3>2, <3>3 DEF StorePart
    <3> QED
      BY <1>1, <1>2, <3>1, <3>2, <3>5
  <2> QED
    BY <1>11, <2>2, <2>3 DEF LeaveEsp
<1> QED
  BY <1>3, <1>5, <1>6, <1>7, <1>8, <1>9, <1>10, <1>11 DEF Fix

\* FormatDisks formats a partition nobody uses; a call on it is disturbed.
LEMMA FormatStep ==
    ASSUME MInv, NEW p \in Part, FormatDisks(p)
    PROVE  MInv'
<1>1. /\ part \in [Part -> [fs : FsType, content : Content, bcd : Store]]
      /\ touched \subseteq Part /\ formats \in 0..MaxFormats /\ MaxFormats \in Nat
      /\ apply \in [Applies -> ApplyState] /\ Fixes \subseteq Dir
  BY DEF MInv, TypeOK, TableTypeOK, ApplyTypeOK, Dir
<1>2. PICK fs \in {"ntfs", "fat32", "none"} : Mkfs(p, fs)
  BY DEF FormatDisks
<1> DEFINE new == [fs |-> fs, content |-> [by |-> Nobody, whole |-> FALSE], bcd |-> "none"]
<1>3. /\ MountsOf(p) = {} /\ part' = [part EXCEPT ![p] = new]
      /\ UNCHANGED <<mnt, held, pinned, apply, crashed, fix>>
      /\ touched' = touched \cup {p} /\ formats' = formats + 1 /\ formats < MaxFormats
  BY <1>2 DEF Mkfs, Free, FormatDisks
<1>4. new \in [fs : FsType, content : Content, bcd : Store]
  BY DEF FsType, Content, Store
<1> HIDE DEF new
<1>5. /\ part' \in [Part -> [fs : FsType, content : Content, bcd : Store]]
      /\ \A q \in Part : q # p => part'[q] = part[q]
  BY <1>1, <1>3, <1>4
<1>6. TypeOK'
  <2>1. formats' \in 0..MaxFormats /\ touched' \subseteq Part
    BY <1>1, <1>3
  <2> QED
    BY <1>3, <1>5, <2>1 DEF MInv, TypeOK, TableTypeOK, ApplyTypeOK, FixTypeOK
<1>7. ASSUME NEW k \in Applies PROVE OwnPart(k)' /\ FoundPart(k)' /\ ImagePart(k)'
  <2>1. OwnPart(k) /\ FoundPart(k) /\ ImagePart(k) /\ Target(k) \in Part \cup {NoPart}
    BY <1>1 DEF MInv, ApplyState, Target
  <2>2. OwnPart(k)' /\ FoundPart(k)'
    BY <1>3, <2>1 DEF OwnPart, FoundPart, Target
  <2>3. ImagePart(k)'
    <3>1. ~Disturbed(k)' => ~Disturbed(k) /\ Target(k) # p
      BY <1>3 DEF Disturbed, Target
    <3>2. Target(k) = NoPart => apply[k].writer = "none" /\ apply[k].result # "ok"
      BY <2>1 DEF OwnPart
    <3> QED
      BY <1>3, <1>5, <2>1, <3>1, <3>2 DEF ImagePart, Target
  <2> QED
    BY <2>2, <2>3
<1>8. ASSUME NEW k \in Fixes PROVE StorePart(k)'
  <2>1. StorePart(k)
    BY DEF MInv
  <2>2. fix[k].pc = "leaveBcd" => fix[k].esp \in Part /\ fix[k].esp # p
    BY <1>1, <1>3, <2>1 DEF StorePart, MountsOf
  <2> QED
    BY <1>3, <1>5, <2>1, <2>2 DEF StorePart
<1> QED
  BY <1>6, <1>7, <1>8 DEF MInv
--------------------------------------------------------------------------------
\* Before any call the host mounts what it likes on its own directories.
LEMMA MInit == Init => MInv
<1> SUFFICES ASSUME Init PROVE MInv
  OBVIOUS
<1>1. /\ apply = [j \in Applies |-> NewApply] /\ fix = [j \in Fixes |-> NewFix]
      /\ crashed = FALSE /\ formats = 0 /\ touched = {} /\ held = {} /\ pinned = {}
      /\ part \in [Part -> [fs : FsType, content : {[by |-> Nobody, whole |-> TRUE]},
                           bcd : {"none", "stale"}]]
  BY DEF Init, TableInit, ApplyInit, FixInit
<1>2. PICK H \in SUBSET {p \in Part : part[p].fs # "none"} :
        mnt = [d \in Dir |-> IF d \in H THEN d ELSE NoPart]
  BY DEF Init, TableInit
<1>3. /\ mnt \in [Dir -> Part \cup {NoPart}] /\ \A j \in Job : mnt[j] = NoPart
  BY <1>2 DEF Dir
<1>4. NewApply \in ApplyState /\ NewFix \in FixState
  BY DEF NewApply, ApplyState, NewFix, FixState, FsType
<1>5. part \in [Part -> [fs : FsType, content : Content, bcd : Store]]
  <2> DEFINE c == [by |-> Nobody, whole |-> TRUE]
  <2>1. c \in Content
    BY DEF Content
  <2>2. part \in [Part -> [fs : FsType, content : {c}, bcd : {"none", "stale"}]]
    BY <1>1
  <2> HIDE DEF c
  <2>3. \A r \in [fs : FsType, content : {c}, bcd : {"none", "stale"}] :
            r \in [fs : FsType, content : Content, bcd : Store]
    BY <2>1 DEF Store
  <2> QED
    BY <2>2, <2>3
<1>6. TypeOK
  <2>1. TableTypeOK /\ FixTypeOK /\ formats \in 0..MaxFormats /\ touched \subseteq Part
    BY <1>1, <1>3, <1>4, <1>5 DEF TableTypeOK, FixTypeOK
  <2>2. apply \in [Applies -> ApplyState] /\ crashed \in BOOLEAN
    BY <1>1, <1>4
  <2>3. \A j \in Applies : apply[j].pc = "new"
    BY <1>1 DEF NewApply
  <2> QED
    BY <2>1, <2>2, <2>3 DEF TypeOK, ApplyTypeOK
<1>7. ASSUME NEW j \in Applies PROVE OwnPart(j) /\ FoundPart(j) /\ ImagePart(j)
  BY <1>1, <1>3 DEF OwnPart, FoundPart, ImagePart, NewApply, Target
<1>8. ASSUME NEW j \in Fixes PROVE StorePart(j)
  BY <1>1, <1>3 DEF StorePart, NewFix
<1> QED
  BY <1>6, <1>7, <1>8 DEF MInv

\* Every step of every call keeps the invariant.
LEMMA MStep == MInv /\ [Next]_vars => MInv'
<1> SUFFICES ASSUME MInv, [Next]_vars PROVE MInv'
  OBVIOUS
<1>1. CASE UNCHANGED vars
  <2>1. crashed' \in BOOLEAN
    BY <1>1 DEF vars, MInv, TypeOK, ApplyTypeOK
  <2> QED
    BY <1>1, <2>1, CrashKeeps DEF vars
<1>2. ASSUME NEW j \in Applies, Applying(j) PROVE MInv'
  BY <1>2, BeginStep, HandlerStep, WimapplyStep, PrepareStep, ExtractStep
     DEF Applying, Apply, Wimapply, Prepare
<1>3. ASSUME NEW j \in Fixes, Fixing(j) PROVE MInv'
  BY <1>3, FixStep DEF Fixing
<1> QED
  BY <1>1, <1>2, <1>3, FormatStep DEF Next

\* The inductive invariant holds in every state.
THEOREM MInvariant == Spec => []MInv
BY MInit, MStep, PTL DEF Spec

\* With any number of calls and partitions: an image answered "ok" is whole on its
\* partition, but for the exceptions OkMeansApplied names.
THEOREM ImageApplied == Spec => []OkMeansApplied
<1>1. MInv => OkMeansApplied
  BY DEF MInv, ImagePart, OkMeansApplied
<1> QED
  BY <1>1, MInvariant, PTL

\* Every temporary mount has a call or goroutine that will remove it, or one failed to.
THEOREM MountsOwned == Spec => []MountsAreOwned
<1>1. MInv => MountsAreOwned
  BY DEF MInv, OwnPart, StorePart, MountsAreOwned, Owning
<1> QED
  BY <1>1, MInvariant, PTL

\* No other call takes the partition away from under a mounted store, and a BCDFix
\* that reports success has rewritten it.
THEOREM StoreFixed == Spec => []StoreIsFixed
<1>1. MInv => StoreIsFixed
  BY DEF MInv, StorePart, StoreIsFixed
<1> QED
  BY <1>1, MInvariant, PTL

\* Nobody unmounts what is not its own but an ApplyImage of that very partition.
THEOREM OthersMounted == Spec => OthersStayMounted
<1>1. MInv /\ [Next]_vars =>
        \A d \in Dir : mnt[d] # NoPart /\ mnt'[d] = NoPart =>
            \/ d \in Applies /\ apply[d].writer = "unmount"
            \/ d \in Fixes /\ fix[d].pc = "leaveEsp"
            \/ \E j \in Applies : apply[j].pc = "umount" /\ apply[j].found = d
                                  /\ (Target(j) = mnt[d] \/ apply[j].raced)
  <2> SUFFICES ASSUME MInv, [Next]_vars, NEW d \in Dir, mnt[d] # NoPart, mnt'[d] = NoPart
               PROVE  \/ d \in Applies /\ apply[d].writer = "unmount"
                      \/ d \in Fixes /\ fix[d].pc = "leaveEsp"
                      \/ \E j \in Applies : apply[j].pc = "umount" /\ apply[j].found = d
                                            /\ (Target(j) = mnt[d] \/ apply[j].raced)
    OBVIOUS
  <2>1. mnt \in [Dir -> Part \cup {NoPart}] /\ Applies \subseteq Dir /\ Fixes \subseteq Dir
    BY DEF MInv, TypeOK, TableTypeOK, Dir
  <2>2. ASSUME NEW e \in Dir, mnt' = [mnt EXCEPT ![e] = NoPart] PROVE d = e
    BY <2>1, <2>2
  <2>3. ASSUME NEW e \in Dir, NEW p \in Part, mnt' = [mnt EXCEPT ![e] = p] PROVE FALSE
    BY <2>1, <2>3
  <2>4. CASE UNCHANGED mnt
    BY <2>4
  <2>5. ASSUME NEW j \in Applies, Applying(j), ~UNCHANGED mnt
        PROVE  \/ d \in Applies /\ apply[d].writer = "unmount"
               \/ \E i \in Applies : apply[i].pc = "umount" /\ apply[i].found = d
                                     /\ (Target(i) = mnt[d] \/ apply[i].raced)
    <3>1. Leave(j) \/ UnmountFound(j) \/ MountTarget(j)
      BY <2>5 DEF Applying, Apply, ApplyImage, ApplyNotFound, Wimapply, WimapplyStart,
           WimapplyError, WimapplyEnd, Prepare, OpenImage, OpenError, Check, Format, Mkfs,
           PrepareError, Extract, ExtractBegin, ExtractCrash, ExtractEnd, ExtractError, Finish,
           LeaveError, tableVars
    <3>2. CASE Leave(j)
      <4>1. apply[j].writer = "unmount" /\ mnt' = [mnt EXCEPT ![j] = NoPart]
        BY <2>5, <3>2 DEF Leave, Unmount, Writing, tableVars
      <4> QED
        BY <2>1, <2>2, <4>1
    <3>3. CASE UnmountFound(j)
      <4>1. /\ apply[j].pc = "umount" /\ apply[j].found \in Dir
            /\ mnt[apply[j].found] # NoPart
            /\ mnt' = [mnt EXCEPT ![apply[j].found] = NoPart]
        BY <3>3, OfCall DEF UnmountFound, Unmount, At, FoundPart
      <4>2. apply[j].found = d
        BY <2>2, <4>1
      <4>3. ~apply[j].raced => Target(j) = mnt[d]
        BY <4>1, <4>2, OfCall DEF FoundPart
      <4> QED
        BY <4>1, <4>2, <4>3
    <3>4. CASE MountTarget(j)
      <4>1. mnt' = [mnt EXCEPT ![j] = Target(j)] /\ Target(j) \in Part
        BY <2>5, <3>4, OfCall DEF MountTarget, Mount, At
      <4> QED
        BY <2>1, <2>3, <4>1
    <3> QED
      BY <3>1, <3>2, <3>3, <3>4
  <2>6. ASSUME NEW j \in Fixes, Fixing(j), ~UNCHANGED mnt
        PROVE  d \in Fixes /\ fix[d].pc = "leaveEsp"
    <3>1. (\E p \in Part : MountEsp(j, p)) \/ LeaveEsp(j)
      BY <2>6 DEF Fixing, Fix, MountEspError, MountStore, MountStoreError, RewriteStore,
           RewriteError, LeaveStore, tableVars
    <3>2. CASE LeaveEsp(j)
      <4>1. fix[j].pc = "leaveEsp" /\ mnt' = [mnt EXCEPT ![j] = NoPart]
        BY <2>6, <3>2 DEF LeaveEsp, FixAt, Unmount, tableVars
      <4> QED
        BY <2>1, <2>2, <4>1
    <3>3. ASSUME NEW p \in Part, MountEsp(j, p) PROVE FALSE
      <4>1. mnt' = [mnt EXCEPT ![j] = p]
        BY <3>3 DEF MountEsp, Mount
      <4> QED
        BY <2>1, <2>3, <4>1
    <3> QED
      BY <3>1, <3>2, <3>3
  <2>7. ASSUME NEW p \in Part, FormatDisks(p) PROVE UNCHANGED mnt
    BY <2>7 DEF FormatDisks, Mkfs
  <2> QED
    BY <2>4, <2>5, <2>6, <2>7 DEF Next, vars, tableVars
<1> QED
  BY <1>1, MInvariant, PTL DEF Spec, OthersStayMounted

\* The tables, the applies and the fixes keep their types, for any disks and any
\* number of calls.
THEOREM TypeCorrect == Spec => []TypeOK
<1>1. MInv => TypeOK
  BY DEF MInv
<1> QED
  BY <1>1, MInvariant, PTL
================================================================================
