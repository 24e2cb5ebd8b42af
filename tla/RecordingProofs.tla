---------------------------- MODULE RecordingProofs ----------------------------
(***************************************************************************)
(* One recording at a time, for any number of starts: the inductive        *)
(* invariant RInv of Recording and the safety properties that follow.      *)
(***************************************************************************)
EXTENDS Recording, TLAPS

Started(g) == g \in Runs /\ runs[g].link \in Live

\* reader, mu and the runs agree: what a call in mu is about to do is still due,
\* and only the run that reader points to has a goroutine.
RInv ==
    /\ TypeOK
    /\ \A g \in Runs : runs[g].proc = "none" <=> runs[g].link = "none"
    /\ OneRecording
    /\ mu = "spawn" => reader # 0 /\ runs[reader].link = "none"
    /\ mu = "mark" => Started(reader)
    /\ reader # 0 /\ mu # "spawn" => Started(reader) \/ runs[reader].proc = "none"
    /\ Started(reader) => stdin = reader
    /\ RecordingHasReader

\* A string of a run is one of those the code uses.
LEMMA RunFields ==
    ASSUME TypeOK, NEW g \in Runs
    PROVE  runs[g] \in Run
  BY DEF TypeOK, Runs

\* Replacing an element of a sequence leaves the others, and the length.
LEMMA SeqExcept ==
    ASSUME NEW S, NEW s \in Seq(S), NEW i \in 1..Len(s), NEW e \in S
    PROVE  LET t == [s EXCEPT ![i] = e]
           IN  /\ t \in Seq(S) /\ Len(t) = Len(s) /\ t[i] = e
               /\ \A h \in 1..Len(s) : h # i => t[h] = s[h]
  OBVIOUS

\* The steps of ffmpeg and of the goroutine change at most one run, and keep it
\* typed.
LEMMA LinkTyped ==
    ASSUME TypeOK, NEW g \in Runs,
           NEW to \in {"none", "accept", "reading", "write", "ended"}, Link(g, to)
    PROVE  /\ runs' \in Seq(Run) /\ Len(runs') = Len(runs) /\ Runs' = Runs
           /\ runs'[g] = [runs[g] EXCEPT !.link = to]
           /\ \A h \in Runs : h # g => runs'[h] = runs[h]
<1>1. runs \in Seq(Run) BY DEF TypeOK
<1>2. [runs[g] EXCEPT !.link = to] \in Run
  BY RunFields DEF Run
<1>. QED
  BY <1>1, <1>2 DEF Link, Runs

\* No rec_start has run yet.
LEMMA RInit == Init => RInv
<1> SUFFICES ASSUME Init PROVE RInv
  OBVIOUS
<1>1. runs = <<>> /\ runs \in Seq(Run) /\ Len(runs) = 0
  BY DEF Init
<1>2. Runs = {}
  BY <1>1 DEF Runs
<1>3. TypeOK
  BY <1>1, RecordingAssumption DEF Init, TypeOK
<1>. QED
  BY <1>2, <1>3 DEF Init, RInv, OneRecording, RecordingHasReader, Started

\* Every step of rec_start, rec_stop, ffmpeg and the reading goroutine keeps RInv.
LEMMA RStep == RInv /\ [Next]_vars => RInv'
<1> SUFFICES ASSUME RInv, [Next]_vars PROVE RInv'
  OBVIOUS
<1> USE RecordingAssumption
<1> USE DEF RInv, OneRecording, RecordingHasReader, Started, Live
<1>0. TypeOK /\ runs \in Seq(Run) /\ Len(runs) \in Nat
  BY DEF TypeOK
<1>1. CASE StartLock
  <2>1. NewRun \in Run
    BY DEF NewRun, Run
  <2>2. /\ runs' \in Seq(Run) /\ Len(runs') = Len(runs) + 1
        /\ runs'[Len(runs) + 1] = NewRun
        /\ \A h \in Runs : runs'[h] = runs[h]
    BY <1>0, <1>1, <2>1 DEF StartLock, Runs
  <2>3. Runs' = Runs \cup {Len(runs) + 1}
    BY <1>0, <2>2 DEF Runs
  <2>4. TypeOK'
    BY <1>0, <1>1, <2>2 DEF StartLock, TypeOK
  <2>5. runs'[Len(runs) + 1].proc = "none" /\ runs'[Len(runs) + 1].link = "none"
    BY <2>2 DEF NewRun
  <2>6. \A h \in Runs : runs[h].link \notin Live
    BY <1>1 DEF StartLock, Runs
  <2>. QED
    BY <1>0, <1>1, <2>2, <2>3, <2>4, <2>5, <2>6 DEF StartLock, Runs
<1>2. CASE SpawnError
  <2>1. reader # 0 /\ runs[reader].link = "none" /\ reader \in Runs
    BY <1>0, <1>2 DEF SpawnError, TypeOK, Runs
  <2>. QED
    BY <1>0, <1>2, <2>1 DEF SpawnError, TypeOK, Runs
<1>3. CASE Spawn
  <2>1. reader \in Runs
    BY <1>0, <1>3 DEF Spawn, TypeOK, Runs
  <2>2. runs[reader] \in Run
    BY <2>1, RunFields, <1>0
  <2>3. /\ runs' \in Seq(Run) /\ Len(runs') = Len(runs)
        /\ runs'[reader] = [runs[reader] EXCEPT !.proc = "running", !.link = "accept"]
        /\ \A h \in Runs : h # reader => runs'[h] = runs[h]
    <3>. DEFINE e == [runs[reader] EXCEPT !.proc = "running", !.link = "accept"]
    <3>1. e \in Run
      BY <2>2 DEF Run
    <3>2. runs' = [runs EXCEPT ![reader] = e]
      BY <1>3, <2>1, <2>2 DEF Spawn, Runs, Run
    <3>. HIDE DEF e
    <3>3. reader \in 1..Len(runs)
      BY <2>1 DEF Runs
    <3>4. runs' \in Seq(Run) /\ Len(runs') = Len(runs) /\ runs'[reader] = e
      BY <1>0, <3>1, <3>2, <3>3, SeqExcept
    <3>5. \A h \in Runs : h # reader => runs'[h] = runs[h]
      BY <1>0, <3>1, <3>2, <3>3, SeqExcept DEF Runs
    <3>. QED
      BY <3>4, <3>5 DEF e
  <2>4. Runs' = Runs
    BY <2>3 DEF Runs
  <2>5. runs'[reader].link = "accept" /\ runs'[reader].proc = "running"
    BY <2>2, <2>3 DEF Run
  <2>6. TypeOK' /\ mu' = "mark" /\ status' = status /\ reader' = reader /\ stdin' = reader
    BY <1>0, <1>3, <2>1, <2>3 DEF Spawn, TypeOK, Runs
  <2>7. reader # 0
    BY <1>3 DEF Spawn
  <2>8. \A h \in Runs' : runs'[h].proc = "none" <=> runs'[h].link = "none"
    <3>. SUFFICES ASSUME NEW h \in Runs
                  PROVE  runs'[h].proc = "none" <=> runs'[h].link = "none"
      BY <2>4
    <3>1. CASE h = reader
      BY <2>5, <3>1
    <3>2. CASE h # reader
      <4>1. runs'[h] = runs[h]
        BY <2>3, <3>2
      <4>. QED
        BY <1>0, <4>1
    <3>. QED
      BY <3>1, <3>2
  <2>9. OneRecording'
    BY <2>3, <2>4, <2>6
  <2>10. Started(reader)'
    BY <2>1, <2>4, <2>5, <2>6
  <2>. QED
    BY <2>6, <2>7, <2>8, <2>9, <2>10
<1>4. CASE MarkStarting
  BY <1>0, <1>4 DEF MarkStarting, TypeOK, Runs
<1>5. CASE Stop
  BY <1>0, <1>5 DEF Stop, TypeOK, Runs
<1>6. CASE StopWrite
  <2>1. CASE stdin = 0
    BY <1>0, <1>6, <2>1 DEF StopWrite, TypeOK, Runs
  <2>2. CASE stdin # 0
    <3>1. stdin \in Runs
      BY <1>0, <2>2 DEF TypeOK, Runs
    <3>2. runs[stdin] \in Run
      BY <3>1, RunFields, <1>0
    <3>3. [runs[stdin] EXCEPT !.quit = TRUE] \in Run
      BY <3>2 DEF Run
    <3>4. /\ runs' \in Seq(Run) /\ Len(runs') = Len(runs) /\ Runs' = Runs
          /\ runs'[stdin] = [runs[stdin] EXCEPT !.quit = TRUE]
          /\ \A h \in Runs : h # stdin => runs'[h] = runs[h]
      <4>. DEFINE e == [runs[stdin] EXCEPT !.quit = TRUE]
      <4>1. runs' = [runs EXCEPT ![stdin] = e] /\ e \in Run /\ stdin \in 1..Len(runs)
        BY <1>6, <2>2, <3>1, <3>3 DEF StopWrite, Runs
      <4>. HIDE DEF e
      <4>2. runs' \in Seq(Run) /\ Len(runs') = Len(runs) /\ runs'[stdin] = e
        BY <1>0, <4>1, SeqExcept
      <4>3. \A h \in Runs : h # stdin => runs'[h] = runs[h]
        BY <1>0, <4>1, SeqExcept DEF Runs
      <4>. QED
        BY <4>2, <4>3 DEF e, Runs
    <3>5. \A h \in Runs : runs'[h].link = runs[h].link /\ runs'[h].proc = runs[h].proc
      BY <3>2, <3>4 DEF Run
    <3>. QED
      BY <1>0, <1>6, <3>4, <3>5 DEF StopWrite, TypeOK, Runs
  <2>. QED
    BY <2>1, <2>2
<1>7. ASSUME NEW g \in Runs, Ffmpeg(g) PROVE RInv'
  <2>1. runs[g] \in Run
    BY RunFields, <1>0
  <2>2. /\ runs' \in Seq(Run) /\ Len(runs') = Len(runs) /\ Runs' = Runs
        /\ \A h \in Runs : runs'[h].link = runs[h].link
        /\ \A h \in Runs : runs'[h].proc = "none" <=> runs[h].proc = "none"
    <3>1. CASE Connect(g)
      <4>1. [runs[g] EXCEPT !.connected = TRUE] \in Run
        BY <2>1 DEF Run
      <4>. QED
        BY <1>0, <2>1, <3>1, <4>1 DEF Connect, Runs, Run
    <3>2. CASE Exit(g)
      <4>1. [runs[g] EXCEPT !.proc = "gone"] \in Run
        BY <2>1 DEF Run
      <4>. QED
        BY <1>0, <2>1, <3>2, <4>1 DEF Exit, Runs, Run
    <3>. QED
      BY <1>7, <3>1, <3>2 DEF Ffmpeg
  <2>3. UNCHANGED <<mu, status, reader, stdin>>
    BY <1>7 DEF Ffmpeg, Connect, Exit
  <2>. QED
    BY <1>0, <2>2, <2>3 DEF TypeOK, Runs
<1>8. ASSUME NEW g \in Runs, Reading(g) PROVE RInv'
  <2>1. runs[g] \in Run /\ runs[g].link \in Live /\ reader = g /\ stdin = g
    BY <1>0, <1>8, RunFields
    DEF Reading, Accept, OutTime, MarkRecording, TornWrite, ReadFailed, Linked
  <2>2. CASE Accept(g) \/ OutTime(g) \/ MarkRecording(g) \/ TornWrite(g)
    <3>1. PICK to \in {"reading", "write"} : Link(g, to)
      BY <2>2 DEF Accept, OutTime, MarkRecording, TornWrite
    <3>2. /\ runs' \in Seq(Run) /\ Len(runs') = Len(runs) /\ Runs' = Runs
          /\ runs'[g] = [runs[g] EXCEPT !.link = to]
          /\ \A h \in Runs : h # g => runs'[h] = runs[h]
      BY <1>0, <3>1, LinkTyped
    <3>3. runs'[g].link = to /\ runs'[g].proc = runs[g].proc /\ runs[g].proc # "none"
      BY <1>0, <2>1, <3>2 DEF Run
    <3>4. reader' = reader /\ stdin' = stdin /\ mu' \in {mu, "free"} /\ mu \in {"spawn", "mark", "free", "write"}
      BY <1>0, <2>2 DEF Accept, OutTime, MarkRecording, TornWrite, TypeOK
    <3>5. status' \in {status, "recording", "torn"}
      BY <2>2 DEF Accept, OutTime, MarkRecording, TornWrite
    <3>6. mu # "spawn"
      BY <2>1
    <3>7. g # 0 /\ TypeOK'
      BY <1>0, <3>2, <3>4, <3>5 DEF TypeOK, Runs
    <3>8. \A h \in Runs' : /\ runs'[h].proc = "none" <=> runs'[h].link = "none"
                           /\ runs'[h].link \in Live => h = g
      <4>. SUFFICES ASSUME NEW h \in Runs
                    PROVE  /\ runs'[h].proc = "none" <=> runs'[h].link = "none"
                           /\ runs'[h].link \in Live => h = g
        BY <3>2
      <4>1. CASE h = g
        BY <3>1, <3>3, <4>1
      <4>2. CASE h # g
        <5>1. runs'[h] = runs[h]
          BY <3>2, <4>2
        <5>. QED
          BY <1>0, <2>1, <5>1
      <4>. QED
        BY <4>1, <4>2
    <3>9. Started(reader)'
      BY <2>1, <3>1, <3>2, <3>3, <3>4
    <3>. QED
      BY <2>1, <3>4, <3>6, <3>7, <3>8, <3>9
  <2>3. CASE ReadFailed(g)
    <3>1. /\ runs' \in Seq(Run) /\ Len(runs') = Len(runs) /\ Runs' = Runs
          /\ runs'[g] = [runs[g] EXCEPT !.link = "ended"]
          /\ \A h \in Runs : h # g => runs'[h] = runs[h]
      BY <1>0, <2>3, LinkTyped DEF ReadFailed
    <3>2. runs'[g].link = "ended" /\ runs'[g].proc = runs[g].proc /\ runs[g].proc # "none"
      BY <1>0, <2>1, <3>1 DEF Run
    <3>3. TypeOK'
      BY <1>0, <2>3, <3>1 DEF TypeOK, ReadFailed, Runs
    <3>4. mu' = "free" /\ status' = "finish" /\ reader' = 0
      BY <2>3 DEF ReadFailed
    <3>5. \A h \in Runs' : runs'[h].proc = "none" <=> runs'[h].link = "none"
      <4>. SUFFICES ASSUME NEW h \in Runs
                    PROVE  runs'[h].proc = "none" <=> runs'[h].link = "none"
        BY <3>1
      <4>1. CASE h = g
        BY <4>1, <3>2
      <4>2. CASE h # g
        <5>1. runs'[h] = runs[h]
          BY <3>1, <4>2
        <5>. QED
          BY <1>0, <5>1
      <4>. QED
        BY <4>1, <4>2
    <3>6. \A h \in Runs' : runs'[h].link \notin Live
      BY <2>1, <3>1, <3>2
    <3>7. ~ Started(reader)'
      BY <3>4, <3>6
    <3>. QED
      BY <3>3, <3>4, <3>5, <3>6, <3>7
  <2>. QED
    BY <1>8, <2>2, <2>3 DEF Reading
<1>9. CASE UNCHANGED vars
  BY <1>0, <1>9 DEF vars, TypeOK, Runs
<1>. QED
  BY <1>1, <1>2, <1>3, <1>4, <1>5, <1>6, <1>7, <1>8, <1>9 DEF Next, InMutex

\* RInv holds in every state of the recording service.
THEOREM RInvariant == Spec => []RInv
<1>. QED
  BY RInit, RStep, PTL DEF Spec

\* Only the recording that reader points to has a goroutine, so two recordings
\* never write status or clear reader at the same time.
THEOREM SingleRecording == Spec => []OneRecording
<1>1. RInv => OneRecording
  BY DEF RInv
<1>. QED
  BY <1>1, RInvariant, PTL

\* rec_stop writes its "q" to the ffmpeg that is being read.
THEOREM StopReaches == Spec => []StopReachesReader
<1>1. RInv => StopReachesReader
  BY DEF RInv, StopReachesReader, Started, TypeOK, Runs
<1>. QED
  BY <1>1, RInvariant, PTL

\* Status says "recording" only while reader is set, though it is written without mu.
THEOREM StatusIsTrue == Spec => []RecordingHasReader
<1>1. RInv => RecordingHasReader
  BY DEF RInv
<1>. QED
  BY <1>1, RInvariant, PTL

\* reader outlives its goroutine only after a start that failed.
THEOREM ReaderIsExplained == Spec => []ReaderExplained
<1>1. RInv => ReaderExplained
  BY DEF RInv, ReaderExplained, Started
<1>. QED
  BY <1>1, RInvariant, PTL

\* Every variable of the recording service keeps its type, for any number of runs.
THEOREM TypeCorrect == Spec => []TypeOK
<1>1. RInv => TypeOK
  BY DEF RInv
<1>. QED
  BY <1>1, RInvariant, PTL
================================================================================
