------------------------------- MODULE Recording -------------------------------
(***************************************************************************)
(* service.RecordingService on Windows: rec_start launches ffmpeg and a    *)
(* goroutine that accepts its progress connection and reads it; rec_stop   *)
(* writes a "q" to ffmpeg's standard input.  reader says that a recording  *)
(* is on; mu guards it.  status is a string that the reading goroutine     *)
(* writes without mu, and that the RPCs read without it.                   *)
(*                                                                         *)
(* Calls that wait for mu hold nothing, so they are not represented: mu    *)
(* says where the one call inside it is.  A start that is refused, or that *)
(* fails before it sets reader, changes nothing.                           *)
(***************************************************************************)
EXTENDS Integers, Sequences

CONSTANT MaxStarts   \* bound: recordings started

ASSUME RecordingAssumption == MaxStarts \in Nat

VARIABLES
    mu,         \* "free", or where the call that holds it is: "spawn", "mark", "write"
    status,     \* the status string, "torn" when two writes of it were mixed
    reader,     \* the recording that is on, an index into runs; 0 for nil
    stdin,      \* proc_stdin_wr: the recording whose pipe it is, 0 for no handle
    runs        \* per rec_start that set reader: its ffmpeg and its goroutine

vars == <<mu, status, reader, stdin, runs>>

Run ==
    [proc : {"none", "running", "gone"},
     quit : BOOLEAN,            \* a "q" is in its stdin
     connected : BOOLEAN,       \* ffmpeg connected to the progress port
     link : {"none", "accept", "reading", "write", "ended"}]

NewRun == [proc |-> "none", quit |-> FALSE, connected |-> FALSE, link |-> "none"]

Live == {"accept", "reading", "write"}   \* the goroutine of the run is there

TypeOK ==
    /\ mu \in {"free", "spawn", "mark", "write"}
    /\ status \in {"idle", "starting", "recording", "stopping", "finish", "torn"}
    /\ runs \in Seq(Run) /\ Len(runs) <= MaxStarts
    /\ reader \in 0..Len(runs)
    /\ stdin \in 0..Len(runs)

Init ==
    /\ mu = "free" /\ status = "idle"
    /\ reader = 0 /\ stdin = 0
    /\ runs = <<>>
--------------------------------------------------------------------------------
\* Mutant of StartLock: reader is not looked at.
StartAnyway ==
    /\ mu = "free"
    /\ Len(runs) < MaxStarts
    /\ mu' = "spawn"
    /\ runs' = Append(runs, NewRun)
    /\ reader' = Len(runs) + 1
    /\ UNCHANGED <<status, stdin>>

\* rec_start: nothing is recorded, the progress port is open, reader is set.
StartLock ==
    /\ mu = "free" /\ reader = 0
    /\ Len(runs) < MaxStarts
    /\ mu' = "spawn"
    /\ runs' = Append(runs, NewRun)
    /\ reader' = Len(runs) + 1
    /\ UNCHANGED <<status, stdin>>

\* StartProcessAsCurrentUser fails, before or after it replaced proc_stdin_wr;
\* reader stays as it is.
SpawnError ==
    /\ mu = "spawn"
    /\ mu' = "free"
    /\ stdin' \in {stdin, reader}
    /\ UNCHANGED <<status, reader, runs>>

\* Mutant of Spawn: the first pipe is kept.
SpawnKeepsPipe ==
    /\ mu = "spawn"
    /\ mu' = "mark"
    /\ stdin' = IF stdin = 0 THEN reader ELSE stdin
    /\ runs' = [runs EXCEPT ![reader].proc = "running", ![reader].link = "accept"]
    /\ UNCHANGED <<status, reader>>

\* ffmpeg runs, and the goroutine that accepts its connection.
Spawn ==
    /\ mu = "spawn"
    /\ mu' = "mark"
    /\ stdin' = reader
    /\ runs' = [runs EXCEPT ![reader].proc = "running", ![reader].link = "accept"]
    /\ UNCHANGED <<status, reader>>

\* rec_start ends: the goroutine may have set status before.
MarkStarting ==
    /\ mu = "mark"
    /\ mu' = "free"
    /\ status' = "starting"
    /\ UNCHANGED <<reader, stdin, runs>>

\* rec_stop, also when nothing is recorded.
Stop ==
    /\ mu = "free" /\ status # "stopping"
    /\ mu' = "write"
    /\ status' = "stopping"
    /\ UNCHANGED <<reader, stdin, runs>>

\* WriteFile: the parent holds the pipe's read end too, so it fails only without
\* a handle, and what it wrote to a process that is gone stays in the pipe.
StopWrite ==
    /\ mu = "write"
    /\ mu' = "free"
    /\ runs' = IF stdin = 0 THEN runs ELSE [runs EXCEPT ![stdin].quit = TRUE]
    /\ UNCHANGED <<status, reader, stdin>>
--------------------------------------------------------------------------------
Runs == 1..Len(runs)
Linked(g, from) == g \in Runs /\ runs[g].link = from
Link(g, to) == runs' = [runs EXCEPT ![g].link = to]

\* ffmpeg connects, or never does.
Connect(g) ==
    /\ g \in Runs /\ runs[g].proc = "running"
    /\ runs' = [runs EXCEPT ![g].connected = TRUE]
    /\ UNCHANGED <<mu, status, reader, stdin>>

\* listen.Accept returns.
Accept(g) ==
    /\ Linked(g, "accept") /\ runs[g].connected
    /\ Link(g, "reading")
    /\ UNCHANGED <<mu, status, reader, stdin>>

\* An out_time line is read while status is something else than "recording".
OutTime(g) ==
    /\ Linked(g, "reading")
    /\ status # "recording"
    /\ Link(g, "write")
    /\ UNCHANGED <<mu, status, reader, stdin>>

\* status = "recording", without mu.
MarkRecording(g) ==
    /\ Linked(g, "write")
    /\ status' = "recording"
    /\ Link(g, "reading")
    /\ UNCHANGED <<mu, reader, stdin>>

\* The data race with rec_start's last write: the pointer of one string and the
\* length of the other.  ("stopping" cannot do so: it is as long as "recording".)
TornWrite(g) ==
    /\ Linked(g, "write") /\ mu = "mark"
    /\ mu' = "free"
    /\ status' = "torn"
    /\ Link(g, "reading")
    /\ UNCHANGED <<reader, stdin>>

\* Mutant of ReadFailed: status stays, so it may go on saying "recording".
ReadFailedSilently(g) ==
    /\ Linked(g, "reading") /\ mu = "free"
    /\ reader' = 0
    /\ Link(g, "ended")
    /\ UNCHANGED <<mu, status, stdin>>

\* Mutant of ReadFailed: reader is not set to nil.
ReadFailedKeepsReader(g) ==
    /\ Linked(g, "reading") /\ mu = "free"
    /\ status' = "finish"
    /\ Link(g, "ended")
    /\ UNCHANGED <<mu, reader, stdin>>

\* The connection ends, with its process or before it.
ReadFailed(g) ==
    /\ Linked(g, "reading") /\ mu = "free"
    /\ status' = "finish"
    /\ reader' = 0
    /\ Link(g, "ended")
    /\ UNCHANGED <<mu, stdin>>

\* ffmpeg ends: on a "q", or by itself.
Exit(g) ==
    /\ g \in Runs /\ runs[g].proc = "running"
    /\ runs' = [runs EXCEPT ![g].proc = "gone"]
    /\ UNCHANGED <<mu, status, reader, stdin>>
--------------------------------------------------------------------------------
Ffmpeg(g) == Connect(g) \/ Exit(g)
Reading(g) == Accept(g) \/ OutTime(g) \/ MarkRecording(g) \/ TornWrite(g) \/ ReadFailed(g)
InMutex == SpawnError \/ Spawn \/ MarkStarting \/ StopWrite

Next ==
    \/ StartLock \/ Stop \/ InMutex
    \/ \E g \in Runs : Ffmpeg(g) \/ Reading(g)

Spec == Init /\ [][Next]_vars

\* Goroutines are scheduled, ffmpeg ends when it reads a "q", the lines left in a
\* broken connection run out, and a sync.Mutex starves no one.  Nobody has to call.
Fairness ==
    /\ WF_vars(InMutex)
    /\ \A g \in 1..MaxStarts :
        /\ WF_vars(g \in Runs /\ runs[g].quit /\ Exit(g))
        /\ WF_vars(g \in Runs /\ (Accept(g) \/ MarkRecording(g)))
        /\ SF_vars(g \in Runs /\ runs[g].proc = "gone" /\ ReadFailed(g))

FairSpec == Spec /\ Fairness
--------------------------------------------------------------------------------
(***************************************************************************)
(* One recording at a time: the goroutine of a recording is there only     *)
(* while reader points to it, so no second one can be reading, setting     *)
(* status or clearing reader, however an old recording ended.              *)
(***************************************************************************)
OneRecording ==
    \A g \in Runs : runs[g].link \in Live => reader = g

(***************************************************************************)
(* A stop reaches the recording that is on: proc_stdin_wr, which a start   *)
(* that fails replaces too, is the pipe of the ffmpeg being read.          *)
(***************************************************************************)
StopReachesReader ==
    reader # 0 /\ runs[reader].link \in Live => stdin = reader

(***************************************************************************)
(* What Status answers about a recording is true although status is        *)
(* written without mu: "recording", or a mixture of two strings, only      *)
(* while reader is set.                                                    *)
(***************************************************************************)
RecordingHasReader == status \in {"recording", "torn"} => reader # 0

(***************************************************************************)
(* reader never outlives what it stands for, which would refuse every      *)
(* later start: when no call is at work it is set for a goroutine that can *)
(* still clear it, or for a start that failed, the one leak there is.      *)
(***************************************************************************)
ReaderExplained ==
    reader # 0 /\ mu = "free" =>
        runs[reader].link \in Live \/ runs[reader].proc = "none"

(***************************************************************************)
(* A recording that was told to quit ends, and another can be started,     *)
(* once its ffmpeg has connected: also when the line that was being read   *)
(* overwrote "stopping" with "recording".                                  *)
(***************************************************************************)
QuitEnds ==
    \A g \in 1..MaxStarts :
        (g \in Runs /\ runs[g].quit /\ runs[g].connected) ~> reader # g
================================================================================
