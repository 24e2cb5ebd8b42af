--------------------------------- MODULE Upload ---------------------------------
(***************************************************************************)
(* service.DeploymentService.Upload: a stream that first names a file,     *)
(* then carries its data, then its hash.  Per call, the handler's          *)
(* goroutine writes the file while a second one sends the progress; a      *)
(* mutex and the unbuffered channel stop are to end the second before the  *)
(* hash is checked.  Calls share nothing but the files and the process.    *)
(*                                                                         *)
(* A file is a sequence of blocks; a block is known by the call that sent  *)
(* it and its place in what that call sent.                                *)
(***************************************************************************)
EXTENDS Integers, Sequences, FiniteSets

CONSTANTS
    Call,        \* the Upload calls
    Careful,     \* the calls whose client sends one Info, all its data, its hash
    Path,        \* the files
    NoPath,      \* no file opened yet
    MaxSize,     \* bound: blocks a client announces, or sends in one chunk
    MaxData,     \* bound: blocks a call receives in all
    MaxInfos,    \* bound: Info messages a call receives
    Old          \* the "call" that wrote what the files hold at first

ASSUME UploadAssumption ==
    /\ Careful \subseteq Call
    /\ MaxSize \in Nat \ {0} /\ MaxData \in Nat /\ MaxInfos \in Nat
    /\ Old \notin Call /\ NoPath \notin Path

VARIABLES
    file,       \* per path, the blocks on disk
    call,       \* per call, the handler's locals and its goroutines
    crashed     \* the progress goroutine divided by zero: the daemon is gone

vars == <<file, call, crashed>>

Size == 0..MaxSize
Block == (Call \cup {Old}) \X Nat

CallState ==
    [pc : {"recv", "stop", "lock", "copy", "done"},
     path : Path \cup {NoPath},   \* file, nil before the first Info
     pos : Nat,                   \* the offset of file
     total : Size,
     received : Nat,
     locked : BOOLEAN,            \* mu
     looping : BOOLEAN,           \* the progress goroutine is in its loop
     final : Nat,                 \* progress goroutines in their last Send
     own : Nat,                   \* of the blocks hashed so far, those the client sent
     good : BOOLEAN,              \* the hash received is the one of the client's data
     infos : Nat,                 \* ghost: Info messages received
     opened : SUBSET Path,        \* ghost: the files opened so far
     broken : BOOLEAN,            \* ghost: the stream or a file operation failed
     result : {"none", "ok", "error"}]

NewCall ==
    [pc |-> "recv", path |-> NoPath, pos |-> 0, total |-> 0, received |-> 0,
     locked |-> FALSE, looping |-> FALSE, final |-> 0, own |-> 0, good |-> TRUE,
     infos |-> 0, opened |-> {}, broken |-> FALSE, result |-> "none"]

TypeOK ==
    /\ file \in [Path -> Seq(Block)]
    /\ call \in [Call -> CallState]
    /\ crashed \in BOOLEAN

Init ==
    /\ \E n \in [Path -> Size] :
           file = [p \in Path |-> [i \in 1..n[p] |-> <<Old, i>>]]
    /\ call = [c \in Call |-> NewCall]
    /\ crashed = FALSE
--------------------------------------------------------------------------------
Receiving(c) == ~crashed /\ call[c].pc = "recv"

\* A step of call c leaves its locals and goroutines as s says.
Becomes(c, s) == call' = [call EXCEPT ![c] = s]

\* The handler returns; what its goroutines do does not depend on it.
Ended(s, result) == [s EXCEPT !.pc = "done", !.result = result]

Fail(c) ==
    /\ Becomes(c, Ended([call[c] EXCEPT !.broken = TRUE], "error"))
    /\ UNCHANGED <<file, crashed>>

\* Recv fails: the client is gone, or ServiceCtxt stopped the server.
RecvError(c) == Receiving(c) /\ Fail(c)

\* An Info message of size n, which a careful client sends once.
Announced(c, n) ==
    /\ Receiving(c)
    /\ call[c].infos < (IF c \in Careful THEN 1 ELSE MaxInfos)
    /\ c \in Careful => n > 0

WithInfo(c, n) ==
    [call[c] EXCEPT !.total = n, !.infos = @ + 1]

\* Mutant of Info: a size of 0 does not end the call.
InfoOfAnySize(c) ==
    /\ \E p \in Path, n \in Size :
        /\ Announced(c, n)
        /\ LET opened == [WithInfo(c, n) EXCEPT !.path = p, !.pos = 0, !.opened = @ \cup {p}]
           IN Becomes(c, IF call[c].locked THEN Ended(opened, "error")
                         ELSE [opened EXCEPT !.locked = TRUE, !.looping = TRUE])
    /\ UNCHANGED <<file, crashed>>

\* The directory and the file can be opened.  An existing file keeps its blocks.
\* A size of 0 ends the call; so does a mutex that an earlier Info holds.
Info(c) ==
    /\ \E p \in Path, n \in Size :
        /\ Announced(c, n)
        /\ LET opened == [WithInfo(c, n) EXCEPT !.path = p, !.pos = 0, !.opened = @ \cup {p}]
           IN Becomes(c, IF call[c].locked THEN Ended(opened, "error")
                         ELSE IF n = 0 THEN Ended(opened, "ok")
                         ELSE [opened EXCEPT !.locked = TRUE, !.looping = TRUE])
    /\ UNCHANGED <<file, crashed>>

\* They cannot: total is set already.
InfoError(c) ==
    /\ \E n \in Size :
        /\ Announced(c, n)
        /\ Becomes(c, Ended([WithInfo(c, n) EXCEPT !.broken = TRUE], "error"))
    /\ UNCHANGED <<file, crashed>>

\* What f holds once blocks first..first+k-1 of c's data are written at pos.
Written(f, c, pos, first, k) ==
    [i \in 1..(IF pos + k > Len(f) THEN pos + k ELSE Len(f)) |->
        IF i \in (pos + 1)..(pos + k) THEN <<c, first + i - pos - 1>> ELSE f[i]]

\* Mutant of Chunk: the progress goroutine is stopped only beyond total.
ChunkBeyond(c) ==
    /\ Receiving(c)
    /\ call[c].path # NoPath
    /\ \E k \in Size :
        /\ c \in Careful => k > 0 /\ call[c].received + k <= call[c].total
        /\ call[c].received + k <= MaxData
        /\ file' = [file EXCEPT ![call[c].path] =
                       Written(@, c, call[c].pos, call[c].received + 1, k)]
        /\ Becomes(c, [call[c] EXCEPT
               !.pos = @ + k,
               !.received = @ + k,
               !.pc = IF call[c].received + k > call[c].total THEN "stop" ELSE "recv"])
    /\ UNCHANGED crashed

\* A chunk of k blocks, written at the file's offset.  When that makes received
\* equal to total the handler goes on to stop <- 0.
Chunk(c) ==
    /\ Receiving(c)
    /\ call[c].path # NoPath
    /\ \E k \in Size :
        /\ c \in Careful => k > 0 /\ call[c].received + k <= call[c].total
        /\ call[c].received + k <= MaxData
        /\ file' = [file EXCEPT ![call[c].path] =
                       Written(@, c, call[c].pos, call[c].received + 1, k)]
        /\ Becomes(c, [call[c] EXCEPT
               !.pos = @ + k,
               !.received = @ + k,
               !.pc = IF call[c].received + k = call[c].total THEN "stop" ELSE "recv"])
    /\ UNCHANGED crashed

\* file.Write fails: the disk is full, or file is still nil.
ChunkError(c) ==
    /\ Receiving(c)
    /\ c \in Careful => call[c].path # NoPath
    /\ Fail(c)

\* Mutant of StopProgress: the mutex stays locked.
StopKeepsLock(c) ==
    /\ ~crashed /\ call[c].pc = "stop" /\ call[c].looping
    /\ Becomes(c, [call[c] EXCEPT !.pc = "recv", !.looping = FALSE, !.final = @ + 1])
    /\ UNCHANGED <<file, crashed>>

\* Mutant of StopProgress: the send on stop does not wait for its receiver.
StopUnheard(c) ==
    /\ ~crashed /\ call[c].pc = "stop" /\ call[c].looping
    /\ Becomes(c, [call[c] EXCEPT !.pc = "recv", !.locked = FALSE])
    /\ UNCHANGED <<file, crashed>>

\* stop <- 0 is received by the progress goroutine, which goes on to its last
\* Send; the handler unlocks the mutex.
StopProgress(c) ==
    /\ ~crashed /\ call[c].pc = "stop" /\ call[c].looping
    /\ Becomes(c, [call[c] EXCEPT !.pc = "recv", !.locked = FALSE,
                                  !.looping = FALSE, !.final = @ + 1])
    /\ UNCHANGED <<file, crashed>>

\* The hash: mu.Lock() waits for ever if the handler itself still holds mu.
Hash(c) ==
    /\ Receiving(c)
    /\ c \in Careful => call[c].infos = 1 /\ call[c].received = call[c].total
    /\ \E g \in IF c \in Careful THEN {TRUE} ELSE BOOLEAN :
        Becomes(c,
            IF call[c].locked THEN [call[c] EXCEPT !.pc = "lock", !.good = g]
            ELSE IF call[c].path = NoPath
                THEN Ended([call[c] EXCEPT !.locked = TRUE], "error")
            ELSE [call[c] EXCEPT !.pc = "copy", !.good = g, !.locked = TRUE, !.pos = 0])
    /\ UNCHANGED <<file, crashed>>

\* io.Copy reads the file block by block, as it is at that moment.
CopyBlock(c) ==
    /\ ~crashed /\ call[c].pc = "copy"
    /\ call[c].pos < Len(file[call[c].path])
    /\ Becomes(c, [call[c] EXCEPT
           !.pos = @ + 1,
           !.own = IF file[call[c].path][call[c].pos + 1] = <<c, call[c].pos + 1>>
                       THEN @ + 1 ELSE @])
    /\ UNCHANGED <<file, crashed>>

\* Mutant of Verify: the length is not compared.
VerifyHashOnly(c) ==
    /\ ~crashed /\ call[c].pc = "copy"
    /\ call[c].pos = Len(file[call[c].path])
    /\ LET matches == call[c].own = call[c].pos /\ call[c].good
       IN Becomes(c, Ended(call[c], IF matches THEN "ok" ELSE "error"))
    /\ UNCHANGED <<file, crashed>>

\* At the end of the file, its length and its hash decide.
Verify(c) ==
    /\ ~crashed /\ call[c].pc = "copy"
    /\ call[c].pos = Len(file[call[c].path])
    /\ LET matches == call[c].pos = call[c].total /\ call[c].own = call[c].pos /\ call[c].good
       IN Becomes(c, Ended(call[c], IF matches THEN "ok" ELSE "error"))
    /\ UNCHANGED <<file, crashed>>

\* Seek or a read fails.
CopyError(c) == ~crashed /\ call[c].pc = "copy" /\ Fail(c)
--------------------------------------------------------------------------------
\* The progress goroutine, in its loop or at the end of it, computes
\* received * 100 / total; then it sends, which changes nothing here.
Divide(c) == crashed' = (call[c].total = 0)

Progress(c) ==
    /\ ~crashed /\ call[c].looping
    /\ Divide(c)
    /\ UNCHANGED <<file, call>>

LastProgress(c) ==
    /\ ~crashed /\ call[c].final > 0
    /\ Divide(c)
    /\ Becomes(c, [call[c] EXCEPT !.final = @ - 1])
    /\ UNCHANGED file
--------------------------------------------------------------------------------
Handler(c) ==
    \/ StopProgress(c)
    \/ CopyBlock(c) \/ Verify(c)

Client(c) == Info(c) \/ Chunk(c) \/ Hash(c)

Fault(c) == RecvError(c) \/ InfoError(c) \/ ChunkError(c) \/ CopyError(c)

Next ==
    \E c \in Call :
        Handler(c) \/ Client(c) \/ Fault(c) \/ Progress(c) \/ LastProgress(c)

Spec == Init /\ [][Next]_vars

\* Goroutines are scheduled, and a careful client goes on with its upload.
Fairness ==
    \A c \in Call :
        /\ WF_vars(Handler(c)) /\ WF_vars(LastProgress(c))
        /\ c \in Careful => WF_vars(Client(c))

FairSpec == Spec /\ Fairness
--------------------------------------------------------------------------------
Senders(c) == (IF call[c].looping THEN 1 ELSE 0) + call[c].final

\* Another call has opened the file c writes.
Shared(c) == \E d \in Call \ {c} : call[c].path \in call[d].opened
OldLonger(c) == \E i \in 1..Len(file[call[c].path]) : i > call[c].total

(***************************************************************************)
(* The mutex is held for as long as a progress goroutine loops: while the  *)
(* call lives there is at most one in its loop, and a call that was told   *)
(* its upload is good has left none behind.  Two of them send on a stream  *)
(* at the same time, one at its end, only for a client that sends a second *)
(* Info message.                                                           *)
(***************************************************************************)
LockMeansLooping ==
    \A c \in Call :
        /\ call[c].pc \in {"recv", "stop", "lock"} => call[c].locked = call[c].looping
        /\ call[c].pc = "copy" \/ call[c].result = "ok" => ~call[c].looping
        /\ Senders(c) <= call[c].infos

(***************************************************************************)
(* A careful client's call never waits for its own mutex, and when it is   *)
(* at stop <- 0 the progress goroutine is there to receive.                *)
(***************************************************************************)
CarefulNeverSelfBlocks ==
    \A c \in Careful :
        /\ call[c].pc # "lock"
        /\ call[c].pc = "stop" => call[c].looping

(***************************************************************************)
(* A call answered "ok" after its hash leaves the client's data, whole and *)
(* alone, in the file, unless another call opened the same file.           *)
(***************************************************************************)
OkMeansStored ==
    \A c \in Call :
        call[c].result = "ok" /\ call[c].total > 0 /\ call[c].infos = 1 /\ ~Shared(c) =>
            file[call[c].path] = [i \in 1..call[c].total |-> <<c, i>>]

(***************************************************************************)
(* Only a client that sends a second Info message, of size 0, can make the *)
(* progress goroutine divide by zero and end every other client's call.    *)
(***************************************************************************)
CrashNeedsSecondInfo ==
    crashed => \E c \in Call \ Careful : call[c].infos > 1 /\ call[c].total = 0

(***************************************************************************)
(* A careful client's call ends, and ends well but for the causes listed:  *)
(* a fault, another call on the same file, or a longer file that was there *)
(* before and is not truncated.                                            *)
(***************************************************************************)
CarefulUploadEnds ==
    \A c \in Careful :
        <>(\/ crashed \/ call[c].broken
           \/ call[c].result = "ok"
           \/ call[c].result = "error" /\ (Shared(c) \/ OldLonger(c)))

(***************************************************************************)
(* The progress goroutines of a careful client's call end, unless a fault  *)
(* ended the call first: then nobody is left to send on stop.              *)
(***************************************************************************)
NoProgressLeft ==
    \A c \in Careful : <>[](crashed \/ call[c].broken \/ Senders(c) = 0)
================================================================================
