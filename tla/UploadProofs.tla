------------------------------ MODULE UploadProofs ------------------------------
(***************************************************************************)
(* For any number of calls, files, sizes and Info messages: what the mutex *)
(* of Upload guarantees, that a careful client never blocks on it, and     *)
(* which client can end the daemon.                                        *)
(***************************************************************************)
EXTENDS Upload, SequenceTheorems, TLAPS

USE UploadAssumption

\* A handler that is not yet checking the hash.
Early(s) == s.pc \in {"recv", "stop", "lock"}

\* The mutex is held exactly while the progress goroutine loops.
LockPart(s) ==
    /\ Early(s) => s.locked = s.looping
    /\ s.pc = "copy" \/ s.result = "ok" => ~s.looping
    /\ Early(s) \/ s.pc = "copy" => s.result = "none"

\* A progress goroutine divides by zero only after a second Info of size 0.
ZeroPart(s) ==
    s.looping \/ s.final > 0 => s.infos > 0 /\ (s.total > 0 \/ s.infos > 1)

\* Each Info message starts at most one progress goroutine.
Running(s) == (IF s.looping THEN 1 ELSE 0) + s.final
SendPart(s) == Running(s) <= s.infos

\* How far a careful client's upload is.
CarefulPart(s) ==
    /\ s.infos \in {0, 1} /\ s.pc # "lock"
    /\ s.infos = 0 => s.path = NoPath /\ s.received = 0 /\ ~s.locked
    /\ s.pc = "recv" /\ s.infos = 1 =>
           /\ s.received <= s.total
           /\ s.locked <=> s.received < s.total
    /\ s.pc = "stop" => s.locked /\ s.received = s.total

UInv ==
    /\ call \in [Call -> CallState]
    /\ \A c \in Call : LockPart(call[c]) /\ ZeroPart(call[c]) /\ SendPart(call[c])
    /\ \A c \in Careful : CarefulPart(call[c])
    /\ crashed => \E c \in Call : call[c].infos > 1 /\ call[c].total = 0

\* One handler's or goroutine's step changes its own call; what has to be shown
\* of it is that the new state of that call is as UInv says.
LEMMA OneCall ==
    ASSUME UInv, NEW c \in Call, NEW s \in CallState,
           call' = [call EXCEPT ![c] = s],
           LockPart(s), ZeroPart(s) /\ SendPart(s), c \in Careful => CarefulPart(s),
           crashed' => s.infos > 1 /\ s.total = 0
    PROVE  UInv'
<1>1. /\ call' \in [Call -> CallState] /\ call'[c] = s
      /\ \A d \in Call : d # c => call'[d] = call[d]
  BY DEF UInv
<1>2. crashed' => \E d \in Call : call'[d].infos > 1 /\ call'[d].total = 0
  BY <1>1
<1> QED
  BY <1>1, <1>2 DEF UInv

\* A call that ends keeps what UInv says of its goroutines.
LEMMA EndedCall ==
    ASSUME NEW s \in CallState, NEW r \in {"ok", "error"},
           ZeroPart(s) /\ SendPart(s), r = "ok" => ~s.looping
    PROVE  /\ Ended(s, r) \in CallState
           /\ LockPart(Ended(s, r)) /\ ZeroPart(Ended(s, r)) /\ SendPart(Ended(s, r))
           /\ CarefulPart(Ended(s, r)) <=>
                 /\ s.infos \in {0, 1}
                 /\ s.infos = 0 => s.path = NoPath /\ s.received = 0 /\ ~s.locked
BY DEF Ended, CallState, LockPart, ZeroPart, SendPart, Running, CarefulPart, Early

\* A step that ends the call, seen from the state s it had before returning.
LEMMA EndStep ==
    ASSUME UInv, NEW c \in Call, NEW s \in CallState, NEW r \in {"ok", "error"},
           ~crashed', Becomes(c, Ended(s, r)),
           ZeroPart(s) /\ SendPart(s), r = "ok" => ~s.looping,
           c \in Careful =>
               /\ s.infos \in {0, 1}
               /\ s.infos = 0 => s.path = NoPath /\ s.received = 0 /\ ~s.locked
    PROVE  UInv'
<1>1. /\ Ended(s, r) \in CallState
      /\ LockPart(Ended(s, r)) /\ ZeroPart(Ended(s, r)) /\ SendPart(Ended(s, r))
      /\ c \in Careful => CarefulPart(Ended(s, r))
  BY EndedCall
<1> QED
  BY <1>1, OneCall DEF Becomes

\* Ending a call with an error, wherever it is, keeps the invariant.
LEMMA FailStep ==
    ASSUME UInv, ~crashed, NEW c \in Call, Fail(c)
    PROVE  UInv'
<1>1. /\ call[c] \in CallState /\ ZeroPart(call[c]) /\ SendPart(call[c])
      /\ c \in Careful => CarefulPart(call[c])
  BY DEF UInv
<1> DEFINE s == [call[c] EXCEPT !.broken = TRUE]
<1>2. /\ s \in CallState /\ ZeroPart(s) /\ SendPart(s)
      /\ s.infos = call[c].infos /\ s.path = call[c].path
      /\ s.received = call[c].received /\ s.locked = call[c].locked
  BY <1>1 DEF CallState, ZeroPart, SendPart, Running
<1>3. Becomes(c, Ended(s, "error")) /\ ~crashed'
  BY DEF Fail
<1> HIDE DEF s
<1> QED
  BY <1>1, <1>2, <1>3, EndStep DEF CarefulPart

\* An Info message, before what becomes of the file and the mutex.
LEMMA InfoState ==
    ASSUME UInv, NEW c \in Call, NEW n \in Size, Announced(c, n)
    PROVE  LET s == WithInfo(c, n)
           IN /\ s \in CallState /\ ZeroPart(s) /\ Running(s) < s.infos
              /\ s.pc = "recv" /\ s.result = "none" /\ s.locked = s.looping
              /\ s.locked = call[c].locked
              /\ s.total = n /\ s.infos > 0 /\ Running(s) < s.infos
              /\ c \in Careful => s.infos = 1 /\ ~s.locked /\ n > 0 /\ s.received = 0
<1>1. call[c] \in CallState /\ ZeroPart(call[c]) /\ SendPart(call[c]) /\ LockPart(call[c])
  BY DEF UInv
<1>2. c \in Careful => CarefulPart(call[c])
  BY DEF UInv
<1> DEFINE more == call[c].infos + 1
<1>8. more \in Nat /\ WithInfo(c, n) = [call[c] EXCEPT !.total = n, !.infos = more]
  BY <1>1 DEF WithInfo, CallState
<1> HIDE DEF more
<1>9. [call[c] EXCEPT !.total = n, !.infos = more] \in CallState
  BY <1>1, <1>8 DEF CallState
<1>3. /\ WithInfo(c, n) \in CallState
      /\ WithInfo(c, n).infos = call[c].infos + 1
      /\ WithInfo(c, n).total = n
      /\ WithInfo(c, n).locked = call[c].locked /\ WithInfo(c, n).looping = call[c].looping
      /\ WithInfo(c, n).final = call[c].final /\ WithInfo(c, n).received = call[c].received
      /\ WithInfo(c, n).pc = call[c].pc /\ WithInfo(c, n).result = call[c].result
  BY <1>1, <1>8, <1>9 DEF CallState, more
<1>4. /\ call[c].pc = "recv" /\ call[c].infos \in Nat /\ n \in Nat
      /\ call[c].final \in Nat /\ call[c].looping \in BOOLEAN
  BY <1>1 DEF Announced, Receiving, CallState, Size
<1>5. ZeroPart(WithInfo(c, n)) /\ WithInfo(c, n).infos > 0
  BY <1>1, <1>3, <1>4 DEF ZeroPart
<1>10. Running(WithInfo(c, n)) < WithInfo(c, n).infos
  BY <1>1, <1>3, <1>4 DEF SendPart, Running
<1>6. call[c].locked = call[c].looping /\ call[c].result = "none"
  BY <1>1, <1>4 DEF LockPart, Early
<1>7. c \in Careful =>
        WithInfo(c, n).infos = 1 /\ ~call[c].locked /\ n > 0 /\ call[c].received = 0
  BY <1>2, <1>3, <1>4 DEF CarefulPart, Announced
<1> QED
  BY <1>3, <1>4, <1>5, <1>6, <1>7, <1>10

\* An Info message: the mutex is taken and the progress goroutine started together.
LEMMA InfoStep ==
    ASSUME UInv, NEW c \in Call, Info(c)
    PROVE  UInv'
<1>1. PICK p \in Path, n \in Size :
        /\ Announced(c, n)
        /\ LET opened == [WithInfo(c, n) EXCEPT !.path = p, !.pos = 0, !.opened = @ \cup {p}]
           IN Becomes(c, IF call[c].locked THEN Ended(opened, "error")
                         ELSE IF n = 0 THEN Ended(opened, "ok")
                         ELSE [opened EXCEPT !.locked = TRUE, !.looping = TRUE])
  BY DEF Info
<1> DEFINE with == WithInfo(c, n)
<1> DEFINE opened == [with EXCEPT !.path = p, !.pos = 0, !.opened = @ \cup {p}]
<1>2. /\ with \in CallState /\ ZeroPart(with) /\ Running(with) < with.infos
      /\ with.pc = "recv" /\ with.result = "none" /\ with.locked = with.looping
      /\ with.locked = call[c].locked
      /\ with.total = n /\ with.infos > 0
      /\ c \in Careful => with.infos = 1 /\ ~with.locked /\ n > 0 /\ with.received = 0
  BY <1>1, InfoState
<1>3. Becomes(c, IF call[c].locked THEN Ended(opened, "error")
                 ELSE IF n = 0 THEN Ended(opened, "ok")
                 ELSE [opened EXCEPT !.locked = TRUE, !.looping = TRUE])
  BY <1>1
<1> HIDE DEF with
<1>4. /\ opened \in CallState /\ ZeroPart(opened) /\ Running(opened) < opened.infos
      /\ opened.pc = "recv" /\ opened.result = "none" /\ opened.locked = opened.looping
      /\ opened.locked = call[c].locked
      /\ opened.total = n /\ opened.infos > 0
      /\ c \in Careful => opened.infos = 1 /\ ~opened.locked /\ n > 0 /\ opened.received = 0
  BY <1>2 DEF CallState, ZeroPart, Running
<1> HIDE DEF opened
<1>10. opened.infos \in Nat /\ opened.final \in Nat /\ opened.looping \in BOOLEAN
  BY <1>4 DEF CallState
<1>9. SendPart(opened)
  BY <1>4, <1>10 DEF SendPart, Running
<1>5. ~crashed'
  BY <1>1 DEF Info, Announced, Receiving
<1>6. CASE call[c].locked
  BY <1>3, <1>4, <1>5, <1>6, <1>9, EndStep
<1>7. CASE ~call[c].locked /\ n = 0
  <2>1. ~opened.looping /\ c \notin Careful
    BY <1>4, <1>7
  <2>2. Becomes(c, Ended(opened, "ok"))
    BY <1>3, <1>7
  <2> QED
    BY <1>4, <1>5, <1>9, <2>1, <2>2, EndStep
<1>8. CASE ~call[c].locked /\ n # 0
  <2> DEFINE s == [opened EXCEPT !.locked = TRUE, !.looping = TRUE]
  <2>1. /\ s \in CallState /\ s.locked = TRUE /\ s.looping = TRUE /\ s.pc = "recv"
        /\ s.total = n /\ s.infos = opened.infos /\ s.result = "none"
        /\ s.received = opened.received /\ s.final = opened.final
    BY <1>4 DEF CallState
  <2>2. call' = [call EXCEPT ![c] = s]
    BY <1>3, <1>8 DEF Becomes
  <2> HIDE DEF s
  <2>3. n \in Nat /\ n > 0
    BY <1>8 DEF Size
  <2>4. LockPart(s) /\ ZeroPart(s)
    BY <1>4, <2>1, <2>3 DEF LockPart, Early, ZeroPart
  <2>6. opened.looping = FALSE
    BY <1>4, <1>8, <1>10
  <2>7. SendPart(s)
    BY <1>4, <1>10, <2>1, <2>6 DEF SendPart, Running
  <2>5. c \in Careful => CarefulPart(s)
    BY <1>4, <2>1, <2>3 DEF CarefulPart
  <2> QED
    BY <1>5, <2>1, <2>2, <2>4, <2>5, <2>7, OneCall
<1> QED
  BY <1>6, <1>7, <1>8

\* An Info message whose file cannot be opened keeps the invariant.
LEMMA InfoErrorStep ==
    ASSUME UInv, NEW c \in Call, InfoError(c)
    PROVE  UInv'
<1>1. PICK n \in Size :
        /\ Announced(c, n)
        /\ Becomes(c, Ended([WithInfo(c, n) EXCEPT !.broken = TRUE], "error"))
  BY DEF InfoError
<1> DEFINE with == WithInfo(c, n)
<1> DEFINE s == [with EXCEPT !.broken = TRUE]
<1>2. /\ with \in CallState /\ ZeroPart(with) /\ Running(with) < with.infos /\ with.infos > 0
      /\ c \in Careful => with.infos = 1
  BY <1>1, InfoState
<1>3. Becomes(c, Ended(s, "error")) /\ ~crashed'
  BY <1>1 DEF InfoError, Announced, Receiving
<1> HIDE DEF with
<1>5. with.infos \in Nat /\ Running(with) \in Nat
  BY <1>2 DEF CallState, Running
<1>6. s \in CallState /\ ZeroPart(s) /\ Running(s) = Running(with) /\ s.infos = with.infos
  BY <1>2 DEF CallState, ZeroPart, Running
<1>4. s \in CallState /\ ZeroPart(s) /\ SendPart(s) /\ (c \in Careful => s.infos = 1)
  BY <1>2, <1>5, <1>6 DEF SendPart
<1> HIDE DEF s
<1> QED
  BY <1>3, <1>4, EndStep

\* A chunk: the handler goes on, to stop <- 0 if this was the last.
LEMMA ChunkStep ==
    ASSUME UInv, NEW c \in Call, Chunk(c)
    PROVE  UInv'
<1>1. /\ call[c] \in CallState /\ ZeroPart(call[c]) /\ SendPart(call[c]) /\ LockPart(call[c])
      /\ c \in Careful => CarefulPart(call[c])
  BY DEF UInv
<1>2. PICK k \in Size :
        /\ c \in Careful => k > 0 /\ call[c].received + k <= call[c].total
        /\ Becomes(c, [call[c] EXCEPT
               !.pos = @ + k,
               !.received = @ + k,
               !.pc = IF call[c].received + k = call[c].total THEN "stop" ELSE "recv"])
  BY DEF Chunk
<1>3. call[c].pc = "recv" /\ call[c].path # NoPath /\ ~crashed'
  BY DEF Chunk, Receiving
<1> DEFINE pos == call[c].pos + k
<1> DEFINE rec == call[c].received + k
<1> DEFINE pc == IF rec = call[c].total THEN "stop" ELSE "recv"
<1> DEFINE s == [call[c] EXCEPT !.pos = pos, !.received = rec, !.pc = pc]
<1>4. pos \in Nat /\ rec \in Nat /\ k \in Nat /\ pc \in {"recv", "stop"}
      /\ call[c].received \in Nat /\ call[c].total \in Nat
  BY <1>1 DEF CallState, Size
<1>5. call' = [call EXCEPT ![c] = s]
  BY <1>1, <1>2 DEF Becomes, CallState
<1>6. /\ c \in Careful => k > 0 /\ rec <= call[c].total
      /\ rec = call[c].received + k
      /\ pc = "stop" => rec = call[c].total
      /\ pc = "recv" => rec # call[c].total
  BY <1>2
<1> HIDE DEF pos, rec, pc
<1>7. /\ s \in CallState /\ s.pc = pc /\ s.received = rec /\ s.path = call[c].path
      /\ s.total = call[c].total /\ s.infos = call[c].infos /\ s.final = call[c].final
      /\ s.locked = call[c].locked /\ s.looping = call[c].looping
      /\ s.result = call[c].result
  BY <1>1, <1>4 DEF CallState
<1> HIDE DEF s
<1>8. LockPart(s) /\ ZeroPart(s) /\ SendPart(s)
  BY <1>1, <1>3, <1>4, <1>7 DEF LockPart, Early, ZeroPart, SendPart, Running
<1>9. ASSUME c \in Careful PROVE CarefulPart(s)
  <2>1. call[c].infos = 1 /\ (call[c].locked <=> call[c].received < call[c].total)
    BY <1>1, <1>3, <1>9 DEF CarefulPart
  <2>2. call[c].locked
    BY <1>4, <1>6, <1>9, <2>1
  <2>3. pc = "recv" => rec < call[c].total
    BY <1>4, <1>6, <1>9
  <2> QED
    BY <1>4, <1>6, <1>7, <1>9, <2>1, <2>2, <2>3 DEF CarefulPart
<1> QED
  BY <1>3, <1>5, <1>7, <1>8, <1>9, OneCall

\* stop <- 0: the mutex is released as the progress goroutine leaves its loop.
LEMMA StopStep ==
    ASSUME UInv, NEW c \in Call, StopProgress(c)
    PROVE  UInv'
<1>1. /\ call[c] \in CallState /\ ZeroPart(call[c]) /\ SendPart(call[c]) /\ LockPart(call[c])
      /\ c \in Careful => CarefulPart(call[c])
  BY DEF UInv
<1> DEFINE fin == call[c].final + 1
<1> DEFINE s == [call[c] EXCEPT !.pc = "recv", !.locked = FALSE, !.looping = FALSE,
                                !.final = fin]
<1>2. call' = [call EXCEPT ![c] = s] /\ ~crashed' /\ call[c].pc = "stop" /\ call[c].looping
  BY DEF StopProgress, Becomes
<1>3. fin \in Nat
  BY <1>1 DEF CallState
<1> HIDE DEF fin
<1>4. /\ s \in CallState /\ s.pc = "recv" /\ s.received = call[c].received
      /\ s.path = call[c].path
      /\ s.total = call[c].total /\ s.infos = call[c].infos
      /\ s.locked = FALSE /\ s.looping = FALSE /\ s.result = call[c].result
      /\ s.final = fin
  BY <1>1, <1>3 DEF CallState
<1> HIDE DEF s
<1>5. LockPart(s) /\ ZeroPart(s)
  BY <1>1, <1>2, <1>4 DEF LockPart, Early, ZeroPart
<1>7. SendPart(s)
  BY <1>1, <1>2, <1>3, <1>4 DEF SendPart, Running, CallState, fin
<1>6. c \in Careful => CarefulPart(s)
  BY <1>1, <1>2, <1>4 DEF CarefulPart, CallState, Size
<1> QED
  BY <1>2, <1>4, <1>5, <1>6, <1>7, OneCall

\* The hash: a careful client's handler finds its mutex free.
LEMMA HashStep ==
    ASSUME UInv, NEW c \in Call, Hash(c)
    PROVE  UInv'
<1>1. /\ call[c] \in CallState /\ ZeroPart(call[c]) /\ SendPart(call[c]) /\ LockPart(call[c])
      /\ c \in Careful => CarefulPart(call[c])
  BY DEF UInv
<1>2. call[c].pc = "recv" /\ ~crashed' /\ UNCHANGED crashed
  BY DEF Hash, Receiving
<1>3. ASSUME c \in Careful PROVE call[c].infos = 1 /\ ~call[c].locked
  BY <1>1, <1>2, <1>3 DEF Hash, CarefulPart, CallState, Size
<1>4. PICK g \in BOOLEAN :
        Becomes(c,
            IF call[c].locked THEN [call[c] EXCEPT !.pc = "lock", !.good = g]
            ELSE IF call[c].path = NoPath
                THEN Ended([call[c] EXCEPT !.locked = TRUE], "error")
            ELSE [call[c] EXCEPT !.pc = "copy", !.good = g, !.locked = TRUE, !.pos = 0])
  BY DEF Hash
<1>5. CASE call[c].locked
  <2> DEFINE s == [call[c] EXCEPT !.pc = "lock", !.good = g]
  <2>1. /\ s \in CallState /\ s.pc = "lock" /\ s.locked = call[c].locked
        /\ s.looping = call[c].looping /\ s.result = call[c].result
        /\ s.final = call[c].final /\ s.infos = call[c].infos /\ s.total = call[c].total
    BY <1>1 DEF CallState
  <2>2. call' = [call EXCEPT ![c] = s]
    BY <1>4, <1>5 DEF Becomes
  <2> HIDE DEF s
  <2>3. LockPart(s) /\ ZeroPart(s) /\ SendPart(s) /\ c \notin Careful
    BY <1>1, <1>2, <1>3, <1>5, <2>1 DEF LockPart, Early, ZeroPart, SendPart, Running
  <2> QED
    BY <1>2, <2>1, <2>2, <2>3, OneCall
<1>6. CASE ~call[c].locked /\ call[c].path = NoPath
  <2> DEFINE s == [call[c] EXCEPT !.locked = TRUE]
  <2>1. s \in CallState /\ ZeroPart(s) /\ SendPart(s) /\ s.infos = call[c].infos
    BY <1>1 DEF CallState, ZeroPart, SendPart, Running
  <2>2. Becomes(c, Ended(s, "error"))
    BY <1>4, <1>6
  <2> HIDE DEF s
  <2> QED
    BY <1>2, <1>3, <2>1, <2>2, EndStep
<1>7. CASE ~call[c].locked /\ call[c].path # NoPath
  <2> DEFINE s == [call[c] EXCEPT !.pc = "copy", !.good = g, !.locked = TRUE, !.pos = 0]
  <2>1. /\ s \in CallState /\ s.pc = "copy" /\ s.looping = call[c].looping
        /\ s.result = call[c].result /\ s.final = call[c].final
        /\ s.infos = call[c].infos /\ s.total = call[c].total
    BY <1>1 DEF CallState
  <2>2. call' = [call EXCEPT ![c] = s]
    BY <1>4, <1>7 DEF Becomes
  <2> HIDE DEF s
  <2>3. ~call[c].looping /\ call[c].result = "none"
    BY <1>1, <1>2, <1>7 DEF LockPart, Early
  <2>4. LockPart(s) /\ ZeroPart(s) /\ SendPart(s)
    BY <1>1, <2>1, <2>3 DEF LockPart, Early, ZeroPart, SendPart, Running
  <2>5. c \in Careful => CarefulPart(s)
    BY <1>3, <2>1 DEF CarefulPart
  <2> QED
    BY <1>2, <2>1, <2>2, <2>4, <2>5, OneCall
<1> QED
  BY <1>4, <1>5, <1>6, <1>7

\* Reading the file, and what it decides.
LEMMA CopyStep ==
    ASSUME UInv, NEW c \in Call, CopyBlock(c) \/ Verify(c)
    PROVE  UInv'
<1>1. /\ call[c] \in CallState /\ ZeroPart(call[c]) /\ SendPart(call[c]) /\ LockPart(call[c])
      /\ c \in Careful => CarefulPart(call[c])
  BY DEF UInv
<1>2. call[c].pc = "copy" /\ ~crashed' /\ ~call[c].looping
  BY <1>1 DEF CopyBlock, Verify, LockPart
<1>3. CASE CopyBlock(c)
  <2> DEFINE pos == call[c].pos + 1
  <2> DEFINE own == IF file[call[c].path][call[c].pos + 1] = <<c, call[c].pos + 1>>
                        THEN call[c].own + 1 ELSE call[c].own
  <2> DEFINE s == [call[c] EXCEPT !.pos = pos, !.own = own]
  <2>1. pos \in Nat /\ own \in Nat
    BY <1>1 DEF CallState
  <2>2. call' = [call EXCEPT ![c] = s]
    BY <1>1, <1>3 DEF CopyBlock, Becomes, CallState
  <2> HIDE DEF pos, own
  <2>3. /\ s \in CallState /\ s.pc = "copy" /\ s.looping = call[c].looping
        /\ s.result = call[c].result /\ s.final = call[c].final /\ s.path = call[c].path
        /\ s.infos = call[c].infos /\ s.total = call[c].total
        /\ s.received = call[c].received /\ s.locked = call[c].locked
    BY <1>1, <1>2, <2>1 DEF CallState
  <2> HIDE DEF s
  <2>4. LockPart(s) /\ ZeroPart(s) /\ SendPart(s)
    BY <1>1, <1>2, <2>3 DEF LockPart, Early, ZeroPart, SendPart, Running
  <2>5. c \in Careful => CarefulPart(s)
    BY <1>1, <2>3 DEF CarefulPart
  <2> QED
    BY <1>2, <2>2, <2>3, <2>4, <2>5, OneCall
<1>4. CASE Verify(c)
  <2>1. \E r \in {"ok", "error"} : Becomes(c, Ended(call[c], r))
    BY <1>4 DEF Verify
  <2> QED
    BY <1>1, <1>2, <2>1, EndStep DEF CarefulPart
<1> QED
  BY <1>3, <1>4

\* The progress goroutine: it divides by zero only after a second Info.
LEMMA ProgressStep ==
    ASSUME UInv, NEW c \in Call, Progress(c) \/ LastProgress(c)
    PROVE  UInv'
<1>1. /\ call[c] \in CallState /\ ZeroPart(call[c]) /\ SendPart(call[c]) /\ LockPart(call[c])
      /\ c \in Careful => CarefulPart(call[c])
  BY DEF UInv
<1>2. crashed' = (call[c].total = 0)
  BY DEF Progress, LastProgress, Divide
<1>3. crashed' => call[c].total = 0
  BY <1>2
<1>4. call[c].looping \/ call[c].final > 0
  BY DEF Progress, LastProgress
<1>5. crashed' => call[c].infos > 1
  BY <1>1, <1>3, <1>4 DEF ZeroPart, SendPart, Running
<1>6. CASE Progress(c)
  <2>1. UNCHANGED call
    BY <1>6 DEF Progress
  <2> QED
    BY <1>3, <1>5, <2>1 DEF UInv
<1>7. CASE LastProgress(c)
  <2> DEFINE fin == call[c].final - 1
  <2> DEFINE s == [call[c] EXCEPT !.final = fin]
  <2>1. fin \in Nat /\ call[c].final > 0 /\ fin < call[c].final
    BY <1>1, <1>7 DEF LastProgress, CallState
  <2>2. call' = [call EXCEPT ![c] = s]
    BY <1>7 DEF LastProgress, Becomes
  <2> HIDE DEF fin
  <2>3. /\ s \in CallState /\ s.pc = call[c].pc /\ s.looping = call[c].looping
        /\ s.final < call[c].final /\ call[c].final \in Nat /\ call[c].infos \in Nat
        /\ s.result = call[c].result /\ s.path = call[c].path
        /\ s.infos = call[c].infos /\ s.total = call[c].total
        /\ s.received = call[c].received /\ s.locked = call[c].locked
    BY <1>1, <2>1 DEF CallState
  <2> HIDE DEF s
  <2>6. s.final \in Nat
    BY <2>3 DEF CallState
  <2>4. LockPart(s) /\ ZeroPart(s) /\ SendPart(s)
    BY <1>1, <2>1, <2>3, <2>6 DEF LockPart, Early, ZeroPart, SendPart, Running
  <2>5. c \in Careful => CarefulPart(s)
    BY <1>1, <2>3 DEF CarefulPart
  <2> QED
    BY <1>3, <1>5, <2>2, <2>3, <2>4, <2>5, OneCall
<1> QED
  BY <1>6, <1>7
--------------------------------------------------------------------------------
\* Before any call has received anything the invariant holds.
LEMMA UInit == Init => UInv
<1> SUFFICES ASSUME Init PROVE UInv
  OBVIOUS
<1>1. NewCall \in CallState
  BY DEF NewCall, CallState, Size
<1>2. LockPart(NewCall) /\ ZeroPart(NewCall) /\ SendPart(NewCall) /\ CarefulPart(NewCall)
  BY DEF NewCall, LockPart, Early, ZeroPart, SendPart, Running, CarefulPart
<1> QED
  BY <1>1, <1>2 DEF Init, UInv

\* Every step of every call, its progress goroutine and its client keeps it.
LEMMA UStep == UInv /\ [Next]_vars => UInv'
<1> SUFFICES ASSUME UInv, [Next]_vars PROVE UInv'
  OBVIOUS
<1>1. CASE UNCHANGED vars
  BY <1>1 DEF vars, UInv
<1>2. ASSUME NEW c \in Call, Handler(c) PROVE UInv'
  BY <1>2, StopStep, CopyStep DEF Handler
<1>3. ASSUME NEW c \in Call, Client(c) PROVE UInv'
  BY <1>3, InfoStep, ChunkStep, HashStep DEF Client
<1>4. ASSUME NEW c \in Call, Fault(c) PROVE UInv'
  BY <1>4, FailStep, InfoErrorStep DEF Fault, RecvError, ChunkError, CopyError, Receiving
<1>5. ASSUME NEW c \in Call, Progress(c) \/ LastProgress(c) PROVE UInv'
  BY <1>5, ProgressStep
<1> QED
  BY <1>1, <1>2, <1>3, <1>4, <1>5 DEF Next

\* The inductive invariant of Upload holds in every state.
THEOREM UInvariant == Spec => []UInv
BY UInit, UStep, PTL DEF Spec

\* Whatever the clients send, a call's mutex is held exactly while its progress
\* goroutine loops, and a call answered "ok" has left none looping.
THEOREM MutexGuardsProgress == Spec => []LockMeansLooping
<1>1. UInv => LockMeansLooping
  BY DEF UInv, LockMeansLooping, LockPart, SendPart, Running, Senders, Early
<1> QED
  BY <1>1, UInvariant, PTL

\* A careful client's handler never waits for itself, whatever other calls do.
THEOREM CarefulProceeds == Spec => []CarefulNeverSelfBlocks
<1>1. UInv => CarefulNeverSelfBlocks
  BY DEF UInv, CarefulNeverSelfBlocks, CarefulPart, LockPart, Early
<1> QED
  BY <1>1, UInvariant, PTL

\* No careful client can end the daemon by an upload.
THEOREM CrashBlame == Spec => []CrashNeedsSecondInfo
<1>1. UInv => CrashNeedsSecondInfo
  BY DEF UInv, CrashNeedsSecondInfo, CarefulPart
<1> QED
  BY <1>1, UInvariant, PTL
--------------------------------------------------------------------------------
(***************************************************************************)
(* What a call that was answered "ok" has left in its file.  While the     *)
(* file is read back, the blocks read so far are the client's if as many   *)
(* of its own as blocks in all were seen; that stays so, since only a call *)
(* that opened the file can write to it.                                   *)
(***************************************************************************)
HoldsOwn(c, s, f, n) ==
    /\ s.path # NoPath /\ n <= Len(f[s.path])
    /\ \A i \in 1..n : f[s.path][i] = <<c, i>>

Stored(c, s, f) ==
    /\ s.pc = "copy" => s.path # NoPath /\ s.own <= s.pos
    /\ s.pc = "copy" /\ s.own = s.pos => HoldsOwn(c, s, f, s.pos)
    /\ s.result = "ok" /\ s.total > 0 =>
           HoldsOwn(c, s, f, s.total) /\ Len(f[s.path]) = s.total

\* The file of a call is one it opened and reaches to where it writes or reads;
\* no block is counted before the hash.
OpenedPart(s, f) ==
    /\ s.path # NoPath => s.path \in s.opened /\ s.pos <= Len(f[s.path])
    /\ Early(s) => s.own = 0

SInv ==
    /\ file \in [Path -> Seq(Block)]
    /\ \A c \in Call :
        /\ OpenedPart(call[c], file)
        /\ call[c].infos = 1 /\ ~Shared(c) => Stored(c, call[c], file)

\* A step of call c leaves alone what it says of the others: it writes to no file
\* that c did not open, and shortens none.
LEMMA OneStored ==
    ASSUME UInv, SInv, NEW c \in Call, NEW s \in CallState,
           call' = [call EXCEPT ![c] = s],
           call[c].opened \subseteq s.opened,
           file' \in [Path -> Seq(Block)],
           \A p \in Path : Len(file'[p]) >= Len(file[p]),
           \A p \in Path : p \notin call[c].opened => file'[p] = file[p],
           OpenedPart(s, file'),
           s.infos = 1 /\ ~Shared(c)' => Stored(c, s, file')
    PROVE  SInv'
<1>1. call \in [Call -> CallState] /\ call'[c] = s
  BY DEF UInv
<1>2. ASSUME NEW d \in Call \ {c}
      PROVE  /\ OpenedPart(call'[d], file')
             /\ call'[d].infos = 1 /\ ~Shared(d)' => Stored(d, call'[d], file')
  <2>1. /\ call'[d] = call[d] /\ call[d] \in CallState
        /\ call[d].path \in Path \cup {NoPath} /\ call[d].pos \in Nat
    BY <1>1, <1>2 DEF CallState
  <2>2. OpenedPart(call[d], file)
    BY DEF SInv
  <2>3. \A p \in Path : file[p] \in Seq(Block) /\ file'[p] \in Seq(Block)
    BY DEF SInv
  <2>4. OpenedPart(call'[d], file')
    <3>1. call[d].path # NoPath => call[d].pos <= Len(file'[call[d].path])
      BY <2>1, <2>2, <2>3 DEF OpenedPart
    <3> QED
      BY <2>1, <2>2, <3>1 DEF OpenedPart
  <2>5. ASSUME call'[d].infos = 1, ~Shared(d)' PROVE Stored(d, call'[d], file')
    <3>1. ~Shared(d) /\ call[d].path \notin call[c].opened
      BY <1>1, <1>2, <2>1, <2>5 DEF Shared
    <3>2. Stored(d, call[d], file)
      BY <2>1, <2>5, <3>1 DEF SInv
    <3>3. call[d].path # NoPath => file'[call[d].path] = file[call[d].path]
      BY <2>1, <3>1
    <3> QED
      BY <2>1, <3>2, <3>3 DEF Stored, HoldsOwn
  <2> QED
    BY <2>4, <2>5
<1> QED
  BY <1>1, <1>2 DEF SInv

\* A step of call c that leaves the files alone.
LEMMA OneQuiet ==
    ASSUME UInv, SInv, NEW c \in Call, NEW s \in CallState,
           call' = [call EXCEPT ![c] = s], UNCHANGED file,
           call[c].opened \subseteq s.opened,
           OpenedPart(s, file),
           s.infos = 1 /\ ~Shared(c)' => Stored(c, s, file)
    PROVE  SInv'
<1>1. /\ file' \in [Path -> Seq(Block)] /\ file' = file
      /\ \A p \in Path : Len(file'[p]) \in Nat
  BY DEF SInv
<1>2. \A p \in Path : Len(file'[p]) >= Len(file[p])
  BY <1>1
<1> QED
  BY <1>1, <1>2, OneStored

\* A step of call c that neither reads nor opens its file, nor answers "ok" after
\* a hash.
LEMMA OnePlain ==
    ASSUME UInv, SInv, NEW c \in Call, NEW s \in CallState,
           call' = [call EXCEPT ![c] = s], UNCHANGED file,
           call[c].opened \subseteq s.opened,
           OpenedPart(s, file), s.pc # "copy",
           s.result = "ok" => s.total = 0
    PROVE  SInv'
<1>1. Stored(c, s, file)
  BY DEF Stored, CallState, Size
<1> QED
  BY <1>1, OneQuiet

\* Ending a call with an error.
LEMMA FailStored ==
    ASSUME UInv, SInv, NEW c \in Call, Fail(c)
    PROVE  SInv'
<1> DEFINE s == Ended([call[c] EXCEPT !.broken = TRUE], "error")
<1>1. call[c] \in CallState /\ OpenedPart(call[c], file)
  BY DEF UInv, SInv
<1>2. /\ s \in CallState /\ s.pc = "done" /\ s.result = "error"
      /\ s.opened = call[c].opened /\ OpenedPart(s, file)
  BY <1>1 DEF Ended, CallState, OpenedPart, Early
<1>3. call' = [call EXCEPT ![c] = s] /\ UNCHANGED file
  BY DEF Fail, Becomes
<1> HIDE DEF s
<1> QED
  BY <1>2, <1>3, OnePlain

\* An Info message opens a file and writes to none.
LEMMA InfoStored ==
    ASSUME UInv, SInv, NEW c \in Call, Info(c) \/ InfoError(c)
    PROVE  SInv'
<1>1. call[c] \in CallState /\ OpenedPart(call[c], file)
  BY DEF UInv, SInv
<1>2. UNCHANGED file /\ \A p \in Path : Len(file[p]) \in Nat
  <2>1. \A p \in Path : file[p] \in Seq(Block)
    BY DEF SInv
  <2>2. UNCHANGED file
    BY DEF Info, InfoError
  <2> QED
    BY <2>1, <2>2
<1>3. PICK n \in Size :
        /\ Announced(c, n)
        /\ \/ \E p \in Path :
                LET opened == [WithInfo(c, n) EXCEPT !.path = p, !.pos = 0,
                                                     !.opened = @ \cup {p}]
                IN Becomes(c, IF call[c].locked THEN Ended(opened, "error")
                              ELSE IF n = 0 THEN Ended(opened, "ok")
                              ELSE [opened EXCEPT !.locked = TRUE, !.looping = TRUE])
           \/ Becomes(c, Ended([WithInfo(c, n) EXCEPT !.broken = TRUE], "error"))
  BY DEF Info, InfoError
<1> DEFINE with == WithInfo(c, n)
<1>4. with \in CallState
  BY <1>3, InfoState
<1>5. /\ with.pc = "recv" /\ with.result = "none" /\ with.total = n
  BY <1>3, InfoState
<1>6. /\ with.own = call[c].own /\ with.opened = call[c].opened
      /\ with.path = call[c].path /\ with.pos = call[c].pos /\ call[c].pc = "recv"
  BY <1>1, <1>3 DEF WithInfo, CallState, Announced, Receiving
<1>7. with.own = 0 /\ OpenedPart(with, file)
  BY <1>1, <1>5, <1>6 DEF OpenedPart, Early
<1> HIDE DEF with
<1>8. ASSUME NEW p \in Path,
             LET opened == [with EXCEPT !.path = p, !.pos = 0, !.opened = @ \cup {p}]
             IN Becomes(c, IF call[c].locked THEN Ended(opened, "error")
                           ELSE IF n = 0 THEN Ended(opened, "ok")
                           ELSE [opened EXCEPT !.locked = TRUE, !.looping = TRUE])
      PROVE  SInv'
  <2> DEFINE opened == [with EXCEPT !.path = p, !.pos = 0, !.opened = @ \cup {p}]
  <2>1. /\ opened \in CallState /\ opened.path = p /\ opened.pos = 0
        /\ opened.opened = call[c].opened \cup {p} /\ opened.own = 0
        /\ opened.pc = "recv" /\ opened.result = "none" /\ opened.total = n
    BY <1>4, <1>5, <1>6, <1>7 DEF CallState
  <2>2. OpenedPart(opened, file)
    BY <1>2, <2>1 DEF OpenedPart
  <2>3. Becomes(c, IF call[c].locked THEN Ended(opened, "error")
                   ELSE IF n = 0 THEN Ended(opened, "ok")
                   ELSE [opened EXCEPT !.locked = TRUE, !.looping = TRUE])
    BY <1>8
  <2> HIDE DEF opened
  <2> DEFINE s == IF call[c].locked THEN Ended(opened, "error")
                  ELSE IF n = 0 THEN Ended(opened, "ok")
                  ELSE [opened EXCEPT !.locked = TRUE, !.looping = TRUE]
  <2>4. CASE call[c].locked \/ n = 0
    <3> DEFINE r == IF call[c].locked THEN "error" ELSE "ok"
    <3>1. s = Ended(opened, r) /\ r \in {"ok", "error"} /\ (r = "ok" => n = 0)
      BY <2>4
    <3> HIDE DEF s, r
    <3>2. /\ s \in CallState /\ s.pc = "done" /\ s.result = r /\ s.total = n
          /\ s.opened = opened.opened /\ s.path = p /\ s.pos = 0 /\ s.own = 0
      BY <2>1, <3>1 DEF Ended, CallState
    <3>3. OpenedPart(s, file)
      BY <1>2, <2>1, <3>2 DEF OpenedPart
    <3>4. call' = [call EXCEPT ![c] = s]
      BY <2>3 DEF Becomes, s
    <3> QED
      BY <1>2, <2>1, <3>1, <3>2, <3>3, <3>4, OnePlain
  <2>5. CASE ~call[c].locked /\ n # 0
    <3>1. s = [opened EXCEPT !.locked = TRUE, !.looping = TRUE]
      BY <2>5
    <3>4. call' = [call EXCEPT ![c] = s]
      BY <2>3 DEF Becomes
    <3> HIDE DEF s
    <3>2. /\ s \in CallState /\ s.pc = "recv" /\ s.result = "none"
          /\ s.opened = opened.opened /\ s.path = p /\ s.pos = 0 /\ s.own = 0
      BY <2>1, <3>1 DEF CallState
    <3>3. OpenedPart(s, file)
      BY <1>2, <2>1, <3>2 DEF OpenedPart
    <3> QED
      BY <1>2, <2>1, <3>2, <3>3, <3>4, OnePlain
  <2> QED
    BY <2>4, <2>5
<1>9. ASSUME Becomes(c, Ended([with EXCEPT !.broken = TRUE], "error")) PROVE SInv'
  <2> DEFINE s == Ended([with EXCEPT !.broken = TRUE], "error")
  <2>1. /\ s \in CallState /\ s.pc = "done" /\ s.result = "error"
        /\ s.opened = with.opened /\ s.path = with.path /\ s.pos = with.pos /\ s.own = with.own
    BY <1>4 DEF Ended, CallState
  <2>2. call' = [call EXCEPT ![c] = s]
    BY <1>9 DEF Becomes
  <2> HIDE DEF s
  <2>3. OpenedPart(s, file)
    BY <1>7, <2>1 DEF OpenedPart
  <2> QED
    BY <1>2, <1>6, <2>1, <2>2, <2>3, OnePlain
<1> QED
  BY <1>3, <1>8, <1>9 DEF with

\* What a chunk of k blocks makes of a file f that reaches to where it is written.
LEMMA WrittenFile ==
    ASSUME NEW f \in Seq(Block), NEW c \in Call, NEW pos \in 0..Len(f),
           NEW first \in Nat \ {0}, NEW k \in Nat
    PROVE  /\ Written(f, c, pos, first, k) \in Seq(Block)
           /\ Len(Written(f, c, pos, first, k)) >= Len(f)
           /\ Len(Written(f, c, pos, first, k)) >= pos + k
<1> DEFINE m == IF pos + k > Len(f) THEN pos + k ELSE Len(f)
<1>1. m \in Nat /\ m >= Len(f) /\ m >= pos + k /\ Len(f) \in Nat /\ (m = pos + k \/ m = Len(f))
  OBVIOUS
<1> DEFINE elem(i) == IF i \in (pos + 1)..(pos + k) THEN <<c, first + i - pos - 1>> ELSE f[i]
<1>2. Written(f, c, pos, first, k) = [i \in 1..m |-> elem(i)]
  BY DEF Written
<1>3. ASSUME NEW i \in 1..m PROVE elem(i) \in Block
  <2>1. CASE i \in (pos + 1)..(pos + k)
    <3>1. first + i - pos - 1 \in Nat
      BY <2>1
    <3> QED
      BY <2>1, <3>1 DEF Block
  <2>2. CASE i \notin (pos + 1)..(pos + k)
    <3>1. i \in 1..Len(f)
      BY <1>1, <2>2
    <3> QED
      BY <2>2, <3>1
  <2> QED
    BY <2>1, <2>2
<1> HIDE DEF m, elem
<1>4. [i \in 1..m |-> elem(i)] \in Seq(Block) /\ Len([i \in 1..m |-> elem(i)]) = m
  BY <1>1, <1>3
<1> QED
  BY <1>1, <1>2, <1>4

\* A chunk is written to the call's own file.
LEMMA ChunkStored ==
    ASSUME UInv, SInv, NEW c \in Call, Chunk(c)
    PROVE  SInv'
<1>1. call[c] \in CallState /\ OpenedPart(call[c], file) /\ LockPart(call[c])
  BY DEF UInv, SInv
<1>2. call[c].pc = "recv" /\ call[c].path \in Path /\ call[c].path \in call[c].opened
  BY <1>1 DEF Chunk, Receiving, CallState, OpenedPart
<1>3. PICK k \in Size :
        /\ file' = [file EXCEPT ![call[c].path] =
                       Written(@, c, call[c].pos, call[c].received + 1, k)]
        /\ Becomes(c, [call[c] EXCEPT
               !.pos = @ + k,
               !.received = @ + k,
               !.pc = IF call[c].received + k = call[c].total THEN "stop" ELSE "recv"])
  BY DEF Chunk
<1> DEFINE pos == call[c].pos + k
<1> DEFINE rec == call[c].received + k
<1> DEFINE pc == IF rec = call[c].total THEN "stop" ELSE "recv"
<1> DEFINE s == [call[c] EXCEPT !.pos = pos, !.received = rec, !.pc = pc]
<1>4. /\ pos \in Nat /\ rec \in Nat /\ k \in Nat /\ pc \in {"recv", "stop"}
      /\ call[c].received + 1 \in Nat \ {0} /\ call[c].pos \in Nat
  BY <1>1 DEF CallState, Size
<1>5. call' = [call EXCEPT ![c] = s]
  BY <1>1, <1>3 DEF Becomes, CallState
<1> DEFINE p == call[c].path
<1> DEFINE new == Written(file[p], c, call[c].pos, call[c].received + 1, k)
<1>6. \A q \in Path : file[q] \in Seq(Block) /\ Len(file[q]) \in Nat
  <2>1. \A q \in Path : file[q] \in Seq(Block)
    BY DEF SInv
  <2> QED
    BY <2>1
<1>7. new \in Seq(Block) /\ Len(new) >= Len(file[p]) /\ Len(new) >= pos
  <2>1. call[c].pos \in 0..Len(file[p]) /\ file[p] \in Seq(Block)
    BY <1>1, <1>2, <1>4, <1>6 DEF OpenedPart
  <2> QED
    BY <1>4, <2>1, WrittenFile
<1>8. /\ file' \in [Path -> Seq(Block)] /\ file'[p] = new
      /\ \A q \in Path : q # p => file'[q] = file[q]
  BY <1>2, <1>3, <1>7 DEF SInv
<1>9. \A q \in Path : Len(file'[q]) >= Len(file[q])
  BY <1>6, <1>7, <1>8
<1> HIDE DEF pos, rec, pc, new
<1>10. /\ s \in CallState /\ s.pc = pc /\ s.path = p /\ s.pos = pos /\ s.own = call[c].own
       /\ s.opened = call[c].opened /\ s.result = call[c].result
  BY <1>1, <1>4 DEF CallState
<1> HIDE DEF s
<1>11. call[c].own = 0 /\ call[c].result = "none"
  BY <1>1, <1>2 DEF OpenedPart, Early, LockPart
<1>12. OpenedPart(s, file')
  BY <1>2, <1>4, <1>7, <1>8, <1>10, <1>11 DEF OpenedPart
<1>13. Stored(c, s, file')
  BY <1>4, <1>10, <1>11 DEF Stored
<1> QED
  BY <1>2, <1>5, <1>8, <1>9, <1>10, <1>12, <1>13, OneStored

\* Steps that touch no file: stopping the progress goroutine, its last message,
\* and the hash, after which nothing has been read yet.
LEMMA QuietStored ==
    ASSUME UInv, SInv, NEW c \in Call, StopProgress(c) \/ LastProgress(c) \/ Hash(c)
    PROVE  SInv'
<1>1. /\ call[c] \in CallState /\ OpenedPart(call[c], file) /\ LockPart(call[c])
      /\ call[c].final \in Nat /\ call[c].pos \in Nat
  BY DEF UInv, SInv, CallState
<1>2. UNCHANGED file
  BY DEF StopProgress, LastProgress, Hash
<1>3. \A q \in Path : Len(file[q]) \in Nat
  <2>1. \A q \in Path : file[q] \in Seq(Block)
    BY DEF SInv
  <2> QED
    BY <2>1
<1>4. CASE StopProgress(c)
  <2> DEFINE fin == call[c].final + 1
  <2> DEFINE s == [call[c] EXCEPT !.pc = "recv", !.locked = FALSE, !.looping = FALSE,
                                  !.final = fin]
  <2>1. call' = [call EXCEPT ![c] = s] /\ call[c].pc = "stop"
    BY <1>4 DEF StopProgress, Becomes
  <2>2. fin \in Nat
    BY <1>1
  <2> HIDE DEF fin
  <2>3. /\ s \in CallState /\ s.pc = "recv" /\ s.path = call[c].path /\ s.pos = call[c].pos
        /\ s.own = call[c].own /\ s.opened = call[c].opened /\ s.result = call[c].result
    BY <1>1, <2>2 DEF CallState
  <2> HIDE DEF s
  <2>4. OpenedPart(s, file) /\ s.result # "ok"
    BY <1>1, <2>1, <2>3 DEF OpenedPart, Early, LockPart
  <2> QED
    BY <1>2, <2>1, <2>3, <2>4, OnePlain
<1>5. CASE LastProgress(c)
  <2> DEFINE fin == call[c].final - 1
  <2> DEFINE s == [call[c] EXCEPT !.final = fin]
  <2>1. call' = [call EXCEPT ![c] = s]
    BY <1>5 DEF LastProgress, Becomes
  <2>2. fin \in Nat
    BY <1>1, <1>5 DEF LastProgress
  <2> HIDE DEF fin
  <2>3. /\ s \in CallState /\ s.pc = call[c].pc /\ s.path = call[c].path /\ s.pos = call[c].pos
        /\ s.own = call[c].own /\ s.opened = call[c].opened /\ s.result = call[c].result
        /\ s.infos = call[c].infos /\ s.total = call[c].total
    BY <1>1, <2>2 DEF CallState
  <2> HIDE DEF s
  <2>4. OpenedPart(s, file)
    BY <1>1, <2>3 DEF OpenedPart, Early
  <2>5. ASSUME s.infos = 1, ~Shared(c)' PROVE Stored(c, s, file)
    <3>1. ~Shared(c)
      BY <2>1, <2>3, <2>5 DEF Shared, UInv
    <3>2. Stored(c, call[c], file)
      BY <2>3, <2>5, <3>1 DEF SInv
    <3> QED
      BY <2>3, <3>2 DEF Stored, HoldsOwn
  <2> QED
    BY <1>2, <2>1, <2>3, <2>4, <2>5, OneQuiet
<1>6. CASE Hash(c)
  <2>1. call[c].pc = "recv" /\ call[c].own = 0 /\ call[c].result = "none"
    BY <1>1, <1>6 DEF Hash, Receiving, OpenedPart, Early, LockPart
  <2>2. PICK g \in BOOLEAN :
          Becomes(c,
              IF call[c].locked THEN [call[c] EXCEPT !.pc = "lock", !.good = g]
              ELSE IF call[c].path = NoPath
                  THEN Ended([call[c] EXCEPT !.locked = TRUE], "error")
              ELSE [call[c] EXCEPT !.pc = "copy", !.good = g, !.locked = TRUE, !.pos = 0])
    BY <1>6 DEF Hash
  <2>3. CASE call[c].locked
    <3> DEFINE s == [call[c] EXCEPT !.pc = "lock", !.good = g]
    <3>1. /\ s \in CallState /\ s.pc = "lock" /\ s.path = call[c].path /\ s.pos = call[c].pos
          /\ s.own = 0 /\ s.opened = call[c].opened /\ s.result = "none"
      BY <1>1, <2>1 DEF CallState
    <3>2. call' = [call EXCEPT ![c] = s]
      BY <2>2, <2>3 DEF Becomes
    <3> HIDE DEF s
    <3>3. OpenedPart(s, file)
      BY <1>1, <3>1 DEF OpenedPart
    <3> QED
      BY <1>2, <3>1, <3>2, <3>3, OnePlain
  <2>4. CASE ~call[c].locked /\ call[c].path = NoPath
    <3> DEFINE s == Ended([call[c] EXCEPT !.locked = TRUE], "error")
    <3>1. /\ s \in CallState /\ s.pc = "done" /\ s.path = call[c].path
          /\ s.opened = call[c].opened /\ s.result = "error"
      BY <1>1 DEF Ended, CallState
    <3>2. call' = [call EXCEPT ![c] = s]
      BY <2>2, <2>4 DEF Becomes
    <3> HIDE DEF s
    <3>3. OpenedPart(s, file)
      BY <2>4, <3>1 DEF OpenedPart, Early
    <3> QED
      BY <1>2, <3>1, <3>2, <3>3, OnePlain
  <2>5. CASE ~call[c].locked /\ call[c].path # NoPath
    <3> DEFINE s == [call[c] EXCEPT !.pc = "copy", !.good = g, !.locked = TRUE, !.pos = 0]
    <3>1. /\ s \in CallState /\ s.pc = "copy" /\ s.path = call[c].path /\ s.pos = 0
          /\ s.own = 0 /\ s.opened = call[c].opened /\ s.result = "none"
      BY <1>1, <2>1 DEF CallState
    <3>2. call' = [call EXCEPT ![c] = s]
      BY <2>2, <2>5 DEF Becomes
    <3> HIDE DEF s
    <3>4. s.path \in Path
      BY <1>1, <2>5, <3>1 DEF CallState
    <3>3. OpenedPart(s, file)
      BY <1>1, <1>3, <2>5, <3>1, <3>4 DEF OpenedPart, Early
    <3>5. Stored(c, s, file)
      BY <1>3, <2>5, <3>1, <3>4 DEF Stored, HoldsOwn
    <3> QED
      BY <1>2, <3>1, <3>2, <3>3, <3>5, OneQuiet
  <2> QED
    BY <2>2, <2>3, <2>4, <2>5
<1> QED
  BY <1>4, <1>5, <1>6

\* A block read back: the count of the client's blocks keeps up only if the block
\* read is the client's.
LEMMA CopyStored ==
    ASSUME UInv, SInv, NEW c \in Call, CopyBlock(c)
    PROVE  SInv'
<1>1. /\ call[c] \in CallState /\ OpenedPart(call[c], file) /\ LockPart(call[c])
      /\ call[c].own \in Nat /\ call[c].pos \in Nat
  BY DEF UInv, SInv, CallState
<1>2. UNCHANGED file /\ call[c].pc = "copy" /\ call[c].pos < Len(file[call[c].path])
  BY DEF CopyBlock
<1> DEFINE pos == call[c].pos + 1
<1> DEFINE own == IF file[call[c].path][pos] = <<c, pos>> THEN call[c].own + 1 ELSE call[c].own
<1> DEFINE s == [call[c] EXCEPT !.pos = pos, !.own = own]
<1>3. pos \in Nat /\ own \in Nat
  BY <1>1
<1>4. call' = [call EXCEPT ![c] = s]
  BY <1>1 DEF CopyBlock, Becomes, CallState
<1>5. /\ own \in {call[c].own, call[c].own + 1} /\ pos = call[c].pos + 1
      /\ own = call[c].own + 1 => file[call[c].path][pos] = <<c, pos>>
  BY <1>1
<1> HIDE DEF pos, own
<1>6. /\ s \in CallState /\ s.pc = "copy" /\ s.path = call[c].path /\ s.pos = pos /\ s.own = own
      /\ s.opened = call[c].opened /\ s.result = call[c].result /\ s.infos = call[c].infos
  BY <1>1, <1>2, <1>3 DEF CallState
<1> HIDE DEF s
<1>7. s.result = "none"
  BY <1>1, <1>2, <1>6 DEF LockPart
<1>8. OpenedPart(s, file)
  <2>1. call[c].path # NoPath => pos <= Len(file[call[c].path])
    <3>1. call[c].path # NoPath => Len(file[call[c].path]) \in Nat
      <4>1. call[c].path # NoPath => file[call[c].path] \in Seq(Block)
        BY <1>1 DEF SInv, CallState
      <4> QED
        BY <4>1
    <3> QED
      BY <1>1, <1>2, <1>5, <3>1
  <2> QED
    BY <1>1, <1>6, <2>1 DEF OpenedPart, Early
<1>9. ASSUME s.infos = 1, ~Shared(c)' PROVE Stored(c, s, file)
  <2>1. ~Shared(c)
    BY <1>4, <1>6, <1>9 DEF Shared, UInv
  <2>2. Stored(c, call[c], file)
    BY <1>6, <1>9, <2>1 DEF SInv
  <2>3. call[c].path # NoPath /\ call[c].own <= call[c].pos
    BY <1>2, <2>2 DEF Stored
  <2>4. own <= pos
    BY <1>1, <1>5, <2>3
  <2>5. ASSUME own = pos PROVE HoldsOwn(c, s, file, pos)
    <3>1. call[c].own = call[c].pos /\ file[call[c].path][pos] = <<c, pos>>
      BY <1>1, <1>5, <2>3, <2>5
    <3>2. HoldsOwn(c, call[c], file, call[c].pos)
      BY <1>2, <2>2, <3>1 DEF Stored
    <3>3. pos <= Len(file[call[c].path])
      BY <1>6, <1>8, <2>3 DEF OpenedPart
    <3>4. \A i \in 1..pos : i \in 1..call[c].pos \/ i = pos
      BY <1>1, <1>5
    <3> QED
      BY <1>6, <2>3, <3>1, <3>2, <3>3, <3>4 DEF HoldsOwn
  <2> QED
    BY <1>6, <1>7, <2>3, <2>4, <2>5 DEF Stored
<1> QED
  BY <1>2, <1>4, <1>6, <1>8, <1>9, OneQuiet

\* The comparison at the end of the file: "ok" only if all of it is the client's.
LEMMA VerifyStored ==
    ASSUME UInv, SInv, NEW c \in Call, Verify(c)
    PROVE  SInv'
<1>1. /\ call[c] \in CallState /\ OpenedPart(call[c], file)
  BY DEF UInv, SInv
<1>2. UNCHANGED file /\ call[c].pc = "copy" /\ call[c].pos = Len(file[call[c].path])
  BY DEF Verify
<1>3. PICK r \in {"ok", "error"} :
        /\ Becomes(c, Ended(call[c], r))
        /\ r = "ok" => call[c].pos = call[c].total /\ call[c].own = call[c].pos
  BY DEF Verify
<1> DEFINE s == Ended(call[c], r)
<1>4. /\ s \in CallState /\ s.pc = "done" /\ s.path = call[c].path /\ s.result = r
      /\ s.opened = call[c].opened /\ s.total = call[c].total /\ s.infos = call[c].infos
      /\ s.pos = call[c].pos
  BY <1>1 DEF Ended, CallState
<1>5. call' = [call EXCEPT ![c] = s]
  BY <1>3 DEF Becomes
<1> HIDE DEF s
<1>6. OpenedPart(s, file)
  BY <1>1, <1>4 DEF OpenedPart, Early
<1>7. ASSUME s.infos = 1, ~Shared(c)' PROVE Stored(c, s, file)
  <2>1. ~Shared(c)
    BY <1>4, <1>5, <1>7 DEF Shared, UInv
  <2>2. Stored(c, call[c], file)
    BY <1>4, <1>7, <2>1 DEF SInv
  <2>3. r = "ok" => HoldsOwn(c, call[c], file, call[c].total)
                    /\ Len(file[call[c].path]) = call[c].total
    BY <1>2, <1>3, <2>2 DEF Stored
  <2> QED
    BY <1>4, <2>3 DEF Stored, HoldsOwn
<1> QED
  BY <1>2, <1>4, <1>5, <1>6, <1>7, OneQuiet

\* Before any call nothing was read and no file is open.
LEMMA SInit == Init => SInv
<1> SUFFICES ASSUME Init PROVE SInv
  OBVIOUS
<1>1. PICK n \in [Path -> Size] : file = [p \in Path |-> [i \in 1..n[p] |-> <<Old, i>>]]
  <2>1. PICK m : m \in [Path -> Size] /\ file = [p \in Path |-> [i \in 1..m[p] |-> <<Old, i>>]]
    BY DEF Init
  <2> QED
    BY <2>1
<1>2. ASSUME NEW p \in Path PROVE [i \in 1..n[p] |-> <<Old, i>>] \in Seq(Block)
  <2>1. n[p] \in Nat
    BY DEF Size
  <2>2. \A i \in 1..n[p] : <<Old, i>> \in Block
    BY DEF Block
  <2> QED
    BY <2>1, <2>2
<1>3. file \in [Path -> Seq(Block)]
  BY <1>1, <1>2
<1>4. OpenedPart(NewCall, file) /\ \A c \in Call : Stored(c, NewCall, file)
  BY DEF NewCall, OpenedPart, Stored
<1> QED
  BY <1>3, <1>4 DEF Init, SInv

\* Every step keeps it.
LEMMA SStep == UInv /\ SInv /\ [Next]_vars => SInv'
<1> SUFFICES ASSUME UInv, SInv, [Next]_vars PROVE SInv'
  OBVIOUS
<1>1. CASE UNCHANGED vars
  BY <1>1 DEF vars, SInv, Shared
<1>2. ASSUME NEW c \in Call, Handler(c) PROVE SInv'
  BY <1>2, QuietStored, CopyStored, VerifyStored DEF Handler
<1>3. ASSUME NEW c \in Call, Client(c) PROVE SInv'
  BY <1>3, InfoStored, ChunkStored, QuietStored DEF Client
<1>4. ASSUME NEW c \in Call, Fault(c) PROVE SInv'
  BY <1>4, FailStored, InfoStored DEF Fault, RecvError, ChunkError, CopyError
<1>5. ASSUME NEW c \in Call, Progress(c) PROVE SInv'
  BY <1>5 DEF Progress, SInv, Shared
<1>6. ASSUME NEW c \in Call, LastProgress(c) PROVE SInv'
  BY <1>6, QuietStored
<1> QED
  BY <1>1, <1>2, <1>3, <1>4, <1>5, <1>6 DEF Next

\* For any number of calls and files: a call answered "ok" leaves its client's
\* data, whole and alone, in a file that no other call opened.
THEOREM OkStored == Spec => []OkMeansStored
<1>1. ASSUME UInv, SInv PROVE OkMeansStored
  <2> SUFFICES ASSUME NEW c \in Call, call[c].result = "ok", call[c].total > 0,
                      call[c].infos = 1, ~Shared(c)
               PROVE  file[call[c].path] = [i \in 1..call[c].total |-> <<c, i>>]
    BY DEF OkMeansStored
  <2>1. HoldsOwn(c, call[c], file, call[c].total) /\ Len(file[call[c].path]) = call[c].total
    BY <1>1 DEF SInv, Stored
  <2>2. file[call[c].path] \in Seq(Block)
    BY <1>1, <2>1 DEF SInv, UInv, HoldsOwn, CallState
  <2> DEFINE f == file[call[c].path]
  <2>3. f \in [1..Len(f) -> Block] /\ Len(f) = call[c].total
    BY <2>1, <2>2, LenProperties
  <2>4. \A i \in 1..call[c].total : f[i] = <<c, i>>
    BY <2>1 DEF HoldsOwn
  <2> HIDE DEF f
  <2>5. f = [i \in 1..call[c].total |-> <<c, i>>]
    BY <2>3, <2>4
  <2> QED
    BY <2>5 DEF f
<1> QED
  BY <1>1, SInit, SStep, UInvariant, PTL DEF Spec

\* The files, the calls and the process keep their types, for any number of calls.
THEOREM TypeCorrect == Spec => []TypeOK
<1>1. Init => crashed \in BOOLEAN
  BY DEF Init
<1>2. crashed \in BOOLEAN /\ [Next]_vars => (crashed \in BOOLEAN)'
  <2> SUFFICES ASSUME crashed \in BOOLEAN, [Next]_vars, ~UNCHANGED crashed
               PROVE  (crashed \in BOOLEAN)'
    OBVIOUS
  <2>1. PICK c \in Call :
            Handler(c) \/ Client(c) \/ Fault(c) \/ Progress(c) \/ LastProgress(c)
    BY DEF Next, vars
  <2>2. UNCHANGED crashed \/ Divide(c)
    BY <2>1 DEF Handler, StopProgress, CopyBlock, Verify, Client, Info, Chunk, Hash, Fault,
         RecvError, InfoError, ChunkError, CopyError, Fail, Progress, LastProgress
  <2> QED
    BY <2>2 DEF Divide
<1>3. UInv /\ SInv /\ crashed \in BOOLEAN => TypeOK
  BY DEF UInv, SInv, TypeOK
<1> QED
  BY <1>1, <1>2, <1>3, SInit, SStep, UInvariant, PTL DEF Spec
================================================================================
