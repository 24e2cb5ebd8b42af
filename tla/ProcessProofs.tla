------------------------------ MODULE ProcessProofs ------------------------------
(***************************************************************************)
(* For any number of calls, signals, files and pieces, on either system:   *)
(* which executable the update leaves on the disk, and that the services   *)
(* are stopped before the process ends.                                    *)
(***************************************************************************)
EXTENDS LoaderProcess, TLAPS

ScriptState ==
    [pc : {"stop", "copy", "copying", "start", "del", "end"}, file : Nat \ {0},
     start : {"none", "ok", "alive", "unreadable"}]

\* A call that has not come to its stream yet has no handler.
CallsPart ==
    /\ RpcTypeOK
    /\ \A c \in Call : calls[c].client = "idle" => calls[c].handler = "none"

\* No two calls write to one file.
FilesPart ==
    /\ files \in Seq(Content)
    /\ upd \in [Call -> [total : 0..MaxPieces, file : Nat]]
    /\ \A c \in Call : upd[c].file <= Len(files)
    /\ \A c, d \in Call : c # d /\ upd[c].file # 0 => upd[c].file # upd[d].file
    /\ vouched \subseteq Content

\* The file of a script is vouched for, and no call can write to it any more.
ScriptsPart ==
    /\ scripts \in Seq(ScriptState)
    /\ os = "linux" => scripts = <<>>
    /\ \A s \in DOMAIN scripts :
           /\ scripts[s].file <= Len(files)
           /\ files[scripts[s].file] \in vouched
           /\ \A c \in Call : upd[c].file = scripts[s].file => calls[c].handler = "end"

\* The executable is the first one or a vouched one; it is half written only while a
\* script copies it, or after a loss of power in that copy.
InstalledIsVouched ==
    /\ exe \in {Shipped, Torn} \cup vouched
    /\ exe = Torn => cause = "powerLoss" \/ Copying

\* A process never runs while the executable is half written.
ExePart ==
    /\ os = "linux" => exe = Shipped
    /\ InstalledIsVouched
    /\ exe = Torn => proc = "none"

ServicePart ==
    /\ proc = "init" => services = "new"
    /\ os = "windows" => worker = "off"
    /\ worker \in {"done", "end"} => services = "stopped"

LInv == os \in {"linux", "windows"} /\ CallsPart /\ FilesPart /\ ScriptsPart /\ ExePart /\ ServicePart
--------------------------------------------------------------------------------
\* Calls only go forward: a handler that has ended stays so.
Onward ==
    /\ CallsPart'
    /\ \A c \in Call : calls[c].handler = "end" => calls'[c].handler = "end"

LEMMA CutOnward ==
    ASSUME CallsPart, Cut PROVE Onward
<1>1. calls \in [Call -> [method : Method,
                          client : {"idle", "open", "sent", "closed", "answered", "lost"},
                          handler : {"none", "queued", "recv", "body", "end"}]]
  BY DEF CallsPart, RpcTypeOK
<1>2. \A c \in Call : Hangup[c].client = "idle" => calls[c].client = "idle"
  BY <1>1 DEF Hangup, Waiting
<1>3. Hangup \in [Call -> [method : Method,
                          client : {"idle", "open", "sent", "closed", "answered", "lost"},
                          handler : {"none", "queued", "recv", "body", "end"}]]
      /\ \A c \in Call : Hangup[c].handler = calls[c].handler
  BY <1>1 DEF Hangup
<1> HIDE DEF Hangup
<1>4. \A c \in Call : calls'[c] = [Hangup[c] EXCEPT !.handler = IF @ = "none" THEN @ ELSE "end"]
  BY DEF Cut
<1>5. RpcTypeOK'
  BY <1>3 DEF Cut, RpcTypeOK
<1>6. ASSUME NEW c \in Call
      PROVE  /\ calls'[c].client = Hangup[c].client
             /\ calls'[c].handler = IF calls[c].handler = "none" THEN "none" ELSE "end"
  <2> DEFINE h == IF calls[c].handler = "none" THEN "none" ELSE "end"
  <2>1. PICK r \in [method : Method,
                    client : {"idle", "open", "sent", "closed", "answered", "lost"},
                    handler : {"none", "queued", "recv", "body", "end"}] : r = Hangup[c]
    BY <1>3
  <2>2. r.handler = calls[c].handler
    BY <1>3, <2>1
  <2>3. calls'[c] = [r EXCEPT !.handler = h]
    BY <1>4, <2>1, <2>2
  <2> HIDE DEF h
  <2>4. calls'[c].client = r.client /\ calls'[c].handler = h
    BY <2>3
  <2> QED
    BY <2>1, <2>4 DEF h
<1>7. \A c \in Call : calls'[c].client = "idle" => calls'[c].handler = "none"
  BY <1>2, <1>6 DEF CallsPart
<1>8. \A c \in Call : calls[c].handler = "end" => calls'[c].handler = "end"
  BY <1>6
<1> QED
  BY <1>5, <1>7, <1>8 DEF CallsPart, Onward

LEMMA HangupOnward ==
    ASSUME CallsPart, LinkDown PROVE Onward
<1>1. calls \in [Call -> [method : Method,
                          client : {"idle", "open", "sent", "closed", "answered", "lost"},
                          handler : {"none", "queued", "recv", "body", "end"}]]
  BY DEF CallsPart, RpcTypeOK
<1>2. \A c \in Call : Hangup[c].client = "idle" => calls[c].client = "idle"
  BY <1>1 DEF Hangup, Waiting
<1>3. Hangup \in [Call -> [method : Method,
                          client : {"idle", "open", "sent", "closed", "answered", "lost"},
                          handler : {"none", "queued", "recv", "body", "end"}]]
      /\ \A c \in Call : Hangup[c].handler = calls[c].handler
  BY <1>1 DEF Hangup
<1> QED
  BY <1>1, <1>2, <1>3 DEF CallsPart, Onward, LinkDown, RpcTypeOK

\* One call's own step.
LEMMA StepOnward ==
    ASSUME RpcAssumption, CallsPart, NEW c \in Call,
           \/ \E m \in Method : NewStream(c, m)
           \/ SendMsg(c) \/ CloseSend(c) \/ ClientGone(c)
           \/ Dispatch(c) \/ Request(c) \/ RequestError(c) \/ Return(c)
    PROVE  Onward
<1>1. /\ calls \in [Call -> [method : Method,
                          client : {"idle", "open", "sent", "closed", "answered", "lost"},
                          handler : {"none", "queued", "recv", "body", "end"}]]
      /\ net \in {"idle", "serving", "stopped"}
      /\ \A d \in Call : calls[d].client = "idle" => calls[d].handler = "none"
  BY DEF CallsPart, RpcTypeOK
<1>2. CASE \E m \in Method : NewStream(c, m)
  <2>1. PICK m \in Method : NewStream(c, m)
    BY <1>2
  <2> QED
    BY <2>1, <1>1 DEF NewStream, Onward, CallsPart, RpcTypeOK
<1>3. CASE SendMsg(c) \/ CloseSend(c) \/ ClientGone(c)
  BY <1>3, <1>1 DEF SendMsg, CloseSend, ClientGone, Waiting, Onward, CallsPart, RpcTypeOK
<1>4. CASE Dispatch(c) \/ Request(c) \/ RequestError(c)
  BY <1>4, <1>1 DEF Dispatch, Request, RequestError, Onward, CallsPart, RpcTypeOK
<1>5. CASE Return(c)
  <2> DEFINE cl == IF Waiting(c) THEN "answered" ELSE calls[c].client
  <2>1. /\ calls[c].handler = "body" /\ UNCHANGED <<proc, net>>
        /\ calls' = [calls EXCEPT ![c].handler = "end", ![c].client = cl]
    BY <1>5, <1>1 DEF Return, procVars
  <2>2. cl \in {"open", "sent", "closed", "answered", "lost"}
    BY <1>1, <2>1
  <2> HIDE DEF cl
  <2>3. calls' \in [Call -> [method : Method,
                          client : {"idle", "open", "sent", "closed", "answered", "lost"},
                          handler : {"none", "queued", "recv", "body", "end"}]]
    <3>1. PICK r \in [method : Method,
                      client : {"idle", "open", "sent", "closed", "answered", "lost"},
                      handler : {"none", "queued", "recv", "body", "end"}] :
             calls' = [calls EXCEPT ![c] = r]
      <4> DEFINE r == [calls[c] EXCEPT !.handler = "end", !.client = cl]
      <4>1. r \in [method : Method,
                   client : {"idle", "open", "sent", "closed", "answered", "lost"},
                   handler : {"none", "queued", "recv", "body", "end"}]
        BY <1>1, <2>2
      <4>2. calls' = [calls EXCEPT ![c] = r]
        BY <1>1, <2>1
      <4> QED
        BY <4>1, <4>2
    <3> QED
      BY <1>1, <3>1
  <2>4. /\ calls'[c].client = cl /\ calls'[c].handler = "end"
        /\ \A d \in Call \ {c} : calls'[d] = calls[d]
    BY <1>1, <2>1
  <2> QED
    BY <1>1, <2>1, <2>2, <2>3, <2>4 DEF Onward, CallsPart, RpcTypeOK
<1> QED
  BY <1>2, <1>3, <1>4, <1>5

LEMMA StillOnward ==
    ASSUME CallsPart, UNCHANGED calls, net' \in {"idle", "serving", "stopped"} PROVE Onward
BY DEF Onward, CallsPart, RpcTypeOK
--------------------------------------------------------------------------------
\* What ExePart needs of a step in which no script writes the executable.
ProcStep == (UNCHANGED <<proc, cause>>) \/ exe # Torn

LEMMA ExeStays ==
    ASSUME ExePart, UNCHANGED <<os, exe>>, vouched \subseteq vouched', Copying => Copying', ProcStep
    PROVE  ExePart'
BY DEF ExePart, InstalledIsVouched, Copying, ProcStep

\* The update's data when neither a call of UpdateLoader nor a script takes a step.
LEMMA UpdStays ==
    ASSUME FilesPart, ScriptsPart, Onward, UNCHANGED <<os, updVars>>
    PROVE  FilesPart' /\ ScriptsPart' /\ vouched \subseteq vouched' /\ (Copying => Copying')
BY DEF FilesPart, ScriptsPart, Onward, updVars, Copying, At

\* A script goes on: its file is the same.
LEMMA ScriptsMove ==
    ASSUME FilesPart, ScriptsPart, Onward, UNCHANGED <<os, files, upd, vouched>>,
           scripts' \in Seq(ScriptState), Len(scripts') = Len(scripts),
           \A s \in 1..Len(scripts) : scripts'[s].file = scripts[s].file
    PROVE  FilesPart' /\ ScriptsPart'
<1>1. DOMAIN scripts = 1..Len(scripts) /\ DOMAIN scripts' = 1..Len(scripts)
  BY DEF ScriptsPart
<1>2. scripts = <<>> => scripts' = <<>>
  BY DEF ScriptsPart
<1>3. FilesPart'
  BY <1>1 DEF FilesPart, Onward
<1>4. ASSUME NEW s \in DOMAIN scripts'
      PROVE  /\ scripts'[s].file <= Len(files')
             /\ files'[scripts'[s].file] \in vouched'
             /\ \A c \in Call : upd'[c].file = scripts'[s].file => calls'[c].handler = "end"
  <2>1. s \in DOMAIN scripts /\ scripts'[s].file = scripts[s].file
    BY <1>1
  <2> QED
    BY <2>1 DEF ScriptsPart, Onward
<1> QED
  BY <1>1, <1>2, <1>3, <1>4 DEF ScriptsPart
--------------------------------------------------------------------------------
\* A script's file is one that was made.
LEMMA ScriptFiles ==
    ASSUME FilesPart, ScriptsPart
    PROVE  \A s \in DOMAIN scripts : scripts[s].file \in 1..Len(files)
<1>1. \A s \in DOMAIN scripts : scripts[s] \in ScriptState
  BY DEF ScriptsPart
<1>2. Len(files) \in Nat
  BY DEF FilesPart
<1>3. \A s \in DOMAIN scripts : scripts[s].file \in Nat \ {0}
  BY <1>1 DEF ScriptState
<1> QED
  BY <1>2, <1>3 DEF ScriptsPart

\* Info: the new file is nobody else's.
LEMMA InfoKeeps ==
    ASSUME FilesPart, ScriptsPart, CallsPart,
           NEW c \in Call, NEW size \in 0..MaxPieces, Info(c, size)
    PROVE  FilesPart' /\ ScriptsPart'
<1>1. <<>> \in Content
  <2>1. <<>> \in [1..0 -> Piece]
    OBVIOUS
  <2> QED
    BY <2>1, UpdateAssumption DEF Content
<1>2. /\ files' \in Seq(Content) /\ Len(files') = Len(files) + 1
      /\ \A f \in 1..Len(files) : files'[f] = files[f]
  BY <1>1 DEF Info, FilesPart
<1>3. /\ upd' \in [Call -> [total : 0..MaxPieces, file : Nat]]
      /\ upd'[c].file = Len(files) + 1
      /\ \A d \in Call : d # c => upd'[d] = upd[d]
  BY DEF Info, FilesPart
<1>4. FilesPart'
  BY <1>2, <1>3 DEF Info, FilesPart
<1>5. \A s \in DOMAIN scripts : scripts[s].file \in 1..Len(files)
  BY ScriptFiles
<1>6. ScriptsPart'
  BY <1>2, <1>3, <1>5 DEF Info, ScriptsPart, procVars, rpcVars, FilesPart
<1> QED
  BY <1>4, <1>6

\* A piece more than a content that has room for it.
LEMMA Grown ==
    ASSUME NEW w \in Content, NEW x \in Piece, Len(w) < MaxPieces
    PROVE  Append(w, x) \in Content
<1>1. PICK n \in 0..MaxPieces : w \in [1..n -> Piece]
  BY DEF Content
<1>2. w \in Seq(Piece) /\ Len(w) = n
  BY <1>1, UpdateAssumption
<1>3. Append(w, x) \in Seq(Piece) /\ Len(Append(w, x)) = n + 1
  BY <1>2
<1>4. \A v \in Seq(Piece) : v \in [1..Len(v) -> Piece]
  OBVIOUS
<1>5. Append(w, x) \in [1..(n + 1) -> Piece]
  BY <1>3, <1>4
<1>6. n + 1 \in 0..MaxPieces
  BY <1>2, UpdateAssumption
<1> QED
  BY <1>5, <1>6 DEF Content

\* Chunk: the file that grows is no script's, and only this call's.
LEMMA ChunkKeeps ==
    ASSUME FilesPart, ScriptsPart, Onward, UNCHANGED os,
           NEW c \in Call, NEW piece \in Piece, Chunk(c, piece)
    PROVE  FilesPart' /\ ScriptsPart'
<1> DEFINE f == upd[c].file
<1>1. f \in 1..Len(files) /\ files[f] \in Content
  BY DEF Chunk, FilesPart
<1>2. Append(files[f], piece) \in Content
  BY <1>1, Grown DEF Chunk
<1>3. /\ files' \in Seq(Content) /\ Len(files') = Len(files)
      /\ \A g \in 1..Len(files) : g # f => files'[g] = files[g]
  BY <1>1, <1>2 DEF Chunk, FilesPart
<1>4. FilesPart'
  BY <1>3 DEF Chunk, FilesPart
<1>5. \A s \in DOMAIN scripts : scripts[s].file \in 1..Len(files) /\ scripts[s].file # f
  BY ScriptFiles DEF ScriptsPart, Chunk, Receives, Updating
<1>6. ScriptsPart'
  BY <1>3, <1>5 DEF Chunk, ScriptsPart, Onward
<1> QED
  BY <1>4, <1>6

\* Hash: a script gets a file that is what the client vouched for, and the call is over.
LEMMA HashKeeps ==
    ASSUME FilesPart, ScriptsPart, Onward, CallsPart, UNCHANGED os,
           NEW c \in Call, NEW hash \in Content, Hash(c, hash)
    PROVE  FilesPart' /\ ScriptsPart' /\ vouched \subseteq vouched' /\ (Copying => Copying')
<1>1. vouched \subseteq vouched' /\ FilesPart'
  BY DEF Hash, FilesPart
<1>2. CASE UNCHANGED scripts
  BY <1>1, <1>2 DEF Hash, ScriptsPart, Onward, Copying, At
<1>3. CASE /\ Verified(c, hash) /\ os = "windows"
           /\ scripts' = Append(scripts, [pc |-> "stop", file |-> upd[c].file, start |-> "none"])
  <2> DEFINE new == [pc |-> "stop", file |-> upd[c].file, start |-> "none"]
  <2>1. upd[c].file \in 1..Len(files) /\ new \in ScriptState
    BY DEF Hash, FilesPart, ScriptState
  <2>2. /\ scripts' \in Seq(ScriptState) /\ Len(scripts') = Len(scripts) + 1
        /\ \A s \in 1..Len(scripts) : scripts'[s] = scripts[s]
        /\ scripts'[Len(scripts) + 1] = new
    BY <1>3, <2>1 DEF ScriptsPart
  <2>3. files[upd[c].file] \in vouched'
    BY <1>3 DEF Hash, Verified
  <2>4. \A d \in Call : upd[d].file = upd[c].file => calls'[d].handler = "end"
    <3>1. calls'[c].handler = "end"
      BY DEF Hash, Return, CallsPart, RpcTypeOK
    <3> QED
      BY <3>1, <2>1 DEF FilesPart
  <2>5. ScriptsPart'
    BY <1>1, <1>3, <2>1, <2>2, <2>3, <2>4 DEF Hash, ScriptsPart, Onward
  <2>6. Copying => Copying'
    BY <2>2 DEF ScriptsPart, Copying, At
  <2> QED
    BY <1>1, <2>5, <2>6
<1> QED
  BY <1>1, <1>2, <1>3 DEF Hash
--------------------------------------------------------------------------------
\* A script that comes to another command is otherwise as it was.
LEMMA GotoKeeps ==
    ASSUME ScriptsPart, NEW s \in DOMAIN scripts,
           NEW label \in {"stop", "copy", "copying", "start", "del", "end"}, Goto(s, label)
    PROVE  /\ scripts' \in Seq(ScriptState) /\ Len(scripts') = Len(scripts)
           /\ \A t \in 1..Len(scripts) : scripts'[t].file = scripts[t].file
           /\ scripts'[s].pc = label
           /\ \A t \in 1..Len(scripts) : t # s => scripts'[t] = scripts[t]
<1>1. \A t \in 1..Len(scripts) : scripts[t] \in ScriptState
  BY DEF ScriptsPart
<1>2. s \in 1..Len(scripts)
  BY DEF ScriptsPart
<1>3. [scripts[s] EXCEPT !.pc = label] \in ScriptState
  BY <1>2, <1>1 DEF ScriptState
<1>4. scripts' = [scripts EXCEPT ![s] = [scripts[s] EXCEPT !.pc = label]]
  BY DEF Goto
<1> QED
  BY <1>2, <1>1, <1>3, <1>4 DEF ScriptsPart, ScriptState

\* Every command of a script.
LEMMA ScriptKeeps ==
    ASSUME FilesPart, ScriptsPart, CallsPart, ExePart, os \in {"linux", "windows"},
           NEW s \in DOMAIN scripts, Script(s)
    PROVE  os' = os /\ Onward /\ FilesPart' /\ ScriptsPart' /\ ExePart'
<1>1. Onward
  BY StillOnward DEF Script, StopCommand, CopyBegin, CopyEnd, CopyRefused, StartCommand,
       DelCommand, rpcVars, CallsPart, RpcTypeOK
<1>2. UNCHANGED <<os, files, upd, vouched>>
  BY DEF Script, StopCommand, CopyBegin, CopyEnd, CopyRefused, StartCommand, DelCommand,
       procVars, ScStart, Launched
<1>3. os = "windows" /\ DOMAIN scripts = 1..Len(scripts)
  BY DEF ScriptsPart
<1>4. CASE \/ StopCommand(s) \/ CopyRefused(s) \/ DelCommand(s)
  <2>1. PICK label \in {"copy", "start", "end"} : Goto(s, label)
    BY <1>4 DEF StopCommand, CopyRefused, DelCommand
  <2>2. FilesPart' /\ ScriptsPart'
    BY <1>1, <1>2, <2>1, GotoKeeps, ScriptsMove
  <2>3. ~At(s, "copying")
    BY <1>4 DEF StopCommand, CopyRefused, DelCommand, At
  <2>4. Copying => Copying'
    BY <1>3, <2>1, <2>3, GotoKeeps DEF Copying, At, ScriptsPart
  <2>5. ExePart'
    BY <1>2, <1>4, <2>4, ExeStays
       DEF StopCommand, CopyRefused, DelCommand, procVars, scmVars, ProcStep
  <2> QED
    BY <1>1, <1>2, <2>2, <2>5
<1>5. CASE CopyBegin(s)
  <2>1. Goto(s, "copying")
    BY <1>5 DEF CopyBegin
  <2>2. FilesPart' /\ ScriptsPart'
    BY <1>1, <1>2, <2>1, GotoKeeps, ScriptsMove
  <2>3. At(s, "copying")' /\ s \in (DOMAIN scripts)'
    BY <1>3, <2>1, GotoKeeps DEF At, ScriptsPart
  <2>4. exe' = Torn /\ proc' = "none"
    BY <1>5 DEF CopyBegin, Busy, procVars
  <2>5. ExePart'
    BY <1>2, <1>3, <2>3, <2>4 DEF ExePart, InstalledIsVouched, Copying
  <2> QED
    BY <1>1, <1>2, <2>2, <2>5
<1>6. CASE CopyEnd(s)
  <2>1. Goto(s, "start")
    BY <1>6 DEF CopyEnd
  <2>2. FilesPart' /\ ScriptsPart'
    BY <1>1, <1>2, <2>1, GotoKeeps, ScriptsMove
  <2>3. exe' \in vouched' /\ exe' # Torn
    BY <1>2, <1>6, UpdateAssumption DEF CopyEnd, ScriptsPart, FilesPart
  <2>4. ExePart'
    BY <1>2, <1>3, <2>3 DEF ExePart, InstalledIsVouched
  <2> QED
    BY <1>1, <1>2, <2>2, <2>4
<1>7. CASE StartCommand(s)
  <2>1. PICK why \in {"ok", "alive", "unreadable"} :
            /\ scripts' = [scripts EXCEPT ![s] = [@ EXCEPT !.pc = "del", !.start = why]]
            /\ IF why = "ok" THEN ScStart ELSE UNCHANGED <<procVars, scmVars>>
            /\ why = "ok" => exe # Torn
    BY <1>7 DEF StartCommand
  <2> DEFINE new == [scripts[s] EXCEPT !.pc = "del", !.start = why]
  <2>2. scripts[s] \in ScriptState
    BY DEF ScriptsPart
  <2>3. new \in ScriptState /\ new.file = scripts[s].file
    BY <2>2 DEF ScriptState
  <2>4. /\ scripts' \in Seq(ScriptState) /\ Len(scripts') = Len(scripts)
        /\ scripts'[s] = new /\ \A t \in 1..Len(scripts) : t # s => scripts'[t] = scripts[t]
    BY <1>3, <2>1, <2>3 DEF ScriptsPart
  <2> HIDE DEF new
  <2>5. FilesPart' /\ ScriptsPart'
    BY <1>1, <1>2, <2>3, <2>4, ScriptsMove
  <2>6. ~At(s, "copying")
    BY <1>7 DEF StartCommand, At
  <2>7. Copying => Copying'
    BY <1>3, <2>4, <2>6 DEF Copying, At, ScriptsPart
  <2>8. exe' = exe /\ ProcStep
    BY <2>1 DEF ProcStep, procVars, scmVars, ScStart
  <2>9. ExePart'
    BY <1>2, <2>7, <2>8, ExeStays
  <2> QED
    BY <1>1, <1>2, <2>5, <2>9
<1> QED
  BY <1>4, <1>5, <1>6, <1>7 DEF Script
--------------------------------------------------------------------------------
\* A step that neither a call of UpdateLoader nor a script takes.
LEMMA OtherKeeps ==
    ASSUME FilesPart, ScriptsPart, ExePart, Onward, UNCHANGED <<os, exe, updVars>>, ProcStep
    PROVE  FilesPart' /\ ScriptsPart' /\ ExePart'
BY UpdStays, ExeStays

\* What the process' own steps do: only a launch needs to look at the executable.
LEMMA ProcSteps ==
    ASSUME ExePart,
           \/ UNCHANGED procVars \/ Initialised \/ Started \/ Stopped
           \/ \E why \in {"initError", "panic", "signal", "exit"} : Ended(why)
           \/ Launched /\ (os = "linux" \/ exe # Torn)
    PROVE  os' = os /\ ProcStep
BY UpdateAssumption DEF ExePart, procVars, Initialised, Started, Stopped, Ended, Launched, ProcStep

\* Every step keeps which files are vouched for and what the executable is.
LEMMA UpdateStep ==
    ASSUME LInv, [Next]_vars
    PROVE  os' = os /\ CallsPart' /\ FilesPart' /\ ScriptsPart' /\ ExePart'
<1> SUFFICES os' = os /\ Onward /\ FilesPart' /\ ScriptsPart' /\ ExePart'
  BY DEF Onward
<1>1. /\ os \in {"linux", "windows"} /\ CallsPart /\ FilesPart /\ ScriptsPart /\ ExePart
      /\ net \in {"idle", "serving", "stopped"}
  BY DEF LInv, CallsPart, RpcTypeOK
<1>2. CASE Signals
  <2>1. UNCHANGED <<exe, rpcVars, updVars>>
    BY <1>2 DEF Signals, scmVars
  <2>2. \/ UNCHANGED procVars \/ Initialised \/ Started \/ Stopped
        \/ Launched /\ os = "linux"
    <3>1. CASE Reborn \/ Main
      BY <3>1 DEF Reborn, Main
    <3>2. CASE Handle
      BY <3>2 DEF Handle, ServeSignals, TakeSignal, StopRendezvous, DoneRendezvous
    <3>3. CASE Work
      BY <3>3 DEF Work, StartServices, StopServices
    <3>4. CASE \E sig \in Signal : Deliver(sig)
      BY <3>4 DEF Deliver
    <3> QED
      BY <1>2, <3>1, <3>2, <3>3, <3>4 DEF Signals
  <2>3. os' = os /\ ProcStep
    BY <1>1, <2>2, ProcSteps
  <2>4. Onward
    BY <1>1, <2>1, StillOnward DEF rpcVars
  <2> QED
    BY <1>1, <2>1, <2>3, <2>4, OtherKeeps
<1>3. CASE Killed
  <2>1. UNCHANGED <<exe, updVars>> /\ Cut /\ Ended("signal")
    BY <1>3 DEF Killed, Kill, scmVars
  <2> QED
    BY <1>1, <2>1, ProcSteps, CutOnward, OtherKeeps
<1>4. CASE Manager
  <2>1. UNCHANGED <<exe, rpcVars, updVars>> /\ Launched /\ exe # Torn
    BY <1>4 DEF Manager, ScStart, Runnable
  <2>2. Onward
    BY <1>1, <2>1, StillOnward DEF rpcVars
  <2> QED
    BY <1>1, <2>1, <2>2, ProcSteps, OtherKeeps
<1>5. CASE Service
  <2>1. UNCHANGED updVars /\ (Cut \/ UNCHANGED rpcVars)
    BY <1>5 DEF Service
  <2>2. /\ exe' = exe
        /\ \/ Initialised \/ Started \/ Stopped \/ Ended("exit") \/ Ended("initError")
    BY <1>5 DEF Service, Ending, ServiceMain, ServiceInit, ServiceStart, ServiceStop,
         ServiceExit, InitError, scmVars
  <2>3. os' = os /\ ProcStep
    BY <1>1, <2>2, ProcSteps
  <2>4. Onward
    BY <1>1, <2>1, CutOnward, StillOnward DEF rpcVars
  <2> QED
    BY <1>1, <2>1, <2>2, <2>3, <2>4, OtherKeeps
<1>6. CASE Network
  <2>1. UNCHANGED <<exe, updVars, procVars>>
    BY <1>6 DEF Network, LinkUp, LinkDown, scmVars
  <2>2. Onward
    BY <1>1, <1>6, HangupOnward, StillOnward DEF Network, LinkUp
  <2> QED
    BY <1>1, <2>1, <2>2, ProcSteps, OtherKeeps
<1>7. ASSUME NEW c \in Call, Client(c)
      PROVE  os' = os /\ Onward /\ FilesPart' /\ ScriptsPart' /\ ExePart'
  <2>1. UNCHANGED <<exe, updVars, procVars>>
    BY <1>7 DEF Client, NewStream, Stub, SendMsg, CloseSend, ClientGone, scmVars
  <2>2. Onward
    BY <1>1, <1>7, StepOnward, RpcAssumption DEF Client, Stub
  <2> QED
    BY <1>1, <2>1, <2>2, ProcSteps, OtherKeeps
<1>8. ASSUME NEW c \in Call, Server(c) \/ OtherMethod(c), UNCHANGED <<exe, updVars>>
      PROVE  os' = os /\ Onward /\ FilesPart' /\ ScriptsPart' /\ ExePart'
  <2>1. UNCHANGED procVars \/ Ended("panic")
    BY <1>8 DEF Server, OtherMethod, Dispatch, Request, RequestError, Undefined, Return
  <2>2. Onward
    BY <1>1, <1>8, StepOnward, CutOnward, RpcAssumption DEF Server, OtherMethod, Undefined
  <2> QED
    BY <1>1, <1>8, <2>1, <2>2, ProcSteps, OtherKeeps
<1>9. ASSUME NEW c \in Call, Handler(c)
      PROVE  os' = os /\ Onward /\ FilesPart' /\ ScriptsPart' /\ ExePart'
  <2>1. CASE UpdateError(c)
    <3>1. UNCHANGED <<exe, updVars, procVars>> /\ Return(c)
      BY <2>1 DEF UpdateError, Return, scmVars
    <3>2. Onward
      BY <1>1, <3>1, StepOnward, RpcAssumption
    <3> QED
      BY <1>1, <3>1, <3>2, ProcSteps, OtherKeeps
  <2>2. ASSUME NEW size \in 0..MaxPieces, Info(c, size)
        PROVE  os' = os /\ Onward /\ FilesPart' /\ ScriptsPart' /\ ExePart'
    <3>1. UNCHANGED <<exe, scripts, vouched, procVars, rpcVars>>
      BY <2>2 DEF Info, scmVars
    <3>2. Onward
      BY <1>1, <3>1, StillOnward DEF rpcVars
    <3>3. os' = os /\ ProcStep
      BY <1>1, <3>1, ProcSteps
    <3> QED
      BY <1>1, <2>2, <3>1, <3>2, <3>3, InfoKeeps, ExeStays DEF Copying, At
  <2>3. ASSUME NEW piece \in Piece, Chunk(c, piece)
        PROVE  os' = os /\ Onward /\ FilesPart' /\ ScriptsPart' /\ ExePart'
    <3>1. /\ UNCHANGED <<exe, scripts, vouched>>
          /\ (UNCHANGED <<procVars, rpcVars>>) \/ (Ended("panic") /\ Cut)
      BY <2>3 DEF Chunk, scmVars
    <3>2. Onward
      BY <1>1, <3>1, StillOnward, CutOnward DEF rpcVars
    <3>3. os' = os /\ ProcStep
      BY <1>1, <3>1, ProcSteps
    <3> QED
      BY <1>1, <2>3, <3>1, <3>2, <3>3, ChunkKeeps, ExeStays DEF Copying, At
  <2>4. ASSUME NEW hash \in Content, Hash(c, hash)
        PROVE  os' = os /\ Onward /\ FilesPart' /\ ScriptsPart' /\ ExePart'
    <3>1. UNCHANGED <<exe, procVars>> /\ Return(c)
      BY <2>4 DEF Hash, Return, scmVars
    <3>2. Onward
      BY <1>1, <3>1, StepOnward, RpcAssumption
    <3>3. os' = os /\ ProcStep
      BY <1>1, <3>1, ProcSteps
    <3>4. FilesPart' /\ ScriptsPart' /\ vouched \subseteq vouched' /\ (Copying => Copying')
      BY <1>1, <2>4, <3>2, <3>3, HashKeeps
    <3> QED
      BY <1>1, <3>1, <3>2, <3>3, <3>4, ExeStays
  <2> QED
    BY <1>9, <2>1, <2>2, <2>3, <2>4 DEF Handler
<1>10. CASE Scripts
  BY <1>1, <1>10, ScriptKeeps DEF Scripts
<1>11. CASE PowerLoss
  <2>1. UNCHANGED <<os, exe, files, upd, vouched>> /\ proc' = "none" /\ cause' = "powerLoss" /\ Cut
    BY <1>11 DEF PowerLoss
  <2>2. Onward
    BY <1>1, <2>1, CutOnward
  <2>3. \A s \in 1..Len(scripts) : scripts[s] \in ScriptState
    BY <1>1 DEF ScriptsPart
  <2>4. \A s \in 1..Len(scripts) :
            /\ [scripts[s] EXCEPT !.pc = "end"] \in ScriptState
            /\ [scripts[s] EXCEPT !.pc = "end"].file = scripts[s].file
    BY <2>3 DEF ScriptState
  <2>5. scripts' = [s \in 1..Len(scripts) |-> [scripts[s] EXCEPT !.pc = "end"]]
    BY <1>1, <1>11 DEF PowerLoss, ScriptsPart
  <2>6. Len(scripts) \in Nat
    BY <1>1 DEF ScriptsPart
  <2>7. scripts' \in Seq(ScriptState) /\ Len(scripts') = Len(scripts)
    BY <2>4, <2>5, <2>6
  <2>8. FilesPart' /\ ScriptsPart'
    BY <1>1, <2>1, <2>2, <2>4, <2>5, <2>7, ScriptsMove
  <2>9. ExePart'
    BY <1>1, <2>1 DEF ExePart, InstalledIsVouched
  <2> QED
    BY <2>1, <2>2, <2>8, <2>9
<1>12. CASE UNCHANGED vars
  <2>1. UNCHANGED <<exe, updVars, procVars, rpcVars>>
    BY <1>12 DEF vars, scmVars
  <2>2. Onward
    BY <1>1, <2>1, StillOnward DEF rpcVars
  <2> QED
    BY <1>1, <2>1, <2>2, ProcSteps, OtherKeeps
<1>13. ASSUME NEW c \in Call, Serving(c)
       PROVE  os' = os /\ Onward /\ FilesPart' /\ ScriptsPart' /\ ExePart'
  BY <1>8, <1>9, <1>13 DEF Serving, Ending
<1> QED
  BY <1>2, <1>3, <1>4, <1>5, <1>6, <1>7, <1>10, <1>11, <1>12, <1>13 DEF Next
--------------------------------------------------------------------------------
\* Only a process that is up starts its services, and only once; worker comes to
\* its last step by way of prg.Stop, and there is none on Windows.
LEMMA ServiceStep ==
    ASSUME os \in {"linux", "windows"}, ServicePart, [Next]_vars
    PROVE  ServicePart'
<1>1. CASE Signals
  <2>1. CASE Reborn \/ Main
    BY <2>1 DEF Reborn, Main, Launched, Initialised, NoGoroutines, ServicePart
  <2>2. CASE Handle
    BY <2>2 DEF Handle, ServeSignals, TakeSignal, StopRendezvous, DoneRendezvous, procVars,
         ServicePart
  <2>3. CASE Work
    BY <2>3 DEF Work, StartServices, StopServices, Started, Stopped, ServicePart
  <2>4. CASE \E sig \in Signal : Deliver(sig)
    BY <2>4 DEF Deliver, procVars, ServicePart
  <2> QED
    BY <1>1, <2>1, <2>2, <2>3, <2>4 DEF Signals
<1>2. CASE Killed \/ PowerLoss
  BY <1>2 DEF Killed, Kill, PowerLoss, Ended, NoGoroutines, ServicePart
<1>3. CASE Manager
  BY <1>3 DEF Manager, ScStart, Launched, daemonVars, goVars, ServicePart
<1>4. CASE Service
  <2>1. CASE UNCHANGED goVars /\ (Initialised \/ Started \/ Stopped) /\ os = "windows"
    BY <2>1 DEF goVars, Initialised, Started, Stopped, ServicePart
  <2>2. CASE UNCHANGED goVars /\ (Started \/ Stopped)
    BY <2>2 DEF goVars, Started, Stopped, ServicePart
  <2>3. CASE NoGoroutines /\ proc' = "none"
    BY <2>3 DEF NoGoroutines, ServicePart
  <2>4. (Initialised \/ Started \/ Stopped) => proc # "none" /\ proc' # "none"
    BY DEF Initialised, Started, Stopped
  <2>5. Ended("exit") \/ Ended("initError") => proc # "none" /\ proc' = "none"
    BY DEF Ended
  <2> QED
    BY <1>4, <2>1, <2>2, <2>3, <2>4, <2>5
       DEF Service, Ending, ServiceMain, ServiceInit, ServiceStart, ServiceStop, ServiceExit,
           InitError
<1>5. CASE Network
  BY <1>5 DEF Network, LinkUp, LinkDown, procVars, daemonVars, goVars, ServicePart
<1>6. ASSUME NEW c \in Call, Client(c) PROVE ServicePart'
  BY <1>6 DEF Client, NewStream, Stub, SendMsg, CloseSend, ClientGone, procVars, daemonVars,
       goVars, ServicePart
<1>7. ASSUME NEW c \in Call, Serving(c) PROVE ServicePart'
  <2>1. UNCHANGED procVars \/ Ended("panic")
    <3>1. Handler(c) => UNCHANGED procVars \/ Ended("panic")
      BY DEF Handler, Info, Chunk, Hash, UpdateError, Return
    <3>2. Server(c) => UNCHANGED procVars \/ Ended("panic")
      BY DEF Server, Dispatch, Request, RequestError, Undefined
    <3>3. OtherMethod(c) => UNCHANGED procVars \/ Ended("panic")
      BY DEF OtherMethod, Return
    <3> QED
      BY <1>7, <3>1, <3>2, <3>3 DEF Serving, Ending
  <2>2. IF proc # "none" /\ proc' = "none" THEN NoGoroutines ELSE UNCHANGED goVars
    BY <1>7 DEF Serving, Ending
  <2> QED
    BY <2>1, <2>2 DEF procVars, goVars, Ended, NoGoroutines, ServicePart
<1>8. CASE Scripts
  <2>1. UNCHANGED procVars \/ Launched
    BY <1>8 DEF Scripts, Script, StopCommand, CopyBegin, CopyEnd, CopyRefused, StartCommand,
         DelCommand, ScStart
  <2>2. UNCHANGED procVars \/ os = "windows"
    BY <1>8 DEF Scripts, Script, StopCommand, CopyBegin, CopyEnd, CopyRefused, StartCommand,
         DelCommand, ScStart
  <2>3. UNCHANGED goVars
    BY <1>8 DEF Scripts, daemonVars
  <2> QED
    BY <2>1, <2>2, <2>3 DEF procVars, goVars, Launched, ServicePart
<1>9. CASE UNCHANGED vars
  BY <1>9 DEF vars, procVars, daemonVars, goVars, ServicePart
<1> QED
  BY <1>1, <1>2, <1>3, <1>4, <1>5, <1>6, <1>7, <1>8, <1>9 DEF Next

\* The initial states satisfy LInv.
LEMMA LoaderInit == Init => LInv
<1> SUFFICES ASSUME Init PROVE LInv
  OBVIOUS
<1>1. "Info" \in Method
  <2>1. DeploymentDesc \in Descs /\ "Info" \in DOMAIN DeploymentDesc
    BY DEF Descs, DeploymentDesc
  <2> QED
    BY <2>1 DEF Method
<1>2. CallsPart
  BY <1>1 DEF Init, RpcInit, NewCall, CallsPart, RpcTypeOK
<1>3. FilesPart
  BY UpdateAssumption DEF Init, UpdInit, NewUpdate, FilesPart
<1>4. ScriptsPart
  BY DEF Init, UpdInit, ScriptsPart
<1>5. ExePart
  BY UpdateAssumption DEF Init, ScmInit, ExePart, InstalledIsVouched
<1>6. ServicePart
  BY DEF Init, ProcInit, DaemonInit, ServicePart
<1> QED
  BY <1>2, <1>3, <1>4, <1>5, <1>6 DEF Init, ProcInit, LInv

\* LoaderProcess' inductive invariant, which relates the calls' files to the
\* scripts', the executable to the process, and worker to the services.
THEOREM LInvariant == Spec => []LInv
<1>1. LInv /\ [Next]_vars => LInv'
  <2> SUFFICES ASSUME LInv, [Next]_vars PROVE LInv'
    OBVIOUS
  <2>1. os' = os /\ CallsPart' /\ FilesPart' /\ ScriptsPart' /\ ExePart'
    BY UpdateStep
  <2>2. ServicePart'
    BY ServiceStep DEF LInv
  <2> QED
    BY <2>1, <2>2 DEF LInv
<1> QED
  BY <1>1, LoaderInit, PTL DEF Spec

\* UpdateLoader and its scripts leave no executable but the first one or one
\* whose size and hash a client sent, and none half written but by a power loss.
THEOREM InstalledVouched == Spec => []InstalledIsVouched
<1>1. LInv => InstalledIsVouched
  BY DEF LInv, ExePart
<1> QED
  BY <1>1, LInvariant, PTL

\* termHandler returns from a SIGQUIT only when worker has called prg.Stop.
THEOREM QuitWaits == Spec => QuitWaitsForStop
<1>1. LInv /\ [Next]_vars => [serve = "done" /\ serve' = "wait" => services = "stopped"]_vars
  <2> SUFFICES ASSUME LInv, Next, serve = "done", serve' = "wait" PROVE services = "stopped"
    BY DEF vars, daemonVars, goVars
  <2>1. DoneRendezvous
    <3>1. ~NoGoroutines /\ serve' # serve
      BY DEF NoGoroutines
    <3>2. Signals
      <4>1. ~Service /\ ~Network /\ ~Manager /\ ~Killed /\ ~PowerLoss /\ ~Scripts
        BY <3>1 DEF Service, Ending, Network, Manager, ScStart, Killed, Kill, PowerLoss, Scripts,
             daemonVars, goVars
      <4>2. \A c \in Call : ~Client(c) /\ ~Serving(c)
        BY <3>1 DEF Client, Serving, Ending, daemonVars, goVars
      <4> QED
        BY <4>1, <4>2 DEF Next
    <3> QED
      BY <3>1, <3>2 DEF Signals, Reborn, Main, Handle, Work, ServeSignals, TakeSignal,
           StopRendezvous, StartServices, StopServices, Deliver
  <2> QED
    BY <2>1 DEF DoneRendezvous, LInv, ServicePart
<1> QED
  BY <1>1, LInvariant, PTL DEF Spec, QuitWaitsForStop

\* A process whose services run ends only by a panic, a loss of power, or a signal
\* that comes before main's ServeSignals.
THEOREM StopsBeforeExit == Spec => StopBeforeExit
<1> DEFINE Fine == proc # "none" /\ proc' = "none" /\ services = "started" =>
               cause' \in {"panic", "powerLoss"} \/ (os = "linux" /\ serve = "off")
<1>1. LInv /\ [Next]_vars => [Fine]_vars
  <2> SUFFICES ASSUME LInv, Next, proc # "none", proc' = "none", services = "started"
               PROVE  cause' \in {"panic", "powerLoss"} \/ (os = "linux" /\ serve = "off")
    OBVIOUS
  <2>1. ~(UNCHANGED procVars) /\ ~Launched /\ ~Initialised /\ ~Started /\ ~Stopped
    BY DEF procVars, Launched, Initialised, Started, Stopped
  <2>2. proc # "init"
    BY DEF LInv, ServicePart
  <2>3. Ended("panic") => cause' = "panic"
    BY DEF Ended
  <2>4. CASE Killed \/ PowerLoss
    BY <2>4 DEF Killed, Kill, PowerLoss
  <2>5. ~Signals
    <3>1. ~Reborn /\ ~Main /\ ~Handle
      BY <2>1 DEF Reborn, Main, Handle, ServeSignals, TakeSignal, StopRendezvous, DoneRendezvous
    <3>2. ~Work /\ ~\E sig \in Signal : Deliver(sig)
      BY <2>1 DEF Work, StartServices, StopServices, Deliver
    <3> QED
      BY <3>1, <3>2 DEF Signals
  <2>6. ~Manager /\ ~Service
    BY <2>1, <2>2 DEF Manager, ScStart, Service, Ending, ServiceMain, ServiceInit, ServiceStart,
         ServiceStop, ServiceExit, InitError
  <2>7. ~Network /\ \A c \in Call : ~Client(c)
    BY <2>1 DEF Network, LinkUp, LinkDown, Client, NewStream, Stub, SendMsg, CloseSend, ClientGone
  <2>8. ASSUME NEW c \in Call, Serving(c) PROVE cause' = "panic"
    <3>1. Handler(c) => UNCHANGED procVars \/ Ended("panic")
      BY DEF Handler, Info, Chunk, Hash, UpdateError, Return
    <3>2. Server(c) => UNCHANGED procVars \/ Ended("panic")
      BY DEF Server, Dispatch, Request, RequestError, Undefined
    <3>3. OtherMethod(c) => UNCHANGED procVars \/ Ended("panic")
      BY DEF OtherMethod, Return
    <3> QED
      BY <2>1, <2>3, <2>8, <3>1, <3>2, <3>3 DEF Serving, Ending
  <2>9. ~Scripts
    BY <2>1 DEF Scripts, Script, StopCommand, CopyBegin, CopyEnd, CopyRefused, StartCommand,
         DelCommand, ScStart
  <2> QED
    BY <2>4, <2>5, <2>6, <2>7, <2>8, <2>9 DEF Next
<1> QED
  BY <1>1, LInvariant, PTL DEF Spec, StopBeforeExit
--------------------------------------------------------------------------------
\* The types of the process and of the daemon.  A handler demands termination for
\* a signal that was queued, and no more were queued than were sent.
DaemonPart ==
    /\ ProcTypeOK /\ DaemonTypeOK
    /\ demands + Len(queue) <= sent

\* A process that ends or begins, and one whose goroutines stay as they are.
LEMMA NoGoroutinesFine ==
    ASSUME DaemonPart, ProcTypeOK', NoGoroutines, sent' \in sent..MaxSignals
    PROVE  DaemonPart'
<1>1. sent \in Nat /\ MaxSignals \in Nat /\ QueueSize \in Nat
  BY DaemonAssumption DEF DaemonPart, DaemonTypeOK
<1>2. Len(<<>>) = 0 /\ <<>> \in Seq(Signal) /\ "HUP" \in Signal
  BY DEF Signal
<1> QED
  BY <1>1, <1>2 DEF NoGoroutines, DaemonPart, DaemonTypeOK

LEMMA GoroutinesStay ==
    ASSUME DaemonPart, ProcTypeOK', UNCHANGED daemonVars
    PROVE  DaemonPart'
BY DEF DaemonPart, DaemonTypeOK, daemonVars, goVars

\* What the steps of a process do to its own variables.
LEMMA ProcTyped ==
    ASSUME ProcTypeOK,
           \/ UNCHANGED procVars \/ Launched \/ Initialised \/ Started \/ Stopped
           \/ \E why \in {"initError", "panic", "signal", "exit"} : Ended(why)
    PROVE  ProcTypeOK'
BY DEF ProcTypeOK, procVars, Launched, Initialised, Started, Stopped, Ended

\* main, worker and ServeSignals.
LEMMA SignalsTyped ==
    ASSUME DaemonPart, Signals
    PROVE  DaemonPart'
<1>1. /\ sent \in Nat /\ MaxSignals \in Nat /\ QueueSize \in Nat /\ demands \in Nat
      /\ sent <= MaxSignals /\ demands + Len(queue) <= sent
      /\ queue \in Seq(Signal) /\ Len(queue) \in Nat /\ Len(queue) <= QueueSize
  BY DaemonAssumption DEF DaemonPart, DaemonTypeOK
<1>2. ProcTypeOK'
  <2>1. \/ UNCHANGED procVars \/ Launched \/ Initialised \/ Started \/ Stopped
    <3>1. Reborn \/ Main => Launched \/ Initialised
      BY DEF Reborn, Main
    <3>2. Handle => UNCHANGED procVars
      BY DEF Handle, ServeSignals, TakeSignal, StopRendezvous, DoneRendezvous
    <3>3. Work => Started \/ Stopped
      BY DEF Work, StartServices, StopServices
    <3>4. (\E sig \in Signal : Deliver(sig)) => UNCHANGED procVars
      BY DEF Deliver
    <3> QED
      BY <3>1, <3>2, <3>3, <3>4 DEF Signals
  <2> QED
    BY <2>1, ProcTyped DEF DaemonPart
<1>3. CASE Reborn
  BY <1>1, <1>2, <1>3, NoGoroutinesFine DEF Reborn
<1>4. CASE Main \/ ServeSignals \/ StopRendezvous \/ DoneRendezvous \/ Work
  <2>1. UNCHANGED <<sent, queue, handling, demands>>
    BY <1>4 DEF Main, ServeSignals, StopRendezvous, DoneRendezvous, Work, StartServices,
         StopServices
  <2>2. /\ serve' \in {serve, "wait", "done", "returned"}
        /\ worker' \in {worker, "start", "wait", "stopping", "done", "end"}
    BY <1>4 DEF Main, ServeSignals, StopRendezvous, DoneRendezvous, Work, StartServices,
         StopServices, Returns
  <2> QED
    BY <1>2, <2>1, <2>2 DEF DaemonPart, DaemonTypeOK
<1>5. CASE TakeSignal
  <2>1. /\ UNCHANGED <<sent, worker>> /\ queue # <<>>
        /\ handling' = Head(queue) /\ queue' = Tail(queue)
        /\ serve' \in {"wait", "returned", "stop"} /\ demands' \in {demands, demands + 1}
    BY <1>5 DEF TakeSignal, Returns
  <2>2. /\ handling' \in Signal /\ queue' \in Seq(Signal) /\ Len(queue') = Len(queue) - 1
        /\ Len(queue) > 0
    BY <1>1, <2>1
  <2>3. demands' \in 0..MaxSignals /\ demands' + Len(queue') <= sent'
    BY <1>1, <2>1, <2>2
  <2>4. Len(queue') <= QueueSize
    BY <1>1, <2>2
  <2> QED
    BY <1>2, <2>1, <2>2, <2>3, <2>4 DEF DaemonPart, DaemonTypeOK
<1>6. ASSUME NEW sig \in Signal, Deliver(sig) PROVE DaemonPart'
  <2>1. /\ UNCHANGED <<serve, handling, worker, demands>>
        /\ sent' = sent + 1 /\ sent + 1 <= MaxSignals
        /\ queue' = IF Len(queue) < QueueSize THEN Append(queue, sig) ELSE queue
    BY <1>1, <1>6 DEF Deliver
  <2>2. queue' \in Seq(Signal) /\ Len(queue') <= QueueSize /\ Len(queue') <= Len(queue) + 1
        /\ Len(queue') \in Nat
    BY <1>1, <2>1
  <2>3. sent' \in 0..MaxSignals /\ demands' + Len(queue') <= sent'
    BY <1>1, <2>1, <2>2
  <2> QED
    BY <1>2, <2>1, <2>2, <2>3 DEF DaemonPart, DaemonTypeOK
<1> QED
  BY <1>3, <1>4, <1>5, <1>6 DEF Signals, Handle

\* The other steps: a process may end, and its goroutines with it.
LEMMA DaemonStep ==
    ASSUME DaemonPart, [Next]_vars
    PROVE  DaemonPart'
<1>1. ProcTypeOK /\ sent \in 0..MaxSignals /\ MaxSignals \in Nat
  BY DaemonAssumption DEF DaemonPart, DaemonTypeOK
<1>2. ASSUME ProcTypeOK', UNCHANGED sent, NoGoroutines \/ UNCHANGED goVars PROVE DaemonPart'
  BY <1>1, <1>2, NoGoroutinesFine, GoroutinesStay DEF daemonVars
<1>3. CASE Killed
  <2>1. ProcTypeOK'
    BY <1>1, <1>3, ProcTyped DEF Killed, Kill
  <2>2. sent' \in sent..MaxSignals
    BY <1>1, <1>3 DEF Killed, Kill
  <2> QED
    BY <1>3, <2>1, <2>2, NoGoroutinesFine DEF Killed, Kill
<1>4. CASE Manager
  BY <1>1, <1>4, ProcTyped, GoroutinesStay DEF Manager, ScStart
<1>5. CASE Service
  <2>1. \/ Initialised \/ Started \/ Stopped
        \/ \E why \in {"initError", "panic", "signal", "exit"} : Ended(why)
    BY <1>5 DEF Service, Ending, ServiceMain, ServiceInit, ServiceStart, ServiceStop, ServiceExit,
         InitError
  <2>2. ProcTypeOK'
    BY <1>1, <2>1, ProcTyped
  <2> QED
    BY <1>2, <1>5, <2>2 DEF Service, Ending
<1>6. CASE Network
  BY <1>1, <1>6, ProcTyped, GoroutinesStay DEF Network, LinkUp, LinkDown
<1>7. ASSUME NEW c \in Call, Client(c) PROVE DaemonPart'
  <2>1. UNCHANGED procVars /\ UNCHANGED daemonVars
    BY <1>7 DEF Client, NewStream, Stub, SendMsg, CloseSend, ClientGone
  <2> QED
    BY <1>1, <2>1, ProcTyped, GoroutinesStay
<1>8. ASSUME NEW c \in Call, Serving(c) PROVE DaemonPart'
  <2>1. UNCHANGED procVars \/ Ended("panic")
    <3>1. Handler(c) => UNCHANGED procVars \/ Ended("panic")
      BY DEF Handler, Info, Chunk, Hash, UpdateError, Return
    <3>2. Server(c) => UNCHANGED procVars \/ Ended("panic")
      BY DEF Server, Dispatch, Request, RequestError, Undefined
    <3>3. OtherMethod(c) => UNCHANGED procVars \/ Ended("panic")
      BY DEF OtherMethod, Return
    <3> QED
      BY <1>8, <3>1, <3>2, <3>3 DEF Serving, Ending
  <2>2. ProcTypeOK'
    BY <1>1, <2>1, ProcTyped
  <2> QED
    BY <1>2, <1>8, <2>2 DEF Serving, Ending
<1>9. CASE Scripts
  <2>1. UNCHANGED daemonVars /\ (UNCHANGED procVars \/ Launched)
    BY <1>9 DEF Scripts, Script, StopCommand, CopyBegin, CopyEnd, CopyRefused, StartCommand,
         DelCommand, ScStart
  <2> QED
    BY <1>1, <2>1, ProcTyped, GoroutinesStay
<1>10. CASE PowerLoss
  <2>1. ProcTypeOK'
    BY <1>1, <1>10 DEF PowerLoss, ProcTypeOK
  <2> QED
    BY <1>2, <1>10, <2>1 DEF PowerLoss
<1>11. CASE UNCHANGED vars
  BY <1>1, <1>11, ProcTyped, GoroutinesStay DEF vars
<1> QED
  BY SignalsTyped, <1>3, <1>4, <1>5, <1>6, <1>7, <1>8, <1>9, <1>10, <1>11 DEF Next

\* The manager's state, and the bound on the temporary files.
LEMMA BoundsStep ==
    ASSUME FilesPart, ScmTypeOK, Len(files) <= MaxFiles, [Next]_vars
    PROVE  (ScmTypeOK /\ Len(files) <= MaxFiles)'
<1>1. files \in Seq(Content) /\ Len(files) \in Nat /\ MaxFiles \in Nat
  BY UpdateAssumption DEF FilesPart
<1>2. UNCHANGED scm \/ scm' \in {"stopped", "startPending", "running", "stopPending"}
  <2>1. ASSUME NEW c \in Call, Serving(c)
        PROVE  UNCHANGED scm \/ scm' = "stopped"
    BY <2>1 DEF Serving, Ending, ManagerSees, Handler, Info, Chunk, Hash, UpdateError, scmVars
  <2>2. Scripts => UNCHANGED scm \/ scm' \in {"startPending", "stopPending"}
    BY DEF Scripts, Script, StopCommand, ScStop, CopyBegin, CopyEnd, CopyRefused, StartCommand,
         ScStart, DelCommand, scmVars
  <2>3. Service => UNCHANGED scm \/ scm' \in {"stopped", "running"}
    BY DEF Service, Ending, ServiceMain, ServiceInit, ServiceStart, ServiceStop, ServiceExit,
         InitError, scmVars
  <2>4. (\E c \in Call : Client(c)) \/ Signals \/ Killed \/ Network \/ UNCHANGED vars
        => UNCHANGED scm
    BY DEF Client, Signals, Killed, Network, vars, scmVars
  <2>5. Manager \/ PowerLoss => scm' \in {"startPending", "stopped"}
    BY DEF Manager, ScStart, PowerLoss
  <2> QED
    BY <2>1, <2>2, <2>3, <2>4, <2>5 DEF Next
<1>3. Len(files') <= MaxFiles
  <2>1. CASE UNCHANGED files
    BY <2>1
  <2>2. ASSUME NEW c \in Call, NEW size \in 0..MaxPieces, Info(c, size)
        PROVE  Len(files') <= MaxFiles
    <3>1. Len(files) < MaxFiles /\ Len(files') = Len(files) + 1
      BY <1>1, <2>2 DEF Info
    <3> QED
      BY <1>1, <3>1
  <2>3. ASSUME NEW c \in Call, NEW piece \in Piece, Chunk(c, piece)
        PROVE  Len(files') <= MaxFiles
    <3>1. upd[c].file \in 1..Len(files) /\ files[upd[c].file] \in Content
      BY <1>1, <2>3 DEF Chunk, FilesPart
    <3>2. Append(files[upd[c].file], piece) \in Content
      BY <2>3, <3>1, Grown DEF Chunk
    <3>3. Len(files') = Len(files)
      BY <1>1, <2>3, <3>1, <3>2 DEF Chunk
    <3> QED
      BY <3>3
  <2>4. ASSUME NEW c \in Call, Serving(c)
        PROVE  \/ UNCHANGED files
               \/ \E size \in 0..MaxPieces : Info(c, size)
               \/ \E piece \in Piece : Chunk(c, piece)
    BY <2>4 DEF Serving, Ending, Handler, Hash, UpdateError, updVars
  <2>5. Scripts => UNCHANGED files
    BY DEF Scripts, Script, StopCommand, CopyBegin, CopyEnd, CopyRefused, StartCommand, DelCommand
  <2>6. \/ (\E c \in Call : Client(c)) \/ Signals \/ Killed \/ Network \/ Manager \/ Service
        \/ PowerLoss \/ UNCHANGED vars
        => UNCHANGED files
    BY DEF Client, Signals, Killed, Network, Manager, Service, PowerLoss, vars, updVars
  <2> QED
    BY <2>1, <2>2, <2>3, <2>4, <2>5, <2>6 DEF Next
<1> QED
  BY <1>2, <1>3 DEF ScmTypeOK

\* The process, the daemon, the manager, the calls and the update keep their types,
\* for any number of signals, calls, pieces and files.
THEOREM TypeCorrect == Spec => []TypeOK
<1>1. Init => DaemonPart /\ ScmTypeOK /\ Len(files) <= MaxFiles
  <2> SUFFICES ASSUME Init PROVE DaemonPart /\ ScmTypeOK /\ Len(files) <= MaxFiles
    OBVIOUS
  <2>1. Len(files) = 0 /\ Len(queue) = 0 /\ sent = 0 /\ demands = 0
    BY DEF Init, UpdInit, DaemonInit
  <2>2. ProcTypeOK /\ ScmTypeOK
    BY DEF Init, ProcInit, ProcTypeOK, ScmInit, ScmTypeOK
  <2>3. queue \in Seq(Signal)
    BY DEF Init, DaemonInit
  <2>4. serve = "off" /\ handling \in Signal /\ worker = "off"
    BY DEF Init, DaemonInit, Signal
  <2>5. DaemonTypeOK
    BY <2>1, <2>3, <2>4, DaemonAssumption DEF DaemonTypeOK
  <2> QED
    BY <2>1, <2>2, <2>5, UpdateAssumption DEF DaemonPart
<1>2. LInv /\ DaemonPart /\ [Next]_vars => DaemonPart'
  BY DaemonStep
<1>3. LInv /\ ScmTypeOK /\ Len(files) <= MaxFiles /\ [Next]_vars
      => (ScmTypeOK /\ Len(files) <= MaxFiles)'
  BY BoundsStep DEF LInv
<1>4. LInv /\ DaemonPart /\ ScmTypeOK /\ Len(files) <= MaxFiles => TypeOK
  <2> SUFFICES ASSUME LInv, DaemonPart, ScmTypeOK, Len(files) <= MaxFiles PROVE TypeOK
    OBVIOUS
  <2>1. FilesPart /\ ScriptsPart /\ ExePart /\ CallsPart
    BY DEF LInv
  <2>2. files \in Seq(Content) /\ Len(files) \in Nat /\ vouched \subseteq Content
    BY <2>1 DEF FilesPart
  <2>3. upd \in [Call -> [total : 0..MaxPieces, file : 0..Len(files)]]
    BY <2>1, <2>2 DEF FilesPart
  <2> DEFINE S == [pc : {"stop", "copy", "copying", "start", "del", "end"},
                   file : 1..Len(files), start : {"none", "ok", "alive", "unreadable"}]
  <2>4. \A s \in 1..Len(scripts) : scripts[s] \in S
    <3> SUFFICES ASSUME NEW s \in 1..Len(scripts) PROVE scripts[s] \in S
      OBVIOUS
    <3>1. scripts[s] \in ScriptState
      BY <2>1 DEF ScriptsPart
    <3>2. scripts[s].file \in 1..Len(files)
      BY <2>1, <2>2, <3>1 DEF ScriptsPart, ScriptState
    <3> QED
      BY <3>1, <3>2 DEF ScriptState
  <2> HIDE DEF S
  <2>5. scripts \in Seq(S)
    BY <2>1, <2>4 DEF ScriptsPart
  <2>6. exe \in Content \cup {Shipped, Torn}
    BY <2>1, <2>2 DEF ExePart, InstalledIsVouched
  <2>7. UpdTypeOK
    BY <2>2, <2>3, <2>5, <2>6 DEF UpdTypeOK, S
  <2> QED
    BY <2>1, <2>7 DEF TypeOK, DaemonPart, CallsPart
<1> QED
  BY <1>1, <1>2, <1>3, <1>4, LInvariant, PTL DEF Spec
--------------------------------------------------------------------------------
\* One script copies at a time, and while it does the executable is half written.
CopyPart ==
    /\ \A s, t \in DOMAIN scripts : At(s, "copying") /\ At(t, "copying") => s = t
    /\ Copying => exe = Torn

\* No script begins to copy or ends it.
SameCopies == \A s : At(s, "copying")' <=> At(s, "copying")

\* What a step that copies nothing does to the process.
ProcMoves ==
    \/ UNCHANGED procVars \/ Initialised \/ Started \/ Stopped
    \/ \E why \in {"initError", "panic", "signal", "exit"} : Ended(why)
    \/ Launched /\ exe # Torn

Plain == UNCHANGED <<exe, vouched>> /\ SameCopies /\ ProcMoves

\* A command of a script, but those of the copy.
LEMMA CommandPlain ==
    ASSUME ScriptsPart, NEW s \in DOMAIN scripts,
           StopCommand(s) \/ CopyRefused(s) \/ StartCommand(s) \/ DelCommand(s)
    PROVE  Plain
<1>1. DOMAIN scripts = 1..Len(scripts) /\ scripts \in Seq(ScriptState)
  BY DEF ScriptsPart
<1>2. UNCHANGED <<exe, vouched>> /\ ~At(s, "copying")
  BY DEF StopCommand, CopyRefused, StartCommand, DelCommand, ScStart, scmVars, At
<1>3. SameCopies
  <2>1. /\ DOMAIN scripts' = DOMAIN scripts
        /\ scripts'[s].pc # "copying"
        /\ \A t \in DOMAIN scripts : t # s => scripts'[t] = scripts[t]
    <3>1. CASE StopCommand(s) \/ CopyRefused(s) \/ DelCommand(s)
      <4>1. PICK label \in {"copy", "start", "end"} : Goto(s, label)
        BY <3>1 DEF StopCommand, CopyRefused, DelCommand
      <4>2. scripts' \in Seq(ScriptState) /\ Len(scripts') = Len(scripts)
        BY <4>1, GotoKeeps
      <4> QED
        BY <1>1, <4>1, <4>2, GotoKeeps
    <3>2. CASE StartCommand(s)
      <4>1. PICK why \in {"ok", "alive", "unreadable"} :
                scripts' = [scripts EXCEPT ![s] = [@ EXCEPT !.pc = "del", !.start = why]]
        BY <3>2 DEF StartCommand
      <4> DEFINE r == [scripts[s] EXCEPT !.pc = "del", !.start = why]
      <4>2. r.pc = "del"
        BY <1>1 DEF ScriptState
      <4>3. scripts' = [scripts EXCEPT ![s] = r]
        BY <4>1
      <4> HIDE DEF r
      <4> QED
        BY <4>2, <4>3
    <3> QED
      BY <3>1, <3>2
  <2> QED
    BY <1>2, <2>1 DEF SameCopies, At
<1>4. ProcMoves
  <2>1. StopCommand(s) \/ CopyRefused(s) \/ DelCommand(s) => UNCHANGED procVars
    BY DEF StopCommand, CopyRefused, DelCommand
  <2>2. StartCommand(s) => UNCHANGED procVars \/ (Launched /\ exe # Torn)
    BY DEF StartCommand, ScStart, Runnable
  <2> QED
    BY <2>1, <2>2 DEF ProcMoves
<1> QED
  BY <1>2, <1>3, <1>4 DEF Plain

\* Every step is plain but those of a Hash, of a copy, and of a loss of power.
LEMMA StepKinds ==
    ASSUME LInv, [Next]_vars
    PROVE  \/ Plain \/ PowerLoss
           \/ \E c \in Call, hash \in Content : Hash(c, hash)
           \/ \E s \in DOMAIN scripts : CopyBegin(s) \/ CopyEnd(s)
<1>1. ASSUME UNCHANGED <<exe, scripts, vouched>>, ProcMoves PROVE Plain
  BY <1>1 DEF Plain, SameCopies, At
<1>2. CASE Signals
  <2>1. UNCHANGED <<exe, scripts, vouched>>
    BY <1>2 DEF Signals, scmVars, updVars
  <2>2. ProcMoves
    <3>1. Reborn => Launched /\ exe # Torn
      BY UpdateAssumption DEF Reborn, LInv, ExePart
    <3>2. Handle \/ (\E sig \in Signal : Deliver(sig)) => UNCHANGED procVars
      BY DEF Handle, ServeSignals, TakeSignal, StopRendezvous, DoneRendezvous, Deliver
    <3>3. Main \/ Work => Initialised \/ Started \/ Stopped
      BY DEF Main, Work, StartServices, StopServices
    <3> QED
      BY <1>2, <3>1, <3>2, <3>3 DEF Signals, ProcMoves
  <2> QED
    BY <1>1, <2>1, <2>2
<1>3. CASE Killed
  BY <1>1, <1>3 DEF Killed, Kill, scmVars, updVars, ProcMoves
<1>4. CASE Manager
  BY <1>1, <1>4 DEF Manager, ScStart, Runnable, updVars, ProcMoves
<1>5. CASE Service
  <2>1. UNCHANGED <<exe, scripts, vouched>>
    BY <1>5 DEF Service, Ending, ServiceMain, ServiceInit, ServiceStart, ServiceStop, ServiceExit,
         InitError, scmVars, updVars
  <2>2. ProcMoves
    BY <1>5 DEF Service, Ending, ServiceMain, ServiceInit, ServiceStart, ServiceStop, ServiceExit,
         InitError, ProcMoves
  <2> QED
    BY <1>1, <2>1, <2>2
<1>6. CASE Network
  BY <1>1, <1>6 DEF Network, LinkUp, LinkDown, scmVars, updVars, ProcMoves
<1>7. ASSUME NEW c \in Call, Client(c) PROVE Plain
  BY <1>1, <1>7 DEF Client, NewStream, Stub, SendMsg, CloseSend, ClientGone, scmVars, updVars,
     ProcMoves
<1>8. ASSUME NEW c \in Call, Serving(c)
      PROVE  Plain \/ \E hash \in Content : Hash(c, hash)
  <2>1. CASE Handler(c)
    BY <1>1, <2>1 DEF Handler, Info, Chunk, UpdateError, Return, scmVars, updVars, ProcMoves
  <2>2. CASE (Server(c) \/ OtherMethod(c)) /\ UNCHANGED <<exe, updVars>>
    <3>1. ProcMoves
      BY <2>2 DEF Server, OtherMethod, Dispatch, Request, RequestError, Undefined, Return,
         ProcMoves
    <3> QED
      BY <1>1, <2>2, <3>1 DEF updVars
  <2> QED
    BY <1>8, <2>1, <2>2 DEF Serving, Ending
<1>9. CASE Scripts
  BY <1>9, CommandPlain DEF Scripts, Script, LInv
<1>10. CASE UNCHANGED vars
  BY <1>1, <1>10 DEF vars, scmVars, updVars, ProcMoves
<1> QED
  BY <1>2, <1>3, <1>4, <1>5, <1>6, <1>7, <1>8, <1>9, <1>10 DEF Next

\* A Hash starts a script that does not copy yet.
LEMMA HashCopies ==
    ASSUME ScriptsPart, NEW c \in Call, NEW hash \in Content, Hash(c, hash)
    PROVE  SameCopies
<1>1. scripts \in Seq(ScriptState) /\ DOMAIN scripts = 1..Len(scripts)
  BY DEF ScriptsPart
<1>2. CASE UNCHANGED scripts
  BY <1>2 DEF SameCopies, At
<1>3. CASE scripts' = Append(scripts, [pc |-> "stop", file |-> upd[c].file, start |-> "none"])
  <2>1. /\ DOMAIN scripts' = DOMAIN scripts \cup {Len(scripts) + 1}
        /\ \A t \in DOMAIN scripts : scripts'[t] = scripts[t]
        /\ scripts'[Len(scripts) + 1].pc = "stop"
    BY <1>1, <1>3
  <2> QED
    BY <2>1 DEF SameCopies, At
<1> QED
  BY <1>2, <1>3 DEF Hash

\* A script that begins to copy is the only one, and one that ends its copy the last.
LEMMA CopyDoes ==
    ASSUME ScriptsPart, NEW s \in DOMAIN scripts, CopyBegin(s) \/ CopyEnd(s)
    PROVE  /\ At(s, "copying")' <=> CopyBegin(s)
           /\ \A t : t # s => (At(t, "copying")' <=> At(t, "copying"))
<1>1. DOMAIN scripts = 1..Len(scripts) /\ scripts \in Seq(ScriptState)
  BY DEF ScriptsPart
<1>2. PICK label \in {"copying", "start"} :
          Goto(s, label) /\ (label = "copying" <=> CopyBegin(s))
  BY DEF CopyBegin, CopyEnd, At
<1>3. /\ scripts' \in Seq(ScriptState) /\ Len(scripts') = Len(scripts)
      /\ scripts'[s].pc = label
      /\ \A t \in 1..Len(scripts) : t # s => scripts'[t] = scripts[t]
  BY <1>2, GotoKeeps
<1>4. DOMAIN scripts' = DOMAIN scripts
  BY <1>1, <1>3
<1> QED
  BY <1>1, <1>2, <1>3, <1>4 DEF At

\* After a loss of power no script is left.
LEMMA NoCopyLeft == PowerLoss => \A s : ~At(s, "copying")'
<1> SUFFICES ASSUME PowerLoss, NEW s \in DOMAIN scripts' PROVE scripts'[s].pc # "copying"
  BY DEF At
<1>1. scripts' = [t \in DOMAIN scripts |-> [scripts[t] EXCEPT !.pc = "end"]]
  BY DEF PowerLoss
<1>2. scripts'[s] = [scripts[s] EXCEPT !.pc = "end"]
  BY <1>1
<1> QED
  BY <1>2

\* Every step keeps CopyPart.
LEMMA CopyStep ==
    ASSUME LInv, CopyPart, [Next]_vars
    PROVE  CopyPart'
<1>1. ScriptsPart
  BY DEF LInv
<1>2. ASSUME SameCopies, exe' = exe PROVE CopyPart'
  <2>1. \A s, t : At(s, "copying")' /\ At(t, "copying")' => s = t
    BY <1>2 DEF CopyPart, SameCopies, At
  <2>2. Copying' => Copying
    BY <1>2 DEF Copying, SameCopies, At
  <2> QED
    BY <1>2, <2>1, <2>2 DEF CopyPart
<1>3. CASE Plain
  BY <1>2, <1>3 DEF Plain
<1>4. CASE PowerLoss
  BY <1>4, NoCopyLeft DEF CopyPart, Copying
<1>5. ASSUME NEW c \in Call, NEW hash \in Content, Hash(c, hash) PROVE CopyPart'
  <2>1. exe' = exe
    BY <1>5 DEF Hash, scmVars
  <2> QED
    BY <1>1, <1>2, <1>5, <2>1, HashCopies
<1>6. ASSUME NEW s \in DOMAIN scripts, CopyBegin(s) PROVE CopyPart'
  <2>1. ~Copying /\ exe' = Torn
    BY <1>6 DEF CopyBegin, Busy
  <2>2. \A t : At(t, "copying")' => t = s
    BY <1>1, <1>6, <2>1, CopyDoes DEF Copying, At
  <2> QED
    BY <2>1, <2>2 DEF CopyPart
<1>7. ASSUME NEW s \in DOMAIN scripts, CopyEnd(s) PROVE CopyPart'
  <2>1. At(s, "copying") /\ ~CopyBegin(s)
    BY <1>7 DEF CopyEnd, CopyBegin, At
  <2>2. \A t : ~At(t, "copying")'
    BY <1>1, <1>7, <2>1, CopyDoes DEF CopyPart, At
  <2> QED
    BY <2>2 DEF CopyPart, Copying
<1> QED
  BY <1>3, <1>4, <1>5, <1>6, <1>7, StepKinds

\* A step of the loader is a step of ExecutableUpdate, or leaves it alone.
LEMMA ExecutableStep ==
    ASSUME LInv, CopyPart, [Next]_vars
    PROVE  [Executable!Next]_(Executable!vars)
<1> USE DEF Executable!Next, Executable!vars
<1>1. ScriptsPart /\ ExePart /\ FilesPart
  BY DEF LInv
<1>2. SameCopies => Copying' = Copying
  BY DEF SameCopies, Copying, At
<1>3. CASE Plain
  <2>1. UNCHANGED <<exe, vouched>> /\ Copying' = Copying
    BY <1>2, <1>3 DEF Plain
  <2>2. \/ (proc' # "none") = (proc # "none")
        \/ proc = "none" /\ proc' # "none" /\ exe # Torn
        \/ proc # "none" /\ proc' = "none"
    BY <1>3 DEF Plain, ProcMoves, procVars, Initialised, Started, Stopped, Ended, Launched
  <2> QED
    BY <2>1, <2>2 DEF Executable!Launch, Executable!Exit
<1>4. CASE PowerLoss
  <2>1. ~Copying' /\ proc' = "none" /\ UNCHANGED <<exe, vouched>>
    BY <1>4, NoCopyLeft DEF PowerLoss, Copying
  <2> QED
    BY <2>1 DEF Executable!PowerLoss
<1>5. ASSUME NEW c \in Call, NEW hash \in Content, Hash(c, hash)
      PROVE  [Executable!Next]_(Executable!vars)
  <2>1. Copying' = Copying
    BY <1>1, <1>2, <1>5, HashCopies
  <2>2. UNCHANGED <<exe, proc>> /\ vouched' \in {vouched, vouched \cup {hash}}
    BY <1>5 DEF Hash, Return, scmVars, procVars
  <2> QED
    BY <2>1, <2>2 DEF Executable!Vouch
<1>6. ASSUME NEW s \in DOMAIN scripts, CopyBegin(s) PROVE Executable!Begin
  <2>1. ~Copying /\ proc = "none" /\ proc' = "none" /\ exe' = Torn /\ UNCHANGED vouched
    BY <1>6 DEF CopyBegin, Busy, procVars
  <2>2. At(s, "copying")'
    BY <1>1, <1>6, CopyDoes
  <2>3. Copying'
    BY <2>2 DEF Copying, At
  <2> QED
    BY <2>1, <2>3 DEF Executable!Begin
<1>7. ASSUME NEW s \in DOMAIN scripts, CopyEnd(s) PROVE Executable!End
  <2>1. At(s, "copying") /\ Copying /\ ~CopyBegin(s)
    BY <1>7 DEF CopyEnd, CopyBegin, Copying, At
  <2>2. ~Copying'
    BY <1>1, <1>7, <2>1, CopyDoes DEF CopyPart, Copying, At
  <2>3. proc = "none"
    BY <1>1, <2>1 DEF CopyPart, ExePart
  <2>4. proc' = "none" /\ UNCHANGED vouched /\ exe' = files[scripts[s].file]
    BY <1>7, <2>3 DEF CopyEnd, procVars
  <2>5. exe' \in vouched
    BY <1>1, <2>4 DEF ScriptsPart
  <2> QED
    BY <2>1, <2>2, <2>3, <2>4, <2>5 DEF Executable!End
<1> QED
  BY <1>3, <1>4, <1>5, <1>6, <1>7, StepKinds

\* Whatever updates, launches and crashes interleave, the loader's executable goes as
\* ExecutableUpdate says: from one vouched content to another, by one copy at a time.
THEOREM UpdateImplements == Spec => UpdateInstalls
<1>1. Init => CopyPart /\ Executable!Init
  <2> SUFFICES ASSUME Init PROVE CopyPart /\ Executable!Init
    OBVIOUS
  <2>1. \A s : ~At(s, "copying")
    BY DEF Init, UpdInit, At
  <2>2. exe = Shipped /\ vouched = {} /\ proc = "none"
    BY DEF Init, ScmInit, UpdInit, ProcInit
  <2> QED
    BY <2>1, <2>2 DEF CopyPart, Copying, Executable!Init
<1>2. LInv /\ CopyPart /\ [Next]_vars => CopyPart'
  BY CopyStep
<1>3. LInv /\ CopyPart /\ [Next]_vars => [Executable!Next]_(Executable!vars)
  BY ExecutableStep
<1> QED
  BY <1>1, <1>2, <1>3, LInvariant, PTL DEF Spec, UpdateInstalls, Executable!Spec
================================================================================
