------------------------------ MODULE LoaderUpdate ------------------------------
(***************************************************************************)
(* MaintenanceService.UpdateLoader: a new executable is received into a    *)
(* temporary file, compared with the hash that the client sends last, and  *)
(* left to a detached script that stops the service, copies the file over  *)
(* the executable, starts the service and deletes the file.  Each command  *)
(* of the script runs whether or not the one before it succeeded.          *)
(*                                                                         *)
(* A file's content is the sequence of the pieces written to it, and a     *)
(* hash stands for the content it is the hash of.  What was received is    *)
(* only counted for the progress messages; the division by the announced   *)
(* size is kept.                                                           *)
(***************************************************************************)
EXTENDS WindowsService, Rpc

CONSTANTS
    Piece,      \* what a chunk may hold
    MaxPieces,  \* bound: the pieces of a file
    MaxFiles    \* bound: the temporary files made

VARIABLES
    files,      \* the temporary files' contents, in the order they were made
    upd,        \* per call of UpdateLoader: the announced size, its file (0 for nil)
    scripts,    \* the scripts that were started, in order
    vouched     \* ghost: the contents whose hash and size a client sent

updVars == <<files, upd, scripts, vouched>>

Content == UNION {[1..n -> Piece] : n \in 0..MaxPieces}

ASSUME UpdateAssumption ==
    /\ MaxPieces \in Nat /\ MaxFiles \in Nat
    /\ Torn \notin Content \cup {Shipped}

NewUpdate == [total |-> 0, file |-> 0]

UpdTypeOK ==
    /\ files \in Seq(Content) /\ Len(files) <= MaxFiles
    /\ upd \in [Call -> [total : 0..MaxPieces, file : 0..Len(files)]]
    /\ scripts \in Seq([pc : {"stop", "copy", "copying", "start", "del", "end"},
                        file : 1..Len(files),
                        start : {"none", "ok", "alive", "unreadable"}])
    /\ vouched \subseteq Content
    /\ exe \in Content \cup {Shipped, Torn}

UpdInit ==
    /\ files = <<>> /\ upd = [c \in Call |-> NewUpdate]
    /\ scripts = <<>> /\ vouched = {}
--------------------------------------------------------------------------------
Updating(c) == calls[c].handler = "body" /\ calls[c].method = "UpdateLoader"
Receives(c) == Updating(c) /\ calls[c].client = "open"

\* MetaData: a new temporary file takes the place of the one the call had.
Info(c, size) ==
    /\ Receives(c) /\ Len(files) < MaxFiles
    /\ files' = Append(files, <<>>)
    /\ upd' = [upd EXCEPT ![c] = [total |-> size, file |-> Len(files) + 1]]
    /\ UNCHANGED <<procVars, scmVars, rpcVars, scripts, vouched>>

\* ChunkData: the file grows, and the progress is a division by the total.
Chunk(c, piece) ==
    /\ Receives(c) /\ upd[c].file # 0
    /\ Len(files[upd[c].file]) < MaxPieces
    /\ files' = [files EXCEPT ![upd[c].file] = Append(@, piece)]
    /\ IF upd[c].total = 0 THEN Ended("panic") /\ Cut /\ scm' = "stopped" /\ UNCHANGED exe
                           ELSE UNCHANGED <<procVars, scmVars, rpcVars>>
    /\ UNCHANGED <<upd, scripts, vouched>>

\* Recv fails or ends, no temporary file can be made, a nil file or a full disk.
UpdateError(c) ==
    /\ Updating(c)
    /\ Return(c)
    /\ UNCHANGED <<scmVars, updVars>>

\* Mutant of Verified: the length is compared, the hash is not.
VerifiedLength(c, hash) == Len(files[upd[c].file]) = upd[c].total

\* The file has the announced size and the hash that the client sent.
Verified(c, hash) ==
    /\ Len(files[upd[c].file]) = upd[c].total
    /\ files[upd[c].file] = hash

\* hash: the file is verified and, where there is a cmd, the script started.
Hash(c, hash) ==
    /\ Receives(c) /\ upd[c].file # 0
    /\ vouched' = IF Len(hash) = upd[c].total THEN vouched \cup {hash} ELSE vouched
    /\ \/ /\ Verified(c, hash) /\ os = "windows"
          /\ scripts' = Append(scripts, [pc |-> "stop", file |-> upd[c].file, start |-> "none"])
       \/ UNCHANGED scripts
    /\ Return(c)
    /\ UNCHANGED <<scmVars, files, upd>>

Handler(c) ==
    \/ \E size \in 0..MaxPieces : Info(c, size)
    \/ \E piece \in Piece : Chunk(c, piece)
    \/ \E hash \in Content : Hash(c, hash)
    \/ UpdateError(c)
--------------------------------------------------------------------------------
At(s, label) == s \in DOMAIN scripts /\ scripts[s].pc = label
Goto(s, label) == scripts' = [scripts EXCEPT ![s].pc = label]

\* sc stop
StopCommand(s) ==
    /\ At(s, "stop") /\ Goto(s, "copy")
    /\ ScStop
    /\ UNCHANGED <<procVars, exe, rpcVars, files, upd, vouched>>

\* The executable of a process cannot be written, nor one being written be opened.
Copying == \E s \in DOMAIN scripts : At(s, "copying")
Busy == proc # "none" \/ Copying

\* copy: the executable is truncated, then written.
CopyBegin(s) ==
    /\ At(s, "copy") /\ ~Busy
    /\ Goto(s, "copying") /\ exe' = Torn
    /\ UNCHANGED <<procVars, scm, rpcVars, files, upd, vouched>>

CopyEnd(s) ==
    /\ At(s, "copying") /\ Goto(s, "start")
    /\ exe' = files[scripts[s].file]
    /\ UNCHANGED <<procVars, scm, rpcVars, files, upd, vouched>>

\* Mutant of CopyRefused: the script ends with the first command that fails.
CopyRefusedEnds(s) ==
    /\ At(s, "copy") /\ Busy
    /\ Goto(s, "end")
    /\ UNCHANGED <<procVars, scmVars, rpcVars, files, upd, vouched>>

CopyRefused(s) ==
    /\ At(s, "copy") /\ Busy
    /\ Goto(s, "start")
    /\ UNCHANGED <<procVars, scmVars, rpcVars, files, upd, vouched>>

\* sc start, once.
StartCommand(s) ==
    /\ At(s, "start")
    /\ LET why == IF proc # "none" \/ scm # "stopped" THEN "alive"
                  ELSE IF exe = Torn THEN "unreadable" ELSE "ok"
       IN /\ scripts' = [scripts EXCEPT ![s] = [@ EXCEPT !.pc = "del", !.start = why]]
          /\ IF why = "ok" THEN ScStart ELSE UNCHANGED <<procVars, scmVars>>
    /\ UNCHANGED <<rpcVars, files, upd, vouched>>

\* del: the content stays in files, where nothing reads it any more.
DelCommand(s) ==
    /\ At(s, "del") /\ Goto(s, "end")
    /\ UNCHANGED <<procVars, scmVars, rpcVars, files, upd, vouched>>

Script(s) ==
    StopCommand(s) \/ CopyBegin(s) \/ CopyEnd(s) \/ CopyRefused(s) \/ StartCommand(s)
    \/ DelCommand(s)
================================================================================
