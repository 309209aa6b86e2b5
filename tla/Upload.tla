------------------------------- MODULE Upload -------------------------------
(***************************************************************************)
(* A WebDAV PUT through the proxy: fileWrite, whose Write feeds a pipe that *)
(* a goroutine of its own sends to the object store as the body of another  *)
(* PUT, and whose Close ends the body and waits for the store's answer.     *)
(* Several clients PUT the same name, in turn or at once, each with a body  *)
(* of its own; they may go away in the middle of it.                        *)
(*                                                                          *)
(* golang.org/x/net/webdav calls OpenFile, Write and Close, in this order,  *)
(* and Close also when reading the client's body failed; it locks the name  *)
(* while it does.  net/http sends the body and brings the answer.  The      *)
(* store keeps the body of a PUT that came to its end, and may refuse one   *)
(* before it has read it.                                                   *)
(***************************************************************************)
EXTENDS Naturals

CONSTANTS Clients,   \* each PUTs the name once
          Nobody,    \* not a client
          Nothing,   \* no object is stored
          Chunks     \* the pieces of a client's body

ASSUME UploadAssumption == /\ Chunks \in Nat \ {0} /\ Nobody \notin Clients
                           /\ Nothing \notin [by : Clients, len : 0 .. Chunks]

VARIABLES client,    \* what the client of a PUT knows
          pc,        \* where the webdav handler of the PUT is
          copied,    \* the pieces that passed the pipe
          copyErr,   \* the client's body could not be read to its end
          eof,       \* the writing end of the pipe is closed
          upload,    \* the goroutine: "none", "sending", "answered" or "done"
          accepted,  \* the store's answer is a success
          lock,      \* the client whose handler has locked the name
          store,     \* the object: whose body, and how many pieces of it
          early      \* history: the store answered before it had the whole body

vars == <<client, pc, copied, copyErr, eof, upload, accepted, lock, store, early>>

request == <<copied, copyErr, eof>>
sending == <<upload, accepted, early>>

TypeOK ==
  /\ client \in [Clients -> {"idle", "sending", "gone", "ok", "error"}]
  /\ pc \in [Clients -> {"none", "open", "read", "write", "check", "close", "wait", "answer", "fail"}]
  /\ copied \in [Clients -> 0 .. Chunks]
  /\ copyErr \in [Clients -> BOOLEAN] /\ eof \in [Clients -> BOOLEAN]
  /\ upload \in [Clients -> {"none", "sending", "answered", "done"}]
  /\ accepted \in [Clients -> BOOLEAN] /\ early \in [Clients -> BOOLEAN]
  /\ lock \in Clients \cup {Nobody}
  /\ store \in [by : Clients, len : 0 .. Chunks] \cup {Nothing}

Init ==
  /\ client = [c \in Clients |-> "idle"] /\ pc = [c \in Clients |-> "none"]
  /\ copied = [c \in Clients |-> 0]
  /\ copyErr = [c \in Clients |-> FALSE] /\ eof = [c \in Clients |-> FALSE]
  /\ upload = [c \in Clients |-> "none"]
  /\ accepted = [c \in Clients |-> FALSE] /\ early = [c \in Clients |-> FALSE]
  /\ lock = Nobody /\ store = Nothing

Goto(c, step) == pc' = [pc EXCEPT ![c] = step]

-------------------------------------------------------------------------------
\* A client starts its PUT.  The name must not be locked.
Put(c) ==
  /\ client[c] = "idle"
  /\ IF lock = Nobody
       THEN client' = [client EXCEPT ![c] = "sending"] /\ lock' = c /\ Goto(c, "open")
       ELSE client' = [client EXCEPT ![c] = "error"] /\ UNCHANGED <<lock, pc>>
  /\ UNCHANGED <<request, sending, store>>

\* The client goes away; the handler will find its body broken off.
Abort(c) ==
  /\ client[c] = "sending"
  /\ client' = [client EXCEPT ![c] = "gone"]
  /\ UNCHANGED <<pc, request, sending, lock, store>>

\* doOpenFile: presignPutUrl, which may fail, and beginUpload.
Start(c) ==
  /\ pc[c] = "open"
  /\ \/ upload' = [upload EXCEPT ![c] = "sending"] /\ Goto(c, "read")
     \/ UNCHANGED upload /\ Goto(c, "fail")
  /\ UNCHANGED <<client, request, accepted, early, lock, store>>

\* Mutant: the last piece stays in a buffer.
BodyEndsShort(c) == copied[c] >= Chunks - 1

BodyEnds(c) == copied[c] = Chunks

\* The handler reads the client's body: a piece to write, its end, or that it broke off.
ReadBody(c) ==
  /\ pc[c] = "read"
  /\ \/ client[c] = "sending" /\ ~BodyEnds(c) /\ Goto(c, "write") /\ UNCHANGED copyErr
     \/ BodyEnds(c) /\ Goto(c, "check") /\ UNCHANGED copyErr
     \/ /\ client[c] = "gone" /\ ~BodyEnds(c)
        /\ copyErr' = [copyErr EXCEPT ![c] = TRUE]
        /\ Goto(c, "check")
  /\ UNCHANGED <<client, copied, eof, sending, lock, store>>

\* fileWrite.Write: the pipe passes a piece on when the other end reads, for which there is a
\* chance after an early answer, too, and no more when the response body is closed.
Write(c) ==
  /\ pc[c] = "write"
  /\ upload[c] \in {"sending", "answered"}
  /\ copied' = [copied EXCEPT ![c] = @ + 1]
  /\ Goto(c, "read")
  /\ UNCHANGED <<client, copyErr, eof, sending, lock, store>>

\* Mutant: what the upload came to is not looked at.
FailedUnseen(c) == FALSE

Failed(c) == upload[c] = "done" /\ ~accepted[c]

\* Close: checkUploadErr first.
CheckUploadErr(c) ==
  /\ pc[c] = "check"
  /\ Goto(c, IF Failed(c) THEN "fail" ELSE "close")
  /\ UNCHANGED <<client, request, sending, lock, store>>

\* Mutant: Close waits without ending the body.
CloseWriterNot(c) ==
  /\ pc[c] = "close"
  /\ Goto(c, "wait")
  /\ UNCHANGED <<client, request, sending, lock, store>>

\* Close: uploadWriter.Close.
CloseWriter(c) ==
  /\ pc[c] = "close"
  /\ eof' = [eof EXCEPT ![c] = TRUE]
  /\ Goto(c, "wait")
  /\ UNCHANGED <<client, copied, copyErr, sending, lock, store>>

\* Mutant: Close does not wait for the upload.
AwaitUploadNot(c) ==
  /\ pc[c] = "wait"
  /\ Goto(c, IF Failed(c) THEN "fail" ELSE "answer")
  /\ UNCHANGED <<client, request, sending, lock, store>>

\* Close waits for uploadDone and checks what the upload came to.
AwaitUpload(c) ==
  /\ pc[c] = "wait" /\ upload[c] = "done"
  /\ Goto(c, IF Failed(c) THEN "fail" ELSE "answer")
  /\ UNCHANGED <<client, request, sending, lock, store>>

\* The handler answers, an error also when the copy failed, and unlocks the name.
Answer(c) ==
  /\ pc[c] \in {"answer", "fail"}
  /\ client' = [client EXCEPT ![c] = IF @ = "gone" THEN "gone"
                                     ELSE IF pc[c] = "answer" /\ ~copyErr[c] THEN "ok" ELSE "error"]
  /\ Goto(c, "none")
  /\ lock' = Nobody
  /\ UNCHANGED <<request, sending, store>>

-------------------------------------------------------------------------------
\* The store has read the body to its end, keeps it and says so.
StoreAccepts(c) ==
  /\ upload[c] = "sending" /\ eof[c]
  /\ store' = [by |-> c, len |-> copied[c]]
  /\ upload' = [upload EXCEPT ![c] = "answered"]
  /\ accepted' = [accepted EXCEPT ![c] = TRUE]
  /\ UNCHANGED <<client, pc, request, lock, early>>

\* The store refuses, with the whole body or without.
StoreRefuses(c) ==
  /\ upload[c] = "sending"
  /\ upload' = [upload EXCEPT ![c] = "answered"]
  /\ early' = [early EXCEPT ![c] = ~eof[c]]
  /\ UNCHANGED <<client, pc, request, accepted, lock, store>>

\* handleUploadDone, and the response body is closed.
HandleUploadDone(c) ==
  /\ upload[c] = "answered"
  /\ upload' = [upload EXCEPT ![c] = "done"]
  /\ UNCHANGED <<client, pc, request, accepted, early, lock, store>>

\* No response at all.  The goroutine takes the body of a response that is nil, the process
\* panics and is started again.  The store may have got the body nevertheless.
TransportFails(c) ==
  /\ upload[c] = "sending"
  /\ \/ eof[c] /\ store' = [by |-> c, len |-> copied[c]]
     \/ UNCHANGED store
  /\ client' = [d \in Clients |-> IF client[d] = "sending" THEN "error" ELSE client[d]]
  /\ pc' = [d \in Clients |-> "none"]
  /\ upload' = [d \in Clients |-> "none"]
  /\ lock' = Nobody
  /\ UNCHANGED <<request, accepted, early>>

HandlerStep(c) == \/ Start(c) \/ ReadBody(c) \/ Write(c) \/ CheckUploadErr(c) \/ CloseWriter(c)
                  \/ AwaitUpload(c) \/ Answer(c)
UploadStep(c) == StoreAccepts(c) \/ StoreRefuses(c) \/ HandleUploadDone(c)

Next == \E c \in Clients : Put(c) \/ Abort(c) \/ HandlerStep(c) \/ UploadStep(c) \/ TransportFails(c)

Spec == Init /\ [][Next]_vars

\* Handlers and goroutines run, clients go on sending or go away, and the store answers once it
\* has the whole body.
FairSpec ==
  /\ Spec
  /\ \A c \in Clients : /\ WF_vars(HandlerStep(c))
                        /\ WF_vars(eof[c] /\ UploadStep(c))
                        /\ WF_vars(HandleUploadDone(c))

-------------------------------------------------------------------------------
\* A client that is told of success finds its own body stored, all of it, whoever else has put
\* the name, gone away or been refused before.
AckedIsWhole ==
  [][\A c \in Clients :
       client[c] # "ok" /\ client'[c] = "ok" => store' = [by |-> c, len |-> Chunks]]_vars

\* Close also ends the body of a client that went away, and the store keeps what there is of it.
\* That is the only way to a shortened object: a client that stayed is not cut off.
ShortOnlyIfGone == store # Nothing /\ store.len < Chunks => client[store.by] = "gone"

\* The PUTs of the name are atomic: the pieces of a body that is on its way are nobody's object,
\* and a handler that is late, refused or abandoned takes nothing back that another one stored.
object == IF store = Nothing THEN Nothing ELSE [by |-> store.by, whole |-> store.len = Chunks]
Atomic == INSTANCE AtomicPut
PutSpec == Atomic!PutSpec

\* Every PUT is answered and the name unlocked, but for one the store refused before it had read
\* the body: nobody reads the pipe any more, and Write waits for ever.
PutEnds == \A c \in Clients : pc[c] # "none" ~> pc[c] = "none" \/ early[c]
===============================================================================
