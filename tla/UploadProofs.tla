---------------------------- MODULE UploadProofs ----------------------------
(***************************************************************************)
(* Proofs about Upload, for any number of clients and pieces.               *)
(*                                                                          *)
(* AckedIsWhole and ShortOnlyIfGone come of UploadInv: one handler at a     *)
(* time, for it holds the lock; each handler knows, by where it is, how     *)
(* much passed the pipe (StageInv); and as long as a handler whose upload   *)
(* was accepted has not answered, its body is what is stored (StoredInv).   *)
(*                                                                          *)
(* RunsInv adds that the client of a handler that runs has no answer yet,   *)
(* and OnceInv that a body which is stored is not sent any more, which      *)
(* gives the refinement of AtomicPut (PutsAreAtomic). The last part is why  *)
(* a PUT ends: somebody can take its next step (PutsAreNotStuck), and there *)
(* are not many left (PutsRunOut).                                          *)
(***************************************************************************)
EXTENDS Upload, TLAPS

\* A handler that runs has the name locked.
LockInv == \A c \in Clients : pc[c] # "none" => lock = c

\* What a PUT has done, by where its handler is.
Stage(c) ==
  /\ client[c] = "idle" => pc[c] = "none"
  /\ client[c] = "idle" \/ pc[c] = "open" =>
       copied[c] = 0 /\ ~copyErr[c] /\ ~eof[c] /\ ~accepted[c] /\ upload[c] = "none"
  /\ upload[c] \in {"sending", "answered"} => pc[c] \in {"read", "write", "check", "close", "wait"}
  /\ pc[c] = "write" => copied[c] < Chunks
  /\ pc[c] \in {"check", "close", "wait", "answer"} => copied[c] = Chunks \/ copyErr[c]
  /\ copyErr[c] => client[c] = "gone"
  /\ eof[c] => /\ pc[c] \in {"wait", "answer", "fail", "none"}
               /\ copied[c] = Chunks \/ copyErr[c]
  /\ accepted[c] => eof[c] /\ upload[c] # "sending"
  /\ pc[c] = "answer" => accepted[c]

StageInv == \A c \in Clients : Stage(c)

\* An upload that was accepted is in the store until its handler has answered.
StoredInv == \A c \in Clients : accepted[c] /\ pc[c] # "none" => store = [by |-> c, len |-> copied[c]]

UploadInv == TypeOK /\ LockInv /\ StageInv /\ StoredInv /\ ShortOnlyIfGone

-------------------------------------------------------------------------------
\* The initial state satisfies the invariant.
LEMMA UploadInitInv == Init => UploadInv
<1> SUFFICES ASSUME Init PROVE UploadInv
  OBVIOUS
<1> USE UploadAssumption DEF Init
<1>1. TypeOK
  BY DEF TypeOK
<1>2. LockInv /\ StageInv /\ StoredInv /\ ShortOnlyIfGone
  BY DEF LockInv, StageInv, Stage, StoredInv, ShortOnlyIfGone
<1> QED
  BY <1>1, <1>2 DEF UploadInv

\* A handler's step leaves the other handlers where they are: what is said of them stays true.
LEMMA OthersStay ==
  ASSUME UploadInv, NEW c \in Clients, Stage(c)',
         \A d \in Clients : d # c =>
           /\ client'[d] = client[d] /\ pc'[d] = pc[d] /\ copied'[d] = copied[d] /\ copyErr'[d] = copyErr[d]
           /\ eof'[d] = eof[d] /\ upload'[d] = upload[d] /\ accepted'[d] = accepted[d]
  PROVE  StageInv'
<1> SUFFICES ASSUME NEW d \in Clients, d # c PROVE Stage(d)'
  BY DEF StageInv
<1>1. Stage(d)
  BY DEF UploadInv, StageInv
<1> QED
  BY <1>1 DEF Stage

\* The steps that leave the lock and the store alone.
LEMMA QuietStep ==
  ASSUME UploadInv, NEW c \in Clients, TypeOK', Stage(c)', UNCHANGED <<lock, store>>,
         pc'[c] # "none" => pc[c] # "none",
         accepted'[c] = accepted[c], accepted[c] => copied'[c] = copied[c],
         client[c] = "gone" => client'[c] = "gone",
         \A d \in Clients : d # c =>
           /\ client'[d] = client[d] /\ pc'[d] = pc[d] /\ copied'[d] = copied[d] /\ copyErr'[d] = copyErr[d]
           /\ eof'[d] = eof[d] /\ upload'[d] = upload[d] /\ accepted'[d] = accepted[d]
  PROVE  UploadInv'
<1> USE DEF UploadInv
<1>1. StageInv'
  BY OthersStay
<1>2. LockInv'
  BY DEF LockInv
<1>3. StoredInv'
  BY DEF StoredInv
<1>4. ShortOnlyIfGone'
  <2> SUFFICES ASSUME store # Nothing, store.len < Chunks PROVE client'[store.by] = "gone"
    BY DEF ShortOnlyIfGone
  <2>1. store.by \in Clients /\ client[store.by] = "gone"
    BY DEF ShortOnlyIfGone, TypeOK
  <2> QED
    BY <2>1
<1> QED
  BY <1>1, <1>2, <1>3, <1>4

-------------------------------------------------------------------------------
\* A PUT takes the lock that nobody has, or is refused.
LEMMA PutStep ==
  ASSUME UploadInv, NEW c \in Clients, Put(c)
  PROVE  UploadInv'
<1> USE DEF UploadInv
<1>1. TypeOK /\ Stage(c) /\ client[c] = "idle" /\ pc[c] = "none"
  BY DEF StageInv, Stage, Put
<1>2. UNCHANGED <<copied, copyErr, eof, upload, accepted, early, store>>
  BY DEF Put, request, sending
<1>3. CASE lock = Nobody
  <2>1. client' = [client EXCEPT ![c] = "sending"] /\ lock' = c /\ pc' = [pc EXCEPT ![c] = "open"]
    BY <1>3 DEF Put, Goto
  <2>2. TypeOK'
    BY <1>1, <1>2, <2>1 DEF TypeOK
  <2>3. client'[c] = "sending" /\ pc'[c] = "open"
    BY <1>1, <2>1 DEF TypeOK
  <2>4. \A d \in Clients : d # c => client'[d] = client[d] /\ pc'[d] = pc[d]
    BY <1>1, <2>1 DEF TypeOK
  <2>5. Stage(c)'
    BY <1>1, <1>2, <2>3 DEF Stage
  <2>6. StageInv'
    BY <1>2, <2>4, <2>5, OthersStay
  <2>7. \A d \in Clients : pc[d] = "none"
    BY <1>3, UploadAssumption DEF LockInv
  <2>8. LockInv' /\ StoredInv'
    BY <1>1, <1>2, <2>1, <2>3, <2>4, <2>7 DEF LockInv, StoredInv, Stage
  <2>9. ShortOnlyIfGone'
    BY <1>1, <1>2, <2>4, <2>3 DEF ShortOnlyIfGone, TypeOK
  <2> QED
    BY <2>2, <2>6, <2>8, <2>9
<1>4. CASE lock # Nobody
  <2>1. client' = [client EXCEPT ![c] = "error"] /\ UNCHANGED <<lock, pc>>
    BY <1>4 DEF Put
  <2>2. TypeOK'
    BY <1>1, <1>2, <2>1 DEF TypeOK
  <2>3. client'[c] = "error" /\ \A d \in Clients : d # c => client'[d] = client[d]
    BY <1>1, <2>1 DEF TypeOK
  <2>4. Stage(c)'
    BY <1>1, <1>2, <2>1, <2>3 DEF Stage
  <2> QED
    BY <1>1, <1>2, <2>1, <2>2, <2>3, <2>4, QuietStep
<1> QED
  BY <1>3, <1>4

\* A client goes away.
LEMMA AbortStep ==
  ASSUME UploadInv, NEW c \in Clients, Abort(c)
  PROVE  UploadInv'
<1>1. TypeOK /\ Stage(c) /\ client[c] = "sending"
  BY DEF UploadInv, StageInv, Abort
<1>2. /\ client' = [client EXCEPT ![c] = "gone"]
      /\ UNCHANGED <<pc, copied, copyErr, eof, upload, accepted, early, lock, store>>
  BY DEF Abort, request, sending
<1>3. TypeOK'
  BY <1>1, <1>2 DEF TypeOK
<1>4. client'[c] = "gone" /\ \A d \in Clients : d # c => client'[d] = client[d]
  BY <1>1, <1>2 DEF TypeOK
<1>5. Stage(c)'
  BY <1>1, <1>2, <1>4 DEF Stage
<1> QED
  BY <1>1, <1>2, <1>3, <1>4, <1>5, QuietStep

\* The handler up to its answer: it moves on, and what it learns and does is its own.
LEMMA HandlerMoves ==
  ASSUME UploadInv, NEW c \in Clients,
         Start(c) \/ ReadBody(c) \/ Write(c) \/ CheckUploadErr(c) \/ CloseWriter(c) \/ AwaitUpload(c)
  PROVE  UploadInv'
<1>1. TypeOK /\ Stage(c)
  BY DEF UploadInv, StageInv
<1>2. CASE Start(c)
  <2>1. PICK u \in {upload[c], "sending"}, p \in {"read", "fail"} :
          /\ pc[c] = "open" /\ upload' = [upload EXCEPT ![c] = u] /\ pc' = [pc EXCEPT ![c] = p]
          /\ p = "read" <=> u = "sending"
          /\ UNCHANGED <<client, copied, copyErr, eof, accepted, early, lock, store>>
    BY <1>1, <1>2 DEF Start, Goto, request, Stage, TypeOK
  <2>2. TypeOK'
    BY <1>1, <2>1 DEF TypeOK
  <2>3. pc'[c] = p /\ upload'[c] = u
    BY <1>1, <2>1 DEF TypeOK
  <2>4. \A d \in Clients : d # c => pc'[d] = pc[d] /\ upload'[d] = upload[d]
    BY <1>1, <2>1 DEF TypeOK
  <2>5. Stage(c)'
    BY <1>1, <2>1, <2>3 DEF Stage
  <2> QED
    BY <2>1, <2>2, <2>3, <2>4, <2>5, QuietStep
<1>3. CASE ReadBody(c)
  <2>1. PICK e \in BOOLEAN, p \in {"write", "check"} :
          /\ pc[c] = "read" /\ copyErr' = [copyErr EXCEPT ![c] = e] /\ pc' = [pc EXCEPT ![c] = p]
          /\ p = "write" => copied[c] # Chunks /\ e = copyErr[c]
          /\ p = "check" => (copied[c] = Chunks /\ e = copyErr[c]) \/ (client[c] = "gone" /\ e)
          /\ UNCHANGED <<client, copied, eof, upload, accepted, early, lock, store>>
    <3>1. pc[c] = "read" /\ UNCHANGED <<client, copied, eof, upload, accepted, early, lock, store>>
      BY <1>3 DEF ReadBody, sending
    <3>2. copyErr[c] \in BOOLEAN /\ copyErr = [copyErr EXCEPT ![c] = copyErr[c]]
      BY <1>1 DEF TypeOK
    <3>3. CASE client[c] = "sending" /\ ~BodyEnds(c) /\ Goto(c, "write") /\ UNCHANGED copyErr
      BY <3>1, <3>2, <3>3 DEF BodyEnds, Goto
    <3>4. CASE BodyEnds(c) /\ Goto(c, "check") /\ UNCHANGED copyErr
      BY <3>1, <3>2, <3>4 DEF BodyEnds, Goto
    <3>5. CASE /\ client[c] = "gone" /\ ~BodyEnds(c)
               /\ copyErr' = [copyErr EXCEPT ![c] = TRUE]
               /\ Goto(c, "check")
      BY <3>1, <3>5 DEF Goto
    <3> QED
      BY <1>3, <3>3, <3>4, <3>5 DEF ReadBody
  <2>2. TypeOK'
    BY <1>1, <2>1 DEF TypeOK
  <2>3. pc'[c] = p /\ copyErr'[c] = e
    BY <1>1, <2>1 DEF TypeOK
  <2>4. \A d \in Clients : d # c => pc'[d] = pc[d] /\ copyErr'[d] = copyErr[d]
    BY <1>1, <2>1 DEF TypeOK
  <2>5. copied[c] \in 0 .. Chunks /\ Chunks \in Nat
    BY <1>1, UploadAssumption DEF TypeOK
  <2>6. Stage(c)'
    BY <1>1, <2>1, <2>3, <2>5 DEF Stage
  <2> QED
    BY <2>1, <2>2, <2>3, <2>4, <2>6, QuietStep
<1>4. CASE Write(c)
  <2>1. /\ pc[c] = "write" /\ copied' = [copied EXCEPT ![c] = @ + 1] /\ pc' = [pc EXCEPT ![c] = "read"]
        /\ UNCHANGED <<client, copyErr, eof, upload, accepted, early, lock, store>>
    BY <1>4 DEF Write, Goto, sending
  <2>2. copied[c] + 1 \in 0 .. Chunks
    BY <1>1, <2>1, UploadAssumption DEF TypeOK, Stage
  <2>3. TypeOK'
    BY <1>1, <2>1, <2>2 DEF TypeOK
  <2>4. pc'[c] = "read" /\ \A d \in Clients : d # c => pc'[d] = pc[d] /\ copied'[d] = copied[d]
    BY <1>1, <2>1 DEF TypeOK
  <2>5. Stage(c)' /\ ~accepted[c]
    BY <1>1, <2>1, <2>4 DEF Stage
  <2> QED
    BY <2>1, <2>3, <2>4, <2>5, QuietStep
<1>5. CASE CheckUploadErr(c)
  <2>1. PICK p \in {"fail", "close"} :
          /\ pc[c] = "check" /\ pc' = [pc EXCEPT ![c] = p] /\ (p = "fail" => upload[c] = "done")
          /\ UNCHANGED <<client, copied, copyErr, eof, upload, accepted, early, lock, store>>
    BY <1>5 DEF CheckUploadErr, Goto, Failed, request, sending
  <2>2. TypeOK'
    BY <1>1, <2>1 DEF TypeOK
  <2>3. pc'[c] = p /\ \A d \in Clients : d # c => pc'[d] = pc[d]
    BY <1>1, <2>1 DEF TypeOK
  <2>4. Stage(c)'
    BY <1>1, <2>1, <2>3 DEF Stage
  <2> QED
    BY <2>1, <2>2, <2>3, <2>4, QuietStep
<1>6. CASE CloseWriter(c)
  <2>1. /\ pc[c] = "close" /\ eof' = [eof EXCEPT ![c] = TRUE] /\ pc' = [pc EXCEPT ![c] = "wait"]
        /\ UNCHANGED <<client, copied, copyErr, upload, accepted, early, lock, store>>
    BY <1>6 DEF CloseWriter, Goto, sending
  <2>2. TypeOK'
    BY <1>1, <2>1 DEF TypeOK
  <2>3. pc'[c] = "wait" /\ eof'[c] /\ \A d \in Clients : d # c => pc'[d] = pc[d] /\ eof'[d] = eof[d]
    BY <1>1, <2>1 DEF TypeOK
  <2>4. Stage(c)'
    BY <1>1, <2>1, <2>3 DEF Stage
  <2> QED
    BY <2>1, <2>2, <2>3, <2>4, QuietStep
<1>7. CASE AwaitUpload(c)
  <2>1. PICK p \in {"fail", "answer"} :
          /\ pc[c] = "wait" /\ upload[c] = "done" /\ pc' = [pc EXCEPT ![c] = p] /\ (p = "answer" => accepted[c])
          /\ UNCHANGED <<client, copied, copyErr, eof, upload, accepted, early, lock, store>>
    BY <1>7 DEF AwaitUpload, Goto, Failed, request, sending
  <2>2. TypeOK'
    BY <1>1, <2>1 DEF TypeOK
  <2>3. pc'[c] = p /\ \A d \in Clients : d # c => pc'[d] = pc[d]
    BY <1>1, <2>1 DEF TypeOK
  <2>4. Stage(c)'
    BY <1>1, <2>1, <2>3 DEF Stage
  <2> QED
    BY <2>1, <2>2, <2>3, <2>4, QuietStep
<1> QED
  BY <1>2, <1>3, <1>4, <1>5, <1>6, <1>7

\* The answer ends the request and gives the lock back.
LEMMA AnswerStep ==
  ASSUME UploadInv, NEW c \in Clients, Answer(c)
  PROVE  UploadInv'
<1> USE DEF UploadInv
<1>1. TypeOK /\ Stage(c)
  BY DEF StageInv
<1>2. PICK a \in {"gone", "ok", "error"} :
        /\ pc[c] \in {"answer", "fail"} /\ client' = [client EXCEPT ![c] = a]
        /\ client[c] = "gone" => a = "gone"
        /\ pc' = [pc EXCEPT ![c] = "none"] /\ lock' = Nobody
        /\ UNCHANGED <<copied, copyErr, eof, upload, accepted, early, store>>
  BY DEF Answer, Goto, request, sending
<1>3. TypeOK'
  BY <1>1, <1>2 DEF TypeOK
<1>4. client'[c] = a /\ pc'[c] = "none"
  BY <1>1, <1>2 DEF TypeOK
<1>5. \A d \in Clients : d # c => client'[d] = client[d] /\ pc'[d] = pc[d]
  BY <1>1, <1>2 DEF TypeOK
<1>6. Stage(c)'
  BY <1>1, <1>2, <1>4 DEF Stage
<1>7. StageInv'
  BY <1>2, <1>5, <1>6, OthersStay
<1>8. \A d \in Clients : pc'[d] = "none"
  BY <1>2, <1>4, <1>5 DEF LockInv
<1>9. LockInv' /\ StoredInv'
  BY <1>8 DEF LockInv, StoredInv
<1>10. ShortOnlyIfGone'
  BY <1>1, <1>2, <1>4, <1>5 DEF ShortOnlyIfGone, TypeOK
<1> QED
  BY <1>3, <1>7, <1>9, <1>10

-------------------------------------------------------------------------------
\* What the store keeps is a body that came to its end, and is short only if its client is gone.
LEMMA StoreAcceptsStep ==
  ASSUME UploadInv, NEW c \in Clients, StoreAccepts(c)
  PROVE  UploadInv'
<1> USE DEF UploadInv
<1>1. TypeOK /\ Stage(c)
  BY DEF StageInv
<1>2. /\ upload[c] = "sending" /\ eof[c] /\ store' = [by |-> c, len |-> copied[c]]
      /\ upload' = [upload EXCEPT ![c] = "answered"] /\ accepted' = [accepted EXCEPT ![c] = TRUE]
      /\ UNCHANGED <<client, pc, copied, copyErr, eof, lock, early>>
  BY DEF StoreAccepts, request
<1>3. TypeOK'
  BY <1>1, <1>2 DEF TypeOK
<1>4. upload'[c] = "answered" /\ accepted'[c]
  BY <1>1, <1>2 DEF TypeOK
<1>5. \A d \in Clients : d # c => upload'[d] = upload[d] /\ accepted'[d] = accepted[d]
  BY <1>1, <1>2 DEF TypeOK
<1>6. Stage(c)'
  BY <1>1, <1>2, <1>4 DEF Stage
<1>7. StageInv'
  BY <1>2, <1>5, <1>6, OthersStay
<1>8. pc[c] # "none" /\ \A d \in Clients : d # c => pc[d] = "none"
  BY <1>1, <1>2 DEF Stage, LockInv
<1>9. LockInv' /\ StoredInv'
  BY <1>2, <1>8 DEF LockInv, StoredInv
<1>10. ShortOnlyIfGone'
  <2>1. copied[c] = Chunks \/ client[c] = "gone"
    BY <1>1, <1>2 DEF Stage
  <2>2. store'.by = c /\ store'.len = copied[c] /\ client'[c] = client[c]
    BY <1>2
  <2> QED
    BY <2>1, <2>2, UploadAssumption DEF ShortOnlyIfGone
<1> QED
  BY <1>3, <1>7, <1>9, <1>10

\* The other ends of the goroutine change nothing but its state.
LEMMA GoroutineStep ==
  ASSUME UploadInv, NEW c \in Clients, StoreRefuses(c) \/ HandleUploadDone(c)
  PROVE  UploadInv'
<1>1. TypeOK /\ Stage(c)
  BY DEF UploadInv, StageInv
<1>2. PICK u \in {"answered", "done"} :
        /\ upload[c] \in {"sending", "answered"} /\ upload' = [upload EXCEPT ![c] = u]
        /\ early' \in [Clients -> BOOLEAN]
        /\ UNCHANGED <<client, pc, copied, copyErr, eof, accepted, lock, store>>
  <2>1. CASE StoreRefuses(c)
    <3>1. (~eof[c]) \in BOOLEAN
      BY <1>1 DEF TypeOK
    <3>2. early' \in [Clients -> BOOLEAN]
      BY <1>1, <2>1, <3>1 DEF StoreRefuses, TypeOK
    <3> QED
      BY <2>1, <3>2 DEF StoreRefuses, request
  <2>2. CASE HandleUploadDone(c)
    BY <1>1, <2>2 DEF HandleUploadDone, request, TypeOK
  <2> QED
    BY <2>1, <2>2
<1>3. TypeOK'
  BY <1>1, <1>2 DEF TypeOK
<1>4. upload'[c] = u /\ \A d \in Clients : d # c => upload'[d] = upload[d]
  BY <1>1, <1>2 DEF TypeOK
<1>5. Stage(c)'
  BY <1>1, <1>2, <1>4 DEF Stage
<1> QED
  BY <1>2, <1>3, <1>4, <1>5, QuietStep

\* The panic ends all requests, and may leave the body of one in the store.
LEMMA TransportFailsStep ==
  ASSUME UploadInv, NEW c \in Clients, TransportFails(c)
  PROVE  UploadInv'
<1> USE DEF UploadInv
<1>1. TypeOK /\ Stage(c)
  BY DEF StageInv
<1>2. /\ upload[c] = "sending"
      /\ client' = [d \in Clients |-> IF client[d] = "sending" THEN "error" ELSE client[d]]
      /\ pc' = [d \in Clients |-> "none"] /\ upload' = [d \in Clients |-> "none"] /\ lock' = Nobody
      /\ UNCHANGED <<copied, copyErr, eof, accepted, early>>
  BY DEF TransportFails, request
<1>3. store' = store \/ (eof[c] /\ store' = [by |-> c, len |-> copied[c]])
  BY DEF TransportFails
<1>4. TypeOK'
  BY <1>1, <1>2, <1>3 DEF TypeOK
<1>5. \A d \in Clients : pc'[d] = "none" /\ upload'[d] = "none"
  BY <1>2
<1>6. \A d \in Clients : /\ client[d] = "gone" => client'[d] = "gone"
                         /\ client'[d] = "idle" => client[d] = "idle"
  BY <1>2
<1>7. StageInv'
  <2> SUFFICES ASSUME NEW d \in Clients PROVE Stage(d)'
    BY DEF StageInv
  <2>1. Stage(d)
    BY DEF StageInv
  <2> QED
    BY <1>2, <1>5, <1>6, <2>1 DEF Stage
<1>8. LockInv' /\ StoredInv'
  BY <1>5 DEF LockInv, StoredInv
<1>9. ShortOnlyIfGone'
  <2> SUFFICES ASSUME store' # Nothing, store'.len < Chunks PROVE client'[store'.by] = "gone"
    BY DEF ShortOnlyIfGone
  <2>1. CASE store' = store
    <3>1. store.by \in Clients /\ client[store.by] = "gone"
      BY <1>1, <2>1 DEF TypeOK, ShortOnlyIfGone
    <3> QED
      BY <1>6, <2>1, <3>1
  <2>2. CASE eof[c] /\ store' = [by |-> c, len |-> copied[c]]
    <3>1. copied[c] = Chunks \/ client[c] = "gone"
      BY <1>1, <2>2 DEF Stage
    <3>2. store'.by = c /\ copied[c] < Chunks
      BY <2>2
    <3>3. client[c] = "gone"
      BY <3>1, <3>2, UploadAssumption
    <3> QED
      BY <1>6, <3>2, <3>3
  <2> QED
    BY <1>3, <2>1, <2>2
<1> QED
  BY <1>4, <1>7, <1>8, <1>9

-------------------------------------------------------------------------------
\* Every step preserves the invariant.
LEMMA UploadInvStep == UploadInv /\ [Next]_vars => UploadInv'
<1> SUFFICES ASSUME UploadInv, [Next]_vars PROVE UploadInv'
  OBVIOUS
<1>1. ASSUME NEW c \in Clients, Put(c) \/ Abort(c) PROVE UploadInv'
  BY <1>1, PutStep, AbortStep
<1>2. ASSUME NEW c \in Clients, HandlerStep(c) PROVE UploadInv'
  BY <1>2, HandlerMoves, AnswerStep DEF HandlerStep
<1>3. ASSUME NEW c \in Clients, UploadStep(c) \/ TransportFails(c) PROVE UploadInv'
  BY <1>3, StoreAcceptsStep, GoroutineStep, TransportFailsStep DEF UploadStep
<1>4. CASE UNCHANGED vars
  BY <1>4 DEF vars, UploadInv, TypeOK, LockInv, StageInv, Stage, StoredInv, ShortOnlyIfGone
<1> QED
  BY <1>1, <1>2, <1>3, <1>4 DEF Next

\* The invariant holds in every state.
LEMMA UploadInvariant == Spec => []UploadInv
<1> QED
  BY UploadInitInv, UploadInvStep, PTL DEF Spec

-------------------------------------------------------------------------------
\* Type correctness.
THEOREM UploadTypeCorrect == Spec => []TypeOK
<1>1. UploadInv => TypeOK
  BY DEF UploadInv
<1> QED
  BY <1>1, UploadInvariant, PTL

\* A shortened object is that of a client that went away in the middle of its body, which is what
\* fileWrite.Close makes of it.
THEOREM ShortenedByTheClient == Spec => []ShortOnlyIfGone
<1>1. UploadInv => ShortOnlyIfGone
  BY DEF UploadInv
<1> QED
  BY <1>1, UploadInvariant, PTL

\* A PUT that is answered with success has stored its whole body.
THEOREM SuccessIsStored == Spec => AckedIsWhole
<1> DEFINE Whole == \A c \in Clients :
                      client[c] # "ok" /\ client'[c] = "ok" => store' = [by |-> c, len |-> Chunks]
<1>1. UploadInv /\ [Next]_vars => [Whole]_vars
  <2> SUFFICES ASSUME UploadInv, [Next]_vars, NEW c \in Clients, client[c] # "ok", client'[c] = "ok"
               PROVE  store' = [by |-> c, len |-> Chunks]
    OBVIOUS
  <2>1. TypeOK /\ Stage(c)
    BY DEF UploadInv, StageInv
  <2>2. Answer(c)
    <3>1. ASSUME NEW d \in Clients, Put(d) \/ Abort(d) PROVE FALSE
      BY <2>1, <3>1 DEF Put, Abort, TypeOK
    <3>2. ASSUME NEW d \in Clients, UploadStep(d) \/ TransportFails(d) PROVE FALSE
      BY <3>2 DEF UploadStep, StoreAccepts, StoreRefuses, HandleUploadDone, TransportFails
    <3>3. ASSUME NEW d \in Clients, HandlerStep(d), ~Answer(d) PROVE FALSE
      BY <3>3 DEF HandlerStep, Start, ReadBody, Write, CheckUploadErr, CloseWriter, AwaitUpload
    <3>4. ASSUME NEW d \in Clients, Answer(d), d # c PROVE FALSE
      BY <2>1, <3>4 DEF Answer, TypeOK
    <3>5. ~UNCHANGED vars
      BY DEF vars
    <3> QED
      BY <3>1, <3>2, <3>3, <3>4, <3>5 DEF Next
  <2>3. pc[c] = "answer" /\ ~copyErr[c] /\ store' = store
    BY <2>1, <2>2 DEF Answer, TypeOK
  <2>4. accepted[c] /\ copied[c] = Chunks
    BY <2>1, <2>3 DEF Stage
  <2> QED
    BY <2>3, <2>4 DEF UploadInv, StoredInv
<1> QED
  BY <1>1, UploadInvariant, PTL DEF Spec, AckedIsWhole

-------------------------------------------------------------------------------
\* Upload implements AtomicPut.  The mapping leaves the client and the lock as they are; an object
\* is whole when it has all pieces.  What the steps need besides UploadInv: who has the name waits
\* for an answer or is gone, and whose body is stored has no upload on its way any more.
RunsInv == \A c \in Clients : pc[c] # "none" => client[c] \in {"sending", "gone"}

Sent(c) == client[c] # "idle" /\ pc[c] # "open" /\ upload[c] # "sending"

OnceInv == store # Nothing => Sent(store.by)

PutsInv == UploadInv /\ RunsInv /\ OnceInv

\* A PUT that is under way goes on being sent only from its start, which comes once.
LEMMA SentStays ==
  ASSUME UploadInv, [Next]_vars, NEW d \in Clients, Sent(d)
  PROVE  Sent(d)'
<1>1. TypeOK
  BY DEF UploadInv
<1> USE DEF Sent
<1>2. ASSUME NEW c \in Clients, Put(c) PROVE Sent(d)'
  BY <1>1, <1>2 DEF Put, Goto, sending, TypeOK
<1>3. ASSUME NEW c \in Clients, Abort(c) \/ ReadBody(c) \/ Write(c) PROVE Sent(d)'
  BY <1>1, <1>3 DEF Abort, ReadBody, Write, Goto, sending, TypeOK
<1>4. ASSUME NEW c \in Clients, CheckUploadErr(c) \/ CloseWriter(c) \/ AwaitUpload(c) PROVE Sent(d)'
  BY <1>1, <1>4 DEF CheckUploadErr, CloseWriter, AwaitUpload, Goto, sending, TypeOK
<1>5. ASSUME NEW c \in Clients, Start(c) PROVE Sent(d)'
  BY <1>1, <1>5 DEF Start, Goto, sending, TypeOK
<1>6. ASSUME NEW c \in Clients, Answer(c) PROVE Sent(d)'
  BY <1>1, <1>6 DEF Answer, Goto, sending, TypeOK
<1>7. ASSUME NEW c \in Clients, StoreAccepts(c) \/ StoreRefuses(c) \/ HandleUploadDone(c) PROVE Sent(d)'
  BY <1>1, <1>7 DEF StoreAccepts, StoreRefuses, HandleUploadDone, TypeOK
<1>8. ASSUME NEW c \in Clients, TransportFails(c) PROVE Sent(d)'
  BY <1>1, <1>8 DEF TransportFails, TypeOK
<1>9. CASE UNCHANGED vars
  BY <1>9 DEF vars
<1> QED
  BY <1>2, <1>3, <1>4, <1>5, <1>6, <1>7, <1>8, <1>9 DEF Next, HandlerStep, UploadStep

\* A body that is stored is one that was on its way, and is on its way no more.
LEMMA OnceStep == UploadInv /\ OnceInv /\ [Next]_vars => OnceInv'
<1> SUFFICES ASSUME UploadInv, OnceInv, [Next]_vars PROVE OnceInv'
  OBVIOUS
<1>1. TypeOK /\ StageInv
  BY DEF UploadInv
<1>2. ASSUME UNCHANGED store PROVE OnceInv'
  <2>1. store # Nothing => store.by \in Clients /\ Sent(store.by)
    BY <1>1 DEF OnceInv, TypeOK
  <2>2. store # Nothing => Sent(store.by)'
    BY <1>2, <2>1, SentStays
  <2> QED
    BY <1>2, <2>2 DEF OnceInv, Sent
<1>3. ASSUME NEW c \in Clients, upload[c] = "sending", store' = [by |-> c, len |-> copied[c]],
             upload'[c] # "sending", client'[c] # "idle", pc'[c] # "open"
      PROVE OnceInv'
  BY <1>3 DEF OnceInv, Sent
<1>4. ASSUME NEW c \in Clients, upload[c] = "sending"
      PROVE client[c] # "idle" /\ pc[c] # "open"
  BY <1>1, <1>4 DEF StageInv, Stage
<1>5. ASSUME NEW c \in Clients, StoreAccepts(c) PROVE OnceInv'
  BY <1>1, <1>3, <1>4, <1>5 DEF StoreAccepts, TypeOK
<1>6. ASSUME NEW c \in Clients, TransportFails(c) PROVE OnceInv'
  <2>1. upload'[c] # "sending" /\ pc'[c] # "open" /\ client'[c] # "idle"
    BY <1>4, <1>6 DEF TransportFails
  <2> QED
    BY <1>2, <1>3, <1>6, <2>1 DEF TransportFails
<1>7. ASSUME NEW c \in Clients, HandlerStep(c) \/ UploadStep(c) \/ Put(c) \/ Abort(c), ~StoreAccepts(c)
      PROVE OnceInv'
  BY <1>2, <1>7 DEF HandlerStep, UploadStep, Put, Abort, Start, ReadBody, Write, CheckUploadErr,
                    CloseWriter, AwaitUpload, Answer, StoreRefuses, HandleUploadDone
<1>8. CASE UNCHANGED vars
  BY <1>2, <1>8 DEF vars
<1> QED
  BY <1>5, <1>6, <1>7, <1>8 DEF Next

\* A handler only runs for a client that is sending or gone.
LEMMA RunsStep == UploadInv /\ RunsInv /\ [Next]_vars => RunsInv'
<1> SUFFICES ASSUME UploadInv, RunsInv, [Next]_vars, NEW d \in Clients, pc'[d] # "none"
             PROVE  client'[d] \in {"sending", "gone"}
  BY DEF RunsInv
<1>1. TypeOK
  BY DEF UploadInv
<1> USE DEF RunsInv
<1>2. ASSUME NEW c \in Clients, Put(c) \/ Abort(c) PROVE client'[d] \in {"sending", "gone"}
  BY <1>1, <1>2 DEF Put, Abort, Goto, TypeOK
<1>3. ASSUME NEW c \in Clients, pc' = [pc EXCEPT ![c] = pc'[c]], pc[c] # "none", UNCHANGED client
      PROVE client'[d] \in {"sending", "gone"}
  BY <1>1, <1>3 DEF TypeOK
<1>4. ASSUME NEW c \in Clients, HandlerStep(c), ~Answer(c)
      PROVE pc' = [pc EXCEPT ![c] = pc'[c]] /\ pc[c] # "none" /\ UNCHANGED client
  BY <1>1, <1>4 DEF HandlerStep, Start, ReadBody, Write, CheckUploadErr, CloseWriter, AwaitUpload,
                    Goto, TypeOK
<1>5. ASSUME NEW c \in Clients, Answer(c) PROVE client'[d] \in {"sending", "gone"}
  BY <1>1, <1>5 DEF Answer, Goto, TypeOK
<1>6. ASSUME NEW c \in Clients, UploadStep(c) PROVE UNCHANGED <<client, pc>>
  BY <1>6 DEF UploadStep, StoreAccepts, StoreRefuses, HandleUploadDone
<1>7. ASSUME NEW c \in Clients, TransportFails(c) PROVE FALSE
  BY <1>7 DEF TransportFails
<1>8. CASE UNCHANGED vars
  BY <1>8 DEF vars
<1> QED
  BY <1>2, <1>3, <1>4, <1>5, <1>6, <1>7, <1>8 DEF Next

\* What holds in every state of the uploads.
LEMMA PutsInvariant == Spec => []PutsInv
<1>1. Init => RunsInv /\ OnceInv
  BY DEF Init, RunsInv, OnceInv
<1> QED
  BY <1>1, UploadInitInv, UploadInvStep, RunsStep, OnceStep, PTL DEF Spec, PutsInv

\* A body that comes to its end is stored as the abstract PUT stores it.
LEMMA StoresAtomically ==
  ASSUME PutsInv, NEW c \in Clients, upload[c] = "sending", eof[c],
         store' = [by |-> c, len |-> copied[c]]
  PROVE  Atomic!StoresBody(c)
<1>1. TypeOK /\ Stage(c)
  BY DEF PutsInv, UploadInv, StageInv
<1>2. object = Nothing \/ object.by # c
  BY <1>1 DEF PutsInv, OnceInv, Sent, object
<1>3. object' = [by |-> c, whole |-> copied[c] = Chunks]
  <2>1. copied[c] \in 0 .. Chunks
    BY <1>1 DEF TypeOK
  <2>2. store' # Nothing
    BY <2>1, UploadAssumption
  <2> QED
    BY <2>2 DEF object
<1>4. (copied[c] = Chunks) \in BOOLEAN
  OBVIOUS
<1>5. (copied[c] = Chunks) \/ client[c] = "gone"
  BY <1>1 DEF Stage
<1> QED
  BY <1>2, <1>3, <1>4, <1>5 DEF Atomic!StoresBody

\* Who runs has the name.
LEMMA RunnerHasName ==
  ASSUME PutsInv, NEW c \in Clients, pc[c] # "none"
  PROVE  lock = c
  BY DEF PutsInv, UploadInv, LockInv

\* The store is not touched: neither is the abstract object.
LEMMA ObjectStays == UNCHANGED store => UNCHANGED object
  BY DEF object

\* The answer of the handler is the abstract success or failure.
LEMMA AnswerRefines ==
  ASSUME PutsInv, NEW c \in Clients, Answer(c)
  PROVE  Atomic!Succeed(c) \/ Atomic!Fail(c)
<1>1. TypeOK /\ Stage(c) /\ client[c] \in {"sending", "gone"} /\ lock = c
  BY RunnerHasName DEF Answer, PutsInv, UploadInv, StageInv, RunsInv
<1>2. /\ lock' = Nobody /\ UNCHANGED object
      /\ client' = [client EXCEPT ![c] = IF client[c] = "gone" THEN "gone"
                                         ELSE IF pc[c] = "answer" /\ ~copyErr[c] THEN "ok" ELSE "error"]
  BY ObjectStays DEF Answer
<1>3. CASE client[c] = "sending" /\ pc[c] = "answer" /\ ~copyErr[c]
  <2>1. store = [by |-> c, len |-> Chunks]
    BY <1>1, <1>3 DEF Stage, PutsInv, UploadInv, StoredInv
  <2>2. store # Nothing
    BY <2>1, UploadAssumption
  <2>3. object = [by |-> c, whole |-> TRUE]
    BY <2>1, <2>2 DEF object
  <2> QED
    BY <1>1, <1>2, <1>3, <2>3 DEF Atomic!Succeed, Atomic!Learns
<1>4. CASE ~(client[c] = "sending" /\ pc[c] = "answer" /\ ~copyErr[c])
  BY <1>1, <1>2, <1>4 DEF Atomic!Fail, Atomic!Learns
<1> QED
  BY <1>3, <1>4

\* Every step of the uploads is a step of the abstract PUTs, or nothing they know of.
LEMMA PutRefines == PutsInv /\ [Next]_vars => [Atomic!PutNext]_Atomic!putVars
<1> SUFFICES ASSUME PutsInv, [Next]_vars PROVE [Atomic!PutNext]_Atomic!putVars
  OBVIOUS
<1>1. TypeOK /\ StageInv
  BY DEF PutsInv, UploadInv
<1>2. ASSUME NEW c \in Clients, Put(c) PROVE Atomic!PutNext
  <2>1. UNCHANGED object
    BY <1>2, ObjectStays DEF Put
  <2> QED
    BY <1>2, <2>1 DEF Put, Atomic!PutNext, Atomic!Begin, Atomic!Reject, Atomic!Learns
<1>3. ASSUME NEW c \in Clients, Abort(c) PROVE Atomic!PutNext
  <2>1. UNCHANGED object
    BY <1>3, ObjectStays DEF Abort
  <2> QED
    BY <1>3, <2>1 DEF Abort, Atomic!PutNext, Atomic!GoAway, Atomic!Learns
<1>4. ASSUME NEW c \in Clients, HandlerStep(c), ~Answer(c) PROVE UNCHANGED Atomic!putVars
  <2>1. UNCHANGED <<client, lock, store>>
    BY <1>4 DEF HandlerStep, Start, ReadBody, Write, CheckUploadErr, CloseWriter, AwaitUpload
  <2> QED
    BY <2>1, ObjectStays DEF Atomic!putVars
<1>5. ASSUME NEW c \in Clients, Answer(c) PROVE Atomic!PutNext
  BY <1>5, AnswerRefines DEF Atomic!PutNext
<1>6. ASSUME NEW c \in Clients, upload[c] = "sending" PROVE lock = c
  BY <1>1, <1>6, RunnerHasName DEF StageInv, Stage
<1>7. ASSUME NEW c \in Clients, StoreAccepts(c) PROVE Atomic!PutNext
  <2>1. Atomic!StoresBody(c) /\ lock = c
    BY <1>6, <1>7, StoresAtomically DEF StoreAccepts
  <2>2. UNCHANGED <<client, lock>>
    BY <1>7 DEF StoreAccepts
  <2> QED
    BY <2>1, <2>2 DEF Atomic!PutNext, Atomic!Store
<1>8. ASSUME NEW c \in Clients, StoreRefuses(c) \/ HandleUploadDone(c) PROVE UNCHANGED Atomic!putVars
  <2>1. UNCHANGED <<client, lock, store>>
    BY <1>8 DEF StoreRefuses, HandleUploadDone
  <2> QED
    BY <2>1, ObjectStays DEF Atomic!putVars
<1>9. ASSUME NEW c \in Clients, TransportFails(c) PROVE Atomic!PutNext
  <2>1. lock = c /\ lock' = Nobody
    BY <1>6, <1>9 DEF TransportFails
  <2>2. UNCHANGED object \/ Atomic!StoresBody(c)
    BY <1>9, ObjectStays, StoresAtomically DEF TransportFails
  <2>3. client' = [d \in Clients |-> IF client[d] = "sending" THEN "error" ELSE client[d]]
    BY <1>9 DEF TransportFails
  <2> QED
    BY <2>1, <2>2, <2>3 DEF Atomic!PutNext, Atomic!Restart
<1>10. CASE UNCHANGED vars
  BY <1>10, ObjectStays DEF vars, Atomic!putVars
<1> QED
  BY <1>2, <1>3, <1>4, <1>5, <1>7, <1>8, <1>9, <1>10 DEF Next, HandlerStep, UploadStep

\* The PUTs of a name are atomic: for any number of clients and pieces, whatever the proxy, the
\* store and the clients do, a body becomes the object in one step, at most once, and only while
\* its PUT has the name (fileWrite, and the handler that waits for it in Close).
THEOREM PutsAreAtomic == Spec => PutSpec
<1>1. Init => Atomic!PutInit
  BY DEF Init, Atomic!PutInit, object
<1> QED
  BY <1>1, PutRefines, PutsInvariant, PTL DEF Spec, PutSpec, Atomic!PutSpec

-------------------------------------------------------------------------------
\* Why PutEnds holds, as far as it is a matter of safety: a handler that runs always has a next
\* step, its own or one of its goroutine, but for the one that the store refused early; and it
\* has only so many steps.
CanGoOn(c) ==
  \/ pc[c] \in {"open", "check", "close", "answer", "fail"}
  \/ pc[c] = "read" /\ client[c] \in {"sending", "gone"}
  \/ pc[c] = "write" /\ upload[c] \in {"sending", "answered"}
  \/ pc[c] = "wait" /\ (upload[c] \in {"answered", "done"} \/ (upload[c] = "sending" /\ eof[c]))

OnlyRefusedStuck == \A c \in Clients : pc[c] # "none" => CanGoOn(c) \/ early[c]

\* A handler in the middle has its goroutine, waits only after it has ended the body, and when the
\* store's answer is there before that, it was a refusal.
Awaited(c) ==
  /\ pc[c] \in {"read", "write", "check", "close", "wait"} => upload[c] # "none"
  /\ pc[c] = "wait" => eof[c]
  /\ upload[c] \in {"answered", "done"} /\ ~eof[c] => early[c]

AwaitedInv == \A c \in Clients : Awaited(c)

\* The other handlers stay as they are.
LEMMA OthersAwaited ==
  ASSUME AwaitedInv, NEW c \in Clients, Awaited(c)',
         \A d \in Clients : d # c => /\ pc'[d] = pc[d] /\ eof'[d] = eof[d]
                                     /\ upload'[d] = upload[d] /\ early'[d] = early[d]
  PROVE  AwaitedInv'
  BY DEF AwaitedInv, Awaited

\* Every step preserves this.
LEMMA AwaitedStep == UploadInv /\ AwaitedInv /\ [Next]_vars => AwaitedInv'
<1> SUFFICES ASSUME UploadInv, AwaitedInv, [Next]_vars PROVE AwaitedInv'
  OBVIOUS
<1> USE DEF Goto, sending, request
<1>1. TypeOK /\ StageInv
  BY DEF UploadInv
<1>2. ASSUME NEW c \in Clients, Put(c) \/ Abort(c) \/ Start(c) \/ ReadBody(c) PROVE AwaitedInv'
  <2>1. Stage(c) /\ Awaited(c)
    BY <1>1 DEF StageInv, AwaitedInv
  <2>2. \A d \in Clients : d # c => /\ pc'[d] = pc[d] /\ eof'[d] = eof[d]
                                    /\ upload'[d] = upload[d] /\ early'[d] = early[d]
    BY <1>1, <1>2 DEF Put, Abort, Start, ReadBody, TypeOK
  <2>3. Awaited(c)'
    BY <1>1, <1>2, <2>1 DEF Put, Abort, Start, ReadBody, TypeOK, Awaited, Stage
  <2> QED
    BY <2>2, <2>3, OthersAwaited
<1>3. ASSUME NEW c \in Clients,
             Write(c) \/ CheckUploadErr(c) \/ CloseWriter(c) \/ AwaitUpload(c) \/ Answer(c)
      PROVE AwaitedInv'
  <2>1. Stage(c) /\ Awaited(c)
    BY <1>1 DEF StageInv, AwaitedInv
  <2>2. \A d \in Clients : d # c => /\ pc'[d] = pc[d] /\ eof'[d] = eof[d]
                                    /\ upload'[d] = upload[d] /\ early'[d] = early[d]
    BY <1>1, <1>3 DEF Write, CheckUploadErr, CloseWriter, AwaitUpload, Answer, TypeOK
  <2>3. Awaited(c)'
    BY <1>1, <1>3, <2>1 DEF Write, CheckUploadErr, CloseWriter, AwaitUpload, Answer, TypeOK, Awaited, Stage
  <2> QED
    BY <2>2, <2>3, OthersAwaited
<1>4. ASSUME NEW c \in Clients, UploadStep(c) PROVE AwaitedInv'
  <2>1. Stage(c) /\ Awaited(c)
    BY <1>1 DEF StageInv, AwaitedInv
  <2>2. \A d \in Clients : d # c => /\ pc'[d] = pc[d] /\ eof'[d] = eof[d]
                                    /\ upload'[d] = upload[d] /\ early'[d] = early[d]
    BY <1>1, <1>4 DEF UploadStep, StoreAccepts, StoreRefuses, HandleUploadDone, TypeOK
  <2>3. Awaited(c)'
    BY <1>1, <1>4, <2>1 DEF UploadStep, StoreAccepts, StoreRefuses, HandleUploadDone, TypeOK, Awaited, Stage
  <2> QED
    BY <2>2, <2>3, OthersAwaited
<1>5. ASSUME NEW c \in Clients, TransportFails(c) PROVE AwaitedInv'
  BY <1>5 DEF TransportFails, AwaitedInv, Awaited
<1>6. CASE UNCHANGED vars
  BY <1>6 DEF vars, AwaitedInv, Awaited
<1> QED
  BY <1>2, <1>3, <1>4, <1>5, <1>6 DEF Next, HandlerStep

\* The handler and the goroutine of a PUT never wait for each other: only a handler whose body the
\* store refused before its end can be left without a next step (fileWrite.Write, Close).
THEOREM PutsAreNotStuck == Spec => []OnlyRefusedStuck
<1>1. Init => AwaitedInv
  BY DEF Init, AwaitedInv, Awaited
<1>2. PutsInv /\ AwaitedInv => OnlyRefusedStuck
  <2> SUFFICES ASSUME PutsInv, AwaitedInv, NEW c \in Clients, pc[c] # "none", ~early[c]
               PROVE  CanGoOn(c)
    BY DEF OnlyRefusedStuck
  <2>1. TypeOK /\ Stage(c) /\ Awaited(c) /\ client[c] \in {"sending", "gone"}
    BY DEF PutsInv, RunsInv, UploadInv, StageInv, AwaitedInv
  <2>2. /\ pc[c] \in {"none", "open", "read", "write", "check", "close", "wait", "answer", "fail"}
        /\ upload[c] \in {"none", "sending", "answered", "done"}
    BY <2>1 DEF TypeOK
  <2>3. CASE pc[c] = "write"
    BY <2>1, <2>2, <2>3 DEF Stage, Awaited, CanGoOn
  <2>4. CASE pc[c] = "wait"
    BY <2>1, <2>2, <2>4 DEF Awaited, CanGoOn
  <2>5. CASE pc[c] \notin {"write", "wait"}
    BY <2>1, <2>2, <2>5 DEF CanGoOn
  <2> QED
    BY <2>3, <2>4, <2>5
<1> QED
  BY <1>1, <1>2, AwaitedStep, UploadInvariant, PutsInvariant, PTL DEF Spec

\* How many steps are left to a PUT, its handler's and its goroutine's, at most.
StepsLeft(c) ==
  (CASE pc[c] = "open"  -> 2 * Chunks + 9
     [] pc[c] = "read"  -> 2 * (Chunks - copied[c]) + 6
     [] pc[c] = "write" -> 2 * (Chunks - copied[c]) + 5
     [] pc[c] = "check" -> 5
     [] pc[c] = "close" -> 4
     [] pc[c] = "wait"  -> 3
     [] pc[c] \in {"answer", "fail"} -> 1
     [] OTHER -> 0)
  + (CASE upload[c] = "sending" -> 2
       [] upload[c] = "answered" -> 1
       [] OTHER -> 0)

\* No step of another request gives a PUT more to do, and each of its own takes one step off.
StepsRunOut ==
  [][\A c \in Clients : /\ client[c] # "idle" => StepsLeft(c)' =< StepsLeft(c)
                        /\ HandlerStep(c) \/ UploadStep(c) => StepsLeft(c)' < StepsLeft(c)]_vars

\* The steps that are left are a number.
LEMMA StepsAreNatural ==
  ASSUME TypeOK, NEW c \in Clients, Stage(c)
  PROVE  StepsLeft(c) \in 0 .. 2 * Chunks + 9
<1>1. copied[c] \in 0 .. Chunks /\ Chunks \in Nat
  BY UploadAssumption DEF TypeOK
<1>2. pc[c] = "open" => upload[c] = "none"
  BY DEF Stage
<1> QED
  BY <1>1, <1>2 DEF StepsLeft

\* The handler's own steps take one off.
LEMMA HandlerRunsOut ==
  ASSUME UploadInv, NEW c \in Clients, HandlerStep(c)
  PROVE  StepsLeft(c)' < StepsLeft(c)
<1> USE DEF Goto, sending, request
<1>1. TypeOK /\ Stage(c) /\ copied[c] \in 0 .. Chunks /\ Chunks \in Nat
  BY UploadAssumption DEF UploadInv, StageInv, TypeOK
<1>2. CASE Start(c)
  <2>1. pc[c] = "open" /\ copied' = copied /\ upload[c] = "none"
    BY <1>1, <1>2 DEF Start, Stage
  <2>2. (pc'[c] = "read" /\ upload'[c] = "sending") \/ (pc'[c] = "fail" /\ upload'[c] = "none")
    BY <1>1, <1>2, <2>1 DEF Start, TypeOK
  <2> QED
    BY <1>1, <2>1, <2>2 DEF StepsLeft, Stage
<1>3. CASE ReadBody(c)
  <2>1. pc[c] = "read" /\ UNCHANGED <<copied, upload>>
    BY <1>3 DEF ReadBody
  <2>2. pc'[c] \in {"write", "check"}
    BY <1>1, <1>3 DEF ReadBody, TypeOK
  <2> QED
    BY <1>1, <2>1, <2>2 DEF StepsLeft
<1>4. CASE Write(c)
  <2>1. /\ pc[c] = "write" /\ pc'[c] = "read" /\ copied'[c] = copied[c] + 1 /\ UNCHANGED upload
    BY <1>1, <1>4 DEF Write, TypeOK
  <2> QED
    BY <1>1, <2>1 DEF StepsLeft
<1>5. CASE CheckUploadErr(c) \/ CloseWriter(c) \/ AwaitUpload(c) \/ Answer(c)
  <2>1. UNCHANGED <<copied, upload>>
    BY <1>5 DEF CheckUploadErr, CloseWriter, AwaitUpload, Answer
  <2>2. \/ pc[c] = "check" /\ pc'[c] \in {"fail", "close"}
        \/ pc[c] = "close" /\ pc'[c] = "wait"
        \/ pc[c] = "wait" /\ pc'[c] \in {"fail", "answer"}
        \/ pc[c] \in {"fail", "answer"} /\ pc'[c] = "none"
    BY <1>1, <1>5 DEF CheckUploadErr, CloseWriter, AwaitUpload, Answer, TypeOK
  <2> QED
    BY <1>1, <2>1, <2>2 DEF StepsLeft
<1> QED
  BY <1>2, <1>3, <1>4, <1>5 DEF HandlerStep

\* So do those of its goroutine.
LEMMA GoroutineRunsOut ==
  ASSUME UploadInv, NEW c \in Clients, UploadStep(c)
  PROVE  StepsLeft(c)' < StepsLeft(c)
<1>1. TypeOK /\ copied[c] \in 0 .. Chunks /\ Chunks \in Nat
  BY UploadAssumption DEF UploadInv, TypeOK
<1>2. /\ UNCHANGED <<pc, copied>>
      /\ \/ upload[c] = "sending" /\ upload'[c] = "answered"
         \/ upload[c] = "answered" /\ upload'[c] = "done"
  BY <1>1 DEF UploadStep, StoreAccepts, StoreRefuses, HandleUploadDone, request, TypeOK
<1> QED
  BY <1>1, <1>2 DEF StepsLeft

\* A request ends after as many steps as its body takes: the number of steps that are left to a
\* handler and its goroutine goes down with each, whatever other requests do meanwhile.
THEOREM PutsRunOut == Spec => StepsRunOut
<1> DEFINE RunsOut == \A c \in Clients :
                        /\ client[c] # "idle" => StepsLeft(c)' =< StepsLeft(c)
                        /\ HandlerStep(c) \/ UploadStep(c) => StepsLeft(c)' < StepsLeft(c)
<1>1. UploadInv /\ [Next]_vars => [RunsOut]_vars
  <2> SUFFICES ASSUME UploadInv, Next, NEW c \in Clients, client[c] # "idle"
               PROVE  StepsLeft(c)' =< StepsLeft(c)
    BY HandlerRunsOut, GoroutineRunsOut
  <2>1. TypeOK /\ Stage(c) /\ StepsLeft(c) \in Nat
    <3>1. Stage(c) /\ TypeOK /\ 2 * Chunks + 9 \in Nat
      BY UploadAssumption DEF UploadInv, StageInv
    <3> QED
      BY <3>1, StepsAreNatural
  <2>2. ASSUME UNCHANGED <<pc[c], copied[c], upload[c]>> PROVE StepsLeft(c)' =< StepsLeft(c)
    <3>1. StepsLeft(c)' = StepsLeft(c)
      BY <2>2 DEF StepsLeft
    <3> QED
      BY <2>1, <3>1
  <2>3. ASSUME NEW d \in Clients, d # c, Put(d) \/ HandlerStep(d) \/ UploadStep(d)
        PROVE  UNCHANGED <<pc[c], copied[c], upload[c]>>
    <3>1. CASE Put(d) \/ UploadStep(d)
      BY <2>1, <2>3, <3>1 DEF Put, UploadStep, StoreAccepts, StoreRefuses, HandleUploadDone, Goto,
                              request, sending, TypeOK
    <3>2. CASE HandlerStep(d)
      BY <2>1, <2>3, <3>2 DEF HandlerStep, Start, ReadBody, Write, CheckUploadErr, CloseWriter,
                              AwaitUpload, Answer, Goto, request, sending, TypeOK
    <3> QED
      BY <2>3, <3>1, <3>2
  <2>4. CASE HandlerStep(c) \/ UploadStep(c)
    <3>1. StepsLeft(c)' < StepsLeft(c)
      BY <2>4, HandlerRunsOut, GoroutineRunsOut
    <3>2. StepsLeft(c)' \in Nat
      <4>1. UploadInv'
        BY UploadInvStep
      <4>2. Stage(c)' /\ TypeOK' /\ StepsLeft(c)' \in 0 .. 2 * Chunks + 9
        <5>1. TypeOK' /\ Stage(c)'
          BY <4>1 DEF UploadInv, StageInv
        <5>2. copied'[c] \in 0 .. Chunks /\ Chunks \in Nat /\ (pc'[c] = "open" => upload'[c] = "none")
          BY <5>1, UploadAssumption DEF TypeOK, Stage
        <5> QED
          BY <5>1, <5>2 DEF StepsLeft
      <4> QED
        BY <4>2, UploadAssumption
    <3> QED
      BY <2>1, <3>1, <3>2
  <2>5. ASSUME NEW d \in Clients, Abort(d) PROVE UNCHANGED <<pc[c], copied[c], upload[c]>>
    BY <2>5 DEF Abort, request, sending
  <2>6. ASSUME NEW d \in Clients, TransportFails(d) PROVE StepsLeft(c)' = 0
    BY <2>6 DEF TransportFails, StepsLeft
  <2>7. ~Put(c)
    BY DEF Put
  <2> QED
    BY <2>1, <2>2, <2>3, <2>4, <2>5, <2>6, <2>7 DEF Next
<1> QED
  BY <1>1, UploadInvariant, PTL DEF Spec, StepsRunOut
===============================================================================
