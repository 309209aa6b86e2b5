--------------------------- MODULE WebdavTreeProofs ---------------------------
(***************************************************************************)
(* Proofs about WebdavTree, for any files, requests and broken calls.       *)
(*                                                                          *)
(* That nothing is lost is an argument about places: a version that is owed *)
(* is in a file that no server call is about to remove (KeptInv), because   *)
(* what a call is to replace or to delete is not owed (CallTargets,         *)
(* JobTargets).  Other requests bring nothing that is owed there: the names *)
(* are locked, and where they are not, below a directory or after a broken  *)
(* call, the file is Endangered.                                            *)
(*                                                                          *)
(* That a MOVE or DELETE which is answered with success is done rests on    *)
(* what such a request may rely on at each of its steps: for a MOVE, that   *)
(* its files are not Endangered (MoveInv); for a DELETE, that what it found *)
(* is shown by the listing it is to read, then in todo, then in its call    *)
(* (GoneInv), and is not renamed meanwhile.                                 *)
(***************************************************************************)
EXTENDS WebdavTree, TLAPS

\* Versions are numbered, and a listing shows what is in its directory.
NumberInv == /\ \A f \in Files : store[f] =< puts
             /\ \A v \in owed : v =< puts
             /\ listing[Dir] = None \/ listing[Dir] \subseteq InDir

\* A request's place and what it is about.
JobOK(r) ==
  /\ pc[r] \in {"idle", "upload", "close"} <=> job[r].op = "put"
  /\ pc[r] \in {"upload", "close"} => job[r].dst \in Files
  /\ pc[r] \in {"rename", "renaming", "renamed", "failed", "moved"} => job[r].op = "move"
  /\ job[r].op = "move" => job[r].dst \in Files /\ job[r].src # job[r].dst
  /\ todo[r] \subseteq Below(job[r].dst)
  /\ job[r].op = "put" => todo[r] = {}

JobInv == \A r \in Requests : JobOK(r)

LockInv == \A r, q \in Requests : r # q => Locked(r) \cap Locked(q) = {}

\* A call belongs to the request that waits for it, or to nobody.
CallOK(c) ==
  /\ IF c.kind = "delete" THEN c.new = c.old ELSE c.new # c.old
  /\ c.by # Nobody /\ c.kind # "delete" =>
       pc[c.by] = "renaming" /\ c.old = job[c.by].src /\ c.new = job[c.by].dst
  /\ c.by # Nobody /\ c.kind = "delete" =>
       pc[c.by] = "deleting" /\ c.old \in Below(job[c.by].dst)

CallInv == /\ \A c \in calls : CallOK(c)
           /\ \A c, d \in calls : c.by = d.by /\ c.by # Nobody => c = d

\* The file that a rename replaces or that a deletion deletes is c.new.
CallTargets == \A c \in calls : c.kind # "copied" => store[c.new] \notin owed

\* What a request is to delete or replace.
Doomed(r) ==
  IF job[r].op = "delete" THEN Below(job[r].dst)
  ELSE IF job[r].op = "move" /\ (pc[r] \in {"list", "remove", "deleting", "rename"}
                                 \/ (pc[r] = "stat" /\ job[r].overwrite)) THEN {job[r].dst} ELSE {}

JobTargets == \A r \in Requests : \A f \in Doomed(r) : store[f] \notin owed

KeptInv == \A v \in owed : \E f \in Files :
             store[f] = v /\ ~\E c \in calls : c.kind = "copied" /\ c.old = f

\* Two files with one version: one of them is being renamed by a call that somebody waits for.
PairInv == \A f, g \in Files : f # g /\ store[f] = store[g] /\ store[f] # 0 =>
             store[f] \in halfMoved \/ \E c \in calls : c.kind = "copied" /\ c.by # Nobody /\ c.old \in {f, g}

TreeInv == /\ TypeOK /\ NumberInv /\ JobInv /\ LockInv /\ CallInv
           /\ CallTargets /\ JobTargets /\ KeptInv /\ PairInv

-------------------------------------------------------------------------------
\* The types of the parts.
LEMMA JobTypes ==
  ASSUME TypeOK, NEW r \in Requests
  PROVE  /\ job[r] \in Job /\ job[r].op \in {"put", "move", "delete"} /\ job[r].overwrite \in BOOLEAN
         /\ job[r].src \in Names /\ job[r].dst \in Names
         /\ Below(job[r].dst) \subseteq Files /\ todo[r] \subseteq Files
<1>1. job[r] \in Job /\ todo[r] \subseteq Files
  BY DEF TypeOK
<1>2. job[r].op \in {"put", "move", "delete"} /\ job[r].overwrite \in BOOLEAN
      /\ job[r].src \in Names /\ job[r].dst \in Names
  BY <1>1 DEF Job
<1> QED
  BY <1>1, <1>2, TreeAssumption DEF Below, Names

LEMMA CallTypes ==
  ASSUME TypeOK, NEW c \in calls
  PROVE  /\ c \in Call /\ c.kind \in {"rename", "copied", "delete"} /\ c.old \in Files /\ c.new \in Files
         /\ c.by \in Requests \cup {Nobody}
BY DEF TypeOK, Call

LEMMA DoubledHas ==
  ASSUME NEW stored, NEW f \in Files, NEW g \in Files, f # g, stored[f] = stored[g], stored[f] # 0
  PROVE  stored[f] \in Doubled(stored)
BY DEF Doubled

\* A file that a request has locked, and that another's call is about, is endangered.
LEMMA CallGuard ==
  ASSUME TreeInv, NEW r \in Requests, NEW f \in Files, f \in Locked(r),
         NEW d \in calls, d.by # r, f \in {d.old, d.new}
  PROVE  Endangered(f)
<1>1. TypeOK /\ JobInv /\ LockInv /\ CallOK(d)
  BY DEF TreeInv, CallInv
<1>2. CASE d.by = Nobody
  BY <1>2 DEF Endangered
<1>3. CASE d.by # Nobody
  <2>1. d.by \in Requests /\ d.kind \in {"rename", "copied", "delete"}
    BY <1>1, <1>3, CallTypes
  <2>2. f \notin Locked(d.by)
    BY <1>1, <2>1 DEF LockInv
  <2>3. CASE d.kind # "delete"
    <3>1. pc[d.by] = "renaming" /\ d.old = job[d.by].src /\ d.new = job[d.by].dst
      BY <1>1, <1>3, <2>3 DEF CallOK
    <3>2. job[d.by].op = "move"
      BY <1>1, <2>1, <3>1 DEF JobInv, JobOK
    <3> QED
      BY <2>2, <3>1, <3>2 DEF Locked
  <2>4. CASE d.kind = "delete"
    <3>1. pc[d.by] = "deleting" /\ f \in Below(job[d.by].dst)
      BY <1>1, <1>3, <2>4 DEF CallOK
    <3>2. job[d.by].op \in {"move", "delete"} /\ (job[d.by].op = "move" => job[d.by].dst \in Files)
      BY <1>1, <2>1, <3>1, JobTypes DEF JobInv, JobOK
    <3>3. job[d.by].dst \in Locked(d.by)
      BY <3>1 DEF Locked
    <3>4. job[d.by].dst = Dir /\ f \in InDir
      BY <2>2, <3>1, <3>3 DEF Below
    <3>5. job[d.by].op = "delete"
      BY <3>2, <3>4, TreeAssumption
    <3> QED
      BY <2>1, <3>1, <3>4, <3>5 DEF Endangered
  <2> QED
    BY <2>3, <2>4
<1> QED
  BY <1>2, <1>3

\* So is a file that another request is to delete or replace.
LEMMA JobGuard ==
  ASSUME TreeInv, NEW r \in Requests, NEW f \in Files, f \in Locked(r),
         NEW q \in Requests, q # r, f \in Doomed(q)
  PROVE  Endangered(f)
<1>1. TypeOK /\ JobOK(q) /\ f \notin Locked(q)
  BY DEF TreeInv, JobInv, LockInv
<1>2. pc[q] # "idle" /\ job[q].dst \in Locked(q)
  BY <1>1 DEF Doomed, JobOK, Locked
<1>3. job[q].op = "delete" /\ f \in Below(job[q].dst)
  BY <1>1, <1>2 DEF Doomed
<1>4. job[q].dst = Dir /\ f \in InDir
  BY <1>1, <1>2, <1>3 DEF Below
<1> QED
  BY <1>2, <1>3, <1>4 DEF Endangered

-------------------------------------------------------------------------------
\* A step of one request at the proxy: it changes no file, and asks the server for at most one
\* thing; what it dooms is not owed any more.
LEMMA LocalStep ==
  ASSUME TreeInv, NEW r \in Requests, pc[r] \notin {"deleting", "renaming"},
         TypeOK', listing'[Dir] = None \/ listing'[Dir] \subseteq InDir,
         UNCHANGED <<store, puts, halfMoved>>, owed' \subseteq owed,
         \A q \in Requests : q # r => pc'[q] = pc[q] /\ job'[q] = job[q] /\ todo'[q] = todo[q],
         JobOK(r)',
         \A n \in Locked(r)' : n \in Locked(r) \/ Free(n),
         \A f \in Doomed(r)' : store[f] \notin owed',
         NEW new, calls' = calls \cup new, \A c, d \in new : c = d,
         \A c \in new : c.by = r /\ c.kind # "copied" /\ CallOK(c)' /\ store[c.new] \notin owed'
  PROVE  TreeInv'
<1>1. TypeOK /\ NumberInv /\ JobInv /\ LockInv /\ CallInv /\ CallTargets /\ JobTargets /\ KeptInv /\ PairInv
  BY DEF TreeInv
<1>2. NumberInv'
  BY <1>1 DEF NumberInv
<1>3. JobInv'
  BY <1>1 DEF JobInv, JobOK
<1>4. LockInv'
  <2>1. \A q \in Requests : q # r => Locked(q)' = Locked(q)
    BY DEF Locked
  <2>2. \A q \in Requests : q # r => Locked(r)' \cap Locked(q) = {}
    BY <1>1 DEF LockInv, Free
  <2> QED
    BY <1>1, <2>1, <2>2 DEF LockInv
<1>5. \A c \in calls : c.by # r
  <2> SUFFICES ASSUME NEW c \in calls, c.by = r PROVE FALSE
    OBVIOUS
  <2>1. CallOK(c) /\ r # Nobody
    BY <1>1, TreeAssumption DEF CallInv
  <2> QED
    BY <2>1 DEF CallOK
<1>6. CallInv'
  <2>1. ASSUME NEW c \in calls PROVE CallOK(c)'
    <3>1. CallOK(c) /\ c.by # r /\ c.by \in Requests \cup {Nobody}
      BY <1>1, <1>5, CallTypes DEF CallInv
    <3>2. c.by # Nobody => pc'[c.by] = pc[c.by] /\ job'[c.by] = job[c.by]
      BY <3>1
    <3> QED
      BY <3>1, <3>2 DEF CallOK
  <2>2. \A c, d \in calls' : c.by = d.by /\ c.by # Nobody => c = d
    BY <1>1, <1>5 DEF CallInv
  <2> QED
    BY <2>1, <2>2 DEF CallInv
<1>7. CallTargets'
  BY <1>1 DEF CallTargets
<1>8. JobTargets'
  <2>1. \A q \in Requests : q # r => Doomed(q)' = Doomed(q)
    BY DEF Doomed
  <2> QED
    BY <1>1, <2>1 DEF JobTargets
<1>9. KeptInv'
  <2> SUFFICES ASSUME NEW v \in owed'
               PROVE  \E f \in Files : store'[f] = v /\ ~\E c \in calls' : c.kind = "copied" /\ c.old = f
    BY DEF KeptInv
  <2>1. PICK f \in Files : store[f] = v /\ ~\E c \in calls : c.kind = "copied" /\ c.old = f
    BY <1>1 DEF KeptInv
  <2> QED
    BY <2>1
<1>10. PairInv'
  BY <1>1 DEF PairInv
<1> QED
  BY <1>2, <1>3, <1>4, <1>6, <1>7, <1>8, <1>9, <1>10 DEF TreeInv

\* The invariant does not depend on the listings, nor on what requests found when they began.
LEMMA SameKeeps ==
  ASSUME TreeInv, TypeOK', NumberInv', UNCHANGED <<store, calls, pc, job, todo, owed, halfMoved>>
  PROVE  TreeInv'
<1> USE DEF TreeInv
<1>1. JobInv'
  BY DEF JobInv, JobOK
<1>2. LockInv'
  BY DEF LockInv, Locked
<1>3. CallInv'
  BY DEF CallInv, CallOK
<1>4. CallTargets' /\ KeptInv'
  BY DEF CallTargets, KeptInv
<1>5. JobTargets'
  BY DEF JobTargets, Doomed
<1>6. PairInv'
  BY DEF PairInv
<1> QED
  BY <1>1, <1>2, <1>3, <1>4, <1>5, <1>6

\* A step of the listings.
LEMMA ListingKeeps ==
  ASSUME TreeInv, ListingStep
  PROVE  TreeInv'
<1>1. TypeOK /\ NumberInv
  BY DEF TreeInv
<1>2. UNCHANGED <<store, puts, calls, pc, job, todo, owed, began, disturbed, halfMoved>>
  BY DEF ListingStep, Browse, CleanupCache, data, request, history
<1>3. \A d \in {Root, Dir} : Entries(d) \subseteq Names /\ (d = Dir => Entries(d) \subseteq InDir)
  BY TreeAssumption DEF Entries, Parent
<1>4. PICK d \in {Root, Dir}, shown \in (SUBSET Names) \cup {None} :
        listing' = [listing EXCEPT ![d] = shown] /\ (d = Dir => shown \subseteq InDir \/ shown = None)
  BY <1>3 DEF ListingStep, Browse, CleanupCache
<1>5. TypeOK'
  BY <1>1, <1>2, <1>4 DEF TypeOK
<1>6. listing'[Dir] = None \/ listing'[Dir] \subseteq InDir
  BY <1>1, <1>4 DEF NumberInv, TypeOK
<1>7. NumberInv'
  BY <1>1, <1>2, <1>6 DEF NumberInv
<1> QED
  BY <1>2, <1>5, <1>7, SameKeeps

\* A step of one request that asks the server for nothing.
LEMMA QuietStep ==
  ASSUME TreeInv, NEW r \in Requests, pc[r] \notin {"deleting", "renaming"},
         TypeOK', listing'[Dir] = None \/ listing'[Dir] \subseteq InDir,
         UNCHANGED <<store, puts, calls, halfMoved>>, owed' \subseteq owed,
         \A q \in Requests : q # r => pc'[q] = pc[q] /\ job'[q] = job[q] /\ todo'[q] = todo[q],
         JobOK(r)',
         \A n \in Locked(r)' : n \in Locked(r) \/ Free(n),
         \A f \in Doomed(r)' : store[f] \notin owed'
  PROVE  TreeInv'
<1> DEFINE new == {}
<1>1. calls' = calls \cup new /\ (\A c, d \in new : c = d)
      /\ (\A c \in new : c.by = r /\ c.kind # "copied" /\ CallOK(c)' /\ store[c.new] \notin owed')
  OBVIOUS
<1> HIDE DEF new
<1> QED
  BY <1>1, LocalStep

\* The caches forget files, or stay as they are.
LEMMA Forgets ==
  ASSUME TreeInv, NEW F, ForgetCache(F) \/ UNCHANGED listing
  PROVE  /\ listing' \in [{Root, Dir} -> (SUBSET Names) \cup {None}]
         /\ listing'[Dir] = None \/ listing'[Dir] \subseteq InDir
<1>1. TypeOK /\ NumberInv
  BY DEF TreeInv
<1>2. CASE ForgetCache(F)
  BY <1>1, <1>2 DEF ForgetCache, TypeOK, NumberInv
<1>3. CASE UNCHANGED listing
  BY <1>1, <1>3 DEF TypeOK, NumberInv
<1> QED
  BY <1>2, <1>3

\* The answer to a request: its names are free.
LEMMA AnswerKeeps ==
  ASSUME TreeInv, NEW r \in Requests, pc[r] \notin {"deleting", "renaming"}, Answer(r),
         UNCHANGED <<store, puts, calls, owed, halfMoved>>,
         NEW F, ForgetCache(F) \/ UNCHANGED listing
  PROVE  TreeInv'
<1>1. TypeOK
  BY DEF TreeInv
<1>2. NoJob \in Job
  BY DEF NoJob, Job, Names
<1>3. /\ pc' = [pc EXCEPT ![r] = "idle"] /\ job' = [job EXCEPT ![r] = NoJob]
      /\ todo' = [todo EXCEPT ![r] = {}] /\ began' = [began EXCEPT ![r] = {}]
      /\ disturbed' = disturbed \ {r}
  BY DEF Answer, Goto
<1>4. pc'[r] = "idle" /\ job'[r] = NoJob /\ todo'[r] = {}
      /\ \A q \in Requests : q # r => pc'[q] = pc[q] /\ job'[q] = job[q] /\ todo'[q] = todo[q]
  BY <1>1, <1>3 DEF TypeOK
<1>5. TypeOK'
  BY <1>1, <1>2, <1>3, Forgets DEF TypeOK
<1>6. JobOK(r)' /\ Locked(r)' = {} /\ Doomed(r)' = {}
  BY <1>4 DEF JobOK, Locked, Doomed, NoJob
<1> QED
  BY <1>4, <1>5, <1>6, Forgets, QuietStep

\* The steps that end a request.
LEMMA EndSteps ==
  ASSUME TreeInv, NEW r \in Requests, Refused(r) \/ PutCloses(r) \/ Done(r)
  PROVE  TreeInv'
<1>1. CASE Refused(r)
  <2>1. ForgetCache({}) \/ UNCHANGED listing
    BY <1>1 DEF Refused
  <2> QED
    BY <1>1, <2>1, AnswerKeeps DEF Refused, data
<1>2. CASE PutCloses(r)
  BY <1>2, AnswerKeeps DEF PutCloses, data
<1>3. CASE Done(r)
  <2>1. ForgetCache({}) \/ UNCHANGED listing
    BY <1>3 DEF Done
  <2> QED
    BY <1>3, <2>1, AnswerKeeps DEF Done, data
<1> QED
  BY <1>1, <1>2, <1>3

\* A PUT begins, or its body does not arrive.
LEMMA PutSteps ==
  ASSUME TreeInv, NEW r \in Requests, (\E f \in Files : PutBegins(r, f)) \/ PutFails(r)
  PROVE  TreeInv'
<1>1. TypeOK /\ NumberInv /\ JobOK(r)
  BY DEF TreeInv, JobInv
<1>2. ASSUME NEW f \in Files, PutBegins(r, f) PROVE TreeInv'
  <2>1. [NoJob EXCEPT !.dst = f] \in Job /\ [NoJob EXCEPT !.dst = f].op = "put" /\ [NoJob EXCEPT !.dst = f].dst = f
    BY DEF NoJob, Job, Names
  <2>2. /\ pc[r] = "idle" /\ Free(f) /\ pc' = [pc EXCEPT ![r] = "upload"]
        /\ job' = [job EXCEPT ![r] = [NoJob EXCEPT !.dst = f]]
        /\ UNCHANGED <<store, puts, listing, calls, todo, owed, began, disturbed, halfMoved>>
    BY <1>2 DEF PutBegins, Goto, data, history
  <2>3. pc'[r] = "upload" /\ job'[r].op = "put" /\ job'[r].dst = f /\ todo'[r] = {}
        /\ \A q \in Requests : q # r => pc'[q] = pc[q] /\ job'[q] = job[q] /\ todo'[q] = todo[q]
    BY <1>1, <2>1, <2>2 DEF TypeOK, JobOK
  <2>4. TypeOK'
    BY <1>1, <2>1, <2>2 DEF TypeOK
  <2>5. JobOK(r)' /\ Locked(r)' = {f} /\ Doomed(r)' = {}
    BY <2>3 DEF JobOK, Locked, Doomed
  <2> QED
    BY <1>1, <2>2, <2>3, <2>4, <2>5, QuietStep DEF NumberInv
<1>3. CASE PutFails(r)
  <2>1. /\ pc[r] = "upload" /\ pc' = [pc EXCEPT ![r] = "close"]
        /\ UNCHANGED <<store, puts, listing, calls, job, todo, owed, began, disturbed, halfMoved>>
    BY <1>3 DEF PutFails, Goto, data, request, history
  <2>2. pc'[r] = "close" /\ \A q \in Requests : q # r => pc'[q] = pc[q]
    BY <1>1, <2>1 DEF TypeOK
  <2>3. TypeOK'
    BY <1>1, <2>1 DEF TypeOK
  <2>4. JobOK(r)' /\ Locked(r)' = Locked(r) /\ Doomed(r)' = {}
    BY <1>1, <2>1, <2>2 DEF JobOK, Locked, Doomed
  <2> QED
    BY <1>1, <2>1, <2>2, <2>3, <2>4, QuietStep DEF NumberInv
<1> QED
  BY <1>2, <1>3

\* The versions of files are numbers, and those that are there are what Stored says.
LEMMA StoredTypes ==
  ASSUME TypeOK, NEW F, F \subseteq Files
  PROVE  Stored(F) \subseteq Version /\ \A f \in F : store[f] \notin owed \ Stored(F)
BY DEF TypeOK, Stored

\* A DELETE begins.
LEMMA DeleteBeginsStep ==
  ASSUME TreeInv, NEW r \in Requests, NEW n \in Names, DeleteBegins(r, n)
  PROVE  TreeInv'
<1>1. TypeOK /\ NumberInv /\ JobOK(r)
  BY DEF TreeInv, JobInv
<1> DEFINE j == [NoJob EXCEPT !.op = "delete", !.dst = n]
<1>2. j \in Job /\ j.op = "delete" /\ j.dst = n
  BY DEF NoJob, Job, Names
<1> HIDE DEF j
<1>3. /\ pc[r] = "idle" /\ Free(n) /\ pc' = [pc EXCEPT ![r] = "stat"] /\ job' = [job EXCEPT ![r] = j]
      /\ owed' = owed \ Stored(Below(n)) /\ UNCHANGED <<store, puts, listing, calls, todo, halfMoved>>
  BY DEF DeleteBegins, Goto, data, j
<1>4. pc'[r] = "stat" /\ job'[r] = j /\ todo'[r] = {}
      /\ \A q \in Requests : q # r => pc'[q] = pc[q] /\ job'[q] = job[q] /\ todo'[q] = todo[q]
  BY <1>1, <1>2, <1>3 DEF TypeOK, JobOK
<1>5. Below(n) \subseteq Files
  BY TreeAssumption DEF Below, Names
<1>6. began' \in [Requests -> SUBSET Version] /\ disturbed' \subseteq Requests
  <2>1. (owed \cap Stored(Below(n))) \ Stored({f \in Files : Taken(f)}) \subseteq Version
    BY <1>5, <1>1, StoredTypes
  <2>2. began' \in [Requests -> SUBSET Version]
    BY <1>1, <2>1 DEF DeleteBegins, TypeOK
  <2>3. disturbed' \subseteq Requests
    BY <1>1 DEF DeleteBegins, TypeOK
  <2> QED
    BY <2>2, <2>3
<1>7. TypeOK'
  BY <1>1, <1>2, <1>3, <1>6 DEF TypeOK
<1>8. JobOK(r)' /\ Locked(r)' = {n} /\ Doomed(r)' = Below(n)
  BY <1>2, <1>4 DEF JobOK, Locked, Doomed
<1>9. \A f \in Doomed(r)' : store[f] \notin owed'
  BY <1>1, <1>3, <1>5, <1>8, StoredTypes
<1> QED
  BY <1>1, <1>3, <1>4, <1>7, <1>8, <1>9, QuietStep DEF NumberInv

\* A MOVE begins.
LEMMA MoveBeginsStep ==
  ASSUME TreeInv, NEW r \in Requests, NEW src \in Names, NEW dst \in Files, NEW overwrite \in BOOLEAN,
         MoveBegins(r, src, dst, overwrite)
  PROVE  TreeInv'
<1>1. TypeOK /\ NumberInv /\ JobOK(r)
  BY DEF TreeInv, JobInv
<1> DEFINE j == [op |-> "move", src |-> src, dst |-> dst, overwrite |-> overwrite]
<1>2. j \in Job /\ j.op = "move" /\ j.src = src /\ j.dst = dst /\ j.overwrite = overwrite
  BY DEF Job, Names
<1> HIDE DEF j
<1>3. /\ pc[r] = "idle" /\ src # dst /\ Free(src) /\ Free(dst)
      /\ pc' = [pc EXCEPT ![r] = "stat"] /\ job' = [job EXCEPT ![r] = j]
      /\ owed' = (IF overwrite THEN owed \ Stored({dst}) ELSE owed)
      /\ UNCHANGED <<store, puts, listing, calls, todo, halfMoved>>
  BY DEF MoveBegins, Goto, data, j
<1>4. pc'[r] = "stat" /\ job'[r] = j /\ todo'[r] = {}
      /\ \A q \in Requests : q # r => pc'[q] = pc[q] /\ job'[q] = job[q] /\ todo'[q] = todo[q]
  BY <1>1, <1>2, <1>3 DEF TypeOK, JobOK
<1>5. Below(src) \subseteq Files
  BY TreeAssumption DEF Below, Names
<1>6. began' \in [Requests -> SUBSET Version] /\ disturbed' \subseteq Requests
  <2>1. Stored(Below(src)) \subseteq Version
    BY <1>5, <1>1, StoredTypes
  <2>2. began' \in [Requests -> SUBSET Version]
    BY <1>1, <2>1 DEF MoveBegins, TypeOK
  <2>3. disturbed' \subseteq Requests
    BY <1>1 DEF MoveBegins, TypeOK
  <2> QED
    BY <2>2, <2>3
<1>7. TypeOK'
  BY <1>1, <1>2, <1>3, <1>6 DEF TypeOK
<1>8. JobOK(r)' /\ Locked(r)' = {src, dst} /\ Doomed(r)' = (IF overwrite THEN {dst} ELSE {})
  BY <1>2, <1>3, <1>4 DEF JobOK, Locked, Doomed
<1>9. \A f \in Doomed(r)' : store[f] \notin owed'
  BY <1>1, <1>3, <1>8, StoredTypes
<1> QED
  BY <1>1, <1>3, <1>4, <1>7, <1>8, <1>9, QuietStep DEF NumberInv

\* The look at the target: what a MOVE is going to replace is not owed.
LEMMA StatTargetStep ==
  ASSUME TreeInv, NEW r \in Requests, StatTarget(r)
  PROVE  TreeInv'
<1>1. TypeOK /\ NumberInv /\ JobOK(r) /\ JobTargets
  BY DEF TreeInv, JobInv
<1> DEFINE j == [job[r] EXCEPT !.overwrite = FALSE]
<1>2. j \in Job /\ j.op = job[r].op /\ j.src = job[r].src /\ j.dst = job[r].dst
  BY <1>1 DEF TypeOK, Job
<1> HIDE DEF j
<1>3. /\ pc[r] = "stat" /\ job' = [job EXCEPT ![r] = j]
      /\ UNCHANGED <<store, puts, listing, calls, todo, began, disturbed, halfMoved>>
  <2>1. job' = [job EXCEPT ![r].overwrite = FALSE]
    BY DEF StatTarget
  <2>2. job' = [job EXCEPT ![r] = j]
    BY <2>1 DEF j
  <2> QED
    BY <2>2 DEF StatTarget, data
<1>4. job'[r] = j /\ \A q \in Requests : q # r => job'[q] = job[q]
  BY <1>1, <1>3 DEF TypeOK
<1>5. job[r].op \in {"move", "delete"} /\ job[r].dst \in Names /\ Below(job[r].dst) \subseteq Files
  BY <1>1, <1>3, JobTypes DEF JobOK
<1>6. CASE /\ pc' = [pc EXCEPT ![r] = "list"] /\ owed' = owed
           /\ job[r].op = "move" => job[r].overwrite
  <2>1. pc'[r] = "list" /\ \A q \in Requests : q # r => pc'[q] = pc[q]
    BY <1>1, <1>6 DEF TypeOK
  <2>2. TypeOK'
    BY <1>1, <1>2, <1>3, <1>6 DEF TypeOK
  <2>3. JobOK(r)'
    BY <1>1, <1>2, <1>3, <1>4, <1>5, <2>1 DEF JobOK
  <2>4. Locked(r)' = Locked(r) /\ Doomed(r)' = Doomed(r)
    BY <1>2, <1>3, <1>4, <1>5, <1>6, <2>1 DEF Locked, Doomed
  <2>5. \A f \in Doomed(r)' : store[f] \notin owed'
    BY <1>1, <1>6, <2>4 DEF JobTargets
  <2> QED
    BY <1>1, <1>3, <1>4, <1>6, <2>1, <2>2, <2>3, <2>4, <2>5, QuietStep DEF NumberInv
<1>7. CASE /\ pc' = [pc EXCEPT ![r] = "rename"] /\ owed' = owed \ Stored({job[r].dst})
           /\ job[r].op = "move"
  <2>1. pc'[r] = "rename" /\ \A q \in Requests : q # r => pc'[q] = pc[q]
    BY <1>1, <1>7 DEF TypeOK
  <2>2. TypeOK'
    BY <1>1, <1>2, <1>3, <1>7 DEF TypeOK
  <2>3. JobOK(r)' /\ job[r].dst \in Files
    BY <1>1, <1>2, <1>3, <1>4, <1>7, <2>1 DEF JobOK
  <2>4. Locked(r)' = Locked(r) /\ Doomed(r)' = {job[r].dst}
    BY <1>2, <1>3, <1>4, <1>7, <2>1 DEF Locked, Doomed
  <2>5. \A f \in Doomed(r)' : store[f] \notin owed'
    BY <1>1, <1>7, <2>3, <2>4, StoredTypes
  <2> QED
    BY <1>1, <1>3, <1>4, <1>7, <2>1, <2>2, <2>3, <2>4, <2>5, QuietStep DEF NumberInv
<1> QED
  BY <1>6, <1>7 DEF StatTarget, Goto

\* What RemoveAll is going to delete, and its end.
LEMMA RemoveAllSteps ==
  ASSUME TreeInv, NEW r \in Requests, ListRecursive(r) \/ RemoveAllEnds(r)
  PROVE  TreeInv'
<1>1. TypeOK /\ NumberInv /\ JobOK(r) /\ JobTargets
  BY DEF TreeInv, JobInv
<1>2. CASE ListRecursive(r)
  <2> DEFINE t == IF job[r].dst = Dir THEN listing[Dir] ELSE {job[r].dst}
  <2>1. job[r].op \in {"move", "delete"} /\ job[r].dst \in Names /\ Below(job[r].dst) \subseteq Files
    BY <1>1, <1>2, JobTypes DEF ListRecursive, JobOK
  <2>2. t \subseteq Below(job[r].dst)
    BY <1>1, <1>2 DEF ListRecursive, NumberInv, Below
  <2> HIDE DEF t
  <2>3. /\ pc[r] = "list" /\ pc' = [pc EXCEPT ![r] = "remove"] /\ todo' = [todo EXCEPT ![r] = t]
        /\ UNCHANGED <<store, puts, listing, calls, job, owed, began, disturbed, halfMoved>>
    BY <1>2 DEF ListRecursive, Goto, data, history, t
  <2>4. pc'[r] = "remove" /\ todo'[r] = t /\ \A q \in Requests : q # r => pc'[q] = pc[q] /\ todo'[q] = todo[q]
    BY <1>1, <2>3 DEF TypeOK
  <2>5. TypeOK'
    BY <1>1, <2>1, <2>2, <2>3 DEF TypeOK
  <2>6. JobOK(r)' /\ Locked(r)' = Locked(r) /\ Doomed(r)' = Doomed(r)
    BY <1>1, <2>1, <2>2, <2>3, <2>4 DEF JobOK, Locked, Doomed
  <2>7. \A f \in Doomed(r)' : store[f] \notin owed'
    BY <1>1, <2>3, <2>6 DEF JobTargets
  <2> QED
    BY <1>1, <2>3, <2>4, <2>5, <2>6, <2>7, QuietStep DEF NumberInv
<1>3. CASE RemoveAllEnds(r)
  <2>1. PICK step \in {"rename", "deleted"} :
          /\ pc' = [pc EXCEPT ![r] = step] /\ (step = "rename" <=> job[r].op = "move")
          /\ pc[r] = "remove"
          /\ UNCHANGED <<store, puts, listing, calls, job, todo, owed, began, disturbed, halfMoved>>
    BY <1>3 DEF RemoveAllEnds, Goto, data, request, history
  <2>2. pc'[r] = step /\ \A q \in Requests : q # r => pc'[q] = pc[q]
    BY <1>1, <2>1 DEF TypeOK
  <2>3. TypeOK'
    BY <1>1, <2>1 DEF TypeOK
  <2>4. JobOK(r)' /\ Locked(r)' = Locked(r) /\ Doomed(r)' \subseteq Doomed(r)
    BY <1>1, <2>1, <2>2 DEF JobOK, Locked, Doomed
  <2>5. \A f \in Doomed(r)' : store[f] \notin owed'
    BY <1>1, <2>1, <2>4 DEF JobTargets
  <2> QED
    BY <1>1, <2>1, <2>2, <2>3, <2>4, <2>5, QuietStep DEF NumberInv
<1> QED
  BY <1>2, <1>3

\* The server's answer to a rename.
LEMMA RenameAnsweredStep ==
  ASSUME TreeInv, NEW r \in Requests, RenameAnswered(r)
  PROVE  TreeInv'
<1>1. TypeOK /\ NumberInv /\ JobOK(r)
  BY DEF TreeInv, JobInv
<1>2. PICK step \in {"moved", "error"} :
        /\ pc' = [pc EXCEPT ![r] = step] /\ pc[r] \in {"renamed", "failed"}
        /\ UNCHANGED <<store, puts, calls, job, todo, owed, began, disturbed, halfMoved>>
  BY DEF RenameAnswered, Goto, data, request, history
<1>3. pc'[r] = step /\ \A q \in Requests : q # r => pc'[q] = pc[q]
  BY <1>1, <1>2 DEF TypeOK
<1>4. /\ listing' \in [{Root, Dir} -> (SUBSET Names) \cup {None}]
      /\ listing'[Dir] = None \/ listing'[Dir] \subseteq InDir
  BY Forgets DEF RenameAnswered
<1>5. TypeOK'
  BY <1>1, <1>2, <1>4 DEF TypeOK
<1>6. JobOK(r)' /\ Locked(r)' = Locked(r) /\ Doomed(r)' = {}
  BY <1>1, <1>2, <1>3 DEF JobOK, Locked, Doomed
<1> QED
  BY <1>2, <1>3, <1>4, <1>5, <1>6, QuietStep

\* A step of one request that asks the server for one thing.
LEMMA AskStep ==
  ASSUME TreeInv, NEW r \in Requests, pc[r] \notin {"deleting", "renaming"},
         TypeOK', listing'[Dir] = None \/ listing'[Dir] \subseteq InDir,
         UNCHANGED <<store, puts, halfMoved>>, owed' \subseteq owed,
         \A q \in Requests : q # r => pc'[q] = pc[q] /\ job'[q] = job[q] /\ todo'[q] = todo[q],
         JobOK(r)',
         \A n \in Locked(r)' : n \in Locked(r) \/ Free(n),
         \A f \in Doomed(r)' : store[f] \notin owed',
         NEW c, calls' = calls \cup {c},
         c.by = r, c.kind # "copied", CallOK(c)', store[c.new] \notin owed'
  PROVE  TreeInv'
<1> DEFINE new == {c}
<1>1. calls' = calls \cup new /\ (\A d, e \in new : d = e)
      /\ (\A d \in new : d.by = r /\ d.kind # "copied" /\ CallOK(d)' /\ store[d.new] \notin owed')
  OBVIOUS
<1> HIDE DEF new
<1> QED
  BY <1>1, LocalStep

\* The server is asked to remove a file, or to rename one.
LEMMA AskSteps ==
  ASSUME TreeInv, NEW r \in Requests, Rename(r) \/ \E f \in todo[r] : Delete(r, f)
  PROVE  TreeInv'
<1>1. TypeOK /\ NumberInv /\ JobOK(r) /\ JobTargets
  BY DEF TreeInv, JobInv
<1>2. ASSUME NEW f \in todo[r], Delete(r, f) PROVE TreeInv'
  <2>1. f \in Files /\ f \in Below(job[r].dst) /\ todo[r] \subseteq Files
    BY <1>1 DEF TypeOK, JobOK
  <2>2. PICK c : c = [kind |-> "delete", old |-> f, new |-> f, by |-> r]
    OBVIOUS
  <2>3. c \in Call /\ c.kind = "delete" /\ c.old = f /\ c.new = f /\ c.by = r /\ calls' = calls \cup {c}
    BY <1>2, <2>1, <2>2 DEF Call, Delete
  <2>4. /\ pc[r] = "remove" /\ pc' = [pc EXCEPT ![r] = "deleting"] /\ todo' = [todo EXCEPT ![r] = @ \ {f}]
        /\ UNCHANGED <<store, puts, job, owed, began, disturbed, halfMoved>>
    BY <1>2 DEF Delete, Goto, data, history
  <2>5. pc'[r] = "deleting" /\ todo'[r] = todo[r] \ {f}
        /\ \A q \in Requests : q # r => pc'[q] = pc[q] /\ todo'[q] = todo[q]
    BY <1>1, <2>4 DEF TypeOK
  <2>6. /\ listing' \in [{Root, Dir} -> (SUBSET Names) \cup {None}]
        /\ listing'[Dir] = None \/ listing'[Dir] \subseteq InDir
    BY <1>2, Forgets DEF Delete
  <2>7. TypeOK'
    BY <1>1, <2>1, <2>3, <2>4, <2>6 DEF TypeOK
  <2>8. JobOK(r)' /\ Locked(r)' = Locked(r) /\ Doomed(r)' = Doomed(r)
    BY <1>1, <2>4, <2>5 DEF JobOK, Locked, Doomed
  <2>9. f \in Doomed(r)
    <3>1. job[r].op \in {"move", "delete"} /\ (job[r].op = "move" => job[r].dst \in Files)
      BY <1>1, <2>4, JobTypes DEF JobOK
    <3> QED
      BY <2>1, <2>4, <3>1, TreeAssumption DEF Doomed, Below
  <2>10. \A g \in Doomed(r)' : store[g] \notin owed'
    BY <1>1, <2>4, <2>8 DEF JobTargets
  <2>11. CallOK(c)' /\ store[c.new] \notin owed'
    BY <2>1, <2>3, <2>4, <2>5, <2>8, <2>9, <2>10 DEF CallOK
  <2> QED
    BY <2>3, <2>4, <2>5, <2>6, <2>7, <2>8, <2>10, <2>11, AskStep
<1>3. CASE Rename(r)
  <2>1. job[r].op = "move" /\ job[r].src \in Files /\ job[r].dst \in Files /\ job[r].src # job[r].dst
    BY <1>1, <1>3 DEF Rename, JobOK
  <2>2. PICK c : c = [kind |-> "rename", old |-> job[r].src, new |-> job[r].dst, by |-> r]
    OBVIOUS
  <2>3. /\ c \in Call /\ c.kind = "rename" /\ c.old = job[r].src /\ c.new = job[r].dst /\ c.by = r
        /\ calls' = calls \cup {c}
    BY <1>3, <2>1, <2>2 DEF Call, Rename
  <2>4. /\ pc[r] = "rename" /\ pc' = [pc EXCEPT ![r] = "renaming"]
        /\ UNCHANGED <<store, puts, listing, job, todo, owed, began, disturbed, halfMoved>>
    BY <1>3 DEF Rename, Goto, data, request, history
  <2>5. pc'[r] = "renaming" /\ \A q \in Requests : q # r => pc'[q] = pc[q]
    BY <1>1, <2>4 DEF TypeOK
  <2>6. TypeOK'
    BY <1>1, <2>3, <2>4 DEF TypeOK
  <2>7. JobOK(r)' /\ Locked(r)' = Locked(r) /\ Doomed(r)' = {}
    BY <1>1, <2>1, <2>4, <2>5 DEF JobOK, Locked, Doomed
  <2>8. job[r].dst \in Doomed(r)
    BY <2>1, <2>4 DEF Doomed
  <2>9. CallOK(c)' /\ store[c.new] \notin owed'
    BY <1>1, <2>1, <2>3, <2>4, <2>5, <2>8 DEF CallOK, JobTargets
  <2> QED
    BY <1>1, <2>3, <2>4, <2>5, <2>6, <2>7, <2>9, AskStep DEF NumberInv
<1> QED
  BY <1>2, <1>3

\* The body of a PUT is stored: the file is the request's alone, or endangered.
LEMMA PutStoresStep ==
  ASSUME TreeInv, NEW r \in Requests, PutStores(r)
  PROVE  TreeInv'
<1>1. TypeOK /\ NumberInv /\ JobInv /\ LockInv /\ CallInv /\ CallTargets /\ JobTargets /\ KeptInv /\ PairInv
  BY DEF TreeInv
<1> DEFINE f == job[r].dst
           n == puts + 1
<1>2. /\ pc[r] = "upload" /\ puts < MaxVersion /\ puts' = n /\ store' = [store EXCEPT ![f] = n]
      /\ owed' = OwedAfter({store[f]}, n, f) /\ halfMoved' = halfMoved \cap Doubled(store')
      /\ pc' = [pc EXCEPT ![r] = "close"]
      /\ UNCHANGED <<listing, calls, job, todo, began, disturbed>>
  BY DEF PutStores, Goto, request
<1>3. job[r].op = "put" /\ f \in Files /\ f \in Locked(r) /\ pc'[r] = "close"
      /\ \A q \in Requests : q # r => pc'[q] = pc[q]
  BY <1>1, <1>2 DEF JobInv, JobOK, Locked, TypeOK
<1> HIDE DEF f
<1>4. /\ puts \in Nat /\ n \in Version /\ n # 0 /\ puts' = n /\ \A g \in Files : store[g] # n
      /\ n \notin owed /\ \A v \in owed' : v =< n
  BY <1>1, <1>2, TreeAssumption DEF TypeOK, NumberInv, Version, OwedAfter
<1>5. /\ store'[f] = n /\ \A g \in Files : g # f => store'[g] = store[g]
      /\ \A v \in owed' : v # n => v \in owed /\ v # store[f]
      /\ Endangered(f) => n \notin owed'
  BY <1>1, <1>2, <1>3, <1>4 DEF TypeOK, OwedAfter
<1> HIDE DEF n
<1>6. TypeOK'
  <2>1. store' \in [Files -> Version] /\ puts' \in Version /\ pc' \in [Requests ->
          {"idle", "upload", "close", "stat", "list", "remove", "deleting",
           "deleted", "rename", "renaming", "renamed", "failed", "moved", "error"}]
    BY <1>1, <1>2, <1>4 DEF TypeOK
  <2>2. owed' \subseteq Version \ {0} /\ halfMoved' \subseteq Version
    BY <1>1, <1>2, <1>4 DEF TypeOK, OwedAfter
  <2> QED
    BY <1>1, <1>2, <2>1, <2>2 DEF TypeOK
<1>7. NumberInv'
  <2>1. ASSUME NEW g \in Files PROVE store'[g] =< puts'
    <3>1. store[g] =< puts /\ store[g] \in Nat /\ n = puts + 1
      BY <1>1 DEF NumberInv, TypeOK, Version, n
    <3> QED
      BY <1>4, <1>5, <3>1
  <2> QED
    BY <1>1, <1>2, <1>4, <2>1 DEF NumberInv
<1>8. \A d \in calls : d.by # r
  <2> SUFFICES ASSUME NEW d \in calls, d.by = r PROVE FALSE
    OBVIOUS
  <2>1. CallOK(d) /\ r # Nobody
    BY <1>1, TreeAssumption DEF CallInv
  <2> QED
    BY <1>2, <2>1 DEF CallOK
<1>9. \A d \in calls : f \in {d.old, d.new} => n \notin owed'
  BY <1>3, <1>5, <1>8, CallGuard
<1>10. JobInv'
  BY <1>1, <1>2, <1>3 DEF JobInv, JobOK
<1>11. \A q \in Requests : Locked(q)' = Locked(q) /\ Doomed(q)' \subseteq Doomed(q) /\ (q = r => Doomed(q)' = {})
  BY <1>2, <1>3 DEF Locked, Doomed
<1>12. LockInv'
  BY <1>1, <1>11 DEF LockInv
<1>13. CallInv'
  <2>1. ASSUME NEW d \in calls PROVE CallOK(d)'
    <3>1. CallOK(d) /\ d.by # r /\ d.by \in Requests \cup {Nobody}
      BY <1>1, <1>8, CallTypes DEF CallInv
    <3>2. d.by # Nobody => pc'[d.by] = pc[d.by]
      BY <1>3, <3>1
    <3> QED
      BY <1>2, <3>1, <3>2 DEF CallOK
  <2> QED
    BY <1>1, <1>2, <2>1 DEF CallInv
<1>14. CallTargets'
  <2> SUFFICES ASSUME NEW d \in calls, d.kind # "copied" PROVE store'[d.new] \notin owed'
    BY <1>2 DEF CallTargets
  <2>1. d.new \in Files /\ store[d.new] \notin owed
    BY <1>1, CallTypes DEF CallTargets
  <2> QED
    BY <1>4, <1>5, <1>9, <2>1
<1>15. JobTargets'
  <2> SUFFICES ASSUME NEW q \in Requests, NEW g \in Doomed(q), q # r PROVE store'[g] \notin owed'
    BY <1>11 DEF JobTargets
  <2>1. g \in Files /\ store[g] \notin owed
    BY <1>1, JobTypes DEF JobTargets, Doomed, JobInv, JobOK
  <2>2. g = f => n \notin owed'
    BY <1>3, <1>5, JobGuard
  <2> QED
    BY <1>4, <1>5, <2>1, <2>2
<1>16. KeptInv'
  <2> SUFFICES ASSUME NEW v \in owed'
               PROVE  \E g \in Files : store'[g] = v /\ ~\E d \in calls : d.kind = "copied" /\ d.old = g
    BY <1>2 DEF KeptInv
  <2>1. CASE v = n
    BY <1>3, <1>5, <1>9, <2>1
  <2>2. CASE v # n
    <3>1. PICK g \in Files : store[g] = v /\ ~\E d \in calls : d.kind = "copied" /\ d.old = g
      BY <1>1, <1>5, <2>2 DEF KeptInv
    <3> QED
      BY <1>5, <2>2, <3>1
  <2> QED
    BY <2>1, <2>2
<1>17. PairInv'
  <2> SUFFICES ASSUME NEW g \in Files, NEW h \in Files, g # h, store'[g] = store'[h], store'[g] # 0
               PROVE  \/ store'[g] \in halfMoved'
                      \/ \E d \in calls : d.kind = "copied" /\ d.by # Nobody /\ d.old \in {g, h}
    BY <1>2 DEF PairInv
  <2>1. store'[g] = store[g] /\ store'[h] = store[h]
    BY <1>4, <1>5
  <2>2. store'[g] \in Doubled(store')
    BY DoubledHas
  <2> QED
    BY <1>1, <1>2, <2>1, <2>2 DEF PairInv
<1> QED
  BY <1>6, <1>7, <1>10, <1>12, <1>13, <1>14, <1>15, <1>16, <1>17 DEF TreeInv

-------------------------------------------------------------------------------
\* A call that is about the file a call writes, or a request that is to delete or replace it,
\* endangers it: one of the two is nobody's, or the directory is being deleted.
LEMMA OthersEndanger ==
  ASSUME TreeInv, NEW c \in calls, c.kind = "rename"
  PROVE  /\ \A d \in calls \ {c} : c.new \in {d.old, d.new} => Endangered(c.new)
         /\ \A q \in Requests : c.new \in Doomed(q) => Endangered(c.new)
<1>1. TypeOK /\ JobInv /\ CallInv /\ c.new \in Files /\ c.by \in Requests \cup {Nobody}
  BY CallTypes DEF TreeInv
<1>2. CASE c.by = Nobody
  BY <1>2 DEF Endangered
<1>3. CASE c.by # Nobody
  <2>1. c.by \in Requests /\ pc[c.by] = "renaming" /\ c.new = job[c.by].dst /\ job[c.by].op = "move"
    BY <1>1, <1>3 DEF CallInv, CallOK, JobInv, JobOK
  <2>2. c.new \in Locked(c.by) /\ Doomed(c.by) = {}
    BY <2>1 DEF Locked, Doomed
  <2>3. \A d \in calls \ {c} : d.by # c.by
    BY <1>1, <1>3 DEF CallInv
  <2>4. \A d \in calls \ {c} : c.new \in {d.old, d.new} => Endangered(c.new)
    BY <1>1, <2>1, <2>2, <2>3, CallGuard
  <2>5. \A q \in Requests : c.new \in Doomed(q) => Endangered(c.new)
    BY <1>1, <2>1, <2>2, JobGuard
  <2> QED
    BY <2>4, <2>5
<1> QED
  BY <1>2, <1>3

\* The answer to a call: the request that waited goes on, with fewer things to delete or replace,
\* and the calls that are left, or have become nobody's, are in order.
LEMMA ReturnKeeps ==
  ASSUME TreeInv, NEW c \in calls, NEW ok \in BOOLEAN, Return(c, ok), UNCHANGED <<job, todo>>,
         \A d \in calls' : \/ d \in calls \ {c}
                           \/ d.by = Nobody /\ IF d.kind = "delete" THEN d.new = d.old ELSE d.new # d.old
  PROVE  /\ pc' \in [Requests -> {"idle", "upload", "close", "stat", "list", "remove", "deleting",
                                  "deleted", "rename", "renaming", "renamed", "failed", "moved", "error"}]
         /\ JobInv' /\ LockInv' /\ CallInv'
         /\ \A q \in Requests : Doomed(q)' \subseteq Doomed(q)
<1>1. TypeOK /\ JobInv /\ LockInv /\ CallInv /\ CallOK(c)
  BY DEF TreeInv, CallInv
<1>2. c.by \in Requests \cup {Nobody} /\ c.kind \in {"rename", "copied", "delete"}
  BY <1>1, CallTypes
<1>3. \A q \in Requests : q # c.by => pc'[q] = pc[q]
  BY <1>1, <1>2 DEF Return, Goto, TypeOK
<1>4. c.by # Nobody => /\ c.by \in Requests
                       /\ \/ pc[c.by] = "renaming" /\ pc'[c.by] \in {"renamed", "failed"}
                          \/ pc[c.by] = "deleting" /\ pc'[c.by] \in {"remove", "error"}
  BY <1>1, <1>2 DEF Return, Goto, TypeOK, CallOK
<1>5. pc' \in [Requests -> {"idle", "upload", "close", "stat", "list", "remove", "deleting",
                            "deleted", "rename", "renaming", "renamed", "failed", "moved", "error"}]
  BY <1>1, <1>2 DEF Return, Goto, TypeOK
<1>6. ASSUME NEW q \in Requests
      PROVE  JobOK(q)' /\ Locked(q)' = Locked(q) /\ Doomed(q)' \subseteq Doomed(q)
  <2>1. JobOK(q) /\ job'[q] = job[q] /\ todo'[q] = todo[q]
    BY <1>1 DEF JobInv
  <2>2. CASE pc'[q] = pc[q]
    BY <2>1, <2>2 DEF JobOK, Locked, Doomed
  <2>3. CASE pc[q] = "renaming" /\ pc'[q] \in {"renamed", "failed"}
    BY <2>1, <2>3 DEF JobOK, Locked, Doomed
  <2>4. CASE pc[q] = "deleting" /\ pc'[q] \in {"remove", "error"}
    BY <2>1, <2>4 DEF JobOK, Locked, Doomed
  <2> QED
    BY <1>2, <1>3, <1>4, <2>2, <2>3, <2>4, TreeAssumption
<1>7. JobInv' /\ LockInv'
  BY <1>1, <1>6 DEF JobInv, LockInv
<1>8. ASSUME NEW d \in calls' PROVE CallOK(d)'
  <2>1. CASE d \in calls \ {c}
    <3>1. CallOK(d) /\ d.by \in Requests \cup {Nobody} /\ (d.by # Nobody => d.by # c.by)
      BY <1>1, <2>1, CallTypes DEF CallInv
    <3>2. d.by # Nobody => pc'[d.by] = pc[d.by]
      BY <1>3, <3>1
    <3> QED
      BY <3>1, <3>2 DEF CallOK
  <2>2. CASE d.by = Nobody /\ IF d.kind = "delete" THEN d.new = d.old ELSE d.new # d.old
    BY <2>2 DEF CallOK
  <2> QED
    BY <2>1, <2>2
<1>9. \A d, e \in calls' : d.by = e.by /\ d.by # Nobody => d = e
  BY <1>1 DEF CallInv
<1> QED
  BY <1>5, <1>6, <1>7, <1>8, <1>9 DEF CallInv

\* What a call that is not answered with success leaves under two names is in halfMoved.
LEMMA HalfMovedHas ==
  ASSUME NEW c, NEW stored, NEW v \in Doubled(stored),
         v \in halfMoved \/ (c.kind # "delete" /\ v = stored[c.old])
  PROVE  v \in HalfMoved(c, stored)
BY DEF HalfMoved

\* It is a version.
LEMMA HalfMovedTypes ==
  ASSUME TypeOK, NEW c, c.old \in Files, NEW stored \in [Files -> Version]
  PROVE  HalfMoved(c, stored) \subseteq Version
BY DEF HalfMoved, TypeOK

\* A call fails, or its connection breaks: no file changes.
LEMMA CallEndsStep ==
  ASSUME TreeInv, NEW c \in calls, CallFails(c) \/ Break(c)
  PROVE  TreeInv'
<1>1. TypeOK /\ NumberInv /\ JobInv /\ LockInv /\ CallInv /\ CallTargets /\ JobTargets /\ KeptInv /\ PairInv
  BY DEF TreeInv
<1>2. c \in Call /\ c.kind \in {"rename", "copied", "delete"} /\ c.old \in Files /\ c.new \in Files /\ CallOK(c)
  BY <1>1, CallTypes DEF CallInv
<1>3. PICK b : b = [c EXCEPT !.by = Nobody]
  OBVIOUS
<1>4. b \in Call /\ b.kind = c.kind /\ b.old = c.old /\ b.new = c.new /\ b.by = Nobody
  BY <1>2, <1>3 DEF Call
<1>5. /\ calls' \subseteq (calls \ {c}) \cup {b} /\ calls \ {c} \subseteq calls'
      /\ Return(c, FALSE) /\ halfMoved' = HalfMoved(c, store)
      /\ UNCHANGED <<store, puts, listing, job, todo, owed, began, disturbed>>
  BY <1>3 DEF CallFails, Break, data, request
<1>6. \A d \in calls' : \/ d \in calls \ {c}
                        \/ d.by = Nobody /\ IF d.kind = "delete" THEN d.new = d.old ELSE d.new # d.old
  BY <1>2, <1>4, <1>5 DEF CallOK
<1>7. /\ pc' \in [Requests -> {"idle", "upload", "close", "stat", "list", "remove", "deleting",
                                  "deleted", "rename", "renaming", "renamed", "failed", "moved", "error"}]
      /\ JobInv' /\ LockInv' /\ CallInv'
      /\ \A q \in Requests : Doomed(q)' \subseteq Doomed(q)
  BY <1>5, <1>6, ReturnKeeps
<1>8. TypeOK'
  <2>1. halfMoved' \subseteq Version
    BY <1>1, <1>2, <1>5, HalfMovedTypes DEF TypeOK
  <2>2. calls' \subseteq Call
    BY <1>1, <1>4, <1>5 DEF TypeOK
  <2> QED
    BY <1>1, <1>5, <1>7, <2>1, <2>2 DEF TypeOK
<1>9. NumberInv'
  BY <1>1, <1>5 DEF NumberInv
<1>10. CallTargets'
  BY <1>1, <1>4, <1>5 DEF CallTargets
<1>11. JobTargets'
  BY <1>1, <1>5, <1>7 DEF JobTargets
<1>12. KeptInv'
  BY <1>1, <1>4, <1>5 DEF KeptInv
<1>13. PairInv'
  <2> SUFFICES ASSUME NEW g \in Files, NEW h \in Files, g # h, store[g] = store[h], store[g] # 0
               PROVE  \/ store[g] \in halfMoved'
                      \/ \E d \in calls' : d.kind = "copied" /\ d.by # Nobody /\ d.old \in {g, h}
    BY <1>5 DEF PairInv
  <2>1. store[g] \in Doubled(store)
    BY DoubledHas
  <2>2. CASE store[g] \in halfMoved
    BY <1>5, <2>1, <2>2, HalfMovedHas
  <2>3. ASSUME NEW d \in calls, d.kind = "copied" /\ d.by # Nobody /\ d.old \in {g, h}
        PROVE  \/ store[g] \in halfMoved'
               \/ \E e \in calls' : e.kind = "copied" /\ e.by # Nobody /\ e.old \in {g, h}
    <3>1. CASE d = c
      <4>1. c.kind # "delete" /\ store[g] = store[c.old]
        BY <2>3, <3>1
      <4> QED
        BY <1>5, <2>1, <4>1, HalfMovedHas
    <3>2. CASE d # c
      BY <1>5, <2>3, <3>2
    <3> QED
      BY <3>1, <3>2
  <2> QED
    BY <1>1, <2>2, <2>3 DEF PairInv
<1> QED
  BY <1>7, <1>8, <1>9, <1>10, <1>11, <1>12, <1>13 DEF TreeInv

\* A file is removed: no owed version is there.
LEMMA RemoveObjectStep ==
  ASSUME TreeInv, NEW c \in calls, RemoveObject(c)
  PROVE  TreeInv'
<1>1. TypeOK /\ NumberInv /\ JobInv /\ LockInv /\ CallInv /\ CallTargets /\ JobTargets /\ KeptInv /\ PairInv
  BY DEF TreeInv
<1>2. c.old \in Files /\ c.new \in Files /\ CallOK(c) /\ c.kind \in {"copied", "delete"}
  BY <1>1, CallTypes DEF CallInv, RemoveObject
<1>3. PICK ok \in BOOLEAN :
        /\ store' = [store EXCEPT ![c.old] = 0] /\ calls' = calls \ {c} /\ Return(c, ok)
        /\ halfMoved' = halfMoved \cap Doubled(store')
        /\ UNCHANGED <<puts, listing, job, todo, owed, began, disturbed>>
  BY DEF RemoveObject, request
<1>4. /\ pc' \in [Requests -> {"idle", "upload", "close", "stat", "list", "remove", "deleting",
                                  "deleted", "rename", "renaming", "renamed", "failed", "moved", "error"}]
      /\ JobInv' /\ LockInv' /\ CallInv'
      /\ \A q \in Requests : Doomed(q)' \subseteq Doomed(q)
  BY <1>3, ReturnKeeps
<1>5. 0 \in Version /\ store'[c.old] = 0 /\ (\A g \in Files : g # c.old => store'[g] = store[g]) /\ 0 \notin owed
  BY <1>1, <1>2, <1>3, TreeAssumption DEF TypeOK, Version
<1>6. TypeOK'
  BY <1>1, <1>2, <1>3, <1>4, <1>5 DEF TypeOK
<1>7. NumberInv'
  <2>1. 0 =< puts
    BY <1>1 DEF TypeOK, Version
  <2>2. \A g \in Files : store'[g] =< puts
    BY <1>1, <1>5, <2>1 DEF NumberInv
  <2> QED
    BY <1>1, <1>3, <2>2 DEF NumberInv
<1>8. CallTargets'
  <2> SUFFICES ASSUME NEW d \in calls, d.kind # "copied" PROVE store'[d.new] \notin owed
    BY <1>3 DEF CallTargets
  <2>1. d.new \in Files /\ store[d.new] \notin owed
    BY <1>1, CallTypes DEF CallTargets
  <2> QED
    BY <1>5, <2>1
<1>9. JobTargets'
  <2> SUFFICES ASSUME NEW q \in Requests, NEW g \in Doomed(q) PROVE store'[g] \notin owed
    BY <1>3, <1>4 DEF JobTargets
  <2>1. g \in Files /\ store[g] \notin owed
    BY <1>1, JobTypes DEF JobTargets, Doomed, JobInv, JobOK
  <2> QED
    BY <1>5, <2>1
<1>10. KeptInv'
  <2> SUFFICES ASSUME NEW v \in owed
               PROVE  \E g \in Files : store'[g] = v /\ ~\E d \in calls' : d.kind = "copied" /\ d.old = g
    BY <1>3 DEF KeptInv
  <2>1. PICK g \in Files : store[g] = v /\ ~\E d \in calls : d.kind = "copied" /\ d.old = g
    BY <1>1 DEF KeptInv
  <2>2. g # c.old
    BY <1>1, <1>2, <2>1 DEF CallTargets, CallOK
  <2> QED
    BY <1>3, <1>5, <2>1, <2>2
<1>11. PairInv'
  <2> SUFFICES ASSUME NEW g \in Files, NEW h \in Files, g # h, store'[g] = store'[h], store'[g] # 0
               PROVE  \/ store'[g] \in halfMoved'
                      \/ \E d \in calls' : d.kind = "copied" /\ d.by # Nobody /\ d.old \in {g, h}
    BY DEF PairInv
  <2>1. g # c.old /\ h # c.old /\ store'[g] = store[g] /\ store'[h] = store[h]
    BY <1>5
  <2>2. store'[g] \in Doubled(store')
    BY DoubledHas
  <2> QED
    BY <1>1, <1>3, <2>1, <2>2 DEF PairInv
<1> QED
  BY <1>4, <1>6, <1>7, <1>8, <1>9, <1>10, <1>11 DEF TreeInv

\* A file is copied: the old version of the new name was not owed, and when others are about that
\* name the copied version is not owed any more.  `b' is the call as it goes on.
LEMMA CopyObjectStep ==
  ASSUME TreeInv, NEW c \in calls, CopyObject(c)
  PROVE  TreeInv'
<1>1. TypeOK /\ NumberInv /\ JobInv /\ LockInv /\ CallInv /\ CallTargets /\ JobTargets /\ KeptInv /\ PairInv
  BY DEF TreeInv
<1>2. c \in Call /\ c.kind = "rename" /\ c.old \in Files /\ c.new \in Files /\ CallOK(c) /\ c.new # c.old
      /\ c.by \in Requests \cup {Nobody}
  BY <1>1, CallTypes DEF CallInv, CopyObject, CallOK
<1>3. PICK b : b = [c EXCEPT !.kind = "copied"]
  OBVIOUS
<1>4. b \in Call /\ b.kind = "copied" /\ b.old = c.old /\ b.new = c.new /\ b.by = c.by
  BY <1>2, <1>3 DEF Call
<1>5. /\ store[c.old] # 0 /\ store' = [store EXCEPT ![c.new] = store[c.old]]
      /\ owed' = owed \ (IF Endangered(c.new) THEN {store[c.old]} ELSE {})
      /\ UNCHANGED <<puts, listing, job, todo, began, disturbed>>
  BY DEF CopyObject, request
<1>6. \/ /\ calls' = (calls \ {c}) \cup {b} /\ UNCHANGED pc
         /\ halfMoved' = IF c.by = Nobody THEN HalfMoved(c, store') ELSE halfMoved \cap Doubled(store')
      \/ calls' = calls \ {c} /\ Return(c, FALSE) /\ halfMoved' = HalfMoved(c, store')
  BY <1>3 DEF CopyObject
<1>7. /\ store' \in [Files -> Version]
      /\ store'[c.new] = store[c.old] /\ \A g \in Files : g # c.new => store'[g] = store[g]
      /\ owed' \subseteq owed /\ (Endangered(c.new) => store[c.old] \notin owed')
      /\ store[c.new] \notin owed
  BY <1>1, <1>2, <1>5 DEF TypeOK, CallTargets
<1>8. /\ pc' \in [Requests -> {"idle", "upload", "close", "stat", "list", "remove", "deleting",
                                  "deleted", "rename", "renaming", "renamed", "failed", "moved", "error"}]
      /\ JobInv' /\ LockInv' /\ CallInv'
      /\ \A q \in Requests : Doomed(q)' \subseteq Doomed(q)
  <2>1. CASE calls' = calls \ {c} /\ Return(c, FALSE)
    BY <1>5, <2>1, ReturnKeeps
  <2>2. CASE calls' = (calls \ {c}) \cup {b} /\ UNCHANGED pc
    <3>1. JobInv'
      BY <1>1, <1>5, <2>2 DEF JobInv, JobOK
    <3>2. LockInv'
      BY <1>1, <1>5, <2>2 DEF LockInv, Locked
    <3>3. \A q \in Requests : Doomed(q)' = Doomed(q)
      BY <1>5, <2>2 DEF Doomed
    <3>4. CallOK(b)'
      BY <1>2, <1>4, <1>5, <2>2 DEF CallOK
    <3>5. \A d \in calls \ {c} : CallOK(d)'
      BY <1>1, <1>5, <2>2 DEF CallInv, CallOK
    <3>6. \A d, e \in calls' : d.by = e.by /\ d.by # Nobody => d = e
      BY <1>1, <1>4, <2>2 DEF CallInv
    <3> QED
      BY <1>1, <2>2, <3>1, <3>2, <3>3, <3>4, <3>5, <3>6 DEF CallInv, TypeOK
  <2> QED
    BY <1>6, <2>1, <2>2
<1>9. TypeOK'
  <2>1. halfMoved' \subseteq Version
    <3>1. HalfMoved(c, store') \subseteq Version
      BY <1>1, <1>2, <1>7, HalfMovedTypes
    <3>2. halfMoved \subseteq Version
      BY <1>1 DEF TypeOK
    <3> QED
      BY <1>6, <3>1, <3>2
  <2>2. calls' \subseteq Call
    BY <1>1, <1>4, <1>6 DEF TypeOK
  <2> QED
    BY <1>1, <1>5, <1>7, <1>8, <2>1, <2>2 DEF TypeOK
<1>10. NumberInv'
  <2>1. \A g \in Files : store'[g] =< puts
    BY <1>1, <1>2, <1>7 DEF NumberInv
  <2> QED
    BY <1>1, <1>5, <1>7, <2>1 DEF NumberInv
<1>11. \A d \in calls' : d \in calls \ {c} \/ d = b
  BY <1>6
<1>12. CallTargets'
  <2> SUFFICES ASSUME NEW d \in calls \ {c}, d.kind # "copied" PROVE store'[d.new] \notin owed'
    BY <1>4, <1>11 DEF CallTargets
  <2>1. d.new \in Files /\ store[d.new] \notin owed
    BY <1>1, CallTypes DEF CallTargets
  <2>2. d.new = c.new => Endangered(c.new)
    BY <1>2, OthersEndanger
  <2> QED
    BY <1>7, <2>1, <2>2
<1>13. JobTargets'
  <2> SUFFICES ASSUME NEW q \in Requests, NEW g \in Doomed(q) PROVE store'[g] \notin owed'
    BY <1>8 DEF JobTargets
  <2>1. g \in Files /\ store[g] \notin owed
    BY <1>1, JobTypes DEF JobTargets, Doomed, JobInv, JobOK
  <2>2. g = c.new => Endangered(c.new)
    BY <1>2, OthersEndanger
  <2> QED
    BY <1>7, <2>1, <2>2
<1>14. KeptInv'
  <2> SUFFICES ASSUME NEW v \in owed'
               PROVE  \E g \in Files : store'[g] = v /\ ~\E d \in calls' : d.kind = "copied" /\ d.old = g
    BY DEF KeptInv
  <2>1. CASE v = store[c.old]
    <3>1. ~Endangered(c.new)
      BY <1>7, <2>1
    <3>2. \A d \in calls' : d.old # c.new
      BY <1>2, <1>4, <1>11, <3>1, OthersEndanger
    <3> QED
      BY <1>2, <1>7, <2>1, <3>2
  <2>2. CASE v # store[c.old]
    <3>1. PICK g \in Files : store[g] = v /\ ~\E d \in calls : d.kind = "copied" /\ d.old = g
      BY <1>1, <1>7 DEF KeptInv
    <3>2. g # c.old /\ g # c.new
      BY <1>7, <2>2, <3>1
    <3> QED
      BY <1>4, <1>7, <1>11, <3>1, <3>2
  <2> QED
    BY <2>1, <2>2
<1>15. ASSUME NEW v \in Doubled(store'), v \in halfMoved PROVE v \in halfMoved'
  <2>1. v \in HalfMoved(c, store')
    BY <1>15, HalfMovedHas
  <2> QED
    BY <1>6, <1>15, <2>1
<1>16. ASSUME NEW v \in Doubled(store'), v = store[c.old], b \notin calls' \/ c.by = Nobody
       PROVE  v \in halfMoved'
  <2>1. c.kind # "delete" /\ v = store'[c.old]
    BY <1>2, <1>7, <1>16
  <2>2. halfMoved' = HalfMoved(c, store')
    BY <1>6, <1>16
  <2>3. v \in HalfMoved(c, store')
    BY <1>16, <2>1, HalfMovedHas
  <2> QED
    BY <2>2, <2>3
<1>17. calls \ {c} \subseteq calls'
  BY <1>6
<1>18. ASSUME NEW h \in Files, h # c.new, store'[h] = store[c.old]
       PROVE  \/ store[c.old] \in halfMoved'
              \/ \E d \in calls' : d.kind = "copied" /\ d.by # Nobody /\ d.old = h
  <2>1. store'[c.new] \in Doubled(store') /\ store'[c.new] = store[c.old]
    BY <1>2, <1>5, <1>7, <1>18, DoubledHas
  <2>2. CASE h = c.old
    BY <1>4, <1>16, <2>1, <2>2
  <2>3. CASE h # c.old
    <3>1. store[h] = store[c.old]
      BY <1>7, <1>18
    <3>2. \/ store[c.old] \in halfMoved
          \/ \E d \in calls : d.kind = "copied" /\ d.by # Nobody /\ d.old \in {c.old, h}
      BY <1>1, <1>2, <1>5, <2>3, <3>1 DEF PairInv
    <3>3. ASSUME NEW d \in calls, d.kind = "copied", d.by # Nobody, d.old = c.old PROVE c.by = Nobody
      <4> SUFFICES ASSUME c.by # Nobody PROVE FALSE
        OBVIOUS
      <4>1. d # c /\ d.by # c.by /\ d.by \in Requests /\ c.by \in Requests
        BY <1>1, <1>2, <3>3, CallTypes DEF CallInv
      <4>2. pc[d.by] = "renaming" /\ d.old = job[d.by].src /\ pc[c.by] = "renaming" /\ c.old = job[c.by].src
        BY <1>1, <1>2, <3>3 DEF CallInv, CallOK
      <4>3. job[d.by].op = "move" /\ job[c.by].op = "move"
        BY <1>1, <4>1, <4>2 DEF JobInv, JobOK
      <4>4. c.old \in Locked(d.by) /\ c.old \in Locked(c.by)
        BY <3>3, <4>2, <4>3 DEF Locked
      <4> QED
        BY <1>1, <4>1, <4>4 DEF LockInv
    <3>4. CASE store[c.old] \in halfMoved
      BY <1>15, <2>1, <3>4
    <3>5. CASE \E d \in calls : d.kind = "copied" /\ d.by # Nobody /\ d.old = c.old
      BY <1>16, <2>1, <3>3, <3>5
    <3>6. CASE \E d \in calls : d.kind = "copied" /\ d.by # Nobody /\ d.old = h
      BY <1>2, <1>17, <3>6
    <3> QED
      BY <3>2, <3>4, <3>5, <3>6
  <2> QED
    BY <2>2, <2>3
<1>19. PairInv'
  <2> SUFFICES ASSUME NEW g \in Files, NEW h \in Files, g # h, store'[g] = store'[h], store'[g] # 0
               PROVE  \/ store'[g] \in halfMoved'
                      \/ \E d \in calls' : d.kind = "copied" /\ d.by # Nobody /\ d.old \in {g, h}
    BY DEF PairInv
  <2>1. CASE g = c.new
    BY <1>7, <1>18, <2>1
  <2>2. CASE h = c.new
    BY <1>7, <1>18, <2>2
  <2>3. CASE g # c.new /\ h # c.new
    <3>1. store'[g] = store[g] /\ store'[h] = store[h]
      BY <1>7, <2>3
    <3>2. store[g] \in Doubled(store')
      BY <3>1, DoubledHas
    <3>3. \/ store[g] \in halfMoved
          \/ \E d \in calls : d.kind = "copied" /\ d.by # Nobody /\ d.old \in {g, h}
      BY <1>1, <3>1 DEF PairInv
    <3>4. CASE store[g] \in halfMoved
      BY <1>15, <3>1, <3>2, <3>4
    <3>5. CASE \E d \in calls : d.kind = "copied" /\ d.by # Nobody /\ d.old \in {g, h}
      BY <1>2, <1>17, <3>5
    <3> QED
      BY <3>3, <3>4, <3>5
  <2> QED
    BY <2>1, <2>2, <2>3
<1> QED
  BY <1>8, <1>9, <1>10, <1>12, <1>13, <1>14, <1>19 DEF TreeInv

-------------------------------------------------------------------------------
\* The invariant holds at the beginning.
LEMMA TreeStarts == Init => TreeInv
<1> SUFFICES ASSUME Init PROVE TreeInv
  OBVIOUS
<1>1. NoJob \in Job /\ NoJob.op = "put" /\ 0 \in Version
  BY TreeAssumption DEF NoJob, Job, Names, Version
<1>2. TypeOK
  BY <1>1 DEF Init, TypeOK
<1>3. NumberInv
  BY DEF Init, NumberInv
<1>4. JobInv /\ LockInv
  BY <1>1 DEF Init, JobInv, JobOK, LockInv, Locked
<1>5. CallInv /\ CallTargets /\ JobTargets /\ KeptInv /\ PairInv
  BY DEF Init, CallInv, CallTargets, JobTargets, KeptInv, PairInv
<1> QED
  BY <1>2, <1>3, <1>4, <1>5 DEF TreeInv

\* Every step keeps it.
LEMMA TreeStep ==
  ASSUME TreeInv, [Next]_vars
  PROVE  TreeInv'
<1>1. CASE ListingStep
  BY <1>1, ListingKeeps
<1>2. ASSUME NEW r \in Requests, PutStep(r) \/ DeleteStep(r) \/ MoveStep(r) \/ Refused(r) \/ Done(r)
      PROVE  TreeInv'
  <2>1. CASE PutStep(r)
    BY <2>1, PutSteps, PutStoresStep, EndSteps DEF PutStep
  <2>2. CASE DeleteStep(r)
    BY <2>2, DeleteBeginsStep, StatTargetStep, RemoveAllSteps, AskSteps DEF DeleteStep
  <2>3. CASE MoveStep(r)
    BY <2>3, MoveBeginsStep, AskSteps, RenameAnsweredStep DEF MoveStep
  <2>4. CASE Refused(r) \/ Done(r)
    BY <2>4, EndSteps
  <2> QED
    BY <1>2, <2>1, <2>2, <2>3, <2>4
<1>3. CASE ServerStep
  BY <1>3, CallEndsStep, CopyObjectStep, RemoveObjectStep DEF ServerStep
<1>4. CASE UNCHANGED vars
  <2>1. TypeOK /\ NumberInv
    BY DEF TreeInv
  <2>2. UNCHANGED <<store, puts, listing, calls, pc, job, todo, owed, began, disturbed, halfMoved>>
    BY <1>4 DEF vars
  <2>3. TypeOK' /\ NumberInv'
    BY <2>1, <2>2 DEF TypeOK, NumberInv
  <2> QED
    BY <2>2, <2>3, SameKeeps
<1> QED
  BY <1>1, <1>2, <1>3, <1>4 DEF Next

\* So it is an invariant.
THEOREM TreeInvariant == Spec => []TreeInv
BY TreeStarts, TreeStep, PTL DEF Spec

\* The type invariant: it needs the locks and the places of the requests only to say what a call
\* may be about.
THEOREM TreeTypeCorrect == Spec => []TypeOK
<1>1. TreeInv => TypeOK
  BY DEF TreeInv
<1> QED
  BY <1>1, TreeInvariant, PTL

\* An upload is under some name until somebody asks to delete or replace it (FileSystem.Rename,
\* RemoveAll, restRenameObject): whatever fails or breaks, and with any number of requests.
THEOREM UploadsAreKept == Spec => []NothingLost
<1>1. TreeInv => NothingLost
  BY DEF TreeInv, KeptInv, NothingLost
<1> QED
  BY <1>1, TreeInvariant, PTL

\* Two names for one version are the server's rename in the making, or one that came to an error.
THEOREM OneNamePerVersion == Spec => []OneName
<1>1. TreeInv => OneName
  BY DEF TreeInv, PairInv, OneName
<1> QED
  BY <1>1, TreeInvariant, PTL

-------------------------------------------------------------------------------
\* What a MOVE may rely on that nobody disturbed: its files are not endangered, so nobody else
\* changes them.
MoveOK(r) ==
  job[r].op = "move" =>
    /\ pc[r] \in {"renaming", "renamed", "failed", "moved"} => job[r].src \in Files
    /\ job[r].src \in Files /\ r \notin disturbed =>
         /\ pc[r] \notin {"failed", "error"} => ~Endangered(job[r].src) /\ ~Endangered(job[r].dst)
         /\ pc[r] \notin {"renamed", "failed", "moved", "error"} => began[r] = Stored({job[r].src})
         /\ pc[r] \in {"renamed", "moved"} => began[r] = {store[job[r].dst]} /\ store[job[r].src] = 0
         /\ \A c \in calls : c.by = r /\ c.kind = "copied" => store[c.new] = store[c.old] /\ store[c.old] # 0

MoveInv == \A r \in Requests : MoveOK(r)

\* Somebody writes the file, or has written it and not yet forgotten the listing.
Writing(f) == \E r \in Requests : job[r].dst = f /\ pc[r] \in {"close", "renaming", "renamed", "failed"}

\* The directory's listing shows the file, unless there is none to go by.
Shown(f) == listing[Dir] \in {None, {}} \/ f \in listing[Dir]

\* What is owed is shown; what came while others were about the file is not owed.
ShownInv == \A f \in InDir : store[f] \in owed /\ ~Writing(f) => Shown(f)

\* What a DELETE has still to find.
GoneOK(r) ==
  /\ pc[r] = "deleted" => job[r].op = "delete"
  /\ job[r].op = "delete" =>
       /\ began[r] \subseteq 1 .. puts
       /\ \A f \in Below(job[r].dst) : store[f] \in began[r] =>
            /\ pc[r] # "deleted"
            /\ pc[r] \in {"stat", "list"} /\ job[r].dst = Dir => Shown(f)
            /\ pc[r] = "remove" => f \in todo[r]
            /\ pc[r] = "deleting" => f \in todo[r] \/ \E c \in calls : c.by = r /\ c.old = f

\* And nobody renames it.
StillOK(r) ==
  job[r].op = "delete" =>
    /\ \A c \in calls : c.kind # "delete" => store[c.old] \notin began[r]
    /\ \A q \in Requests : job[q].op = "move" /\ job[q].src \in Files => store[job[q].src] \notin began[r]

GoneInv == \A r \in Requests : GoneOK(r) /\ StillOK(r)

WholeInv == TreeInv /\ MoveInv /\ ShownInv /\ GoneInv

\* Forgetting hides nothing.
LEMMA ForgetShown ==
  ASSUME TreeInv, NEW F, ForgetCache(F) \/ UNCHANGED listing
  PROVE  /\ \A f : Shown(f) => Shown(f)'
         /\ ForgetCache(F) => \A f \in F \cap InDir : Shown(f)'
<1>1. CASE ForgetCache(F)
  BY <1>1 DEF ForgetCache, Shown
<1>2. CASE UNCHANGED listing
  <2>1. \A f : Shown(f) => Shown(f)'
    BY <1>2 DEF Shown
  <2>2. ForgetCache(F) => \A f \in F \cap InDir : Shown(f)'
    BY DEF ForgetCache, Shown
  <2> QED
    BY <2>1, <2>2
<1> QED
  BY <1>1, <1>2

\* The steps of a request between its beginning and its answer, but for the storing of a body.
Advance(q) == \/ PutFails(q) \/ StatTarget(q) \/ ListRecursive(q) \/ RemoveAllEnds(q)
              \/ Rename(q) \/ RenameAnswered(q)
              \/ \E f \in todo[q] : Delete(q, f)

\* The requests go on in this order.
Follows(here, there) ==
  \/ here = "upload" /\ there = "close"
  \/ here = "stat" /\ there \in {"list", "rename"}
  \/ here = "list" /\ there = "remove"
  \/ here = "remove" /\ there \in {"deleting", "rename", "deleted"}
  \/ here = "rename" /\ there = "renaming"
  \/ here = "renamed" /\ there = "moved"
  \/ here = "failed" /\ there = "error"

\* What such a step changes.
LEMMA AdvanceFacts ==
  ASSUME TreeInv, NEW q \in Requests, Advance(q)
  PROVE  /\ UNCHANGED <<store, puts, began, disturbed>> /\ owed' \subseteq owed
         /\ \A r \in Requests : r # q => pc'[r] = pc[r] /\ todo'[r] = todo[r]
         /\ \A r \in Requests :
              job'[r].op = job[r].op /\ job'[r].src = job[r].src /\ job'[r].dst = job[r].dst
         /\ Follows(pc[q], pc'[q])
         /\ pc'[q] = "renaming" => job[q].src \in Files
         /\ pc[q] = "stat" => pc'[q] = "list" \/ job[q].op = "move"
         /\ pc[q] = "remove" /\ pc'[q] # "deleting" => todo[q] = {} /\ (pc'[q] = "deleted" <=> job[q].op # "move")
         /\ calls \subseteq calls'
         /\ \A c \in calls' \ calls :
              c.by = q /\ c.kind # "copied" /\ (c.kind = "rename" => c.old = job[q].src /\ pc[q] = "rename")
         /\ \A f : Shown(f) => Shown(f)'
         /\ pc[q] \in {"renamed", "failed"} => \A f \in InDir : f = job[q].dst => Shown(f)'
<1>1. TypeOK /\ job[q] \in Job
  BY DEF TreeInv, TypeOK
<1>2. \A step : pc' = [pc EXCEPT ![q] = step] => pc'[q] = step /\ \A r \in Requests : r # q => pc'[r] = pc[r]
  BY <1>1 DEF TypeOK
<1>3. CASE PutFails(q)
  BY <1>2, <1>3 DEF PutFails, Goto, data, request, history, Follows, Shown
<1>4. CASE StatTarget(q)
  <2>1. \A r \in Requests :
          job'[r].op = job[r].op /\ job'[r].src = job[r].src /\ job'[r].dst = job[r].dst
    <3>1. job' = [job EXCEPT ![q] = [job[q] EXCEPT !.overwrite = FALSE]]
      BY <1>4 DEF StatTarget
    <3> QED
      BY <1>1, <3>1 DEF TypeOK, Job
  <2>2. pc[q] = "stat" /\ UNCHANGED <<store, puts, listing, calls, todo, began, disturbed>>
    BY <1>4 DEF StatTarget, data
  <2>3. owed' \subseteq owed /\ \/ pc' = [pc EXCEPT ![q] = "list"]
                                \/ pc' = [pc EXCEPT ![q] = "rename"] /\ job[q].op = "move"
    BY <1>4 DEF StatTarget, Goto
  <2> QED
    BY <1>2, <2>1, <2>2, <2>3 DEF Follows, Shown
<1>5. CASE ListRecursive(q)
  <2>1. /\ pc[q] = "list" /\ pc' = [pc EXCEPT ![q] = "remove"]
        /\ UNCHANGED <<store, puts, listing, calls, job, owed, began, disturbed>>
        /\ \A r \in Requests : r # q => todo'[r] = todo[r]
    BY <1>1, <1>5 DEF ListRecursive, Goto, data, history, TypeOK
  <2> QED
    BY <1>2, <2>1 DEF Follows, Shown
<1>6. CASE RemoveAllEnds(q)
  <2>1. /\ pc[q] = "remove" /\ todo[q] = {}
        /\ pc' = [pc EXCEPT ![q] = IF job[q].op = "move" THEN "rename" ELSE "deleted"]
        /\ UNCHANGED <<store, puts, listing, calls, job, todo, owed, began, disturbed>>
    BY <1>6 DEF RemoveAllEnds, Goto, data, request, history
  <2> QED
    BY <1>2, <2>1 DEF Follows, Shown
<1>7. CASE Rename(q)
  <2>1. /\ pc[q] = "rename" /\ pc' = [pc EXCEPT ![q] = "renaming"] /\ job[q].src \in Files
        /\ UNCHANGED <<store, puts, listing, job, todo, owed, began, disturbed>>
    BY <1>7 DEF Rename, Goto, data, request, history
  <2>2. calls \subseteq calls' /\ \A c \in calls' \ calls : c.by = q /\ c.kind = "rename" /\ c.old = job[q].src
    BY <1>7 DEF Rename
  <2> QED
    BY <1>2, <2>1, <2>2 DEF Follows, Shown
<1>8. CASE RenameAnswered(q)
  <2>1. /\ pc[q] \in {"renamed", "failed"}
        /\ pc' = [pc EXCEPT ![q] = IF pc[q] = "renamed" THEN "moved" ELSE "error"]
        /\ UNCHANGED <<store, puts, calls, job, todo, owed, began, disturbed>>
        /\ ForgetCache({job[q].src, job[q].dst})
    BY <1>8 DEF RenameAnswered, Goto, data, request, history
  <2>2. (\A f : Shown(f) => Shown(f)') /\ \A f \in InDir : f = job[q].dst => Shown(f)'
    BY <2>1, ForgetShown
  <2> QED
    BY <1>2, <2>1, <2>2 DEF Follows
<1>9. ASSUME NEW f \in todo[q], Delete(q, f)
      PROVE  /\ pc[q] = "remove" /\ pc' = [pc EXCEPT ![q] = "deleting"]
             /\ UNCHANGED <<store, puts, job, owed, began, disturbed>>
             /\ \A r \in Requests : r # q => todo'[r] = todo[r]
             /\ calls \subseteq calls' /\ \A c \in calls' \ calls : c.by = q /\ c.kind = "delete"
             /\ \A g : Shown(g) => Shown(g)'
  <2>1. \A g : Shown(g) => Shown(g)'
    BY <1>9, ForgetShown DEF Delete
  <2>2. calls \subseteq calls' /\ \A c \in calls' \ calls : c.by = q /\ c.kind = "delete"
    BY <1>9 DEF Delete
  <2>3. \A r \in Requests : r # q => todo'[r] = todo[r]
    BY <1>1, <1>9 DEF Delete, TypeOK
  <2> QED
    BY <1>9, <2>1, <2>2, <2>3 DEF Delete, Goto, data, history
<1>10. CASE \E f \in todo[q] : Delete(q, f)
  <2>1. pc[q] = "remove" /\ pc'[q] = "deleting" /\ \A r \in Requests : r # q => pc'[r] = pc[r]
    BY <1>2, <1>9, <1>10
  <2>2. Follows(pc[q], pc'[q])
    BY <2>1 DEF Follows
  <2> QED
    BY <1>9, <1>10, <2>1, <2>2
<1> QED
  BY <1>3, <1>4, <1>5, <1>6, <1>7, <1>8, <1>10 DEF Advance

\* The answer to a request.
LEMMA AnswerFacts ==
  ASSUME TreeInv, NEW q \in Requests, Refused(q) \/ PutCloses(q) \/ Done(q)
  PROVE  /\ UNCHANGED <<store, puts, calls, owed>>
         /\ \A r \in Requests : r # q => /\ pc'[r] = pc[r] /\ job'[r] = job[r] /\ todo'[r] = todo[r]
                                         /\ began'[r] = began[r]
         /\ pc'[q] = "idle" /\ job'[q] = NoJob /\ disturbed' = disturbed \ {q}
         /\ \A f : Shown(f) => Shown(f)'
         /\ pc[q] \notin {"deleting", "renaming", "renamed", "failed"}
         /\ pc[q] = "close" => \A f \in InDir : f = job[q].dst => Shown(f)'
<1>1. TypeOK
  BY DEF TreeInv
<1>2. Answer(q) /\ UNCHANGED <<store, puts, calls, owed>>
  BY DEF Refused, PutCloses, Done, data
<1>3. /\ pc'[q] = "idle" /\ job'[q] = NoJob /\ disturbed' = disturbed \ {q}
      /\ \A r \in Requests : r # q => /\ pc'[r] = pc[r] /\ job'[r] = job[r] /\ todo'[r] = todo[r]
                                      /\ began'[r] = began[r]
  BY <1>1, <1>2 DEF Answer, Goto, TypeOK
<1>4. CASE PutCloses(q)
  <2>1. pc[q] = "close" /\ ForgetCache({job[q].dst})
    BY <1>4 DEF PutCloses
  <2>2. (\A f : Shown(f) => Shown(f)') /\ \A f \in InDir : f = job[q].dst => Shown(f)'
    BY <2>1, ForgetShown
  <2> QED
    BY <1>2, <1>3, <2>1, <2>2
<1>5. CASE Refused(q) \/ Done(q)
  <2>1. pc[q] \notin {"close", "deleting", "renaming", "renamed", "failed"} /\ UNCHANGED listing
    BY <1>5 DEF Refused, Done
  <2> QED
    BY <1>2, <1>3, <2>1 DEF Shown
<1> QED
  BY <1>4, <1>5

\* A file is not endangered by what is not a deletion of the directory, nor by a call with a caller.
LEMMA StillSafe ==
  ASSUME NEW f,
         \A q \in Requests : pc'[q] # "idle" /\ job'[q].op = "delete" /\ job'[q].dst = Dir =>
           pc[q] # "idle" /\ job[q].op = "delete" /\ job[q].dst = Dir,
         \A c \in calls' : c.by = Nobody => \E d \in calls : d.by = Nobody /\ {d.old, d.new} = {c.old, c.new},
         Endangered(f)'
  PROVE  Endangered(f)
<1>1. CASE \E r \in Requests : pc'[r] # "idle" /\ job'[r].op = "delete" /\ job'[r].dst = Dir /\ f \in InDir
  BY <1>1 DEF Endangered
<1>2. CASE \E c \in calls' : c.by = Nobody /\ f \in {c.old, c.new}
  <2>1. PICK c \in calls' : c.by = Nobody /\ f \in {c.old, c.new}
    BY <1>2
  <2>2. PICK d \in calls : d.by = Nobody /\ {d.old, d.new} = {c.old, c.new}
    BY <2>1
  <2>3. f \in {d.old, d.new}
    BY <2>1, <2>2
  <2> QED
    BY <2>2, <2>3 DEF Endangered
<1> QED
  BY <1>1, <1>2 DEF Endangered

\* What others do leaves a MOVE what it relies on.
LEMMA MoveFrame ==
  ASSUME TreeInv, NEW r \in Requests, MoveOK(r),
         pc'[r] = pc[r], job'[r] = job[r], job[r].op = "move" => began'[r] = began[r],
         r \notin disturbed' => r \notin disturbed,
         \A f \in Files : f \in Locked(r) /\ ~Endangered(f) =>
           store'[f] = store[f] /\ (Endangered(f)' => r \in disturbed'),
         \A c \in calls' : c.by = r => c \in calls
  PROVE  MoveOK(r)'
<1>1. TypeOK /\ JobOK(r) /\ CallInv
  BY DEF TreeInv, JobInv
<1> SUFFICES ASSUME job[r].op = "move" PROVE MoveOK(r)'
  BY DEF MoveOK
<1>2. pc[r] # "idle" /\ job[r].dst \in Files /\ job[r].src \in Locked(r) /\ job[r].dst \in Locked(r)
  BY <1>1 DEF JobOK, Locked
<1> SUFFICES ASSUME job[r].src \in Files, r \notin disturbed' PROVE MoveOK(r)'
  BY DEF MoveOK
<1>3. pc[r] \notin {"failed", "error"} =>
        /\ ~Endangered(job[r].src) /\ ~Endangered(job[r].dst)
        /\ ~Endangered(job[r].src)' /\ ~Endangered(job[r].dst)'
        /\ store'[job[r].src] = store[job[r].src] /\ store'[job[r].dst] = store[job[r].dst]
  BY <1>2 DEF MoveOK
<1>4. ASSUME NEW c \in calls, c.by = r, c.kind = "copied"
      PROVE  c.old = job[r].src /\ c.new = job[r].dst /\ pc[r] = "renaming"
  <2>1. CallOK(c) /\ r # Nobody
    BY <1>1, TreeAssumption DEF CallInv
  <2> QED
    BY <1>4, <2>1 DEF CallOK
<1>5. \A c \in calls' : c.by = r /\ c.kind = "copied" => store'[c.new] = store'[c.old] /\ store'[c.old] # 0
  BY <1>3, <1>4 DEF MoveOK
<1>6. pc[r] \notin {"renamed", "failed", "moved", "error"} => began'[r] = Stored({job[r].src})'
  BY <1>3 DEF MoveOK, Stored
<1> QED
  BY <1>3, <1>5, <1>6 DEF MoveOK

\* A step of one request leaves the MOVEs of others what they rely on.
LEMMA LocalMoves ==
  ASSUME TreeInv, MoveInv, NEW q \in Requests, UNCHANGED store,
         \A r \in Requests : r # q => /\ pc'[r] = pc[r] /\ job'[r] = job[r]
                                      /\ job[r].op = "move" => began'[r] = began[r]
                                      /\ r \notin disturbed' => r \notin disturbed,
         \A r \in Requests, f \in Files : r # q /\ f \in Locked(r) /\ Endangered(f)' =>
           Endangered(f) \/ r \in disturbed',
         \A c \in calls' : c \in calls \/ c.by = q,
         MoveOK(q)'
  PROVE  MoveInv'
<1> SUFFICES ASSUME NEW r \in Requests, r # q PROVE MoveOK(r)'
  BY DEF MoveInv
<1>1. MoveOK(r)
  BY DEF MoveInv
<1>2. \A c \in calls' : c.by = r => c \in calls
  OBVIOUS
<1> QED
  BY <1>1, <1>2, MoveFrame

\* MoveInv: a request goes on.
LEMMA AdvanceMoves ==
  ASSUME TreeInv, MoveInv, NEW q \in Requests, Advance(q)
  PROVE  MoveInv'
<1>1. TypeOK /\ JobInv /\ CallInv /\ q # Nobody
  BY TreeAssumption DEF TreeInv
<1>2. /\ UNCHANGED <<store, puts, began, disturbed>>
      /\ \A r \in Requests : r # q => pc'[r] = pc[r]
      /\ \A r \in Requests :
           job'[r].op = job[r].op /\ job'[r].src = job[r].src /\ job'[r].dst = job[r].dst
      /\ Follows(pc[q], pc'[q])
      /\ pc'[q] = "renaming" => job[q].src \in Files
      /\ \A c \in calls' \ calls : c.by = q /\ c.kind # "copied"
  BY AdvanceFacts
<1>3. \A r \in Requests : r # q => job'[r] = job[r]
  <2>1. UNCHANGED job \/ \E j : job' = [job EXCEPT ![q].overwrite = j]
    BY DEF Advance, PutFails, StatTarget, ListRecursive, RemoveAllEnds, Rename, RenameAnswered, Delete, request
  <2> QED
    BY <1>1, <2>1 DEF TypeOK
<1>4. \A f : Endangered(f)' => Endangered(f)
  <2>1. \A r \in Requests : pc'[r] # "idle" => pc[r] # "idle"
    BY <1>2 DEF Follows
  <2> QED
    BY <1>1, <1>2, <2>1, StillSafe
<1>5. MoveOK(q)'
  <2>1. MoveOK(q) /\ JobOK(q)
    BY <1>1 DEF MoveInv, JobInv
  <2> SUFFICES ASSUME job[q].op = "move" PROVE MoveOK(q)'
    BY <1>2 DEF MoveOK
  <2>2. pc'[q] \in {"renaming", "renamed", "failed", "moved"} => job[q].src \in Files
    BY <1>2, <2>1 DEF MoveOK, Follows
  <2> SUFFICES ASSUME job[q].src \in Files, q \notin disturbed PROVE MoveOK(q)'
    BY <1>2, <2>2 DEF MoveOK
  <2>3. pc'[q] \notin {"failed", "error"} =>
          ~Endangered(job[q].src)' /\ ~Endangered(job[q].dst)'
    BY <1>2, <1>4, <2>1 DEF MoveOK, Follows
  <2>4. pc'[q] \notin {"renamed", "failed", "moved", "error"} => began[q] = Stored({job[q].src})
    BY <1>2, <2>1 DEF MoveOK, Follows
  <2>5. pc'[q] \in {"renamed", "moved"} => began[q] = {store[job[q].dst]} /\ store[job[q].src] = 0
    BY <1>2, <2>1 DEF MoveOK, Follows
  <2>6. \A c \in calls' : c.by = q /\ c.kind = "copied" => store[c.new] = store[c.old] /\ store[c.old] # 0
    BY <1>2, <2>1 DEF MoveOK
  <2>7. Stored({job[q].src})' = Stored({job[q].src})
    BY <1>2 DEF Stored
  <2> QED
    BY <1>2, <2>2, <2>3, <2>4, <2>5, <2>6, <2>7 DEF MoveOK
<1> QED
  BY <1>2, <1>3, <1>4, <1>5, LocalMoves

\* MoveInv: a request is answered.
LEMMA AnswerMoves ==
  ASSUME TreeInv, MoveInv, NEW q \in Requests, Refused(q) \/ PutCloses(q) \/ Done(q)
  PROVE  MoveInv'
<1>1. /\ UNCHANGED <<store, calls>>
      /\ \A r \in Requests : r # q => pc'[r] = pc[r] /\ job'[r] = job[r] /\ began'[r] = began[r]
      /\ pc'[q] = "idle" /\ job'[q] = NoJob /\ disturbed' = disturbed \ {q}
  BY AnswerFacts
<1>2. \A f : Endangered(f)' => Endangered(f)
  BY <1>1, StillSafe
<1>3. MoveOK(q)'
  BY <1>1 DEF MoveOK, NoJob
<1> QED
  BY <1>1, <1>2, <1>3, LocalMoves

\* MoveInv: a request begins.
LEMMA BeginMoves ==
  ASSUME TreeInv, MoveInv, NEW q \in Requests,
         \/ \E f \in Files : PutBegins(q, f)
         \/ \E n \in Names : DeleteBegins(q, n)
         \/ \E src \in Names, dst \in Files, overwrite \in BOOLEAN : MoveBegins(q, src, dst, overwrite)
  PROVE  MoveInv'
<1>1. TypeOK /\ JobInv /\ CallInv /\ q # Nobody
  BY TreeAssumption DEF TreeInv
<1>2. ASSUME NEW f \in Files, PutBegins(q, f) PROVE MoveInv'
  <2>1. /\ pc' = [pc EXCEPT ![q] = "upload"] /\ job' = [job EXCEPT ![q] = [NoJob EXCEPT !.dst = f]]
        /\ UNCHANGED <<store, calls, began, disturbed>>
    BY <1>2 DEF PutBegins, Goto, data, history
  <2>2. job'[q].op = "put" /\ \A r \in Requests : r # q => pc'[r] = pc[r] /\ job'[r] = job[r]
    BY <1>1, <2>1 DEF TypeOK, NoJob
  <2>3. \A g : Endangered(g)' => Endangered(g)
    BY <2>1, <2>2, StillSafe
  <2>4. MoveOK(q)'
    BY <2>2 DEF MoveOK
  <2> QED
    BY <2>1, <2>2, <2>3, <2>4, LocalMoves
<1>3. ASSUME NEW n \in Names, DeleteBegins(q, n) PROVE MoveInv'
  <2>1. /\ pc' = [pc EXCEPT ![q] = "stat"]
        /\ job' = [job EXCEPT ![q] = [NoJob EXCEPT !.op = "delete", !.dst = n]]
        /\ UNCHANGED <<store, calls>>
        /\ disturbed' = IF n = Dir THEN {r \in Requests : r \in disturbed \/ Locked(r) \cap InDir # {}}
                        ELSE disturbed
    BY <1>3 DEF DeleteBegins, Goto, data
  <2>2. /\ pc'[q] = "stat" /\ job'[q].op = "delete" /\ job'[q].dst = n
        /\ \A r \in Requests : r # q => pc'[r] = pc[r] /\ job'[r] = job[r]
    BY <1>1, <2>1 DEF TypeOK, NoJob
  <2>3. \A r \in Requests : r # q => began'[r] = began[r]
    BY <1>1, <1>3 DEF DeleteBegins, TypeOK
  <2>4. ASSUME NEW r \in Requests, NEW f \in Files, r # q, f \in Locked(r), Endangered(f)', ~Endangered(f)
        PROVE  r \in disturbed'
    <3>1. n = Dir /\ f \in InDir
      BY <2>1, <2>2, <2>4 DEF Endangered
    <3> QED
      BY <2>1, <2>4, <3>1
  <2>5. \A r \in Requests : r \notin disturbed' => r \notin disturbed
    BY <2>1
  <2>6. MoveOK(q)'
    BY <2>2 DEF MoveOK
  <2> QED
    BY <2>1, <2>2, <2>3, <2>4, <2>5, <2>6, LocalMoves
<1>4. ASSUME NEW src \in Names, NEW dst \in Files, NEW overwrite \in BOOLEAN,
             MoveBegins(q, src, dst, overwrite)
      PROVE  MoveInv'
  <2>1. /\ pc[q] = "idle" /\ pc' = [pc EXCEPT ![q] = "stat"]
        /\ job' = [job EXCEPT ![q] = [op |-> "move", src |-> src, dst |-> dst, overwrite |-> overwrite]]
        /\ UNCHANGED <<store, calls>>
        /\ disturbed' = IF \E f \in {src, dst} \cap Files : Endangered(f) THEN disturbed \cup {q} ELSE disturbed
    BY <1>4 DEF MoveBegins, Goto, data
  <2>2. /\ pc'[q] = "stat" /\ job'[q].op = "move" /\ job'[q].src = src /\ job'[q].dst = dst
        /\ \A r \in Requests : r # q => pc'[r] = pc[r] /\ job'[r] = job[r]
    BY <1>1, <2>1 DEF TypeOK
  <2>3. began'[q] = Stored(Below(src)) /\ \A r \in Requests : r # q /\ job[r].op = "move" => began'[r] = began[r]
    BY <1>1, <1>4 DEF MoveBegins
  <2>4. \A g : Endangered(g)' => Endangered(g)
    BY <2>1, <2>2, StillSafe
  <2>5. \A c \in calls : c.by # q
    <3> SUFFICES ASSUME NEW c \in calls, c.by = q PROVE FALSE
      OBVIOUS
    <3>1. CallOK(c)
      BY <1>1 DEF CallInv
    <3> QED
      BY <1>1, <2>1, <3>1 DEF CallOK
  <2>6. MoveOK(q)'
    <3>1. src \in Files => Below(src) = {src}
      BY TreeAssumption DEF Below
    <3>2. Stored({src})' = Stored({src})
      BY <2>1 DEF Stored
    <3>3. src \in Files /\ q \notin disturbed' => ~Endangered(src)' /\ ~Endangered(dst)'
      BY <2>1, <2>4
    <3> QED
      BY <2>1, <2>2, <2>3, <2>5, <3>1, <3>2, <3>3 DEF MoveOK
  <2>7. \A r \in Requests : r \notin disturbed' => r \notin disturbed
    BY <2>1
  <2> QED
    BY <2>1, <2>2, <2>3, <2>4, <2>6, <2>7, LocalMoves
<1> QED
  BY <1>2, <1>3, <1>4

\* What the storing of a body changes.
LEMMA PutFacts ==
  ASSUME TreeInv, NEW q \in Requests, PutStores(q)
  PROVE  /\ pc[q] = "upload" /\ pc'[q] = "close" /\ job[q].op = "put" /\ job[q].dst \in Files
         /\ job[q].dst \in Locked(q)
         /\ \A r \in Requests : r # q => pc'[r] = pc[r]
         /\ puts' = puts + 1 /\ store'[job[q].dst] = puts'
         /\ \A f \in Files : f # job[q].dst => store'[f] = store[f]
         /\ owed' \subseteq owed \cup {puts'}
         /\ UNCHANGED <<listing, calls, job, todo, began, disturbed>>
<1>1. TypeOK /\ JobOK(q)
  BY DEF TreeInv, JobInv
<1>2. /\ pc[q] = "upload" /\ puts' = puts + 1 /\ store' = [store EXCEPT ![job[q].dst] = puts + 1]
      /\ owed' = OwedAfter({store[job[q].dst]}, puts + 1, job[q].dst)
      /\ pc' = [pc EXCEPT ![q] = "close"]
      /\ UNCHANGED <<listing, calls, job, todo, began, disturbed>>
  BY DEF PutStores, Goto, request
<1>3. job[q].op = "put" /\ job[q].dst \in Files /\ job[q].dst \in Locked(q)
  BY <1>1, <1>2 DEF JobOK, Locked
<1>4. pc'[q] = "close" /\ \A r \in Requests : r # q => pc'[r] = pc[r]
  BY <1>1, <1>2 DEF TypeOK
<1>5. store'[job[q].dst] = puts' /\ \A f \in Files : f # job[q].dst => store'[f] = store[f]
  BY <1>1, <1>2, <1>3 DEF TypeOK
<1>6. owed' \subseteq owed \cup {puts'}
  BY <1>2 DEF OwedAfter
<1> QED
  BY <1>2, <1>3, <1>4, <1>5, <1>6

\* MoveInv: a body is stored.
LEMMA PutMoves ==
  ASSUME TreeInv, MoveInv, NEW q \in Requests, PutStores(q)
  PROVE  MoveInv'
<1>1. /\ pc[q] = "upload" /\ pc'[q] = "close" /\ job[q].op = "put" /\ job[q].dst \in Files
      /\ job[q].dst \in Locked(q)
      /\ \A r \in Requests : r # q => pc'[r] = pc[r]
      /\ \A f \in Files : f # job[q].dst => store'[f] = store[f]
      /\ UNCHANGED <<listing, calls, job, todo, began, disturbed>>
  BY PutFacts
<1>2. \A f : Endangered(f)' => Endangered(f)
  BY <1>1, StillSafe
<1> SUFFICES ASSUME NEW r \in Requests PROVE MoveOK(r)'
  BY DEF MoveInv
<1>3. CASE r = q
  BY <1>1, <1>3 DEF MoveOK
<1>4. CASE r # q
  <2>1. MoveOK(r) /\ LockInv
    BY DEF MoveInv, TreeInv
  <2>2. job[q].dst \notin Locked(r)
    BY <1>1, <1>4, <2>1 DEF LockInv
  <2> QED
    BY <1>1, <1>2, <1>4, <2>1, <2>2, MoveFrame
<1> QED
  BY <1>3, <1>4

\* What the end of a call, or of its connection, changes.
LEMMA CallEndsFacts ==
  ASSUME TreeInv, NEW c \in calls, CallFails(c) \/ Break(c)
  PROVE  /\ UNCHANGED <<store, puts, listing, job, todo, owed, began, disturbed>>
         /\ \A r \in Requests : r # c.by => pc'[r] = pc[r]
         /\ c.by # Nobody => pc'[c.by] = IF c.kind = "delete" THEN "error" ELSE "failed"
         /\ calls \ {c} \subseteq calls'
         /\ \A d \in calls' :
              \/ d \in calls \ {c}
              \/ d.by = Nobody /\ c.by # Nobody /\ d.kind = c.kind /\ d.old = c.old /\ d.new = c.new
<1>1. TypeOK /\ c \in Call /\ c.by \in Requests \cup {Nobody}
  BY CallTypes DEF TreeInv
<1>2. PICK b : b = [c EXCEPT !.by = Nobody]
  OBVIOUS
<1>3. b.kind = c.kind /\ b.old = c.old /\ b.new = c.new /\ b.by = Nobody
  BY <1>1, <1>2 DEF Call
<1>4. /\ calls' = calls \ {c} \/ (calls' = (calls \ {c}) \cup {b} /\ c.by # Nobody)
      /\ Return(c, FALSE)
      /\ UNCHANGED <<store, puts, listing, job, todo, owed, began, disturbed>>
  BY <1>2 DEF CallFails, Break, data, request
<1>5. /\ \A r \in Requests : r # c.by => pc'[r] = pc[r]
      /\ c.by # Nobody => pc'[c.by] = IF c.kind = "delete" THEN "error" ELSE "failed"
  BY <1>1, <1>4 DEF Return, Goto, TypeOK
<1> QED
  BY <1>3, <1>4, <1>5

\* What a copy changes.
LEMMA CopyFacts ==
  ASSUME TreeInv, NEW c \in calls, CopyObject(c)
  PROVE  /\ c.kind = "rename" /\ c.old \in Files /\ c.new \in Files /\ c.new # c.old /\ store[c.old] # 0
         /\ store'[c.new] = store[c.old] /\ \A g \in Files : g # c.new => store'[g] = store[g]
         /\ owed' \subseteq owed /\ (Endangered(c.new) => store[c.old] \notin owed')
         /\ UNCHANGED <<puts, listing, job, todo, began, disturbed>>
         /\ \A r \in Requests : r # c.by => pc'[r] = pc[r]
         /\ c.by # Nobody => pc[c.by] = "renaming" /\ pc'[c.by] \in {"renaming", "failed"}
         /\ calls \ {c} \subseteq calls'
         /\ \A d \in calls' :
              \/ d \in calls \ {c}
              \/ d.by = c.by /\ d.kind = "copied" /\ d.old = c.old /\ d.new = c.new
<1>1. TypeOK /\ c \in Call /\ c.by \in Requests \cup {Nobody} /\ CallOK(c) /\ c.old \in Files /\ c.new \in Files
  BY CallTypes DEF TreeInv, CallInv
<1>2. PICK b : b = [c EXCEPT !.kind = "copied"]
  OBVIOUS
<1>3. b.kind = "copied" /\ b.old = c.old /\ b.new = c.new /\ b.by = c.by
  BY <1>1, <1>2 DEF Call
<1>4. /\ c.kind = "rename" /\ store[c.old] # 0 /\ store' = [store EXCEPT ![c.new] = store[c.old]]
      /\ owed' = owed \ (IF Endangered(c.new) THEN {store[c.old]} ELSE {})
      /\ UNCHANGED <<puts, listing, job, todo, began, disturbed>>
      /\ \/ calls' = (calls \ {c}) \cup {b} /\ UNCHANGED pc
         \/ calls' = calls \ {c} /\ Return(c, FALSE)
  BY <1>2 DEF CopyObject, request
<1>5. c.new # c.old /\ (c.by # Nobody => pc[c.by] = "renaming")
  BY <1>1, <1>4 DEF CallOK
<1>6. store'[c.new] = store[c.old] /\ \A g \in Files : g # c.new => store'[g] = store[g]
  BY <1>1, <1>4 DEF TypeOK
<1>7. owed' \subseteq owed /\ (Endangered(c.new) => store[c.old] \notin owed')
  BY <1>4
<1>8. /\ \A r \in Requests : r # c.by => pc'[r] = pc[r]
      /\ c.by # Nobody => pc'[c.by] \in {"renaming", "failed"}
  BY <1>1, <1>4, <1>5 DEF Return, Goto, TypeOK
<1> QED
  BY <1>1, <1>3, <1>4, <1>5, <1>6, <1>7, <1>8

\* What a removal changes.
LEMMA RemoveFacts ==
  ASSUME TreeInv, NEW c \in calls, RemoveObject(c)
  PROVE  /\ c.kind \in {"copied", "delete"} /\ c.old \in Files /\ calls' = calls \ {c}
         /\ store'[c.old] = 0 /\ \A g \in Files : g # c.old => store'[g] = store[g]
         /\ UNCHANGED <<puts, listing, job, todo, owed, began, disturbed>>
         /\ \A r \in Requests : r # c.by => pc'[r] = pc[r]
         /\ c.by # Nobody => /\ c.kind = "copied" => pc[c.by] = "renaming" /\ pc'[c.by] \in {"renamed", "failed"}
                             /\ c.kind = "delete" => pc[c.by] = "deleting" /\ pc'[c.by] \in {"remove", "error"}
<1>1. TypeOK /\ c.by \in Requests \cup {Nobody} /\ CallOK(c) /\ c.old \in Files
  BY CallTypes DEF TreeInv, CallInv
<1>2. PICK ok \in BOOLEAN :
        /\ c.kind \in {"copied", "delete"} /\ store' = [store EXCEPT ![c.old] = 0]
        /\ calls' = calls \ {c} /\ Return(c, ok)
        /\ UNCHANGED <<puts, listing, job, todo, owed, began, disturbed>>
  BY DEF RemoveObject, request
<1>3. store'[c.old] = 0 /\ \A g \in Files : g # c.old => store'[g] = store[g]
  BY <1>1, <1>2 DEF TypeOK
<1>4. /\ \A r \in Requests : r # c.by => pc'[r] = pc[r]
      /\ c.by # Nobody => /\ c.kind = "copied" => pc[c.by] = "renaming" /\ pc'[c.by] \in {"renamed", "failed"}
                          /\ c.kind = "delete" => pc[c.by] = "deleting" /\ pc'[c.by] \in {"remove", "error"}
  BY <1>1, <1>2 DEF Return, Goto, TypeOK, CallOK
<1> QED
  BY <1>1, <1>2, <1>3, <1>4

\* Other calls than c are other requests', or nobody's.
LEMMA OneCall ==
  ASSUME TreeInv, NEW c \in calls, c.by # Nobody
  PROVE  c.by \in Requests /\ CallOK(c) /\ \A d \in calls \ {c} : d.by # c.by
<1>1. TypeOK /\ CallInv
  BY DEF TreeInv
<1> QED
  BY <1>1, CallTypes DEF CallInv

\* MoveInv: a call ends, or its connection.
LEMMA CallEndsMoves ==
  ASSUME TreeInv, MoveInv, NEW c \in calls, CallFails(c) \/ Break(c)
  PROVE  MoveInv'
<1>1. /\ UNCHANGED <<store, puts, listing, job, todo, owed, began, disturbed>>
      /\ \A r \in Requests : r # c.by => pc'[r] = pc[r]
      /\ c.by # Nobody => pc'[c.by] = IF c.kind = "delete" THEN "error" ELSE "failed"
      /\ calls \ {c} \subseteq calls'
      /\ \A d \in calls' :
           \/ d \in calls \ {c}
           \/ d.by = Nobody /\ c.by # Nobody /\ d.kind = c.kind /\ d.old = c.old /\ d.new = c.new
  BY CallEndsFacts
<1>2. JobInv /\ Nobody \notin Requests
  BY TreeAssumption DEF TreeInv
<1> SUFFICES ASSUME NEW r \in Requests PROVE MoveOK(r)'
  BY DEF MoveInv
<1>3. MoveOK(r)
  BY DEF MoveInv
<1>4. CASE r # c.by
  <2>1. \A d \in calls' : d.by = r => d \in calls
    BY <1>1, <1>2
  <2>2. ASSUME NEW f \in Files, f \in Locked(r), ~Endangered(f) PROVE ~Endangered(f)'
    <3> SUFFICES ASSUME Endangered(f)' PROVE FALSE
      OBVIOUS
    <3>1. ~\E q \in Requests : pc'[q] # "idle" /\ job'[q].op = "delete" /\ job'[q].dst = Dir /\ f \in InDir
      <4>1. \A q \in Requests : pc'[q] # "idle" => job[q].op # "delete" \/ pc[q] # "idle"
        BY <1>2 DEF JobInv, JobOK
      <4> QED
        BY <1>1, <2>2, <4>1 DEF Endangered
    <3>2. PICK d \in calls' : d.by = Nobody /\ f \in {d.old, d.new}
      BY <3>1 DEF Endangered
    <3>3. d \notin calls
      BY <2>2, <3>2 DEF Endangered
    <3>4. f \in {c.old, c.new}
      BY <1>1, <3>2, <3>3
    <3> QED
      BY <1>4, <2>2, <3>4, CallGuard
  <2> QED
    BY <1>1, <1>3, <1>4, <2>1, <2>2, MoveFrame
<1>5. CASE r = c.by
  <2>1. CallOK(c) /\ \A d \in calls \ {c} : d.by # r
    BY <1>2, <1>5, OneCall
  <2>2. \A d \in calls' : d.by # r
    BY <1>1, <1>2, <2>1
  <2>3. pc'[r] \in {"failed", "error"} /\ (pc'[r] = "failed" => pc[r] = "renaming")
    BY <1>1, <1>2, <1>5, <2>1 DEF CallOK
  <2> QED
    BY <1>1, <1>3, <2>2, <2>3 DEF MoveOK
<1> QED
  BY <1>4, <1>5

\* MoveInv: a file is copied.
LEMMA CopyMoves ==
  ASSUME TreeInv, MoveInv, NEW c \in calls, CopyObject(c)
  PROVE  MoveInv'
<1>1. /\ c.kind = "rename" /\ c.old \in Files /\ c.new \in Files /\ c.new # c.old /\ store[c.old] # 0
      /\ store'[c.new] = store[c.old] /\ \A g \in Files : g # c.new => store'[g] = store[g]
      /\ UNCHANGED <<puts, listing, job, todo, began, disturbed>>
      /\ \A r \in Requests : r # c.by => pc'[r] = pc[r]
      /\ c.by # Nobody => pc[c.by] = "renaming" /\ pc'[c.by] \in {"renaming", "failed"}
      /\ \A d \in calls' :
           \/ d \in calls \ {c}
           \/ d.by = c.by /\ d.kind = "copied" /\ d.old = c.old /\ d.new = c.new
  BY CopyFacts
<1>2. \A f : Endangered(f)' => Endangered(f)
  <2>1. \A q \in Requests : pc'[q] # "idle" => pc[q] # "idle"
    BY <1>1, TreeAssumption
  <2> QED
    BY <1>1, <2>1, StillSafe
<1> SUFFICES ASSUME NEW r \in Requests PROVE MoveOK(r)'
  BY DEF MoveInv
<1>3. MoveOK(r) /\ Nobody \notin Requests
  BY TreeAssumption DEF MoveInv
<1>4. CASE r # c.by
  <2>1. \A d \in calls' : d.by = r => d \in calls
    BY <1>1, <1>4
  <2>2. \A f \in Files : f \in Locked(r) /\ ~Endangered(f) => f # c.new
    BY <1>4, CallGuard
  <2> QED
    BY <1>1, <1>2, <1>3, <1>4, <2>1, <2>2, MoveFrame
<1>5. CASE r = c.by
  <2>1. CallOK(c) /\ \A d \in calls \ {c} : d.by # r
    BY <1>3, <1>5, OneCall
  <2>2. c.old = job[r].src /\ c.new = job[r].dst /\ pc[r] = "renaming"
    BY <1>1, <1>3, <1>5, <2>1 DEF CallOK
  <2>3. \A d \in calls' : d.by = r => store'[d.new] = store'[d.old] /\ store'[d.old] # 0
    BY <1>1, <2>1
  <2>4. Stored({job[r].src})' = Stored({job[r].src})
    BY <1>1, <2>2 DEF Stored
  <2>5. pc'[r] \in {"renaming", "failed"}
    BY <1>1, <1>3, <1>5
  <2> QED
    BY <1>1, <1>2, <1>3, <2>2, <2>3, <2>4, <2>5 DEF MoveOK
<1> QED
  BY <1>4, <1>5

\* MoveInv: a file is removed.
LEMMA RemoveMoves ==
  ASSUME TreeInv, MoveInv, NEW c \in calls, RemoveObject(c)
  PROVE  MoveInv'
<1>1. /\ c.kind \in {"copied", "delete"} /\ c.old \in Files /\ calls' = calls \ {c}
      /\ store'[c.old] = 0 /\ \A g \in Files : g # c.old => store'[g] = store[g]
      /\ UNCHANGED <<puts, listing, job, todo, owed, began, disturbed>>
      /\ \A r \in Requests : r # c.by => pc'[r] = pc[r]
      /\ c.by # Nobody => /\ c.kind = "copied" => pc[c.by] = "renaming" /\ pc'[c.by] \in {"renamed", "failed"}
                          /\ c.kind = "delete" => pc[c.by] = "deleting" /\ pc'[c.by] \in {"remove", "error"}
  BY RemoveFacts
<1>2. \A f : Endangered(f)' => Endangered(f)
  <2>1. \A q \in Requests : pc'[q] # "idle" => pc[q] # "idle"
    BY <1>1, TreeAssumption
  <2> QED
    BY <1>1, <2>1, StillSafe
<1> SUFFICES ASSUME NEW r \in Requests PROVE MoveOK(r)'
  BY DEF MoveInv
<1>3. MoveOK(r) /\ JobOK(r) /\ Nobody \notin Requests
  BY TreeAssumption DEF MoveInv, TreeInv, JobInv
<1>4. CASE r # c.by
  <2>1. \A f \in Files : f \in Locked(r) /\ ~Endangered(f) => f # c.old
    BY <1>4, CallGuard
  <2> QED
    BY <1>1, <1>2, <1>3, <1>4, <2>1, MoveFrame
<1>5. CASE r = c.by
  <2>1. CallOK(c) /\ \A d \in calls' : d.by # r
    BY <1>1, <1>3, <1>5, OneCall
  <2> SUFFICES ASSUME job[r].op = "move" PROVE MoveOK(r)'
    BY <1>1 DEF MoveOK
  <2>2. job[r].dst \in Files /\ job[r].src # job[r].dst
    BY <1>3 DEF JobOK
  <2>3. CASE c.kind = "copied"
    <3>1. c.old = job[r].src /\ c.new = job[r].dst /\ pc[r] = "renaming" /\ pc'[r] \in {"renamed", "failed"}
      BY <1>1, <1>3, <1>5, <2>1, <2>3 DEF CallOK
    <3>2. r \notin disturbed =>
            /\ ~Endangered(job[r].src) /\ ~Endangered(job[r].dst)
            /\ began[r] = Stored({job[r].src}) /\ store[c.new] = store[c.old] /\ store[c.old] # 0
      BY <1>1, <1>3, <1>5, <2>3, <3>1 DEF MoveOK
    <3>3. r \notin disturbed => began[r] = {store'[job[r].dst]} /\ store'[job[r].src] = 0
      BY <1>1, <2>2, <3>1, <3>2 DEF Stored
    <3> QED
      BY <1>1, <1>2, <2>1, <3>1, <3>2, <3>3 DEF MoveOK
  <2>4. CASE c.kind = "delete"
    <3>1. c.old = job[r].dst /\ pc[r] = "deleting" /\ pc'[r] \in {"remove", "error"}
      BY <1>1, <1>3, <1>5, <2>1, <2>2, <2>4, TreeAssumption DEF CallOK, Below
    <3>2. job[r].src \in Files => Stored({job[r].src})' = Stored({job[r].src})
      BY <1>1, <2>2, <3>1 DEF Stored
    <3> QED
      BY <1>1, <1>2, <1>3, <2>1, <3>1, <3>2 DEF MoveOK
  <2> QED
    BY <1>1, <2>3, <2>4
<1> QED
  BY <1>4, <1>5

\* What a step of the listings changes.
LEMMA ListingFacts ==
  ASSUME TreeInv, ListingStep
  PROVE  /\ UNCHANGED <<store, puts, calls, pc, job, todo, owed, began, disturbed>>
         /\ \A f \in InDir : store[f] # 0 /\ Shown(f) => Shown(f)'
<1>1. TypeOK
  BY DEF TreeInv
<1>2. ASSUME NEW d \in {Root, Dir}, Browse(d), NEW f \in InDir, store[f] # 0, Shown(f) PROVE Shown(f)'
  <2>1. CASE d = Dir
    <3>1. f \in Names /\ Parent(f) = Dir /\ Exists(f)
      BY <1>2, TreeAssumption DEF Names, Parent, Exists, Below
    <3>2. f \in Entries(Dir)
      BY <3>1 DEF Entries
    <3>3. listing'[Dir] \in {Entries(Dir), {}}
      BY <1>1, <1>2, <2>1 DEF Browse, TypeOK
    <3> QED
      BY <3>2, <3>3 DEF Shown
  <2>2. CASE d # Dir
    BY <1>1, <1>2, <2>2 DEF Browse, Shown, TypeOK
  <2> QED
    BY <2>1, <2>2
<1>3. ASSUME NEW d \in {Root, Dir}, CleanupCache(d), NEW f \in InDir, Shown(f) PROVE Shown(f)'
  BY <1>1, <1>3 DEF CleanupCache, Shown, TypeOK
<1>4. UNCHANGED <<store, puts, calls, pc, job, todo, owed, began, disturbed>>
  BY DEF ListingStep, Browse, CleanupCache, data, request, history
<1> QED
  BY <1>2, <1>3, <1>4 DEF ListingStep

\* What the beginning of a request changes.
LEMMA BeginFacts ==
  ASSUME TreeInv, NEW q \in Requests,
         \/ \E f \in Files : PutBegins(q, f)
         \/ \E n \in Names : DeleteBegins(q, n)
         \/ \E src \in Names, dst \in Files, overwrite \in BOOLEAN : MoveBegins(q, src, dst, overwrite)
  PROVE  /\ UNCHANGED <<store, puts, listing, calls, todo>> /\ owed' \subseteq owed
         /\ pc[q] = "idle" /\ pc'[q] \in {"upload", "stat"}
         /\ \A r \in Requests : r # q => pc'[r] = pc[r] /\ job'[r] = job[r]
<1>1. TypeOK
  BY DEF TreeInv
<1>2. PICK step \in {"upload", "stat"}, j \in Job : pc' = [pc EXCEPT ![q] = step] /\ job' = [job EXCEPT ![q] = j]
  <2>1. \A f \in Files : [NoJob EXCEPT !.dst = f] \in Job
    BY DEF NoJob, Job, Names
  <2>2. \A n \in Names : [NoJob EXCEPT !.op = "delete", !.dst = n] \in Job
    BY DEF NoJob, Job, Names
  <2>3. \A src \in Names, dst \in Files, overwrite \in BOOLEAN :
          [op |-> "move", src |-> src, dst |-> dst, overwrite |-> overwrite] \in Job
    BY DEF Job, Names
  <2> QED
    BY <2>1, <2>2, <2>3 DEF PutBegins, DeleteBegins, MoveBegins, Goto
<1>3. /\ UNCHANGED <<store, puts, listing, calls, todo>> /\ owed' \subseteq owed /\ pc[q] = "idle"
  BY DEF PutBegins, DeleteBegins, MoveBegins, data, history
<1> QED
  BY <1>1, <1>2, <1>3 DEF TypeOK

\* ShownInv: every step.
LEMMA ShownStep ==
  ASSUME WholeInv, Next
  PROVE  ShownInv'
<1>1. TreeInv /\ TypeOK /\ NumberInv /\ JobInv /\ ShownInv /\ InDir \subseteq Files /\ Nobody \notin Requests
  BY TreeAssumption DEF WholeInv, TreeInv
<1> SUFFICES ASSUME NEW f \in InDir, store'[f] \in owed', ~Writing(f)' PROVE Shown(f)'
  BY DEF ShownInv
<1>2. f \in Files /\ 0 \notin owed /\ 0 \notin owed'
  <2>1. TreeInv'
    BY <1>1, TreeStep
  <2> QED
    BY <1>1, <2>1 DEF TreeInv, TypeOK
<1>3. CASE ListingStep
  <2>1. UNCHANGED <<store, pc, job, owed>> /\ (store[f] # 0 /\ Shown(f) => Shown(f)')
    BY <1>1, <1>3, ListingFacts
  <2>2. ~Writing(f)
    BY <2>1 DEF Writing
  <2> QED
    BY <1>1, <1>2, <2>1, <2>2 DEF ShownInv
<1>4. ASSUME NEW q \in Requests, Advance(q) PROVE Shown(f)'
  <2>1. /\ UNCHANGED store /\ owed' \subseteq owed
        /\ \A r \in Requests : r # q => pc'[r] = pc[r]
        /\ \A r \in Requests : job'[r].dst = job[r].dst
        /\ Follows(pc[q], pc'[q]) /\ (Shown(f) => Shown(f)')
        /\ pc[q] \in {"renamed", "failed"} /\ f = job[q].dst => Shown(f)'
    BY <1>1, <1>4, AdvanceFacts
  <2>2. Writing(f) => pc[q] \in {"renamed", "failed"} /\ f = job[q].dst
    BY <2>1 DEF Writing, Follows
  <2> QED
    BY <1>1, <2>1, <2>2 DEF ShownInv
<1>5. ASSUME NEW q \in Requests, Refused(q) \/ PutCloses(q) \/ Done(q) PROVE Shown(f)'
  <2>1. /\ UNCHANGED <<store, owed>>
        /\ \A r \in Requests : r # q => pc'[r] = pc[r] /\ job'[r] = job[r]
        /\ pc[q] \notin {"renaming", "renamed", "failed"} /\ (Shown(f) => Shown(f)')
        /\ pc[q] = "close" /\ f = job[q].dst => Shown(f)'
    BY <1>1, <1>5, AnswerFacts
  <2>2. Writing(f) => pc[q] = "close" /\ f = job[q].dst
    BY <2>1 DEF Writing
  <2> QED
    BY <1>1, <2>1, <2>2 DEF ShownInv
<1>6. ASSUME NEW q \in Requests,
             \/ \E g \in Files : PutBegins(q, g)
             \/ \E n \in Names : DeleteBegins(q, n)
             \/ \E src \in Names, dst \in Files, overwrite \in BOOLEAN : MoveBegins(q, src, dst, overwrite)
      PROVE  Shown(f)'
  <2>1. /\ UNCHANGED <<store, listing>> /\ owed' \subseteq owed /\ pc[q] = "idle"
        /\ \A r \in Requests : r # q => pc'[r] = pc[r] /\ job'[r] = job[r]
    BY <1>1, <1>6, BeginFacts
  <2>2. ~Writing(f)
    BY <2>1 DEF Writing
  <2> QED
    BY <1>1, <2>1, <2>2 DEF ShownInv, Shown
<1>7. ASSUME NEW q \in Requests, PutStores(q) PROVE Shown(f)'
  <2>1. /\ pc'[q] = "close" /\ pc[q] = "upload" /\ \A r \in Requests : r # q => pc'[r] = pc[r]
        /\ UNCHANGED <<listing, job>> /\ owed' \subseteq owed \cup {puts'} /\ puts' = puts + 1
        /\ f # job[q].dst => store'[f] = store[f]
    BY <1>1, <1>2, <1>7, PutFacts
  <2>2. f # job[q].dst /\ ~Writing(f)
    BY <2>1 DEF Writing
  <2>3. store[f] # puts'
    BY <1>1, <1>2, <2>1 DEF NumberInv, TypeOK, Version
  <2> QED
    BY <1>1, <2>1, <2>2, <2>3 DEF ShownInv, Shown
<1>8. ASSUME NEW c \in calls, CallFails(c) \/ Break(c) PROVE Shown(f)'
  <2>1. /\ UNCHANGED <<store, listing, job, owed>>
        /\ \A r \in Requests : r # c.by => pc'[r] = pc[r]
        /\ c.by # Nobody => pc'[c.by] = IF c.kind = "delete" THEN "error" ELSE "failed"
    BY <1>1, <1>8, CallEndsFacts
  <2>2. c.by # Nobody => CallOK(c)
    BY <1>1, OneCall
  <2>3. ~Writing(f)
    BY <1>1, <2>1, <2>2 DEF Writing, CallOK
  <2> QED
    BY <1>1, <2>1, <2>3 DEF ShownInv, Shown
<1>9. ASSUME NEW c \in calls, CopyObject(c) PROVE Shown(f)'
  <2>1. /\ c.kind = "rename" /\ store'[c.new] = store[c.old] /\ (f # c.new => store'[f] = store[f])
        /\ owed' \subseteq owed /\ (Endangered(c.new) => store[c.old] \notin owed')
        /\ UNCHANGED <<listing, job>>
        /\ \A r \in Requests : r # c.by => pc'[r] = pc[r]
        /\ c.by # Nobody => pc[c.by] = "renaming" /\ pc'[c.by] \in {"renaming", "failed"}
    BY <1>1, <1>2, <1>9, CopyFacts
  <2>2. f # c.new
    <3> SUFFICES ASSUME f = c.new PROVE FALSE
      OBVIOUS
    <3>1. CASE c.by = Nobody
      BY <2>1, <3>1 DEF Endangered
    <3>2. CASE c.by # Nobody
      <4>1. c.by \in Requests /\ job[c.by].dst = f
        BY <1>1, <2>1, <3>2, OneCall DEF CallOK
      <4> QED
        BY <2>1, <3>2, <4>1 DEF Writing
    <3> QED
      BY <3>1, <3>2
  <2>3. ~Writing(f)
    BY <1>1, <2>1 DEF Writing
  <2> QED
    BY <1>1, <2>1, <2>2, <2>3 DEF ShownInv, Shown
<1>10. ASSUME NEW c \in calls, RemoveObject(c) PROVE Shown(f)'
  <2>1. /\ c.kind \in {"copied", "delete"}
        /\ store'[c.old] = 0 /\ (f # c.old => store'[f] = store[f])
        /\ UNCHANGED <<listing, job, owed>>
        /\ \A r \in Requests : r # c.by => pc'[r] = pc[r]
        /\ c.by # Nobody => /\ c.kind = "copied" => pc[c.by] = "renaming" /\ pc'[c.by] \in {"renamed", "failed"}
                            /\ c.kind = "delete" => pc[c.by] = "deleting" /\ pc'[c.by] \in {"remove", "error"}
    BY <1>1, <1>2, <1>10, RemoveFacts
  <2>2. f # c.old
    BY <1>2, <2>1
  <2>3. ~Writing(f)
    BY <1>1, <2>1 DEF Writing
  <2> QED
    BY <1>1, <2>1, <2>2, <2>3 DEF ShownInv, Shown
<1> QED
  BY <1>3, <1>4, <1>5, <1>6, <1>7, <1>8, <1>9, <1>10
     DEF Next, PutStep, DeleteStep, MoveStep, ServerStep, Advance

\* What others do leaves a DELETE what it has still to find: they bring nothing of it to a file.
LEMMA GoneFrame ==
  ASSUME TreeInv, NEW r \in Requests, GoneOK(r),
         pc'[r] = pc[r], job'[r].op = job[r].op, job'[r].dst = job[r].dst, todo'[r] = todo[r],
         job[r].op = "delete" =>
           /\ began'[r] \subseteq began[r] /\ puts' \in {puts, puts + 1}
           /\ \A f \in Files : store'[f] = store[f] \/ store'[f] \notin began[r]
           /\ \A f \in InDir : store[f] # 0 /\ Shown(f) => Shown(f)'
           /\ \A c \in calls : c.by = r => c \in calls'
  PROVE  GoneOK(r)'
<1> SUFFICES ASSUME job[r].op = "delete" PROVE GoneOK(r)'
  BY DEF GoneOK
<1>1. TypeOK /\ Below(job[r].dst) \subseteq Files
  BY JobTypes DEF TreeInv
<1>2. began'[r] \subseteq 1 .. puts'
  <2>1. puts \in Nat /\ began[r] \subseteq 1 .. puts
    BY <1>1 DEF TypeOK, Version, GoneOK
  <2> QED
    BY <2>1
<1>3. ASSUME NEW f \in Below(job[r].dst), store'[f] \in began'[r]
      PROVE  /\ f \in Files /\ store[f] \in began[r] /\ store[f] # 0
             /\ f \in InDir /\ Shown(f) => Shown(f)'
  BY <1>1, <1>3 DEF GoneOK
<1>4. Below(job[r].dst) \subseteq InDir \/ job[r].dst # Dir
  BY DEF Below
<1> QED
  BY <1>2, <1>3, <1>4 DEF GoneOK

\* Nor do they rename what it has to find.
LEMMA StillFrame ==
  ASSUME TreeInv, NEW r \in Requests, StillOK(r), job'[r].op = job[r].op,
         job[r].op = "delete" =>
           /\ began'[r] \subseteq began[r]
           /\ \A f \in Files : store'[f] = store[f] \/ store'[f] \notin began[r]
           /\ \A c \in calls' : c.kind # "delete" => c.old \in Files /\ store[c.old] \notin began'[r]
           /\ \A q \in Requests : job'[q].op = "move" /\ job'[q].src \in Files =>
                store[job'[q].src] \notin began'[r]
  PROVE  StillOK(r)'
<1> SUFFICES ASSUME job[r].op = "delete" PROVE StillOK(r)'
  BY DEF StillOK
<1>1. \A c \in calls' : c.kind # "delete" => store'[c.old] \notin began'[r]
  OBVIOUS
<1>2. \A q \in Requests : job'[q].op = "move" /\ job'[q].src \in Files => store'[job'[q].src] \notin began'[r]
  OBVIOUS
<1> QED
  BY <1>1, <1>2 DEF StillOK

\* GoneInv: the listings.
LEMMA ListingGone ==
  ASSUME WholeInv, ListingStep
  PROVE  GoneInv'
<1>1. TreeInv /\ GoneInv /\ TypeOK
  BY DEF WholeInv, TreeInv
<1>2. /\ UNCHANGED <<store, puts, calls, pc, job, todo, owed, began, disturbed>>
      /\ \A f \in InDir : store[f] # 0 /\ Shown(f) => Shown(f)'
  BY <1>1, ListingFacts
<1> SUFFICES ASSUME NEW r \in Requests PROVE GoneOK(r)' /\ StillOK(r)'
  BY DEF GoneInv
<1>3. GoneOK(r) /\ StillOK(r)
  BY <1>1 DEF GoneInv
<1>4. GoneOK(r)'
  BY <1>1, <1>2, <1>3, GoneFrame
<1>5. StillOK(r)'
  BY <1>2, <1>3 DEF StillOK
<1> QED
  BY <1>4, <1>5

\* GoneInv: a request goes on.
LEMMA AdvanceGone ==
  ASSUME WholeInv, NEW q \in Requests, Advance(q)
  PROVE  GoneInv'
<1>1. TreeInv /\ GoneInv /\ TypeOK /\ JobInv
  BY DEF WholeInv, TreeInv
<1>2. /\ UNCHANGED <<store, puts, began, disturbed>>
      /\ \A r \in Requests : r # q => pc'[r] = pc[r] /\ todo'[r] = todo[r]
      /\ \A r \in Requests :
           job'[r].op = job[r].op /\ job'[r].src = job[r].src /\ job'[r].dst = job[r].dst
      /\ Follows(pc[q], pc'[q])
      /\ pc[q] = "stat" => pc'[q] = "list" \/ job[q].op = "move"
      /\ pc[q] = "remove" /\ pc'[q] # "deleting" => todo[q] = {} /\ (pc'[q] = "deleted" <=> job[q].op # "move")
      /\ calls \subseteq calls'
      /\ \A c \in calls' \ calls :
           c.by = q /\ c.kind # "copied" /\ (c.kind = "rename" => c.old = job[q].src /\ pc[q] = "rename")
      /\ \A f : Shown(f) => Shown(f)'
  BY <1>1, AdvanceFacts
<1>3. \A c \in calls' : c.old \in Files /\ c.kind \in {"rename", "copied", "delete"}
  <2>1. TypeOK'
    BY <1>1, TreeStep DEF TreeInv, Next, PutStep, DeleteStep, MoveStep, Advance
  <2> QED
    BY <2>1 DEF TypeOK, Call
<1> SUFFICES ASSUME NEW r \in Requests PROVE GoneOK(r)' /\ StillOK(r)'
  BY DEF GoneInv
<1>4. GoneOK(r) /\ StillOK(r) /\ JobOK(r) /\ JobOK(q) /\ job[r].op \in {"put", "move", "delete"}
  BY <1>1, JobTypes DEF GoneInv, JobInv
<1>5. StillOK(r)'
  <2>1. ASSUME NEW c \in calls', c.kind # "delete", job[r].op = "delete" PROVE store[c.old] \notin began[r]
    <3>1. CASE c \in calls
      BY <1>4, <2>1, <3>1 DEF StillOK
    <3>2. CASE c \notin calls
      <4>1. c.old = job[q].src /\ job[q].src \in Files /\ job[q].op = "move"
        BY <1>2, <1>3, <1>4, <2>1, <3>2 DEF JobOK
      <4> QED
        BY <1>4, <2>1, <4>1 DEF StillOK
    <3> QED
      BY <3>1, <3>2
  <2>2. \A p \in Requests : job[r].op = "delete" /\ job'[p].op = "move" /\ job'[p].src \in Files =>
          store[job'[p].src] \notin began[r]
    BY <1>2, <1>4 DEF StillOK
  <2> QED
    BY <1>1, <1>2, <1>3, <1>4, <2>1, <2>2, StillFrame
<1>6. CASE r # q
  <2>1. GoneOK(r)'
    BY <1>1, <1>2, <1>4, <1>6, GoneFrame
  <2> QED
    BY <1>5, <2>1
<1>7. CASE r = q /\ job[q].op # "delete"
  <2>1. pc'[q] # "deleted"
    BY <1>2, <1>4, <1>7 DEF Follows, JobOK
  <2> QED
    BY <1>2, <1>5, <1>7, <2>1 DEF GoneOK
<1>8. CASE r = q /\ job[q].op = "delete"
  <2>1. \/ pc[q] = "stat" /\ pc'[q] = "list"
        \/ pc[q] = "list" /\ pc'[q] = "remove"
        \/ pc[q] = "remove" /\ pc'[q] \in {"deleting", "deleted"}
    <3>1. pc[q] \notin {"upload", "rename", "renamed", "failed"}
      BY <1>4, <1>8 DEF JobOK
    <3>2. pc[q] = "stat" => pc'[q] = "list"
      BY <1>2, <1>8
    <3>3. pc[q] = "remove" => pc'[q] # "rename"
      BY <1>2, <1>8
    <3> QED
      BY <1>2, <3>1, <3>2, <3>3 DEF Follows
  <2>2. began[q] \subseteq 1 .. puts
    BY <1>4, <1>8 DEF GoneOK
  <2>3. CASE pc[q] = "stat" /\ pc'[q] = "list"
    <3>1. \A f \in Below(job[q].dst) : store[f] \in began[q] => (job[q].dst = Dir => Shown(f)')
      BY <1>2, <1>4, <1>8, <2>3 DEF GoneOK
    <3>2. GoneOK(q)'
      BY <1>2, <1>8, <2>2, <2>3, <3>1 DEF GoneOK
    <3> QED
      BY <1>5, <1>8, <3>2
  <2>4. CASE pc[q] = "list" /\ pc'[q] = "remove"
    <3>1. /\ job[q].dst = Dir => listing[Dir] # None /\ (listing[Dir] = {} => Entries(Dir) = {})
          /\ todo'[q] = IF job[q].dst = Dir THEN listing[Dir] ELSE {job[q].dst}
      <4>1. ListRecursive(q)
        BY <1>1, <2>4 DEF Advance, PutFails, StatTarget, RemoveAllEnds, Rename, RenameAnswered, Delete
      <4> QED
        BY <1>1, <4>1 DEF ListRecursive, TypeOK
    <3>2. \A f \in Below(job[q].dst) : store[f] \in began[q] => f \in todo'[q]
      <4>1. CASE job[q].dst = Dir /\ listing[Dir] = {}
        <5>1. \A f \in InDir : store[f] = 0
          BY <3>1, <4>1, TreeAssumption DEF Entries, Exists, Below, Parent, Names
        <5> QED
          BY <2>2, <4>1, <5>1 DEF Below
      <4>2. CASE job[q].dst = Dir /\ listing[Dir] # {}
        BY <1>4, <1>8, <2>4, <3>1, <4>2 DEF GoneOK, Shown, Below
      <4>3. CASE job[q].dst # Dir
        BY <3>1, <4>3 DEF Below
      <4> QED
        BY <4>1, <4>2, <4>3
    <3>3. GoneOK(q)'
      BY <1>2, <1>8, <2>2, <2>4, <3>2 DEF GoneOK
    <3> QED
      BY <1>5, <1>8, <3>3
  <2>5. CASE pc[q] = "remove" /\ pc'[q] = "deleting"
    <3>1. PICK f \in todo[q] : Delete(q, f)
      BY <1>1, <2>5 DEF Advance, PutFails, StatTarget, ListRecursive, RemoveAllEnds, Goto, Rename, RenameAnswered, TypeOK
    <3>2. todo'[q] = todo[q] \ {f} /\ \E c \in calls' : c.by = q /\ c.old = f
      <4>1. todo'[q] = todo[q] \ {f}
        BY <1>1, <3>1 DEF Delete, TypeOK
      <4>2. PICK c : c = [kind |-> "delete", old |-> f, new |-> f, by |-> q]
        OBVIOUS
      <4>3. c \in calls' /\ c.by = q /\ c.old = f
        BY <3>1, <4>2 DEF Delete
      <4> QED
        BY <4>1, <4>3
    <3>3. \A g \in Below(job[q].dst) : store[g] \in began[q] =>
            g \in todo'[q] \/ \E c \in calls' : c.by = q /\ c.old = g
      BY <1>4, <1>8, <2>5, <3>2 DEF GoneOK
    <3>4. GoneOK(q)'
      BY <1>2, <1>8, <2>2, <2>5, <3>3 DEF GoneOK
    <3> QED
      BY <1>5, <1>8, <3>4
  <2>6. CASE pc[q] = "remove" /\ pc'[q] = "deleted"
    <3>1. todo[q] = {}
      BY <1>2, <2>6
    <3>2. \A g \in Below(job[q].dst) : store[g] \notin began[q]
      BY <1>4, <1>8, <2>6, <3>1 DEF GoneOK
    <3>3. GoneOK(q)'
      BY <1>2, <1>8, <2>2, <2>6, <3>2 DEF GoneOK
    <3> QED
      BY <1>5, <1>8, <3>3
  <2> QED
    BY <2>1, <2>3, <2>4, <2>5, <2>6
<1> QED
  BY <1>6, <1>7, <1>8

\* GoneInv: a request is answered.
LEMMA AnswerGone ==
  ASSUME WholeInv, NEW q \in Requests, Refused(q) \/ PutCloses(q) \/ Done(q)
  PROVE  GoneInv'
<1>1. TreeInv /\ GoneInv /\ TypeOK
  BY DEF WholeInv, TreeInv
<1>2. /\ UNCHANGED <<store, puts, calls, owed>>
      /\ \A r \in Requests : r # q => /\ pc'[r] = pc[r] /\ job'[r] = job[r] /\ todo'[r] = todo[r]
                                      /\ began'[r] = began[r]
      /\ pc'[q] = "idle" /\ job'[q].op = "put"
      /\ \A f : Shown(f) => Shown(f)'
  BY <1>1, AnswerFacts DEF NoJob
<1> SUFFICES ASSUME NEW r \in Requests PROVE GoneOK(r)' /\ StillOK(r)'
  BY DEF GoneInv
<1>3. CASE r = q
  BY <1>2, <1>3 DEF GoneOK, StillOK
<1>4. CASE r # q
  <2>1. GoneOK(r) /\ StillOK(r)
    BY <1>1 DEF GoneInv
  <2>2. GoneOK(r)'
    BY <1>1, <1>2, <1>4, <2>1, GoneFrame
  <2>3. StillOK(r)'
    BY <1>2, <1>4, <2>1 DEF StillOK
  <2> QED
    BY <2>2, <2>3
<1> QED
  BY <1>3, <1>4

\* GoneInv: a request begins.
LEMMA BeginGone ==
  ASSUME WholeInv, NEW q \in Requests,
         \/ \E f \in Files : PutBegins(q, f)
         \/ \E n \in Names : DeleteBegins(q, n)
         \/ \E src \in Names, dst \in Files, overwrite \in BOOLEAN : MoveBegins(q, src, dst, overwrite)
  PROVE  GoneInv'
<1>1. /\ TreeInv /\ GoneInv /\ ShownInv /\ TypeOK /\ NumberInv /\ JobInv /\ CallInv
      /\ Nobody \notin Requests
  BY TreeAssumption DEF WholeInv, TreeInv
<1>2. /\ UNCHANGED <<store, puts, listing, calls, todo>>
      /\ pc[q] = "idle" /\ pc'[q] \in {"upload", "stat"}
      /\ \A r \in Requests : r # q => pc'[r] = pc[r] /\ job'[r] = job[r]
  BY <1>1, BeginFacts
<1>3. \A c \in calls : c.old \in Files
  BY <1>1, CallTypes
<1>4. \A f : Shown(f)' = Shown(f)
  BY <1>2 DEF Shown
<1>5. ASSUME NEW r \in Requests, r # q, began'[r] \subseteq began[r] \/ job[r].op # "delete",
             job[r].op = "delete" /\ job'[q].op = "move" /\ job'[q].src \in Files =>
               store[job'[q].src] \notin began'[r]
      PROVE  GoneOK(r)' /\ StillOK(r)'
  <2>1. GoneOK(r) /\ StillOK(r)
    BY <1>1 DEF GoneInv
  <2>2. GoneOK(r)'
    BY <1>1, <1>2, <1>4, <1>5, <2>1, GoneFrame
  <2>3. job[r].op = "delete" =>
          /\ \A c \in calls' : c.kind # "delete" => c.old \in Files /\ store[c.old] \notin began'[r]
          /\ \A p \in Requests : job'[p].op = "move" /\ job'[p].src \in Files =>
               store[job'[p].src] \notin began'[r]
    BY <1>2, <1>3, <1>5, <2>1 DEF StillOK
  <2>4. StillOK(r)'
    BY <1>1, <1>2, <1>5, <2>1, <2>3, StillFrame
  <2> QED
    BY <2>2, <2>4
<1>6. ASSUME NEW f \in Files, PutBegins(q, f) PROVE GoneInv'
  <2>1. UNCHANGED began /\ job' = [job EXCEPT ![q] = [NoJob EXCEPT !.dst = f]]
    BY <1>6 DEF PutBegins, history
  <2>2. job'[q].op = "put"
    BY <1>1, <2>1 DEF TypeOK, NoJob
  <2>3. GoneOK(q)' /\ StillOK(q)'
    BY <1>2, <2>2 DEF GoneOK, StillOK
  <2> QED
    BY <1>5, <2>1, <2>2, <2>3 DEF GoneInv
<1>7. ASSUME NEW n \in Names, DeleteBegins(q, n) PROVE GoneInv'
  <2> DEFINE found == (owed \cap Stored(Below(n))) \ Stored({f \in Files : Taken(f)})
  <2>1. /\ job' = [job EXCEPT ![q] = [NoJob EXCEPT !.op = "delete", !.dst = n]]
        /\ began' = [began EXCEPT ![q] = found]
        /\ pc' = [pc EXCEPT ![q] = "stat"]
    BY <1>7 DEF DeleteBegins, Goto
  <2>2. /\ job'[q].op = "delete" /\ job'[q].dst = n /\ pc'[q] = "stat"
        /\ began'[q] = found /\ \A r \in Requests : r # q => began'[r] = began[r]
    BY <1>1, <2>1 DEF TypeOK, NoJob
  <2>3. \A f \in Files : Taken(f) => store[f] \notin found
    BY <1>1 DEF Stored, TypeOK
  <2>4. found \subseteq 1 .. puts
    <3>1. \A v \in owed : v \in 1 .. puts
      BY <1>1 DEF NumberInv, TypeOK, Version
    <3> QED
      BY <3>1
  <2>5. ASSUME NEW f \in InDir, store[f] \in found PROVE Shown(f)
    <3>1. f \in Files /\ ~Taken(f) /\ store[f] \in owed
      BY <2>3, <2>5, TreeAssumption
    <3>2. ~Writing(f)
      BY <3>1 DEF Taken, Free, Locked, Writing
    <3> QED
      BY <1>1, <2>5, <3>1, <3>2 DEF ShownInv
  <2>6. GoneOK(q)'
    <3>1. \A f \in Below(n) : store[f] \in found /\ n = Dir => Shown(f)
      BY <2>5 DEF Below
    <3> HIDE DEF found
    <3> QED
      BY <1>2, <1>4, <2>2, <2>4, <3>1 DEF GoneOK
  <2>7. ASSUME NEW c \in calls, c.kind # "delete" PROVE store[c.old] \notin found
    <3>1. CASE c.by = Nobody
      <4>1. Taken(c.old)
        BY <3>1 DEF Taken, Endangered
      <4> QED
        BY <1>3, <2>3, <4>1
    <3>2. CASE c.by # Nobody
      <4>1. c.by \in Requests /\ pc[c.by] = "renaming" /\ c.old = job[c.by].src /\ JobOK(c.by)
        BY <1>1, <2>7, <3>2, OneCall DEF CallOK, JobInv
      <4>2. Taken(c.old)
        BY <4>1 DEF Taken, Free, Locked, JobOK
      <4> QED
        BY <1>3, <2>3, <4>2
    <3> QED
      BY <3>1, <3>2
  <2>8. ASSUME NEW p \in Requests, job[p].op = "move", job[p].src \in Files
        PROVE  store[job[p].src] \notin found
    <3>1. Taken(job[p].src)
      BY <1>1, <2>8 DEF Taken, Free, Locked, JobInv, JobOK
    <3> QED
      BY <2>3, <2>8, <3>1
  <2>9. StillOK(q)'
    <3>1. \A p \in Requests : job'[p].op = "move" => p # q
      BY <2>2
    <3> HIDE DEF found
    <3> QED
      BY <1>2, <2>2, <2>7, <2>8, <3>1 DEF StillOK
  <2> HIDE DEF found
  <2> QED
    BY <1>5, <2>2, <2>6, <2>9 DEF GoneInv
<1>8. ASSUME NEW src \in Names, NEW dst \in Files, NEW overwrite \in BOOLEAN, MoveBegins(q, src, dst, overwrite)
      PROVE  GoneInv'
  <2>1. job' = [job EXCEPT ![q] = [op |-> "move", src |-> src, dst |-> dst, overwrite |-> overwrite]]
    BY <1>8 DEF MoveBegins
  <2>2. job'[q].op = "move" /\ job'[q].src = src
    BY <1>1, <2>1 DEF TypeOK
  <2>3. \A r \in Requests : r # q /\ job[r].op = "delete" => began'[r] = began[r] \ Stored(Below(src))
    BY <1>8 DEF MoveBegins
  <2>4. ASSUME NEW r \in Requests, r # q, job[r].op = "delete", src \in Files
        PROVE  store[src] \notin began'[r]
    <3>1. Below(src) = {src}
      BY <2>4, TreeAssumption DEF Below
    <3>2. began[r] \subseteq 1 .. puts /\ puts \in Nat
      BY <1>1, <2>4 DEF GoneInv, GoneOK, TypeOK, Version
    <3>3. store[src] = 0 \/ store[src] \in Stored({src})
      BY DEF Stored
    <3> QED
      BY <2>3, <2>4, <3>1, <3>2, <3>3
  <2>5. GoneOK(q)' /\ StillOK(q)'
    BY <1>2, <2>2 DEF GoneOK, StillOK
  <2> QED
    BY <1>5, <2>2, <2>3, <2>4, <2>5 DEF GoneInv
<1> QED
  BY <1>6, <1>7, <1>8

\* GoneInv: a body is stored.
LEMMA PutGone ==
  ASSUME WholeInv, NEW q \in Requests, PutStores(q)
  PROVE  GoneInv'
<1>1. TreeInv /\ GoneInv /\ TypeOK
  BY DEF WholeInv, TreeInv
<1>2. /\ pc'[q] = "close" /\ job[q].op = "put" /\ puts' = puts + 1 /\ store'[job[q].dst] = puts'
      /\ \A r \in Requests : r # q => pc'[r] = pc[r]
      /\ \A f \in Files : f # job[q].dst => store'[f] = store[f]
      /\ UNCHANGED <<listing, calls, job, todo, began>>
  BY <1>1, PutFacts
<1>3. \A f : Shown(f)' = Shown(f)
  BY <1>2 DEF Shown
<1> SUFFICES ASSUME NEW r \in Requests PROVE GoneOK(r)' /\ StillOK(r)'
  BY DEF GoneInv
<1>4. CASE r = q
  BY <1>2, <1>4 DEF GoneOK, StillOK
<1>5. CASE r # q
  <2>1. GoneOK(r) /\ StillOK(r)
    BY <1>1 DEF GoneInv
  <2>2. job[r].op = "delete" => puts' \notin began[r]
    BY <1>1, <1>2, <2>1 DEF GoneOK, TypeOK, Version
  <2>3. job[r].op = "delete" => \A f \in Files : store'[f] = store[f] \/ store'[f] \notin began[r]
    BY <1>2, <2>2
  <2>4. GoneOK(r)'
    BY <1>1, <1>2, <1>3, <1>5, <2>1, <2>3, GoneFrame
  <2>5. job[r].op = "delete" =>
          /\ \A c \in calls' : c.kind # "delete" => c.old \in Files /\ store[c.old] \notin began'[r]
          /\ \A p \in Requests : job'[p].op = "move" /\ job'[p].src \in Files =>
               store[job'[p].src] \notin began'[r]
    BY <1>1, <1>2, <2>1, CallTypes DEF StillOK
  <2>6. StillOK(r)'
    BY <1>1, <1>2, <2>1, <2>3, <2>5, StillFrame
  <2> QED
    BY <2>4, <2>6
<1> QED
  BY <1>4, <1>5

\* GoneInv: a call ends, or its connection.
LEMMA CallEndsGone ==
  ASSUME WholeInv, NEW c \in calls, CallFails(c) \/ Break(c)
  PROVE  GoneInv'
<1>1. TreeInv /\ GoneInv /\ TypeOK /\ Nobody \notin Requests
  BY TreeAssumption DEF WholeInv, TreeInv
<1>2. /\ UNCHANGED <<store, puts, listing, job, todo, began>>
      /\ \A r \in Requests : r # c.by => pc'[r] = pc[r]
      /\ c.by # Nobody => pc'[c.by] = IF c.kind = "delete" THEN "error" ELSE "failed"
      /\ calls \ {c} \subseteq calls'
      /\ \A d \in calls' : \E b \in calls : d.kind = b.kind /\ d.old = b.old
  BY <1>1, CallEndsFacts
<1>3. \A f : Shown(f)' = Shown(f)
  BY <1>2 DEF Shown
<1> SUFFICES ASSUME NEW r \in Requests PROVE GoneOK(r)' /\ StillOK(r)'
  BY DEF GoneInv
<1>4. GoneOK(r) /\ StillOK(r)
  BY <1>1 DEF GoneInv
<1>5. StillOK(r)'
  BY <1>2, <1>4 DEF StillOK
<1>6. CASE r = c.by
  <2>1. pc'[r] \in {"error", "failed"}
    BY <1>1, <1>2, <1>6
  <2>2. GoneOK(r)'
    BY <1>2, <1>4, <2>1 DEF GoneOK
  <2> QED
    BY <1>5, <2>2
<1>7. CASE r # c.by
  <2>1. GoneOK(r)'
    BY <1>1, <1>2, <1>3, <1>4, <1>7, GoneFrame
  <2> QED
    BY <1>5, <2>1
<1> QED
  BY <1>6, <1>7

\* GoneInv: a file is copied.
LEMMA CopyGone ==
  ASSUME WholeInv, NEW c \in calls, CopyObject(c)
  PROVE  GoneInv'
<1>1. TreeInv /\ GoneInv /\ TypeOK /\ JobInv /\ Nobody \notin Requests
  BY TreeAssumption DEF WholeInv, TreeInv
<1>2. /\ c.kind = "rename" /\ c.old \in Files
      /\ store'[c.new] = store[c.old] /\ \A g \in Files : g # c.new => store'[g] = store[g]
      /\ UNCHANGED <<puts, listing, job, todo, began>>
      /\ \A r \in Requests : r # c.by => pc'[r] = pc[r]
      /\ c.by # Nobody => pc[c.by] = "renaming" /\ pc'[c.by] \in {"renaming", "failed"}
      /\ calls \ {c} \subseteq calls'
      /\ \A d \in calls' : d \in calls \ {c} \/ d.old = c.old
  BY <1>1, CopyFacts
<1>3. \A f : Shown(f)' = Shown(f)
  BY <1>2 DEF Shown
<1> SUFFICES ASSUME NEW r \in Requests PROVE GoneOK(r)' /\ StillOK(r)'
  BY DEF GoneInv
<1>4. GoneOK(r) /\ StillOK(r)
  BY <1>1 DEF GoneInv
<1>5. job[r].op = "delete" => \A f \in Files : store'[f] = store[f] \/ store'[f] \notin began[r]
  BY <1>2, <1>4 DEF StillOK
<1>6. StillOK(r)'
  <2>1. job[r].op = "delete" =>
          /\ \A d \in calls' : d.kind # "delete" => d.old \in Files /\ store[d.old] \notin began'[r]
          /\ \A p \in Requests : job'[p].op = "move" /\ job'[p].src \in Files =>
               store[job'[p].src] \notin began'[r]
    BY <1>1, <1>2, <1>4, CallTypes DEF StillOK
  <2> QED
    BY <1>1, <1>2, <1>4, <1>5, <2>1, StillFrame
<1>7. CASE r = c.by
  <2>1. job[r].op = "move" /\ pc'[r] \in {"renaming", "failed"}
    BY <1>1, <1>2, <1>7 DEF JobInv, JobOK
  <2>2. GoneOK(r)'
    BY <1>2, <2>1 DEF GoneOK
  <2> QED
    BY <1>6, <2>2
<1>8. CASE r # c.by
  <2>1. GoneOK(r)'
    BY <1>1, <1>2, <1>3, <1>4, <1>5, <1>8, GoneFrame
  <2> QED
    BY <1>6, <2>1
<1> QED
  BY <1>7, <1>8

\* GoneInv: a file is removed.
LEMMA RemoveGone ==
  ASSUME WholeInv, NEW c \in calls, RemoveObject(c)
  PROVE  GoneInv'
<1>1. TreeInv /\ GoneInv /\ TypeOK /\ JobInv /\ Nobody \notin Requests
  BY TreeAssumption DEF WholeInv, TreeInv
<1>2. /\ c.kind \in {"copied", "delete"} /\ c.old \in Files /\ calls' = calls \ {c}
      /\ store'[c.old] = 0 /\ \A g \in Files : g # c.old => store'[g] = store[g]
      /\ UNCHANGED <<puts, listing, job, todo, began>>
      /\ \A r \in Requests : r # c.by => pc'[r] = pc[r]
      /\ c.by # Nobody => /\ c.kind = "copied" => pc[c.by] = "renaming" /\ pc'[c.by] \in {"renamed", "failed"}
                          /\ c.kind = "delete" => pc[c.by] = "deleting" /\ pc'[c.by] \in {"remove", "error"}
  BY <1>1, RemoveFacts
<1>3. \A f : Shown(f)' = Shown(f)
  BY <1>2 DEF Shown
<1> SUFFICES ASSUME NEW r \in Requests PROVE GoneOK(r)' /\ StillOK(r)'
  BY DEF GoneInv
<1>4. GoneOK(r) /\ StillOK(r)
  BY <1>1 DEF GoneInv
<1>5. job[r].op = "delete" => 0 \notin began[r]
  BY <1>4 DEF GoneOK
<1>6. job[r].op = "delete" => \A f \in Files : store'[f] = store[f] \/ store'[f] \notin began[r]
  BY <1>2, <1>5
<1>7. StillOK(r)'
  <2>1. job[r].op = "delete" =>
          /\ \A d \in calls' : d.kind # "delete" => d.old \in Files /\ store[d.old] \notin began'[r]
          /\ \A p \in Requests : job'[p].op = "move" /\ job'[p].src \in Files =>
               store[job'[p].src] \notin began'[r]
    BY <1>1, <1>2, <1>4, CallTypes DEF StillOK
  <2> QED
    BY <1>1, <1>2, <1>4, <1>6, <2>1, StillFrame
<1>8. CASE r = c.by /\ job[r].op # "delete"
  <2>1. pc'[r] # "deleted"
    BY <1>1, <1>2, <1>8
  <2>2. GoneOK(r)'
    BY <1>2, <1>8, <2>1 DEF GoneOK
  <2> QED
    BY <1>7, <2>2
<1>9. CASE r = c.by /\ job[r].op = "delete"
  <2>1. pc[r] = "deleting" /\ pc'[r] \in {"remove", "error"}
    BY <1>1, <1>2, <1>9 DEF JobInv, JobOK
  <2>2. \A d \in calls : d.by = r => d = c
    BY <1>1, <1>9, OneCall
  <2>3. ASSUME NEW f \in Below(job[r].dst), store'[f] \in began[r] PROVE f \in todo[r]
    <3>1. f \in Files /\ f # c.old
      BY <1>1, <1>2, <1>5, <1>9, <2>3, JobTypes
    <3>2. store[f] \in began[r]
      BY <1>2, <2>3, <3>1
    <3> QED
      BY <1>4, <1>9, <2>1, <2>2, <3>1, <3>2 DEF GoneOK
  <2>4. began[r] \subseteq 1 .. puts
    BY <1>4, <1>9 DEF GoneOK
  <2>5. GoneOK(r)'
    BY <1>2, <1>9, <2>1, <2>3, <2>4 DEF GoneOK
  <2> QED
    BY <1>7, <2>5
<1>10. CASE r # c.by
  <2>1. GoneOK(r)'
    BY <1>1, <1>2, <1>3, <1>4, <1>6, <1>10, GoneFrame
  <2> QED
    BY <1>7, <2>1
<1> QED
  BY <1>8, <1>9, <1>10

\* What a MOVE and a DELETE rely on holds at first ...
LEMMA WholeStarts == Init => WholeInv
<1> SUFFICES ASSUME Init PROVE WholeInv
  OBVIOUS
<1>1. TreeInv
  BY TreeStarts
<1>2. \A r \in Requests : job[r].op = "put" /\ pc[r] = "idle"
  BY DEF Init, NoJob
<1>3. MoveInv /\ GoneInv
  BY <1>2 DEF MoveInv, MoveOK, GoneInv, GoneOK, StillOK
<1>4. ShownInv
  BY DEF Init, ShownInv
<1> QED
  BY <1>1, <1>3, <1>4 DEF WholeInv

\* ... and after every step.
LEMMA WholeStep == WholeInv /\ [Next]_vars => WholeInv'
<1> SUFFICES ASSUME WholeInv, [Next]_vars PROVE WholeInv'
  OBVIOUS
<1>1. TreeInv /\ MoveInv
  BY DEF WholeInv
<1>2. TreeInv'
  BY <1>1, TreeStep
<1>3. CASE UNCHANGED vars
  <2>1. MoveInv' /\ ShownInv'
    BY <1>3 DEF WholeInv, vars, MoveInv, MoveOK, ShownInv, Writing, Shown, Endangered, Stored
  <2>2. GoneInv'
    BY <1>3 DEF WholeInv, vars, GoneInv, GoneOK, StillOK, Shown
  <2> QED
    BY <1>2, <2>1, <2>2 DEF WholeInv
<1>4. CASE Next
  <2>1. ShownInv'
    BY <1>4, ShownStep
  <2>2. CASE ListingStep
    <3>1. UNCHANGED <<store, puts, calls, pc, job, todo, owed, began, disturbed>>
      BY <1>1, <2>2, ListingFacts
    <3>2. MoveInv'
      BY <1>1, <3>1 DEF MoveInv, MoveOK, Endangered, Stored
    <3> QED
      BY <1>2, <2>1, <2>2, <3>2, ListingGone DEF WholeInv
  <2>3. ASSUME NEW q \in Requests, Advance(q) PROVE WholeInv'
    BY <1>1, <1>2, <2>1, <2>3, AdvanceMoves, AdvanceGone DEF WholeInv
  <2>4. ASSUME NEW q \in Requests, Refused(q) \/ PutCloses(q) \/ Done(q) PROVE WholeInv'
    BY <1>1, <1>2, <2>1, <2>4, AnswerMoves, AnswerGone DEF WholeInv
  <2>5. ASSUME NEW q \in Requests,
               \/ \E g \in Files : PutBegins(q, g)
               \/ \E n \in Names : DeleteBegins(q, n)
               \/ \E src \in Names, dst \in Files, overwrite \in BOOLEAN : MoveBegins(q, src, dst, overwrite)
        PROVE  WholeInv'
    BY <1>1, <1>2, <2>1, <2>5, BeginMoves, BeginGone DEF WholeInv
  <2>6. ASSUME NEW q \in Requests, PutStores(q) PROVE WholeInv'
    BY <1>1, <1>2, <2>1, <2>6, PutMoves, PutGone DEF WholeInv
  <2>7. ASSUME NEW c \in calls, CallFails(c) \/ Break(c) PROVE WholeInv'
    BY <1>1, <1>2, <2>1, <2>7, CallEndsMoves, CallEndsGone DEF WholeInv
  <2>8. ASSUME NEW c \in calls, CopyObject(c) PROVE WholeInv'
    BY <1>1, <1>2, <2>1, <2>8, CopyMoves, CopyGone DEF WholeInv
  <2>9. ASSUME NEW c \in calls, RemoveObject(c) PROVE WholeInv'
    BY <1>1, <1>2, <2>1, <2>9, RemoveMoves, RemoveGone DEF WholeInv
  <2> QED
    BY <1>4, <2>2, <2>3, <2>4, <2>5, <2>6, <2>7, <2>8, <2>9
       DEF Next, PutStep, DeleteStep, MoveStep, ServerStep, Advance
<1> QED
  BY <1>3, <1>4

\* What a MOVE and a DELETE rely on holds throughout.
THEOREM WholeInvariant == Spec => []WholeInv
<1> QED
  BY WholeStarts, WholeStep, PTL DEF Spec

\* A MOVE that is answered with success is done (FileSystem.Rename, restRenameObject), unless
\* others were at the same files, by way of the directory or a broken call.
THEOREM MoveIsDone == Spec => []MoveDone
<1>1. WholeInv => MoveDone
  <2> SUFFICES ASSUME WholeInv, NEW r \in Requests, pc[r] = "moved", r \notin disturbed
               PROVE  began[r] = {store[job[r].dst]} /\ store[job[r].src] = 0
    BY DEF MoveDone
  <2>1. JobOK(r) /\ MoveOK(r)
    BY DEF WholeInv, TreeInv, JobInv, MoveInv
  <2> QED
    BY <2>1 DEF JobOK, MoveOK
<1> QED
  BY <1>1, WholeInvariant, PTL

\* What a DELETE found when it began, and nobody else was about or has moved since, is gone when
\* it is answered with success (RemoveAll, with listings from the cache).
THEOREM DeletionIsDone == Spec => []DeletedGone
<1>1. WholeInv => DeletedGone
  <2> SUFFICES ASSUME WholeInv, NEW r \in Requests, pc[r] = "deleted",
                      NEW f \in Below(job[r].dst), store[f] \in began[r]
               PROVE  FALSE
    BY DEF DeletedGone, Stored
  <2>1. GoneOK(r)
    BY DEF WholeInv, GoneInv
  <2> QED
    BY <2>1 DEF GoneOK
<1> QED
  BY <1>1, WholeInvariant, PTL
===============================================================================
