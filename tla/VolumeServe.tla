----------------------------- MODULE VolumeServe -----------------------------
(***************************************************************************)
(* The processes "dboxed-volume volume-serve" of several machines that want *)
(* to serve one volume, composed with the lock endpoint of VolumeLock.      *)
(*                                                                          *)
(* A process asks for the lock with the id of --prev-lock-id or, without    *)
(* it, the one it finds in its lock id file, serves the volume, and asks    *)
(* again every RefreshInterval.  Requests can fail on the way there or back *)
(* while their handler goes on; processes can die at any step and be        *)
(* started again; only the lock id file survives.  An operator may pass any *)
(* id that this machine was ever granted, and no other machine's.           *)
(* The process keeps no clock of its own: nothing makes it stop serving     *)
(* when its lock runs out.  What makes it stop is the next refresh after a  *)
(* failed one, which dereferences the nil volume the failure left behind.   *)
(*                                                                          *)
(* ServeSpec lets the clock run freely.  TimelySpec assumes that a request  *)
(* is answered or fails within MaxRTT and that a process that is due wakes  *)
(* up before the next second; what the lock is for is only true there.      *)
(***************************************************************************)
EXTENDS VolumeLock

CONSTANTS Node,            \* the machines, one process each
          FileNode,        \* those started with --lock-id-file
          FlagNode,        \* those that an operator may start with --prev-lock-id
          NoHandler,       \* "no request in progress"
          RefreshInterval, \* 15 seconds in the code
          MaxRTT           \* the longest a request takes

ASSUME NodeAssumption == FileNode \cup FlagNode \subseteq Node /\ NoHandler \notin Handler
ASSUME ServeTimeAssumption == RefreshInterval \in Nat /\ MaxRTT \in Nat

VARIABLES pc,        \* what the process does: see ServeTypeOK
          lease,     \* the last lock the process was granted since it started
          volumeNil, \* vs.volume is nil: the last request failed
          slot,      \* the handler of the request in progress
          deadline,  \* when the sleep ends, or the request must be over
          file,      \* the lock id file
          flag,      \* --prev-lock-id of the process
          granted    \* history: the ids each machine was granted

nodeVars == <<pc, lease, volumeNil, slot, deadline, file, flag, granted>>
serveVars == <<lockVars, nodeVars>>

NoLease == [id |-> NoLock, time |-> 0]

ServeTypeOK ==
  /\ LockTypeOK
  /\ pc \in [Node -> {"down", "start", "idle", "refresh"}]
  /\ lease \in [Node -> [id : OptLockId, time : Nat]]
  /\ volumeNil \in [Node -> BOOLEAN]
  /\ slot \in [Node -> Handler \cup {NoHandler}]
  /\ deadline \in [Node -> Nat]
  /\ file \in [Node -> OptLockId] /\ flag \in [Node -> OptLockId]
  /\ granted \in [Node -> SUBSET LockId]

ServeInit ==
  /\ LockInit
  /\ pc = [n \in Node |-> "down"]
  /\ lease = [n \in Node |-> NoLease]
  /\ volumeNil = [n \in Node |-> FALSE]
  /\ slot = [n \in Node |-> NoHandler]
  /\ deadline = [n \in Node |-> 0]
  /\ file = [n \in Node |-> NoLock] /\ flag = [n \in Node |-> NoLock]
  /\ granted = [n \in Node |-> {}]

\* The process was granted a lock and has not stopped since.
Serving(n) == lease[n].id # NoLock

\* The last second of the bounded clock stands for all later ones: what is due after it is due then.
Due(t) == IF t < MaxTime THEN t ELSE MaxTime

-------------------------------------------------------------------------------
Send(n, h, prev, state) ==
  /\ Receive(h, prev)
  /\ pc' = [pc EXCEPT ![n] = state]
  /\ slot' = [slot EXCEPT ![n] = h]
  /\ deadline' = [deadline EXCEPT ![n] = Due(now + MaxRTT)]
  /\ UNCHANGED <<lease, volumeNil, file, granted>>

\* The process starts: the lock is asked for with the id of --prev-lock-id, and the file is not
\* read then; else with the id in the file, if there is one.
StartServe(n, h) ==
  /\ pc[n] = "down"
  /\ \E prev \in (IF n \in FlagNode THEN granted[n] ELSE {}) \cup {NoLock} :
       /\ flag' = [flag EXCEPT ![n] = prev]
       /\ Send(n, h, IF prev = NoLock THEN file[n] ELSE prev, "start")

\* periodicRefreshLock wakes up and asks again with the id of the volume it holds.
Refresh(n, h) ==
  /\ pc[n] = "idle"
  /\ now >= deadline[n]
  /\ ~volumeNil[n]
  /\ Send(n, h, lease[n].id, "refresh")
  /\ UNCHANGED flag

\* The process is gone, and with it all it kept in memory.
Down(n) ==
  /\ pc' = [pc EXCEPT ![n] = "down"]
  /\ lease' = [lease EXCEPT ![n] = NoLease]
  /\ volumeNil' = [volumeNil EXCEPT ![n] = FALSE]
  /\ slot' = [slot EXCEPT ![n] = NoHandler]
  /\ deadline' = [deadline EXCEPT ![n] = 0]
  /\ flag' = [flag EXCEPT ![n] = NoLock]
  /\ UNCHANGED file

\* periodicRefreshLock wakes up after a failed request: vs.volume.LockId panics.
RefreshPanics(n) ==
  /\ pc[n] = "idle"
  /\ now >= deadline[n]
  /\ volumeNil[n]
  /\ Down(n)
  /\ UNCHANGED <<lockVars, granted>>

\* Mutant: the nil test is the wrong way round, the first id is not stored.
NeedsStoreOfKnown(n, h) == handler[h].prev # NoLock /\ handler[h].prev # handler[h].newId

\* lockVolume calls UpdateLockIdCb when the id is new to the process.
NeedsStore(n, h) == handler[h].prev = NoLock \/ handler[h].prev # handler[h].newId

\* The goroutine of a process that just started refreshes at once, otherwise it sleeps.
NextRefresh(n) == IF pc[n] = "start" THEN now ELSE Due(now + RefreshInterval)

\* vs.volume is the answer, and the refresh goroutine goes on.
Accept(n, h) ==
  /\ pc' = [pc EXCEPT ![n] = "idle"]
  /\ lease' = [lease EXCEPT ![n] = [id |-> handler[h].newId, time |-> handler[h].newTime]]
  /\ slot' = [slot EXCEPT ![n] = NoHandler]
  /\ deadline' = [deadline EXCEPT ![n] = NextRefresh(n)]
  /\ UNCHANGED <<volumeNil, flag>>

\* The machine was granted the id.
Learn(n, h) == granted' = [granted EXCEPT ![n] = @ \cup {handler[h].newId}]

\* The lock is granted and its id, if it is new and there is a file, is stored.
Granted(n, h) ==
  /\ slot[n] = h /\ handler[h].pc = "granted"
  /\ Finish(h)
  /\ Accept(n, h) /\ Learn(n, h)
  /\ file' = IF n \in FileNode /\ NeedsStore(n, h)
               THEN [file EXCEPT ![n] = handler[h].newId] ELSE file

\* The lock is granted but AtomicWriteFile fails: Start gives up, a refresh only logs it.
GrantedStoreFails(n, h) ==
  /\ slot[n] = h /\ handler[h].pc = "granted"
  /\ n \in FileNode /\ NeedsStore(n, h)
  /\ Finish(h) /\ Learn(n, h)
  /\ IF pc[n] = "start" THEN Down(n) ELSE Accept(n, h) /\ UNCHANGED file

\* Mutant: the failure leaves vs.volume as it was.
RequestFailsKeepingVolume(n) ==
  IF pc[n] = "start"
    THEN Down(n)
    ELSE /\ pc' = [pc EXCEPT ![n] = "idle"]
         /\ slot' = [slot EXCEPT ![n] = NoHandler]
         /\ deadline' = [deadline EXCEPT ![n] = Due(now + RefreshInterval)]
         /\ UNCHANGED <<lease, volumeNil, file, flag>>

\* VolumeLock returned an error.  Start gives up; a refresh logs it, but vs.volume is nil now.
RequestFails(n) ==
  IF pc[n] = "start"
    THEN Down(n)
    ELSE /\ pc' = [pc EXCEPT ![n] = "idle"]
         /\ volumeNil' = [volumeNil EXCEPT ![n] = TRUE]
         /\ slot' = [slot EXCEPT ![n] = NoHandler]
         /\ deadline' = [deadline EXCEPT ![n] = Due(now + RefreshInterval)]
         /\ UNCHANGED <<lease, file, flag>>

\* The server refuses the request.
Refused(n, h) ==
  /\ slot[n] = h /\ handler[h].pc = "refused"
  /\ Finish(h)
  /\ RequestFails(n) /\ UNCHANGED granted

\* The connection breaks; the handler, if the request got that far, goes on without its client.
Lost(n) ==
  /\ slot[n] # NoHandler
  /\ RequestFails(n)
  /\ UNCHANGED <<lockVars, granted>>

\* The process dies, at any point: a signal, an error in Start, the machine.
Crash(n) ==
  /\ pc[n] # "down"
  /\ Down(n)
  /\ UNCHANGED <<lockVars, granted>>

Unheard(h) == \A n \in Node : slot[n] # h

ServerStep(h) == /\ HandlerStep(h) \/ (Unheard(h) /\ Finish(h))
                 /\ UNCHANGED nodeVars

ServeDelete == DeleteVolume /\ UNCHANGED nodeVars

ServeTick == Tick /\ UNCHANGED nodeVars

NodeStep(n) == \/ \E h \in Handler : \/ StartServe(n, h) \/ Refresh(n, h)
                                     \/ Granted(n, h) \/ GrantedStoreFails(n, h) \/ Refused(n, h)
               \/ RefreshPanics(n) \/ Lost(n) \/ Crash(n)

ServeNextButTick == \/ \E n \in Node : NodeStep(n)
                    \/ \E h \in Handler : ServerStep(h)
                    \/ ServeDelete

ServeNext == ServeNextButTick \/ ServeTick

ServeSpec == ServeInit /\ [][ServeNext]_serveVars

\* Every request comes to an end, handlers run, the clock moves and a process that is due wakes
\* up.  Refresh is strongly fair because the handler slots are the model's: the server always
\* has room for one more request.
Fairness == /\ WF_serveVars(ServeTick)
            /\ \A h \in Handler : WF_serveVars(ServerStep(h))
            /\ \A n \in Node :
                 /\ SF_serveVars(\E h \in Handler : Refresh(n, h))
                 /\ WF_serveVars(RefreshPanics(n))
                 /\ WF_serveVars(\E h \in Handler : Granted(n, h) \/ Refused(n, h))

FairServeSpec == ServeSpec /\ Fairness

\* The timing assumption: nobody lets its deadline pass.
Timely == \A n \in Node : pc[n] # "down" => now < deadline[n]

TimelyTick == Timely /\ ServeTick

TimelyNext == ServeNextButTick \/ TimelyTick

TimelySpec == ServeInit /\ [][TimelyNext]_serveVars

-------------------------------------------------------------------------------
\* A lock outlives two refreshes of its holder, the second of which fails: the condition for
\* the properties of TimelySpec.  The code's 15 seconds and 5 minutes leave MaxRTT 135 seconds.
EnoughTime == 2 * RefreshInterval + 2 * MaxRTT =< LockTimeout

\* At most one machine serves the volume (TimelySpec, EnoughTime): the process that lost its
\* lock is gone (RefreshPanics) before the server gives the lock to another.
MutualExclusion == \A m, n \in Node : Serving(m) /\ Serving(n) => m = n

\* Who serves is who the row names, and the row is at least as fresh as the last answer.
ServingHoldsLock ==
  \A n \in Node : Serving(n) => lockId = lease[n].id /\ lockTime >= lease[n].time

\* A machine with a lock id file can always come back: while it serves, the file names its lock,
\* unless --prev-lock-id does: an id the server only confirms is not stored (lockVolume).
FileCurrent == \A n \in FileNode : Serving(n) => lease[n].id \in {file[n], flag[n]}

\* A process that goes on serving goes on under the same lock: it never loses the lock and gets
\* it back without having noticed that others may have served the volume meanwhile.
RefreshKeepsId ==
  [][\A n \in Node : Serving(n) /\ Serving(n)' => lease'[n].id = lease[n].id]_serveVars

\* However late everybody is, two machines never hold, remember, were or are about to be granted
\* the same lock id.
Owned(n) ==
  (granted[n] \cup {lease[n].id, file[n], flag[n]} \cup
     IF slot[n] = NoHandler THEN {} ELSE {handler[slot[n]].prev, handler[slot[n]].newId})
  \ {NoLock}

OwnersDisjoint == \A m, n \in Node : m # n => Owned(m) \cap Owned(n) = {}

\* However late it is, no process serves for ever under a lock that was given to another: its
\* next refresh is refused (and the one after that panics) or gives it a new lock.
LostLockNoticed ==
  \A n \in Node : lease[n].id \in past ~> lease[n].id \notin past

\* However late it is, once the volume is deleted every process stops serving it, for good: a
\* request that had read the row before may still be granted (UpdateLock does not look at
\* deleted_at), but the refresh after it is a 404 and the next one panics.
DeletedNoticed ==
  \A n \in Node : deleted ~> []~Serving(n)
===============================================================================
