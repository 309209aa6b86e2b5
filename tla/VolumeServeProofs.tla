-------------------------- MODULE VolumeServeProofs --------------------------
(***************************************************************************)
(* Proofs about the volume lock and the processes that use it: VolumeLock,  *)
(* and then VolumeServe, which extends it.                                  *)
(*                                                                          *)
(* VolumeLock, for every set of ids, every number of concurrent requests    *)
(* and every timeout: NoResurrection and Promise speak of the row and of    *)
(* answers; neither is inductive.  LockInv adds what a handler knows        *)
(* between its statements: what it read is not from the future, the id it   *)
(* is about to write is the one it read or one nobody else ever saw, and a  *)
(* new id is only written over a lock whose stamp is older than             *)
(* LockTimeout.                                                             *)
(*                                                                          *)
(* VolumeServe, for any number of machines, too: it implements VolumeLock,  *)
(* hence the lease.  Without any assumption on time, no two machines ever   *)
(* hold, remember or are about to be told the same lock id                  *)
(* (OwnersDisjoint), and a lock that was lost, or whose volume was deleted, *)
(* is kept for one more answer at most.  With the timing assumption of      *)
(* TimelySpec and EnoughTime, every process that serves holds the lock in   *)
(* the row (ServingHoldsLock), because its deadline is never more than      *)
(* LockTimeout after its last stamp (TimeInv).  MutualExclusion is what     *)
(* OwnersDisjoint and this give together: there is one row and it names one *)
(* owner.                                                                   *)
(***************************************************************************)
EXTENDS VolumeServe, TLAPS

HasRead(h) == handler[h].pc \in {"read", "decided"}

HasId(h) == handler[h].pc \in {"decided", "granted"}

\* The row, and what became of the ids that were in it.
RowInv == /\ lockTime =< now
          /\ lockId = NoLock \/ lockId \in issued
          /\ past \subseteq issued
          /\ lockId \notin past

\* What a handler read was in the row at some time before now.
ReadInv == \A h \in Handler : HasRead(h) =>
             /\ handler[h].snapTime =< now
             /\ handler[h].snapId = NoLock \/ handler[h].snapId \in issued

\* The stamp a handler writes is at least as new as the one it read.
StampInv == \A h \in Handler : HasId(h) =>
              /\ handler[h].newId \in issued
              /\ handler[h].newTime =< now
              /\ handler[h].pc = "decided" => handler[h].snapTime =< handler[h].newTime

\* Nobody else knows the id: it is not in the row, was never there, and no other handler
\* has read it or is about to write it.
Unseen(h) == /\ handler[h].newId # lockId
             /\ handler[h].newId \notin past
             /\ \A g \in Handler : HasRead(g) => handler[g].snapId # handler[h].newId
             /\ \A g \in Handler : HasId(g) /\ g # h => handler[g].newId # handler[h].newId

\* A handler keeps the id it read, or replaces none or an expired one by an unseen id.
DecisionInv == \A h \in Handler : handler[h].pc = "decided" =>
                 \/ handler[h].newId = handler[h].snapId
                 \/ /\ Unseen(h)
                    /\ \/ handler[h].snapId = NoLock
                       \/ handler[h].snapTime + LockTimeout < handler[h].newTime

\* A granted answer is good, or old.
GrantInv == \A h \in Handler : handler[h].pc = "granted" =>
              \/ lockId = handler[h].newId /\ handler[h].newTime =< lockTime
              \/ handler[h].newTime + LockTimeout < now

LockInv == LockTypeOK /\ RowInv /\ ReadInv /\ StampInv /\ DecisionInv /\ GrantInv

-------------------------------------------------------------------------------
\* The initial state satisfies the invariant.
LEMMA LockInitInv == LockInit => LockInv
<1> SUFFICES ASSUME LockInit PROVE LockInv
  OBVIOUS
<1>1. LockTypeOK
  BY DEF LockInit, LockTypeOK, IdleHandler, HandlerState, OptLockId
<1>2. \A h \in Handler : handler[h].pc = "idle"
  BY DEF LockInit, IdleHandler
<1>3. RowInv
  BY NoLockAssumption DEF LockInit, RowInv
<1> QED
  BY <1>1, <1>2, <1>3 DEF LockInv, ReadInv, StampInv, DecisionInv, GrantInv, HasRead, HasId

\* Type correctness is inductive by itself.
LEMMA LockTypeStep == LockTypeOK /\ [LockNext]_lockVars => LockTypeOK'
<1> SUFFICES ASSUME LockTypeOK, [LockNext]_lockVars PROVE LockTypeOK'
  OBVIOUS
<1> USE NoLockAssumption, TimeAssumption DEF LockTypeOK, HandlerState, OptLockId, IdleHandler, row
<1>1. ASSUME NEW h \in Handler, NEW prev \in OptLockId, Receive(h, prev) PROVE LockTypeOK'
  BY <1>1 DEF Receive
<1>2. ASSUME NEW h \in Handler, GetVolumeById(h) PROVE LockTypeOK'
  <2>1. [handler[h] EXCEPT !.pc = "read", !.snapId = lockId, !.snapTime = lockTime]
          \in HandlerState
    OBVIOUS
  <2>2. CASE deleted
    BY <1>2, <2>2 DEF GetVolumeById, Refuse
  <2>3. CASE ~deleted
    <3>1. handler' = [handler EXCEPT ![h] =
                        [@ EXCEPT !.pc = "read", !.snapId = lockId, !.snapTime = lockTime]]
      BY <1>2, <2>3 DEF GetVolumeById
    <3> QED
      BY <1>2, <2>1, <3>1 DEF GetVolumeById
  <2> QED
    BY <2>2, <2>3
<1>3. ASSUME NEW h \in Handler, DecideRefresh(h) PROVE LockTypeOK'
  <2>1. handler[h].snapId \in OptLockId /\ now \in Nat
    OBVIOUS
  <2>2. [handler[h] EXCEPT !.pc = "decided", !.newId = handler[h].snapId, !.newTime = now]
          \in HandlerState
    BY <2>1
  <2> QED
    BY <1>3, <2>2 DEF DecideRefresh
<1>4. ASSUME NEW h \in Handler, DecideNew(h) PROVE LockTypeOK'
  <2>1. PICK id \in LockId \ issued :
          /\ issued' = issued \cup {id}
          /\ handler' = [handler EXCEPT ![h] =
                           [@ EXCEPT !.pc = "decided", !.newId = id, !.newTime = now]]
    BY <1>4 DEF DecideNew
  <2>2. [handler[h] EXCEPT !.pc = "decided", !.newId = id, !.newTime = now] \in HandlerState
    OBVIOUS
  <2> QED
    BY <1>4, <2>1, <2>2 DEF DecideNew
<1>5. ASSUME NEW h \in Handler, DecideConflict(h) \/ Abort(h) PROVE LockTypeOK'
  BY <1>5 DEF DecideConflict, Abort, Refuse
<1>6. ASSUME NEW h \in Handler, UpdateLock(h) PROVE LockTypeOK'
  <2>1. [handler[h] EXCEPT !.pc = "granted"] \in HandlerState
    OBVIOUS
  <2> QED
    BY <1>6, <2>1 DEF UpdateLock, Refuse
<1>7. ASSUME NEW h \in Handler, Finish(h) PROVE LockTypeOK'
  BY <1>7 DEF Finish
<1>8. CASE DeleteVolume
  BY <1>8 DEF DeleteVolume
<1>9. CASE Tick
  BY <1>9 DEF Tick
<1>10. CASE UNCHANGED lockVars
  BY <1>10 DEF lockVars
<1> QED
  BY <1>1, <1>2, <1>3, <1>4, <1>5, <1>6, <1>7, <1>8, <1>9, <1>10 DEF LockNext, HandlerStep

\* A step that only ends or starts a request keeps everything that is known of the others.
LEMMA RequestStep ==
  ASSUME LockInv, LockTypeOK', NEW h \in Handler,
         UNCHANGED <<now, lockId, lockTime, deleted, issued, past>>,
         handler'[h].pc \in {"idle", "received", "refused"},
         \A g \in Handler : g # h => handler'[g] = handler[g]
  PROVE LockInv'
  BY DEF LockInv, RowInv, ReadInv, StampInv, DecisionInv, GrantInv, Unseen, HasRead, HasId

\* GetVolumeById: the row is in the past of now, and no unseen id is in it.
LEMMA ReadStep ==
  ASSUME LockInv, LockTypeOK', NEW h \in Handler, GetVolumeById(h)
  PROVE LockInv'
<1>1. CASE deleted
  <2>1. handler' = [handler EXCEPT ![h] = [IdleHandler EXCEPT !.pc = "refused"]]
    BY <1>1 DEF GetVolumeById, Refuse
  <2> QED
    BY <2>1, RequestStep DEF GetVolumeById, row, IdleHandler, LockInv, LockTypeOK
<1>2. CASE ~deleted
  <2>1. /\ handler[h].pc = "received"
        /\ handler' = [handler EXCEPT ![h] =
                          [@ EXCEPT !.pc = "read", !.snapId = lockId, !.snapTime = lockTime]]
        /\ UNCHANGED <<now, lockId, lockTime, deleted, issued, past>>
    BY <1>2 DEF GetVolumeById, row
  <2>2. /\ handler'[h].pc = "read" /\ handler'[h].snapId = lockId
        /\ handler'[h].snapTime = lockTime
        /\ \A g \in Handler : g # h => handler'[g] = handler[g]
    BY <2>1 DEF LockInv, LockTypeOK, HandlerState
  <2> QED
    BY <2>1, <2>2 DEF LockInv, RowInv, ReadInv, StampInv, DecisionInv, GrantInv, Unseen,
                      HasRead, HasId
<1> QED
  BY <1>1, <1>2

\* Deciding to keep the id: it is the id that was read, so it is nobody's unseen id.
LEMMA RefreshStep ==
  ASSUME LockInv, LockTypeOK', NEW h \in Handler, DecideRefresh(h)
  PROVE LockInv'
<1>1. /\ handler[h].pc = "read" /\ handler[h].snapId # NoLock
      /\ handler'[h].pc = "decided" /\ handler'[h].newTime = now
      /\ handler'[h].newId = handler[h].snapId
      /\ handler'[h].snapId = handler[h].snapId
      /\ handler'[h].snapTime = handler[h].snapTime
      /\ \A g \in Handler : g # h => handler'[g] = handler[g]
      /\ UNCHANGED <<now, lockId, lockTime, deleted, issued, past>>
  BY DEF DecideRefresh, Refreshes, LockInv, LockTypeOK, HandlerState, row
<1>2. RowInv' /\ ReadInv' /\ GrantInv'
  BY <1>1 DEF LockInv, RowInv, ReadInv, GrantInv, HasRead
<1>3. StampInv'
  BY <1>1 DEF LockInv, LockTypeOK, ReadInv, StampInv, HasRead, HasId
<1>4. ASSUME NEW g \in Handler, g # h, Unseen(g), handler[g].pc = "decided"
      PROVE Unseen(g)'
  BY <1>1, <1>4 DEF Unseen, HasRead, HasId
<1>5. DecisionInv'
  BY <1>1, <1>4 DEF LockInv, DecisionInv
<1> QED
  BY <1>2, <1>3, <1>5 DEF LockInv

\* Deciding on a new id: it was not issued, and every id anybody knows was.
LEMMA NewIdStep ==
  ASSUME LockInv, LockTypeOK', NEW h \in Handler, DecideNew(h)
  PROVE LockInv'
<1>1. PICK id \in LockId \ issued :
        /\ issued' = issued \cup {id}
        /\ handler' = [handler EXCEPT ![h] =
                         [@ EXCEPT !.pc = "decided", !.newId = id, !.newTime = now]]
  BY DEF DecideNew
<1>2. /\ handler[h].pc = "read"
      /\ handler[h].snapId = NoLock \/ handler[h].snapTime + LockTimeout < now
      /\ UNCHANGED <<now, lockId, lockTime, deleted, past>>
  BY DEF DecideNew, Expired, row
<1>3. /\ handler'[h].pc = "decided" /\ handler'[h].newTime = now
      /\ handler'[h].newId = id
      /\ handler'[h].snapId = handler[h].snapId
      /\ handler'[h].snapTime = handler[h].snapTime
      /\ \A g \in Handler : g # h => handler'[g] = handler[g]
  BY <1>1 DEF LockInv, LockTypeOK, HandlerState
<1>4. id # NoLock /\ id # lockId /\ id \notin past
  BY NoLockAssumption DEF LockInv, RowInv
<1>5. RowInv' /\ ReadInv' /\ GrantInv'
  BY <1>1, <1>2, <1>3, <1>4 DEF LockInv, RowInv, ReadInv, GrantInv, HasRead
<1>6. StampInv'
  BY <1>1, <1>2, <1>3 DEF LockInv, LockTypeOK, ReadInv, StampInv, HasRead, HasId
<1>7. Unseen(h)'
  <2>1. \A g \in Handler : HasRead(g)' => handler'[g].snapId # id
    BY <1>2, <1>3, <1>4 DEF LockInv, ReadInv, HasRead
  <2>2. \A g \in Handler : HasId(g)' /\ g # h => handler'[g].newId # id
    BY <1>3 DEF LockInv, StampInv, HasId
  <2> QED
    BY <1>2, <1>3, <1>4, <2>1, <2>2 DEF Unseen
<1>8. ASSUME NEW g \in Handler, g # h, Unseen(g), handler[g].pc = "decided"
      PROVE Unseen(g)'
  <2>1. handler[g].newId # id
    BY <1>8 DEF LockInv, StampInv, HasId
  <2> QED
    BY <1>2, <1>3, <1>8, <2>1 DEF Unseen, HasRead, HasId
<1>9. DecisionInv'
  BY <1>2, <1>3, <1>7, <1>8 DEF LockInv, DecisionInv
<1> QED
  BY <1>5, <1>6, <1>9 DEF LockInv

\* The write: the row is the one that was read, so its stamp is the one that was tested.
LEMMA WriteStep ==
  ASSUME LockInv, LockTypeOK', NEW h \in Handler, UpdateLock(h), RowUnchanged(h)
  PROVE LockInv'
<1> USE DEF HasRead, HasId
<1>1. /\ handler[h].pc = "decided"
      /\ lockId = handler[h].snapId /\ lockTime = handler[h].snapTime
      /\ lockId' = handler[h].newId /\ lockTime' = handler[h].newTime
      /\ past' = IF lockId \in {NoLock, handler[h].newId} THEN past ELSE past \cup {lockId}
      /\ UNCHANGED <<now, deleted, issued>>
  BY DEF UpdateLock, RowUnchanged
<1>2. /\ handler'[h].pc = "granted"
      /\ handler'[h].newId = handler[h].newId /\ handler'[h].newTime = handler[h].newTime
      /\ \A g \in Handler : g # h => handler'[g] = handler[g]
  BY DEF UpdateLock, LockInv, LockTypeOK, HandlerState
<1>3. /\ handler[h].newId \in issued /\ handler[h].newTime =< now /\ lockTime =< lockTime'
  BY <1>1 DEF LockInv, StampInv
<1>4. RowInv'
  BY <1>1, <1>3 DEF LockInv, RowInv, DecisionInv, Unseen
<1>5. ReadInv' /\ StampInv'
  BY <1>1, <1>2 DEF LockInv, ReadInv, StampInv
<1>6. DecisionInv'
  <2> SUFFICES ASSUME NEW g \in Handler, g # h, handler[g].pc = "decided", Unseen(g)
               PROVE Unseen(g)'
    BY <1>2 DEF LockInv, DecisionInv
  <2>1. handler[g].newId # lockId' /\ handler[g].newId \notin past'
    BY <1>1 DEF Unseen
  <2> QED
    BY <1>1, <1>2, <2>1 DEF Unseen
<1>7. GrantInv'
  <2> SUFFICES ASSUME NEW g \in Handler, g # h, handler[g].pc = "granted",
                      lockId = handler[g].newId, handler[g].newTime =< lockTime
               PROVE \/ lockId' = handler[g].newId /\ handler[g].newTime =< lockTime'
                     \/ handler[g].newTime + LockTimeout < now
    BY <1>1, <1>2 DEF LockInv, LockTypeOK, GrantInv, HandlerState
  <2>1. CASE handler[h].newId = handler[h].snapId
    BY <1>1, <1>3, <2>1 DEF LockInv, LockTypeOK, HandlerState
  <2>2. CASE handler[h].snapId = NoLock
    BY <1>1, <2>2, NoLockAssumption DEF LockInv, LockTypeOK, StampInv
  <2>3. CASE handler[h].snapTime + LockTimeout < handler[h].newTime
    BY <1>1, <1>3, <2>3, TimeAssumption DEF LockInv, LockTypeOK, HandlerState
  <2> QED
    BY <1>1, <2>1, <2>2, <2>3 DEF LockInv, DecisionInv
<1> QED
  BY <1>4, <1>5, <1>6, <1>7 DEF LockInv

\* Time passes: what is old stays old.
LEMMA TickStep ==
  ASSUME LockInv, LockTypeOK', Tick
  PROVE LockInv'
<1>1. now' = now + 1 /\ UNCHANGED <<lockId, lockTime, deleted, issued, past, handler>>
  BY DEF Tick, row
<1>2. RowInv' /\ ReadInv'
  BY <1>1 DEF LockInv, LockTypeOK, HandlerState, RowInv, ReadInv, HasRead
<1>3. StampInv'
  BY <1>1 DEF LockInv, LockTypeOK, HandlerState, StampInv, HasId
<1>4. DecisionInv'
  BY <1>1 DEF LockInv, DecisionInv, Unseen, HasRead, HasId
<1>5. GrantInv'
  BY <1>1, TimeAssumption DEF LockInv, LockTypeOK, HandlerState, GrantInv
<1> QED
  BY <1>2, <1>3, <1>4, <1>5 DEF LockInv

\* Every step keeps the invariant.
LEMMA LockStepInv == LockInv /\ [LockNext]_lockVars => LockInv'
<1> SUFFICES ASSUME LockInv, [LockNext]_lockVars PROVE LockInv'
  OBVIOUS
<1>1. LockTypeOK'
  BY LockTypeStep DEF LockInv
<1> USE DEF LockInv, LockTypeOK, HandlerState, row
<1>2. ASSUME NEW h \in Handler, NEW prev \in OptLockId, Receive(h, prev) PROVE LockInv'
  BY <1>1, <1>2, RequestStep DEF Receive, IdleHandler
<1>3. ASSUME NEW h \in Handler, GetVolumeById(h) PROVE LockInv'
  BY <1>1, <1>3, ReadStep
<1>4. ASSUME NEW h \in Handler, DecideRefresh(h) PROVE LockInv'
  BY <1>1, <1>4, RefreshStep
<1>5. ASSUME NEW h \in Handler, DecideNew(h) PROVE LockInv'
  BY <1>1, <1>5, NewIdStep
<1>6. ASSUME NEW h \in Handler, DecideConflict(h) \/ Abort(h) PROVE LockInv'
  BY <1>1, <1>6, RequestStep DEF DecideConflict, Abort, Refuse, IdleHandler
<1>7. ASSUME NEW h \in Handler, UpdateLock(h) PROVE LockInv'
  <2>1. CASE RowUnchanged(h)
    BY <1>1, <1>7, <2>1, WriteStep
  <2>2. CASE ~RowUnchanged(h)
    BY <1>1, <1>7, <2>2, RequestStep DEF UpdateLock, Refuse, IdleHandler
  <2> QED
    BY <2>1, <2>2
<1>8. ASSUME NEW h \in Handler, Finish(h) PROVE LockInv'
  BY <1>1, <1>8, RequestStep DEF Finish, IdleHandler
<1>9. CASE Tick
  BY <1>1, <1>9, TickStep
<1>10. CASE DeleteVolume \/ UNCHANGED lockVars
  BY <1>1, <1>10 DEF DeleteVolume, lockVars, RowInv, ReadInv, StampInv, DecisionInv, GrantInv,
                     Unseen, HasRead, HasId
<1> QED
  BY <1>2, <1>3, <1>4, <1>5, <1>6, <1>7, <1>8, <1>9, <1>10 DEF LockNext, HandlerStep

\* The invariant of the lock endpoint.
THEOREM LockInvariant == LockSpec => []LockInv
  BY LockInitInv, LockStepInv, PTL DEF LockSpec

\* Type correctness of VolumeLock.
THEOREM LockTypeCorrect == LockSpec => []LockTypeOK
<1>1. LockInv => LockTypeOK
  BY DEF LockInv
<1> QED
  BY <1>1, LockInvariant, PTL

\* A lock id that was replaced in the row never comes back (UpdateLock).
THEOREM NeverResurrected == LockSpec => []NoResurrection
<1>1. LockInv => NoResurrection
  BY DEF LockInv, RowInv, NoResurrection
<1> QED
  BY <1>1, LockInvariant, PTL

\* A granted answer is worth LockTimeout seconds from its stamp on (restLockVolume).
THEOREM PromiseKept == LockSpec => []Promise
<1>1. LockInv => Promise
  BY TimeAssumption DEF LockInv, LockTypeOK, HandlerState, GrantInv, Promise
<1> QED
  BY <1>1, LockInvariant, PTL

-------------------------------------------------------------------------------
\* A write of UpdateLock is a step of the abstract lease.
LEMMA WriteRefines ==
  ASSUME LockInv, NEW h \in Handler, UpdateLock(h), RowUnchanged(h)
  PROVE Lease!LeaseNext
<1>1. /\ handler[h].pc = "decided"
      /\ lockId = handler[h].snapId /\ lockTime = handler[h].snapTime
      /\ lockId' = handler[h].newId /\ lockTime' = handler[h].newTime
      /\ past' = IF lockId \in {NoLock, handler[h].newId} THEN past ELSE past \cup {lockId}
      /\ UNCHANGED now
  BY DEF UpdateLock, RowUnchanged
<1>2. /\ lockId' \in LockId /\ lockTime' \in Nat /\ lockTime \in Nat /\ now \in Nat
      /\ lockTime =< lockTime' /\ lockTime' =< now
  BY <1>1 DEF LockInv, LockTypeOK, HandlerState, StampInv, HasId
<1>3. CASE handler[h].newId = handler[h].snapId
  BY <1>1, <1>2, <1>3, NoLockAssumption DEF Lease!LeaseNext, Lease!Refresh
<1>4. CASE Unseen(h) /\ handler[h].snapId = NoLock
  BY <1>1, <1>2, <1>4 DEF Lease!LeaseNext, Lease!Acquire
<1>5. CASE /\ Unseen(h) /\ handler[h].snapId # NoLock
           /\ handler[h].snapTime + LockTimeout < handler[h].newTime
  <2>1. past' = past \cup {lockId} /\ lockId' \in LockId \ past'
    BY <1>1, <1>2, <1>5 DEF Unseen
  <2>2. lockTime' \in (lockTime + LockTimeout + 1) .. now
    BY <1>1, <1>2, <1>5, TimeAssumption
  <2> QED
    BY <1>1, <1>5, <2>1, <2>2 DEF Lease!LeaseNext, Lease!TakeOver
<1> QED
  BY <1>1, <1>3, <1>4, <1>5 DEF LockInv, DecisionInv

\* Every step of the endpoint is a step of the lease, or leaves the lease alone.
LEMMA StepRefines == LockInv /\ [LockNext]_lockVars => [Lease!LeaseNext]_Lease!leaseVars
<1> SUFFICES ASSUME LockInv, [LockNext]_lockVars PROVE [Lease!LeaseNext]_Lease!leaseVars
  OBVIOUS
<1> USE DEF Lease!leaseVars, row
<1>1. ASSUME NEW h \in Handler, UpdateLock(h) PROVE [Lease!LeaseNext]_Lease!leaseVars
  <2>1. CASE RowUnchanged(h)
    BY <1>1, <2>1, WriteRefines
  <2>2. CASE ~RowUnchanged(h)
    BY <1>1, <2>2 DEF UpdateLock
  <2> QED
    BY <2>1, <2>2
<1>2. ASSUME NEW h \in Handler, HandlerStep(h) \/ Finish(h), ~UpdateLock(h)
      PROVE UNCHANGED Lease!leaseVars
  BY <1>2 DEF HandlerStep, GetVolumeById, DecideRefresh, DecideNew, DecideConflict, Abort, Finish
<1>3. ASSUME NEW h \in Handler, NEW prev \in OptLockId, Receive(h, prev)
      PROVE UNCHANGED Lease!leaseVars
  BY <1>3 DEF Receive
<1>4. CASE Tick
  BY <1>4 DEF Tick, Lease!LeaseNext, Lease!Pass
<1>5. CASE DeleteVolume \/ UNCHANGED lockVars
  BY <1>5 DEF DeleteVolume, lockVars
<1> QED
  BY <1>1, <1>2, <1>3, <1>4, <1>5 DEF LockNext

\* The lock endpoint implements the lease: one holder at a time, stamps that only move forward,
\* and no take-over of a lock whose stamp is not older than LockTimeout.
THEOREM ImplementsLease == LockSpec => LeaseSpec
<1>1. LockInit => Lease!LeaseInit
  BY DEF LockInit, Lease!LeaseInit
<1> QED
  BY <1>1, StepRefines, LockInvariant, PTL DEF LockSpec, LeaseSpec, Lease!LeaseSpec

-------------------------------------------------------------------------------
\* VolumeServe.

\* The id a process asks with: its own lock's, or the one it began with.
Asked(n) == IF pc[n] = "refresh" THEN lease[n].id ELSE IF flag[n] = NoLock THEN file[n] ELSE flag[n]

\* The process waits for an answer exactly when a handler works for it, and for it alone; what
\* a handler in a slot was asked with is what its process remembers.
SlotInv ==
  /\ \A n \in Node : slot[n] # NoHandler <=> pc[n] \in {"start", "refresh"}
  /\ \A n \in Node : slot[n] # NoHandler => handler[slot[n]].pc # "idle"
  /\ \A m, n \in Node : slot[m] # NoHandler /\ slot[m] = slot[n] => m = n
  /\ \A n \in Node : slot[n] # NoHandler /\ handler[slot[n]].pc # "refused" =>
       handler[slot[n]].prev = Asked(n)

\* A process serves from its first granted answer on, until it is down.
ServingInv ==
  /\ \A n \in Node : Serving(n) <=> pc[n] \in {"idle", "refresh"}
  /\ \A n \in Node : volumeNil[n] => pc[n] = "idle"

\* Every id somebody knows was issued, to one machine.
OwnInv == OwnersDisjoint /\ \A n \in Node : Owned(n) \subseteq issued

ServeInv == LockInv /\ ServeTypeOK /\ SlotInv /\ ServingInv /\ OwnInv

-------------------------------------------------------------------------------
\* The initial state satisfies the invariant.
LEMMA ServeInitInv == ServeInit => ServeInv
<1> SUFFICES ASSUME ServeInit PROVE ServeInv
  OBVIOUS
<1>1. LockInv
  BY LockInitInv DEF ServeInit
<1>2. ServeTypeOK
  BY <1>1 DEF ServeInit, ServeTypeOK, LockInv, NoLease, OptLockId
<1>3. SlotInv /\ ServingInv
  BY DEF ServeInit, SlotInv, ServingInv, Serving, NoLease
<1>4. \A n \in Node : Owned(n) = {}
  BY DEF ServeInit, Owned, NoLease
<1> QED
  BY <1>1, <1>2, <1>3, <1>4 DEF ServeInv, OwnInv, OwnersDisjoint

\* What the processes do to the endpoint is what any client may do.
LEMMA ServeIsLock == ServeTypeOK /\ [ServeNext]_serveVars => [LockNext]_lockVars
<1> SUFFICES ASSUME ServeTypeOK, [ServeNext]_serveVars PROVE [LockNext]_lockVars
  OBVIOUS
<1>1. ASSUME NEW n \in Node, NodeStep(n) PROVE [LockNext]_lockVars
  <2>1. ASSUME NEW h \in Handler, StartServe(n, h) \/ Refresh(n, h) PROVE LockNext
    <3>1. file[n] \in OptLockId /\ lease[n].id \in OptLockId /\ granted[n] \subseteq OptLockId
      BY DEF ServeTypeOK, OptLockId
    <3>2. PICK prev \in OptLockId : Receive(h, prev)
      BY <2>1, <3>1 DEF StartServe, Refresh, Send, OptLockId
    <3> QED
      BY <3>2 DEF LockNext
  <2>2. ASSUME NEW h \in Handler, Granted(n, h) \/ GrantedStoreFails(n, h) \/ Refused(n, h)
        PROVE LockNext
    BY <2>2 DEF Granted, GrantedStoreFails, Refused, LockNext
  <2>3. ASSUME RefreshPanics(n) \/ Lost(n) \/ Crash(n) PROVE UNCHANGED lockVars
    BY <2>3 DEF RefreshPanics, Lost, Crash
  <2> QED
    BY <1>1, <2>1, <2>2, <2>3 DEF NodeStep
<1>2. ASSUME NEW h \in Handler, ServerStep(h) PROVE LockNext
  BY <1>2 DEF ServerStep, LockNext
<1>3. CASE ServeDelete \/ ServeTick
  BY <1>3 DEF ServeDelete, ServeTick, LockNext
<1>4. CASE UNCHANGED serveVars
  BY <1>4 DEF serveVars
<1> QED
  BY <1>1, <1>2, <1>3, <1>4 DEF ServeNext, ServeNextButTick

\* Time stays a number.
LEMMA DueNat == \A t \in Nat : Due(t) \in Nat /\ Due(t) =< t /\ Due(t) =< MaxTime
  BY TimeAssumption DEF Due

\* What a step of a process does to the ids its machine was granted and to its flag.
LEMMA FlagTypes ==
  ASSUME LockInv, ServeTypeOK, NEW n \in Node, NodeStep(n)
  PROVE  flag' \in [Node -> OptLockId] /\ granted' \in [Node -> SUBSET LockId]
<1> USE DEF ServeTypeOK
<1>1. ASSUME Down(n) PROVE flag' \in [Node -> OptLockId]
  BY <1>1 DEF Down, OptLockId
<1>2. ASSUME RequestFails(n) PROVE flag' \in [Node -> OptLockId]
  BY <1>1, <1>2 DEF RequestFails
<1>3. ASSUME NEW h \in Handler, StartServe(n, h)
      PROVE  flag' \in [Node -> OptLockId] /\ granted' = granted
  <2>1. PICK prev \in granted[n] \cup {NoLock} : flag' = [flag EXCEPT ![n] = prev] /\ granted' = granted
    BY <1>3 DEF StartServe, Send
  <2>2. prev \in OptLockId
    BY DEF OptLockId
  <2> QED
    BY <2>1, <2>2
<1>4. ASSUME NEW h \in Handler, Refresh(n, h) PROVE UNCHANGED <<flag, granted>>
  BY <1>4 DEF Refresh, Send
<1>5. ASSUME NEW h \in Handler, handler[h].pc = "granted", Learn(n, h)
      PROVE  granted' \in [Node -> SUBSET LockId]
  <2>1. handler[h].newId \in LockId
    BY <1>5 DEF LockInv, LockTypeOK, StampInv, HasId
  <2> QED
    BY <1>5, <2>1 DEF Learn
<1>6. ASSUME NEW h \in Handler, Granted(n, h) \/ GrantedStoreFails(n, h)
      PROVE  flag' \in [Node -> OptLockId] /\ granted' \in [Node -> SUBSET LockId]
  BY <1>1, <1>5, <1>6 DEF Granted, GrantedStoreFails, Accept
<1>7. ASSUME (\E h \in Handler : Refused(n, h)) \/ RefreshPanics(n) \/ Lost(n) \/ Crash(n)
      PROVE  flag' \in [Node -> OptLockId] /\ granted' = granted
  BY <1>1, <1>2, <1>7 DEF Refused, RefreshPanics, Lost, Crash
<1> QED
  BY <1>3, <1>4, <1>6, <1>7 DEF NodeStep

\* Every step keeps the types.
LEMMA ServeTypeStep == LockInv /\ ServeTypeOK /\ [ServeNext]_serveVars => ServeTypeOK'
<1> SUFFICES ASSUME LockInv, ServeTypeOK, [ServeNext]_serveVars PROVE ServeTypeOK'
  OBVIOUS
<1> DEFINE OldTypes == /\ pc \in [Node -> {"down", "start", "idle", "refresh"}]
                       /\ lease \in [Node -> [id : OptLockId, time : Nat]]
                       /\ volumeNil \in [Node -> BOOLEAN]
                       /\ slot \in [Node -> Handler \cup {NoHandler}]
                       /\ deadline \in [Node -> Nat]
                       /\ file \in [Node -> OptLockId]
<1>1. LockTypeOK'
  BY ServeIsLock, LockTypeStep DEF ServeTypeOK
<1> USE DEF ServeTypeOK
<1>2. ASSUME NEW n \in Node, Down(n) PROVE OldTypes'
  BY <1>2 DEF Down, NoLease, OptLockId
<1>3. ASSUME NEW n \in Node, NEW h \in Handler, StartServe(n, h) \/ Refresh(n, h)
      PROVE OldTypes'
  <2>1. Due(now + MaxRTT) \in Nat
    BY DueNat, ServeTimeAssumption DEF LockTypeOK
  <2>2. ASSUME NEW prev, NEW state \in {"start", "refresh"}, Send(n, h, prev, state)
        PROVE OldTypes'
    BY <2>1, <2>2 DEF Send
  <2> QED
    BY <1>3, <2>2 DEF StartServe, Refresh
<1>4. ASSUME NEW n \in Node, NEW h \in Handler, Accept(n, h), UNCHANGED file
             \/ file' = [file EXCEPT ![n] = handler[h].newId]
      PROVE OldTypes'
  <2>1. NextRefresh(n) \in Nat
    BY DueNat, ServeTimeAssumption DEF NextRefresh, LockTypeOK
  <2>2. [id |-> handler[h].newId, time |-> handler[h].newTime] \in [id : OptLockId, time : Nat]
    BY DEF LockTypeOK, HandlerState
  <2>3. handler[h].newId \in OptLockId
    BY DEF LockTypeOK, HandlerState
  <2> QED
    BY <1>4, <2>1, <2>2, <2>3 DEF Accept
<1>5. ASSUME NEW n \in Node, RequestFails(n) PROVE OldTypes'
  <2>1. Due(now + RefreshInterval) \in Nat
    BY DueNat, ServeTimeAssumption DEF LockTypeOK
  <2> QED
    BY <1>2, <1>5, <2>1 DEF RequestFails
<1>6. ASSUME UNCHANGED nodeVars PROVE ServeTypeOK'
  BY <1>1, <1>6 DEF nodeVars
<1>7. ASSUME NEW n \in Node, NodeStep(n) PROVE OldTypes'
  BY <1>2, <1>3, <1>4, <1>5, <1>7
     DEF NodeStep, Granted, GrantedStoreFails, Refused, RefreshPanics, Lost, Crash
<1>8. ASSUME NEW n \in Node, NodeStep(n) PROVE ServeTypeOK'
  BY <1>1, <1>7, <1>8, FlagTypes
<1> QED
  BY <1>6, <1>8 DEF ServeNext, ServeNextButTick, ServerStep, ServeDelete, ServeTick, serveVars

-------------------------------------------------------------------------------
\* What a handler's own step may do to the handler.
LEMMA HandlerFacts ==
  ASSUME LockInv, NEW h \in Handler, HandlerStep(h)
  PROVE /\ \A g \in Handler : g # h => handler'[g] = handler[g]
        /\ handler[h].pc \notin {"idle", "refused"} /\ handler'[h].pc # "idle"
        /\ handler'[h].prev \in {NoLock, handler[h].prev}
        /\ handler'[h].pc # "refused" => handler'[h].prev = handler[h].prev
        /\ \/ handler'[h].newId \in {NoLock, handler[h].newId, handler[h].prev}
              /\ issued' = issued
           \/ handler'[h].newId \in LockId \ issued
              /\ issued' = issued \cup {handler'[h].newId}
<1> USE DEF LockInv, LockTypeOK, HandlerState
<1>1. CASE GetVolumeById(h)
  <2>1. CASE deleted
    BY <1>1, <2>1 DEF GetVolumeById, Refuse, IdleHandler
  <2>2. CASE ~deleted
    <3>1. PICK t : t = [handler[h] EXCEPT !.pc = "read", !.snapId = lockId, !.snapTime = lockTime]
      OBVIOUS
    <3>2. handler' = [handler EXCEPT ![h] = t] /\ issued' = issued /\ handler[h].pc = "received"
      BY <1>1, <2>2, <3>1 DEF GetVolumeById
    <3>3. t.pc = "read" /\ t.prev = handler[h].prev /\ t.newId = handler[h].newId
      BY <3>1
    <3>4. handler'[h] = t /\ \A g \in Handler : g # h => handler'[g] = handler[g]
      BY <3>2
    <3> QED
      BY <3>2, <3>3, <3>4
  <2> QED
    BY <2>1, <2>2
<1>2. CASE DecideRefresh(h)
  BY <1>2 DEF DecideRefresh, Refreshes
<1>3. CASE DecideNew(h)
  <2>1. PICK id \in LockId \ issued :
          /\ issued' = issued \cup {id}
          /\ handler' = [handler EXCEPT ![h] =
                           [@ EXCEPT !.pc = "decided", !.newId = id, !.newTime = now]]
    BY <1>3 DEF DecideNew
  <2>2. /\ handler'[h].newId = id /\ handler'[h].pc = "decided"
        /\ handler'[h].prev = handler[h].prev
        /\ \A g \in Handler : g # h => handler'[g] = handler[g]
    BY <2>1
  <2> QED
    BY <1>3, <2>1, <2>2 DEF DecideNew
<1>4. CASE DecideConflict(h) \/ Abort(h)
  BY <1>4 DEF DecideConflict, Abort, Refuse, IdleHandler
<1>5. CASE UpdateLock(h)
  BY <1>5 DEF UpdateLock, Refuse, IdleHandler
<1> QED
  BY <1>1, <1>2, <1>3, <1>4, <1>5 DEF HandlerStep

\* Forgetting an id harms nobody.
LEMMA ForgetIds ==
  ASSUME OwnInv, \A n \in Node : Owned(n)' \subseteq Owned(n), issued \subseteq issued'
  PROVE OwnInv'
  BY DEF OwnInv, OwnersDisjoint

\* Nothing a handler does alone disturbs the processes; a new id has one owner.
LEMMA ServerStepInv ==
  ASSUME ServeInv, NEW h \in Handler, ServerStep(h)
  PROVE SlotInv' /\ ServingInv' /\ OwnInv'
<1> USE DEF ServeInv, ServeTypeOK
<1>1. UNCHANGED <<pc, lease, volumeNil, slot, file, flag, granted>>
  BY DEF ServerStep, nodeVars
<1>2. ServingInv'
  BY <1>1 DEF ServingInv, Serving
<1>3. CASE HandlerStep(h)
  <2>1. SlotInv'
    <3>1. ASSUME NEW n \in Node, slot[n] # NoHandler
          PROVE /\ handler'[slot[n]].pc # "idle"
                /\ handler'[slot[n]].pc # "refused" => handler'[slot[n]].prev = Asked(n)
      <4>1. CASE slot[n] = h
        BY <1>3, <3>1, <4>1, HandlerFacts DEF SlotInv
      <4>2. CASE slot[n] # h
        <5>1. slot[n] \in Handler /\ handler'[slot[n]] = handler[slot[n]]
          BY <1>3, <3>1, <4>2, HandlerFacts
        <5> QED
          BY <3>1, <5>1 DEF SlotInv
      <4> QED
        BY <4>1, <4>2
    <3>2. \A n \in Node : Asked(n)' = Asked(n)
      BY <1>1 DEF Asked
    <3> QED
      BY <1>1, <3>1, <3>2 DEF SlotInv
  <2>2. ASSUME handler'[h].newId \in {NoLock, handler[h].newId, handler[h].prev},
               issued' = issued
        PROVE OwnInv'
    <3>1. \A n \in Node : Owned(n)' \subseteq Owned(n)
      BY <1>1, <1>3, <2>2, HandlerFacts DEF Owned
    <3> QED
      BY <2>2, <3>1, ForgetIds
  <2>3. ASSUME handler'[h].newId \in LockId \ issued,
               issued' = issued \cup {handler'[h].newId}
        PROVE OwnInv'
    <3>1. \A n \in Node : slot[n] # h => Owned(n)' \subseteq Owned(n)
      BY <1>1, <1>3, <2>3, HandlerFacts DEF Owned
    <3>2. \A n \in Node : slot[n] = h => Owned(n)' \subseteq Owned(n) \cup {handler'[h].newId}
      BY <1>1, <1>3, <2>3, HandlerFacts, NodeAssumption DEF Owned
    <3>3. \A m, n \in Node : slot[m] = h /\ slot[n] = h => m = n
      BY NodeAssumption DEF SlotInv
    <3>4. \A n \in Node : handler'[h].newId \notin Owned(n)
      BY <2>3 DEF OwnInv
    <3>5. \A m, n \in Node : m # n => (Owned(m) \cap Owned(n) = {})'
      <4> TAKE m, n \in Node
      <4> HAVE m # n
      <4>1. slot[m] # h \/ slot[n] # h
        BY <3>3
      <4>2. Owned(m) \cap Owned(n) = {}
        BY DEF OwnInv, OwnersDisjoint
      <4> QED
        BY <3>1, <3>2, <3>4, <4>1, <4>2
    <3>6. \A n \in Node : (Owned(n) \subseteq issued)'
      BY <2>3, <3>1, <3>2 DEF OwnInv
    <3> QED
      BY <3>5, <3>6 DEF OwnInv, OwnersDisjoint
  <2> QED
    BY <1>2, <1>3, <2>1, <2>2, <2>3, HandlerFacts
<1>4. CASE Unheard(h) /\ Finish(h)
  <2>1. /\ \A g \in Handler : g # h => handler'[g] = handler[g]
        /\ issued' = issued
    BY <1>4 DEF Finish, LockInv, LockTypeOK
  <2>2. SlotInv'
    BY <1>1, <1>4, <2>1 DEF SlotInv, Unheard, Asked
  <2>3. \A n \in Node : Owned(n)' \subseteq Owned(n)
    BY <1>1, <1>4, <2>1 DEF Owned, Unheard
  <2> QED
    BY <1>2, <2>1, <2>2, <2>3, ForgetIds
<1> QED
  BY <1>3, <1>4 DEF ServerStep

\* A request takes a handler of its own and carries an id its process knows.
LEMMA SendInv ==
  ASSUME ServeInv, NEW n \in Node, NEW h \in Handler,
         NEW state \in {"start", "refresh"},
         pc[n] = IF state = "start" THEN "down" ELSE "idle",
         volumeNil[n] = FALSE,
         NEW prev, prev \in Owned(n) \cup {NoLock}, Send(n, h, prev, state),
         NEW id \in granted[n] \cup {NoLock, flag[n]}, flag' = [flag EXCEPT ![n] = id],
         prev = IF state = "refresh" THEN lease[n].id ELSE IF id = NoLock THEN file[n] ELSE id
  PROVE SlotInv' /\ ServingInv' /\ OwnInv'
<1> USE NodeAssumption DEF ServeInv, ServeTypeOK
<1>1. /\ handler[h].pc = "idle"
      /\ handler'[h].pc = "received" /\ handler'[h].prev = prev /\ handler'[h].newId = NoLock
      /\ \A g \in Handler : g # h => handler'[g] = handler[g]
      /\ issued' = issued
  BY DEF Send, Receive, IdleHandler, LockInv, LockTypeOK
<1>2. /\ \A m \in Node : slot[m] # h
      /\ slot' = [slot EXCEPT ![n] = h] /\ pc' = [pc EXCEPT ![n] = state]
      /\ UNCHANGED <<lease, volumeNil, file, granted>>
      /\ flag'[n] = id /\ \A m \in Node : m # n => flag'[m] = flag[m]
  BY <1>1 DEF Send, SlotInv
<1>3. SlotInv'
  <2>1. pc'[n] = state /\ slot'[n] = h /\ h # NoHandler
        /\ \A m \in Node : m # n => pc'[m] = pc[m] /\ slot'[m] = slot[m]
    BY <1>2
  <2>2. prev = Asked(n)' /\ \A m \in Node : m # n => Asked(m)' = Asked(m)
    BY <1>2, <2>1 DEF Asked
  <2>3. (\A m \in Node : slot[m] # NoHandler <=> pc[m] \in {"start", "refresh"})'
    BY <2>1 DEF SlotInv
  <2>4. (\A m \in Node : slot[m] # NoHandler => handler[slot[m]].pc # "idle")'
    BY <1>1, <1>2, <2>1 DEF SlotInv
  <2>5. (\A m, k \in Node : slot[m] # NoHandler /\ slot[m] = slot[k] => m = k)'
    BY <1>2, <2>1 DEF SlotInv
  <2>6. (\A m \in Node : slot[m] # NoHandler /\ handler[slot[m]].pc # "refused" =>
           handler[slot[m]].prev = Asked(m))'
    BY <1>1, <1>2, <2>1, <2>2 DEF SlotInv
  <2> QED
    BY <2>3, <2>4, <2>5, <2>6 DEF SlotInv
<1>4. ServingInv'
  BY <1>1, <1>2 DEF ServingInv, Serving
<1>5. ASSUME NEW m \in Node, m # n PROVE Owned(m)' \subseteq Owned(m)
  BY <1>1, <1>2, <1>5 DEF Owned
<1>6. Owned(n)' \subseteq Owned(n)
  <2>1. id \in Owned(n) \cup {NoLock}
    BY DEF Owned
  <2>2. Owned(n)' \subseteq Owned(n) \cup {id, prev, NoLock}
    BY <1>1, <1>2 DEF Owned
  <2>3. NoLock \notin Owned(n)'
    BY DEF Owned
  <2> QED
    BY <2>1, <2>2, <2>3
<1> QED
  BY <1>1, <1>3, <1>4, <1>5, <1>6, ForgetIds

\* A process that stops waiting, with its handler over or left alone.
ReleasesSlot(n) ==
  /\ slot' = [slot EXCEPT ![n] = NoHandler]
  /\ \A g \in Handler : g # slot[n] => handler'[g] = handler[g]
  /\ issued' = issued

LEMMA FinishReleases ==
  ASSUME ServeInv, NEW n \in Node, slot' = [slot EXCEPT ![n] = NoHandler],
         UNCHANGED lockVars \/ \E h \in Handler : slot[n] = h /\ Finish(h)
  PROVE ReleasesSlot(n)
  BY DEF ReleasesSlot, Finish, lockVars, ServeInv, LockInv, LockTypeOK

\* It leaves the other processes and their handlers alone.
LEMMA ReleaseInv ==
  ASSUME ServeInv, NEW n \in Node, ReleasesSlot(n),
         NEW state \in {"down", "idle"}, pc' = [pc EXCEPT ![n] = state],
         \A m \in Node : m # n => /\ lease'[m] = lease[m] /\ file'[m] = file[m]
                                /\ flag'[m] = flag[m] /\ granted'[m] = granted[m]
  PROVE /\ SlotInv'
        /\ \A m \in Node : m # n => Owned(m)' = Owned(m)
<1> USE NodeAssumption DEF ServeInv, ServeTypeOK, ReleasesSlot
<1>1. ASSUME NEW m \in Node, m # n
      PROVE /\ slot'[m] = slot[m] /\ pc'[m] = pc[m]
            /\ slot[m] # NoHandler =>
                 slot[m] \in Handler /\ handler'[slot[m]] = handler[slot[m]]
  BY <1>1 DEF SlotInv
<1>2. slot'[n] = NoHandler /\ pc'[n] \notin {"start", "refresh"}
  OBVIOUS
<1>3. SlotInv'
  <2>1. \A m \in Node : (slot[m] # NoHandler <=> pc[m] \in {"start", "refresh"})'
    BY <1>1, <1>2 DEF SlotInv
  <2>2. \A m \in Node : (slot[m] # NoHandler => handler[slot[m]].pc # "idle")'
    BY <1>1, <1>2 DEF SlotInv
  <2>3. \A m, k \in Node : (slot[m] # NoHandler /\ slot[m] = slot[k] => m = k)'
    BY <1>1, <1>2 DEF SlotInv
  <2>4. ASSUME NEW m \in Node, slot'[m] # NoHandler, handler'[slot'[m]].pc # "refused"
        PROVE handler'[slot'[m]].prev = Asked(m)'
    <3>1. m # n /\ slot'[m] = slot[m] /\ handler'[slot[m]] = handler[slot[m]]
      BY <1>1, <1>2, <2>4
    <3>2. Asked(m)' = Asked(m)
      BY <1>1, <3>1 DEF Asked
    <3> QED
      BY <1>1, <2>4, <3>1, <3>2 DEF SlotInv
  <2> QED
    BY <2>1, <2>2, <2>3, <2>4 DEF SlotInv
<1>4. ASSUME NEW m \in Node, m # n PROVE Owned(m)' = Owned(m)
  BY <1>1, <1>4 DEF Owned
<1> QED
  BY <1>3, <1>4

\* The ids a machine was granted: as they were, or with the one that it is granted.
LearnsAtMost(n) ==
  \/ granted' = granted
  \/ \E h \in Handler : slot[n] = h /\ handler[h].pc = "granted" /\ Learn(n, h)

\* That one is its own already.
LEMMA LearnInv ==
  ASSUME ServeInv, NEW n \in Node, LearnsAtMost(n)
  PROVE  /\ \A m \in Node : m # n => granted'[m] = granted[m]
         /\ granted'[n] \ {NoLock} \subseteq Owned(n)
<1> USE NodeAssumption DEF ServeInv, ServeTypeOK
<1>1. CASE granted' = granted
  BY <1>1 DEF Owned
<1>2. ASSUME NEW h \in Handler, slot[n] = h, handler[h].pc = "granted", Learn(n, h)
      PROVE  /\ \A m \in Node : m # n => granted'[m] = granted[m]
             /\ granted'[n] \ {NoLock} \subseteq Owned(n)
  <2>1. granted' = [granted EXCEPT ![n] = granted[n] \cup {handler[h].newId}]
    BY <1>2 DEF Learn
  <2>2. granted'[n] = granted[n] \cup {handler[h].newId} /\ \A m \in Node : m # n => granted'[m] = granted[m]
    BY <2>1
  <2> QED
    BY <1>2, <2>2 DEF Owned
<1> QED
  BY <1>1, <1>2 DEF LearnsAtMost

\* A process that dies forgets what it knew, but for its file.
LEMMA DownInv ==
  ASSUME ServeInv, NEW n \in Node, Down(n), ReleasesSlot(n), LearnsAtMost(n)
  PROVE SlotInv' /\ ServingInv' /\ OwnInv'
<1> USE NodeAssumption DEF ServeInv, ServeTypeOK, ReleasesSlot, Down, NoLease
<1>1. SlotInv' /\ \A m \in Node : m # n => Owned(m)' = Owned(m)
  BY ReleaseInv, LearnInv
<1>2. ServingInv'
  BY DEF ServingInv, Serving
<1>3. \A m \in Node : Owned(m)' \subseteq Owned(m)
  <2>1. Owned(n)' \subseteq Owned(n)
    BY LearnInv DEF Owned
  <2> QED
    BY <1>1, <2>1
<1> QED
  BY <1>1, <1>2, <1>3, ForgetIds

\* A refresh that fails: vs.volume is nil, the id is still remembered.
LEMMA RefreshFailsInv ==
  ASSUME ServeInv, NEW n \in Node, pc[n] = "refresh", RequestFails(n), ReleasesSlot(n),
         LearnsAtMost(n)
  PROVE SlotInv' /\ ServingInv' /\ OwnInv'
<1> USE NodeAssumption DEF ServeInv, ServeTypeOK, ReleasesSlot, RequestFails
<1>1. SlotInv' /\ \A m \in Node : m # n => Owned(m)' = Owned(m)
  BY ReleaseInv, LearnInv
<1>2. ServingInv'
  BY DEF ServingInv, Serving
<1>3. \A m \in Node : Owned(m)' \subseteq Owned(m)
  <2>1. Owned(n)' \subseteq Owned(n)
    BY LearnInv DEF Owned
  <2> QED
    BY <1>1, <2>1
<1> QED
  BY <1>1, <1>2, <1>3, ForgetIds

\* A granted answer: the process learns the id its handler held for it.
LEMMA AcceptInv ==
  ASSUME ServeInv, NEW n \in Node, NEW h \in Handler, slot[n] = h,
         handler[h].pc = "granted", Accept(n, h), Learn(n, h), ReleasesSlot(n),
         file' \in {file, [file EXCEPT ![n] = handler[h].newId]}
  PROVE SlotInv' /\ ServingInv' /\ OwnInv'
<1> USE NodeAssumption DEF ServeInv, ServeTypeOK, ReleasesSlot, Accept
<1>1. handler[h].newId \in issued /\ handler[h].newId # NoLock /\ pc[n] \in {"start", "refresh"}
  BY NoLockAssumption DEF LockInv, LockTypeOK, StampInv, HasId, SlotInv
<1>2. lease'[n].id = handler[h].newId /\ \A m \in Node : m # n => lease'[m] = lease[m]
  OBVIOUS
<1>3. SlotInv' /\ \A m \in Node : m # n => Owned(m)' = Owned(m)
  <2>1. pc' = [pc EXCEPT ![n] = "idle"]
    OBVIOUS
  <2>2. \A m \in Node : m # n => file'[m] = file[m] /\ flag'[m] = flag[m] /\ granted'[m] = granted[m]
    BY DEF Learn
  <2> QED
    BY <1>2, <2>1, <2>2, ReleaseInv
<1>4. ServingInv'
  BY <1>1, <1>2 DEF ServingInv, Serving
<1>5. \A m \in Node : Owned(m)' \subseteq Owned(m)
  <2>1. Owned(n)' \subseteq Owned(n)
    <3>1. file'[n] \in {file[n], handler[h].newId} /\ slot'[n] = NoHandler /\ flag'[n] = flag[n]
      OBVIOUS
    <3>2. granted'[n] = granted[n] \cup {handler[h].newId}
      BY DEF Learn
    <3> QED
      BY <1>2, <3>1, <3>2 DEF Owned
  <2> QED
    BY <1>3, <2>1
<1> QED
  BY <1>3, <1>4, <1>5, ForgetIds

\* Every step keeps the invariant.
LEMMA ServeStepInv == ServeInv /\ [ServeNext]_serveVars => ServeInv'
<1> SUFFICES ASSUME ServeInv, [ServeNext]_serveVars PROVE ServeInv'
  OBVIOUS
<1>1. LockInv' /\ ServeTypeOK'
  BY ServeIsLock, LockStepInv, ServeTypeStep DEF ServeInv
<1> SUFFICES SlotInv' /\ ServingInv' /\ OwnInv'
  BY <1>1 DEF ServeInv
<1>2. ASSUME NEW n \in Node, NEW h \in Handler, StartServe(n, h)
      PROVE SlotInv' /\ ServingInv' /\ OwnInv'
  <2>1. volumeNil[n] = FALSE
    BY <1>2 DEF StartServe, ServeInv, ServeTypeOK, ServingInv
  <2>2. PICK id \in granted[n] \cup {NoLock} :
          flag' = [flag EXCEPT ![n] = id] /\ Send(n, h, IF id = NoLock THEN file[n] ELSE id, "start")
    BY <1>2 DEF StartServe
  <2>3. (IF id = NoLock THEN file[n] ELSE id) \in Owned(n) \cup {NoLock}
    BY DEF Owned
  <2>4. pc[n] = "down"
    BY <1>2 DEF StartServe
  <2> QED
    BY <2>1, <2>2, <2>3, <2>4, SendInv
<1>3. ASSUME NEW n \in Node, NEW h \in Handler, Refresh(n, h)
      PROVE SlotInv' /\ ServingInv' /\ OwnInv'
  <2>1. volumeNil[n] = FALSE
    BY <1>3 DEF Refresh, ServeInv, ServeTypeOK
  <2>2. lease[n].id \in Owned(n) \cup {NoLock} /\ flag' = [flag EXCEPT ![n] = flag[n]]
    BY <1>3 DEF Refresh, Owned, ServeInv, ServeTypeOK
  <2>3. pc[n] = "idle" /\ Send(n, h, lease[n].id, "refresh")
    BY <1>3 DEF Refresh
  <2> QED
    BY <2>1, <2>2, <2>3, SendInv
<1>4. ASSUME NEW n \in Node, NEW h \in Handler, Granted(n, h)
      PROVE SlotInv' /\ ServingInv' /\ OwnInv'
  BY <1>4, FinishReleases, AcceptInv DEF Granted, Accept
<1>5. ASSUME NEW n \in Node, NEW h \in Handler, GrantedStoreFails(n, h)
      PROVE SlotInv' /\ ServingInv' /\ OwnInv'
  <2>1. CASE pc[n] = "start"
    BY <1>5, <2>1, FinishReleases, DownInv DEF GrantedStoreFails, Down, LearnsAtMost
  <2>2. CASE pc[n] # "start"
    BY <1>5, <2>2, FinishReleases, AcceptInv DEF GrantedStoreFails, Accept
  <2> QED
    BY <2>1, <2>2
<1>6. ASSUME NEW n \in Node, slot[n] # NoHandler, RequestFails(n), UNCHANGED granted,
             UNCHANGED lockVars \/ \E h \in Handler : slot[n] = h /\ Finish(h)
      PROVE SlotInv' /\ ServingInv' /\ OwnInv'
  <2>1. CASE pc[n] = "start"
    BY <1>6, <2>1, FinishReleases, DownInv DEF RequestFails, Down, LearnsAtMost
  <2>2. CASE pc[n] = "refresh"
    <3>1. slot' = [slot EXCEPT ![n] = NoHandler]
      BY <1>6, <2>2 DEF RequestFails
    <3> QED
      BY <1>6, <2>2, <3>1, FinishReleases, RefreshFailsInv DEF LearnsAtMost
  <2> QED
    BY <1>6, <2>1, <2>2 DEF ServeInv, SlotInv
<1>7. ASSUME NEW n \in Node, RefreshPanics(n) \/ Crash(n)
      PROVE SlotInv' /\ ServingInv' /\ OwnInv'
  BY <1>7, FinishReleases, DownInv DEF RefreshPanics, Crash, Down, LearnsAtMost
<1>8. ASSUME NEW n \in Node, NodeStep(n)
      PROVE SlotInv' /\ ServingInv' /\ OwnInv'
  BY <1>2, <1>3, <1>4, <1>5, <1>6, <1>7, <1>8, NodeAssumption DEF NodeStep, Refused, Lost
<1>9. CASE ServeDelete \/ ServeTick \/ UNCHANGED serveVars
  <2>1. UNCHANGED <<pc, lease, volumeNil, slot, file, flag, granted, handler, issued>>
    BY <1>9 DEF ServeDelete, ServeTick, DeleteVolume, Tick, serveVars, nodeVars, lockVars
  <2> QED
    BY <2>1 DEF ServeInv, SlotInv, Asked, ServingInv, Serving, OwnInv, OwnersDisjoint, Owned
<1> QED
  BY <1>8, <1>9, ServerStepInv DEF ServeNext, ServeNextButTick

\* However late requests and processes are, no two machines share a lock id.
THEOREM IdsHaveOneOwner == ServeSpec => []OwnersDisjoint
<1>1. ServeInv => OwnersDisjoint
  BY DEF ServeInv, OwnInv
<1> QED
  BY <1>1, ServeInitInv, ServeStepInv, PTL DEF ServeSpec

\* Type correctness of VolumeServe.
THEOREM ServeTypeCorrect == ServeSpec => []ServeTypeOK
<1>1. ServeInv => ServeTypeOK
  BY DEF ServeInv
<1> QED
  BY <1>1, ServeInitInv, ServeStepInv, PTL DEF ServeSpec

\* The processes use the endpoint as VolumeLock says it is used: a behaviour of the machines is,
\* seen from the server, a behaviour of the endpoint with requests that carry any issued id.
THEOREM ServeImplementsLock == ServeSpec => LockSpec
<1>1. ServeInit => LockInit
  BY DEF ServeInit
<1>2. ServeTypeOK /\ [ServeNext]_serveVars => [LockNext]_lockVars
  BY ServeIsLock
<1> QED
  BY <1>1, <1>2, ServeTypeCorrect, PTL DEF ServeSpec, LockSpec

\* Machines and endpoint together are a lease: whatever the processes do, crash or lose, one id
\* holds the lock and nobody takes it over before its time (volume_serve.go, restLockVolume).
THEOREM ServeImplementsLease == ServeSpec => LeaseSpec
  BY ServeImplementsLock, ImplementsLease, PTL

\* What the endpoint promises about answers and ids, it promises the processes.
THEOREM ServeKeepsPromises == ServeSpec => [](NoResurrection /\ Promise)
  BY ServeImplementsLock, NeverResurrected, PromiseKept, PTL

-------------------------------------------------------------------------------
(***************************************************************************)
(* Why LostLockNoticed and DeletedNoticed hold, as far as it is a matter of *)
(* safety: after the loss, or the deletion, a process can take over one     *)
(* more answer, that of the request which was under way.                    *)
(***************************************************************************)

\* The request of a process is past the statement that reads the row.
HasRow(n) ==
  slot[n] # NoHandler /\ handler[slot[n]].pc \in {"read", "decided", "granted"}

\* The answer that is on its way to a process gives it the lock it has.
MayKeep(n) ==
  slot[n] # NoHandler /\ handler[slot[n]].pc = "granted" /\ handler[slot[n]].newId = lease[n].id

\* Once the volume is deleted no request gets past that statement any more, and a process that
\* takes over a lock took it from one that was past it before.
DeletedGrantsRunOut ==
  [][deleted => /\ deleted'
                /\ \A n \in Node :
                     /\ HasRow(n)' => HasRow(n)
                     /\ lease'[n] \notin {lease[n], NoLease} => HasRow(n) /\ ~HasRow(n)']_serveVars

\* Once its lock was given to another no answer under that lock sets out to a process any more, and
\* one that takes over a new stamp of it took the answer that was on its way before.
LostGrantsRunOut ==
  [][\A n \in Node : lease[n].id \in past /\ lease'[n].id = lease[n].id =>
       /\ MayKeep(n)' => MayKeep(n)
       /\ lease'[n] # lease[n] => MayKeep(n) /\ ~MayKeep(n)']_serveVars

\* After a step of its own a process has no request, or one that has just begun; and what it takes
\* over is the answer it was given.
LEMMA OwnSteps ==
  ASSUME ServeInv, NEW n \in Node, NodeStep(n)
  PROVE  /\ ~HasRow(n)' /\ ~MayKeep(n)'
         /\ \/ lease'[n] \in {lease[n], NoLease}
            \/ /\ slot[n] # NoHandler /\ handler[slot[n]].pc = "granted"
               /\ lease'[n].id = handler[slot[n]].newId
<1> USE NodeAssumption DEF ServeInv, ServeTypeOK
<1>1. ASSUME NEW h \in Handler, StartServe(n, h) \/ Refresh(n, h)
      PROVE  slot'[n] = h /\ handler'[h].pc = "received" /\ lease'[n] = lease[n]
  <2>1. PICK prev, state : Send(n, h, prev, state)
    BY <1>1 DEF StartServe, Refresh
  <2>2. slot' = [slot EXCEPT ![n] = h] /\ lease' = lease
    BY <2>1 DEF Send
  <2>3. handler' = [handler EXCEPT ![h] = [IdleHandler EXCEPT !.pc = "received", !.prev = prev]]
    BY <2>1 DEF Send, Receive
  <2>4. handler'[h].pc = "received"
    BY <2>3 DEF IdleHandler, LockTypeOK
  <2> QED
    BY <2>2, <2>4
<1>2. ASSUME Down(n) PROVE slot'[n] = NoHandler /\ lease'[n] = NoLease
  BY <1>2 DEF Down
<1>3. ASSUME RequestFails(n) PROVE slot'[n] = NoHandler /\ lease'[n] \in {lease[n], NoLease}
  BY <1>2, <1>3 DEF RequestFails
<1>4. ASSUME NEW h \in Handler, Accept(n, h), slot[n] = h, handler[h].pc = "granted"
      PROVE  slot'[n] = NoHandler /\ lease'[n].id = handler[slot[n]].newId
  BY <1>4 DEF Accept
<1>5. ASSUME NEW h \in Handler, Granted(n, h) \/ GrantedStoreFails(n, h)
      PROVE  /\ slot'[n] = NoHandler
             /\ \/ lease'[n] = NoLease
                \/ /\ slot[n] # NoHandler /\ handler[slot[n]].pc = "granted"
                   /\ lease'[n].id = handler[slot[n]].newId
  BY <1>2, <1>4, <1>5 DEF Granted, GrantedStoreFails
<1>6. ASSUME (\E h \in Handler : Refused(n, h)) \/ RefreshPanics(n) \/ Lost(n) \/ Crash(n)
      PROVE  slot'[n] = NoHandler /\ lease'[n] \in {lease[n], NoLease}
  BY <1>2, <1>3, <1>6 DEF Refused, RefreshPanics, Lost, Crash
<1>7. CASE \E h \in Handler : StartServe(n, h) \/ Refresh(n, h)
  BY <1>1, <1>7 DEF HasRow, MayKeep
<1>8. CASE \E h \in Handler : Granted(n, h) \/ GrantedStoreFails(n, h)
  BY <1>5, <1>8 DEF HasRow, MayKeep
<1>9. CASE (\E h \in Handler : Refused(n, h)) \/ RefreshPanics(n) \/ Lost(n) \/ Crash(n)
  BY <1>6, <1>9 DEF HasRow, MayKeep
<1> QED
  BY <1>7, <1>8, <1>9 DEF NodeStep

\* The other processes' requests stay where they are.
LEMMA OthersSteps ==
  ASSUME ServeInv, NEW m \in Node, NodeStep(m), NEW n \in Node, n # m
  PROVE  /\ slot'[n] = slot[n] /\ lease'[n] = lease[n]
         /\ slot[n] # NoHandler => handler'[slot[n]] = handler[slot[n]]
<1> USE NodeAssumption DEF ServeInv, ServeTypeOK
<1>1. slot'[n] = slot[n] /\ lease'[n] = lease[n]
  BY DEF NodeStep, StartServe, Refresh, Send, Granted, GrantedStoreFails, Accept, Refused,
         RequestFails, Down, RefreshPanics, Lost, Crash
<1>2. ASSUME slot[n] # NoHandler PROVE handler'[slot[n]] = handler[slot[n]]
  <2>1. slot[n] \in Handler /\ handler[slot[n]].pc # "idle" /\ slot[m] # slot[n]
    BY <1>2 DEF SlotInv
  <2>2. ASSUME NEW h \in Handler, StartServe(m, h) \/ Refresh(m, h) PROVE handler'[slot[n]] = handler[slot[n]]
    <3>1. PICK prev : Receive(h, prev)
      BY <2>2 DEF StartServe, Refresh, Send
    <3>2. handler[h].pc = "idle" /\ \A g \in Handler : g # h => handler'[g] = handler[g]
      BY <3>1 DEF Receive, LockTypeOK
    <3> QED
      BY <2>1, <3>2
  <2>3. ASSUME NEW h \in Handler, Granted(m, h) \/ GrantedStoreFails(m, h) \/ Refused(m, h)
        PROVE  handler'[slot[n]] = handler[slot[n]]
    BY <2>1, <2>3 DEF Granted, GrantedStoreFails, Refused, Finish, LockTypeOK
  <2>4. CASE RefreshPanics(m) \/ Lost(m) \/ Crash(m)
    BY <2>4 DEF RefreshPanics, Lost, Crash, lockVars
  <2> QED
    BY <2>2, <2>3, <2>4 DEF NodeStep
<1> QED
  BY <1>1, <1>2

\* The server takes a request past that statement only if the volume is there.
LEMMA ServerSteps ==
  ASSUME ServeInv, NEW h \in Handler, ServerStep(h), NEW n \in Node
  PROVE  /\ slot'[n] = slot[n] /\ lease'[n] = lease[n]
         /\ deleted /\ HasRow(n)' => HasRow(n)
         /\ MayKeep(n)' => MayKeep(n) \/ lockId' = lease[n].id
<1> USE NodeAssumption DEF ServeInv, ServeTypeOK
<1>1. slot'[n] = slot[n] /\ lease'[n] = lease[n]
  BY DEF ServerStep, nodeVars
<1>2. CASE slot[n] = NoHandler
  BY <1>1, <1>2 DEF HasRow, MayKeep
<1>3. CASE slot[n] # NoHandler /\ slot[n] # h
  <2>1. slot[n] \in Handler /\ handler'[slot[n]] = handler[slot[n]]
    BY <1>3 DEF ServerStep, HandlerStep, GetVolumeById, DecideRefresh, DecideNew, DecideConflict,
                UpdateLock, Abort, Finish, Refuse, LockTypeOK
  <2> QED
    BY <1>1, <1>3, <2>1 DEF HasRow, MayKeep
<1>4. CASE slot[n] = h
  <2>1. HandlerStep(h) /\ h # NoHandler
    BY <1>4 DEF ServerStep, Unheard
  <2>2. CASE GetVolumeById(h)
    <3>1. handler'[h].pc \in {"read", "refused"} /\ (deleted => handler'[h].pc = "refused")
      <4>1. CASE deleted
        BY <2>2, <4>1 DEF GetVolumeById, Refuse, LockTypeOK, IdleHandler
      <4>2. CASE ~deleted
        <5>1. [handler[h] EXCEPT !.pc = "read", !.snapId = lockId, !.snapTime = lockTime].pc = "read"
          BY DEF LockTypeOK, HandlerState
        <5> QED
          BY <2>2, <4>2, <5>1 DEF GetVolumeById, LockTypeOK
      <4> QED
        BY <4>1, <4>2
    <3> QED
      BY <1>1, <1>4, <2>1, <3>1 DEF HasRow, MayKeep
  <2>3. CASE DecideRefresh(h) \/ DecideNew(h)
    <3>1. handler[h].pc = "read" /\ handler'[h].pc = "decided"
      BY <2>3 DEF DecideRefresh, DecideNew, LockTypeOK, HandlerState
    <3> QED
      BY <1>1, <1>4, <2>1, <3>1 DEF HasRow, MayKeep
  <2>4. CASE DecideConflict(h) \/ Abort(h)
    <3>1. handler'[h].pc = "refused"
      BY <2>4 DEF DecideConflict, Abort, Refuse, LockTypeOK, IdleHandler
    <3> QED
      BY <1>1, <1>4, <2>1, <3>1 DEF HasRow, MayKeep
  <2>5. CASE UpdateLock(h)
    <3>1. handler[h].pc = "decided"
      BY <2>5 DEF UpdateLock
    <3>2. \/ handler'[h].pc = "refused"
          \/ handler'[h].newId = handler[h].newId /\ lockId' = handler[h].newId
      BY <2>5 DEF UpdateLock, Refuse, LockTypeOK, IdleHandler, HandlerState
    <3> QED
      BY <1>1, <1>4, <2>1, <3>1, <3>2 DEF HasRow, MayKeep
  <2> QED
    BY <2>1, <2>2, <2>3, <2>4, <2>5 DEF HandlerStep
<1> QED
  BY <1>2, <1>3, <1>4

\* Every other step leaves requests and leases alone.
LEMMA ClockSteps ==
  ASSUME ServeDelete \/ ServeTick, NEW n \in Node
  PROVE  lease'[n] = lease[n] /\ (HasRow(n)' => HasRow(n)) /\ (MayKeep(n)' => MayKeep(n))
<1>1. UNCHANGED <<slot, lease, handler>>
  BY DEF ServeDelete, ServeTick, DeleteVolume, Tick, nodeVars
<1> QED
  BY <1>1 DEF HasRow, MayKeep

\* Nothing brings a deleted volume back (restDeleteVolume is a soft delete).
LEMMA DeletedStays == ServeInv /\ ServeNext /\ deleted => deleted'
<1> SUFFICES ASSUME ServeInv, ServeNext, deleted PROVE deleted'
  OBVIOUS
<1>1. [LockNext]_lockVars
  BY ServeIsLock DEF ServeInv, serveVars
<1> QED
  BY <1>1 DEF LockNext, Receive, HandlerStep, GetVolumeById, DecideRefresh, DecideNew, DecideConflict,
              UpdateLock, Abort, Finish, DeleteVolume, Tick, lockVars, row

\* After the deletion of a volume each process is given its lock at most once more, by the request
\* that had read the row before (UpdateLock does not look at deleted_at).
THEOREM DeletedStopsGrants == ServeSpec => DeletedGrantsRunOut
<1> DEFINE RunsOut == deleted => /\ deleted'
                                 /\ \A n \in Node :
                                      /\ HasRow(n)' => HasRow(n)
                                      /\ lease'[n] \notin {lease[n], NoLease} => HasRow(n) /\ ~HasRow(n)'
<1>1. ServeInv /\ [ServeNext]_serveVars => [RunsOut]_serveVars
  <2> SUFFICES ASSUME ServeInv, ServeNext, deleted, NEW n \in Node
               PROVE  /\ HasRow(n)' => HasRow(n)
                      /\ lease'[n] \notin {lease[n], NoLease} => HasRow(n) /\ ~HasRow(n)'
    BY DeletedStays
  <2>1. CASE NodeStep(n)
    BY <2>1, OwnSteps DEF HasRow
  <2>2. ASSUME NEW m \in Node, NodeStep(m), n # m PROVE lease'[n] = lease[n] /\ (HasRow(n)' => HasRow(n))
    BY <2>2, OthersSteps DEF HasRow
  <2>3. ASSUME NEW h \in Handler, ServerStep(h) PROVE lease'[n] = lease[n] /\ (HasRow(n)' => HasRow(n))
    BY <2>3, ServerSteps
  <2>4. CASE ServeDelete \/ ServeTick
    BY <2>4, ClockSteps
  <2> QED
    BY <2>1, <2>2, <2>3, <2>4 DEF ServeNext, ServeNextButTick
<1> QED
  BY <1>1, ServeInitInv, ServeStepInv, PTL DEF ServeSpec, DeletedGrantsRunOut

\* After its lock was given to another a process keeps it for one more answer at most, the one that
\* was on its way (VolumeServe.lockVolume against restLockVolume).
THEOREM LostStopsGrants == ServeSpec => LostGrantsRunOut
<1> DEFINE RunsOut == \A n \in Node : lease[n].id \in past /\ lease'[n].id = lease[n].id =>
                        /\ MayKeep(n)' => MayKeep(n)
                        /\ lease'[n] # lease[n] => MayKeep(n) /\ ~MayKeep(n)'
<1>1. ServeInv /\ ServeInv' /\ [ServeNext]_serveVars => [RunsOut]_serveVars
  <2> SUFFICES ASSUME ServeInv, ServeInv', ServeNext, NEW n \in Node,
                      lease[n].id \in past, lease'[n].id = lease[n].id
               PROVE  /\ MayKeep(n)' => MayKeep(n)
                      /\ lease'[n] # lease[n] => MayKeep(n) /\ ~MayKeep(n)'
    OBVIOUS
  <2>1. CASE NodeStep(n)
    <3>1. lease[n].id # NoLock
      BY NoLockAssumption DEF ServeInv, ServeTypeOK, LockTypeOK
    <3>2. lease'[n] # NoLease
      BY <3>1 DEF NoLease
    <3> QED
      BY <2>1, <3>2, OwnSteps DEF MayKeep
  <2>2. ASSUME NEW m \in Node, NodeStep(m), n # m PROVE lease'[n] = lease[n] /\ (MayKeep(n)' => MayKeep(n))
    BY <2>2, OthersSteps DEF MayKeep
  <2>3. ASSUME NEW h \in Handler, ServerStep(h) PROVE lease'[n] = lease[n] /\ (MayKeep(n)' => MayKeep(n))
    <3>1. past \subseteq past'
      BY <2>3 DEF ServerStep, HandlerStep, GetVolumeById, DecideRefresh, DecideNew, DecideConflict,
                  UpdateLock, Abort, Finish
    <3>2. lockId' \notin past'
      BY DEF ServeInv, LockInv, RowInv
    <3> QED
      BY <2>3, <3>1, <3>2, ServerSteps
  <2>4. CASE ServeDelete \/ ServeTick
    BY <2>4, ClockSteps
  <2> QED
    BY <2>1, <2>2, <2>3, <2>4 DEF ServeNext, ServeNextButTick
<1> QED
  BY <1>1, ServeInitInv, ServeStepInv, PTL DEF ServeSpec, LostGrantsRunOut

-------------------------------------------------------------------------------
\* Where the deadline of a process is, relative to the stamp of its lock: a wait for an answer
\* ends MaxRTT after the request was sent, hence MaxRTT after the stamp of the answer at most.
TimeInv ==
  /\ now =< MaxTime
  /\ \A n \in Node : pc[n] # "down" => now =< deadline[n]
  /\ \A n \in Node : slot[n] # NoHandler => deadline[n] =< now + MaxRTT
  /\ \A n \in Node : slot[n] # NoHandler /\ HasId(slot[n]) =>
       deadline[n] =< handler[slot[n]].newTime + MaxRTT
  /\ \A n \in Node : pc[n] = "idle" /\ ~volumeNil[n] =>
       deadline[n] =< lease[n].time + MaxRTT + RefreshInterval
  /\ \A n \in Node : pc[n] = "refresh" =>
       deadline[n] =< lease[n].time + 2 * MaxRTT + RefreshInterval
  /\ \A n \in Node : pc[n] = "idle" /\ volumeNil[n] =>
       deadline[n] =< lease[n].time + 2 * MaxRTT + 2 * RefreshInterval

TimelyInv == ServeInv /\ TimeInv /\ ServingHoldsLock /\ FileCurrent

\* A timely step is a step.
LEMMA TimelyIsServe == [TimelyNext]_serveVars => [ServeNext]_serveVars
  BY DEF TimelyNext, TimelyTick, ServeNext

\* The initial state satisfies the invariant.
LEMMA TimelyInitInv == ServeInit => TimelyInv
<1> SUFFICES ASSUME ServeInit PROVE TimelyInv
  OBVIOUS
<1>1. \A n \in Node : pc[n] = "down" /\ slot[n] = NoHandler /\ lease[n].id = NoLock
  BY DEF ServeInit, NoLease
<1>2. now =< MaxTime
  BY TimeAssumption DEF ServeInit, LockInit
<1> QED
  BY <1>1, <1>2, ServeInitInv, NodeAssumption
     DEF TimelyInv, TimeInv, ServingHoldsLock, FileCurrent, Serving

\* While a process serves, its deadline is at most LockTimeout away from its stamp.
LEMMA DeadlineBound ==
  ASSUME EnoughTime, TimelyInv, NEW n \in Node, Serving(n)
  PROVE now =< lease[n].time + LockTimeout
<1>1. /\ now \in Nat /\ deadline[n] \in Nat /\ lease[n].time \in Nat
      /\ pc[n] \in {"idle", "refresh"}
  BY DEF TimelyInv, ServeInv, ServeTypeOK, LockTypeOK, ServingInv
<1>2. now =< deadline[n]
  BY <1>1 DEF TimelyInv, TimeInv
<1>3. deadline[n] =< lease[n].time + 2 * MaxRTT + 2 * RefreshInterval
  BY <1>1, ServeTimeAssumption DEF TimelyInv, TimeInv, ServeInv, ServeTypeOK
<1> QED
  BY <1>1, <1>2, <1>3, ServeTimeAssumption, TimeAssumption DEF EnoughTime

\* An answer that arrives in time names the lock in the row.
LEMMA GrantIsCurrent ==
  ASSUME EnoughTime, TimelyInv, NEW n \in Node, NEW h \in Handler, slot[n] = h,
         handler[h].pc = "granted"
  PROVE lockId = handler[h].newId /\ handler[h].newTime =< lockTime
<1>1. slot[n] # NoHandler /\ pc[n] # "down"
  BY NodeAssumption DEF TimelyInv, ServeInv, SlotInv
<1>2. now =< deadline[n] /\ deadline[n] =< handler[h].newTime + MaxRTT
  BY <1>1 DEF TimelyInv, TimeInv, HasId
<1>3. ~(handler[h].newTime + LockTimeout < now)
  BY <1>2, TimeAssumption, ServeTimeAssumption
     DEF EnoughTime, TimelyInv, ServeInv, ServeTypeOK, LockTypeOK, HandlerState
<1> QED
  BY <1>3 DEF TimelyInv, ServeInv, LockInv, GrantInv

\* Nobody takes over the lock of a process that serves: the row a writer read has a stamp that
\* is not older than the process's, and that is not old enough.
LEMMA WriteKeepsServing ==
  ASSUME EnoughTime, TimelyInv, NEW h \in Handler, UpdateLock(h),
         NEW n \in Node, Serving(n)
  PROVE lockId' = lease[n].id /\ lockTime' >= lease[n].time
<1>1. lockId = lease[n].id /\ lockTime >= lease[n].time /\ lease[n].id # NoLock
  BY DEF TimelyInv, ServingHoldsLock, Serving
<1>2. CASE ~RowUnchanged(h)
  BY <1>1, <1>2 DEF UpdateLock
<1>3. CASE RowUnchanged(h)
  <2>1. /\ handler[h].pc = "decided"
        /\ lockId = handler[h].snapId /\ lockTime = handler[h].snapTime
        /\ lockId' = handler[h].newId /\ lockTime' = handler[h].newTime
        /\ handler[h].snapTime =< handler[h].newTime /\ handler[h].newTime =< now
    BY <1>3 DEF UpdateLock, RowUnchanged, TimelyInv, ServeInv, LockInv, StampInv, HasId
  <2>2. /\ now \in Nat /\ lockTime \in Nat /\ lease[n].time \in Nat
        /\ handler[h].newTime \in Nat
    BY DEF TimelyInv, ServeInv, ServeTypeOK, LockTypeOK, HandlerState
  <2>3. ~(handler[h].snapTime + LockTimeout < handler[h].newTime)
    BY <1>1, <2>1, <2>2, DeadlineBound, TimeAssumption
  <2>4. handler[h].newId = handler[h].snapId
    BY <1>1, <2>1, <2>3 DEF TimelyInv, ServeInv, LockInv, DecisionInv
  <2> QED
    BY <1>1, <2>1, <2>2, <2>4
<1> QED
  BY <1>2, <1>3

\* A handler that comes to have an id stamps it with the present time.
LEMMA StampFacts ==
  ASSUME LockInv, NEW h \in Handler, HandlerStep(h), HasId(h)'
  PROVE handler'[h].newTime = now \/ (HasId(h) /\ handler'[h].newTime = handler[h].newTime)
<1> USE DEF LockInv, LockTypeOK, HandlerState, HasId
<1>1. CASE GetVolumeById(h)
  BY <1>1 DEF GetVolumeById, Refuse, IdleHandler
<1>2. CASE DecideRefresh(h)
  BY <1>2 DEF DecideRefresh
<1>3. CASE DecideNew(h)
  BY <1>3 DEF DecideNew
<1>4. CASE DecideConflict(h) \/ Abort(h)
  BY <1>4 DEF DecideConflict, Abort, Refuse, IdleHandler
<1>5. CASE UpdateLock(h)
  BY <1>5 DEF UpdateLock, Refuse, IdleHandler
<1> QED
  BY <1>1, <1>2, <1>3, <1>4, <1>5 DEF HandlerStep

\* The properties of the timed system, and what they need.
TimedPart == TimeInv /\ ServingHoldsLock /\ FileCurrent

\* A handler's own step keeps the promises made to the processes.
LEMMA TimelyServerStep ==
  ASSUME EnoughTime, TimelyInv, NEW h \in Handler, ServerStep(h)
  PROVE TimedPart'
<1>1. UNCHANGED <<pc, lease, volumeNil, slot, deadline, file, flag>>
  BY DEF ServerStep, nodeVars
<1>2. UNCHANGED now /\ \A g \in Handler : g # h => handler'[g] = handler[g]
  <2>1. UNCHANGED now
    BY DEF ServerStep, HandlerStep, GetVolumeById, DecideRefresh, DecideNew, DecideConflict,
           UpdateLock, Abort, Finish
  <2>2. CASE HandlerStep(h)
    BY <2>1, <2>2, HandlerFacts DEF TimelyInv, ServeInv
  <2>3. CASE Finish(h)
    BY <2>1, <2>3 DEF Finish, TimelyInv, ServeInv, LockInv, LockTypeOK
  <2> QED
    BY <2>2, <2>3 DEF ServerStep
<1>3. ASSUME NEW n \in Node, slot[n] # NoHandler, HasId(slot[n])'
      PROVE deadline[n] =< handler'[slot[n]].newTime + MaxRTT
  <2>1. slot[n] \in Handler
    BY <1>3 DEF TimelyInv, ServeInv, ServeTypeOK
  <2>2. CASE slot[n] # h
    BY <1>1, <1>2, <1>3, <2>1, <2>2 DEF TimelyInv, TimeInv, HasId
  <2>3. CASE slot[n] = h /\ HandlerStep(h)
    <3>1. HasId(h)'
      BY <1>1, <1>3, <2>3 DEF HasId
    <3> QED
      BY <1>3, <2>3, <3>1, StampFacts DEF TimelyInv, ServeInv, TimeInv
  <2>4. CASE slot[n] = h /\ Unheard(h)
    BY <2>4 DEF Unheard
  <2> QED
    BY <2>2, <2>3, <2>4 DEF ServerStep
<1>4. TimeInv'
  BY <1>1, <1>2, <1>3 DEF TimelyInv, TimeInv, HasId
<1>5. ServingHoldsLock'
  <2>1. CASE UpdateLock(h)
    BY <1>1, <2>1, WriteKeepsServing DEF ServingHoldsLock, Serving
  <2>2. CASE ~UpdateLock(h)
    <3>1. UNCHANGED <<lockId, lockTime>>
      BY <2>2 DEF ServerStep, HandlerStep, GetVolumeById, DecideRefresh, DecideNew,
                  DecideConflict, Abort, Finish, row
    <3> QED
      BY <1>1, <3>1 DEF TimelyInv, ServingHoldsLock, Serving
  <2> QED
    BY <2>1, <2>2
<1>6. FileCurrent'
  BY <1>1 DEF TimelyInv, FileCurrent, Serving
<1> QED
  BY <1>4, <1>5, <1>6 DEF TimedPart

\* Sending a request: the answer, or the error, is due MaxRTT later.
LEMMA TimelySend ==
  ASSUME EnoughTime, TimelyInv, NEW n \in Node, NEW h \in Handler,
         NEW prev, NEW state \in {"start", "refresh"}, Send(n, h, prev, state),
         state = "start" => pc[n] = "down",
         state = "refresh" => pc[n] = "idle" /\ ~volumeNil[n],
         NEW id, flag' = [flag EXCEPT ![n] = id], state = "refresh" => id = flag[n]
  PROVE TimedPart'
<1> USE NodeAssumption DEF TimelyInv, ServeInv, ServeTypeOK
<1>1. /\ handler[h].pc = "idle" /\ handler'[h].pc = "received"
      /\ \A g \in Handler : g # h => handler'[g] = handler[g]
      /\ UNCHANGED <<now, lockId, lockTime>>
  BY DEF Send, Receive, IdleHandler, LockTypeOK, row
<1>2. /\ \A m \in Node : slot[m] # h
      /\ slot'[n] = h /\ pc'[n] = state /\ deadline'[n] = Due(now + MaxRTT)
      /\ \A m \in Node : m # n => /\ slot'[m] = slot[m] /\ pc'[m] = pc[m]
                                  /\ deadline'[m] = deadline[m]
      /\ UNCHANGED <<lease, volumeNil, file>>
  BY <1>1 DEF Send, SlotInv
<1>3. now =< deadline'[n] /\ deadline'[n] =< now + MaxRTT
  BY <1>2, TimeAssumption, ServeTimeAssumption DEF Due, TimeInv, LockTypeOK
<1>4. state = "refresh" => deadline'[n] =< lease[n].time + 2 * MaxRTT + RefreshInterval
  <2> SUFFICES ASSUME state = "refresh"
               PROVE deadline'[n] =< lease[n].time + 2 * MaxRTT + RefreshInterval
    OBVIOUS
  <2>1. now =< deadline[n] /\ deadline[n] =< lease[n].time + MaxRTT + RefreshInterval
    BY DEF TimeInv
  <2>2. now \in Nat /\ deadline[n] \in Nat /\ lease[n].time \in Nat
    BY DEF LockTypeOK
  <2>3. now + MaxRTT \in Nat
    BY <2>2, ServeTimeAssumption
  <2>4. deadline'[n] \in Nat
    BY <1>2, <2>3, DueNat
  <2> QED
    BY <1>3, <2>1, <2>2, <2>4, ServeTimeAssumption
<1>5. TimeInv'
  <2>1. ASSUME NEW m \in Node, m # n, slot[m] # NoHandler
        PROVE slot[m] \in Handler /\ handler'[slot[m]] = handler[slot[m]]
    BY <1>1, <1>2, <2>1
  <2>2. (/\ now =< MaxTime
         /\ \A m \in Node : pc[m] # "down" => now =< deadline[m]
         /\ \A m \in Node : slot[m] # NoHandler => deadline[m] =< now + MaxRTT)'
    BY <1>1, <1>2, <1>3 DEF TimeInv
  <2>3. (\A m \in Node : slot[m] # NoHandler /\ HasId(slot[m]) =>
           deadline[m] =< handler[slot[m]].newTime + MaxRTT)'
    BY <1>1, <1>2, <2>1 DEF TimeInv, HasId
  <2>4. (/\ \A m \in Node : pc[m] = "idle" /\ ~volumeNil[m] =>
              deadline[m] =< lease[m].time + MaxRTT + RefreshInterval
         /\ \A m \in Node : pc[m] = "refresh" =>
              deadline[m] =< lease[m].time + 2 * MaxRTT + RefreshInterval
         /\ \A m \in Node : pc[m] = "idle" /\ volumeNil[m] =>
              deadline[m] =< lease[m].time + 2 * MaxRTT + 2 * RefreshInterval)'
    BY <1>2, <1>4 DEF TimeInv
  <2> QED
    BY <2>2, <2>3, <2>4 DEF TimeInv
<1>6. ServingHoldsLock'
  BY <1>1, <1>2 DEF ServingHoldsLock, Serving
<1>7. FileCurrent'
  <2>1. ASSUME NEW m \in FileNode, Serving(m)' PROVE Serving(m) /\ flag'[m] = flag[m]
    <3>1. Serving(m)
      BY <1>2, <2>1 DEF Serving
    <3>2. state = "start" => m # n
      BY <3>1 DEF ServingInv
    <3> QED
      BY <1>2, <3>1, <3>2
  <2> QED
    BY <1>2, <2>1 DEF FileCurrent
<1> QED
  BY <1>5, <1>6, <1>7 DEF TimedPart

\* Stopping to wait leaves the deadlines of the other processes alone.
LEMMA OthersOnTime ==
  ASSUME TimelyInv, NEW n \in Node, ReleasesSlot(n), UNCHANGED now,
         NEW m \in Node, m # n, slot[m] # NoHandler
  PROVE slot'[m] = slot[m] /\ slot[m] \in Handler /\ handler'[slot[m]] = handler[slot[m]]
  BY NodeAssumption DEF TimelyInv, ServeInv, ServeTypeOK, SlotInv, ReleasesSlot

\* A process that stops waiting keeps to its new deadline, if that one is right.
LEMMA TimelyRelease ==
  ASSUME TimelyInv, NEW n \in Node, ReleasesSlot(n), UNCHANGED now,
         NEW state \in {"down", "idle"}, pc' = [pc EXCEPT ![n] = state],
         \A m \in Node : m # n => /\ lease'[m] = lease[m] /\ volumeNil'[m] = volumeNil[m]
                                /\ deadline'[m] = deadline[m],
         state = "idle" =>
           /\ now =< deadline'[n]
           /\ deadline'[n] =< lease'[n].time + MaxRTT + RefreshInterval
                \/ /\ volumeNil'[n]
                   /\ deadline'[n] =< lease'[n].time + 2 * MaxRTT + 2 * RefreshInterval,
         lease'[n].time \in Nat, deadline'[n] \in Nat
  PROVE TimeInv'
<1>1. /\ slot'[n] = NoHandler /\ pc'[n] = state
      /\ \A m \in Node : m # n => pc'[m] = pc[m] /\ slot'[m] = slot[m]
  BY DEF ReleasesSlot, TimelyInv, ServeInv, ServeTypeOK
<1>2. (/\ now =< MaxTime
       /\ \A m \in Node : pc[m] # "down" => now =< deadline[m]
       /\ \A m \in Node : slot[m] # NoHandler => deadline[m] =< now + MaxRTT)'
  BY <1>1 DEF TimelyInv, TimeInv
<1>3. (\A m \in Node : slot[m] # NoHandler /\ HasId(slot[m]) =>
         deadline[m] =< handler[slot[m]].newTime + MaxRTT)'
  BY <1>1, OthersOnTime DEF TimelyInv, TimeInv, HasId
<1>4. (/\ \A m \in Node : pc[m] = "idle" /\ ~volumeNil[m] =>
            deadline[m] =< lease[m].time + MaxRTT + RefreshInterval
       /\ \A m \in Node : pc[m] = "refresh" =>
            deadline[m] =< lease[m].time + 2 * MaxRTT + RefreshInterval
       /\ \A m \in Node : pc[m] = "idle" /\ volumeNil[m] =>
            deadline[m] =< lease[m].time + 2 * MaxRTT + 2 * RefreshInterval)'
  BY <1>1, ServeTimeAssumption DEF TimelyInv, TimeInv
<1> QED
  BY <1>2, <1>3, <1>4 DEF TimeInv

\* The process is down: it promises nothing.
LEMMA TimelyDown ==
  ASSUME TimelyInv, NEW n \in Node, Down(n), ReleasesSlot(n), UNCHANGED <<now, lockId, lockTime>>
  PROVE TimedPart'
<1>1. /\ pc' = [pc EXCEPT ![n] = "down"]
      /\ lease'[n].id = NoLock /\ lease'[n].time = 0 /\ deadline'[n] = 0
      /\ \A m \in Node : m # n => /\ lease'[m] = lease[m] /\ volumeNil'[m] = volumeNil[m]
                                  /\ deadline'[m] = deadline[m] /\ flag'[m] = flag[m]
      /\ UNCHANGED file
  BY DEF Down, NoLease, TimelyInv, ServeInv, ServeTypeOK
<1>2. TimeInv'
  <2>1. lease'[n].time \in Nat /\ deadline'[n] \in Nat
    BY <1>1
  <2> QED
    BY <1>1, <2>1, TimelyRelease
<1>3. \A m \in Node : Serving(m)' => m # n
  BY <1>1 DEF Serving
<1>4. ServingHoldsLock' /\ FileCurrent'
  BY <1>1, <1>3, NodeAssumption DEF TimelyInv, ServingHoldsLock, FileCurrent, Serving
<1> QED
  BY <1>2, <1>4 DEF TimedPart

\* The refresh failed: RefreshInterval later the process is down.
LEMMA TimelyRefreshFails ==
  ASSUME EnoughTime, TimelyInv, NEW n \in Node, pc[n] = "refresh", RequestFails(n),
         ReleasesSlot(n), UNCHANGED <<now, lockId, lockTime>>
  PROVE TimedPart'
<1> USE DEF TimelyInv, ServeInv, ServeTypeOK
<1>1. /\ pc' = [pc EXCEPT ![n] = "idle"] /\ volumeNil'[n]
      /\ deadline'[n] = Due(now + RefreshInterval)
      /\ \A m \in Node : m # n => volumeNil'[m] = volumeNil[m] /\ deadline'[m] = deadline[m]
      /\ UNCHANGED <<lease, file, flag>>
  BY DEF RequestFails
<1>2. now \in Nat /\ deadline[n] \in Nat /\ lease[n].time \in Nat /\ now + RefreshInterval \in Nat
  BY ServeTimeAssumption DEF LockTypeOK
<1>3. deadline'[n] \in Nat /\ deadline'[n] =< now + RefreshInterval
  BY <1>1, <1>2, DueNat
<1>4. now =< deadline'[n]
  BY <1>1, <1>2, TimeAssumption, ServeTimeAssumption DEF Due, TimeInv
<1>5. now =< deadline[n] /\ deadline[n] =< lease[n].time + 2 * MaxRTT + RefreshInterval
  BY DEF TimeInv
<1>6. deadline'[n] =< lease'[n].time + 2 * MaxRTT + 2 * RefreshInterval
  BY <1>1, <1>2, <1>3, <1>5, ServeTimeAssumption
<1>7. TimeInv'
  BY <1>1, <1>2, <1>3, <1>4, <1>6, TimelyRelease
<1>8. ServingHoldsLock' /\ FileCurrent'
  BY <1>1 DEF ServingHoldsLock, FileCurrent, Serving
<1> QED
  BY <1>7, <1>8 DEF TimedPart

\* The lock is granted, and it is the one in the row.
LEMMA TimelyAccept ==
  ASSUME EnoughTime, TimelyInv, NEW n \in Node, NEW h \in Handler, slot[n] = h,
         handler[h].pc = "granted", Accept(n, h), ReleasesSlot(n),
         UNCHANGED <<now, lockId, lockTime>>,
         file' = IF n \in FileNode /\ NeedsStore(n, h)
                   THEN [file EXCEPT ![n] = handler[h].newId] ELSE file
  PROVE TimedPart'
<1> USE NodeAssumption DEF TimelyInv, ServeInv, ServeTypeOK
<1>1. /\ pc' = [pc EXCEPT ![n] = "idle"] /\ deadline'[n] = NextRefresh(n)
      /\ lease'[n].id = handler[h].newId /\ lease'[n].time = handler[h].newTime
      /\ \A m \in Node : m # n => lease'[m] = lease[m] /\ deadline'[m] = deadline[m]
      /\ UNCHANGED <<volumeNil, flag>>
  BY DEF Accept
<1>2. /\ now \in Nat /\ deadline[n] \in Nat /\ handler[h].newTime \in Nat
      /\ now + RefreshInterval \in Nat
  BY ServeTimeAssumption DEF LockTypeOK, HandlerState
<1>3. deadline'[n] \in Nat /\ now =< deadline'[n] /\ deadline'[n] =< now + RefreshInterval
  <2>1. CASE pc[n] = "start"
    BY <1>1, <1>2, <2>1, ServeTimeAssumption DEF NextRefresh
  <2>2. CASE pc[n] # "start"
    <3>1. deadline'[n] = Due(now + RefreshInterval)
      BY <1>1, <2>2 DEF NextRefresh
    <3>2. deadline'[n] \in Nat /\ deadline'[n] =< now + RefreshInterval
      BY <1>2, <3>1, DueNat
    <3>3. now =< deadline'[n]
      BY <1>2, <3>1, TimeAssumption, ServeTimeAssumption DEF Due, TimeInv
    <3> QED
      BY <3>2, <3>3
  <2> QED
    BY <2>1, <2>2
<1>4. now =< deadline[n] /\ deadline[n] =< handler[h].newTime + MaxRTT
  BY DEF SlotInv, TimeInv, HasId
<1>5. deadline'[n] =< lease'[n].time + MaxRTT + RefreshInterval
  BY <1>1, <1>2, <1>3, <1>4, ServeTimeAssumption
<1>6. TimeInv'
  BY <1>1, <1>2, <1>3, <1>5, TimelyRelease
<1>7. lockId = handler[h].newId /\ handler[h].newTime =< lockTime
  BY GrantIsCurrent
<1>8. ServingHoldsLock'
  BY <1>1, <1>2, <1>7 DEF ServingHoldsLock, Serving, LockTypeOK
<1>9. FileCurrent'
  <2>1. ASSUME n \in FileNode PROVE handler[h].newId \in {file'[n], flag[n]}
    <3>1. handler[h].prev = Asked(n)
      BY DEF SlotInv
    <3>2. CASE NeedsStore(n, h)
      BY <2>1, <3>2
    <3>3. CASE ~NeedsStore(n, h) /\ pc[n] = "start"
      BY <3>1, <3>3 DEF NeedsStore, Asked
    <3>4. CASE ~NeedsStore(n, h) /\ pc[n] = "refresh"
      BY <2>1, <3>1, <3>4 DEF NeedsStore, FileCurrent, Serving, Asked
    <3> QED
      BY <3>2, <3>3, <3>4 DEF SlotInv
  <2>2. \A m \in Node : m # n => file'[m] = file[m]
    OBVIOUS
  <2> QED
    BY <1>1, <2>1, <2>2 DEF FileCurrent, Serving
<1> QED
  BY <1>6, <1>8, <1>9 DEF TimedPart

\* A refresh in time never needs the callback, so the callback cannot fail then.
LEMMA RefreshNeverStores ==
  ASSUME EnoughTime, TimelyInv, NEW n \in Node, NEW h \in Handler, slot[n] = h,
         handler[h].pc = "granted", pc[n] = "refresh"
  PROVE ~NeedsStore(n, h) /\ lease[n].id = handler[h].newId
<1>1. handler[h].prev = lease[n].id
  BY NodeAssumption DEF TimelyInv, ServeInv, SlotInv, Asked
<1>2. Serving(n)
  BY DEF TimelyInv, ServeInv, ServingInv
<1>3. lease[n].id = lockId /\ lockId = handler[h].newId
  BY <1>2, GrantIsCurrent DEF TimelyInv, ServingHoldsLock
<1> QED
  BY <1>1, <1>2, <1>3 DEF NeedsStore, Serving

\* Every timely step keeps the invariant.
LEMMA TimelyStepInv == EnoughTime /\ TimelyInv /\ [TimelyNext]_serveVars => TimelyInv'
<1> SUFFICES ASSUME EnoughTime, TimelyInv, [TimelyNext]_serveVars PROVE TimelyInv'
  OBVIOUS
<1>1. ServeInv'
  BY TimelyIsServe, ServeStepInv DEF TimelyInv
<1> SUFFICES TimedPart'
  BY <1>1 DEF TimelyInv, TimedPart
<1>2. ASSUME NEW n \in Node, NEW h \in Handler, StartServe(n, h) \/ Refresh(n, h)
      PROVE TimedPart'
  <2>1. CASE StartServe(n, h)
    <3>1. PICK id : flag' = [flag EXCEPT ![n] = id] /\ Send(n, h, IF id = NoLock THEN file[n] ELSE id, "start")
      BY <2>1 DEF StartServe
    <3>2. pc[n] = "down"
      BY <2>1 DEF StartServe
    <3> QED
      BY <3>1, <3>2, TimelySend
  <2>2. CASE Refresh(n, h)
    <3>1. flag' = [flag EXCEPT ![n] = flag[n]]
      BY <2>2 DEF Refresh, TimelyInv, ServeInv, ServeTypeOK
    <3> QED
      BY <2>2, <3>1, TimelySend DEF Refresh
  <2> QED
    BY <1>2, <2>1, <2>2
<1>3. ASSUME NEW h \in Handler, Finish(h) PROVE UNCHANGED <<now, lockId, lockTime>>
  BY <1>3 DEF Finish, row
<1>4. ASSUME NEW n \in Node, NEW h \in Handler, Granted(n, h)
      PROVE TimedPart'
  <2>1. ReleasesSlot(n)
    BY <1>4, FinishReleases DEF Granted, Accept, TimelyInv
  <2> QED
    BY <1>3, <1>4, <2>1, TimelyAccept DEF Granted
<1>5. ASSUME NEW n \in Node, NEW h \in Handler, GrantedStoreFails(n, h)
      PROVE TimedPart'
  <2>1. pc[n] = "start"
    BY <1>5, RefreshNeverStores, NodeAssumption
       DEF GrantedStoreFails, TimelyInv, ServeInv, SlotInv
  <2>2. Down(n) /\ ReleasesSlot(n)
    BY <1>5, <2>1, FinishReleases DEF GrantedStoreFails, Down, TimelyInv
  <2> QED
    BY <1>3, <1>5, <2>2, TimelyDown DEF GrantedStoreFails
<1>6. ASSUME NEW n \in Node, slot[n] # NoHandler, RequestFails(n),
             UNCHANGED lockVars \/ \E h \in Handler : slot[n] = h /\ Finish(h)
      PROVE TimedPart'
  <2>1. UNCHANGED <<now, lockId, lockTime>>
    BY <1>3, <1>6 DEF lockVars
  <2>2. CASE pc[n] = "start"
    BY <1>6, <2>1, <2>2, FinishReleases, TimelyDown DEF RequestFails, Down, TimelyInv
  <2>3. CASE pc[n] = "refresh"
    <3>1. slot' = [slot EXCEPT ![n] = NoHandler]
      BY <1>6, <2>3 DEF RequestFails
    <3>2. ReleasesSlot(n)
      BY <1>6, <3>1, FinishReleases DEF TimelyInv
    <3> QED
      BY <1>6, <2>1, <2>3, <3>2, TimelyRefreshFails
  <2> QED
    BY <1>6, <2>2, <2>3 DEF TimelyInv, ServeInv, SlotInv
<1>7. ASSUME NEW n \in Node, RefreshPanics(n) \/ Crash(n) PROVE TimedPart'
  <2>1. Down(n) /\ UNCHANGED lockVars
    BY <1>7 DEF RefreshPanics, Crash
  <2>2. ReleasesSlot(n)
    BY <2>1, FinishReleases DEF Down, TimelyInv
  <2> QED
    BY <2>1, <2>2, TimelyDown DEF lockVars
<1>8. ASSUME NEW n \in Node, NodeStep(n) PROVE TimedPart'
  BY <1>2, <1>4, <1>5, <1>6, <1>7, <1>8, NodeAssumption DEF NodeStep, Refused, Lost
<1>9. CASE TimelyTick
  <2>1. /\ now' = now + 1 /\ now < MaxTime
        /\ \A n \in Node : pc[n] # "down" => now < deadline[n]
        /\ UNCHANGED <<nodeVars, lockId, lockTime, handler>>
    BY <1>9 DEF TimelyTick, Timely, ServeTick, Tick, row
  <2>2. TimeInv'
    BY <2>1, TimeAssumption, ServeTimeAssumption
       DEF TimelyInv, ServeInv, ServeTypeOK, LockTypeOK, TimeInv, nodeVars, HasId
  <2> QED
    BY <2>1, <2>2 DEF TimedPart, TimelyInv, ServingHoldsLock, FileCurrent, Serving, nodeVars
<1>10. CASE ServeDelete \/ UNCHANGED serveVars
  <2>1. UNCHANGED <<now, lockId, lockTime, handler, nodeVars>>
    BY <1>10 DEF ServeDelete, DeleteVolume, serveVars, lockVars
  <2> QED
    BY <2>1 DEF TimedPart, TimelyInv, TimeInv, ServingHoldsLock, FileCurrent, Serving,
                nodeVars, HasId
<1> QED
  BY <1>8, <1>9, <1>10, TimelyServerStep DEF TimelyNext, ServeNextButTick

-------------------------------------------------------------------------------
\* The invariant of the timed system.
THEOREM TimelyInvariant == EnoughTime => (TimelySpec => []TimelyInv)
<1> SUFFICES ASSUME EnoughTime PROVE TimelySpec => []TimelyInv
  OBVIOUS
<1>1. TimelyInv /\ [TimelyNext]_serveVars => TimelyInv'
  BY TimelyStepInv
<1> QED
  BY <1>1, TimelyInitInv, PTL DEF TimelySpec

\* Two processes never serve the volume at the same time (volume_serve.go and restLockVolume
\* together), if requests and sleeps are in time and the timeout leaves room for two of each.
THEOREM OneServer == EnoughTime => (TimelySpec => []MutualExclusion)
<1>1. TimelyInv => MutualExclusion
  <2> SUFFICES ASSUME TimelyInv, NEW m \in Node, NEW n \in Node, Serving(m), Serving(n), m # n
               PROVE FALSE
    BY DEF MutualExclusion
  <2>1. lease[m].id = lease[n].id /\ lease[n].id # NoLock
    BY DEF TimelyInv, ServingHoldsLock, Serving
  <2>2. lease[m].id \in Owned(m) /\ lease[m].id \in Owned(n)
    BY <2>1 DEF Owned
  <2> QED
    BY <2>2 DEF TimelyInv, ServeInv, OwnInv, OwnersDisjoint
<1> QED
  BY <1>1, TimelyInvariant, PTL

\* Who serves holds the lock in the row.
THEOREM ServersHoldTheLock == EnoughTime => (TimelySpec => []ServingHoldsLock)
<1>1. TimelyInv => ServingHoldsLock
  BY DEF TimelyInv
<1> QED
  BY <1>1, TimelyInvariant, PTL

\* The lock id file of a machine that serves is the one it needs to come back.
THEOREM FilesAreCurrent == EnoughTime => (TimelySpec => []FileCurrent)
<1>1. TimelyInv => FileCurrent
  BY DEF TimelyInv
<1> QED
  BY <1>1, TimelyInvariant, PTL

\* A process in time never serves under a second lock.
THEOREM RefreshesKeepTheId == EnoughTime => (TimelySpec => RefreshKeepsId)
<1> SUFFICES ASSUME EnoughTime PROVE TimelySpec => RefreshKeepsId
  OBVIOUS
<1>1. TimelyInv /\ TimelyInv' /\ [TimelyNext]_serveVars =>
        [\A n \in Node : Serving(n) /\ Serving(n)' => lease'[n].id = lease[n].id]_serveVars
  <2> SUFFICES ASSUME TimelyInv, [TimelyNext]_serveVars, NEW n \in Node, Serving(n), Serving(n)'
               PROVE lease'[n].id = lease[n].id
    OBVIOUS
  <2> USE DEF TimelyInv, ServeInv, ServeTypeOK
  <2>1. ASSUME NEW m \in Node, Down(m) PROVE lease'[n].id = lease[n].id
    BY <2>1 DEF Down, Serving, NoLease
  <2>2. ASSUME NEW m \in Node, RequestFails(m) PROVE lease'[n].id = lease[n].id
    BY <2>1, <2>2 DEF RequestFails
  <2>3. ASSUME NEW m \in Node, NEW h \in Handler, slot[m] = h, handler[h].pc = "granted",
               Accept(m, h)
        PROVE lease'[n].id = lease[n].id
    <3>1. CASE m # n
      BY <2>3, <3>1 DEF Accept
    <3>2. CASE m = n
      <4>1. pc[n] = "refresh"
        BY <2>3, <3>2, NodeAssumption DEF SlotInv, ServingInv
      <4> QED
        BY <2>3, <3>2, <4>1, RefreshNeverStores DEF Accept
    <3> QED
      BY <3>1, <3>2
  <2>4. ASSUME NEW m \in Node, NodeStep(m) PROVE lease'[n].id = lease[n].id
    BY <2>1, <2>2, <2>3, <2>4
       DEF NodeStep, StartServe, Refresh, Send, Granted, GrantedStoreFails, Refused,
           RefreshPanics, Lost, Crash
  <2> QED
    BY <2>4 DEF TimelyNext, TimelyTick, ServeNextButTick, ServerStep, ServeDelete, ServeTick,
                serveVars, nodeVars
<1> QED
  BY <1>1, TimelyInvariant, PTL DEF TimelySpec, RefreshKeepsId
===============================================================================
