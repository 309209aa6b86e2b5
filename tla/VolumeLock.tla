------------------------------ MODULE VolumeLock ------------------------------
(***************************************************************************)
(* The lock of one volume: the endpoint restLockVolume as every concurrent  *)
(* request runs it, on the row of table "volume" it reads and writes.       *)
(*                                                                          *)
(* A request is a handler: it receives prevLockId, reads the row            *)
(* (GetVolumeById), decides on what it read, and writes with the            *)
(* compare-and-set of Volume.UpdateLock.  Handlers interleave between these *)
(* steps; the database only makes each statement atomic.                    *)
(*                                                                          *)
(* The two reads of the clock in one handler (the expiry test and the stamp *)
(* it writes) are one step here: a handler whose stamp is a second later    *)
(* than its test does what a handler that ran the test a second later does. *)
(***************************************************************************)
EXTENDS Integers

CONSTANTS LockId,       \* the uuids uuid.NewString can return
          NoLock,       \* nil, NULL: no lock id
          Handler,      \* slots for requests in progress
          LockTimeout,  \* 5 minutes in the code, here any number of seconds
          MaxTime       \* bound of the clock

ASSUME NoLockAssumption == NoLock \notin LockId
ASSUME TimeAssumption == LockTimeout \in Nat /\ MaxTime \in Nat

VARIABLES now,       \* time.Now().Unix()
          lockId,    \* column lock_id
          lockTime,  \* column lock_time (0 while lock_id is NULL)
          deleted,   \* deleted_at is set
          issued,    \* the uuids generated so far: a uuid is generated once
          past,      \* history: the ids that were in lock_id and were replaced
          handler    \* the requests in progress

row == <<lockId, lockTime, deleted>>
lockVars == <<now, lockId, lockTime, deleted, issued, past, handler>>

OptLockId == LockId \cup {NoLock}

HandlerState ==
  [pc : {"idle", "received", "read", "decided", "granted", "refused"},
   prev : OptLockId,                    \* body.prevLockId
   snapId : OptLockId, snapTime : Nat,  \* v.LockId, v.LockTime as read
   newId : OptLockId, newTime : Nat]    \* lockUuid and the time of the stamp

IdleHandler == [pc |-> "idle", prev |-> NoLock, snapId |-> NoLock, snapTime |-> 0,
                newId |-> NoLock, newTime |-> 0]

LockTypeOK == /\ now \in Nat
              /\ lockId \in OptLockId
              /\ lockTime \in Nat
              /\ deleted \in BOOLEAN
              /\ issued \subseteq LockId
              /\ past \subseteq LockId
              /\ handler \in [Handler -> HandlerState]

\* Definitions whose comment starts with "Mutant" are used by no action: they are what a
\* plausible mistake would make of the definition that follows them.

LockInit == /\ now = 0
            /\ lockId = NoLock /\ lockTime = 0 /\ deleted = FALSE
            /\ issued = {} /\ past = {}
            /\ handler = [h \in Handler |-> IdleHandler]

-------------------------------------------------------------------------------
\* A request arrives.  A client only knows ids it was given before, so prev is an
\* issued id or absent.
Receive(h, prev) ==
  /\ handler[h].pc = "idle"
  /\ prev \in issued \cup {NoLock}
  /\ handler' = [handler EXCEPT ![h] = [IdleHandler EXCEPT !.pc = "received", !.prev = prev]]
  /\ UNCHANGED <<now, row, issued, past>>

\* The request is over, with an answer that carries no volume.
Refuse(h) == handler' = [handler EXCEPT ![h] = [IdleHandler EXCEPT !.pc = "refused"]]

\* Mutant: a deleted volume is found, too.
GetVolumeByIdDeleted(h) ==
  /\ handler[h].pc = "received"
  /\ handler' = [handler EXCEPT ![h] =
                   [@ EXCEPT !.pc = "read", !.snapId = lockId, !.snapTime = lockTime]]
  /\ UNCHANGED <<now, row, issued, past>>

\* The handler reads the row; a deleted volume is a 404.
GetVolumeById(h) ==
  /\ handler[h].pc = "received"
  /\ IF deleted
       THEN Refuse(h)
       ELSE handler' = [handler EXCEPT ![h] =
                          [@ EXCEPT !.pc = "read", !.snapId = lockId, !.snapTime = lockTime]]
  /\ UNCHANGED <<now, row, issued, past>>

\* Mutant: whoever asks, the current lock is refreshed.
RefreshesForAll(h) == handler[h].snapId # NoLock

Refreshes(h) == handler[h].snapId # NoLock /\ handler[h].snapId = handler[h].prev

\* Mutant: expiry one second early.
ExpiredTooSoon(h) == handler[h].snapTime + LockTimeout =< now

Expired(h) == handler[h].snapTime + LockTimeout < now

\* Mutant: a refresh gives the lock a new id as well.
DecideRefreshNewId(h) ==
  /\ handler[h].pc = "read"
  /\ Refreshes(h)
  /\ \E id \in LockId \ issued :
       /\ issued' = issued \cup {id}
       /\ handler' = [handler EXCEPT ![h] =
                        [@ EXCEPT !.pc = "decided", !.newId = id, !.newTime = now]]
  /\ UNCHANGED <<now, row, past>>

\* The caller already holds the lock: it keeps its id.
DecideRefresh(h) ==
  /\ handler[h].pc = "read"
  /\ Refreshes(h)
  /\ handler' = [handler EXCEPT ![h] =
                   [@ EXCEPT !.pc = "decided", !.newId = handler[h].snapId, !.newTime = now]]
  /\ UNCHANGED <<now, row, issued, past>>

\* The volume was never locked, or its lock is older than LockTimeout: a new uuid.
DecideNew(h) ==
  /\ handler[h].pc = "read"
  /\ ~Refreshes(h)
  /\ handler[h].snapId = NoLock \/ Expired(h)
  /\ \E id \in LockId \ issued :
       /\ issued' = issued \cup {id}
       /\ handler' = [handler EXCEPT ![h] =
                        [@ EXCEPT !.pc = "decided", !.newId = id, !.newTime = now]]
  /\ UNCHANGED <<now, row, past>>

\* 409: somebody else holds a lock that is not expired.
DecideConflict(h) ==
  /\ handler[h].pc = "read"
  /\ ~Refreshes(h)
  /\ handler[h].snapId # NoLock /\ ~Expired(h)
  /\ Refuse(h)
  /\ UNCHANGED <<now, row, issued, past>>

\* Mutant: the UPDATE compares only the lock id.
RowHasSameId(h) == lockId = handler[h].snapId

\* Mutant: the UPDATE looks for the volume's id only.
RowExists(h) == TRUE

\* The condition of the UPDATE: the row is still the one that was read.  It does not
\* look at deleted_at.
RowUnchanged(h) == lockId = handler[h].snapId /\ lockTime = handler[h].snapTime

\* UPDATE ... WHERE id, lock_id, lock_time: writes both columns, or fails when no row matches.
UpdateLock(h) ==
  /\ handler[h].pc = "decided"
  /\ IF RowUnchanged(h)
       THEN /\ lockId' = handler[h].newId
            /\ lockTime' = handler[h].newTime
            /\ past' = IF lockId \in {NoLock, handler[h].newId} THEN past ELSE past \cup {lockId}
            /\ handler' = [handler EXCEPT ![h] = [@ EXCEPT !.pc = "granted"]]
       ELSE /\ UNCHANGED <<lockId, lockTime, past>>
            /\ Refuse(h)
  /\ UNCHANGED <<now, deleted, issued>>

\* A statement or the commit fails: the transaction is rolled back and the request answered
\* with an error.
Abort(h) ==
  /\ handler[h].pc \in {"received", "read", "decided"}
  /\ Refuse(h)
  /\ UNCHANGED <<now, row, issued, past>>

\* The answer is sent (or finds nobody listening) and the request is over.
Finish(h) ==
  /\ handler[h].pc \in {"granted", "refused"}
  /\ handler' = [handler EXCEPT ![h] = IdleHandler]
  /\ UNCHANGED <<now, row, issued, past>>

\* restDeleteVolume: a soft delete, whoever holds the lock.
DeleteVolume ==
  /\ ~deleted
  /\ deleted' = TRUE
  /\ UNCHANGED <<now, lockId, lockTime, issued, past, handler>>

Tick == /\ now < MaxTime
        /\ now' = now + 1
        /\ UNCHANGED <<row, issued, past, handler>>

\* The steps of a request that involve nobody else.
HandlerStep(h) == \/ GetVolumeById(h)
                  \/ DecideRefresh(h) \/ DecideNew(h) \/ DecideConflict(h)
                  \/ UpdateLock(h)
                  \/ Abort(h)

LockNext == \/ \E h \in Handler, prev \in OptLockId : Receive(h, prev)
            \/ \E h \in Handler : HandlerStep(h) \/ Finish(h)
            \/ DeleteVolume
            \/ Tick

LockSpec == LockInit /\ [][LockNext]_lockVars

-------------------------------------------------------------------------------
\* An id that was replaced never holds the lock again: no delayed handler brings a lost lock
\* back (restLockVolume decides on a row it read earlier; UpdateLock must notice).
NoResurrection == lockId \notin past

\* What a granted answer promises its caller: until LockTimeout seconds after the stamp in the
\* answer, the volume is locked under that id, whatever other requests are doing.
Promise ==
  \A h \in Handler :
    handler[h].pc = "granted" /\ now =< handler[h].newTime + LockTimeout
      => lockId = handler[h].newId /\ lockTime >= handler[h].newTime

\* The endpoint implements the lease.
Lease == INSTANCE LeaseLock WITH holder <- lockId, since <- lockTime

LeaseSpec == Lease!LeaseSpec
===============================================================================
