----------------------------- MODULE BackupProofs -----------------------------
(***************************************************************************)
(* Proofs about Backup, for any number of changes, failures and crashes.    *)
(*                                                                          *)
(* The argument is about the deferred calls: at each point of a run, and    *)
(* at each point of its unwinding, they are one prefix of the four          *)
(* (StackInv), and as long as nothing failed what is there has its deferred *)
(* call (OwnedInv).  That a run mounts its own snapshot comes from what it  *)
(* found when it began (MountInv): it goes on only with nothing mounted.    *)
(*                                                                          *)
(* RecentInv adds what the versions in snapshot and mount have to do with   *)
(* the beginning of the run, which gives the refinement of BackupLog        *)
(* (BackupsAreRecent). The last part is about what a run may stop for: what *)
(* earlier runs left is none of it (LeftOversStopNoRun).                    *)
(***************************************************************************)
EXTENDS Backup, SequenceTheorems, TLAPS

D0 == <<>>
D1 == Append(D0, "DeleteSnapshot")
D2 == Append(D1, "UnmountSnapshot")
D3 == Append(D2, "StopProxy")
D4 == Append(D3, "RemoveConfigDir")

\* The deferred calls, at each point.
StackInv ==
  /\ defers \in {D0, D1, D2, D3, D4}
  /\ pc \in {"waiting", "unmount", "lookup", "remove", "create", "activate", "undo"} => defers = D0
  /\ pc = "mount" => defers = D1
  /\ pc = "proxy" => defers = D2
  /\ pc \in {"config", "write", "discard"} => defers = D3
  /\ pc = "rustic" => defers = D4

\* A configuration directory that somebody is still to remove.
Pending == IF defers = D4 \/ pc \in {"write", "discard"} THEN 1 ELSE 0

\* The listener has its deferred call always, the directories but for those that were left.
ListenInv ==
  /\ proxy => defers \in {D3, D4}
  /\ Pending = 1 => dirs > 0
  /\ dirs =< crashes + faults + Pending

\* Unless a clean-up failed or never came, mount and snapshot have theirs.
OwnedInv ==
  ~dirty => /\ mounted # Nothing => defers \in {D2, D3, D4}
            /\ snap # Nothing => defers # D0 \/ pc \in {"activate", "undo"}

\* The snapshot is this run's once it is created, and it is the one that is mounted; a run gets past
\* the first step only without a mount.
MountInv ==
  /\ started =< live
  /\ pc \in {"activate", "undo", "mount"} => snap # Nothing /\ snap.data >= started
  /\ pc \in {"lookup", "remove", "create", "activate", "undo", "mount"} => mounted = Nothing
  /\ pc \in {"proxy", "config", "write", "rustic"} => mounted # Nothing /\ mounted >= started

BackupInv == TypeOK /\ StackInv /\ ListenInv /\ OwnedInv /\ MountInv

-------------------------------------------------------------------------------
\* The last of the deferred calls is the one deferred last.
LEMMA LastIn ==
  ASSUME NEW s \in Seq(Deferred), NEW call \in Deferred
  PROVE  /\ Append(s, call) \in Seq(Deferred) /\ Len(Append(s, call)) = Len(s) + 1
         /\ Append(s, call)[Len(Append(s, call))] = call
         /\ SubSeq(Append(s, call), 1, Len(Append(s, call)) - 1) = s
<1> DEFINE t == Append(s, call)
<1>1. t \in Seq(Deferred) /\ Len(t) = Len(s) + 1 /\ t[Len(s) + 1] = call /\ \A i \in 1 .. Len(s) : t[i] = s[i]
  BY AppendProperties
<1>2. Len(s) \in Nat /\ \A i \in 1 .. Len(s) : s[i] \in Deferred
  BY ElementOfSeq
<1>3. \A i \in 1 .. Len(s) : t[i] \in Deferred
  BY <1>1, <1>2
<1> HIDE DEF t
<1>4. /\ SubSeq(t, 1, Len(s)) \in Seq(Deferred) /\ Len(SubSeq(t, 1, Len(s))) = Len(s)
      /\ \A i \in 1 .. Len(s) : SubSeq(t, 1, Len(s))[i] = t[i]
  <2>1. 1 \in Int /\ Len(s) \in Int /\ Len(s) - 1 + 1 = Len(s)
    BY <1>2
  <2>2. SubSeq(t, 1, Len(s)) \in Seq(Deferred)
    BY <1>3, <2>1, SubSeqProperties
  <2>3. Len(SubSeq(t, 1, Len(s))) = (IF 1 =< Len(s) THEN Len(s) - 1 + 1 ELSE 0)
    BY <1>3, <2>1, SubSeqProperties
  <2>4. \A i \in 1 .. Len(s) - 1 + 1 : SubSeq(t, 1, Len(s))[i] = t[1 + i - 1]
    BY <1>3, <2>1, SubSeqProperties
  <2> QED
    BY <1>2, <2>1, <2>2, <2>3, <2>4
<1>5. SubSeq(t, 1, Len(s)) = s
  BY <1>1, <1>4, SeqEqual
<1>6. Len(t) - 1 = Len(s)
  BY <1>1, <1>2
<1> QED
  BY <1>1, <1>5, <1>6 DEF t

\* The stacks are sequences of different lengths.
LEMMA Stacks ==
  /\ D0 \in Seq(Deferred) /\ D1 \in Seq(Deferred) /\ D2 \in Seq(Deferred) /\ D3 \in Seq(Deferred)
  /\ D4 \in Seq(Deferred)
  /\ Len(D0) = 0 /\ Len(D1) = 1 /\ Len(D2) = 2 /\ Len(D3) = 3 /\ Len(D4) = 4
<1>1. D0 \in Seq(Deferred) /\ Len(D0) = 0
  BY DEF D0
<1>2. {"DeleteSnapshot", "UnmountSnapshot", "StopProxy", "RemoveConfigDir"} \subseteq Deferred
  BY DEF Deferred
<1>3. D1 \in Seq(Deferred) /\ Len(D1) = 1
  BY <1>1, <1>2, LastIn DEF D1
<1>4. D2 \in Seq(Deferred) /\ Len(D2) = 2
  BY <1>2, <1>3, LastIn DEF D2
<1>5. D3 \in Seq(Deferred) /\ Len(D3) = 3
  <2>1. Append(D2, "StopProxy") \in Seq(Deferred) /\ Len(Append(D2, "StopProxy")) = Len(D2) + 1
    BY <1>2, <1>4, LastIn
  <2> QED
    BY <1>4, <2>1 DEF D3
<1>6. D4 \in Seq(Deferred) /\ Len(D4) = 4
  <2>1. Append(D3, "RemoveConfigDir") \in Seq(Deferred) /\ Len(Append(D3, "RemoveConfigDir")) = Len(D3) + 1
    BY <1>2, <1>5, LastIn
  <2> QED
    BY <1>5, <2>1 DEF D4
<1> QED
  BY <1>1, <1>3, <1>4, <1>5, <1>6

\* So they differ.
LEMMA Distinct ==
  /\ D0 # D1 /\ D0 # D2 /\ D0 # D3 /\ D0 # D4 /\ D1 # D2 /\ D1 # D3 /\ D1 # D4
  /\ D2 # D3 /\ D2 # D4 /\ D3 # D4
<1>1. Len(D0) = 0 /\ Len(D1) = 1 /\ Len(D2) = 2 /\ Len(D3) = 3 /\ Len(D4) = 4
  BY Stacks
<1>2. 0 # 1 /\ 0 # 2 /\ 0 # 3 /\ 0 # 4 /\ 1 # 2 /\ 1 # 3 /\ 1 # 4 /\ 2 # 3 /\ 2 # 4 /\ 3 # 4
  OBVIOUS
<1>3. ASSUME NEW s, NEW t, Len(s) # Len(t) PROVE s # t
  BY <1>3, Zenon
<1>4. D0 # D1 /\ D0 # D2 /\ D0 # D3 /\ D0 # D4
  BY <1>1, <1>2, <1>3, Zenon
<1>5. D1 # D2 /\ D1 # D3 /\ D1 # D4
  BY <1>1, <1>2, <1>3, Zenon
<1>6. D2 # D3 /\ D2 # D4 /\ D3 # D4
  BY <1>1, <1>2, <1>3, Zenon
<1> QED
  BY <1>4, <1>5, <1>6

\* Calling the last of them.
LEMMA Pops ==
  /\ D1[Len(D1)] = "DeleteSnapshot" /\ SubSeq(D1, 1, Len(D1) - 1) = D0
  /\ D2[Len(D2)] = "UnmountSnapshot" /\ SubSeq(D2, 1, Len(D2) - 1) = D1
  /\ D3[Len(D3)] = "StopProxy" /\ SubSeq(D3, 1, Len(D3) - 1) = D2
  /\ D4[Len(D4)] = "RemoveConfigDir" /\ SubSeq(D4, 1, Len(D4) - 1) = D3
<1>1. {"DeleteSnapshot", "UnmountSnapshot", "StopProxy", "RemoveConfigDir"} \subseteq Deferred
  BY DEF Deferred
<1>2. D1[Len(D1)] = "DeleteSnapshot" /\ SubSeq(D1, 1, Len(D1) - 1) = D0
  BY <1>1, Stacks, LastIn DEF D1
<1>3. D2[Len(D2)] = "UnmountSnapshot" /\ SubSeq(D2, 1, Len(D2) - 1) = D1
  BY <1>1, Stacks, LastIn DEF D2
<1>4. D3[Len(D3)] = "StopProxy" /\ SubSeq(D3, 1, Len(D3) - 1) = D2
  BY <1>1, Stacks, LastIn DEF D3
<1>5. D4[Len(D4)] = "RemoveConfigDir" /\ SubSeq(D4, 1, Len(D4) - 1) = D3
  BY <1>1, Stacks, LastIn DEF D4
<1> QED
  BY <1>2, <1>3, <1>4, <1>5

\* The initial state satisfies the invariant.
LEMMA BackupInitInv == Init => BackupInv
<1> SUFFICES ASSUME Init PROVE BackupInv
  OBVIOUS
<1> USE BoundsAssumption, NothingAssumption DEF Init
<1>1. defers = D0
  BY DEF D0
<1>2. TypeOK
  <2>1. defers \in Seq(Deferred) /\ Len(defers) =< 4
    BY <1>1, Stacks
  <2>2. dirs \in 0 .. MaxCrashes + MaxFaults + 1
    OBVIOUS
  <2>3. live \in Version /\ saved \in Version /\ started \in Version
    BY DEF Version
  <2>4. faults \in 0 .. MaxFaults /\ crashes \in 0 .. MaxCrashes
    OBVIOUS
  <2> QED
    BY <2>1, <2>2, <2>3, <2>4 DEF TypeOK
<1>3. StackInv /\ ListenInv
  <2>1. D0 # D4
    BY Distinct
  <2>2. StackInv
    BY <1>1 DEF StackInv
  <2>3. ListenInv
    BY <1>1, <2>1 DEF Init, ListenInv, Pending
  <2> QED
    BY <2>2, <2>3
<1>4. OwnedInv /\ MountInv
  BY DEF OwnedInv, MountInv
<1> QED
  BY <1>2, <1>3, <1>4 DEF BackupInv

\* What the type says of the numbers and of the snapshot.
LEMMA Types ==
  ASSUME TypeOK
  PROVE  /\ live \in Nat /\ started \in Nat /\ saved \in Nat /\ dirs \in Nat
         /\ faults \in Nat /\ crashes \in Nat
         /\ snap # Nothing => snap \in [data : Version, active : BOOLEAN] /\ snap.data \in Version /\ snap.data \in Nat
         /\ mounted # Nothing => mounted \in Version /\ mounted \in Nat
BY BoundsAssumption DEF TypeOK, Version


-------------------------------------------------------------------------------
\* The steps of a run, and what happens around it, keep the invariant.

\* Every stack of them has the type.
LEMMA StackTyped ==
  ASSUME NEW d \in {D0, D1, D2, D3, D4}
  PROVE  d \in Seq(Deferred) /\ Len(d) =< 4
<1>1. \A e \in {D0, D1, D2, D3, D4} : e \in Seq(Deferred)
  BY Stacks
<1>2. Len(D0) =< 4 /\ Len(D1) =< 4 /\ Len(D2) =< 4 /\ Len(D3) =< 4 /\ Len(D4) =< 4
  BY Stacks
<1> QED
  BY <1>1, <1>2

\* A new snapshot is one.
LEMMA NewSnapshot ==
  ASSUME NEW v \in Version, NEW s, s = [data |-> v, active |-> FALSE]
  PROVE  s \in [data : Version, active : BOOLEAN] /\ s # Nothing /\ s.data = v
<1>1. s \in [data : Version, active : BOOLEAN] /\ s.data = v
  OBVIOUS
<1> QED
  BY <1>1, NothingAssumption DEF Version

\* An activated one holds what it held.
LEMMA ActiveSnapshot ==
  ASSUME NEW s \in [data : Version, active : BOOLEAN], NEW t, t = [s EXCEPT !.active = TRUE]
  PROVE  t \in [data : Version, active : BOOLEAN] /\ t # Nothing /\ t.data = s.data
<1>1. t \in [data : Version, active : BOOLEAN] /\ t.data = s.data
  OBVIOUS
<1> QED
  BY <1>1, NothingAssumption DEF Version

\* So many directories are a number of the type.
LEMMA DirBound ==
  ASSUME NEW d \in Nat, NEW c \in 0 .. MaxCrashes, NEW f \in 0 .. MaxFaults, NEW b \in {0, 1},
         d =< c + f + b
  PROVE  d \in 0 .. (MaxCrashes + MaxFaults + 1)
<1>1. c \in Nat /\ f \in Nat /\ c =< MaxCrashes /\ f =< MaxFaults /\ b \in Nat /\ b =< 1
  BY BoundsAssumption
<1>2. d =< MaxCrashes + MaxFaults + 1
  BY <1>1, BoundsAssumption
<1> QED
  BY <1>2, BoundsAssumption

\* The run begins.
LEMMA StartBackupStep ==
  ASSUME BackupInv, StartBackup
  PROVE  BackupInv'
<1> USE BoundsAssumption
<1>1. TypeOK /\ StackInv /\ ListenInv /\ OwnedInv /\ MountInv
  BY DEF BackupInv
<1>2. StackInv'
  BY <1>1, Distinct DEF StackInv, StartBackup, Goto, env, history
<1>3. defers' \in Seq(Deferred) /\ Len(defers') =< 4
  BY <1>2, StackTyped DEF StackInv
<1>4. ListenInv'
  BY <1>1, Types, Distinct DEF ListenInv, Pending, StackInv, StartBackup, Goto, env, history
<1>5. OwnedInv'
  BY <1>1, Distinct DEF OwnedInv, StackInv, StartBackup, Goto, env, history
<1>6. MountInv'
  BY <1>1, Types, Distinct DEF MountInv, StackInv, StartBackup, Goto, env, history
<1>7. TypeOK'
  <2>1. live' \in Version /\ saved' \in Version /\ started' \in Version
    BY <1>1, Types DEF TypeOK, MountInv, Version, StartBackup, Goto, env, history
  <2>2. snap' \in [data : Version, active : BOOLEAN] \cup {Nothing} /\ mounted' \in Version \cup {Nothing}
    BY <1>1, Types DEF TypeOK, StartBackup, Goto, env, history
  <2>3. faults' \in 0 .. MaxFaults /\ crashes' \in 0 .. MaxCrashes
    BY <1>1 DEF TypeOK, StartBackup, Goto, env, history
  <2>4. dirs' \in Nat
    BY <1>1, Types DEF StartBackup, Goto, env, history
  <2>5. dirs' \in 0 .. MaxCrashes + MaxFaults + 1
    <3>1. Pending' \in {0, 1} /\ dirs' =< crashes' + faults' + Pending'
      BY <1>4 DEF ListenInv, Pending
    <3> QED
      BY <2>3, <2>4, <3>1, DirBound
  <2>6. proxy' \in BOOLEAN /\ dirty' \in BOOLEAN /\ orphan' \in BOOLEAN
    BY <1>1 DEF TypeOK, StartBackup, Goto, env, history
  <2>7. pc' \in {"waiting", "unmount", "lookup", "remove", "create", "activate", "undo", "mount",
                 "proxy", "config", "write", "discard", "rustic", "return"}
    BY <1>1 DEF TypeOK, StartBackup, Goto, env, history
  <2> QED
    BY <1>3, <2>1, <2>2, <2>3, <2>5, <2>6, <2>7 DEF TypeOK
<1> QED
  BY <1>2, <1>4, <1>5, <1>6, <1>7 DEF BackupInv

\* UnmountSnapshot at the start: the run goes on without a mount.
LEMMA UnmountOldStep ==
  ASSUME BackupInv, UnmountOld
  PROVE  BackupInv'
<1> USE BoundsAssumption
<1>1. TypeOK /\ StackInv /\ ListenInv /\ OwnedInv /\ MountInv
  BY DEF BackupInv
<1>2. StackInv'
  BY <1>1, Distinct DEF StackInv, UnmountOld, Return, Fault, Goto, env, history
<1>3. defers' \in Seq(Deferred) /\ Len(defers') =< 4
  BY <1>2, StackTyped DEF StackInv
<1>4. ListenInv'
  BY <1>1, Types, Distinct DEF ListenInv, Pending, StackInv, UnmountOld, Return, Fault, Goto, env, history
<1>5. OwnedInv'
  BY <1>1, Distinct DEF OwnedInv, StackInv, UnmountOld, Return, Fault, Goto, env, history
<1>6. MountInv'
  BY <1>1, Types, Distinct DEF MountInv, StackInv, UnmountOld, Return, Fault, Goto, env, history
<1>7. TypeOK'
  <2>1. live' \in Version /\ saved' \in Version /\ started' \in Version
    BY <1>1, Types DEF TypeOK, MountInv, Version, UnmountOld, Return, Fault, Goto, env, history
  <2>2. snap' \in [data : Version, active : BOOLEAN] \cup {Nothing} /\ mounted' \in Version \cup {Nothing}
    BY <1>1, Types DEF TypeOK, UnmountOld, Return, Fault, Goto, env, history
  <2>3. faults' \in 0 .. MaxFaults /\ crashes' \in 0 .. MaxCrashes
    BY <1>1 DEF TypeOK, UnmountOld, Return, Fault, Goto, env, history
  <2>4. dirs' \in Nat
    BY <1>1, Types DEF UnmountOld, Return, Fault, Goto, env, history
  <2>5. dirs' \in 0 .. MaxCrashes + MaxFaults + 1
    <3>1. Pending' \in {0, 1} /\ dirs' =< crashes' + faults' + Pending'
      BY <1>4 DEF ListenInv, Pending
    <3> QED
      BY <2>3, <2>4, <3>1, DirBound
  <2>6. proxy' \in BOOLEAN /\ dirty' \in BOOLEAN /\ orphan' \in BOOLEAN
    BY <1>1 DEF TypeOK, UnmountOld, Return, Fault, Goto, env, history
  <2>7. pc' \in {"waiting", "unmount", "lookup", "remove", "create", "activate", "undo", "mount",
                 "proxy", "config", "write", "discard", "rustic", "return"}
    BY <1>1 DEF TypeOK, UnmountOld, Return, Fault, Goto, env, history
  <2> QED
    BY <1>3, <2>1, <2>2, <2>3, <2>5, <2>6, <2>7 DEF TypeOK
<1> QED
  BY <1>2, <1>4, <1>5, <1>6, <1>7 DEF BackupInv

\* The look for an old snapshot.
LEMMA LookupOldStep ==
  ASSUME BackupInv, LookupOld
  PROVE  BackupInv'
<1> USE BoundsAssumption
<1>1. TypeOK /\ StackInv /\ ListenInv /\ OwnedInv /\ MountInv
  BY DEF BackupInv
<1>2. StackInv'
  BY <1>1, Distinct DEF StackInv, LookupOld, Return, Fault, Goto, env, history
<1>3. defers' \in Seq(Deferred) /\ Len(defers') =< 4
  BY <1>2, StackTyped DEF StackInv
<1>4. ListenInv'
  BY <1>1, Types, Distinct DEF ListenInv, Pending, StackInv, LookupOld, Return, Fault, Goto, env, history
<1>5. OwnedInv'
  BY <1>1, Distinct DEF OwnedInv, StackInv, LookupOld, Return, Fault, Goto, env, history
<1>6. MountInv'
  BY <1>1, Types, Distinct DEF MountInv, StackInv, LookupOld, Return, Fault, Goto, env, history
<1>7. TypeOK'
  <2>1. live' \in Version /\ saved' \in Version /\ started' \in Version
    BY <1>1, Types DEF TypeOK, MountInv, Version, LookupOld, Return, Fault, Goto, env, history
  <2>2. snap' \in [data : Version, active : BOOLEAN] \cup {Nothing} /\ mounted' \in Version \cup {Nothing}
    BY <1>1, Types DEF TypeOK, LookupOld, Return, Fault, Goto, env, history
  <2>3. faults' \in 0 .. MaxFaults /\ crashes' \in 0 .. MaxCrashes
    BY <1>1 DEF TypeOK, LookupOld, Return, Fault, Goto, env, history
  <2>4. dirs' \in Nat
    BY <1>1, Types DEF LookupOld, Return, Fault, Goto, env, history
  <2>5. dirs' \in 0 .. MaxCrashes + MaxFaults + 1
    <3>1. Pending' \in {0, 1} /\ dirs' =< crashes' + faults' + Pending'
      BY <1>4 DEF ListenInv, Pending
    <3> QED
      BY <2>3, <2>4, <3>1, DirBound
  <2>6. proxy' \in BOOLEAN /\ dirty' \in BOOLEAN /\ orphan' \in BOOLEAN
    BY <1>1 DEF TypeOK, LookupOld, Return, Fault, Goto, env, history
  <2>7. pc' \in {"waiting", "unmount", "lookup", "remove", "create", "activate", "undo", "mount",
                 "proxy", "config", "write", "discard", "rustic", "return"}
    BY <1>1 DEF TypeOK, LookupOld, Return, Fault, Goto, env, history
  <2> QED
    BY <1>3, <2>1, <2>2, <2>3, <2>5, <2>6, <2>7 DEF TypeOK
<1> QED
  BY <1>2, <1>4, <1>5, <1>6, <1>7 DEF BackupInv

\* The removal of the old snapshot.
LEMMA RemoveOldStep ==
  ASSUME BackupInv, RemoveOld
  PROVE  BackupInv'
<1> USE BoundsAssumption
<1>1. TypeOK /\ StackInv /\ ListenInv /\ OwnedInv /\ MountInv
  BY DEF BackupInv
<1>2. StackInv'
  BY <1>1, Distinct DEF StackInv, RemoveOld, Return, Fault, Goto, env, history
<1>3. defers' \in Seq(Deferred) /\ Len(defers') =< 4
  BY <1>2, StackTyped DEF StackInv
<1>4. ListenInv'
  BY <1>1, Types, Distinct DEF ListenInv, Pending, StackInv, RemoveOld, Return, Fault, Goto, env, history
<1>5. OwnedInv'
  BY <1>1, Distinct DEF OwnedInv, StackInv, RemoveOld, Return, Fault, Goto, env, history
<1>6. MountInv'
  BY <1>1, Types, Distinct DEF MountInv, StackInv, RemoveOld, Return, Fault, Goto, env, history
<1>7. TypeOK'
  <2>1. live' \in Version /\ saved' \in Version /\ started' \in Version
    BY <1>1, Types DEF TypeOK, MountInv, Version, RemoveOld, Return, Fault, Goto, env, history
  <2>2. snap' \in [data : Version, active : BOOLEAN] \cup {Nothing} /\ mounted' \in Version \cup {Nothing}
    BY <1>1, Types DEF TypeOK, RemoveOld, Return, Fault, Goto, env, history
  <2>3. faults' \in 0 .. MaxFaults /\ crashes' \in 0 .. MaxCrashes
    BY <1>1 DEF TypeOK, RemoveOld, Return, Fault, Goto, env, history
  <2>4. dirs' \in Nat
    BY <1>1, Types DEF RemoveOld, Return, Fault, Goto, env, history
  <2>5. dirs' \in 0 .. MaxCrashes + MaxFaults + 1
    <3>1. Pending' \in {0, 1} /\ dirs' =< crashes' + faults' + Pending'
      BY <1>4 DEF ListenInv, Pending
    <3> QED
      BY <2>3, <2>4, <3>1, DirBound
  <2>6. proxy' \in BOOLEAN /\ dirty' \in BOOLEAN /\ orphan' \in BOOLEAN
    BY <1>1 DEF TypeOK, RemoveOld, Return, Fault, Goto, env, history
  <2>7. pc' \in {"waiting", "unmount", "lookup", "remove", "create", "activate", "undo", "mount",
                 "proxy", "config", "write", "discard", "rustic", "return"}
    BY <1>1 DEF TypeOK, RemoveOld, Return, Fault, Goto, env, history
  <2> QED
    BY <1>3, <2>1, <2>2, <2>3, <2>5, <2>6, <2>7 DEF TypeOK
<1> QED
  BY <1>2, <1>4, <1>5, <1>6, <1>7 DEF BackupInv

\* The new snapshot holds what the file system has now.
LEMMA CreateNewStep ==
  ASSUME BackupInv, CreateNew
  PROVE  BackupInv'
<1> USE BoundsAssumption
<1>1. TypeOK /\ StackInv /\ ListenInv /\ OwnedInv /\ MountInv
  BY DEF BackupInv
<1>1a. \/ /\ snap' \in [data : Version, active : BOOLEAN] /\ snap' # Nothing /\ snap'.data = live
          /\ pc' = "activate"
       \/ snap' = snap /\ pc' = "return" /\ dirty' = dirty
  <2>1. live \in Version
    BY <1>1 DEF TypeOK
  <2>2. ASSUME snap' = [data |-> live, active |-> FALSE]
        PROVE  snap' \in [data : Version, active : BOOLEAN] /\ snap' # Nothing /\ snap'.data = live
    BY <2>1, <2>2, NewSnapshot
  <2> QED
    BY <2>2 DEF CreateNew, Return, Goto, history
<1>2. StackInv'
  BY <1>1, Distinct DEF StackInv, CreateNew, Return, Fault, Goto, env, history
<1>3. defers' \in Seq(Deferred) /\ Len(defers') =< 4
  BY <1>2, StackTyped DEF StackInv
<1>4. ListenInv'
  BY <1>1, Types, Distinct DEF ListenInv, Pending, StackInv, CreateNew, Return, Fault, Goto, env, history
<1>5. OwnedInv'
  BY <1>1, <1>1a, Distinct DEF MountInv, OwnedInv, StackInv, CreateNew, Return, Fault, Goto, env, history
<1>6. MountInv'
  BY <1>1, <1>1a, Types, Distinct DEF MountInv, StackInv, CreateNew, Return, Fault, Goto, env, history
<1>7. TypeOK'
  <2>1. live' \in Version /\ saved' \in Version /\ started' \in Version
    BY <1>1, Types DEF TypeOK, MountInv, Version, CreateNew, Return, Fault, Goto, env, history
  <2>2. snap' \in [data : Version, active : BOOLEAN] \cup {Nothing} /\ mounted' \in Version \cup {Nothing}
    BY <1>1, <1>1a, Types DEF TypeOK, CreateNew, Return, Fault, Goto, env, history
  <2>3. faults' \in 0 .. MaxFaults /\ crashes' \in 0 .. MaxCrashes
    BY <1>1 DEF TypeOK, CreateNew, Return, Fault, Goto, env, history
  <2>4. dirs' \in Nat
    BY <1>1, Types DEF CreateNew, Return, Fault, Goto, env, history
  <2>5. dirs' \in 0 .. MaxCrashes + MaxFaults + 1
    <3>1. Pending' \in {0, 1} /\ dirs' =< crashes' + faults' + Pending'
      BY <1>4 DEF ListenInv, Pending
    <3> QED
      BY <2>3, <2>4, <3>1, DirBound
  <2>6. proxy' \in BOOLEAN /\ dirty' \in BOOLEAN /\ orphan' \in BOOLEAN
    BY <1>1 DEF TypeOK, CreateNew, Return, Fault, Goto, env, history
  <2>7. pc' \in {"waiting", "unmount", "lookup", "remove", "create", "activate", "undo", "mount",
                 "proxy", "config", "write", "discard", "rustic", "return"}
    BY <1>1 DEF TypeOK, CreateNew, Return, Fault, Goto, env, history
  <2> QED
    BY <1>3, <2>1, <2>2, <2>3, <2>5, <2>6, <2>7 DEF TypeOK
<1> QED
  BY <1>2, <1>4, <1>5, <1>6, <1>7 DEF BackupInv

\* The activation: the first deferred call.
LEMMA ActivateStep ==
  ASSUME BackupInv, Activate
  PROVE  BackupInv'
<1> USE BoundsAssumption
<1>1. TypeOK /\ StackInv /\ ListenInv /\ OwnedInv /\ MountInv
  BY DEF BackupInv
<1>1a. /\ snap' \in [data : Version, active : BOOLEAN] /\ snap' # Nothing /\ snap'.data = snap.data
       /\ snap # Nothing /\ snap.data >= started
  BY <1>1, Types, ActiveSnapshot DEF MountInv, Activate
<1>2. StackInv'
  BY <1>1, Distinct DEF StackInv, Activate, Defer, Fault, Goto, env, history, D1
<1>3. defers' \in Seq(Deferred) /\ Len(defers') =< 4
  BY <1>2, StackTyped DEF StackInv
<1>4. ListenInv'
  <2>1. defers = D0 /\ pc = "activate" /\ pc' \in {"mount", "undo"} /\ defers' \in {D0, D1}
    BY <1>1 DEF StackInv, Activate, Defer, Goto, D1
  <2>2. Pending = 0 /\ Pending' = 0
    BY <2>1, Distinct DEF Pending
  <2>3. dirs' = dirs /\ crashes' = crashes /\ faults' \in {faults, faults + 1} /\ proxy' = proxy
    BY DEF Activate, Fault, env, history
  <2>4. ~proxy
    BY <1>1, <2>1, Distinct DEF ListenInv
  <2> QED
    BY <1>1, <2>2, <2>3, <2>4, Types DEF ListenInv
<1>5. OwnedInv'
  BY <1>1, <1>1a, Distinct DEF OwnedInv, StackInv, Activate, Defer, Fault, Goto, env, history, D1
<1>6. MountInv'
  BY <1>1, <1>1a, Types, Distinct DEF MountInv, StackInv, Activate, Defer, Fault, Goto, env, history, D1
<1>7. TypeOK'
  <2>1. live' \in Version /\ saved' \in Version /\ started' \in Version
    BY <1>1, Types DEF TypeOK, MountInv, Version, Activate, Defer, Fault, Goto, env, history
  <2>2. snap' \in [data : Version, active : BOOLEAN] \cup {Nothing} /\ mounted' \in Version \cup {Nothing}
    BY <1>1, <1>1a, Types DEF TypeOK, Activate, Defer, Fault, Goto, env, history
  <2>3. faults' \in 0 .. MaxFaults /\ crashes' \in 0 .. MaxCrashes
    BY <1>1 DEF TypeOK, Activate, Defer, Fault, Goto, env, history
  <2>4. dirs' \in Nat
    BY <1>1, Types DEF Activate, Defer, Fault, Goto, env, history
  <2>5. dirs' \in 0 .. MaxCrashes + MaxFaults + 1
    <3>1. Pending' \in {0, 1} /\ dirs' =< crashes' + faults' + Pending'
      BY <1>4 DEF ListenInv, Pending
    <3> QED
      BY <2>3, <2>4, <3>1, DirBound
  <2>6. proxy' \in BOOLEAN /\ dirty' \in BOOLEAN /\ orphan' \in BOOLEAN
    BY <1>1 DEF TypeOK, Activate, Defer, Fault, Goto, env, history
  <2>7. pc' \in {"waiting", "unmount", "lookup", "remove", "create", "activate", "undo", "mount",
                 "proxy", "config", "write", "discard", "rustic", "return"}
    BY <1>1 DEF TypeOK, Activate, Defer, Fault, Goto, env, history
  <2> QED
    BY <1>3, <2>1, <2>2, <2>3, <2>5, <2>6, <2>7 DEF TypeOK
<1> QED
  BY <1>2, <1>4, <1>5, <1>6, <1>7 DEF BackupInv

\* CreateSnapshot's own clean-up.
LEMMA UndoCreateStep ==
  ASSUME BackupInv, UndoCreate
  PROVE  BackupInv'
<1> USE BoundsAssumption
<1>1. TypeOK /\ StackInv /\ ListenInv /\ OwnedInv /\ MountInv
  BY DEF BackupInv
<1>2. StackInv'
  BY <1>1, Distinct DEF StackInv, UndoCreate, Fault, Goto, env, history
<1>3. defers' \in Seq(Deferred) /\ Len(defers') =< 4
  BY <1>2, StackTyped DEF StackInv
<1>4. ListenInv'
  BY <1>1, Types, Distinct DEF ListenInv, Pending, StackInv, UndoCreate, Fault, Goto, env, history
<1>5. OwnedInv'
  BY <1>1, Distinct DEF OwnedInv, StackInv, UndoCreate, Fault, Goto, env, history
<1>6. MountInv'
  BY <1>1, Types, Distinct DEF MountInv, StackInv, UndoCreate, Fault, Goto, env, history
<1>7. TypeOK'
  <2>1. live' \in Version /\ saved' \in Version /\ started' \in Version
    BY <1>1, Types DEF TypeOK, MountInv, Version, UndoCreate, Fault, Goto, env, history
  <2>2. snap' \in [data : Version, active : BOOLEAN] \cup {Nothing} /\ mounted' \in Version \cup {Nothing}
    BY <1>1, Types DEF TypeOK, UndoCreate, Fault, Goto, env, history
  <2>3. faults' \in 0 .. MaxFaults /\ crashes' \in 0 .. MaxCrashes
    BY <1>1 DEF TypeOK, UndoCreate, Fault, Goto, env, history
  <2>4. dirs' \in Nat
    BY <1>1, Types DEF UndoCreate, Fault, Goto, env, history
  <2>5. dirs' \in 0 .. MaxCrashes + MaxFaults + 1
    <3>1. Pending' \in {0, 1} /\ dirs' =< crashes' + faults' + Pending'
      BY <1>4 DEF ListenInv, Pending
    <3> QED
      BY <2>3, <2>4, <3>1, DirBound
  <2>6. proxy' \in BOOLEAN /\ dirty' \in BOOLEAN /\ orphan' \in BOOLEAN
    BY <1>1 DEF TypeOK, UndoCreate, Fault, Goto, env, history
  <2>7. pc' \in {"waiting", "unmount", "lookup", "remove", "create", "activate", "undo", "mount",
                 "proxy", "config", "write", "discard", "rustic", "return"}
    BY <1>1 DEF TypeOK, UndoCreate, Fault, Goto, env, history
  <2> QED
    BY <1>3, <2>1, <2>2, <2>3, <2>5, <2>6, <2>7 DEF TypeOK
<1> QED
  BY <1>2, <1>4, <1>5, <1>6, <1>7 DEF BackupInv

\* The mount is of this run's snapshot.
LEMMA MountSnapshotStep ==
  ASSUME BackupInv, MountSnapshot
  PROVE  BackupInv'
<1> USE BoundsAssumption
<1>1. TypeOK /\ StackInv /\ ListenInv /\ OwnedInv /\ MountInv
  BY DEF BackupInv
<1>1a. pc = "mount" /\ snap.data \in Version /\ snap.data # Nothing /\ snap.data >= started
  BY <1>1, Types, NothingAssumption DEF MountInv, Version, MountSnapshot
<1>2. StackInv'
  BY <1>1, Distinct DEF StackInv, MountSnapshot, Return, Defer, Fault, Goto, env, history, D2
<1>3. defers' \in Seq(Deferred) /\ Len(defers') =< 4
  BY <1>2, StackTyped DEF StackInv
<1>4. ListenInv'
  <2>1. defers = D1 /\ ~proxy
    BY <1>1, <1>1a, Distinct DEF StackInv, ListenInv, Pending
  <2>2. defers' \in {D1, D2} /\ proxy' = proxy
    BY <2>1 DEF MountSnapshot, Return, Defer, D2
  <2>3. dirs' = dirs /\ crashes' = crashes /\ faults' \in {faults, faults + 1}
    BY DEF MountSnapshot, Return, Fault, env, history
  <2>4. Pending = 0 /\ Pending' = 0
    <3>1. pc' \in {"proxy", "return"}
      BY DEF MountSnapshot, Return, Goto
    <3> QED
      BY <1>1a, <2>1, <2>2, <3>1, Distinct DEF Pending
  <2>5. ~proxy'
    BY <2>1, <2>2
  <2> QED
    BY <2>4, <2>5, <2>3, <1>1, Types DEF ListenInv
<1>5. OwnedInv'
  BY <1>1, <1>1a, Distinct DEF OwnedInv, StackInv, MountSnapshot, Return, Defer, Fault, Goto, env, history, D2
<1>6. MountInv'
  BY <1>1, <1>1a, Types, Distinct DEF MountInv, StackInv, MountSnapshot, Return, Defer, Fault, Goto, env, history, D2
<1>7. TypeOK'
  <2>1. live' \in Version /\ saved' \in Version /\ started' \in Version
    BY <1>1, Types DEF TypeOK, MountInv, Version, MountSnapshot, Return, Defer, Fault, Goto, env, history
  <2>2. snap' \in [data : Version, active : BOOLEAN] \cup {Nothing} /\ mounted' \in Version \cup {Nothing}
    BY <1>1, <1>1a, Types DEF TypeOK, MountSnapshot, Return, Defer, Fault, Goto, env, history
  <2>3. faults' \in 0 .. MaxFaults /\ crashes' \in 0 .. MaxCrashes
    BY <1>1 DEF TypeOK, MountSnapshot, Return, Defer, Fault, Goto, env, history
  <2>4. dirs' \in Nat
    BY <1>1, Types DEF MountSnapshot, Return, Defer, Fault, Goto, env, history
  <2>5. dirs' \in 0 .. MaxCrashes + MaxFaults + 1
    <3>1. Pending' \in {0, 1} /\ dirs' =< crashes' + faults' + Pending'
      BY <1>4 DEF ListenInv, Pending
    <3> QED
      BY <2>3, <2>4, <3>1, DirBound
  <2>6. proxy' \in BOOLEAN /\ dirty' \in BOOLEAN /\ orphan' \in BOOLEAN
    BY <1>1 DEF TypeOK, MountSnapshot, Return, Defer, Fault, Goto, env, history
  <2>7. pc' \in {"waiting", "unmount", "lookup", "remove", "create", "activate", "undo", "mount",
                 "proxy", "config", "write", "discard", "rustic", "return"}
    BY <1>1 DEF TypeOK, MountSnapshot, Return, Defer, Fault, Goto, env, history
  <2> QED
    BY <1>3, <2>1, <2>2, <2>3, <2>5, <2>6, <2>7 DEF TypeOK
<1> QED
  BY <1>2, <1>4, <1>5, <1>6, <1>7 DEF BackupInv

\* The listener.
LEMMA StartProxyStep ==
  ASSUME BackupInv, StartProxy
  PROVE  BackupInv'
<1> USE BoundsAssumption
<1>1. TypeOK /\ StackInv /\ ListenInv /\ OwnedInv /\ MountInv
  BY DEF BackupInv
<1>2. StackInv'
  BY <1>1, Distinct DEF StackInv, StartProxy, Return, Defer, Fault, Goto, env, history, D3
<1>3. defers' \in Seq(Deferred) /\ Len(defers') =< 4
  BY <1>2, StackTyped DEF StackInv
<1>4. ListenInv'
  <2>1. defers = D2 /\ ~proxy
    BY <1>1, Distinct DEF StackInv, ListenInv, StartProxy
  <2>2. defers' = D3 \/ (defers' = D2 /\ proxy' = proxy)
    BY <2>1 DEF StartProxy, Return, Defer, D3
  <2>3. dirs' = dirs /\ crashes' = crashes /\ faults' \in {faults, faults + 1}
    BY DEF StartProxy, Return, Fault, env, history
  <2>4. Pending = 0 /\ Pending' = 0
    <3>1. pc = "proxy" /\ pc' \in {"config", "return"}
      BY DEF StartProxy, Return, Goto
    <3> QED
      BY <2>1, <2>2, <3>1, Distinct DEF Pending
  <2>5. proxy' => defers' = D3
    BY <2>1, <2>2
  <2> QED
    BY <2>4, <2>5, <2>3, <1>1, Types DEF ListenInv
<1>5. OwnedInv'
  BY <1>1, Distinct DEF OwnedInv, StackInv, StartProxy, Return, Defer, Fault, Goto, env, history, D3
<1>6. MountInv'
  BY <1>1, Types, Distinct DEF MountInv, StackInv, StartProxy, Return, Defer, Fault, Goto, env, history, D3
<1>7. TypeOK'
  <2>1. live' \in Version /\ saved' \in Version /\ started' \in Version
    BY <1>1, Types DEF TypeOK, MountInv, Version, StartProxy, Return, Defer, Fault, Goto, env, history
  <2>2. snap' \in [data : Version, active : BOOLEAN] \cup {Nothing} /\ mounted' \in Version \cup {Nothing}
    BY <1>1, Types DEF TypeOK, StartProxy, Return, Defer, Fault, Goto, env, history
  <2>3. faults' \in 0 .. MaxFaults /\ crashes' \in 0 .. MaxCrashes
    BY <1>1 DEF TypeOK, StartProxy, Return, Defer, Fault, Goto, env, history
  <2>4. dirs' \in Nat
    BY <1>1, Types DEF StartProxy, Return, Defer, Fault, Goto, env, history
  <2>5. dirs' \in 0 .. MaxCrashes + MaxFaults + 1
    <3>1. Pending' \in {0, 1} /\ dirs' =< crashes' + faults' + Pending'
      BY <1>4 DEF ListenInv, Pending
    <3> QED
      BY <2>3, <2>4, <3>1, DirBound
  <2>6. proxy' \in BOOLEAN /\ dirty' \in BOOLEAN /\ orphan' \in BOOLEAN
    BY <1>1 DEF TypeOK, StartProxy, Return, Defer, Fault, Goto, env, history
  <2>7. pc' \in {"waiting", "unmount", "lookup", "remove", "create", "activate", "undo", "mount",
                 "proxy", "config", "write", "discard", "rustic", "return"}
    BY <1>1 DEF TypeOK, StartProxy, Return, Defer, Fault, Goto, env, history
  <2> QED
    BY <1>3, <2>1, <2>2, <2>3, <2>5, <2>6, <2>7 DEF TypeOK
<1> QED
  BY <1>2, <1>4, <1>5, <1>6, <1>7 DEF BackupInv

\* The configuration directory.
LEMMA MakeConfigDirStep ==
  ASSUME BackupInv, MakeConfigDir
  PROVE  BackupInv'
<1> USE BoundsAssumption
<1>1. TypeOK /\ StackInv /\ ListenInv /\ OwnedInv /\ MountInv
  BY DEF BackupInv
<1>2. StackInv'
  BY <1>1, Distinct DEF StackInv, MakeConfigDir, Return, Defer, Fault, Goto, env, history, D4
<1>3. defers' \in Seq(Deferred) /\ Len(defers') =< 4
  BY <1>2, StackTyped DEF StackInv
<1>4. ListenInv'
  <2>1. pc = "config" /\ defers = D3 /\ defers' = D3 /\ crashes' = crashes /\ proxy' = proxy
    BY <1>1 DEF StackInv, MakeConfigDir, Return, env
  <2>2. Pending = 0 /\ dirs \in Nat /\ faults \in Nat /\ crashes \in Nat /\ dirs =< crashes + faults
    BY <1>1, <2>1, Types, Distinct DEF ListenInv, Pending
  <2>3. CASE dirs' = dirs + 1 /\ pc' = "write" /\ UNCHANGED faults
    <3>1. Pending' = 1
      BY <2>3 DEF Pending
    <3> QED
      BY <2>1, <2>2, <2>3, <3>1 DEF ListenInv
  <2>4. CASE faults' = faults + 1 /\ pc' = "return" /\ UNCHANGED dirs
    <3>1. Pending' = 0
      BY <2>1, <2>4, Distinct DEF Pending
    <3> QED
      BY <2>1, <2>2, <2>4, <3>1 DEF ListenInv
  <2> QED
    BY <2>3, <2>4 DEF MakeConfigDir, Fault, Return, Goto
<1>5. OwnedInv'
  BY <1>1, Distinct DEF OwnedInv, StackInv, MakeConfigDir, Return, Defer, Fault, Goto, env, history, D4
<1>6. MountInv'
  BY <1>1, Types, Distinct DEF MountInv, StackInv, MakeConfigDir, Return, Defer, Fault, Goto, env, history, D4
<1>7. TypeOK'
  <2>1. live' \in Version /\ saved' \in Version /\ started' \in Version
    BY <1>1, Types DEF TypeOK, MountInv, Version, MakeConfigDir, Return, Defer, Fault, Goto, env, history
  <2>2. snap' \in [data : Version, active : BOOLEAN] \cup {Nothing} /\ mounted' \in Version \cup {Nothing}
    BY <1>1, Types DEF TypeOK, MakeConfigDir, Return, Defer, Fault, Goto, env, history
  <2>3. faults' \in 0 .. MaxFaults /\ crashes' \in 0 .. MaxCrashes
    BY <1>1 DEF TypeOK, MakeConfigDir, Return, Defer, Fault, Goto, env, history
  <2>4. dirs' \in Nat
    BY <1>1, Types DEF MakeConfigDir, Return, Defer, Fault, Goto, env, history
  <2>5. dirs' \in 0 .. MaxCrashes + MaxFaults + 1
    <3>1. Pending' \in {0, 1} /\ dirs' =< crashes' + faults' + Pending'
      BY <1>4 DEF ListenInv, Pending
    <3> QED
      BY <2>3, <2>4, <3>1, DirBound
  <2>6. proxy' \in BOOLEAN /\ dirty' \in BOOLEAN /\ orphan' \in BOOLEAN
    BY <1>1 DEF TypeOK, MakeConfigDir, Return, Defer, Fault, Goto, env, history
  <2>7. pc' \in {"waiting", "unmount", "lookup", "remove", "create", "activate", "undo", "mount",
                 "proxy", "config", "write", "discard", "rustic", "return"}
    BY <1>1 DEF TypeOK, MakeConfigDir, Return, Defer, Fault, Goto, env, history
  <2> QED
    BY <1>3, <2>1, <2>2, <2>3, <2>5, <2>6, <2>7 DEF TypeOK
<1> QED
  BY <1>2, <1>4, <1>5, <1>6, <1>7 DEF BackupInv

\* The configuration and the start of rustic.
LEMMA WriteConfigStep ==
  ASSUME BackupInv, WriteConfig
  PROVE  BackupInv'
<1> USE BoundsAssumption
<1>1. TypeOK /\ StackInv /\ ListenInv /\ OwnedInv /\ MountInv
  BY DEF BackupInv
<1>2. StackInv'
  BY <1>1, Distinct DEF StackInv, WriteConfig, Return, Defer, Fault, Goto, env, history, D4
<1>3. defers' \in Seq(Deferred) /\ Len(defers') =< 4
  BY <1>2, StackTyped DEF StackInv
<1>4. ListenInv'
  BY <1>1, Types, Distinct DEF ListenInv, Pending, StackInv, WriteConfig, Return, Defer, Fault, Goto, env, history, D4
<1>5. OwnedInv'
  BY <1>1, Distinct DEF OwnedInv, StackInv, WriteConfig, Return, Defer, Fault, Goto, env, history, D4
<1>6. MountInv'
  BY <1>1, Types, Distinct DEF MountInv, StackInv, WriteConfig, Return, Defer, Fault, Goto, env, history, D4
<1>7. TypeOK'
  <2>1. live' \in Version /\ saved' \in Version /\ started' \in Version
    BY <1>1, Types DEF TypeOK, MountInv, Version, WriteConfig, Return, Defer, Fault, Goto, env, history
  <2>2. snap' \in [data : Version, active : BOOLEAN] \cup {Nothing} /\ mounted' \in Version \cup {Nothing}
    BY <1>1, Types DEF TypeOK, WriteConfig, Return, Defer, Fault, Goto, env, history
  <2>3. faults' \in 0 .. MaxFaults /\ crashes' \in 0 .. MaxCrashes
    BY <1>1 DEF TypeOK, WriteConfig, Return, Defer, Fault, Goto, env, history
  <2>4. dirs' \in Nat
    BY <1>1, Types DEF WriteConfig, Return, Defer, Fault, Goto, env, history
  <2>5. dirs' \in 0 .. MaxCrashes + MaxFaults + 1
    <3>1. Pending' \in {0, 1} /\ dirs' =< crashes' + faults' + Pending'
      BY <1>4 DEF ListenInv, Pending
    <3> QED
      BY <2>3, <2>4, <3>1, DirBound
  <2>6. proxy' \in BOOLEAN /\ dirty' \in BOOLEAN /\ orphan' \in BOOLEAN
    BY <1>1 DEF TypeOK, WriteConfig, Return, Defer, Fault, Goto, env, history
  <2>7. pc' \in {"waiting", "unmount", "lookup", "remove", "create", "activate", "undo", "mount",
                 "proxy", "config", "write", "discard", "rustic", "return"}
    BY <1>1 DEF TypeOK, WriteConfig, Return, Defer, Fault, Goto, env, history
  <2> QED
    BY <1>3, <2>1, <2>2, <2>3, <2>5, <2>6, <2>7 DEF TypeOK
<1> QED
  BY <1>2, <1>4, <1>5, <1>6, <1>7 DEF BackupInv

\* A directory without a configuration goes away again, or stays for a failure.
LEMMA DiscardConfigStep ==
  ASSUME BackupInv, DiscardConfig
  PROVE  BackupInv'
<1> USE BoundsAssumption
<1>1. TypeOK /\ StackInv /\ ListenInv /\ OwnedInv /\ MountInv
  BY DEF BackupInv
<1>2. StackInv'
  BY <1>1, Distinct DEF StackInv, DiscardConfig, Return, Defer, Fault, Goto, env, history, D4
<1>3. defers' \in Seq(Deferred) /\ Len(defers') =< 4
  BY <1>2, StackTyped DEF StackInv
<1>4. ListenInv'
  BY <1>1, Types, Distinct DEF ListenInv, Pending, StackInv, DiscardConfig, Return, Defer, Fault, Goto, env, history, D4
<1>5. OwnedInv'
  BY <1>1, Distinct DEF OwnedInv, StackInv, DiscardConfig, Return, Defer, Fault, Goto, env, history, D4
<1>6. MountInv'
  BY <1>1, Types, Distinct DEF MountInv, StackInv, DiscardConfig, Return, Defer, Fault, Goto, env, history, D4
<1>7. TypeOK'
  <2>1. live' \in Version /\ saved' \in Version /\ started' \in Version
    BY <1>1, Types DEF TypeOK, MountInv, Version, DiscardConfig, Return, Defer, Fault, Goto, env, history
  <2>2. snap' \in [data : Version, active : BOOLEAN] \cup {Nothing} /\ mounted' \in Version \cup {Nothing}
    BY <1>1, Types DEF TypeOK, DiscardConfig, Return, Defer, Fault, Goto, env, history
  <2>3. faults' \in 0 .. MaxFaults /\ crashes' \in 0 .. MaxCrashes
    BY <1>1 DEF TypeOK, DiscardConfig, Return, Defer, Fault, Goto, env, history
  <2>4. dirs' \in Nat
    <3>1. dirs \in Nat /\ dirs > 0
      BY <1>1, Types DEF ListenInv, Pending, DiscardConfig
    <3> QED
      BY <3>1 DEF DiscardConfig
  <2>5. dirs' \in 0 .. MaxCrashes + MaxFaults + 1
    <3>1. Pending' \in {0, 1} /\ dirs' =< crashes' + faults' + Pending'
      BY <1>4 DEF ListenInv, Pending
    <3> QED
      BY <2>3, <2>4, <3>1, DirBound
  <2>6. proxy' \in BOOLEAN /\ dirty' \in BOOLEAN /\ orphan' \in BOOLEAN
    BY <1>1 DEF TypeOK, DiscardConfig, Return, Defer, Fault, Goto, env, history
  <2>7. pc' \in {"waiting", "unmount", "lookup", "remove", "create", "activate", "undo", "mount",
                 "proxy", "config", "write", "discard", "rustic", "return"}
    BY <1>1 DEF TypeOK, DiscardConfig, Return, Defer, Fault, Goto, env, history
  <2> QED
    BY <1>3, <2>1, <2>2, <2>3, <2>5, <2>6, <2>7 DEF TypeOK
<1> QED
  BY <1>2, <1>4, <1>5, <1>6, <1>7 DEF BackupInv

\* The end of rustic: the run unwinds.
LEMMA RusticEndsStep ==
  ASSUME BackupInv, RusticEnds
  PROVE  BackupInv'
<1> USE BoundsAssumption
<1>1. TypeOK /\ StackInv /\ ListenInv /\ OwnedInv /\ MountInv
  BY DEF BackupInv
<1>2. StackInv'
  BY <1>1, Distinct DEF StackInv, RusticEnds, Fault, Goto, env, history
<1>3. defers' \in Seq(Deferred) /\ Len(defers') =< 4
  BY <1>2, StackTyped DEF StackInv
<1>4. ListenInv'
  BY <1>1, Types, Distinct DEF ListenInv, Pending, StackInv, RusticEnds, Fault, Goto, env, history
<1>5. OwnedInv'
  BY <1>1, Distinct DEF OwnedInv, StackInv, RusticEnds, Fault, Goto, env, history
<1>6. MountInv'
  BY <1>1, Types, Distinct DEF MountInv, StackInv, RusticEnds, Fault, Goto, env, history
<1>7. TypeOK'
  <2>1. live' \in Version /\ saved' \in Version /\ started' \in Version
    BY <1>1, Types DEF TypeOK, MountInv, Version, RusticEnds, Fault, Goto, env, history
  <2>2. snap' \in [data : Version, active : BOOLEAN] \cup {Nothing} /\ mounted' \in Version \cup {Nothing}
    BY <1>1, Types DEF TypeOK, RusticEnds, Fault, Goto, env, history
  <2>3. faults' \in 0 .. MaxFaults /\ crashes' \in 0 .. MaxCrashes
    BY <1>1 DEF TypeOK, RusticEnds, Fault, Goto, env, history
  <2>4. dirs' \in Nat
    BY <1>1, Types DEF RusticEnds, Fault, Goto, env, history
  <2>5. dirs' \in 0 .. MaxCrashes + MaxFaults + 1
    <3>1. Pending' \in {0, 1} /\ dirs' =< crashes' + faults' + Pending'
      BY <1>4 DEF ListenInv, Pending
    <3> QED
      BY <2>3, <2>4, <3>1, DirBound
  <2>6. proxy' \in BOOLEAN /\ dirty' \in BOOLEAN /\ orphan' \in BOOLEAN
    BY <1>1 DEF TypeOK, RusticEnds, Fault, Goto, env, history
  <2>7. pc' \in {"waiting", "unmount", "lookup", "remove", "create", "activate", "undo", "mount",
                 "proxy", "config", "write", "discard", "rustic", "return"}
    BY <1>1 DEF TypeOK, RusticEnds, Fault, Goto, env, history
  <2> QED
    BY <1>3, <2>1, <2>2, <2>3, <2>5, <2>6, <2>7 DEF TypeOK
<1> QED
  BY <1>2, <1>4, <1>5, <1>6, <1>7 DEF BackupInv

\* The user's writes come after what was started.
LEMMA WriteStep ==
  ASSUME BackupInv, Write
  PROVE  BackupInv'
<1> USE BoundsAssumption
<1>1. TypeOK /\ StackInv /\ ListenInv /\ OwnedInv /\ MountInv
  BY DEF BackupInv
<1>2. StackInv'
  BY <1>1, Distinct DEF StackInv, Write, bounds, history
<1>3. defers' \in Seq(Deferred) /\ Len(defers') =< 4
  BY <1>2, StackTyped DEF StackInv
<1>4. ListenInv'
  BY <1>1, Types, Distinct DEF ListenInv, Pending, StackInv, Write, bounds, history
<1>5. OwnedInv'
  BY <1>1, Distinct DEF OwnedInv, StackInv, Write, bounds, history
<1>6. MountInv'
  BY <1>1, Types, Distinct DEF MountInv, StackInv, Write, bounds, history
<1>7. TypeOK'
  <2>1. live' \in Version /\ saved' \in Version /\ started' \in Version
    BY <1>1, Types DEF TypeOK, MountInv, Version, Write, bounds, history
  <2>2. snap' \in [data : Version, active : BOOLEAN] \cup {Nothing} /\ mounted' \in Version \cup {Nothing}
    BY <1>1, Types DEF TypeOK, Write, bounds, history
  <2>3. faults' \in 0 .. MaxFaults /\ crashes' \in 0 .. MaxCrashes
    BY <1>1 DEF TypeOK, Write, bounds, history
  <2>4. dirs' \in Nat
    BY <1>1, Types DEF Write, bounds, history
  <2>5. dirs' \in 0 .. MaxCrashes + MaxFaults + 1
    <3>1. Pending' \in {0, 1} /\ dirs' =< crashes' + faults' + Pending'
      BY <1>4 DEF ListenInv, Pending
    <3> QED
      BY <2>3, <2>4, <3>1, DirBound
  <2>6. proxy' \in BOOLEAN /\ dirty' \in BOOLEAN /\ orphan' \in BOOLEAN
    BY <1>1 DEF TypeOK, Write, bounds, history
  <2>7. pc' \in {"waiting", "unmount", "lookup", "remove", "create", "activate", "undo", "mount",
                 "proxy", "config", "write", "discard", "rustic", "return"}
    BY <1>1 DEF TypeOK, Write, bounds, history
  <2> QED
    BY <1>3, <2>1, <2>2, <2>3, <2>5, <2>6, <2>7 DEF TypeOK
<1> QED
  BY <1>2, <1>4, <1>5, <1>6, <1>7 DEF BackupInv

\* An orphan's end.
LEMMA OrphanEndsStep ==
  ASSUME BackupInv, OrphanEnds
  PROVE  BackupInv'
<1> USE BoundsAssumption
<1>1. TypeOK /\ StackInv /\ ListenInv /\ OwnedInv /\ MountInv
  BY DEF BackupInv
<1>2. StackInv'
  BY <1>1, Distinct DEF StackInv, OrphanEnds, bounds, history
<1>3. defers' \in Seq(Deferred) /\ Len(defers') =< 4
  BY <1>2, StackTyped DEF StackInv
<1>4. ListenInv'
  BY <1>1, Types, Distinct DEF ListenInv, Pending, StackInv, OrphanEnds, bounds, history
<1>5. OwnedInv'
  BY <1>1, Distinct DEF OwnedInv, StackInv, OrphanEnds, bounds, history
<1>6. MountInv'
  BY <1>1, Types, Distinct DEF MountInv, StackInv, OrphanEnds, bounds, history
<1>7. TypeOK'
  <2>1. live' \in Version /\ saved' \in Version /\ started' \in Version
    BY <1>1, Types DEF TypeOK, MountInv, Version, OrphanEnds, bounds, history
  <2>2. snap' \in [data : Version, active : BOOLEAN] \cup {Nothing} /\ mounted' \in Version \cup {Nothing}
    BY <1>1, Types DEF TypeOK, OrphanEnds, bounds, history
  <2>3. faults' \in 0 .. MaxFaults /\ crashes' \in 0 .. MaxCrashes
    BY <1>1 DEF TypeOK, OrphanEnds, bounds, history
  <2>4. dirs' \in Nat
    BY <1>1, Types DEF OrphanEnds, bounds, history
  <2>5. dirs' \in 0 .. MaxCrashes + MaxFaults + 1
    <3>1. Pending' \in {0, 1} /\ dirs' =< crashes' + faults' + Pending'
      BY <1>4 DEF ListenInv, Pending
    <3> QED
      BY <2>3, <2>4, <3>1, DirBound
  <2>6. proxy' \in BOOLEAN /\ dirty' \in BOOLEAN /\ orphan' \in BOOLEAN
    BY <1>1 DEF TypeOK, OrphanEnds, bounds, history
  <2>7. pc' \in {"waiting", "unmount", "lookup", "remove", "create", "activate", "undo", "mount",
                 "proxy", "config", "write", "discard", "rustic", "return"}
    BY <1>1 DEF TypeOK, OrphanEnds, bounds, history
  <2> QED
    BY <1>3, <2>1, <2>2, <2>3, <2>5, <2>6, <2>7 DEF TypeOK
<1> QED
  BY <1>2, <1>4, <1>5, <1>6, <1>7 DEF BackupInv

\* A deferred call takes its resource away, or fails and leaves a dirty state or a directory.
LEMMA CallStep ==
  ASSUME BackupInv, pc = "return", NEW d \in {D0, D1, D2, D3},
         NEW call \in Deferred, call = "DeleteSnapshot" => defers = D1 /\ d = D0,
         call = "UnmountSnapshot" => defers = D2 /\ d = D1,
         call = "StopProxy" => defers = D3 /\ d = D2,
         call = "RemoveConfigDir" => defers = D4 /\ d = D3,
         CallDeferred(call), defers' = d,
         UNCHANGED <<env, orphan, saved, started, pc>>
  PROVE  BackupInv'
<1> USE BoundsAssumption
<1>1. TypeOK /\ StackInv /\ ListenInv /\ OwnedInv /\ MountInv
  BY DEF BackupInv
<1>2. StackInv'
  BY <1>1 DEF StackInv
<1>3. defers' \in Seq(Deferred) /\ Len(defers') =< 4
  BY <1>2, StackTyped DEF StackInv
<1>4. ListenInv'
  BY <1>1, Types, Distinct DEF ListenInv, Pending, CallDeferred, Fault, Deferred, env
<1>5. OwnedInv'
  BY <1>1, Distinct DEF OwnedInv, CallDeferred, Deferred
<1>6. MountInv'
  BY <1>1, Distinct DEF MountInv, CallDeferred, Deferred, env
<1>7. TypeOK'
  <2>1. live' \in Version /\ saved' \in Version /\ started' \in Version
    BY <1>1 DEF TypeOK, CallDeferred, Fault, Deferred, env
  <2>2. snap' \in [data : Version, active : BOOLEAN] \cup {Nothing} /\ mounted' \in Version \cup {Nothing}
    BY <1>1 DEF TypeOK, CallDeferred, Fault, Deferred, env
  <2>3. faults' \in 0 .. MaxFaults /\ crashes' \in 0 .. MaxCrashes
    BY <1>1 DEF TypeOK, CallDeferred, Fault, Deferred, env
  <2>4. dirs' \in Nat
    BY <1>1, Types DEF ListenInv, Pending, CallDeferred, Deferred
  <2>5. dirs' \in 0 .. MaxCrashes + MaxFaults + 1
    <3>1. Pending' \in {0, 1} /\ dirs' =< crashes' + faults' + Pending'
      BY <1>4 DEF ListenInv, Pending
    <3> QED
      BY <2>3, <2>4, <3>1, DirBound
  <2>6. proxy' \in BOOLEAN /\ dirty' \in BOOLEAN /\ orphan' \in BOOLEAN
    BY <1>1 DEF TypeOK, CallDeferred, Fault, Deferred, env
  <2>7. pc' \in {"waiting", "unmount", "lookup", "remove", "create", "activate", "undo", "mount",
                 "proxy", "config", "write", "discard", "rustic", "return"}
    BY <1>1 DEF TypeOK, CallDeferred, Fault, Deferred, env
  <2> QED
    BY <1>3, <2>1, <2>2, <2>3, <2>5, <2>6, <2>7 DEF TypeOK
<1> QED
  BY <1>2, <1>4, <1>5, <1>6, <1>7 DEF BackupInv

\* The run unwinds, one deferred call at a time.
LEMMA UnwindStep ==
  ASSUME BackupInv, Unwind
  PROVE  BackupInv'
<1>1. TypeOK /\ StackInv /\ ListenInv /\ OwnedInv /\ MountInv
  BY DEF BackupInv
<1>2. CASE defers = D0
  <2>1. pc' = "waiting" /\ UNCHANGED <<live, crashes, snap, mounted, proxy, orphan, dirs, defers, saved, started, dirty, faults>>
    BY <1>2 DEF Unwind, Goto, D0, env
  <2>2. TypeOK'
    BY <1>1, <2>1 DEF TypeOK
  <2>3. StackInv' /\ ListenInv'
    <3>1. pc = "return"
      BY DEF Unwind
    <3>2. Pending' = Pending
      BY <2>1, <3>1 DEF Pending
    <3> QED
      BY <1>1, <1>2, <2>1, <3>2 DEF StackInv, ListenInv
  <2>4. OwnedInv'
    BY <1>1, <1>2, <2>1 DEF OwnedInv, Unwind
  <2>5. MountInv'
    BY <1>1, <1>2, <2>1 DEF MountInv
  <2> QED
    BY <2>2, <2>3, <2>4, <2>5 DEF BackupInv
<1>3. CASE defers # D0
  <2>1. /\ pc = "return" /\ CallDeferred(defers[Len(defers)])
        /\ defers' = SubSeq(defers, 1, Len(defers) - 1) /\ UNCHANGED <<pc, env, orphan, saved, started>>
    BY <1>3 DEF Unwind, D0
  <2>2. {"DeleteSnapshot", "UnmountSnapshot", "StopProxy", "RemoveConfigDir"} = Deferred
    BY DEF Deferred
  <2>3. CASE defers = D1
    BY <2>1, <2>2, <2>3, Pops, CallStep
  <2>4. CASE defers = D2
    BY <2>1, <2>2, <2>4, Pops, CallStep
  <2>5. CASE defers = D3
    BY <2>1, <2>2, <2>5, Pops, CallStep
  <2>6. CASE defers = D4
    BY <2>1, <2>2, <2>6, Pops, CallStep
  <2> QED
    BY <1>1, <1>3, <2>3, <2>4, <2>5, <2>6 DEF StackInv
<1> QED
  BY <1>2, <1>3

\* The process dies: nothing is called any more, and the next run finds a dirty state.
LEMMA CrashStep ==
  ASSUME BackupInv, Crash
  PROVE  BackupInv'
<1> USE BoundsAssumption
<1>1. TypeOK /\ StackInv /\ ListenInv /\ OwnedInv /\ MountInv
  BY DEF BackupInv
<1>2. StackInv'
  BY DEF StackInv, Crash, Goto, D0
<1>3. defers' \in Seq(Deferred) /\ Len(defers') =< 4
  BY <1>2, StackTyped DEF StackInv
<1>4. ListenInv'
  <2>1. defers' = D0 /\ D0 # D4
    BY Distinct DEF Crash, D0
  <2> QED
    BY <1>1, <2>1, Types DEF ListenInv, Pending, Crash, Goto
<1>5. OwnedInv'
  BY DEF OwnedInv, Crash
<1>6. MountInv'
  BY <1>1 DEF MountInv, Crash, Goto
<1>7. TypeOK'
  <2>1. live' \in Version /\ saved' \in Version /\ started' \in Version
    BY <1>1 DEF TypeOK, Crash, Goto
  <2>2. snap' \in [data : Version, active : BOOLEAN] \cup {Nothing} /\ mounted' \in Version \cup {Nothing}
    BY <1>1 DEF TypeOK, Crash, Goto
  <2>3. faults' \in 0 .. MaxFaults /\ crashes' \in 0 .. MaxCrashes
    BY <1>1 DEF TypeOK, Crash, Goto
  <2>4. dirs' \in Nat
    BY <1>1, Types DEF Crash, Goto
  <2>5. dirs' \in 0 .. MaxCrashes + MaxFaults + 1
    <3>1. Pending' \in {0, 1} /\ dirs' =< crashes' + faults' + Pending'
      BY <1>4 DEF ListenInv, Pending
    <3> QED
      BY <2>3, <2>4, <3>1, DirBound
  <2>6. proxy' \in BOOLEAN /\ dirty' \in BOOLEAN /\ orphan' \in BOOLEAN
    BY <1>1 DEF TypeOK, Crash, Goto
  <2>7. pc' \in {"waiting", "unmount", "lookup", "remove", "create", "activate", "undo", "mount",
                 "proxy", "config", "write", "discard", "rustic", "return"}
    BY <1>1 DEF TypeOK, Crash, Goto
  <2> QED
    BY <1>3, <2>1, <2>2, <2>3, <2>5, <2>6, <2>7 DEF TypeOK
<1> QED
  BY <1>2, <1>4, <1>5, <1>6, <1>7 DEF BackupInv

\* The machine reboots: with nothing mounted, and the snapshot inactive.
LEMMA RebootStep ==
  ASSUME BackupInv, Reboot
  PROVE  BackupInv'
<1> USE BoundsAssumption
<1>1. TypeOK /\ StackInv /\ ListenInv /\ OwnedInv /\ MountInv
  BY DEF BackupInv
<1>1a. snap' \in [data : Version, active : BOOLEAN] \cup {Nothing}
  <2>1. CASE snap = Nothing
    BY <2>1 DEF Reboot
  <2>2. CASE snap # Nothing
    <3>1. snap \in [data : Version, active : BOOLEAN] /\ snap' = [snap EXCEPT !.active = FALSE]
      BY <1>1, <2>2 DEF TypeOK, Reboot
    <3> QED
      BY <3>1
  <2> QED
    BY <2>1, <2>2
<1>2. StackInv'
  BY DEF StackInv, Reboot, Goto, D0
<1>3. defers' \in Seq(Deferred) /\ Len(defers') =< 4
  BY <1>2, StackTyped DEF StackInv
<1>4. ListenInv'
  <2>1. defers' = D0 /\ D0 # D4
    BY Distinct DEF Reboot, D0
  <2> QED
    BY <1>1, <2>1, Types DEF ListenInv, Pending, Reboot, Goto
<1>5. OwnedInv'
  BY DEF OwnedInv, Reboot
<1>6. MountInv'
  BY <1>1 DEF MountInv, Reboot, Goto
<1>7. TypeOK'
  <2>1. live' \in Version /\ saved' \in Version /\ started' \in Version
    BY <1>1 DEF TypeOK, Reboot, Goto
  <2>2. snap' \in [data : Version, active : BOOLEAN] \cup {Nothing} /\ mounted' \in Version \cup {Nothing}
    BY <1>1a DEF TypeOK, Reboot, Goto
  <2>3. faults' \in 0 .. MaxFaults /\ crashes' \in 0 .. MaxCrashes
    BY <1>1 DEF TypeOK, Reboot, Goto
  <2>4. dirs' \in Nat
    BY <1>1, Types DEF Reboot, Goto
  <2>5. dirs' \in 0 .. MaxCrashes + MaxFaults + 1
    <3>1. Pending' \in {0, 1} /\ dirs' =< crashes' + faults' + Pending'
      BY <1>4 DEF ListenInv, Pending
    <3> QED
      BY <2>3, <2>4, <3>1, DirBound
  <2>6. proxy' \in BOOLEAN /\ dirty' \in BOOLEAN /\ orphan' \in BOOLEAN
    BY <1>1 DEF TypeOK, Reboot, Goto
  <2>7. pc' \in {"waiting", "unmount", "lookup", "remove", "create", "activate", "undo", "mount",
                 "proxy", "config", "write", "discard", "rustic", "return"}
    BY <1>1 DEF TypeOK, Reboot, Goto
  <2> QED
    BY <1>3, <2>1, <2>2, <2>3, <2>5, <2>6, <2>7 DEF TypeOK
<1> QED
  BY <1>2, <1>4, <1>5, <1>6, <1>7 DEF BackupInv

\* Every step keeps the invariant.
LEMMA BackupInvStep == BackupInv /\ [Next]_vars => BackupInv'
<1> SUFFICES ASSUME BackupInv, [Next]_vars PROVE BackupInv'
  OBVIOUS
<1>1. CASE BackupStep
  BY <1>1, StartBackupStep, UnmountOldStep, LookupOldStep, RemoveOldStep, CreateNewStep, ActivateStep,
     UndoCreateStep, MountSnapshotStep, StartProxyStep, MakeConfigDirStep, WriteConfigStep,
     DiscardConfigStep, RusticEndsStep, UnwindStep
     DEF BackupStep
<1>2. CASE Write \/ Crash \/ Reboot \/ OrphanEnds
  BY <1>2, WriteStep, CrashStep, RebootStep, OrphanEndsStep
<1>3. CASE UNCHANGED vars
  BY <1>3 DEF vars, BackupInv, TypeOK, StackInv, ListenInv, Pending, OwnedInv, MountInv
<1> QED
  BY <1>1, <1>2, <1>3 DEF Next

\* Every reachable state satisfies the invariant.
LEMMA BackupInvariant == Spec => []BackupInv
BY BackupInitInv, BackupInvStep, PTL DEF Spec

-------------------------------------------------------------------------------
\* The state of a run, and of what it leaves on the machine, has the types of TypeOK.
THEOREM BackupTypeCorrect == Spec => []TypeOK
<1>1. BackupInv => TypeOK
  BY DEF BackupInv
<1> QED
  BY <1>1, BackupInvariant, PTL

\* rustic reads a snapshot taken since the run began, whatever earlier runs left behind
\* (VolumeBackup.Backup).
THEOREM ReadsThisRun == Spec => []RusticReadsThisRun
<1>1. BackupInv => RusticReadsThisRun
  BY DEF BackupInv, MountInv, RusticReadsThisRun
<1> QED
  BY <1>1, BackupInvariant, PTL

\* A run whose clean-up did not fail leaves no mount, no snapshot and no listener: its deferred
\* calls undo everything it did.
THEOREM LeavesNothing == Spec => []CleanWhenDone
<1>1. BackupInv => CleanWhenDone
  BY Distinct DEF BackupInv, StackInv, ListenInv, OwnedInv, CleanWhenDone
<1> QED
  BY <1>1, BackupInvariant, PTL

\* A run removes the directory that it wrote the password into, unless that fails or the process dies
\* (VolumeBackup.Backup, buildRusticConfigDir).
THEOREM PasswordsAreRemoved == Spec => []PasswordsRemoved
<1>1. BackupInv => PasswordsRemoved
  <2> SUFFICES ASSUME BackupInv, pc = "waiting" PROVE dirs =< crashes + faults
    BY DEF PasswordsRemoved
  <2>1. Pending = 0
    BY Distinct DEF BackupInv, StackInv, Pending
  <2>2. dirs \in Nat /\ crashes \in Nat /\ faults \in Nat /\ dirs =< crashes + faults + Pending
    BY Types DEF BackupInv, ListenInv
  <2> QED
    BY <2>1, <2>2
<1> QED
  BY <1>1, BackupInvariant, PTL

-------------------------------------------------------------------------------
\* Backup implements BackupLog, which has the same variables.  The steps need that no content is
\* from the future, and that an earlier backup is not from this run.
RecentInv ==
  /\ saved =< live
  /\ snap # Nothing => snap.data =< live
  /\ mounted # Nothing => mounted =< live
  /\ pc \notin {"waiting", "return"} => saved =< started

\* The steps that take nothing into a snapshot, the mount or the repository.
LEMMA RecentStays ==
  ASSUME BackupInv, RecentInv, live' \in Version, live =< live', UNCHANGED <<saved, started>>,
         snap' \in {snap, Nothing} \/ (snap # Nothing /\ snap' = [snap EXCEPT !.active = TRUE])
           \/ (snap # Nothing /\ snap' = [snap EXCEPT !.active = FALSE]),
         mounted' \in {mounted, Nothing},
         pc' \in {"waiting", "return"} \/ pc \notin {"waiting", "return"}
  PROVE  RecentInv'
<1>1. /\ live \in Nat /\ live' \in Nat /\ saved \in Nat /\ started \in Nat
      /\ mounted # Nothing => mounted \in Nat
      /\ snap # Nothing => snap.data \in Nat
      /\ snap # Nothing => snap \in [data : Version, active : BOOLEAN]
  BY BoundsAssumption DEF BackupInv, TypeOK, Version
<1>2. saved' =< live' /\ (pc' \notin {"waiting", "return"} => saved' =< started')
  BY <1>1 DEF RecentInv
<1>3. mounted' # Nothing => mounted' =< live'
  BY <1>1 DEF RecentInv
<1>4. snap' # Nothing => snap # Nothing /\ snap'.data = snap.data
  BY <1>1
<1>5. snap' # Nothing => snap'.data =< live'
  BY <1>1, <1>4 DEF RecentInv
<1> QED
  BY <1>2, <1>3, <1>5 DEF RecentInv

\* Every step preserves it, and is a step of the log or nothing it knows of.
LEMMA LogStep ==
  ASSUME BackupInv, RecentInv, [Next]_vars
  PROVE  RecentInv' /\ [Log!LogNext]_Log!logVars
<1> USE DEF Log!logVars
<1>1. /\ live \in Nat /\ saved \in Nat /\ started \in Nat /\ live \in Version /\ live =< live
      /\ mounted # Nothing => mounted \in Nat
  BY BoundsAssumption DEF BackupInv, TypeOK, Version
<1>2. CASE StartBackup
  <2>1. /\ started' = live /\ UNCHANGED <<live, saved, snap, mounted>>
    BY <1>2 DEF StartBackup, env
  <2> QED
    BY <1>1, <2>1 DEF RecentInv, Log!LogNext, Log!Begin
<1>3. CASE UnmountOld \/ LookupOld \/ RemoveOld \/ UndoCreate \/ StartProxy \/ MakeConfigDir
             \/ WriteConfig \/ DiscardConfig
  <2>1. /\ UNCHANGED <<live, saved, started>> /\ snap' \in {snap, Nothing}
        /\ mounted' \in {mounted, Nothing} /\ pc \notin {"waiting", "return"}
    BY <1>3 DEF UnmountOld, LookupOld, RemoveOld, UndoCreate, StartProxy, MakeConfigDir,
                WriteConfig, DiscardConfig, Return,
                env, history
  <2> QED
    BY <1>1, <2>1, RecentStays
<1>4. CASE Activate
  <2>1. /\ UNCHANGED <<live, saved, started, mounted>> /\ pc = "activate"
        /\ snap' = snap \/ snap' = [snap EXCEPT !.active = TRUE]
    BY <1>4 DEF Activate, env, history
  <2>2. snap # Nothing
    BY <2>1 DEF BackupInv, MountInv
  <2> QED
    BY <1>1, <2>1, <2>2, RecentStays
<1>5. CASE CreateNew
  <2>1. UNCHANGED <<live, saved, started, mounted>> /\ pc = "create"
    BY <1>5 DEF CreateNew, Return, env, history
  <2>2. snap' = snap \/ snap' = [data |-> live, active |-> FALSE]
    BY <1>5 DEF CreateNew, Return
  <2>3. snap' # Nothing => snap'.data =< live
    BY <1>1, <2>2 DEF RecentInv
  <2> QED
    BY <2>1, <2>3 DEF RecentInv
<1>6. CASE MountSnapshot
  <2>1. UNCHANGED <<live, saved, started, snap>> /\ pc = "mount"
    BY <1>6 DEF MountSnapshot, Return, env, history
  <2>2. mounted' = mounted \/ mounted' = snap.data
    BY <1>6 DEF MountSnapshot, Return
  <2>3. snap # Nothing
    BY <2>1 DEF BackupInv, MountInv
  <2> QED
    BY <2>1, <2>2, <2>3 DEF RecentInv
<1>7. CASE RusticEnds
  <2>1. UNCHANGED <<live, started, snap, mounted>> /\ pc = "rustic" /\ pc' = "return"
    BY <1>7 DEF RusticEnds, Goto, env, history
  <2>2. mounted # Nothing /\ started =< mounted /\ mounted =< live /\ saved =< started
    BY <1>1, <2>1 DEF BackupInv, MountInv, RecentInv
  <2>3. saved' = mounted \/ saved' = saved
    BY <1>7 DEF RusticEnds
  <2>4. saved' = saved \/ Log!Save
    BY <1>1, <2>1, <2>2, <2>3 DEF Log!Save
  <2>5. RecentInv'
    BY <1>1, <2>1, <2>2, <2>3 DEF RecentInv
  <2> QED
    BY <2>1, <2>4, <2>5 DEF Log!LogNext
<1>8. CASE Unwind
  <2>1. /\ UNCHANGED <<live, saved, started>> /\ pc = "return" /\ pc' \in {"waiting", "return"}
        /\ snap' \in {snap, Nothing} /\ mounted' \in {mounted, Nothing}
    BY <1>8 DEF Unwind, CallDeferred, Goto, env
  <2> QED
    BY <1>1, <2>1, RecentStays
<1>9. CASE Write
  <2>1. /\ live' = live + 1 /\ live' \in Version
        /\ UNCHANGED <<saved, started, snap, mounted, pc>>
    BY <1>1, <1>9, BoundsAssumption DEF Write, history, Version
  <2>2. live =< live'
    BY <1>1, <2>1
  <2>3. RecentInv'
    BY <1>1, <2>1, <2>2, RecentStays
  <2> QED
    BY <2>1, <2>3 DEF Log!LogNext, Log!Change
<1>10. CASE Crash \/ OrphanEnds
  <2>1. /\ UNCHANGED <<live, saved, started, snap, mounted>> /\ pc' \in {"waiting", pc}
    BY <1>10 DEF Crash, OrphanEnds, Goto, history
  <2> QED
    BY <1>1, <2>1 DEF RecentInv
<1>11. CASE Reboot
  <2>1. /\ UNCHANGED <<live, saved, started>> /\ mounted' = Nothing /\ pc' = "waiting"
        /\ snap' = IF snap = Nothing THEN snap ELSE [snap EXCEPT !.active = FALSE]
    BY <1>11 DEF Reboot, Goto
  <2> QED
    BY <1>1, <2>1, RecentStays
<1>12. CASE UNCHANGED vars
  BY <1>12 DEF vars, RecentInv
<1> QED
  BY <1>2, <1>3, <1>4, <1>5, <1>6, <1>7, <1>8, <1>9, <1>10, <1>11, <1>12 DEF Next, BackupStep

\* A backup is the volume at one moment of its own run and never behind the one before, for any
\* number of changes, failing commands, crashes and reboots (VolumeBackup.Backup, CreateSnapshot).
THEOREM BackupsAreRecent == Spec => LogSpec
<1>1. Init => RecentInv /\ Log!LogInit
  BY DEF Init, RecentInv, Log!LogInit
<1>2. BackupInv /\ RecentInv /\ [Next]_vars => RecentInv' /\ [Log!LogNext]_Log!logVars
  BY LogStep
<1> QED
  BY <1>1, <1>2, BackupInvariant, PTL DEF Spec, LogSpec, Log!LogSpec

-------------------------------------------------------------------------------
\* Why EveryWriteSaved holds, as far as it is a matter of safety: what earlier runs left behind is
\* never in the way.  A run has no snapshot in the way when it creates one, and an active one when
\* it mounts it.
FreeInv ==
  /\ pc = "create" => snap = Nothing
  /\ pc = "mount" => snap # Nothing /\ snap.active

\* Every step preserves this.
LEMMA FreeStep == BackupInv /\ FreeInv /\ [Next]_vars => FreeInv'
<1> SUFFICES ASSUME BackupInv, FreeInv, [Next]_vars
             PROVE  (pc = "create" => snap = Nothing)' /\ (pc = "mount" => snap # Nothing /\ snap.active)'
  BY DEF FreeInv
<1>1. CASE StartBackup \/ UnmountOld \/ UndoCreate \/ StartProxy \/ MakeConfigDir
           \/ WriteConfig \/ DiscardConfig \/ RusticEnds \/ Unwind \/ Crash \/ Reboot
  BY <1>1 DEF StartBackup, UnmountOld, UndoCreate, StartProxy, MakeConfigDir, WriteConfig, DiscardConfig,
              RusticEnds, Unwind, Crash, Reboot, Return, Goto
<1>2. CASE LookupOld \/ RemoveOld \/ CreateNew \/ MountSnapshot
  BY <1>2 DEF LookupOld, RemoveOld, CreateNew, MountSnapshot, Return, Goto
<1>3. CASE Activate
  <2>1. snap \in [data : Version, active : BOOLEAN]
    BY <1>3 DEF BackupInv, TypeOK, MountInv, Activate
  <2>2. CASE pc' = "mount"
    <3>1. snap' = [snap EXCEPT !.active = TRUE]
      BY <1>3, <2>2 DEF Activate, Goto
    <3>2. snap' \in [data : Version, active : BOOLEAN] /\ snap'.active
      BY <2>1, <3>1
    <3> QED
      BY <2>2, <3>2, NothingAssumption DEF Version
  <2>3. CASE pc' # "mount"
    BY <1>3, <2>3 DEF Activate, Goto
  <2> QED
    BY <2>2, <2>3
<1>4. CASE Write \/ OrphanEnds \/ UNCHANGED vars
  BY <1>4 DEF Write, OrphanEnds, vars, FreeInv
<1> QED
  BY <1>1, <1>2, <1>3, <1>4 DEF Next, BackupStep

\* A run ends before rustic has saved only for a command that fails in that very step, or for the
\* orphan of a run before, where it has a file of the old mount open.
GivesUp ==
  /\ pc \notin {"waiting", "undo", "discard", "return"} /\ pc' \in {"undo", "discard", "return"}
  /\ ~(pc = "rustic" /\ saved' = mounted)

OnlyFaultsStopRuns ==
  [][GivesUp => faults' = faults + 1 \/ (pc = "unmount" /\ orphan)]_vars

\* Nothing an earlier run left (a mount, a snapshot, a listener, a directory) stops a run, however
\* that run ended (VolumeBackup.Backup, CreateSnapshot with overwrite).
THEOREM LeftOversStopNoRun == Spec => OnlyFaultsStopRuns
<1>1. Init => FreeInv
  BY DEF Init, FreeInv
<1>2. BackupInv /\ FreeInv /\ [Next]_vars =>
        [GivesUp => faults' = faults + 1 \/ (pc = "unmount" /\ orphan)]_vars
  <2> SUFFICES ASSUME BackupInv, FreeInv, Next, GivesUp
               PROVE  faults' = faults + 1 \/ (pc = "unmount" /\ orphan)
    OBVIOUS
  <2> USE DEF GivesUp
  <2>1. TypeOK /\ StackInv /\ ListenInv /\ MountInv
    BY DEF BackupInv
  <2>2. CASE UnmountOld
    BY <2>2 DEF UnmountOld, Return, Goto, Fault
  <2>3. CASE LookupOld \/ MakeConfigDir \/ WriteConfig
    BY <2>3 DEF LookupOld, MakeConfigDir, WriteConfig, Return, Goto, Fault
  <2>4. CASE RemoveOld
    BY <2>1, <2>4 DEF RemoveOld, Return, Goto, Fault, MountInv
  <2>5. CASE CreateNew
    BY <2>1, <2>5 DEF CreateNew, Return, Goto, Fault, FreeInv
  <2>6. CASE Activate
    BY <2>6 DEF Activate, Goto, Fault
  <2>7. CASE MountSnapshot
    BY <2>7 DEF MountSnapshot, Return, Goto, Fault, FreeInv
  <2>8. CASE StartProxy
    BY <2>1, <2>8, Distinct DEF StartProxy, Return, Goto, Fault, StackInv, ListenInv
  <2>9. CASE RusticEnds
    BY <2>9 DEF RusticEnds, Fault
  <2>10. CASE StartBackup \/ UndoCreate \/ DiscardConfig \/ Unwind \/ Write \/ Crash \/ Reboot \/ OrphanEnds
    BY <2>10 DEF StartBackup, UndoCreate, DiscardConfig, Unwind, Write, Crash, Reboot, OrphanEnds, Goto
  <2> QED
    BY <2>2, <2>3, <2>4, <2>5, <2>6, <2>7, <2>8, <2>9, <2>10 DEF Next, BackupStep
<1> QED
  BY <1>1, <1>2, FreeStep, BackupInvariant, PTL DEF Spec, OnlyFaultsStopRuns
===============================================================================
