------------------------------- MODULE Backup -------------------------------
(***************************************************************************)
(* VolumeBackup.Backup, run again and again by periodicBackup: take a thin  *)
(* snapshot of the volume's file system, mount it read-only, serve the      *)
(* repository over WebDAV on a local port, let rustic back the mount up,    *)
(* and undo all of it in deferred calls.                                    *)
(*                                                                          *)
(* Every command may fail without effect, the process may die between two   *)
(* commands (its child rustic then goes on as an orphan until it finds the  *)
(* proxy gone), and the machine may reboot.  What is left behind is found   *)
(* by the next run.                                                         *)
(*                                                                          *)
(* The commands themselves (umount, lvcreate, lvremove, lvchange, mount,    *)
(* rustic) are not in the repository: umount refuses a mount in which an    *)
(* orphan happens to have something open (rustic does not work in it, only  *)
(* reads it), lvremove a mounted volume, lvcreate a name that exists, mount *)
(* an inactive volume.                                                      *)
(***************************************************************************)
EXTENDS Naturals, Sequences

CONSTANTS Nothing,     \* no snapshot, nothing mounted
          MaxWrites,   \* bound of the changes to the file system
          MaxFaults,   \* bound of the commands that fail
          MaxCrashes   \* bound of the crashes and reboots

ASSUME BoundsAssumption == MaxWrites \in Nat /\ MaxFaults \in Nat /\ MaxCrashes \in Nat
ASSUME NothingAssumption ==
  Nothing \notin 0 .. MaxWrites /\ Nothing \notin [data : 0 .. MaxWrites, active : BOOLEAN]

VARIABLES live,     \* the version of the file system's content
          snap,     \* the snapshot "_backup": the version it holds and whether it is active
          mounted,  \* the version mounted at SnapshotMount
          proxy,    \* the WebDAV proxy listens
          orphan,   \* a rustic whose parent died is still running
          dirs,     \* temporary configuration directories, with the repository's password
          pc,       \* where the run is
          defers,   \* the deferred calls of Backup, last one first to be called
          saved,    \* the version in the last backup that succeeded
          started,  \* history: the version when this run started
          dirty,    \* history: a clean-up failed, or there was a crash, since the last snapshot
          faults,   \* the commands that failed
          crashes   \* the crashes and reboots

vars == <<live, snap, mounted, proxy, orphan, dirs, pc, defers, saved, started, dirty, faults,
          crashes>>

bounds == <<faults, crashes>>
history == <<started, dirty>>
env == <<live, crashes>>

Version == 0 .. MaxWrites
Deferred == {"DeleteSnapshot", "UnmountSnapshot", "StopProxy", "RemoveConfigDir"}

TypeOK ==
  /\ live \in Version /\ saved \in Version /\ started \in Version
  /\ snap \in [data : Version, active : BOOLEAN] \cup {Nothing}
  /\ mounted \in Version \cup {Nothing}
  /\ proxy \in BOOLEAN /\ orphan \in BOOLEAN /\ dirty \in BOOLEAN
  /\ dirs \in 0 .. MaxCrashes + MaxFaults + 1
  /\ pc \in {"waiting", "unmount", "lookup", "remove", "create", "activate", "undo", "mount",
             "proxy", "config", "write", "discard", "rustic", "return"}
  /\ defers \in Seq(Deferred) /\ Len(defers) =< 4
  /\ faults \in 0 .. MaxFaults /\ crashes \in 0 .. MaxCrashes

Init ==
  /\ live = 0 /\ saved = 0 /\ started = 0
  /\ snap = Nothing /\ mounted = Nothing
  /\ proxy = FALSE /\ orphan = FALSE /\ dirs = 0
  /\ pc = "waiting" /\ defers = <<>>
  /\ dirty = FALSE /\ faults = 0 /\ crashes = 0

-------------------------------------------------------------------------------
\* A command fails without effect.
Fault == faults < MaxFaults /\ faults' = faults + 1

Defer(call) == defers' = Append(defers, call)

Goto(step) == pc' = step

\* "return err" before anything else was deferred or changed.
Return == Goto("return") /\ UNCHANGED <<snap, mounted, proxy, orphan, dirs, defers, saved, history>>

\* The interval is over: sync, and the run begins.
StartBackup ==
  /\ pc = "waiting"
  /\ Goto("unmount")
  /\ started' = live
  /\ UNCHANGED <<env, snap, mounted, proxy, orphan, dirs, defers, saved, dirty, faults>>

\* UnmountSnapshot, when a run starts: what an earlier run left mounted goes away, or the run ends.
UnmountOld ==
  /\ pc = "unmount"
  /\ \/ /\ mounted' = Nothing
        /\ Goto("lookup")
        /\ UNCHANGED <<snap, proxy, orphan, dirs, defers, saved, history, faults>>
     \/ /\ Fault \/ (mounted # Nothing /\ orphan /\ UNCHANGED faults)
        /\ Return
  /\ UNCHANGED env

\* Mutant: an existing snapshot is used as it is.
LookupOldReusing ==
  /\ pc = "lookup"
  /\ \/ /\ Goto(IF snap = Nothing THEN "create" ELSE "activate")
        /\ UNCHANGED <<snap, mounted, proxy, orphan, dirs, defers, saved, history, faults>>
     \/ Fault /\ Return
  /\ UNCHANGED env

\* Mutant: an existing snapshot is an error, as CreateSnapshot without overwrite has it.
LookupOldRefusing ==
  /\ pc = "lookup"
  /\ \/ /\ Goto(IF snap = Nothing THEN "create" ELSE "return")
        /\ UNCHANGED <<snap, mounted, proxy, orphan, dirs, defers, saved, history, faults>>
     \/ Fault /\ Return
  /\ UNCHANGED env

\* CreateSnapshot: LVGet finds a snapshot of an earlier run, to be overwritten, or none.
LookupOld ==
  /\ pc = "lookup"
  /\ \/ /\ Goto(IF snap = Nothing THEN "create" ELSE "remove")
        /\ UNCHANGED <<snap, mounted, proxy, orphan, dirs, defers, saved, history, faults>>
     \/ Fault /\ Return
  /\ UNCHANGED env

\* CreateSnapshot: LVRemove of the old one.
RemoveOld ==
  /\ pc = "remove"
  /\ \/ /\ mounted = Nothing
        /\ snap' = Nothing
        /\ Goto("create")
        /\ UNCHANGED <<mounted, proxy, orphan, dirs, defers, saved, history, faults>>
     \/ /\ Fault \/ (mounted # Nothing /\ UNCHANGED faults)
        /\ Return
  /\ UNCHANGED env

\* CreateSnapshot: sync and TLVSnapCreate.  Thin snapshots are not activated when created.
CreateNew ==
  /\ pc = "create"
  /\ \/ /\ snap = Nothing
        /\ snap' = [data |-> live, active |-> FALSE]
        /\ dirty' = FALSE
        /\ Goto("activate")
        /\ UNCHANGED <<mounted, proxy, orphan, dirs, defers, saved, started, faults>>
     \/ /\ Fault \/ (snap # Nothing /\ UNCHANGED faults)
        /\ Return
  /\ UNCHANGED env

\* CreateSnapshot: LVActivate.  On success Backup defers DeleteSnapshot.
Activate ==
  /\ pc = "activate"
  /\ \/ /\ snap' = [snap EXCEPT !.active = TRUE]
        /\ Defer("DeleteSnapshot")
        /\ Goto("mount")
        /\ UNCHANGED faults
     \/ /\ Fault
        /\ Goto("undo")
        /\ UNCHANGED <<snap, defers>>
  /\ UNCHANGED <<env, mounted, proxy, orphan, dirs, saved, history>>

\* CreateSnapshot's own deferred LVRemove.
UndoCreate ==
  /\ pc = "undo"
  /\ \/ snap' = Nothing /\ UNCHANGED <<dirty, faults>>
     \/ Fault /\ dirty' = TRUE /\ UNCHANGED snap
  /\ Goto("return")
  /\ UNCHANGED <<env, mounted, proxy, orphan, dirs, defers, saved, started>>

\* Mutant: nobody unmounts the snapshot.
MountSnapshotForgetting ==
  /\ pc = "mount"
  /\ \/ /\ snap.active
        /\ mounted' = snap.data
        /\ Goto("proxy")
        /\ UNCHANGED <<snap, proxy, orphan, dirs, defers, saved, history, faults>>
     \/ /\ Fault \/ (~snap.active /\ UNCHANGED faults)
        /\ Return
  /\ UNCHANGED env

\* Mutant: a mount that fails is no reason to stop.
MountSnapshotAnyway ==
  /\ pc = "mount"
  /\ \/ snap.active /\ mounted' = snap.data /\ UNCHANGED faults
     \/ Fault /\ UNCHANGED mounted
  /\ Defer("UnmountSnapshot")
  /\ Goto("proxy")
  /\ UNCHANGED <<env, snap, proxy, orphan, dirs, saved, history>>

\* MountSnapshot; on success Backup defers UnmountSnapshot.
MountSnapshot ==
  /\ pc = "mount"
  /\ \/ /\ snap.active
        /\ mounted' = snap.data
        /\ Defer("UnmountSnapshot")
        /\ Goto("proxy")
        /\ UNCHANGED <<snap, proxy, orphan, dirs, saved, history, faults>>
     \/ /\ Fault \/ (~snap.active /\ UNCHANGED faults)
        /\ Return
  /\ UNCHANGED env

\* Proxy.Start listens, which fails while another listener has the address.
StartProxy ==
  /\ pc = "proxy"
  /\ \/ /\ ~proxy
        /\ proxy' = TRUE
        /\ Defer("StopProxy")
        /\ Goto("config")
        /\ UNCHANGED <<snap, mounted, orphan, dirs, saved, history, faults>>
     \/ /\ Fault \/ (proxy /\ UNCHANGED faults)
        /\ Return
  /\ UNCHANGED env

\* buildRusticConfigDir: MkdirTemp.
MakeConfigDir ==
  /\ pc = "config"
  /\ \/ /\ dirs' = dirs + 1
        /\ Goto("write")
        /\ UNCHANGED <<snap, mounted, proxy, orphan, defers, saved, history, faults>>
     \/ Fault /\ Return
  /\ UNCHANGED env

\* Mutant: the directory is left to the system, as temporary files often are.
WriteConfigForgetting ==
  /\ pc = "write"
  /\ \/ Goto("rustic") /\ UNCHANGED faults
     \/ Fault /\ Goto("discard")
  /\ UNCHANGED <<env, snap, mounted, proxy, orphan, dirs, defers, saved, history>>

\* buildRusticConfigDir: rustic.toml, with the password.  On success Backup defers RemoveAll and
\* starts rustic.
WriteConfig ==
  /\ pc = "write"
  /\ \/ Defer("RemoveConfigDir") /\ Goto("rustic") /\ UNCHANGED faults
     \/ Fault /\ Goto("discard") /\ UNCHANGED defers
  /\ UNCHANGED <<env, snap, mounted, proxy, orphan, dirs, saved, history>>

\* buildRusticConfigDir's own deferred RemoveAll, whose failure is ignored.
DiscardConfig ==
  /\ pc = "discard"
  /\ \/ dirs' = dirs - 1 /\ UNCHANGED faults
     \/ Fault /\ UNCHANGED dirs
  /\ Goto("return")
  /\ UNCHANGED <<env, snap, mounted, proxy, orphan, defers, saved, history>>

\* rustic ends, with a backup of what it found in SnapshotMount or with an error.
RusticEnds ==
  /\ pc = "rustic"
  /\ \/ saved' = mounted /\ UNCHANGED faults
     \/ Fault /\ UNCHANGED saved
  /\ Goto("return")
  /\ UNCHANGED <<env, snap, mounted, proxy, orphan, dirs, defers, history>>

\* One deferred call.  A failure is logged, or ignored, and the next one is called.
CallDeferred(call) ==
  \/ /\ call = "RemoveConfigDir"
     /\ \/ dirs' = dirs - 1 /\ UNCHANGED faults
        \/ Fault /\ UNCHANGED dirs
     /\ UNCHANGED <<snap, mounted, proxy, dirty>>
  \/ /\ call = "StopProxy"
     /\ proxy' = FALSE
     /\ UNCHANGED <<snap, mounted, dirs, dirty, faults>>
  \/ /\ call = "UnmountSnapshot"
     /\ \/ mounted' = Nothing /\ UNCHANGED <<dirty, faults>>
        \/ (Fault \/ (orphan /\ UNCHANGED faults)) /\ dirty' = TRUE /\ UNCHANGED mounted
     /\ UNCHANGED <<snap, proxy, dirs>>
  \/ /\ call = "DeleteSnapshot"
     /\ \/ mounted = Nothing /\ snap' = Nothing /\ UNCHANGED <<dirty, faults>>
        \/ mounted # Nothing /\ UNCHANGED <<snap, dirty, faults>>
        \/ Fault /\ dirty' = TRUE /\ UNCHANGED snap
     /\ UNCHANGED <<mounted, proxy, dirs>>

Unwind ==
  /\ pc = "return"
  /\ IF defers = <<>>
       THEN /\ Goto("waiting")
            /\ UNCHANGED <<snap, mounted, proxy, dirs, defers, dirty, faults>>
       ELSE /\ CallDeferred(defers[Len(defers)])
            /\ defers' = SubSeq(defers, 1, Len(defers) - 1)
            /\ UNCHANGED pc
  /\ UNCHANGED <<env, orphan, saved, started>>

\* The user of the volume changes a file.
Write ==
  /\ live < MaxWrites
  /\ live' = live + 1
  /\ UNCHANGED <<snap, mounted, proxy, orphan, dirs, pc, defers, saved, history, bounds>>

\* The process dies and is started again: nothing deferred is called.
Crash ==
  /\ crashes < MaxCrashes
  /\ crashes' = crashes + 1
  /\ Goto("waiting") /\ defers' = <<>> /\ proxy' = FALSE /\ dirty' = TRUE
  /\ orphan' = (orphan \/ pc = "rustic")
  /\ UNCHANGED <<live, snap, mounted, dirs, saved, started, faults>>

\* The machine reboots and the volume is served again: mounts are gone and snapshots inactive.
Reboot ==
  /\ crashes < MaxCrashes
  /\ crashes' = crashes + 1
  /\ Goto("waiting") /\ defers' = <<>> /\ proxy' = FALSE /\ dirty' = TRUE
  /\ orphan' = FALSE /\ mounted' = Nothing
  /\ snap' = IF snap = Nothing THEN snap ELSE [snap EXCEPT !.active = FALSE]
  /\ UNCHANGED <<live, dirs, saved, started, faults>>

\* The orphan finds its repository gone and gives up.  It makes no backup: the proxy of a later run
\* listens at another address (port 0, if --webdav-proxy-listen is not given).
OrphanEnds ==
  /\ orphan
  /\ orphan' = FALSE
  /\ UNCHANGED <<live, snap, mounted, proxy, dirs, pc, defers, saved, history, bounds>>

BackupStep == \/ StartBackup \/ UnmountOld \/ LookupOld \/ RemoveOld \/ CreateNew \/ Activate
              \/ UndoCreate \/ MountSnapshot \/ StartProxy \/ MakeConfigDir \/ WriteConfig
              \/ DiscardConfig \/ RusticEnds \/ Unwind

Next == BackupStep \/ Write \/ Crash \/ Reboot \/ OrphanEnds

Spec == Init /\ [][Next]_vars

\* The goroutine runs and every command ends; an orphan does, too.
FairSpec == Spec /\ WF_vars(BackupStep) /\ WF_vars(OrphanEnds)

-------------------------------------------------------------------------------
\* rustic backs up this run's snapshot: whatever earlier runs left behind, what it reads is not
\* older than the run and it never sees the bare mount point.
RusticReadsThisRun == pc = "rustic" => mounted # Nothing /\ mounted >= started

\* A run that could clean up, and was not interrupted, leaves nothing: no mount, no snapshot that
\* fills the thin pool, no listener.
CleanWhenDone ==
  pc = "waiting" /\ ~dirty => mounted = Nothing /\ snap = Nothing /\ ~proxy

\* A directory with the repository's password outlives the run that made it only where a failure or a
\* crash left it: not one for every run, whichever way the runs end.
PasswordsRemoved == pc = "waiting" => dirs =< crashes + faults

\* A backup is the volume at one moment of its run, and not behind an earlier backup: neither the
\* left-overs of an earlier run nor an orphan bring an old content into the repository.
Log == INSTANCE BackupLog
LogSpec == Log!LogSpec

\* Once commands stop failing, every change to the file system gets into a backup: no left-over
\* of a failed or interrupted run stops the following runs.
EveryWriteSaved == \A v \in 1 .. MaxWrites : live >= v ~> saved >= v
===============================================================================
