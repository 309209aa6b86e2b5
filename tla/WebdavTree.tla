------------------------------ MODULE WebdavTree ------------------------------
(***************************************************************************)
(* PUT, MOVE and DELETE of several files through the WebDAV proxy, down to  *)
(* the server's S3 proxy, which removes an object in one call of the store  *)
(* and renames it in two: CopyObject, then RemoveObject.                    *)
(*                                                                          *)
(* golang.org/x/net/webdav locks the names in a request, but not what is    *)
(* below a name: a DELETE of the directory Dir does not exclude requests    *)
(* about the files in it.  A connection from the proxy to the server may    *)
(* break while the server goes on with what it was asked: the call is then  *)
(* nobody's, and the proxy answers its client with an error and gives the   *)
(* names free.                                                              *)
(*                                                                          *)
(* A cached listing is the set of names it shows; {} is also one that is    *)
(* not filled yet, or could not be (see WebdavCache, which has Stat, the    *)
(* listings and the upload step by step; here each is one step).            *)
(***************************************************************************)
EXTENDS Naturals, FiniteSets

CONSTANTS Files,      \* the files of the repository
          InDir,      \* those in the directory
          Dir, Root,  \* the directory, and the one it is in
          Requests,   \* slots for the requests at the proxy
          Nobody,     \* nobody waits for the answer
          MaxVersion, \* bound of the PUTs
          MaxBroken   \* bound of the broken calls at a time

ASSUME TreeAssumption ==
  /\ InDir \subseteq Files /\ Dir \notin Files /\ Root \notin Files \cup {Dir}
  /\ Nobody \notin Requests
  /\ MaxVersion \in Nat /\ MaxBroken \in Nat

Names == Files \cup {Dir}
Version == 0 .. MaxVersion
None == {Root}   \* no listing is cached: a listing never shows Root

Parent(n) == IF n \in InDir THEN Dir ELSE Root
Below(n) == IF n = Dir THEN InDir ELSE {n}

VARIABLES store,      \* the version of each file, 0 when there is none: the n-th PUT stores n
          puts,       \* the PUTs so far
          listing,    \* dirCache: what each directory's cached listing shows, or None
          calls,      \* what the server was asked and has not answered
          pc, job,    \* where each request is, and what it is about
          todo,       \* the files RemoveAll has still to delete
          owed,       \* history: versions that were stored and that nobody has asked to replace or remove
          began,      \* history: the versions a request found when it began
          disturbed,  \* history: requests with others about the same files
          halfMoved   \* history: versions that a MOVE which came to an error left under two names

vars == <<store, puts, listing, calls, pc, job, todo, owed, began, disturbed, halfMoved>>

data == <<store, puts>>
request == <<job, todo>>
history == <<owed, began, disturbed, halfMoved>>

Job == [op : {"put", "move", "delete"}, src : Names, dst : Names, overwrite : BOOLEAN]
Call == [kind : {"rename", "copied", "delete"}, old : Files, new : Files, by : Requests \cup {Nobody}]

TypeOK ==
  /\ store \in [Files -> Version] /\ puts \in Version
  /\ listing \in [{Root, Dir} -> (SUBSET Names) \cup {None}]
  /\ calls \subseteq Call
  /\ pc \in [Requests -> {"idle", "upload", "close", "stat", "list", "remove", "deleting",
                          "deleted", "rename", "renaming", "renamed", "failed", "moved", "error"}]
  /\ job \in [Requests -> Job]
  /\ todo \in [Requests -> SUBSET Files]
  /\ owed \subseteq Version \ {0} /\ halfMoved \subseteq Version
  /\ began \in [Requests -> SUBSET Version]
  /\ disturbed \subseteq Requests

NoJob == [op |-> "put", src |-> Dir, dst |-> Dir, overwrite |-> FALSE]

Init ==
  /\ store = [f \in Files |-> 0] /\ puts = 0
  /\ listing = [d \in {Root, Dir} |-> None]
  /\ calls = {}
  /\ pc = [r \in Requests |-> "idle"] /\ job = [r \in Requests |-> NoJob]
  /\ todo = [r \in Requests |-> {}]
  /\ owed = {} /\ began = [r \in Requests |-> {}] /\ disturbed = {} /\ halfMoved = {}

Goto(r, step) == pc' = [pc EXCEPT ![r] = step]

\* The names a request has locked, and whether a name is free.
Locked(r) == IF pc[r] = "idle" THEN {}
             ELSE IF job[r].op = "move" THEN {job[r].src, job[r].dst} ELSE {job[r].dst}
Free(n) == \A r \in Requests : n \notin Locked(r)

\* Others may remove or replace the file: a DELETE of the directory, or a broken call.
Endangered(f) ==
  \/ \E r \in Requests : pc[r] # "idle" /\ job[r].op = "delete" /\ job[r].dst = Dir /\ f \in InDir
  \/ \E c \in calls : c.by = Nobody /\ f \in {c.old, c.new}

\* Another request or call is about the file.
Taken(f) == ~Free(f) \/ Endangered(f)

Stored(F) == {store[f] : f \in F} \ {0}

Doubled(stored) == {stored[f] : f \in {g \in Files : \E h \in Files \ {g} : stored[h] = stored[g]}} \ {0}

\* The versions owed when `gone` need not be kept any more and `v` has come to file f.
OwedAfter(gone, v, f) == (owed \ gone) \cup (IF Endangered(f) THEN {} ELSE {v})

-------------------------------------------------------------------------------
\* Listings.

Exists(n) == \E f \in Below(n) : store[f] # 0
Entries(d) == {n \in Names : Parent(n) = d /\ Exists(n)}

\* A directory that has no listing in the cache, or an empty one, is listed; until that is over,
\* and when it fails, its listing is empty.
Browse(d) ==
  /\ listing[d] \in {None, {}}
  /\ \E shown \in {Entries(d), {}} : listing' = [listing EXCEPT ![d] = shown]
  /\ UNCHANGED <<data, calls, pc, request, history>>

\* cleanupCache: the URLs of a listing expire.
CleanupCache(d) ==
  /\ listing[d] \notin {None, {}}
  /\ listing' = [listing EXCEPT ![d] = None]
  /\ UNCHANGED <<data, calls, pc, request, history>>

\* Stat, once the directory's listing is in the cache.
Listed(n) == listing[Parent(n)] # None
Stat(n) == n \in listing[Parent(n)]

\* forgetCache of the files.
ForgetCache(F) ==
  listing' = [d \in {Root, Dir} |-> IF F = {} \/ (d = Dir /\ F \cap InDir = {}) THEN listing[d] ELSE None]

\* The request is answered and its names are free.
Answer(r) ==
  /\ Goto(r, "idle")
  /\ job' = [job EXCEPT ![r] = NoJob] /\ todo' = [todo EXCEPT ![r] = {}]
  /\ began' = [began EXCEPT ![r] = {}] /\ disturbed' = disturbed \ {r}

\* Stat, Readdir or OpenFile fails or finds nothing, or finds what must not be replaced, or the
\* server's answer was an error: so is the answer to the request.
Refused(r) ==
  /\ pc[r] \in {"stat", "list", "rename", "error"}
  /\ Answer(r)
  /\ UNCHANGED <<data, listing, calls, owed, halfMoved>>

-------------------------------------------------------------------------------
\* PUT (see Upload).

PutBegins(r, f) ==
  /\ pc[r] = "idle" /\ Free(f)
  /\ job' = [job EXCEPT ![r] = [NoJob EXCEPT !.dst = f]]
  /\ Goto(r, "upload")
  /\ UNCHANGED <<data, listing, calls, todo, history>>

\* The store has the body, whether or not its answer arrives.
PutStores(r) ==
  LET f == job[r].dst
  IN /\ pc[r] = "upload" /\ puts < MaxVersion
     /\ puts' = puts + 1 /\ store' = [store EXCEPT ![f] = puts + 1]
     /\ owed' = OwedAfter({store[f]}, puts + 1, f)
     /\ halfMoved' = halfMoved \cap Doubled(store')
     /\ Goto(r, "close")
     /\ UNCHANGED <<listing, calls, request, began, disturbed>>

PutFails(r) ==
  /\ pc[r] = "upload"
  /\ Goto(r, "close")
  /\ UNCHANGED <<data, listing, calls, request, history>>

\* Mutant: Close leaves the listings.
PutClosesOnly(r) ==
  /\ pc[r] = "close"
  /\ Answer(r)
  /\ UNCHANGED <<data, listing, calls, owed, halfMoved>>

PutCloses(r) ==
  /\ pc[r] = "close"
  /\ ForgetCache({job[r].dst})
  /\ Answer(r)
  /\ UNCHANGED <<data, calls, owed, halfMoved>>

-------------------------------------------------------------------------------
\* DELETE of a file or of the directory, and RemoveAll.

\* Others' requests about files in the directory are not alone with them any more.
DeleteBegins(r, n) ==
  /\ pc[r] = "idle" /\ Free(n)
  /\ job' = [job EXCEPT ![r] = [NoJob EXCEPT !.op = "delete", !.dst = n]]
  /\ Goto(r, "stat")
  /\ owed' = owed \ Stored(Below(n))
  /\ began' = [began EXCEPT ![r] = (owed \cap Stored(Below(n))) \ Stored({f \in Files : Taken(f)})]
  /\ disturbed' = IF n = Dir THEN {q \in Requests : q \in disturbed \/ Locked(q) \cap InDir # {}}
                             ELSE disturbed
  /\ UNCHANGED <<data, listing, calls, todo, halfMoved>>

\* The Stat before RemoveAll: of what is deleted, or of what a MOVE would replace.
StatTarget(r) ==
  LET dst == job[r].dst
  IN /\ pc[r] = "stat" /\ Listed(dst)
     /\ \/ /\ Stat(dst) /\ (job[r].op = "move" => job[r].overwrite)
           /\ Goto(r, "list") /\ UNCHANGED owed
        \/ /\ ~Stat(dst) /\ job[r].op = "move"
           /\ Goto(r, "rename") /\ owed' = owed \ Stored({dst})
     /\ job' = [job EXCEPT ![r].overwrite = FALSE]   \* it is not looked at again
     /\ UNCHANGED <<data, listing, calls, todo, began, disturbed, halfMoved>>

\* listRecursive: the file itself, or what the directory's listing shows.  A listing that shows
\* nothing is asked for again; when there is nothing either, RemoveAll deletes nothing and succeeds.
ListRecursive(r) ==
  LET dst == job[r].dst
  IN /\ pc[r] = "list" /\ Listed(dst) /\ Stat(dst)
     /\ dst = Dir => listing[Dir] # None /\ (listing[Dir] = {} => Entries(Dir) = {})
     /\ todo' = [todo EXCEPT ![r] = IF dst = Dir THEN listing[Dir] ELSE {dst}]
     /\ Goto(r, "remove")
     /\ UNCHANGED <<data, listing, calls, job, history>>

\* delete: the caches forget the file, and the server is asked to remove it.
Delete(r, f) ==
  /\ pc[r] = "remove" /\ f \in todo[r]
  /\ ForgetCache({f})
  /\ calls' = calls \cup {[kind |-> "delete", old |-> f, new |-> f, by |-> r]}
  /\ todo' = [todo EXCEPT ![r] = @ \ {f}]
  /\ Goto(r, "deleting")
  /\ UNCHANGED <<data, job, history>>

\* All are deleted; a MOVE goes on.
RemoveAllEnds(r) ==
  /\ pc[r] = "remove" /\ todo[r] = {}
  /\ Goto(r, IF job[r].op = "move" THEN "rename" ELSE "deleted")
  /\ UNCHANGED <<data, listing, calls, request, history>>

-------------------------------------------------------------------------------
\* MOVE.

MoveBegins(r, src, dst, overwrite) ==
  /\ pc[r] = "idle" /\ src # dst /\ Free(src) /\ Free(dst)
  /\ job' = [job EXCEPT ![r] = [op |-> "move", src |-> src, dst |-> dst, overwrite |-> overwrite]]
  /\ Goto(r, "stat")
  /\ owed' = IF overwrite THEN owed \ Stored({dst}) ELSE owed
  /\ began' = [q \in Requests |-> IF q = r THEN Stored(Below(src))
                                 ELSE IF job[q].op = "delete" THEN began[q] \ Stored(Below(src))
                                 ELSE began[q]]
  /\ disturbed' = IF \E f \in {src, dst} \cap Files : Endangered(f) THEN disturbed \cup {r} ELSE disturbed
  /\ UNCHANGED <<data, listing, calls, todo, halfMoved>>

\* Rename: a directory is refused, for a file the server is asked.
Rename(r) ==
  /\ pc[r] = "rename" /\ Listed(job[r].src) /\ Stat(job[r].src)
  /\ job[r].src \in Files
  /\ calls' = calls \cup {[kind |-> "rename", old |-> job[r].src, new |-> job[r].dst, by |-> r]}
  /\ Goto(r, "renaming")
  /\ UNCHANGED <<data, listing, request, history>>

\* Whatever the answer was, both names are forgotten.
RenameAnswered(r) ==
  /\ pc[r] \in {"renamed", "failed"}
  /\ ForgetCache({job[r].src, job[r].dst})
  /\ Goto(r, IF pc[r] = "renamed" THEN "moved" ELSE "error")
  /\ UNCHANGED <<data, calls, request, history>>

\* The client is told that its MOVE or DELETE is done.
Done(r) ==
  /\ pc[r] \in {"moved", "deleted"}
  /\ Answer(r)
  /\ UNCHANGED <<data, listing, calls, owed, halfMoved>>

-------------------------------------------------------------------------------
\* The server.

\* The call is answered, if somebody waits for the answer.
Return(c, ok) ==
  IF c.by = Nobody THEN UNCHANGED pc
  ELSE Goto(c.by, IF c.kind = "delete" THEN (IF ok THEN "remove" ELSE "error")
                                       ELSE (IF ok THEN "renamed" ELSE "failed"))

\* A rename that is not answered with success: its version may be under both names.
HalfMoved(c, stored) ==
  (IF c.kind = "delete" THEN halfMoved ELSE halfMoved \cup {stored[c.old]}) \cap Doubled(stored)

\* The repository, its bucket or the store is not there (handleBase), or the store refuses.
CallFails(c) ==
  /\ calls' = calls \ {c}
  /\ Return(c, FALSE)
  /\ halfMoved' = HalfMoved(c, store)
  /\ UNCHANGED <<data, listing, request, owed, began, disturbed>>

\* The connection between the proxy and the server breaks, and the server goes on.
Break(c) ==
  /\ c.by # Nobody /\ Cardinality({b \in calls : b.by = Nobody}) < MaxBroken
  /\ calls' = (calls \ {c}) \cup {[c EXCEPT !.by = Nobody]}
  /\ Return(c, FALSE)
  /\ halfMoved' = HalfMoved(c, store)
  /\ UNCHANGED <<data, listing, request, owed, began, disturbed>>

\* Mutant: the copy is all there is of a rename.
CopyObjectOnly(c) ==
  /\ c.kind = "rename" /\ store[c.old] # 0
  /\ store' = [store EXCEPT ![c.new] = store[c.old]]
  /\ owed' = owed \ (IF Endangered(c.new) THEN {store[c.old]} ELSE {})
  /\ calls' = calls \ {c} /\ Return(c, TRUE)
  /\ halfMoved' = halfMoved \cap Doubled(store')
  /\ UNCHANGED <<puts, listing, request, began, disturbed>>

\* restRenameObject: CopyObject, which the store may have done although its answer is an error.
CopyObject(c) ==
  /\ c.kind = "rename" /\ store[c.old] # 0
  /\ store' = [store EXCEPT ![c.new] = store[c.old]]
  /\ owed' = owed \ (IF Endangered(c.new) THEN {store[c.old]} ELSE {})
  /\ \/ /\ calls' = (calls \ {c}) \cup {[c EXCEPT !.kind = "copied"]}
        /\ halfMoved' = IF c.by = Nobody THEN HalfMoved(c, store') ELSE halfMoved \cap Doubled(store')
        /\ UNCHANGED pc
     \/ /\ calls' = calls \ {c}
        /\ Return(c, FALSE) /\ halfMoved' = HalfMoved(c, store')
  /\ UNCHANGED <<puts, listing, request, began, disturbed>>

\* Mutant: the error of CopyObject is not looked at.
RemoveObjectAnyway(c) ==
  /\ store' = [store EXCEPT ![c.old] = 0]
  /\ calls' = calls \ {c}
  /\ \E ok \in BOOLEAN : Return(c, ok)
  /\ halfMoved' = halfMoved \cap Doubled(store')
  /\ UNCHANGED <<puts, listing, request, owed, began, disturbed>>

\* Mutant: the new name is removed.
RemoveObjectNew(c) ==
  /\ c.kind \in {"copied", "delete"}
  /\ store' = [store EXCEPT ![c.new] = 0]
  /\ calls' = calls \ {c}
  /\ \E ok \in BOOLEAN : Return(c, ok)
  /\ halfMoved' = halfMoved \cap Doubled(store')
  /\ UNCHANGED <<puts, listing, request, owed, began, disturbed>>

\* RemoveObject, the second half of a rename or all of a deletion.
RemoveObject(c) ==
  /\ c.kind \in {"copied", "delete"}
  /\ store' = [store EXCEPT ![c.old] = 0]
  /\ calls' = calls \ {c}
  /\ \E ok \in BOOLEAN : Return(c, ok)
  /\ halfMoved' = halfMoved \cap Doubled(store')
  /\ UNCHANGED <<puts, listing, request, owed, began, disturbed>>

ListingStep == \E d \in {Root, Dir} : Browse(d) \/ CleanupCache(d)
PutStep(r) == (\E f \in Files : PutBegins(r, f)) \/ PutStores(r) \/ PutFails(r) \/ PutCloses(r)
DeleteStep(r) == \/ \E n \in Names : DeleteBegins(r, n)
                 \/ StatTarget(r) \/ ListRecursive(r) \/ RemoveAllEnds(r)
                 \/ \E f \in todo[r] : Delete(r, f)
MoveStep(r) == \/ \E src \in Names, dst \in Files, overwrite \in BOOLEAN :
                    MoveBegins(r, src, dst, overwrite)
               \/ Rename(r) \/ RenameAnswered(r)
ServerStep == \E c \in calls : CallFails(c) \/ Break(c) \/ CopyObject(c) \/ RemoveObject(c)

Next == \/ ListingStep
        \/ \E r \in Requests : PutStep(r) \/ DeleteStep(r) \/ MoveStep(r) \/ Refused(r) \/ Done(r)
        \/ ServerStep

Spec == Init /\ [][Next]_vars

-------------------------------------------------------------------------------
\* What was uploaded is under some name until somebody asks to delete or replace it, or to delete
\* the directory it comes into; a MOVE keeps it at every point, however it fails.  The exceptions
\* are a MOVE that must not overwrite and does not see the file it replaces (its listing is not
\* filled), and files that a broken call is still about (restRenameObject, FileSystem.Rename).
NothingLost == \A v \in owed : \E f \in Files : store[f] = v

\* When a MOVE is answered with success, what the old name had is under the new one and the old
\* name is gone, unless others were at the same files, by way of the directory or a broken call.
MoveDone ==
  \A r \in Requests :
    pc[r] = "moved" /\ r \notin disturbed => began[r] = {store[job[r].dst]} /\ store[job[r].src] = 0

\* A version is under two names only while the server renames it, or after a MOVE of it that came
\* to an error: copy and removal are two calls of the store (restRenameObject).
OneName ==
  \A f, g \in Files :
    f # g /\ store[f] = store[g] /\ store[f] # 0
      => store[f] \in halfMoved \/ \E c \in calls : c.kind = "copied" /\ store[c.old] = store[f]

\* When a DELETE is answered with success, what was there when it began, and nobody else was
\* about then or moved since, is gone, also below a directory (RemoveAll, with listings from the cache).
DeletedGone ==
  \A r \in Requests :
    pc[r] = "deleted" => began[r] \cap Stored(Below(job[r].dst)) = {}
===============================================================================
