---------------------------- MODULE WebdavCache ----------------------------
(***************************************************************************)
(* The caches of the WebDAV proxy's FileSystem while several requests are   *)
(* about one object b in a directory d of the repository: GET and PROPFIND  *)
(* requests of readers, and the PUT and DELETE requests of a writer, which  *)
(* are one at a time because golang.org/x/net/webdav locks the name.        *)
(*                                                                          *)
(* Stat looks an entry up in the cached listing of its directory, and lists *)
(* the directory when no listing is cached: the listing goes into the cache *)
(* first and is filled then.  OpenFile caches the file's content, with the  *)
(* version it has by a second Stat.  Close of an upload and delete forget   *)
(* what the name and the directories above it have in the caches.           *)
(*                                                                          *)
(* The object store holds a version of b, or 0: the n-th PUT that succeeds  *)
(* stores n.  A listing of d is the version of b it saw; one of the root is *)
(* 1 when d was there, and 0 when it was not.  Readdir keeps its listing    *)
(* locked while it asks the store.                                          *)
(***************************************************************************)
EXTENDS Integers, FiniteSets

CONSTANTS Readers, Writer,
          Name,       \* what is asked for: "b", or "d", or both
          None,       \* no listing
          MaxVersion  \* bound of the PUTs

Requests == Readers \cup {Writer}
Version == 0 .. MaxVersion

Unlisted == -1   \* Readdir has not been, or has failed; to the code, an empty listing is the same
Failed == -2     \* the result of a Stat whose Readdir failed

\* A listing is what it holds or, until Readdir is over, the request that has made it and fills it.
Listing == Version \cup {Unlisted} \cup Requests

ASSUME CacheAssumption ==
  /\ Writer \notin Readers /\ None \notin Listing
  /\ Requests \cap (Version \cup {Unlisted}) = {}
  /\ MaxVersion \in Nat /\ Name \subseteq {"b", "d"}

VARIABLES store,         \* the version of b
          puts,          \* the versions stored so far
          dirCache,      \* the cached listing of each directory, or None
          contentCache,  \* the cached content of b: its version, and whether it is late
          pc,            \* where each request is
          name,          \* what its Stat is about
          then,          \* what its Stat is for
          dir,           \* the listing it holds
          result,        \* what its Stat or OpenFile came to
          late,          \* history: b was forgotten since its second Stat began
          floor,         \* history: the version that was put and answered when it began
          acked          \* history: the version of the last PUT that was answered, 0 once a DELETE began

vars == <<store, puts, dirCache, contentCache, pc, name, then, dir, result, late, floor, acked>>

data == <<store, puts>>
cache == <<dirCache, contentCache>>
request == <<name, then, dir, result>>
history == <<late, floor, acked>>

Directory == {"root", "d"}
Parent(n) == IF n = "b" THEN "d" ELSE "root"

\* What a listing of the directory has of version v of b: d is there when b is.
Entry(directory, v) == IF directory = "root" /\ v # 0 THEN 1 ELSE v

NoContent == [version |-> 0, late |-> FALSE]

TypeOK ==
  /\ store \in Version /\ puts \in Version /\ acked \in Version
  /\ dirCache \in [Directory -> Listing \cup {None}]
  /\ contentCache \in [version : Version, late : BOOLEAN]
  /\ pc \in [Requests -> {"idle", "lookup", "insert", "readdir", "list", "search", "stated", "cached",
                          "content", "opened", "forget", "remove", "close"}]
  /\ name \in [Requests -> Name \cup {"b"}]
  /\ then \in [Requests -> {"answer", "open", "content"}]
  /\ dir \in [Requests -> Listing \cup {None}]
  /\ result \in [Requests -> Version \cup {Unlisted, Failed}]
  /\ late \in [Requests -> BOOLEAN] /\ floor \in [Requests -> Version]

Init ==
  /\ store = 0 /\ puts = 0 /\ acked = 0
  /\ dirCache = [n \in Directory |-> None] /\ contentCache = NoContent
  /\ pc = [r \in Requests |-> "idle"]
  /\ name = [r \in Requests |-> "b"] /\ then = [r \in Requests |-> "answer"]
  /\ dir = [r \in Requests |-> None] /\ result = [r \in Requests |-> 0]
  /\ late = [r \in Requests |-> FALSE] /\ floor = [r \in Requests |-> 0]

Goto(r, step) == pc' = [pc EXCEPT ![r] = step]

\* What was the request's own is gone.
Clear(r) ==
  /\ name' = [name EXCEPT ![r] = "b"] /\ then' = [then EXCEPT ![r] = "answer"]
  /\ dir' = [dir EXCEPT ![r] = None] /\ result' = [result EXCEPT ![r] = 0]
  /\ late' = [late EXCEPT ![r] = FALSE] /\ floor' = [floor EXCEPT ![r] = 0]
  /\ UNCHANGED acked

Answer(r) == Goto(r, "idle") /\ Clear(r)

-------------------------------------------------------------------------------
\* A request begins with Stat or with OpenFile, for reading, of b; a DELETE does, too (RemoveAll).
Begin(r, n, for) ==
  /\ pc[r] = "idle"
  /\ Goto(r, "lookup")
  /\ name' = [name EXCEPT ![r] = n] /\ then' = [then EXCEPT ![r] = for]
  /\ UNCHANGED <<dir, result>>

ReaderBegins(r) ==
  /\ \E n \in Name, for \in {"answer", "open"} :
       /\ for = "open" => n = "b"
       /\ Begin(r, n, for)
       /\ floor' = [floor EXCEPT ![r] = Entry(Parent(n), acked)]
  /\ UNCHANGED <<data, cache, late, acked>>

DeleteBegins ==
  /\ Begin(Writer, "b", "open")
  /\ acked' = 0 /\ floor' = [r \in Requests |-> 0]
  /\ UNCHANGED <<data, cache, late>>

\* Stat: dirCache[parent]; it is searched, or a new listing is made.
Lookup(r) ==
  /\ pc[r] = "lookup"
  /\ LET cached == dirCache[Parent(name[r])]
     IN IF cached # None
          THEN Goto(r, "search") /\ dir' = [dir EXCEPT ![r] = cached]
          ELSE Goto(r, "insert") /\ dir' = [dir EXCEPT ![r] = r]
  /\ UNCHANGED <<data, cache, name, then, result, history>>

\* Stat: the new listing goes into the cache.
Insert(r) ==
  /\ pc[r] = "insert"
  /\ dirCache' = [dirCache EXCEPT ![Parent(name[r])] = r]
  /\ Goto(r, "readdir")
  /\ UNCHANGED <<data, contentCache, request, history>>

\* Readdir: the listing is locked and the store is asked ...
Readdir(r) ==
  /\ pc[r] = "readdir"
  /\ Goto(r, "list")
  /\ UNCHANGED <<data, cache, request, history>>

\* Whoever has the listing of r has what it holds now.
FillListing(r, held) ==
  /\ dirCache' = [n \in Directory |-> IF dirCache[n] = r THEN held ELSE dirCache[n]]
  /\ dir' = [q \in Requests |-> IF dir[q] = r THEN held ELSE dir[q]]

\* ... and answers, or fails and leaves the listing as it was.
ListObjects(r) ==
  /\ pc[r] = "list"
  /\ \/ FillListing(r, Entry(Parent(name[r]), store)) /\ Goto(r, "search") /\ UNCHANGED result
     \/ /\ FillListing(r, Unlisted) /\ Goto(r, "stated")
        /\ result' = [result EXCEPT ![r] = Failed]
  /\ UNCHANGED <<data, contentCache, name, then, history>>

\* doRet: the entry in the listing, once nobody has it locked.
Search(r) ==
  /\ pc[r] = "search"
  /\ dir[r] \in Requests => pc[dir[r]] # "list"
  /\ result' = [result EXCEPT ![r] = IF dir[r] \in Requests THEN Unlisted ELSE dir[r]]
  /\ dir' = [dir EXCEPT ![r] = None]
  /\ Goto(r, "stated")
  /\ UNCHANGED <<data, cache, name, then, history>>

\* The request is answered with what Stat found; OpenFile goes on when it found b.
Stated(r) ==
  /\ pc[r] = "stated"
  /\ IF then[r] = "answer" \/ result[r] =< 0 THEN Answer(r)
       ELSE /\ Goto(r, IF then[r] = "open" THEN "cached" ELSE "content")
            /\ result' = [result EXCEPT ![r] = IF then[r] = "open" THEN 0 ELSE @]
            /\ UNCHANGED <<name, then, dir, history>>
  /\ UNCHANGED <<data, cache>>

\* OpenFile: cleanupCache, which may find a listing's URLs or the content expired, and the look
\* into the content cache.  Without content it goes on to a second Stat.
LookupContent(r) ==
  /\ pc[r] = "cached"
  /\ \E expired \in SUBSET {n \in Directory : dirCache[n] \in Version \ {0}} :
       dirCache' = [n \in Directory |-> IF n \in expired THEN None ELSE dirCache[n]]
  /\ contentCache' \in {contentCache, NoContent}
  /\ IF contentCache'.version # 0
       THEN /\ Goto(r, "opened")
            /\ result' = [result EXCEPT ![r] = contentCache'.version]
            /\ late' = [late EXCEPT ![r] = contentCache'.late]
            /\ UNCHANGED then
       ELSE /\ Goto(r, "lookup")
            /\ then' = [then EXCEPT ![r] = "content"]
            /\ UNCHANGED <<result, late>>
  /\ UNCHANGED <<data, name, dir, floor, acked>>

\* OpenFile: the content, with what the second Stat found, goes into the cache.
InsertContent(r) ==
  /\ pc[r] = "content"
  /\ contentCache' = [version |-> result[r], late |-> late[r]]
  /\ Goto(r, "opened")
  /\ UNCHANGED <<data, dirCache, request, history>>

\* The file is open: it is read, or listRecursive has found it and RemoveAll goes on.
Opened(r) ==
  /\ pc[r] = "opened"
  /\ Goto(r, IF r = Writer THEN "forget" ELSE "idle")
  /\ Clear(r)
  /\ UNCHANGED <<data, cache>>

-------------------------------------------------------------------------------
\* Mutant: the name's own directory is forgotten, the directories above it are not.
ForgottenDirsNotAbove(n) == {Parent(n)}

\* The directories whose listings forgetCache forgets.
ForgottenDirs(n) == {"d", "root"}

\* Mutant: the content stays.
ForgetListingsOnly ==
  /\ dirCache' = [n \in Directory |-> IF n \in ForgottenDirs("b") THEN None ELSE dirCache[n]]
  /\ late' = [r \in Requests |-> late[r] \/ then[r] = "content"]
  /\ UNCHANGED contentCache

\* forgetCache of b.
ForgetCache ==
  /\ dirCache' = [n \in Directory |-> IF n \in ForgottenDirs("b") THEN None ELSE dirCache[n]]
  /\ contentCache' = NoContent
  /\ late' = [r \in Requests |-> late[r] \/ then[r] = "content"]

\* A PUT: the upload is over, with a new version stored or without (fileWrite.Close, see Upload).
UploadDone ==
  /\ pc[Writer] = "idle"
  /\ \/ puts < MaxVersion /\ puts' = puts + 1 /\ store' = puts + 1
     \/ UNCHANGED data
  /\ Goto(Writer, "close")
  /\ UNCHANGED <<cache, request, history>>

\* The end of fileWrite.Close: what the caches have is forgotten, and the PUT is answered.
CloseUpload ==
  /\ pc[Writer] = "close"
  /\ ForgetCache
  /\ acked' = store
  /\ Goto(Writer, "idle")
  /\ UNCHANGED <<data, request, floor>>

\* delete: forgetCache first ...
DeleteForgets ==
  /\ pc[Writer] = "forget"
  /\ ForgetCache
  /\ Goto(Writer, "remove")
  /\ UNCHANGED <<data, request, floor, acked>>

\* ... and then the object is removed, or that fails.
DeleteRemoves ==
  /\ pc[Writer] = "remove"
  /\ store' \in {store, 0}
  /\ Answer(Writer)
  /\ UNCHANGED <<puts, cache>>

StatStep(r) == Lookup(r) \/ Insert(r) \/ Readdir(r) \/ ListObjects(r) \/ Search(r) \/ Stated(r)
OpenStep(r) == LookupContent(r) \/ InsertContent(r) \/ Opened(r)
WriterStep == UploadDone \/ CloseUpload \/ DeleteBegins \/ DeleteForgets \/ DeleteRemoves

Next == \/ \E r \in Readers : ReaderBegins(r)
        \/ \E r \in Requests : StatStep(r) \/ OpenStep(r)
        \/ WriterStep

Spec == Init /\ [][Next]_vars

-------------------------------------------------------------------------------
\* A Stat that begins when the PUT of a version was answered finds that version or a later one,
\* whatever listings other requests had under way, and the directory, too -- unless the store
\* fails to list, now, or for the request that put the listing into the cache, or that request
\* has not got to filling it: then the code has b for not existing.
StatFresh ==
  \A r \in Readers :
    pc[r] = "stated" => result[r] \in {Failed, Unlisted} \/ result[r] >= floor[r]

\* An OpenFile that begins then reads content not older either, unless it is content that a
\* request cached which was between its second Stat and the caching when b was forgotten.
OpenFresh ==
  \A r \in Readers :
    pc[r] = "opened" => late[r] \/ result[r] >= floor[r]
===============================================================================
