--------------------------- MODULE WebdavReadProofs ---------------------------
(***************************************************************************)
(* Proofs about what readers of the WebDAV proxy get: that the listings and *)
(* contents it caches are not older than what was answered (WebdavCache),   *)
(* and that a cached content's chunks are read, counted and forgotten as    *)
(* they should be (FileContent).  For any readers, versions, sizes of       *)
(* chunks and of the cache.                                                 *)
(*                                                                          *)
(* A request that looks into the caches finds what others have put there,   *)
(* so CacheInv says of every place a version can be in on its way -- the    *)
(* listing somebody fills, the cached listing, the listing a request holds, *)
(* the result of its Stat, the cached content -- that it is not older than  *)
(* what was answered when the request began.  A second Stat must be new     *)
(* enough for all readers to come, or be marked late.                       *)
(***************************************************************************)
EXTENDS WebdavCache, FileContent, FiniteSetTheorems, TLAPS

\* The requests at work on a listing that is theirs.
Filling == {"insert", "readdir", "list"}

\* The version in the store is the last that was put, or it was deleted.
StoreInv ==
  /\ store =< puts /\ (acked # 0 => acked =< store)
  /\ pc[Writer] \notin {"idle", "close"} => acked = 0

\* No cached listing is older than what was answered, and one that is not filled is somebody's who
\* is about to fill it.
ListingInv ==
  \A n \in Directory :
    /\ dirCache[n] \in Version => Entry(n, acked) =< dirCache[n]
    /\ dirCache[n] \in Requests =>
         pc[dirCache[n]] \in {"readdir", "list"} /\ Parent(name[dirCache[n]]) = n

\* Nor is cached content, but for what came late.
ContentInv == contentCache.version # 0 => contentCache.late \/ acked =< contentCache.version

\* What a request has found is not older than what was answered when it began; for its second
\* Stat, than what is answered now, unless b was forgotten since.
Fresh(r, v) ==
  /\ floor[r] =< v
  /\ then[r] = "content" => late[r] \/ Entry(Parent(name[r]), acked) =< v

RequestOK(r) ==
  /\ floor[r] =< Entry(Parent(name[r]), acked)
  /\ then[r] # "answer" => name[r] = "b"
  /\ pc[r] = "cached" => then[r] = "open"
  /\ pc[r] = "content" => then[r] = "content" /\ result[r] \in Version \ {0}
  /\ pc[r] \in Filling => dir[r] = r
  /\ pc[r] \notin Filling \cup {"search"} => dir[r] \notin Requests
  /\ pc[r] = "search" => dir[r] # None /\ (dir[r] \in Version => Fresh(r, dir[r]))
  /\ dir[r] \in Requests => pc[dir[r]] \in Filling /\ Parent(name[dir[r]]) = Parent(name[r])
  /\ pc[r] \in {"stated", "content"} => result[r] \in {Failed, Unlisted} \/ Fresh(r, result[r])
  /\ pc[r] = "opened" => late[r] \/ floor[r] =< result[r]

RequestInv == \A r \in Requests : RequestOK(r)

CacheInv == TypeOK /\ StoreInv /\ ListingInv /\ ContentInv /\ RequestInv

-------------------------------------------------------------------------------
\* What was stored later is listed later.
LEMMA EntryGrows ==
  ASSUME NEW d, NEW v \in Version, NEW w \in Version, v # 0 => v =< w
  PROVE  Entry(d, v) =< Entry(d, w)
  BY CacheAssumption DEF Entry, Version

\* A listing's entry is a version, too.
LEMMA EntryTypes ==
  ASSUME NEW d, NEW v \in Version
  PROVE  Entry(d, v) \in Version /\ Entry(d, v) \in Int
  BY CacheAssumption DEF Entry, Version

\* Where a request is.
LEMMA RequestTypes ==
  ASSUME CacheInv, NEW r \in Requests
  PROVE  /\ RequestOK(r) /\ Parent(name[r]) \in Directory /\ r # None
         /\ r \notin Version /\ r # Unlisted
         /\ dir[r] \in Listing \cup {None} /\ result[r] \in Version \cup {Unlisted, Failed}
         /\ late[r] \in BOOLEAN /\ floor[r] \in Version
<1>1. TypeOK /\ RequestInv
  BY DEF CacheInv
<1> QED
  BY <1>1, CacheAssumption DEF TypeOK, RequestInv, Parent, Directory, Listing

\* A step of r leaves the others as they are, if it does not change what they share.
LEMMA OthersKept ==
  ASSUME CacheInv, NEW r \in Requests, UNCHANGED acked,
         \A q \in Requests \ {r} : /\ pc'[q] = pc[q] /\ name'[q] = name[q] /\ then'[q] = then[q]
                                   /\ dir'[q] = dir[q] /\ result'[q] = result[q]
                                   /\ late'[q] = late[q] /\ floor'[q] = floor[q],
         pc[r] \in Filling => pc'[r] \in Filling /\ name'[r] = name[r],
         NEW q \in Requests, q # r
  PROVE  RequestOK(q)'
<1>1. RequestOK(q)
  BY RequestTypes
<1>2. Fresh(q, dir[q])' = Fresh(q, dir[q]) /\ Fresh(q, result[q])' = Fresh(q, result[q])
  BY DEF Fresh
<1>3. dir[q] \in Requests => pc'[dir[q]] \in Filling /\ Parent(name'[dir[q]]) = Parent(name[q])
  BY <1>1 DEF RequestOK
<1> QED
  BY <1>1, <1>2, <1>3 DEF RequestOK

\* The caches stay good when nothing in them changes but what expires.
LEMMA CachesKept ==
  ASSUME CacheInv, UNCHANGED acked,
         \A n \in Directory : dirCache'[n] \in {dirCache[n], None},
         \A q \in Requests : pc[q] \in {"readdir", "list"} => pc'[q] \in {"readdir", "list"} /\ name'[q] = name[q],
         contentCache' \in {contentCache, NoContent}
  PROVE  ListingInv' /\ ContentInv'
<1>1. ListingInv /\ ContentInv
  BY DEF CacheInv
<1>2. ContentInv'
  BY <1>1 DEF ContentInv, NoContent
<1>3. ASSUME NEW n \in Directory PROVE /\ dirCache'[n] \in Version => Entry(n, acked) =< dirCache'[n]
                                       /\ dirCache'[n] \in Requests =>
                                            pc'[dirCache'[n]] \in {"readdir", "list"} /\ Parent(name'[dirCache'[n]]) = n
  <2>1. CASE dirCache'[n] = None
    BY <2>1, CacheAssumption DEF Listing
  <2>2. CASE dirCache'[n] = dirCache[n]
    BY <1>1, <2>2 DEF ListingInv
  <2> QED
    BY <2>1, <2>2
<1> QED
  BY <1>2, <1>3 DEF ListingInv

\* A step of a request under way changes nothing about the store.
LEMMA StoreKept ==
  ASSUME CacheInv, NEW r \in Requests, UNCHANGED <<store, puts, acked>>,
         pc[r] \notin {"idle", "close"} \/ r # Writer,
         \A q \in Requests : q # r => pc'[q] = pc[q]
  PROVE  StoreInv'
<1>1. StoreInv /\ Writer \in Requests
  BY DEF CacheInv, Requests
<1> QED
  BY <1>1 DEF StoreInv

\* CacheInv: a reader begins.
LEMMA ReaderBeginsKeeps ==
  ASSUME CacheInv, NEW r \in Readers, ReaderBegins(r)
  PROVE  CacheInv'
<1>1. TypeOK /\ StoreInv /\ r \in Requests /\ r # Writer
  BY CacheAssumption DEF CacheInv, Requests
<1>2. PICK n \in Name, for \in {"answer", "open"} :
        /\ for = "open" => n = "b"
        /\ pc[r] = "idle" /\ pc' = [pc EXCEPT ![r] = "lookup"]
        /\ name' = [name EXCEPT ![r] = n] /\ then' = [then EXCEPT ![r] = for]
        /\ floor' = [floor EXCEPT ![r] = Entry(Parent(n), acked)]
        /\ UNCHANGED <<dir, result, store, puts, dirCache, contentCache, late, acked>>
  BY DEF ReaderBegins, Begin, Goto, data, cache
<1>3. Entry(Parent(n), acked) \in Version
  BY <1>1, EntryTypes DEF TypeOK
<1>4. TypeOK'
  BY <1>1, <1>2, <1>3 DEF TypeOK
<1>5. StoreInv'
  BY <1>1, <1>2 DEF StoreInv, TypeOK, Requests
<1>6. ListingInv' /\ ContentInv'
  BY <1>1, <1>2, CachesKept DEF TypeOK
<1>7. RequestOK(r)'
  <2>1. /\ pc'[r] = "lookup" /\ name'[r] = n /\ then'[r] = for
        /\ floor'[r] = Entry(Parent(n), acked) /\ dir'[r] = dir[r]
    BY <1>1, <1>2 DEF TypeOK
  <2>2. dir[r] \notin Requests
    BY <1>1, <1>2, RequestTypes DEF RequestOK, Filling
  <2> QED
    BY <1>2, <1>3, <2>1, <2>2 DEF RequestOK, Filling, Version
<1>8. ASSUME NEW q \in Requests, q # r PROVE RequestOK(q)'
  <2>1. pc[r] \notin Filling
    BY <1>2 DEF Filling
  <2> QED
    BY <1>1, <1>2, <1>8, <2>1, OthersKept DEF TypeOK
<1> QED
  BY <1>4, <1>5, <1>6, <1>7, <1>8 DEF CacheInv, RequestInv

\* CacheInv: a request looks for a listing ...
LEMMA LookupKeeps ==
  ASSUME CacheInv, NEW r \in Requests, Lookup(r)
  PROVE  CacheInv'
<1>1. TypeOK /\ StoreInv /\ ListingInv /\ RequestOK(r) /\ Parent(name[r]) \in Directory /\ r # None
  BY RequestTypes DEF CacheInv
<1>0. PICK cached : cached = dirCache[Parent(name[r])]
  OBVIOUS
<1>2. /\ pc[r] = "lookup"
      /\ \/ cached # None /\ pc' = [pc EXCEPT ![r] = "search"] /\ dir' = [dir EXCEPT ![r] = cached]
         \/ pc' = [pc EXCEPT ![r] = "insert"] /\ dir' = [dir EXCEPT ![r] = r]
      /\ UNCHANGED <<store, puts, dirCache, contentCache, name, then, result, late, floor, acked>>
  BY <1>0 DEF Lookup, Goto, data, cache, history
<1>3. cached \in Listing \cup {None} /\ r \in Listing
  BY <1>0, <1>1 DEF TypeOK, Listing
<1>4. TypeOK'
  BY <1>1, <1>2, <1>3 DEF TypeOK
<1>5. StoreInv'
  BY <1>1, <1>2, StoreKept DEF TypeOK
<1>6. ListingInv' /\ ContentInv'
  BY <1>1, <1>2, CachesKept DEF TypeOK
<1>7. RequestOK(r)'
  <2>1. CASE pc' = [pc EXCEPT ![r] = "insert"] /\ dir' = [dir EXCEPT ![r] = r]
    <3>1. pc'[r] = "insert" /\ dir'[r] = r
      BY <1>1, <2>1 DEF TypeOK
    <3> QED
      BY <1>1, <1>2, <3>1 DEF RequestOK, Filling
  <2>2. CASE cached # None /\ pc' = [pc EXCEPT ![r] = "search"] /\ dir' = [dir EXCEPT ![r] = cached]
    <3>1. pc'[r] = "search" /\ dir'[r] = cached /\ \A q \in Requests : q # r => pc'[q] = pc[q]
      BY <1>1, <2>2 DEF TypeOK
    <3>2. cached \in Version => Fresh(r, cached)'
      <4>1. cached \in Version => Entry(Parent(name[r]), acked) =< cached
        BY <1>0, <1>1 DEF ListingInv
      <4>2. Entry(Parent(name[r]), acked) \in Version /\ floor[r] \in Version
        BY <1>1, EntryTypes, RequestTypes DEF TypeOK
      <4>3. floor[r] =< Entry(Parent(name[r]), acked)
        BY <1>1 DEF RequestOK
      <4> QED
        BY <1>2, <4>1, <4>2, <4>3 DEF Fresh, Version
    <3>3. cached \in Requests => pc'[cached] \in Filling /\ Parent(name[cached]) = Parent(name[r])
      BY <1>0, <1>1, <1>2, <3>1 DEF ListingInv, Filling
    <3> QED
      BY <1>1, <1>2, <2>2, <3>1, <3>2, <3>3 DEF RequestOK, Filling
  <2> QED
    BY <1>2, <2>1, <2>2
<1>8. ASSUME NEW q \in Requests, q # r PROVE RequestOK(q)'
  <2>1. pc[r] \notin Filling
    BY <1>2 DEF Filling
  <2> QED
    BY <1>1, <1>2, <1>8, <2>1, OthersKept DEF TypeOK
<1> QED
  BY <1>4, <1>5, <1>6, <1>7, <1>8 DEF CacheInv, RequestInv

\* ... or puts its own into the cache ...
LEMMA InsertKeeps ==
  ASSUME CacheInv, NEW r \in Requests, Insert(r)
  PROVE  CacheInv'
<1>1. TypeOK /\ StoreInv /\ ListingInv /\ ContentInv /\ RequestOK(r) /\ Parent(name[r]) \in Directory
  BY RequestTypes DEF CacheInv
<1>2. /\ pc[r] = "insert" /\ pc' = [pc EXCEPT ![r] = "readdir"]
      /\ dirCache' = [dirCache EXCEPT ![Parent(name[r])] = r]
      /\ UNCHANGED <<store, puts, contentCache, name, then, dir, result, late, floor, acked>>
  BY DEF Insert, Goto, data, request, history
<1>3. TypeOK'
  BY <1>1, <1>2 DEF TypeOK, Listing
<1>4. StoreInv' /\ ContentInv'
  BY <1>1, <1>2 DEF StoreInv, TypeOK, ContentInv
<1>5. pc'[r] = "readdir" /\ \A q \in Requests : q # r => pc'[q] = pc[q]
  BY <1>1, <1>2 DEF TypeOK
<1>6. ListingInv'
  <2> SUFFICES ASSUME NEW n \in Directory
               PROVE  /\ dirCache'[n] \in Version => Entry(n, acked) =< dirCache'[n]
                      /\ dirCache'[n] \in Requests =>
                           pc'[dirCache'[n]] \in {"readdir", "list"} /\ Parent(name[dirCache'[n]]) = n
    BY <1>2 DEF ListingInv
  <2>1. CASE n = Parent(name[r])
    <3>1. dirCache'[n] = r /\ r \notin Version
      BY <1>1, <1>2, <2>1, RequestTypes DEF TypeOK
    <3> QED
      BY <1>5, <2>1, <3>1
  <2>2. CASE n # Parent(name[r])
    <3>1. dirCache'[n] = dirCache[n]
      BY <1>1, <1>2, <2>2 DEF TypeOK
    <3> QED
      BY <1>1, <1>5, <3>1 DEF ListingInv
  <2> QED
    BY <2>1, <2>2
<1>7. RequestOK(r)'
  BY <1>1, <1>2, <1>5 DEF RequestOK, Filling
<1>8. ASSUME NEW q \in Requests, q # r PROVE RequestOK(q)'
  <2>1. pc'[r] \in Filling
    BY <1>5 DEF Filling
  <2> QED
    BY <1>1, <1>2, <1>5, <1>8, <2>1, OthersKept
<1> QED
  BY <1>3, <1>4, <1>6, <1>7, <1>8 DEF CacheInv, RequestInv

\* ... or asks the store ...
LEMMA ReaddirKeeps ==
  ASSUME CacheInv, NEW r \in Requests, Readdir(r)
  PROVE  CacheInv'
<1>1. TypeOK /\ StoreInv /\ RequestOK(r)
  BY RequestTypes DEF CacheInv
<1>2. /\ pc[r] = "readdir" /\ pc' = [pc EXCEPT ![r] = "list"]
      /\ UNCHANGED <<store, puts, dirCache, contentCache, name, then, dir, result, late, floor, acked>>
  BY DEF Readdir, Goto, data, cache, request, history
<1>3. TypeOK'
  BY <1>1, <1>2 DEF TypeOK
<1>4. StoreInv'
  BY <1>1, <1>2 DEF StoreInv, TypeOK
<1>5. pc'[r] = "list" /\ \A q \in Requests : q # r => pc'[q] = pc[q]
  BY <1>1, <1>2 DEF TypeOK
<1>6. ListingInv' /\ ContentInv'
  BY <1>2, <1>5, CachesKept
<1>7. RequestOK(r)'
  BY <1>1, <1>2, <1>5 DEF RequestOK, Filling
<1>8. ASSUME NEW q \in Requests, q # r PROVE RequestOK(q)'
  <2>1. pc'[r] \in Filling
    BY <1>5 DEF Filling
  <2> QED
    BY <1>2, <1>5, <1>8, <2>1, OthersKept
<1> QED
  BY <1>3, <1>4, <1>6, <1>7, <1>8 DEF CacheInv, RequestInv

\* ... or fills its listing, for all who have it, or could not list.
LEMMA ListObjectsKeeps ==
  ASSUME CacheInv, NEW r \in Requests, ListObjects(r)
  PROVE  CacheInv'
<1>1. /\ TypeOK /\ StoreInv /\ ListingInv /\ ContentInv /\ RequestOK(r)
      /\ Parent(name[r]) \in Directory /\ r # None /\ r \notin Version
  BY RequestTypes DEF CacheInv
<1>2. PICK held \in Version \cup {Unlisted} :
        /\ pc[r] = "list" /\ FillListing(r, held)
        /\ \/ /\ held = Entry(Parent(name[r]), store)
              /\ pc' = [pc EXCEPT ![r] = "search"] /\ UNCHANGED result
           \/ /\ held = Unlisted
              /\ pc' = [pc EXCEPT ![r] = "stated"] /\ result' = [result EXCEPT ![r] = Failed]
        /\ UNCHANGED <<store, puts, contentCache, name, then, late, floor, acked>>
  BY <1>1, EntryTypes DEF ListObjects, Goto, data, history, TypeOK
<1>3. /\ \A q \in Requests : q # r => pc'[q] = pc[q] /\ result'[q] = result[q]
      /\ \A q \in Requests : dir'[q] = IF dir[q] = r THEN held ELSE dir[q]
      /\ \A n \in Directory : dirCache'[n] = IF dirCache[n] = r THEN held ELSE dirCache[n]
      /\ dir[r] = r
  BY <1>1, <1>2 DEF FillListing, TypeOK, RequestOK, Filling
<1>4. \/ held = Entry(Parent(name[r]), store) /\ pc'[r] = "search"
      \/ held = Unlisted /\ pc'[r] = "stated" /\ result'[r] = Failed
  BY <1>1, <1>2 DEF TypeOK
<1>5. held \notin Requests \cup {None}
  BY <1>2, CacheAssumption DEF Listing
<1>6. TypeOK'
  <2>1. dirCache' \in [Directory -> Listing \cup {None}] /\ dir' \in [Requests -> Listing \cup {None}]
    BY <1>1, <1>2 DEF FillListing, TypeOK, Listing
  <2>2. pc' \in [Requests -> {"idle", "lookup", "insert", "readdir", "list", "search", "stated", "cached",
                              "content", "opened", "forget", "remove", "close"}]
    BY <1>1, <1>2 DEF TypeOK
  <2>3. result' \in [Requests -> Version \cup {Unlisted, Failed}]
    BY <1>1, <1>2 DEF TypeOK
  <2> QED
    BY <1>1, <1>2, <2>1, <2>2, <2>3 DEF TypeOK
<1>7. StoreInv' /\ ContentInv'
  BY <1>1, <1>2, <1>3, StoreKept DEF ContentInv
<1>8. acked \in Version /\ store \in Version /\ (acked # 0 => acked =< store)
  BY <1>1 DEF TypeOK, StoreInv
<1>9. held \in Version => Entry(Parent(name[r]), acked) =< held
  BY <1>4, <1>8, EntryGrows, CacheAssumption DEF Version, Unlisted
<1>10. ListingInv'
  <2> SUFFICES ASSUME NEW n \in Directory
               PROVE  /\ dirCache'[n] \in Version => Entry(n, acked) =< dirCache'[n]
                      /\ dirCache'[n] \in Requests =>
                           pc'[dirCache'[n]] \in {"readdir", "list"} /\ Parent(name[dirCache'[n]]) = n
    BY <1>2 DEF ListingInv
  <2>1. CASE dirCache[n] = r
    BY <1>1, <1>3, <1>5, <1>9, <2>1 DEF ListingInv
  <2>2. CASE dirCache[n] # r
    BY <1>1, <1>3, <2>2 DEF ListingInv
  <2> QED
    BY <2>1, <2>2
<1>11. ASSUME NEW q \in Requests PROVE RequestOK(q)'
  <2>1. /\ RequestOK(q) /\ floor[q] \in Version /\ Entry(Parent(name[q]), acked) \in Version
        /\ UNCHANGED <<floor[q], name[q], then[q], late[q], acked>>
    BY <1>2, <1>8, RequestTypes, EntryTypes
  <2>2. CASE dir[q] = r
    <3>1. /\ dir'[q] = held /\ Parent(name[q]) = Parent(name[r])
          /\ pc[q] \in Filling => q = r
      BY <1>3, <2>1, <2>2 DEF RequestOK
    <3>2. q # r => pc[q] = "search" /\ pc'[q] = "search" /\ result'[q] = result[q]
      BY <1>3, <2>1, <2>2, <3>1 DEF RequestOK
    <3>3. held \in Version => Fresh(q, dir[q])'
      <4>1. floor[q] =< Entry(Parent(name[q]), acked)
        BY <2>1 DEF RequestOK
      <4> QED
        BY <1>2, <1>9, <2>1, <3>1, <4>1 DEF Fresh, Version
    <3>4. pc'[q] \in {"search", "stated"} /\ (pc'[q] = "stated" => result'[q] = Failed)
      BY <1>4, <3>2
    <3> QED
      BY <1>2, <1>5, <2>1, <3>1, <3>3, <3>4 DEF RequestOK, Filling
  <2>3. CASE dir[q] # r
    <3>1. q # r /\ dir'[q] = dir[q] /\ pc'[q] = pc[q] /\ result'[q] = result[q]
      BY <1>3, <2>3
    <3>2. Fresh(q, dir[q])' = Fresh(q, dir[q]) /\ Fresh(q, result[q])' = Fresh(q, result[q])
      BY <2>1, <3>1 DEF Fresh
    <3>3. dir[q] \in Requests => pc'[dir[q]] = pc[dir[q]] /\ name'[dir[q]] = name[dir[q]]
      BY <1>2, <1>3, <2>3
    <3> QED
      BY <2>1, <3>1, <3>2, <3>3 DEF RequestOK
  <2> QED
    BY <2>2, <2>3
<1> QED
  BY <1>6, <1>7, <1>10, <1>11 DEF CacheInv, RequestInv

\* CacheInv: a Stat has its result.
LEMMA SearchKeeps ==
  ASSUME CacheInv, NEW r \in Requests, Search(r)
  PROVE  CacheInv'
<1>1. TypeOK /\ StoreInv /\ RequestOK(r) /\ dir[r] \in Listing \cup {None}
  BY RequestTypes DEF CacheInv
<1>2. PICK found \in Version \cup {Unlisted} :
        /\ pc[r] = "search" /\ pc' = [pc EXCEPT ![r] = "stated"]
        /\ found = Unlisted \/ found = dir[r]
        /\ result' = [result EXCEPT ![r] = found] /\ dir' = [dir EXCEPT ![r] = None]
        /\ UNCHANGED <<store, puts, dirCache, contentCache, name, then, late, floor, acked>>
  <2>1. pc[r] = "search" /\ dir[r] # None
    BY <1>1 DEF Search, RequestOK
  <2>2. (IF dir[r] \in Requests THEN Unlisted ELSE dir[r]) \in Version \cup {Unlisted}
    BY <1>1, <2>1 DEF Listing
  <2> QED
    BY <2>1, <2>2 DEF Search, Goto, data, cache, history
<1>3. TypeOK'
  BY <1>1, <1>2 DEF TypeOK
<1>4. StoreInv'
  BY <1>1, <1>2, StoreKept DEF TypeOK
<1>5. ListingInv' /\ ContentInv'
  BY <1>1, <1>2, CachesKept DEF TypeOK
<1>6. RequestOK(r)'
  <2>1. pc'[r] = "stated" /\ result'[r] = found /\ dir'[r] = None /\ None \notin Requests
    BY <1>1, <1>2, CacheAssumption DEF TypeOK, Listing
  <2>2. found # Unlisted => Fresh(r, result[r])'
    BY <1>1, <1>2, <2>1 DEF RequestOK, Fresh
  <2> QED
    BY <1>1, <1>2, <2>1, <2>2 DEF RequestOK, Filling
<1>7. ASSUME NEW q \in Requests, q # r PROVE RequestOK(q)'
  <2>1. pc[r] \notin Filling
    BY <1>2 DEF Filling
  <2> QED
    BY <1>1, <1>2, <1>7, <2>1, OthersKept DEF TypeOK
<1> QED
  BY <1>3, <1>4, <1>5, <1>6, <1>7 DEF CacheInv, RequestInv

\* Steps that end what a request was about.
LEMMA ClearedOK ==
  ASSUME CacheInv, NEW r \in Requests, NEW next \in {"idle", "forget"}, pc[r] \notin Filling,
         pc' = [pc EXCEPT ![r] = next], Clear(r)
  PROVE  RequestInv' /\ (data' = data /\ cache' = cache => TypeOK')
<1>1. TypeOK /\ "b" \in Name \cup {"b"}
  BY DEF CacheInv
<1>2. /\ name' = [name EXCEPT ![r] = "b"] /\ then' = [then EXCEPT ![r] = "answer"]
      /\ dir' = [dir EXCEPT ![r] = None] /\ result' = [result EXCEPT ![r] = 0]
      /\ late' = [late EXCEPT ![r] = FALSE] /\ floor' = [floor EXCEPT ![r] = 0]
      /\ UNCHANGED acked
  BY DEF Clear
<1>3. 0 \in Version
  BY CacheAssumption DEF Version
<1>4. ASSUME data' = data, cache' = cache PROVE TypeOK'
  <2>1. UNCHANGED <<store, puts, dirCache, contentCache>>
    BY <1>4 DEF data, cache
  <2> QED
    BY <1>1, <1>2, <1>3, <2>1 DEF TypeOK
<1>5. RequestOK(r)'
  <2>1. /\ pc'[r] = next /\ name'[r] = "b" /\ then'[r] = "answer" /\ dir'[r] = None
        /\ floor'[r] = 0 /\ None \notin Requests
    BY <1>1, <1>2, CacheAssumption DEF TypeOK, Listing
  <2>2. Entry(Parent("b"), acked) \in Version
    BY <1>1, EntryTypes DEF TypeOK
  <2> QED
    BY <1>2, <2>1, <2>2 DEF RequestOK, Filling, Version
<1>6. ASSUME NEW q \in Requests, q # r PROVE RequestOK(q)'
  BY <1>1, <1>2, <1>6, OthersKept DEF TypeOK
<1> QED
  BY <1>4, <1>5, <1>6 DEF RequestInv

\* CacheInv: a request is answered, or OpenFile goes on.
LEMMA StatedKeeps ==
  ASSUME CacheInv, NEW r \in Requests, Stated(r)
  PROVE  CacheInv'
<1>1. TypeOK /\ StoreInv /\ RequestOK(r) /\ result[r] \in Version \cup {Unlisted, Failed}
  BY RequestTypes DEF CacheInv
<1>2. pc[r] = "stated" /\ pc[r] \notin Filling /\ UNCHANGED <<store, puts, dirCache, contentCache, acked>>
  BY DEF Stated, data, cache, Answer, Clear, Filling, history
<1>3. CASE Answer(r)
  <2>1. pc' = [pc EXCEPT ![r] = "idle"] /\ Clear(r)
    BY <1>3 DEF Answer, Goto
  <2>2. RequestInv' /\ TypeOK'
    BY <1>2, <2>1, ClearedOK DEF data, cache
  <2>3. \A q \in Requests : q # r => pc'[q] = pc[q] /\ name'[q] = name[q]
    BY <1>1, <2>1 DEF Clear, TypeOK
  <2>4. StoreInv' /\ ListingInv' /\ ContentInv'
    BY <1>1, <1>2, <2>3, StoreKept, CachesKept
  <2> QED
    BY <2>2, <2>4 DEF CacheInv
<1>4. CASE ~Answer(r)
  <2>1. PICK next \in {"cached", "content"}, res \in Version :
          /\ next = "cached" => then[r] = "open"
          /\ next = "content" => then[r] = "content" /\ res = result[r] /\ res # 0
          /\ pc' = [pc EXCEPT ![r] = next] /\ result' = [result EXCEPT ![r] = res]
          /\ UNCHANGED <<name, then, dir, late, floor>>
    <3>1. ~(then[r] = "answer" \/ result[r] =< 0)
      BY <1>4 DEF Stated
    <3>2. /\ pc' = [pc EXCEPT ![r] = IF then[r] = "open" THEN "cached" ELSE "content"]
          /\ result' = [result EXCEPT ![r] = IF then[r] = "open" THEN 0 ELSE @]
          /\ UNCHANGED <<name, then, dir, late, floor>>
      BY <3>1 DEF Stated, Goto, history
    <3>3. result[r] \in Version \ {0} /\ 0 \in Version
      BY <1>1, <3>1, CacheAssumption DEF Version, Unlisted, Failed
    <3>4. then[r] \in {"open", "content"}
      BY <1>1, <3>1 DEF TypeOK
    <3>5. CASE then[r] = "open"
      BY <3>2, <3>3, <3>5
    <3>6. CASE then[r] = "content"
      BY <3>2, <3>3, <3>6
    <3> QED
      BY <3>4, <3>5, <3>6
  <2>2. TypeOK'
    BY <1>1, <1>2, <2>1 DEF TypeOK
  <2>3. \A q \in Requests : q # r => pc'[q] = pc[q] /\ result'[q] = result[q]
    BY <1>1, <2>1 DEF TypeOK
  <2>4. StoreInv' /\ ListingInv' /\ ContentInv'
    BY <1>1, <1>2, <2>1, <2>3, StoreKept, CachesKept
  <2>5. RequestOK(r)'
    <3>1. pc'[r] = next /\ result'[r] = res /\ UNCHANGED <<dir[r], name[r], then[r], floor[r], late[r]>>
      BY <1>1, <2>1 DEF TypeOK
    <3>2. Fresh(r, result[r])' = Fresh(r, res)
      BY <1>2, <3>1 DEF Fresh
    <3>3. next = "content" => res \in {Failed, Unlisted} \/ Fresh(r, res)
      BY <1>1, <1>2, <2>1 DEF RequestOK
    <3> QED
      BY <1>1, <1>2, <2>1, <3>1, <3>2, <3>3 DEF RequestOK, Filling
  <2>6. ASSUME NEW q \in Requests, q # r PROVE RequestOK(q)'
    BY <1>2, <2>1, <2>3, <2>6, OthersKept
  <2> QED
    BY <2>2, <2>4, <2>5, <2>6 DEF CacheInv, RequestInv
<1> QED
  BY <1>3, <1>4

\* CacheInv: OpenFile finds content, or goes on to a second Stat.
LEMMA LookupContentKeeps ==
  ASSUME CacheInv, NEW r \in Requests, LookupContent(r)
  PROVE  CacheInv'
<1>1. TypeOK /\ StoreInv /\ RequestOK(r) /\ floor[r] \in Version
  BY RequestTypes DEF CacheInv
<1>2. /\ pc[r] = "cached" /\ UNCHANGED <<store, puts, name, dir, floor, acked>>
      /\ \A n \in Directory : dirCache'[n] \in {dirCache[n], None}
      /\ dirCache' \in [Directory -> Listing \cup {None}]
      /\ contentCache' \in {contentCache, NoContent}
  BY <1>1 DEF LookupContent, data, TypeOK
<1>3. NoContent \in [version : Version, late : BOOLEAN]
  BY CacheAssumption DEF NoContent, Version
<1>4. contentCache' \in [version : Version, late : BOOLEAN]
  BY <1>1, <1>2, <1>3 DEF TypeOK
<1>5. contentCache'.version \in Version /\ contentCache'.late \in BOOLEAN
  BY <1>4
<1>6. \/ /\ pc' = [pc EXCEPT ![r] = "opened"] /\ contentCache'.version # 0
         /\ result' = [result EXCEPT ![r] = contentCache'.version]
         /\ late' = [late EXCEPT ![r] = contentCache'.late]
         /\ UNCHANGED then
      \/ /\ pc' = [pc EXCEPT ![r] = "lookup"]
         /\ then' = [then EXCEPT ![r] = "content"]
         /\ UNCHANGED <<result, late>>
  BY DEF LookupContent, Goto
<1>7. TypeOK'
  BY <1>1, <1>2, <1>4, <1>5, <1>6 DEF TypeOK
<1>8. \A q \in Requests : q # r => /\ pc'[q] = pc[q] /\ result'[q] = result[q]
                                   /\ then'[q] = then[q] /\ late'[q] = late[q]
  BY <1>1, <1>6 DEF TypeOK
<1>9. StoreInv'
  BY <1>1, <1>2, <1>8, StoreKept
<1>10. ListingInv' /\ ContentInv'
  BY <1>1, <1>2, <1>8, CachesKept
<1>11. name[r] = "b" /\ dir[r] \notin Requests
  BY <1>1, <1>2 DEF RequestOK, Filling
<1>12. RequestOK(r)'
  <2>1. CASE pc' = [pc EXCEPT ![r] = "lookup"] /\ then' = [then EXCEPT ![r] = "content"]
    <3>1. pc'[r] = "lookup" /\ then'[r] = "content"
      BY <1>1, <2>1 DEF TypeOK
    <3> QED
      BY <1>1, <1>2, <1>11, <3>1 DEF RequestOK, Filling
  <2>2. CASE /\ pc' = [pc EXCEPT ![r] = "opened"] /\ contentCache'.version # 0
             /\ result' = [result EXCEPT ![r] = contentCache'.version]
             /\ late' = [late EXCEPT ![r] = contentCache'.late]
             /\ UNCHANGED then
    <3>1. pc'[r] = "opened" /\ result'[r] = contentCache'.version /\ late'[r] = contentCache'.late
      BY <1>1, <2>2 DEF TypeOK
    <3>2. floor[r] =< acked /\ acked \in Version
      BY <1>1, <1>11 DEF RequestOK, Entry, Parent, TypeOK
    <3>3. late'[r] \/ acked =< result'[r]
      BY <1>2, <1>10, <2>2, <3>1 DEF ContentInv
    <3>4. late'[r] \/ floor[r] =< result'[r]
      BY <1>1, <1>5, <3>1, <3>2, <3>3 DEF Version
    <3> QED
      BY <1>1, <1>2, <1>11, <2>2, <3>1, <3>4 DEF RequestOK, Filling
  <2> QED
    BY <1>6, <2>1, <2>2
<1>13. ASSUME NEW q \in Requests, q # r PROVE RequestOK(q)'
  <2>1. pc[r] \notin Filling
    BY <1>2 DEF Filling
  <2> QED
    BY <1>2, <1>8, <1>13, <2>1, OthersKept
<1> QED
  BY <1>7, <1>9, <1>10, <1>12, <1>13 DEF CacheInv, RequestInv

\* CacheInv: OpenFile caches the content.
LEMMA InsertContentKeeps ==
  ASSUME CacheInv, NEW r \in Requests, InsertContent(r)
  PROVE  CacheInv'
<1>1. TypeOK /\ StoreInv /\ ListingInv /\ RequestOK(r) /\ floor[r] \in Version /\ late[r] \in BOOLEAN
  BY RequestTypes DEF CacheInv
<1>2. /\ pc[r] = "content" /\ pc' = [pc EXCEPT ![r] = "opened"]
      /\ contentCache' = [version |-> result[r], late |-> late[r]]
      /\ UNCHANGED <<store, puts, dirCache, name, then, dir, result, late, floor, acked>>
  BY DEF InsertContent, Goto, data, request, history
<1>3. /\ then[r] = "content" /\ name[r] = "b" /\ result[r] \in Version \ {0}
      /\ result[r] \in {Failed, Unlisted} \/ Fresh(r, result[r])
      /\ dir[r] \notin Requests
  BY <1>1, <1>2 DEF RequestOK, Filling
<1>4. TypeOK'
  BY <1>1, <1>2, <1>3 DEF TypeOK
<1>5. pc'[r] = "opened" /\ \A q \in Requests : q # r => pc'[q] = pc[q]
  BY <1>1, <1>2 DEF TypeOK
<1>6. StoreInv'
  BY <1>1, <1>2, <1>5, StoreKept
<1>7. ListingInv'
  BY <1>1, <1>2, <1>5 DEF ListingInv
<1>8. Fresh(r, result[r])
  BY <1>3, CacheAssumption DEF Version, Unlisted, Failed
<1>9. ContentInv'
  BY <1>2, <1>3, <1>8 DEF ContentInv, Fresh, Entry, Parent
<1>10. RequestOK(r)'
  BY <1>1, <1>2, <1>3, <1>5, <1>8 DEF RequestOK, Fresh, Filling
<1>11. ASSUME NEW q \in Requests, q # r PROVE RequestOK(q)'
  <2>1. pc[r] \notin Filling
    BY <1>2 DEF Filling
  <2> QED
    BY <1>2, <1>5, <1>11, <2>1, OthersKept
<1> QED
  BY <1>4, <1>6, <1>7, <1>9, <1>10, <1>11 DEF CacheInv, RequestInv

\* CacheInv: a file is open.
LEMMA OpenedKeeps ==
  ASSUME CacheInv, NEW r \in Requests, Opened(r)
  PROVE  CacheInv'
<1>1. TypeOK /\ StoreInv
  BY DEF CacheInv
<1>2. PICK next \in {"idle", "forget"} :
        /\ pc[r] = "opened" /\ pc' = [pc EXCEPT ![r] = next] /\ Clear(r)
        /\ UNCHANGED <<store, puts, dirCache, contentCache, acked>>
  BY DEF Opened, Goto, Clear, data, cache
<1>3. RequestInv' /\ TypeOK'
  BY <1>2, ClearedOK DEF Filling, data, cache
<1>4. \A q \in Requests : q # r => pc'[q] = pc[q] /\ name'[q] = name[q]
  BY <1>1, <1>2 DEF Clear, TypeOK
<1>5. StoreInv' /\ ListingInv' /\ ContentInv'
  BY <1>2, <1>4, StoreKept, CachesKept
<1> QED
  BY <1>3, <1>5 DEF CacheInv

\* What is forgotten leaves nothing old in the caches; a request on its way to cache it is late.
LEMMA ForgetKeeps ==
  ASSUME CacheInv, ForgetCache, NEW next \in {"idle", "remove"},
         pc[Writer] \in {"close", "forget"}, pc' = [pc EXCEPT ![Writer] = next],
         UNCHANGED <<data, request, floor>>, acked' \in {acked, store}
  PROVE  TypeOK' /\ ListingInv' /\ ContentInv' /\ RequestInv'
<1>1. TypeOK /\ StoreInv /\ Writer \in Requests
  BY DEF CacheInv, Requests
<1>2. /\ \A n \in Directory : dirCache'[n] = None
      /\ dirCache' = [n \in Directory |-> None]
      /\ contentCache' = NoContent
      /\ late' = [q \in Requests |-> late[q] \/ then[q] = "content"]
      /\ UNCHANGED <<store, puts, name, then, dir, result, floor>>
  BY DEF ForgetCache, ForgottenDirs, Directory, data, request
<1>3. TypeOK'
  <2>1. NoContent \in [version : Version, late : BOOLEAN]
    BY CacheAssumption DEF NoContent, Version
  <2>2. late' \in [Requests -> BOOLEAN] /\ dirCache' \in [Directory -> Listing \cup {None}]
    BY <1>2
  <2>3. pc' \in [Requests -> {"idle", "lookup", "insert", "readdir", "list", "search", "stated", "cached",
                              "content", "opened", "forget", "remove", "close"}]
    BY <1>1 DEF TypeOK
  <2> QED
    BY <1>1, <1>2, <2>1, <2>2, <2>3 DEF TypeOK
<1>4. ListingInv' /\ ContentInv'
  BY <1>2, CacheAssumption DEF ListingInv, ContentInv, NoContent, Listing
<1>5. ASSUME NEW q \in Requests PROVE RequestOK(q)'
  <2>1. RequestOK(q) /\ floor[q] \in Version
    BY RequestTypes
  <2>2. Entry(Parent(name[q]), acked) =< Entry(Parent(name[q]), acked')
    BY <1>1, EntryGrows DEF TypeOK, StoreInv, Version
  <2>3. /\ Entry(Parent(name[q]), acked) \in Version
        /\ Entry(Parent(name[q]), acked') \in Version
    BY <1>1, EntryTypes DEF TypeOK
  <2>4. floor[q] =< Entry(Parent(name[q]), acked')
    BY <2>1, <2>2, <2>3 DEF RequestOK, Version
  <2>5. /\ then'[q] = "content" => late'[q]
        /\ late[q] => late'[q]
    BY <1>2
  <2>6. /\ Fresh(q, dir[q]) => Fresh(q, dir[q])'
        /\ Fresh(q, result[q]) => Fresh(q, result[q])'
    BY <1>2, <2>5 DEF Fresh
  <2>7. /\ pc'[q] = IF q = Writer THEN next ELSE pc[q]
        /\ pc[q] = pc'[q] \/ (pc[q] \in {"close", "forget"} /\ pc'[q] \in {"idle", "remove"})
    BY <1>1 DEF TypeOK
  <2>8. dir[q] \in Requests => pc'[dir[q]] \in Filling /\ Parent(name[dir[q]]) = Parent(name[q])
    <3>1. dir[q] \in Requests => pc[dir[q]] \in Filling /\ Parent(name[dir[q]]) = Parent(name[q])
      BY <2>1 DEF RequestOK
    <3> QED
      BY <1>1, <3>1 DEF TypeOK, Filling
  <2> QED
    BY <1>2, <2>1, <2>4, <2>5, <2>6, <2>7, <2>8 DEF RequestOK, Filling
<1> QED
  BY <1>3, <1>4, <1>5 DEF RequestInv

\* CacheInv: the writer's steps.
LEMMA UploadDoneKeeps ==
  ASSUME CacheInv, UploadDone
  PROVE  CacheInv'
<1>1. TypeOK /\ StoreInv /\ Writer \in Requests /\ RequestOK(Writer)
  BY RequestTypes DEF CacheInv, Requests
<1>2. /\ pc[Writer] = "idle" /\ pc' = [pc EXCEPT ![Writer] = "close"]
      /\ UNCHANGED <<dirCache, contentCache, name, then, dir, result, late, floor, acked>>
      /\ \/ puts < MaxVersion /\ puts' = puts + 1 /\ store' = puts + 1
         \/ UNCHANGED <<store, puts>>
  BY DEF UploadDone, Goto, data, cache, request, history
<1>3. TypeOK' /\ StoreInv'
  BY <1>1, <1>2, CacheAssumption DEF TypeOK, StoreInv, Version
<1>4. pc'[Writer] = "close" /\ \A q \in Requests : q # Writer => pc'[q] = pc[q]
  BY <1>1, <1>2 DEF TypeOK
<1>5. ListingInv' /\ ContentInv'
  BY <1>2, <1>4, CachesKept
<1>6. RequestOK(Writer)'
  BY <1>1, <1>2, <1>4 DEF RequestOK, Filling
<1>7. ASSUME NEW q \in Requests, q # Writer PROVE RequestOK(q)'
  <2>1. pc[Writer] \notin Filling
    BY <1>2 DEF Filling
  <2> QED
    BY <1>1, <1>2, <1>4, <1>7, <2>1, OthersKept
<1> QED
  BY <1>3, <1>5, <1>6, <1>7 DEF CacheInv, RequestInv

\* The end of a PUT, with which its version becomes the one that readers must see.
LEMMA CloseUploadKeeps ==
  ASSUME CacheInv, CloseUpload
  PROVE  CacheInv'
<1>1. TypeOK /\ StoreInv /\ Writer \in Requests
  BY DEF CacheInv, Requests
<1>2. /\ pc[Writer] = "close" /\ pc' = [pc EXCEPT ![Writer] = "idle"] /\ ForgetCache
      /\ acked' = store /\ UNCHANGED <<data, request, floor>>
  BY DEF CloseUpload, Goto
<1>3. TypeOK' /\ ListingInv' /\ ContentInv' /\ RequestInv'
  BY <1>2, ForgetKeeps
<1>4. StoreInv'
  BY <1>1, <1>2 DEF StoreInv, TypeOK, data, Version
<1> QED
  BY <1>3, <1>4 DEF CacheInv

\* A DELETE begins: readers are promised nothing from here on.
LEMMA DeleteBeginsKeeps ==
  ASSUME CacheInv, DeleteBegins
  PROVE  CacheInv'
<1>1. TypeOK /\ StoreInv /\ ListingInv /\ Writer \in Requests
  BY DEF CacheInv, Requests
<1>2. /\ pc[Writer] = "idle" /\ pc' = [pc EXCEPT ![Writer] = "lookup"]
      /\ name' = [name EXCEPT ![Writer] = "b"] /\ then' = [then EXCEPT ![Writer] = "open"]
      /\ acked' = 0 /\ floor' = [q \in Requests |-> 0]
      /\ UNCHANGED <<store, puts, dirCache, contentCache, dir, result, late>>
  BY DEF DeleteBegins, Begin, Goto, data, cache
<1>3. 0 \in Version /\ \A v \in Version : 0 =< v
  BY CacheAssumption DEF Version
<1>4. TypeOK'
  BY <1>1, <1>2, <1>3 DEF TypeOK
<1>5. StoreInv'
  BY <1>1, <1>2 DEF StoreInv
<1>6. \A n : Entry(n, 0) = 0
  BY DEF Entry
<1>7. /\ pc'[Writer] = "lookup" /\ name'[Writer] = "b" /\ then'[Writer] = "open"
      /\ \A q \in Requests : q # Writer => pc'[q] = pc[q] /\ name'[q] = name[q] /\ then'[q] = then[q]
  BY <1>1, <1>2 DEF TypeOK
<1>8. ListingInv'
  BY <1>1, <1>2, <1>3, <1>6, <1>7 DEF ListingInv
<1>9. ContentInv'
  BY <1>1, <1>2, <1>3 DEF ContentInv, TypeOK
<1>10. ASSUME NEW q \in Requests PROVE RequestOK(q)'
  <2>1. RequestOK(q) /\ floor[q] \in Version /\ dir[q] \in Listing \cup {None}
        /\ result[q] \in Version \cup {Unlisted, Failed}
    BY RequestTypes
  <2>2. floor'[q] = 0
    BY <1>2
  <2>3. /\ dir[q] \in Version => Fresh(q, dir[q])'
        /\ result[q] \in Version => Fresh(q, result[q])'
    BY <1>2, <1>3, <1>6, <2>2 DEF Fresh
  <2>4. CASE q = Writer
    <3>1. dir[q] \notin Requests
      BY <1>2, <2>1, <2>4 DEF RequestOK, Filling
    <3> QED
      BY <1>2, <1>3, <1>6, <1>7, <2>2, <2>4, <3>1 DEF RequestOK, Filling
  <2>5. CASE q # Writer
    <3>1. pc'[q] = pc[q] /\ name'[q] = name[q] /\ then'[q] = then[q] /\ UNCHANGED <<dir, result, late>>
      BY <1>2, <1>7, <2>5
    <3>2. pc[q] = "opened" => late[q] \/ 0 =< result[q]
      <4>1. pc[q] = "opened" => late[q] \/ floor[q] =< result[q]
        BY <2>1 DEF RequestOK
      <4>2. result[q] \in Int /\ floor[q] \in Int /\ 0 =< floor[q]
        BY <1>3, <2>1, CacheAssumption DEF Version, Unlisted, Failed
      <4> QED
        BY <4>1, <4>2
    <3>3. dir[q] \in Requests =>
            pc'[dir[q]] \in Filling /\ Parent(name'[dir[q]]) = Parent(name[q])
      <4>1. dir[q] \in Requests => pc[dir[q]] \in Filling /\ Parent(name[dir[q]]) = Parent(name[q])
        BY <2>1 DEF RequestOK
      <4> QED
        BY <1>2, <1>7, <4>1 DEF Filling
    <3> QED
      BY <1>2, <1>6, <2>1, <2>2, <2>3, <3>1, <3>2, <3>3 DEF RequestOK
  <2> QED
    BY <2>4, <2>5
<1> QED
  BY <1>4, <1>5, <1>8, <1>9, <1>10 DEF CacheInv, RequestInv

\* A DELETE forgets ...
LEMMA DeleteForgetsKeeps ==
  ASSUME CacheInv, DeleteForgets
  PROVE  CacheInv'
<1>1. TypeOK /\ StoreInv /\ Writer \in Requests
  BY DEF CacheInv, Requests
<1>2. /\ pc[Writer] = "forget" /\ pc' = [pc EXCEPT ![Writer] = "remove"] /\ ForgetCache
      /\ UNCHANGED <<data, request, floor, acked>>
  BY DEF DeleteForgets, Goto
<1>3. TypeOK' /\ ListingInv' /\ ContentInv' /\ RequestInv'
  BY <1>2, ForgetKeeps
<1>4. StoreInv'
  BY <1>1, <1>2 DEF StoreInv, TypeOK, data
<1> QED
  BY <1>3, <1>4 DEF CacheInv

\* ... and removes the object, which nobody was promised any more.
LEMMA DeleteRemovesKeeps ==
  ASSUME CacheInv, DeleteRemoves
  PROVE  CacheInv'
<1>1. TypeOK /\ StoreInv /\ Writer \in Requests
  BY DEF CacheInv, Requests
<1>2. /\ pc[Writer] = "remove" /\ pc' = [pc EXCEPT ![Writer] = "idle"] /\ Clear(Writer)
      /\ store' \in {store, 0} /\ UNCHANGED <<puts, dirCache, contentCache, acked>>
  BY DEF DeleteRemoves, Answer, Goto, Clear, cache
<1>3. RequestInv'
  BY <1>1, <1>2, ClearedOK DEF Filling
<1>4. TypeOK'
  <2>1. /\ name' = [name EXCEPT ![Writer] = "b"] /\ then' = [then EXCEPT ![Writer] = "answer"]
        /\ dir' = [dir EXCEPT ![Writer] = None] /\ result' = [result EXCEPT ![Writer] = 0]
        /\ late' = [late EXCEPT ![Writer] = FALSE] /\ floor' = [floor EXCEPT ![Writer] = 0]
    BY <1>2 DEF Clear
  <2>2. 0 \in Version
    BY CacheAssumption DEF Version
  <2> QED
    BY <1>1, <1>2, <2>1, <2>2 DEF TypeOK
<1>5. \A q \in Requests : q # Writer => pc'[q] = pc[q] /\ name'[q] = name[q]
  BY <1>1, <1>2 DEF Clear, TypeOK
<1>6. StoreInv'
  <2>1. acked = 0
    BY <1>1, <1>2 DEF StoreInv
  <2> QED
    BY <1>1, <1>2, <2>1 DEF StoreInv, TypeOK, Version
<1>7. ListingInv' /\ ContentInv'
  BY <1>2, <1>5, CachesKept
<1> QED
  BY <1>3, <1>4, <1>6, <1>7 DEF CacheInv

\* CacheInv: the beginning.
LEMMA CacheStarts == Init => CacheInv
<1> SUFFICES ASSUME Init PROVE CacheInv
  OBVIOUS
<1>1. 0 \in Version /\ \A n : Entry(n, 0) = 0
  BY CacheAssumption DEF Version, Entry
<1>2. NoContent \in [version : Version, late : BOOLEAN]
  BY <1>1 DEF NoContent
<1>3. TypeOK
  BY <1>1, <1>2 DEF Init, TypeOK
<1>4. Writer \in Requests /\ None \notin Listing
  BY CacheAssumption DEF Requests
<1>5. StoreInv /\ ContentInv
  BY <1>4 DEF Init, StoreInv, ContentInv, NoContent
<1>6. ListingInv
  BY <1>4 DEF Init, ListingInv, Listing
<1>7. RequestInv
  BY <1>1, <1>4 DEF Init, RequestInv, RequestOK, Listing, Filling
<1> QED
  BY <1>3, <1>5, <1>6, <1>7 DEF CacheInv

\* CacheInv: every step.
LEMMA CacheStep == CacheInv /\ [Next]_vars => CacheInv'
<1> SUFFICES ASSUME CacheInv, [Next]_vars PROVE CacheInv'
  OBVIOUS
<1>1. ASSUME NEW r \in Readers, ReaderBegins(r) PROVE CacheInv'
  BY <1>1, ReaderBeginsKeeps
<1>2. ASSUME NEW r \in Requests, StatStep(r) PROVE CacheInv'
  BY <1>2, LookupKeeps, InsertKeeps, ReaddirKeeps, ListObjectsKeeps, SearchKeeps, StatedKeeps DEF StatStep
<1>3. ASSUME NEW r \in Requests, OpenStep(r) PROVE CacheInv'
  BY <1>3, LookupContentKeeps, InsertContentKeeps, OpenedKeeps DEF OpenStep
<1>4. CASE WriterStep
  BY <1>4, UploadDoneKeeps, CloseUploadKeeps, DeleteBeginsKeeps, DeleteForgetsKeeps, DeleteRemovesKeeps
     DEF WriterStep
<1>5. CASE UNCHANGED vars
  <2>1. UNCHANGED <<store, puts, dirCache, contentCache, pc, name, then, dir, result, late, floor, acked>>
    BY <1>5 DEF vars
  <2>2. TypeOK' /\ StoreInv' /\ ListingInv' /\ ContentInv'
    BY <2>1 DEF CacheInv, TypeOK, StoreInv, ListingInv, ContentInv
  <2>3. RequestInv'
    BY <2>1 DEF CacheInv, RequestInv, RequestOK, Fresh
  <2> QED
    BY <2>2, <2>3 DEF CacheInv
<1> QED
  BY <1>1, <1>2, <1>3, <1>4, <1>5 DEF Next

\* What is in the caches, and on its way into them, is as new as it has to be, however many
\* requests list, fill and forget at the same time.
THEOREM CachesAreFresh == Spec => []CacheInv
  BY CacheStarts, CacheStep, PTL DEF Spec

\* The proxy's caches and requests are what they are declared to be.
THEOREM CacheTypeCorrect == Spec => []TypeOK
<1>1. CacheInv => TypeOK
  BY DEF CacheInv
<1> QED
  BY <1>1, CachesAreFresh, PTL

\* A Stat that begins when a PUT was answered finds its version or a later one, for any number of
\* readers: neither a listing that somebody else fills nor one cached before can be older.
THEOREM StatsAreFresh == Spec => []StatFresh
<1>1. CacheInv => StatFresh
  <2> SUFFICES ASSUME CacheInv, NEW r \in Readers, pc[r] = "stated"
               PROVE  result[r] \in {Failed, Unlisted} \/ result[r] >= floor[r]
    BY DEF StatFresh
  <2>1. RequestOK(r) /\ floor[r] \in Version /\ result[r] \in Version \cup {Unlisted, Failed}
    BY RequestTypes DEF Requests
  <2>2. result[r] \in {Failed, Unlisted} \/ floor[r] =< result[r]
    BY <2>1 DEF RequestOK, Fresh
  <2> QED
    BY <2>1, <2>2, CacheAssumption DEF Version
<1> QED
  BY <1>1, CachesAreFresh, PTL

\* An OpenFile reads content as new as that, unless it is content whose caching a PUT or DELETE
\* overtook.
THEOREM OpensAreFresh == Spec => []OpenFresh
<1>1. CacheInv => OpenFresh
  <2> SUFFICES ASSUME CacheInv, NEW r \in Readers, pc[r] = "opened"
               PROVE  late[r] \/ result[r] >= floor[r]
    BY DEF OpenFresh
  <2>1. RequestOK(r) /\ floor[r] \in Version /\ result[r] \in Version \cup {Unlisted, Failed}
    BY RequestTypes DEF Requests
  <2>2. late[r] \/ floor[r] =< result[r]
    BY <2>1 DEF RequestOK
  <2> QED
    BY <2>1, <2>2, CacheAssumption DEF Version, Unlisted, Failed
<1> QED
  BY <1>1, CachesAreFresh, PTL

-------------------------------------------------------------------------------

-------------------------------------------------------------------------------
\* The chunks of a content that are there are all of what the store has, or would have.
Whole(cs) == \A i \in Chunk : cs[i] \in {NoChunk, Smaller(ChunkSize, size - i * ChunkSize)}

\* The counter lacks no more of what is cached than failed requests have left.
Counted == Cardinality(Cached) =< filledChunks + uncounted

ReadsInv == ContentTypeOK /\ (cuts = 0 => Whole(chunks)) /\ Counted

\* The last read: what DataUnlessCut, CacheBounded and JustReadStays say of it.
LastReadOK ==
  /\ DataUnlessCut /\ JustReadStays
  /\ last.outcome = "data" => Cardinality(Cached) < CleanLimit + uncounted

\* Quotient and remainder.
LEMMA DivMod ==
  ASSUME NEW a \in Nat, NEW c \in Nat \ {0}
  PROVE  a \div c \in Nat /\ a % c \in 0 .. c - 1 /\ a = ((a \div c) * c) + (a % c)
  OBVIOUS

\* Multiples of c, one after the other.
LEMMA Times ==
  ASSUME NEW i \in Int, NEW j \in Int, NEW c \in Nat \ {0}
  PROVE  /\ i * c \in Int /\ (i + 1) * c = (i * c) + c /\ (i - j) * c = (i * c) - (j * c)
         /\ i =< j => i * c =< j * c
         /\ i < j => (i * c) + c =< j * c
  OBVIOUS

\* Which multiple of c a number is below.
LEMMA DivBy ==
  ASSUME NEW a \in Nat, NEW q \in Int, NEW c \in Nat \ {0}
  PROVE  a \div c =< q <=> a < (q + 1) * c
<1>1. a \div c \in Nat /\ a % c \in 0 .. c - 1 /\ a = ((a \div c) * c) + (a % c)
  BY DivMod
<1>2. q * c \in Int /\ (a \div c) * c \in Int /\ (q + 1) * c = (q * c) + c
  BY <1>1, Times
<1>3. CASE a \div c =< q
  <2>1. (a \div c) * c =< q * c
    BY <1>1, <1>3, Times
  <2> QED
    BY <1>1, <1>2, <1>3, <2>1
<1>4. CASE q < a \div c
  <2>1. (q * c) + c =< (a \div c) * c
    BY <1>1, <1>4, Times
  <2> QED
    BY <1>1, <1>2, <1>4, <2>1
<1> QED
  BY <1>1, <1>3, <1>4

\* A multiple of c leaves no remainder.
LEMMA ModOf ==
  ASSUME NEW q \in Nat, NEW c \in Nat \ {0}
  PROVE  (q * c) % c = 0
<1>1. PICK a \in Nat : a = q * c
  OBVIOUS
<1>2. a \div c \in Nat /\ a % c \in 0 .. c - 1 /\ a = ((a \div c) * c) + (a % c)
  BY DivMod
<1>3. CASE a \div c < q
  <2>1. ((a \div c) * c) + c =< q * c /\ (a \div c) * c \in Int
    BY <1>2, <1>3, Times
  <2> QED
    BY <1>1, <1>2, <2>1
<1>4. CASE q < a \div c
  <2>1. (q * c) + c =< (a \div c) * c /\ (a \div c) * c \in Int
    BY <1>2, <1>4, Times
  <2> QED
    BY <1>1, <1>2, <2>1
<1>5. CASE q = a \div c
  BY <1>1, <1>2, <1>5
<1> QED
  BY <1>2, <1>3, <1>4, <1>5

\* A chunk is one that begins before the object ends.
LEMMA ChunkFacts ==
  ASSUME size \in Sizes
  PROVE  /\ size \in Nat \ {0} /\ ChunkSize \in Nat \ {0}
         /\ Count \in Nat \ {0} /\ IsFiniteSet(Chunk) /\ Chunk = 0 .. Count - 1
         /\ \A i \in Int : Count =< i <=> size =< i * ChunkSize
<1>1. size \in Nat \ {0} /\ ChunkSize \in Nat \ {0}
  BY ContentAssumption
<1>2. Count \in Nat
  <2>1. size + ChunkSize - 1 \in Nat
    BY <1>1
  <2> QED
    BY <1>1, <2>1, DivMod DEF Count
<1>3. ASSUME NEW i \in Int PROVE Count =< i <=> size =< i * ChunkSize
  <2>1. Count =< i <=> size + ChunkSize - 1 < (i + 1) * ChunkSize
    BY <1>1, DivBy DEF Count
  <2>2. (i + 1) * ChunkSize = (i * ChunkSize) + ChunkSize /\ i * ChunkSize \in Int
    BY <1>1, Times
  <2> QED
    BY <1>1, <2>1, <2>2
<1>4. Count # 0
  <2>1. Count =< 0 <=> size =< 0 * ChunkSize
    BY <1>3
  <2>2. 0 * ChunkSize = 0
    BY <1>1
  <2> QED
    BY <1>1, <2>1, <2>2
<1>5. IsFiniteSet(Chunk)
  BY <1>2, FS_Interval DEF Chunk
<1> QED
  BY <1>1, <1>2, <1>3, <1>4, <1>5 DEF Chunk

\* A piece of the object is in chunks of the object, and ensureChunks looks past them only when the
\* piece ends with the object, at the end of a chunk.
LEMMA PieceFacts ==
  ASSUME size \in Sizes, NEW offset \in Nat, NEW count \in Nat \ {0}, offset + count =< size
  PROVE  /\ Needs(offset, count) \subseteq Chunk
         /\ Needs(offset, count) \subseteq Wanted(offset, count)
         /\ LooksPastEnd(offset, count) => offset + count = size /\ size % ChunkSize = 0
         /\ ~LooksPastEnd(offset, count) => Wanted(offset, count) \subseteq Chunk
<1>1. /\ size \in Nat \ {0} /\ ChunkSize \in Nat \ {0}
      /\ Count \in Nat \ {0} /\ Chunk = 0 .. Count - 1
      /\ \A i \in Int : Count =< i <=> size =< i * ChunkSize
  BY ChunkFacts
<1>2. /\ offset \div ChunkSize \in Nat
      /\ (offset + count - 1) \div ChunkSize \in Nat /\ (offset + count) \div ChunkSize \in Nat
  <2>1. offset + count - 1 \in Nat /\ offset + count \in Nat
    OBVIOUS
  <2> QED
    BY <1>1, <2>1, DivMod
<1>3. offset \div ChunkSize =< Count - 1 /\ (offset + count - 1) \div ChunkSize =< Count - 1
  <2>1. size =< Count * ChunkSize /\ Count * ChunkSize \in Int
    BY <1>1, Times
  <2>2. offset < (Count - 1 + 1) * ChunkSize /\ offset + count - 1 < (Count - 1 + 1) * ChunkSize
    BY <1>1, <2>1
  <2>3. offset + count - 1 \in Nat
    OBVIOUS
  <2> QED
    BY <1>1, <2>2, <2>3, DivBy
<1>4. (offset + count - 1) \div ChunkSize =< (offset + count) \div ChunkSize
  <2>1. offset + count < (((offset + count) \div ChunkSize) + 1) * ChunkSize
    BY <1>1, <1>2, DivBy
  <2>2. (((offset + count) \div ChunkSize) + 1) * ChunkSize \in Int
    BY <1>1, <1>2, Times
  <2>3. offset + count - 1 < (((offset + count) \div ChunkSize) + 1) * ChunkSize
    BY <2>1, <2>2
  <2> QED
    BY <1>1, <1>2, <2>3, DivBy
<1>5. Needs(offset, count) \subseteq Chunk /\ Needs(offset, count) \subseteq Wanted(offset, count)
  BY <1>1, <1>2, <1>3, <1>4 DEF Needs, Wanted
<1>6. (offset + count) \div ChunkSize =< Count
  <2>1. size =< Count * ChunkSize /\ (Count + 1) * ChunkSize = (Count * ChunkSize) + ChunkSize
        /\ Count * ChunkSize \in Int
    BY <1>1, Times
  <2>2. offset + count < (Count + 1) * ChunkSize
    BY <1>1, <2>1
  <2> QED
    BY <1>1, <2>2, DivBy
<1>7. ASSUME LooksPastEnd(offset, count) PROVE offset + count = size /\ size % ChunkSize = 0
  <2>1. (offset + count) \div ChunkSize = Count
    BY <1>1, <1>2, <1>6, <1>7 DEF LooksPastEnd, Wanted
  <2>2. Count * ChunkSize =< offset + count /\ Count * ChunkSize \in Int
    <3>0. offset + count \in Nat
      OBVIOUS
    <3>1. offset + count = (((offset + count) \div ChunkSize) * ChunkSize) + ((offset + count) % ChunkSize)
          /\ (offset + count) % ChunkSize \in 0 .. ChunkSize - 1
      BY <1>1, <3>0, DivMod
    <3>2. Count * ChunkSize \in Int
      BY <1>1, Times
    <3> QED
      BY <1>1, <2>1, <3>1, <3>2
  <2>3. size =< Count * ChunkSize
    BY <1>1
  <2>4. size = Count * ChunkSize /\ offset + count = size
    BY <1>1, <2>2, <2>3
  <2> QED
    BY <1>1, <2>4, ModOf
<1>8. ASSUME ~LooksPastEnd(offset, count) PROVE Wanted(offset, count) \subseteq Chunk
  BY <1>1, <1>2, <1>3, <1>6, <1>8 DEF LooksPastEnd, Wanted
<1> QED
  BY <1>5, <1>7, <1>8

\* The chunks that are held can be counted.
LEMMA HeldFacts ==
  ASSUME size \in Sizes, NEW cs
  PROVE  Held(cs) \subseteq Chunk /\ IsFiniteSet(Held(cs)) /\ Cardinality(Held(cs)) \in Nat
<1>1. Held(cs) \subseteq Chunk
  BY DEF Held
<1>2. IsFiniteSet(Held(cs))
  BY <1>1, ChunkFacts, FS_Subset
<1> QED
  BY <1>1, <1>2, FS_CardinalityType

\* What a chunk gets is at most a chunk, and everything there is when the answer has everything.
LEMMA FillFacts ==
  ASSUME ContentTypeOK, NEW first \in Chunk, NEW end \in Int, first - 1 =< end, end < Count, NEW length \in Int
  PROVE  /\ first .. end \subseteq Chunk
         /\ Fill(first, end, length) \in [Chunk -> NoChunk .. ChunkSize]
         /\ Held(Fill(first, end, length)) = Cached \cup (first .. end)
<1>1. size \in Sizes /\ chunks \in [Chunk -> NoChunk .. ChunkSize]
  BY DEF ContentTypeOK
<1>2. ChunkSize \in Nat \ {0} /\ Count \in Nat /\ Chunk = 0 .. Count - 1
  BY <1>1, ChunkFacts
<1>3. first .. end \subseteq Chunk
  BY <1>2
<1>4. PICK cs : cs = Fill(first, end, length)
  OBVIOUS
<1>5. ASSUME NEW i \in Chunk
      PROVE  /\ i \notin first .. end => cs[i] = chunks[i]
             /\ i \in first .. end => cs[i] \in 0 .. ChunkSize
             /\ cs[i] \in NoChunk .. ChunkSize
  <2>1. PICK from \in Int : from = (i - first) * ChunkSize
    BY <1>2
  <2>2. cs[i] = IF i \notin first .. end THEN chunks[i]
                ELSE IF length =< from THEN 0 ELSE Smaller(ChunkSize, length - from)
    BY <1>4, <2>1 DEF Fill
  <2>3. length > from => Smaller(ChunkSize, length - from) \in 0 .. ChunkSize
    BY <1>2 DEF Smaller
  <2> QED
    BY <1>1, <1>2, <2>2, <2>3 DEF NoChunk
<1>6. cs \in [Chunk -> NoChunk .. ChunkSize]
  <2>1. cs = [i \in Chunk |-> cs[i]]
    BY <1>4 DEF Fill
  <2> QED
    BY <1>5, <2>1
<1>7. Held(cs) = Cached \cup (first .. end)
  BY <1>3, <1>5 DEF Held, Cached, NoChunk
<1> QED
  BY <1>3, <1>4, <1>6, <1>7

\* The length of an answer that has everything.
LEMMA AvailableFacts ==
  ASSUME ContentTypeOK, NEW first \in Chunk, NEW end \in Int
  PROVE  Available(first, end) \in Int
<1>1. size \in Nat /\ ChunkSize \in Nat \ {0} /\ first \in Int
  BY ChunkFacts DEF ContentTypeOK
<1>2. (end + 1) * ChunkSize \in Int /\ first * ChunkSize \in Int
  BY <1>1, Times
<1> QED
  BY <1>1, <1>2 DEF Available, Smaller

\* An answer that has everything leaves chunks that have everything.
LEMMA FillIsWhole ==
  ASSUME ContentTypeOK, Whole(chunks), NEW first \in Chunk, NEW end \in Int, first - 1 =< end, end < Count
  PROVE  Whole(Fill(first, end, Available(first, end)))
<1>1. /\ size \in Nat /\ ChunkSize \in Nat \ {0} /\ first \in Int
      /\ Count \in Nat /\ Chunk = 0 .. Count - 1
      /\ \A i \in Int : Count =< i <=> size =< i * ChunkSize
  BY ChunkFacts DEF ContentTypeOK
<1>2. PICK length \in Int : length = Available(first, end)
  BY AvailableFacts
<1>3. ASSUME NEW i \in Chunk, i \in first .. end
      PROVE  Fill(first, end, length)[i] = Smaller(ChunkSize, size - i * ChunkSize)
  <2>1. PICK at \in Int : at = i * ChunkSize
    BY <1>1
  <2>2. PICK start \in Int : start = first * ChunkSize
    BY <1>1
  <2>3. PICK stop \in Int : stop = (end + 1) * ChunkSize
    BY <1>1
  <2>4. (i - first) * ChunkSize = at - start
    BY <1>1, <2>1, <2>2, Times
  <2>5. at + ChunkSize =< stop
    BY <1>1, <1>3, <2>1, <2>3, Times
  <2>6. at < size
    BY <1>1, <1>3, <2>1
  <2>7. length = Smaller(stop, size) - start
    BY <1>2, <2>2, <2>3 DEF Available
  <2>8. Fill(first, end, length)[i] = IF length =< at - start THEN 0
                                      ELSE Smaller(ChunkSize, length - (at - start))
    BY <1>3, <2>4 DEF Fill
  <2> QED
    BY <1>1, <2>1, <2>5, <2>6, <2>7, <2>8 DEF Smaller
<1>4. ASSUME NEW i \in Chunk, i \notin first .. end PROVE Fill(first, end, length)[i] = chunks[i]
  BY <1>4 DEF Fill
<1> QED
  BY <1>2, <1>3, <1>4 DEF Whole

\* Read chunks come after the others.
LEMMA TouchFacts ==
  ASSUME NEW held, NEW is, is \subseteq held, NEW order, order \subseteq held \X held
  PROVE  /\ Touch(order, held, is) \subseteq held \X held
         /\ \A i \in is, j \in held \ is : <<j, i>> \in Touch(order, held, is)
  BY DEF Touch

\* What is forgotten leaves no more than the limit, and the counter says so.
LEMMA ForgottenFacts ==
  ASSUME NEW held, IsFiniteSet(held), NEW order, NEW n \in Int, NEW u \in Nat,
         Cardinality(held) =< n + u, NEW gone, gone \in Forgotten(held, order, n)
  PROVE  /\ gone \subseteq held /\ Cardinality(gone) \in Nat
         /\ Cardinality(held \ gone) =< n - Cardinality(gone) + u
         /\ Cardinality(held \ gone) < CleanLimit + u
<1>1. Cardinality(held) \in Nat /\ MaxCachedChunks \in Nat \ {0, 1}
  BY ContentAssumption, FS_CardinalityType
<1>2. CASE n < CleanLimit
  <2>1. gone = {} /\ held \ gone = held
    BY <1>2 DEF Forgotten
  <2>2. Cardinality(gone) = 0
    BY <2>1, FS_EmptySet
  <2> QED
    BY <1>1, <1>2, <2>1, <2>2 DEF CleanLimit
<1>3. CASE ~(n < CleanLimit)
  <2>1. /\ gone \subseteq held
        /\ Cardinality(held \ gone) = Smaller(Cardinality(held), MaxCachedChunks + 1)
    BY <1>3 DEF Forgotten
  <2>2. IsFiniteSet(gone) /\ Cardinality(gone) \in Nat
    BY <2>1, FS_Subset, FS_CardinalityType
  <2>3. Cardinality(held \ gone) = Cardinality(held) - Cardinality(gone)
    <3>1. held \cap gone = gone
      BY <2>1
    <3> QED
      BY <3>1, FS_Difference
  <2>4. Cardinality(held \ gone) < CleanLimit + u
    BY <1>1, <2>1 DEF CleanLimit, Smaller
  <2> QED
    BY <1>1, <2>1, <2>2, <2>3, <2>4
<1> QED
  BY <1>2, <1>3

\* Chunks read after all the others stay, if they are no more than MaxCachedChunks + 1.
LEMMA JustReadIsNotForgotten ==
  ASSUME NEW held, IsFiniteSet(held), NEW order, NEW n, NEW gone, gone \in Forgotten(held, order, n),
         NEW is, is \subseteq held, Cardinality(is) =< MaxCachedChunks + 1,
         \A i \in is, j \in held \ is : <<j, i>> \in order
  PROVE  is \cap gone = {}
<1>1. Cardinality(held) \in Nat /\ MaxCachedChunks \in Nat \ {0, 1}
  BY ContentAssumption, FS_CardinalityType
<1>2. SUFFICES ASSUME NEW i \in is \cap gone PROVE FALSE
  OBVIOUS
<1>3. /\ gone \subseteq held
      /\ Cardinality(held \ gone) = Smaller(Cardinality(held), MaxCachedChunks + 1)
      /\ \A k \in gone, j \in held \ gone : <<j, k>> \notin order
  BY DEF Forgotten
<1>4. held \ gone \subseteq is \ {i}
  BY <1>3
<1>5. IsFiniteSet(is) /\ Cardinality(is) \in Nat
  BY FS_Subset, FS_CardinalityType
<1>6. IsFiniteSet(is \ {i}) /\ Cardinality(is \ {i}) = Cardinality(is) - 1
  BY <1>5, FS_RemoveElement
<1>7. Cardinality(held \ gone) =< Cardinality(is \ {i})
  BY <1>4, <1>6, FS_Subset
<1>8. Cardinality(held \ gone) = Cardinality(held) - Cardinality(gone)
  <2>1. held \cap gone = gone
    BY <1>3
  <2> QED
    BY <2>1, FS_Difference
<1>9. Cardinality(gone) \in Nat \ {0}
  <2>1. IsFiniteSet(gone) /\ gone # {}
    BY <1>3, FS_Subset
  <2> QED
    BY <2>1, FS_EmptySet, FS_CardinalityType
<1> QED
  BY <1>1, <1>3, <1>5, <1>6, <1>7, <1>8, <1>9 DEF Smaller

\* Whole chunks are copied.
LEMMA WholeIsCopied ==
  ASSUME size \in Sizes, NEW offset \in Nat, NEW count \in Nat \ {0}, offset + count =< size,
         NEW cs, Whole(cs), Needs(offset, count) \subseteq Held(cs)
  PROVE  Copied(cs, offset, count) = "data"
<1>1. size \in Nat /\ ChunkSize \in Nat \ {0}
  BY ChunkFacts
<1>2. ASSUME NEW i \in Needs(offset, count)
      PROVE  i \in Int /\ cs[i] = Smaller(ChunkSize, size - i * ChunkSize)
  <2>1. i \in Chunk /\ cs[i] # NoChunk
    BY DEF Held
  <2>2. i \in Int
    BY <2>1, ChunkFacts
  <2> QED
    BY <2>1, <2>2 DEF Whole
<1>3. PICK first \in Nat : first = offset \div ChunkSize
  BY <1>1, DivMod
<1>4. first \in Needs(offset, count)
  <2>1. offset + count - 1 \in Nat
    OBVIOUS
  <2>2. (offset + count - 1) \div ChunkSize \in Nat
    BY <1>1, <2>1, DivMod
  <2>3. first =< (offset + count - 1) \div ChunkSize
    <3>1. offset + count - 1 < (((offset + count - 1) \div ChunkSize) + 1) * ChunkSize
      BY <1>1, <2>1, <2>2, DivBy
    <3>2. (((offset + count - 1) \div ChunkSize) + 1) * ChunkSize \in Int
      BY <1>1, <2>2, Times
    <3>3. offset < (((offset + count - 1) \div ChunkSize) + 1) * ChunkSize
      BY <3>1, <3>2
    <3> QED
      BY <1>1, <1>3, <2>2, <3>3, DivBy
  <2> QED
    BY <1>3, <2>2, <2>3 DEF Needs
<1>5. ~(cs[first] < offset % ChunkSize)
  <2>1. /\ offset % ChunkSize \in 0 .. ChunkSize - 1
        /\ offset = (first * ChunkSize) + (offset % ChunkSize)
    BY <1>1, <1>3, DivMod
  <2>2. first * ChunkSize \in Int
    BY <1>1, Times
  <2> QED
    BY <1>1, <1>2, <1>4, <2>1, <2>2 DEF Smaller
<1>6. ASSUME NEW i \in Needs(offset, count)
      PROVE  cs[i] >= Smaller(ChunkSize, offset + count - i * ChunkSize)
  <2>1. i * ChunkSize \in Int
    BY <1>1, <1>2, Times
  <2> QED
    BY <1>1, <1>2, <2>1 DEF Smaller
<1> QED
  BY <1>3, <1>5, <1>6 DEF Copied

\* The end of readAt: the chunks that stay are counted, are not too many, and are those just read.
LEMMA CopyKeeps ==
  ASSUME size \in Sizes, size' = size,
         NEW offset \in Nat, NEW count \in Nat \ {0}, offset + count =< size,
         NEW cs \in [Chunk -> NoChunk .. ChunkSize], NEW order, order \subseteq Held(cs) \X Held(cs),
         NEW n \in Int, uncounted' \in Nat, Cardinality(Held(cs)) =< n + uncounted',
         Needs(offset, count) \subseteq Held(cs), CopyAndForget(offset, count, cs, order, n)
  PROVE  /\ chunks' \in [Chunk -> NoChunk .. ChunkSize]
         /\ older' \subseteq Cached' \X Cached'
         /\ filledChunks' \in -uncounted' .. n
         /\ Counted'
         /\ Whole(cs) => Whole(chunks)'
         /\ last' = [needs |-> Needs(offset, count), atEnd |-> offset + count = size,
                     outcome |-> Copied(cs, offset, count)]
         /\ last'.outcome = "data" => Cardinality(Cached') < CleanLimit + uncounted'
         /\ JustReadStays'
<1>1. PICK outcome : outcome = Copied(cs, offset, count)
  OBVIOUS
<1>2. PICK held : held = Held(cs)
  OBVIOUS
<1>3. PICK needs : needs = Needs(offset, count)
  OBVIOUS
<1>4. PICK touched : touched = IF outcome = "panic" THEN order ELSE Touch(order, held, needs)
  OBVIOUS
<1>5. PICK gone : /\ gone \in IF outcome = "data" THEN Forgotten(held, touched, n) ELSE {{}}
                  /\ chunks' = [i \in Chunk |-> IF i \in gone THEN NoChunk ELSE cs[i]]
                  /\ older' = {p \in touched : p[1] \notin gone /\ p[2] \notin gone}
                  /\ filledChunks' = n - Cardinality(gone)
  BY <1>1, <1>2, <1>3, <1>4 DEF CopyAndForget
<1>6. last' = [needs |-> needs, atEnd |-> offset + count = size, outcome |-> outcome]
  BY <1>1, <1>3 DEF CopyAndForget, Record
<1>7. held \subseteq Chunk /\ IsFiniteSet(held) /\ Cardinality(held) \in Nat
  BY <1>2, HeldFacts
<1>8. touched \subseteq held \X held
  <2>1. Touch(order, held, needs) \subseteq held \X held
    BY <1>2, <1>3, TouchFacts
  <2> QED
    BY <1>2, <1>4, <2>1
<1>9. /\ gone \subseteq held /\ Cardinality(gone) \in Nat
      /\ Cardinality(held \ gone) =< n - Cardinality(gone) + uncounted'
      /\ outcome = "data" => /\ Cardinality(held \ gone) < CleanLimit + uncounted'
                             /\ Cardinality(needs) =< MaxCachedChunks + 1 => needs \cap gone = {}
  <2>1. CASE outcome = "data"
    <3>1. gone \in Forgotten(held, touched, n)
      BY <1>5, <2>1
    <3>2. /\ gone \subseteq held /\ Cardinality(gone) \in Nat
          /\ Cardinality(held \ gone) =< n - Cardinality(gone) + uncounted'
          /\ Cardinality(held \ gone) < CleanLimit + uncounted'
      BY <1>2, <1>7, <3>1, ForgottenFacts
    <3>3. needs \subseteq held
      BY <1>2, <1>3
    <3>4. \A i \in needs, j \in held \ needs : <<j, i>> \in touched
      BY <1>2, <1>4, <2>1, <3>3, TouchFacts
    <3>5. Cardinality(needs) =< MaxCachedChunks + 1 => needs \cap gone = {}
      BY <1>7, <3>1, <3>3, <3>4, JustReadIsNotForgotten
    <3> QED
      BY <3>2, <3>5
  <2>2. CASE outcome # "data"
    <3>1. gone = {} /\ held \ gone = held
      BY <1>5, <2>2
    <3>2. Cardinality(gone) = 0
      BY <3>1, FS_EmptySet
    <3> QED
      BY <1>2, <1>7, <2>2, <3>1, <3>2
  <2> QED
    BY <2>1, <2>2
<1>10. Cached' = held \ gone
  <2>1. Chunk' = Chunk
    BY DEF Chunk, Count
  <2> QED
    BY <1>2, <1>5, <2>1 DEF Cached, Held
<1>11. chunks' \in [Chunk -> NoChunk .. ChunkSize]
  <2>1. NoChunk \in NoChunk .. ChunkSize
    BY ChunkFacts DEF NoChunk
  <2> QED
    BY <1>5, <2>1
<1>12. older' \subseteq Cached' \X Cached'
  BY <1>5, <1>8, <1>10
<1>13. Cardinality(held \ gone) \in Nat
  <2>1. IsFiniteSet(held \ gone)
    BY <1>7, FS_Difference
  <2> QED
    BY <2>1, FS_CardinalityType
<1>14. filledChunks' \in -uncounted' .. n
  BY <1>5, <1>9, <1>13
<1>15. Counted'
  BY <1>5, <1>9, <1>10 DEF Counted
<1>16. Whole(cs) => Whole(chunks)'
  <2>1. Chunk' = Chunk
    BY DEF Chunk, Count
  <2> QED
    BY <1>5, <2>1 DEF Whole
<1>17. last'.outcome = "data" => Cardinality(Cached') < CleanLimit + uncounted'
  BY <1>6, <1>9, <1>10
<1>18. JustReadStays'
  <2>1. last'.needs = needs /\ last'.outcome = outcome
    BY <1>6
  <2> QED
    BY <1>2, <1>3, <1>9, <1>10, <2>1 DEF JustReadStays
<1> QED
  BY <1>1, <1>3, <1>6, <1>11, <1>12, <1>14, <1>15, <1>16, <1>17, <1>18

\* A read that comes to the copying keeps the invariant.
LEMMA CopyKeepsInv ==
  ASSUME size \in Sizes, size' = size,
         NEW offset \in Nat, NEW count \in Nat \ {0}, offset + count =< size,
         NEW cs \in [Chunk -> NoChunk .. ChunkSize], NEW order, order \subseteq Held(cs) \X Held(cs),
         NEW n \in Int, n =< MaxFilled + Count, uncounted' \in 0 .. MaxUncounted,
         Cardinality(Held(cs)) =< n + uncounted',
         Needs(offset, count) \subseteq Held(cs), CopyAndForget(offset, count, cs, order, n),
         lastFillEnd' \in Chunk, cnt' \in 0 .. SequentialFills, cuts' \in 0 .. MaxCuts,
         cuts' = 0 => Whole(cs)
  PROVE  ReadsInv' /\ LastReadOK'
<1>1. Chunk' = Chunk /\ Count' = Count /\ Count \in Nat
  BY ChunkFacts DEF Chunk, Count
<1>2. MaxUncounted \in Nat /\ MaxFilled \in Nat
  BY ContentAssumption
<1>3. uncounted' \in Nat
  BY <1>2
<1>4. /\ chunks' \in [Chunk -> NoChunk .. ChunkSize]
      /\ older' \subseteq Cached' \X Cached'
      /\ filledChunks' \in -uncounted' .. n
      /\ Counted'
      /\ Whole(cs) => Whole(chunks)'
      /\ last' = [needs |-> Needs(offset, count), atEnd |-> offset + count = size,
                  outcome |-> Copied(cs, offset, count)]
      /\ last'.outcome = "data" => Cardinality(Cached') < CleanLimit + uncounted'
      /\ JustReadStays'
  BY <1>3, CopyKeeps
<1>5. Needs(offset, count) \subseteq Chunk
  BY PieceFacts
<1>6. Copied(cs, offset, count) \in {"data", "panic", "spin"}
  BY DEF Copied
<1>7. last' \in [needs : SUBSET Chunk, atEnd : BOOLEAN, outcome : Outcome]
  <2>1. (offset + count = size) \in BOOLEAN /\ Copied(cs, offset, count) \in Outcome
    BY <1>6 DEF Outcome
  <2> QED
    BY <1>4, <1>5, <2>1
<1>8. filledChunks' \in -MaxUncounted .. MaxFilled + Count
  <2>1. PICK u \in Nat : u = uncounted'
    BY <1>3
  <2>2. filledChunks' \in -u .. n
    BY <1>4, <2>1
  <2>3. u =< MaxUncounted
    BY <1>2, <2>1
  <2> QED
    BY <1>1, <1>2, <2>2, <2>3
<1>9. ContentTypeOK'
  BY <1>1, <1>4, <1>7, <1>8 DEF ContentTypeOK
<1>10. cuts' = 0 => last'.outcome = "data"
  <2>1. cuts' = 0 => Copied(cs, offset, count) = "data"
    BY WholeIsCopied
  <2> QED
    BY <1>4, <2>1
<1>11. DataUnlessCut'
  <2>1. cuts' > 0 \/ cuts' = 0
    BY ContentAssumption
  <2> QED
    BY <1>10, <2>1 DEF DataUnlessCut
<1> QED
  BY <1>4, <1>9, <1>11 DEF ReadsInv, LastReadOK

\* A read that finds all it needs.
LEMMA ReadCachedKeeps ==
  ASSUME ReadsInv, NEW offset \in Nat, NEW count \in Nat \ {0}, ReadCached(offset, count)
  PROVE  ReadsInv' /\ LastReadOK'
<1>1. ContentTypeOK /\ (cuts = 0 => Whole(chunks)) /\ Counted
  BY DEF ReadsInv
<1>2. /\ offset + count =< size /\ filledChunks =< MaxFilled
      /\ ~LooksPastEnd(offset, count) /\ Wanted(offset, count) \cap Missing = {}
      /\ CopyAndForget(offset, count, chunks, older, filledChunks)
      /\ UNCHANGED <<size, lastFillEnd, cnt, cuts, uncounted>>
  BY DEF ReadCached, MayRead
<1>3. size \in Sizes /\ Count \in Nat /\ MaxFilled \in Nat /\ MaxUncounted \in Nat
  BY <1>1, ChunkFacts, ContentAssumption DEF ContentTypeOK
<1>4. filledChunks \in Int /\ filledChunks =< MaxFilled + Count
  BY <1>1, <1>2, <1>3 DEF ContentTypeOK
<1>5. Needs(offset, count) \subseteq Held(chunks)
  <2>1. Needs(offset, count) \subseteq Chunk /\ Needs(offset, count) \subseteq Wanted(offset, count)
    BY <1>2, <1>3, PieceFacts
  <2> QED
    BY <1>2, <2>1 DEF Missing, Cached
<1>6. Cardinality(Held(chunks)) =< filledChunks + uncounted' /\ older \subseteq Held(chunks) \X Held(chunks)
  BY <1>1, <1>2 DEF Counted, Cached, ContentTypeOK
<1>7. /\ uncounted' \in 0 .. MaxUncounted /\ lastFillEnd' \in Chunk
      /\ cnt' \in 0 .. SequentialFills /\ cuts' \in 0 .. MaxCuts
      /\ chunks \in [Chunk -> NoChunk .. ChunkSize]
  BY <1>1, <1>2 DEF ContentTypeOK
<1> QED
  BY <1>1, <1>2, <1>3, <1>4, <1>5, <1>6, <1>7, CopyKeepsInv

\* readAt has panicked before it changed anything: the object and the read end with a chunk.
LEMMA ReadPanicsKeeps ==
  ASSUME ReadsInv, NEW offset \in Nat, NEW count \in Nat \ {0}, ReadPanics(offset, count)
  PROVE  ReadsInv' /\ LastReadOK'
<1>1. /\ offset + count =< size /\ LooksPastEnd(offset, count)
      /\ last' = [needs |-> Needs(offset, count), atEnd |-> offset + count = size, outcome |-> "panic"]
      /\ UNCHANGED <<size, chunks, older, filledChunks, lastFillEnd, cnt, cuts, uncounted>>
  BY DEF ReadPanics, MayRead, Record
<1>2. size \in Sizes
  BY DEF ReadsInv, ContentTypeOK
<1>3. /\ Needs(offset, count) \subseteq Chunk
      /\ offset + count = size /\ size % ChunkSize = 0
  BY <1>1, <1>2, PieceFacts
<1>4. last' \in [needs : SUBSET Chunk, atEnd : BOOLEAN, outcome : Outcome]
  BY <1>1, <1>3 DEF Outcome
<1>5. Chunk' = Chunk /\ Count' = Count /\ Cached' = Cached
  BY <1>1 DEF Chunk, Count, Cached, Held
<1>6. ReadsInv'
  BY <1>1, <1>4, <1>5 DEF ReadsInv, ContentTypeOK, Whole, Counted
<1>7. last'.outcome = "panic" /\ last'.atEnd
  BY <1>1, <1>3
<1> QED
  BY <1>1, <1>3, <1>6, <1>7 DEF LastReadOK, DataUnlessCut, JustReadStays

\* What a read fetches is in the object, and all it needs is there then.
LEMMA FetchFacts ==
  ASSUME ReadsInv, NEW offset \in Nat, NEW count \in Nat \ {0}, ReadFetching(offset, count)
  PROVE  /\ offset + count =< size /\ filledChunks =< MaxFilled /\ size' = size
         /\ Needs(offset, count) \subseteq Chunk
         /\ \E first \in Chunk, end \in Chunk :
              /\ first =< end
              /\ Needs(offset, count) \subseteq Cached \cup (first .. end)
              /\ lastFillEnd' = end /\ cnt' \in 0 .. SequentialFills
              /\ FillFails(offset, count, first, end) \/ FillSucceeds(offset, count, first, end)
<1>1. /\ offset + count =< size /\ filledChunks =< MaxFilled /\ size' = size
      /\ ~LooksPastEnd(offset, count)
  BY DEF ReadFetching, MayRead
<1>2. size \in Sizes /\ cnt \in 0 .. SequentialFills /\ SequentialFills \in Nat
  BY ContentAssumption DEF ReadsInv, ContentTypeOK
<1>3. Count \in Nat /\ Chunk = 0 .. Count - 1
  BY <1>2, ChunkFacts
<1>4. /\ Needs(offset, count) \subseteq Chunk
      /\ Needs(offset, count) \subseteq Wanted(offset, count)
  BY <1>1, <1>2, PieceFacts
<1>5. PICK missing : missing = Wanted(offset, count) \cap Missing
  OBVIOUS
<1>6. PICK first \in missing, lastMissing \in missing :
        /\ missing \subseteq first .. lastMissing
        /\ cnt' = IF lastFillEnd = first - 1 THEN Smaller(cnt + 1, SequentialFills) ELSE 0
        /\ \E end \in ReadAheadEnd(first, lastMissing, cnt') :
             /\ lastFillEnd' = end
             /\ FillFails(offset, count, first, end) \/ FillSucceeds(offset, count, first, end)
  BY <1>5 DEF ReadFetching
<1>7. PICK end \in ReadAheadEnd(first, lastMissing, cnt') :
        /\ lastFillEnd' = end
        /\ FillFails(offset, count, first, end) \/ FillSucceeds(offset, count, first, end)
  BY <1>6
<1>8. missing \subseteq Chunk
  BY <1>5 DEF Missing
<1>9. end \in Chunk /\ lastMissing =< end
  BY <1>3, <1>7, <1>8 DEF ReadAheadEnd
<1>10. missing \subseteq first .. end /\ first =< end
  BY <1>3, <1>6, <1>8, <1>9
<1>11. Needs(offset, count) \subseteq Cached \cup (first .. end)
  BY <1>4, <1>5, <1>10 DEF Missing
<1>12. cnt' \in 0 .. SequentialFills
  BY <1>2, <1>6 DEF Smaller
<1> QED
  BY <1>1, <1>4, <1>7, <1>8, <1>9, <1>10, <1>11, <1>12

\* Counting the chunks of a range that are there when it has been filled.
LEMMA FilledFacts ==
  ASSUME size \in Sizes, NEW first \in Chunk, NEW end \in Int, first - 1 =< end, end < Count
  PROVE  /\ Cardinality(Cached \cup (first .. end)) =< Cardinality(Cached) + (end - first + 1)
         /\ Cardinality(Cached \cup (first .. end)) = Cardinality(Cached) + Cardinality(Missing \cap (first .. end))
         /\ Cardinality(Cached) \in Nat /\ Cardinality(Missing \cap (first .. end)) \in Nat
<1>1. Count \in Nat /\ Chunk = 0 .. Count - 1
  BY ChunkFacts
<1>2. IsFiniteSet(Cached) /\ Cardinality(Cached) \in Nat /\ Cached \subseteq Chunk
  BY HeldFacts DEF Cached
<1>3. /\ IsFiniteSet(first .. end)
      /\ Cardinality(first .. end) = end - first + 1
  BY <1>1, FS_Interval
<1>4. Cardinality(Cached \cup (first .. end)) =< Cardinality(Cached) + (end - first + 1)
  <2>1. Cardinality(Cached \cup (first .. end)) =
          Cardinality(Cached) + Cardinality(first .. end) - Cardinality(Cached \cap (first .. end))
    BY <1>2, <1>3, FS_Union
  <2>2. Cardinality(Cached \cap (first .. end)) \in Nat
    BY <1>2, FS_Intersection, FS_CardinalityType
  <2> QED
    BY <1>1, <1>2, <1>3, <2>1, <2>2
<1>5. /\ Cardinality(Cached \cup (first .. end)) = Cardinality(Cached) + Cardinality(Missing \cap (first .. end))
      /\ Cardinality(Missing \cap (first .. end)) \in Nat
  <2>1. PICK filled : filled = Missing \cap (first .. end)
    OBVIOUS
  <2>2. Cached \cup (first .. end) = Cached \cup filled /\ Cached \cap filled = {}
    BY <1>1, <2>1 DEF Missing
  <2>3. IsFiniteSet(filled) /\ Cardinality(filled) \in Nat
    BY <1>3, <2>1, FS_Intersection, FS_CardinalityType
  <2>4. Cardinality(Cached \cup filled) = Cardinality(Cached) + Cardinality(filled) - Cardinality(Cached \cap filled)
    BY <1>2, <2>3, FS_Union
  <2>5. Cardinality(Cached \cap filled) = 0
    BY <2>2, FS_EmptySet
  <2> QED
    BY <1>2, <2>1, <2>2, <2>3, <2>4, <2>5
<1> QED
  BY <1>2, <1>4, <1>5

\* A request that fails leaves the chunks it got; the counter does not know them.
LEMMA FillFailsKeeps ==
  ASSUME ReadsInv, NEW offset, NEW count, Needs(offset, count) \subseteq Chunk, size' = size,
         NEW first \in Chunk, NEW end \in Chunk, FillFails(offset, count, first, end),
         lastFillEnd' = end, cnt' \in 0 .. SequentialFills
  PROVE  ReadsInv' /\ LastReadOK'
<1>1. ContentTypeOK /\ (cuts = 0 => Whole(chunks)) /\ Counted
  BY DEF ReadsInv
<1>2. size \in Sizes /\ Count \in Nat /\ Chunk = 0 .. Count - 1
  BY <1>1, ChunkFacts DEF ContentTypeOK
<1>3. PICK i \in first .. end :
        /\ last' = [needs |-> Needs(offset, count), atEnd |-> offset + count = size, outcome |-> "error"]
        /\ chunks' = Fill(first, i - 1, Available(first, i - 1))
        /\ older' = Touch(older, Cached, first .. i - 1)
        /\ uncounted' = uncounted + Cardinality(Missing \cap (first .. i - 1))
        /\ uncounted' =< MaxUncounted
        /\ UNCHANGED <<filledChunks, cuts>>
  BY DEF FillFails, Record
<1>4. PICK to \in Int : to = i - 1 /\ first - 1 =< to /\ to < Count
  BY <1>2
<1>5. Chunk' = Chunk /\ Count' = Count
  BY DEF Chunk, Count
<1>6. PICK length \in Int : length = Available(first, to)
  BY <1>1, AvailableFacts
<1>7. /\ chunks' \in [Chunk -> NoChunk .. ChunkSize]
      /\ Held(chunks') = Cached \cup (first .. to)
  BY <1>1, <1>3, <1>4, <1>6, FillFacts
<1>8. Cached' = Cached \cup (first .. to)
  <2>1. Cached' = Held(chunks')
    BY <1>5 DEF Cached, Held
  <2> QED
    BY <1>7, <2>1
<1>9. older' \subseteq Cached' \X Cached'
  BY <1>1, <1>3, <1>4, <1>8 DEF Touch, ContentTypeOK
<1>10. last' \in [needs : SUBSET Chunk, atEnd : BOOLEAN, outcome : Outcome]
  <2>1. (offset + count = size) \in BOOLEAN
    OBVIOUS
  <2> QED
    BY <1>3, <2>1 DEF Outcome
<1>11. /\ Cardinality(Cached') = Cardinality(Cached) + Cardinality(Missing \cap (first .. to))
       /\ Cardinality(Cached) \in Nat /\ Cardinality(Missing \cap (first .. to)) \in Nat
  BY <1>2, <1>4, <1>8, FilledFacts
<1>12. uncounted \in 0 .. MaxUncounted /\ filledChunks \in Int /\ MaxUncounted \in Nat /\ MaxFilled \in Nat
  BY <1>1, <1>2, ContentAssumption DEF ContentTypeOK
<1>13. uncounted' \in 0 .. MaxUncounted
  BY <1>3, <1>4, <1>11, <1>12
<1>14. Counted'
  BY <1>1, <1>3, <1>4, <1>11, <1>12 DEF Counted
<1>15. ContentTypeOK'
  BY <1>1, <1>3, <1>5, <1>7, <1>9, <1>10, <1>13 DEF ContentTypeOK
<1>16. cuts' = 0 => Whole(chunks)'
  <2>1. cuts = 0 => Whole(Fill(first, to, Available(first, to)))
    BY <1>1, <1>4, FillIsWhole
  <2> QED
    BY <1>3, <1>4, <1>5, <2>1 DEF Whole
<1>17. last'.outcome = "error"
  BY <1>3
<1> QED
  BY <1>14, <1>15, <1>16, <1>17 DEF ReadsInv, LastReadOK, DataUnlessCut, JustReadStays

\* A request that succeeds, with a body that may end early.
LEMMA FillSucceedsKeeps ==
  ASSUME ReadsInv, NEW offset \in Nat, NEW count \in Nat \ {0}, offset + count =< size,
         filledChunks =< MaxFilled, size' = size,
         NEW first \in Chunk, NEW end \in Chunk, first =< end, FillSucceeds(offset, count, first, end),
         Needs(offset, count) \subseteq Cached \cup (first .. end),
         lastFillEnd' = end, cnt' \in 0 .. SequentialFills
  PROVE  ReadsInv' /\ LastReadOK'
<1>1. ContentTypeOK /\ (cuts = 0 => Whole(chunks)) /\ Counted
  BY DEF ReadsInv
<1>2. size \in Sizes /\ Count \in Nat /\ Chunk = 0 .. Count - 1
  BY <1>1, ChunkFacts DEF ContentTypeOK
<1>3. first \in Int /\ end \in Int /\ first - 1 =< end /\ end < Count /\ end - first + 1 =< Count
  BY <1>2
<1>4. PICK whole \in Int : whole = Available(first, end)
  BY <1>1, <1>3, AvailableFacts
<1>5. PICK length \in 0 .. whole :
        /\ cuts' = cuts + (IF length < whole THEN 1 ELSE 0) /\ cuts' =< MaxCuts
        /\ CopyAndForget(offset, count, Fill(first, end, length), Touch(older, Cached, first .. end),
                         FilledCount(first, end))
        /\ uncounted' = uncounted
  BY <1>4 DEF FillSucceeds
<1>6. PICK cs : cs = Fill(first, end, length)
  OBVIOUS
<1>7. cs \in [Chunk -> NoChunk .. ChunkSize] /\ Held(cs) = Cached \cup (first .. end)
  <2>1. length \in Int
    BY <1>4
  <2> QED
    BY <1>1, <1>3, <1>6, <2>1, FillFacts
<1>8. PICK order : order = Touch(older, Cached, first .. end)
  OBVIOUS
<1>9. order \subseteq Held(cs) \X Held(cs)
  BY <1>1, <1>7, <1>8 DEF Touch, ContentTypeOK
<1>10. filledChunks \in Int /\ uncounted \in 0 .. MaxUncounted /\ cuts \in 0 .. MaxCuts
       /\ MaxCuts \in Nat /\ MaxUncounted \in Nat /\ MaxFilled \in Nat
  BY <1>1, <1>2, ContentAssumption DEF ContentTypeOK
<1>11. PICK n \in Int : n = filledChunks + end - first + 1
  BY <1>3, <1>10
<1>12. n =< MaxFilled + Count
  BY <1>2, <1>3, <1>10, <1>11
<1>13. Cardinality(Held(cs)) =< n + uncounted'
  <2>1. /\ Cardinality(Held(cs)) =< Cardinality(Cached) + (end - first + 1)
        /\ Cardinality(Cached) \in Nat
    BY <1>2, <1>3, <1>7, FilledFacts
  <2>2. Cardinality(Held(cs)) \in Nat
    BY <1>2, HeldFacts
  <2> QED
    BY <1>1, <1>3, <1>5, <1>10, <1>11, <2>1, <2>2 DEF Counted
<1>14. cuts' \in 0 .. MaxCuts /\ (cuts' = 0 => cuts = 0 /\ length = whole)
  BY <1>4, <1>5, <1>10
<1>15. cuts' = 0 => Whole(cs)
  <2>1. cuts = 0 => Whole(Fill(first, end, whole))
    BY <1>1, <1>3, <1>4, FillIsWhole
  <2> QED
    BY <1>6, <1>14, <2>1
<1>16. CopyAndForget(offset, count, cs, order, n)
  BY <1>5, <1>6, <1>8, <1>11 DEF FilledCount
<1>17. uncounted' \in 0 .. MaxUncounted /\ Needs(offset, count) \subseteq Held(cs) /\ lastFillEnd' \in Chunk
  BY <1>5, <1>7, <1>10
<1> QED
  BY <1>2, <1>7, <1>9, <1>12, <1>13, <1>14, <1>15, <1>16, <1>17, CopyKeepsInv

\* A read that fetches, whatever becomes of its request.
LEMMA ReadFetchingKeeps ==
  ASSUME ReadsInv, NEW offset \in Nat, NEW count \in Nat \ {0}, ReadFetching(offset, count)
  PROVE  ReadsInv' /\ LastReadOK'
<1>1. /\ offset + count =< size /\ filledChunks =< MaxFilled /\ size' = size
      /\ Needs(offset, count) \subseteq Chunk
      /\ \E first \in Chunk, end \in Chunk :
           /\ first =< end
           /\ Needs(offset, count) \subseteq Cached \cup (first .. end)
           /\ lastFillEnd' = end /\ cnt' \in 0 .. SequentialFills
           /\ FillFails(offset, count, first, end) \/ FillSucceeds(offset, count, first, end)
  BY FetchFacts
<1>2. PICK first \in Chunk, end \in Chunk :
        /\ first =< end
        /\ Needs(offset, count) \subseteq Cached \cup (first .. end)
        /\ lastFillEnd' = end /\ cnt' \in 0 .. SequentialFills
        /\ FillFails(offset, count, first, end) \/ FillSucceeds(offset, count, first, end)
  BY <1>1
<1>3. CASE FillFails(offset, count, first, end)
  BY <1>1, <1>2, <1>3, FillFailsKeeps
<1>4. CASE FillSucceeds(offset, count, first, end)
  BY <1>1, <1>2, <1>4, FillSucceedsKeeps
<1> QED
  BY <1>2, <1>3, <1>4

\* A content that has nothing yet.
LEMMA ReadsStart == ContentInit => ReadsInv /\ LastReadOK
<1> SUFFICES ASSUME ContentInit PROVE ReadsInv /\ LastReadOK
  OBVIOUS
<1>1. Count \in Nat \ {0} /\ Chunk = 0 .. Count - 1 /\ ChunkSize \in Nat
      /\ MaxUncounted \in Nat /\ MaxFilled \in Nat /\ SequentialFills \in Nat /\ MaxCuts \in Nat
  BY ChunkFacts, ContentAssumption DEF ContentInit
<1>2. Cached = {} /\ Cardinality(Cached) = 0
  <2>1. Cached = {}
    BY DEF Cached, Held, ContentInit
  <2> QED
    BY <2>1, FS_EmptySet
<1>3. chunks \in [Chunk -> NoChunk .. ChunkSize] /\ Whole(chunks)
  BY <1>1 DEF ContentInit, NoChunk, Whole
<1>4. last \in [needs : SUBSET Chunk, atEnd : BOOLEAN, outcome : Outcome] /\ last.outcome = "new"
  BY DEF ContentInit, Outcome
<1>5. ContentTypeOK
  BY <1>1, <1>2, <1>3, <1>4 DEF ContentInit, ContentTypeOK
<1> QED
  BY <1>2, <1>3, <1>4, <1>5
     DEF ContentInit, ReadsInv, LastReadOK, Counted, DataUnlessCut, JustReadStays

\* The file is opened again.
LEMMA ReopenKeeps ==
  ASSUME ReadsInv, Reopen
  PROVE  ReadsInv' /\ LastReadOK'
<1>1. /\ size \in Sizes /\ size' = size /\ cuts' = cuts /\ cuts \in 0 .. MaxCuts
      /\ chunks' = [i \in Chunk |-> NoChunk] /\ older' = {}
      /\ filledChunks' = 0 /\ lastFillEnd' = 0 /\ cnt' = 0
      /\ last' = [needs |-> {}, atEnd |-> FALSE, outcome |-> "new"] /\ uncounted' = 0
  BY DEF ReadsInv, ContentTypeOK, Reopen, NewContent
<1>2. Count \in Nat \ {0} /\ Chunk = 0 .. Count - 1 /\ ChunkSize \in Nat
      /\ MaxUncounted \in Nat /\ MaxFilled \in Nat /\ SequentialFills \in Nat
  BY <1>1, ChunkFacts, ContentAssumption
<1>3. Chunk' = Chunk /\ Count' = Count
  BY <1>1 DEF Chunk, Count
<1>4. Cached' = {} /\ Cardinality(Cached') = 0
  <2>1. Cached' = {}
    BY <1>1, <1>3 DEF Cached, Held
  <2> QED
    BY <2>1, FS_EmptySet
<1>5. chunks' \in [Chunk -> NoChunk .. ChunkSize] /\ Whole(chunks)'
  BY <1>1, <1>2, <1>3 DEF NoChunk, Whole
<1>6. last' \in [needs : SUBSET Chunk, atEnd : BOOLEAN, outcome : Outcome] /\ last'.outcome = "new"
  BY <1>1 DEF Outcome
<1>7. ContentTypeOK'
  BY <1>1, <1>2, <1>3, <1>4, <1>5, <1>6 DEF ContentTypeOK
<1> QED
  BY <1>1, <1>4, <1>5, <1>6, <1>7 DEF ReadsInv, LastReadOK, Counted, DataUnlessCut, JustReadStays

\* Every step.
LEMMA ReadsStep == ReadsInv /\ LastReadOK /\ [ContentNext]_contentVars => ReadsInv' /\ LastReadOK'
<1> SUFFICES ASSUME ReadsInv, LastReadOK, [ContentNext]_contentVars PROVE ReadsInv' /\ LastReadOK'
  OBVIOUS
<1>1. ASSUME NEW offset \in 0 .. size - 1, NEW count \in 1 .. Piece,
             ReadPanics(offset, count) \/ ReadCached(offset, count) \/ ReadFetching(offset, count)
      PROVE  ReadsInv' /\ LastReadOK'
  <2>1. offset \in Nat /\ count \in Nat \ {0}
    BY ContentAssumption DEF ReadsInv, ContentTypeOK
  <2> QED
    BY <1>1, <2>1, ReadPanicsKeeps, ReadCachedKeeps, ReadFetchingKeeps
<1>2. CASE Reopen
  BY <1>2, ReopenKeeps
<1>3. CASE UNCHANGED contentVars
  <2>1. UNCHANGED <<size, chunks, older, filledChunks, lastFillEnd, cnt, last, cuts, uncounted>>
    BY <1>3 DEF contentVars
  <2>2. Chunk' = Chunk /\ Count' = Count /\ Cached' = Cached
    BY <2>1 DEF Chunk, Count, Cached, Held
  <2>3. ContentTypeOK' /\ Counted' /\ (Whole(chunks)' <=> Whole(chunks))
    BY <2>1, <2>2 DEF ReadsInv, ContentTypeOK, Counted, Whole
  <2>4. LastReadOK'
    BY <2>1, <2>2 DEF LastReadOK, DataUnlessCut, JustReadStays
  <2> QED
    BY <2>1, <2>3, <2>4 DEF ReadsInv
<1> QED
  BY <1>1, <1>2, <1>3 DEF ContentNext, Read

\* What is cached of a content is whole unless a body ended early, and counted but for what failed
\* requests left.
THEOREM ReadsInvariant == ContentSpec => [](ReadsInv /\ LastReadOK)
  BY ReadsStart, ReadsStep, PTL DEF ContentSpec

\* A content's chunks, their order and the counter are what they are declared to be.
THEOREM ContentTypeCorrect == ContentSpec => []ContentTypeOK
<1>1. ReadsInv => ContentTypeOK
  BY DEF ReadsInv
<1> QED
  BY <1>1, ReadsInvariant, PTL

\* Every read returns its data, for objects, chunks and pieces of any size and with any read-ahead,
\* but for the three cases that DataUnlessCut names.
THEOREM ReadsReturnData == ContentSpec => []DataUnlessCut
<1>1. LastReadOK => DataUnlessCut
  BY DEF LastReadOK
<1> QED
  BY <1>1, ReadsInvariant, PTL

\* The cache does not outgrow its limit, and what it counts does not fall behind what it has, by
\* more than what failed requests have left.
THEOREM CacheStaysBounded == ContentSpec => []CacheBounded
<1>1. ReadsInv /\ LastReadOK => CacheBounded
  BY DEF ReadsInv, Counted, LastReadOK, CacheBounded
<1> QED
  BY <1>1, ReadsInvariant, PTL

\* A piece that was just read is still there for the next one, as long as it fits into the cache.
THEOREM JustReadIsKept == ContentSpec => []JustReadStays
<1>1. LastReadOK => JustReadStays
  BY DEF LastReadOK
<1> QED
  BY <1>1, ReadsInvariant, PTL
===============================================================================
