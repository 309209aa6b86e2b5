--------------------------- MODULE CatalogProofs ---------------------------
(***************************************************************************)
(* Proofs about Catalog, for any number of requests, names, ids and claims. *)
(*                                                                          *)
(* UpdatesSerial and NameOfOne speak of what is committed.  CatalogInv adds *)
(* what the open transactions have: each has written exactly the columns    *)
(* that its stage says (Wrote), into a repository of its own while it       *)
(* creates it and into one that is there afterwards, and of the             *)
(* transactions that have inserted a repository no two have one id or name. *)
(*                                                                          *)
(* KeysInv adds that the two columns of a credential are in a body          *)
(* together, which gives the refinement of AtomicCatalog                    *)
(* (RequestsAreAtomic): a commit is the whole request, every other step     *)
(* changes nothing that others see.                                         *)
(***************************************************************************)
EXTENDS Catalog, TLAPS

Creating == {"access", "s3", "rustic", "created"}
Places == Steps \cup Creating \cup {"idle", "upsert", "ready", "insert", "commit", "delete"}

\* The columns that a transaction has written.
Wrote(t) == CASE pc[t] = "s3" -> {"access"}
              [] pc[t] = "rustic" -> {"access"} \cup S3Columns
              [] pc[t] = "created" -> Columns
              [] OTHER -> body[t]

\* What a request knows and has written, by where it is.
Stage(t) ==
  /\ pc[t] \in {"idle", "upsert", "ready", "insert"} => repo[t] = 0
  /\ pc[t] \in {"idle", "upsert", "ready", "insert", "delete"} \cup Creating => body[t] = {}
  /\ pc[t] \in {"insert"} \cup Creating => name[t] \in Names
  /\ pc[t] \in Creating => repo[t] \in Id /\ table[repo[t]] = None
  /\ pc[t] \in Steps \cup {"commit", "delete"} => repo[t] \in Id /\ table[repo[t]] # None
  /\ \A c \in Columns : written[t][c] = IF c \in Wrote(t) THEN t ELSE None

StageInv == \A t \in Clients : Stage(t)

\* Of the repositories that are being created, no two have one id or one name.
ApartInv ==
  \A t, u \in Clients : pc[t] \in Creating /\ pc[u] \in Creating /\ t # u =>
    repo[t] # repo[u] /\ name[t] # name[u]

\* None has the name of one that is there.
FreeInv ==
  \A t \in Clients, i \in Id : pc[t] \in Creating /\ table[i] # None => table[i].name # name[t]

\* What was promised has every column.
PromiseInv ==
  \A i \in Id : table[i] # None => \A c \in Columns : promised[i][c] # None

RowsInv == ApartInv /\ FreeInv /\ PromiseInv /\ UpdatesSerial /\ NameOfOne

\* A request that is to write the user's row has something to write.
ClaimsInv == \A t \in Clients : pc[t] = "upsert" => claims[t] # None

CatalogInv == TypeOK /\ StageInv /\ RowsInv /\ ClaimsInv /\ OwnerThere

-------------------------------------------------------------------------------
\* The initial state satisfies the invariant.
LEMMA CatalogInitInv == Init => CatalogInv
<1> SUFFICES ASSUME Init PROVE CatalogInv
  OBVIOUS
<1> USE CatalogAssumption DEF Init
<1>1. TypeOK
  <2>1. NoRow \in Row
    BY DEF NoRow, Row
  <2>2. DefaultEndpoint \in DOMAIN Scheme
    BY DEF Scheme
  <2> QED
    BY <2>1, <2>2 DEF TypeOK
<1>2. StageInv
  BY DEF StageInv, Stage, Wrote, NoRow, Creating, Steps
<1>3. ApartInv /\ FreeInv
  BY DEF ApartInv, FreeInv, Creating
<1>4. PromiseInv /\ UpdatesSerial /\ NameOfOne
  BY DEF PromiseInv, UpdatesSerial, NameOfOne
<1>5. ClaimsInv /\ OwnerThere
  BY DEF ClaimsInv, OwnerThere
<1> QED
  BY <1>1, <1>2, <1>3, <1>4, <1>5 DEF CatalogInv, RowsInv

\* A transaction that ends leaves the other transactions' variables, and its own as they were at first.
LEMMA EndLeaves ==
  ASSUME TypeOK, NEW t \in Clients, End(t)
  PROVE  /\ pc'[t] = "idle" /\ repo'[t] = 0 /\ body'[t] = {} /\ written'[t] = NoRow /\ claims'[t] = None
         /\ \A u \in Clients : u # t => /\ pc'[u] = pc[u] /\ repo'[u] = repo[u] /\ name'[u] = name[u]
                                       /\ body'[u] = body[u] /\ written'[u] = written[u]
                                       /\ claims'[u] = claims[u]
BY DEF TypeOK, End, Goto

\* Its variables have their types.
LEMMA EndTypes ==
  ASSUME TypeOK, NEW t \in Clients, End(t)
  PROVE  /\ pc' \in [Clients -> Places]
         /\ repo' \in [Clients -> 0 .. MaxRepos] /\ name' \in [Clients -> Names \cup {None}]
         /\ claims' \in [Clients -> Claims \cup {None}] /\ endpoint' \in [Clients -> DOMAIN Scheme]
         /\ written' \in [Clients -> Row] /\ struct' \in [Clients -> Row]
         /\ body' \in [Clients -> SUBSET Columns]
<1>1. NoRow \in Row
  BY DEF NoRow, Row
<1>2. DefaultEndpoint \in DOMAIN Scheme
  BY DEF Scheme
<1>3. 0 \in 0 .. MaxRepos
  BY CatalogAssumption
<1> QED
  BY <1>1, <1>2, <1>3 DEF TypeOK, End, Goto, Places, Creating

\* So an end without a change of the repositories preserves what is said of them.
LEMMA EndStep ==
  ASSUME CatalogInv, NEW t \in Clients, End(t), table' = table, promised' = promised,
         user' \in Claims \cup {None}, refused' \subseteq DOMAIN Scheme,
         tokens' \in [1 .. MaxTokens -> Names \cup {None}]
  PROVE  TypeOK' /\ StageInv' /\ RowsInv'
<1> USE DEF CatalogInv, RowsInv
<1>1. TypeOK'
  BY EndTypes DEF TypeOK, Places, Creating
<1>2. \A u \in Clients : u # t =>
        /\ pc'[u] = pc[u] /\ repo'[u] = repo[u] /\ name'[u] = name[u]
        /\ body'[u] = body[u] /\ written'[u] = written[u]
  BY EndLeaves
<1>3. pc'[t] = "idle" /\ repo'[t] = 0 /\ body'[t] = {} /\ written'[t] = NoRow
  BY EndLeaves
<1>4. StageInv'
  <2> SUFFICES ASSUME NEW u \in Clients PROVE Stage(u)'
    BY DEF StageInv
  <2>1. CASE u = t
    BY <1>3, <2>1 DEF Stage, Wrote, Creating, Steps, NoRow
  <2>2. CASE u # t
    <3>1. Stage(u)
      BY DEF StageInv
    <3>2. Wrote(u)' = Wrote(u)
      BY <1>2, <2>2 DEF Wrote
    <3> QED
      BY <1>2, <2>2, <3>1, <3>2 DEF Stage
  <2> QED
    BY <2>1, <2>2
<1>5. ApartInv' /\ FreeInv'
  BY <1>2, <1>3 DEF ApartInv, FreeInv, Creating
<1>6. PromiseInv' /\ UpdatesSerial' /\ NameOfOne'
  BY DEF PromiseInv, UpdatesSerial, NameOfOne
<1> QED
  BY <1>1, <1>4, <1>5, <1>6

\* So does a step of a request that does not create a repository, before and after, and
\* changes only its own variables.
LEMMA OwnStep ==
  ASSUME CatalogInv, NEW t \in Clients, table' = table, promised' = promised,
         pc'[t] \notin Creating, Stage(t)',
         \A u \in Clients : u # t =>
           /\ pc'[u] = pc[u] /\ repo'[u] = repo[u] /\ name'[u] = name[u]
           /\ body'[u] = body[u] /\ written'[u] = written[u]
  PROVE  StageInv' /\ RowsInv'
<1> USE DEF CatalogInv, RowsInv
<1>1. StageInv'
  <2> SUFFICES ASSUME NEW u \in Clients, u # t PROVE Stage(u)'
    BY DEF StageInv
  <2>1. Stage(u)
    BY DEF StageInv
  <2>2. Wrote(u)' = Wrote(u)
    BY DEF Wrote
  <2> QED
    BY <2>1, <2>2 DEF Stage
<1>2. ApartInv' /\ FreeInv'
  BY DEF ApartInv, FreeInv
<1>3. PromiseInv' /\ UpdatesSerial' /\ NameOfOne'
  BY DEF PromiseInv, UpdatesSerial, NameOfOne
<1> QED
  BY <1>1, <1>2, <1>3

-------------------------------------------------------------------------------
\* Authentication only moves the request.
LEMMA AuthenticateStep ==
  ASSUME CatalogInv, NEW t \in Clients, Authenticate(t)
  PROVE  TypeOK' /\ StageInv' /\ RowsInv'
<1>1. TypeOK /\ Stage(t)
  BY DEF CatalogInv, StageInv
<1>2. /\ pc[t] \in {"idle", "upsert"}
      /\ \E p \in {"upsert", "ready"} : pc' = [pc EXCEPT ![t] = p]
      /\ claims' \in [Clients -> Claims \cup {None}]
      /\ UNCHANGED <<table, tokens, user, repo, name, endpoint, written, struct, refused, body, promised>>
  <2>1. CASE CheckDboxedToken(t) \/ CreateOrUpdate(t)
    BY <1>1, <2>1 DEF CheckDboxedToken, CreateOrUpdate, Goto, TypeOK
  <2>2. CASE CheckOidcToken(t)
    <3>1. PICK c \in Claims :
            /\ claims' = [claims EXCEPT ![t] = IF UserSays(c) THEN None ELSE c]
            /\ Goto(t, IF UserSays(c) THEN "ready" ELSE "upsert")
      BY <2>2 DEF CheckOidcToken
    <3>2. (IF UserSays(c) THEN None ELSE c) \in Claims \cup {None}
      OBVIOUS
    <3>3. claims' \in [Clients -> Claims \cup {None}]
      BY <1>1, <3>1, <3>2 DEF TypeOK
    <3>4. \E p \in {"upsert", "ready"} : pc' = [pc EXCEPT ![t] = p]
      BY <3>1 DEF Goto
    <3> QED
      BY <2>2, <3>3, <3>4 DEF CheckOidcToken
  <2> QED
    BY <2>1, <2>2 DEF Authenticate
<1>3. TypeOK'
  BY <1>1, <1>2 DEF TypeOK
<1>4. Stage(t)' /\ pc'[t] \notin Creating
  BY <1>1, <1>2 DEF TypeOK, Stage, Wrote, Creating, Steps
<1>5. \A u \in Clients : u # t => pc'[u] = pc[u]
  BY <1>1, <1>2 DEF TypeOK
<1> QED
  BY <1>2, <1>3, <1>4, <1>5, OwnStep

\* A POST that has not inserted anything only moves, too.
LEMMA BeginCreateStep ==
  ASSUME CatalogInv, NEW t \in Clients, BeginCreate(t)
  PROVE  TypeOK' /\ StageInv' /\ RowsInv'
<1>1. TypeOK /\ Stage(t)
  BY DEF CatalogInv, StageInv
<1>2. PICK n \in Names, e \in DOMAIN Scheme :
        /\ name' = [name EXCEPT ![t] = n] /\ endpoint' = [endpoint EXCEPT ![t] = e]
        /\ pc[t] = "ready" /\ pc' = [pc EXCEPT ![t] = "insert"]
        /\ UNCHANGED <<table, tokens, user, claims, repo, written, struct, refused, body, promised>>
  BY DEF BeginCreate, Goto
<1>3. TypeOK'
  BY <1>1, <1>2 DEF TypeOK
<1>4. Stage(t)' /\ pc'[t] \notin Creating
  BY <1>1, <1>2 DEF TypeOK, Stage, Wrote, Creating, Steps
<1>5. \A u \in Clients : u # t => pc'[u] = pc[u] /\ name'[u] = name[u]
  BY <1>1, <1>2 DEF TypeOK
<1> QED
  BY <1>2, <1>3, <1>4, <1>5, OwnStep

\* InsertRepository takes an id and a name that nobody else has.
LEMMA InsertRepositoryStep ==
  ASSUME CatalogInv, NEW t \in Clients, InsertRepository(t)
  PROVE  TypeOK' /\ StageInv' /\ RowsInv'
<1> USE DEF CatalogInv, RowsInv
<1>1. TypeOK /\ Stage(t)
  BY DEF StageInv
<1>2. PICK i \in Id : table[i] = None /\ (\A u \in Clients : repo[u] # i) /\ repo' = [repo EXCEPT ![t] = i]
  BY DEF InsertRepository
<1>3. /\ pc[t] = "insert" /\ Inserting(name[t]) = {} /\ ~NameTaken(name[t])
      /\ pc' = [pc EXCEPT ![t] = "access"]
      /\ UNCHANGED <<table, tokens, user, claims, name, endpoint, written, struct, refused, body, promised>>
  BY DEF InsertRepository, Goto
<1>4. TypeOK'
  BY <1>1, <1>2, <1>3 DEF TypeOK, Id
<1>5. \A u \in Clients : u # t => pc'[u] = pc[u] /\ repo'[u] = repo[u]
  BY <1>1, <1>2, <1>3 DEF TypeOK
<1>6. pc'[t] = "access" /\ repo'[t] = i
  BY <1>1, <1>2, <1>3 DEF TypeOK
<1>7. StageInv'
  <2> SUFFICES ASSUME NEW u \in Clients PROVE Stage(u)'
    BY DEF StageInv
  <2>1. CASE u = t
    BY <1>1, <1>2, <1>3, <1>6, <2>1 DEF Stage, Wrote, Creating, Steps
  <2>2. CASE u # t
    <3>1. Stage(u)
      BY DEF StageInv
    <3>2. Wrote(u)' = Wrote(u)
      BY <1>3, <1>5, <2>2 DEF Wrote
    <3> QED
      BY <1>3, <1>5, <2>2, <3>1, <3>2 DEF Stage
  <2> QED
    BY <2>1, <2>2
<1>8. \A u \in Clients : pc[u] \in Creating => name[u] # name[t]
  <2> SUFFICES ASSUME NEW u \in Clients, pc[u] \in Creating, name[u] = name[t] PROVE FALSE
    OBVIOUS
  <2>1. repo[u] # 0
    BY <1>1 DEF StageInv, Stage, Id
  <2> QED
    BY <1>3, <2>1 DEF Inserting
<1>9. ApartInv'
  BY <1>2, <1>3, <1>5, <1>6, <1>8 DEF ApartInv
<1>10. FreeInv'
  BY <1>3, <1>5, <1>6 DEF FreeInv, NameTaken
<1>11. PromiseInv' /\ UpdatesSerial' /\ NameOfOne'
  BY <1>3 DEF PromiseInv, UpdatesSerial, NameOfOne
<1> QED
  BY <1>4, <1>7, <1>9, <1>10, <1>11

\* A step of a request on its way to a repository of its own, which only it knows of.
LEMMA CreatingStep ==
  ASSUME CatalogInv, NEW t \in Clients, pc[t] \in Creating, pc'[t] \in Creating, Stage(t)',
         UNCHANGED <<table, repo, name, body, promised>>,
         \A u \in Clients : u # t => pc'[u] = pc[u] /\ written'[u] = written[u]
  PROVE  StageInv' /\ RowsInv'
<1> USE DEF CatalogInv, RowsInv
<1>1. StageInv'
  <2> SUFFICES ASSUME NEW u \in Clients, u # t PROVE Stage(u)'
    BY DEF StageInv
  <2>1. Stage(u)
    BY DEF StageInv
  <2>2. Wrote(u)' = Wrote(u)
    BY DEF Wrote
  <2> QED
    BY <2>1, <2>2 DEF Stage
<1>2. ApartInv' /\ FreeInv'
  BY DEF ApartInv, FreeInv
<1>3. PromiseInv' /\ UpdatesSerial' /\ NameOfOne'
  BY DEF PromiseInv, UpdatesSerial, NameOfOne
<1> QED
  BY <1>1, <1>2, <1>3

\* What InsertColumns writes.
LEMMA Inserted ==
  ASSUME TypeOK, NEW t \in Clients, NEW columns, InsertColumns(t, columns)
  PROVE  /\ written' \in [Clients -> Row]
         /\ \A u \in Clients : u # t => written'[u] = written[u]
         /\ \A c \in Columns : written'[t][c] = IF c \in columns THEN t ELSE written[t][c]
<1>1. [c \in Columns |-> IF c \in columns THEN t ELSE written[t][c]] \in Row
  BY DEF TypeOK, Row
<1> QED
  BY <1>1 DEF TypeOK, InsertColumns

LEMMA InsertAccessStep ==
  ASSUME CatalogInv, NEW t \in Clients, InsertAccess(t)
  PROVE  TypeOK' /\ StageInv' /\ RowsInv'
<1>1. TypeOK /\ Stage(t)
  BY DEF CatalogInv, StageInv
<1>2. /\ pc[t] = "access" /\ pc' = [pc EXCEPT ![t] = "s3"] /\ InsertColumns(t, {"access"})
      /\ UNCHANGED <<table, tokens, user, claims, repo, name, endpoint, struct, refused, body, promised>>
  BY DEF InsertAccess, Goto
<1>3. TypeOK'
  BY <1>1, <1>2, Inserted DEF TypeOK
<1>4. pc'[t] = "s3" /\ \A u \in Clients : u # t => pc'[u] = pc[u]
  BY <1>1, <1>2 DEF TypeOK
<1>5. Stage(t)'
  BY <1>1, <1>2, <1>4, Inserted DEF Stage, Wrote, Creating, Steps
<1> QED
  BY <1>1, <1>2, <1>3, <1>4, <1>5, Inserted, CreatingStep DEF Creating

LEMMA InsertS3Step ==
  ASSUME CatalogInv, NEW t \in Clients, InsertS3(t)
  PROVE  TypeOK' /\ StageInv' /\ RowsInv'
<1>1. TypeOK /\ Stage(t)
  BY DEF CatalogInv, StageInv
<1>2. /\ pc[t] = "s3" /\ pc' = [pc EXCEPT ![t] = "rustic"] /\ InsertColumns(t, S3Columns)
      /\ UNCHANGED <<table, tokens, user, claims, repo, name, endpoint, struct, refused, body, promised>>
  BY DEF InsertS3, Goto
<1>3. TypeOK'
  BY <1>1, <1>2, Inserted DEF TypeOK
<1>4. pc'[t] = "rustic" /\ \A u \in Clients : u # t => pc'[u] = pc[u]
  BY <1>1, <1>2 DEF TypeOK
<1>5. Stage(t)'
  BY <1>1, <1>2, <1>4, Inserted DEF Stage, Wrote, Creating, Steps
<1> QED
  BY <1>1, <1>2, <1>3, <1>4, <1>5, Inserted, CreatingStep DEF Creating

LEMMA InsertRusticStep ==
  ASSUME CatalogInv, NEW t \in Clients, InsertRustic(t)
  PROVE  TypeOK' /\ StageInv' /\ RowsInv'
<1>1. TypeOK /\ Stage(t)
  BY DEF CatalogInv, StageInv
<1>2. /\ pc[t] = "rustic" /\ pc' = [pc EXCEPT ![t] = "created"] /\ InsertColumns(t, {"password"})
      /\ UNCHANGED <<table, tokens, user, claims, repo, name, endpoint, struct, refused, body, promised>>
  BY DEF InsertRustic, Goto
<1>3. TypeOK'
  BY <1>1, <1>2, Inserted DEF TypeOK
<1>4. pc'[t] = "created" /\ \A u \in Clients : u # t => pc'[u] = pc[u]
  BY <1>1, <1>2 DEF TypeOK
<1>5. Stage(t)'
  BY <1>1, <1>2, <1>4, Inserted DEF Stage, Wrote, Creating, Steps, Columns
<1> QED
  BY <1>1, <1>2, <1>3, <1>4, <1>5, Inserted, CreatingStep DEF Creating

-------------------------------------------------------------------------------
\* Committing a POST: a whole repository under a free name.
LEMMA CommitCreateStep ==
  ASSUME CatalogInv, NEW t \in Clients, CommitCreate(t)
  PROVE  TypeOK' /\ StageInv' /\ RowsInv'
<1> USE DEF CatalogInv, RowsInv
<1> DEFINE r == repo[t]
           new == [name |-> name[t], deleted |-> FALSE, row |-> written[t]]
<1>1. TypeOK /\ Stage(t) /\ pc[t] = "created"
  BY DEF StageInv, CommitCreate
<1>2. r \in Id /\ table[r] = None /\ name[t] \in Names /\ \A c \in Columns : written[t][c] = t
  BY <1>1 DEF Stage, Wrote, Creating
<1>3. new \in Repository /\ new # None
  <2>1. written[t] \in Row
    BY <1>1 DEF TypeOK
  <2>2. new \in Repository
    BY <1>2, <2>1 DEF Repository
  <2>3. None \notin Repository
    BY NoRepositoryAssumption
  <2> HIDE DEF new
  <2> QED
    BY <2>2, <2>3
<1>4. /\ table' = [table EXCEPT ![r] = new] /\ promised' = [promised EXCEPT ![r] = [c \in Columns |-> t]]
      /\ End(t) /\ user' \in Claims \cup {None} /\ UNCHANGED <<tokens, refused>>
  BY <1>1 DEF CommitCreate, Commit, TypeOK
<1>5. table'[r] = new /\ \A i \in Id : i # r => table'[i] = table[i] /\ promised'[i] = promised[i]
  BY <1>1, <1>2, <1>4 DEF TypeOK
<1>6. promised'[r] = [c \in Columns |-> t]
  BY <1>1, <1>2, <1>4 DEF TypeOK
<1>7. TypeOK'
  <2>1. [c \in Columns |-> t] \in Row
    BY DEF Row
  <2> QED
    BY <1>1, <1>3, <1>4, <2>1, EndTypes DEF TypeOK, Places, Creating
<1>8. \A u \in Clients : u # t =>
        /\ pc'[u] = pc[u] /\ repo'[u] = repo[u] /\ name'[u] = name[u]
        /\ body'[u] = body[u] /\ written'[u] = written[u]
  BY <1>1, <1>4, EndLeaves
<1>9. pc'[t] = "idle" /\ repo'[t] = 0 /\ body'[t] = {} /\ written'[t] = NoRow
  BY <1>1, <1>4, EndLeaves
<1>10. StageInv'
  <2> SUFFICES ASSUME NEW u \in Clients PROVE Stage(u)'
    BY DEF StageInv
  <2>1. CASE u = t
    BY <1>9, <2>1 DEF Stage, Wrote, Creating, Steps, NoRow
  <2>2. CASE u # t
    <3>1. Stage(u)
      BY DEF StageInv
    <3>2. Wrote(u)' = Wrote(u)
      BY <1>8, <2>2 DEF Wrote
    <3>3. pc[u] \in Creating => repo[u] # r
      BY <1>1, <2>2 DEF ApartInv, Creating
    <3> QED
      BY <1>2, <1>3, <1>5, <1>8, <2>2, <3>1, <3>2, <3>3 DEF Stage
  <2> QED
    BY <2>1, <2>2
<1>11. ApartInv'
  BY <1>8, <1>9 DEF ApartInv, Creating
<1>12. \A i \in Id : table[i] # None => table[i].name # name[t]
  BY <1>1 DEF FreeInv, Creating
<1>13. FreeInv'
  <2> SUFFICES ASSUME NEW u \in Clients, NEW i \in Id, pc'[u] \in Creating, table'[i] # None
               PROVE  table'[i].name # name'[u]
    BY DEF FreeInv
  <2>1. u # t
    BY <1>9 DEF Creating
  <2>2. CASE i = r
    BY <1>1, <1>5, <1>8, <2>1, <2>2 DEF ApartInv, Creating
  <2>3. CASE i # r
    BY <1>5, <1>8, <2>1, <2>3 DEF FreeInv
  <2> QED
    BY <2>2, <2>3
<1>14. NameOfOne'
  <2> SUFFICES ASSUME NEW i \in Id, NEW j \in Id, table'[i] # None, table'[j] # None,
                      table'[i].name = table'[j].name
               PROVE  i = j
    BY DEF NameOfOne
  <2> QED
    BY <1>5, <1>12 DEF NameOfOne
<1>15. written[t] = [c \in Columns |-> t]
  BY <1>1, <1>2 DEF TypeOK, Row
<1>16. UpdatesSerial' /\ PromiseInv'
  <2>1. \A c \in Columns : promised'[r][c] # None
    BY <1>6, CatalogAssumption
  <2> QED
    BY <1>5, <1>6, <1>15, <2>1 DEF UpdatesSerial, PromiseInv
<1> QED
  BY <1>7, <1>10, <1>11, <1>13, <1>14, <1>16

-------------------------------------------------------------------------------
\* Find begins a PATCH or a DELETE with a repository that is there.
LEMMA FindStep ==
  ASSUME CatalogInv, NEW t \in Clients, NEW i \in Id, NEW step \in {"endpoint", "delete"}, Find(t, i, step)
  PROVE  TypeOK' /\ StageInv' /\ RowsInv'
<1>1. TypeOK /\ Stage(t)
  BY DEF CatalogInv, StageInv
<1>2. /\ pc[t] = "ready" /\ table[i] # None
      /\ repo' = [repo EXCEPT ![t] = i] /\ struct' = [struct EXCEPT ![t] = table[i].row]
      /\ pc' = [pc EXCEPT ![t] = step]
      /\ UNCHANGED <<table, tokens, user, claims, name, endpoint, written, refused, body, promised>>
  BY DEF Find, Goto
<1>3. TypeOK'
  <2>1. table[i] \in Repository
    BY <1>1, <1>2 DEF TypeOK
  <2>2. table[i].row \in Row
    BY <2>1 DEF Repository
  <2>3. pc' \in [Clients -> Places] /\ struct' \in [Clients -> Row] /\ repo' \in [Clients -> 0 .. MaxRepos]
    BY <1>1, <1>2, <2>2 DEF TypeOK, Places, Creating, Steps, Id
  <2> QED
    BY <1>1, <1>2, <2>3 DEF TypeOK, Places, Creating
<1>4. Stage(t)' /\ pc'[t] \notin Creating
  BY <1>1, <1>2 DEF TypeOK, Stage, Wrote, Creating, Steps
<1>5. \A u \in Clients : u # t => pc'[u] = pc[u] /\ repo'[u] = repo[u]
  BY <1>1, <1>2 DEF TypeOK
<1> QED
  BY <1>2, <1>3, <1>4, <1>5, OwnStep

\* A field that the body has not got.
LEMMA SkipStep ==
  ASSUME CatalogInv, NEW t \in Clients, Skip(t)
  PROVE  TypeOK' /\ StageInv' /\ RowsInv'
<1>1. TypeOK /\ Stage(t)
  BY DEF CatalogInv, StageInv
<1>2. /\ pc[t] \in Steps /\ pc' = [pc EXCEPT ![t] = After[pc[t]]]
      /\ UNCHANGED <<table, tokens, user, claims, repo, name, endpoint, written, struct, refused, body, promised>>
  BY DEF Skip, Goto
<1>3. After[pc[t]] \in Steps \cup {"commit"}
  BY <1>2 DEF After, Steps
<1>4. TypeOK'
  BY <1>1, <1>2, <1>3 DEF TypeOK
<1>5. Stage(t)' /\ pc'[t] \notin Creating
  BY <1>1, <1>2, <1>3 DEF TypeOK, Stage, Wrote, Creating, Steps
<1>6. \A u \in Clients : u # t => pc'[u] = pc[u]
  BY <1>1, <1>2 DEF TypeOK
<1> QED
  BY <1>2, <1>4, <1>5, <1>6, OwnStep

\* A field that it has is written as its column, and no other is.
LEMMA UpdateFieldStep ==
  ASSUME CatalogInv, NEW t \in Clients, UpdateField(t)
  PROVE  TypeOK' /\ StageInv' /\ RowsInv'
<1> DEFINE F == Fields(pc[t])
<1>1. TypeOK /\ Stage(t)
  BY DEF CatalogInv, StageInv
<1>2. /\ pc[t] \in Steps /\ pc' = [pc EXCEPT ![t] = After[pc[t]]]
      /\ struct' = [struct EXCEPT ![t] = [c \in Columns |-> IF c \in F THEN t ELSE @[c]]]
      /\ written' = [written EXCEPT ![t] = [c \in Columns |-> IF c \in F THEN t ELSE @[c]]]
      /\ body' = [body EXCEPT ![t] = @ \cup F]
      /\ UNCHANGED <<table, tokens, user, claims, repo, name, endpoint, refused, promised>>
  BY DEF UpdateField, Goto
<1>3. After[pc[t]] \in Steps \cup {"commit"}
  BY <1>2 DEF After, Steps
<1>4. F \subseteq Columns
  BY <1>2 DEF Fields, Steps, Columns, S3Columns
<1> HIDE DEF F
<1>5. \A row \in Row : [c \in Columns |-> IF c \in F THEN t ELSE row[c]] \in Row
  BY DEF Row
<1>6. pc' \in [Clients -> Places] /\ struct' \in [Clients -> Row] /\ written' \in [Clients -> Row]
  BY <1>1, <1>2, <1>3, <1>5 DEF TypeOK, Places, Creating
<1>7. body' \in [Clients -> SUBSET Columns]
  BY <1>1, <1>2, <1>4 DEF TypeOK
<1>8. TypeOK'
  BY <1>1, <1>2, <1>6, <1>7 DEF TypeOK, Places, Creating
<1>9. pc'[t] = After[pc[t]] /\ body'[t] = body[t] \cup F
  BY <1>1, <1>2 DEF TypeOK
<1>10. \A c \in Columns : written'[t][c] = IF c \in F THEN t ELSE written[t][c]
  BY <1>1, <1>2 DEF TypeOK
<1>11. \A c \in Columns : written'[t][c] = IF c \in body'[t] THEN t ELSE None
  BY <1>1, <1>2, <1>9, <1>10 DEF Stage, Wrote, Steps
<1>12. Stage(t)' /\ pc'[t] \notin Creating
  BY <1>1, <1>2, <1>3, <1>9, <1>11 DEF Stage, Wrote, Creating, Steps
<1>13. \A u \in Clients : u # t => pc'[u] = pc[u] /\ written'[u] = written[u] /\ body'[u] = body[u]
  BY <1>1, <1>2 DEF TypeOK
<1> QED
  BY <1>2, <1>8, <1>12, <1>13, OwnStep

-------------------------------------------------------------------------------
\* A repository changes in its columns, or is marked: it keeps its name and stays there.
LEMMA RepositoryChanges ==
  ASSUME CatalogInv, NEW t \in Clients, End(t),
         \A i \in Id : table'[i] = None <=> table[i] = None,
         \A i \in Id : table[i] # None => table'[i].name = table[i].name
  PROVE  StageInv' /\ ApartInv' /\ FreeInv' /\ NameOfOne'
<1> USE DEF CatalogInv, RowsInv
<1>1. TypeOK
  OBVIOUS
<1>2. \A u \in Clients : u # t =>
        /\ pc'[u] = pc[u] /\ repo'[u] = repo[u] /\ name'[u] = name[u]
        /\ body'[u] = body[u] /\ written'[u] = written[u]
  BY <1>1, EndLeaves
<1>3. pc'[t] = "idle" /\ repo'[t] = 0 /\ body'[t] = {} /\ written'[t] = NoRow
  BY <1>1, EndLeaves
<1>4. StageInv'
  <2> SUFFICES ASSUME NEW u \in Clients PROVE Stage(u)'
    BY DEF StageInv
  <2>1. CASE u = t
    BY <1>3, <2>1 DEF Stage, Wrote, Creating, Steps, NoRow
  <2>2. CASE u # t
    <3>1. Stage(u)
      BY DEF StageInv
    <3>2. Wrote(u)' = Wrote(u)
      BY <1>2, <2>2 DEF Wrote
    <3> QED
      BY <1>2, <2>2, <3>1, <3>2 DEF Stage
  <2> QED
    BY <2>1, <2>2
<1>5. ApartInv'
  BY <1>2, <1>3 DEF ApartInv, Creating
<1>6. FreeInv'
  BY <1>2, <1>3 DEF FreeInv, Creating
<1>7. NameOfOne'
  BY DEF NameOfOne
<1> QED
  BY <1>4, <1>5, <1>6, <1>7

\* A repository that is replaced by one of its name is such a change.
LEMMA Replaced ==
  ASSUME TypeOK, NEW r \in Id, table[r] # None, NEW new \in Repository, new.name = table[r].name,
         table' = [table EXCEPT ![r] = new]
  PROVE  /\ \A i \in Id : table'[i] = None <=> table[i] = None
         /\ \A i \in Id : table[i] # None => table'[i].name = table[i].name
<1>1. new # None
  BY NoRepositoryAssumption
<1> QED
  BY <1>1 DEF TypeOK

\* Committing a PATCH: the columns of its body, and no others.
LEMMA CommitUpdateStep ==
  ASSUME CatalogInv, NEW t \in Clients, CommitUpdate(t)
  PROVE  TypeOK' /\ StageInv' /\ RowsInv'
<1> DEFINE r == repo[t]
           row == Over(written[t], table[r].row)
           new == [table[r] EXCEPT !.row = row]
           asked == [c \in Columns |-> IF c \in body[t] THEN t ELSE promised[r][c]]
<1>1. TypeOK /\ Stage(t) /\ pc[t] = "commit" /\ UpdatesSerial /\ PromiseInv
  BY DEF StageInv, CommitUpdate, CatalogInv, RowsInv
<1>2. r \in Id /\ table[r] # None
  BY <1>1 DEF Stage
<1>3. table[r] \in Repository /\ written[t] \in Row /\ promised[r] \in Row
  BY <1>1, <1>2 DEF TypeOK
<1>4. table[r].row \in Row
  BY <1>3 DEF Repository
<1>5. row \in Row
  BY <1>3, <1>4 DEF Over, Row
<1>6. row = asked
  <2>1. \A c \in Columns : written[t][c] = IF c \in body[t] THEN t ELSE None
    BY <1>1 DEF Stage, Wrote
  <2>2. table[r].row = promised[r]
    BY <1>1, <1>2 DEF UpdatesSerial
  <2>3. t # None
    BY CatalogAssumption
  <2> QED
    BY <2>1, <2>2, <2>3 DEF Over
<1> HIDE DEF row
<1>7. new \in Repository /\ new.name = table[r].name /\ new.row = row
  BY <1>3, <1>5 DEF Repository
<1>8. /\ table' = [table EXCEPT ![r] = new] /\ promised' = [promised EXCEPT ![r] = asked]
      /\ End(t) /\ user' \in Claims \cup {None} /\ UNCHANGED <<tokens, refused>>
  BY <1>1 DEF CommitUpdate, Commit, TypeOK, row
<1> HIDE DEF new, asked
<1>9. TypeOK'
  <2>1. asked \in Row
    BY <1>5, <1>6
  <2> QED
    BY <1>1, <1>2, <1>7, <1>8, <2>1, EndTypes DEF TypeOK, Places, Creating
<1>10. StageInv' /\ ApartInv' /\ FreeInv' /\ NameOfOne'
  BY <1>1, <1>2, <1>7, <1>8, Replaced, RepositoryChanges
<1>11. table'[r] = new /\ promised'[r] = asked
  BY <1>1, <1>2, <1>8 DEF TypeOK
<1>12. \A i \in Id : i # r => table'[i] = table[i] /\ promised'[i] = promised[i]
  BY <1>1, <1>2, <1>8 DEF TypeOK
<1>13. UpdatesSerial'
  BY <1>1, <1>6, <1>7, <1>11, <1>12 DEF UpdatesSerial
<1>14. PromiseInv'
  <2>1. \A c \in Columns : asked[c] # None
    BY <1>1, <1>2, CatalogAssumption DEF PromiseInv, asked
  <2> QED
    BY <1>1, <1>11, <1>12, <2>1 DEF PromiseInv
<1> QED
  BY <1>9, <1>10, <1>13, <1>14 DEF RowsInv

\* Marking a repository leaves its name and its columns.
LEMMA SoftDeleteStep ==
  ASSUME CatalogInv, NEW t \in Clients, SoftDelete(t)
  PROVE  TypeOK' /\ StageInv' /\ RowsInv'
<1> DEFINE r == repo[t]
           new == [table[r] EXCEPT !.deleted = TRUE]
<1>1. TypeOK /\ Stage(t) /\ pc[t] = "delete" /\ UpdatesSerial /\ PromiseInv
  BY DEF StageInv, SoftDelete, CatalogInv, RowsInv
<1>2. r \in Id /\ table[r] # None
  BY <1>1 DEF Stage
<1>3. table[r] \in Repository
  BY <1>1, <1>2 DEF TypeOK
<1>4. new \in Repository /\ new.name = table[r].name /\ new.row = table[r].row
  BY <1>3 DEF Repository
<1>5. /\ table' = [table EXCEPT ![r] = new]
      /\ End(t) /\ user' \in Claims \cup {None} /\ UNCHANGED <<tokens, refused, promised>>
  BY <1>1 DEF SoftDelete, Commit, TypeOK
<1> HIDE DEF new
<1>6. TypeOK'
  BY <1>1, <1>2, <1>4, <1>5, EndTypes DEF TypeOK, Places, Creating
<1>7. StageInv' /\ ApartInv' /\ FreeInv' /\ NameOfOne'
  BY <1>1, <1>2, <1>4, <1>5, Replaced, RepositoryChanges
<1>8. table'[r] = new /\ \A i \in Id : i # r => table'[i] = table[i]
  BY <1>1, <1>2, <1>5 DEF TypeOK
<1>9. UpdatesSerial' /\ PromiseInv'
  BY <1>1, <1>2, <1>4, <1>5, <1>8 DEF UpdatesSerial, PromiseInv
<1> QED
  BY <1>6, <1>7, <1>9 DEF RowsInv

-------------------------------------------------------------------------------
\* A handler that runs and succeeds leaves the user's row there.
LEMMA CommitOwner ==
  ASSUME CatalogInv, NEW t \in Clients, pc[t] \notin {"idle", "upsert"}, Commit(t)
  PROVE  ClaimsInv' /\ OwnerThere'
<1>1. TypeOK /\ ClaimsInv /\ OwnerThere
  BY DEF CatalogInv
<1>2. user' # None
  BY <1>1 DEF Commit, OwnerThere
<1>3. ClaimsInv'
  BY <1>1, EndLeaves DEF Commit, ClaimsInv
<1> QED
  BY <1>2, <1>3 DEF OwnerThere

\* One that fails takes only its own changes with it.
LEMMA RollbackOwner ==
  ASSUME CatalogInv, NEW t \in Clients, Rollback(t), UNCHANGED <<table, tokens>>
  PROVE  ClaimsInv' /\ OwnerThere'
<1>1. TypeOK /\ ClaimsInv /\ OwnerThere
  BY DEF CatalogInv
<1>2. End(t) /\ user' = user
  BY DEF Rollback
<1>3. pc'[t] = "idle" /\ \A u \in Clients : u # t => pc'[u] = pc[u] /\ claims'[u] = claims[u]
  BY <1>1, <1>2, EndLeaves
<1> QED
  BY <1>1, <1>2, <1>3 DEF ClaimsInv, OwnerThere

\* A handler is only begun for a user whose row is there, or written by itself.
LEMMA AuthenticateOwner ==
  ASSUME CatalogInv, NEW t \in Clients, Authenticate(t)
  PROVE  ClaimsInv' /\ OwnerThere'
<1>1. TypeOK /\ ClaimsInv /\ OwnerThere
  BY DEF CatalogInv
<1>2. CASE CheckDboxedToken(t)
  <2>1. user # None
    BY <1>1, <1>2 DEF CheckDboxedToken, OwnerThere
  <2> QED
    BY <1>1, <1>2, <2>1 DEF CheckDboxedToken, Goto, TypeOK, ClaimsInv, OwnerThere
<1>3. CASE CheckOidcToken(t)
  <2>1. PICK c \in Claims :
          /\ claims' = [claims EXCEPT ![t] = IF UserSays(c) THEN None ELSE c]
          /\ pc' = [pc EXCEPT ![t] = IF UserSays(c) THEN "ready" ELSE "upsert"]
    BY <1>3 DEF CheckOidcToken, Goto
  <2>2. UNCHANGED <<table, tokens, user>>
    BY <1>3 DEF CheckOidcToken
  <2>3. c # None
    BY CatalogAssumption
  <2>4. \A u \in Clients : u # t => pc'[u] = pc[u] /\ claims'[u] = claims[u]
    BY <1>1, <2>1 DEF TypeOK
  <2>5. CASE UserSays(c)
    <3>1. pc'[t] = "ready" /\ user # None
      BY <1>1, <2>1, <2>3, <2>5 DEF TypeOK, UserSays
    <3> QED
      BY <1>1, <2>2, <2>4, <3>1 DEF ClaimsInv, OwnerThere
  <2>6. CASE ~UserSays(c)
    <3>1. pc'[t] = "upsert" /\ claims'[t] = c
      BY <1>1, <2>1, <2>6 DEF TypeOK
    <3> QED
      BY <1>1, <2>2, <2>3, <2>4, <3>1 DEF ClaimsInv, OwnerThere
  <2> QED
    BY <2>5, <2>6
<1>4. CASE CreateOrUpdate(t)
  BY <1>1, <1>4 DEF CreateOrUpdate, Goto, TypeOK, ClaimsInv, OwnerThere
<1> QED
  BY <1>2, <1>3, <1>4 DEF Authenticate

\* The statements of a handler, between its beginning and its end, have nothing to do with it.
LEMMA HandlerOwner ==
  ASSUME CatalogInv, NEW t \in Clients, pc[t] \notin {"idle", "upsert"},
         NEW p, p # "upsert", Goto(t, p), UNCHANGED <<table, tokens, user, claims>>
  PROVE  ClaimsInv' /\ OwnerThere'
BY DEF CatalogInv, Goto, TypeOK, ClaimsInv, OwnerThere

-------------------------------------------------------------------------------
\* Every step preserves the invariant.
LEMMA CatalogStep == CatalogInv /\ [Next]_vars => CatalogInv'
<1> SUFFICES ASSUME CatalogInv, [Next]_vars PROVE CatalogInv'
  OBVIOUS
<1> DEFINE Kept == TypeOK' /\ StageInv' /\ RowsInv'
           Owned == ClaimsInv' /\ OwnerThere'
<1> SUFFICES Kept /\ Owned
  BY DEF CatalogInv
<1>1. TypeOK
  BY DEF CatalogInv
<1>2. ASSUME NEW t \in Clients, Authenticate(t) PROVE Kept /\ Owned
  BY <1>2, AuthenticateStep, AuthenticateOwner
<1>3. ASSUME NEW t \in Clients, Get(t) \/ CreateToken(t) \/ DeleteToken(t) PROVE Kept /\ Owned
  <2>1. /\ pc[t] = "ready" /\ Commit(t) /\ UNCHANGED <<table, refused, promised>>
        /\ tokens' \in [1 .. MaxTokens -> Names \cup {None}]
    BY <1>1, <1>3 DEF Get, CreateToken, DeleteToken, TypeOK
  <2>2. End(t) /\ user' \in Claims \cup {None} /\ refused' \subseteq DOMAIN Scheme
    BY <1>1, <2>1 DEF Commit, TypeOK
  <2> QED
    BY <2>1, <2>2, EndStep, CommitOwner
<1>4. ASSUME NEW t \in Clients, Create(t) PROVE Kept /\ Owned
  <2>1. CASE BeginCreate(t)
    BY <2>1, BeginCreateStep, HandlerOwner DEF BeginCreate
  <2>2. CASE InsertRepository(t)
    BY <2>2, InsertRepositoryStep, HandlerOwner DEF InsertRepository
  <2>3. CASE InsertAccess(t)
    BY <2>3, InsertAccessStep, HandlerOwner DEF InsertAccess
  <2>4. CASE InsertS3(t)
    BY <2>4, InsertS3Step, HandlerOwner DEF InsertS3
  <2>5. CASE RefuseEndpoint(t)
    <3>1. /\ End(t) /\ Rollback(t) /\ UNCHANGED <<table, tokens, user, promised>>
          /\ refused' \subseteq DOMAIN Scheme
      BY <1>1, <2>5 DEF RefuseEndpoint, Rollback, TypeOK
    <3>2. user' \in Claims \cup {None} /\ tokens' \in [1 .. MaxTokens -> Names \cup {None}]
      BY <1>1, <3>1 DEF TypeOK
    <3> QED
      BY <3>1, <3>2, EndStep, RollbackOwner
  <2>6. CASE InsertRustic(t)
    BY <2>6, InsertRusticStep, HandlerOwner DEF InsertRustic
  <2>7. CASE CommitCreate(t)
    BY <2>7, CommitCreateStep, CommitOwner DEF CommitCreate
  <2> QED
    BY <1>4, <2>1, <2>2, <2>3, <2>4, <2>5, <2>6, <2>7 DEF Create
<1>5. ASSUME NEW t \in Clients, NEW i \in Id, Find(t, i, "endpoint") \/ Find(t, i, "delete") PROVE Kept /\ Owned
  BY <1>5, FindStep, HandlerOwner DEF Find
<1>6. ASSUME NEW t \in Clients, Update(t) PROVE Kept /\ Owned
  <2>1. CASE Skip(t)
    <3>1. pc[t] \notin {"idle", "upsert"} /\ After[pc[t]] # "upsert"
      BY <2>1 DEF Skip, Steps, After
    <3> QED
      BY <2>1, <3>1, SkipStep, HandlerOwner DEF Skip
  <2>2. CASE UpdateField(t)
    <3>1. pc[t] \notin {"idle", "upsert"} /\ After[pc[t]] # "upsert"
      BY <2>2 DEF UpdateField, Steps, After
    <3> QED
      BY <2>2, <3>1, UpdateFieldStep, HandlerOwner DEF UpdateField
  <2>3. CASE CommitUpdate(t)
    BY <2>3, CommitUpdateStep, CommitOwner DEF CommitUpdate
  <2> QED
    BY <1>5, <1>6, <2>1, <2>2, <2>3 DEF Update
<1>7. ASSUME NEW t \in Clients, Delete(t) PROVE Kept /\ Owned
  <2>1. CASE SoftDelete(t)
    BY <2>1, SoftDeleteStep, CommitOwner DEF SoftDelete
  <2> QED
    BY <1>5, <1>7, <2>1 DEF Delete
<1>8. ASSUME NEW t \in Clients, Fail(t) PROVE Kept /\ Owned
  <2>1. /\ End(t) /\ Rollback(t) /\ UNCHANGED <<table, tokens, user, refused, promised>>
    BY <1>8 DEF Fail, Rollback
  <2>2. /\ user' \in Claims \cup {None} /\ tokens' \in [1 .. MaxTokens -> Names \cup {None}]
        /\ refused' \subseteq DOMAIN Scheme
    BY <1>1, <2>1 DEF TypeOK
  <2> QED
    BY <2>1, <2>2, EndStep, RollbackOwner
<1>9. CASE UNCHANGED vars
  <2>1. UNCHANGED <<table, tokens, user, pc, claims, repo, name, endpoint, written, struct, refused, body, promised>>
    BY <1>9 DEF vars
  <2>2. TypeOK'
    BY <1>1, <2>1 DEF TypeOK
  <2>3. StageInv'
    BY <2>1 DEF CatalogInv, StageInv, Stage, Wrote
  <2>4. RowsInv'
    BY <2>1 DEF CatalogInv, RowsInv, ApartInv, FreeInv, PromiseInv, UpdatesSerial, NameOfOne
  <2>5. Owned
    BY <2>1 DEF CatalogInv, ClaimsInv, OwnerThere
  <2> QED
    BY <2>2, <2>3, <2>4, <2>5
<1> QED
  BY <1>2, <1>3, <1>4, <1>6, <1>7, <1>8, <1>9 DEF Next

\* The invariant holds in every state.
LEMMA CatalogInvariant == Spec => []CatalogInv
<1> QED
  BY CatalogInitInv, CatalogStep, PTL DEF Spec

-------------------------------------------------------------------------------
\* Type correctness.
THEOREM CatalogTypeCorrect == Spec => []TypeOK
<1>1. CatalogInv => TypeOK
  BY DEF CatalogInv
<1> QED
  BY <1>1, CatalogInvariant, PTL

\* The configuration of a repository is that of whole requests, one after the other, whatever
\* statements of restCreateRepository and doUpdateRepository fail.
THEOREM UpdatesAreSerial == Spec => []UpdatesSerial
<1>1. CatalogInv => UpdatesSerial
  BY DEF CatalogInv, RowsInv
<1> QED
  BY <1>1, CatalogInvariant, PTL

\* A repository that is there has all its rows and columns.
THEOREM RepositoriesAreWhole == Spec => []RepositoriesWhole
<1>1. CatalogInv => RepositoriesWhole
  BY DEF CatalogInv, RowsInv, UpdatesSerial, PromiseInv, RepositoriesWhole
<1> QED
  BY <1>1, CatalogInvariant, PTL

\* A name leads to one repository.
THEOREM NamesAreUnique == Spec => []NameOfOne
<1>1. CatalogInv => NameOfOne
  BY DEF CatalogInv, RowsInv
<1> QED
  BY <1>1, CatalogInvariant, PTL

\* Repositories, tokens and handlers have the user they refer to.
THEOREM OwnersAreThere == Spec => []OwnerThere
<1>1. CatalogInv => OwnerThere
  BY DEF CatalogInv
<1> QED
  BY <1>1, CatalogInvariant, PTL

-------------------------------------------------------------------------------
\* Catalog implements AtomicCatalog.  The mapping leaves the tables as they are; what the steps
\* need besides CatalogInv is that a body has both keys or neither.
KeyPair == {"accessKeyId", "secretAccessKey"}

KeysInv == \A t \in Clients : body[t] \cap KeyPair \in {{}, KeyPair}

\* The fields of the bodies grow by both keys at once.
LEMMA KeysStep == CatalogInv /\ KeysInv /\ [Next]_vars => KeysInv'
<1> SUFFICES ASSUME CatalogInv, KeysInv, [Next]_vars PROVE KeysInv'
  OBVIOUS
<1>1. TypeOK
  BY DEF CatalogInv
<1>2. ASSUME NEW t \in Clients, End(t) PROVE KeysInv'
  BY <1>1, <1>2, EndLeaves DEF KeysInv
<1>3. ASSUME UNCHANGED body PROVE KeysInv'
  BY <1>3 DEF KeysInv
<1>4. ASSUME NEW t \in Clients, UpdateField(t) PROVE KeysInv'
  <2>1. Fields(pc[t]) \cap KeyPair \in {{}, KeyPair}
    BY <1>4 DEF UpdateField, Steps, Fields, KeyPair
  <2>2. body' = [body EXCEPT ![t] = @ \cup Fields(pc[t])]
    BY <1>4 DEF UpdateField
  <2>3. body'[t] = body[t] \cup Fields(pc[t]) /\ \A u \in Clients : u # t => body'[u] = body[u]
    BY <1>1, <2>2 DEF TypeOK
  <2>4. body[t] \cap KeyPair \in {{}, KeyPair}
    BY DEF KeysInv
  <2>5. body'[t] \cap KeyPair = (body[t] \cap KeyPair) \cup (Fields(pc[t]) \cap KeyPair)
    BY <2>3
  <2>6. body'[t] \cap KeyPair \in {{}, KeyPair}
    BY <2>1, <2>4, <2>5
  <2> QED
    BY <2>3, <2>6 DEF KeysInv
<1>5. ASSUME NEW t \in Clients, Authenticate(t) PROVE KeysInv'
  BY <1>3, <1>5 DEF Authenticate, CheckDboxedToken, CheckOidcToken, CreateOrUpdate
<1>6. ASSUME NEW t \in Clients, Create(t) PROVE KeysInv'
  BY <1>2, <1>3, <1>6 DEF Create, BeginCreate, InsertRepository, InsertAccess, InsertS3,
                          RefuseEndpoint, InsertRustic, CommitCreate, Commit, Rollback
<1>7. ASSUME NEW t \in Clients, Update(t) PROVE KeysInv'
  BY <1>2, <1>3, <1>4, <1>7 DEF Update, Find, Skip, CommitUpdate, Commit
<1>8. ASSUME NEW t \in Clients, Delete(t) \/ Get(t) \/ Fail(t) \/ CreateToken(t) \/ DeleteToken(t)
      PROVE KeysInv'
  BY <1>2, <1>3, <1>8 DEF Delete, Find, SoftDelete, Get, Fail, CreateToken, DeleteToken, Commit, Rollback
<1> QED
  BY <1>3, <1>4, <1>5, <1>6, <1>7, <1>8 DEF Next, vars

\* The commit of a request that succeeds leaves the user's row.
LEMMA CommitSigns ==
  ASSUME CatalogInv, NEW t \in Clients, pc[t] \notin {"idle", "upsert"}, Commit(t)
  PROVE  user' \in Claims
BY DEF CatalogInv, TypeOK, OwnerThere, Commit

\* The commit of a POST is the abstract creation: the rows were all inserted, and neither the id
\* nor the name was taken in the meantime.
LEMMA CreateRefines ==
  ASSUME CatalogInv, NEW t \in Clients, CommitCreate(t)
  PROVE  Atomic!CreateRepository(t)
<1>1. TypeOK /\ Stage(t) /\ pc[t] = "created"
  BY DEF CatalogInv, StageInv, CommitCreate
<1>2. repo[t] \in Id /\ name[t] \in Names /\ table[repo[t]] = None
  BY <1>1 DEF Stage, Creating
<1>3. \A j \in Id : table[j] # None => table[j].name # name[t]
  BY <1>1 DEF CatalogInv, RowsInv, FreeInv, Creating
<1>4. written[t] = [c \in Columns |-> t]
  BY <1>1 DEF Stage, Wrote, TypeOK, Row
<1>5. /\ table' = [table EXCEPT ![repo[t]] = [name |-> name[t], deleted |-> FALSE,
                                              row |-> [c \in Columns |-> t]]]
      /\ UNCHANGED tokens
  BY <1>4 DEF CommitCreate
<1> QED
  BY <1>2, <1>3, <1>5 DEF Atomic!CreateRepository

\* The commit of a PATCH changes the columns of its body and no others, for that is what it wrote.
LEMMA PatchRefines ==
  ASSUME CatalogInv, KeysInv, NEW t \in Clients, CommitUpdate(t)
  PROVE  Atomic!PatchRepository(t)
<1>1. TypeOK /\ Stage(t) /\ pc[t] = "commit"
  BY DEF CatalogInv, StageInv, CommitUpdate
<1>2. repo[t] \in Id /\ table[repo[t]] # None /\ body[t] \in SUBSET Columns
  BY <1>1 DEF Stage, TypeOK
<1>3. \A c \in Columns : written[t][c] = IF c \in body[t] THEN t ELSE None
  BY <1>1 DEF Stage, Wrote
<1>4. t # None
  BY CatalogAssumption
<1>5. Over(written[t], table[repo[t]].row) =
        [c \in Columns |-> IF c \in body[t] THEN t ELSE table[repo[t]].row[c]]
  BY <1>3, <1>4 DEF Over
<1>6. /\ table' = [table EXCEPT ![repo[t]].row =
                     [c \in Columns |-> IF c \in body[t] THEN t ELSE @[c]]]
      /\ UNCHANGED tokens
  BY <1>5 DEF CommitUpdate
<1>7. body[t] \cap KeyPair \in {{}, KeyPair}
  BY DEF KeysInv
<1> QED
  BY <1>2, <1>6, <1>7 DEF Atomic!PatchRepository, KeyPair

\* Every step of the transactions is a step of the abstract catalog, or nothing it knows of.
LEMMA CatalogRefines == CatalogInv /\ KeysInv /\ [Next]_vars => [Atomic!CatalogNext]_Atomic!catalogVars
<1> SUFFICES ASSUME CatalogInv, KeysInv, [Next]_vars PROVE [Atomic!CatalogNext]_Atomic!catalogVars
  OBVIOUS
<1> USE DEF Atomic!catalogVars
<1>1. TypeOK
  BY DEF CatalogInv
<1>2. ASSUME NEW t \in Clients, Authenticate(t) PROVE UNCHANGED Atomic!catalogVars
  BY <1>2 DEF Authenticate, CheckDboxedToken, CheckOidcToken, CreateOrUpdate
<1>3. ASSUME NEW t \in Clients, Get(t) PROVE Atomic!CatalogNext
  BY <1>3, CommitSigns DEF Get, Atomic!CatalogNext, Atomic!ReadCatalog
<1>4. ASSUME NEW t \in Clients, Create(t), ~CommitCreate(t) PROVE UNCHANGED Atomic!catalogVars
  BY <1>4 DEF Create, BeginCreate, InsertRepository, InsertAccess, InsertS3, RefuseEndpoint,
              InsertRustic, Rollback
<1>5. ASSUME NEW t \in Clients, CommitCreate(t) PROVE Atomic!CatalogNext
  <2>1. user' \in Claims
    BY <1>5, CommitSigns DEF CommitCreate
  <2> QED
    BY <1>5, <2>1, CreateRefines DEF Atomic!CatalogNext
<1>6. ASSUME NEW t \in Clients, NEW i \in Id, NEW step, Find(t, i, step) PROVE UNCHANGED Atomic!catalogVars
  BY <1>6 DEF Find
<1>7. ASSUME NEW t \in Clients, Skip(t) \/ UpdateField(t) PROVE UNCHANGED Atomic!catalogVars
  BY <1>7 DEF Skip, UpdateField
<1>8. ASSUME NEW t \in Clients, CommitUpdate(t) PROVE Atomic!CatalogNext
  <2>1. user' \in Claims
    BY <1>8, CommitSigns DEF CommitUpdate
  <2> QED
    BY <1>8, <2>1, PatchRefines DEF Atomic!CatalogNext
<1>9. ASSUME NEW t \in Clients, SoftDelete(t) PROVE Atomic!CatalogNext
  <2>1. user' \in Claims
    BY <1>9, CommitSigns DEF SoftDelete
  <2>2. repo[t] \in Id /\ table[repo[t]] # None
    BY <1>9 DEF SoftDelete, CatalogInv, StageInv, Stage
  <2>3. Atomic!DeleteRepository
    BY <1>9, <2>2 DEF SoftDelete, Atomic!DeleteRepository
  <2> QED
    BY <2>1, <2>3 DEF Atomic!CatalogNext
<1>10. ASSUME NEW t \in Clients, Fail(t) PROVE UNCHANGED Atomic!catalogVars
  BY <1>10 DEF Fail, Rollback
<1>11. ASSUME NEW t \in Clients, CreateToken(t) PROVE Atomic!CatalogNext
  <2>1. user' \in Claims
    BY <1>11, CommitSigns DEF CreateToken
  <2>2. Atomic!ChangeToken
    BY <1>11 DEF CreateToken, Atomic!ChangeToken
  <2> QED
    BY <2>1, <2>2 DEF Atomic!CatalogNext
<1>12. ASSUME NEW t \in Clients, DeleteToken(t) PROVE Atomic!CatalogNext
  <2>1. user' \in Claims
    BY <1>12, CommitSigns DEF DeleteToken
  <2>2. PICK i \in 1 .. MaxTokens : tokens[i] # None /\ tokens' = [tokens EXCEPT ![i] = None]
    BY <1>12 DEF DeleteToken
  <2>3. tokens[i] \in Names
    BY <1>1, <2>2 DEF TypeOK
  <2>4. Atomic!ChangeToken
    BY <1>12, <2>2, <2>3 DEF DeleteToken, Atomic!ChangeToken
  <2> QED
    BY <2>1, <2>4 DEF Atomic!CatalogNext
<1>13. CASE UNCHANGED vars
  BY <1>13 DEF vars
<1>14. ASSUME NEW t \in Clients, Create(t) \/ Update(t) \/ Delete(t)
       PROVE [Atomic!CatalogNext]_Atomic!catalogVars
  <2>1. CASE Create(t)
    BY <1>4, <1>5, <2>1
  <2>2. CASE Update(t)
    BY <1>6, <1>7, <1>8, <2>2 DEF Update
  <2>3. CASE Delete(t)
    BY <1>6, <1>9, <2>3 DEF Delete
  <2> QED
    BY <1>14, <2>1, <2>2, <2>3
<1> HIDE DEF Atomic!catalogVars
<1> QED
  BY <1>2, <1>3, <1>10, <1>11, <1>12, <1>13, <1>14 DEF Next

\* Requests are atomic, for any number of them: what restCreateRepository and doUpdateRepository
\* write statement by statement happens at once or not at all, with the whole of a body, under a
\* name that is new, and for a user that has a row.
THEOREM RequestsAreAtomic == Spec => CatalogSpec
<1>1. Init => Atomic!CatalogInit /\ KeysInv
  BY DEF Init, Atomic!CatalogInit, KeysInv
<1>2. Spec => []KeysInv
  BY <1>1, KeysStep, CatalogInvariant, PTL DEF Spec
<1> QED
  BY <1>1, <1>2, CatalogRefines, CatalogInvariant, PTL DEF Spec, CatalogSpec, Atomic!CatalogSpec
=============================================================================
