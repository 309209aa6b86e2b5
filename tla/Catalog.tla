------------------------------ MODULE Catalog ------------------------------
(***************************************************************************)
(* The server's handlers for repositories and tokens, each of which runs in *)
(* one database transaction (huma_utils.SetupTxMiddlewares): it is          *)
(* committed when the handler succeeds and rolled back when it returns an   *)
(* error.                                                                   *)
(*                                                                          *)
(* The transaction begins before the request is authenticated.  A token of  *)
(* the provider carries claims about the user, and AuthMiddleware writes    *)
(* them into the user's row when the row does not say the same; the row is  *)
(* created this way, and repositories and tokens refer to it.               *)
(*                                                                          *)
(* A repository is a row in each of four tables: repository, its access,    *)
(* its S3 storage and its rustic password.  POST inserts them one after the *)
(* other.  PATCH reads the repository and then has one UPDATE per field of  *)
(* its body, each after the field's check.  DELETE marks the row.           *)
(*                                                                          *)
(* The database reads what is committed, gives the first of two             *)
(* transactions that change a row its lock until it is over, and lets an    *)
(* INSERT of a unique name wait for another of the same name.               *)
(***************************************************************************)
EXTENDS Integers

CONSTANTS Clients,     \* one request each at a time
          Names, None,
          Claims,      \* what the provider says of the user: it may come to say something else
          Patched,     \* the columns, of those below, that bodies of PATCH may have
          MaxRepos,    \* bound of the repository ids
          MaxTokens    \* bound of the token ids

ASSUME CatalogAssumption == /\ None \notin Names \cup Clients \cup Claims
                            /\ MaxRepos \in Nat /\ MaxTokens \in Nat

VARIABLES table,     \* the repositories that are committed
          tokens,    \* the tokens' names
          user,      \* the user's row: the claims it was written from
          pc,        \* where each request is
          claims,    \* the claims that its transaction has still to write, or has written, into that row
          repo,      \* the repository it is about
          name,      \* the name a POST gives
          endpoint,  \* the endpoint a POST gives
          written,   \* the columns its transaction has written, and what with
          struct,    \* the repository in the handler's memory
          refused,   \* history: the endpoints that POSTs were refused for
          body,      \* history: the columns its body had so far
          promised   \* history: the columns as the answered requests ask for, one after the other

vars == <<table, tokens, user, pc, claims, repo, name, endpoint, written, struct, refused, body, promised>>

\* The order of the columns is the order of the UPDATEs; accessKeyId goes with secretAccessKey.
S3Columns == {"endpoint", "region", "bucket", "prefix", "accessKeyId", "secretAccessKey"}
Columns == S3Columns \cup {"access", "password"}
Id == 1 .. MaxRepos

\* A column is the client that wrote it last, or None.
Row == [Columns -> Clients \cup {None}]
NoRow == [c \in Columns |-> None]
Repository == [name : Names, deleted : BOOLEAN, row : Row]

ASSUME NoRepositoryAssumption == None \notin Repository

\* What url.Parse makes of an endpoint; the first is the default of "repo create".
DefaultEndpoint == "s3.amazonaws.com"
Scheme == [e \in {DefaultEndpoint, "https://s3.example.org"} |-> IF e = DefaultEndpoint THEN "" ELSE "https"]
CheckEndpoint(e) == Scheme[e] \in {"http", "https"}

Steps == {"endpoint", "region", "bucket", "prefix", "keys", "password"}
After == [endpoint |-> "region", region |-> "bucket", bucket |-> "prefix", prefix |-> "keys",
          keys |-> "password", password |-> "commit"]

\* Mutant: of a new credential, only the secret.
FieldsHalf(step) == IF step = "keys" THEN {"secretAccessKey"} ELSE {step}

Fields(step) == IF step = "keys" THEN {"accessKeyId", "secretAccessKey"} ELSE {step}

TypeOK ==
  /\ table \in [Id -> Repository \cup {None}]
  /\ tokens \in [1 .. MaxTokens -> Names \cup {None}]
  /\ pc \in [Clients -> Steps \cup {"idle", "upsert", "ready", "insert", "access", "s3", "rustic", "created", "commit", "delete"}]
  /\ user \in Claims \cup {None} /\ claims \in [Clients -> Claims \cup {None}]
  /\ repo \in [Clients -> 0 .. MaxRepos] /\ name \in [Clients -> Names \cup {None}]
  /\ endpoint \in [Clients -> DOMAIN Scheme]
  /\ written \in [Clients -> Row] /\ struct \in [Clients -> Row]
  /\ refused \subseteq DOMAIN Scheme /\ body \in [Clients -> SUBSET Columns]
  /\ promised \in [Id -> Row]

Init ==
  /\ table = [i \in Id |-> None]
  /\ tokens = [i \in 1 .. MaxTokens |-> None]
  /\ user = None
  /\ pc = [t \in Clients |-> "idle"] /\ claims = [t \in Clients |-> None]
  /\ repo = [t \in Clients |-> 0] /\ name = [t \in Clients |-> None]
  /\ endpoint = [t \in Clients |-> DefaultEndpoint]
  /\ written = [t \in Clients |-> NoRow] /\ struct = [t \in Clients |-> NoRow]
  /\ refused = {} /\ body = [t \in Clients |-> {}]
  /\ promised = [i \in Id |-> NoRow]

Goto(t, step) == pc' = [pc EXCEPT ![t] = step]

\* The transaction is over, and so is the request.
End(t) ==
  /\ Goto(t, "idle") /\ claims' = [claims EXCEPT ![t] = None]
  /\ repo' = [repo EXCEPT ![t] = 0] /\ name' = [name EXCEPT ![t] = None]
  /\ endpoint' = [endpoint EXCEPT ![t] = DefaultEndpoint]
  /\ written' = [written EXCEPT ![t] = NoRow] /\ struct' = [struct EXCEPT ![t] = NoRow]
  /\ body' = [body EXCEPT ![t] = {}]

Commit(t) ==
  /\ End(t)
  /\ user' = IF claims[t] # None THEN claims[t] ELSE user

Rollback(t) == End(t) /\ UNCHANGED user

Over(new, old) == [c \in Columns |-> IF new[c] # None THEN new[c] ELSE old[c]]

-------------------------------------------------------------------------------
\* checkDboxedToken: a token's user is there.
CheckDboxedToken(t) ==
  /\ pc[t] = "idle" /\ \E i \in 1 .. MaxTokens : tokens[i] # None
  /\ Goto(t, "ready")
  /\ UNCHANGED <<table, tokens, user, claims, repo, name, endpoint, written, struct, refused, body, promised>>

\* Mutant: users who were written are remembered, by all requests.
UserSaysRemembered(c) == user = c \/ \E u \in Clients : claims[u] = c /\ pc[u] \notin {"idle", "upsert"}

\* What is committed when updateDBUser reads the row.
UserSays(c) == user = c

\* checkOidcToken, and the first half of updateDBUser.
CheckOidcToken(t) ==
  /\ pc[t] = "idle"
  /\ \E c \in Claims : /\ claims' = [claims EXCEPT ![t] = IF UserSays(c) THEN None ELSE c]
                      /\ Goto(t, IF UserSays(c) THEN "ready" ELSE "upsert")
  /\ UNCHANGED <<table, tokens, user, repo, name, endpoint, written, struct, refused, body, promised>>

\* User.CreateOrUpdate, once no other transaction has written the row.
CreateOrUpdate(t) ==
  /\ pc[t] = "upsert"
  /\ \A u \in Clients \ {t} : claims[u] # None => pc[u] = "upsert"
  /\ Goto(t, "ready")
  /\ UNCHANGED <<table, tokens, user, claims, repo, name, endpoint, written, struct, refused, body, promised>>

\* GET: what it reads makes no difference to anybody.
Get(t) ==
  /\ pc[t] = "ready"
  /\ Commit(t)
  /\ UNCHANGED <<table, tokens, refused, promised>>

-------------------------------------------------------------------------------
\* POST: the body has been checked up to here.
BeginCreate(t) ==
  /\ pc[t] = "ready"
  /\ \E n \in Names : name' = [name EXCEPT ![t] = n]
  /\ \E e \in DOMAIN Scheme : endpoint' = [endpoint EXCEPT ![t] = e]
  /\ Goto(t, "insert")
  /\ UNCHANGED <<table, tokens, user, claims, repo, written, struct, refused, body, promised>>

Inserting(n) == {u \in Clients : name[u] = n /\ repo[u] # 0}

\* Mutant: the index is about the rows that are not deleted.
NameTakenByLive(n) ==
  \E i \in Id : table[i] # None /\ table[i].name = n /\ ~table[i].deleted

\* unique(name): a deleted repository is still a row.
NameTaken(n) ==
  \E i \in Id : table[i] # None /\ table[i].name = n

\* The row of the repository itself gets an id of its own.
InsertRepository(t) ==
  /\ pc[t] = "insert" /\ Inserting(name[t]) = {} /\ ~NameTaken(name[t])
  /\ \E i \in Id : /\ table[i] = None /\ \A u \in Clients : repo[u] # i
                  /\ repo' = [repo EXCEPT ![t] = i]
  /\ Goto(t, "access")
  /\ UNCHANGED <<table, tokens, user, claims, name, endpoint, written, struct, refused, body, promised>>

InsertColumns(t, columns) ==
  written' = [written EXCEPT ![t] = [c \in Columns |-> IF c \in columns THEN t ELSE @[c]]]

InsertAccess(t) ==
  /\ pc[t] = "access"
  /\ InsertColumns(t, {"access"})
  /\ Goto(t, "s3")
  /\ UNCHANGED <<table, tokens, user, claims, repo, name, endpoint, struct, refused, body, promised>>

InsertS3(t) ==
  /\ pc[t] = "s3" /\ CheckEndpoint(endpoint[t])
  /\ InsertColumns(t, S3Columns)
  /\ Goto(t, "rustic")
  /\ UNCHANGED <<table, tokens, user, claims, repo, name, endpoint, struct, refused, body, promised>>

\* checkEndpoint, after the first two inserts.
RefuseEndpoint(t) ==
  /\ pc[t] = "s3" /\ ~CheckEndpoint(endpoint[t])
  /\ refused' = refused \cup {endpoint[t]}
  /\ Rollback(t)
  /\ UNCHANGED <<table, tokens, promised>>

InsertRustic(t) ==
  /\ pc[t] = "rustic"
  /\ InsertColumns(t, {"password"})
  /\ Goto(t, "created")
  /\ UNCHANGED <<table, tokens, user, claims, repo, name, endpoint, struct, refused, body, promised>>

CommitCreate(t) ==
  /\ pc[t] = "created"
  /\ table' = [table EXCEPT ![repo[t]] = [name |-> name[t], deleted |-> FALSE, row |-> written[t]]]
  /\ promised' = [promised EXCEPT ![repo[t]] = [c \in Columns |-> t]]
  /\ Commit(t)
  /\ UNCHANGED <<tokens, refused>>

\* checkRepositoryAccess finds the repository unless it is deleted.
Find(t, i, step) ==
  /\ pc[t] = "ready" /\ table[i] # None /\ ~table[i].deleted
  /\ repo' = [repo EXCEPT ![t] = i]
  /\ struct' = [struct EXCEPT ![t] = table[i].row]
  /\ Goto(t, step)
  /\ UNCHANGED <<table, tokens, user, claims, name, endpoint, written, refused, body, promised>>

\* A table's row is locked by the transaction that has written it.
Locked(t, columns) ==
  \E u \in Clients \ {t} : repo[u] = repo[t] /\ \E c \in columns : written[u][c] # None

TableOf(step) == IF step = "password" THEN {"password"} ELSE S3Columns

\* doUpdateRepository: the body has not got this field.
Skip(t) ==
  /\ pc[t] \in Steps
  /\ Goto(t, After[pc[t]])
  /\ UNCHANGED <<table, tokens, user, claims, repo, name, endpoint, written, struct, refused, body, promised>>

\* Mutant: every column of the struct is written back.
UpdateWholeStruct(t) ==
  /\ pc[t] \in Steps /\ Fields(pc[t]) \subseteq Patched /\ ~Locked(t, TableOf(pc[t]))
  /\ struct' = [struct EXCEPT ![t] = [c \in Columns |-> IF c \in Fields(pc[t]) THEN t ELSE @[c]]]
  /\ written' = [written EXCEPT ![t] = Over([c \in Columns |-> IF c \in TableOf(pc[t]) THEN struct'[t][c] ELSE None], @)]
  /\ body' = [body EXCEPT ![t] = @ \cup Fields(pc[t])]
  /\ Goto(t, After[pc[t]])
  /\ UNCHANGED <<table, tokens, user, claims, repo, name, endpoint, refused, promised>>

\* It has the field, and it is right: the struct and, once nobody has the row locked, that column of the row.
UpdateField(t) ==
  /\ pc[t] \in Steps /\ Fields(pc[t]) \subseteq Patched /\ ~Locked(t, TableOf(pc[t]))
  /\ struct' = [struct EXCEPT ![t] = [c \in Columns |-> IF c \in Fields(pc[t]) THEN t ELSE @[c]]]
  /\ written' = [written EXCEPT ![t] = [c \in Columns |-> IF c \in Fields(pc[t]) THEN t ELSE @[c]]]
  /\ body' = [body EXCEPT ![t] = @ \cup Fields(pc[t])]
  /\ Goto(t, After[pc[t]])
  /\ UNCHANGED <<table, tokens, user, claims, repo, name, endpoint, refused, promised>>

CommitUpdate(t) ==
  /\ pc[t] = "commit"
  /\ table' = [table EXCEPT ![repo[t]].row = Over(written[t], @)]
  /\ promised' = [promised EXCEPT ![repo[t]] = [c \in Columns |-> IF c \in body[t] THEN t ELSE @[c]]]
  /\ Commit(t)
  /\ UNCHANGED <<tokens, refused>>

\* DELETE: one statement, and the end of the transaction.
SoftDelete(t) ==
  /\ pc[t] = "delete"
  /\ table' = [table EXCEPT ![repo[t]].deleted = TRUE]
  /\ Commit(t)
  /\ UNCHANGED <<tokens, refused, promised>>

\* Mutant: what was written before the error is committed.
FailAndCommit(t) ==
  /\ pc[t] # "idle"
  /\ table' = IF repo[t] = 0 THEN table
              ELSE IF table[repo[t]] = None
                THEN [table EXCEPT ![repo[t]] = [name |-> name[t], deleted |-> FALSE, row |-> written[t]]]
                ELSE [table EXCEPT ![repo[t]].row = Over(written[t], @)]
  /\ Commit(t)
  /\ UNCHANGED <<tokens, refused, promised>>

\* A check of the body, a constraint or the database says no, or the server is killed: it is rolled back.
Fail(t) ==
  /\ pc[t] # "idle"
  /\ Rollback(t)
  /\ UNCHANGED <<table, tokens, refused, promised>>

\* POST and DELETE of tokens: one statement each.
CreateToken(t) ==
  /\ pc[t] = "ready"
  /\ \E i \in 1 .. MaxTokens, n \in Names : tokens[i] = None /\ tokens' = [tokens EXCEPT ![i] = n]
  /\ Commit(t)
  /\ UNCHANGED <<table, refused, promised>>

DeleteToken(t) ==
  /\ pc[t] = "ready"
  /\ \E i \in 1 .. MaxTokens : tokens[i] # None /\ tokens' = [tokens EXCEPT ![i] = None]
  /\ Commit(t)
  /\ UNCHANGED <<table, refused, promised>>

-------------------------------------------------------------------------------
Create(t) == \/ BeginCreate(t) \/ InsertRepository(t) \/ InsertAccess(t) \/ InsertS3(t) \/ RefuseEndpoint(t)
             \/ InsertRustic(t) \/ CommitCreate(t)

Update(t) == \/ \E i \in Id : Find(t, i, "endpoint")
             \/ Skip(t) \/ UpdateField(t) \/ CommitUpdate(t)

Delete(t) == (\E i \in Id : Find(t, i, "delete")) \/ SoftDelete(t)

Authenticate(t) == CheckDboxedToken(t) \/ CheckOidcToken(t) \/ CreateOrUpdate(t)

Next == \E t \in Clients : Authenticate(t) \/ Get(t) \/ Create(t) \/ Update(t) \/ Delete(t) \/ Fail(t) \/ CreateToken(t) \/ DeleteToken(t)

Spec == Init /\ [][Next]_vars

-------------------------------------------------------------------------------
\* Whatever statement of a POST fails, a repository that is there has its access, its storage and
\* its password: handleBase and the access check rely on it.
RepositoriesWhole ==
  \A i \in Id : table[i] # None => \A c \in Columns : table[i].row[c] # None

\* The configuration of a repository is what the successful requests ask for, one whole request
\* after the other: a PATCH that is refused at a later field leaves nothing, and of two at a time
\* neither writes back what it read before the other.  In particular the two keys are of one request.
UpdatesSerial ==
  \A i \in Id : table[i] # None => table[i].row = promised[i]

\* A name leads to one repository for ever, the deleted ones included: the handlers that find a
\* repository by name, without those that are deleted, find at most one.
NameOfOne ==
  \A i, j \in Id : table[i] # None /\ table[j] # None /\ table[i].name = table[j].name => i = j

\* Repositories and tokens have their user, and so has every handler that runs: a row that another
\* transaction has written is not taken for there, for it goes when that transaction fails.
OwnerThere ==
  /\ (\E i \in Id : table[i] # None) \/ (\E i \in 1 .. MaxTokens : tokens[i] # None) => user # None
  /\ \A t \in Clients : pc[t] \notin {"idle", "upsert"} => user # None \/ claims[t] # None

\* Requests are atomic: what other requests see of one that writes row after row, and fails or is
\* overtaken in between, is a request that happened at once or not at all.
Atomic == INSTANCE AtomicCatalog WITH Slot <- 1 .. MaxTokens,
                                      Keys <- {"accessKeyId", "secretAccessKey"}
CatalogSpec == Atomic!CatalogSpec

\* The CLI gives "s3.amazonaws.com" as the default of the endpoint: the server does not refuse it.
DefaultEndpointAccepted ==
  DefaultEndpoint \notin refused
=============================================================================
