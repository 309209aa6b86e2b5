---------------------------- MODULE AtomicCatalog ----------------------------
(***************************************************************************)
(* What the server's repositories and tokens promise, without transactions, *)
(* statements or handlers: every request that succeeds happened in one      *)
(* step, with the whole of its body, and its user has a row from then on; a *)
(* request that fails never happened.  Catalog implements this module       *)
(* (Catalog!CatalogSpec).                                                   *)
(***************************************************************************)
CONSTANTS Clients, Names, None,
          Claims,    \* what the provider says of the user
          Id,        \* of repositories
          Slot,      \* of tokens
          Columns,   \* of a repository
          Keys       \* the columns of one credential

VARIABLES table,     \* the repositories
          tokens,    \* the tokens' names
          user       \* the user's row

catalogVars == <<table, tokens, user>>

CatalogInit ==
  /\ table = [i \in Id |-> None] /\ tokens = [i \in Slot |-> None] /\ user = None

\* A new repository is complete, and its name was never used.
CreateRepository(t) ==
  /\ \E i \in Id, n \in Names :
       /\ table[i] = None /\ \A j \in Id : table[j] # None => table[j].name # n
       /\ table' = [table EXCEPT ![i] = [name |-> n, deleted |-> FALSE,
                                         row |-> [c \in Columns |-> t]]]
  /\ UNCHANGED tokens

\* The columns of one body, and of a credential both or none.  The repository may have been deleted
\* since the request found it.
PatchRepository(t) ==
  /\ \E i \in Id, fields \in SUBSET Columns :
       /\ table[i] # None /\ fields \cap Keys \in {{}, Keys}
       /\ table' = [table EXCEPT ![i].row = [c \in Columns |-> IF c \in fields THEN t ELSE @[c]]]
  /\ UNCHANGED tokens

DeleteRepository ==
  /\ \E i \in Id : table[i] # None /\ table' = [table EXCEPT ![i].deleted = TRUE]
  /\ UNCHANGED tokens

ChangeToken ==
  /\ \E i \in Slot, n \in Names :
       \/ tokens[i] = None /\ tokens' = [tokens EXCEPT ![i] = n]
       \/ tokens[i] # None /\ tokens' = [tokens EXCEPT ![i] = None]
  /\ UNCHANGED table

ReadCatalog == UNCHANGED <<table, tokens>>

CatalogNext ==
  /\ \/ \E t \in Clients : CreateRepository(t) \/ PatchRepository(t)
     \/ DeleteRepository \/ ChangeToken \/ ReadCatalog
  /\ user' \in Claims

CatalogSpec == CatalogInit /\ [][CatalogNext]_catalogVars
==============================================================================
