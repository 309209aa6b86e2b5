-------------------------- MODULE ClientAuthProofs --------------------------
(***************************************************************************)
(* Proofs about ClientAuth, for any number of processes and goroutines, of  *)
(* logins and of expiries.                                                  *)
(*                                                                          *)
(* The mutex makes a goroutine's token the one in its process's memory      *)
(* until it is exchanged (UsedInv), which no process has exchanged before   *)
(* (SpentInv): that is RefreshOnce.  A token that is being written is the   *)
(* last of its session, live or ended by the provider, and no other process *)
(* has it, nor the file (WriterInv): that is why the file has the last one  *)
(* after the write, and why only one process can write as long as all       *)
(* tokens come from one login (ChainInv).                                   *)
(***************************************************************************)
EXTENDS ClientAuth, TLAPS

Login == <<LoginCmd, LoginCmd>>

\* The last token of each session: nobody has exchanged it.
LastTokens == live \cup ended

\* Only goroutines of processes that run are anywhere.
UpInv == /\ \A t \in Threads : pc[t] # "idle" => t[1] \in up
         /\ \A p \in Commands \ up : spent[p] = {}

\* A goroutine that exchanges, or writes, has its process's mutex.
Holds(t) == pc[t] \in {"exchange", "device", "truncate", "write"}
HoldInv == \A t \in Threads : Holds(t) => mutex[t[1]] = t[2]

UsedInv == \A t \in Threads : pc[t] = "exchange" => used[t] = memory[t[1]]

SpentInv == \A p \in Commands : memory[p] \notin spent[p]

WriterInv == \A t \in Threads : pc[t] \in {"truncate", "write"} =>
               /\ memory[t[1]] \in LastTokens /\ file # memory[t[1]]
               /\ \A p \in Commands : p # t[1] => memory[p] # memory[t[1]]

\* With one login there is one token at a time, and none before the login is over.
ChainInv == /\ live \cap ended = {}
            /\ logins < 2 => LastTokens \subseteq {issued}
            /\ logins = 0 => issued = 0
            /\ pc[Login] \in {"login", "device"} => logins > 0 /\ (logins < 2 => issued = 0)

AuthInv == /\ TypeOK /\ UpInv /\ HoldInv /\ UsedInv /\ SpentInv /\ WriterInv
           /\ ChainInv /\ FileLive

-------------------------------------------------------------------------------
\* The initial state satisfies the invariant.
LEMMA AuthInitInv == Init => AuthInv
<1> SUFFICES ASSUME Init PROVE AuthInv
  OBVIOUS
<1> USE ClientAuthAssumption DEF Init
<1>1. TypeOK
  <2>1. issued \in Nat /\ 0 \in 0 .. issued /\ NoToken \in 0 .. issued
    BY DEF NoToken
  <2>2. memory \in [Commands -> 0 .. issued] /\ used \in [Threads -> 0 .. issued]
    BY <2>1
  <2>3. spent \in [Commands -> SUBSET (1 .. issued)]
    OBVIOUS
  <2> QED
    BY <2>1, <2>2, <2>3 DEF TypeOK
<1>2. Login \in Threads
  BY DEF Login, Threads
<1>3. UpInv /\ HoldInv /\ UsedInv /\ WriterInv
  BY DEF UpInv, HoldInv, Holds, UsedInv, WriterInv
<1>4. SpentInv /\ FileLive
  <2>1. \A p \in Commands : spent[p] = {}
    OBVIOUS
  <2>2. SpentInv
    BY <2>1 DEF SpentInv
  <2> QED
    BY <2>2 DEF FileLive
<1>5. ChainInv
  <2>1. pc[Login] = "idle"
    BY <1>2
  <2> QED
    BY <2>1 DEF ChainInv, LastTokens
<1> QED
  BY <1>1, <1>3, <1>4, <1>5 DEF AuthInv

\* A thread is its process and its goroutine.
LEMMA ThreadIsPair ==
  ASSUME NEW t \in Threads
  PROVE  t[1] \in Commands /\ t[2] \in Goroutines \cup {LoginCmd} /\ t = <<t[1], t[2]>>
BY DEF Threads, Commands

\* Two goroutines of one process do not both hold its mutex.
LEMMA Exclusion ==
  ASSUME AuthInv, NEW t \in Threads, NEW u \in Threads, Holds(t), Holds(u), t[1] = u[1]
  PROVE  t = u
<1>1. t[2] = u[2]
  BY DEF AuthInv, HoldInv
<1>2. t = <<t[1], t[2]>> /\ u = <<u[1], u[2]>>
  BY ThreadIsPair
<1> QED
  BY <1>1, <1>2

\* A step of a goroutine that changes no token: the mutex passes from hand to hand, nothing
\* begins to write, and a write puts the process's own token into the file.
LEMMA LocalStep ==
  ASSUME AuthInv, NEW t \in Threads, t[1] \in up, TypeOK', FileLive',
         UNCHANGED <<issued, logins, up, memory, spent>>,
         LastTokens' = LastTokens, live' \cap ended' = {},
         \A u \in Threads : u # t => pc'[u] = pc[u] /\ used'[u] = used[u],
         \A q \in Commands : q # t[1] => mutex'[q] = mutex[q],
         mutex'[t[1]] = mutex[t[1]] \/ mutex[t[1]] = Free \/ Holds(t),
         Holds(t)' => mutex'[t[1]] = t[2],
         pc'[t] = "exchange" => used'[t] = memory[t[1]],
         pc'[t] \in {"truncate", "write"} => pc[t] \in {"truncate", "write"},
         pc'[t] \notin {"login", "device"},
         \/ file' = file
         \/ file' \in {Empty, Garbled}
         \/ file' = memory[t[1]] /\ pc[t] = "write" /\ pc'[t] \notin {"truncate", "write"}
  PROVE  AuthInv'
<1> USE DEF AuthInv
<1>1. \A u \in Threads : u[1] \in Commands
  BY ThreadIsPair
<1>2. UpInv'
  BY DEF UpInv
<1>3. HoldInv'
  <2> SUFFICES ASSUME NEW u \in Threads, Holds(u)', u # t PROVE mutex'[u[1]] = u[2]
    BY DEF HoldInv
  <2>1. Holds(u) /\ mutex[u[1]] = u[2]
    BY DEF HoldInv, Holds
  <2>2. u[2] # Free
    BY ThreadIsPair, ClientAuthAssumption
  <2>3. CASE u[1] = t[1]
    BY <2>1, <2>2, <2>3, Exclusion
  <2>4. CASE u[1] # t[1]
    BY <1>1, <2>1, <2>4
  <2> QED
    BY <2>3, <2>4
<1>4. UsedInv' /\ SpentInv'
  BY DEF UsedInv, SpentInv
<1>5. WriterInv'
  <2> SUFFICES ASSUME NEW u \in Threads, pc'[u] \in {"truncate", "write"}
               PROVE  file' # memory[u[1]] /\ pc[u] \in {"truncate", "write"}
    BY DEF WriterInv
  <2>1. pc[u] \in {"truncate", "write"}
    OBVIOUS
  <2>2. file # memory[u[1]] /\ memory[u[1]] \in 0 .. issued
    BY <1>1, <2>1 DEF WriterInv, TypeOK
  <2>3. CASE file' = memory[t[1]] /\ pc[t] = "write" /\ pc'[t] \notin {"truncate", "write"}
    <3>1. u # t
      BY <2>3
    <3>2. u[1] # t[1]
      BY <2>1, <2>3, <3>1, Exclusion DEF Holds
    <3> QED
      BY <1>1, <2>1, <2>3, <3>2 DEF WriterInv
  <2>4. CASE file' \in {Empty, Garbled}
    BY <2>1, <2>2, <2>4 DEF Empty, Garbled
  <2> QED
    BY <2>1, <2>2, <2>3, <2>4
<1>6. ChainInv'
  <2>1. Login \in Threads
    BY DEF Login, Threads
  <2>2. pc'[Login] \in {"login", "device"} => pc[Login] \in {"login", "device"}
    BY <2>1
  <2> QED
    BY <2>2 DEF ChainInv
<1> QED
  BY <1>2, <1>3, <1>4, <1>5, <1>6

-------------------------------------------------------------------------------
\* The steps of a request that neither refresh nor write.
LEMMA RequestStep ==
  ASSUME AuthInv, NEW t \in Threads,
         Request(t[1], t[2]) \/ CheckToken(t[1], t[2]) \/ Send(t[1], t[2])
  PROVE  AuthInv'
<1>1. TypeOK /\ UpInv /\ FileLive
  BY DEF AuthInv
<1>2. t[1] \in Commands /\ t[2] \in Goroutines \cup {LoginCmd} /\ t = <<t[1], t[2]>>
  BY ThreadIsPair
<1>3. UNCHANGED <<issued, live, ended, expired, logins, file, up, memory, spent, excused>>
  BY DEF Request, CheckToken, Send, provider
<1>0. LastTokens' = LastTokens /\ live' \cap ended' = {}
  BY <1>3 DEF AuthInv, ChainInv, LastTokens
<1>4. t[1] \in up
  BY <1>1, <1>2 DEF UpInv, Request, CheckToken, Send
<1>5. pc[t] \in {"idle", "lock", "send"}
  BY <1>2 DEF Request, CheckToken, Send
<1>6. CASE /\ memory[t[1]] \in expired /\ mutex[t[1]] = Free
           /\ mutex' = [mutex EXCEPT ![t[1]] = t[2]]
           /\ used' = [used EXCEPT ![t] = memory[t[1]]]
           /\ pc' = [pc EXCEPT ![t] = "exchange"]
  <2>1. memory[t[1]] \in 0 .. issued
    BY <1>1, <1>2 DEF TypeOK
  <2>2. TypeOK'
    BY <1>1, <1>2, <1>3, <1>6, <2>1 DEF TypeOK
  <2>3. pc'[t] = "exchange" /\ used'[t] = memory[t[1]] /\ mutex'[t[1]] = t[2]
    BY <1>1, <1>2, <1>6 DEF TypeOK
  <2>4. \A u \in Threads : u # t => pc'[u] = pc[u] /\ used'[u] = used[u]
    BY <1>1, <1>6 DEF TypeOK
  <2>5. \A q \in Commands : q # t[1] => mutex'[q] = mutex[q]
    BY <1>1, <1>6 DEF TypeOK
  <2>6. Writing' = Writing
    BY <1>5, <2>3, <2>4 DEF Writing
  <2>7. FileLive'
    BY <1>1, <1>3, <2>6 DEF FileLive
  <2> QED
    BY <1>0, <1>3, <1>4, <1>6, <2>2, <2>3, <2>4, <2>5, <2>7, LocalStep
<1>7. ASSUME NEW to \in {"idle", "lock", "send"}, pc' = [pc EXCEPT ![t] = to], UNCHANGED <<mutex, used>>
      PROVE  AuthInv'
  <2>1. TypeOK'
    BY <1>1, <1>3, <1>7 DEF TypeOK
  <2>2. pc'[t] = to /\ \A u \in Threads : u # t => pc'[u] = pc[u]
    BY <1>1, <1>7 DEF TypeOK
  <2>3. Writing' = Writing
    BY <1>5, <2>2 DEF Writing
  <2>4. FileLive'
    BY <1>1, <1>3, <2>3 DEF FileLive
  <2>5. ~Holds(t)'
    BY <2>2 DEF Holds
  <2> QED
    BY <1>0, <1>3, <1>4, <1>7, <2>1, <2>2, <2>4, <2>5, LocalStep
<1> QED
  BY <1>2, <1>6, <1>7 DEF Request, CheckToken, Send, Goto

\* Giving up: the mutex is free, nothing is written by this goroutine any more.  The provider may
\* end sessions meanwhile.
LEMMA Gives ==
  ASSUME AuthInv, NEW t \in Threads, Holds(t), NEW to \in {"idle", "send"},
         pc' = [pc EXCEPT ![t] = to], Unlock(t[1]), used' = [used EXCEPT ![t] = NoToken],
         excused' \in BOOLEAN, file' \in {file, memory[t[1]], Empty, Garbled},
         UNCHANGED <<issued, expired, logins, up, memory, spent>>,
         LastTokens' = LastTokens, live' \cap ended' = {},
         file' = memory[t[1]] => file' = file \/ pc[t] = "write",
         FileLive'
  PROVE  AuthInv'
<1>1. TypeOK /\ UpInv
  BY DEF AuthInv
<1>2. t[1] \in Commands /\ t[2] \in Goroutines \cup {LoginCmd} /\ t = <<t[1], t[2]>>
  BY ThreadIsPair
<1>3. t[1] \in up
  BY <1>1 DEF UpInv, Holds
<1>4. memory[t[1]] \in 0 .. issued /\ NoToken \in 0 .. issued
  BY <1>1, <1>2 DEF TypeOK, NoToken
<1>5. TypeOK'
  <2>1. live' \subseteq 1 .. issued /\ ended' \subseteq 1 .. issued
    BY <1>1 DEF TypeOK, LastTokens
  <2> QED
    BY <1>1, <1>2, <1>4, <2>1 DEF TypeOK, Unlock
<1>6. pc'[t] = to /\ \A u \in Threads : u # t => pc'[u] = pc[u] /\ used'[u] = used[u]
  BY <1>1 DEF TypeOK
<1>7. \A q \in Commands : q # t[1] => mutex'[q] = mutex[q]
  BY <1>1 DEF TypeOK, Unlock
<1>8. ~Holds(t)'
  BY <1>6 DEF Holds
<1> QED
  BY <1>3, <1>5, <1>6, <1>7, <1>8, LocalStep

\* Truncating the file, and writing it: with the process's own token, the last of its session.
LEMMA WriteStep ==
  ASSUME AuthInv, NEW t \in Threads, Truncate(t[1], t[2]) \/ Write(t[1], t[2])
  PROVE  AuthInv'
<1>1. TypeOK /\ UpInv /\ HoldInv /\ FileLive /\ WriterInv
  BY DEF AuthInv
<1>2. t[1] \in Commands /\ t[2] \in Goroutines \cup {LoginCmd} /\ t = <<t[1], t[2]>>
  BY ThreadIsPair
<1>3. pc[t] \in {"truncate", "write"} /\ Holds(t) /\ t[1] \in up
  BY <1>1, <1>2 DEF Truncate, Write, Holds, UpInv
<1>4. UNCHANGED <<issued, live, ended, expired, logins, up, memory, spent>>
  BY DEF Truncate, Write, provider
<1>0. LastTokens' = LastTokens /\ live' \cap ended' = {}
  BY <1>4 DEF AuthInv, ChainInv, LastTokens
<1>5. memory[t[1]] \in LastTokens /\ memory[t[1]] \in 1 .. issued
  BY <1>1, <1>2, <1>3 DEF WriterInv, TypeOK, LastTokens
<1>6. CASE /\ file' = Empty /\ pc' = [pc EXCEPT ![t] = "write"] /\ UNCHANGED <<mutex, used, excused>>
           /\ pc[t] = "truncate"
  <2>1. TypeOK'
    BY <1>1, <1>4, <1>6 DEF TypeOK
  <2>2. pc'[t] = "write" /\ \A u \in Threads : u # t => pc'[u] = pc[u]
    BY <1>1, <1>6 DEF TypeOK
  <2>3. t \in Writing'
    BY <2>2 DEF Writing
  <2>4. FileLive'
    BY <2>3 DEF FileLive
  <2>5. mutex'[t[1]] = t[2]
    BY <1>1, <1>3, <1>6 DEF HoldInv
  <2> QED
    BY <1>0, <1>3, <1>4, <1>6, <2>1, <2>2, <2>4, <2>5, LocalStep
<1>7. ASSUME NEW to \in {"idle", "send"}, pc' = [pc EXCEPT ![t] = to], Unlock(t[1]),
             used' = [used EXCEPT ![t] = NoToken],
             \/ pc[t] = "write" /\ file' = memory[t[1]] /\ excused' = FALSE
             \/ file' \in {file, Garbled} /\ excused' = TRUE
      PROVE  AuthInv'
  <2>1. FileLive'
    BY <1>4, <1>5, <1>7 DEF FileLive, LastTokens
  <2>2. file' = memory[t[1]] => file' = file \/ pc[t] = "write"
    BY <1>5, <1>7 DEF Garbled
  <2> QED
    BY <1>0, <1>3, <1>4, <1>7, <2>1, <2>2, Gives
<1>8. CASE Truncate(t[1], t[2])
  BY <1>2, <1>6, <1>7, <1>8 DEF Truncate, Fail, Goto
<1>9. CASE Write(t[1], t[2])
  <2>1. (IF t[1] = LoginCmd THEN "idle" ELSE "send") \in {"idle", "send"}
    OBVIOUS
  <2> QED
    BY <1>2, <1>7, <1>9, <2>1 DEF Write, Fail, Done, Goto
<1> QED
  BY <1>8, <1>9

-------------------------------------------------------------------------------
\* The provider takes the token old, of the process that exchanges it or of none: what other
\* processes are writing stays the last of its session.
LEMMA IssueKeeps ==
  ASSUME AuthInv, NEW t \in Threads, pc[t] \in {"exchange", "device"},
         NEW old \in {memory[t[1]], NoToken}, Issue(old)
  PROVE  \A u \in Threads : pc[u] \in {"truncate", "write"} =>
           /\ u # t /\ u[1] # t[1] /\ u[1] \in Commands
           /\ memory[u[1]] \in LastTokens' /\ memory[u[1]] \in 0 .. issued
<1> SUFFICES ASSUME NEW u \in Threads, pc[u] \in {"truncate", "write"}
             PROVE  /\ u # t /\ u[1] # t[1] /\ u[1] \in Commands
                    /\ memory[u[1]] \in LastTokens' /\ memory[u[1]] \in 0 .. issued
  OBVIOUS
<1>1. TypeOK /\ WriterInv
  BY DEF AuthInv
<1>2. u[1] \in Commands /\ t[1] \in Commands
  BY ThreadIsPair
<1>3. u # t /\ u[1] # t[1]
  BY Exclusion DEF Holds
<1>4. memory[u[1]] \in LastTokens /\ memory[t[1]] # memory[u[1]] /\ memory[u[1]] \in 1 .. issued
  BY <1>1, <1>2, <1>3 DEF WriterInv, TypeOK, LastTokens
<1> QED
  BY <1>2, <1>3, <1>4 DEF Issue, NoToken, LastTokens

\* The new token is the last of its session, and with one login there is no other.
LEMMA LastIssued ==
  ASSUME AuthInv, NEW old \in live \cup {NoToken}, Issue(old), logins # 0,
         logins < 2 => LastTokens \subseteq {old}
  PROVE  /\ issued' = issued + 1 /\ UNCHANGED <<expired, logins>>
         /\ live' \subseteq 1 .. issued' /\ ended' \subseteq 1 .. issued'
         /\ live' \cap ended' = {} /\ issued + 1 \in LastTokens'
         /\ logins' < 2 => LastTokens' \subseteq {issued'}
<1>1. issued \in Nat /\ live \subseteq 1 .. issued /\ ended \subseteq 1 .. issued /\ live \cap ended = {}
  BY DEF AuthInv, TypeOK, ChainInv
<1>2. issued' = issued + 1 /\ live' = (live \ {old}) \cup {issued + 1} /\ UNCHANGED <<ended, expired, logins>>
  BY DEF Issue
<1>3. issued + 1 \notin 1 .. issued /\ issued + 1 \in 1 .. issued' /\ 1 .. issued \subseteq 1 .. issued'
  BY <1>1, <1>2
<1>4. live' \subseteq 1 .. issued' /\ ended' \subseteq 1 .. issued' /\ live' \cap ended' = {}
  BY <1>1, <1>2, <1>3
<1>5. logins < 2 => ended = {}
  <2>1. NoToken \notin 1 .. issued
    BY <1>1 DEF NoToken
  <2> QED
    BY <1>1, <2>1 DEF LastTokens
<1>6. logins' < 2 => LastTokens' \subseteq {issued'}
  BY <1>2, <1>5 DEF LastTokens
<1>7. issued + 1 \in LastTokens'
  BY <1>2 DEF LastTokens
<1> QED
  BY <1>2, <1>4, <1>6, <1>7

\* A goroutine has a new token, and will write it.
LEMMA IssueStep ==
  ASSUME AuthInv, NEW t \in Threads, pc[t] \in {"exchange", "device"},
         NEW old \in {memory[t[1]], NoToken}, old \in live \cup {NoToken}, Issue(old),
         memory' = [memory EXCEPT ![t[1]] = issued + 1], pc' = [pc EXCEPT ![t] = "truncate"],
         UNCHANGED <<file, up, mutex, used, excused>>,
         spent' \in [Commands -> SUBSET (1 .. issued)],
         \A p \in Commands : p # t[1] => spent'[p] = spent[p],
         logins # 0, logins < 2 => LastTokens \subseteq {old}, t = Login \/ issued > 0
  PROVE  AuthInv'
<1>1. TypeOK /\ UpInv /\ HoldInv /\ UsedInv /\ SpentInv /\ WriterInv /\ ChainInv
  BY DEF AuthInv
<1>2. t[1] \in Commands /\ t[1] \in up /\ Holds(t)
  BY <1>1, ThreadIsPair DEF UpInv, Holds
<1>3. /\ issued \in Nat /\ issued' = issued + 1 /\ UNCHANGED <<expired, logins>>
      /\ live' \subseteq 1 .. issued' /\ ended' \subseteq 1 .. issued'
      /\ live' \cap ended' = {} /\ issued + 1 \in LastTokens'
      /\ logins' < 2 => LastTokens' \subseteq {issued'}
  BY <1>1, LastIssued DEF TypeOK
<1>4. 0 .. issued \subseteq 0 .. issued' /\ 1 .. issued \subseteq 1 .. issued' /\ issued' \in 0 .. issued'
  BY <1>3
<1>5. memory'[t[1]] = issued + 1 /\ \A p \in Commands : p # t[1] => memory'[p] = memory[p]
  BY <1>1, <1>2 DEF TypeOK
<1>6. pc'[t] = "truncate" /\ \A u \in Threads : u # t => pc'[u] = pc[u]
  BY <1>1 DEF TypeOK
<1>7. \A p \in Commands : memory[p] \in 0 .. issued
  BY <1>1 DEF TypeOK
<1>8. TypeOK'
  <2>1. /\ live' \subseteq 1 .. issued' /\ ended' \subseteq 1 .. issued' /\ expired' \subseteq 1 .. issued'
        /\ logins' \in Nat /\ issued' \in Nat
    BY <1>1, <1>3, <1>4 DEF TypeOK
  <2>2. memory' \in [Commands -> 0 .. issued'] /\ used' \in [Threads -> 0 .. issued']
    BY <1>1, <1>3, <1>4 DEF TypeOK
  <2>3. spent' \in [Commands -> SUBSET (1 .. issued')]
    BY <1>4
  <2>4. file' \in (0 .. issued') \cup {Empty, Garbled}
    BY <1>1, <1>4 DEF TypeOK
  <2> QED
    BY <1>1, <2>1, <2>2, <2>3, <2>4 DEF TypeOK
<1>9. UpInv'
  BY <1>1, <1>2, <1>6 DEF UpInv
<1>10. HoldInv'
  BY <1>1, <1>2, <1>6 DEF HoldInv, Holds
<1>11. UsedInv'
  <2> SUFFICES ASSUME NEW u \in Threads, pc'[u] = "exchange" PROVE used[u] = memory'[u[1]]
    BY DEF UsedInv
  <2>1. u # t /\ pc[u] = "exchange" /\ u[1] \in Commands
    BY <1>6, ThreadIsPair
  <2>2. u[1] # t[1]
    BY <1>2, <2>1, Exclusion DEF Holds
  <2> QED
    BY <1>1, <1>5, <2>1, <2>2 DEF UsedInv
<1>12. SpentInv'
  <2>1. memory'[t[1]] \notin spent'[t[1]]
    BY <1>2, <1>3, <1>5
  <2> QED
    BY <1>1, <1>5, <2>1 DEF SpentInv
<1>13. WriterInv'
  <2> SUFFICES ASSUME NEW u \in Threads, pc'[u] \in {"truncate", "write"}
               PROVE  /\ memory'[u[1]] \in LastTokens' /\ file # memory'[u[1]]
                      /\ \A p \in Commands : p # u[1] => memory'[p] # memory'[u[1]]
    BY DEF WriterInv
  <2>1. CASE u = t
    <3>1. file # issued + 1
      BY <1>1, <1>3 DEF TypeOK, Empty, Garbled
    <3>2. \A p \in Commands : memory[p] # issued + 1
      BY <1>3, <1>7
    <3> QED
      BY <1>3, <1>5, <2>1, <3>1, <3>2
  <2>2. CASE u # t
    <3>1. pc[u] \in {"truncate", "write"}
      BY <1>6, <2>2
    <3>2. u[1] # t[1] /\ u[1] \in Commands /\ memory[u[1]] \in LastTokens' /\ memory[u[1]] \in 0 .. issued
      BY <3>1, IssueKeeps
    <3>3. memory'[u[1]] = memory[u[1]] /\ memory[u[1]] # issued + 1
      BY <1>3, <1>5, <3>2
    <3> QED
      BY <1>1, <1>5, <3>1, <3>2, <3>3 DEF WriterInv
  <2> QED
    BY <2>1, <2>2
<1>14. ChainInv'
  <2>2. pc'[Login] \in {"login", "device"} => logins' > 0 /\ ~(logins' < 2)
    <3>1. Login \in Threads
      BY DEF Login, Threads
    <3> QED
      BY <1>1, <1>3, <1>6, <3>1 DEF ChainInv
  <2> QED
    BY <1>1, <1>3, <2>2 DEF ChainInv, TypeOK
<1>15. FileLive'
  <2>1. t \in Writing'
    BY <1>6 DEF Writing
  <2> QED
    BY <2>1 DEF FileLive
<1> QED
  BY <1>8, <1>9, <1>10, <1>11, <1>12, <1>13, <1>14, <1>15 DEF AuthInv


\* The exchange: the token is the one in memory, and with one login the only live one.
LEMMA ExchangeStep ==
  ASSUME AuthInv, NEW t \in Threads, Exchange(t[1], t[2])
  PROVE  AuthInv'
<1>1. TypeOK /\ UsedInv /\ ChainInv
  BY DEF AuthInv
<1>2. t[1] \in Commands /\ t = <<t[1], t[2]>>
  BY ThreadIsPair
<1>3. pc[t] = "exchange" /\ used[t] \in live /\ used[t] = memory[t[1]]
  BY <1>1, <1>2 DEF Exchange, UsedInv
<1>4. used[t] \in 1 .. issued /\ issued > 0 /\ logins # 0
  BY <1>1, <1>3 DEF TypeOK, ChainInv
<1>5. logins < 2 => LastTokens \subseteq {used[t]}
  BY <1>1, <1>3 DEF ChainInv, LastTokens
<1>6. spent' = [spent EXCEPT ![t[1]] = @ \cup {used[t]}]
  BY <1>2 DEF Exchange
<1>7. spent' \in [Commands -> SUBSET (1 .. issued)] /\ \A p \in Commands : p # t[1] => spent'[p] = spent[p]
  BY <1>1, <1>2, <1>4, <1>6 DEF TypeOK
<1>8. Issue(used[t]) /\ memory' = [memory EXCEPT ![t[1]] = issued + 1]
      /\ pc' = [pc EXCEPT ![t] = "truncate"] /\ UNCHANGED <<file, up, mutex, used, excused>>
  BY <1>2 DEF Exchange, Goto
<1>9. used[t] \in {memory[t[1]], NoToken} /\ used[t] \in live \cup {NoToken}
  BY <1>3
<1> QED
  BY <1>3, <1>4, <1>5, <1>7, <1>8, <1>9, IssueStep

\* The answer of an exchange is lost: the provider has taken the token and nobody has the new one.
LEMMA AnswerLost ==
  ASSUME AuthInv, NEW t \in Threads, pc[t] = "exchange", Fail(t[1], t[2]), used[t] \in live,
         Issue(used[t]), excused' = TRUE, UNCHANGED <<file, up, memory, spent>>
  PROVE  AuthInv'
<1>1. TypeOK /\ UpInv /\ HoldInv /\ UsedInv /\ SpentInv /\ WriterInv /\ ChainInv
  BY DEF AuthInv
<1>2. t[1] \in Commands /\ t = <<t[1], t[2]>> /\ Holds(t)
  BY ThreadIsPair DEF Holds
<1>0. used[t] \in 1 .. issued /\ issued > 0 /\ logins # 0 /\ (logins < 2 => LastTokens \subseteq {used[t]})
  BY <1>1 DEF TypeOK, ChainInv, LastTokens
<1>3. /\ issued \in Nat /\ issued' = issued + 1 /\ UNCHANGED <<expired, logins>>
      /\ live' \subseteq 1 .. issued' /\ ended' \subseteq 1 .. issued' /\ live' \cap ended' = {}
      /\ logins' < 2 => LastTokens' \subseteq {issued'}
  BY <1>0, <1>1, LastIssued DEF TypeOK
<1>4. 0 .. issued \subseteq 0 .. issued' /\ 1 .. issued \subseteq 1 .. issued'
      /\ issued' \in 1 .. issued' /\ NoToken \in 0 .. issued'
  BY <1>3 DEF NoToken
<1>5. pc' = [pc EXCEPT ![t] = "idle"] /\ used' = [used EXCEPT ![t] = NoToken]
      /\ mutex' = [mutex EXCEPT ![t[1]] = Free]
  BY <1>2 DEF Fail, Goto, Unlock
<1>6. pc'[t] = "idle" /\ \A u \in Threads : u # t => pc'[u] = pc[u] /\ used'[u] = used[u]
  BY <1>1, <1>5 DEF TypeOK
<1>7. TypeOK'
  <2>1. memory \in [Commands -> 0 .. issued'] /\ used' \in [Threads -> 0 .. issued']
    BY <1>1, <1>4, <1>5 DEF TypeOK
  <2>2. spent \in [Commands -> SUBSET (1 .. issued')]
    BY <1>1, <1>4 DEF TypeOK
  <2>3. /\ issued' \in Nat /\ logins' \in Nat /\ expired' \subseteq 1 .. issued'
        /\ live' \subseteq 1 .. issued' /\ ended' \subseteq 1 .. issued'
    BY <1>1, <1>3, <1>4 DEF TypeOK
  <2>4. file' \in (0 .. issued') \cup {Empty, Garbled}
    <3>1. file \in (0 .. issued') \cup {Empty, Garbled}
      BY <1>1, <1>4 DEF TypeOK
    <3> QED
      BY <3>1
  <2>5. mutex' \in [Commands -> Goroutines \cup {LoginCmd, Free}]
    BY <1>1, <1>5 DEF TypeOK
  <2>6. pc' \in [Threads -> {"idle", "lock", "login", "exchange", "device", "truncate", "write", "send"}]
    BY <1>1, <1>5 DEF TypeOK
  <2>7. up' \subseteq Commands /\ memory' = memory /\ spent' = spent /\ excused' \in BOOLEAN
    BY <1>1 DEF TypeOK
  <2> QED
    BY <2>1, <2>2, <2>3, <2>4, <2>5, <2>6, <2>7 DEF TypeOK
<1>8. UpInv'
  BY <1>1, <1>6 DEF UpInv
<1>9. HoldInv'
  <2> SUFFICES ASSUME NEW u \in Threads, Holds(u)' PROVE mutex'[u[1]] = u[2]
    BY DEF HoldInv
  <2>1. u # t /\ Holds(u) /\ u[1] \in Commands
    BY <1>6, ThreadIsPair DEF Holds
  <2>2. u[1] # t[1]
    BY <1>2, <2>1, Exclusion
  <2> QED
    BY <1>1, <1>5, <2>1, <2>2 DEF HoldInv, TypeOK
<1>10. UsedInv' /\ SpentInv'
  <2>1. UsedInv'
    BY <1>1, <1>6 DEF UsedInv
  <2>2. SpentInv'
    BY <1>1 DEF SpentInv
  <2> QED
    BY <2>1, <2>2
<1>11. WriterInv'
  <2> SUFFICES ASSUME NEW u \in Threads, pc'[u] \in {"truncate", "write"}
               PROVE  pc[u] \in {"truncate", "write"} /\ memory[u[1]] \in LastTokens'
    BY <1>1 DEF WriterInv
  <2>1. pc[u] \in {"truncate", "write"}
    BY <1>6
  <2>2. used[t] \in {memory[t[1]], NoToken}
    BY <1>1 DEF UsedInv
  <2> QED
    BY <2>1, <2>2, IssueKeeps
<1>12. ChainInv'
  <2>1. pc'[Login] \in {"login", "device"} => pc[Login] \in {"login", "device"}
    <3>1. Login \in Threads
      BY DEF Login, Threads
    <3> QED
      BY <1>6, <3>1
  <2> QED
    BY <1>0, <1>1, <1>3, <2>1 DEF ChainInv
<1>13. FileLive'
  BY DEF FileLive
<1> QED
  BY <1>7, <1>8, <1>9, <1>10, <1>11, <1>12, <1>13 DEF AuthInv

\* A goroutine that has not begun to write gives up and the file keeps what it has; a session the
\* provider ends for it has its last token still.
LEMMA GivesUp ==
  ASSUME AuthInv, NEW t \in Threads, pc[t] \in {"exchange", "device"}, Fail(t[1], t[2]),
         UNCHANGED provider \/ EndSessions, UNCHANGED <<file, up, memory, spent, excused>>
  PROVE  AuthInv'
<1>1. TypeOK /\ FileLive
  BY DEF AuthInv
<1>2. t = <<t[1], t[2]>>
  BY ThreadIsPair
<1>3. pc' = [pc EXCEPT ![t] = "idle"] /\ used' = [used EXCEPT ![t] = NoToken] /\ Unlock(t[1])
  BY <1>2 DEF Fail, Goto
<1>4. UNCHANGED <<issued, expired, logins>> /\ LastTokens' = LastTokens /\ live' \cap ended' = {}
  <2>1. live \cap ended = {}
    BY DEF AuthInv, ChainInv
  <2>2. CASE UNCHANGED provider
    BY <2>1, <2>2 DEF provider, LastTokens
  <2>3. CASE EndSessions
    BY <2>1, <2>3 DEF EndSessions, LastTokens
  <2> QED
    BY <2>2, <2>3
<1>5. Writing' = Writing
  BY <1>1, <1>3 DEF Writing, TypeOK
<1>6. FileLive'
  BY <1>1, <1>4, <1>5 DEF FileLive, LastTokens
<1>7. Holds(t)
  BY DEF Holds
<1>8. excused' \in BOOLEAN
  BY <1>1 DEF TypeOK
<1> QED
  BY <1>3, <1>4, <1>6, <1>7, <1>8, Gives

\* The exchange that fails, whichever way.
LEMMA ExchangeFailsStep ==
  ASSUME AuthInv, NEW t \in Threads, ExchangeFails(t[1], t[2])
  PROVE  AuthInv'
<1>1. t = <<t[1], t[2]>>
  BY ThreadIsPair
<1> QED
  BY <1>1, AnswerLost, GivesUp DEF ExchangeFails

\* The device flow: with one login no token was there before.
LEMMA DeviceStep ==
  ASSUME AuthInv, DeviceFlow
  PROVE  AuthInv'
<1>1. TypeOK /\ ChainInv
  BY DEF AuthInv
<1>2. Login \in Threads /\ Login[1] = LoginCmd /\ Login[2] = LoginCmd /\ pc[Login] = "device"
  BY DEF Login, Threads, DeviceFlow
<1>3. logins # 0 /\ (logins < 2 => LastTokens \subseteq {NoToken})
  BY <1>1, <1>2 DEF ChainInv, TypeOK, LastTokens
<1>4. CASE Issue(NoToken) /\ memory' = [memory EXCEPT ![LoginCmd] = issued + 1]
           /\ Goto(LoginCmd, LoginCmd, "truncate") /\ UNCHANGED <<mutex, used>>
  <2>1. spent' = spent /\ UNCHANGED <<file, up, excused>>
    BY DEF DeviceFlow
  <2>2. spent' \in [Commands -> SUBSET (1 .. issued)]
    BY <1>1, <2>1 DEF TypeOK
  <2>3. pc' = [pc EXCEPT ![Login] = "truncate"]
    BY <1>4 DEF Goto, Login
  <2> QED
    BY <1>2, <1>3, <1>4, <2>1, <2>2, <2>3, IssueStep
<1>5. CASE Fail(LoginCmd, LoginCmd) /\ UNCHANGED <<provider, memory>>
  BY <1>2, <1>5, GivesUp DEF DeviceFlow
<1> QED
  BY <1>4, <1>5 DEF DeviceFlow


\* The login command has one goroutine.
LEMMA OnlyLogin ==
  ASSUME NEW u \in Threads, u[1] = LoginCmd
  PROVE  u = Login
BY ClientAuthAssumption DEF Threads, Login

\* A login begins: the first one when no token was issued yet.
LEMMA BeginStep ==
  ASSUME AuthInv, BeginLogin
  PROVE  AuthInv'
<1>1. TypeOK /\ UpInv /\ HoldInv /\ UsedInv /\ SpentInv /\ WriterInv /\ ChainInv /\ FileLive
  BY DEF AuthInv
<1>2. Login \in Threads /\ Login[1] = LoginCmd
  BY DEF Login, Threads
<1>3. LoginCmd \in up /\ pc[Login] = "idle" /\ logins' = logins + 1 /\ logins' \in Nat
      /\ UNCHANGED <<issued, live, ended, expired, file, up, memory, mutex, used, spent, excused>>
  BY <1>1 DEF BeginLogin, Login, TypeOK
<1>4. pc' = [pc EXCEPT ![Login] = "login"]
  BY DEF BeginLogin, Goto, Login
<1>5. pc'[Login] = "login" /\ \A u \in Threads : u # Login => pc'[u] = pc[u]
  BY <1>1, <1>2, <1>4 DEF TypeOK
<1>6. TypeOK'
  BY <1>1, <1>3, <1>4 DEF TypeOK
<1>7. UpInv' /\ HoldInv'
  BY <1>1, <1>2, <1>3, <1>5 DEF UpInv, HoldInv, Holds
<1>8. UsedInv' /\ SpentInv' /\ WriterInv'
  BY <1>1, <1>3, <1>5 DEF UsedInv, SpentInv, WriterInv, LastTokens
<1>9. ChainInv'
  <2>1. logins' < 2 => logins = 0
    BY <1>1, <1>3 DEF TypeOK
  <2>2. logins' # 0 /\ logins' > 0
    BY <1>1, <1>3 DEF TypeOK
  <2>3. logins' < 2 => issued' = 0 /\ LastTokens' = {}
    BY <1>1, <1>3, <2>1 DEF ChainInv, TypeOK, LastTokens
  <2> QED
    BY <1>1, <1>3, <2>2, <2>3 DEF ChainInv
<1>10. FileLive'
  <2>1. Writing' = Writing
    BY <1>3, <1>5 DEF Writing
  <2> QED
    BY <1>1, <1>3, <2>1 DEF FileLive
<1> QED
  BY <1>6, <1>7, <1>8, <1>9, <1>10 DEF AuthInv

\* Login takes the mutex of its process, which has no other goroutine, and drops the token.
LEMMA DropStep ==
  ASSUME AuthInv, DropToken
  PROVE  AuthInv'
<1>1. TypeOK /\ UpInv /\ HoldInv /\ UsedInv /\ SpentInv /\ WriterInv /\ ChainInv /\ FileLive
  BY DEF AuthInv
<1>2. Login \in Threads /\ Login[1] = LoginCmd /\ Login[2] = LoginCmd /\ LoginCmd \in Commands
  BY DEF Login, Threads, Commands
<1>3. pc[Login] = "login" /\ pc' = [pc EXCEPT ![Login] = "device"]
      /\ mutex' = [mutex EXCEPT ![LoginCmd] = LoginCmd] /\ memory' = [memory EXCEPT ![LoginCmd] = NoToken]
      /\ UNCHANGED <<issued, live, ended, expired, logins, file, up, used, spent, excused>>
  BY DEF DropToken, Goto, Login, provider
<1>4. pc'[Login] = "device" /\ \A u \in Threads : u # Login => pc'[u] = pc[u]
  BY <1>1, <1>2, <1>3 DEF TypeOK
<1>5. mutex'[LoginCmd] = LoginCmd /\ memory'[LoginCmd] = NoToken
      /\ \A p \in Commands : p # LoginCmd => mutex'[p] = mutex[p] /\ memory'[p] = memory[p]
  BY <1>1, <1>2, <1>3 DEF TypeOK
<1>6. \A u \in Threads : u # Login => u[1] # LoginCmd /\ u[1] \in Commands
  BY OnlyLogin, ThreadIsPair
<1>7. TypeOK'
  <2>1. NoToken \in 0 .. issued
    BY <1>1 DEF TypeOK, NoToken
  <2> QED
    BY <1>1, <1>3, <2>1 DEF TypeOK
<1>8. UpInv'
  BY <1>1, <1>2, <1>3, <1>4 DEF UpInv
<1>9. HoldInv'
  BY <1>1, <1>2, <1>4, <1>5, <1>6 DEF HoldInv, Holds
<1>10. UsedInv'
  BY <1>1, <1>3, <1>4, <1>5, <1>6 DEF UsedInv
<1>11. SpentInv'
  <2>1. spent[LoginCmd] \subseteq 1 .. issued
    BY <1>1, <1>2 DEF TypeOK
  <2>2. NoToken \notin spent[LoginCmd]
    BY <2>1 DEF NoToken
  <2> QED
    BY <1>1, <1>3, <1>5, <2>2 DEF SpentInv
<1>12. WriterInv'
  <2> SUFFICES ASSUME NEW u \in Threads, pc'[u] \in {"truncate", "write"}
               PROVE  /\ memory'[u[1]] \in LastTokens /\ file # memory'[u[1]]
                      /\ \A p \in Commands : p # u[1] => memory'[p] # memory'[u[1]]
    BY <1>3 DEF WriterInv, LastTokens
  <2>1. u # Login /\ pc[u] \in {"truncate", "write"} /\ u[1] # LoginCmd /\ memory'[u[1]] = memory[u[1]]
    BY <1>4, <1>5, <1>6
  <2>2. memory[u[1]] \in LastTokens /\ memory[u[1]] # NoToken
    BY <1>1, <2>1 DEF WriterInv, TypeOK, NoToken, LastTokens
  <2> QED
    BY <1>1, <1>5, <2>1, <2>2 DEF WriterInv
<1>13. ChainInv'
  <2>1. Login \in Threads
    BY DEF Login, Threads
  <2> QED
    BY <1>1, <1>3, <2>1 DEF ChainInv, LastTokens
<1>14. FileLive'
  <2>1. Writing' = Writing
    BY <1>3, <1>4 DEF Writing
  <2> QED
    BY <1>1, <1>3, <2>1 DEF FileLive
<1> QED
  BY <1>7, <1>8, <1>9, <1>10, <1>11, <1>12, <1>13, <1>14 DEF AuthInv

\* A process that starts has the session of the file, which nobody is writing.
LEMMA StartStep ==
  ASSUME AuthInv, NEW p \in Commands, Start(p)
  PROVE  AuthInv'
<1>1. TypeOK /\ UpInv /\ HoldInv /\ UsedInv /\ SpentInv /\ WriterInv /\ ChainInv /\ FileLive
  BY DEF AuthInv
<1>2. p \notin up /\ up' = up \cup {p} /\ memory' = [memory EXCEPT ![p] = file]
      /\ UNCHANGED <<issued, live, ended, expired, logins, file, mutex, pc, used, spent, excused>>
  BY DEF Start, provider
<1>3. file \in 0 .. issued
  BY <1>1 DEF Start, TypeOK
<1>4. memory'[p] = file /\ \A q \in Commands : q # p => memory'[q] = memory[q]
  BY <1>1, <1>2 DEF TypeOK
<1>5. \A u \in Threads : pc[u] # "idle" => u[1] # p /\ u[1] \in Commands
  BY <1>1, <1>2, ThreadIsPair DEF UpInv
<1>6. TypeOK'
  BY <1>1, <1>2, <1>3 DEF TypeOK
<1>7. UpInv' /\ HoldInv' /\ UsedInv'
  BY <1>1, <1>2, <1>4, <1>5 DEF UpInv, HoldInv, Holds, UsedInv
<1>8. SpentInv'
  <2>1. spent[p] = {}
    BY <1>1, <1>2 DEF UpInv
  <2> QED
    BY <1>1, <1>2, <1>4, <2>1 DEF SpentInv
<1>9. WriterInv'
  <2> SUFFICES ASSUME NEW u \in Threads, pc[u] \in {"truncate", "write"}
               PROVE  /\ memory'[u[1]] \in LastTokens /\ file # memory'[u[1]]
                      /\ \A q \in Commands : q # u[1] => memory'[q] # memory'[u[1]]
    BY <1>2 DEF WriterInv, LastTokens
  <2>1. memory'[u[1]] = memory[u[1]]
    BY <1>4, <1>5
  <2> QED
    BY <1>1, <1>4, <2>1 DEF WriterInv
<1>10. ChainInv' /\ FileLive'
  BY <1>1, <1>2 DEF ChainInv, FileLive, Writing, LastTokens
<1> QED
  BY <1>6, <1>7, <1>8, <1>9, <1>10 DEF AuthInv

\* A process ends: what it was writing is lost, which is an excuse.
LEMMA StopStep ==
  ASSUME AuthInv, NEW p \in Commands, Stop(p)
  PROVE  AuthInv'
<1>1. TypeOK /\ UpInv /\ HoldInv /\ UsedInv /\ SpentInv /\ WriterInv /\ ChainInv /\ FileLive
  BY DEF AuthInv
<1>2. up' = up \ {p} /\ memory' = [memory EXCEPT ![p] = NoToken] /\ mutex' = [mutex EXCEPT ![p] = Free]
      /\ spent' = [spent EXCEPT ![p] = {}] /\ UNCHANGED <<issued, live, ended, expired, logins, file>>
  BY DEF Stop, Unlock, provider
<1>3. \A u \in Threads : pc'[u] = (IF u[1] = p THEN "idle" ELSE pc[u])
                         /\ used'[u] = (IF u[1] = p THEN NoToken ELSE used[u])
  BY DEF Stop
<1>4. memory'[p] = NoToken /\ spent'[p] = {}
      /\ \A q \in Commands : q # p => memory'[q] = memory[q] /\ mutex'[q] = mutex[q] /\ spent'[q] = spent[q]
  BY <1>1, <1>2 DEF TypeOK
<1>5. \A u \in Threads : pc'[u] # "idle" =>
        pc'[u] = pc[u] /\ used'[u] = used[u] /\ u[1] # p /\ u[1] \in Commands
  BY <1>3, ThreadIsPair
<1>6. excused' = (excused \/ \E t \in Writing : t[1] = p)
  BY DEF Stop
<1>7. TypeOK'
  <2>1. NoToken \in 0 .. issued
    BY <1>1 DEF TypeOK, NoToken
  <2>2. pc' \in [Threads -> {"idle", "lock", "login", "exchange", "device", "truncate", "write", "send"}]
    BY <1>1 DEF Stop, TypeOK
  <2>3. used' \in [Threads -> 0 .. issued]
    BY <1>1, <2>1 DEF Stop, TypeOK
  <2>4. memory' \in [Commands -> 0 .. issued] /\ mutex' \in [Commands -> Goroutines \cup {LoginCmd, Free}]
        /\ spent' \in [Commands -> SUBSET (1 .. issued)] /\ up' \subseteq Commands
    BY <1>1, <1>2, <2>1 DEF TypeOK
  <2>5. excused' \in BOOLEAN
    BY <1>1, <1>6 DEF TypeOK
  <2> QED
    BY <1>1, <1>2, <2>2, <2>3, <2>4, <2>5 DEF TypeOK
<1>8. UpInv'
  BY <1>1, <1>2, <1>4, <1>5 DEF UpInv
<1>9. HoldInv' /\ UsedInv'
  BY <1>1, <1>4, <1>5 DEF HoldInv, Holds, UsedInv
<1>10. SpentInv'
  BY <1>1, <1>4 DEF SpentInv
<1>11. WriterInv'
  <2> SUFFICES ASSUME NEW u \in Threads, pc'[u] \in {"truncate", "write"}
               PROVE  /\ memory'[u[1]] \in LastTokens /\ file # memory'[u[1]]
                      /\ \A q \in Commands : q # u[1] => memory'[q] # memory'[u[1]]
    BY <1>2 DEF WriterInv, LastTokens
  <2>1. pc[u] \in {"truncate", "write"} /\ u[1] # p /\ memory'[u[1]] = memory[u[1]]
    BY <1>4, <1>5
  <2>2. memory[u[1]] \in LastTokens /\ memory[u[1]] # NoToken
    BY <1>1, <2>1 DEF WriterInv, TypeOK, NoToken, LastTokens
  <2> QED
    BY <1>1, <1>4, <2>1, <2>2 DEF WriterInv
<1>12. ChainInv'
  <2>1. Login \in Threads
    BY DEF Login, Threads
  <2>2. pc'[Login] \in {"login", "device"} => pc[Login] \in {"login", "device"}
    BY <1>3, <2>1
  <2> QED
    BY <1>1, <1>2, <2>2 DEF ChainInv, LastTokens
<1>13. FileLive'
  <2>1. ~excused' => ~excused /\ Writing' = Writing
    BY <1>3, <1>6 DEF Writing
  <2> QED
    BY <1>1, <1>2, <2>1 DEF FileLive
<1> QED
  BY <1>7, <1>8, <1>9, <1>10, <1>11, <1>12, <1>13 DEF AuthInv

\* What the invariant says does not depend on the expired tokens, only their type does.
LEMMA ExpireStep ==
  ASSUME AuthInv, NEW n \in 1 .. issued, Expire(n)
  PROVE  AuthInv'
<1>1. TypeOK'
  BY DEF AuthInv, TypeOK, Expire
<1> QED
  BY <1>1 DEF AuthInv, Expire, UpInv, HoldInv, Holds, UsedInv, SpentInv, WriterInv, ChainInv,
              FileLive, Writing, LastTokens

\* Every step keeps the invariant.
LEMMA AuthStep == AuthInv /\ [Next]_vars => AuthInv'
<1> SUFFICES ASSUME AuthInv, [Next]_vars PROVE AuthInv'
  OBVIOUS
<1>1. ASSUME NEW p \in Commands, Start(p) \/ Stop(p) PROVE AuthInv'
  BY <1>1, StartStep, StopStep
<1>2. ASSUME NEW p \in Processes, NEW g \in Goroutines, Request(p, g) \/ CheckToken(p, g)
      PROVE  AuthInv'
  <2>1. <<p, g>> \in Threads /\ <<p, g>>[1] = p /\ <<p, g>>[2] = g
    BY DEF Threads
  <2> QED
    BY <1>2, <2>1, RequestStep
<1>3. ASSUME NEW t \in Threads, RefreshStep(t[1], t[2]) PROVE AuthInv'
  BY <1>3, RequestStep, ExchangeStep, ExchangeFailsStep, WriteStep DEF RefreshStep
<1>4. CASE BeginLogin \/ DropToken \/ DeviceFlow
  BY <1>4, BeginStep, DropStep, DeviceStep
<1>5. ASSUME NEW n \in 1 .. issued, Expire(n) PROVE AuthInv'
  BY <1>5, ExpireStep
<1>6. CASE UNCHANGED vars
  BY <1>6 DEF vars, AuthInv, TypeOK, UpInv, HoldInv, Holds, UsedInv, SpentInv, WriterInv, ChainInv,
              FileLive, Writing, LastTokens
<1> QED
  BY <1>1, <1>2, <1>3, <1>4, <1>5, <1>6 DEF Next

\* Every reachable state satisfies the invariant.
LEMMA AuthInvariant == Spec => []AuthInv
BY AuthInitInv, AuthStep, PTL DEF Spec

-------------------------------------------------------------------------------
\* Every state of the client, its goroutines and the provider has the types of TypeOK.
THEOREM AuthTypeCorrect == Spec => []TypeOK
<1>1. AuthInv => TypeOK
  BY DEF AuthInv
<1> QED
  BY <1>1, AuthInvariant, PTL

\* No goroutine gives the provider a refresh token its process has given it before: RefreshToken
\* reads the token under the mutex it keeps until the new one is in memory.
THEOREM TokensAreUsedOnce == Spec => []RefreshOnce
<1>1. AuthInv => RefreshOnce
  <2> SUFFICES ASSUME AuthInv, NEW t \in Threads, pc[t] = "exchange"
               PROVE  used[t] \notin spent[t[1]]
    BY DEF RefreshOnce
  <2>1. t[1] \in Commands
    BY ThreadIsPair
  <2> QED
    BY <2>1 DEF AuthInv, UsedInv, SpentInv
<1> QED
  BY <1>1, AuthInvariant, PTL

\* The session in client-auth.json is one the provider takes, or has ended for a spent token, unless
\* it is being written or what lost it is known: what WriteClientAuth writes is the token of the exchange it follows.
THEOREM FileStaysLive == Spec => []FileLive
<1>1. AuthInv => FileLive
  BY DEF AuthInv
<1> QED
  BY <1>1, AuthInvariant, PTL

\* With one login one goroutine of all processes writes client-auth.json at a time: the session
\* has one last token, which is the one the writer has.
THEOREM OneWriterAtATime == Spec => []OneWriter
<1>1. AuthInv => OneWriter
  <2> SUFFICES ASSUME AuthInv, logins < 2, NEW t \in Writing, NEW u \in Writing
               PROVE  t = u
    BY DEF OneWriter
  <2>1. t \in Threads /\ u \in Threads /\ pc[t] \in {"truncate", "write"} /\ pc[u] \in {"truncate", "write"}
    BY DEF Writing
  <2>2. memory[t[1]] \in LastTokens /\ memory[u[1]] \in LastTokens /\ LastTokens \subseteq {issued}
    BY <2>1 DEF AuthInv, WriterInv, ChainInv
  <2>3. t[1] \in Commands /\ u[1] \in Commands
    BY <2>1, ThreadIsPair
  <2>4. t[1] = u[1]
    BY <2>1, <2>2, <2>3 DEF AuthInv, WriterInv
  <2> QED
    BY <2>1, <2>4, Exclusion DEF Holds
<1> QED
  BY <1>1, AuthInvariant, PTL

=============================================================================
