----------------------------- MODULE ClientAuth -----------------------------
(***************************************************************************)
(* The login of a user on one machine: the processes that share the file    *)
(* ~/.dboxed-volume/client-auth.json (volume-serve, webdavproxy, the short  *)
(* commands), the goroutines of each, and the provider's tokens.            *)
(*                                                                          *)
(* A process reads the file once, in client.New.  Before each request       *)
(* RefreshToken looks at the token in memory under the client's mutex, and  *)
(* has it refreshed when it has expired: the provider takes the refresh     *)
(* token and gives a new pair, which goes to memory and then to the file.   *)
(* The login command takes a token from the device flow the same way.       *)
(*                                                                          *)
(* The provider is one that rotates: a refresh token can be used once, and  *)
(* when it sees one again it may end the session, as for a stolen one.  The *)
(* n-th pair it issues is the token n.  os.WriteFile truncates the file and *)
(* writes it then.                                                          *)
(***************************************************************************)
EXTENDS Integers, FiniteSets

CONSTANTS Processes,    \* those that send requests
          LoginCmd,     \* the login command
          Goroutines,   \* of each process
          MaxLogins,    \* bound of the logins
          MaxExpired    \* bound of the access tokens that expire

Commands == Processes \cup {LoginCmd}

Free == "free"   \* a mutex that nobody holds

ASSUME ClientAuthAssumption == /\ LoginCmd \notin Processes \cup Goroutines
                               /\ Free \notin Goroutines \cup {LoginCmd}
                               /\ MaxLogins \in Nat /\ MaxExpired \in Nat

VARIABLES issued,    \* the tokens the provider has issued
          live,      \* those whose refresh token it takes
          ended,     \* those it has ended because a spent token was presented
          expired,   \* those whose access token has expired
          file,      \* client-auth.json
          up,        \* the processes that run
          memory,    \* clientAuth.Token of each
          mutex,     \* the goroutine that holds Client.m, or Free
          pc,        \* where each goroutine is
          used,      \* the token it has given to oauth2's TokenSource
          logins,    \* the logins begun
          spent,     \* history: the tokens each process has exchanged
          excused    \* history: the session in the file is lost or torn, and why is known

vars == <<issued, live, ended, expired, file, up, memory, mutex, pc, used, logins, spent, excused>>

provider == <<issued, live, ended, expired, logins>>

NoToken == 0     \* nil in memory; no file
Empty == -1      \* a file that was truncated
Garbled == -2    \* what two writers leave: the one's bytes and the rest of the other's
\* The login command has one goroutine, named like it.
Threads == (Processes \X Goroutines) \cup {<<LoginCmd, LoginCmd>>}

TypeOK ==
  /\ issued \in Nat /\ live \subseteq 1 .. issued /\ logins \in Nat
  /\ ended \subseteq 1 .. issued /\ expired \subseteq 1 .. issued
  /\ file \in (0 .. issued) \cup {Empty, Garbled}
  /\ up \subseteq Commands /\ memory \in [Commands -> 0 .. issued]
  /\ mutex \in [Commands -> Goroutines \cup {LoginCmd, Free}]
  /\ pc \in [Threads -> {"idle", "lock", "login", "exchange", "device", "truncate", "write", "send"}]
  /\ used \in [Threads -> 0 .. issued]
  /\ spent \in [Commands -> SUBSET (1 .. issued)] /\ excused \in BOOLEAN

Init ==
  /\ issued = 0 /\ live = {} /\ ended = {} /\ expired = {} /\ logins = 0
  /\ file = NoToken
  /\ up = {} /\ memory = [p \in Commands |-> NoToken] /\ mutex = [p \in Commands |-> Free]
  /\ pc = [t \in Threads |-> "idle"] /\ used = [t \in Threads |-> NoToken]
  /\ spent = [p \in Commands |-> {}] /\ excused = FALSE

Goto(p, g, step) == pc' = [pc EXCEPT ![<<p, g>>] = step]

Unlock(p) == mutex' = [mutex EXCEPT ![p] = Free]

\* The goroutines that have a token to write and have not written it.
Writing == {t \in Threads : pc[t] \in {"truncate", "write"}}

-------------------------------------------------------------------------------
\* client.New reads the file: none is a client that has not logged in, one it cannot parse an error.
Start(p) ==
  /\ p \notin up /\ file \notin {Empty, Garbled}
  /\ up' = up \cup {p}
  /\ memory' = [memory EXCEPT ![p] = file]
  /\ UNCHANGED <<provider, file, mutex, pc, used, spent, excused>>

\* A process ends, or is killed wherever its goroutines are.
Stop(p) ==
  /\ p \in up
  /\ up' = up \ {p}
  /\ memory' = [memory EXCEPT ![p] = NoToken] /\ Unlock(p)
  /\ pc' = [t \in Threads |-> IF t[1] = p THEN "idle" ELSE pc[t]]
  /\ used' = [t \in Threads |-> IF t[1] = p THEN NoToken ELSE used[t]]
  /\ spent' = [spent EXCEPT ![p] = {}]
  /\ excused' = (excused \/ \E t \in Writing : t[1] = p)
  /\ UNCHANGED <<provider, file>>

\* requestApi2 calls RefreshToken.
Request(p, g) ==
  /\ p \in up /\ pc[<<p, g>>] = "idle"
  /\ Goto(p, g, "lock")
  /\ UNCHANGED <<provider, file, up, memory, mutex, used, spent, excused>>

\* Login, once it has the provider's address from the server.
BeginLogin ==
  /\ LoginCmd \in up /\ logins < MaxLogins
  /\ pc[<<LoginCmd, LoginCmd>>] = "idle"
  /\ logins' = logins + 1
  /\ Goto(LoginCmd, LoginCmd, "login")
  /\ UNCHANGED <<issued, live, ended, expired, file, up, memory, mutex, used, spent, excused>>

\* Mutant: RefreshToken does not lock.
CheckTokenUnlocked(p, g) ==
  /\ pc[<<p, g>>] = "lock"
  /\ \/ memory[p] = NoToken /\ Goto(p, g, "idle") /\ UNCHANGED used
     \/ memory[p] # NoToken /\ memory[p] \notin expired /\ Goto(p, g, "send") /\ UNCHANGED used
     \/ /\ memory[p] \in expired
        /\ used' = [used EXCEPT ![<<p, g>>] = memory[p]]
        /\ Goto(p, g, "exchange")
  /\ UNCHANGED <<provider, file, up, memory, mutex, spent, excused>>

\* RefreshToken: no token is an error, a valid one is used as it is, another is to be exchanged.
CheckToken(p, g) ==
  /\ pc[<<p, g>>] = "lock" /\ mutex[p] = Free
  /\ \/ memory[p] = NoToken /\ Goto(p, g, "idle") /\ UNCHANGED <<mutex, used>>
     \/ /\ memory[p] # NoToken /\ memory[p] \notin expired
        /\ Goto(p, g, "send") /\ UNCHANGED <<mutex, used>>
     \/ /\ memory[p] \in expired
        /\ mutex' = [mutex EXCEPT ![p] = g]
        /\ used' = [used EXCEPT ![<<p, g>>] = memory[p]]
        /\ Goto(p, g, "exchange")
  /\ UNCHANGED <<provider, file, up, memory, spent, excused>>

\* Login: the mutex, and the token that was there is dropped.
DropToken ==
  /\ pc[<<LoginCmd, LoginCmd>>] = "login" /\ mutex[LoginCmd] = Free
  /\ mutex' = [mutex EXCEPT ![LoginCmd] = LoginCmd]
  /\ memory' = [memory EXCEPT ![LoginCmd] = NoToken]
  /\ Goto(LoginCmd, LoginCmd, "device")
  /\ UNCHANGED <<provider, file, up, used, spent, excused>>

\* The provider issues the next token.
Issue(old) ==
  /\ issued' = issued + 1
  /\ live' = (live \ {old}) \cup {issued + 1}
  /\ UNCHANGED <<ended, expired, logins>>

\* Mutant: the mutex protects the exchange only.
ExchangeAndUnlock(p, g) ==
  /\ pc[<<p, g>>] = "exchange" /\ used[<<p, g>>] \in live
  /\ Issue(used[<<p, g>>])
  /\ memory' = [memory EXCEPT ![p] = issued + 1]
  /\ spent' = [spent EXCEPT ![p] = @ \cup {used[<<p, g>>]}]
  /\ Goto(p, g, "truncate") /\ Unlock(p)
  /\ UNCHANGED <<file, up, used, excused>>

\* TokenSource.Token: the provider takes the refresh token ...
Exchange(p, g) ==
  /\ pc[<<p, g>>] = "exchange" /\ used[<<p, g>>] \in live
  /\ Issue(used[<<p, g>>])
  /\ memory' = [memory EXCEPT ![p] = issued + 1]
  /\ spent' = [spent EXCEPT ![p] = @ \cup {used[<<p, g>>]}]
  /\ Goto(p, g, "truncate")
  /\ UNCHANGED <<file, up, mutex, used, excused>>

\* The request, or the login, ends with an error.
Fail(p, g) ==
  /\ Goto(p, g, "idle") /\ Unlock(p)
  /\ used' = [used EXCEPT ![<<p, g>>] = NoToken]

\* The provider takes the refresh token for a stolen one, which makes an end of any of the sessions.
EndSessions ==
  \E lost \in SUBSET live :
    /\ live' = live \ lost /\ ended' = ended \cup lost
    /\ UNCHANGED <<issued, expired, logins>>

\* ... and its answer is lost, or it refuses, or is not reached ...
ExchangeFails(p, g) ==
  /\ pc[<<p, g>>] = "exchange"
  /\ Fail(p, g)
  /\ \/ used[<<p, g>>] \in live /\ Issue(used[<<p, g>>]) /\ excused' = TRUE
     \/ used[<<p, g>>] \notin live /\ EndSessions /\ UNCHANGED excused
     \/ UNCHANGED <<provider, excused>>
  /\ UNCHANGED <<file, up, memory, spent>>

\* ... and the device flow gives a token, or fails.
DeviceFlow ==
  /\ pc[<<LoginCmd, LoginCmd>>] = "device"
  /\ \/ /\ Issue(NoToken)
        /\ memory' = [memory EXCEPT ![LoginCmd] = issued + 1]
        /\ Goto(LoginCmd, LoginCmd, "truncate") /\ UNCHANGED <<mutex, used>>
     \/ Fail(LoginCmd, LoginCmd) /\ UNCHANGED <<provider, memory>>
  /\ UNCHANGED <<file, up, spent, excused>>

\* WriteClientAuth: os.WriteFile truncates the file, or cannot open it ...
Truncate(p, g) ==
  /\ pc[<<p, g>>] = "truncate"
  /\ \/ file' = Empty /\ Goto(p, g, "write") /\ UNCHANGED <<mutex, used, excused>>
     \/ Fail(p, g) /\ excused' = TRUE /\ UNCHANGED file
  /\ UNCHANGED <<provider, up, memory, spent>>

\* The request goes on, and Login is over.
Done(p, g) ==
  /\ Goto(p, g, IF p = LoginCmd THEN "idle" ELSE "send") /\ Unlock(p)
  /\ used' = [used EXCEPT ![<<p, g>>] = NoToken]

\* Mutant: the token is assigned after the file is written.
WriteBeforeAssign(p, g) ==
  /\ pc[<<p, g>>] = "write"
  /\ \/ /\ file' = IF used[<<p, g>>] = NoToken THEN memory[p] ELSE used[<<p, g>>]
        /\ excused' = FALSE /\ Done(p, g)
     \/ file # Empty /\ file' = Garbled /\ excused' = TRUE /\ Done(p, g)
     \/ Fail(p, g) /\ excused' = TRUE /\ UNCHANGED file
  /\ UNCHANGED <<provider, up, memory, spent>>

\* ... and writes what the client has in memory: over what another has written meanwhile, or not at all.
Write(p, g) ==
  /\ pc[<<p, g>>] = "write"
  /\ \/ file' = memory[p] /\ excused' = FALSE /\ Done(p, g)
     \/ file # Empty /\ file' = Garbled /\ excused' = TRUE /\ Done(p, g)
     \/ Fail(p, g) /\ excused' = TRUE /\ UNCHANGED file
  /\ UNCHANGED <<provider, up, memory, spent>>

\* requestApi2 sends the request with the token in memory, whoever put it there.
Send(p, g) ==
  /\ pc[<<p, g>>] = "send"
  /\ Goto(p, g, "idle")
  /\ UNCHANGED <<provider, file, up, memory, mutex, used, spent, excused>>

\* Time passes and an access token is no longer valid.
Expire(n) ==
  /\ n \notin expired /\ Cardinality(expired) < MaxExpired
  /\ expired' = expired \cup {n}
  /\ UNCHANGED <<issued, live, ended, file, up, memory, mutex, pc, used, logins, spent, excused>>

-------------------------------------------------------------------------------
RefreshStep(p, g) == \/ Exchange(p, g) \/ ExchangeFails(p, g)
                     \/ Truncate(p, g) \/ Write(p, g) \/ Send(p, g)

Next ==
  \/ \E p \in Commands : Start(p) \/ Stop(p)
  \/ \E p \in Processes, g \in Goroutines : Request(p, g) \/ CheckToken(p, g)
  \/ \E t \in Threads : RefreshStep(t[1], t[2])
  \/ BeginLogin \/ DropToken \/ DeviceFlow
  \/ \E n \in 1 .. issued : Expire(n)

Spec == Init /\ [][Next]_vars

-------------------------------------------------------------------------------
\* The session in the file is one the provider still takes: a process started now is logged in.
\* While a token is being written it need not be, and a lost answer, a process killed before it has
\* written, a failed write and two writers at once lose it, until the next write.  So does a process
\* that presents the token which another has exchanged since it was started, for it never reads the
\* file again: a provider that takes this for theft ends the session.
FileLive ==
  Writing = {} /\ ~excused => file \in live \cup ended \cup {NoToken}

\* As long as there was one login, one goroutine of all processes writes the file at a time: a
\* process that still has an older token is refused, and the goroutines of one exclude each other.
OneWriter ==
  logins < 2 => \A t, u \in Writing : t = u

\* No goroutine presents a refresh token that its process has exchanged already: the provider would
\* take it for a stolen one and end the session.  The token is looked at again under the mutex.
RefreshOnce ==
  \A t \in Threads : pc[t] = "exchange" => used[t] \notin spent[t[1]]
=============================================================================
