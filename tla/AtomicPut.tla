------------------------------ MODULE AtomicPut ------------------------------
(***************************************************************************)
(* What the PUTs of one name promise, without handlers, pipes, goroutines   *)
(* or pieces: one PUT at a time has the name, its body becomes the object   *)
(* in one step and at most once, cut short only if its client went away,    *)
(* and success is told to a client whose whole body is the object then.     *)
(* Upload implements this module (Upload!PutSpec).                          *)
(***************************************************************************)
CONSTANTS Clients,   \* each PUTs the name once
          Nobody,    \* not a client
          Nothing    \* no object is stored

VARIABLES client,    \* what each client knows of its PUT
          lock,      \* the client whose PUT has the name
          object     \* whose body is stored, and whether it is whole

putVars == <<client, lock, object>>

PutInit == /\ client = [c \in Clients |-> "idle"]
           /\ lock = Nobody /\ object = Nothing

Learns(c, what) == client' = [client EXCEPT ![c] = what]

Begin(c) == /\ client[c] = "idle" /\ lock = Nobody
            /\ Learns(c, "sending") /\ lock' = c
            /\ UNCHANGED object

\* The name is taken.
Reject(c) == /\ client[c] = "idle" /\ lock # Nobody
             /\ Learns(c, "error")
             /\ UNCHANGED <<lock, object>>

GoAway(c) == /\ client[c] = "sending"
             /\ Learns(c, "gone")
             /\ UNCHANGED <<lock, object>>

\* The body of the PUT that has the name takes the place of the object.
StoresBody(c) == /\ object = Nothing \/ object.by # c
                 /\ \E whole \in BOOLEAN : /\ object' = [by |-> c, whole |-> whole]
                                           /\ whole \/ client[c] = "gone"

Store(c) == /\ lock = c
            /\ StoresBody(c)
            /\ UNCHANGED <<client, lock>>

Succeed(c) == /\ lock = c /\ client[c] = "sending"
              /\ object = [by |-> c, whole |-> TRUE]
              /\ Learns(c, "ok") /\ lock' = Nobody
              /\ UNCHANGED object

\* The PUT is over, and its client is told that it failed or is not there to be told.
Fail(c) == /\ lock = c
           /\ Learns(c, IF client[c] = "gone" THEN "gone" ELSE "error") /\ lock' = Nobody
           /\ UNCHANGED object

\* The proxy restarts; a body may have got through just before.
Restart(c) == /\ lock = c
              /\ UNCHANGED object \/ StoresBody(c)
              /\ client' = [d \in Clients |-> IF client[d] = "sending" THEN "error" ELSE client[d]]
              /\ lock' = Nobody

PutNext == \E c \in Clients : \/ Begin(c) \/ Reject(c) \/ GoAway(c) \/ Store(c)
                              \/ Succeed(c) \/ Fail(c) \/ Restart(c)

PutSpec == PutInit /\ [][PutNext]_putVars
==============================================================================
