----------------------------- MODULE PmClientLib -----------------------------
(***************************************************************************)
(* The client library (libpmclient/PeripheralManagerClient.cpp) in one     *)
(* process, and the server as the library sees it.                         *)
(*                                                                         *)
(* A process has one PeripheralManagerClient structure per registration,   *)
(* a list of the valid ones with a lock of its own, and a lock in every    *)
(* structure.  The application calls the library from its threads, binder  *)
(* delivers events to callbacks that acknowledge them, and runs binderDied *)
(* when the server dies, to register and connect again.                    *)
(*                                                                         *)
(* Calls into the server are external: only what they return and whether   *)
(* the server keeps a vote is modelled here (module Peripheral has the     *)
(* rest).  A call to a dead server returns OK: the proxy ignores the       *)
(* status of the transaction and reads 0 from the empty reply.             *)
(***************************************************************************)
EXTENDS Integers, FiniteSets

CONSTANTS
  Handle,                \* the structures of the process
  Retries,               \* CLIENT_REGISTER_RETRY_COUNT
  MaxDeaths,             \* bound: deaths of the server
  MaxCalls,              \* bound: calls made by each thread
  DiesWhileRegistering   \* the server may die between link and push_back

ASSUME LibAssumption ==
  /\ Retries \in Nat \ {0} /\ MaxDeaths \in Nat /\ MaxCalls \in Nat
  /\ DiesWhileRegistering \in BOOLEAN

Incarnation == 1..MaxDeaths + 1
Thread == Handle \X {"app", "callback", "died"} \X Incarnation
Free == <<>>

\* One thread per structure calls, one acknowledges, and every death of a
\* server the structure was linked to runs on a thread of its own.
App(h)      == <<h, "app", 1>>
Callback(h) == <<h, "callback", 1>>
Died(h, i)  == <<h, "died", i>>
Of(t)       == t[1]

VARIABLES
  server,      \* the incarnation that was started last
  status,      \* "up", "stopping" (votes are refused) or "down"
  registered,  \* structures the current server has a client object for
  voted,       \* structures the current server counts a vote for
  links,       \* <<structure, incarnation>>: linked to death
  struct,      \* "none", "alive" or "deleted"
  ops,         \* the incarnation a structure talks to, 0 for NULL
  connected,   \* PeripheralManagerClient::connected
  listed,      \* mClientsInProcess
  listLock,    \* owner of mClientsInProcessLock, or Free
  clientLock,  \* owner of PeripheralManagerClient::mLock, or Free
  pc, op,      \* where each thread is, in which function
  tries,       \* registrations a binderDied has tried
  calls,       \* calls made so far
  misused      \* structures that were used after they were deleted

theServer == <<server, status>>
atServer  == <<registered, voted, links>>
client    == <<struct, ops, connected>>
locks     == <<listed, listLock, clientLock>>
control   == <<pc, op, tries, calls>>
lvars     == <<theServer, atServer, client, locks, control, misused>>

Goto(t, place) == pc' = [pc EXCEPT ![t] = place]
Alive(h)   == ops[h] = server /\ status # "down"
Removes(t) == op[t] \in {"unregister", "died"}

-----------------------------------------------------------------------------
(* pm_client_find_and_lock: the lock of the structure is taken while the   *)
(* lock of the list is held.                                               *)

Start(t, function) ==
  /\ pc[t] = "idle" /\ calls[t] < MaxCalls
  /\ op' = [op EXCEPT ![t] = function]
  /\ calls' = [calls EXCEPT ![t] = @ + 1]
  /\ UNCHANGED <<theServer, atServer, client, locks, tries, misused>>

LockList(t) ==
  /\ pc[t] = "find" /\ listLock = Free
  /\ listLock' = t
  /\ Goto(t, "search")
  /\ UNCHANGED <<theServer, atServer, client, listed, clientLock, op, tries, calls, misused>>

NotFound(t) ==
  /\ pc[t] = "search" /\ Of(t) \notin listed
  /\ listLock' = Free
  /\ Goto(t, "idle")
  /\ UNCHANGED <<theServer, atServer, client, listed, clientLock, op, tries, calls, misused>>

Found(t) ==
  /\ pc[t] = "search" /\ Of(t) \in listed
  /\ Goto(t, "lock")
  /\ UNCHANGED <<theServer, atServer, client, locks, op, tries, calls, misused>>

ListAfterLock_Kept(t) == listed
ListAfterLock(t) == IF Removes(t) THEN listed \ {Of(t)} ELSE listed

LockClient(t) ==
  /\ pc[t] = "lock" /\ clientLock[Of(t)] = Free
  /\ clientLock' = [clientLock EXCEPT ![Of(t)] = t]
  /\ listed' = ListAfterLock(t)
  /\ listLock' = Free
  /\ misused' = misused \cup {h \in {Of(t)} : struct[h] = "deleted"}
  /\ Goto(t, "body")
  /\ UNCHANGED <<theServer, atServer, client, op, tries, calls>>

Unlock(t) ==
  /\ pc[t] \in {"unlock", "unlock and delete"}
  /\ clientLock' = [clientLock EXCEPT ![Of(t)] = Free]
  /\ Goto(t, IF pc[t] = "unlock" THEN "idle" ELSE "delete")
  /\ UNCHANGED <<theServer, atServer, client, listed, listLock, op, tries, calls, misused>>

Delete(t) ==
  /\ pc[t] = "delete"
  /\ struct' = [struct EXCEPT ![Of(t)] = "deleted"]
  /\ Goto(t, "idle")
  /\ UNCHANGED <<theServer, atServer, ops, connected, locks, op, tries, calls, misused>>

-----------------------------------------------------------------------------
(* The calls, with the structure locked.                                   *)

Body(t, function) == pc[t] = "body" /\ op[t] = function

\* connect of the server: refused in the shutdown and to who votes already.
VoteTaken(h) == Alive(h) /\ status = "up" /\ h \in registered \ voted

PmClientConnect(t) ==
  /\ Body(t, "connect")
  /\ voted' = voted \cup {h \in {Of(t)} : VoteTaken(h)}
  /\ connected' = [connected EXCEPT ![Of(t)] = @ \/ VoteTaken(Of(t)) \/ ~Alive(Of(t))]
  /\ Goto(t, "unlock")
  /\ UNCHANGED <<theServer, registered, links, struct, ops, locks, op, tries, calls, misused>>

VoteDropped(h) == Alive(h) /\ status = "up" /\ h \in voted

ConnectedAfterUnvote_AnyStatus(h) == FALSE
ConnectedAfterUnvote(h) == connected[h] /\ ~VoteDropped(h) /\ Alive(h)

PmClientDisconnect(t) ==
  /\ Body(t, "disconnect")
  /\ voted' = voted \ {h \in {Of(t)} : VoteDropped(h)}
  /\ connected' = [connected EXCEPT ![Of(t)] = ConnectedAfterUnvote(Of(t))]
  /\ Goto(t, "unlock")
  /\ UNCHANGED <<theServer, registered, links, struct, ops, locks, op, tries, calls, misused>>

PmClientEventAcknowledge(t) ==
  /\ Body(t, "acknowledge")
  /\ Goto(t, "unlock")
  /\ UNCHANGED <<theServer, atServer, client, locks, op, tries, calls, misused>>

\* unregister: the server drops the vote and the client, the library the link.
Gone(h) ==
  /\ registered' = IF Alive(h) THEN registered \ {h} ELSE registered
  /\ voted' = IF Alive(h) THEN voted \ {h} ELSE voted
  /\ links' = links \ {<<h, ops[h]>>}
  /\ ops' = [ops EXCEPT ![h] = 0]

PmClientUnregister(t) ==
  /\ Body(t, "unregister")
  /\ Gone(Of(t))
  /\ Goto(t, "unlock and delete")
  /\ UNCHANGED <<theServer, struct, connected, locks, op, tries, calls, misused>>

\* binderDied forgets the server and starts to register again.
BinderDied(t) ==
  /\ Body(t, "died")
  /\ links' = links \ {<<Of(t), ops[Of(t)]>>}
  /\ ops' = [ops EXCEPT ![Of(t)] = 0]
  /\ Goto(t, "registar")
  /\ UNCHANGED <<theServer, registered, voted, struct, connected, locks, op, tries, calls,
                 misused>>

-----------------------------------------------------------------------------
(* pm_register_connect, by pm_client_register or by binderDied.            *)

\* pm_client_register fails at once; binderDied tries again, then gives up.
Failed(t) ==
  /\ tries' = [tries EXCEPT ![t] = @ + 1]
  /\ Goto(t, CASE op[t] = "register"          -> "delete"
               [] tries[t] + 1 < Retries      -> "registar"
               [] OTHER                       -> "unlock and delete")

PmClientRegister(h) ==
  /\ struct[h] = "none" /\ pc[App(h)] = "idle"
  /\ struct' = [struct EXCEPT ![h] = "alive"]
  /\ op' = [op EXCEPT ![App(h)] = "register"]
  /\ Goto(App(h), "registar")
  /\ UNCHANGED <<theServer, atServer, ops, connected, locks, tries, calls, misused>>

\* getService and registar.
RegisterAtServer(t) ==
  /\ pc[t] = "registar"
  /\ \/ /\ status # "down"
        /\ registered' = registered \cup {Of(t)}
        /\ ops' = [ops EXCEPT ![Of(t)] = server]
        /\ Goto(t, "link")
        /\ UNCHANGED tries
     \/ status = "down" /\ Failed(t) /\ UNCHANGED <<registered, ops>>
  /\ UNCHANGED <<theServer, voted, links, struct, connected, locks, op, calls, misused>>

LinkToDeath(t) ==
  /\ pc[t] = "link"
  /\ \/ /\ Alive(Of(t))
        /\ links' = links \cup {<<Of(t), server>>}
        /\ Goto(t, IF connected[Of(t)] THEN "reconnect" ELSE "push_back")
        /\ UNCHANGED <<ops, tries>>
     \/ /\ ~Alive(Of(t))
        /\ ops' = [ops EXCEPT ![Of(t)] = 0]
        /\ Failed(t)
        /\ UNCHANGED links
  /\ UNCHANGED <<theServer, registered, voted, struct, connected, locks, op, calls, misused>>

ReconnectVotes_Skipped(h) == FALSE
ReconnectVotes(h) == VoteTaken(h)

Reconnect(t) ==
  /\ pc[t] = "reconnect"
  /\ \/ /\ VoteTaken(Of(t)) \/ ~Alive(Of(t))
        /\ voted' = voted \cup {h \in {Of(t)} : ReconnectVotes(h)}
        /\ Goto(t, "push_back")
        /\ UNCHANGED <<registered, links, ops, tries>>
     \/ /\ ~VoteTaken(Of(t)) /\ Alive(Of(t))
        /\ Gone(Of(t))
        /\ Failed(t)
  /\ UNCHANGED <<theServer, struct, connected, locks, op, calls, misused>>

PushBack(t) ==
  /\ pc[t] = "push_back" /\ listLock = Free
  /\ listed' = listed \cup {Of(t)}
  /\ Goto(t, IF op[t] = "register" THEN "idle" ELSE "unlock")
  /\ UNCHANGED <<theServer, atServer, client, listLock, clientLock, op, tries, calls, misused>>

-----------------------------------------------------------------------------
(* The server, external.                                                   *)

ServerStops ==
  /\ status = "up" /\ status' = "stopping"
  /\ UNCHANGED <<server, atServer, client, locks, control, misused>>

\* Every link to the server that dies starts a thread with binderDied.
ServerDies ==
  /\ status # "down" /\ server <= MaxDeaths
  /\ DiesWhileRegistering \/ \A t \in Thread : pc[t] \notin {"reconnect", "push_back"}
  /\ status' = "down"
  /\ registered' = {} /\ voted' = {}
  /\ links' = {l \in links : l[2] # server}
  /\ pc' = [t \in Thread |-> IF t[2] = "died" /\ <<Of(t), t[3]>> \in links /\ t[3] = server
                               THEN "find" ELSE pc[t]]
  /\ op' = [t \in Thread |-> IF t[2] = "died" THEN "died" ELSE op[t]]
  /\ UNCHANGED <<server, client, locks, tries, calls, misused>>

ServerRestarts ==
  /\ status = "down"
  /\ server' = server + 1 /\ status' = "up"
  /\ UNCHANGED <<atServer, client, locks, control, misused>>

-----------------------------------------------------------------------------
LibInit ==
  /\ server = 1 /\ status = "up"
  /\ registered = {} /\ voted = {} /\ links = {}
  /\ struct = [h \in Handle |-> "none"]
  /\ ops = [h \in Handle |-> 0]
  /\ connected = [h \in Handle |-> FALSE]
  /\ listed = {} /\ listLock = Free
  /\ clientLock = [h \in Handle |-> Free]
  /\ pc = [t \in Thread |-> "idle"] /\ op = [t \in Thread |-> "none"]
  /\ tries = [t \in Thread |-> 0] /\ calls = [t \in Thread |-> 0]
  /\ misused = {}

\* The application may use a handle that is no longer valid; events arrive
\* only while the server has the client registered.
Call(h) ==
  \/ PmClientRegister(h)
  \/ /\ struct[h] # "none" /\ Goto(App(h), "find")
     /\ \E function \in {"connect", "disconnect", "unregister"} : Start(App(h), function)
  \/ /\ h \in registered /\ Goto(Callback(h), "find")
     /\ Start(Callback(h), "acknowledge")

Run(t) ==
  \/ LockList(t) \/ NotFound(t) \/ Found(t) \/ LockClient(t)
  \/ PmClientConnect(t) \/ PmClientDisconnect(t)
  \/ PmClientEventAcknowledge(t) \/ PmClientUnregister(t) \/ BinderDied(t)
  \/ RegisterAtServer(t) \/ LinkToDeath(t) \/ Reconnect(t) \/ PushBack(t)
  \/ Unlock(t) \/ Delete(t)

LibNext ==
  \/ \E h \in Handle : Call(h)
  \/ \E t \in Thread : Run(t)
  \/ ServerStops \/ ServerDies \/ ServerRestarts

LibSpec == LibInit /\ [][LibNext]_lvars

\* Threads run, mutexes that stay free are taken, a stopping server dies and
\* init starts it again.
LibFairness ==
  /\ \A t \in Thread : WF_lvars(Run(t))
  /\ WF_lvars(status = "stopping" /\ ServerDies)
  /\ WF_lvars(ServerRestarts)

FairLibSpec == LibSpec /\ LibFairness

-----------------------------------------------------------------------------
(* Properties.                                                             *)

Registering == {"registar", "link", "reconnect", "push_back"}
Place == {"idle", "find", "search", "lock", "body", "unlock", "unlock and delete", "delete"}
           \cup Registering

LibTypeOK ==
  /\ server \in Incarnation /\ status \in {"up", "stopping", "down"}
  /\ status = "down" => server <= MaxDeaths
  /\ voted \subseteq registered /\ registered \subseteq Handle
  /\ links \subseteq Handle \X Incarnation
  /\ struct \in [Handle -> {"none", "alive", "deleted"}]
  /\ ops \in [Handle -> {0} \cup Incarnation]
  /\ connected \in [Handle -> BOOLEAN]
  /\ listed \subseteq Handle
  /\ listLock \in Thread \cup {Free}
  /\ clientLock \in [Handle -> Thread \cup {Free}]
  /\ pc \in [Thread -> Place]
  /\ op \in [Thread -> {"none", "register", "connect", "disconnect", "unregister",
                        "acknowledge", "died"}]

\* The list lock is held from the search on, until the structure is locked.
ListLockHeld == \A t \in Thread : listLock = t <=> pc[t] \in {"search", "lock"}

\* What is in the list exists, and so does what was found in it.
ListedAlive ==
  /\ \A h \in listed : struct[h] = "alive"
  /\ \A t \in Thread : pc[t] = "lock" => Of(t) \in listed

\* A thread that registers a structure or is going to delete it owns it: the
\* structure exists, is not in the list, and has no other owner.
Owns(t) ==
  \/ pc[t] \in Registering \cup {"unlock and delete", "delete"}
  \/ pc[t] = "body" /\ Removes(t)
Owned ==
  /\ \A t \in Thread : Owns(t) => struct[Of(t)] = "alive" /\ Of(t) \notin listed
  /\ \A t, u \in Thread : Owns(t) /\ Owns(u) /\ Of(t) = Of(u) => t = u

\* A structure is locked by threads of its own.
LockedByOwn == \A h \in Handle : clientLock[h] # Free => Of(clientLock[h]) = h

\* The thread of a death runs once, and not before the death.
DiedOnce ==
  \A t \in Thread : t[2] = "died" /\ pc[t] # "idle" =>
    op[t] = "died" /\ (t[3] < server \/ (t[3] = server /\ status = "down"))

\* No thread locks a structure that was deleted, although the application may
\* pass stale handles, unregister while events arrive, and the server may die
\* at any time.
NoStaleStruct == misused = {}

\* Whoever holds the list lock and waits for a structure waits for a thread
\* that does not need the list lock: binderDied, which does, took the structure
\* off the list before.
LockOrder ==
  \A t \in Thread : pc[t] = "lock" /\ clientLock[Of(t)] # Free =>
    pc[clientLock[Of(t)]] \notin {"push_back", "registar", "link", "reconnect"}

\* The inductive invariant of PmClientLibProofs: who owns a
\* structure, and what follows from it.
LibInv ==
  /\ LibTypeOK /\ ListLockHeld /\ ListedAlive /\ Owned /\ LockedByOwn /\ DiedOnce
  /\ NoStaleStruct

\* What the library will restore after a crash is what the server counts now.
ConnectedMatchesVote ==
  \A h \in listed : clientLock[h] = Free /\ Alive(h) => (connected[h] <=> h \in voted)

\* Every call into the library returns, and every binderDied ends.
CallsReturn == \A t \in Thread : pc[t] # "idle" ~> pc[t] = "idle"

\* PeripheralManagerClient.h, connected: "It will be used to reconnect after
\* server crashed and restarted."  The vote comes back unless the library gave
\* the client up.
VoteRestored ==
  \A h \in Handle : connected[h] /\ h \notin voted
    ~> h \in voted \/ ~connected[h] \/ struct[h] = "deleted"
=============================================================================
