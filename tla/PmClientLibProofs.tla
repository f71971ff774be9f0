-------------------------- MODULE PmClientLibProofs --------------------------
(***************************************************************************)
(* Proofs about PmClientLib, for any number of structures, deaths of the   *)
(* server, retries and calls: who owns a structure, and that therefore no  *)
(* thread locks a deleted one or waits in a circle; and that the library   *)
(* remembers of a vote what the server counts.                             *)
(***************************************************************************)
EXTENDS PmClientLib, TLAPS

\* Threads of different structures, kinds or deaths differ.
LEMMA ThreadParts ==
  ASSUME NEW t \in Thread
  PROVE  /\ Of(t) \in Handle /\ t[2] \in {"app", "callback", "died"} /\ t[3] \in Incarnation
         /\ t # Free
BY DEF Thread, Of, Free

LEMMA ThreadsOf ==
  ASSUME NEW h \in Handle
  PROVE  /\ App(h) \in Thread /\ Of(App(h)) = h /\ App(h)[2] = "app"
         /\ Callback(h) \in Thread /\ Of(Callback(h)) = h /\ Callback(h)[2] = "callback"
BY LibAssumption DEF Thread, App, Callback, Of, Incarnation

-----------------------------------------------------------------------------
\* The types.
LEMMA TypesInit == LibInit => LibTypeOK
BY LibAssumption DEF LibInit, LibTypeOK, Incarnation, Place, Registering, Free

LEMMA TypesCall ==
  ASSUME LibTypeOK, NEW h \in Handle, Call(h)
  PROVE  LibTypeOK'
<1> USE ThreadsOf DEF LibTypeOK, theServer, atServer, client, locks, Place, Registering, Goto
<1>1. CASE PmClientRegister(h)
  BY <1>1 DEF PmClientRegister
<1>2. CASE /\ Goto(App(h), "find")
           /\ \E function \in {"connect", "disconnect", "unregister"} : Start(App(h), function)
  <2>1. PICK function \in {"connect", "disconnect", "unregister"} : Start(App(h), function)
    BY <1>2
  <2>2. pc' \in [Thread -> Place]
    BY <1>2
  <2>3. op' \in [Thread -> {"none", "register", "connect", "disconnect", "unregister",
                           "acknowledge", "died"}]
    BY <2>1 DEF Start
  <2> QED BY <2>1, <2>2, <2>3 DEF Start
<1>3. CASE Goto(Callback(h), "find") /\ Start(Callback(h), "acknowledge")
  BY <1>3 DEF Start
<1> QED BY <1>1, <1>2, <1>3 DEF Call

LEMMA TypesRun ==
  ASSUME LibTypeOK, NEW t \in Thread, Run(t)
  PROVE  LibTypeOK'
<1>0. Of(t) \in Handle
  BY ThreadParts
<1> USE <1>0 DEF LibTypeOK, theServer, atServer, client, locks, Place, Registering, Goto
<1>1. CASE LockList(t) \/ NotFound(t) \/ Found(t)
  BY <1>1 DEF LockList, NotFound, Found
<1>2. CASE LockClient(t)
  BY <1>2 DEF LockClient, ListAfterLock
<1>3. CASE PmClientConnect(t) \/ PmClientDisconnect(t)
  BY <1>3 DEF PmClientConnect, PmClientDisconnect, Body, VoteTaken, VoteDropped, Alive,
     ConnectedAfterUnvote
<1>4. CASE PmClientEventAcknowledge(t) \/ PmClientUnregister(t) \/ BinderDied(t)
  BY <1>4 DEF PmClientEventAcknowledge, PmClientUnregister, BinderDied, Body, Gone
<1>5. CASE RegisterAtServer(t)
  BY <1>5 DEF RegisterAtServer, Failed
<1>6. CASE LinkToDeath(t)
  <2>1. CASE Alive(Of(t))
    <3>1. links' = links \cup {<<Of(t), server>>} /\ <<Of(t), server>> \in Handle \X Incarnation
      BY <1>6, <2>1 DEF LinkToDeath
    <3>2. pc' \in [Thread -> Place] /\ ops' = ops
      BY <1>6, <2>1 DEF LinkToDeath
    <3> QED BY <1>6, <3>1, <3>2 DEF LinkToDeath
  <2>2. CASE ~Alive(Of(t))
    BY <1>6, <2>2 DEF LinkToDeath, Failed
  <2> QED BY <2>1, <2>2
<1>7. CASE Reconnect(t)
  <2>1. CASE VoteTaken(Of(t)) \/ ~Alive(Of(t))
    BY <1>7, <2>1 DEF Reconnect, Failed, ReconnectVotes, VoteTaken, Alive
  <2>2. CASE ~VoteTaken(Of(t)) /\ Alive(Of(t))
    BY <1>7, <2>2 DEF Reconnect, Failed, Gone
  <2> QED BY <2>1, <2>2
<1>8. CASE PushBack(t) \/ Unlock(t) \/ Delete(t)
  BY <1>8 DEF PushBack, Unlock, Delete
<1> QED BY <1>1, <1>2, <1>3, <1>4, <1>5, <1>6, <1>7, <1>8 DEF Run

LEMMA TypesServer ==
  ASSUME LibTypeOK, ServerStops \/ ServerDies \/ ServerRestarts
  PROVE  LibTypeOK'
<1> USE LibAssumption DEF LibTypeOK, theServer, atServer, client, locks, control
<1>1. CASE ServerStops
  BY <1>1 DEF ServerStops
<1>2. CASE ServerDies
  <2>1. pc' \in [Thread -> Place] /\ op' \in [Thread -> {"none", "register", "connect",
                     "disconnect", "unregister", "acknowledge", "died"}]
    BY <1>2 DEF ServerDies, Place
  <2> QED BY <1>2, <2>1 DEF ServerDies
<1>3. CASE ServerRestarts
  BY <1>3 DEF ServerRestarts, Incarnation
<1> QED BY <1>1, <1>2, <1>3

-----------------------------------------------------------------------------
(* Ownership: the conjuncts of LibInv other than the types.                *)

Ownership == ListLockHeld /\ ListedAlive /\ Owned /\ LockedByOwn /\ DiedOnce /\ NoStaleStruct

LEMMA OwnershipInit == LibInit => Ownership
<1> SUFFICES ASSUME LibInit PROVE Ownership
  OBVIOUS
<1>1. ListLockHeld
  BY ThreadParts DEF LibInit, ListLockHeld
<1>2. ListedAlive /\ LockedByOwn /\ DiedOnce /\ NoStaleStruct
  BY DEF LibInit, ListedAlive, LockedByOwn, DiedOnce, NoStaleStruct
<1>3. Owned
  BY DEF LibInit, Owned, Owns, Registering
<1> QED BY <1>1, <1>2, <1>3 DEF Ownership

\* A call begins with a thread that is idle, and a registration with a
\* structure that nobody knows.
LEMMA OwnershipCall ==
  ASSUME LibTypeOK, Ownership, NEW h \in Handle, Call(h)
  PROVE  Ownership'
<1> USE ThreadsOf DEF LibTypeOK, Ownership, Goto
<1>1. CASE PmClientRegister(h)
  <2> USE <1>1 DEF PmClientRegister, theServer, locks
  <2>1. \A t \in Thread : pc'[t] = IF t = App(h) THEN "registar" ELSE pc[t]
    OBVIOUS
  <2>2. ListLockHeld' /\ LockedByOwn' /\ NoStaleStruct'
    BY <2>1 DEF ListLockHeld, LockedByOwn, NoStaleStruct
  <2>3. ListedAlive'
    BY <2>1 DEF ListedAlive
  <2>4. \A t \in Thread : Owns(t)' => (t = App(h) \/ Owns(t))
    BY <2>1 DEF Owns, Removes
  <2>5. \A t \in Thread : Owns(t) => Of(t) # h
    BY DEF Owned
  <2>6. Owned'
    BY <2>4, <2>5 DEF Owned, ListedAlive
  <2>7. DiedOnce'
    BY <2>1 DEF DiedOnce
  <2> QED BY <2>2, <2>3, <2>6, <2>7
<1>2. ASSUME NEW t \in Thread, t[2] # "died", NEW function, Start(t, function), Goto(t, "find")
      PROVE  Ownership'
  <2> USE <1>2 DEF Start, theServer, client, locks
  <2>1. \A u \in Thread : /\ pc'[u] = IF u = t THEN "find" ELSE pc[u]
                          /\ u # t => op'[u] = op[u]
    OBVIOUS
  <2>2. ListLockHeld' /\ ListedAlive' /\ LockedByOwn' /\ NoStaleStruct'
    BY <2>1 DEF ListLockHeld, ListedAlive, LockedByOwn, NoStaleStruct
  <2>3. \A u \in Thread : Owns(u)' => Owns(u)
    BY <2>1 DEF Owns, Removes, Registering
  <2>4. Owned'
    BY <2>3 DEF Owned
  <2>5. DiedOnce'
    BY <2>1 DEF DiedOnce
  <2> QED BY <2>2, <2>4, <2>5
<1> QED BY <1>1, <1>2 DEF Call

\* The steps of a thread.
LEMMA OwnershipRun ==
  ASSUME LibTypeOK, Ownership, NEW t \in Thread, Run(t)
  PROVE  Ownership'
<1>0. Of(t) \in Handle /\ t # Free
  BY ThreadParts
<1> DEFINE Moves(places) == \A u \in Thread : IF u = t THEN pc'[u] \in places ELSE pc'[u] = pc[u]
<1> USE <1>0 DEF LibTypeOK, Ownership, Goto
\* Steps that neither lock, delete nor start to own keep what there is.
<1>1. ASSUME NEW places, Moves(places), places \cap {"search", "lock"} = {},
             UNCHANGED <<theServer, listed, listLock, struct, op, misused>>,
             pc[t] \notin {"idle", "search", "lock"},
             \A h \in Handle : clientLock'[h] \in {clientLock[h], Free},
             Owns(t) \/ places \cap (Registering \cup {"body", "unlock and delete", "delete"}) = {}
      PROVE  Ownership'
  <2>1. ListLockHeld' /\ ListedAlive' /\ LockedByOwn' /\ NoStaleStruct'
    BY <1>1 DEF ListLockHeld, ListedAlive, LockedByOwn, NoStaleStruct
  <2>2. \A u \in Thread : Owns(u)' => Owns(u)
    BY <1>1 DEF Owns, Removes, Registering
  <2>3. Owned' /\ DiedOnce'
    BY <1>1, <2>2 DEF Owned, DiedOnce, theServer
  <2> QED BY <2>1, <2>3
<1>2. CASE LockList(t) \/ NotFound(t) \/ Found(t)
  <2> USE <1>2 DEF LockList, NotFound, Found, theServer, client, locks
  <2>1. \A u \in Thread : u # t => pc'[u] = pc[u]
    OBVIOUS
  <2>2. pc'[t] \in {"idle", "search", "lock"}
    OBVIOUS
  <2>3. ListLockHeld'
    BY <2>1, ThreadParts DEF ListLockHeld
  <2>4. ListedAlive' /\ LockedByOwn' /\ NoStaleStruct'
    BY <2>1 DEF ListedAlive, LockedByOwn, NoStaleStruct
  <2>5. \A u \in Thread : Owns(u)' => Owns(u)
    BY <2>1, <2>2 DEF Owns, Removes, Registering
  <2>6. Owned' /\ DiedOnce'
    BY <2>1, <2>5 DEF Owned, DiedOnce
  <2> QED BY <2>3, <2>4, <2>6
\* Who locks a structure in order to remove it takes it off the list, and owns
\* it from then on.
<1>3. CASE LockClient(t)
  <2> USE <1>3 DEF LockClient, theServer, client
  <2>1. \A u \in Thread : pc'[u] = IF u = t THEN "body" ELSE pc[u]
    OBVIOUS
  <2>2. Of(t) \in listed /\ struct[Of(t)] = "alive"
    BY DEF ListedAlive
  <2>3. \A u \in Thread : pc[u] = "lock" => u = t
    BY ThreadParts DEF ListLockHeld
  <2>4. listed' = (IF Removes(t) THEN listed \ {Of(t)} ELSE listed) /\ Removes(t)' = Removes(t)
    BY DEF ListAfterLock, Removes
  <2>5. ListLockHeld' /\ NoStaleStruct'
    BY <2>1, <2>2, <2>3, ThreadParts DEF ListLockHeld, NoStaleStruct
  <2>6. ListedAlive' /\ LockedByOwn'
    BY <2>1, <2>3, <2>4 DEF ListedAlive, LockedByOwn
  <2>7. \A u \in Thread : u # t /\ Owns(u)' => Owns(u)
    BY <2>1 DEF Owns, Removes
  <2>8. Owns(t)' => Of(t) \notin listed'
    BY <2>1, <2>4 DEF Owns, Registering
  <2>9. \A u \in Thread : Owns(u) => Of(u) # Of(t)
    BY <2>2 DEF Owned
  <2>10. Owned'
    BY <2>2, <2>4, <2>7, <2>8, <2>9 DEF Owned
  <2>11. DiedOnce'
    BY <2>1 DEF DiedOnce
  <2> QED BY <2>5, <2>6, <2>10, <2>11
<1>4. CASE PmClientConnect(t) \/ PmClientDisconnect(t) \/ PmClientEventAcknowledge(t)
  <2> USE <1>4 DEF PmClientConnect, PmClientDisconnect, PmClientEventAcknowledge, Body
  <2>1. Moves({"unlock"}) /\ pc[t] = "body"
    OBVIOUS
  <2>2. UNCHANGED <<theServer, listed, listLock, clientLock, struct, op, misused>>
    BY DEF client, locks
  <2> HIDE DEF Moves
  <2> QED BY <1>1, <2>1, <2>2 DEF Registering
<1>5. CASE PmClientUnregister(t) \/ BinderDied(t)
  <2> USE <1>5 DEF PmClientUnregister, BinderDied, Body
  <2>1. Owns(t)
    BY DEF Owns, Removes
  <2>2. Moves({"registar", "unlock and delete"}) /\ pc[t] = "body"
    OBVIOUS
  <2>3. UNCHANGED <<theServer, listed, listLock, clientLock, struct, op, misused>>
    BY DEF locks
  <2> HIDE DEF Moves
  <2> QED BY <1>1, <2>1, <2>2, <2>3
<1>6. CASE RegisterAtServer(t) \/ LinkToDeath(t) \/ Reconnect(t)
  <2> DEFINE Next == {"link", "reconnect", "push_back", "registar", "delete", "unlock and delete"}
  <2> USE <1>6 DEF RegisterAtServer, LinkToDeath, Reconnect, Failed, locks
  <2>1. Owns(t) /\ pc[t] \notin {"idle", "search", "lock"}
    BY DEF Owns, Registering
  <2>2. Moves(Next)
    OBVIOUS
  <2>3. UNCHANGED <<theServer, listed, listLock, clientLock, struct, op, misused>>
    OBVIOUS
  <2> HIDE DEF Moves
  <2> QED BY <1>1, <2>1, <2>2, <2>3
\* The owner gives the structure to the list.
<1>7. CASE PushBack(t)
  <2> USE <1>7 DEF PushBack, theServer, client
  <2>1. \A u \in Thread : IF u = t THEN pc'[u] \in {"idle", "unlock"} ELSE pc'[u] = pc[u]
    OBVIOUS
  <2>2. Owns(t)
    BY DEF Owns, Registering
  <2>3. ListLockHeld' /\ LockedByOwn' /\ NoStaleStruct'
    BY <2>1 DEF ListLockHeld, LockedByOwn, NoStaleStruct
  <2>4. ListedAlive'
    BY <2>1, <2>2 DEF ListedAlive, Owned
  <2>5. \A u \in Thread : Owns(u)' => Owns(u) /\ u # t
    BY <2>1 DEF Owns, Removes, Registering
  <2>6. \A u \in Thread : Owns(u)' => Of(u) # Of(t)
    BY <2>2, <2>5 DEF Owned
  <2>7. Owned' /\ DiedOnce'
    BY <2>1, <2>5, <2>6 DEF Owned, DiedOnce
  <2> QED BY <2>3, <2>4, <2>7
<1>8. CASE Unlock(t)
  <2> USE <1>8 DEF Unlock, client
  <2>0. /\ UNCHANGED <<theServer, listed, listLock, struct, op, misused>>
        /\ \A h \in Handle : clientLock'[h] \in {clientLock[h], Free}
    OBVIOUS
  <2>1. CASE pc[t] = "unlock"
    <3>1. Moves({"idle"})
      BY <2>1
    <3> HIDE DEF Moves
    <3> QED BY <1>1, <2>0, <2>1, <3>1 DEF Registering
  <2>2. CASE pc[t] = "unlock and delete"
    <3>1. Moves({"delete"}) /\ Owns(t)
      BY <2>2 DEF Owns
    <3> HIDE DEF Moves
    <3> QED BY <1>1, <2>0, <2>2, <3>1
  <2> QED BY <2>1, <2>2
\* Only the owner deletes, and what it deletes is in nobody's hands.
<1>9. CASE Delete(t)
  <2> USE <1>9 DEF Delete, theServer, locks
  <2>1. \A u \in Thread : pc'[u] = IF u = t THEN "idle" ELSE pc[u]
    OBVIOUS
  <2>2. Owns(t)
    BY DEF Owns
  <2>3. ListLockHeld' /\ LockedByOwn' /\ NoStaleStruct' /\ DiedOnce'
    BY <2>1 DEF ListLockHeld, LockedByOwn, NoStaleStruct, DiedOnce
  <2>4. ListedAlive'
    BY <2>1, <2>2 DEF ListedAlive, Owned
  <2>5. \A u \in Thread : Owns(u)' => Owns(u) /\ u # t
    BY <2>1 DEF Owns, Removes, Registering
  <2>6. \A u \in Thread : Owns(u)' => struct'[Of(u)] = struct[Of(u)]
    BY <2>2, <2>5, ThreadParts DEF Owned
  <2>7. Owned'
    BY <2>5, <2>6 DEF Owned
  <2> QED BY <2>3, <2>4, <2>7
<1> QED BY <1>2, <1>3, <1>4, <1>5, <1>6, <1>7, <1>8, <1>9 DEF Run

\* A server dies once, so that the thread its death starts was idle.
LEMMA OwnershipServer ==
  ASSUME LibTypeOK, Ownership, ServerStops \/ ServerDies \/ ServerRestarts
  PROVE  Ownership'
<1> USE DEF LibTypeOK, Ownership
<1>1. CASE ServerStops
  BY <1>1, ZenonT(40) DEF ServerStops, client, locks, control, ListLockHeld, ListedAlive, Owned, Owns,
     Removes, LockedByOwn, DiedOnce, NoStaleStruct
<1>2. CASE ServerDies
  <2> USE <1>2 DEF ServerDies, client, locks
  <2> DEFINE Starts(t) == t[2] = "died" /\ <<Of(t), t[3]>> \in links /\ t[3] = server
  <2>1. \A t \in Thread : pc'[t] = IF Starts(t) THEN "find" ELSE pc[t]
    OBVIOUS
  <2>2. \A t \in Thread : op'[t] = IF t[2] = "died" THEN "died" ELSE op[t]
    OBVIOUS
  <2>3. \A t \in Thread : Starts(t) => pc[t] = "idle"
    BY LibAssumption DEF DiedOnce, Incarnation
  <2>4. ListLockHeld' /\ ListedAlive' /\ LockedByOwn' /\ NoStaleStruct'
    BY <2>1, <2>3 DEF ListLockHeld, ListedAlive, LockedByOwn, NoStaleStruct
  <2>5. \A t \in Thread : Owns(t)' => Owns(t)
    BY <2>1, <2>2, <2>3 DEF Owns, Removes, Registering, DiedOnce
  <2>6. Owned'
    BY <2>5 DEF Owned
  <2>7. DiedOnce'
    BY <2>1, <2>2 DEF DiedOnce
  <2> QED BY <2>4, <2>6, <2>7
<1>3. CASE ServerRestarts
  <2> USE <1>3 DEF ServerRestarts, client, locks, control
  <2>1. ListLockHeld' /\ ListedAlive' /\ LockedByOwn' /\ NoStaleStruct' /\ Owned'
    BY ZenonT(40) DEF ListLockHeld, ListedAlive, Owned, Owns, Removes, LockedByOwn, NoStaleStruct
  <2>2. DiedOnce'
    BY ThreadParts DEF DiedOnce, Incarnation
  <2> QED BY <2>1, <2>2
<1> QED BY <1>1, <1>2, <1>3

-----------------------------------------------------------------------------
(* The theorems.                                                           *)

LEMMA LibInvStep ==
  ASSUME LibInv, [LibNext]_lvars
  PROVE  LibInv'
<1>1. LibTypeOK /\ Ownership
  BY DEF LibInv, Ownership
<1>2. LibTypeOK' /\ Ownership'
  <2>1. ASSUME NEW h \in Handle, Call(h)
        PROVE  LibTypeOK' /\ Ownership'
    BY <1>1, <2>1, TypesCall, OwnershipCall
  <2>2. ASSUME NEW t \in Thread, Run(t)
        PROVE  LibTypeOK' /\ Ownership'
    BY <1>1, <2>2, TypesRun, OwnershipRun
  <2>3. CASE ServerStops \/ ServerDies \/ ServerRestarts
    BY <1>1, <2>3, TypesServer, OwnershipServer
  <2>4. CASE UNCHANGED lvars
    BY <1>1, <2>4, ZenonT(40) DEF lvars, theServer, atServer, client, locks, control, LibTypeOK, Ownership,
       ListLockHeld, ListedAlive, Owned, Owns, Removes, LockedByOwn, DiedOnce, NoStaleStruct
  <2> QED BY <2>1, <2>2, <2>3, <2>4 DEF LibNext
<1> QED BY <1>2 DEF LibInv, Ownership

\* The inductive invariant of the client library (PeripheralManagerClient.cpp)
\* holds in every reachable state: types, and who owns a structure.
THEOREM LibAlwaysInv == LibSpec => []LibInv
<1>1. LibInit => LibInv
  BY TypesInit, OwnershipInit DEF LibInv, Ownership
<1>2. LibInv /\ [LibNext]_lvars => LibInv'
  BY LibInvStep
<1> QED BY <1>1, <1>2, PTL DEF LibSpec

\* pm_client_find_and_lock never locks a structure that was deleted, whatever
\* handles the application passes, for any number of structures and deaths.
THEOREM NeverStaleStruct == LibSpec => []NoStaleStruct
<1>1. LibInv => NoStaleStruct
  BY DEF LibInv
<1> QED BY <1>1, LibAlwaysInv, PTL

\* A thread that waits for the lock of a structure with the lock of the list
\* held waits for none that needs the list: pm_client_find_and_lock and
\* binderDied cannot wait for each other.
THEOREM LockOrderKept == LibSpec => []LockOrder
<1>1. LibInv => LockOrder
  <2> SUFFICES ASSUME LibInv, NEW t \in Thread, pc[t] = "lock", clientLock[Of(t)] # Free
               PROVE  pc[clientLock[Of(t)]] \notin Registering
    BY DEF LockOrder, Registering
  <2>1. Of(t) \in listed /\ Of(t) \in Handle
    BY ThreadParts DEF LibInv, ListedAlive
  <2>2. clientLock[Of(t)] \in Thread /\ Of(clientLock[Of(t)]) = Of(t)
    BY <2>1 DEF LibInv, LibTypeOK, LockedByOwn
  <2>3. ~Owns(clientLock[Of(t)])
    BY <2>1, <2>2 DEF LibInv, Owned
  <2> QED BY <2>3 DEF Owns
<1> QED BY <1>1, LibAlwaysInv, PTL

-----------------------------------------------------------------------------
(* The votes: what keeps PeripheralManagerClient::connected and the vote   *)
(* that the server counts together.                                        *)

\* A death that binderDied has not dealt with.
Waking(t) == t[2] = "died" /\ pc[t] \in {"find", "search", "lock", "body"}
Starting(t) == pc[t] \in {"registar", "link"}

\* Who works on a structure has its lock, but for pm_client_register, whose
\* structure nobody can find.
LocksOwned ==
  \A t \in Thread :
    /\ pc[t] \in {"body", "unlock", "unlock and delete"} => clientLock[Of(t)] = t
    /\ pc[t] \in Registering =>
         \/ op[t] = "died" /\ clientLock[Of(t)] = t
         \/ op[t] = "register" /\ clientLock[Of(t)] = Free

Unused ==
  \A h \in Handle : struct[h] = "none" =>
    /\ ops[h] = 0 /\ h \notin registered /\ clientLock[h] = Free
    /\ \A t \in Thread : Of(t) = h => pc[t] = "idle"

\* Links lead to the server of the structure, which lives.
Linked ==
  \A h \in Handle, i \in Incarnation : <<h, i>> \in links =>
    /\ i = ops[h] /\ Alive(h)
    /\ \A t \in Thread : Of(t) = h => ~Waking(t) /\ ~Starting(t)

\* One death at a time, and nothing is registered before it is dealt with.
DiedThreads == \A t \in Thread : op[t] = "died" => t[2] = "died"
Wakes ==
  /\ \A t \in Thread : Waking(t) => ~Alive(Of(t))
  /\ \A t, u \in Thread : Waking(t) /\ Of(t) = Of(u) => ~Starting(u) /\ (Waking(u) => t = u)

VotesAlive ==
  /\ \A h \in Handle : ops[h] <= server
  /\ \A h \in voted : Alive(h)

Votes ==
  /\ \A t \in Thread :
       /\ pc[t] = "registar" => ops[Of(t)] = 0
       /\ Starting(t) \/ pc[t] = "reconnect" => Of(t) \notin voted
       /\ pc[t] = "reconnect" => connected[Of(t)]
       /\ pc[t] = "push_back" /\ Alive(Of(t)) => (connected[Of(t)] <=> Of(t) \in voted)
  /\ \A h \in listed : Alive(h) => (connected[h] <=> h \in voted)

VoteInv == LocksOwned /\ Unused /\ DiedThreads /\ Linked /\ Wakes /\ VotesAlive /\ Votes

\* What a step of a thread does not touch.
LEMMA RunFrame ==
  ASSUME LibTypeOK, NEW t \in Thread, Run(t)
  PROVE  /\ pc[t] # "idle" /\ UNCHANGED <<op, server, status>>
         /\ \A u \in Thread : u # t => pc'[u] = pc[u]
         /\ \A h \in Handle : h # Of(t) =>
              /\ ops'[h] = ops[h] /\ connected'[h] = connected[h] /\ struct'[h] = struct[h]
              /\ clientLock'[h] = clientLock[h]
              /\ h \in listed' <=> h \in listed
              /\ h \in voted' <=> h \in voted
              /\ h \in registered' <=> h \in registered
              /\ \A i : <<h, i>> \in links' <=> <<h, i>> \in links
<1> USE ThreadParts DEF LibTypeOK, Goto, theServer, atServer, client, locks
<1>1. CASE LockList(t) \/ NotFound(t) \/ Found(t) \/ LockClient(t) \/ Unlock(t) \/ Delete(t)
  BY <1>1 DEF LockList, NotFound, Found, LockClient, ListAfterLock, Unlock, Delete
<1>2. CASE PmClientConnect(t) \/ PmClientDisconnect(t) \/ PmClientEventAcknowledge(t)
  BY <1>2 DEF PmClientConnect, PmClientDisconnect, PmClientEventAcknowledge, Body
<1>3. CASE PmClientUnregister(t) \/ BinderDied(t)
  BY <1>3 DEF PmClientUnregister, BinderDied, Body, Gone
<1>4. CASE RegisterAtServer(t) \/ LinkToDeath(t)
  BY <1>4 DEF RegisterAtServer, LinkToDeath, Failed
<1>5. CASE Reconnect(t) \/ PushBack(t)
  BY <1>5 DEF Reconnect, PushBack, Failed, Gone
<1> QED BY <1>1, <1>2, <1>3, <1>4, <1>5 DEF Run

LEMMA LocksRun ==
  ASSUME LibTypeOK, Ownership, LocksOwned, Unused, NEW t \in Thread, Run(t)
  PROVE  LocksOwned' /\ Unused'
<1> USE DEF LibTypeOK
<1>t. Of(t) \in Handle /\ \A u \in Thread : Of(u) \in Handle /\ u # Free
  BY ThreadParts
<1>1. /\ pc[t] # "idle" /\ op' = op
      /\ \A u \in Thread : u # t => pc'[u] = pc[u]
      /\ \A h \in Handle : h # Of(t) =>
           /\ ops'[h] = ops[h] /\ struct'[h] = struct[h] /\ clientLock'[h] = clientLock[h]
           /\ h \in registered' <=> h \in registered
  BY RunFrame
<1>2. struct[Of(t)] # "none"
  BY <1>t, <1>1 DEF Unused
<1>3. struct'[Of(t)] # "none"
  BY <1>t, <1>2 DEF Run, LockList, NotFound, Found, LockClient, Unlock, Delete, PmClientConnect,
     PmClientDisconnect, PmClientEventAcknowledge, PmClientUnregister, BinderDied,
     RegisterAtServer, LinkToDeath, Reconnect, PushBack, client
<1>4. Unused'
  BY <1>t, <1>1, <1>3, ThreadParts DEF Unused
<1> SUFFICES LocksOwned'
  BY <1>4
\* A step of the owner that keeps the lock, or needs none.
<1>5. ASSUME UNCHANGED clientLock,
             \/ pc'[t] \notin {"body", "unlock", "unlock and delete"} \cup Registering
             \/ clientLock[Of(t)] = t /\ (pc'[t] \in Registering => op[t] = "died")
             \/ pc[t] \in Registering /\ pc'[t] \in Registering
      PROVE  LocksOwned'
  BY <1>1, <1>5 DEF LocksOwned, Registering
<1>6. CASE LockList(t) \/ NotFound(t) \/ Found(t) \/ Delete(t)
  <2>1. UNCHANGED clientLock /\ pc'[t] \in {"search", "idle", "lock"}
    BY <1>6 DEF LockList, NotFound, Found, Delete, Goto, locks
  <2> QED BY <1>5, <2>1 DEF Registering
<1>7. CASE LockClient(t)
  <2>1. /\ clientLock[Of(t)] = Free /\ clientLock'[Of(t)] = t /\ pc'[t] = "body"
        /\ Of(t) \in listed
    BY <1>t, <1>7 DEF LockClient, Goto, Ownership, ListedAlive
  <2>2. \A u \in Thread : u # t /\ Of(u) = Of(t) => pc[u] \notin Registering
    BY <2>1 DEF Ownership, Owned, Owns
  <2>3. \A u \in Thread : u # t /\ Of(u) = Of(t) =>
          pc[u] \notin {"body", "unlock", "unlock and delete"}
    BY <1>t, <2>1, ZenonT(40) DEF LocksOwned
  <2> QED BY <1>1, <1>t, <2>1, <2>2, <2>3 DEF LocksOwned, Registering
<1>8. CASE Unlock(t)
  <2>1. /\ clientLock[Of(t)] = t /\ clientLock'[Of(t)] = Free /\ pc'[t] \in {"idle", "delete"}
    BY <1>t, <1>8 DEF Unlock, Goto, LocksOwned
  <2>2. \A u \in Thread : u # t /\ Of(u) = Of(t) =>
          /\ pc[u] \notin {"body", "unlock", "unlock and delete"}
          /\ pc[u] \notin Registering
    BY <1>t, <2>1, ZenonT(40) DEF LocksOwned
  <2> QED BY <1>1, <1>t, <2>1, <2>2 DEF LocksOwned, Registering
<1>9. CASE \/ PmClientConnect(t) \/ PmClientDisconnect(t) \/ PmClientEventAcknowledge(t)
           \/ PmClientUnregister(t) \/ BinderDied(t)
  <2>1. /\ clientLock[Of(t)] = t /\ UNCHANGED clientLock
        /\ pc'[t] \in {"unlock", "unlock and delete"} \/ op[t] = "died"
    BY <1>t, <1>9 DEF PmClientConnect, PmClientDisconnect, PmClientEventAcknowledge,
       PmClientUnregister, BinderDied, Body, Goto, LocksOwned, locks
  <2> QED BY <1>5, <2>1 DEF Registering
<1>10. CASE RegisterAtServer(t) \/ LinkToDeath(t) \/ Reconnect(t)
  <2>1. /\ pc[t] \in Registering /\ UNCHANGED clientLock
        /\ \/ pc'[t] \in Registering \cup {"delete"}
           \/ pc'[t] = "unlock and delete" /\ op[t] # "register"
    BY <1>10 DEF RegisterAtServer, LinkToDeath, Reconnect, Failed, Goto, locks, Registering
  <2>2. op[t] = "register" \/ clientLock[Of(t)] = t
    BY <2>1 DEF LocksOwned
  <2> QED BY <1>5, <2>1, <2>2 DEF Registering, LocksOwned
<1>11. CASE PushBack(t)
  <2>1. /\ pc[t] \in Registering /\ UNCHANGED clientLock
        /\ pc'[t] = "idle" \/ (pc'[t] = "unlock" /\ op[t] # "register")
    BY <1>11 DEF PushBack, Goto, Registering
  <2>2. op[t] = "register" \/ clientLock[Of(t)] = t
    BY <2>1 DEF LocksOwned
  <2> QED BY <1>5, <2>1, <2>2 DEF Registering
<1> QED BY <1>6, <1>7, <1>8, <1>9, <1>10, <1>11 DEF Run

LEMMA DeathsRun ==
  ASSUME LibTypeOK, Ownership, VoteInv, NEW t \in Thread, Run(t)
  PROVE  DiedThreads' /\ Linked' /\ Wakes' /\ VotesAlive'
<1> DEFINE h == Of(t)
<1> USE DEF LibTypeOK
<1>t. /\ h \in Handle /\ \A u \in Thread : Of(u) \in Handle
      /\ server \in Nat /\ server # 0 /\ ops[h] \in Nat /\ ops \in [Handle -> Nat]
      /\ \A i \in Incarnation : i # 0
  BY ThreadParts, LibAssumption DEF Incarnation
<1>1. /\ UNCHANGED <<op, server, status>>
      /\ \A u \in Thread : u # t => pc'[u] = pc[u]
      /\ \A g \in Handle : g # h =>
           /\ ops'[g] = ops[g]
           /\ g \in voted' <=> g \in voted
           /\ \A i : <<g, i>> \in links' <=> <<g, i>> \in links
  BY RunFrame
<1>2. /\ LocksOwned /\ DiedThreads /\ Linked /\ Wakes /\ VotesAlive /\ Votes
  BY DEF VoteInv
<1>3. DiedThreads'
  BY <1>1, <1>2 DEF DiedThreads
<1>4. /\ \A u \in Thread : u # t => /\ Waking(u)' <=> Waking(u)
                                    /\ Starting(u)' <=> Starting(u)
      /\ \A g \in Handle : g # h => (Alive(g)' <=> Alive(g))
  BY <1>1 DEF Waking, Starting, Alive
\* What happens to other structures.
<1>5. ASSUME ops'[h] <= server, h \in voted' => Alive(h)'
      PROVE  VotesAlive'
  <2>1. voted' \subseteq Handle
    BY TypesRun
  <2> QED BY <1>1, <1>2, <1>4, <1>5, <2>1 DEF VotesAlive
<1>6. ASSUME \A i \in Incarnation : <<h, i>> \in links' =>
               /\ i = ops'[h] /\ Alive(h)'
               /\ \A u \in Thread : Of(u) = h => ~Waking(u)' /\ ~Starting(u)'
      PROVE  Linked'
  BY <1>1, <1>2, <1>4, <1>6 DEF Linked
<1>7. ASSUME \A u \in Thread : Of(u) = h /\ Waking(u)' => ~Alive(h)',
             \A u, v \in Thread : Of(u) = h /\ Of(v) = h /\ Waking(u)' =>
               ~Starting(v)' /\ (Waking(v)' => u = v)
      PROVE  Wakes'
  <2>1. \A u \in Thread : Of(u) # h /\ Waking(u)' => ~Alive(Of(u))'
    BY <1>2, <1>4, <1>t DEF Wakes
  <2>2. \A u, v \in Thread : Of(u) # h /\ Waking(u)' /\ Of(u) = Of(v) =>
          ~Starting(v)' /\ (Waking(v)' => u = v)
    BY <1>2, <1>4, <1>t DEF Wakes
  <2> QED BY <1>7, <2>1, <2>2 DEF Wakes

\* Steps that neither register nor remove.
<1>8. ASSUME UNCHANGED <<ops, links>>, Waking(t)' => Waking(t), ~Starting(t)',
             h \in voted' => h \in voted \/ Alive(h)
      PROVE  Linked' /\ Wakes' /\ VotesAlive'
  <2>1. Alive(h)' <=> Alive(h)
    BY <1>1, <1>8 DEF Alive
  <2>2. \A u \in Thread : (Waking(u)' => Waking(u)) /\ (Starting(u)' => Starting(u))
    BY <1>4, <1>8
  <2>3. Linked'
    BY <1>2, <1>8, <1>t, <2>1, <2>2, <1>6 DEF Linked
  <2>4. Wakes'
    BY <1>2, <1>7, <2>1, <2>2 DEF Wakes
  <2>5. VotesAlive'
    BY <1>2, <1>5, <1>8, <1>t, <2>1 DEF VotesAlive
  <2> QED BY <2>3, <2>4, <2>5
<1>9. CASE \/ LockList(t) \/ NotFound(t) \/ Found(t) \/ LockClient(t) \/ Unlock(t) \/ Delete(t)
           \/ PmClientEventAcknowledge(t) \/ PushBack(t)
  <2>1. UNCHANGED <<ops, links, voted>>
    BY <1>9 DEF LockList, NotFound, Found, LockClient, Unlock, Delete, PushBack,
       PmClientEventAcknowledge, client, atServer
  <2>2. (Waking(t)' => Waking(t)) /\ ~Starting(t)'
    BY <1>9 DEF LockList, NotFound, Found, LockClient, Unlock, Delete, PushBack,
       PmClientEventAcknowledge, Goto, Waking, Starting
  <2> QED BY <1>3, <1>8, <2>1, <2>2
<1>10. CASE PmClientConnect(t) \/ PmClientDisconnect(t)
  <2>1. UNCHANGED <<ops, links>> /\ pc'[t] = "unlock" /\ (h \in voted' => h \in voted \/ Alive(h))
    BY <1>10 DEF PmClientConnect, PmClientDisconnect, VoteTaken, VoteDropped, Goto
  <2>2. ~Waking(t)' /\ ~Starting(t)'
    BY <2>1 DEF Waking, Starting
  <2> QED BY <1>3, <1>8, <2>1, <2>2
<1>11. CASE Reconnect(t) /\ pc'[t] = "push_back"
  <2>1. UNCHANGED <<ops, links>> /\ (h \in voted' => h \in voted \/ Alive(h))
    BY <1>11 DEF Reconnect, ReconnectVotes, VoteTaken, Failed, Goto
  <2>2. ~Waking(t)' /\ ~Starting(t)'
    BY <1>11 DEF Waking, Starting
  <2> QED BY <1>3, <1>8, <2>1, <2>2
\* A structure that is in no server's hands any more.
<1>12. ASSUME ops'[h] = 0, \A i \in Incarnation : <<h, i>> \notin links', h \notin voted',
              ~Waking(t)',
              Starting(t)' => \A u \in Thread : Of(u) = h => u = t \/ ~Waking(u)
       PROVE  Linked' /\ Wakes' /\ VotesAlive'
  <2>1. ~Alive(h)'
    BY <1>1, <1>12, <1>t DEF Alive
  <2>2. \A u \in Thread : Waking(u)' => Waking(u) /\ u # t
    BY <1>4, <1>12
  <2>3. Linked'
    BY <1>6, <1>12
  <2>4. Wakes'
    <3>1. \A u, v \in Thread : Of(u) = h /\ Of(v) = h /\ Waking(u)' =>
            ~Starting(v)' /\ (Waking(v)' => u = v)
      <4> SUFFICES ASSUME NEW u \in Thread, NEW v \in Thread, Of(u) = h, Of(v) = h, Waking(u)'
                   PROVE  ~Starting(v)' /\ (Waking(v)' => u = v)
        OBVIOUS
      <4>1. Waking(u) /\ u # t /\ ~Starting(t)'
        BY <1>12, <2>2
      <4>2. ~Starting(v)'
        BY <1>2, <1>4, <4>1 DEF Wakes
      <4> QED BY <1>2, <2>2, <4>1, <4>2 DEF Wakes
    <3> QED BY <1>7, <2>1, <3>1
  <2>5. VotesAlive'
    BY <1>5, <1>12, <1>t
  <2> QED BY <2>3, <2>4, <2>5

<1>13. ASSUME Gone(h) PROVE /\ ops'[h] = 0 /\ \A i \in Incarnation : <<h, i>> \notin links'
                            /\ h \notin voted'
  <2>1. ops'[h] = 0 /\ links' = links \ {<<h, ops[h]>>}
    BY <1>13, <1>t DEF Gone
  <2>2. \A i \in Incarnation : <<h, i>> \notin links'
    BY <1>2, <1>t, <2>1 DEF Linked
  <2>3. h \notin voted'
    BY <1>2, <1>13 DEF Gone, VotesAlive
  <2> QED BY <2>1, <2>2, <2>3
<1>14. CASE PmClientUnregister(t)
  <2>1. Gone(h) /\ pc'[t] = "unlock and delete"
    BY <1>14 DEF PmClientUnregister, Goto
  <2>2. ~Waking(t)' /\ ~Starting(t)'
    BY <2>1 DEF Waking, Starting
  <2> QED BY <1>3, <1>12, <1>13, <2>1, <2>2
<1>15. CASE BinderDied(t)
  <2>1. /\ pc[t] = "body" /\ op[t] = "died" /\ pc'[t] = "registar" /\ voted' = voted
        /\ ops'[h] = 0 /\ links' = links \ {<<h, ops[h]>>}
    BY <1>15, <1>t DEF BinderDied, Body, Goto
  <2>2. Waking(t) /\ ~Waking(t)'
    BY <1>2, <2>1 DEF Waking, DiedThreads
  <2>3. \A i \in Incarnation : <<h, i>> \notin links'
    BY <1>2, <1>t, <2>1 DEF Linked
  <2>4. h \notin voted'
    BY <1>2, <2>1, <2>2 DEF Wakes, VotesAlive
  <2>5. \A u \in Thread : Of(u) = h => u = t \/ ~Waking(u)
    BY <1>2, <2>2 DEF Wakes
  <2> QED BY <1>3, <1>12, <2>1, <2>2, <2>3, <2>4, <2>5
\* While a structure is being registered no death of its server waits.
<1>16. ASSUME Starting(t)
       PROVE  /\ \A u \in Thread : Of(u) = h => ~Waking(u)
              /\ \A i \in Incarnation : <<h, i>> \notin links
              /\ h \notin voted
  BY <1>2, <1>16 DEF Wakes, Linked, Votes
<1>17. CASE RegisterAtServer(t)
  <2>0. Starting(t) /\ UNCHANGED <<links, voted>> /\ pc[t] = "registar"
    BY <1>17 DEF RegisterAtServer, Starting
  <2>1. CASE ops'[h] = server /\ status # "down" /\ pc'[t] = "link"
    <3>1. ~Waking(t)' /\ Alive(h)'
      BY <1>1, <2>1 DEF Waking, Alive
    <3>2. \A u \in Thread : Of(u) = h => ~Waking(u)'
      BY <1>4, <1>16, <2>0, <3>1
    <3>3. Linked' /\ Wakes'
      BY <1>6, <1>7, <1>16, <2>0, <3>2
    <3>4. VotesAlive'
      BY <1>5, <1>t, <2>1, <3>1
    <3> QED BY <1>3, <3>3, <3>4
  <2>2. CASE UNCHANGED ops /\ Failed(t)
    <3>1. ops'[h] = 0
      BY <1>2, <2>0, <2>2 DEF Votes
    <3>2. ~Waking(t)'
      BY <2>2 DEF Failed, Goto, Waking
    <3> QED BY <1>3, <1>12, <1>16, <2>0, <3>1, <3>2
  <2> QED BY <1>17, <1>t, <2>1, <2>2 DEF RegisterAtServer, Goto
<1>18. CASE LinkToDeath(t)
  <2>0. Starting(t) /\ UNCHANGED voted
    BY <1>18 DEF LinkToDeath, Starting
  <2>1. CASE /\ Alive(h) /\ links' = links \cup {<<h, server>>} /\ UNCHANGED ops
             /\ pc'[t] \in {"reconnect", "push_back"}
    <3>1. ~Waking(t)' /\ ~Starting(t)' /\ Alive(h)' /\ ops'[h] = server
      BY <1>1, <2>1 DEF Waking, Starting, Alive
    <3>2. \A u \in Thread : Of(u) = h /\ u # t => ~Starting(u)
      BY <2>0 DEF Ownership, Owned, Owns, Starting, Registering
    <3>3. \A u \in Thread : Of(u) = h => ~Waking(u)' /\ ~Starting(u)'
      BY <1>4, <1>16, <2>0, <3>1, <3>2
    <3>4. \A i \in Incarnation : <<h, i>> \in links' => i = ops'[h]
      BY <1>16, <2>0, <2>1, <3>1
    <3>5. Linked' /\ Wakes'
      BY <1>6, <1>7, <3>1, <3>3, <3>4
    <3>6. VotesAlive'
      BY <1>5, <1>t, <3>1
    <3> QED BY <1>3, <3>5, <3>6
  <2>2. CASE ops' = [ops EXCEPT ![h] = 0] /\ UNCHANGED links /\ Failed(t)
    <3>1. ~Waking(t)'
      BY <2>2 DEF Failed, Goto, Waking
    <3>2. ops'[h] = 0
      BY <1>t, <2>2
    <3> QED BY <1>3, <1>12, <1>16, <2>0, <2>2, <3>1, <3>2
  <2> QED BY <1>18, <2>1, <2>2 DEF LinkToDeath, Goto
<1>19. CASE Reconnect(t) /\ pc'[t] # "push_back"
  <2>1. Alive(h) /\ Gone(h) /\ Failed(t)
    BY <1>19 DEF Reconnect, Goto
  <2>2. ~Waking(t)'
    BY <2>1 DEF Failed, Goto, Waking
  <2>3. \A u \in Thread : Of(u) = h => ~Waking(u)
    BY <1>2, <2>1 DEF Wakes
  <2> QED BY <1>3, <1>12, <1>13, <2>1, <2>2, <2>3
<1> QED BY <1>9, <1>10, <1>11, <1>14, <1>15, <1>17, <1>18, <1>19 DEF Run

LEMMA VotesRun ==
  ASSUME LibTypeOK, Ownership, VoteInv, NEW t \in Thread, Run(t)
  PROVE  Votes'
<1> DEFINE h == Of(t)
<1> USE DEF LibTypeOK
<1>t. /\ h \in Handle /\ \A u \in Thread : Of(u) \in Handle
      /\ \A g \in Handle : connected[g] \in BOOLEAN
  BY ThreadParts
<1>1. /\ UNCHANGED <<op, server, status>>
      /\ \A u \in Thread : u # t => pc'[u] = pc[u]
      /\ \A g \in Handle : g # h =>
           /\ ops'[g] = ops[g] /\ connected'[g] = connected[g]
           /\ g \in voted' <=> g \in voted
           /\ g \in listed' <=> g \in listed
  BY RunFrame
<1>2. LocksOwned /\ DiedThreads /\ Linked /\ Wakes /\ VotesAlive /\ Votes
  BY DEF VoteInv
<1>3. /\ \A u \in Thread : u # t => (Starting(u)' <=> Starting(u))
      /\ \A g \in Handle : g # h => (Alive(g)' <=> Alive(g))
      /\ listed \subseteq Handle /\ listed' \subseteq Handle
  <2>1. listed' \subseteq Handle
    BY TypesRun
  <2> QED BY <1>1, <2>1 DEF Starting, Alive
\* What the threads of the structure and the list may say of it.
<1>4. ASSUME \A u \in Thread : Of(u) = h =>
               /\ pc'[u] = "registar" => ops'[h] = 0
               /\ Starting(u)' \/ pc'[u] = "reconnect" => h \notin voted'
               /\ pc'[u] = "reconnect" => connected'[h]
               /\ pc'[u] = "push_back" /\ Alive(h)' => (connected'[h] <=> h \in voted'),
             h \in listed' /\ Alive(h)' => (connected'[h] <=> h \in voted')
      PROVE  Votes'
  <2>1. \A u \in Thread :
          /\ pc'[u] = "registar" => ops'[Of(u)] = 0
          /\ Starting(u)' \/ pc'[u] = "reconnect" => Of(u) \notin voted'
          /\ pc'[u] = "reconnect" => connected'[Of(u)]
          /\ pc'[u] = "push_back" /\ Alive(Of(u))' => (connected'[Of(u)] <=> Of(u) \in voted')
    <3> SUFFICES ASSUME NEW u \in Thread, Of(u) # h
                 PROVE  /\ pc'[u] = "registar" => ops'[Of(u)] = 0
                        /\ Starting(u)' \/ pc'[u] = "reconnect" => Of(u) \notin voted'
                        /\ pc'[u] = "reconnect" => connected'[Of(u)]
                        /\ pc'[u] = "push_back" /\ Alive(Of(u))' =>
                             (connected'[Of(u)] <=> Of(u) \in voted')
      BY <1>4
    <3> QED BY <1>1, <1>2, <1>3, <1>t DEF Votes
  <2>2. \A g \in listed' : Alive(g)' => (connected'[g] <=> g \in voted')
    BY <1>1, <1>2, <1>3, <1>4 DEF Votes
  <2> QED BY <2>1, <2>2 DEF Votes

<1>5. CASE \/ LockList(t) \/ NotFound(t) \/ Found(t) \/ LockClient(t) \/ Unlock(t) \/ Delete(t)
           \/ PmClientEventAcknowledge(t)
  <2>1. UNCHANGED <<ops, connected, voted>> /\ (h \in listed' => h \in listed)
    BY <1>5 DEF LockList, NotFound, Found, LockClient, ListAfterLock, Unlock, Delete,
       PmClientEventAcknowledge, client, atServer, locks
  <2>2. pc'[t] \notin Registering /\ ~Starting(t)'
    BY <1>5 DEF LockList, NotFound, Found, LockClient, Unlock, Delete,
       PmClientEventAcknowledge, Goto, Registering, Starting
  <2>3. Alive(h)' <=> Alive(h)
    BY <1>1, <2>1 DEF Alive
  <2>4. \A u \in Thread : Of(u) = h /\ u # t =>
          /\ pc'[u] = "registar" => ops'[h] = 0
          /\ Starting(u)' \/ pc'[u] = "reconnect" => h \notin voted'
          /\ pc'[u] = "reconnect" => connected'[h]
          /\ pc'[u] = "push_back" /\ Alive(h)' => (connected'[h] <=> h \in voted')
    BY <1>1, <1>2, <1>3, <2>1, <2>3 DEF Votes
  <2>5. h \in listed' /\ Alive(h)' => (connected'[h] <=> h \in voted')
    BY <1>2, <2>1, <2>3 DEF Votes
  <2> QED BY <1>4, <2>2, <2>4, <2>5 DEF Registering
\* Nobody registers a structure that a call has locked.
<1>6. ASSUME PmClientConnect(t) \/ PmClientDisconnect(t)
      PROVE  /\ UNCHANGED ops
             /\ Alive(h)' => Alive(h)
             /\ \A u \in Thread : Of(u) = h =>
                  /\ pc'[u] \notin {"registar", "link", "reconnect", "push_back"}
                  /\ ~Starting(u)'
  <2>1. pc[t] = "body" /\ pc'[t] = "unlock" /\ UNCHANGED ops
    BY <1>6 DEF PmClientConnect, PmClientDisconnect, Body, Goto
  <2>2. clientLock[h] = t /\ t # Free
    BY <1>2, <2>1, ThreadParts DEF LocksOwned
  <2>3. \A u \in Thread : Of(u) = h => pc[u] \notin Registering
    BY <1>2, <2>1, <2>2, ZenonT(40) DEF LocksOwned, Registering
  <2>4. \A u \in Thread : Of(u) = h => pc'[u] \notin Registering
    BY <1>1, <2>1, <2>3 DEF Registering
  <2> QED BY <1>1, <2>1, <2>4 DEF Registering, Starting, Alive
<1>7. CASE PmClientConnect(t)
  <2>1. /\ h \in listed' => h \in listed
        /\ voted' = voted \cup {g \in {h} : VoteTaken(g)}
        /\ connected'[h] <=> connected[h] \/ VoteTaken(h) \/ ~Alive(h)
    BY <1>7, <1>t DEF PmClientConnect, locks
  <2>2. h \in listed' /\ Alive(h)' => (connected'[h] <=> h \in voted')
    BY <1>2, <1>6, <1>7, <2>1 DEF Votes
  <2> QED BY <1>4, <1>6, <1>7, <2>2
<1>8. CASE PmClientDisconnect(t)
  <2>1. /\ h \in listed' => h \in listed
        /\ voted' = voted \ {g \in {h} : VoteDropped(g)}
        /\ connected'[h] <=> connected[h] /\ ~VoteDropped(h) /\ Alive(h)
    BY <1>8, <1>t DEF PmClientDisconnect, ConnectedAfterUnvote, locks
  <2>2. h \in listed' /\ Alive(h)' => (connected'[h] <=> h \in voted')
    BY <1>2, <1>6, <1>8, <2>1 DEF Votes
  <2> QED BY <1>4, <1>6, <1>8, <2>2
\* Nobody else registers a structure that a thread owns, and it is not listed.
<1>9. ASSUME Owns(t), UNCHANGED listed,
             pc'[t] = "registar" => ops'[h] = 0,
             Starting(t)' \/ pc'[t] = "reconnect" => h \notin voted',
             pc'[t] = "reconnect" => connected'[h],
             pc'[t] = "push_back" /\ Alive(h)' => (connected'[h] <=> h \in voted')
      PROVE  Votes'
  <2>1. \A u \in Thread : Of(u) = h /\ u # t => ~Owns(u)
    BY <1>9 DEF Ownership, Owned
  <2>2. \A u \in Thread : Of(u) = h /\ u # t => pc'[u] \notin Registering /\ ~Starting(u)'
    BY <1>1, <1>3, <2>1 DEF Owns, Registering, Starting
  <2>3. h \notin listed'
    BY <1>9 DEF Ownership, Owned
  <2> QED BY <1>4, <1>9, <2>2, <2>3 DEF Registering
<1>10. CASE PmClientUnregister(t)
  <2>1. Owns(t) /\ UNCHANGED listed /\ pc'[t] = "unlock and delete"
    BY <1>10 DEF PmClientUnregister, Body, Owns, Removes, Goto, locks
  <2>2. ~Starting(t)'
    BY <2>1 DEF Starting
  <2> QED BY <1>9, <2>1, <2>2
<1>11. CASE BinderDied(t)
  <2>1. /\ Owns(t) /\ UNCHANGED <<listed, voted>> /\ pc'[t] = "registar" /\ ops'[h] = 0
        /\ pc[t] = "body" /\ op[t] = "died"
    BY <1>11, <1>t DEF BinderDied, Body, Owns, Removes, Goto, locks
  <2>2. ~Alive(h)
    BY <1>2, <2>1 DEF Wakes, Waking, DiedThreads
  <2>3. h \notin voted'
    BY <1>2, <2>1, <2>2 DEF VotesAlive
  <2> QED BY <1>9, <2>1, <2>3
<1>12. ASSUME pc[t] \in Registering PROVE Owns(t)
  BY <1>12 DEF Owns
<1>13. CASE RegisterAtServer(t)
  <2>1. /\ pc[t] = "registar" /\ UNCHANGED <<listed, voted>>
        /\ \/ pc'[t] = "link"
           \/ UNCHANGED ops /\ pc'[t] \in {"registar", "delete", "unlock and delete"}
    BY <1>13 DEF RegisterAtServer, Failed, Goto, locks
  <2>2. h \notin voted /\ ops[h] = 0
    BY <1>2, <2>1 DEF Votes, Starting
  <2> QED BY <1>9, <1>12, <2>1, <2>2 DEF Registering
<1>14. CASE LinkToDeath(t)
  <2>1. /\ pc[t] = "link" /\ UNCHANGED <<listed, voted, connected>>
        /\ \/ Alive(h) /\ pc'[t] = IF connected[h] THEN "reconnect" ELSE "push_back"
           \/ ops'[h] = 0 /\ pc'[t] \in {"registar", "delete", "unlock and delete"}
    BY <1>14, <1>t DEF LinkToDeath, Failed, Goto, locks
  <2>2. h \notin voted
    BY <1>2, <2>1 DEF Votes, Starting
  <2> QED BY <1>9, <1>12, <2>1, <2>2 DEF Registering
<1>15. CASE Reconnect(t)
  <2>1. pc[t] = "reconnect" /\ UNCHANGED <<listed, connected>>
    BY <1>15 DEF Reconnect, locks
  <2>2. h \notin voted /\ connected[h]
    BY <1>2, <2>1 DEF Votes
  <2>3. CASE /\ VoteTaken(h) \/ ~Alive(h)
             /\ voted' = voted \cup {g \in {h} : VoteTaken(g)}
             /\ pc'[t] = "push_back" /\ UNCHANGED ops
    <3>1. Alive(h)' => Alive(h)
      BY <1>1, <2>3 DEF Alive
    <3>2. pc'[t] = "push_back" /\ Alive(h)' => (connected'[h] <=> h \in voted')
      BY <2>1, <2>2, <2>3, <3>1
    <3>3. ~Starting(t)'
      BY <2>3 DEF Starting
    <3> QED BY <1>9, <1>12, <2>1, <2>3, <3>2, <3>3 DEF Registering
  <2>4. CASE Gone(h) /\ Failed(t)
    <3>1. pc'[t] \in {"registar", "delete", "unlock and delete"} /\ ops'[h] = 0
          /\ h \notin voted'
      BY <1>t, <2>2, <2>4 DEF Failed, Gone, Goto
    <3> QED BY <1>9, <1>12, <2>1, <3>1 DEF Registering, Starting
  <2> QED BY <1>15, <2>3, <2>4 DEF Reconnect, ReconnectVotes, Goto
<1>16. CASE PushBack(t)
  <2>1. /\ pc[t] = "push_back" /\ UNCHANGED <<ops, connected, voted>>
        /\ pc'[t] \in {"idle", "unlock"}
    BY <1>16 DEF PushBack, Goto, client, atServer
  <2>2. \A u \in Thread : Of(u) = h /\ u # t => ~Owns(u)
    BY <1>12, <2>1 DEF Ownership, Owned, Registering
  <2>3. \A u \in Thread : Of(u) = h => pc'[u] \notin Registering /\ ~Starting(u)'
    BY <1>1, <2>1, <2>2 DEF Owns, Registering, Starting
  <2>4. Alive(h)' => Alive(h)
    BY <1>1, <2>1 DEF Alive
  <2>5. h \in listed' /\ Alive(h)' => (connected'[h] <=> h \in voted')
    BY <1>2, <2>1, <2>4 DEF Votes
  <2> QED BY <1>4, <2>3, <2>5 DEF Registering
<1> QED BY <1>5, <1>7, <1>8, <1>10, <1>11, <1>13, <1>14, <1>15, <1>16 DEF Run

LEMMA VoteInvInit == LibInit => VoteInv
<1> SUFFICES ASSUME LibInit PROVE VoteInv
  OBVIOUS
<1> USE DEF LibInit
<1>t. \A u \in Thread : Of(u) \in Handle
  BY ThreadParts
<1>1. LocksOwned /\ Unused /\ DiedThreads
  BY <1>t DEF LocksOwned, Unused, DiedThreads, Registering
<1>2. Linked /\ Wakes
  BY DEF Linked, Wakes, Waking
<1>3. VotesAlive /\ Votes
  BY <1>t DEF VotesAlive, Votes, Starting
<1> QED BY <1>1, <1>2, <1>3 DEF VoteInv

LEMMA VoteInvCall ==
  ASSUME LibTypeOK, Ownership, VoteInv, NEW h \in Handle, Call(h)
  PROVE  VoteInv'
<1> USE DEF LibTypeOK, Goto
<1>t. /\ \A u \in Thread : Of(u) \in Handle
      /\ server # 0 /\ App(h) \in Thread /\ Of(App(h)) = h /\ App(h)[2] = "app"
      /\ Callback(h) \in Thread /\ Of(Callback(h)) = h /\ Callback(h)[2] = "callback"
  BY ThreadParts, ThreadsOf, LibAssumption DEF Incarnation
<1>i. LocksOwned /\ Unused /\ DiedThreads /\ Linked /\ Wakes /\ VotesAlive /\ Votes
  BY DEF VoteInv
<1>1. CASE PmClientRegister(h)
  <2> DEFINE a == App(h)
  <2>1. /\ struct[h] = "none" /\ pc' = [pc EXCEPT ![a] = "registar"]
        /\ op' = [op EXCEPT ![a] = "register"]
        /\ struct' = [struct EXCEPT ![h] = "alive"]
        /\ UNCHANGED <<server, status, registered, voted, links, ops, connected, listed,
                       clientLock>>
    BY <1>1 DEF PmClientRegister, theServer, atServer, locks
  <2>2. /\ ops[h] = 0 /\ clientLock[h] = Free /\ h \notin voted /\ ~Alive(h)
        /\ \A u \in Thread : Of(u) = h => pc[u] = "idle"
    BY <1>i, <1>t, <2>1 DEF Unused, Alive
  <2>3. /\ a \in Thread /\ Of(a) = h /\ a[2] = "app"
        /\ pc'[a] = "registar" /\ op'[a] = "register"
        /\ \A u \in Thread : u # a => pc'[u] = pc[u] /\ op'[u] = op[u]
    BY <1>t, <2>1
  <2> HIDE DEF a
  <2>4. /\ \A g \in Handle : Alive(g)' <=> Alive(g)
        /\ \A u \in Thread : u # a => /\ Waking(u)' <=> Waking(u)
                                      /\ Starting(u)' <=> Starting(u)
        /\ ~Waking(a)'
        /\ \A u \in Thread : Of(u) = h => ~Waking(u)
    BY <2>1, <2>2, <2>3 DEF Alive, Waking, Starting
  <2>5. LocksOwned'
    BY <1>i, <2>1, <2>2, <2>3, ZenonT(40) DEF LocksOwned, Registering
  <2>6. Unused'
    BY <1>i, <2>1, <2>3 DEF Unused
  <2>7. DiedThreads'
    BY <1>i, <2>3 DEF DiedThreads
  <2>8. Linked'
    BY <1>i, <2>1, <2>2, <2>3, <2>4 DEF Linked
  <2>9. Wakes'
    BY <1>i, <1>t, <2>3, <2>4 DEF Wakes
  <2>10. VotesAlive'
    BY <1>i, <2>1, <2>4 DEF VotesAlive
  <2>11. Votes'
    <3>1. \A u \in Thread :
            /\ pc'[u] = "registar" => ops'[Of(u)] = 0
            /\ Starting(u)' \/ pc'[u] = "reconnect" => Of(u) \notin voted'
            /\ pc'[u] = "reconnect" => connected'[Of(u)]
            /\ pc'[u] = "push_back" /\ Alive(Of(u))' =>
                 (connected'[Of(u)] <=> Of(u) \in voted')
      BY <1>i, <1>t, <2>1, <2>2, <2>3, <2>4 DEF Votes
    <3>2. \A g \in listed' : Alive(g)' => (connected'[g] <=> g \in voted')
      BY <1>i, <2>1, <2>4 DEF Votes
    <3> QED BY <3>1, <3>2 DEF Votes
  <2> QED BY <2>5, <2>6, <2>7, <2>8, <2>9, <2>10, <2>11 DEF VoteInv
<1>2. ASSUME NEW t \in Thread, t[2] # "died", struct[Of(t)] # "none",
             NEW function \in {"connect", "disconnect", "unregister", "acknowledge"},
             Start(t, function), Goto(t, "find")
      PROVE  VoteInv'
  <2>1. /\ pc[t] = "idle" /\ pc'[t] = "find" /\ op'[t] = function
        /\ \A u \in Thread : u # t => pc'[u] = pc[u] /\ op'[u] = op[u]
        /\ UNCHANGED <<server, status, registered, voted, links, struct, ops, connected, listed,
                       clientLock>>
    BY <1>2 DEF Start, theServer, atServer, client, locks
  <2>2. /\ \A g \in Handle : Alive(g)' <=> Alive(g)
        /\ \A u \in Thread : /\ Waking(u)' <=> Waking(u)
                             /\ Starting(u)' <=> Starting(u)
    BY <1>2, <2>1 DEF Alive, Waking, Starting
  <2>5. LocksOwned'
    BY <1>i, <2>1 DEF LocksOwned, Registering
  <2>6. Unused'
    BY <1>i, <1>2, <2>1 DEF Unused
  <2>7. DiedThreads'
    BY <1>i, <2>1 DEF DiedThreads
  <2>8. Linked' /\ Wakes' /\ VotesAlive'
    BY <1>i, <1>t, <2>1, <2>2 DEF Linked, Wakes, VotesAlive
  <2>9. Votes'
    BY <1>i, <1>t, <2>1, <2>2 DEF Votes
  <2> QED BY <2>5, <2>6, <2>7, <2>8, <2>9 DEF VoteInv
<1>3. h \in registered => struct[h] # "none"
  BY <1>i DEF Unused
<1> QED BY <1>1, <1>2, <1>3, <1>t DEF Call

LEMMA VoteInvServer ==
  ASSUME LibTypeOK, Ownership, VoteInv, ServerStops \/ ServerDies \/ ServerRestarts
  PROVE  VoteInv'
<1> USE DEF LibTypeOK
<1>t. /\ \A u \in Thread : Of(u) \in Handle
      /\ server \in Nat /\ server # 0 /\ ops \in [Handle -> Nat]
      /\ \A i \in Incarnation : i # 0
  BY ThreadParts, LibAssumption DEF Incarnation
<1>i. LocksOwned /\ Unused /\ DiedThreads /\ Linked /\ Wakes /\ VotesAlive /\ Votes
  BY DEF VoteInv
<1>1. ASSUME UNCHANGED <<registered, voted, links, struct, ops, connected, listed, clientLock,
                         pc, op>>,
             server <= server' /\ server' \in Nat,
             \A g \in Handle : Alive(g)' <=> Alive(g)
      PROVE  VoteInv'
  <2>1. \A u \in Thread : /\ Waking(u)' <=> Waking(u)
                          /\ Starting(u)' <=> Starting(u)
    BY <1>1 DEF Waking, Starting
  <2>2. LocksOwned' /\ Unused' /\ DiedThreads'
    BY <1>i, <1>1, ZenonT(40) DEF LocksOwned, Unused, DiedThreads
  <2>3. Linked' /\ Wakes' /\ VotesAlive'
    BY <1>i, <1>1, <1>t, <2>1 DEF Linked, Wakes, VotesAlive
  <2>4. Votes'
    BY <1>i, <1>1, <1>t, <2>1 DEF Votes
  <2> QED BY <2>2, <2>3, <2>4 DEF VoteInv
<1>2. CASE ServerStops
  <2>1. UNCHANGED <<registered, voted, links, struct, ops, connected, listed, clientLock,
                    pc, op, server>>
    BY <1>2 DEF ServerStops, atServer, client, locks, control
  <2>2. \A g \in Handle : Alive(g)' <=> Alive(g)
    BY <1>2, <2>1 DEF ServerStops, Alive
  <2> QED BY <1>1, <1>t, <2>1, <2>2
<1>3. CASE ServerRestarts
  <2>1. UNCHANGED <<registered, voted, links, struct, ops, connected, listed, clientLock,
                    pc, op>> /\ server' = server + 1 /\ status = "down"
    BY <1>3 DEF ServerRestarts, atServer, client, locks, control
  <2>2. \A g \in Handle : ops[g] # server'
    BY <1>i, <1>t, <2>1 DEF VotesAlive
  <2>3. \A g \in Handle : Alive(g)' <=> Alive(g)
    BY <2>1, <2>2 DEF Alive
  <2> QED BY <1>1, <1>t, <2>1, <2>3
\* A death wakes a thread for every link, and ends all votes.
<1>4. CASE ServerDies
  <2> DEFINE Starts(u) == u[2] = "died" /\ <<Of(u), u[3]>> \in links /\ u[3] = server
  <2>1. /\ UNCHANGED <<server, struct, ops, connected, listed, clientLock>>
        /\ status' = "down" /\ registered' = {} /\ voted' = {}
        /\ links' = {l \in links : l[2] # server}
    BY <1>4 DEF ServerDies, client, locks
  <2>2. \A u \in Thread : /\ pc'[u] = IF Starts(u) THEN "find" ELSE pc[u]
                          /\ op'[u] = IF u[2] = "died" THEN "died" ELSE op[u]
    BY <1>4 DEF ServerDies
  <2>3. \A u \in Thread : Starts(u) =>
          /\ pc[u] = "idle" /\ ops[Of(u)] = server
          /\ \A v \in Thread : Of(v) = Of(u) => ~Waking(v) /\ ~Starting(v)
    <3> SUFFICES ASSUME NEW u \in Thread, Starts(u)
                 PROVE  /\ pc[u] = "idle" /\ ops[Of(u)] = server
                        /\ \A v \in Thread : Of(v) = Of(u) => ~Waking(v) /\ ~Starting(v)
      OBVIOUS
    <3>1. pc[u] = "idle"
      BY <1>4, <1>t DEF ServerDies, Ownership, DiedOnce
    <3>2. Of(u) \in Handle /\ <<Of(u), server>> \in links /\ server \in Incarnation
      BY <1>t
    <3> HIDE DEF Starts
    <3> QED BY <1>i, <3>1, <3>2 DEF Linked
  <2>4. \A u \in Thread : /\ Starting(u)' <=> Starting(u)
                          /\ Waking(u)' => Waking(u) \/ Starts(u)
    BY <2>2, <2>3 DEF Starting, Waking
  <2>5. \A u, v \in Thread : Starts(u) /\ Starts(v) /\ Of(u) = Of(v) => u = v
    BY DEF Thread, Of
  <2>6. \A u \in Thread : u[2] = "died" /\ pc[u] # "idle" => op[u] = "died"
    BY DEF Ownership, DiedOnce
  <2>7. DiedThreads'
    BY <1>i, <2>2 DEF DiedThreads
  <2>8. \A u \in Thread : pc'[u] \notin {"idle", "find"} => pc'[u] = pc[u] /\ op'[u] = op[u]
    BY <2>2, <2>6
  <2> HIDE DEF Starts
  <2>9. LocksOwned'
    BY <1>i, <2>1, <2>8 DEF LocksOwned, Registering
  <2>10. Unused'
    BY <1>i, <1>t, <2>1, <2>2, <2>3 DEF Unused
  <2>11. \A g \in Handle : ~Alive(g)'
    BY <2>1 DEF Alive
  <2>12. Linked'
    <3>1. \A g \in Handle, i \in Incarnation : <<g, i>> \in links => i = server
      BY <1>i DEF Linked, Alive
    <3>2. \A g \in Handle, i \in Incarnation : <<g, i>> \notin links'
      BY <2>1, <3>1
    <3> QED BY <3>2 DEF Linked
  <2>13. Wakes'
    <3>1. \A u, v \in Thread : Waking(u)' /\ Of(u) = Of(v) =>
            ~Starting(v)' /\ (Waking(v)' => u = v)
      BY <1>i, <2>3, <2>4, <2>5 DEF Wakes
    <3> QED BY <1>t, <2>11, <3>1 DEF Wakes
  <2>14. VotesAlive'
    BY <1>i, <2>1 DEF VotesAlive
  <2>15. Votes'
    BY <1>i, <1>t, <2>1, <2>2, <2>11 DEF Votes
  <2> QED BY <2>7, <2>9, <2>10, <2>12, <2>13, <2>14, <2>15 DEF VoteInv
<1> QED BY <1>2, <1>3, <1>4

LEMMA VoteInvStep ==
  ASSUME LibInv, VoteInv, [LibNext]_lvars
  PROVE  VoteInv'
<1>1. LibTypeOK /\ Ownership /\ LocksOwned /\ Unused
  BY DEF LibInv, Ownership, VoteInv
<1>2. ASSUME NEW t \in Thread, Run(t) PROVE VoteInv'
  BY <1>1, <1>2, LocksRun, DeathsRun, VotesRun DEF VoteInv
<1>3. CASE UNCHANGED lvars
  <2> USE <1>3 DEF lvars, theServer, atServer, client, locks, control, VoteInv
  <2>1. LocksOwned' /\ Unused' /\ DiedThreads'
    BY DEF LocksOwned, Unused, DiedThreads
  <2>2. Linked' /\ Wakes'
    BY DEF Linked, Wakes, Waking, Starting, Alive
  <2>3. VotesAlive' /\ Votes'
    BY DEF VotesAlive, Votes, Starting, Alive
  <2> QED BY <2>1, <2>2, <2>3
<1> QED BY <1>1, <1>2, <1>3, VoteInvCall, VoteInvServer DEF LibNext

\* VoteInv, with LibInv, is inductive: who works on a structure holds its lock,
\* a death is dealt with before the structure is registered again, and only a
\* server that lives counts a vote.
THEOREM VoteAlwaysInv == LibSpec => [](LibInv /\ VoteInv)
<1>1. LibInit => LibInv /\ VoteInv
  BY TypesInit, OwnershipInit, VoteInvInit DEF LibInv, Ownership
<1>2. LibInv /\ VoteInv /\ [LibNext]_lvars => (LibInv /\ VoteInv)'
  BY LibInvStep, VoteInvStep
<1> QED BY <1>1, <1>2, PTL DEF LibSpec

\* What PeripheralManagerClient::connected says of a structure that can be found
\* is what the server counts, so that what the library restores after a crash is
\* what was counted, also when the server dies during a registration.
THEOREM ConnectedAlwaysMatches == LibSpec => []ConnectedMatchesVote
<1>1. LibInv /\ VoteInv => ConnectedMatchesVote
  BY DEF VoteInv, Votes, ConnectedMatchesVote
<1> QED BY <1>1, VoteAlwaysInv, PTL

=============================================================================
