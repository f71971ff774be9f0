---------------------------- MODULE PmServerCalls ----------------------------
(***************************************************************************)
(* The calls of PeripheralManagerServer, split where mLock is released.    *)
(*                                                                         *)
(* Binder runs every call on a thread of its own.  A call first looks its  *)
(* client up in the list without a lock and then enters one critical       *)
(* section of Peripheral after another; in between, other clients, the     *)
(* timer, the QMI thread, main, and the death notification of the same     *)
(* client run.  The client library lets one call at a time of a client     *)
(* reach the server, but nothing orders that call with the notification    *)
(* that its process died.                                                  *)
(*                                                                         *)
(* Client is the set of registrations here: the Client object of each is   *)
(* allocated once and its address is not reused.                           *)
(***************************************************************************)
EXTENDS Peripheral

VARIABLES
  object,   \* the Client object: "none", "alive" or "deleted"
  call,     \* the section the client's call enters next, or "idle"
  dying,    \* "no", or the section its death notification enters next
  misused   \* clients whose object was used after it was deleted

cvars == <<object, call, dying, misused>>

\* The step dereferences the object.
Use(c) == misused' = misused \cup {x \in {c} : object[x] = "deleted"}

Goes(c, section)  == call' = [call EXCEPT ![c] = section]
Death(c, section) == dying' = [dying EXCEPT ![c] = section]

\* findClient without the lock, on behalf of a call.
Known_Unchecked(c) == object[c] # "none"
Known(c) == c \in mClients

-----------------------------------------------------------------------------
(* registar: the state is read in one section, the object added in another.*)
(* What a client is told of the state is not modelled.                     *)

RegistarReadState(c) ==
  /\ object[c] = "none"
  /\ object' = [object EXCEPT ![c] = "alive"]
  /\ Goes(c, "adding")
  /\ UNCHANGED <<vars, dying, misused>>

RegistarAdd(c) ==
  /\ call[c] = "adding"
  /\ Registar(c)
  /\ Goes(c, "idle")
  /\ UNCHANGED <<object, dying, misused>>

-----------------------------------------------------------------------------
(* The other calls start with the lookup of the client.                    *)

Lookup(c, section) ==
  /\ object[c] # "none" /\ call[c] = "idle" /\ dying[c] = "no"
  /\ Known(c)
  /\ Goes(c, section)
  /\ UNCHANGED <<vars, object, dying, misused>>

ConnectVote(c) ==
  /\ call[c] = "connect"
  /\ Use(c)
  /\ \/ Connect(c)
     \/ ~VoteAccepted(c) /\ UNCHANGED vars
  /\ Goes(c, "idle")
  /\ UNCHANGED <<object, dying>>

\* decreaseVoters, refused or not.
Unvote(c, crash) ==
  \/ /\ DecreaseVoters(c, crash, mClients)
     /\ UNCHANGED <<restart, shutdown, mClients, mFileDesc, expired>>
  \/ ~UnvoteAccepted(c) /\ UNCHANGED vars

DisconnectUnvote(c) ==
  /\ call[c] = "disconnect"
  /\ Use(c)
  /\ Unvote(c, FALSE)
  /\ Goes(c, "idle")
  /\ UNCHANGED <<object, dying>>

\* A client that left meanwhile acknowledges nothing, but the rest of
\* notifyClientAck runs.
Acknowledge(c, event) ==
  /\ call[c] = "acknowledge"
  /\ \/ NotifyClientAck(c, event)
     \/ /\ c \notin mClients
        /\ Settle(mAckExpected)
        /\ UNCHANGED <<votes, mShutdown, mainThread, mClients, expired>>
  /\ Goes(c, "idle")
  /\ UNCHANGED <<object, dying, misused>>

\* removeClient: a client that is not in the list is ignored.
RemoveClient_Missed(c) == UNCHANGED vars
RemoveClient(c) ==
  /\ mClients' = mClients \ {c}
  /\ UNCHANGED <<round, votes, restart, shutdown, mFileDesc, expired>>

Delete(c) ==
  /\ Use(c)
  /\ object' = [object EXCEPT ![c] = "deleted"]
  /\ UNCHANGED vars

UnregisterUnvote(c) ==
  /\ call[c] = "unregister"
  /\ Unvote(c, FALSE)
  /\ Goes(c, "remove")
  /\ UNCHANGED <<object, dying, misused>>

UnregisterRemove(c) ==
  /\ call[c] = "remove"
  /\ RemoveClient(c)
  /\ Goes(c, "delete")
  /\ UNCHANGED <<object, dying, misused>>

UnregisterDelete(c) ==
  /\ call[c] = "delete"
  /\ Delete(c)
  /\ Goes(c, "idle")
  /\ UNCHANGED dying

-----------------------------------------------------------------------------
(* The client's process dies; a call it had made goes on.                  *)

Die(c) ==
  /\ c \in CrashingClients
  /\ object[c] = "alive" /\ dying[c] = "no"
  /\ Death(c, "lookup")
  /\ UNCHANGED <<vars, object, call, misused>>

ClientDiedLookup(c) ==
  /\ dying[c] = "lookup"
  /\ Death(c, IF c \in mClients THEN "unvote" ELSE "done")
  /\ UNCHANGED <<vars, object, call, misused>>

ClientDiedUnvote(c) ==
  /\ dying[c] = "unvote"
  /\ Use(c)
  /\ Unvote(c, TRUE)
  /\ Death(c, "remove")
  /\ UNCHANGED <<object, call>>

ClientDiedRemove(c) ==
  /\ dying[c] = "remove"
  /\ RemoveClient(c)
  /\ Death(c, "delete")
  /\ UNCHANGED <<object, call, misused>>

ClientDiedDelete(c) ==
  /\ dying[c] = "delete"
  /\ Delete(c)
  /\ Death(c, "done")
  /\ UNCHANGED call

-----------------------------------------------------------------------------
CallsInit ==
  /\ Init
  /\ object = [c \in Client |-> "none"]
  /\ call = [c \in Client |-> "idle"]
  /\ dying = [c \in Client |-> "no"]
  /\ misused = {}

Section == {"connect", "disconnect", "acknowledge", "unregister"}

CallSection(c) ==
  \/ RegistarAdd(c)
  \/ ConnectVote(c)
  \/ DisconnectUnvote(c)
  \/ \E event \in PmEvent : Acknowledge(c, event)
  \/ UnregisterUnvote(c)
  \/ UnregisterRemove(c)
  \/ UnregisterDelete(c)

DeathSection(c) ==
  \/ ClientDiedLookup(c)
  \/ ClientDiedUnvote(c)
  \/ ClientDiedRemove(c)
  \/ ClientDiedDelete(c)

\* The timer, the QMI thread and main use no client.
OtherThread ==
  /\ TimerStep \/ (\E q \in QmiClient : RestartPeripheral(q))
     \/ ShutdownStart \/ ShutdownWait
  /\ UNCHANGED <<object, call, dying, misused>>

CallsNext ==
  /\ mainThread # "exited"
  /\ \/ \E c \in Client :
          \/ RegistarReadState(c)
          \/ \E section \in Section : Lookup(c, section)
          \/ CallSection(c)
          \/ Die(c)
          \/ DeathSection(c)
     \/ OtherThread

CallsSpec == CallsInit /\ [][CallsNext]_<<vars, cvars>>

\* A binder thread that runs a call or a death notification does not stop.
ThreadsRun ==
  \A c \in Client :
    /\ WF_<<vars, cvars>>(mainThread # "exited" /\ CallSection(c))
    /\ WF_<<vars, cvars>>(mainThread # "exited" /\ DeathSection(c))

FairCallsSpec == CallsSpec /\ ThreadsRun

-----------------------------------------------------------------------------
(* Properties.                                                             *)

\* Whoever walks the list (notifyClients, the acknowledgement check, the
\* timeout) meets no deleted object: every call removes before it deletes.
ListedObjectsAlive == \A c \in mClients : object[c] = "alive"

\* The counter never falls below the number of listed voters, so that the
\* calls of one client cannot take power away from another.
CountCoversVoters == ~mShutdown => mNumVoters >= Cardinality(Voters)

\* A deleted object is used only by a call that races with the death of its
\* client: the lookup that every call starts with ("validate user input") and
\* the order of unregister keep all other calls from it.
MisusedOnlyInDeath == \A c \in misused : dying[c] # "no"

\* A vote that nobody can take back is counted only for a client that died.
LeakedOnlyInDeath ==
  ~mShutdown =>
    mNumVoters - Cardinality(Voters) <= Cardinality({c \in Client : dying[c] # "no"})

\* A client that is in the list when its death is noticed leaves the list,
\* whatever call of it is still running.
DeadLeave ==
  \A c \in Client :
    dying[c] = "lookup" /\ c \in mClients ~> c \notin mClients \/ mainThread = "exited"

-----------------------------------------------------------------------------
(* The inductive invariant of PmServerCallsProofs.                         *)

CallsTypeOK ==
  /\ mClients \subseteq Client /\ mIsVoter \in [Client -> BOOLEAN]
  /\ mNumVoters \in Nat /\ mShutdown \in BOOLEAN
  /\ object \in [Client -> {"none", "alive", "deleted"}]
  /\ call \in [Client -> Section \cup {"idle", "adding", "remove", "delete"}]
  /\ dying \in [Client -> {"no", "lookup", "unvote", "remove", "delete", "done"}]
  /\ misused \subseteq Client

\* A registration is made, listed, taken off the list and deleted, once, and
\* as long as its client lives its one call is the one that does so.
LifeInOrder ==
  \A c \in Client :
    /\ object[c] = "none" => call[c] = "idle" /\ dying[c] = "no"
    /\ object[c] = "none" \/ call[c] = "adding" => c \notin mClients /\ ~mIsVoter[c]
    /\ call[c] = "adding" => object[c] = "alive" /\ dying[c] \in {"no", "lookup", "done"}
    /\ call[c] = "delete" \/ dying[c] = "delete" => c \notin mClients
    /\ dying[c] = "no" =>
         /\ call[c] \in Section \cup {"remove"} => c \in mClients
         /\ call[c] = "delete" => object[c] = "alive"

\* The counter counts the flags, also those of objects that left the list; the
\* flag of a living client leaves the list only when it was withdrawn.
FlagsCounted ==
  ~mShutdown =>
    /\ mNumVoters = Cardinality(Flagged)
    /\ \A c \in Client : dying[c] = "no" =>
         /\ mIsVoter[c] => c \in mClients
         /\ call[c] \in {"remove", "delete"} => ~mIsVoter[c]

CallsInv ==
  CallsTypeOK /\ ListedObjectsAlive /\ MisusedOnlyInDeath /\ LifeInOrder /\ FlagsCounted
=============================================================================
