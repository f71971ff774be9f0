------------------------- MODULE PmServerCallsProofs -------------------------
(***************************************************************************)
(* Proofs about PmServerCalls, for any number of clients that call and die *)
(* and whatever runs between the sections of their calls: the list has no  *)
(* deleted objects, what the counter, the flags and the list have to do    *)
(* with each other, and what Peripheral guarantees to its users all the    *)
(* same when its calls are split.                                          *)
(***************************************************************************)
EXTENDS PmServerCalls, PeripheralProofs

-----------------------------------------------------------------------------
(* What the sections of Peripheral do to the list, the flags, the counter  *)
(* and the shutdown.                                                       *)

seen == <<mClients, mIsVoter, mNumVoters, mShutdown>>

LEMMA VarsSeen == ASSUME UNCHANGED vars PROVE UNCHANGED seen
BY DEF vars, votes, shutdown, seen

LEMMA ConnectSeen ==
  ASSUME NEW c \in Client, Connect(c)
  PROVE  /\ c \in mClients /\ ~mIsVoter[c] /\ ~mShutdown
         /\ mIsVoter' = [mIsVoter EXCEPT ![c] = TRUE]
         /\ mNumVoters' = mNumVoters + 1
         /\ UNCHANGED <<mClients, mShutdown>>
BY DEF Connect, IncreaseVoters, VoteAccepted, shutdown

LEMMA UnvoteSeen ==
  ASSUME NEW c \in Client, NEW crash, Unvote(c, crash)
  PROVE  /\ UNCHANGED <<mClients, mShutdown>>
         /\ \/ /\ UnvoteAccepted(c)
               /\ mIsVoter' = [mIsVoter EXCEPT ![c] = FALSE]
               /\ mNumVoters' = mNumVoters - 1
            \/ ~UnvoteAccepted(c) /\ UNCHANGED <<mIsVoter, mNumVoters>>
BY VarsSeen DEF Unvote, DecreaseVoters, shutdown, seen

LEMMA AcknowledgeSeen ==
  ASSUME NEW c \in Client, NEW event, Acknowledge(c, event)
  PROVE  UNCHANGED seen
BY DEF Acknowledge, NotifyClientAck, votes, seen

\* Only the shutdown touches any of it on the other threads.
LEMMA OtherThreadSeen ==
  ASSUME OtherThread
  PROVE  UNCHANGED seen \/ (mShutdown' /\ UNCHANGED <<mClients, mIsVoter>> /\ mNumVoters' = 0)
BY DEF OtherThread, TimerStep, TimerExpire, NotificationAckTimeout, RestartPeripheral,
       ShutdownStart, ShutdownWait, votes, shutdown, seen

-----------------------------------------------------------------------------
(* The life of a registration.                                             *)

LifeInv == CallsTypeOK /\ ListedObjectsAlive /\ MisusedOnlyInDeath /\ LifeInOrder

LEMMA RegistarLife ==
  ASSUME LifeInv, NEW c \in Client, RegistarReadState(c) \/ RegistarAdd(c)
  PROVE  LifeInv'
<1> USE DEF LifeInv, CallsTypeOK, ListedObjectsAlive, MisusedOnlyInDeath, LifeInOrder, Section,
   Goes
<1>1. CASE RegistarReadState(c)
  BY <1>1, VarsSeen DEF RegistarReadState, seen
<1>2. CASE RegistarAdd(c)
  BY <1>2 DEF RegistarAdd, Registar, votes, shutdown
<1> QED BY <1>1, <1>2

LEMMA LookupLife ==
  ASSUME LifeInv, NEW c \in Client, NEW section \in Section, Lookup(c, section)
  PROVE  LifeInv'
BY VarsSeen DEF Lookup, Known, seen, LifeInv, CallsTypeOK, ListedObjectsAlive,
                MisusedOnlyInDeath, LifeInOrder, Section, Goes

\* decreaseVoters raises no flag.
LEMMA UnvoteTypes ==
  ASSUME CallsTypeOK, NEW c \in Client, NEW crash, Unvote(c, crash)
  PROVE  /\ UNCHANGED <<mClients, mShutdown>>
         /\ mIsVoter' \in [Client -> BOOLEAN] /\ mNumVoters' \in Nat
         /\ \A x \in Client : mIsVoter'[x] => mIsVoter[x]
<1>1. CASE UNCHANGED <<mIsVoter, mNumVoters>>
  BY <1>1, UnvoteSeen DEF CallsTypeOK
<1>2. CASE /\ UnvoteAccepted(c) /\ mNumVoters' = mNumVoters - 1
           /\ mIsVoter' = [mIsVoter EXCEPT ![c] = FALSE]
  <2>1. mNumVoters' \in Nat
    BY <1>2 DEF UnvoteAccepted, CallsTypeOK
  <2>2. mIsVoter' \in [Client -> BOOLEAN] /\ \A x \in Client : mIsVoter'[x] => mIsVoter[x]
    BY <1>2 DEF CallsTypeOK
  <2> QED BY <2>1, <2>2, UnvoteSeen
<1> QED BY <1>1, <1>2, UnvoteSeen

\* increaseVoters raises the flag of its client, which is in the list.
LEMMA ConnectTypes ==
  ASSUME CallsTypeOK, NEW c \in Client, Connect(c)
  PROVE  /\ UNCHANGED <<mClients, mShutdown>> /\ c \in mClients
         /\ mIsVoter' \in [Client -> BOOLEAN] /\ mNumVoters' \in Nat
         /\ \A x \in Client : mIsVoter'[x] => mIsVoter[x] \/ x = c
<1>0. mNumVoters' \in Nat
  BY ConnectSeen DEF CallsTypeOK
<1>1. mIsVoter' \in [Client -> BOOLEAN]
  BY ConnectSeen, Zenon DEF CallsTypeOK
<1>2. \A x \in Client : mIsVoter'[x] => mIsVoter[x] \/ x = c
  BY ConnectSeen DEF CallsTypeOK
<1> QED BY <1>0, <1>1, <1>2, ConnectSeen

LEMMA VoteLife ==
  ASSUME LifeInv, NEW c \in Client, ConnectVote(c) \/ DisconnectUnvote(c)
  PROVE  LifeInv'
<1> USE DEF LifeInv, CallsTypeOK, ListedObjectsAlive, MisusedOnlyInDeath, LifeInOrder, Section,
            Goes, Use
<1>1. CASE ConnectVote(c)
  <2>1. CASE Connect(c)
    <3>1. UNCHANGED misused
      BY <1>1, <2>1, ConnectTypes DEF ConnectVote
    <3> QED BY <1>1, <2>1, <3>1, ConnectTypes DEF ConnectVote
  <2>2. CASE UNCHANGED vars
    BY <1>1, <2>2, VarsSeen DEF ConnectVote, seen
  <2> QED BY <1>1, <2>1, <2>2 DEF ConnectVote
<1>2. CASE DisconnectUnvote(c)
  BY <1>2, UnvoteTypes DEF DisconnectUnvote
<1> QED BY <1>1, <1>2

LEMMA AcknowledgeLife ==
  ASSUME LifeInv, NEW c \in Client, NEW event \in PmEvent, Acknowledge(c, event)
  PROVE  LifeInv'
BY AcknowledgeSeen DEF Acknowledge, seen, LifeInv, CallsTypeOK, ListedObjectsAlive,
                       MisusedOnlyInDeath, LifeInOrder, Section, Goes

LEMMA UnregisterLife ==
  ASSUME LifeInv, NEW c \in Client,
         UnregisterUnvote(c) \/ UnregisterRemove(c) \/ UnregisterDelete(c)
  PROVE  LifeInv'
<1> USE DEF LifeInv, CallsTypeOK, ListedObjectsAlive, MisusedOnlyInDeath, LifeInOrder, Section,
   Goes
<1>1. CASE UnregisterUnvote(c)
  BY <1>1, UnvoteTypes DEF UnregisterUnvote
<1>2. CASE UnregisterRemove(c)
  BY <1>2 DEF UnregisterRemove, RemoveClient, votes, shutdown
<1>3. CASE UnregisterDelete(c)
  BY <1>3, VarsSeen DEF UnregisterDelete, Delete, Use, seen
<1> QED BY <1>1, <1>2, <1>3

LEMMA DeathLife ==
  ASSUME LifeInv, NEW c \in Client, Die(c) \/ DeathSection(c)
  PROVE  LifeInv'
<1> USE DEF LifeInv, CallsTypeOK, ListedObjectsAlive, MisusedOnlyInDeath, LifeInOrder, Section,
   Death
<1>1. CASE Die(c)
  BY <1>1, VarsSeen DEF Die, seen
<1>2. CASE ClientDiedLookup(c)
  BY <1>2, VarsSeen DEF ClientDiedLookup, seen
<1>3. CASE ClientDiedUnvote(c)
  BY <1>3, UnvoteTypes DEF ClientDiedUnvote, Use
<1>4. CASE ClientDiedRemove(c)
  BY <1>4 DEF ClientDiedRemove, RemoveClient, votes, shutdown
<1>5. CASE ClientDiedDelete(c)
  BY <1>5, VarsSeen DEF ClientDiedDelete, Delete, Use, seen
<1> QED BY <1>1, <1>2, <1>3, <1>4, <1>5 DEF DeathSection

LEMMA LifeStep ==
  ASSUME LifeInv, [CallsNext]_<<vars, cvars>>
  PROVE  LifeInv'
<1>1. CASE OtherThread
  <2>1. /\ UNCHANGED <<mClients, mIsVoter, object, call, dying, misused>>
        /\ mNumVoters' \in Nat /\ mShutdown' \in BOOLEAN
    <3>1. CASE UNCHANGED seen
      BY <1>1, <3>1 DEF OtherThread, seen, LifeInv, CallsTypeOK
    <3>2. CASE mShutdown' /\ UNCHANGED <<mClients, mIsVoter>> /\ mNumVoters' = 0
      <4>1. mShutdown' \in BOOLEAN
        BY <1>1 DEF OtherThread, TimerStep, TimerExpire, NotificationAckTimeout,
           RestartPeripheral, ShutdownStart, ShutdownWait, shutdown, LifeInv, CallsTypeOK
      <4> QED BY <1>1, <3>2, <4>1 DEF OtherThread
    <3> QED BY <1>1, <3>1, <3>2, OtherThreadSeen
  <2> QED BY <2>1
          DEF LifeInv, CallsTypeOK, ListedObjectsAlive, MisusedOnlyInDeath, LifeInOrder
<1>2. CASE UNCHANGED <<vars, cvars>>
  BY <1>2, VarsSeen
     DEF cvars, seen, LifeInv, CallsTypeOK, ListedObjectsAlive, MisusedOnlyInDeath, LifeInOrder
<1> QED BY <1>1, <1>2, RegistarLife, LookupLife, VoteLife, AcknowledgeLife, UnregisterLife,
           DeathLife DEF CallsNext, CallSection

-----------------------------------------------------------------------------
(* The counter and the flags.                                              *)

\* The counter follows the flag of a client that votes ...
LEMMA FlagSet ==
  ASSUME CallsTypeOK, FlagsCounted, NEW c \in Client, Connect(c)
  PROVE  mNumVoters' = Cardinality(Flagged')
<1>1. Flagged' = Flagged \cup {c} /\ c \notin Flagged
  BY ConnectSeen DEF Flagged, CallsTypeOK
<1>2. Cardinality(Flagged') = Cardinality(Flagged) + 1
  BY <1>1, FlaggedFinite, FS_AddElement
<1> QED BY <1>2, ConnectSeen DEF FlagsCounted

\* ... and of one that withdraws its vote.
LEMMA FlagCleared ==
  ASSUME CallsTypeOK, FlagsCounted, NEW c \in Client, UnvoteAccepted(c),
         mIsVoter' = [mIsVoter EXCEPT ![c] = FALSE], mNumVoters' = mNumVoters - 1
  PROVE  mNumVoters' = Cardinality(Flagged')
<1>1. Flagged' = Flagged \ {c} /\ c \in Flagged /\ ~mShutdown
  BY DEF Flagged, CallsTypeOK, UnvoteAccepted
<1>2. Cardinality(Flagged') = Cardinality(Flagged) - 1
  BY <1>1, FlaggedFinite, FS_RemoveElement
<1> QED BY <1>1, <1>2 DEF FlagsCounted

\* decreaseVoters refuses the vote of a listed client only if it has none.
LEMMA RefusedUnflagged ==
  ASSUME CallsTypeOK, FlagsCounted, ~mShutdown, NEW c \in mClients, ~UnvoteAccepted(c)
  PROVE  ~mIsVoter[c]
<1> SUFFICES ASSUME mIsVoter[c] PROVE FALSE
  BY DEF CallsTypeOK
<1>1. c \in Flagged
  BY DEF Flagged, CallsTypeOK
<1>2. Cardinality(Flagged) \in Nat /\ Cardinality(Flagged) # 0
  BY <1>1, FlaggedFinite, FS_EmptySet, FS_CardinalityType
<1> QED BY <1>2 DEF UnvoteAccepted, FlagsCounted

LEMMA UnvoteFlags ==
  ASSUME CallsTypeOK, FlagsCounted, NEW c \in Client, NEW crash, Unvote(c, crash)
  PROVE  /\ ~mShutdown' => mNumVoters' = Cardinality(Flagged')
         /\ ~mShutdown' /\ c \in mClients => ~mIsVoter'[c]
<1>1. CASE UnvoteAccepted(c)
  BY <1>1, UnvoteSeen, FlagCleared DEF CallsTypeOK
<1>2. CASE ~UnvoteAccepted(c)
  BY <1>2, UnvoteSeen, RefusedUnflagged DEF FlagsCounted, Flagged
<1> QED BY <1>1, <1>2

LEMMA FlagsStep ==
  ASSUME CallsInv, [CallsNext]_<<vars, cvars>>
  PROVE  FlagsCounted'
<1> USE DEF CallsInv, CallsTypeOK, Goes, Death
<1>1. ASSUME UNCHANGED seen, UNCHANGED <<call, dying>> PROVE FlagsCounted'
  BY <1>1 DEF seen, FlagsCounted, Flagged
<1>2. ASSUME NEW c \in Client, RegistarReadState(c) PROVE FlagsCounted'
  BY <1>2, VarsSeen DEF RegistarReadState, seen, FlagsCounted, Flagged
<1>3. ASSUME NEW c \in Client, RegistarAdd(c) PROVE FlagsCounted'
  BY <1>3 DEF RegistarAdd, Registar, votes, shutdown, FlagsCounted, Flagged
<1>4. ASSUME NEW c \in Client, NEW section \in Section, Lookup(c, section) PROVE FlagsCounted'
  BY <1>4, VarsSeen DEF Lookup, Section, seen, FlagsCounted, Flagged
<1>5. ASSUME NEW c \in Client, ConnectVote(c) PROVE FlagsCounted'
  <2>1. CASE Connect(c)
    BY <1>5, <2>1, ConnectSeen, FlagSet DEF ConnectVote, FlagsCounted
  <2>2. CASE UNCHANGED vars
    BY <1>5, <2>2, VarsSeen DEF ConnectVote, seen, FlagsCounted, Flagged
  <2> QED BY <1>5, <2>1, <2>2 DEF ConnectVote
<1>6. ASSUME NEW c \in Client, DisconnectUnvote(c) PROVE FlagsCounted'
  BY <1>6, UnvoteSeen, UnvoteFlags DEF DisconnectUnvote, FlagsCounted
<1>7. ASSUME NEW c \in Client, NEW event \in PmEvent, Acknowledge(c, event) PROVE FlagsCounted'
  BY <1>7, AcknowledgeSeen DEF Acknowledge, seen, FlagsCounted, Flagged
<1>8. ASSUME NEW c \in Client, UnregisterUnvote(c) PROVE FlagsCounted'
  BY <1>8, UnvoteSeen, UnvoteFlags DEF UnregisterUnvote, FlagsCounted, LifeInOrder, Section
<1>9. ASSUME NEW c \in Client, UnregisterRemove(c) PROVE FlagsCounted'
  BY <1>9 DEF UnregisterRemove, RemoveClient, votes, shutdown, FlagsCounted, Flagged
<1>10. ASSUME NEW c \in Client, UnregisterDelete(c) PROVE FlagsCounted'
  BY <1>10, VarsSeen DEF UnregisterDelete, Delete, seen, FlagsCounted, Flagged
<1>11. ASSUME NEW c \in Client, Die(c) \/ ClientDiedLookup(c) PROVE FlagsCounted'
  BY <1>11, VarsSeen DEF Die, ClientDiedLookup, seen, FlagsCounted, Flagged
<1>12. ASSUME NEW c \in Client, ClientDiedUnvote(c) PROVE FlagsCounted'
  BY <1>12, UnvoteSeen, UnvoteFlags DEF ClientDiedUnvote, FlagsCounted
<1>13. ASSUME NEW c \in Client, ClientDiedRemove(c) PROVE FlagsCounted'
  BY <1>13 DEF ClientDiedRemove, RemoveClient, votes, shutdown, FlagsCounted, Flagged
<1>14. ASSUME NEW c \in Client, ClientDiedDelete(c) PROVE FlagsCounted'
  BY <1>14, VarsSeen DEF ClientDiedDelete, Delete, seen, FlagsCounted, Flagged
<1>15. CASE OtherThread
  BY <1>1, <1>15, OtherThreadSeen DEF OtherThread, FlagsCounted
<1>16. CASE UNCHANGED <<vars, cvars>>
  BY <1>1, <1>16, VarsSeen DEF cvars
<1> QED BY <1>2, <1>3, <1>4, <1>5, <1>6, <1>7, <1>8, <1>9, <1>10, <1>11, <1>12, <1>13, <1>14,
           <1>15, <1>16 DEF CallsNext, CallSection, DeathSection

-----------------------------------------------------------------------------
(* The theorems about the list, the objects and the counter.               *)

LEMMA CallsInvInit == CallsInit => CallsInv
<1> SUFFICES ASSUME CallsInit PROVE CallsInv
  OBVIOUS
<1> USE DEF CallsInit, Init
<1>1. CallsTypeOK /\ ListedObjectsAlive /\ MisusedOnlyInDeath /\ LifeInOrder
  BY DEF CallsTypeOK, ListedObjectsAlive, MisusedOnlyInDeath, LifeInOrder, Section
<1>2. Flagged = {}
  BY DEF Flagged
<1>3. FlagsCounted
  BY <1>2, FS_EmptySet DEF FlagsCounted
<1> QED BY <1>1, <1>3 DEF CallsInv

\* CallsInv is inductive.
THEOREM CallsInductive == CallsSpec => []CallsInv
<1>1. CallsInit => CallsInv
  BY CallsInvInit
<1>2. CallsInv /\ [CallsNext]_<<vars, cvars>> => CallsInv'
  BY LifeStep, FlagsStep DEF CallsInv, LifeInv
<1> QED BY <1>1, <1>2, PTL DEF CallsSpec

\* Whoever walks the list meets no deleted object, whatever calls, and deaths
\* of their clients, remove and delete at the same time.
THEOREM ListedAlwaysAlive == CallsSpec => []ListedObjectsAlive
<1>1. CallsInv => ListedObjectsAlive
  BY DEF CallsInv
<1> QED BY <1>1, CallsInductive, PTL

\* A deleted object is used only by a call that its client's death overtook.
THEOREM OnlyMisusedInDeath == CallsSpec => []MisusedOnlyInDeath
<1>1. CallsInv => MisusedOnlyInDeath
  BY DEF CallsInv
<1> QED BY <1>1, CallsInductive, PTL

\* The counter covers the voters in the list: no call or death of one client
\* takes the power that another one votes for.
THEOREM CountAlwaysCovers == CallsSpec => []CountCoversVoters
<1>1. ASSUME CallsInv PROVE CountCoversVoters
  <2>1. Voters \subseteq Flagged
    BY <1>1 DEF Voters, Flagged, CallsInv, CallsTypeOK
  <2>2. Cardinality(Voters) <= Cardinality(Flagged)
    BY <2>1, FlaggedFinite, FS_Subset
  <2> QED BY <1>1, <2>2 DEF CallsInv, FlagsCounted, CountCoversVoters
<1> QED BY <1>1, CallsInductive, PTL

\* The votes that are counted and belong to nobody in the list are of clients
\* that died, at most one of each.
THEOREM OnlyLeakedInDeath == CallsSpec => []LeakedOnlyInDeath
<1>1. ASSUME CallsInv PROVE LeakedOnlyInDeath
  <2> SUFFICES ASSUME ~mShutdown
               PROVE  mNumVoters - Cardinality(Voters)
                        <= Cardinality({c \in Client : dying[c] # "no"})
    BY DEF LeakedOnlyInDeath
  <2> DEFINE Dead == {c \in Client : dying[c] # "no"}
             Lost == Flagged \ Voters
  <2>1. Voters \subseteq Flagged /\ Lost \subseteq Dead /\ Dead \subseteq Client
    BY <1>1 DEF Voters, Flagged, CallsInv, CallsTypeOK, FlagsCounted
  <2>2. IsFiniteSet(Dead) /\ IsFiniteSet(Voters) /\ IsFiniteSet(Lost)
    BY <2>1, FlaggedFinite, ClientAssumption, FS_Subset
  <2>3. Cardinality(Lost) <= Cardinality(Dead)
    BY <2>1, <2>2, FS_Subset
  <2>4. Flagged = Voters \cup Lost /\ Voters \cap Lost = {}
    BY <2>1
  <2>5. Cardinality(Flagged) = Cardinality(Voters) + Cardinality(Lost)
    <3>1. Cardinality(Voters \cup Lost)
            = Cardinality(Voters) + Cardinality(Lost) - Cardinality(Voters \cap Lost)
      BY <2>2, FS_Union
    <3>2. Cardinality(Voters \cap Lost) = 0
      BY <2>4, FS_EmptySet
    <3>3. Cardinality(Voters) \in Nat /\ Cardinality(Lost) \in Nat
      BY <2>2, FS_CardinalityType
    <3> HIDE DEF Lost
    <3>4. Cardinality(Voters \cup Lost) = Cardinality(Voters) + Cardinality(Lost)
      BY <3>1, <3>2, <3>3
    <3> QED BY <2>4, <3>4
  <2>6. Cardinality(Voters) \in Nat /\ Cardinality(Lost) \in Nat /\ Cardinality(Dead) \in Nat
    BY <2>2, FS_CardinalityType
  <2>7. mNumVoters = Cardinality(Flagged)
    BY <1>1 DEF CallsInv, FlagsCounted
  <2> HIDE DEF Dead, Lost
  <2>8. mNumVoters - Cardinality(Voters) <= Cardinality(Dead)
    BY <2>3, <2>5, <2>6, <2>7
  <2> QED BY <2>8 DEF Dead
<1> QED BY <1>1, CallsInductive, PTL

-----------------------------------------------------------------------------
(* What Peripheral guarantees when its calls are split.                    *)

\* The sections that are no call of Peripheral's specification.
Splits ==
  \E c \in Client :
    \/ \E crash \in BOOLEAN :
         /\ DecreaseVoters(c, crash, mClients)
         /\ UNCHANGED <<restart, shutdown, mClients, mFileDesc, expired>>
    \/ RemoveClient(c)
    \/ /\ Settle(mAckExpected)
       /\ UNCHANGED <<votes, mShutdown, mainThread, mClients, expired>>

LEMMA SectionStep ==
  ASSUME [CallsNext]_<<vars, cvars>>
  PROVE  UNCHANGED vars \/ (mainThread # "exited" /\ (Staying \/ Splits))
<1>1. ASSUME NEW c \in Client, NEW crash \in BOOLEAN, Unvote(c, crash)
      PROVE  UNCHANGED vars \/ Splits
  BY <1>1 DEF Unvote, Splits
<1>2. ASSUME NEW c \in Client, NEW event \in PmEvent, Acknowledge(c, event)
      PROVE  Staying \/ Splits
  BY <1>2 DEF Acknowledge, Staying, Splits
<1>3. ASSUME NEW c \in Client, RegistarAdd(c) PROVE Staying
  BY <1>3 DEF RegistarAdd, Staying
<1>4. ASSUME NEW c \in Client, ConnectVote(c) PROVE UNCHANGED vars \/ Staying
  BY <1>4 DEF ConnectVote, Staying
<1>5. ASSUME NEW c \in Client, RemoveClient(c) PROVE Splits
  BY <1>5 DEF Splits
<1>6. ASSUME OtherThread PROVE Staying
  BY <1>6 DEF OtherThread, Staying
<1>7. ASSUME NEW c \in Client, CallSection(c) PROVE UNCHANGED vars \/ Staying \/ Splits
  BY <1>1, <1>2, <1>3, <1>4, <1>5, <1>7
     DEF CallSection, DisconnectUnvote, UnregisterUnvote, UnregisterRemove, UnregisterDelete,
         Delete
<1>8. ASSUME NEW c \in Client, DeathSection(c) PROVE UNCHANGED vars \/ Splits
  BY <1>1, <1>5, <1>8
     DEF DeathSection, ClientDiedLookup, ClientDiedUnvote, ClientDiedRemove, ClientDiedDelete,
         Delete
<1> QED BY <1>6, <1>7, <1>8 DEF CallsNext, RegistarReadState, Lookup, Die

LEMMA StayingNext ==
  ASSUME Staying, mainThread # "exited" PROVE [Next]_vars
BY DEF Staying, Next, ClientStep

LEMMA SplitsPower ==
  ASSUME PowerInv, Splits, mainThread # "exited" PROVE PowerInv'
<1> USE DEF PowerInv
<1>1. ASSUME NEW c \in Client, NEW crash \in BOOLEAN, DecreaseVoters(c, crash, mClients),
             UNCHANGED <<restart, shutdown, mClients, mFileDesc, expired>>
      PROVE  PowerInv'
  <2>1. TypeOK'
    BY <1>1, UnvoteType DEF TypeOK, restart, shutdown, AckTable
  <2>2. PowerMatchesState'
    BY <1>1 DEF DecreaseVoters, LastVote, NotifyClients, PowerMatchesState,
       EVENT_PERIPH_IS_ONLINE, EVENT_PERIPH_IS_OFFLINE, EVENT_PERIPH_GOING_OFFLINE
  <2>3. AcksForCurrentState'
    BY <1>1, NotifyAcks, FewerAcks DEF DecreaseVoters, LastVote, TypeOK
  <2>4. CrashOnlyUnvoted' /\ GoingOfflineJustified'
    BY <1>1 DEF DecreaseVoters, UnvoteAccepted, LastVote, NotifyClients, TypeOK, restart,
       shutdown, CrashOnlyUnvoted, GoingOfflineJustified
  <2>5. ShutdownIsFinal'
    BY <1>1 DEF DecreaseVoters, UnvoteAccepted, restart, shutdown, ShutdownIsFinal
  <2> QED BY <2>1, <2>2, <2>3, <2>4, <2>5
<1>2. ASSUME NEW c \in Client, RemoveClient(c) PROVE PowerInv'
  BY <1>2 DEF RemoveClient, round, votes, restart, shutdown, TypeOK, PowerMatchesState,
     AcksForCurrentState, CrashOnlyUnvoted, GoingOfflineJustified, ShutdownIsFinal
<1>3. ASSUME Settle(mAckExpected),
             UNCHANGED <<votes, mShutdown, mainThread, mClients, expired>>
      PROVE  PowerInv'
  <2>1. TypeOK'
    BY <1>3, SettleType DEF TypeOK, votes, AckTable
  <2>2. PowerMatchesState'
    BY <1>3 DEF Settle, PowerOn, PowerOnFailed, OnlineSettled, PowerOff, PowerOffFailed,
       OfflineSettled, NotifyClients, TypeOK, PowerMatchesState,
       EVENT_PERIPH_IS_ONLINE, EVENT_PERIPH_IS_OFFLINE, EVENT_PERIPH_GOING_ONLINE,
       EVENT_PERIPH_GOING_OFFLINE
  <2>3. AcksForCurrentState'
    BY <1>3, NotifyAcks, FewerAcks DEF Settle, PowerOn, PowerOnFailed, OnlineSettled, PowerOff,
       PowerOffFailed, OfflineSettled, TypeOK
  <2>4. CrashOnlyUnvoted' /\ GoingOfflineJustified'
    BY <1>3, SettlePower DEF votes, TypeOK, CrashOnlyUnvoted, GoingOfflineJustified
  <2>5. ShutdownIsFinal'
    BY <1>3, SettleShutdown DEF TypeOK, ShutdownIsFinal
  <2> QED BY <2>1, <2>2, <2>3, <2>4, <2>5
<1> QED BY <1>1, <1>2, <1>3 DEF Splits

LEMMA SplitsRestart ==
  ASSUME RInv, "open" \notin DeviceFaults, Splits PROVE RInv'
<1> USE DEF RInv, RestartNotForgotten, AnsweredWhenOffline, restart, shutdown
<1>1. ASSUME NEW c \in Client, NEW crash \in BOOLEAN, DecreaseVoters(c, crash, mClients),
             UNCHANGED <<restart, shutdown>>
      PROVE  RInv'
  BY <1>1 DEF DecreaseVoters, LastVote, NotifyClients, EVENT_PERIPH_GOING_OFFLINE,
     EVENT_PERIPH_IS_OFFLINE
<1>2. ASSUME NEW c \in Client, RemoveClient(c) PROVE RInv'
  BY <1>2 DEF RemoveClient, round
<1>3. ASSUME Settle(mAckExpected), UNCHANGED mShutdown PROVE RInv'
  BY <1>3, SettleRestart
<1> QED BY <1>1, <1>2, <1>3 DEF Splits

LEMMA SplitsVoting ==
  ASSUME VotingInv, Splits PROVE VotingStep
<1>1. ASSUME NEW c \in Client, NEW crash \in BOOLEAN, DecreaseVoters(c, crash, mClients),
             UNCHANGED <<restart, shutdown, mFileDesc>>
      PROVE  VotingStep
  <2>1. PV!Withdraw(c)
    BY <1>1, WithdrawVoting
  <2> QED BY <2>1 DEF VotingStep, PV!VotingNext
<1>2. ASSUME NEW c \in Client, RemoveClient(c) PROVE VotingStep
  BY <1>2, Unseen, UsersSame DEF RemoveClient, round, votes, restart, shutdown
<1>3. ASSUME Settle(mAckExpected), UNCHANGED <<votes, mShutdown, mainThread>> PROVE VotingStep
  BY <1>3, SettleVoting DEF votes
<1> QED BY <1>1, <1>2, <1>3 DEF Splits

LEMMA CallsPowerStep ==
  ASSUME PowerInv, [CallsNext]_<<vars, cvars>> PROVE PowerInv'
BY SectionStep, StayingNext, PowerInvStep, SplitsPower

LEMMA CallsVotingInv == ASSUME CallsInv, PowerInv PROVE VotingInv
BY DEF CallsInv, FlagsCounted, VotingInv, FlagsCount

\* The part of Peripheral's invariant that does not depend on the list holds
\* for the split calls.
THEOREM CallsKeepPowerInv == CallsSpec => []PowerInv
<1>1. CallsInit => PowerInv
  BY IInvInit DEF CallsInit, IInv
<1>2. PowerInv /\ [CallsNext]_<<vars, cvars>> => PowerInv'
  BY CallsPowerStep
<1> QED BY <1>1, <1>2, PTL DEF CallsSpec

\* The state told to clients agrees with the device node, whatever runs
\* between two sections of a call.
THEOREM CallsPowerMatches == CallsSpec => []PowerMatchesState
<1>1. PowerInv => PowerMatchesState
  BY DEF PowerInv
<1> QED BY <1>1, CallsKeepPowerInv, PTL

\* Nobody is waited for on account of a superseded event, not even a client
\* that left the list between two sections.
THEOREM CallsAcksCurrent == CallsSpec => []AcksForCurrentState
<1>1. PowerInv => AcksForCurrentState
  BY DEF PowerInv
<1> QED BY <1>1, CallsKeepPowerInv, PTL

\* When main returns the peripheral is off-line and its node closed, although
\* calls may be half done.
THEOREM CallsExitPoweredOff == CallsSpec => []ExitPoweredOff
<1>1. PowerInv => ExitPoweredOff
  BY DEF PowerInv, TypeOK, ShutdownIsFinal, PowerMatchesState, ExitPoweredOff
<1> QED BY <1>1, CallsKeepPowerInv, PTL

LEMMA CallsJustifiedStep ==
  ASSUME CallsInv, PowerInv, [CallsNext]_<<vars, cvars>> PROVE PowerOffJustified
<1> SUFFICES ASSUME mFileDesc = 1, mFileDesc' = -1
             PROVE  \/ Voters = {} /\ ~mLastClientCrashed
                    \/ mRestartRequestor # NULL
                    \/ mShutdown
  BY DEF PowerOffJustified
<1>1. CASE Staying /\ mainThread # "exited"
  BY <1>1, StayingNext, OnlyPowerOffCloses, CallsVotingInv, OffJustified
     DEF Voters, Flagged, CallsInv, CallsTypeOK
<1>2. CASE Splits
  <2>1. mState = EVENT_PERIPH_GOING_OFFLINE
    BY <1>2, SettleCloses DEF Splits, RemoveClient
  <2> QED BY <2>1, CallsVotingInv, OffJustified DEF Voters, Flagged, CallsInv, CallsTypeOK
<1>3. CASE UNCHANGED vars
  BY <1>3 DEF vars
<1> QED BY <1>1, <1>2, <1>3, SectionStep

\* The device node is closed only when no listed client votes for it and no
\* grace period runs, or for a restart, or in the shutdown: a call of a client whose death overtakes it
\* may keep the modem powered, but never takes power from another client.
THEOREM CallsCloseOnlyIfUnwanted == CallsSpec => DeviceClosedOnlyIfUnwanted
<1>1. CallsInv /\ PowerInv /\ [CallsNext]_<<vars, cvars>> => [PowerOffJustified]_vars
  BY CallsJustifiedStep
<1> QED BY <1>1, CallsInductive, CallsKeepPowerInv, PTL
        DEF CallsSpec, DeviceClosedOnlyIfUnwanted

\* Unless opening the device node may fail, no interleaving of sections
\* forgets an accepted restart before its requestor was told.
THEOREM CallsRestartNeverForgotten ==
  "open" \notin DeviceFaults => (CallsSpec => []RestartNotForgotten)
<1> SUFFICES ASSUME "open" \notin DeviceFaults PROVE CallsSpec => []RestartNotForgotten
  OBVIOUS
<1>1. CallsInit => RInv
  BY DEF CallsInit, Init, RInv, RestartNotForgotten, AnsweredWhenOffline
<1>2. PowerInv /\ RInv /\ [CallsNext]_<<vars, cvars>> => RInv'
  <2> SUFFICES ASSUME PowerInv, RInv, [CallsNext]_<<vars, cvars>> PROVE RInv'
    OBVIOUS
  <2>1. CASE [Next]_vars
    BY <2>1, RInvStep
  <2>2. CASE Splits
    BY <2>2, SplitsRestart
  <2> QED BY <2>1, <2>2, SectionStep, StayingNext
<1>3. RInv => RestartNotForgotten
  BY DEF RInv
<1> QED BY <1>1, <1>2, <1>3, CallsKeepPowerInv, PTL DEF CallsSpec

\* The calls in sections implement PowerVoting, as the calls of Peripheral do,
\* when every Client object with the flag counts as a user that votes: the
\* lookups without a lock, deaths in the middle of calls and late
\* acknowledgements move the power of the modem only as votes do.
THEOREM CallsRefinement == CallsSpec => KeepsPromise
<1>1. CallsInv /\ PowerInv /\ [CallsNext]_<<vars, cvars>> => [PV!VotingNext]_(PV!pvars)
  <2> SUFFICES ASSUME CallsInv, PowerInv, [CallsNext]_<<vars, cvars>> PROVE VotingStep
    BY DEF VotingStep
  <2>1. VotingInv
    BY CallsVotingInv
  <2>2. CASE UNCHANGED vars \/ Staying
    BY <2>1, <2>2, StayingVoting DEF Staying
  <2> QED BY <2>1, <2>2, SectionStep, SplitsVoting
<1>2. CallsInit => PV!VotingInit
  BY VotingInit DEF CallsInit
<1> QED BY <1>1, <1>2, CallsInductive, CallsKeepPowerInv, PTL
        DEF CallsSpec, KeepsPromise, PV!VotingSpec
=============================================================================
