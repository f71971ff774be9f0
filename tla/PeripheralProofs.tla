-------------------------- MODULE PeripheralProofs --------------------------
(***************************************************************************)
(* Theorems about Peripheral, for any number of clients and QMI clients,   *)
(* any timeouts and any device faults.                                     *)
(***************************************************************************)
EXTENDS Peripheral, FiniteSetTheorems, TLAPS

\* A table of expected acknowledgements.
AckTable == [Client -> PmEvent \cup {EVENT_INVALID}]

\* notifyClients leaves a state, acknowledgements and a timer of their types.
LEMMA NotifyType ==
  ASSUME NEW event \in PmEvent, NEW audience, NotifyClients(event, audience)
  PROVE  /\ mState' \in PmEvent
         /\ mAckExpected' \in AckTable
         /\ mAckTimer' \in TimerPurpose \cup {"off"}
BY DEF NotifyClients, TimerStart, AckTable, TimerPurpose

LEMMA EventTypes ==
  /\ EVENT_PERIPH_GOING_OFFLINE \in PmEvent /\ EVENT_PERIPH_IS_OFFLINE \in PmEvent
  /\ EVENT_PERIPH_GOING_ONLINE \in PmEvent /\ EVENT_PERIPH_IS_ONLINE \in PmEvent
BY DEF PmEvent

\* What notifyClientAck may write, and that it writes values of their types.
LEMMA SettleType ==
  ASSUME TypeOK, NEW acks \in AckTable, Settle(acks)
  PROVE  /\ mState' \in PmEvent
         /\ mAckExpected' \in AckTable
         /\ mAckTimer' \in TimerPurpose \cup {"off"}
         /\ mRestartRequestor' \in QmiClient \cup {NULL}
         /\ indicationOwed' \subseteq QmiClient
         /\ mShutdownComplete' \in {"free", "held"}
         /\ mFileDesc' \in {-1, 1}
<1> USE NotifyType, EventTypes DEF TypeOK, AckTable, restart
<1>1. CASE StillWaiting(acks) /\ mAckExpected' = acks
           /\ UNCHANGED <<mState, mAckTimer, restart, mShutdownComplete, mFileDesc>>
  BY <1>1
<1>2. CASE PowerOn
  BY <1>2 DEF PowerOn
<1>3. CASE PowerOnFailed
  BY <1>3 DEF PowerOnFailed
<1>4. CASE OnlineSettled(acks)
  BY <1>4 DEF OnlineSettled
<1>5. CASE PowerOff
  BY <1>5 DEF PowerOff
<1>6. CASE PowerOffFailed
  BY <1>6 DEF PowerOffFailed
<1>7. CASE OfflineSettled(acks)
  BY <1>7 DEF OfflineSettled
<1> QED BY <1>1, <1>2, <1>3, <1>4, <1>5, <1>6, <1>7 DEF Settle

\* decreaseVoters keeps the types.
LEMMA UnvoteType ==
  ASSUME TypeOK, NEW c \in Client, NEW crash \in BOOLEAN, NEW audience \in SUBSET Client,
         DecreaseVoters(c, crash, audience)
  PROVE  /\ mIsVoter' \in [Client -> BOOLEAN] /\ mNumVoters' \in Nat
         /\ mLastClientCrashed' \in BOOLEAN /\ mState' \in PmEvent
         /\ mAckExpected' \in AckTable
         /\ mAckTimer' \in TimerPurpose \cup {"off"}
<1> USE DEF DecreaseVoters, TypeOK, AckTable
<1>1. mIsVoter' \in [Client -> BOOLEAN] /\ mNumVoters' \in Nat
  BY DEF UnvoteAccepted
<1>2. CASE mNumVoters # 1
  BY <1>1, <1>2
<1>3. CASE mNumVoters = 1
  <2>1. LastVote(crash, audience)
    BY <1>3
  <2>2. CASE crash
    BY <1>1, <2>1, <2>2 DEF LastVote, TimerStart, TimerPurpose
  <2>3. CASE ~crash
    BY <1>1, <2>1, <2>3, NotifyType, EventTypes DEF LastVote
  <2> QED BY <2>2, <2>3
<1> QED BY <1>2, <1>3

LEMMA TypeOKStep == ASSUME TypeOK, [Next]_vars PROVE TypeOK'
<1> USE DEF round, votes, restart, shutdown
<1>1. CASE UNCHANGED vars
  BY <1>1 DEF vars, TypeOK
<1>2. ASSUME NEW c \in Client, Registar(c) PROVE TypeOK'
  BY <1>2 DEF Registar, TypeOK
<1>4. ASSUME NEW c \in Client, NEW crash \in BOOLEAN, Leave(c, crash) PROVE TypeOK'
  <2>1. CASE DecreaseVoters(c, crash, mClients \ {c})
    BY <1>4, <2>1, UnvoteType DEF Leave, TypeOK, AckTable
  <2>2. CASE /\ mIsVoter' = [mIsVoter EXCEPT ![c] = FALSE]
             /\ mAckExpected' = [mAckExpected EXCEPT ![c] = EVENT_INVALID]
             /\ UNCHANGED <<mNumVoters, mLastClientCrashed, mState, mAckTimer>>
    BY <1>4, <2>2 DEF Leave, TypeOK
  <2> QED BY <1>4, <2>1, <2>2 DEF Leave
<1>5. ASSUME NEW c \in Client, Connect(c) PROVE TypeOK'
  <2> USE <1>5 DEF Connect, IncreaseVoters, TypeOK
  <2>1. mIsVoter' \in [Client -> BOOLEAN] /\ mNumVoters' \in Nat
    OBVIOUS
  <2>2. CASE mNumVoters = 0
    <3>1. FirstVote
      BY <2>2
    <3> QED BY <2>1, <2>2, <3>1, NotifyType, EventTypes DEF FirstVote, AckTable
  <2>3. CASE mNumVoters > 0
    BY <2>1, <2>3
  <2> QED BY <2>2, <2>3
<1>6. ASSUME NEW c \in Client, Disconnect(c) PROVE TypeOK'
  BY <1>6, UnvoteType DEF Disconnect, TypeOK, AckTable
<1>7. ASSUME NEW c \in Client, NEW event \in PmEvent, NotifyClientAck(c, event)
      PROVE  TypeOK'
  <2>1. EventReceived(c, event) \in AckTable
    BY DEF EventReceived, TypeOK, AckTable
  <2> QED BY <1>7, <2>1, SettleType DEF NotifyClientAck, TypeOK, AckTable
<1>8. ASSUME TimerExpire PROVE TypeOK'
  BY <1>8 DEF TimerExpire, TypeOK
<1>9. ASSUME NotificationAckTimeout PROVE TypeOK'
  <2>1. expired' \in Seq(TimerPurpose)
    BY <1>9 DEF NotificationAckTimeout, TypeOK
  <2>2. CASE mLastClientCrashed
    BY <1>9, <2>1, <2>2, NotifyType, EventTypes
       DEF NotificationAckTimeout, TypeOK, AckTable
  <2>3. CASE ~mLastClientCrashed
    <3>1. NoAcks \in AckTable
      BY DEF NoAcks, AckTable
    <3> QED BY <1>9, <2>1, <2>3, <3>1, SettleType
            DEF NotificationAckTimeout, TypeOK, AckTable
  <2> QED BY <2>2, <2>3
<1>10. ASSUME NEW q \in QmiClient, RestartPeripheral(q) PROVE TypeOK'
  BY <1>10, NotifyType, EventTypes DEF RestartPeripheral, TypeOK, AckTable
<1>11. ASSUME ShutdownStart PROVE TypeOK'
  BY <1>11, NotifyType, EventTypes DEF ShutdownStart, TypeOK, AckTable
<1>12. ASSUME ShutdownWait PROVE TypeOK'
  BY <1>12 DEF ShutdownWait, TypeOK
<1> QED BY <1>1, <1>2, <1>4, <1>5, <1>6, <1>7, <1>8, <1>9, <1>10, <1>11, <1>12
        DEF Next, ClientStep, TimerStep, Unregister, ClientDied

LEMMA TypeOKInit == Init => TypeOK
<1> SUFFICES ASSUME Init PROVE TypeOK
  OBVIOUS
<1>1. mAckExpected \in AckTable /\ mIsVoter \in [Client -> BOOLEAN]
  BY DEF Init, NoAcks, AckTable
<1>2. expired \in Seq(TimerPurpose)
  BY DEF Init
<1> QED BY <1>1, <1>2 DEF Init, TypeOK, AckTable, PmEvent

\* Every variable keeps its type.
THEOREM TypeCorrect == Spec => []TypeOK
BY TypeOKInit, TypeOKStep, PTL DEF Spec

-----------------------------------------------------------------------------
(* The conjuncts of IInv, each preserved by every step.                    *)

LEMMA PowerMatchesStateStep ==
  ASSUME PowerInv, [Next]_vars PROVE PowerMatchesState'
<1> USE DEF PowerInv, TypeOK, PowerMatchesState, NotifyClients,
            EVENT_PERIPH_IS_ONLINE, EVENT_PERIPH_IS_OFFLINE,
            EVENT_PERIPH_GOING_ONLINE, EVENT_PERIPH_GOING_OFFLINE
<1>1. CASE UNCHANGED vars
  BY <1>1 DEF vars, round
<1>2. ASSUME NEW acks, Settle(acks) PROVE PowerMatchesState'
  BY <1>2 DEF Settle, PowerOn, PowerOnFailed, OnlineSettled, PowerOff, PowerOffFailed,
              OfflineSettled
<1>3. ASSUME NEW c \in Client, Registar(c) PROVE PowerMatchesState'
  BY <1>3 DEF Registar, round
<1>4. ASSUME NEW c \in Client, NEW crash \in BOOLEAN, Leave(c, crash)
      PROVE  PowerMatchesState'
  BY <1>4 DEF Leave, DecreaseVoters, LastVote
<1>5. ASSUME NEW c \in Client, Connect(c) PROVE PowerMatchesState'
  BY <1>5 DEF Connect, IncreaseVoters, FirstVote, round
<1>6. ASSUME NEW c \in Client, Disconnect(c) PROVE PowerMatchesState'
  BY <1>6 DEF Disconnect, DecreaseVoters, LastVote
<1>7. ASSUME NEW c \in Client, NEW event \in PmEvent, NotifyClientAck(c, event)
      PROVE  PowerMatchesState'
  BY <1>2, <1>7 DEF NotifyClientAck
<1>8. ASSUME TimerExpire PROVE PowerMatchesState'
  BY <1>8 DEF TimerExpire
<1>9. ASSUME NotificationAckTimeout PROVE PowerMatchesState'
  BY <1>2, <1>9 DEF NotificationAckTimeout
<1>10. ASSUME NEW q \in QmiClient, RestartPeripheral(q) PROVE PowerMatchesState'
  BY <1>10 DEF RestartPeripheral
<1>11. ASSUME ShutdownStart PROVE PowerMatchesState'
  BY <1>11 DEF ShutdownStart, round
<1>12. ASSUME ShutdownWait PROVE PowerMatchesState'
  BY <1>12 DEF ShutdownWait
<1> QED BY <1>1, <1>3, <1>4, <1>5, <1>6, <1>7, <1>8, <1>9, <1>10, <1>11, <1>12
        DEF Next, ClientStep, TimerStep, Unregister, ClientDied

\* A client that is sent an event is expected to acknowledge that event.
LEMMA NotifyAcks ==
  ASSUME NEW event, NEW audience, NotifyClients(event, audience)
  PROVE  AcksForCurrentState'
BY DEF NotifyClients, AcksForCurrentState

\* Forgetting an expected acknowledgement in an unchanged state is harmless.
LEMMA FewerAcks ==
  ASSUME AcksForCurrentState, mState' = mState,
         \A c \in Client : mAckExpected'[c] \in {mAckExpected[c], EVENT_INVALID}
  PROVE  AcksForCurrentState'
BY DEF AcksForCurrentState

LEMMA AcksForCurrentStateStep ==
  ASSUME PowerInv, [Next]_vars PROVE AcksForCurrentState'
<1> USE NotifyAcks, FewerAcks DEF PowerInv, TypeOK
<1>1. CASE UNCHANGED vars
  BY <1>1 DEF vars, round
<1>2. ASSUME NEW acks, Settle(acks),
             \A c \in Client : acks[c] \in {mAckExpected[c], EVENT_INVALID}
      PROVE  AcksForCurrentState'
  BY <1>2 DEF Settle, PowerOn, PowerOnFailed, OnlineSettled, PowerOff, PowerOffFailed,
              OfflineSettled
<1>3. ASSUME NEW c \in Client, Registar(c) PROVE AcksForCurrentState'
  BY <1>3 DEF Registar, round
<1>4. ASSUME NEW c \in Client, NEW crash \in BOOLEAN, NEW audience,
             DecreaseVoters(c, crash, audience)
      PROVE  AcksForCurrentState'
  BY <1>4 DEF DecreaseVoters, LastVote
<1>5. ASSUME NEW c \in Client, NEW crash \in BOOLEAN, Leave(c, crash)
      PROVE  AcksForCurrentState'
  BY <1>4, <1>5 DEF Leave
<1>6. ASSUME NEW c \in Client, Connect(c) PROVE AcksForCurrentState'
  BY <1>6 DEF Connect, IncreaseVoters, FirstVote, round
<1>7. ASSUME NEW c \in Client, Disconnect(c) PROVE AcksForCurrentState'
  BY <1>4, <1>7 DEF Disconnect
<1>8. ASSUME NEW c \in Client, NEW event \in PmEvent, NotifyClientAck(c, event)
      PROVE  AcksForCurrentState'
  BY <1>2, <1>8 DEF NotifyClientAck, EventReceived
<1>9. ASSUME TimerExpire PROVE AcksForCurrentState'
  BY <1>9 DEF TimerExpire
<1>10. ASSUME NotificationAckTimeout PROVE AcksForCurrentState'
  BY <1>2, <1>10 DEF NotificationAckTimeout, NoAcks
<1>11. ASSUME NEW q \in QmiClient, RestartPeripheral(q) PROVE AcksForCurrentState'
  BY <1>11 DEF RestartPeripheral
<1>12. ASSUME ShutdownStart PROVE AcksForCurrentState'
  BY <1>12 DEF ShutdownStart, round
<1>13. ASSUME ShutdownWait PROVE AcksForCurrentState'
  BY <1>13 DEF ShutdownWait
<1> QED BY <1>1, <1>3, <1>5, <1>6, <1>7, <1>8, <1>9, <1>10, <1>11, <1>12, <1>13
        DEF Next, ClientStep, TimerStep, Unregister, ClientDied

\* Steps of the acknowledgement machinery leave the votes alone.
LEMMA VotersSame ==
  ASSUME VotersCounted, NoVoteLeftBehind, UNCHANGED <<mIsVoter, mNumVoters, mClients>>,
         mShutdown => mShutdown'
  PROVE  VotersCounted' /\ NoVoteLeftBehind'
BY DEF VotersCounted, NoVoteLeftBehind, Voters

LEMMA VotersFinite == ASSUME TypeOK PROVE IsFiniteSet(Voters)
<1>1. Voters \in SUBSET Client
  BY DEF Voters, TypeOK
<1> QED BY <1>1, FS_Subset, ClientAssumption

\* Until the shutdown, a client whose flag is set is counted.
LEMMA VoterCounted ==
  ASSUME TypeOK, VotersCounted, ~mShutdown, NEW c \in mClients, mIsVoter[c]
  PROVE  mNumVoters > 0
<1>1. c \in Voters
  BY DEF Voters
<1>2. Cardinality(Voters) # 0
  BY <1>1, VotersFinite, FS_EmptySet
<1> QED BY <1>2 DEF VotersCounted, TypeOK

\* A vote that decreaseVoters accepts leaves the counter and the set together.
LEMMA UnvoteCounted ==
  ASSUME TypeOK, VotersCounted, NoVoteLeftBehind, NEW c \in Client, NEW crash,
         NEW audience, DecreaseVoters(c, crash, audience), UNCHANGED mShutdown,
         mClients' = mClients \/ mClients' = mClients \ {c}
  PROVE  VotersCounted' /\ NoVoteLeftBehind'
<1> USE DEF TypeOK
<1>1. ~mShutdown /\ c \in mClients /\ mIsVoter[c] /\ mIsVoter' = [mIsVoter EXCEPT ![c] = FALSE]
      /\ mNumVoters' = mNumVoters - 1
  BY DEF DecreaseVoters, UnvoteAccepted
<1>2. Voters' = Voters \ {c} /\ c \in Voters
  BY <1>1 DEF Voters
<1>3. Cardinality(Voters') = Cardinality(Voters) - 1
  BY <1>2, VotersFinite, FS_RemoveElement
<1> QED BY <1>1, <1>3 DEF VotersCounted, NoVoteLeftBehind

LEMMA VotersCountedStep ==
  ASSUME IInv, [Next]_vars PROVE VotersCounted' /\ NoVoteLeftBehind'
<1> USE VotersSame DEF IInv, PowerInv, TypeOK, votes, shutdown
<1>1. CASE UNCHANGED vars
  BY <1>1 DEF vars
<1>2. ASSUME NEW c \in Client, Registar(c) PROVE VotersCounted' /\ NoVoteLeftBehind'
  <2>1. Voters' = Voters
    BY <1>2 DEF Registar, Voters, NoVoteLeftBehind
  <2> QED BY <1>2, <2>1 DEF Registar, VotersCounted, NoVoteLeftBehind
<1>3. ASSUME NEW c \in Client, NEW crash \in BOOLEAN, Leave(c, crash)
      PROVE  VotersCounted' /\ NoVoteLeftBehind'
  <2>1. CASE DecreaseVoters(c, crash, mClients \ {c})
    BY <1>3, <2>1, UnvoteCounted DEF Leave
  <2>2. CASE ~UnvoteAccepted(c) /\ mIsVoter' = [mIsVoter EXCEPT ![c] = FALSE]
             /\ UNCHANGED mNumVoters
    <3>1. ~mShutdown => ~mIsVoter[c]
      BY <1>3, <2>2, VoterCounted DEF Leave, UnvoteAccepted
    <3>2. ~mShutdown => Voters' = Voters
      BY <1>3, <2>2, <3>1 DEF Leave, Voters
    <3> QED BY <1>3, <2>2, <3>2 DEF Leave, VotersCounted, NoVoteLeftBehind
  <2> QED BY <1>3, <2>1, <2>2 DEF Leave
<1>4. ASSUME NEW c \in Client, Connect(c) PROVE VotersCounted' /\ NoVoteLeftBehind'
  <2>1. ~mShutdown /\ c \in mClients /\ ~mIsVoter[c] /\ mNumVoters' = mNumVoters + 1
        /\ mIsVoter' = [mIsVoter EXCEPT ![c] = TRUE] /\ UNCHANGED <<mClients, mShutdown>>
    BY <1>4 DEF Connect, IncreaseVoters, VoteAccepted
  <2>2. Voters' = Voters \cup {c} /\ c \notin Voters
    BY <2>1 DEF Voters
  <2>3. Cardinality(Voters') = Cardinality(Voters) + 1
    BY <2>2, VotersFinite, FS_AddElement
  <2> QED BY <2>1, <2>3 DEF VotersCounted, NoVoteLeftBehind
<1>5. ASSUME NEW c \in Client, Disconnect(c) PROVE VotersCounted' /\ NoVoteLeftBehind'
  BY <1>5, UnvoteCounted DEF Disconnect
<1>6. ASSUME NEW c \in Client, NEW event \in PmEvent, NotifyClientAck(c, event)
      PROVE  VotersCounted' /\ NoVoteLeftBehind'
  BY <1>6 DEF NotifyClientAck
<1>7. ASSUME TimerExpire PROVE VotersCounted' /\ NoVoteLeftBehind'
  BY <1>7 DEF TimerExpire
<1>8. ASSUME NotificationAckTimeout PROVE VotersCounted' /\ NoVoteLeftBehind'
  BY <1>8 DEF NotificationAckTimeout
<1>9. ASSUME NEW q \in QmiClient, RestartPeripheral(q)
      PROVE  VotersCounted' /\ NoVoteLeftBehind'
  BY <1>9 DEF RestartPeripheral
<1>10. ASSUME ShutdownStart PROVE VotersCounted' /\ NoVoteLeftBehind'
  BY <1>10 DEF ShutdownStart, VotersCounted, NoVoteLeftBehind
<1>11. ASSUME ShutdownWait PROVE VotersCounted' /\ NoVoteLeftBehind'
  BY <1>11 DEF ShutdownWait
<1> QED BY <1>1, <1>2, <1>3, <1>4, <1>5, <1>6, <1>7, <1>8, <1>9, <1>10, <1>11
        DEF Next, ClientStep, TimerStep, Unregister, ClientDied

\* What Settle does to the variables that decide whether power may go: it
\* leaves the peripheral going off-line only by waiting, and it forgets a
\* restart only to power up.
LEMMA SettlePower ==
  ASSUME NEW acks, Settle(acks)
  PROVE  /\ mState' = EVENT_PERIPH_GOING_OFFLINE =>
              mState = EVENT_PERIPH_GOING_OFFLINE /\ UNCHANGED mRestartRequestor
         /\ mRestartRequestor' \in {mRestartRequestor, NULL}
BY DEF Settle, PowerOn, PowerOnFailed, OnlineSettled, PowerOff, PowerOffFailed, OfflineSettled,
       NotifyClients, restart, EVENT_PERIPH_IS_ONLINE, EVENT_PERIPH_IS_OFFLINE,
       EVENT_PERIPH_GOING_ONLINE, EVENT_PERIPH_GOING_OFFLINE

LEMMA GoingOfflineStep ==
  ASSUME PowerInv, [Next]_vars PROVE CrashOnlyUnvoted' /\ GoingOfflineJustified'
<1> DEFINE G == CrashOnlyUnvoted /\ GoingOfflineJustified
<1> USE DEF PowerInv, TypeOK, CrashOnlyUnvoted, GoingOfflineJustified, votes, shutdown, restart
<1>1. CASE UNCHANGED vars
  BY <1>1 DEF vars, round
<1>2. ASSUME NEW c \in Client, Registar(c) PROVE G'
  BY <1>2 DEF Registar, round
<1>3. ASSUME NEW c \in Client, NEW crash \in BOOLEAN, NEW audience,
             DecreaseVoters(c, crash, audience), UNCHANGED <<restart, shutdown>>
      PROVE  G'
  BY <1>3 DEF DecreaseVoters, UnvoteAccepted, LastVote, NotifyClients
<1>4. ASSUME NEW c \in Client, NEW crash \in BOOLEAN, Leave(c, crash) PROVE G'
  <2>1. CASE DecreaseVoters(c, crash, mClients \ {c})
    BY <1>3, <1>4, <2>1 DEF Leave
  <2>2. CASE UNCHANGED <<mNumVoters, mLastClientCrashed, mState>>
    BY <1>4, <2>2 DEF Leave
  <2> QED BY <1>4, <2>1, <2>2 DEF Leave
<1>5. ASSUME NEW c \in Client, Connect(c) PROVE G'
  <2>1. UNCHANGED <<restart, shutdown>> /\ ~mShutdown
    BY <1>5 DEF Connect, IncreaseVoters, VoteAccepted
  <2>2. CASE mNumVoters > 0
    BY <1>5, <2>1, <2>2 DEF Connect, IncreaseVoters, round
  <2>3. CASE mNumVoters = 0
    <3>1. FirstVote
      BY <1>5, <2>3 DEF Connect, IncreaseVoters
    <3>2. ~mLastClientCrashed'
      BY <3>1 DEF FirstVote
    <3>3. CASE mLastClientCrashed
      BY <2>1, <3>1, <3>2, <3>3 DEF FirstVote
    <3>4. CASE ~mLastClientCrashed
      BY <3>1, <3>2, <3>4 DEF FirstVote, NotifyClients,
         EVENT_PERIPH_GOING_ONLINE, EVENT_PERIPH_GOING_OFFLINE
    <3> QED BY <3>3, <3>4
  <2> QED BY <2>2, <2>3
<1>6. ASSUME NEW c \in Client, Disconnect(c) PROVE G'
  BY <1>3, <1>6 DEF Disconnect
<1>7. ASSUME NEW c \in Client, NEW event \in PmEvent, NotifyClientAck(c, event) PROVE G'
  BY <1>7, SettlePower DEF NotifyClientAck
<1>8. ASSUME TimerExpire PROVE G'
  BY <1>8 DEF TimerExpire
<1>9. ASSUME NotificationAckTimeout PROVE G'
  <2>1. CASE mLastClientCrashed
    BY <1>9, <2>1 DEF NotificationAckTimeout
  <2>2. CASE ~mLastClientCrashed
    BY <1>9, <2>2, SettlePower DEF NotificationAckTimeout
  <2> QED BY <2>1, <2>2
<1>10. ASSUME NEW q \in QmiClient, RestartPeripheral(q) PROVE G'
  BY <1>10, QmiAssumption DEF RestartPeripheral, RestartAccepted
<1>11. ASSUME ShutdownStart PROVE G'
  BY <1>11 DEF ShutdownStart
<1>12. ASSUME ShutdownWait PROVE G'
  BY <1>12 DEF ShutdownWait
<1> QED BY <1>1, <1>2, <1>4, <1>5, <1>6, <1>7, <1>8, <1>9, <1>10, <1>11, <1>12
        DEF Next, ClientStep, TimerStep, Unregister, ClientDied

\* In the shutdown Settle can only bring the peripheral off-line, keeps it
\* there, and releases main only there.
LEMMA SettleShutdown ==
  ASSUME NEW acks, Settle(acks), mRestartRequestor = NULL
  PROVE  /\ mRestartRequestor' = NULL
         /\ mState = EVENT_PERIPH_IS_OFFLINE => mState' = EVENT_PERIPH_IS_OFFLINE
         /\ mShutdownComplete' = "free" =>
              mShutdownComplete = "free" \/ mState' = EVENT_PERIPH_IS_OFFLINE
BY DEF Settle, PowerOn, PowerOnFailed, OnlineSettled, PowerOff, PowerOffFailed, OfflineSettled,
       NotifyClients, restart, EVENT_PERIPH_IS_ONLINE, EVENT_PERIPH_IS_OFFLINE,
       EVENT_PERIPH_GOING_ONLINE, EVENT_PERIPH_GOING_OFFLINE

LEMMA ShutdownIsFinalStep ==
  ASSUME PowerInv, [Next]_vars PROVE ShutdownIsFinal'
<1> USE DEF PowerInv, TypeOK, ShutdownIsFinal, votes, shutdown, restart
<1>1. CASE UNCHANGED vars
  BY <1>1 DEF vars, round
<1>2. ASSUME NEW c \in Client, Registar(c) PROVE ShutdownIsFinal'
  BY <1>2 DEF Registar, round
<1>3. ASSUME NEW c \in Client, NEW crash \in BOOLEAN, NEW audience,
             DecreaseVoters(c, crash, audience), UNCHANGED <<restart, shutdown>>
      PROVE  ShutdownIsFinal'
  BY <1>3 DEF DecreaseVoters, UnvoteAccepted
<1>4. ASSUME NEW c \in Client, NEW crash \in BOOLEAN, Leave(c, crash)
      PROVE  ShutdownIsFinal'
  BY <1>3, <1>4 DEF Leave
<1>5. ASSUME NEW c \in Client, Connect(c) PROVE ShutdownIsFinal'
  BY <1>5 DEF Connect, IncreaseVoters, VoteAccepted
<1>6. ASSUME NEW c \in Client, Disconnect(c) PROVE ShutdownIsFinal'
  BY <1>3, <1>6 DEF Disconnect
<1>7. ASSUME NEW acks, Settle(acks), UNCHANGED <<mShutdown, mainThread>>,
             mainThread # "exited"
      PROVE  ShutdownIsFinal'
  BY <1>7, SettleShutdown
<1>8. ASSUME NEW c \in Client, NEW event \in PmEvent, NotifyClientAck(c, event),
             mainThread # "exited"
      PROVE  ShutdownIsFinal'
  BY <1>7, <1>8 DEF NotifyClientAck
<1>9. ASSUME TimerExpire PROVE ShutdownIsFinal'
  BY <1>9 DEF TimerExpire
<1>10. ASSUME NotificationAckTimeout, mainThread # "exited" PROVE ShutdownIsFinal'
  <2>1. CASE mLastClientCrashed
    BY <1>10, <2>1 DEF NotificationAckTimeout, CrashOnlyUnvoted
  <2>2. CASE ~mLastClientCrashed
    BY <1>7, <1>10, <2>2 DEF NotificationAckTimeout
  <2> QED BY <2>1, <2>2
<1>11. ASSUME NEW q \in QmiClient, RestartPeripheral(q) PROVE ShutdownIsFinal'
  BY <1>11 DEF RestartPeripheral, RestartAccepted
<1>12. ASSUME ShutdownStart PROVE ShutdownIsFinal'
  BY <1>12 DEF ShutdownStart, round
<1>13. ASSUME ShutdownWait PROVE ShutdownIsFinal'
  BY <1>13 DEF ShutdownWait
<1> QED BY <1>1, <1>2, <1>4, <1>5, <1>6, <1>8, <1>9, <1>10, <1>11, <1>12, <1>13
        DEF Next, ClientStep, TimerStep, Unregister, ClientDied

-----------------------------------------------------------------------------
(* The theorems.                                                           *)

LEMMA IInvInit == Init => IInv
<1> SUFFICES ASSUME Init PROVE IInv
  OBVIOUS
<1>1. Voters = {}
  BY DEF Init, Voters
<1>2. VotersCounted
  BY <1>1, FS_EmptySet DEF Init, VotersCounted
<1>3. PowerMatchesState /\ AcksForCurrentState /\ NoVoteLeftBehind /\ CrashOnlyUnvoted
      /\ GoingOfflineJustified /\ ShutdownIsFinal
  BY DEF Init, NoAcks, PowerMatchesState, AcksForCurrentState, NoVoteLeftBehind,
         CrashOnlyUnvoted, GoingOfflineJustified, ShutdownIsFinal, EVENT_PERIPH_IS_ONLINE,
         EVENT_PERIPH_IS_OFFLINE, EVENT_PERIPH_GOING_OFFLINE
<1> QED BY <1>2, <1>3, TypeOKInit DEF IInv, PowerInv

\* The part of IInv that does not depend on the list of clients.
LEMMA PowerInvStep ==
  ASSUME PowerInv, [Next]_vars PROVE PowerInv'
BY TypeOKStep, PowerMatchesStateStep, AcksForCurrentStateStep, GoingOfflineStep,
   ShutdownIsFinalStep DEF PowerInv

LEMMA IInvStep == IInv /\ [Next]_vars => IInv'
<1> SUFFICES ASSUME IInv, [Next]_vars PROVE IInv'
  OBVIOUS
<1> QED BY PowerInvStep, VotersCountedStep DEF IInv

\* The conjunction that every step preserves holds always.
THEOREM Inductive == Spec => []IInv
BY IInvInit, IInvStep, PTL DEF Spec

\* Until the shutdown the counter that decides about power is the number of
\* registered clients with a vote (increaseVoters, decreaseVoters).
THEOREM VotersAlwaysCounted == Spec => []VotersCounted
<1>1. IInv => VotersCounted
  BY DEF IInv, PowerInv
<1> QED BY <1>1, Inductive, PTL

\* The state told to clients agrees with the device node (notifyClientAck).
THEOREM PowerAlwaysMatches == Spec => []PowerMatchesState
<1>1. IInv => PowerMatchesState
  BY DEF IInv, PowerInv
<1> QED BY <1>1, Inductive, PTL

\* Nobody is waited for on account of an event that was superseded.
THEOREM AcksAlwaysCurrent == Spec => []AcksForCurrentState
<1>1. IInv => AcksForCurrentState
  BY DEF IInv, PowerInv
<1> QED BY <1>1, Inductive, PTL

\* When main returns, the peripheral is off-line and its node is closed
\* (deInitPeripherals, shutdownStart, shutdownWait).
THEOREM AlwaysExitPoweredOff == Spec => []ExitPoweredOff
<1>1. IInv => ExitPoweredOff
  BY DEF IInv, PowerInv, TypeOK, ShutdownIsFinal, PowerMatchesState, ExitPoweredOff
<1> QED BY <1>1, Inductive, PTL

\* The counter is the number of Client objects with the flag, as long as the
\* counter decides.
FlagsCount == ~mShutdown => mNumVoters = Cardinality(Flagged)
VotingInv  == PowerInv /\ FlagsCount

LEMMA FlaggedFinite == IsFiniteSet(Flagged)
<1>1. Flagged \in SUBSET Client
  BY DEF Flagged
<1> QED BY <1>1, FS_Subset, ClientAssumption

\* Here the objects with the flag are the voters in the list.
LEMMA FlagsOfVoters == ASSUME IInv PROVE Flagged = Voters /\ VotingInv
<1>1. Flagged = Voters
  BY DEF Flagged, Voters, NoVoteLeftBehind, IInv, PowerInv, TypeOK
<1> QED BY <1>1 DEF VotingInv, FlagsCount, VotersCounted, IInv

\* Only PowerOff closes the device node.
LEMMA SettleCloses ==
  ASSUME NEW acks, Settle(acks), mFileDesc = 1, mFileDesc' = -1
  PROVE  mState = EVENT_PERIPH_GOING_OFFLINE
BY DEF Settle, PowerOn, PowerOnFailed, OnlineSettled, PowerOff, PowerOffFailed, OfflineSettled

LEMMA OnlyPowerOffCloses ==
  ASSUME [Next]_vars, mFileDesc = 1, mFileDesc' = -1
  PROVE  mState = EVENT_PERIPH_GOING_OFFLINE
<1>1. ASSUME UNCHANGED mFileDesc PROVE FALSE
  BY <1>1
<1> QED BY <1>1, SettleCloses
        DEF vars, Next, ClientStep, TimerStep, Unregister, ClientDied, Registar, Leave,
            Connect, IncreaseVoters, Disconnect, NotifyClientAck, TimerExpire,
            NotificationAckTimeout, RestartPeripheral, ShutdownStart, ShutdownWait

LEMMA OffJustified ==
  ASSUME VotingInv, mState = EVENT_PERIPH_GOING_OFFLINE
  PROVE  \/ Flagged = {} /\ ~mLastClientCrashed
         \/ mRestartRequestor # NULL
         \/ mShutdown
<1>1. (mNumVoters = 0 /\ ~mLastClientCrashed) \/ mRestartRequestor # NULL \/ mShutdown
  BY DEF VotingInv, PowerInv, GoingOfflineJustified
<1>2. mNumVoters = 0 /\ ~mShutdown => Flagged = {}
  BY FlaggedFinite, FS_EmptySet DEF VotingInv, FlagsCount
<1> QED BY <1>1, <1>2

LEMMA PowerOffJustifiedStep == IInv /\ [Next]_vars => PowerOffJustified
BY OnlyPowerOffCloses, FlagsOfVoters, OffJustified DEF PowerOffJustified

\* The modem loses power only when no registered client votes for it and no
\* grace period runs, or for a restart, or in the shutdown.
THEOREM ClosedOnlyIfUnwanted == Spec => DeviceClosedOnlyIfUnwanted
<1>1. IInv /\ [Next]_vars => [PowerOffJustified]_vars
  BY PowerOffJustifiedStep
<1> QED BY <1>1, Inductive, PTL DEF Spec, DeviceClosedOnlyIfUnwanted

-----------------------------------------------------------------------------
(* Restart requests, when opening the device node cannot fail.             *)

\* Once the peripheral is off-line every accepted request was answered.
AnsweredWhenOffline ==
  mState = EVENT_PERIPH_IS_OFFLINE /\ ~mShutdown => indicationOwed = {}

RInv == RestartNotForgotten /\ AnsweredWhenOffline

LEMMA SettleRestart ==
  ASSUME RInv, "open" \notin DeviceFaults, NEW acks, Settle(acks), ~mShutdown
  PROVE  /\ indicationOwed' \subseteq {mRestartRequestor'}
         /\ mState' = EVENT_PERIPH_IS_OFFLINE => indicationOwed' = {}
<1> USE DEF RInv, RestartNotForgotten, AnsweredWhenOffline, NotifyClients, restart,
            EVENT_PERIPH_IS_ONLINE, EVENT_PERIPH_IS_OFFLINE,
            EVENT_PERIPH_GOING_ONLINE, EVENT_PERIPH_GOING_OFFLINE
<1>1. CASE UNCHANGED <<mState, restart>>
  BY <1>1
<1>2. CASE PowerOn
  BY <1>2 DEF PowerOn
<1>3. CASE PowerOnFailed
  BY <1>3 DEF PowerOnFailed
<1>4. CASE OnlineSettled(acks)
  BY <1>4 DEF OnlineSettled
<1>5. CASE PowerOff
  BY <1>5 DEF PowerOff
<1>6. CASE PowerOffFailed
  BY <1>6 DEF PowerOffFailed
<1>7. CASE OfflineSettled(acks)
  BY <1>7 DEF OfflineSettled
<1> QED BY <1>1, <1>2, <1>3, <1>4, <1>5, <1>6, <1>7 DEF Settle

LEMMA RInvStep ==
  ASSUME PowerInv, RInv, "open" \notin DeviceFaults, [Next]_vars PROVE RInv'
<1> USE DEF RInv, RestartNotForgotten, AnsweredWhenOffline, restart, shutdown,
            EVENT_PERIPH_IS_OFFLINE, EVENT_PERIPH_GOING_ONLINE, EVENT_PERIPH_GOING_OFFLINE
<1>1. CASE UNCHANGED vars
  BY <1>1 DEF vars, round
<1>2. ASSUME NEW c \in Client, Registar(c) PROVE RInv'
  BY <1>2 DEF Registar, round
<1>3. ASSUME NEW c \in Client, NEW crash, NEW audience,
             DecreaseVoters(c, crash, audience), UNCHANGED <<restart, shutdown>>
      PROVE  RInv'
  BY <1>3 DEF DecreaseVoters, LastVote, NotifyClients
<1>4. ASSUME NEW c \in Client, NEW crash \in BOOLEAN, Leave(c, crash) PROVE RInv'
  BY <1>3, <1>4 DEF Leave
<1>5. ASSUME NEW c \in Client, Connect(c) PROVE RInv'
  BY <1>5 DEF Connect, IncreaseVoters, FirstVote, NotifyClients, round
<1>6. ASSUME NEW c \in Client, Disconnect(c) PROVE RInv'
  BY <1>3, <1>6 DEF Disconnect
<1>7. ASSUME NEW c \in Client, NEW event \in PmEvent, NotifyClientAck(c, event) PROVE RInv'
  BY <1>7, SettleRestart DEF NotifyClientAck
<1>8. ASSUME TimerExpire PROVE RInv'
  BY <1>8 DEF TimerExpire
<1>9. ASSUME NotificationAckTimeout PROVE RInv'
  <2>1. CASE mLastClientCrashed
    BY <1>9, <2>1 DEF NotificationAckTimeout, NotifyClients
  <2>2. CASE ~mLastClientCrashed
    BY <1>9, <2>2, SettleRestart DEF NotificationAckTimeout
  <2> QED BY <2>1, <2>2
<1>10. ASSUME NEW q \in QmiClient, RestartPeripheral(q) PROVE RInv'
  BY <1>10, QmiAssumption DEF RestartPeripheral, RestartAccepted, NotifyClients, PowerInv,
     TypeOK
<1>11. ASSUME ShutdownStart PROVE RInv'
  BY <1>11 DEF ShutdownStart
<1>12. ASSUME ShutdownWait PROVE RInv'
  BY <1>12 DEF ShutdownWait
<1> QED BY <1>1, <1>2, <1>4, <1>5, <1>6, <1>7, <1>8, <1>9, <1>10, <1>11, <1>12
        DEF Next, ClientStep, TimerStep, Unregister, ClientDied

\* Unless opening the device node may fail, a restart that was accepted keeps
\* its requestor until the requestor was told (setRestartRequested,
\* sendRestartIndication).
THEOREM RestartNeverForgotten ==
  "open" \notin DeviceFaults => (Spec => []RestartNotForgotten)
<1> SUFFICES ASSUME "open" \notin DeviceFaults PROVE Spec => []RestartNotForgotten
  OBVIOUS
<1>1. Init => RInv
  BY DEF Init, RInv, RestartNotForgotten, AnsweredWhenOffline
<1>2. PowerInv /\ RInv /\ [Next]_vars => RInv'
  BY RInvStep
<1>3. (RInv => RestartNotForgotten) /\ (IInv => PowerInv)
  BY DEF RInv, IInv
<1> QED BY <1>1, <1>2, <1>3, Inductive, PTL DEF Spec

-----------------------------------------------------------------------------
(* The refinement of PowerVoting.                                          *)

\* The fixed correspondence between main's thread and the abstract service.
LEMMA ServiceMap ==
  ASSUME TypeOK
  PROVE  /\ ServicePhase = "running"  <=> mainThread = "serving"
         /\ ServicePhase = "stopping" <=> mainThread = "waiting"
         /\ ServicePhase = "stopped"  <=> mainThread = "exited"
BY DEF ServicePhase, TypeOK

LEMMA VotingInit == Init => PV!VotingInit
<1> SUFFICES ASSUME Init PROVE PV!VotingInit
  OBVIOUS
<1>1. UsersVoting = {}
  BY DEF Init, UsersVoting, Flagged
<1>2. ServicePhase = "running"
  BY TypeOKInit, ServiceMap DEF Init
<1>3. (mFileDesc = 1) = FALSE /\ (mRestartRequestor # NULL) = FALSE
  BY DEF Init
<1>4. mState = PV!Off
  BY DEF Init, PV!Off, EVENT_PERIPH_IS_OFFLINE
<1> QED BY <1>1, <1>2, <1>3, <1>4 DEF PV!VotingInit

VotingStep == [PV!VotingNext]_(PV!pvars)

\* Steps that keep these variables do not show in PowerVoting.
LEMMA Unseen ==
  ASSUME UNCHANGED <<mState, mFileDesc, mRestartRequestor, mainThread>>,
         UsersVoting' = UsersVoting
  PROVE  VotingStep
<1>1. ServicePhase' = ServicePhase
  BY DEF ServicePhase
<1> QED BY <1>1 DEF VotingStep, PV!pvars

\* The device node's two descriptors differ.
LEMMA Closed ==
  /\ mFileDesc = -1 => (mFileDesc = 1) = FALSE
  /\ mFileDesc' = -1 => (mFileDesc' = 1) = FALSE
<1>1. -1 # 1
  OBVIOUS
<1> QED BY <1>1

LEMMA UsersSame ==
  ASSUME UNCHANGED <<mIsVoter, mShutdown>>
  PROVE  UsersVoting' = UsersVoting
BY DEF UsersVoting, Flagged

\* Going off-line is justified in the terms of PowerVoting too.
LEMMA MaySwitchOff ==
  ASSUME VotingInv, mState = EVENT_PERIPH_GOING_OFFLINE
  PROVE  PV!MaySwitchOff
<1>1. UsersVoting = {} \/ mRestartRequestor # NULL
  BY OffJustified DEF UsersVoting
<1> QED BY <1>1 DEF PV!MaySwitchOff

\* Every outcome of notifyClientAck is a change of power that was announced.
LEMMA SettleVoting ==
  ASSUME VotingInv, NEW acks, Settle(acks), UNCHANGED <<mIsVoter, mShutdown, mainThread>>
  PROVE  VotingStep
<1>1. UsersVoting' = UsersVoting
  BY UsersSame
<1>2. ServicePhase' = ServicePhase
  BY DEF ServicePhase
<1> USE <1>1, <1>2 DEF NotifyClients, restart, VotingStep, PV!VotingNext,
        PV!On, PV!Off, PV!GoingOn, PV!GoingOff, EVENT_PERIPH_IS_ONLINE, EVENT_PERIPH_IS_OFFLINE,
        EVENT_PERIPH_GOING_ONLINE, EVENT_PERIPH_GOING_OFFLINE
<1>3. CASE UNCHANGED <<mState, restart, mFileDesc>>
  BY <1>3, Unseen
<1>4. CASE PowerOn
  <2>1. PV!SwitchOn
    BY <1>4 DEF PowerOn, PV!SwitchOn
  <2> QED BY <2>1
<1>5. CASE PowerOnFailed
  <2>1. (mFileDesc = 1) = FALSE /\ UNCHANGED <<mFileDesc, restart>>
    BY <1>5, Closed DEF PowerOnFailed
  <2>2. mState = PV!GoingOn /\ mState' = PV!Off
    BY <1>5 DEF PowerOnFailed
  <2>3. PV!SwitchOn
    BY <2>1, <2>2 DEF PV!SwitchOn
  <2> QED BY <2>3
<1>6. CASE OnlineSettled(acks)
  BY <1>6, Unseen DEF OnlineSettled
<1>7. CASE PowerOff
  <2>1. (mFileDesc' = 1) = FALSE /\ UNCHANGED mRestartRequestor
    BY <1>7, Closed DEF PowerOff
  <2>2. mState = PV!GoingOff /\ mState' = PV!Off
    BY <1>7 DEF PowerOff
  <2>3. PV!SwitchOff
    BY <1>7, <2>1, <2>2, MaySwitchOff DEF PowerOff, PV!SwitchOff
  <2> QED BY <2>3
<1>8. CASE PowerOffFailed
  <2>1. PV!SwitchOff
    BY <1>8, MaySwitchOff DEF PowerOffFailed, PV!SwitchOff
  <2> QED BY <2>1
<1>9. CASE OfflineSettled(acks)
  <2>1. CASE mRestartRequestor = NULL
    BY <1>9, <2>1, Unseen DEF OfflineSettled
  <2>2. CASE mRestartRequestor # NULL
    <3>1. PV!PowerUpAgain
      BY <1>9, <2>2 DEF OfflineSettled, PV!PowerUpAgain
    <3> QED BY <3>1
  <2> QED BY <2>1, <2>2
<1> QED BY <1>3, <1>4, <1>5, <1>6, <1>7, <1>8, <1>9 DEF Settle

\* An accepted withdrawal is a withdrawal of PowerVoting.
LEMMA WithdrawVoting ==
  ASSUME VotingInv, NEW c \in Client, NEW crash \in BOOLEAN, NEW audience,
         DecreaseVoters(c, crash, audience), UNCHANGED <<restart, shutdown, mFileDesc>>
  PROVE  PV!Withdraw(c)
<1> USE DEF VotingInv, PowerInv, TypeOK, shutdown, restart
<1>1. ~mShutdown /\ mIsVoter[c] /\ mIsVoter' = [mIsVoter EXCEPT ![c] = FALSE]
  BY DEF DecreaseVoters, UnvoteAccepted
<1>2. UsersVoting = Flagged /\ UsersVoting' = Flagged \ {c} /\ c \in Flagged
  BY <1>1 DEF UsersVoting, Flagged
<1>3. ServicePhase = "running" /\ ServicePhase' = "running"
  BY <1>1, ServiceMap DEF ShutdownIsFinal, ServicePhase
<1>4. CASE mState' = mState
  BY <1>2, <1>3, <1>4 DEF PV!Withdraw
<1>5. CASE mNumVoters = 1 /\ LastVote(crash, audience) /\ mState' # mState
  <2>1. Cardinality(Flagged \ {c}) = 0 /\ IsFiniteSet(Flagged \ {c})
    <3>1. IsFiniteSet(Flagged)
      BY FlaggedFinite
    <3>2. Cardinality(Flagged) = 1
      BY <1>1, <1>5 DEF FlagsCount
    <3>3. /\ IsFiniteSet(Flagged \ {c})
          /\ Cardinality(Flagged \ {c}) = Cardinality(Flagged) - 1
      BY <1>2, <3>1, FS_RemoveElement
    <3> QED BY <3>2, <3>3
  <2>2. Flagged \ {c} = {}
    BY <2>1, FS_EmptySet
  <2>3. mState' = PV!GoingOff
    BY <1>5 DEF LastVote, NotifyClients, PV!GoingOff, EVENT_PERIPH_GOING_OFFLINE
  <2> QED BY <1>2, <1>3, <2>2, <2>3 DEF PV!Withdraw
<1> QED BY <1>4, <1>5 DEF DecreaseVoters

LEMMA ConnectVoting ==
  ASSUME VotingInv, NEW c \in Client, Connect(c)
  PROVE  PV!Vote(c)
<1> USE DEF VotingInv, PowerInv, TypeOK, shutdown, restart
<1>1. /\ ~mShutdown /\ c \in mClients /\ ~mIsVoter[c]
      /\ mIsVoter' = [mIsVoter EXCEPT ![c] = TRUE]
      /\ UNCHANGED <<restart, shutdown, mClients, mFileDesc>>
  BY DEF Connect, IncreaseVoters, VoteAccepted
<1>2. UsersVoting = Flagged /\ UsersVoting' = Flagged \cup {c} /\ c \notin Flagged
  BY <1>1 DEF UsersVoting, Flagged
<1>3. ServicePhase = "running" /\ ServicePhase' = "running"
  BY <1>1, ServiceMap DEF ShutdownIsFinal, ServicePhase
<1>4. CASE mState' = mState
  BY <1>1, <1>2, <1>3, <1>4 DEF PV!Vote
<1>5. CASE mNumVoters = 0 /\ FirstVote /\ mState' # mState
  <2>1. Flagged = {}
    BY <1>1, <1>5, FlaggedFinite, FS_EmptySet DEF FlagsCount
  <2>2. mState' = PV!GoingOn
    BY <1>5 DEF FirstVote, NotifyClients, PV!GoingOn, EVENT_PERIPH_GOING_ONLINE
  <2> QED BY <1>1, <1>2, <1>3, <2>1, <2>2 DEF PV!Vote
<1>6. CASE mNumVoters > 0 /\ UNCHANGED round
  BY <1>4, <1>6 DEF round
<1> QED BY <1>4, <1>5, <1>6 DEF Connect, IncreaseVoters

\* The steps that take no client off the list, which are steps of the split
\* calls too.
Staying ==
  \/ UNCHANGED vars
  \/ \E c \in Client : \/ Registar(c) \/ Connect(c) \/ Disconnect(c)
                       \/ \E event \in PmEvent : NotifyClientAck(c, event)
  \/ TimerStep
  \/ \E q \in QmiClient : RestartPeripheral(q)
  \/ ShutdownStart \/ ShutdownWait

LEMMA StayingVoting ==
  ASSUME VotingInv, Staying PROVE VotingStep
<1> USE DEF VotingInv, PowerInv, TypeOK, votes, restart, shutdown
<1>1. CASE UNCHANGED vars
  BY <1>1, Unseen, UsersSame DEF vars, round
<1>2. ASSUME NEW c \in Client, Registar(c) PROVE VotingStep
  BY <1>2, Unseen, UsersSame DEF Registar, round
<1>4. ASSUME NEW c \in Client, Connect(c) PROVE VotingStep
  BY <1>4, ConnectVoting DEF VotingStep, PV!VotingNext
<1>5. ASSUME NEW c \in Client, Disconnect(c) PROVE VotingStep
  <2>1. PV!Withdraw(c)
    BY <1>5, WithdrawVoting DEF Disconnect
  <2> QED BY <2>1 DEF VotingStep, PV!VotingNext
<1>6. ASSUME NEW c \in Client, NEW event \in PmEvent, NotifyClientAck(c, event)
      PROVE  VotingStep
  BY <1>6, SettleVoting DEF NotifyClientAck
<1>7. ASSUME TimerExpire PROVE VotingStep
  BY <1>7, Unseen, UsersSame DEF TimerExpire
<1>8. ASSUME NotificationAckTimeout PROVE VotingStep
  <2>1. CASE mLastClientCrashed
    <3>1. ~mShutdown /\ Flagged = {}
      BY <2>1, FlaggedFinite, FS_EmptySet DEF CrashOnlyUnvoted, FlagsCount
    <3>2. UsersVoting = {} /\ UsersVoting' = UsersVoting
      BY <1>8, <3>1, UsersSame DEF NotificationAckTimeout, UsersVoting
    <3>3. ServicePhase = "running" /\ ServicePhase' = ServicePhase
      BY <1>8, <3>1, ServiceMap DEF NotificationAckTimeout, ShutdownIsFinal, ServicePhase
    <3>4. PV!GiveUp
      BY <1>8, <2>1, <3>2, <3>3 DEF NotificationAckTimeout, NotifyClients, PV!GiveUp,
         PV!GoingOff, EVENT_PERIPH_GOING_OFFLINE
    <3> QED BY <3>4 DEF VotingStep, PV!VotingNext
  <2>2. CASE ~mLastClientCrashed
    BY <1>8, <2>2, SettleVoting DEF NotificationAckTimeout
  <2> QED BY <2>1, <2>2
<1>9. ASSUME NEW q \in QmiClient, RestartPeripheral(q) PROVE VotingStep
  <2>1. ~mShutdown /\ UsersVoting' = UsersVoting
    BY <1>9, UsersSame DEF RestartPeripheral, RestartAccepted
  <2>2. ServicePhase = "running" /\ ServicePhase' = ServicePhase
    BY <1>9, <2>1, ServiceMap DEF RestartPeripheral, ShutdownIsFinal, ServicePhase
  <2>3. PV!Restart
    BY <1>9, <2>1, <2>2, QmiAssumption DEF RestartPeripheral, RestartAccepted, NotifyClients,
       PV!Restart, PV!GoingOff, EVENT_PERIPH_GOING_OFFLINE
  <2> QED BY <2>3 DEF VotingStep, PV!VotingNext
<1>10. ASSUME ShutdownStart PROVE VotingStep
  <2>1. ServicePhase = "running" /\ ServicePhase' = "stopping"
    BY <1>10, ServiceMap DEF ShutdownStart, ServicePhase
  <2>2. UsersVoting' = {}
    BY <1>10 DEF ShutdownStart, UsersVoting
  <2>3. PV!Stop
    BY <1>10, <2>1, <2>2 DEF ShutdownStart, NotifyClients, round, PV!Stop, PV!GoingOff, PV!Off,
       EVENT_PERIPH_GOING_OFFLINE, EVENT_PERIPH_IS_OFFLINE
  <2> QED BY <2>3 DEF VotingStep, PV!VotingNext
<1>11. ASSUME ShutdownWait PROVE VotingStep
  <2>1. ServicePhase = "stopping" /\ ServicePhase' = "stopped"
    BY <1>11, ServiceMap DEF ShutdownWait, ServicePhase
  <2>2. UsersVoting' = UsersVoting
    BY <1>11, UsersSame DEF ShutdownWait
  <2>3. mState = EVENT_PERIPH_IS_OFFLINE
    BY <1>11 DEF ShutdownWait, ShutdownIsFinal
  <2>4. mState = PV!Off /\ (mFileDesc = 1) = FALSE
    BY <2>3, Closed DEF PowerMatchesState, PV!Off, EVENT_PERIPH_IS_OFFLINE
  <2>5. PV!Stopped
    BY <1>11, <2>1, <2>2, <2>4 DEF ShutdownWait, PV!Stopped
  <2> QED BY <2>5 DEF VotingStep, PV!VotingNext
<1> QED BY <1>1, <1>2, <1>4, <1>5, <1>6, <1>7, <1>8, <1>9, <1>10, <1>11
        DEF Staying, TimerStep

LEMMA VotingNextStep ==
  ASSUME IInv, [Next]_vars PROVE VotingStep
<1>0. VotingInv
  BY FlagsOfVoters
<1>1. ASSUME NEW c \in Client, NEW crash \in BOOLEAN, Leave(c, crash) PROVE VotingStep
  <2>1. CASE DecreaseVoters(c, crash, mClients \ {c})
    <3>1. PV!Withdraw(c)
      BY <1>0, <1>1, <2>1, WithdrawVoting DEF Leave
    <3> QED BY <3>1 DEF VotingStep, PV!VotingNext
  <2>2. CASE /\ ~UnvoteAccepted(c) /\ mIsVoter' = [mIsVoter EXCEPT ![c] = FALSE]
             /\ UNCHANGED <<mNumVoters, mState>>
    <3>1. ~mShutdown => ~mIsVoter[c]
      BY <1>1, <2>2, VoterCounted DEF Leave, UnvoteAccepted, IInv, PowerInv
    <3>2. UsersVoting' = UsersVoting
      BY <1>1, <2>2, <3>1 DEF Leave, UsersVoting, Flagged, shutdown, IInv, PowerInv, TypeOK
    <3> QED BY <1>1, <2>2, <3>2, Unseen DEF Leave, restart, shutdown
  <2> QED BY <1>1, <2>1, <2>2 DEF Leave
<1> QED BY <1>0, <1>1, StayingVoting
        DEF Staying, Next, ClientStep, Unregister, ClientDied

\* Peripheral implements PowerVoting: nothing but votes, restarts and the
\* shutdown moves the power of the modem, and always after an announcement.
THEOREM Refinement == Spec => KeepsPromise
<1>1. IInv /\ [Next]_vars => [PV!VotingNext]_(PV!pvars)
  BY VotingNextStep DEF VotingStep
<1> QED BY <1>1, VotingInit, Inductive, PTL DEF Spec, KeepsPromise, PV!VotingSpec
=============================================================================
