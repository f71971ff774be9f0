--------------------------- MODULE PmServiceProofs ---------------------------
(***************************************************************************)
(* Proofs about PmService, for any number of processes that ask the        *)
(* service to stop, any number of voters and of signals.                   *)
(***************************************************************************)
EXTENDS PmService, TLAPS

\* Before the thread is created there is none, and main gets past the join
\* only after it ended.
QmiFollowsMain ==
  /\ main \in {"start", "create thread"} => qmi = "none"
  /\ QmiStopsFirst

\* A requester that is in the call has its mutex locked as long as the
\* service lives, because only the end of the service unlocks it.
LockedUntilExit ==
  /\ requester \in [Requester -> {"idle", "lock", "call", "wait", "returned", "failed"}]
  /\ quitLocked \in [Requester -> BOOLEAN]
  /\ \A r \in Requester : requester[r] \in {"call", "wait"} => quitLocked[r] \/ Ended
  /\ ReturnsAfterExit

-----------------------------------------------------------------------------
\* A signal ends the process or moves main within its loop.
LEMMA SignalMoves ==
  ASSUME NEW handledBy \in {"dump", "quit"}, Signal(handledBy)
  PROVE  /\ ~Ended
         /\ main' \in {main, handledBy, "killed"}
         /\ main' = handledBy => main \in {"sigwait", handledBy}
BY DEF Signal, Ended

\* A process that ended does not come back.
LEMMA EndedStable ==
  ASSUME [ServiceNext]_svars, Ended
  PROVE  Ended'
<1>1. CASE MainStep
  BY <1>1 DEF MainStep, Main, Ended, AddService, CreateThread, BlockSignals,
     StartThreadPool, SigWait, Dump, WriteQuit, Join, DeInitStart, DeInitWait
<1>2. CASE SigUsr1
  BY <1>2, SignalMoves DEF SigUsr1
<1>3. CASE QmiStep
  BY <1>3 DEF QmiStep, Qmi, Ended, QmiRegisters, QmiRegisterFails, QmiRetries,
     QmiQuits, QmiEvent, QmiHandles
<1>4. CASE ModemSteps
  BY <1>4 DEF ModemSteps, process, Ended
<1>5. ASSUME NEW r \in Requester, RequesterStep(r)
      PROVE  Ended'
  <2>1. CASE CallShutdown(r)
    BY <2>1, SignalMoves DEF CallShutdown, Ended
  <2>2. CASE LinkToDeath(r) \/ LockQuit(r) \/ WaitQuit(r) \/ ServerQuit(r)
    BY <2>2 DEF LinkToDeath, LockQuit, WaitQuit, ServerQuit, process, Ended
  <2> QED BY <1>5, <2>1, <2>2 DEF RequesterStep
<1>6. CASE UNCHANGED svars
  BY <1>6 DEF svars, process, Ended
<1> QED BY <1>1, <1>2, <1>3, <1>4, <1>5, <1>6 DEF ServiceNext

-----------------------------------------------------------------------------
\* One step keeps the QMI thread behind main.
LEMMA QmiFollowsStep ==
  ASSUME QmiFollowsMain, [ServiceNext]_svars
  PROVE  QmiFollowsMain'
<1> USE DEF QmiFollowsMain, QmiStopsFirst, QmiThreadLives
<1>1. CASE MainStep
  <2>1. CASE AddService \/ CreateThread
    BY <2>1 DEF AddService, CreateThread, Main
  <2>2. CASE Join
    BY <2>2 DEF Join, Joinable, Main
  <2>3. CASE BlockSignals \/ StartThreadPool \/ SigWait \/ Dump \/ WriteQuit
    BY <2>3 DEF BlockSignals, StartThreadPool, SigWait, Dump, WriteQuit, AfterQuit, Main
  <2>4. CASE DeInitStart \/ DeInitWait
    BY <2>4 DEF DeInitStart, DeInitWait, Main
  <2> QED BY <1>1, <2>1, <2>2, <2>3, <2>4 DEF MainStep
<1>2. CASE SigUsr1
  <2>1. Signal("dump") /\ qmi' = qmi
    BY <1>2 DEF SigUsr1
  <2>2. main' \in {main, "dump", "killed"}
    BY <2>1, SignalMoves
  <2> QED BY <2>1, <2>2
<1>3. CASE QmiStep
  BY <1>3 DEF QmiStep, Qmi, QmiRegisters, QmiRegisterFails, QmiRetries, QmiQuits,
     QmiEvent, QmiHandles
<1>4. CASE ModemSteps
  BY <1>4 DEF ModemSteps, process
<1>5. ASSUME NEW r \in Requester, RequesterStep(r)
      PROVE  QmiFollowsMain'
  <2>1. CASE CallShutdown(r)
    <3>1. qmi' = qmi
      BY <2>1 DEF CallShutdown
    <3>2. main' \in {main, "quit", "killed"}
      BY <2>1, SignalMoves DEF CallShutdown
    <3> QED BY <3>1, <3>2
  <2>2. CASE LinkToDeath(r) \/ LockQuit(r) \/ WaitQuit(r) \/ ServerQuit(r)
    BY <2>2 DEF LinkToDeath, LockQuit, WaitQuit, ServerQuit, process
  <2> QED BY <1>5, <2>1, <2>2 DEF RequesterStep
<1>6. CASE UNCHANGED svars
  BY <1>6 DEF svars, process
<1> QED BY <1>1, <1>2, <1>3, <1>4, <1>5, <1>6 DEF ServiceNext

\* Once main takes the peripherals down (deInitPeripherals), the QMI thread
\* has ended, so that no QMI request finds a peripheral half shut down.
THEOREM QmiAlwaysStopsFirst == ServiceSpec => []QmiStopsFirst
<1>1. ServiceInit => QmiFollowsMain
  BY DEF ServiceInit, QmiFollowsMain, QmiStopsFirst, QmiThreadLives
<1>2. QmiFollowsMain /\ [ServiceNext]_svars => QmiFollowsMain'
  BY QmiFollowsStep
<1>3. QmiFollowsMain => QmiStopsFirst
  BY DEF QmiFollowsMain
<1> QED BY <1>1, <1>2, <1>3, PTL DEF ServiceSpec

-----------------------------------------------------------------------------
\* One step of anybody keeps the callers of pm_service_shutdown locked.
LEMMA LockedStep ==
  ASSUME LockedUntilExit, [ServiceNext]_svars
  PROVE  LockedUntilExit'
<1> USE DEF LockedUntilExit, ReturnsAfterExit
<1>1. Ended => Ended'
  BY EndedStable
<1>2. ASSUME UNCHANGED waiters
      PROVE  LockedUntilExit'
  BY <1>1, <1>2 DEF waiters
<1>3. CASE MainStep
  BY <1>2, <1>3 DEF MainStep, AddService, CreateThread, BlockSignals, StartThreadPool,
     SigWait, Dump, WriteQuit, Join, DeInitStart, DeInitWait
<1>4. CASE SigUsr1 \/ ModemSteps
  BY <1>2, <1>4 DEF SigUsr1, ModemSteps
<1>5. CASE QmiStep
  BY <1>2, <1>5 DEF QmiStep, Qmi, QmiRegisters, QmiRegisterFails, QmiRetries, QmiQuits,
     QmiEvent, QmiHandles
<1>6. ASSUME NEW r \in Requester, RequesterStep(r)
      PROVE  LockedUntilExit'
  <2>1. CASE LinkToDeath(r)
    BY <1>1, <2>1 DEF LinkToDeath, At
  <2>2. CASE LockQuit(r)
    BY <1>1, <2>2 DEF LockQuit, LockTaken, At
  <2>3. CASE CallShutdown(r)
    BY <1>1, <2>3 DEF CallShutdown, At
  <2>4. CASE WaitQuit(r)
    BY <1>1, <2>4 DEF WaitQuit, At
  <2>5. CASE ServerQuit(r)
    BY <1>1, <2>5 DEF ServerQuit
  <2> QED BY <1>6, <2>1, <2>2, <2>3, <2>4, <2>5 DEF RequesterStep
<1>7. CASE UNCHANGED svars
  BY <1>2, <1>7 DEF svars
<1> QED BY <1>3, <1>4, <1>5, <1>6, <1>7 DEF ServiceNext

\* pm_service_shutdown returns only when the service process is gone, whoever
\* else asks for the same and however the process ends.
THEOREM AlwaysReturnsAfterExit == ServiceSpec => []ReturnsAfterExit
<1>1. ServiceInit => LockedUntilExit
  BY DEF ServiceInit, LockedUntilExit, ReturnsAfterExit
<1>2. LockedUntilExit /\ [ServiceNext]_svars => LockedUntilExit'
  BY LockedStep
<1>3. LockedUntilExit => ReturnsAfterExit
  BY DEF LockedUntilExit
<1> QED BY <1>1, <1>2, <1>3, PTL DEF ServiceSpec
=============================================================================
