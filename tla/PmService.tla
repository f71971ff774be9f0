------------------------------ MODULE PmService ------------------------------
(***************************************************************************)
(* The process pm-service: its main thread, the QMI thread, the signals    *)
(* that stop it, and the processes that ask it to stop and wait until it   *)
(* is gone (pm_service_shutdown of the client library).                    *)
(*                                                                         *)
(* The modem is the one of PowerVoting, which module Peripheral implements;*)
(* its steps are run by binder threads, timers and the QMI thread.         *)
(*                                                                         *)
(* A signal for the process is taken by main if main waits for signals.    *)
(* Otherwise the kernel gives it to a thread that does not block it: the   *)
(* QMI thread was created before main blocked the signals and blocks none, *)
(* and as no handler is installed the process is killed.                   *)
(***************************************************************************)
EXTENDS PowerVoting

CONSTANTS
  Requester,   \* processes that call pm_service_shutdown
  MaxDumps,    \* bound: SIGUSR1 sent by an operator
  QmiComesUp   \* the QMI framework eventually accepts the registration

ASSUME ServiceAssumption == MaxDumps \in Nat /\ QmiComesUp \in BOOLEAN

VARIABLES
  main,        \* what the main thread does next, or how the process ended
  qmi,         \* what the QMI thread does
  quitPipe,    \* messages main wrote into qmiPipe
  dumps,       \* SIGUSR1 sent so far
  requester,   \* where each caller of pm_service_shutdown is
  quitLocked,  \* its mutex quitComplete is locked
  linked       \* its death notification is armed

process == <<main, qmi, quitPipe>>
waiters == <<requester, quitLocked, linked>>
svars   == <<pvars, process, dumps, waiters>>

Ended == main \in {"exited", "killed"}

\* The service manager knows the service; if it refused it, main leaves
\* without a QMI thread.
Published == main # "start" /\ ~(main \in {"stop", "wait"} /\ qmi = "none") /\ ~Ended
PoolRuns  == Published /\ main \notin {"create thread", "block signals", "start pool"}

Main(from, to) == main = from /\ main' = to

-----------------------------------------------------------------------------
(* main.                                                                   *)

\* If the service manager refuses the service, main goes to its exit.
AddService ==
  /\ Main("start", "create thread") \/ Main("start", "stop")
  /\ UNCHANGED <<pvars, qmi, quitPipe, dumps, waiters>>

CreateThread ==
  /\ Main("create thread", "block signals")
  /\ qmi' = "register"
  /\ UNCHANGED <<pvars, quitPipe, dumps, waiters>>

BlockSignals ==
  /\ Main("block signals", "start pool")
  /\ UNCHANGED <<pvars, qmi, quitPipe, dumps, waiters>>

StartThreadPool ==
  /\ Main("start pool", "loop")
  /\ UNCHANGED <<pvars, qmi, quitPipe, dumps, waiters>>

SigWait ==
  /\ Main("loop", "sigwait")
  /\ UNCHANGED <<pvars, qmi, quitPipe, dumps, waiters>>

Dump ==
  /\ Main("dump", "loop")
  /\ UNCHANGED <<pvars, qmi, quitPipe, dumps, waiters>>

AfterQuit == "join"

WriteQuit ==
  /\ Main("quit", AfterQuit)
  /\ quitPipe' = quitPipe + 1
  /\ UNCHANGED <<pvars, qmi, dumps, waiters>>

Joinable_Always == TRUE
Joinable == qmi = "exited"

Join ==
  /\ Main("join", "stop") /\ Joinable
  /\ UNCHANGED <<pvars, qmi, quitPipe, dumps, waiters>>

\* deInitPeripherals: shutdownStart, then shutdownWait.
DeInitStart ==
  /\ Main("stop", "wait")
  /\ Stop
  /\ UNCHANGED <<qmi, quitPipe, dumps, waiters>>

DeInitWait ==
  /\ Main("wait", "exited")
  /\ Stopped
  /\ UNCHANGED <<qmi, quitPipe, dumps, waiters>>

-----------------------------------------------------------------------------
(* Signals.                                                                *)

\* Some thread takes signals and has no handler for them: the QMI thread, or
\* main before it blocks them.
QmiThreadLives == qmi \notin {"none", "exited"}
SignalKills    == QmiThreadLives \/ qmi = "none"

\* A killed process loses its device node: the kernel cuts the power.
Signal(handledBy) ==
  \/ /\ main = "sigwait"
     /\ main' = handledBy
     /\ UNCHANGED pvars
  \/ /\ main # "sigwait" /\ ~Ended /\ SignalKills
     /\ main' = "killed"
     /\ powered' = FALSE
     /\ UNCHANGED <<phase, voters, restarts, service>>
  \/ /\ main # "sigwait" /\ ~Ended /\ ~SignalKills
     /\ UNCHANGED <<main, pvars>>

SigUsr1 ==
  /\ dumps < MaxDumps
  /\ dumps' = dumps + 1
  /\ Signal("dump")
  /\ UNCHANGED <<qmi, quitPipe, waiters>>

-----------------------------------------------------------------------------
(* qmiServerThread.                                                        *)

Qmi(from, to) ==
  /\ ~Ended
  /\ qmi = from /\ qmi' = to
  /\ UNCHANGED <<main, quitPipe, dumps, waiters>>

QmiRegisters     == Qmi("register", "serve") /\ UNCHANGED pvars
QmiRegisterFails == Qmi("register", "retry") /\ UNCHANGED pvars

\* The set of descriptors ends before quitFd, so that select only times out.
QmiRetries == Qmi("retry", "register") /\ UNCHANGED pvars

QuitSeen_Never == FALSE
QuitSeen == quitPipe > 0

QmiQuits   == Qmi("serve", "exited") /\ QuitSeen /\ UNCHANGED pvars
QmiEvent   == Qmi("serve", "handle") /\ ~QuitSeen /\ UNCHANGED pvars
QmiHandles == Qmi("handle", "serve") /\ (Restart \/ UNCHANGED pvars)

-----------------------------------------------------------------------------
(* The peripheral, run by binder threads and timers.                       *)

ModemSteps ==
  /\ PoolRuns
  /\ \/ \E u \in User : Vote(u) \/ Withdraw(u)
     \/ GiveUp \/ SwitchOn \/ SwitchOff \/ PowerUpAgain
  /\ UNCHANGED <<process, dumps, waiters>>

-----------------------------------------------------------------------------
(* pm_service_shutdown in another process.                                 *)

At(r, from, to) == requester[r] = from /\ requester' = [requester EXCEPT ![r] = to]

\* getService and linkToDeath; without a service the call fails.
LinkToDeath(r) ==
  /\ \/ Published /\ At(r, "idle", "lock") /\ linked' = [linked EXCEPT ![r] = TRUE]
     \/ ~Published /\ At(r, "idle", "failed") /\ UNCHANGED linked
  /\ UNCHANGED <<pvars, process, dumps, quitLocked>>

LockTaken_Forgotten == FALSE
LockTaken == TRUE

LockQuit(r) ==
  /\ At(r, "lock", "call") /\ ~quitLocked[r]
  /\ quitLocked' = [quitLocked EXCEPT ![r] = LockTaken]
  /\ UNCHANGED <<pvars, process, dumps, linked>>

\* The handler sends SIGINT to its own process.  A service that is gone
\* answers OK as well: the proxy reads 0 from the empty reply.
CallShutdown(r) ==
  /\ At(r, "call", "wait")
  /\ \/ PoolRuns /\ Signal("quit")
     \/ Ended /\ UNCHANGED <<main, pvars>>
  /\ UNCHANGED <<qmi, quitPipe, dumps, quitLocked, linked>>

WaitQuit(r) ==
  /\ At(r, "wait", "returned") /\ ~quitLocked[r]
  /\ quitLocked' = [quitLocked EXCEPT ![r] = TRUE]
  /\ UNCHANGED <<pvars, process, dumps, linked>>

\* ServerQuitNotifier unlocks the mutex, locked or not.
ServerQuit(r) ==
  /\ Ended /\ linked[r]
  /\ linked' = [linked EXCEPT ![r] = FALSE]
  /\ quitLocked' = [quitLocked EXCEPT ![r] = FALSE]
  /\ UNCHANGED <<pvars, process, dumps, requester>>

-----------------------------------------------------------------------------
ServiceInit ==
  /\ VotingInit
  /\ main = "start" /\ qmi = "none" /\ quitPipe = 0 /\ dumps = 0
  /\ requester = [r \in Requester |-> "idle"]
  /\ quitLocked = [r \in Requester |-> FALSE]
  /\ linked = [r \in Requester |-> FALSE]

MainStep ==
  \/ AddService \/ CreateThread \/ BlockSignals \/ StartThreadPool
  \/ SigWait \/ Dump \/ WriteQuit \/ Join \/ DeInitStart \/ DeInitWait

QmiStep ==
  \/ QmiRegisters \/ QmiRegisterFails \/ QmiRetries
  \/ QmiQuits \/ QmiEvent \/ QmiHandles

RequesterStep(r) ==
  LinkToDeath(r) \/ LockQuit(r) \/ CallShutdown(r) \/ WaitQuit(r) \/ ServerQuit(r)

ServiceNext ==
  \/ MainStep \/ SigUsr1 \/ QmiStep \/ ModemSteps
  \/ \E r \in Requester : RequesterStep(r)

ServiceSpec == ServiceInit /\ [][ServiceNext]_svars

\* Threads run; a power-down that was announced is carried out or fails.
ServiceFairness ==
  /\ WF_svars(MainStep)
  /\ WF_svars(QmiStep)
  /\ SF_svars(QmiComesUp /\ QmiRegisters)
  /\ WF_svars(PoolRuns /\ (SwitchOn \/ SwitchOff) /\ ModemSteps)
  /\ \A r \in Requester : WF_svars(requester[r] # "idle" /\ RequesterStep(r))

FairServiceSpec == ServiceSpec /\ ServiceFairness

-----------------------------------------------------------------------------
(* Properties.                                                             *)

\* No QMI request is handled once main takes the peripherals down.
QmiStopsFirst == main \in {"stop", "wait", "exited"} => ~QmiThreadLives

\* pm_service_shutdown: "This call wll block and wait untill serivice exit".
ReturnsAfterExit == \A r \in Requester : requester[r] = "returned" => Ended

\* A request that reached the service returns, unless the modem refuses to
\* be powered down.
CloseFailed == service = "stopping" /\ phase = On
RequestReturns ==
  \A r \in Requester :
    requester[r] = "wait" /\ ~Ended ~> requester[r] = "returned" \/ CloseFailed
=============================================================================
