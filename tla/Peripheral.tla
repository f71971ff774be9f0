----------------------------- MODULE Peripheral -----------------------------
(***************************************************************************)
(* One Peripheral object of the peripheral manager server                  *)
(* (peripheral-manager/pm-server/Peripheral.cpp) with the Client objects   *)
(* registered for it (Client.cpp).                                         *)
(*                                                                         *)
(* A peripheral is a subsystem (a modem) that is powered while its device  *)
(* node is open.  Clients register, vote for power (connect), withdraw     *)
(* their vote (disconnect), acknowledge power events, unregister or die.   *)
(* A QMI client may ask for a restart, the main thread may shut the        *)
(* service down, and a timer bounds every wait for acknowledgements.       *)
(*                                                                         *)
(* Every method runs under mLock, so that one action is one critical       *)
(* section or one server call made of several (unregister, clientDied).    *)
(* The module PmServerCalls splits those calls into their sections.        *)
(*                                                                         *)
(* A request the code rejects changes nothing and is a stuttering step.    *)
(*                                                                         *)
(* An operator named X_<fault> is the operator X with a bug the code might *)
(* have had.  The specification does not use it; TLC is shown to refute a  *)
(* property with it in the place of X.                                     *)
(***************************************************************************)
EXTENDS Integers, FiniteSets, Sequences

CONSTANTS
  Client,           \* processes that use the client library
  CrashingClients,  \* the clients that may die without unregistering
  QmiClient,        \* QMI clients that may request a peripheral restart
  NULL,             \* no restart requestor
  OffTimeout,       \* --off, milliseconds
  AckTimeout,       \* --ack, milliseconds
  DeviceFaults,     \* the device operations that may fail (none with --debug)
  MaxTimeouts       \* bound: expiries waiting for the timer thread

ASSUME ClientAssumption ==
  /\ IsFiniteSet(Client)
  /\ CrashingClients \subseteq Client
ASSUME QmiAssumption == NULL \notin QmiClient
\* main() refuses negative timeouts and accepts zero.
ASSUME TimeoutAssumption ==
  /\ OffTimeout \in Nat /\ AckTimeout \in Nat
  /\ MaxTimeouts \in Nat \ {0}
ASSUME FaultAssumption == DeviceFaults \subseteq {"open", "close"}

VARIABLES
  mState,              \* the last event sent, which is the peripheral's state
  mClients,            \* registered clients
  mIsVoter,            \* Client::mIsVoter
  mAckExpected,        \* Client::mAckExpected
  mNumVoters,          \* the voter counter
  mLastClientCrashed,  \* the last voter died and may come back
  mRestartRequestor,   \* QMI client whose restart is in progress, or NULL
  mFileDesc,           \* device node: 1 open (powered), -1 closed
  mAckTimer,           \* "off", or what it was armed for: "round" or "grace"
  expired,             \* expiries of the timer whose handler has not run yet
  mShutdown,           \* shutdown has begun
  mShutdownComplete,   \* the mutex main waits on: "free" or "held"
  mainThread,          \* "serving", "waiting" in shutdownWait, or "exited"
  indicationOwed       \* QMI clients told "started", not yet told "serviced"

round    == <<mState, mAckExpected, mAckTimer>>
votes    == <<mIsVoter, mNumVoters, mLastClientCrashed>>
restart  == <<mRestartRequestor, indicationOwed>>
shutdown == <<mShutdown, mShutdownComplete, mainThread>>
vars     == <<round, votes, restart, shutdown, mClients, mFileDesc, expired>>

EVENT_PERIPH_GOING_OFFLINE == "going off-line"
EVENT_PERIPH_IS_OFFLINE    == "is off-line"
EVENT_PERIPH_GOING_ONLINE  == "going on-line"
EVENT_PERIPH_IS_ONLINE     == "is on-line"
EVENT_INVALID              == "no event"

PmEvent == { EVENT_PERIPH_GOING_OFFLINE, EVENT_PERIPH_IS_OFFLINE,
             EVENT_PERIPH_GOING_ONLINE, EVENT_PERIPH_IS_ONLINE }
TimerPurpose == {"round", "grace"}

NoAcks == [c \in Client |-> EVENT_INVALID]
Voters == {c \in mClients : mIsVoter[c]}

\* The Client objects with the flag, in the list or (in PmServerCalls) not.
Flagged == {c \in Client : mIsVoter[c]}

-----------------------------------------------------------------------------
(* The private helpers of the class.                                       *)

TimerStart_NeverArmed(ms, purpose) == "off"

\* timer_settime with a zero value disarms the timer: a timeout of 0 ms
\* never expires.
TimerStart(ms, purpose) == IF ms = 0 THEN "off" ELSE purpose

NotifyClients_OldAckKept(event, audience) ==
  /\ mState' = event
  /\ mAckExpected' = [c \in Client |->
       IF c \in audience /\ mAckExpected[c] = EVENT_INVALID
         THEN event ELSE mAckExpected[c]]
  /\ mAckTimer' = TimerStart(AckTimeout, "round")

\* notifyClients: the event becomes the state, every client of `audience` is
\* sent it and owes an acknowledgement, and the timer is armed afresh.
NotifyClients(event, audience) ==
  /\ mState' = event
  /\ mAckExpected' = [c \in Client |-> IF c \in audience THEN event
                                                         ELSE EVENT_INVALID]
  /\ mAckTimer' = IF event = EVENT_PERIPH_GOING_OFFLINE
                    THEN TimerStart(OffTimeout, "round")
                    ELSE TimerStart(AckTimeout, "round")

\* Client::eventReceived: an acknowledgement counts only for the event that
\* is expected, any other is ignored.
EventReceived(c, event) ==
  IF mAckExpected[c] = event
    THEN [mAckExpected EXCEPT ![c] = EVENT_INVALID]
    ELSE mAckExpected

StillWaiting(acks) ==
  /\ ~mShutdown
  /\ \E c \in mClients : acks[c] # EVENT_INVALID

-----------------------------------------------------------------------------
(* notifyClientAck: the transition taken when nobody is waited for.        *)

\* The device node is opened unless it is open already (a vote that arrives
\* while the peripheral is going off-line finds it open).
PowerOn ==
  /\ mState = EVENT_PERIPH_GOING_ONLINE
  /\ mFileDesc' = 1
  /\ NotifyClients(EVENT_PERIPH_IS_ONLINE, mClients)
  /\ UNCHANGED <<restart, mShutdownComplete>>

PowerOnFailed ==
  /\ mState = EVENT_PERIPH_GOING_ONLINE
  /\ mFileDesc = -1 /\ "open" \in DeviceFaults
  /\ NotifyClients(EVENT_PERIPH_IS_OFFLINE, mClients)
  /\ UNCHANGED <<restart, mShutdownComplete, mFileDesc>>

OnlineSettled(acks) ==
  /\ mState = EVENT_PERIPH_IS_ONLINE
  /\ mAckExpected' = acks
  /\ mAckTimer' = "off"
  /\ UNCHANGED <<mState, restart, mShutdownComplete, mFileDesc>>

\* The restart indication is sent before the device node is closed.
PowerOff ==
  /\ mState = EVENT_PERIPH_GOING_OFFLINE
  /\ indicationOwed' = indicationOwed \ {mRestartRequestor}
  /\ mFileDesc' = -1
  /\ NotifyClients(EVENT_PERIPH_IS_OFFLINE, mClients)
  /\ UNCHANGED <<mRestartRequestor, mShutdownComplete>>

PowerOffFailed_Unnoticed ==
  /\ mState = EVENT_PERIPH_GOING_OFFLINE
  /\ mFileDesc = 1 /\ "close" \in DeviceFaults
  /\ indicationOwed' = indicationOwed \ {mRestartRequestor}
  /\ NotifyClients(EVENT_PERIPH_IS_OFFLINE, mClients)
  /\ UNCHANGED <<mRestartRequestor, mShutdownComplete, mFileDesc>>

PowerOffFailed ==
  /\ mState = EVENT_PERIPH_GOING_OFFLINE
  /\ mFileDesc = 1 /\ "close" \in DeviceFaults
  /\ indicationOwed' = indicationOwed \ {mRestartRequestor}
  /\ NotifyClients(EVENT_PERIPH_IS_ONLINE, mClients)
  /\ UNCHANGED <<mRestartRequestor, mShutdownComplete, mFileDesc>>

\* A pending restart powers the peripheral up again; a shutdown is done.
OfflineSettled(acks) ==
  /\ mState = EVENT_PERIPH_IS_OFFLINE
  /\ mShutdownComplete' = IF mShutdown THEN "free" ELSE mShutdownComplete
  /\ \/ /\ mRestartRequestor # NULL
        /\ mRestartRequestor' = NULL
        /\ NotifyClients(EVENT_PERIPH_GOING_ONLINE, mClients)
     \/ /\ mRestartRequestor = NULL
        /\ mAckExpected' = acks
        /\ mAckTimer' = "off"
        /\ UNCHANGED <<mState, mRestartRequestor>>
  /\ UNCHANGED <<indicationOwed, mFileDesc>>

\* The part of notifyClientAck that follows the update of the expected
\* acknowledgements to `acks`.
Settle(acks) ==
  \/ /\ StillWaiting(acks)
     /\ mAckExpected' = acks
     /\ UNCHANGED <<mState, mAckTimer, restart, mShutdownComplete, mFileDesc>>
  \/ /\ ~StillWaiting(acks)
     /\ \/ PowerOn
        \/ PowerOnFailed
        \/ OnlineSettled(acks)
        \/ PowerOff
        \/ PowerOffFailed
        \/ OfflineSettled(acks)

\* A client acknowledges an event, in time or late.
NotifyClientAck(c, event) ==
  /\ c \in mClients
  /\ Settle(EventReceived(c, event))
  /\ UNCHANGED <<votes, mShutdown, mainThread, mClients, expired>>

\* The expiry of the timer is a call of its own: the timer thread may be
\* waiting for mLock, or be late, while the state moves on.
TimerExpire ==
  /\ mAckTimer # "off"
  /\ Len(expired) < MaxTimeouts
  /\ expired' = Append(expired, mAckTimer)
  /\ mAckTimer' = "off"
  /\ UNCHANGED <<mState, mAckExpected, votes, restart, shutdown,
                 mClients, mFileDesc>>

\* notificationAckTimeout: a voter that crashed did not come back, or the
\* clients that did not answer are waited for no longer.
NotificationAckTimeout ==
  /\ expired # <<>>
  /\ expired' = Tail(expired)
  /\ \/ /\ mLastClientCrashed
        /\ mLastClientCrashed' = FALSE
        /\ NotifyClients(EVENT_PERIPH_GOING_OFFLINE, mClients)
        /\ UNCHANGED <<restart, mShutdownComplete, mFileDesc>>
     \/ /\ ~mLastClientCrashed
        /\ Settle(NoAcks)
        /\ UNCHANGED mLastClientCrashed
  /\ UNCHANGED <<mIsVoter, mNumVoters, mShutdown, mainThread, mClients>>

-----------------------------------------------------------------------------
(* Voting.                                                                 *)

VoteAccepted_Twice(c) == c \in mClients /\ ~mShutdown
VoteAccepted_InShutdown(c) == c \in mClients /\ ~mIsVoter[c]
VoteAccepted(c) == c \in mClients /\ ~mIsVoter[c] /\ ~mShutdown

UnvoteAccepted_NotVoter(c) == c \in mClients /\ ~mShutdown /\ mNumVoters > 0
UnvoteAccepted(c) ==
  c \in mClients /\ mIsVoter[c] /\ ~mShutdown /\ mNumVoters > 0

\* The first vote powers the peripheral up.  If it replaces the vote of a
\* crashed client the peripheral is taken to be up, and the timer is stopped.
FirstVote ==
  \/ /\ ~mLastClientCrashed
     /\ NotifyClients(EVENT_PERIPH_GOING_ONLINE, mClients)
     /\ UNCHANGED mLastClientCrashed
  \/ /\ mLastClientCrashed
     /\ mLastClientCrashed' = FALSE
     /\ mAckTimer' = "off"
     /\ UNCHANGED <<mState, mAckExpected>>

IncreaseVoters(c) ==
  /\ VoteAccepted(c)
  /\ mIsVoter' = [mIsVoter EXCEPT ![c] = TRUE]
  /\ mNumVoters' = mNumVoters + 1
  /\ \/ mNumVoters = 0 /\ FirstVote
     \/ mNumVoters > 0 /\ UNCHANGED <<round, mLastClientCrashed>>
  /\ UNCHANGED <<restart, shutdown, mClients, mFileDesc, expired>>

\* The last vote powers the peripheral down, at once or, if the voter died,
\* when the grace period ends.
LastVote(crash, audience) ==
  \/ /\ crash
     /\ mLastClientCrashed' = TRUE
     /\ mAckTimer' = TimerStart(OffTimeout, "grace")
     /\ mAckExpected' = [c \in Client |-> IF c \in audience THEN mAckExpected[c]
                                                            ELSE EVENT_INVALID]
     /\ UNCHANGED mState
  \/ /\ ~crash
     /\ NotifyClients(EVENT_PERIPH_GOING_OFFLINE, audience)
     /\ UNCHANGED mLastClientCrashed

\* decreaseVoters.  `audience` is mClients, less a client that is deleted
\* before the call returns.
DecreaseVoters(c, crash, audience) ==
  /\ UnvoteAccepted(c)
  /\ mIsVoter' = [mIsVoter EXCEPT ![c] = FALSE]
  /\ mNumVoters' = mNumVoters - 1
  /\ \/ mNumVoters = 1 /\ LastVote(crash, audience)
     \/ /\ mNumVoters # 1
        /\ mAckExpected' = [x \in Client |-> IF x \in audience
                                               THEN mAckExpected[x]
                                               ELSE EVENT_INVALID]
        /\ UNCHANGED <<mState, mAckTimer, mLastClientCrashed>>

-----------------------------------------------------------------------------
(* The calls of PeripheralManagerServer.                                   *)

\* registar: a new Client object owes no acknowledgement and has no vote.
Registar(c) ==
  /\ c \notin mClients
  /\ mClients' = mClients \cup {c}
  /\ UNCHANGED <<round, votes, restart, shutdown, mFileDesc, expired>>

\* decreaseVoters, whose refusal is ignored, then removeClient and delete.
Leave(c, crash) ==
  /\ c \in mClients
  /\ mClients' = mClients \ {c}
  /\ \/ DecreaseVoters(c, crash, mClients \ {c})
     \/ /\ ~UnvoteAccepted(c)
        /\ mIsVoter' = [mIsVoter EXCEPT ![c] = FALSE]
        /\ mAckExpected' = [mAckExpected EXCEPT ![c] = EVENT_INVALID]
        /\ UNCHANGED <<mNumVoters, mLastClientCrashed, mState, mAckTimer>>
  /\ UNCHANGED <<restart, shutdown, mFileDesc, expired>>

Unregister(c) == Leave(c, FALSE)

\* binderDied: the process of the client is gone.
ClientDied(c) == c \in CrashingClients /\ Leave(c, TRUE)

Connect(c) == IncreaseVoters(c)

Disconnect(c) ==
  /\ DecreaseVoters(c, FALSE, mClients)
  /\ UNCHANGED <<restart, shutdown, mClients, mFileDesc, expired>>

RestartAccepted_Twice == ~mShutdown

\* qmiServerPeripheralRestart and setRestartRequested: one restart at a time.
RestartAccepted == ~mShutdown /\ mRestartRequestor = NULL

RestartPeripheral(q) ==
  /\ RestartAccepted
  /\ mRestartRequestor' = q
  /\ indicationOwed' = indicationOwed \cup {q}
  /\ NotifyClients(EVENT_PERIPH_GOING_OFFLINE, mClients)
  /\ UNCHANGED <<votes, shutdown, mClients, mFileDesc, expired>>

-----------------------------------------------------------------------------
(* deInitPeripherals on the main thread.                                   *)

\* Votes, a crash and a restart are forgotten; the clients' mIsVoter flags
\* are not.
ShutdownStart ==
  /\ mainThread = "serving"
  /\ mainThread' = "waiting"
  /\ mShutdown' = TRUE
  /\ mLastClientCrashed' = FALSE
  /\ mNumVoters' = 0
  /\ mRestartRequestor' = NULL
  /\ \/ /\ mState # EVENT_PERIPH_IS_OFFLINE
        /\ mShutdownComplete' = "held"
        /\ NotifyClients(EVENT_PERIPH_GOING_OFFLINE, mClients)
     \/ /\ mState = EVENT_PERIPH_IS_OFFLINE
        /\ mShutdownComplete' = "free"
        /\ UNCHANGED round
  /\ UNCHANGED <<mIsVoter, indicationOwed, mClients, mFileDesc, expired>>

ShutdownWait_NoLock ==
  /\ mainThread = "waiting"
  /\ mainThread' = "exited"
  /\ UNCHANGED <<round, votes, restart, mShutdown, mShutdownComplete,
                 mClients, mFileDesc, expired>>

\* shutdownWait and deInit; the process exits.
ShutdownWait ==
  /\ mainThread = "waiting"
  /\ mShutdownComplete = "free"
  /\ mShutdownComplete' = "held"
  /\ mainThread' = "exited"
  /\ mAckTimer' = "off"
  /\ UNCHANGED <<mState, mAckExpected, votes, restart, mShutdown,
                 mClients, mFileDesc, expired>>

-----------------------------------------------------------------------------
Init ==
  /\ mState = EVENT_PERIPH_IS_OFFLINE
  /\ mClients = {}
  /\ mIsVoter = [c \in Client |-> FALSE]
  /\ mAckExpected = NoAcks
  /\ mNumVoters = 0
  /\ mLastClientCrashed = FALSE
  /\ mRestartRequestor = NULL
  /\ mFileDesc = -1
  /\ mAckTimer = "off"
  /\ expired = <<>>
  /\ mShutdown = FALSE
  /\ mShutdownComplete = "free"
  /\ mainThread = "serving"
  /\ indicationOwed = {}

ClientStep(c) ==
  \/ Registar(c)
  \/ Unregister(c)
  \/ ClientDied(c)
  \/ Connect(c)
  \/ Disconnect(c)
  \/ \E event \in PmEvent : NotifyClientAck(c, event)

TimerStep == TimerExpire \/ NotificationAckTimeout

Next ==
  /\ mainThread # "exited"
  /\ \/ \E c \in Client : ClientStep(c)
     \/ TimerStep
     \/ \E q \in QmiClient : RestartPeripheral(q)
     \/ ShutdownStart
     \/ ShutdownWait

Spec == Init /\ [][Next]_vars

\* The timer of the kernel expires and its thread runs; main does not stop
\* before it exits.  Nothing is assumed of the clients.
Fairness ==
  /\ WF_vars(mainThread # "exited" /\ TimerExpire)
  /\ WF_vars(mainThread # "exited" /\ NotificationAckTimeout)
  /\ WF_vars(ShutdownWait)

FairSpec == Spec /\ Fairness

-----------------------------------------------------------------------------
(* Properties.                                                             *)

TypeOK ==
  /\ mState \in PmEvent
  /\ mClients \subseteq Client
  /\ mIsVoter \in [Client -> BOOLEAN]
  /\ mAckExpected \in [Client -> PmEvent \cup {EVENT_INVALID}]
  /\ mNumVoters \in Nat
  /\ mLastClientCrashed \in BOOLEAN
  /\ mRestartRequestor \in QmiClient \cup {NULL}
  /\ mFileDesc \in {-1, 1}
  /\ mAckTimer \in TimerPurpose \cup {"off"}
  /\ expired \in Seq(TimerPurpose)
  /\ mShutdown \in BOOLEAN
  /\ mShutdownComplete \in {"free", "held"}
  /\ mainThread \in {"serving", "waiting", "exited"}
  /\ indicationOwed \subseteq QmiClient

\* Until the shutdown, the counter that decides when the modem is powered is
\* the number of registered clients that hold a vote.  (increaseVoters,
\* decreaseVoters, unregister, clientDied)
VotersCounted == ~mShutdown => mNumVoters = Cardinality(Voters)

\* The state the clients were told agrees with the device node: a peripheral
\* that is on-line is powered, one that is off-line is not.
PowerMatchesState ==
  /\ mState = EVENT_PERIPH_IS_ONLINE => mFileDesc = 1
  /\ mState = EVENT_PERIPH_IS_OFFLINE => mFileDesc = -1

\* Nobody is waited for on account of an event other than the current one:
\* a client is never asked to acknowledge a state that was left.
AcksForCurrentState ==
  \A c \in Client : mAckExpected[c] \in {EVENT_INVALID, mState}

\* The device node is closed only when no registered client votes for it and
\* no crashed voter still has time to come back, or for a restart, or in the
\* shutdown, however votes, crashes, timeouts and restarts interleave.
PowerOffJustified ==
  mFileDesc = 1 /\ mFileDesc' = -1 =>
    \/ Voters = {} /\ ~mLastClientCrashed
    \/ mRestartRequestor # NULL
    \/ mShutdown
DeviceClosedOnlyIfUnwanted == [][PowerOffJustified]_vars

\* When the service exits, its peripheral is off-line and not powered.
ExitPoweredOff ==
  mainThread = "exited" =>
    mState = EVENT_PERIPH_IS_OFFLINE /\ mFileDesc = -1

\* An accepted restart request is pending until its indication was sent: no
\* other request takes its place and no other step forgets it.
RestartNotForgotten ==
  ~mShutdown => indicationOwed \subseteq {mRestartRequestor}

\* Every change of power that was announced is carried out or called off.
TransitionCompletes ==
  /\ mState = EVENT_PERIPH_GOING_ONLINE ~> mState # EVENT_PERIPH_GOING_ONLINE
  /\ mState = EVENT_PERIPH_GOING_OFFLINE ~> mState # EVENT_PERIPH_GOING_OFFLINE

\* A shutdown ends: main does not wait for ever, unless the device node cannot
\* be closed, which brings the peripheral back on-line.
ShutdownCompletes ==
  mShutdown ~> mainThread = "exited" \/ mState = EVENT_PERIPH_IS_ONLINE

\* The peripheral implements the promise of PowerVoting to its users: votes,
\* acknowledgements, crashes, timeouts, restarts and the shutdown interleave to
\* nothing else than announced and justified changes of power.
UsersVoting  == IF mShutdown THEN {} ELSE Flagged
ServicePhase == CASE mainThread = "serving" -> "running"
                  [] mainThread = "waiting" -> "stopping"
                  [] mainThread = "exited"  -> "stopped"
PV == INSTANCE PowerVoting WITH
  User     <- Client,
  phase    <- mState,
  powered  <- (mFileDesc = 1),
  voters   <- UsersVoting,
  restarts <- (mRestartRequestor # NULL),
  service  <- ServicePhase
KeepsPromise == PV!VotingSpec

(* The parts of the inductive invariant that are not properties above.     *)

\* A client that is not registered has no vote that it could come back with.
NoVoteLeftBehind == \A c \in Client \ mClients : ~mIsVoter[c]

\* A voter that died is waited for only while nobody votes.
CrashOnlyUnvoted == mLastClientCrashed => mNumVoters = 0 /\ ~mShutdown

\* Whenever the peripheral goes off-line there is a reason, and a new vote
\* takes the reason away only by turning the peripheral on-line.
GoingOfflineJustified ==
  mState = EVENT_PERIPH_GOING_OFFLINE =>
    \/ mNumVoters = 0 /\ ~mLastClientCrashed
    \/ mRestartRequestor # NULL
    \/ mShutdown

\* In the shutdown nothing is left that could power the peripheral up, and
\* main is released only when the peripheral is off-line.
ShutdownIsFinal ==
  /\ mainThread = "serving" <=> ~mShutdown
  /\ mShutdown => mRestartRequestor = NULL
  /\ mShutdown /\ (mShutdownComplete = "free" \/ mainThread = "exited")
       => mState = EVENT_PERIPH_IS_OFFLINE

\* What holds however the calls are split into critical sections, ...
PowerInv ==
  /\ TypeOK
  /\ PowerMatchesState
  /\ AcksForCurrentState
  /\ CrashOnlyUnvoted
  /\ GoingOfflineJustified
  /\ ShutdownIsFinal

\* ... and with it the invariant that every step preserves.
IInv == PowerInv /\ VotersCounted /\ NoVoteLeftBehind

(* What a header comment promises, and the code does not always keep.      *)

\* Peripheral.h, mRestartRequestor: set while "we are in a process of closing
\* and then opening the device".
RestartMeansRestarting ==
  mRestartRequestor # NULL =>
    mState \in {EVENT_PERIPH_GOING_OFFLINE, EVENT_PERIPH_IS_OFFLINE}
=============================================================================
