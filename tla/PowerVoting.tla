----------------------------- MODULE PowerVoting -----------------------------
(***************************************************************************)
(* What a peripheral promises: a modem whose power follows the votes of    *)
(* its users.  Every change of power is announced before it is made, and   *)
(* the modem is switched off only when nobody votes for it, or for a       *)
(* restart, after which it comes back by itself, or because the service    *)
(* stops.  Acknowledgements, timers, listeners and the grace period for a  *)
(* voter that died are how Peripheral keeps the promise and are not seen   *)
(* here.                                                                   *)
(***************************************************************************)
EXTENDS Naturals

CONSTANT User

VARIABLES
  phase,     \* what was announced last
  powered,   \* the modem has power
  voters,    \* users that want it powered
  restarts,  \* a restart was asked for
  service    \* "running", "stopping" or "stopped"

pvars == <<phase, powered, voters, restarts, service>>

GoingOff == "going off-line"
Off      == "is off-line"
GoingOn  == "going on-line"
On       == "is on-line"

\* The first vote announces power, unless power was not taken away yet from
\* a voter that died.
Vote(u) ==
  /\ service = "running" /\ u \notin voters
  /\ voters' = voters \cup {u}
  /\ phase' = phase \/ (voters = {} /\ phase' = GoingOn)
  /\ UNCHANGED <<powered, restarts, service>>

\* The last vote is withdrawn; power goes now, or later by GiveUp.
Withdraw(u) ==
  /\ service = "running" /\ u \in voters
  /\ voters' = voters \ {u}
  /\ phase' = phase \/ (voters' = {} /\ phase' = GoingOff)
  /\ UNCHANGED <<powered, restarts, service>>

GiveUp ==
  /\ service = "running" /\ voters = {}
  /\ phase' = GoingOff
  /\ UNCHANGED <<powered, voters, restarts, service>>

Restart ==
  /\ service = "running" /\ ~restarts
  /\ restarts' = TRUE
  /\ phase' = GoingOff
  /\ UNCHANGED <<powered, voters, service>>

SwitchOn ==
  /\ phase = GoingOn
  /\ \/ phase' = On /\ powered' = TRUE
     \/ phase' = Off /\ ~powered /\ UNCHANGED powered
  /\ UNCHANGED <<voters, restarts, service>>

MaySwitchOff == voters = {} \/ restarts \/ service = "stopping"

SwitchOff ==
  /\ phase = GoingOff /\ MaySwitchOff
  /\ \/ phase' = Off /\ powered' = FALSE
     \/ phase' = On /\ powered /\ UNCHANGED powered
  /\ UNCHANGED <<voters, restarts, service>>

PowerUpAgain ==
  /\ phase = Off /\ restarts
  /\ phase' = GoingOn
  /\ restarts' = FALSE
  /\ UNCHANGED <<powered, voters, service>>

Stop ==
  /\ service = "running"
  /\ service' = "stopping"
  /\ phase' = IF phase = Off THEN Off ELSE GoingOff
  /\ voters' = {} /\ restarts' = FALSE
  /\ UNCHANGED powered

Stopped ==
  /\ service = "stopping" /\ phase = Off /\ ~powered
  /\ service' = "stopped"
  /\ UNCHANGED <<phase, powered, voters, restarts>>

VotingInit ==
  /\ phase = Off
  /\ powered = FALSE
  /\ voters = {}
  /\ restarts = FALSE
  /\ service = "running"

VotingNext ==
  \/ \E u \in User : Vote(u) \/ Withdraw(u)
  \/ GiveUp \/ Restart \/ SwitchOn \/ SwitchOff \/ PowerUpAgain
  \/ Stop \/ Stopped

VotingSpec == VotingInit /\ [][VotingNext]_pvars
=============================================================================
