--------------------------- MODULE QmiTransaction ---------------------------
(***************************************************************************)
(* What the QMI client library promises its user: a request that was       *)
(* accepted is concluded exactly once, by a response, an error, a timeout  *)
(* or its deletion, and when the release of the client is reported every   *)
(* request has been concluded and none will be any more.                   *)
(***************************************************************************)
CONSTANT Txn

VARIABLES
  status,   \* "unused", "open", or how the request was concluded
  life      \* of the client: "open", then "released"

tvars == <<status, life>>

Conclusion == {"answered", "failed", "timedout", "deleted"}

Start(x) ==
  /\ life = "open" /\ status[x] = "unused"
  /\ status' = [status EXCEPT ![x] = "open"]
  /\ UNCHANGED life

Conclude(x) ==
  /\ life = "open" /\ status[x] = "open"
  /\ \E c \in Conclusion : status' = [status EXCEPT ![x] = c]
  /\ UNCHANGED life

Release ==
  /\ life = "open" /\ \A x \in Txn : status[x] # "open"
  /\ life' = "released"
  /\ UNCHANGED status

TransactionInit == status = [x \in Txn |-> "unused"] /\ life = "open"

TransactionNext == Release \/ \E x \in Txn : Start(x) \/ Conclude(x)

TransactionSpec == TransactionInit /\ [][TransactionNext]_tvars
=============================================================================
