------------------------------ MODULE QmiClient ------------------------------
(***************************************************************************)
(* A connected client of the QMI client library (qmi-framework/qcci): the  *)
(* transactions its threads start, the transmit queue they share, the      *)
(* reader thread of the transport, and the release of the client, against  *)
(* a service that answers late, twice or not at all, and may go away.      *)
(*                                                                         *)
(* A transaction is a reference counted structure.  Its references belong  *)
(* to the list of outstanding transactions, to the transmit queue and to   *)
(* the thread that waits for a response.  Taking it out of the list        *)
(* transfers the list's reference: whoever has it tells the user.          *)
(***************************************************************************)
EXTENDS Integers, Sequences, SequencesExt, FiniteSets

CONSTANTS
  Caller,     \* threads of the application
  Opener,     \* the one that calls qmi_client_init
  Reader,     \* the thread started by xport_open
  MaxTxns,    \* bound: transactions of the client
  MaxBusy,    \* bound: times the transport is flow controlled
  MaxCalls    \* bound: calls the application makes

Txn    == 1..MaxTxns
Thread == Caller \cup {Reader}
None   == 0

ASSUME ClientAssumption ==
  /\ Opener \in Caller /\ Reader \notin Caller /\ IsFiniteSet(Caller) /\ None \notin Thread
  /\ MaxTxns \in Nat \ {0} /\ MaxBusy \in Nat /\ MaxCalls \in Nat

VARIABLES
  txn,         \* the structures: [kind, ref, rc, signal, rxBuf]
  nextTxn,     \* next_txn_id
  txnList,     \* txn_list, as a set: it is searched by id or by pointer
  txQ,         \* tx_q
  txQLock,     \* owner of tx_q_lock while it transmits, or None
  refs,        \* priv.ref_count
  linked,      \* the client is in qcci_client_tbl
  accepting,   \* accepting_txns
  valid,       \* server_addr_valid
  handle,      \* xport->handle is not NULL
  errCb,       \* an error callback is registered
  errPending,  \* info.client.err_pending
  wakeup,      \* 'd' was written to the reader's pipe
  xport,       \* the sockets: "open" or "closed"
  serverUp,    \* the service exists
  received,    \* requests that reached the service: a response may come
  busyLeft,    \* flow control that may still happen
  busy,        \* the service's port is congested: a Resume_Tx will come
  pc,          \* where each thread is
  ret,         \* where it returns from flush_tx_q and cleanup_client_lists
  cur,         \* the transaction an API call works on
  seek,        \* the transaction flush_tx_q is about to send, or could not
  hand,        \* transactions whose list reference the thread took over
  callsLeft,   \* calls the application may still make
  ready,       \* qmi_client_init has returned the handle to the user
  handles,     \* asynchronous transactions the user may delete
  told,        \* what the user was told of each transaction
  errTold,     \* calls of the error callback
  misused      \* transactions touched after they were freed

lists   == <<txnList, txQ, txQLock>>
client  == <<refs, linked, accepting, valid, handle>>
errors  == <<errCb, errPending, errTold>>
network == <<serverUp, received, busyLeft, busy, wakeup, xport>>
user    == <<callsLeft, ready, handles, told, misused>>
locals  == <<ret, cur, seek, hand>>
vars    == <<txn, nextTxn, lists, client, errors, network, user, locals, pc>>

Goto(t, l) == pc' = [pc EXCEPT ![t] = l]
At(t, l)   == pc[t] = l

IsSync(x)  == txn[x].kind = "sync"
Freed(x)   == x < nextTxn /\ txn[x].ref = 0
Touch(x)   == misused' = IF Freed(x) THEN misused \cup {x} ELSE misused

Inc(x) == txn' = [txn EXCEPT ![x].ref = @ + 1]
\* QMI_CCI_DEC_TXN frees the structure at zero and ignores a count of zero.
Less(n, k) == IF n > k THEN n - k ELSE 0
Dec(x) == txn' = [txn EXCEPT ![x].ref = Less(@, 1)]

Tell(x, what) == told' = [told EXCEPT ![x] = Append(@, what)]

-----------------------------------------------------------------------------
(* References to the client *)

GetRef(t, label) ==
  /\ linked /\ refs' = refs + 1
  /\ Goto(t, label)

\* A call of the user begins with qmi_cci_get_ref, and fails without it.
Call(t, label) ==
  /\ At(t, "idle") /\ ready
  /\ callsLeft > 0 /\ callsLeft' = callsLeft - 1
  /\ GetRef(t, label)

\* Every call ends with qmi_cci_put_ref.  The last reference frees the client
\* and calls the release callback.
PutRef(t) ==
  /\ refs' = refs - 1
  /\ cur' = [cur EXCEPT ![t] = None]
  /\ ret' = [ret EXCEPT ![t] = "idle"]
  /\ Goto(t, "idle")

unchangedByEnd == <<nextTxn, linked, accepting, valid, handle, seek, hand>>

-----------------------------------------------------------------------------
(* Sending *)

\* qmi_client_send_*: take a reference to the client.
BeginSend(t) ==
  /\ Call(t, "enter")
  /\ UNCHANGED <<txn, nextTxn, lists, linked, accepting, valid, handle, errors,
                 network, locals,
                 ready, handles, told, misused>>

CheckXport(t) ==
  /\ At(t, "enter")
  /\ IF handle THEN Goto(t, "checked") /\ UNCHANGED <<refs, cur, ret>>
               ELSE PutRef(t)
  /\ UNCHANGED <<unchangedByEnd, txn, lists, errors, network, user>>

\* qmi_client_get_txn: only the list has a reference so far.
GetTxn(t) ==
  /\ At(t, "checked")
  /\ \/ /\ nextTxn \in Txn
        /\ nextTxn' = nextTxn + 1
        /\ txnList' = txnList \cup {nextTxn}
        /\ cur' = [cur EXCEPT ![t] = nextTxn]
        /\ \E kind \in {"sync", "async"} :
             /\ txn' = [txn EXCEPT ![nextTxn] =
                  [kind |-> kind, ref |-> 1, rc |-> "none", signal |-> FALSE, rxBuf |-> TRUE]]
             /\ Goto(t, IF kind = "sync" THEN "created" ELSE "prepare")
             /\ ret' = [ret EXCEPT ![t] = IF kind = "sync" THEN "wait" ELSE "return"]
        /\ UNCHANGED refs
     \/ /\ PutRef(t)                            \* out of memory
        /\ UNCHANGED <<txn, nextTxn, txnList>>
  /\ UNCHANGED <<txQ, txQLock, linked, accepting, valid, handle, errors, network, user,
                 seek, hand>>

\* A synchronous call takes a reference of its own ...
TakeRef_Skipped(t) ==
  /\ At(t, "created")
  /\ Touch(cur[t])
  /\ Goto(t, "prepare")
  /\ UNCHANGED <<txn, nextTxn, lists, client, errors, network, locals,
                 callsLeft, ready, handles, told>>

TakeRef(t) ==
  /\ At(t, "created")
  /\ Touch(cur[t]) /\ Inc(cur[t])
  /\ Goto(t, "prepare")
  /\ UNCHANGED <<nextTxn, lists, client, errors, network, locals,
                 callsLeft, ready, handles, told>>

\* ... and forgets what happened to the transaction until here.  The header
\* is encoded with the id of the transaction; encoding may fail, and so does
\* qmi_cci_send when the service is gone.
Prepare(t) ==
  /\ At(t, "prepare")
  /\ Touch(cur[t])
  /\ txn' = IF IsSync(cur[t])
            THEN [txn EXCEPT ![cur[t]].signal = FALSE, ![cur[t]].rc = "timeout"] ELSE txn
  /\ \/ Goto(t, "unsent")
     \/ valid /\ Goto(t, "queueRef")
  /\ UNCHANGED <<nextTxn, lists, client, errors, network, locals,
                 callsLeft, ready, handles, told>>

QueueRef(t) ==
  /\ At(t, "queueRef")
  /\ Touch(cur[t]) /\ Inc(cur[t])
  /\ Goto(t, "enqueue")
  /\ UNCHANGED <<nextTxn, lists, client, errors, network, locals,
                 callsLeft, ready, handles, told>>

Enqueue(t) ==
  /\ At(t, "enqueue") /\ txQLock = None
  /\ IF accepting
     THEN /\ txQ' = Append(txQ, cur[t])
          /\ Goto(t, "flush")
          /\ UNCHANGED txn
     ELSE /\ Dec(cur[t])
          /\ Goto(t, "unsent")
          /\ UNCHANGED txQ
  /\ UNCHANGED <<nextTxn, txnList, txQLock, client, errors, network, user, locals>>

-----------------------------------------------------------------------------
(* qmi_cci_flush_tx_q and cleanup_client_lists *)

FlushAddr(t) ==
  /\ At(t, "flush")
  /\ Goto(t, IF valid THEN "lock" ELSE "detachTx")
  /\ UNCHANGED <<txn, nextTxn, lists, client, errors, network, user, locals>>

\* The reference of the queue is dropped when the lock has been released.
Dequeue(x) ==
  /\ \E i \in DOMAIN txQ : txQ[i] = x /\ txQ' = RemoveAt(txQ, i)
  /\ Dec(x)

FlushHead_Unlocked(t) ==
  /\ At(t, "lock") /\ txQLock = None
  /\ \/ /\ txQ = <<>> /\ Goto(t, ret[t])
        /\ UNCHANGED <<txn, txQ, txQLock, seek>>
     \/ /\ txQ # <<>>
        /\ seek' = [seek EXCEPT ![t] = Head(txQ)]
        /\ IF accepting /\ handle
           THEN Goto(t, "transmit") /\ UNCHANGED <<txn, txQ, txQLock>>
           ELSE Dequeue(Head(txQ)) /\ Goto(t, "notSent") /\ UNCHANGED txQLock
  /\ UNCHANGED <<nextTxn, txnList, client, errors, network, user, ret, cur, hand>>

FlushHead(t) ==
  /\ At(t, "lock") /\ txQLock = None
  /\ \/ /\ txQ = <<>> /\ Goto(t, ret[t])
        /\ UNCHANGED <<txn, txQ, txQLock, seek>>
     \/ /\ txQ # <<>>
        /\ seek' = [seek EXCEPT ![t] = Head(txQ)]
        /\ IF accepting /\ handle
           THEN txQLock' = t /\ Goto(t, "transmit") /\ UNCHANGED <<txn, txQ>>
           ELSE Dequeue(Head(txQ)) /\ Goto(t, "notSent") /\ UNCHANGED txQLock
  /\ UNCHANGED <<nextTxn, txnList, client, errors, network, user, ret, cur, hand>>

\* xport_send, with tx_q_lock held: accepted, flow controlled, or refused.  A
\* message to a port that has gone is lost.
Transmit(t) ==
  LET x == seek[t] IN
  /\ At(t, "transmit")
  /\ txQLock' = None
  /\ \/ /\ Dequeue(x)
        /\ received' = IF serverUp THEN received \cup {x} ELSE received
        /\ seek' = [seek EXCEPT ![t] = None]
        /\ Goto(t, "lock")
        /\ UNCHANGED <<busy, busyLeft>>
     \/ /\ serverUp /\ busyLeft > 0
        /\ busy' = TRUE /\ busyLeft' = busyLeft - 1
        /\ seek' = [seek EXCEPT ![t] = None]
        /\ Goto(t, ret[t])
        /\ UNCHANGED <<txn, txQ, received>>
     \/ /\ Dequeue(x)
        /\ Goto(t, "notSent")
        /\ UNCHANGED <<seek, received, busy, busyLeft>>
  /\ UNCHANGED <<nextTxn, txnList, client, errors, user, ret, cur, hand,
                 serverUp, wakeup, xport>>

\* handle_txn_error
Failed_Silent(r, rxBuf) ==
  [r EXCEPT !.rc = "failed", !.rxBuf = rxBuf, !.ref = Less(@, 1)]

Failed(r, rxBuf) ==
  [r EXCEPT !.rc = "failed", !.signal = @ \/ r.kind = "sync", !.rxBuf = rxBuf,
            !.ref = Less(@, 1)]
TellFailed(x) == IF IsSync(x) THEN UNCHANGED told ELSE Tell(x, "failed")

\* The transaction may be concluded, and freed, by now: it is looked up.
FailUnsent(t) ==
  LET x == seek[t] IN
  /\ At(t, "notSent")
  /\ IF x \in txnList
     THEN /\ txnList' = txnList \ {x}
          /\ txn' = [txn EXCEPT ![x] = Failed(@, txn[x].rxBuf)]
          /\ TellFailed(x)
     ELSE UNCHANGED <<txnList, txn, told>>
  /\ seek' = [seek EXCEPT ![t] = None]
  /\ Goto(t, "lock")
  /\ UNCHANGED <<nextTxn, txQ, txQLock, client, errors, network, callsLeft, ready,
                 handles, misused, ret, cur, hand>>

\* cleanup_client_lists: first the queue and its references, then the list.
DetachQueue_KeepsRefs(t) ==
  /\ At(t, "detachTx") /\ txQLock = None
  /\ txQ' = <<>>
  /\ Goto(t, "detachList")
  /\ UNCHANGED <<txn, nextTxn, txnList, txQLock, client, errors, network, user, locals>>

DetachQueue(t) ==
  /\ At(t, "detachTx") /\ txQLock = None
  /\ txn' = [x \in Txn |-> IF x \in ToSet(txQ)
                           THEN [txn[x] EXCEPT !.ref = Less(@, 1)] ELSE txn[x]]
  /\ txQ' = <<>>
  /\ Goto(t, "detachList")
  /\ UNCHANGED <<nextTxn, txnList, txQLock, client, errors, network, user, locals>>

DetachList(t) ==
  /\ At(t, "detachList")
  /\ hand' = [hand EXCEPT ![t] = txnList]
  /\ txnList' = {}
  /\ Goto(t, IF txnList = {} THEN ret[t] ELSE "failAll")
  /\ UNCHANGED <<txn, nextTxn, txQ, txQLock, client, errors, network, user, ret, cur, seek>>

FailNext(t) ==
  /\ At(t, "failAll")
  /\ \E x \in hand[t] :
       /\ txn' = [txn EXCEPT ![x] = Failed(@, FALSE)]
       /\ TellFailed(x)
       /\ hand' = [hand EXCEPT ![t] = @ \ {x}]
       /\ Goto(t, IF hand[t] = {x} THEN ret[t] ELSE "failAll")
  /\ UNCHANGED <<nextTxn, lists, client, errors, network, callsLeft, ready, handles,
                 misused, ret, cur, seek>>

-----------------------------------------------------------------------------
(* The end of a call that sent *)

\* qmi_cci_response_wait_loop
WaitResponse(t) ==
  LET x == cur[t] IN
  /\ At(t, "wait") /\ txn[x].signal
  /\ txn' = [txn EXCEPT ![x].signal = FALSE]
  /\ IF txn[x].rc = "timeout" THEN UNCHANGED <<pc, told>>
     ELSE /\ Tell(x, IF txn[x].rc = "ok" THEN "answered" ELSE "failed")
          /\ Goto(t, "invalidate")
  /\ UNCHANGED <<nextTxn, lists, client, errors, network, locals,
                 callsLeft, ready, handles, misused>>

WaitTimedOut(t) ==
  /\ At(t, "wait")
  /\ txn' = [txn EXCEPT ![cur[t]].signal = FALSE]
  /\ Tell(cur[t], "timedout")
  /\ Goto(t, "invalidate")
  /\ UNCHANGED <<nextTxn, lists, client, errors, network, locals,
                 callsLeft, ready, handles, misused>>

\* A request that was not sent: the synchronous call fails; the
\* asynchronous one fails only if its callback has not been told already.
UnsentSync(t) ==
  /\ At(t, "unsent") /\ IsSync(cur[t])
  /\ Tell(cur[t], "failed")
  /\ Goto(t, "invalidate")
  /\ UNCHANGED <<txn, nextTxn, lists, client, errors, network, locals,
                 callsLeft, ready, handles, misused>>

UnsentAsync_ToldAgain(t) ==
  LET x == cur[t] IN
  /\ At(t, "unsent") /\ ~IsSync(x)
  /\ IF x \in txnList
     THEN txnList' = txnList \ {x} /\ Dec(x)
     ELSE UNCHANGED <<txn, txnList>>
  /\ Tell(x, "failed")
  /\ cur' = [cur EXCEPT ![t] = None]
  /\ Goto(t, "return")
  /\ UNCHANGED <<nextTxn, txQ, txQLock, client, errors, network, ret, seek, hand,
                 callsLeft, ready, handles, misused>>

UnsentAsync(t) ==
  LET x == cur[t] IN
  /\ At(t, "unsent") /\ ~IsSync(x)
  /\ IF x \in txnList
     THEN txnList' = txnList \ {x} /\ Dec(x) /\ Tell(x, "failed")
     ELSE UNCHANGED <<txn, txnList, told>>
  /\ cur' = [cur EXCEPT ![t] = None]
  /\ Goto(t, "return")
  /\ UNCHANGED <<nextTxn, txQ, txQLock, client, errors, network, ret, seek, hand,
                 callsLeft, ready, handles, misused>>

\* An asynchronous call that sent returns the handle of its transaction.
Return(t) ==
  /\ At(t, "return")
  /\ handles' = handles \cup ({cur[t]} \ {None})
  /\ PutRef(t)
  /\ UNCHANGED <<unchangedByEnd, txn, lists, errors, network,
                 callsLeft, ready, told, misused>>

\* INVALIDATE_TXN_RX_BUF_SAFE: the buffer goes back to the user.
Invalidate_Kept(t) ==
  /\ At(t, "invalidate")
  /\ Touch(cur[t])
  /\ Goto(t, "finish")
  /\ UNCHANGED <<txn, nextTxn, lists, client, errors, network, locals,
                 callsLeft, ready, handles, told>>

Invalidate(t) ==
  /\ At(t, "invalidate")
  /\ Touch(cur[t])
  /\ txn' = [txn EXCEPT ![cur[t]].rxBuf = FALSE]
  /\ Goto(t, "finish")
  /\ UNCHANGED <<nextTxn, lists, client, errors, network, locals,
                 callsLeft, ready, handles, told>>

\* remove_txn and the reference of the call
FinishSync(t) ==
  LET x == cur[t] IN
  /\ At(t, "finish")
  /\ txn' = [txn EXCEPT ![x].ref = Less(@, IF x \in txnList THEN 2 ELSE 1)]
  /\ txnList' = txnList \ {x}
  /\ PutRef(t)
  /\ UNCHANGED <<unchangedByEnd, txQ, txQLock, errors, network, user>>

-----------------------------------------------------------------------------
(* The other calls *)

\* qmi_client_delete_async_txn
BeginDelete(t) ==
  /\ \E x \in handles :
       /\ handles' = handles \ {x}
       /\ cur' = [cur EXCEPT ![t] = x]
  /\ Call(t, "delQueue")
  /\ UNCHANGED <<txn, nextTxn, lists, linked, accepting, valid, handle, errors, network,
                 ready, told, misused, ret, seek, hand>>

DeleteFromQueue(t) ==
  LET x == cur[t] IN
  /\ At(t, "delQueue") /\ txQLock = None
  /\ IF x \in ToSet(txQ)
     THEN Dequeue(x)
     ELSE UNCHANGED <<txQ, txn>>
  /\ Goto(t, "delList")
  /\ UNCHANGED <<nextTxn, txnList, txQLock, client, errors, network, user, locals>>

\* A transaction that is no longer listed was told, or is about to be.
DeleteFromList(t) ==
  LET x == cur[t] IN
  /\ At(t, "delList")
  /\ IF x \in txnList
     THEN /\ txnList' = txnList \ {x}
          /\ txn' = [txn EXCEPT ![x].rxBuf = FALSE, ![x].ref = Less(@, 1)]
          /\ Tell(x, "deleted")
     ELSE UNCHANGED <<txnList, txn, told>>
  /\ cur' = [cur EXCEPT ![t] = None]
  /\ Goto(t, "return")
  /\ UNCHANGED <<nextTxn, txQ, txQLock, client, errors, network, ret, seek, hand,
                 callsLeft, ready, handles, misused>>

\* qmi_client_register_error_cb
BeginRegister(t) ==
  /\ ~errCb /\ \A u \in Caller : ~At(u, "register")     \* bound: once
  /\ Call(t, "register")
  /\ UNCHANGED <<txn, nextTxn, lists, linked, accepting, valid, handle, errors,
                 network, locals, ready, handles, told, misused>>

Register(t) ==
  /\ At(t, "register")
  /\ errCb' = TRUE
  /\ IF errPending THEN Goto(t, "tellNow") /\ UNCHANGED <<refs, cur, ret>>
                   ELSE PutRef(t)
  /\ UNCHANGED <<unchangedByEnd, txn, lists, errPending, errTold, network, user>>

TellNow(t) ==
  /\ At(t, "tellNow")
  /\ errTold' = errTold + 1
  /\ PutRef(t)
  /\ UNCHANGED <<unchangedByEnd, txn, lists, errCb, errPending, network, user>>

\* qmi_client_release looks at the client, and has no reference to it when
\* qmi_client_release_async takes it out of the table.
BeginRelease(t) ==
  /\ At(t, "idle") /\ ready /\ linked
  /\ callsLeft > 0 /\ callsLeft' = callsLeft - 1
  /\ Goto(t, "unlink")
  /\ UNCHANGED <<txn, nextTxn, lists, client, errors, network, locals,
                 ready, handles, told, misused>>

Unlink(t) ==
  /\ At(t, "unlink")
  /\ IF linked THEN refs' = refs + 1 /\ Goto(t, "stop")
               ELSE Goto(t, "idle") /\ UNCHANGED refs
  /\ linked' = FALSE
  /\ UNCHANGED <<txn, nextTxn, lists, accepting, valid, handle, errors,
                 network, user, locals>>

StopAccepting(t) ==
  /\ At(t, "stop") /\ txQLock = None
  /\ accepting' = FALSE
  /\ ret' = [ret EXCEPT ![t] = "close"]
  /\ Goto(t, "detachTx")
  /\ UNCHANGED <<txn, nextTxn, lists, refs, linked, valid, handle, errors,
                 network, user, cur, seek, hand>>

\* xport_close tells the reader to end and joins it; closing the sockets
\* drops what is on its way.
Close_Unwoken(t) ==
  /\ At(t, "close")
  /\ handle' = FALSE
  /\ Goto(t, "join")
  /\ UNCHANGED <<txn, nextTxn, lists, refs, linked, accepting, valid, errors, user, locals,
                 serverUp, received, busyLeft, busy, wakeup, xport>>

Close(t) ==
  /\ At(t, "close")
  /\ handle' = FALSE /\ wakeup' = TRUE
  /\ Goto(t, "join")
  /\ UNCHANGED <<txn, nextTxn, lists, refs, linked, accepting, valid, errors, user, locals,
                 serverUp, received, busyLeft, busy, xport>>

\* qmi_cci_xport_closed and the call drop a reference each.
Joined(t, label) ==
  /\ pc[Reader] = "exit"
  /\ xport' = "closed" /\ received' = {} /\ busy' = FALSE
  /\ refs' = refs - 2
  /\ ret' = [ret EXCEPT ![t] = "idle"]
  /\ Goto(t, label)
  /\ UNCHANGED <<txn, nextTxn, lists, linked, accepting, valid, handle, errors, user,
                 cur, seek, hand, serverUp, busyLeft, wakeup>>

\* qmi_client_release waits for the callback of the last reference.
Join(t)     == At(t, "join") /\ Joined(t, "await")
JoinInit(t) == At(t, "joinInit") /\ Joined(t, "idle")

Released(t) ==
  /\ At(t, "await") /\ refs = 0
  /\ Goto(t, "idle")
  /\ UNCHANGED <<txn, nextTxn, lists, client, errors, network, user, locals>>

\* qmi_client_init, from the point where the reader runs: the service is
\* looked up again, since it may have gone before the control port was bound.
Lookup(t) ==
  /\ At(t, "lookup")
  /\ \/ /\ serverUp /\ ready' = TRUE
        /\ PutRef(t)
        /\ UNCHANGED wakeup
     \/ /\ wakeup' = TRUE
        /\ Goto(t, "joinInit")
        /\ UNCHANGED <<ready, refs, cur, ret>>
  /\ UNCHANGED <<unchangedByEnd, txn, lists, errors, callsLeft, handles, told, misused,
                 serverUp, received, busyLeft, busy, xport>>

-----------------------------------------------------------------------------
(* The reader thread *)

\* qmi_cci_xport_recv: whoever takes the transaction out of the list owns it.
Receive ==
  /\ At(Reader, "poll")
  /\ \E x \in received :
       /\ received' = received \ {x}
       /\ IF x \in txnList
          THEN /\ txnList' = txnList \ {x}
               /\ hand' = [hand EXCEPT ![Reader] = {x}]
               /\ Goto(Reader, "deliver")
          ELSE UNCHANGED <<txnList, hand, pc>>
  /\ UNCHANGED <<txn, nextTxn, txQ, txQLock, client, errors, user, ret, cur, seek,
                 serverUp, busyLeft, busy, wakeup, xport>>

\* Under txn->lock: nothing is written once the buffer was taken back.
Answered(r) ==
  [r EXCEPT !.rc = "ok", !.signal = @ \/ r.kind = "sync", !.ref = Less(@, 1)]
Deliver(x) ==
  IF txn[x].rxBuf
  THEN /\ txn' = [txn EXCEPT ![x] = Answered(@)]
       /\ IF IsSync(x) THEN UNCHANGED told ELSE Tell(x, "answered")
  ELSE Dec(x) /\ UNCHANGED told

\* The message id matches, or something went wrong and the user gets an error.
Delivered ==
  /\ At(Reader, "deliver")
  /\ \E x \in hand[Reader] :
       /\ \/ Deliver(x)
          \/ txn' = [txn EXCEPT ![x] = Failed(@, txn[x].rxBuf)] /\ TellFailed(x)
       /\ hand' = [hand EXCEPT ![Reader] = @ \ {x}]
  /\ Goto(Reader, "poll")
  /\ UNCHANGED <<nextTxn, lists, client, errors, network, callsLeft, ready, handles,
                 misused, ret, cur, seek>>

ResumeTx_Unflushed ==
  /\ At(Reader, "poll") /\ busy
  /\ busy' = FALSE
  /\ UNCHANGED <<txn, nextTxn, lists, client, errors, user, locals, pc,
                 serverUp, received, busyLeft, wakeup, xport>>

ResumeTx ==
  /\ At(Reader, "poll") /\ busy
  /\ busy' = FALSE
  /\ ret' = [ret EXCEPT ![Reader] = "poll"]
  /\ Goto(Reader, "flush")
  /\ UNCHANGED <<txn, nextTxn, lists, client, errors, user, cur, seek, hand,
                 serverUp, received, busyLeft, wakeup, xport>>

\* qmi_cci_xport_event_server_error for the service of the client, whose
\* address is cleared.
ServerGone ==
  /\ At(Reader, "poll") /\ ~serverUp /\ valid
  /\ valid' = FALSE
  /\ ret' = [ret EXCEPT ![Reader] = "notify"]
  /\ Goto(Reader, "detachTx")
  /\ UNCHANGED <<txn, nextTxn, lists, refs, linked, accepting, handle, errors, network,
                 user, cur, seek, hand>>

Notify_Forgets ==
  /\ At(Reader, "notify")
  /\ Goto(Reader, IF errCb THEN "tellError" ELSE "poll")
  /\ UNCHANGED <<txn, nextTxn, lists, client, errors, network, user, locals>>

Notify ==
  /\ At(Reader, "notify")
  /\ errPending' = (errPending \/ ~errCb)
  /\ Goto(Reader, IF errCb THEN "tellError" ELSE "poll")
  /\ UNCHANGED <<txn, nextTxn, lists, client, errCb, errTold, network, user, locals>>

TellError ==
  /\ At(Reader, "tellError")
  /\ errTold' = errTold + 1
  /\ Goto(Reader, "poll")
  /\ UNCHANGED <<txn, nextTxn, lists, client, errCb, errPending, network, user, locals>>

ReaderExit ==
  /\ At(Reader, "poll") /\ wakeup
  /\ Goto(Reader, "exit")
  /\ UNCHANGED <<txn, nextTxn, lists, client, errors, network, user, locals>>

\* The reader also leaves its loop when it has no memory for a message or when
\* recvfrom fails, for the control port, which hears of every service, too.  The
\* sockets stay open, and nobody tells the client.
ReaderBreaks ==
  /\ At(Reader, "poll")
  /\ Goto(Reader, "exit")
  /\ UNCHANGED <<txn, nextTxn, lists, client, errors, network, user, locals>>

-----------------------------------------------------------------------------
(* The service goes away.  Its responses and Resume_Tx may be on their way. *)

Vanish ==
  /\ serverUp /\ xport = "open"
  /\ serverUp' = FALSE
  /\ UNCHANGED <<txn, nextTxn, lists, client, errors, user, locals, pc,
                 received, busyLeft, busy, wakeup, xport>>

-----------------------------------------------------------------------------
Flush(t) == FlushAddr(t) \/ FlushHead(t) \/ Transmit(t) \/ FailUnsent(t)

Cleanup(t) == DetachQueue(t) \/ DetachList(t) \/ FailNext(t)

Begin(t) == BeginSend(t) \/ BeginDelete(t) \/ BeginRegister(t) \/ BeginRelease(t)

\* What a thread does once it is in the library, its timeout apart.
CallerStep(t) ==
  \/ CheckXport(t) \/ GetTxn(t) \/ TakeRef(t) \/ Prepare(t)
  \/ QueueRef(t) \/ Enqueue(t) \/ Flush(t) \/ Cleanup(t)
  \/ WaitResponse(t) \/ UnsentSync(t) \/ UnsentAsync(t) \/ Return(t)
  \/ Invalidate(t) \/ FinishSync(t)
  \/ DeleteFromQueue(t) \/ DeleteFromList(t) \/ Register(t) \/ TellNow(t)
  \/ Unlink(t) \/ StopAccepting(t) \/ Close(t) \/ Join(t) \/ Released(t)
  \/ Lookup(t) \/ JoinInit(t)

ReaderStep ==
  \/ Delivered \/ ServerGone \/ Notify \/ TellError
  \/ ReaderExit \/ Flush(Reader) \/ Cleanup(Reader)

\* Opener is in qmi_client_init, which has called xport_open: it has the
\* reference of qmi_cci_client_alloc, the transport has the other.
ClientInit ==
  /\ txn = [x \in Txn |->
       [kind |-> "none", ref |-> 0, rc |-> "none", signal |-> FALSE, rxBuf |-> FALSE]]
  /\ nextTxn = 1 /\ txnList = {} /\ txQ = <<>> /\ txQLock = None
  /\ refs = 2 /\ linked = TRUE /\ accepting = TRUE /\ valid = TRUE /\ handle = TRUE
  /\ errCb = FALSE /\ errPending = FALSE /\ errTold = 0
  /\ serverUp = TRUE /\ received = {}
  /\ busyLeft = MaxBusy /\ busy = FALSE
  /\ wakeup = FALSE /\ xport = "open"
  /\ pc = [t \in Thread |-> IF t = Reader THEN "poll"
                            ELSE IF t = Opener THEN "lookup" ELSE "idle"]
  /\ ret = [t \in Thread |-> "idle"] /\ cur = [t \in Thread |-> None]
  /\ seek = [t \in Thread |-> None] /\ hand = [t \in Thread |-> {}]
  /\ callsLeft = MaxCalls /\ ready = FALSE /\ handles = {} /\ told = [x \in Txn |-> <<>>]
  /\ misused = {}

ClientNext ==
  \/ \E t \in Caller : Begin(t) \/ CallerStep(t) \/ WaitTimedOut(t)
  \/ ReaderStep \/ Receive \/ ResumeTx \/ ReaderBreaks
  \/ Vanish

ClientSpec == ClientInit /\ [][ClientNext]_vars

\* Some thread that can go on does.  The service answers and its port recovers
\* from congestion as long as it is there.  No timeout, no call of the user, no
\* loss of the service and no failure of the reader is promised.
Progress ==
  \/ \E t \in Caller : CallerStep(t)
  \/ ReaderStep
  \/ serverUp /\ (Receive \/ ResumeTx)

FairClientSpec == ClientSpec /\ WF_vars(Progress)

-----------------------------------------------------------------------------
(* Properties *)

Count(p) == IF p THEN 1 ELSE 0

\* A thread that waits for a response has a reference of its own from
\* TakeRef on; the reference of the queue is taken before the queue has it.
Waits(t, x)  == cur[t] = x /\ IsSync(x) /\ ~At(t, "created")
Queues(t, x) == cur[t] = x /\ At(t, "enqueue")

TxnRefs(x) ==
  Count(x \in txnList \/ \E t \in Thread : x \in hand[t])
  + Count(x \in ToSet(txQ) \/ \E t \in Caller : Queues(t, x))
  + Count(\E t \in Caller : Waits(t, x))

\* Reference counts neither leak nor run short: every transaction that was
\* not misused has exactly the references of the list (or of whoever took it
\* from there), of the queue and of the waiting call (QMI_CCI_INC_TXN,
\* QMI_CCI_DEC_TXN), and the client those of the calls inside the library and
\* of the open transport (qmi_cci_get_ref, qmi_cci_put_ref).
RefsMatch ==
  /\ \A x \in 1..nextTxn - 1 : x \notin misused => txn[x].ref = TxnRefs(x)
  /\ refs = Cardinality({t \in Caller : pc[t] \notin {"idle", "unlink", "await"}})
            + Count(xport = "open")

\* While the service is there and the client is not being released no freed
\* transaction is touched, whatever timeouts, late or double flow
\* control and deletions do: only cleanup_client_lists can take a transaction
\* from under the thread that has just created it.
NoUseAfterFree == misused # {} => ~valid \/ ~accepting

\* Nothing is sent on a transport that has been closed: release clears
\* accepting_txns under tx_q_lock, which is held over every send.
NoSendOnClosed == \A t \in Thread : At(t, "transmit") => xport = "open"

\* No lost wake-up: the transaction of a call that waits for its response is
\* signalled, or is where the reader or a cleanup will find it.
WaiterIsOwedSignal ==
  \A t \in Caller : At(t, "wait") =>
    \/ txn[cur[t]].signal
    \/ cur[t] \in txnList
    \/ \E u \in Thread : cur[t] \in hand[u]

\* The loss of the service is reported once to a user that registers once,
\* whether it comes before, during or after qmi_client_register_error_cb:
\* when the reader has been through it, the callback was called, or a thread
\* is about to call it.
LossSeen == ~valid /\ ~(ret[Reader] = "notify"
                        /\ pc[Reader] \in {"detachTx", "detachList", "failAll", "notify"})
LossTold ==
  errTold + Count(At(Reader, "tellError")) + Count(\E t \in Caller : At(t, "tellNow"))
    = Count(errCb /\ LossSeen)

\* A response buffer is written only while the user lends it: until the
\* synchronous call is over, and until the callback or the deletion of an
\* asynchronous transaction (INVALIDATE_TXN_RX_BUF_SAFE, qmi_cci_xport_recv).
BufferOnlyWhileLent ==
  [][\A x \in Txn : txn[x].rc # "ok" /\ txn'[x].rc = "ok" =>
       IF IsSync(x) THEN \E t \in Caller : cur[t] = x ELSE told[x] = <<>>]_vars

\* The promise of the library: every request is concluded exactly once, and
\* nothing is left or still to come when the release is reported.
Status(x) ==
  IF x >= nextTxn THEN "unused"
  ELSE IF told[x] = <<>> THEN "open"
  ELSE IF Len(told[x]) = 1 THEN told[x][1] ELSE "told twice"

Promise == INSTANCE QmiTransaction WITH
  status <- [x \in Txn |-> Status(x)],
  life   <- IF refs = 0 THEN "released" ELSE "open"

ConcludedOnce == Promise!TransactionSpec

\* The reader ended on its own and the client was not released since: nobody
\* reads a response, a Resume_Tx or the loss of the service.
Deaf == At(Reader, "exit") /\ linked /\ ~wakeup

\* Every request that was accepted is concluded, without help of a timeout.  If
\* the reader was lost, then when the client is released: the cleanup of
\* qmi_client_release_async concludes what the reader no longer can.
\* The bounds make the requests end, so that "all" is as strong as "each".
Concluded ==
  (\E x \in Txn : Status(x) = "open") ~> (Deaf \/ \A x \in Txn : Status(x) # "open")

\* Every call returns, qmi_client_release and calls without a timeout too; if
\* the reader was lost only calls that wait for their response stay, and the
\* release, which joins the reader and awaits the last of these calls, ends
\* them and returns.
CallsReturn ==
  (\E t \in Caller : ~At(t, "idle"))
    ~> (\A t \in Caller : At(t, "idle") \/ (Deaf /\ At(t, "wait")))

=============================================================================
