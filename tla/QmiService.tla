------------------------------ MODULE QmiService ------------------------------
(***************************************************************************)
(* A service that uses the QMI service library (qmi-framework/qcsi) over   *)
(* the IPC router: the thread that handles events, the threads that answer *)
(* requests and send indications, the lists of clients and transactions    *)
(* with their locks, and the transmit queues of flow controlled clients.   *)
(*                                                                         *)
(* A transmit queue knows where its messages go by a pointer: to the       *)
(* address in the client's structure, or, when an error response was the   *)
(* first to be queued, to the variable of xport_handle_event that holds    *)
(* the sender of the event being handled.  stray records that a queue kept *)
(* a pointer longer than what it points to; from then on the code reads    *)
(* what it should not, and the model follows one course of it.             *)
(***************************************************************************)
EXTENDS Integers, Sequences, SequencesExt, FiniteSets

CONSTANTS
  Addr,           \* ports of clients
  Nobody,         \* no client's port, no thread, no request
  Handler,        \* the thread that calls qmi_csi_handle_event
  Worker,         \* threads of the service that answer and indicate
  QueueSize,      \* rate_limited_queue_size
  TxnAllocFails,  \* qmi_csi_xport_recv may fail to allocate a transaction
  MaxReqs,        \* bound: requests of all clients
  MaxSends,       \* bound: answers and indications the service sends
  MaxFull         \* bound: times a port becomes congested

ASSUME ServiceAssumption ==
  /\ Handler \notin Worker /\ Nobody \notin Addr \cup Worker \cup {Handler} \cup Nat
  /\ QueueSize \in Nat \ {0}
  /\ TxnAllocFails \in BOOLEAN
  /\ MaxReqs \in Nat /\ MaxSends \in Nat /\ MaxFull \in Nat

Req    == 1..MaxReqs
Thread == Worker \cup {Handler}

VARIABLES
  open,        \* ports that exist
  inbox,       \* what waits on the data socket
  removals,    \* REMOVE_CLIENT messages on the control socket
  full,        \* ports whose sender gets EAGAIN
  fullLeft,    \* congestion that may still happen
  delivered,   \* what arrived at each port
  asker,       \* who sent each request
  client,      \* structures of clients: "none", "listed" (client_list), or
               \* "leaving" when off the list and not yet freed
  txns,        \* txn_list, by request
  clientLock,  \* owner of client_list_lock, or Nobody
  txnLock,     \* owner of txn_list_lock, or Nobody
  txQ,         \* tx_q: [at, bufs, busy] per destination; at is Nobody when the
               \* pointer leads to the stack
  addr,        \* addr of xport_handle_event, on the stack
  xport,       \* "open", "closed" (the sockets) or "freed"
  pc,          \* where each thread is
  cur,         \* the request a thread works on
  todo,        \* clients an indication still goes to
  known,       \* clients the service has accepted
  given,       \* requests the service has handles of
  waiting,     \* clients the service was told are busy
  sendsLeft,   \* sends of the service that are left
  accepted,    \* messages the transport took, per client, in this order
  stray        \* a queue's pointer outlived what it points to

wire     == <<open, inbox, removals, full, fullLeft, delivered, asker>>
lists    == <<client, txns>>
locks    == <<clientLock, txnLock>>
queue    == <<txQ, stray>>
service  == <<known, given, waiting, sendsLeft>>
svars    == <<wire, lists, locks, queue, addr, xport, pc, cur, todo, service, accepted>>

Goto(t, l) == pc' = [pc EXCEPT ![t] = l]
At(t, l)   == pc[t] = l
Listed(a)  == client[a] = "listed"

Answer(r) == [kind |-> "answer", req |-> r]
Error(r)  == [kind |-> "error", req |-> r]
Ind       == [kind |-> "ind", req |-> Nobody]

-----------------------------------------------------------------------------
(* The transport, under tx_q_lock *)

\* Where the pointer dest_addr of a queue leads now.
Dest(q) == IF q.at = Nobody THEN addr ELSE q.at

\* find_tx_q, the first match.
Queues(a) == {i \in DOMAIN txQ : Dest(txQ[i]) = a}
First(a)  == CHOOSE i \in Queues(a) : \A j \in Queues(a) : i <= j

\* For the mutants: nobody records that a message was refused.
Enqueue_Unmarked(a, m, limited, rc) ==
  LET i == First(a) IN
  /\ Queues(a) # {}
  /\ IF limited /\ Len(txQ[i].bufs) >= QueueSize
     THEN rc = "busy" /\ UNCHANGED txQ
     ELSE rc = "ok"   /\ txQ' = [txQ EXCEPT ![i].bufs = Append(@, m)]
  /\ UNCHANGED <<full, fullLeft, delivered, stray>>

\* put_tx_q into a queue that exists.
Enqueue(a, m, limited, rc) ==
  LET i == First(a) IN
  /\ Queues(a) # {}
  /\ IF limited /\ Len(txQ[i].bufs) >= QueueSize
     THEN rc = "busy" /\ txQ' = [txQ EXCEPT ![i].busy = TRUE]
     ELSE rc = "ok"   /\ txQ' = [txQ EXCEPT ![i].bufs = Append(@, m)]
  /\ UNCHANGED <<full, fullLeft, delivered, stray>>

\* For the mutants: the queue is not looked at first.
SendNow_Overtakes(a, m, rc) ==
  /\ a \in open /\ xport = "open" /\ a \notin full
  /\ rc = "ok"
  /\ delivered' = [delivered EXCEPT ![a] = Append(@, m)]
  /\ UNCHANGED <<full, fullLeft, queue>>

\* sendto took the message.
SendNow(a, m, rc) ==
  /\ Queues(a) = {} /\ a \in open /\ xport = "open" /\ a \notin full
  /\ rc = "ok"
  /\ delivered' = [delivered EXCEPT ![a] = Append(@, m)]
  /\ UNCHANGED <<full, fullLeft, queue>>

\* EAGAIN: the message starts a queue, which keeps the caller's pointer.
SendLater(a, at, m, rc) ==
  /\ Queues(a) = {} /\ a \in open /\ xport = "open"
  /\ a \in full \/ fullLeft > 0
  /\ rc = "ok"
  /\ full' = full \cup {a}
  /\ fullLeft' = IF a \in full THEN fullLeft ELSE fullLeft - 1
  /\ txQ' = Append(txQ, [at |-> at, bufs |-> <<m>>, busy |-> FALSE])
  /\ stray' = (stray \/ at = Nobody)
  /\ UNCHANGED delivered

\* sendto fails for another reason, as it does for a port that was closed.
SendFails(a, rc) ==
  /\ Queues(a) = {}
  /\ rc = "failed"
  /\ UNCHANGED <<full, fullLeft, queue, delivered>>

\* xport_send of message m to a, whose address is at the pointer at.
Send(a, at, m, limited, rc) ==
  /\ \/ Enqueue(a, m, limited, rc)
     \/ SendNow(a, m, rc)
     \/ SendLater(a, at, m, rc)
     \/ SendFails(a, rc)
  /\ accepted' = IF rc = "ok" THEN [accepted EXCEPT ![a] = Append(@, m)] ELSE accepted
  /\ UNCHANGED <<open, inbox, removals, asker>>

Result == {"ok", "busy", "failed"}

-----------------------------------------------------------------------------
(* Requests: qmi_csi_xport_recv *)

\* xport_handle_event takes a message from the data socket.  Something that is
\* no request, or is cut short, is answered with an error at once.
TakeRequest ==
  LET e == Head(inbox) IN
  /\ At(Handler, "select") /\ inbox # <<>> /\ e.kind = "request"
  /\ inbox' = Tail(inbox)
  /\ addr' = e.from
  /\ cur' = [cur EXCEPT ![Handler] = e.req]
  /\ Goto(Handler, "find") \/ Goto(Handler, "bail")
  /\ UNCHANGED <<open, removals, full, fullLeft, delivered, asker, lists, locks,
                 queue, xport, todo, service, accepted>>

\* The client is looked up.  One that is new is put in the list, in
\* qmi_csi_xport_connect, unless memory is short; only this thread adds
\* clients, so that the lookups in between find nothing else.
FindClient ==
  /\ At(Handler, "find") /\ clientLock = Nobody
  /\ \/ /\ Listed(addr)
        /\ clientLock' = Handler
        /\ Goto(Handler, "add")
        /\ UNCHANGED client
     \/ /\ ~Listed(addr)
        /\ client' = [client EXCEPT ![addr] = "listed"]
        /\ Goto(Handler, "connect")
        /\ UNCHANGED clientLock
     \/ /\ ~Listed(addr)
        /\ Goto(Handler, "bail")
        /\ UNCHANGED <<client, clientLock>>
  /\ UNCHANGED <<wire, txns, txnLock, queue, addr, xport, cur, todo, service, accepted>>

\* The callback, without a lock: a client that is accepted may get indications
\* at once.
ConnectCb ==
  /\ At(Handler, "connect")
  /\ \/ known' = known \cup {addr} /\ Goto(Handler, "find")
     \/ UNCHANGED known /\ Goto(Handler, "refused")
  /\ UNCHANGED <<wire, lists, locks, queue, addr, xport, cur, todo, given, waiting,
                 sendsLeft, accepted>>

\* The structure is freed, with what a broadcast put in a queue left behind.
Refused ==
  /\ At(Handler, "refused") /\ clientLock = Nobody
  /\ client' = [client EXCEPT ![addr] = "none"]
  /\ stray' = (stray \/ \E i \in DOMAIN txQ : txQ[i].at = addr)
  /\ Goto(Handler, "bail")
  /\ UNCHANGED <<wire, txns, locks, txQ, addr, xport, cur, todo, service, accepted>>

\* The transaction is added with both locks held.  Without memory for it the
\* lock of the clients is not given back.
AddTxn ==
  /\ At(Handler, "add")
  /\ \/ /\ txnLock = Nobody
        /\ txns' = txns \cup {cur[Handler]}
        /\ clientLock' = Nobody
        /\ Goto(Handler, "process")
     \/ /\ TxnAllocFails
        /\ Goto(Handler, "bail")
        /\ UNCHANGED <<txns, clientLock>>
  /\ UNCHANGED <<wire, client, txnLock, queue, addr, xport, cur, todo, service, accepted>>

\* The request is decoded and given to the service, which takes it or not.
ProcessReq ==
  /\ At(Handler, "process")
  /\ \/ /\ given' = given \cup {cur[Handler]}
        /\ cur' = [cur EXCEPT ![Handler] = Nobody]
        /\ Goto(Handler, "select")
     \/ UNCHANGED <<given, cur>> /\ Goto(Handler, "freeTxn")
  /\ UNCHANGED <<wire, lists, locks, queue, addr, xport, todo, known, waiting, sendsLeft,
                 accepted>>

FreeTxn ==
  /\ At(Handler, "freeTxn") /\ txnLock = Nobody
  /\ txns' = txns \ {cur[Handler]}
  /\ Goto(Handler, "bail")
  /\ UNCHANGED <<wire, client, locks, queue, addr, xport, cur, todo, service, accepted>>

\* encode_and_send_resp, with a pointer to addr.
Bail ==
  /\ At(Handler, "bail")
  /\ \E rc \in Result : Send(addr, Nobody, Error(cur[Handler]), FALSE, rc)
  /\ cur' = [cur EXCEPT ![Handler] = Nobody]
  /\ Goto(Handler, "select")
  /\ UNCHANGED <<lists, locks, addr, xport, todo, service>>

-----------------------------------------------------------------------------
(* Resume_Tx and REMOVE_CLIENT *)

\* handle_resume_tx: k messages go until the port is congested again.
HandleResume ==
  LET e == Head(inbox)
      Q == {i \in DOMAIN txQ : txQ[i].at \in {Nobody, e.from}}   \* addr is e.from now
      i == CHOOSE i \in Q : \A j \in Q : i <= j
      n == Len(txQ[i].bufs)
  IN
  /\ At(Handler, "select") /\ inbox # <<>> /\ e.kind = "resume"
  /\ inbox' = Tail(inbox)
  /\ addr' = e.from
  /\ \/ /\ Q = {}
        /\ UNCHANGED <<full, fullLeft, delivered, txQ, pc>>
     \/ /\ Q # {}
        /\ \E k \in 0..n :
          /\ IF k < n THEN e.from \in full \/ fullLeft > 0 ELSE e.from \notin full
          /\ k < n => e.from \in open
          /\ e.from \in full => k = 0
          /\ full' = IF k < n THEN full \cup {e.from} ELSE full
          /\ fullLeft' = IF k < n /\ e.from \notin full THEN fullLeft - 1 ELSE fullLeft
          /\ delivered' = IF e.from \in open
               THEN [delivered EXCEPT ![e.from] = @ \o SubSeq(txQ[i].bufs, 1, k)]
               ELSE delivered
          /\ txQ' = IF k = n THEN RemoveAt(txQ, i)
                    ELSE [txQ EXCEPT ![i].bufs = SubSeq(@, k + 1, n),
                                     ![i].busy = @ /\ n - k >= QueueSize]
          /\ Goto(Handler, IF txQ[i].busy /\ n - k < QueueSize THEN "resume" ELSE "select")
  /\ UNCHANGED <<open, removals, asker, lists, locks, stray, xport, cur, todo,
                 service, accepted>>

\* qmi_csi_xport_resume_client
ResumeClient ==
  /\ At(Handler, "resume") /\ clientLock = Nobody
  /\ waiting' = IF Listed(addr) THEN waiting \ {addr} ELSE waiting
  /\ Goto(Handler, "select")
  /\ UNCHANGED <<wire, lists, locks, queue, addr, xport, cur, todo, known, given,
                 sendsLeft, accepted>>

\* For the mutants: the queue is not purged.
TakeRemoval_KeepsQueue ==
  /\ At(Handler, "select")
  /\ \E a \in removals : removals' = removals \ {a} /\ addr' = a
  /\ Goto(Handler, "disconnect")
  /\ UNCHANGED <<open, inbox, full, fullLeft, delivered, asker, lists, locks, queue,
                 xport, cur, todo, service, accepted>>

\* The queue of a client that has gone is purged ...
TakeRemoval ==
  /\ At(Handler, "select")
  /\ \E a \in removals :
       /\ removals' = removals \ {a}
       /\ addr' = a
       /\ LET Q == {i \in DOMAIN txQ : txQ[i].at \in {Nobody, a}}
              i == CHOOSE i \in Q : \A j \in Q : i <= j
          IN txQ' = IF Q = {} THEN txQ ELSE RemoveAt(txQ, i)
  /\ Goto(Handler, "disconnect")
  /\ UNCHANGED <<open, inbox, full, fullLeft, delivered, asker, lists, locks, stray,
                 xport, cur, todo, service, accepted>>

\* ... and the client leaves the list.  The callback is made with the lock
\* held: the service forgets the client, but not its requests.
Disconnect ==
  /\ At(Handler, "disconnect") /\ clientLock = Nobody
  /\ IF Listed(addr)
     THEN /\ client' = [client EXCEPT ![addr] = "leaving"]
          /\ clientLock' = Handler
          /\ known' = known \ {addr} /\ waiting' = waiting \ {addr}
          /\ Goto(Handler, "clean")
     ELSE UNCHANGED <<client, clientLock, known, waiting>> /\ Goto(Handler, "select")
  /\ UNCHANGED <<wire, txns, txnLock, queue, addr, xport, cur, todo, given, sendsLeft,
                 accepted>>

\* For the mutants: the lock stays; nobody waits for txn_list_lock.
CleanTxns_HoldsLock ==
  /\ At(Handler, "clean") /\ txnLock = Nobody
  /\ txns' = {r \in txns : asker[r] # addr}
  /\ client' = [client EXCEPT ![addr] = "none"]
  /\ Goto(Handler, "select")
  /\ UNCHANGED <<wire, locks, queue, addr, xport, cur, todo, service, accepted>>

CleanTxns_Unlocked ==
  /\ At(Handler, "clean")
  /\ txns' = {r \in txns : asker[r] # addr}
  /\ client' = [client EXCEPT ![addr] = "none"]
  /\ clientLock' = Nobody
  /\ Goto(Handler, "select")
  /\ UNCHANGED <<wire, txnLock, queue, addr, xport, cur, todo, service, accepted>>

\* clean_txns waits for a thread that is sending a response.
CleanTxns ==
  /\ At(Handler, "clean") /\ txnLock = Nobody
  /\ txns' = {r \in txns : asker[r] # addr}
  /\ client' = [client EXCEPT ![addr] = "none"]
  /\ clientLock' = Nobody
  /\ Goto(Handler, "select")
  /\ UNCHANGED <<wire, txnLock, queue, addr, xport, cur, todo, service, accepted>>

-----------------------------------------------------------------------------
(* qmi_csi_unregister.  The service does not call it while it handles events. *)

\* What waits on the sockets is not read any more.
PurgeAll ==
  /\ At(Handler, "select")
  /\ txQ' = <<>>
  /\ inbox' = <<>> /\ removals' = {}
  /\ Goto(Handler, "purged")
  /\ UNCHANGED <<open, full, fullLeft, delivered, asker, lists, locks, stray, addr, xport,
                 cur, todo, service, accepted>>

CloseSockets ==
  /\ At(Handler, "purged")
  /\ xport' = "closed"
  /\ full' = {}
  /\ Goto(Handler, "closed")
  /\ UNCHANGED <<open, inbox, removals, fullLeft, delivered, asker, lists, locks, queue, addr,
                 cur, todo, service, accepted>>

\* qmi_csi_xport_closed: client by client, then the transport is freed.
XportClosed ==
  /\ At(Handler, "closed")
  /\ \/ /\ clientLock = Nobody /\ clientLock' = Handler
        /\ UNCHANGED <<lists, xport, pc>>
     \/ /\ clientLock = Handler /\ txnLock = Nobody
        /\ \E a \in Addr :
             /\ Listed(a)
             /\ client' = [client EXCEPT ![a] = "none"]
             /\ txns' = {r \in txns : asker[r] # a}
        /\ UNCHANGED <<clientLock, xport, pc>>
     \/ /\ clientLock = Handler /\ \A a \in Addr : ~Listed(a)
        /\ clientLock' = Nobody /\ xport' = "freed"
        /\ Goto(Handler, "end")
        /\ UNCHANGED lists
  /\ UNCHANGED <<wire, txnLock, queue, addr, cur, todo, service, accepted>>

-----------------------------------------------------------------------------
(* The service *)

\* For the mutants: the transaction stays in the lists while it is answered.
FindTxn_Kept(w) ==
  /\ At(w, "idle") /\ txnLock = Nobody
  /\ sendsLeft > 0 /\ sendsLeft' = sendsLeft - 1
  /\ \E r \in given \cap txns : cur' = [cur EXCEPT ![w] = r]
  /\ txnLock' = w
  /\ Goto(w, "sendResp")
  /\ UNCHANGED <<wire, lists, clientLock, queue, addr, xport, todo, known, given, waiting,
                 accepted>>

\* qmi_csi_send_resp: an answer to a request that is gone, or that was
\* answered before, is refused and changes nothing.
FindTxn(w) ==
  /\ At(w, "idle") /\ txnLock = Nobody
  /\ sendsLeft > 0 /\ sendsLeft' = sendsLeft - 1
  /\ \E r \in given \cap txns :
       /\ txns' = txns \ {r}
       /\ cur' = [cur EXCEPT ![w] = r]
  /\ txnLock' = w
  /\ Goto(w, "sendResp")
  /\ UNCHANGED <<wire, client, clientLock, queue, addr, xport, todo, known, given, waiting,
                 accepted>>

SendResp(w) ==
  LET a == asker[cur[w]] IN
  /\ At(w, "sendResp")
  /\ \/ \E rc \in Result : Send(a, a, Answer(cur[w]), FALSE, rc)
     \/ UNCHANGED <<wire, queue, accepted>>               \* cannot be encoded
  /\ txnLock' = Nobody
  /\ cur' = [cur EXCEPT ![w] = Nobody]
  /\ Goto(w, "idle")
  /\ UNCHANGED <<lists, clientLock, addr, xport, todo, service>>

\* qmi_csi_send_ind to one client, qmi_csi_send_broadcast_ind to all.
FindReceivers(w) ==
  /\ At(w, "idle") /\ clientLock = Nobody
  /\ sendsLeft > 0 /\ sendsLeft' = sendsLeft - 1
  /\ \/ /\ \E a \in known :
             /\ Listed(a)
             /\ todo' = [todo EXCEPT ![w] = {a}]
        /\ Goto(w, "sendInd")
     \/ /\ \E a \in Addr : Listed(a)
        /\ todo' = [todo EXCEPT ![w] = {a \in Addr : Listed(a)}]
        /\ Goto(w, "sendAll")
  /\ clientLock' = w
  /\ UNCHANGED <<wire, lists, txnLock, queue, addr, xport, cur, known, given, waiting,
                 accepted>>

\* Only the caller of qmi_csi_send_ind learns that the queue is at its limit.
SendInd(w) ==
  /\ pc[w] \in {"sendInd", "sendAll"}
  /\ \E a \in todo[w], rc \in Result :
       /\ Send(a, a, Ind, TRUE, rc)
       /\ waiting' = IF rc = "busy" /\ At(w, "sendInd") THEN waiting \cup {a} ELSE waiting
       /\ todo' = [todo EXCEPT ![w] = @ \ {a}]
       /\ IF todo[w] = {a} THEN clientLock' = Nobody /\ Goto(w, "idle")
                           ELSE UNCHANGED <<clientLock, pc>>
  /\ UNCHANGED <<lists, txnLock, addr, xport, cur, known, given, sendsLeft>>

-----------------------------------------------------------------------------
(* The clients and the IPC router, as long as the service reads its sockets *)

Serving == pc[Handler] \notin {"purged", "closed", "end"}

Ask(a) ==
  /\ Serving /\ a \in open /\ Len(asker) < MaxReqs
  /\ asker' = Append(asker, a)
  /\ inbox' = Append(inbox, [kind |-> "request", from |-> a, req |-> Len(asker) + 1])
  /\ UNCHANGED <<open, removals, full, fullLeft, delivered, lists, locks, queue, addr, xport,
                 pc, cur, todo, service, accepted>>

\* The port of a client can take messages again, and its senders are told.
Drain(a) ==
  /\ Serving /\ a \in full
  /\ full' = full \ {a}
  /\ inbox' = Append(inbox, [kind |-> "resume", from |-> a, req |-> Nobody])
  /\ UNCHANGED <<open, removals, fullLeft, delivered, asker, lists, locks, queue, addr,
                 xport, pc, cur, todo, service, accepted>>

Leave(a) ==
  /\ Serving /\ a \in open
  /\ open' = open \ {a} /\ full' = full \ {a}
  /\ removals' = removals \cup {a}
  /\ UNCHANGED <<inbox, fullLeft, delivered, asker, lists, locks, queue, addr, xport,
                 pc, cur, todo, service, accepted>>

-----------------------------------------------------------------------------
HandlerStep ==
  \/ TakeRequest \/ FindClient \/ ConnectCb \/ Refused
  \/ AddTxn \/ ProcessReq \/ FreeTxn \/ Bail
  \/ HandleResume \/ ResumeClient
  \/ TakeRemoval \/ Disconnect \/ CleanTxns
  \/ CloseSockets \/ XportClosed

WorkerStep(w) == SendResp(w) \/ SendInd(w)

QmiServiceInit ==
  /\ open = Addr /\ inbox = <<>> /\ removals = {} /\ full = {} /\ fullLeft = MaxFull
  /\ delivered = [a \in Addr |-> <<>>] /\ accepted = [a \in Addr |-> <<>>]
  /\ asker = <<>>
  /\ client = [a \in Addr |-> "none"] /\ txns = {}
  /\ clientLock = Nobody /\ txnLock = Nobody
  /\ txQ = <<>> /\ stray = FALSE
  /\ addr = Nobody
  /\ xport = "open"
  /\ pc = [t \in Thread |-> IF t = Handler THEN "select" ELSE "idle"]
  /\ cur = [t \in Thread |-> Nobody] /\ todo = [t \in Thread |-> {}]
  /\ known = {} /\ given = {} /\ waiting = {} /\ sendsLeft = MaxSends

QmiServiceNext ==
  \/ HandlerStep \/ PurgeAll
  \/ \E w \in Worker : FindTxn(w) \/ FindReceivers(w) \/ WorkerStep(w)
  \/ \E a \in Addr : Ask(a) \/ Drain(a) \/ Leave(a)

QmiServiceSpec == QmiServiceInit /\ [][QmiServiceNext]_svars

\* Threads run, and a congested port is drained while it exists.  Whether the
\* service answers or indicates is up to the service.
FairQmiServiceSpec ==
  /\ QmiServiceSpec
  /\ WF_svars(HandlerStep)
  /\ \A w \in Worker : WF_svars(WorkerStep(w))
  /\ \A a \in Addr : WF_svars(Drain(a))

-----------------------------------------------------------------------------
(* Properties *)

Recv    == {"find", "connect", "refused", "add", "process", "freeTxn", "bail"}
Closing == {"purged", "closed", "end"}

\* Pointers to the structures of clients lead to structures that exist.  The
\* comments of qmi_csi_send_resp_internal and of the broadcast say so: with
\* txn_list_lock held the client, service and transport of a transaction are
\* valid, and with client_list_lock held the list of clients does not change,
\* whatever disconnects or closes meanwhile.  A transaction, which has a pointer
\* to its client, does not outlive it.
PointersValid ==
  /\ \A w \in Worker :
       /\ At(w, "sendResp") => xport # "freed" /\ client[asker[cur[w]]] # "none"
       /\ \A a \in todo[w] : xport # "freed" /\ Listed(a)
  /\ \A r \in txns : xport # "freed" /\ client[asker[r]] # "none"

\* As long as the transport is used, no queue points into a structure that was
\* freed.
NoDanglingQueue ==
  ~stray /\ pc[Handler] \notin Closing =>
    \A i \in DOMAIN txQ : client[txQ[i].at] # "none"

\* What a client gets, and what is queued for it, is what the transport took
\* for it, in this order: nothing is lost, overtaken or sent to another client,
\* with any number of congestions, resumptions and threads that send.
Queued(a) == IF Queues(a) = {} THEN <<>> ELSE txQ[First(a)].bufs
InOrder ==
  ~stray /\ xport = "open" /\ pc[Handler] # "purged" =>
    \A a \in open : delivered[a] \o Queued(a) = accepted[a]

\* A request is answered once, by the service or by the library, and to the
\* client that made it.
AnsweredOnce ==
  \A a \in Addr : \A i, j \in DOMAIN accepted[a] :
    LET r == accepted[a][i].req IN
    r # Nobody => asker[r] = a /\ (accepted[a][j].req = r => i = j)

\* Who was told that a client is busy is told when it no longer is, or that it
\* is gone, unless the service unregisters first; what the service sends
\* meanwhile is bounded, so that all of them are told.
ResumeTold ==
  waiting # {} ~> (waiting = {} \/ stray \/ pc[Handler] \in Closing)

\* The event thread comes back from every event, and from the end of the
\* service: no two threads wait for each other's lock.
HandlerReturns == (pc[Handler] \notin {"select", "end"}) ~> (pc[Handler] \in {"select", "end"})

-----------------------------------------------------------------------------
(* The inductive invariant of QmiServiceProofs: the first four conjuncts    *)
(* imply PointersValid, the fifth AnsweredOnce.                            *)

Message == [kind : {"answer", "error", "ind"}, req : Req \cup {Nobody}]
Event   == [kind : {"request", "resume"}, from : Addr, req : Req \cup {Nobody}]

LibraryTypeOK ==
  /\ asker \in Seq(Addr) /\ Len(asker) <= MaxReqs /\ removals \subseteq Addr
  /\ inbox \in Seq(Event)
  /\ client \in [Addr -> {"none", "listed", "leaving"}]
  /\ txns \subseteq Req /\ given \subseteq Req /\ known \subseteq Addr
  /\ clientLock \in Thread \cup {Nobody} /\ txnLock \in Worker \cup {Nobody}
  /\ addr \in Addr \cup {Nobody}
  /\ xport \in {"open", "closed", "freed"}
  /\ pc \in [Thread -> {"idle", "sendResp", "sendInd", "sendAll"} \cup Recv \cup Closing
                         \cup {"select", "resume", "disconnect", "clean"}]
  /\ cur \in [Thread -> Req \cup {Nobody}] /\ todo \in [Thread -> SUBSET Addr]
  /\ accepted \in [Addr -> Seq(Message)]

\* Who holds a lock, and what it protects.
LocksHeld ==
  /\ \A w \in Worker : txnLock = w <=> At(w, "sendResp")
  /\ \A w \in Worker : clientLock = w <=> pc[w] \in {"sendInd", "sendAll"}
  /\ \A w \in Worker : todo[w] # {} => clientLock = w
  /\ pc[Handler] \in {"add", "clean"} => clientLock = Handler

\* Requests are known by who sent them, wherever they are.
RequestsKnown ==
  /\ \A i \in DOMAIN inbox : inbox[i].kind = "request" =>
       inbox[i].req \in DOMAIN asker /\ asker[inbox[i].req] = inbox[i].from
  /\ pc[Handler] \in Recv => cur[Handler] \in DOMAIN asker /\ asker[cur[Handler]] = addr
  /\ pc[Handler] \in {"resume", "disconnect", "clean"} => addr \in Addr
  /\ \A w \in Worker : At(w, "sendResp") => cur[w] \in DOMAIN asker
  /\ txns \subseteq DOMAIN asker /\ given \subseteq DOMAIN asker

\* The event thread alone puts clients in the list and frees them.
ClientLives ==
  /\ pc[Handler] = "add" => Listed(addr)
  /\ pc[Handler] \in {"connect", "refused"} =>
       /\ Listed(addr)
       /\ \A r \in txns : asker[r] # addr
       /\ \A w \in Worker : At(w, "sendResp") => asker[cur[w]] # addr
  /\ \A a \in Addr : client[a] = "leaving" => pc[Handler] = "clean" /\ addr = a
  /\ xport = "freed" => pc[Handler] = "end" /\ \A a \in Addr : client[a] = "none"

\* A request that was answered is in no other place.
Answered(r) == \E a \in Addr : \E i \in DOMAIN accepted[a] : accepted[a][i].req = r
Fresh(r) == r \notin given /\ ~Answered(r)
InboxFresh ==
  \A i \in DOMAIN inbox : inbox[i].kind = "request" =>
    /\ Fresh(inbox[i].req) /\ inbox[i].req \notin txns
    /\ pc[Handler] \in Recv => cur[Handler] # inbox[i].req
    /\ \A j \in DOMAIN inbox :
         inbox[j].kind = "request" /\ inbox[j].req = inbox[i].req => i = j
AnsweredAtEnd ==
  /\ InboxFresh
  /\ pc[Handler] \in Recv => Fresh(cur[Handler])
  /\ pc[Handler] \in Recv \ {"process", "freeTxn"} => cur[Handler] \notin txns
  /\ \A w \in Worker : At(w, "sendResp") =>
       cur[w] \in given \ txns /\ ~Answered(cur[w])
  /\ \A r \in txns : ~Answered(r)
  /\ \A r \in Req : Answered(r) => r \in DOMAIN asker
  /\ AnsweredOnce

ServiceInv ==
  /\ LibraryTypeOK /\ LocksHeld /\ RequestsKnown /\ ClientLives /\ PointersValid
  /\ AnsweredAtEnd
=============================================================================
