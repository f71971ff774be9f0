------------------------- MODULE QmiClientRefsProofs -------------------------
(***************************************************************************)
(* More proofs about QmiClient, on top of the invariant of                 *)
(* QmiClientProofs: the references of a transaction are counted, none is   *)
(* touched after it was freed, a waiting call is owed a signal, a buffer   *)
(* is written only while it is lent, and the loss of the service is told   *)
(* once.                                                                   *)
(***************************************************************************)
EXTENDS QmiClientProofs

-----------------------------------------------------------------------------
(* The inductive invariant *)

\* A request that was handed to flush_tx_q: it is in the queue, a thread is
\* sending it or could not, or it is on its way to the service.
Sent(x) ==
  x \in ToSet(txQ) \/ x \in received \/ \E t \in Thread : seek[t] = x

\* A call that makes a request hands it over once, and nobody else does.
Fresh == {"created", "prepare", "queueRef", "enqueue", "unsent"}
SentOnce ==
  /\ \A i, j \in DOMAIN txQ : txQ[i] = txQ[j] => i = j
  /\ \A x \in Txn : Sent(x) => x < nextTxn
  /\ \A t \in Caller : pc[t] \in Fresh => ~Sent(cur[t])

\* The three references of a transaction.
Queued(x) == x \in ToSet(txQ) \/ \E t \in Caller : Queues(t, x)
Waited(x) == \E t \in Caller : Waits(t, x)
RefsOf(x) == Count(Owned(x)) + Count(Queued(x)) + Count(Waited(x))

Counted == \A x \in 1..nextTxn - 1 : x \notin misused => txn[x].ref = RefsOf(x)

\* Only a lost service or a release empties the list, and until then the
\* request of a call that is about to queue it is there.
Lost == ~valid \/ ~accepting

Detaching == {"detachTx", "detachList"}
CleanedWhenLost == \A t \in Thread : pc[t] \in Detaching => Lost

Creating == {"created", "prepare", "queueRef"}
FreshListed == \A t \in Caller : pc[t] \in Creating => Lost \/ cur[t] \in txnList

\* What a call that waits, or will, can still expect.
SignalHasCode == \A x \in Txn : txn[x].signal => txn[x].rc \in {"ok", "failed"}
Expects(t) == txn[cur[t]].signal \/ Owned(cur[t])
OwedTo(t)  ==
  ret[t] = "wait" =>
    /\ pc[t] \in {"queueRef", "enqueue"} => Expects(t) \/ ~accepting
    /\ pc[t] \in SharedLabel \cup {"wait"} => Expects(t)
OwedSignal == \A t \in Caller : OwedTo(t)
WaitsReturn == \A t \in Caller : pc[t] = "wait" => ret[t] = "wait"

\* Until the user was told, and in a synchronous call only.
Lent ==
  /\ \A x \in Txn : Owned(x) /\ Untold(x) => txn[x].rxBuf
  /\ \A x \in Txn : x < nextTxn /\ IsSync(x) /\ txn[x].rxBuf => \E t \in Caller : cur[t] = x
  /\ \A t \in Caller : pc[t] = "finish" => ~txn[cur[t]].rxBuf

\* Registration of the error callback against the loss of the service.
Registering ==
  /\ errCb \in BOOLEAN /\ errPending \in BOOLEAN /\ errTold \in Nat
  /\ \A t \in Caller :
       /\ pc[t] = "register" => ~errCb /\ \A u \in Caller : pc[u] = "register" => u = t
       /\ pc[t] = "tellNow" => errCb /\ \A u \in Caller : pc[u] = "tellNow" => u = t
  /\ pc[Reader] \in {"flush", "lock", "transmit", "notSent"} => ret[Reader] = "poll"
  /\ pc[Reader] = "notify" => ret[Reader] = "notify"
  /\ ret[Reader] = "notify" => ~valid
  /\ ~errCb => (errPending <=> LossSeen)

AccountInv ==
  /\ SentOnce /\ Counted /\ CleanedWhenLost /\ FreshListed /\ NoUseAfterFree
  /\ SignalHasCode /\ OwedSignal /\ WaitsReturn /\ Lent
LossInv == Registering /\ LossTold

-----------------------------------------------------------------------------
(* The transmit queue as a set *)

\* A sequence without repetition loses one element, or gains one.
LEMMA RemovedOnce ==
  ASSUME NEW S, NEW s \in Seq(S), NEW i \in DOMAIN s,
         \A j, k \in DOMAIN s : s[j] = s[k] => j = k
  PROVE  /\ \A j, k \in DOMAIN RemoveAt(s, i) :
              RemoveAt(s, i)[j] = RemoveAt(s, i)[k] => j = k
         /\ ToSet(RemoveAt(s, i)) = ToSet(s) \ {s[i]}
<1> DEFINE r == RemoveAt(s, i)
<1>0. /\ r \in Seq(S) /\ Len(r) = Len(s) - 1
      /\ \A j \in 1..Len(s) - 1 : r[j] = IF j < i THEN s[j] ELSE s[j + 1]
  BY Removed
<1> HIDE DEF r
<1>1. /\ DOMAIN r = 1..Len(s) - 1
      /\ \A j \in 1..Len(s) - 1 : r[j] = IF j < i THEN s[j] ELSE s[j + 1]
  BY <1>0
<1>2. DOMAIN s = 1..Len(s) /\ Len(s) \in Nat /\ i \in 1..Len(s)
  OBVIOUS
<1>3. \A j, k \in DOMAIN r : r[j] = r[k] => j = k
  BY <1>1, <1>2
<1>4. ASSUME NEW j \in DOMAIN r PROVE r[j] \in ToSet(s) \ {s[i]}
  BY <1>1, <1>2, <1>4 DEF ToSet
<1>5. ASSUME NEW x \in ToSet(s), x # s[i] PROVE x \in ToSet(r)
  <2>1. PICK j \in DOMAIN s : s[j] = x
    BY <1>5 DEF ToSet
  <2>2. CASE j < i
    <3>1. j \in DOMAIN r /\ r[j] = x
      BY <1>1, <1>2, <2>1, <2>2
    <3> QED BY <3>1 DEF ToSet
  <2>3. CASE j > i
    <3>1. j - 1 \in DOMAIN r /\ r[j - 1] = x
      BY <1>1, <1>2, <2>1, <2>3
    <3> QED BY <3>1 DEF ToSet
  <2>4. j # i
    BY <1>5, <2>1
  <2> QED BY <1>2, <2>1, <2>2, <2>3, <2>4
<1>6. ToSet(r) = ToSet(s) \ {s[i]}
  BY <1>4, <1>5 DEF ToSet
<1> QED BY <1>3, <1>6 DEF r

LEMMA AppendedOnce ==
  ASSUME NEW S, NEW s \in Seq(S), NEW x \in S, x \notin ToSet(s),
         \A j, k \in DOMAIN s : s[j] = s[k] => j = k
  PROVE  /\ \A j, k \in DOMAIN Append(s, x) :
              Append(s, x)[j] = Append(s, x)[k] => j = k
         /\ ToSet(Append(s, x)) = ToSet(s) \cup {x}
<1> DEFINE a == Append(s, x)
<1>1. /\ DOMAIN a = 1..Len(s) + 1 /\ a[Len(s) + 1] = x /\ Len(s) \in Nat
      /\ \A j \in 1..Len(s) : a[j] = s[j]
  BY AppendProperties
<1>2. DOMAIN s = 1..Len(s) /\ \A j \in DOMAIN s : s[j] # x
  BY DEF ToSet
<1> HIDE DEF a
<1>3. \A j, k \in DOMAIN a : a[j] = a[k] => j = k
  BY <1>1, <1>2
<1>4. ToSet(a) = ToSet(s) \cup {x}
  <2>1. ASSUME NEW j \in DOMAIN a PROVE a[j] \in ToSet(s) \cup {x}
    BY <1>1, <1>2, <2>1 DEF ToSet
  <2>2. ASSUME NEW j \in DOMAIN s PROVE s[j] \in ToSet(a)
    BY <1>1, <1>2, <2>2 DEF ToSet
  <2>3. x \in ToSet(a)
    <3>1. Len(s) + 1 \in DOMAIN a
      BY <1>1
    <3> QED BY <1>1, <3>1 DEF ToSet
  <2> QED BY <2>1, <2>2, <2>3 DEF ToSet
<1> QED BY <1>3, <1>4 DEF a

-----------------------------------------------------------------------------
(* A request is handed over once                                           *)

\* A call that is about to hand its request over works on one.
LEMMA FreshCur ==
  ASSUME ClientInv, NEW t \in Caller, pc[t] \in Fresh
  PROVE  /\ cur[t] \in Txn /\ cur[t] < nextTxn
         /\ \A u \in Caller : u # t => cur[u] # cur[t]
BY DEF Fresh, ClientInv, Kinds, KindOf, Awaiting, Sending, ClientTypeOK, Thread, Owners

LEMMA SentStays ==
  ASSUME ClientInv, ClientInv', SentOnce, nextTxn' = nextTxn,
         \A i, j \in DOMAIN txQ' : txQ'[i] = txQ'[j] => i = j,
         \A x \in Txn : Sent(x)' => Sent(x),
         \A t \in Caller : pc'[t] \in Fresh => pc[t] \in Fresh /\ cur'[t] = cur[t]
  PROVE  SentOnce'
<1>1. ASSUME NEW t \in Caller, pc'[t] \in Fresh
      PROVE  \E x \in Txn : x = cur'[t] /\ ~Sent(x)'
  <2>1. cur'[t] \in Txn /\ cur'[t] = cur[t] /\ ~Sent(cur[t])
    BY <1>1, FreshCur DEF SentOnce
  <2> QED BY <2>1
<1>2. \A t \in Caller : pc'[t] \in Fresh => ~(Sent(cur[t])')
  BY <1>1 DEF Sent
<1>3. \A x \in Txn : Sent(x)' => x < nextTxn'
  BY DEF SentOnce
<1> QED BY <1>2, <1>3 DEF SentOnce

LEMMA SentQuiet ==
  ASSUME ClientInv, ClientInv', SentOnce, UNCHANGED <<txQ, seek, nextTxn>>,
         received' \subseteq received,
         \A t \in Caller : pc'[t] \in Fresh => pc[t] \in Fresh /\ cur'[t] = cur[t]
  PROVE  SentOnce'
<1>1. \A x \in Txn : Sent(x)' => Sent(x)
  BY DEF Sent
<1>2. \A i, j \in DOMAIN txQ' : txQ'[i] = txQ'[j] => i = j
  BY DEF SentOnce
<1> QED BY <1>1, <1>2, SentStays

\* Where a thread goes from the code it shares with the others.
LEMMA ReturnsTo ==
  ASSUME ClientInv, NEW t \in Thread, pc[t] \in SharedLabel
  PROVE  /\ t \in Caller => ret[t] \in {"wait", "return", "close"}
         /\ t = Reader => ret[t] \in {"poll", "notify"}
BY DEF ClientInv, Places

\* Steps that leave the queue, and what threads took from it, alone.
LEMMA SentByCall ==
  ASSUME ClientInv, ClientInv', SentOnce, NEW t \in Caller,
         \/ Begin(t) \/ CheckXport(t) \/ TakeRef(t) \/ Prepare(t) \/ QueueRef(t)
         \/ WaitResponse(t) \/ WaitTimedOut(t) \/ UnsentSync(t) \/ UnsentAsync(t) \/ Return(t)
         \/ Invalidate(t) \/ FinishSync(t) \/ DeleteFromList(t)
         \/ Register(t) \/ TellNow(t) \/ Unlink(t) \/ StopAccepting(t) \/ Close(t)
         \/ Join(t) \/ Released(t) \/ Lookup(t) \/ JoinInit(t)
  PROVE  SentOnce'
<1> USE DEF At, Goto, PutRef, Call, GetRef, Fresh
<1>t. /\ pc \in [Thread -> Label] /\ cur \in [Thread -> Txn \cup {None}] /\ t \in Thread
      /\ Caller \subseteq Thread
  BY DEF ClientInv, ClientTypeOK, Thread
<1>1. CASE TakeRef(t) \/ Prepare(t) \/ QueueRef(t)
  <2>1. UNCHANGED <<txQ, seek, nextTxn, received, cur>>
    BY <1>1 DEF TakeRef, Prepare, QueueRef, lists, network, locals
  <2>2. pc[t] \in Fresh /\ \A u \in Caller : u # t => pc'[u] = pc[u]
    BY <1>1, <1>t DEF TakeRef, Prepare, QueueRef
  <2> QED BY <2>1, <2>2, SentQuiet
<1>2. CASE Begin(t) \/ CheckXport(t) \/ Return(t) \/ FinishSync(t)
  <2>1. UNCHANGED <<txQ, seek, nextTxn, received>>
    BY <1>2 DEF Begin, BeginSend, BeginDelete, BeginRegister, BeginRelease, CheckXport,
       Return, FinishSync, unchangedByEnd, lists, network, locals
  <2>2. pc'[t] \notin Fresh /\ \A u \in Caller : u # t => pc'[u] = pc[u] /\ cur'[u] = cur[u]
    BY <1>2, <1>t DEF Begin, BeginSend, BeginDelete, BeginRegister, BeginRelease, CheckXport,
       Return, FinishSync, locals
  <2> QED BY <2>1, <2>2, SentQuiet
<1>3. CASE \/ WaitResponse(t) \/ WaitTimedOut(t) \/ UnsentSync(t) \/ UnsentAsync(t)
           \/ Invalidate(t) \/ DeleteFromList(t)
  <2>1. UNCHANGED <<txQ, seek, nextTxn, received>>
    BY <1>3 DEF WaitResponse, WaitTimedOut, UnsentSync, UnsentAsync, Invalidate,
       DeleteFromList, lists, network, locals
  <2>2. \/ pc' = pc /\ cur' = cur
        \/ pc'[t] \notin Fresh /\ \A u \in Caller : u # t => pc'[u] = pc[u] /\ cur'[u] = cur[u]
    BY <1>3, <1>t DEF WaitResponse, WaitTimedOut, UnsentSync, UnsentAsync, Invalidate,
       DeleteFromList, locals
  <2> QED BY <2>1, <2>2, SentQuiet
<1>4. CASE \/ Register(t) \/ TellNow(t) \/ Unlink(t) \/ StopAccepting(t) \/ Close(t)
           \/ Join(t) \/ Released(t) \/ Lookup(t) \/ JoinInit(t)
  <2>1. UNCHANGED <<txQ, seek, nextTxn>> /\ received' \subseteq received
    BY <1>4 DEF Register, TellNow, Unlink, StopAccepting, Close, Join, JoinInit, Joined,
       Released, Lookup, unchangedByEnd, lists, network, locals
  <2>2. pc'[t] \notin Fresh /\ \A u \in Caller : u # t => pc'[u] = pc[u] /\ cur'[u] = cur[u]
    BY <1>4, <1>t DEF Register, TellNow, Unlink, StopAccepting, Close, Join, JoinInit, Joined,
       Released, Lookup, locals
  <2> QED BY <2>1, <2>2, SentQuiet
<1> QED BY <1>1, <1>2, <1>3, <1>4

LEMMA SentByReader ==
  ASSUME ClientInv, ClientInv', SentOnce,
         \/ Delivered \/ ServerGone \/ Notify \/ TellError \/ ReaderExit \/ ReaderBreaks
         \/ Receive \/ ResumeTx \/ Vanish
  PROVE  SentOnce'
<1>1. UNCHANGED <<txQ, seek, nextTxn, cur>> /\ received' \subseteq received
  BY DEF Delivered, ServerGone, Notify, TellError, ReaderExit, ReaderBreaks, Receive,
     ResumeTx, Vanish, lists, network, locals
<1>2. \A t \in Caller : pc'[t] = pc[t]
  BY ClientAssumption DEF Delivered, ServerGone, Notify, TellError, ReaderExit, ReaderBreaks,
     Receive, ResumeTx, Vanish, Goto, ClientInv, ClientTypeOK, Thread
<1> QED BY <1>1, <1>2, SentQuiet

LEMMA DequeuedOnce ==
  ASSUME ClientInv, SentOnce, NEW x, Dequeue(x)
  PROVE  /\ x \in ToSet(txQ) /\ x \in Txn /\ ToSet(txQ') = ToSet(txQ) \ {x}
         /\ \A i, j \in DOMAIN txQ' : txQ'[i] = txQ'[j] => i = j
<1>1. PICK i \in DOMAIN txQ : txQ[i] = x /\ txQ' = RemoveAt(txQ, i)
  BY DEF Dequeue
<1>2. txQ \in Seq(Txn) /\ \A j, k \in DOMAIN txQ : txQ[j] = txQ[k] => j = k
  BY DEF ClientInv, ClientTypeOK, SentOnce
<1>3. x \in ToSet(txQ) /\ x \in Txn
  BY <1>1, <1>2 DEF ToSet
<1> QED BY <1>1, <1>2, <1>3, RemovedOnce

\* flush_tx_q and cleanup_client_lists: what a thread took from the queue was
\* in it, and what reaches the service was sent by a thread.
LEMMA SentByShared ==
  ASSUME ClientInv, ClientInv', SentOnce, NEW t \in Thread, Flush(t) \/ Cleanup(t)
  PROVE  SentOnce'
<1> USE DEF At, Goto
<1>t. /\ pc \in [Thread -> Label] /\ cur \in [Thread -> Txn \cup {None}]
      /\ seek \in [Thread -> Txn \cup {None}] /\ txQ \in Seq(Txn) /\ nextTxn' = nextTxn
      /\ Caller \subseteq Thread /\ None \notin Txn
  BY TxnNumbers DEF ClientInv, ClientTypeOK, Thread, Flush, Cleanup, FlushAddr, FlushHead,
     Transmit, FailUnsent, DetachQueue, DetachList, FailNext
<1>p. /\ cur' = cur /\ \A u \in Caller : u # t => pc'[u] = pc[u]
      /\ pc[t] \in SharedLabel /\ pc'[t] \in SharedLabel \cup {ret[t]}
  BY <1>t DEF Flush, Cleanup, FlushAddr, FlushHead, Transmit, FailUnsent, DetachQueue,
     DetachList, FailNext, locals, SharedLabel
<1>m. \A u \in Caller : pc'[u] \in Fresh => pc[u] \in Fresh /\ cur'[u] = cur[u]
  BY <1>p, ReturnsTo DEF Fresh, SharedLabel
<1>i. \A i, j \in DOMAIN txQ : txQ[i] = txQ[j] => i = j
  BY DEF SentOnce
<1>1. CASE FlushAddr(t) \/ DetachList(t) \/ FailNext(t)
  <2>1. UNCHANGED <<txQ, seek, nextTxn, received>>
    BY <1>1 DEF FlushAddr, DetachList, FailNext, lists, network, locals
  <2> QED BY <1>m, <2>1, SentQuiet
<1>2. CASE FailUnsent(t)
  <2>1. UNCHANGED <<txQ, received>> /\ seek' = [seek EXCEPT ![t] = None]
    BY <1>2 DEF FailUnsent, network
  <2>2. \A x \in Txn : Sent(x)' => Sent(x)
    BY <1>t, <2>1 DEF Sent
  <2> QED BY <1>t, <1>m, <1>i, <2>1, <2>2, SentStays
<1>3. CASE DetachQueue(t)
  <2>1. UNCHANGED <<seek, received>> /\ txQ' = <<>>
    BY <1>3 DEF DetachQueue, network, locals
  <2>2. \A x \in Txn : Sent(x)' => Sent(x)
    BY <2>1 DEF Sent, ToSet
  <2> QED BY <1>t, <1>m, <2>1, <2>2, SentStays
<1>4. CASE FlushHead(t)
  <2>1. received' = received
    BY <1>4 DEF FlushHead, network
  <2>2. CASE txQ = <<>>
    <3>1. UNCHANGED <<txQ, seek>>
      BY <1>4, <2>2 DEF FlushHead
    <3> QED BY <1>t, <1>m, <2>1, <3>1, SentQuiet
  <2>3. CASE txQ # <<>>
    <3>1. seek' = [seek EXCEPT ![t] = Head(txQ)] /\ (txQ' = txQ \/ Dequeue(Head(txQ)))
      BY <1>4, <2>3 DEF FlushHead
    <3>2. Head(txQ) \in ToSet(txQ)
      BY <1>t, <2>3 DEF ToSet
    <3>3. /\ ToSet(txQ') \subseteq ToSet(txQ)
          /\ \A i, j \in DOMAIN txQ' : txQ'[i] = txQ'[j] => i = j
      BY <1>i, <3>1, DequeuedOnce
    <3>4. \A x \in Txn : Sent(x)' => Sent(x)
      BY <1>t, <2>1, <3>1, <3>2, <3>3 DEF Sent
    <3> QED BY <1>t, <1>m, <3>3, <3>4, SentStays
  <2> QED BY <2>2, <2>3
<1>5. CASE Transmit(t)
  <2>1. /\ seek' = [seek EXCEPT ![t] = None] \/ seek' = seek
        /\ received' \subseteq received \cup {seek[t]}
        /\ txQ' = txQ \/ Dequeue(seek[t])
    BY <1>5 DEF Transmit
  <2>2. /\ ToSet(txQ') \subseteq ToSet(txQ)
        /\ \A i, j \in DOMAIN txQ' : txQ'[i] = txQ'[j] => i = j
    BY <1>i, <2>1, DequeuedOnce
  <2>3. \A x \in Txn : Sent(x)' => Sent(x)
    BY <1>t, <2>1, <2>2 DEF Sent
  <2> QED BY <1>t, <1>m, <2>2, <2>3, SentStays
<1> QED BY <1>1, <1>2, <1>3, <1>4, <1>5 DEF Flush, Cleanup

LEMMA SentByGetTxn ==
  ASSUME ClientInv, ClientInv', SentOnce, NEW t \in Caller, GetTxn(t)
  PROVE  SentOnce'
<1> USE DEF GetTxn, At, Goto
<1>t. /\ pc \in [Thread -> Label] /\ cur \in [Thread -> Txn \cup {None}] /\ t \in Thread
      /\ Caller \subseteq Thread /\ nextTxn \in Nat /\ Txn \subseteq Nat
  BY TxnNumbers DEF ClientInv, ClientTypeOK, Thread
<1>s. UNCHANGED <<txQ, seek, received>>
  BY DEF network
<1>1. CASE nextTxn \in Txn /\ nextTxn' = nextTxn + 1 /\ cur' = [cur EXCEPT ![t] = nextTxn]
  <2>1. \A x \in Txn : Sent(x)' <=> Sent(x)
    BY <1>s DEF Sent
  <2>2. \A x \in Txn : Sent(x)' => x < nextTxn'
    BY <1>1, <1>t, <2>1 DEF SentOnce
  <2>3. ASSUME NEW u \in Caller, pc'[u] \in Fresh PROVE ~(Sent(cur[u])')
    <3>1. CASE u = t
      <4>1. cur'[u] = nextTxn /\ ~Sent(nextTxn)
        BY <1>1, <1>t, <3>1 DEF SentOnce
      <4> QED BY <1>s, <4>1 DEF Sent
    <3>2. CASE u # t
      <4>1. pc'[u] = pc[u] /\ cur'[u] = cur[u]
        BY <1>1, <1>t, <3>2 DEF PutRef
      <4>2. ~Sent(cur[u])
        BY <2>3, <4>1 DEF SentOnce
      <4> QED BY <1>s, <4>1, <4>2 DEF Sent
    <3> QED BY <3>1, <3>2
  <2> QED BY <1>s, <2>2, <2>3 DEF SentOnce
<1>2. CASE PutRef(t) /\ nextTxn' = nextTxn
  <2>1. pc'[t] \notin Fresh /\ \A u \in Caller : u # t => pc'[u] = pc[u] /\ cur'[u] = cur[u]
    BY <1>2, <1>t DEF PutRef, Fresh
  <2> QED BY <1>2, <1>s, <2>1, SentQuiet
<1> QED BY <1>1, <1>2

LEMMA SentByEnqueue ==
  ASSUME ClientInv, ClientInv', SentOnce, NEW t \in Caller, Enqueue(t) \/ DeleteFromQueue(t)
  PROVE  SentOnce'
<1> USE DEF At, Goto
<1>t. /\ pc \in [Thread -> Label] /\ cur \in [Thread -> Txn \cup {None}] /\ t \in Thread
      /\ Caller \subseteq Thread /\ txQ \in Seq(Txn)
  BY DEF ClientInv, ClientTypeOK, Thread
<1>i. \A i, j \in DOMAIN txQ : txQ[i] = txQ[j] => i = j
  BY DEF SentOnce
<1>1. CASE Enqueue(t)
  <2>1. UNCHANGED <<nextTxn, seek, received, cur>> /\ pc[t] = "enqueue"
    BY <1>1 DEF Enqueue, network, locals
  <2>2. pc[t] \in Fresh /\ ~Sent(cur[t])
    BY <2>1 DEF Fresh, SentOnce
  <2>3. \A u \in Caller : u # t => pc'[u] = pc[u]
    BY <1>1, <1>t DEF Enqueue
  <2>4. CASE accepting
    <3>1. txQ' = Append(txQ, cur[t]) /\ pc'[t] \notin Fresh
      BY <1>1, <1>t, <2>4 DEF Enqueue, Fresh
    <3>2. cur[t] \in Txn /\ cur[t] \notin ToSet(txQ)
      BY <2>2, FreshCur DEF Sent
    <3>3. /\ ToSet(txQ') = ToSet(txQ) \cup {cur[t]}
          /\ \A i, j \in DOMAIN txQ' : txQ'[i] = txQ'[j] => i = j
      BY <1>t, <1>i, <3>1, <3>2, AppendedOnce
    <3>4. \A x \in Txn : Sent(x)' => Sent(x) \/ x = cur[t]
      BY <2>1, <3>3 DEF Sent
    <3>5. \A x \in Txn : Sent(x)' => x < nextTxn'
      BY <2>1, <2>2, <3>4, FreshCur DEF SentOnce
    <3>6. ASSUME NEW u \in Caller, pc'[u] \in Fresh PROVE ~(Sent(cur[u])')
      <4>1. u # t /\ pc[u] \in Fresh /\ cur'[u] = cur[u] /\ cur[u] # cur[t] /\ ~Sent(cur[u])
        BY <2>1, <2>2, <2>3, <3>1, <3>6, FreshCur DEF SentOnce
      <4> QED BY <2>1, <3>3, <4>1 DEF Sent
    <3> QED BY <3>3, <3>5, <3>6 DEF SentOnce
  <2>5. CASE ~accepting
    <3>1. txQ' = txQ
      BY <1>1, <2>5 DEF Enqueue
    <3> QED BY <2>1, <2>2, <2>3, <3>1, SentQuiet
  <2> QED BY <2>4, <2>5
<1>2. CASE DeleteFromQueue(t)
  <2>1. UNCHANGED <<nextTxn, seek, received, cur>> /\ pc' = [pc EXCEPT ![t] = "delList"]
    BY <1>2 DEF DeleteFromQueue, network, locals
  <2>2. txQ' = txQ \/ Dequeue(cur[t])
    BY <1>2 DEF DeleteFromQueue
  <2>3. /\ ToSet(txQ') \subseteq ToSet(txQ)
        /\ \A i, j \in DOMAIN txQ' : txQ'[i] = txQ'[j] => i = j
    BY <1>i, <2>2, DequeuedOnce
  <2>4. \A x \in Txn : Sent(x)' => Sent(x)
    BY <2>1, <2>3 DEF Sent
  <2>5. \A u \in Caller : pc'[u] \in Fresh => pc[u] \in Fresh /\ cur'[u] = cur[u]
    BY <1>t, <2>1 DEF Fresh
  <2> QED BY <2>1, <2>3, <2>4, <2>5, SentStays
<1> QED BY <1>1, <1>2

LEMMA SentNext ==
  ASSUME ClientInv, ClientInv', SentOnce, [ClientNext]_vars
  PROVE  SentOnce'
<1>1. ASSUME NEW t \in Caller, Begin(t) \/ CallerStep(t) \/ WaitTimedOut(t)
      PROVE  SentOnce'
  <2>1. t \in Thread
    BY DEF Thread
  <2> QED BY <1>1, <2>1, SentByCall, SentByShared, SentByGetTxn, SentByEnqueue DEF CallerStep
<1>2. CASE ReaderStep \/ Receive \/ ResumeTx \/ ReaderBreaks \/ Vanish
  <2>1. Reader \in Thread
    BY DEF Thread
  <2> QED BY <1>2, <2>1, SentByReader, SentByShared DEF ReaderStep
<1>3. CASE UNCHANGED vars
  <2>1. UNCHANGED <<txQ, seek, nextTxn, received, pc, cur>>
    BY <1>3 DEF vars, lists, network, locals
  <2> QED BY <2>1, SentQuiet
<1> QED BY <1>1, <1>2, <1>3 DEF ClientNext

-----------------------------------------------------------------------------
(* The references of a transaction are counted.                            *)
(* What a step does to the structures, to the owners and to the calls.     *)

TxnKept == \A y \in Txn : txn'[y].kind = txn[y].kind /\ txn'[y].ref = txn[y].ref

Dropped(x, k) ==
  \A y \in Txn :
    /\ txn'[y].kind = txn[y].kind
    /\ txn'[y].ref = IF y = x THEN Less(txn[y].ref, k) ELSE txn[y].ref

\* A caller goes on neither taking nor leaving a reference.
Still(u) ==
  \/ pc'[u] = pc[u] /\ cur'[u] = cur[u]
  \/ /\ pc[u] \notin {"created", "enqueue"} /\ pc'[u] \notin {"created", "enqueue"}
     /\ \/ cur'[u] = cur[u]
        \/ (cur[u] = None \/ ~IsSync(cur[u])) /\ (cur'[u] = None \/ ~IsSync(cur'[u]))

CallQueues(x) == \E u \in Caller : Queues(u, x)

SameOwner(x) == Owned(x)' <=> Owned(x)
SameQueue(x) == Queued(x)' <=> Queued(x)
SameWait(x)  == Waited(x)' <=> Waited(x)

\* The references that are gained or lost are those that are counted up or
\* down, or the transaction had been freed.
LEMMA CountedBy ==
  ASSUME ClientInv, Counted, nextTxn' = nextTxn, misused \subseteq misused',
         \A y \in Txn : y < nextTxn =>
           \/ y \in misused'
           \/ SameOwner(y) /\ SameQueue(y) /\ SameWait(y) /\ txn'[y].ref = txn[y].ref
           \/ /\ Owned(y) /\ ~(Owned(y)') /\ SameQueue(y) /\ SameWait(y)
              /\ txn'[y].ref = Less(txn[y].ref, 1)
           \/ /\ SameOwner(y) /\ Queued(y) /\ ~(Queued(y)') /\ SameWait(y)
              /\ txn'[y].ref = Less(txn[y].ref, 1)
           \/ /\ SameOwner(y) /\ SameQueue(y) /\ Waited(y) /\ ~(Waited(y)')
              /\ txn'[y].ref = Less(txn[y].ref, 1)
           \/ /\ Owned(y) /\ ~(Owned(y)') /\ SameQueue(y) /\ Waited(y) /\ ~(Waited(y)')
              /\ txn'[y].ref = Less(txn[y].ref, 2)
           \/ /\ SameOwner(y) /\ ~Queued(y) /\ Queued(y)' /\ SameWait(y)
              /\ txn'[y].ref = txn[y].ref + 1
           \/ /\ SameOwner(y) /\ SameQueue(y) /\ ~Waited(y) /\ Waited(y)'
              /\ txn'[y].ref = txn[y].ref + 1
  PROVE  Counted'
<1> SUFFICES ASSUME NEW y \in 1..nextTxn - 1, y \notin misused'
             PROVE  txn'[y].ref = RefsOf(y)'
  BY DEF Counted
<1>1. y \in Txn /\ y < nextTxn
  BY ClientAssumption DEF ClientInv, ClientTypeOK, Txn
<1>2. txn[y].ref = RefsOf(y)
  BY DEF Counted
<1>3. /\ RefsOf(y) = Count(Owned(y)) + Count(Queued(y)) + Count(Waited(y))
      /\ RefsOf(y)' = Count(Owned(y)') + Count(Queued(y)') + Count(Waited(y)')
  BY DEF RefsOf, Count
<1> QED BY <1>1, <1>2, <1>3 DEF SameOwner, SameQueue, SameWait, Count, Less

LEMMA StillCalls ==
  ASSUME ClientInv, \A y \in Txn : txn'[y].kind = txn[y].kind, \A u \in Caller : Still(u)
  PROVE  \A y \in Txn : SameWait(y) /\ (CallQueues(y)' <=> CallQueues(y))
<1> SUFFICES ASSUME NEW y \in Txn PROVE SameWait(y) /\ (CallQueues(y)' <=> CallQueues(y))
  OBVIOUS
<1>1. IsSync(y)' <=> IsSync(y)
  BY DEF IsSync
<1>2. y # None
  BY TxnNumbers
<1>3. ASSUME NEW u \in Caller
      PROVE  (Waits(u, y)' <=> Waits(u, y)) /\ (Queues(u, y)' <=> Queues(u, y))
  <2>1. Still(u)
    OBVIOUS
  <2>2. CASE pc'[u] = pc[u] /\ cur'[u] = cur[u]
    BY <1>1, <2>2 DEF Waits, Queues, At
  <2>3. CASE /\ pc[u] \notin {"created", "enqueue"} /\ pc'[u] \notin {"created", "enqueue"}
             /\ \/ cur'[u] = cur[u]
                \/ (cur[u] = None \/ ~IsSync(cur[u])) /\ (cur'[u] = None \/ ~IsSync(cur'[u]))
    BY <1>1, <1>2, <2>3 DEF Waits, Queues, At
  <2> QED BY <2>1, <2>2, <2>3 DEF Still
<1> QED BY <1>3 DEF SameWait, Waited, CallQueues

\* A step that changes no count, no owner and no queue.
LEMMA CountedQuiet ==
  ASSUME ClientInv, Counted, UNCHANGED <<nextTxn, txQ>>, misused \subseteq misused', TxnKept,
         \A y \in Txn : SameOwner(y), \A u \in Caller : Still(u)
  PROVE  Counted'
<1>1. \A y \in Txn : SameWait(y) /\ (CallQueues(y)' <=> CallQueues(y))
  BY StillCalls DEF TxnKept
<1>2. \A y \in Txn : SameQueue(y)
  BY <1>1 DEF SameQueue, Queued, CallQueues
<1> QED BY <1>1, <1>2, CountedBy DEF TxnKept

\* A request leaves the queue, with the queue's reference.
LEMMA QueueDrops ==
  ASSUME ClientInv, SentOnce, Counted, nextTxn' = nextTxn, misused' = misused,
         NEW x, Dequeue(x), Dropped(x, 1),
         \A y \in Txn : SameOwner(y), \A u \in Caller : Still(u)
  PROVE  Counted'
<1>1. \A y \in Txn : SameWait(y) /\ (CallQueues(y)' <=> CallQueues(y))
  BY StillCalls DEF Dropped
<1>2. x \in ToSet(txQ) /\ x \in Txn /\ ToSet(txQ') = ToSet(txQ) \ {x}
  BY DequeuedOnce
<1>3. ~CallQueues(x)
  BY <1>2 DEF CallQueues, Queues, At, SentOnce, Fresh, Sent
<1>4. \A y \in Txn : y # x => SameQueue(y)
  BY <1>1, <1>2 DEF SameQueue, Queued, CallQueues
<1>5. Queued(x) /\ ~(Queued(x)')
  BY <1>1, <1>2, <1>3 DEF Queued, CallQueues
<1> QED BY <1>1, <1>2, <1>4, <1>5, CountedBy DEF Dropped

\* Whoever has the reference of the list drops it.
LEMMA OwnerDrops ==
  ASSUME ClientInv, Counted, UNCHANGED <<nextTxn, txQ, misused>>,
         NEW x \in Txn, Dropped(x, 1), Owned(x), ~(Owned(x)'),
         \A y \in Txn : y # x => SameOwner(y), \A u \in Caller : Still(u)
  PROVE  Counted'
<1>1. \A y \in Txn : SameWait(y) /\ (CallQueues(y)' <=> CallQueues(y))
  BY StillCalls DEF Dropped
<1>2. \A y \in Txn : SameQueue(y)
  BY <1>1 DEF SameQueue, Queued, CallQueues
<1> QED BY <1>1, <1>2, CountedBy DEF Dropped

\* What the assignments to a structure mean for its references.
LEMMA FieldDropped ==
  ASSUME txn \in [Txn -> Record], NEW x \in Txn, NEW k \in 1..2,
         \/ txn' = [txn EXCEPT ![x].ref = Less(@, k)]
         \/ txn' = [txn EXCEPT ![x].rxBuf = FALSE, ![x].ref = Less(@, k)]
  PROVE  Dropped(x, k)
BY DEF Dropped, Record

LEMMA DecDropped ==
  ASSUME txn \in [Txn -> Record], NEW x \in Txn, Dec(x)
  PROVE  Dropped(x, 1)
BY DEF Dropped, Dec, Record

LEMMA FailedDropped ==
  ASSUME txn \in [Txn -> Record], NEW x \in Txn, NEW b,
         txn' = [txn EXCEPT ![x] = Failed(@, b)]
  PROVE  Dropped(x, 1)
<1>1. txn[x] \in Record
  OBVIOUS
<1>2. Failed(txn[x], b).kind = txn[x].kind /\ Failed(txn[x], b).ref = Less(txn[x].ref, 1)
  BY <1>1 DEF Failed, Record
<1>3. \A y \in Txn : txn'[y] = IF y = x THEN Failed(txn[x], b) ELSE txn[y]
  OBVIOUS
<1> QED BY <1>2, <1>3 DEF Dropped

LEMMA AnsweredDropped ==
  ASSUME txn \in [Txn -> Record], NEW x \in Txn, txn' = [txn EXCEPT ![x] = Answered(@)]
  PROVE  Dropped(x, 1)
<1>1. txn[x] \in Record
  OBVIOUS
<1>2. Answered(txn[x]).kind = txn[x].kind /\ Answered(txn[x]).ref = Less(txn[x].ref, 1)
  BY <1>1 DEF Answered, Record
<1>3. \A y \in Txn : txn'[y] = IF y = x THEN Answered(txn[x]) ELSE txn[y]
  OBVIOUS
<1> QED BY <1>2, <1>3 DEF Dropped

LEMMA FieldKept ==
  ASSUME txn \in [Txn -> Record], NEW x \in Txn,
         \/ txn' = txn
         \/ txn' = [txn EXCEPT ![x].signal = FALSE]
         \/ txn' = [txn EXCEPT ![x].rxBuf = FALSE]
         \/ txn' = [txn EXCEPT ![x].signal = FALSE, ![x].rc = "timeout"]
  PROVE  TxnKept
BY DEF TxnKept, Record

\* Steps of calls that change no reference.
LEMMA CountedByCall ==
  ASSUME ClientInv, Counted, NEW t \in Caller,
         \/ Begin(t) \/ CheckXport(t) \/ Prepare(t) \/ FlushAddr(t)
         \/ WaitResponse(t) \/ WaitTimedOut(t) \/ UnsentSync(t) \/ Return(t)
         \/ Invalidate(t) \/ Register(t) \/ TellNow(t) \/ Unlink(t) \/ StopAccepting(t)
         \/ Close(t) \/ Join(t) \/ Released(t) \/ Lookup(t) \/ JoinInit(t)
  PROVE  Counted'
<1> USE DEF At, Goto, PutRef, Call, GetRef
<1>t. /\ pc \in [Thread -> Label] /\ cur \in [Thread -> Txn \cup {None}] /\ t \in Thread
      /\ Caller \subseteq Thread /\ txn \in [Txn -> Record] /\ None \notin Txn
  BY TxnNumbers DEF ClientInv, ClientTypeOK, Thread
<1>k. KindOf(t) /\ \A x \in handles : ~IsSync(x)
  BY DEF ClientInv, Kinds, Owners
<1>1. CASE Prepare(t) \/ WaitResponse(t) \/ WaitTimedOut(t) \/ UnsentSync(t) \/ Invalidate(t)
  <2>1. UNCHANGED <<nextTxn, txQ, txnList, hand, cur>> /\ misused \subseteq misused'
    BY <1>1 DEF Prepare, WaitResponse, WaitTimedOut, UnsentSync, Invalidate, lists, locals, Touch
  <2>2. cur[t] \in Txn
    BY <1>1, <1>k, <1>t DEF Prepare, WaitResponse, WaitTimedOut, UnsentSync, Invalidate,
       KindOf, Awaiting, Sending
  <2>3. TxnKept
    BY <1>1, <1>t, <2>2, FieldKept DEF Prepare, WaitResponse, WaitTimedOut, UnsentSync,
       Invalidate
  <2>4. \A u \in Caller : Still(u)
    BY <1>1, <1>t, <2>1 DEF Prepare, WaitResponse, WaitTimedOut, UnsentSync, Invalidate, Still
  <2> QED BY <2>1, <2>3, <2>4, CountedQuiet DEF SameOwner, Owned
<1>2. CASE Begin(t) \/ CheckXport(t) \/ FlushAddr(t) \/ Return(t)
  <2>1. UNCHANGED <<txn, nextTxn, txQ, txnList, hand, misused>>
    BY <1>2 DEF Begin, BeginSend, BeginDelete, BeginRegister, BeginRelease, CheckXport,
       FlushAddr, Return, unchangedByEnd, lists, locals, user
  <2>4. \A u \in Caller : Still(u)
    BY <1>2, <1>t, <1>k DEF Begin, BeginSend, BeginDelete, BeginRegister, BeginRelease,
       CheckXport, FlushAddr, Return, locals, Still, KindOf, Awaiting, Sending, Deleting,
       SharedLabel
  <2> QED BY <2>1, <2>4, CountedQuiet DEF SameOwner, Owned, TxnKept
<1>3. CASE \/ Register(t) \/ TellNow(t) \/ Unlink(t) \/ StopAccepting(t) \/ Close(t)
           \/ Join(t) \/ Released(t) \/ Lookup(t) \/ JoinInit(t)
  <2>1. UNCHANGED <<txn, nextTxn, txQ, txnList, hand, misused>>
    BY <1>3 DEF Register, TellNow, Unlink, StopAccepting, Close, Join, JoinInit, Joined,
       Released, Lookup, unchangedByEnd, lists, locals, user
  <2>4. \A u \in Caller : Still(u)
    BY <1>3, <1>t, <1>k DEF Register, TellNow, Unlink, StopAccepting, Close, Join, JoinInit,
       Joined, Released, Lookup, locals, Still, KindOf, Awaiting, Sending, Deleting, SharedLabel
  <2> QED BY <2>1, <2>4, CountedQuiet DEF SameOwner, Owned, TxnKept
<1> QED BY <1>1, <1>2, <1>3

\* The reader takes a reference over, and drops it.
LEMMA CountedByReader ==
  ASSUME ClientInv, Counted,
         \/ Delivered \/ ServerGone \/ Notify \/ TellError \/ ReaderExit \/ ReaderBreaks
         \/ Receive \/ ResumeTx \/ Vanish
  PROVE  Counted'
<1> USE DEF At, Goto
<1>t. /\ Reader \in Thread /\ Reader \notin Caller /\ Caller \subseteq Thread
      /\ txn \in [Txn -> Record] /\ hand \in [Thread -> SUBSET Txn]
      /\ pc \in [Thread -> Label] /\ txnList \subseteq Txn
  BY ClientAssumption DEF ClientInv, ClientTypeOK, Thread
<1>s. \A u \in Caller : Still(u)
  BY <1>t DEF Still, Delivered, ServerGone, Notify, TellError, ReaderExit, ReaderBreaks,
     Receive, ResumeTx, Vanish, locals
<1>q. UNCHANGED <<nextTxn, txQ, misused>>
  BY DEF Delivered, ServerGone, Notify, TellError, ReaderExit, ReaderBreaks, Receive, ResumeTx,
     Vanish, lists, user
<1>1. CASE ServerGone \/ Notify \/ TellError \/ ReaderExit \/ ReaderBreaks \/ ResumeTx \/ Vanish
  <2>1. UNCHANGED <<txn, txnList, hand>>
    BY <1>1 DEF ServerGone, Notify, TellError, ReaderExit, ReaderBreaks, ResumeTx, Vanish,
       lists, locals
  <2> QED BY <1>s, <1>q, <2>1, CountedQuiet DEF SameOwner, Owned, TxnKept
<1>2. CASE Receive
  <2>1. txn' = txn
    BY <1>2 DEF Receive
  <2>2. ASSUME NEW x \in txnList, txnList' = txnList \ {x}, hand' = [hand EXCEPT ![Reader] = {x}],
               pc[Reader] = "poll"
        PROVE  \A y \in Txn : SameOwner(y)
    <3>1. hand[Reader] = {}
      BY <1>t, <2>2 DEF ClientInv, Places
    <3>2. \A u \in Thread : hand'[u] = IF u = Reader THEN {x} ELSE hand[u]
      BY <1>t, <2>2
    <3> QED BY <1>t, <2>2, <3>1, <3>2 DEF SameOwner, Owned
  <2>3. \A y \in Txn : SameOwner(y)
    BY <1>2, <2>2 DEF Receive, SameOwner, Owned
  <2> QED BY <1>s, <1>q, <2>1, <2>3, CountedQuiet DEF TxnKept
<1>3. CASE Delivered
  <2>1. PICK x \in hand[Reader] :
          /\ \/ Deliver(x)
             \/ txn' = [txn EXCEPT ![x] = Failed(@, txn[x].rxBuf)]
          /\ hand' = [hand EXCEPT ![Reader] = @ \ {x}]
    BY <1>3 DEF Delivered
  <2>2. x \in Txn
    BY <1>t, <2>1
  <2>3. Dropped(x, 1)
    BY <1>t, <2>1, <2>2, DecDropped, AnsweredDropped, FailedDropped DEF Deliver
  <2>4. txnList' = txnList
    BY <1>3 DEF Delivered, lists
  <2>5. \A u \in Thread : hand'[u] = IF u = Reader THEN hand[u] \ {x} ELSE hand[u]
    BY <1>t, <2>1
  <2>6. Owned(x) /\ ~(Owned(x)') /\ \A y \in Txn : y # x => SameOwner(y)
    BY <1>t, <2>1, <2>4, <2>5 DEF SameOwner, Owned, ClientInv, Owners
  <2> QED BY <1>s, <1>q, <2>2, <2>3, <2>6, OwnerDrops
<1> QED BY <1>1, <1>2, <1>3

\* flush_tx_q and cleanup_client_lists drop the reference of what they take out.
LEMMA CountedByShared ==
  ASSUME ClientInv, SentOnce, Counted, NEW t \in Thread, Flush(t) \/ Cleanup(t)
  PROVE  Counted'
<1> USE DEF At, Goto
<1>t. /\ pc \in [Thread -> Label] /\ Caller \subseteq Thread
      /\ txn \in [Txn -> Record] /\ hand \in [Thread -> SUBSET Txn]
      /\ txnList \subseteq Txn /\ txQ \in Seq(Txn)
  BY DEF ClientInv, ClientTypeOK, Thread
<1>c. pc[t] \in SharedLabel /\ pc'[t] \in SharedLabel \cup {ret[t]}
      /\ cur' = cur /\ \A u \in Caller : u # t => pc'[u] = pc[u]
  BY <1>t DEF Flush, Cleanup, FlushAddr, FlushHead, Transmit, FailUnsent,
     DetachQueue, DetachList, FailNext, locals, SharedLabel
<1>s. \A u \in Caller : Still(u)
  BY <1>c, ReturnsTo DEF Still, SharedLabel
<1>q. UNCHANGED <<nextTxn, misused>>
  BY DEF Flush, Cleanup, FlushAddr, FlushHead, Transmit, FailUnsent,
     DetachQueue, DetachList, FailNext, user
<1>1. CASE FlushAddr(t) \/ FlushHead(t) \/ Transmit(t)
  <2>1. UNCHANGED <<txnList, hand>>
    BY <1>1 DEF FlushAddr, FlushHead, Transmit, lists, locals
  <2>2. UNCHANGED <<txn, txQ>> \/ \E x : Dequeue(x)
    BY <1>1 DEF FlushAddr, FlushHead, Transmit, lists
  <2>3. CASE UNCHANGED <<txn, txQ>>
    BY <1>s, <1>q, <2>1, <2>3, CountedQuiet DEF SameOwner, Owned, TxnKept
  <2>4. ASSUME NEW x, Dequeue(x) PROVE Counted'
    <3>1. x \in Txn
      BY <2>4, DequeuedOnce
    <3>2. Dropped(x, 1)
      BY <1>t, <2>4, <3>1, DecDropped DEF Dequeue
    <3>3. \A y \in Txn : SameOwner(y)
      BY <2>1 DEF SameOwner, Owned
    <3> QED BY <1>s, <1>q, <2>4, <3>2, <3>3, QueueDrops
  <2> QED BY <2>2, <2>3, <2>4
<1>2. CASE FailUnsent(t)
  <2>1. UNCHANGED <<txQ, hand>>
    BY <1>2 DEF FailUnsent
  <2>2. CASE seek[t] \in txnList
    <3>1. PICK x \in txnList : /\ txnList' = txnList \ {x}
                               /\ txn' = [txn EXCEPT ![x] = Failed(@, txn[x].rxBuf)]
      BY <1>2, <2>2 DEF FailUnsent
    <3>2. x \in Txn /\ Owned(x)
      BY <1>t DEF Owned
    <3>3. Dropped(x, 1)
      BY <1>t, <3>1, <3>2, FailedDropped
    <3>4. ~(Owned(x)') /\ \A y \in Txn : y # x => SameOwner(y)
      BY <1>t, <2>1, <3>1 DEF SameOwner, Owned, ClientInv, Owners
    <3> QED BY <1>s, <1>q, <2>1, <3>2, <3>3, <3>4, OwnerDrops
  <2>3. CASE seek[t] \notin txnList
    <3>1. UNCHANGED <<txn, txnList>>
      BY <1>2, <2>3 DEF FailUnsent
    <3> QED BY <1>s, <1>q, <2>1, <3>1, CountedQuiet DEF SameOwner, Owned, TxnKept
  <2> QED BY <2>2, <2>3
<1>3. CASE DetachQueue(t)
  <2>1. /\ txn' = [x \in Txn |-> IF x \in ToSet(txQ)
                                 THEN [txn[x] EXCEPT !.ref = Less(@, 1)] ELSE txn[x]]
        /\ txQ' = <<>> /\ UNCHANGED <<txnList, hand>>
    BY <1>3 DEF DetachQueue, locals
  <2>2. \A y \in Txn :
          /\ txn'[y].kind = txn[y].kind
          /\ txn'[y].ref = IF y \in ToSet(txQ) THEN Less(txn[y].ref, 1) ELSE txn[y].ref
    BY <1>t, <2>1 DEF Record
  <2>3. \A y \in Txn : SameOwner(y) /\ SameWait(y) /\ (CallQueues(y)' <=> CallQueues(y))
    BY <1>s, <2>1, <2>2, StillCalls DEF SameOwner, Owned
  <2>4. \A y : y \notin ToSet(txQ')
    BY <2>1 DEF ToSet
  <2>5. \A y \in Txn : y \in ToSet(txQ) => Queued(y) /\ ~CallQueues(y) /\ ~(Queued(y)')
    <3>1. \A y \in Txn : y \in ToSet(txQ) => ~CallQueues(y)
      BY DEF CallQueues, Queues, SentOnce, Fresh, Sent
    <3> QED BY <2>3, <2>4, <3>1 DEF Queued, CallQueues
  <2>6. \A y \in Txn : y \notin ToSet(txQ) => SameQueue(y)
    BY <2>3, <2>4 DEF SameQueue, Queued, CallQueues
  <2>7. misused \subseteq misused' /\ nextTxn' = nextTxn
    BY <1>q
  <2> QED BY <2>2, <2>3, <2>5, <2>6, <2>7, CountedBy
<1>4. CASE DetachList(t)
  <2>1. txnList' = {} /\ hand' = [hand EXCEPT ![t] = txnList] /\ UNCHANGED <<txn, txQ>>
    BY <1>4 DEF DetachList
  <2>2. hand[t] = {}
    BY <1>4 DEF DetachList, ClientInv, Places
  <2>3. \A u \in Thread : hand'[u] = IF u = t THEN txnList ELSE hand[u]
    BY <1>t, <2>1
  <2>4. \A y \in Txn : SameOwner(y)
    BY <2>1, <2>2, <2>3 DEF SameOwner, Owned
  <2> QED BY <1>s, <1>q, <2>1, <2>4, CountedQuiet DEF TxnKept
<1>5. CASE FailNext(t)
  <2>1. PICK x \in hand[t] : /\ txn' = [txn EXCEPT ![x] = Failed(@, FALSE)]
                             /\ hand' = [hand EXCEPT ![t] = @ \ {x}]
    BY <1>5 DEF FailNext
  <2>2. UNCHANGED <<txnList, txQ>>
    BY <1>5 DEF FailNext, lists
  <2>3. x \in Txn /\ Dropped(x, 1)
    BY <1>t, <2>1, FailedDropped
  <2>4. \A u \in Thread : hand'[u] = IF u = t THEN hand[u] \ {x} ELSE hand[u]
    BY <1>t, <2>1
  <2>5. Owned(x) /\ ~(Owned(x)') /\ \A y \in Txn : y # x => SameOwner(y)
    BY <1>t, <2>1, <2>2, <2>4 DEF SameOwner, Owned, ClientInv, Owners
  <2> QED BY <1>s, <1>q, <2>2, <2>3, <2>5, OwnerDrops
<1> QED BY <1>1, <1>2, <1>3, <1>4, <1>5 DEF Flush, Cleanup

\* A new transaction has the reference of the list, and nothing else knows it.
LEMMA CountedByGetTxn ==
  ASSUME ClientInv, SentOnce, Counted, NEW t \in Caller, GetTxn(t)
  PROVE  Counted'
<1> USE DEF GetTxn, At, Goto
<1>t. /\ pc \in [Thread -> Label] /\ cur \in [Thread -> Txn \cup {None}] /\ t \in Thread
      /\ Caller \subseteq Thread /\ txn \in [Txn -> Record] /\ hand \in [Thread -> SUBSET Txn]
      /\ txnList \subseteq Txn /\ nextTxn \in Nat /\ Txn \subseteq Nat /\ None \notin Txn
  BY TxnNumbers DEF ClientInv, ClientTypeOK, Thread
<1>k. cur[t] = None
  BY DEF ClientInv, Kinds, KindOf, Awaiting, Sending, SharedLabel, Deleting
<1>q. UNCHANGED <<txQ, hand, misused>>
  BY DEF user
<1>1. ASSUME NEW kind \in {"sync", "async"}, nextTxn \in Txn, nextTxn' = nextTxn + 1,
             txnList' = txnList \cup {nextTxn}, cur' = [cur EXCEPT ![t] = nextTxn],
             txn' = [txn EXCEPT ![nextTxn] =
               [kind |-> kind, ref |-> 1, rc |-> "none", signal |-> FALSE, rxBuf |-> TRUE]],
             pc' = [pc EXCEPT ![t] = IF kind = "sync" THEN "created" ELSE "prepare"]
      PROVE  Counted'
  <2>1. /\ txn'[nextTxn].ref = 1 /\ (txn'[nextTxn].kind = "sync" <=> kind = "sync")
        /\ \A y \in Txn : y # nextTxn => txn'[y] = txn[y]
    BY <1>t, <1>1
  <2>2. ASSUME NEW y \in Txn, y < nextTxn PROVE RefsOf(y)' = RefsOf(y) /\ txn'[y].ref = txn[y].ref
    <3>1. y # nextTxn /\ txn'[y] = txn[y] /\ y # None
      BY <1>t, <2>1, <2>2
    <3>2. Owned(y)' <=> Owned(y)
      BY <1>q, <1>1, <3>1 DEF Owned
    <3>3. ASSUME NEW u \in Caller
          PROVE (Waits(u, y)' <=> Waits(u, y)) /\ (Queues(u, y)' <=> Queues(u, y))
      <4>1. CASE u = t
        <5>1. cur[u] # y /\ cur'[u] # y
          BY <1>t, <1>k, <1>1, <3>1, <4>1
        <5> QED BY <5>1 DEF Waits, Queues
      <4>2. CASE u # t
        <5>1. pc'[u] = pc[u] /\ cur'[u] = cur[u]
          BY <1>t, <1>1, <4>2
        <5> QED BY <3>1, <5>1 DEF Waits, Queues, IsSync
      <4> QED BY <4>1, <4>2
    <3>4. (Queued(y)' <=> Queued(y)) /\ (Waited(y)' <=> Waited(y))
      BY <1>q, <3>3 DEF Queued, Waited
    <3>5. /\ RefsOf(y) = Count(Owned(y)) + Count(Queued(y)) + Count(Waited(y))
          /\ RefsOf(y)' = Count(Owned(y)') + Count(Queued(y)') + Count(Waited(y)')
      BY DEF RefsOf, Count
    <3> QED BY <3>1, <3>2, <3>4, <3>5 DEF Count
  <2>3. PICK x \in Txn : x = nextTxn
    BY <1>1
  <2>4. RefsOf(x)' = 1 /\ txn'[x].ref = 1
    <3>1. x \notin ToSet(txQ)
      BY <1>t, <2>3 DEF SentOnce, Sent
    <3>2. \A u \in Caller : u # t => cur[u] # x
      BY <1>t, <2>3 DEF ClientInv, Owners
    <3>3. \A u \in Caller : u # t => cur'[u] # x
      BY <1>t, <1>1, <3>2
    <3>4. pc'[t] \in {"created", "prepare"} /\ (pc'[t] = "prepare" => ~IsSync(x)')
      BY <1>t, <1>1, <2>1, <2>3 DEF IsSync
    <3>5. ~(Queued(x)') /\ ~(Waited(x)')
      BY <1>q, <3>1, <3>3, <3>4 DEF Queued, Waited, Queues, Waits
    <3>6. Owned(x)'
      BY <1>1, <2>3 DEF Owned
    <3> QED BY <2>1, <2>3, <3>5, <3>6 DEF RefsOf, Count
  <2>5. ASSUME NEW y \in 1..nextTxn' - 1, y \notin misused'
        PROVE  txn'[y].ref = RefsOf(y)'
    <3>1. CASE y = x
      BY <2>4, <3>1
    <3>2. CASE y # x
      <4>1. y \in 1..nextTxn - 1 /\ y \in Txn /\ y < nextTxn
        BY <1>t, <1>1, <2>3, <2>5, <3>2, ClientAssumption DEF Txn
      <4>2. txn[y].ref = RefsOf(y)
        BY <1>q, <2>5, <4>1 DEF Counted
      <4> QED BY <2>2, <4>1, <4>2
    <3> QED BY <3>1, <3>2
  <2> QED BY <2>5 DEF Counted
<1>2. CASE PutRef(t) /\ UNCHANGED <<txn, nextTxn, txnList>>
  <2>1. \A u \in Caller : Still(u)
    BY <1>t, <1>k, <1>2 DEF Still, PutRef
  <2> QED BY <1>q, <1>2, <2>1, CountedQuiet DEF SameOwner, Owned, TxnKept
<1> QED BY <1>1, <1>2

\* A call takes a reference for itself, and one for the queue: neither had one.
LEMMA CountedByTaking ==
  ASSUME ClientInv, SentOnce, Counted, NEW t \in Caller, TakeRef(t) \/ QueueRef(t)
  PROVE  Counted'
<1> USE DEF At, Goto
<1>t. /\ pc \in [Thread -> Label] /\ cur \in [Thread -> Txn \cup {None}] /\ t \in Thread
      /\ Caller \subseteq Thread /\ txn \in [Txn -> Record]
  BY DEF ClientInv, ClientTypeOK, Thread
<1>q. UNCHANGED <<nextTxn, txQ, txnList, hand, cur>> /\ misused \subseteq misused'
  BY DEF TakeRef, QueueRef, lists, locals, Touch
<1>1. PICK x \in Txn : x = cur[t]
  BY FreshCur DEF TakeRef, QueueRef, Fresh
<1>2. \A u \in Caller : u # t => cur[u] # x
  BY <1>1, FreshCur DEF TakeRef, QueueRef, Fresh
<1>3. txn' = [txn EXCEPT ![x].ref = @ + 1]
  BY <1>1 DEF TakeRef, QueueRef, Inc
<1>4. \A y \in Txn : /\ txn'[y].kind = txn[y].kind
                     /\ txn'[y].ref = IF y = x THEN txn[y].ref + 1 ELSE txn[y].ref
  BY <1>t, <1>3 DEF Record
<1>5. \A y \in Txn : SameOwner(y)
  BY <1>q DEF SameOwner, Owned
<1>6. \A u \in Caller : u # t => pc'[u] = pc[u] /\ cur'[u] = cur[u]
  BY <1>t, <1>q DEF TakeRef, QueueRef
<1>7. ASSUME NEW y \in Txn, y # x
      PROVE  SameWait(y) /\ SameQueue(y)
  <2>1. ASSUME NEW u \in Caller
        PROVE  (Waits(u, y)' <=> Waits(u, y)) /\ (Queues(u, y)' <=> Queues(u, y))
    <3>1. CASE u = t
      BY <1>q, <1>1, <1>7, <3>1 DEF Waits, Queues
    <3>2. CASE u # t
      BY <1>4, <1>6, <3>2 DEF Waits, Queues, IsSync
    <3> QED BY <3>1, <3>2
  <2> QED BY <1>q, <2>1 DEF SameWait, SameQueue, Waited, Queued
<1>8. CASE TakeRef(t)
  <2>1. pc[t] = "created" /\ pc'[t] = "prepare"
    BY <1>t, <1>8 DEF TakeRef
  <2>2. IsSync(x) /\ IsSync(x)'
    BY <1>1, <1>4, <2>1 DEF ClientInv, Kinds, KindOf, Awaiting, IsSync
  <2>3. ~Waited(x) /\ Waited(x)'
    BY <1>q, <1>1, <1>2, <2>1, <2>2 DEF Waited, Waits
  <2>4. SameQueue(x)
    BY <1>q, <1>1, <1>6, <2>1 DEF SameQueue, Queued, Queues
  <2> QED BY <1>q, <1>4, <1>5, <1>7, <2>3, <2>4, CountedBy
<1>9. CASE QueueRef(t)
  <2>1. pc[t] = "queueRef" /\ pc'[t] = "enqueue"
    BY <1>t, <1>9 DEF QueueRef
  <2>2. x \notin ToSet(txQ)
    BY <1>1, <2>1 DEF SentOnce, Fresh, Sent
  <2>3. ~Queued(x) /\ Queued(x)'
    BY <1>q, <1>1, <1>2, <2>1, <2>2 DEF Queued, Queues
  <2>4. SameWait(x)
    BY <1>q, <1>1, <1>4, <1>6, <2>1 DEF SameWait, Waited, Waits, IsSync
  <2> QED BY <1>q, <1>4, <1>5, <1>7, <2>3, <2>4, CountedBy
<1> QED BY <1>8, <1>9

\* The queue gets the reference that was taken for it, or the call drops it.
LEMMA CountedByEnqueue ==
  ASSUME ClientInv, SentOnce, Counted, NEW t \in Caller, Enqueue(t)
  PROVE  Counted'
<1> USE DEF At, Goto, Enqueue
<1>t. /\ pc \in [Thread -> Label] /\ cur \in [Thread -> Txn \cup {None}] /\ t \in Thread
      /\ Caller \subseteq Thread /\ txn \in [Txn -> Record] /\ txQ \in Seq(Txn)
  BY DEF ClientInv, ClientTypeOK, Thread
<1>q. UNCHANGED <<nextTxn, txnList, hand, cur, misused>>
  BY DEF locals, user
<1>1. PICK x \in Txn : x = cur[t] /\ x \notin ToSet(txQ)
  BY FreshCur DEF Fresh, SentOnce, Sent
<1>2. \A u \in Caller : u # t => cur[u] # x
  BY <1>1, FreshCur DEF Fresh
<1>3. \A u \in Caller : u # t => pc'[u] = pc[u] /\ cur'[u] = cur[u]
  BY <1>t, <1>q
<1>4. pc[t] = "enqueue" /\ pc'[t] \in {"flush", "unsent"} /\ cur'[t] = x /\ Queued(x)
  BY <1>t, <1>q, <1>1 DEF Queued, Queues
<1>5. \A y \in Txn : txn'[y].kind = txn[y].kind
  BY <1>t, <1>1, RefCounted, DecDropped DEF Dropped
<1>6. \A y \in Txn : SameOwner(y)
  BY <1>q DEF SameOwner, Owned
<1>7. ASSUME NEW y \in Txn PROVE SameWait(y)
  <2>1. ASSUME NEW u \in Caller PROVE Waits(u, y)' <=> Waits(u, y)
    BY <1>1, <1>3, <1>4, <1>5 DEF Waits, IsSync
  <2> QED BY <2>1 DEF SameWait, Waited
<1>8. \A y \in Txn : y # x => (CallQueues(y)' <=> CallQueues(y))
  BY <1>1, <1>3, <1>4 DEF CallQueues, Queues
<1>9. CASE accepting
  <2>1. txQ' = Append(txQ, x) /\ txn' = txn
    BY <1>1, <1>9
  <2>2. ToSet(txQ') = ToSet(txQ) \cup {x}
    BY <1>t, <1>1, <2>1, AppendedOnce DEF SentOnce
  <2>3. \A y \in Txn : SameQueue(y)
    BY <1>4, <1>8, <2>2 DEF SameQueue, Queued, CallQueues
  <2> QED BY <1>q, <1>6, <1>7, <2>1, <2>3, CountedBy
<1>10. CASE ~accepting
  <2>1. txQ' = txQ /\ Dropped(x, 1)
    BY <1>t, <1>1, <1>10, DecDropped
  <2>2. ~(Queued(x)')
    BY <1>1, <1>2, <1>3, <1>4, <1>10, <2>1, <1>t DEF Queued, Queues
  <2>3. \A y \in Txn : y # x => SameQueue(y)
    BY <1>8, <2>1 DEF SameQueue, Queued, CallQueues
  <2> QED BY <1>q, <1>4, <1>6, <1>7, <2>1, <2>2, <2>3, CountedBy DEF Dropped
<1> QED BY <1>9, <1>10

\* A call takes its request out of the queue or the list, with the reference.
LEMMA CountedByTakingOut ==
  ASSUME ClientInv, SentOnce, Counted, NEW t \in Caller,
         DeleteFromQueue(t) \/ UnsentAsync(t) \/ DeleteFromList(t)
  PROVE  Counted'
<1> USE DEF At, Goto
<1>t. /\ pc \in [Thread -> Label] /\ cur \in [Thread -> Txn \cup {None}] /\ t \in Thread
      /\ Caller \subseteq Thread /\ txn \in [Txn -> Record] /\ txnList \subseteq Txn
  BY DEF ClientInv, ClientTypeOK, Thread
<1>k. ~IsSync(cur[t])
  BY DEF DeleteFromQueue, UnsentAsync, DeleteFromList, ClientInv, Kinds, KindOf, Deleting
<1>s. \A u \in Caller : Still(u)
  BY <1>t, <1>k DEF Still, DeleteFromQueue, UnsentAsync, DeleteFromList, locals
<1>q. UNCHANGED <<nextTxn, hand, misused>>
  BY DEF DeleteFromQueue, UnsentAsync, DeleteFromList, locals, user
<1>1. CASE DeleteFromQueue(t)
  <2>1. txnList' = txnList
    BY <1>1 DEF DeleteFromQueue
  <2>2. \A y \in Txn : SameOwner(y)
    BY <1>q, <2>1 DEF SameOwner, Owned
  <2>3. CASE UNCHANGED <<txQ, txn>>
    BY <1>s, <1>q, <2>2, <2>3, CountedQuiet DEF TxnKept
  <2>4. CASE Dequeue(cur[t])
    <3>1. PICK x : x = cur[t] /\ Dequeue(x)
      BY <2>4
    <3>2. Dropped(x, 1)
      BY <1>t, <3>1, DequeuedOnce, DecDropped DEF Dequeue
    <3> QED BY <1>s, <1>q, <2>2, <3>1, <3>2, QueueDrops
  <2> QED BY <1>1, <2>3, <2>4 DEF DeleteFromQueue
<1>2. CASE UnsentAsync(t) \/ DeleteFromList(t)
  <2>1. txQ' = txQ
    BY <1>2 DEF UnsentAsync, DeleteFromList
  <2>2. CASE cur[t] \in txnList
    <3>1. PICK x \in txnList :
            /\ txnList' = txnList \ {x}
            /\ \/ Dec(x)
               \/ txn' = [txn EXCEPT ![x].rxBuf = FALSE, ![x].ref = Less(@, 1)]
      BY <1>2, <2>2 DEF UnsentAsync, DeleteFromList
    <3>2. x \in Txn /\ Dropped(x, 1)
      BY <1>t, <3>1, DecDropped, FieldDropped
    <3>3. Owned(x) /\ ~(Owned(x)') /\ \A y \in Txn : y # x => SameOwner(y)
      BY <1>q, <3>1 DEF SameOwner, Owned, ClientInv, Owners
    <3> QED BY <1>s, <1>q, <2>1, <3>2, <3>3, OwnerDrops
  <2>3. CASE cur[t] \notin txnList
    <3>1. UNCHANGED <<txn, txnList>>
      BY <1>2, <2>3 DEF UnsentAsync, DeleteFromList
    <3> QED BY <1>s, <1>q, <2>1, <3>1, CountedQuiet DEF SameOwner, Owned, TxnKept
  <2> QED BY <2>2, <2>3
<1> QED BY <1>1, <1>2

\* The end of a synchronous call: its own reference and the list's, if nobody
\* has taken that one over.
LEMMA CountedByFinish ==
  ASSUME ClientInv, Counted, NEW t \in Caller, FinishSync(t)
  PROVE  Counted'
<1> USE DEF At, Goto, FinishSync, PutRef
<1>t. /\ pc \in [Thread -> Label] /\ cur \in [Thread -> Txn \cup {None}] /\ t \in Thread
      /\ Caller \subseteq Thread /\ txn \in [Txn -> Record] /\ txnList \subseteq Txn
      /\ None \notin Txn
  BY TxnNumbers DEF ClientInv, ClientTypeOK, Thread
<1>q. UNCHANGED <<nextTxn, txQ, hand, misused>>
  BY DEF unchangedByEnd, user
<1>1. PICK x \in Txn : x = cur[t] /\ IsSync(x)
  BY <1>t DEF ClientInv, Kinds, KindOf, Awaiting
<1>2. \A u \in Caller : u # t => cur[u] # x
  BY <1>t, <1>1 DEF ClientInv, Owners
<1>3. /\ \A u \in Caller : u # t => pc'[u] = pc[u] /\ cur'[u] = cur[u]
      /\ pc[t] = "finish" /\ pc'[t] = "idle" /\ cur'[t] = None
  BY <1>t
<1>4. Dropped(x, IF x \in txnList THEN 2 ELSE 1)
  <2>1. PICK k \in 1..2 : k = IF x \in txnList THEN 2 ELSE 1
    OBVIOUS
  <2>2. txn' = [txn EXCEPT ![x].ref = Less(@, k)]
    BY <1>1, <2>1
  <2> QED BY <1>t, <2>1, <2>2, FieldDropped
<1>5. Waited(x) /\ ~(Waited(x)')
  BY <1>t, <1>1, <1>2, <1>3 DEF Waited, Waits
<1>6. \A y \in Txn : y # x => SameWait(y)
  <2>1. ASSUME NEW y \in Txn, y # x, NEW u \in Caller PROVE Waits(u, y)' <=> Waits(u, y)
    <3>1. CASE u = t
      BY <1>t, <1>1, <1>3, <2>1, <3>1 DEF Waits
    <3>2. CASE u # t
      BY <1>3, <1>4, <3>2 DEF Waits, IsSync, Dropped
    <3> QED BY <3>1, <3>2
  <2> QED BY <2>1 DEF SameWait, Waited
<1>7. \A y \in Txn : SameQueue(y)
  <2>1. ASSUME NEW y \in Txn, NEW u \in Caller PROVE Queues(u, y)' <=> Queues(u, y)
    BY <1>3 DEF Queues
  <2> QED BY <1>q, <2>1 DEF SameQueue, Queued
<1>8. txnList' = txnList \ {x}
  BY <1>1
<1>9. CASE x \in txnList
  <2>1. Owned(x) /\ ~(Owned(x)') /\ \A y \in Txn : y # x => SameOwner(y)
    BY <1>q, <1>8, <1>9 DEF SameOwner, Owned, ClientInv, Owners
  <2> QED BY <1>q, <1>4, <1>5, <1>6, <1>7, <1>9, <2>1, CountedBy DEF Dropped
<1>10. CASE x \notin txnList
  <2>1. \A y \in Txn : SameOwner(y)
    BY <1>q, <1>8, <1>10 DEF SameOwner, Owned
  <2> QED BY <1>q, <1>4, <1>5, <1>6, <1>7, <1>10, <2>1, CountedBy DEF Dropped
<1> QED BY <1>9, <1>10

LEMMA CountedNext ==
  ASSUME ClientInv, SentOnce, Counted, [ClientNext]_vars
  PROVE  Counted'
<1>1. ASSUME NEW t \in Caller, Begin(t) \/ CallerStep(t) \/ WaitTimedOut(t)
      PROVE  Counted'
  <2>1. t \in Thread
    BY DEF Thread
  <2> QED BY <1>1, <2>1, CountedByCall, CountedByShared, CountedByGetTxn, CountedByTaking,
       CountedByEnqueue, CountedByTakingOut, CountedByFinish DEF CallerStep
<1>2. CASE ReaderStep \/ Receive \/ ResumeTx \/ ReaderBreaks \/ Vanish
  <2>1. Reader \in Thread
    BY DEF Thread
  <2> QED BY <1>2, <2>1, CountedByReader, CountedByShared DEF ReaderStep
<1>3. CASE UNCHANGED vars
  <2>1. UNCHANGED <<txn, nextTxn, txnList, txQ, hand, pc, cur, misused>>
    BY <1>3 DEF vars, lists, locals, user
  <2> QED BY <2>1, CountedQuiet DEF SameOwner, Owned, TxnKept, Still
<1> QED BY <1>1, <1>2, <1>3 DEF ClientNext

-----------------------------------------------------------------------------
(* Nothing is touched after it was freed while the service is there.       *)

\* The service does not come back, and the release is not taken back.
LEMMA LostStays == ASSUME [ClientNext]_vars, Lost PROVE Lost'
<1>1. (valid' => valid) /\ (accepting' => accepting)
  <2>1. ASSUME NEW t \in Caller, Begin(t) \/ WaitTimedOut(t) \/ CheckXport(t) \/ GetTxn(t)
               \/ TakeRef(t) \/ Prepare(t) \/ QueueRef(t) \/ Enqueue(t)
        PROVE  (valid' => valid) /\ (accepting' => accepting)
    BY <2>1 DEF Begin, BeginSend, BeginDelete, BeginRegister, BeginRelease, WaitTimedOut,
       CheckXport, GetTxn, TakeRef, Prepare, QueueRef, Enqueue, client, unchangedByEnd
  <2>2. ASSUME NEW t, Flush(t) \/ Cleanup(t)
        PROVE  (valid' => valid) /\ (accepting' => accepting)
    <3>1. UNCHANGED client
      BY <2>2 DEF Flush, Cleanup, FlushAddr, FlushHead, Transmit, FailUnsent, DetachQueue,
         DetachList, FailNext
    <3> QED BY <3>1 DEF client
  <2>3. ASSUME NEW t \in Caller,
               \/ WaitResponse(t) \/ UnsentSync(t) \/ UnsentAsync(t) \/ Return(t)
               \/ Invalidate(t) \/ FinishSync(t) \/ DeleteFromQueue(t) \/ DeleteFromList(t)
        PROVE  (valid' => valid) /\ (accepting' => accepting)
    BY <2>3 DEF WaitResponse, UnsentSync, UnsentAsync, Return, Invalidate, FinishSync,
       DeleteFromQueue, DeleteFromList, client, unchangedByEnd
  <2>4. ASSUME NEW t \in Caller,
               \/ Register(t) \/ TellNow(t) \/ Unlink(t) \/ StopAccepting(t) \/ Close(t)
               \/ Join(t) \/ Released(t) \/ Lookup(t) \/ JoinInit(t)
        PROVE  (valid' => valid) /\ (accepting' => accepting)
    BY <2>4 DEF Register, TellNow, Unlink, StopAccepting, Close, Join, JoinInit, Joined,
       Released, Lookup, client, unchangedByEnd
  <2>5. CASE \/ Delivered \/ ServerGone \/ Notify \/ TellError \/ ReaderExit \/ ReaderBreaks
             \/ Receive \/ ResumeTx \/ Vanish \/ UNCHANGED vars
    BY <2>5 DEF Delivered, ServerGone, Notify, TellError, ReaderExit, ReaderBreaks, Receive,
       ResumeTx, Vanish, vars, client
  <2> QED BY <2>1, <2>2, <2>3, <2>4, <2>5 DEF ClientNext, CallerStep, ReaderStep
<1> QED BY <1>1 DEF Lost

LEMMA CleanedNext ==
  ASSUME ClientInv, CleanedWhenLost, [ClientNext]_vars
  PROVE  CleanedWhenLost'
<1> USE DEF At, Goto, Detaching
<1>t. /\ pc \in [Thread -> Label] /\ Caller \subseteq Thread /\ Reader \in Thread
  BY DEF ClientInv, ClientTypeOK, Thread
<1>0. SUFFICES ASSUME NEW u \in Thread, pc'[u] \in Detaching, ~(Lost') PROVE FALSE
  BY DEF CleanedWhenLost
<1>1. ~Lost /\ pc[u] \notin Detaching
  BY <1>0, LostStays DEF CleanedWhenLost
<1>2. valid /\ accepting /\ valid' /\ accepting'
  BY <1>0, <1>1 DEF Lost
<1>3. ASSUME NEW t \in Caller, Begin(t) \/ WaitTimedOut(t) \/ CheckXport(t) \/ GetTxn(t)
             \/ TakeRef(t) \/ Prepare(t) \/ QueueRef(t) \/ Enqueue(t)
      PROVE  FALSE
  BY <1>t, <1>0, <1>1, <1>3 DEF Begin, BeginSend, BeginDelete, BeginRegister, BeginRelease,
     WaitTimedOut, Call, GetRef, CheckXport, GetTxn, TakeRef, Prepare, QueueRef, Enqueue, PutRef
<1>4. ASSUME NEW t \in Thread, Flush(t) \/ Cleanup(t)
      PROVE  FALSE
  <2>1. pc[t] \in SharedLabel /\ (pc[t] \notin Detaching \/ t # u)
    BY <1>1, <1>4 DEF Flush, Cleanup, FlushAddr, FlushHead, Transmit, FailUnsent, DetachQueue,
       DetachList, FailNext, SharedLabel
  <2>2. ret[t] \notin Detaching
    BY <2>1, ReturnsTo DEF Thread
  <2> QED BY <1>t, <1>0, <1>1, <1>2, <1>4, <2>2 DEF Flush, Cleanup, FlushAddr, FlushHead,
       Transmit, FailUnsent, DetachQueue, DetachList, FailNext
<1>5. ASSUME NEW t \in Caller,
             \/ WaitResponse(t) \/ UnsentSync(t) \/ UnsentAsync(t) \/ Return(t)
             \/ Invalidate(t) \/ FinishSync(t) \/ DeleteFromQueue(t) \/ DeleteFromList(t)
      PROVE  FALSE
  BY <1>t, <1>0, <1>1, <1>5 DEF WaitResponse, UnsentSync, UnsentAsync, Return, Invalidate,
     FinishSync, DeleteFromQueue, DeleteFromList, PutRef
<1>6. ASSUME NEW t \in Caller,
             \/ Register(t) \/ TellNow(t) \/ Unlink(t) \/ StopAccepting(t) \/ Close(t)
             \/ Join(t) \/ Released(t) \/ Lookup(t) \/ JoinInit(t)
      PROVE  FALSE
  BY <1>t, <1>0, <1>1, <1>2, <1>6 DEF Register, TellNow, Unlink, StopAccepting, Close, Join,
     JoinInit, Joined, Released, Lookup, PutRef
<1>7. CASE \/ Delivered \/ ServerGone \/ Notify \/ TellError \/ ReaderExit \/ ReaderBreaks
           \/ Receive \/ ResumeTx \/ Vanish
  BY <1>t, <1>0, <1>1, <1>2, <1>7 DEF Delivered, ServerGone, Notify, TellError, ReaderExit,
     ReaderBreaks, Receive, ResumeTx, Vanish
<1>8. CASE UNCHANGED vars
  BY <1>0, <1>1, <1>8 DEF vars
<1> QED BY <1>t, <1>3, <1>4, <1>5, <1>6, <1>7, <1>8 DEF ClientNext, CallerStep, ReaderStep

\* The list keeps the request of a call until its reference is the queue's too.
LEMMA FreshStays ==
  ASSUME ClientInv, FreshListed, Lost => Lost',
         \A t \in Caller : pc'[t] \in Creating => pc[t] \in Creating /\ cur'[t] = cur[t],
         \A t \in Caller : pc[t] \in Creating /\ cur[t] \in txnList /\ ~Lost =>
           Lost' \/ cur[t] \in txnList'
  PROVE  FreshListed'
BY DEF FreshListed, Creating

LEMMA FreshNext ==
  ASSUME ClientInv, SentOnce, CleanedWhenLost, FreshListed, [ClientNext]_vars
  PROVE  FreshListed'
<1> USE DEF At, Goto, Creating
<1>t. /\ pc \in [Thread -> Label] /\ cur \in [Thread -> Txn \cup {None}]
      /\ Caller \subseteq Thread /\ Reader \in Thread /\ Reader \notin Caller
  BY ClientAssumption DEF ClientInv, ClientTypeOK, Thread
<1>l. Lost => Lost'
  BY LostStays
<1>c. \A t \in Caller : pc[t] \in Creating =>
        /\ cur[t] \in Txn /\ ~Sent(cur[t])
        /\ \A u \in Caller : u # t => cur[u] # cur[t]
  BY FreshCur DEF SentOnce, Fresh
<1>1. ASSUME NEW t \in Caller, Begin(t) \/ WaitTimedOut(t) \/ CheckXport(t)
             \/ WaitResponse(t) \/ UnsentSync(t) \/ Return(t) \/ Invalidate(t)
             \/ DeleteFromQueue(t)
      PROVE  FreshListed'
  <2>1. txnList' = txnList
    BY <1>1 DEF Begin, BeginSend, BeginDelete, BeginRegister, BeginRelease, WaitTimedOut,
       CheckXport, WaitResponse, UnsentSync, Return, Invalidate, DeleteFromQueue, lists
  <2>2. \A u \in Caller : pc'[u] \in Creating => pc[u] \in Creating /\ cur'[u] = cur[u]
    BY <1>1, <1>t DEF Begin, BeginSend, BeginDelete, BeginRegister, BeginRelease, WaitTimedOut,
       Call, GetRef, CheckXport, WaitResponse, UnsentSync, Return, Invalidate,
       DeleteFromQueue, PutRef, locals
  <2> QED BY <1>l, <2>1, <2>2, FreshStays
<1>2. ASSUME NEW t \in Caller, UnsentAsync(t) \/ FinishSync(t) \/ DeleteFromList(t)
      PROVE  FreshListed'
  <2>1. txnList' = txnList \/ txnList' = txnList \ {cur[t]}
    BY <1>2 DEF UnsentAsync, FinishSync, DeleteFromList
  <2>2. \A u \in Caller : pc'[u] \in Creating => pc[u] \in Creating /\ cur'[u] = cur[u]
    BY <1>2, <1>t DEF UnsentAsync, FinishSync, DeleteFromList, PutRef
  <2>3. pc[t] \notin Creating
    BY <1>2 DEF UnsentAsync, FinishSync, DeleteFromList
  <2> QED BY <1>l, <1>c, <2>1, <2>2, <2>3, FreshStays
<1>3. ASSUME NEW t \in Caller, GetTxn(t)
      PROVE  FreshListed'
  <2>1. CASE /\ nextTxn \in Txn /\ txnList' = txnList \cup {nextTxn}
             /\ cur' = [cur EXCEPT ![t] = nextTxn]
    <3>1. cur'[t] \in txnList'
      BY <1>t, <2>1
    <3>2. \A u \in Caller : u # t => pc'[u] = pc[u] /\ cur'[u] = cur[u]
      BY <1>t, <1>3, <2>1 DEF GetTxn, PutRef
    <3>3. \A u \in Caller : u # t /\ pc[u] \in Creating => Lost \/ cur[u] \in txnList
      BY DEF FreshListed
    <3> QED BY <1>l, <2>1, <3>1, <3>2, <3>3 DEF FreshListed
  <2>2. CASE PutRef(t) /\ txnList' = txnList
    <3>1. \A u \in Caller : pc'[u] \in Creating => pc[u] \in Creating /\ cur'[u] = cur[u]
      BY <2>2, <1>t DEF PutRef
    <3> QED BY <1>l, <2>2, <3>1, FreshStays
  <2> QED BY <1>3, <2>1, <2>2 DEF GetTxn
<1>4. ASSUME NEW t \in Caller, TakeRef(t) \/ Prepare(t) \/ QueueRef(t) \/ Enqueue(t)
      PROVE  FreshListed'
  <2>1. UNCHANGED <<txnList, cur>>
    BY <1>4 DEF TakeRef, Prepare, QueueRef, Enqueue, lists, locals
  <2>2. \A u \in Caller : pc'[u] \in Creating => pc[u] \in Creating
    BY <1>4, <1>t DEF TakeRef, Prepare, QueueRef, Enqueue
  <2> QED BY <1>l, <2>1, <2>2, FreshStays
<1>5. ASSUME NEW t \in Thread, Flush(t) \/ Cleanup(t)
      PROVE  FreshListed'
  <2>1. /\ pc[t] \in SharedLabel /\ pc'[t] \in SharedLabel \cup {ret[t]} /\ cur' = cur
        /\ \A u \in Caller : u # t => pc'[u] = pc[u]
    BY <1>5, <1>t DEF Flush, Cleanup, FlushAddr, FlushHead, Transmit, FailUnsent,
       DetachQueue, DetachList, FailNext, locals, SharedLabel
  <2>2. \A u \in Caller : pc'[u] \in Creating => pc[u] \in Creating /\ cur'[u] = cur[u]
    BY <2>1, ReturnsTo DEF SharedLabel
  <2>3. \/ txnList' = txnList
        \/ txnList' = txnList \ {seek[t]}
        \/ pc[t] = "detachList"
    BY <1>5 DEF Flush, Cleanup, FlushAddr, FlushHead, Transmit, FailUnsent,
       DetachQueue, DetachList, FailNext, lists
  <2>4. \A u \in Caller : pc[u] \in Creating => cur[u] # seek[t]
    BY <1>c DEF Sent
  <2>5. pc[t] = "detachList" => Lost
    BY DEF CleanedWhenLost, Detaching
  <2> QED BY <1>l, <2>2, <2>3, <2>4, <2>5, FreshStays
<1>6. ASSUME NEW t \in Caller,
             \/ Register(t) \/ TellNow(t) \/ Unlink(t) \/ StopAccepting(t) \/ Close(t)
             \/ Join(t) \/ Released(t) \/ Lookup(t) \/ JoinInit(t)
      PROVE  FreshListed'
  <2>1. txnList' = txnList
    BY <1>6 DEF Register, TellNow, Unlink, StopAccepting, Close, Join,
       JoinInit, Joined, Released, Lookup, lists
  <2>2. \A u \in Caller : pc'[u] \in Creating => pc[u] \in Creating /\ cur'[u] = cur[u]
    BY <1>6, <1>t DEF Register, TellNow, Unlink, StopAccepting, Close, Join,
       JoinInit, Joined, Released, Lookup, PutRef, locals
  <2> QED BY <1>l, <2>1, <2>2, FreshStays
<1>7. CASE \/ Delivered \/ ServerGone \/ Notify \/ TellError \/ ReaderExit \/ ReaderBreaks
           \/ Receive \/ ResumeTx \/ Vanish \/ UNCHANGED vars
  <2>1. cur' = cur /\ \A u \in Caller : pc'[u] = pc[u]
    BY <1>7, <1>t DEF Delivered, ServerGone, Notify, TellError, ReaderExit, ReaderBreaks,
       Receive, ResumeTx, Vanish, vars, locals
  <2>2. txnList' = txnList \/ \E x \in received : txnList' = txnList \ {x}
    BY <1>7 DEF Delivered, ServerGone, Notify, TellError, ReaderExit, ReaderBreaks, Receive,
       ResumeTx, Vanish, vars, lists
  <2>3. \A u \in Caller : pc[u] \in Creating => cur[u] \notin received
    BY <1>c DEF Sent
  <2> QED BY <1>l, <2>1, <2>2, <2>3, FreshStays
<1> QED BY <1>t, <1>1, <1>2, <1>3, <1>4, <1>5, <1>6, <1>7 DEF ClientNext, CallerStep, ReaderStep

LEMMA Held ==
  ASSUME ClientInv, Counted, NEW x \in Txn, x < nextTxn, Owned(x) \/ Waited(x), Freed(x)
  PROVE  x \in misused
<1>1. x \in 1..nextTxn - 1
  BY DEF ClientInv, ClientTypeOK, Txn
<1>2. RefsOf(x) # 0
  BY DEF RefsOf, Count
<1> QED BY <1>1, <1>2 DEF Counted, Freed

LEMMA TouchNext ==
  ASSUME ClientInv, Counted, FreshListed, NoUseAfterFree, [ClientNext]_vars
  PROVE  NoUseAfterFree'
<1>1. misused' = misused \/
      \E t \in Caller : pc[t] \in Creating \cup {"invalidate"} /\ Touch(cur[t])
  <2>1. ASSUME NEW t \in Caller, Begin(t) \/ WaitTimedOut(t) \/ CheckXport(t) \/ GetTxn(t)
               \/ Enqueue(t) \/ Flush(t) \/ Cleanup(t) \/ WaitResponse(t) \/ UnsentSync(t)
               \/ UnsentAsync(t) \/ Return(t) \/ FinishSync(t) \/ DeleteFromQueue(t)
               \/ DeleteFromList(t)
        PROVE  misused' = misused
    BY <2>1 DEF Begin, BeginSend, BeginDelete, BeginRegister, BeginRelease, WaitTimedOut,
       CheckXport, GetTxn, Enqueue, Flush, Cleanup, FlushAddr, FlushHead, Transmit, FailUnsent,
       DetachQueue, DetachList, FailNext, WaitResponse, UnsentSync, UnsentAsync, Return,
       FinishSync, DeleteFromQueue, DeleteFromList, user
  <2>2. ASSUME NEW t \in Caller,
               \/ Register(t) \/ TellNow(t) \/ Unlink(t) \/ StopAccepting(t) \/ Close(t)
               \/ Join(t) \/ Released(t) \/ Lookup(t) \/ JoinInit(t)
        PROVE  misused' = misused
    BY <2>2 DEF Register, TellNow, Unlink, StopAccepting, Close, Join,
       JoinInit, Joined, Released, Lookup, user
  <2>3. ASSUME NEW t \in Caller, TakeRef(t) \/ Prepare(t) \/ QueueRef(t) \/ Invalidate(t)
        PROVE  pc[t] \in Creating \cup {"invalidate"} /\ Touch(cur[t])
    BY <2>3 DEF TakeRef, Prepare, QueueRef, Invalidate, At, Creating
  <2>4. CASE \/ Delivered \/ ServerGone \/ Notify \/ TellError \/ ReaderExit \/ ReaderBreaks
             \/ Flush(Reader) \/ Cleanup(Reader)
             \/ Receive \/ ResumeTx \/ Vanish \/ UNCHANGED vars
    BY <2>4 DEF Delivered, ServerGone, Notify, TellError, ReaderExit, ReaderBreaks, Receive,
       ResumeTx, Vanish, vars, Flush, Cleanup, FlushAddr, FlushHead, Transmit,
       FailUnsent, DetachQueue, DetachList, FailNext, user
  <2> QED BY <2>1, <2>2, <2>3, <2>4 DEF ClientNext, CallerStep, ReaderStep
<1>2. Lost => Lost'
  BY LostStays
<1>3. misused # {} => Lost
  BY DEF NoUseAfterFree, Lost
<1>4. ASSUME NEW t \in Caller, pc[t] \in Creating \cup {"invalidate"}, Freed(cur[t])
      PROVE  Lost
  <2>1. cur[t] \in Txn /\ cur[t] < nextTxn
    BY <1>4 DEF Creating, ClientInv, ClientTypeOK, Kinds, KindOf, Awaiting, Sending, Owners, Thread
  <2>2. CASE pc[t] \in Creating
    <3>1. Lost \/ Owned(cur[t])
      BY <2>2 DEF FreshListed, Creating, Owned
    <3> QED BY <1>3, <1>4, <2>1, <3>1, Held
  <2>3. CASE pc[t] = "invalidate"
    <3>1. Waited(cur[t])
      BY <2>3 DEF ClientInv, Kinds, KindOf, Awaiting, Waited, Waits, At
    <3> QED BY <1>3, <1>4, <2>1, <3>1, Held
  <2> QED BY <1>4, <2>2, <2>3
<1>5. misused' # {} => Lost
  BY <1>1, <1>3, <1>4 DEF Touch
<1> QED BY <1>2, <1>5 DEF NoUseAfterFree, Lost

-----------------------------------------------------------------------------
(* A waiting call is owed a signal.                                        *)
(* What the assignments to a structure mean for its signal and its code.   *)

SameSignal(y) == (txn'[y].signal <=> txn[y].signal) /\ txn'[y].rc = txn[y].rc

LEMMA FieldSignal ==
  ASSUME txn \in [Txn -> Record], NEW x \in Txn, NEW k \in 1..2,
         \/ txn' = txn
         \/ txn' = [txn EXCEPT ![x].ref = Less(@, k)]
         \/ txn' = [txn EXCEPT ![x].ref = @ + 1]
         \/ txn' = [txn EXCEPT ![x].rxBuf = FALSE]
         \/ txn' = [txn EXCEPT ![x].rxBuf = FALSE, ![x].ref = Less(@, k)]
  PROVE  \A y \in Txn : SameSignal(y)
BY DEF SameSignal, Record

LEMMA ResetSignal ==
  ASSUME txn \in [Txn -> Record], NEW x \in Txn,
         \/ txn' = [txn EXCEPT ![x].signal = FALSE]
         \/ txn' = [txn EXCEPT ![x].signal = FALSE, ![x].rc = "timeout"]
  PROVE  ~txn'[x].signal /\ \A y \in Txn : y # x => SameSignal(y)
BY DEF SameSignal, Record

LEMMA FailedSignal ==
  ASSUME txn \in [Txn -> Record], NEW x \in Txn, NEW b,
         txn' = [txn EXCEPT ![x] = Failed(@, b)]
  PROVE  /\ IsSync(x) => txn'[x].signal
         /\ txn'[x].rc = "failed"
         /\ \A y \in Txn : y # x => SameSignal(y)
<1>1. txn[x] \in Record /\ txn'[x] = Failed(txn[x], b)
  OBVIOUS
<1>2. \A y \in Txn : y # x => txn'[y] = txn[y]
  OBVIOUS
<1>3. /\ IsSync(x) => Failed(txn[x], b).signal
      /\ Failed(txn[x], b).rc = "failed"
  BY <1>1 DEF Failed, IsSync, Record
<1> QED BY <1>1, <1>2, <1>3 DEF SameSignal

LEMMA AnsweredSignal ==
  ASSUME txn \in [Txn -> Record], NEW x \in Txn, txn' = [txn EXCEPT ![x] = Answered(@)]
  PROVE  /\ IsSync(x) => txn'[x].signal
         /\ txn'[x].rc = "ok"
         /\ \A y \in Txn : y # x => SameSignal(y)
<1>1. txn[x] \in Record /\ txn'[x] = Answered(txn[x])
  OBVIOUS
<1>2. \A y \in Txn : y # x => txn'[y] = txn[y]
  OBVIOUS
<1>3. (IsSync(x) => Answered(txn[x]).signal) /\ Answered(txn[x]).rc = "ok"
  BY <1>1 DEF Answered, IsSync, Record
<1> QED BY <1>1, <1>2, <1>3 DEF SameSignal

\* What is left of a transaction in the queue when a thread takes it out.
LEMMA DecSignal ==
  ASSUME txn \in [Txn -> Record], NEW x \in Txn, Dec(x)
  PROVE  \A y \in Txn : SameSignal(y)
BY DEF SameSignal, Dec, Record

LEMMA DetachSignal ==
  ASSUME txn \in [Txn -> Record],
         txn' = [x \in Txn |-> IF x \in ToSet(txQ)
                               THEN [txn[x] EXCEPT !.ref = Less(@, 1)] ELSE txn[x]]
  PROVE  \A y \in Txn : SameSignal(y)
BY DEF SameSignal, Record

LEMMA CreatedSignal ==
  ASSUME txn \in [Txn -> Record], NEW x \in Txn, NEW kind,
         txn' = [txn EXCEPT ![x] =
           [kind |-> kind, ref |-> 1, rc |-> "none", signal |-> FALSE, rxBuf |-> TRUE]]
  PROVE  ~txn'[x].signal /\ \A y \in Txn : y # x => SameSignal(y)
BY DEF SameSignal

\* A signal stays set, and whoever drops an open request signals it.
SignalStays(y) ==
  (txn[y].signal => txn'[y].signal) /\ (Owned(y) => Owned(y)' \/ txn'[y].signal)

LEMMA SameCode ==
  ASSUME SignalHasCode, \A y \in Txn : SameSignal(y)
  PROVE  SignalHasCode'
BY DEF SignalHasCode, SameSignal

LEMMA OneCode ==
  ASSUME SignalHasCode, NEW x \in Txn, \A y \in Txn : y # x => SameSignal(y),
         txn'[x].signal => txn'[x].rc \in {"ok", "failed"}
  PROVE  SignalHasCode'
BY DEF SignalHasCode, SameSignal

LEMMA SignalsOfShared ==
  ASSUME ClientInv, SignalHasCode, NEW t \in Thread, Flush(t) \/ Cleanup(t)
  PROVE  SignalHasCode' /\ \A y \in Txn : IsSync(y) => SignalStays(y)
<1> USE DEF At, Goto
<1>t. /\ txn \in [Txn -> Record] /\ hand \in [Thread -> SUBSET Txn]
      /\ txnList \subseteq Txn /\ txQ \in Seq(Txn)
  BY DEF ClientInv, ClientTypeOK
<1>1. CASE FlushAddr(t) \/ FlushHead(t) \/ Transmit(t)
  <2>1. UNCHANGED <<txnList, hand>>
    BY <1>1 DEF FlushAddr, FlushHead, Transmit, lists, locals
  <2>2. UNCHANGED txn \/ \E x : Dequeue(x)
    BY <1>1 DEF FlushAddr, FlushHead, Transmit
  <2>3. \A y \in Txn : SameSignal(y)
    <3>1. ASSUME NEW x, Dequeue(x) PROVE \A y \in Txn : SameSignal(y)
      <4>1. x \in Txn
        BY <1>t, <3>1 DEF Dequeue
      <4> QED BY <1>t, <3>1, <4>1, DecSignal DEF Dequeue
    <3> QED BY <2>2, <3>1 DEF SameSignal
  <2> QED BY <2>1, <2>3, SameCode DEF SignalStays, SameSignal, Owned
<1>2. CASE FailUnsent(t)
  <2>1. hand' = hand
    BY <1>2 DEF FailUnsent
  <2>2. CASE seek[t] \in txnList
    <3>1. PICK x \in txnList : /\ txnList' = txnList \ {x}
                               /\ txn' = [txn EXCEPT ![x] = Failed(@, txn[x].rxBuf)]
      BY <1>2, <2>2 DEF FailUnsent
    <3>2. /\ x \in Txn /\ (IsSync(x) => txn'[x].signal)
          /\ txn'[x].rc = "failed" /\ \A y \in Txn : y # x => SameSignal(y)
      BY <1>t, <3>1, FailedSignal
    <3> QED BY <2>1, <3>1, <3>2, OneCode DEF SignalStays, SameSignal, Owned
  <2>3. CASE seek[t] \notin txnList
    <3>1. UNCHANGED <<txn, txnList>>
      BY <1>2, <2>3 DEF FailUnsent
    <3> QED BY <2>1, <3>1 DEF SignalHasCode, SignalStays, Owned
  <2> QED BY <2>2, <2>3
<1>3. CASE DetachQueue(t)
  <2>1. UNCHANGED <<txnList, hand>> /\ \A y \in Txn : SameSignal(y)
    BY <1>t, <1>3, DetachSignal DEF DetachQueue, locals
  <2> QED BY <2>1, SameCode DEF SignalStays, SameSignal, Owned
<1>4. CASE DetachList(t)
  <2>1. txnList' = {} /\ hand' = [hand EXCEPT ![t] = txnList] /\ txn' = txn
    BY <1>4 DEF DetachList
  <2>2. hand[t] = {}
    BY <1>4 DEF DetachList, ClientInv, Places
  <2>3. \A u \in Thread : hand'[u] = IF u = t THEN txnList ELSE hand[u]
    BY <1>t, <2>1
  <2> QED BY <2>1, <2>2, <2>3 DEF SignalHasCode, SignalStays, Owned
<1>5. CASE FailNext(t)
  <2>1. PICK x \in hand[t] : /\ txn' = [txn EXCEPT ![x] = Failed(@, FALSE)]
                             /\ hand' = [hand EXCEPT ![t] = @ \ {x}]
    BY <1>5 DEF FailNext
  <2>2. txnList' = txnList
    BY <1>5 DEF FailNext, lists
  <2>3. /\ x \in Txn /\ (IsSync(x) => txn'[x].signal)
        /\ txn'[x].rc = "failed" /\ \A y \in Txn : y # x => SameSignal(y)
    BY <1>t, <2>1, FailedSignal
  <2>4. \A u \in Thread : hand'[u] = IF u = t THEN hand[u] \ {x} ELSE hand[u]
    BY <1>t, <2>1
  <2> QED BY <2>2, <2>3, <2>4, OneCode DEF SignalStays, SameSignal, Owned
<1> QED BY <1>1, <1>2, <1>3, <1>4, <1>5 DEF Flush, Cleanup

LEMMA SignalsOfReader ==
  ASSUME ClientInv, SignalHasCode, Lent,
         \/ Delivered \/ ServerGone \/ Notify \/ TellError \/ ReaderExit \/ ReaderBreaks
         \/ Receive \/ ResumeTx \/ Vanish \/ UNCHANGED vars
  PROVE  SignalHasCode' /\ \A y \in Txn : IsSync(y) /\ Untold(y) => SignalStays(y)
<1> USE DEF At, Goto
<1>t. /\ Reader \in Thread /\ txn \in [Txn -> Record] /\ hand \in [Thread -> SUBSET Txn]
      /\ txnList \subseteq Txn
  BY DEF ClientInv, ClientTypeOK, Thread
<1>1. CASE ServerGone \/ Notify \/ TellError \/ ReaderExit \/ ReaderBreaks \/ ResumeTx
           \/ Vanish \/ UNCHANGED vars
  <2>1. UNCHANGED <<txn, txnList, hand>>
    BY <1>1 DEF ServerGone, Notify, TellError, ReaderExit, ReaderBreaks, ResumeTx, Vanish,
       lists, locals, vars
  <2> QED BY <2>1 DEF SignalHasCode, SignalStays, Owned
<1>2. CASE Receive
  <2>1. txn' = txn
    BY <1>2 DEF Receive
  <2>2. ASSUME NEW x \in txnList, txnList' = txnList \ {x}, hand' = [hand EXCEPT ![Reader] = {x}],
               pc[Reader] = "poll"
        PROVE  \A y \in Txn : Owned(y) => Owned(y)'
    <3>1. hand[Reader] = {}
      BY <1>t, <2>2 DEF ClientInv, Places
    <3>2. \A u \in Thread : hand'[u] = IF u = Reader THEN {x} ELSE hand[u]
      BY <1>t, <2>2
    <3> QED BY <1>t, <2>2, <3>1, <3>2 DEF Owned
  <2>3. \A y \in Txn : Owned(y) => Owned(y)'
    BY <1>2, <2>2 DEF Receive, Owned
  <2> QED BY <2>1, <2>3 DEF SignalHasCode, SignalStays
<1>3. CASE Delivered
  <2>1. PICK x \in hand[Reader] :
          /\ \/ Deliver(x)
             \/ txn' = [txn EXCEPT ![x] = Failed(@, txn[x].rxBuf)]
          /\ hand' = [hand EXCEPT ![Reader] = @ \ {x}]
    BY <1>3 DEF Delivered
  <2>2. x \in Txn /\ Owned(x)
    BY <1>t, <2>1 DEF Owned
  <2>3. txnList' = txnList
    BY <1>3 DEF Delivered, lists
  <2>4. \A u \in Thread : hand'[u] = IF u = Reader THEN hand[u] \ {x} ELSE hand[u]
    BY <1>t, <2>1
  <2>5. CASE Dec(x) /\ ~txn[x].rxBuf
    <3>1. \A y \in Txn : SameSignal(y)
      BY <1>t, <2>2, <2>5, DecSignal
    <3>2. ~Untold(x)
      BY <2>2, <2>5 DEF Lent
    <3> QED BY <2>3, <2>4, <3>1, <3>2, SameCode DEF SignalStays, SameSignal, Owned
  <2>6. CASE \/ txn' = [txn EXCEPT ![x] = Answered(@)]
             \/ txn' = [txn EXCEPT ![x] = Failed(@, txn[x].rxBuf)]
    <3>1. /\ IsSync(x) => txn'[x].signal
          /\ txn'[x].rc \in {"ok", "failed"} /\ \A y \in Txn : y # x => SameSignal(y)
      BY <1>t, <2>2, <2>6, AnsweredSignal, FailedSignal
    <3> QED BY <2>2, <2>3, <2>4, <3>1, OneCode DEF SignalStays, SameSignal, Owned
  <2> QED BY <2>1, <2>5, <2>6 DEF Deliver
<1> QED BY <1>1, <1>2, <1>3

\* A call changes the signal of its own request, or of the one it makes.
Calls(t) ==
  \/ CheckXport(t) \/ TakeRef(t) \/ Prepare(t) \/ QueueRef(t) \/ Enqueue(t)
  \/ WaitResponse(t) \/ WaitTimedOut(t) \/ UnsentSync(t) \/ UnsentAsync(t) \/ Return(t)
  \/ Invalidate(t) \/ FinishSync(t) \/ DeleteFromQueue(t) \/ DeleteFromList(t)

Manages(t) ==
  \/ Begin(t) \/ Register(t) \/ TellNow(t) \/ Unlink(t) \/ StopAccepting(t) \/ Close(t)
  \/ Join(t) \/ Released(t) \/ Lookup(t) \/ JoinInit(t)

LEMMA SignalsOfCall ==
  ASSUME ClientInv, SignalHasCode, NEW t \in Caller, Calls(t)
  PROVE  SignalHasCode' /\ \A y \in Txn : y # cur[t] => SignalStays(y)
<1> USE DEF At, Goto
<1>t. /\ txn \in [Txn -> Record] /\ cur \in [Thread -> Txn \cup {None}] /\ t \in Thread
      /\ txnList \subseteq Txn /\ 1 \in 1..2 /\ 2 \in 1..2 /\ MaxTxns \in Nat /\ 1 \in Txn
  BY ClientAssumption DEF ClientInv, ClientTypeOK, Thread, Txn
<1>k. cur[t] = None => pc[t] \in {"enter", "return"}
  BY DEF ClientInv, Kinds, KindOf, Awaiting, Sending, Deleting, Calls, CheckXport, TakeRef,
     Prepare, QueueRef, Enqueue, WaitResponse, WaitTimedOut, UnsentSync, UnsentAsync, Return,
     Invalidate, FinishSync, DeleteFromQueue, DeleteFromList
<1>h. hand' = hand
  BY DEF Calls, CheckXport, TakeRef, Prepare, QueueRef, Enqueue, WaitResponse, WaitTimedOut,
     UnsentSync, UnsentAsync, Return, Invalidate, FinishSync, DeleteFromQueue, DeleteFromList,
     unchangedByEnd, locals
<1>1. CASE CheckXport(t) \/ Return(t) \/ UnsentSync(t)
  <2>1. UNCHANGED <<txn, txnList>>
    BY <1>1 DEF CheckXport, Return, UnsentSync, lists
  <2> QED BY <1>h, <2>1 DEF SignalHasCode, SignalStays, Owned
<1>2. CASE TakeRef(t) \/ QueueRef(t) \/ Invalidate(t) \/ Enqueue(t) \/ DeleteFromQueue(t)
  <2>1. cur[t] \in Txn
    BY <1>t, <1>k, <1>2 DEF TakeRef, QueueRef, Invalidate, Enqueue, DeleteFromQueue
  <2>2. \A y \in Txn : SameSignal(y)
    <3>1. CASE TakeRef(t) \/ QueueRef(t) \/ Invalidate(t)
      BY <1>t, <2>1, <3>1, FieldSignal DEF TakeRef, QueueRef, Invalidate, Inc
    <3>2. CASE Enqueue(t) \/ DeleteFromQueue(t)
      BY <1>t, <2>1, <3>2, DecSignal DEF Enqueue, DeleteFromQueue, Dequeue, SameSignal
    <3> QED BY <1>2, <3>1, <3>2
  <2>3. txnList' = txnList
    BY <1>2 DEF TakeRef, QueueRef, Invalidate, Enqueue, DeleteFromQueue, lists
  <2> QED BY <1>h, <2>2, <2>3, SameCode DEF SignalStays, SameSignal, Owned
<1>3. CASE WaitResponse(t) \/ WaitTimedOut(t) \/ Prepare(t)
  <2>1. PICK x \in Txn : x = cur[t]
    BY <1>t, <1>k, <1>3 DEF WaitResponse, WaitTimedOut, Prepare
  <2>2. txnList' = txnList
    BY <1>3 DEF WaitResponse, WaitTimedOut, Prepare, lists
  <2>3. \/ txn' = txn
        \/ txn' = [txn EXCEPT ![x].signal = FALSE]
        \/ txn' = [txn EXCEPT ![x].signal = FALSE, ![x].rc = "timeout"]
    BY <1>3, <2>1 DEF WaitResponse, WaitTimedOut, Prepare
  <2>4. CASE txn' = txn
    BY <1>h, <2>2, <2>4 DEF SignalHasCode, SignalStays, Owned
  <2>5. CASE \/ txn' = [txn EXCEPT ![x].signal = FALSE]
             \/ txn' = [txn EXCEPT ![x].signal = FALSE, ![x].rc = "timeout"]
    <3>1. ~txn'[x].signal /\ \A y \in Txn : y # x => SameSignal(y)
      BY <1>t, <2>5, ResetSignal
    <3> QED BY <1>h, <2>1, <2>2, <3>1, OneCode DEF SignalStays, SameSignal, Owned
  <2> QED BY <2>3, <2>4, <2>5
<1>4. CASE UnsentAsync(t) \/ FinishSync(t) \/ DeleteFromList(t)
  <2>1. PICK x \in Txn : x = cur[t]
    BY <1>t, <1>k, <1>4 DEF UnsentAsync, FinishSync, DeleteFromList
  <2>2. txnList' = txnList \/ txnList' = txnList \ {x}
    BY <1>4, <2>1 DEF UnsentAsync, FinishSync, DeleteFromList
  <2>3. PICK k \in 1..2 :
          \/ txn' = txn
          \/ txn' = [txn EXCEPT ![x].ref = Less(@, k)]
          \/ txn' = [txn EXCEPT ![x].rxBuf = FALSE, ![x].ref = Less(@, k)]
    BY <1>t, <1>4, <2>1 DEF UnsentAsync, FinishSync, DeleteFromList, Dec
  <2>4. \A y \in Txn : SameSignal(y)
    BY <1>t, <2>3, FieldSignal
  <2> QED BY <1>h, <2>1, <2>2, <2>4, SameCode DEF SignalStays, SameSignal, Owned
<1> QED BY <1>1, <1>2, <1>3, <1>4 DEF Calls

LEMMA SignalsOfOthers ==
  ASSUME ClientInv, SignalHasCode, NEW t \in Caller, Manages(t) \/ GetTxn(t)
  PROVE  SignalHasCode' /\ \A y \in Txn : y < nextTxn => SignalStays(y)
<1>t. txn \in [Txn -> Record] /\ nextTxn \in Nat /\ Txn \subseteq Nat
  BY TxnNumbers DEF ClientInv, ClientTypeOK
<1>1. CASE Manages(t)
  <2>1. UNCHANGED <<txn, txnList, hand>>
    BY <1>1 DEF Manages, Begin, BeginSend, BeginDelete, BeginRegister, BeginRelease, Register,
       TellNow, Unlink, StopAccepting, Close, Join, JoinInit, Joined, Released, Lookup,
       unchangedByEnd, lists, locals
  <2> QED BY <2>1 DEF SignalHasCode, SignalStays, Owned
<1>2. CASE GetTxn(t)
  <2>1. hand' = hand /\ (txnList' = txnList \/ txnList' = txnList \cup {nextTxn})
    BY <1>2 DEF GetTxn
  <2>2. CASE txn' = txn
    BY <2>1, <2>2 DEF SignalHasCode, SignalStays, Owned
  <2>3. ASSUME NEW x \in Txn, NEW kind, x = nextTxn, txn' = [txn EXCEPT ![x] =
                 [kind |-> kind, ref |-> 1, rc |-> "none", signal |-> FALSE, rxBuf |-> TRUE]]
        PROVE  SignalHasCode' /\ \A y \in Txn : y < nextTxn => SignalStays(y)
    <3>1. ~txn'[x].signal /\ \A y \in Txn : y # x => SameSignal(y)
      BY <1>t, <2>3, CreatedSignal
    <3> QED BY <1>t, <2>1, <2>3, <3>1, OneCode DEF SignalStays, SameSignal, Owned
  <2> QED BY <1>2, <2>2, <2>3 DEF GetTxn
<1> QED BY <1>1, <1>2

Expecting == {"queueRef", "enqueue", "wait"} \cup SharedLabel

LEMMA ExpectingCur ==
  ASSUME ClientInv, NEW u \in Caller, ret[u] = "wait", pc[u] \in Expecting
  PROVE  /\ cur[u] \in Txn /\ cur[u] < nextTxn /\ IsSync(cur[u]) /\ Untold(cur[u])
         /\ \A t \in Caller : t # u => cur[t] # cur[u]
<1>1. cur[u] # None /\ IsSync(cur[u])
  BY DEF Expecting, ClientInv, Kinds, KindOf, Awaiting, Sending
<1>2. cur[u] \in Txn
  BY <1>1 DEF ClientInv, ClientTypeOK, Thread
<1> QED BY <1>1, <1>2 DEF Expecting, SharedLabel, ClientInv, Owners, CallOpen

\* A thread that stays where it is, and what it can expect stays.
LEMMA OwedStays ==
  ASSUME ClientInv, OwedSignal, NEW u \in Caller, UNCHANGED <<pc[u], ret[u], cur[u]>>,
         accepting' => accepting,
         ret[u] = "wait" /\ pc[u] \in Expecting => SignalStays(cur[u])
  PROVE  OwedTo(u)'
<1> SUFFICES ASSUME ret[u] = "wait", pc[u] \in Expecting PROVE OwedTo(u)'
  BY DEF OwedTo, Expecting
<1>1. PICK x \in Txn : x = cur[u] /\ SignalStays(x)
  BY ExpectingCur
<1>2. Expects(u) => Expects(u)'
  BY <1>1 DEF Expects, SignalStays, Owned
<1>3. OwedTo(u)
  BY DEF OwedSignal
<1> QED BY <1>2, <1>3 DEF OwedTo

LEMMA AcceptingStops == [ClientNext]_vars => (accepting' => accepting)
<1> SUFFICES ASSUME [ClientNext]_vars PROVE accepting' => accepting
  OBVIOUS
<1>1. ASSUME NEW t \in Caller, Manages(t) \/ GetTxn(t) \/ Calls(t)
      PROVE  accepting' => accepting
  <2>1. UNCHANGED accepting \/ accepting' = FALSE
    <3>1. CASE Manages(t)
      BY <3>1 DEF Manages, Begin, BeginSend, BeginDelete, BeginRegister, BeginRelease, Register,
         TellNow, Unlink, StopAccepting, Close, Join, JoinInit, Joined, Released, Lookup,
         unchangedByEnd, client
    <3>2. CASE GetTxn(t)
      BY <3>2 DEF GetTxn
    <3>3. CASE Calls(t)
      BY <3>3 DEF Calls, CheckXport, TakeRef, Prepare, QueueRef, Enqueue, WaitResponse,
         WaitTimedOut, UnsentSync, UnsentAsync, Return, Invalidate, FinishSync, DeleteFromQueue,
         DeleteFromList, unchangedByEnd, client
    <3> QED BY <1>1, <3>1, <3>2, <3>3
  <2> QED BY <2>1
<1>2. ASSUME NEW t, Flush(t) \/ Cleanup(t)
      PROVE  accepting' => accepting
  <2>1. UNCHANGED client
    BY <1>2 DEF Flush, Cleanup, FlushAddr, FlushHead, Transmit, FailUnsent, DetachQueue,
       DetachList, FailNext
  <2> QED BY <2>1 DEF client
<1>3. CASE \/ Delivered \/ ServerGone \/ Notify \/ TellError \/ ReaderExit \/ ReaderBreaks
           \/ Receive \/ ResumeTx \/ Vanish \/ UNCHANGED vars
  BY <1>3 DEF Delivered, ServerGone, Notify, TellError, ReaderExit, ReaderBreaks, Receive,
     ResumeTx, Vanish, vars, client
<1> QED BY <1>1, <1>2, <1>3 DEF ClientNext, CallerStep, ReaderStep, Manages, Calls

LEMMA OwedNext ==
  ASSUME ClientInv, Lent, FreshListed, SignalHasCode, OwedSignal, WaitsReturn,
         [ClientNext]_vars
  PROVE  SignalHasCode' /\ OwedSignal' /\ WaitsReturn'
<1> USE DEF At, Goto
<1>t. /\ pc \in [Thread -> Label] /\ cur \in [Thread -> Txn \cup {None}]
      /\ ret \in [Thread -> Label] /\ Caller \subseteq Thread /\ Reader \in Thread
      /\ Reader \notin Caller
  BY ClientAssumption DEF ClientInv, ClientTypeOK, Thread
<1>a. accepting' => accepting
  BY AcceptingStops
<1>1. ASSUME NEW t \in Caller, Manages(t) \/ GetTxn(t)
      PROVE  SignalHasCode' /\ OwedSignal' /\ WaitsReturn'
  <2>1. SignalHasCode' /\ \A y \in Txn : y < nextTxn => SignalStays(y)
    BY <1>1, SignalsOfOthers
  <2>2. \A u \in Caller : u # t => UNCHANGED <<pc[u], ret[u], cur[u]>>
    BY <1>1, <1>t DEF Manages, Begin, BeginSend, BeginDelete, BeginRegister, BeginRelease,
       Call, GetRef, Register, TellNow, Unlink, StopAccepting, Close, Join, JoinInit, Joined,
       Released, Lookup, GetTxn, PutRef, locals
  <2>3. \A u \in Caller : u # t => OwedTo(u)'
    BY <1>a, <2>1, <2>2, ExpectingCur, OwedStays
  <2>4. pc'[t] \in {"enter", "delQueue", "register", "unlink", "created", "prepare", "idle",
                    "tellNow", "stop", "join", "joinInit", "await"}
        \/ ret'[t] = "close"
    BY <1>1, <1>t DEF Manages, Begin, BeginSend, BeginDelete, BeginRegister, BeginRelease,
       Call, GetRef, Register, TellNow, Unlink, StopAccepting, Close, Join, JoinInit, Joined,
       Released, Lookup, GetTxn, PutRef
  <2>5. pc'[t] # "wait"
    BY <1>1, <1>t DEF Manages, Begin, BeginSend, BeginDelete, BeginRegister, BeginRelease,
       Call, GetRef, Register, TellNow, Unlink, StopAccepting, Close, Join, JoinInit, Joined,
       Released, Lookup, GetTxn, PutRef
  <2>6. OwedTo(t)'
    BY <2>4 DEF OwedTo, SharedLabel
  <2> QED BY <2>1, <2>2, <2>3, <2>5, <2>6 DEF OwedSignal, WaitsReturn
<1>2. ASSUME NEW t \in Caller, Calls(t)
      PROVE  SignalHasCode' /\ OwedSignal' /\ WaitsReturn'
  <2>1. SignalHasCode' /\ \A y \in Txn : y # cur[t] => SignalStays(y)
    BY <1>2, SignalsOfCall
  <2>2. \A u \in Caller : u # t => UNCHANGED <<pc[u], ret[u], cur[u]>>
    BY <1>2, <1>t DEF Calls, CheckXport, TakeRef, Prepare, QueueRef, Enqueue, WaitResponse,
       WaitTimedOut, UnsentSync, UnsentAsync, Return, Invalidate, FinishSync, DeleteFromQueue,
       DeleteFromList, PutRef, locals
  <2>3. \A u \in Caller : u # t => OwedTo(u)'
    BY <1>a, <2>1, <2>2, ExpectingCur, OwedStays
  <2>4. OwedTo(t)' /\ pc'[t] # "wait"
    <3>1. CASE \/ CheckXport(t) \/ TakeRef(t) \/ WaitTimedOut(t) \/ UnsentSync(t)
               \/ UnsentAsync(t) \/ Return(t) \/ Invalidate(t) \/ FinishSync(t)
               \/ DeleteFromQueue(t) \/ DeleteFromList(t)
      <4>1. pc'[t] \in {"checked", "idle", "prepare", "invalidate", "return", "finish",
                        "delList"}
        BY <3>1, <1>t DEF CheckXport, TakeRef, WaitTimedOut, UnsentSync, UnsentAsync, Return,
           Invalidate, FinishSync, DeleteFromQueue, DeleteFromList, PutRef
      <4> QED BY <4>1 DEF OwedTo, SharedLabel
    <3>2. CASE Prepare(t)
      <4>1. pc[t] = "prepare" /\ (pc'[t] = "unsent" \/ (pc'[t] = "queueRef" /\ valid))
        BY <3>2, <1>t DEF Prepare
      <4>2. UNCHANGED <<txnList, hand, cur, accepting>>
        BY <3>2 DEF Prepare, lists, locals, client
      <4>3. pc'[t] = "queueRef" => ~accepting \/ cur[t] \in txnList
        BY <4>1 DEF FreshListed, Creating, Lost
      <4>4. pc'[t] = "queueRef" => ~accepting \/ Expects(t)'
        BY <4>2, <4>3 DEF Expects, Owned
      <4> QED BY <4>1, <4>2, <4>4 DEF OwedTo, SharedLabel
    <3>3. CASE QueueRef(t)
      <4>1. pc[t] = "queueRef" /\ pc'[t] = "enqueue" /\ cur[t] \in Txn
        BY <3>3, <1>t, FreshCur DEF QueueRef, Fresh
      <4>2. UNCHANGED <<txnList, hand, cur, accepting, ret>>
        BY <3>3 DEF QueueRef, lists, locals, client
      <4>3. SameSignal(cur[t])
        <5>1. txn \in [Txn -> Record] /\ 1 \in 1..2
          BY DEF ClientInv, ClientTypeOK
        <5>2. txn' = [txn EXCEPT ![cur[t]].ref = @ + 1]
          BY <3>3 DEF QueueRef, Inc
        <5> QED BY <4>1, <5>1, <5>2, FieldSignal
      <4>4. Expects(t) => Expects(t)'
        BY <4>1, <4>2, <4>3 DEF Expects, Owned, SameSignal
      <4> QED BY <4>1, <4>2, <4>4 DEF OwedSignal, OwedTo, SharedLabel
    <3>4. CASE Enqueue(t)
      <4>1. UNCHANGED <<txnList, hand, cur, ret>> /\ pc[t] = "enqueue"
        BY <3>4 DEF Enqueue, locals
      <4>2. CASE accepting
        <5>1. pc'[t] = "flush" /\ txn' = txn
          BY <3>4, <1>t, <4>2 DEF Enqueue
        <5>2. Expects(t) => Expects(t)'
          BY <4>1, <5>1 DEF Expects, Owned
        <5> QED BY <4>1, <4>2, <5>1, <5>2 DEF OwedSignal, OwedTo
      <4>3. CASE ~accepting
        <5>1. pc'[t] = "unsent"
          BY <3>4, <1>t, <4>3 DEF Enqueue
        <5> QED BY <5>1 DEF OwedTo, SharedLabel
      <4> QED BY <4>2, <4>3
    <3>5. CASE WaitResponse(t)
      <4>1. txn[cur[t]].rc # "timeout"
        <5>1. txn[cur[t]].signal /\ cur[t] \in Txn
          BY <3>5, ExpectingCur DEF WaitResponse, WaitsReturn, Expecting
        <5> QED BY <5>1 DEF SignalHasCode
      <4>2. pc'[t] = "invalidate"
        BY <3>5, <4>1, <1>t DEF WaitResponse
      <4> QED BY <4>2 DEF OwedTo, SharedLabel
    <3> QED BY <1>2, <3>1, <3>2, <3>3, <3>4, <3>5 DEF Calls
  <2> QED BY <2>1, <2>2, <2>3, <2>4 DEF OwedSignal, WaitsReturn
<1>3. ASSUME NEW t \in Thread, Flush(t) \/ Cleanup(t)
      PROVE  SignalHasCode' /\ OwedSignal' /\ WaitsReturn'
  <2>1. SignalHasCode' /\ \A y \in Txn : IsSync(y) => SignalStays(y)
    BY <1>3, SignalsOfShared
  <2>2. /\ pc[t] \in SharedLabel /\ pc'[t] \in SharedLabel \cup {ret[t]}
        /\ ret' = ret /\ cur' = cur
        /\ \A u \in Caller : u # t => pc'[u] = pc[u]
    BY <1>3, <1>t DEF Flush, Cleanup, FlushAddr, FlushHead, Transmit, FailUnsent,
       DetachQueue, DetachList, FailNext, locals, SharedLabel
  <2>3. \A u \in Caller : u # t => OwedTo(u)'
    BY <1>a, <2>1, <2>2, ExpectingCur, OwedStays
  <2>4. ASSUME t \in Caller PROVE OwedTo(t)' /\ (pc'[t] = "wait" => ret'[t] = "wait")
    <3>1. pc'[t] = "wait" => ret[t] = "wait"
      BY <2>2 DEF SharedLabel
    <3>2. ASSUME ret[t] = "wait" PROVE OwedTo(t)'
      <4>1. PICK x \in Txn : x = cur[t] /\ SignalStays(x)
        BY <2>1, <2>2, <2>4, <3>2, ExpectingCur DEF Expecting
      <4>2. Expects(t)
        BY <2>2, <2>4, <3>2 DEF OwedSignal, OwedTo
      <4>3. Expects(t)'
        BY <2>2, <4>1, <4>2 DEF Expects, SignalStays, Owned
      <4> QED BY <4>3 DEF OwedTo
    <3>3. ASSUME ret[t] # "wait" PROVE OwedTo(t)'
      BY <2>2, <3>3 DEF OwedTo
    <3> QED BY <2>2, <3>1, <3>2, <3>3
  <2> QED BY <2>1, <2>2, <2>3, <2>4 DEF OwedSignal, WaitsReturn
<1>4. CASE \/ Delivered \/ ServerGone \/ Notify \/ TellError \/ ReaderExit \/ ReaderBreaks
           \/ Receive \/ ResumeTx \/ Vanish \/ UNCHANGED vars
  <2>1. SignalHasCode' /\ \A y \in Txn : IsSync(y) /\ Untold(y) => SignalStays(y)
    BY <1>4, SignalsOfReader
  <2>2. \A u \in Caller : UNCHANGED <<pc[u], ret[u], cur[u]>>
    BY <1>4, <1>t DEF Delivered, ServerGone, Notify, TellError, ReaderExit, ReaderBreaks,
       Receive, ResumeTx, Vanish, vars, locals
  <2>3. \A u \in Caller : OwedTo(u)'
    BY <1>a, <2>1, <2>2, ExpectingCur, OwedStays
  <2> QED BY <2>1, <2>2, <2>3 DEF OwedSignal, WaitsReturn
<1> QED BY <1>t, <1>1, <1>2, <1>3, <1>4 DEF ClientNext, CallerStep, ReaderStep, Manages, Calls

-----------------------------------------------------------------------------
(* A response buffer is lent until the user was told.                      *)

\* Of the transactions there are, none gains a buffer or an owner, and an open
\* one that has an owner keeps its buffer.
BufferStays(y) ==
  /\ IsSync(y)' <=> IsSync(y)
  /\ txn'[y].rxBuf => txn[y].rxBuf
  /\ Owned(y)' => Owned(y)
  /\ Owned(y)' /\ Untold(y)' /\ txn[y].rxBuf => txn'[y].rxBuf

SameBuffer(y) == (IsSync(y)' <=> IsSync(y)) /\ (txn'[y].rxBuf <=> txn[y].rxBuf)

LEMMA FieldBuffer ==
  ASSUME txn \in [Txn -> Record], NEW x \in Txn, NEW k \in 1..2,
         \/ txn' = txn
         \/ txn' = [txn EXCEPT ![x].ref = Less(@, k)]
         \/ txn' = [txn EXCEPT ![x].ref = @ + 1]
         \/ txn' = [txn EXCEPT ![x].signal = FALSE]
         \/ txn' = [txn EXCEPT ![x].signal = FALSE, ![x].rc = "timeout"]
  PROVE  \A y \in Txn : SameBuffer(y)
BY DEF SameBuffer, IsSync, Record

LEMMA ResetBuffer ==
  ASSUME txn \in [Txn -> Record], NEW x \in Txn, NEW k \in 1..2,
         \/ txn' = [txn EXCEPT ![x].rxBuf = FALSE]
         \/ txn' = [txn EXCEPT ![x].rxBuf = FALSE, ![x].ref = Less(@, k)]
  PROVE  /\ ~txn'[x].rxBuf /\ (IsSync(x)' <=> IsSync(x))
         /\ \A y \in Txn : y # x => SameBuffer(y)
BY DEF SameBuffer, IsSync, Record

LEMMA DetachBuffer ==
  ASSUME txn \in [Txn -> Record],
         txn' = [x \in Txn |-> IF x \in ToSet(txQ)
                               THEN [txn[x] EXCEPT !.ref = Less(@, 1)] ELSE txn[x]]
  PROVE  \A y \in Txn : SameBuffer(y)
BY DEF SameBuffer, IsSync, Record

LEMMA ConcludedBuffer ==
  ASSUME txn \in [Txn -> Record], NEW x \in Txn,
         \/ Dec(x)
         \/ txn' = [txn EXCEPT ![x] = Answered(@)]
         \/ txn' = [txn EXCEPT ![x] = Failed(@, txn[x].rxBuf)]
  PROVE  \A y \in Txn : SameBuffer(y)
<1>1. txn[x] \in Record /\ \A y \in Txn : y # x => txn'[y] = txn[y]
  BY DEF Dec
<1>2. CASE Dec(x)
  BY <1>1, <1>2 DEF SameBuffer, IsSync, Dec, Record
<1>3. CASE txn' = [txn EXCEPT ![x] = Answered(@)]
  <2>1. txn'[x] = Answered(txn[x])
    BY <1>3
  <2>2. Answered(txn[x]).kind = txn[x].kind /\ Answered(txn[x]).rxBuf = txn[x].rxBuf
    BY <1>1 DEF Answered, Record
  <2> QED BY <1>1, <2>1, <2>2 DEF SameBuffer, IsSync
<1>4. CASE txn' = [txn EXCEPT ![x] = Failed(@, txn[x].rxBuf)]
  <2>1. txn'[x] = Failed(txn[x], txn[x].rxBuf)
    BY <1>4
  <2>2. /\ Failed(txn[x], txn[x].rxBuf).kind = txn[x].kind
        /\ Failed(txn[x], txn[x].rxBuf).rxBuf = txn[x].rxBuf
    BY <1>1 DEF Failed, Record
  <2> QED BY <1>1, <2>1, <2>2 DEF SameBuffer, IsSync
<1> QED BY <1>2, <1>3, <1>4

LEMMA FailedBuffer ==
  ASSUME txn \in [Txn -> Record], NEW x \in Txn,
         txn' = [txn EXCEPT ![x] = Failed(@, FALSE)]
  PROVE  /\ ~txn'[x].rxBuf /\ (IsSync(x)' <=> IsSync(x))
         /\ \A y \in Txn : y # x => SameBuffer(y)
<1>1. txn[x] \in Record /\ txn'[x] = Failed(txn[x], FALSE)
  OBVIOUS
<1>2. \A y \in Txn : y # x => txn'[y] = txn[y]
  OBVIOUS
<1>3. Failed(txn[x], FALSE).kind = txn[x].kind /\ ~Failed(txn[x], FALSE).rxBuf
  BY <1>1 DEF Failed, Record
<1> QED BY <1>1, <1>2, <1>3 DEF SameBuffer, IsSync

LEMMA SameBuffers ==
  ASSUME \A y \in Txn : SameBuffer(y) /\ (Owned(y)' => Owned(y))
  PROVE  \A y \in Txn : BufferStays(y)
BY DEF BufferStays, SameBuffer

LEMMA BuffersOfShared ==
  ASSUME ClientInv, NEW t \in Thread, Flush(t) \/ Cleanup(t)
  PROVE  \A y \in Txn : BufferStays(y)
<1> USE DEF At, Goto
<1>t. /\ txn \in [Txn -> Record] /\ hand \in [Thread -> SUBSET Txn]
      /\ txnList \subseteq Txn /\ txQ \in Seq(Txn)
  BY DEF ClientInv, ClientTypeOK
<1>1. CASE FlushAddr(t) \/ FlushHead(t) \/ Transmit(t)
  <2>1. UNCHANGED <<txnList, hand>>
    BY <1>1 DEF FlushAddr, FlushHead, Transmit, lists, locals
  <2>2. UNCHANGED txn \/ \E x : Dequeue(x)
    BY <1>1 DEF FlushAddr, FlushHead, Transmit
  <2>3. \A y \in Txn : SameBuffer(y)
    <3>1. ASSUME NEW x, Dequeue(x) PROVE \A y \in Txn : SameBuffer(y)
      <4>1. x \in Txn
        BY <1>t, <3>1 DEF Dequeue
      <4> QED BY <1>t, <3>1, <4>1, ConcludedBuffer DEF Dequeue
    <3> QED BY <2>2, <3>1 DEF SameBuffer, IsSync
  <2> QED BY <2>1, <2>3, SameBuffers DEF Owned
<1>2. CASE FailUnsent(t)
  <2>1. hand' = hand
    BY <1>2 DEF FailUnsent
  <2>2. CASE seek[t] \in txnList
    <3>1. PICK x \in txnList : /\ txnList' = txnList \ {x}
                               /\ txn' = [txn EXCEPT ![x] = Failed(@, txn[x].rxBuf)]
      BY <1>2, <2>2 DEF FailUnsent
    <3>2. \A y \in Txn : SameBuffer(y)
      BY <1>t, <3>1, ConcludedBuffer
    <3> QED BY <2>1, <3>1, <3>2, SameBuffers DEF Owned
  <2>3. CASE seek[t] \notin txnList
    <3>1. UNCHANGED <<txn, txnList>>
      BY <1>2, <2>3 DEF FailUnsent
    <3> QED BY <2>1, <3>1, SameBuffers DEF SameBuffer, IsSync, Owned
  <2> QED BY <2>2, <2>3
<1>3. CASE DetachQueue(t)
  <2>1. UNCHANGED <<txnList, hand>> /\ \A y \in Txn : SameBuffer(y)
    BY <1>t, <1>3, DetachBuffer DEF DetachQueue, locals
  <2> QED BY <2>1, SameBuffers DEF Owned
<1>4. CASE DetachList(t)
  <2>1. txnList' = {} /\ hand' = [hand EXCEPT ![t] = txnList] /\ txn' = txn
    BY <1>4 DEF DetachList
  <2>2. \A u \in Thread : hand'[u] = IF u = t THEN txnList ELSE hand[u]
    BY <1>t, <2>1
  <2> QED BY <2>1, <2>2, SameBuffers DEF SameBuffer, IsSync, Owned
<1>5. CASE FailNext(t)
  <2>1. PICK x \in hand[t] : /\ txn' = [txn EXCEPT ![x] = Failed(@, FALSE)]
                             /\ hand' = [hand EXCEPT ![t] = @ \ {x}]
    BY <1>5 DEF FailNext
  <2>2. txnList' = txnList
    BY <1>5 DEF FailNext, lists
  <2>3. /\ x \in Txn /\ ~txn'[x].rxBuf /\ (IsSync(x)' <=> IsSync(x))
        /\ \A y \in Txn : y # x => SameBuffer(y)
    BY <1>t, <2>1, FailedBuffer
  <2>4. \A u \in Thread : hand'[u] = IF u = t THEN hand[u] \ {x} ELSE hand[u]
    BY <1>t, <2>1
  <2>5. ~(Owned(x)') /\ \A y \in Txn : Owned(y)' => Owned(y)
    BY <1>t, <2>1, <2>2, <2>4 DEF Owned, ClientInv, Owners
  <2> QED BY <2>3, <2>5 DEF BufferStays, SameBuffer
<1> QED BY <1>1, <1>2, <1>3, <1>4, <1>5 DEF Flush, Cleanup

LEMMA BuffersOfReader ==
  ASSUME ClientInv,
         \/ Delivered \/ ServerGone \/ Notify \/ TellError \/ ReaderExit \/ ReaderBreaks
         \/ Receive \/ ResumeTx \/ Vanish \/ UNCHANGED vars
  PROVE  \A y \in Txn : BufferStays(y)
<1> USE DEF At, Goto
<1>t. /\ Reader \in Thread /\ txn \in [Txn -> Record] /\ hand \in [Thread -> SUBSET Txn]
      /\ txnList \subseteq Txn
  BY DEF ClientInv, ClientTypeOK, Thread
<1>1. CASE ServerGone \/ Notify \/ TellError \/ ReaderExit \/ ReaderBreaks \/ ResumeTx
           \/ Vanish \/ UNCHANGED vars
  <2>1. UNCHANGED <<txn, txnList, hand>>
    BY <1>1 DEF ServerGone, Notify, TellError, ReaderExit, ReaderBreaks, ResumeTx, Vanish,
       lists, locals, vars
  <2> QED BY <2>1, SameBuffers DEF SameBuffer, IsSync, Owned
<1>2. CASE Receive
  <2>1. txn' = txn
    BY <1>2 DEF Receive
  <2>2. ASSUME NEW x \in txnList, txnList' = txnList \ {x}, hand' = [hand EXCEPT ![Reader] = {x}]
        PROVE  \A y \in Txn : Owned(y)' => Owned(y)
    <3>1. \A u \in Thread : hand'[u] = IF u = Reader THEN {x} ELSE hand[u]
      BY <1>t, <2>2
    <3> QED BY <1>t, <2>2, <3>1 DEF Owned
  <2>3. \A y \in Txn : Owned(y)' => Owned(y)
    BY <1>2, <2>2 DEF Receive, Owned
  <2> QED BY <2>1, <2>3, SameBuffers DEF SameBuffer, IsSync
<1>3. CASE Delivered
  <2>1. PICK x \in hand[Reader] :
          /\ \/ Deliver(x)
             \/ txn' = [txn EXCEPT ![x] = Failed(@, txn[x].rxBuf)]
          /\ hand' = [hand EXCEPT ![Reader] = @ \ {x}]
    BY <1>3 DEF Delivered
  <2>2. txnList' = txnList
    BY <1>3 DEF Delivered, lists
  <2>3. \A u \in Thread : hand'[u] = IF u = Reader THEN hand[u] \ {x} ELSE hand[u]
    BY <1>t, <2>1
  <2>4. \A y \in Txn : SameBuffer(y)
    BY <1>t, <2>1, ConcludedBuffer DEF Deliver
  <2> QED BY <2>2, <2>3, <2>4, SameBuffers DEF Owned
<1> QED BY <1>1, <1>2, <1>3

LEMMA BuffersOfCall ==
  ASSUME ClientInv, NEW t \in Caller, Calls(t)
  PROVE  \A y \in Txn : BufferStays(y)
<1> USE DEF At, Goto
<1>t. /\ txn \in [Txn -> Record] /\ cur \in [Thread -> Txn \cup {None}] /\ t \in Thread
      /\ txnList \subseteq Txn /\ 1 \in 1..2 /\ 2 \in 1..2
  BY DEF ClientInv, ClientTypeOK, Thread
<1>k. cur[t] = None => pc[t] \in {"enter", "return"}
  BY DEF ClientInv, Kinds, KindOf, Awaiting, Sending, Deleting, Calls, CheckXport, TakeRef,
     Prepare, QueueRef, Enqueue, WaitResponse, WaitTimedOut, UnsentSync, UnsentAsync, Return,
     Invalidate, FinishSync, DeleteFromQueue, DeleteFromList
<1>h. hand' = hand
  BY DEF Calls, CheckXport, TakeRef, Prepare, QueueRef, Enqueue, WaitResponse, WaitTimedOut,
     UnsentSync, UnsentAsync, Return, Invalidate, FinishSync, DeleteFromQueue, DeleteFromList,
     unchangedByEnd, locals
<1>1. CASE CheckXport(t) \/ Return(t) \/ UnsentSync(t)
  <2>1. UNCHANGED <<txn, txnList>>
    BY <1>1 DEF CheckXport, Return, UnsentSync, lists
  <2> QED BY <1>h, <2>1, SameBuffers DEF SameBuffer, IsSync, Owned
<1>2. CASE TakeRef(t) \/ QueueRef(t) \/ Enqueue(t) \/ DeleteFromQueue(t)
  <2>1. cur[t] \in Txn
    BY <1>t, <1>k, <1>2 DEF TakeRef, QueueRef, Enqueue, DeleteFromQueue
  <2>2. \A y \in Txn : SameBuffer(y)
    <3>1. CASE TakeRef(t) \/ QueueRef(t)
      BY <1>t, <2>1, <3>1, FieldBuffer DEF TakeRef, QueueRef, Inc
    <3>2. CASE Enqueue(t) \/ DeleteFromQueue(t)
      BY <1>t, <2>1, <3>2, ConcludedBuffer DEF Enqueue, DeleteFromQueue, Dequeue, SameBuffer,
         IsSync
    <3> QED BY <1>2, <3>1, <3>2
  <2>3. txnList' = txnList
    BY <1>2 DEF TakeRef, QueueRef, Enqueue, DeleteFromQueue, lists
  <2> QED BY <1>h, <2>2, <2>3, SameBuffers DEF Owned
<1>3. CASE WaitResponse(t) \/ WaitTimedOut(t) \/ Prepare(t)
  <2>1. PICK x \in Txn : x = cur[t]
    BY <1>t, <1>k, <1>3 DEF WaitResponse, WaitTimedOut, Prepare
  <2>2. txnList' = txnList
    BY <1>3 DEF WaitResponse, WaitTimedOut, Prepare, lists
  <2>3. \/ txn' = txn
        \/ txn' = [txn EXCEPT ![x].signal = FALSE]
        \/ txn' = [txn EXCEPT ![x].signal = FALSE, ![x].rc = "timeout"]
    BY <1>3, <2>1 DEF WaitResponse, WaitTimedOut, Prepare
  <2>4. \A y \in Txn : SameBuffer(y)
    BY <1>t, <2>3, FieldBuffer
  <2> QED BY <1>h, <2>2, <2>4, SameBuffers DEF Owned
<1>4. CASE UnsentAsync(t) \/ FinishSync(t)
  <2>1. PICK x \in Txn : x = cur[t]
    BY <1>t, <1>k, <1>4 DEF UnsentAsync, FinishSync
  <2>2. txnList' = txnList \/ txnList' = txnList \ {x}
    BY <1>4, <2>1 DEF UnsentAsync, FinishSync
  <2>3. PICK k \in 1..2 : txn' = txn \/ txn' = [txn EXCEPT ![x].ref = Less(@, k)]
    BY <1>t, <1>4, <2>1 DEF UnsentAsync, FinishSync, Dec
  <2>4. \A y \in Txn : SameBuffer(y)
    BY <1>t, <2>3, FieldBuffer
  <2> QED BY <1>h, <2>2, <2>4, SameBuffers DEF Owned
<1>5. CASE Invalidate(t)
  <2>1. PICK x \in Txn : x = cur[t] /\ txn' = [txn EXCEPT ![x].rxBuf = FALSE]
    BY <1>t, <1>k, <1>5 DEF Invalidate
  <2>2. UNCHANGED <<txnList, told>>
    BY <1>5 DEF Invalidate, lists
  <2>3. ~Untold(x)
    <3>1. pc[t] = "invalidate" /\ cur[t] # None /\ IsSync(cur[t])
      BY <1>5 DEF Invalidate, ClientInv, Kinds, KindOf, Awaiting
    <3> QED BY <2>1, <3>1 DEF ClientInv, CallOpen
  <2>4. /\ ~txn'[x].rxBuf /\ (IsSync(x)' <=> IsSync(x))
        /\ \A y \in Txn : y # x => SameBuffer(y)
    BY <1>t, <2>1, ResetBuffer
  <2> QED BY <1>h, <2>2, <2>3, <2>4 DEF BufferStays, SameBuffer, Untold, Owned
<1>6. CASE DeleteFromList(t)
  <2>1. CASE cur[t] \in txnList
    <3>1. PICK x \in txnList :
            /\ txnList' = txnList \ {x}
            /\ txn' = [txn EXCEPT ![x].rxBuf = FALSE, ![x].ref = Less(@, 1)]
      BY <1>6, <2>1 DEF DeleteFromList
    <3>2. /\ x \in Txn /\ ~txn'[x].rxBuf /\ (IsSync(x)' <=> IsSync(x))
          /\ \A y \in Txn : y # x => SameBuffer(y)
      BY <1>t, <3>1, ResetBuffer
    <3>3. ~(Owned(x)') /\ \A y \in Txn : Owned(y)' => Owned(y)
      BY <1>h, <3>1 DEF Owned, ClientInv, Owners
    <3> QED BY <3>2, <3>3 DEF BufferStays, SameBuffer
  <2>2. CASE cur[t] \notin txnList
    <3>1. UNCHANGED <<txn, txnList>>
      BY <1>6, <2>2 DEF DeleteFromList
    <3> QED BY <1>h, <3>1, SameBuffers DEF SameBuffer, IsSync, Owned
  <2> QED BY <2>1, <2>2
<1> QED BY <1>1, <1>2, <1>3, <1>4, <1>5, <1>6 DEF Calls

LEMMA BuffersOfOthers ==
  ASSUME ClientInv, NEW t \in Caller, Manages(t) \/ GetTxn(t)
  PROVE  /\ \A y \in Txn : y < nextTxn => BufferStays(y)
         /\ \A y \in Txn : y >= nextTxn /\ y < nextTxn' =>
              /\ txn'[y].rxBuf
              /\ \E u \in Caller : cur'[u] = y
<1>t. /\ txn \in [Txn -> Record] /\ nextTxn \in Nat /\ Txn \subseteq Nat /\ t \in Thread
      /\ cur \in [Thread -> Txn \cup {None}]
  BY TxnNumbers DEF ClientInv, ClientTypeOK, Thread
<1>1. CASE Manages(t)
  <2>1. UNCHANGED <<txn, txnList, hand, nextTxn>>
    BY <1>1 DEF Manages, Begin, BeginSend, BeginDelete, BeginRegister, BeginRelease, Register,
       TellNow, Unlink, StopAccepting, Close, Join, JoinInit, Joined, Released, Lookup,
       unchangedByEnd, lists, locals
  <2> QED BY <1>t, <2>1, SameBuffers DEF SameBuffer, IsSync, Owned
<1>2. CASE GetTxn(t)
  <2>1. hand' = hand
    BY <1>2 DEF GetTxn
  <2>2. CASE UNCHANGED <<txn, nextTxn, txnList>>
    <3>1. \A y \in Txn : BufferStays(y)
      BY <2>1, <2>2, SameBuffers DEF SameBuffer, IsSync, Owned
    <3> QED BY <1>t, <2>2, <3>1
  <2>3. ASSUME NEW x \in Txn, NEW kind \in {"sync", "async"}, x = nextTxn, nextTxn' = nextTxn + 1,
               cur' = [cur EXCEPT ![t] = nextTxn], txnList' = txnList \cup {nextTxn},
               txn' = [txn EXCEPT ![x] =
                 [kind |-> kind, ref |-> 1, rc |-> "none", signal |-> FALSE, rxBuf |-> TRUE]]
        PROVE  /\ \A y \in Txn : y < nextTxn => BufferStays(y)
               /\ \A y \in Txn : y >= nextTxn /\ y < nextTxn' =>
                    /\ txn'[y].rxBuf
                    /\ \E u \in Caller : cur'[u] = y
    <3>1. txn'[x].rxBuf /\ \A y \in Txn : y # x => txn'[y] = txn[y] /\ (IsSync(y)' <=> IsSync(y))
      BY <1>t, <2>3, FreshRecord
    <3>2. cur'[t] = x
      BY <1>t, <2>3
    <3>3. \A y \in Txn : y < nextTxn => BufferStays(y)
      BY <1>t, <2>1, <2>3, <3>1 DEF BufferStays, Owned
    <3> QED BY <1>t, <2>3, <3>1, <3>2, <3>3
  <2> QED BY <1>2, <2>2, <2>3 DEF GetTxn
<1> QED BY <1>1, <1>2

\* What the user was told stays told.
LEMMA ToldStays ==
  ASSUME ClientInv, [ClientNext]_vars
  PROVE  nextTxn' >= nextTxn /\ \A y \in Txn : Untold(y)' => Untold(y)
<1>1. Kept /\ nextTxn \in Nat /\ told \in [Txn -> AtMostOne]
  BY NextKept DEF ClientInv, ClientTypeOK
<1>2. CASE Silent \/ Starts
  BY <1>1, <1>2 DEF Silent, Starts, Untold
<1>3. CASE Ends
  <2>1. PICK x \in Txn, c \in Conclusion : Untold(x) /\ Tell(x, c) /\ nextTxn' = nextTxn
    BY <1>3 DEF Ends
  <2>2. \A y \in Txn : y # x => told'[y] = told[y]
    BY <1>1, <2>1 DEF Tell
  <2> QED BY <1>1, <2>1, <2>2 DEF Untold
<1> QED BY <1>1, <1>2, <1>3 DEF Kept

\* The request of a call stays with it until its buffer was taken back.
LEMMA LentStays ==
  ASSUME ClientInv, ClientInv', [ClientNext]_vars, Lent,
         \A y \in Txn : y < nextTxn => BufferStays(y),
         \A y \in Txn : y >= nextTxn /\ y < nextTxn' =>
           txn'[y].rxBuf /\ \E u \in Caller : cur'[u] = y,
         \A y \in Txn : IsSync(y) /\ txn[y].rxBuf /\ (\E u \in Caller : cur[u] = y) =>
           (\E u \in Caller : cur'[u] = y),
         \A u \in Caller : pc'[u] = "finish" => ~txn'[cur'[u]].rxBuf
  PROVE  Lent'
<1>t. /\ nextTxn \in Nat /\ nextTxn' \in Nat /\ Txn \subseteq Nat
      /\ \A y \in Txn : Owned(y)' => y < nextTxn'
  BY TxnNumbers DEF ClientInv, ClientTypeOK, Owners
<1>1. \A y \in Txn : Untold(y)' => Untold(y)
  BY ToldStays
<1>2. ASSUME NEW x \in Txn, Owned(x)', Untold(x)' PROVE txn'[x].rxBuf
  <2>1. CASE x < nextTxn
    BY <1>1, <1>2, <2>1 DEF BufferStays, Lent
  <2>2. CASE x >= nextTxn
    BY <1>t, <1>2, <2>2
  <2> QED BY <1>t, <2>1, <2>2
<1>3. ASSUME NEW x \in Txn, x < nextTxn', IsSync(x)', txn'[x].rxBuf
      PROVE  \E u \in Caller : cur'[u] = x
  <2>1. CASE x < nextTxn
    BY <1>3, <2>1 DEF BufferStays, Lent
  <2>2. CASE x >= nextTxn
    BY <1>3, <2>2
  <2> QED BY <1>t, <2>1, <2>2
<1> QED BY <1>2, <1>3 DEF Lent

LEMMA LentNext ==
  ASSUME ClientInv, ClientInv', [ClientNext]_vars, Lent
  PROVE  Lent'
<1> USE DEF At, Goto
<1>t. /\ pc \in [Thread -> Label] /\ cur \in [Thread -> Txn \cup {None}]
      /\ Caller \subseteq Thread /\ Reader \in Thread /\ Reader \notin Caller
      /\ nextTxn \in Nat /\ Txn \subseteq Nat /\ txn \in [Txn -> Record]
  BY ClientAssumption, TxnNumbers DEF ClientInv, ClientTypeOK, Thread
<1>f. ASSUME NEW u \in Caller, pc[u] = "finish"
      PROVE  cur[u] \in Txn /\ cur[u] < nextTxn /\ ~txn[cur[u]].rxBuf
  BY <1>t, <1>f DEF ClientInv, Kinds, KindOf, Awaiting, Owners, Lent
<1>1. ASSUME NEW t \in Caller, Manages(t) \/ GetTxn(t)
      PROVE  Lent'
  <2>1. /\ \A y \in Txn : y < nextTxn => BufferStays(y)
        /\ \A y \in Txn : y >= nextTxn /\ y < nextTxn' =>
             txn'[y].rxBuf /\ \E u \in Caller : cur'[u] = y
    BY <1>1, BuffersOfOthers
  <2>2. \A u \in Caller : u # t => pc'[u] = pc[u] /\ cur'[u] = cur[u]
    BY <1>1, <1>t DEF Manages, Begin, BeginSend, BeginDelete, BeginRegister, BeginRelease,
       Call, GetRef, Register, TellNow, Unlink, StopAccepting, Close, Join, JoinInit, Joined,
       Released, Lookup, GetTxn, PutRef, locals
  <2>3. pc'[t] # "finish"
    BY <1>1, <1>t DEF Manages, Begin, BeginSend, BeginDelete, BeginRegister, BeginRelease,
       Call, GetRef, Register, TellNow, Unlink, StopAccepting, Close, Join, JoinInit, Joined,
       Released, Lookup, GetTxn, PutRef
  <2>4. cur[t] = None \/ cur'[t] = cur[t]
    <3>1. CASE pc[t] \in {"idle", "checked", "register", "tellNow", "lookup", "joinInit"}
      BY <3>1 DEF ClientInv, Kinds, KindOf, Awaiting, Sending, Deleting, SharedLabel
    <3>2. CASE pc[t] \notin {"idle", "checked", "register", "tellNow", "lookup", "joinInit"}
      BY <1>1, <3>2 DEF Manages, Begin, BeginSend, BeginDelete, BeginRegister, BeginRelease,
         Call, GetRef, Register, TellNow, Unlink, StopAccepting, Close, Join, JoinInit, Joined,
         Released, Lookup, GetTxn, locals
    <3> QED BY <3>1, <3>2
  <2>5. \A y \in Txn : (\E u \in Caller : cur[u] = y) => (\E u \in Caller : cur'[u] = y)
    BY TxnNumbers, <2>2, <2>4
  <2>6. \A u \in Caller : pc'[u] = "finish" => ~txn'[cur'[u]].rxBuf
    BY <1>f, <2>1, <2>2, <2>3 DEF BufferStays
  <2> QED BY <2>1, <2>5, <2>6, LentStays
<1>2. ASSUME NEW t \in Caller, Calls(t)
      PROVE  Lent'
  <2>1. (\A y \in Txn : BufferStays(y)) /\ nextTxn' = nextTxn
    BY <1>2, BuffersOfCall DEF Calls, CheckXport, TakeRef, Prepare, QueueRef, Enqueue,
       WaitResponse, WaitTimedOut, UnsentSync, UnsentAsync, Return, Invalidate, FinishSync,
       DeleteFromQueue, DeleteFromList, unchangedByEnd
  <2>2. \A u \in Caller : u # t => pc'[u] = pc[u] /\ cur'[u] = cur[u]
    BY <1>2, <1>t DEF Calls, CheckXport, TakeRef, Prepare, QueueRef, Enqueue, WaitResponse,
       WaitTimedOut, UnsentSync, UnsentAsync, Return, Invalidate, FinishSync, DeleteFromQueue,
       DeleteFromList, PutRef, locals
  <2>3. cur'[t] # cur[t] => \/ pc[t] \in {"enter", "return"} \/ ~IsSync(cur[t])
                            \/ pc[t] = "finish"
    BY <1>2, <1>t DEF Calls, CheckXport, TakeRef, Prepare, QueueRef, Enqueue, WaitResponse,
       WaitTimedOut, UnsentSync, UnsentAsync, Return, Invalidate, FinishSync, DeleteFromQueue,
       DeleteFromList, locals, ClientInv, Kinds, KindOf, Deleting
  <2>4. pc[t] \in {"enter", "return"} => cur[t] = None \/ ~IsSync(cur[t])
    BY DEF ClientInv, Kinds, KindOf, Awaiting, Sending, Deleting, SharedLabel
  <2>5. \A y \in Txn : IsSync(y) /\ txn[y].rxBuf /\ (\E u \in Caller : cur[u] = y) =>
          (\E u \in Caller : cur'[u] = y)
    BY TxnNumbers, <1>f, <2>2, <2>3, <2>4
  <2>6. pc'[t] = "finish" => ~txn'[cur'[t]].rxBuf
    <3>1. CASE Invalidate(t)
      <4>1. cur[t] \in Txn /\ cur' = cur /\ txn' = [txn EXCEPT ![cur[t]].rxBuf = FALSE]
        BY <1>t, <3>1 DEF Invalidate, locals, ClientInv, Kinds, KindOf, Awaiting
      <4>2. 1 \in 1..2
        OBVIOUS
      <4> QED BY <1>t, <4>1, <4>2, ResetBuffer
    <3>2. CASE ~Invalidate(t)
      BY <1>2, <1>t, <3>2 DEF Calls, CheckXport, TakeRef, Prepare, QueueRef, Enqueue, WaitResponse,
       WaitTimedOut, UnsentSync, UnsentAsync, Return, FinishSync, DeleteFromQueue,
       DeleteFromList, PutRef
    <3> QED BY <3>1, <3>2
  <2>7. \A u \in Caller : pc'[u] = "finish" => ~txn'[cur'[u]].rxBuf
    BY <1>f, <2>1, <2>2, <2>6 DEF BufferStays
  <2>8. \A y \in Txn : ~(y >= nextTxn /\ y < nextTxn')
    BY <1>t, <2>1
  <2> QED BY <2>1, <2>5, <2>7, <2>8, LentStays
<1>3. ASSUME NEW t \in Thread, Flush(t) \/ Cleanup(t)
      PROVE  Lent'
  <2>1. (\A y \in Txn : BufferStays(y)) /\ UNCHANGED <<nextTxn, cur>>
    BY <1>3, BuffersOfShared DEF Flush, Cleanup, FlushAddr, FlushHead, Transmit, FailUnsent,
       DetachQueue, DetachList, FailNext, locals
  <2>2. /\ pc[t] \in SharedLabel /\ pc'[t] \in SharedLabel \cup {ret[t]}
        /\ \A u \in Caller : u # t => pc'[u] = pc[u]
    BY <1>3, <1>t DEF Flush, Cleanup, FlushAddr, FlushHead, Transmit, FailUnsent,
       DetachQueue, DetachList, FailNext, SharedLabel
  <2>3. t \in Caller => pc'[t] # "finish"
    BY <2>2, ReturnsTo DEF SharedLabel
  <2>4. \A u \in Caller : pc'[u] = "finish" => ~txn'[cur'[u]].rxBuf
    BY <1>f, <2>1, <2>2, <2>3 DEF BufferStays
  <2>5. \A y \in Txn : ~(y >= nextTxn /\ y < nextTxn')
    BY <1>t, <2>1
  <2> QED BY <2>1, <2>4, <2>5, LentStays
<1>4. CASE \/ Delivered \/ ServerGone \/ Notify \/ TellError \/ ReaderExit \/ ReaderBreaks
           \/ Receive \/ ResumeTx \/ Vanish \/ UNCHANGED vars
  <2>1. (\A y \in Txn : BufferStays(y)) /\ UNCHANGED <<nextTxn, cur>>
    BY <1>4, BuffersOfReader DEF Delivered, ServerGone, Notify, TellError, ReaderExit,
       ReaderBreaks, Receive, ResumeTx, Vanish, vars, locals
  <2>2. \A u \in Caller : pc'[u] = pc[u]
    BY <1>4, <1>t DEF Delivered, ServerGone, Notify, TellError, ReaderExit, ReaderBreaks,
       Receive, ResumeTx, Vanish, vars
  <2>3. \A u \in Caller : pc'[u] = "finish" => ~txn'[cur'[u]].rxBuf
    BY <1>f, <2>1, <2>2 DEF BufferStays
  <2>4. \A y \in Txn : ~(y >= nextTxn /\ y < nextTxn')
    BY <1>t, <2>1
  <2> QED BY <2>1, <2>3, <2>4, LentStays
<1> QED BY <1>t, <1>1, <1>2, <1>3, <1>4 DEF ClientNext, CallerStep, ReaderStep, Manages, Calls

-----------------------------------------------------------------------------
(* The loss of the service is told once.                                   *)

\* The reader does not move between being about to tell and not, nor do the
\* calls that register.
LEMMA LossSame ==
  ASSUME Registering, LossTold, UNCHANGED <<errCb, errPending, errTold>>,
         valid' => valid, LossSeen' <=> LossSeen,
         pc'[Reader] = "tellError" <=> pc[Reader] = "tellError",
         pc'[Reader] \in {"flush", "lock", "transmit", "notSent"} => ret'[Reader] = "poll",
         pc'[Reader] = "notify" => ret'[Reader] = "notify",
         ret'[Reader] = "notify" => ~valid',
         \A u \in Caller : /\ pc'[u] = "register" <=> pc[u] = "register"
                           /\ pc'[u] = "tellNow" <=> pc[u] = "tellNow"
  PROVE  Registering' /\ LossTold'
<1>1. Registering'
  BY DEF Registering
<1>2. LossTold'
  <2>1. /\ At(Reader, "tellError")' <=> At(Reader, "tellError")
        /\ (\E t \in Caller : At(t, "tellNow"))' <=> (\E t \in Caller : At(t, "tellNow"))
    BY DEF At
  <2>2. errTold' = errTold /\ (errCb' <=> errCb)
    OBVIOUS
  <2> QED BY <2>1, <2>2 DEF LossTold, Count
<1> QED BY <1>1, <1>2

\* Every call but qmi_client_register_error_cb.
LEMMA LossByCall ==
  ASSUME ClientInv, Registering, LossTold, NEW t \in Caller,
         \/ BeginSend(t) \/ BeginDelete(t) \/ BeginRelease(t) \/ Calls(t) \/ GetTxn(t)
         \/ Unlink(t) \/ StopAccepting(t) \/ Close(t) \/ Join(t) \/ Released(t) \/ Lookup(t)
         \/ JoinInit(t) \/ Flush(t) \/ Cleanup(t)
  PROVE  Registering' /\ LossTold'
<1> USE DEF At, Goto
<1>t. /\ pc \in [Thread -> Label] /\ ret \in [Thread -> Label] /\ t \in Thread /\ t # Reader
      /\ Caller \subseteq Thread /\ Reader \in Thread /\ Reader \notin Caller
  BY ClientAssumption DEF ClientInv, ClientTypeOK, Thread
<1>1. UNCHANGED <<errCb, errPending, errTold, valid>>
  <2>1. UNCHANGED <<errors, valid>>
    <3>1. CASE \/ BeginSend(t) \/ BeginDelete(t) \/ BeginRelease(t)
               \/ Unlink(t) \/ StopAccepting(t) \/ Close(t) \/ Join(t) \/ Released(t)
               \/ Lookup(t) \/ JoinInit(t) \/ GetTxn(t)
      BY <3>1 DEF BeginSend, BeginDelete, BeginRelease, Unlink, StopAccepting, Close, Join,
         JoinInit, Joined, Released, Lookup, GetTxn, unchangedByEnd, client
    <3>2. CASE Calls(t)
      BY <3>2 DEF Calls, CheckXport, TakeRef, Prepare, QueueRef, Enqueue, WaitResponse,
         WaitTimedOut, UnsentSync, UnsentAsync, Return, Invalidate, FinishSync,
         DeleteFromQueue, DeleteFromList, unchangedByEnd, client
    <3>3. CASE Flush(t) \/ Cleanup(t)
      <4>1. UNCHANGED <<errors, client>>
        BY <3>3 DEF Flush, Cleanup, FlushAddr, FlushHead, Transmit, FailUnsent, DetachQueue,
           DetachList, FailNext
      <4> QED BY <4>1 DEF client
    <3> QED BY <3>1, <3>2, <3>3
  <2> QED BY <2>1 DEF errors
<1>2. \A u \in Thread : u # t => pc'[u] = pc[u] /\ ret'[u] = ret[u]
  <2>1. CASE \/ BeginSend(t) \/ BeginDelete(t) \/ BeginRelease(t)
             \/ Unlink(t) \/ StopAccepting(t) \/ Close(t) \/ Join(t) \/ Released(t)
             \/ Lookup(t) \/ JoinInit(t) \/ GetTxn(t)
    BY <2>1, <1>t DEF BeginSend, BeginDelete, BeginRelease, Call, GetRef, Unlink,
       StopAccepting, Close, Join, JoinInit, Joined, Released, Lookup, GetTxn, PutRef, locals
  <2>2. CASE Calls(t)
    BY <2>2, <1>t DEF Calls, CheckXport, TakeRef, Prepare, QueueRef, Enqueue, WaitResponse,
       WaitTimedOut, UnsentSync, UnsentAsync, Return, Invalidate, FinishSync,
       DeleteFromQueue, DeleteFromList, PutRef, locals
  <2>3. CASE Flush(t) \/ Cleanup(t)
    BY <2>3, <1>t DEF Flush, Cleanup, FlushAddr, FlushHead, Transmit, FailUnsent, DetachQueue,
       DetachList, FailNext, locals
  <2> QED BY <2>1, <2>2, <2>3
<1>3. pc[t] \notin {"register", "tellNow"} /\ pc'[t] \notin {"register", "tellNow"}
  <2>1. CASE \/ BeginSend(t) \/ BeginDelete(t) \/ BeginRelease(t)
             \/ Unlink(t) \/ StopAccepting(t) \/ Close(t) \/ Join(t) \/ Released(t)
             \/ Lookup(t) \/ JoinInit(t) \/ GetTxn(t)
    BY <2>1, <1>t DEF BeginSend, BeginDelete, BeginRelease, Call, GetRef, Unlink,
       StopAccepting, Close, Join, JoinInit, Joined, Released, Lookup, GetTxn, PutRef
  <2>2. CASE Calls(t)
    BY <2>2, <1>t DEF Calls, CheckXport, TakeRef, Prepare, QueueRef, Enqueue, WaitResponse,
       WaitTimedOut, UnsentSync, UnsentAsync, Return, Invalidate, FinishSync,
       DeleteFromQueue, DeleteFromList, PutRef
  <2>3. CASE Flush(t) \/ Cleanup(t)
    <3>1. pc[t] \in SharedLabel /\ pc'[t] \in SharedLabel \cup {ret[t]}
      BY <2>3, <1>t DEF Flush, Cleanup, FlushAddr, FlushHead, Transmit, FailUnsent,
         DetachQueue, DetachList, FailNext, SharedLabel
    <3>2. ret[t] \in {"wait", "return", "close"}
      BY <1>t, <3>1, ReturnsTo
    <3> QED BY <3>1, <3>2 DEF SharedLabel
  <2> QED BY <2>1, <2>2, <2>3
<1>4. pc'[Reader] = pc[Reader] /\ ret'[Reader] = ret[Reader]
  BY <1>t, <1>2
<1>5. LossSeen' <=> LossSeen
  BY <1>1, <1>4 DEF LossSeen
<1>6. \A u \in Caller : /\ pc'[u] = "register" <=> pc[u] = "register"
                        /\ pc'[u] = "tellNow" <=> pc[u] = "tellNow"
  BY <1>t, <1>2, <1>3
<1>7. /\ pc[Reader] \in {"flush", "lock", "transmit", "notSent"} => ret[Reader] = "poll"
      /\ pc[Reader] = "notify" => ret[Reader] = "notify"
      /\ ret[Reader] = "notify" => ~valid
  BY DEF Registering
<1> QED BY <1>1, <1>4, <1>5, <1>6, <1>7, LossSame

LEMMA LossByRegister ==
  ASSUME ClientInv, Registering, LossTold, NEW t \in Caller,
         BeginRegister(t) \/ Register(t) \/ TellNow(t)
  PROVE  Registering' /\ LossTold'
<1> USE DEF At, Goto
<1> DEFINE Nows == \E u \in Caller : pc[u] = "tellNow"
<1>t. /\ pc \in [Thread -> Label] /\ ret \in [Thread -> Label] /\ t \in Thread /\ t # Reader
      /\ Caller \subseteq Thread /\ Reader \in Thread /\ Reader \notin Caller
  BY ClientAssumption DEF ClientInv, ClientTypeOK, Thread
<1>b. errCb \in BOOLEAN /\ errPending \in BOOLEAN /\ errTold \in Nat
  BY DEF Registering
<1>r. /\ valid' = valid /\ pc'[Reader] = pc[Reader] /\ ret'[Reader] = ret[Reader]
      /\ errPending' = errPending
      /\ \A u \in Caller : u # t => pc'[u] = pc[u]
  BY <1>t DEF BeginRegister, Register, TellNow, Call, GetRef, PutRef, unchangedByEnd, errors,
     locals
<1>l. LossSeen' <=> LossSeen
  BY <1>r DEF LossSeen
<1>s. /\ pc[Reader] \in {"flush", "lock", "transmit", "notSent"} => ret[Reader] = "poll"
      /\ pc[Reader] = "notify" => ret[Reader] = "notify"
      /\ ret[Reader] = "notify" => ~valid
      /\ ~errCb => (errPending <=> LossSeen)
  BY DEF Registering
<1>u. \A v \in Caller :
        /\ pc[v] = "register" => ~errCb /\ \A u \in Caller : pc[u] = "register" => u = v
        /\ pc[v] = "tellNow" => errCb /\ \A u \in Caller : pc[u] = "tellNow" => u = v
  BY DEF Registering
<1>v. errTold + Count(pc[Reader] = "tellError") + Count(Nows) = Count(errCb /\ LossSeen)
  BY DEF LossTold
<1>1. CASE BeginRegister(t)
  <2>1. /\ errCb' = errCb /\ errTold' = errTold /\ ~errCb /\ pc[t] = "idle" /\ pc'[t] = "register"
        /\ \A u \in Caller : pc[u] # "register"
    BY <1>1, <1>t DEF BeginRegister, Call, GetRef, errors
  <2>2. Nows' <=> Nows
    BY <1>r, <2>1
  <2>3. Registering'
    BY <1>b, <1>r, <1>l, <1>s, <1>u, <2>1 DEF Registering
  <2>4. errTold' + Count(pc'[Reader] = "tellError") + Count(Nows') = Count(errCb' /\ LossSeen')
    BY <1>v, <1>r, <1>l, <2>1, <2>2 DEF Count
  <2> QED BY <2>3, <2>4 DEF LossTold
<1>2. CASE Register(t)
  <2>1. /\ errCb' = TRUE /\ errTold' = errTold /\ pc[t] = "register"
        /\ pc'[t] = IF errPending THEN "tellNow" ELSE "idle"
    BY <1>2, <1>t DEF Register, PutRef
  <2>2. ~errCb /\ ~Nows /\ \A u \in Caller : u # t => pc'[u] # "register" /\ pc'[u] # "tellNow"
    BY <1>r, <1>u, <2>1
  <2>3. errTold = 0 /\ pc[Reader] # "tellError"
    BY <1>b, <1>v, <2>2 DEF Count
  <2>4. Nows' <=> LossSeen
    BY <1>s, <2>1, <2>2
  <2>5. Registering'
    BY <1>b, <1>r, <1>l, <1>s, <2>1, <2>2 DEF Registering
  <2>6. errTold' + Count(pc'[Reader] = "tellError") + Count(Nows') = Count(errCb' /\ LossSeen')
    BY <1>r, <1>l, <2>1, <2>3, <2>4 DEF Count
  <2> QED BY <2>5, <2>6 DEF LossTold
<1>3. CASE TellNow(t)
  <2>1. errCb' = errCb /\ errTold' = errTold + 1 /\ pc[t] = "tellNow" /\ pc'[t] = "idle"
    BY <1>3, <1>t DEF TellNow, PutRef
  <2>2. errCb /\ Nows /\ \A u \in Caller : u # t => pc'[u] # "tellNow"
    BY <1>r, <1>u, <2>1
  <2>3. ~Nows'
    BY <2>1, <2>2
  <2>4. Registering'
    BY <1>b, <1>r, <1>l, <1>s, <1>u, <2>1, <2>2 DEF Registering
  <2>5. errTold' + Count(pc'[Reader] = "tellError") + Count(Nows') = Count(errCb' /\ LossSeen')
    BY <1>b, <1>v, <1>r, <1>l, <2>1, <2>2, <2>3 DEF Count
  <2> QED BY <2>4, <2>5 DEF LossTold
<1> QED BY <1>1, <1>2, <1>3

LEMMA LossByReader ==
  ASSUME ClientInv, Registering, LossTold,
         \/ ReaderStep \/ Receive \/ ResumeTx \/ ReaderBreaks \/ Vanish \/ UNCHANGED vars
  PROVE  Registering' /\ LossTold'
<1> USE DEF At, Goto
<1> DEFINE Nows == \E u \in Caller : pc[u] = "tellNow"
<1>t. /\ pc \in [Thread -> Label] /\ ret \in [Thread -> Label]
      /\ Caller \subseteq Thread /\ Reader \in Thread /\ Reader \notin Caller
      /\ pc[Reader] \in SharedLabel => ret[Reader] \in {"poll", "notify"}
  BY ClientAssumption DEF ClientInv, ClientTypeOK, Thread, Places
<1>b. errCb \in BOOLEAN /\ errPending \in BOOLEAN /\ errTold \in Nat
  BY DEF Registering
<1>u. \A u \in Caller : pc'[u] = pc[u]
  BY <1>t DEF ReaderStep, Delivered, ServerGone, Notify, TellError, ReaderExit, ReaderBreaks,
     Receive, ResumeTx, Vanish, vars, Flush, Cleanup, FlushAddr, FlushHead, Transmit,
     FailUnsent, DetachQueue, DetachList, FailNext
<1>s. /\ pc[Reader] \in {"flush", "lock", "transmit", "notSent"} => ret[Reader] = "poll"
      /\ pc[Reader] = "notify" => ret[Reader] = "notify"
      /\ ret[Reader] = "notify" => ~valid
      /\ ~errCb => (errPending <=> LossSeen)
  BY DEF Registering
<1>v. errTold + Count(pc[Reader] = "tellError") + Count(Nows) = Count(errCb /\ LossSeen)
  BY DEF LossTold
<1>1. CASE Delivered \/ ReaderExit \/ ReaderBreaks \/ Receive \/ ResumeTx \/ Vanish
           \/ UNCHANGED vars
  <2>1. UNCHANGED <<client, errors>>
    BY <1>1 DEF Delivered, ReaderExit, ReaderBreaks, Receive, ResumeTx, Vanish, vars
  <2>2. UNCHANGED <<errCb, errPending, errTold>> /\ UNCHANGED valid
    BY <2>1 DEF errors, client
  <2>3. \/ pc'[Reader] = pc[Reader] /\ ret'[Reader] = ret[Reader]
        \/ /\ pc[Reader] \in {"deliver", "poll"} /\ pc'[Reader] \in {"poll", "exit", "deliver"}
           /\ ret'[Reader] = ret[Reader]
        \/ pc[Reader] = "poll" /\ pc'[Reader] = "flush" /\ ret'[Reader] = "poll"
    BY <1>1, <1>t DEF Delivered, ReaderExit, ReaderBreaks, Receive, ResumeTx, Vanish, vars,
       locals
  <2>4. LossSeen' <=> LossSeen
    BY <2>2, <2>3 DEF LossSeen
  <2> QED BY <1>s, <1>u, <2>2, <2>3, <2>4, LossSame
<1>2. CASE Flush(Reader) \/ Cleanup(Reader)
  <2>1. UNCHANGED <<client, errors>>
    BY <1>2 DEF Flush, Cleanup, FlushAddr, FlushHead, Transmit, FailUnsent, DetachQueue,
       DetachList, FailNext
  <2>2. UNCHANGED <<errCb, errPending, errTold>> /\ UNCHANGED valid
    BY <2>1 DEF errors, client
  <2>3. /\ ret'[Reader] = ret[Reader]
        /\ \/ /\ pc[Reader] \in {"flush", "lock", "transmit", "notSent"}
              /\ pc'[Reader] \in {"lock", "transmit", "notSent", "detachTx", ret[Reader]}
           \/ /\ pc[Reader] \in {"detachTx", "detachList", "failAll"}
              /\ pc'[Reader] \in {"detachList", "failAll", ret[Reader]}
    BY <1>2, <1>t DEF Flush, Cleanup, FlushAddr, FlushHead, Transmit, FailUnsent, DetachQueue,
       DetachList, FailNext, locals
  <2>4. ret[Reader] \in {"poll", "notify"}
    BY <1>t, <2>3 DEF SharedLabel
  <2>5. LossSeen' <=> LossSeen
    BY <1>s, <2>2, <2>3, <2>4 DEF LossSeen
  <2>6. /\ pc'[Reader] = "tellError" <=> pc[Reader] = "tellError"
        /\ pc'[Reader] \in {"flush", "lock", "transmit", "notSent"} => ret'[Reader] = "poll"
        /\ pc'[Reader] = "notify" => ret'[Reader] = "notify"
    BY <1>s, <2>3, <2>4
  <2> QED BY <1>s, <1>u, <2>2, <2>3, <2>5, <2>6, LossSame
<1>3. CASE ServerGone
  <2>1. /\ pc[Reader] = "poll" /\ pc'[Reader] = "detachTx" /\ valid /\ valid' = FALSE
        /\ ret'[Reader] = "notify" /\ UNCHANGED errors
    BY <1>3, <1>t DEF ServerGone
  <2>2. ~LossSeen /\ ~LossSeen'
    BY <2>1 DEF LossSeen
  <2>3. UNCHANGED <<errCb, errPending, errTold>>
    BY <2>1 DEF errors
  <2> QED BY <1>u, <2>1, <2>2, <2>3, LossSame
<1>4. CASE Notify
  <2>1. /\ pc[Reader] = "notify" /\ errPending' = (errPending \/ ~errCb)
        /\ pc'[Reader] = (IF errCb THEN "tellError" ELSE "poll")
        /\ valid' = valid /\ ret' = ret /\ errCb' = errCb /\ errTold' = errTold
    BY <1>4, <1>t DEF Notify, client, locals
  <2>2. ~LossSeen /\ LossSeen'
    BY <1>s, <2>1 DEF LossSeen
  <2>3. errTold = 0 /\ ~Nows
    BY <1>b, <1>v, <2>1, <2>2 DEF Count
  <2>4. Nows' <=> Nows
    BY <1>u
  <2>5. Registering'
    BY <1>b, <1>s, <1>u, <2>1, <2>2 DEF Registering
  <2>6. errTold' + Count(pc'[Reader] = "tellError") + Count(Nows') = Count(errCb' /\ LossSeen')
    BY <1>b, <2>1, <2>2, <2>3, <2>4 DEF Count
  <2> QED BY <2>5, <2>6 DEF LossTold
<1>5. CASE TellError
  <2>1. /\ pc[Reader] = "tellError" /\ pc'[Reader] = "poll" /\ errTold' = errTold + 1
        /\ UNCHANGED <<errCb, errPending, client, ret>>
    BY <1>5, <1>t DEF TellError, locals
  <2>2. valid' = valid
    BY <2>1 DEF client
  <2>3. LossSeen' <=> LossSeen
    BY <2>1, <2>2 DEF LossSeen
  <2>4. Nows' <=> Nows
    BY <1>u
  <2>5. Registering'
    BY <1>b, <1>s, <1>u, <2>1, <2>2, <2>3 DEF Registering
  <2>6. errTold' + Count(pc'[Reader] = "tellError") + Count(Nows') = Count(errCb' /\ LossSeen')
    BY <1>b, <1>v, <2>1, <2>3, <2>4 DEF Count
  <2> QED BY <2>5, <2>6 DEF LossTold
<1> QED BY <1>1, <1>2, <1>3, <1>4, <1>5 DEF ReaderStep

LEMMA LossNext ==
  ASSUME ClientInv, Registering, LossTold, [ClientNext]_vars
  PROVE  Registering' /\ LossTold'
BY LossByCall, LossByRegister, LossByReader
   DEF ClientNext, CallerStep, Begin, ReaderStep, Calls, Flush, Cleanup

-----------------------------------------------------------------------------
(* A buffer is written by the reader, when it delivers a response.         *)

NotOk(y) == txn[y].rc # "ok" => txn'[y].rc # "ok"

LEMMA OkOnlyShared ==
  ASSUME ClientInv, SentOnce, NEW t \in Thread, Flush(t) \/ Cleanup(t)
  PROVE  \A y \in Txn : NotOk(y)
<1>t. /\ txn \in [Txn -> Record] /\ hand \in [Thread -> SUBSET Txn] /\ txnList \subseteq Txn
  BY DEF ClientInv, ClientTypeOK
<1>f. ASSUME NEW x \in Txn, NEW b, txn' = [txn EXCEPT ![x] = Failed(@, b)]
      PROVE  \A y \in Txn : NotOk(y)
  BY <1>t, <1>f, FailedSignal DEF NotOk, SameSignal
<1>1. CASE FlushAddr(t) \/ DetachList(t)
  BY <1>1 DEF FlushAddr, DetachList, NotOk
<1>2. CASE FlushHead(t) \/ Transmit(t)
  <2>1. txn' = txn \/ \E x \in Txn : Dec(x)
    <3>1. txn' = txn \/ \E x : Dequeue(x)
      BY <1>2 DEF FlushHead, Transmit
    <3>2. ASSUME NEW x, Dequeue(x) PROVE x \in Txn /\ Dec(x)
      BY <3>2, DequeuedOnce DEF Dequeue
    <3> QED BY <3>1, <3>2
  <2> QED BY <1>t, <2>1, DecSignal DEF NotOk, SameSignal
<1>3. CASE FailUnsent(t)
  BY <1>t, <1>f, <1>3 DEF FailUnsent, NotOk
<1>4. CASE DetachQueue(t)
  BY <1>t, <1>4, DetachSignal DEF DetachQueue, NotOk, SameSignal
<1>5. CASE FailNext(t)
  BY <1>t, <1>f, <1>5 DEF FailNext
<1> QED BY <1>1, <1>2, <1>3, <1>4, <1>5 DEF Flush, Cleanup

LEMMA OkOnlyCall ==
  ASSUME ClientInv, NEW t \in Caller, Calls(t)
  PROVE  \A y \in Txn : NotOk(y)
<1> USE DEF At
<1>t. /\ txn \in [Txn -> Record] /\ cur \in [Thread -> Txn \cup {None}] /\ t \in Thread
      /\ 1 \in 1..2 /\ 2 \in 1..2
  BY DEF ClientInv, ClientTypeOK, Thread
<1>1. CASE CheckXport(t) \/ Return(t) \/ UnsentSync(t)
  BY <1>1 DEF CheckXport, Return, UnsentSync, NotOk
<1>2. CASE ~(CheckXport(t) \/ Return(t) \/ UnsentSync(t))
  <2>1. PICK x \in Txn : x = cur[t]
    <3>1. cur[t] # None
      BY <1>2 DEF ClientInv, Kinds, KindOf, Awaiting, Sending, Deleting, Calls, TakeRef, Prepare,
         QueueRef, Enqueue, WaitResponse, WaitTimedOut, UnsentAsync, Invalidate, FinishSync,
         DeleteFromQueue, DeleteFromList
    <3> QED BY <1>t, <3>1
  <2>2. PICK k \in 1..2 :
          \/ txn' = txn
          \/ txn' = [txn EXCEPT ![x].ref = Less(@, k)]
          \/ txn' = [txn EXCEPT ![x].ref = @ + 1]
          \/ txn' = [txn EXCEPT ![x].rxBuf = FALSE]
          \/ txn' = [txn EXCEPT ![x].rxBuf = FALSE, ![x].ref = Less(@, k)]
          \/ txn' = [txn EXCEPT ![x].signal = FALSE]
          \/ txn' = [txn EXCEPT ![x].signal = FALSE, ![x].rc = "timeout"]
    BY <1>t, <1>2, <2>1 DEF Calls, TakeRef, Prepare, QueueRef, Enqueue, WaitResponse,
       WaitTimedOut, UnsentAsync, Invalidate, FinishSync, DeleteFromQueue, DeleteFromList,
       Inc, Dec, Dequeue
  <2>3. txn[x] \in Record
    BY <1>t
  <2>4. CASE \/ txn' = txn
             \/ txn' = [txn EXCEPT ![x].ref = Less(@, k)]
             \/ txn' = [txn EXCEPT ![x].ref = @ + 1]
             \/ txn' = [txn EXCEPT ![x].rxBuf = FALSE]
             \/ txn' = [txn EXCEPT ![x].rxBuf = FALSE, ![x].ref = Less(@, k)]
    BY <1>t, <2>4, FieldSignal DEF NotOk, SameSignal
  <2>5. CASE \/ txn' = [txn EXCEPT ![x].signal = FALSE]
             \/ txn' = [txn EXCEPT ![x].signal = FALSE, ![x].rc = "timeout"]
    BY <1>t, <2>3, <2>5 DEF NotOk, Record
  <2> QED BY <2>2, <2>4, <2>5
<1> QED BY <1>1, <1>2

LEMMA OkOnlyOthers ==
  ASSUME ClientInv, NEW t \in Caller, Manages(t) \/ GetTxn(t)
  PROVE  \A y \in Txn : NotOk(y)
<1>t. txn \in [Txn -> Record]
  BY DEF ClientInv, ClientTypeOK
<1>1. CASE Manages(t)
  <2>1. txn' = txn
    BY <1>1 DEF Manages, Begin, BeginSend, BeginDelete, BeginRegister, BeginRelease, Register,
       TellNow, Unlink, StopAccepting, Close, Join, JoinInit, Joined, Released, Lookup
  <2> QED BY <2>1 DEF NotOk
<1>2. CASE GetTxn(t)
  <2>1. \/ txn' = txn
        \/ \E kind \in {"sync", "async"} : txn' = [txn EXCEPT ![nextTxn] =
             [kind |-> kind, ref |-> 1, rc |-> "none", signal |-> FALSE, rxBuf |-> TRUE]]
    BY <1>2 DEF GetTxn
  <2> QED BY <1>t, <2>1 DEF NotOk
<1> QED BY <1>1, <1>2

\* Only under the lock of a transaction whose buffer was not taken back.
LEMMA OkOnlyReader ==
  ASSUME ClientInv, NEW x \in Txn, txn[x].rc # "ok", txn'[x].rc = "ok",
         \/ Delivered \/ ServerGone \/ Notify \/ TellError \/ ReaderExit \/ ReaderBreaks
         \/ Receive \/ ResumeTx \/ Vanish \/ UNCHANGED vars
  PROVE  txn[x].rxBuf /\ Owned(x)
<1>t. /\ Reader \in Thread /\ txn \in [Txn -> Record] /\ hand \in [Thread -> SUBSET Txn]
  BY DEF ClientInv, ClientTypeOK, Thread
<1>1. Delivered
  <2>1. CASE ServerGone \/ Notify \/ TellError \/ ReaderExit \/ ReaderBreaks \/ Receive
             \/ ResumeTx \/ Vanish
             \/ UNCHANGED vars
    <3>1. txn' = txn
      BY <2>1 DEF ServerGone, Notify, TellError, ReaderExit, ReaderBreaks, Receive, ResumeTx,
         Vanish, vars
    <3> QED BY <3>1
  <2> QED BY <2>1
<1>2. PICK y \in hand[Reader] :
        Deliver(y) \/ txn' = [txn EXCEPT ![y] = Failed(@, txn[y].rxBuf)]
  BY <1>1 DEF Delivered
<1>3. y \in Txn /\ Owned(y)
  BY <1>t, <1>2 DEF Owned
<1>4. CASE txn' = [txn EXCEPT ![y] = Failed(@, txn[y].rxBuf)]
  BY <1>t, <1>3, <1>4, FailedSignal DEF SameSignal
<1>5. CASE Dec(y)
  BY <1>t, <1>3, <1>5, DecSignal DEF SameSignal
<1>6. CASE txn[y].rxBuf /\ txn' = [txn EXCEPT ![y] = Answered(@)]
  <2>1. x = y
    BY <1>t, <1>3, <1>6, AnsweredSignal DEF SameSignal
  <2> QED BY <1>3, <1>6, <2>1
<1> QED BY <1>2, <1>4, <1>5, <1>6 DEF Deliver

LEMMA OkWhileLent ==
  ASSUME ClientInv, SentOnce, Lent, [ClientNext]_vars,
         NEW x \in Txn, txn[x].rc # "ok", txn'[x].rc = "ok"
  PROVE  IF IsSync(x) THEN \E t \in Caller : cur[t] = x ELSE told[x] = <<>>
<1>1. txn[x].rxBuf /\ Owned(x)
  <2>1. ASSUME NEW t \in Caller, Begin(t) \/ CallerStep(t) \/ WaitTimedOut(t) PROVE FALSE
    <3>1. Calls(t) \/ Manages(t) \/ GetTxn(t) \/ Flush(t) \/ Cleanup(t)
      BY <2>1 DEF CallerStep, Calls, Manages
    <3>2. NotOk(x)
      BY <3>1, OkOnlyCall, OkOnlyOthers, OkOnlyShared DEF Thread
    <3> QED BY <3>2 DEF NotOk
  <2>2. ~(Flush(Reader) \/ Cleanup(Reader))
    BY OkOnlyShared DEF NotOk, Thread
  <2> QED BY <2>1, <2>2, OkOnlyReader DEF ClientNext, ReaderStep
<1>2. x < nextTxn
  BY <1>1 DEF ClientInv, Owners
<1> QED BY <1>1, <1>2 DEF Lent, ClientInv, AsyncOpen, Untold

-----------------------------------------------------------------------------
(* The invariant, and what follows from it                                 *)

LEMMA AccountInit == ClientInit => AccountInv /\ LossInv
<1> SUFFICES ASSUME ClientInit PROVE AccountInv /\ LossInv
  OBVIOUS
<1> USE ClientAssumption, TxnNumbers DEF ClientInit, Thread
<1>a. /\ \A t \in Thread : pc[t] = IF t = Reader THEN "poll"
                                   ELSE IF t = Opener THEN "lookup" ELSE "idle"
      /\ \A t \in Thread : seek[t] = None /\ hand[t] = {} /\ ret[t] = "idle"
      /\ \A x \in Txn : ~txn[x].signal
  OBVIOUS
<1>b. ToSet(txQ) = {} /\ DOMAIN txQ = {}
  BY DEF ToSet
<1>1. SentOnce
  BY <1>a, <1>b DEF SentOnce, Sent, Fresh
<1>2. Counted
  BY DEF Counted
<1>3. CleanedWhenLost /\ FreshListed
  BY <1>a DEF CleanedWhenLost, Detaching, FreshListed, Creating
<1>4. NoUseAfterFree /\ SignalHasCode
  BY <1>a DEF NoUseAfterFree, SignalHasCode
<1>5. OwedSignal /\ WaitsReturn
  BY <1>a DEF OwedSignal, OwedTo, WaitsReturn
<1>6. Lent
  BY <1>a DEF Lent, Owned, Txn
<1>7. ~LossSeen
  BY DEF LossSeen
<1>8. Registering
  BY <1>a, <1>7 DEF Registering
<1>9. LossTold
  BY <1>a, <1>7 DEF LossTold, At, Count
<1> QED BY <1>1, <1>2, <1>3, <1>4, <1>5, <1>6, <1>8, <1>9 DEF AccountInv, LossInv

LEMMA AccountNext ==
  ClientInv /\ ClientInv' /\ AccountInv /\ LossInv /\ [ClientNext]_vars
    => AccountInv' /\ LossInv'
<1> SUFFICES ASSUME ClientInv, ClientInv', AccountInv, LossInv, [ClientNext]_vars
             PROVE  AccountInv' /\ LossInv'
  OBVIOUS
<1> USE DEF AccountInv, LossInv
<1>1. SentOnce'
  BY SentNext
<1>2. Counted'
  BY CountedNext
<1>3. CleanedWhenLost' /\ FreshListed'
  BY CleanedNext, FreshNext
<1>4. NoUseAfterFree'
  BY TouchNext
<1>5. SignalHasCode' /\ OwedSignal' /\ WaitsReturn'
  BY OwedNext
<1>6. Lent'
  BY LentNext
<1>7. Registering' /\ LossTold'
  BY LossNext
<1> QED BY <1>1, <1>2, <1>3, <1>4, <1>5, <1>6, <1>7

\* The structures, the queue and the threads stay in step: the strengthened
\* invariant of the reference counts, the signals and the buffers.
THEOREM AccountAlwaysInv == ClientSpec => [](ClientInv /\ AccountInv /\ LossInv)
<1>1. ClientInit => ClientInv /\ AccountInv /\ LossInv
  BY InitInv, AccountInit
<1>2. ClientInv /\ AccountInv /\ LossInv /\ [ClientNext]_vars
        => (ClientInv /\ AccountInv /\ LossInv)'
  BY NextInv, AccountNext
<1> QED BY <1>1, <1>2, PTL DEF ClientSpec

\* Reference counts neither leak nor run short (QMI_CCI_INC_TXN, QMI_CCI_DEC_TXN,
\* qmi_cci_get_ref, qmi_cci_put_ref), however many calls and threads there are.
THEOREM CountsAreExact == ClientSpec => []RefsMatch
<1>1. ClientInv /\ AccountInv => RefsMatch
  <2> SUFFICES ASSUME ClientInv, AccountInv PROVE RefsMatch
    OBVIOUS
  <2>1. \A x \in 1..nextTxn - 1 : x \notin misused => txn[x].ref = TxnRefs(x)
    BY DEF AccountInv, Counted, RefsOf, TxnRefs, Owned, Queued, Waited
  <2>2. refs = Cardinality({t \in Caller : pc[t] \notin {"idle", "unlink", "await"}})
               + Count(xport = "open")
    BY DEF ClientInv, RefsCounted, Insiders, Inside
  <2> QED BY <2>1, <2>2 DEF RefsMatch
<1> QED BY <1>1, AccountAlwaysInv, PTL

\* While the service is there and the client is not being released, no thread
\* touches a transaction that was freed.
THEOREM NeverUsesFreed == ClientSpec => []NoUseAfterFree
<1>1. AccountInv => NoUseAfterFree
  BY DEF AccountInv
<1> QED BY <1>1, AccountAlwaysInv, PTL

\* No lost wake-up: a call that waits in qmi_cci_response_wait_loop is
\* signalled, or whoever will signal it finds its transaction.
THEOREM WaiterNeverForgotten == ClientSpec => []WaiterIsOwedSignal
<1>1. ClientInv /\ AccountInv => WaiterIsOwedSignal
  <2> SUFFICES ASSUME AccountInv, NEW t \in Caller, pc[t] = "wait"
               PROVE  txn[cur[t]].signal \/ Owned(cur[t])
    BY DEF WaiterIsOwedSignal, Owned, At
  <2>1. ret[t] = "wait" /\ OwedTo(t)
    BY DEF AccountInv, WaitsReturn, OwedSignal
  <2> QED BY <2>1 DEF OwedTo, Expects
<1> QED BY <1>1, AccountAlwaysInv, PTL

\* The loss of the service is reported once to a user that registers an error
\* callback, whether it registers before, during or after it.
THEOREM LossReportedOnce == ClientSpec => []LossTold
<1>1. LossInv => LossTold
  BY DEF LossInv
<1> QED BY <1>1, AccountAlwaysInv, PTL

WrittenWhileLent ==
  \A x \in Txn : txn[x].rc # "ok" /\ txn'[x].rc = "ok" =>
    IF IsSync(x) THEN \E t \in Caller : cur[t] = x ELSE told[x] = <<>>

\* A response is written into a buffer of the user only while it is lent:
\* during the synchronous call, and until the callback of an asynchronous one.
THEOREM WritesOnlyLentBuffers == ClientSpec => BufferOnlyWhileLent
<1>1. ClientInv /\ AccountInv /\ [ClientNext]_vars => [WrittenWhileLent]_vars
  BY OkWhileLent DEF AccountInv, WrittenWhileLent
<1> QED BY <1>1, AccountAlwaysInv, PTL
        DEF ClientSpec, BufferOnlyWhileLent, WrittenWhileLent

=============================================================================
