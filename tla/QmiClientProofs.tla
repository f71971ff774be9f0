---------------------------- MODULE QmiClientProofs ----------------------------
(***************************************************************************)
(* Proofs about QmiClient, for any number of callers, transactions and     *)
(* calls: nothing is sent on a closed transport, and the client implements *)
(* QmiTransaction: a request is concluded once, and all are when the       *)
(* release is reported.                                                    *)
(***************************************************************************)
EXTENDS QmiClient, FiniteSetTheorems, SequenceTheorems, TLAPS

-----------------------------------------------------------------------------
(* The inductive invariant *)

CallerLabel ==
  {"idle", "enter", "checked", "created", "prepare", "queueRef", "enqueue",
   "unsent", "return", "wait", "invalidate", "finish", "delQueue", "delList",
   "register", "tellNow", "unlink", "stop", "close", "join", "await",
   "lookup", "joinInit"}
SharedLabel ==
  {"flush", "lock", "transmit", "notSent", "detachTx", "detachList", "failAll"}
ReaderLabel == {"poll", "deliver", "notify", "tellError", "exit"}

Label == CallerLabel \cup SharedLabel \cup ReaderLabel

Record == [kind : {"none", "sync", "async"}, ref : Nat, signal : BOOLEAN,
           rc : {"none", "timeout", "ok", "failed"}, rxBuf : BOOLEAN]

Conclusion == {"answered", "failed", "timedout", "deleted"}
AtMostOne  == {<<>>} \cup {<<c>> : c \in Conclusion}

ClientTypeOK ==
  /\ txn \in [Txn -> Record] /\ nextTxn \in 1..MaxTxns + 1
  /\ txnList \subseteq Txn /\ txQ \in Seq(Txn) /\ txQLock \in Thread \cup {None}
  /\ linked \in BOOLEAN /\ accepting \in BOOLEAN /\ ready \in BOOLEAN
  /\ valid \in BOOLEAN
  /\ xport \in {"open", "closed"} /\ received \subseteq Txn /\ handles \subseteq Txn
  /\ pc \in [Thread -> Label] /\ ret \in [Thread -> Label]
  /\ cur \in [Thread -> Txn \cup {None}] /\ seek \in [Thread -> Txn \cup {None}]
  /\ hand \in [Thread -> SUBSET Txn]
  /\ told \in [Txn -> AtMostOne]
  /\ misused \subseteq Txn

\* Where threads can be, where they go from the shared code, when they have
\* transactions in hand, and who holds tx_q_lock.
Places ==
  /\ \A t \in Caller :
       /\ pc[t] \in CallerLabel \cup SharedLabel
       /\ pc[t] \in SharedLabel =>
            ret[t] \in IF pc[t] \in {"detachTx", "detachList", "failAll"}
                        THEN {"wait", "return", "close"} ELSE {"wait", "return"}
  /\ pc[Reader] \in ReaderLabel \cup SharedLabel
  /\ pc[Reader] \in SharedLabel => ret[Reader] \in {"poll", "notify"}
  /\ \A t \in Thread :
       /\ hand[t] # {} => pc[t] \in {"failAll", "deliver"}
       /\ pc[t] = "transmit" => txQLock = t /\ accepting
       /\ pc[t] \in {"notSent", "transmit"} => seek[t] \in Txn
  /\ pc[Reader] = "deliver" => \E x \in Txn : hand[Reader] = {x}

\* The life of the client: one thread at most releases it, and before that no
\* thread waits for the reader.
Inside(t)  == pc[t] \notin {"idle", "unlink", "await"}
Closing(t) ==
  \/ pc[t] \in {"stop", "close", "join"}
  \/ pc[t] \in SharedLabel /\ ret[t] = "close"
Phases ==
  /\ ~ready =>
       /\ nextTxn = 1 /\ linked /\ accepting
       /\ \A t \in Caller :
            \/ pc[t] = "idle"
            \/ t = Opener /\ pc[t] \in {"lookup", "joinInit"} /\ xport = "open"
  /\ ready => \A t \in Caller : pc[t] \notin {"lookup", "joinInit"}
  /\ \A t \in Caller : Closing(t) =>
       /\ ready /\ ~linked /\ xport = "open" /\ (accepting => pc[t] = "stop")
       /\ \A u \in Caller : Closing(u) => u = t
  /\ xport = "closed" => pc[Reader] = "exit" /\ (ready => ~linked /\ ~accepting)

Insiders == {t \in Caller : Inside(t)}
RefsCounted == refs = Cardinality(Insiders) + Count(xport = "open")

\* A transaction is in the list or in one thread's hand, and one call at most
\* works on it: the one that made it, or one that deletes it.
Owned(x) == x \in txnList \/ \E t \in Thread : x \in hand[t]
Owners ==
  /\ \A x \in Txn : Owned(x) => x < nextTxn
  /\ \A t \in Thread :
       /\ hand[t] \cap txnList = {}
       /\ \A u \in Thread : u # t => hand[t] \cap hand[u] = {}
  /\ \A t \in Caller : cur[t] # None =>
       /\ cur[t] < nextTxn /\ cur[t] \notin handles
       /\ \A u \in Caller : u # t => cur[u] # cur[t]
  /\ \A x \in handles : x < nextTxn /\ ~IsSync(x)

\* The kind of request a call works on.
Sending  == {"prepare", "queueRef", "enqueue", "unsent"}
Awaiting == {"created", "wait", "invalidate", "finish"}
Deleting == {"delQueue", "delList"}
KindOf(t) ==
  /\ pc[t] \in Awaiting => cur[t] # None /\ IsSync(cur[t])
  /\ pc[t] \in Sending =>
       /\ cur[t] # None /\ ret[t] \in {"wait", "return"}
       /\ IsSync(cur[t]) <=> ret[t] = "wait"
  /\ pc[t] = "created" => ret[t] = "wait"
  /\ pc[t] \in SharedLabel =>
       /\ ret[t] = "wait" => cur[t] # None /\ IsSync(cur[t])
       /\ ret[t] = "return" => cur[t] # None /\ ~IsSync(cur[t])
       /\ ret[t] = "close" => cur[t] = None
  /\ pc[t] \in Deleting => cur[t] # None /\ ~IsSync(cur[t])
  /\ pc[t] = "return" => cur[t] = None \/ ~IsSync(cur[t])
  /\ pc[t] \notin Awaiting \cup Sending \cup SharedLabel \cup Deleting \cup {"return"} =>
       cur[t] = None
Kinds == \A t \in Caller : KindOf(t)

\* What a user was told: nothing of a request not made yet; of a synchronous
\* one when its call ends; of an asynchronous one when nobody owns it any more.
Untold(x) == told[x] = <<>>
NotYetMade == \A x \in Txn : x >= nextTxn => Untold(x)
SyncOpen ==
  \A x \in Txn : x < nextTxn /\ IsSync(x) /\ Untold(x) => \E t \in Caller : cur[t] = x
CallOpen ==
  \A t \in Caller : cur[t] # None /\ IsSync(cur[t]) =>
    (Untold(cur[t]) <=> pc[t] \notin {"invalidate", "finish"})
AsyncOpen ==
  \A x \in Txn : x < nextTxn /\ ~IsSync(x) =>
    /\ Untold(x) <=> Owned(x)
    /\ Owned(x) => txn[x].rxBuf

\* When the release has emptied the list, only calls that will find that they
\* come too late put requests into it.
Emptied ==
  \/ xport = "closed"
  \/ \E t \in Caller : Closing(t) /\ pc[t] \in {"failAll", "close", "join"}
Drained ==
  ready /\ Emptied =>
    \A x \in txnList : ~IsSync(x) => \E t \in Caller : cur[t] = x /\ pc[t] \in Sending

ClientInv ==
  /\ ClientTypeOK /\ Places /\ Phases /\ RefsCounted
  /\ Owners /\ Kinds /\ NotYetMade /\ SyncOpen /\ CallOpen /\ AsyncOpen /\ Drained


-----------------------------------------------------------------------------
(* The references of the client *)

LEMMA InsidersFinite ==
  /\ IsFiniteSet(Insiders) /\ Cardinality(Insiders) \in Nat
  /\ \A t \in Insiders : Cardinality(Insiders) > 0
<1>1. IsFiniteSet(Insiders)
  BY ClientAssumption, FS_Subset DEF Insiders
<1>2. Cardinality(Insiders) \in Nat
  BY <1>1, FS_CardinalityType
<1>3. Insiders # {} => Cardinality(Insiders) # 0
  BY <1>1, FS_EmptySet
<1> QED BY <1>1, <1>2, <1>3

\* Nobody comes or goes, a call begins, a call ends.
LEMMA SameInside ==
  ASSUME RefsCounted, \A u \in Caller : Inside(u)' <=> Inside(u), UNCHANGED <<refs, xport>>
  PROVE  RefsCounted'
<1>1. Insiders' = Insiders
  BY DEF Insiders
<1> QED BY <1>1 DEF RefsCounted, Count

LEMMA OneEnters ==
  ASSUME RefsCounted, NEW t \in Caller, ~Inside(t), Inside(t)',
         \A u \in Caller : u # t => (Inside(u)' <=> Inside(u)),
         refs' = refs + 1, xport' = xport
  PROVE  RefsCounted'
<1>1. Insiders' = Insiders \cup {t} /\ t \notin Insiders
  BY DEF Insiders
<1>2. Cardinality(Insiders') = Cardinality(Insiders) + 1
  BY <1>1, InsidersFinite, FS_AddElement
<1> QED BY <1>2, InsidersFinite DEF RefsCounted, Count

LEMMA OneLeaves ==
  ASSUME RefsCounted, NEW t \in Caller, Inside(t), ~Inside(t)',
         \A u \in Caller : u # t => (Inside(u)' <=> Inside(u)),
         refs' = refs - 1, xport' = xport
  PROVE  RefsCounted'
<1>1. Insiders' = Insiders \ {t} /\ t \in Insiders
  BY DEF Insiders
<1>2. Cardinality(Insiders') = Cardinality(Insiders) - 1
  BY <1>1, InsidersFinite, FS_RemoveElement
<1> QED BY <1>2, InsidersFinite DEF RefsCounted, Count

\* The references of the transport and of the call that closed it.
LEMMA TransportLeaves ==
  ASSUME RefsCounted, NEW t \in Caller, Inside(t), ~Inside(t)',
         \A u \in Caller : u # t => (Inside(u)' <=> Inside(u)),
         refs' = refs - 2, xport = "open", xport' = "closed"
  PROVE  RefsCounted'
<1>1. Insiders' = Insiders \ {t} /\ t \in Insiders
  BY DEF Insiders
<1>2. Cardinality(Insiders') = Cardinality(Insiders) - 1
  BY <1>1, InsidersFinite, FS_RemoveElement
<1> QED BY <1>2, InsidersFinite DEF RefsCounted, Count

-----------------------------------------------------------------------------
(* What steps do to transactions *)

LEMMA TxnNumbers == None \notin Txn /\ Txn \subseteq Nat
BY DEF None, Txn

\* What is left of a sequence without its i-th element.
LEMMA Removed ==
  ASSUME NEW S, NEW s \in Seq(S), NEW i \in DOMAIN s
  PROVE  /\ RemoveAt(s, i) \in Seq(S) /\ Len(RemoveAt(s, i)) = Len(s) - 1
         /\ \A j \in 1..Len(s) - 1 :
              RemoveAt(s, i)[j] = IF j < i THEN s[j] ELSE s[j + 1]
<1> DEFINE before == SubSeq(s, 1, i - 1)
           after  == SubSeq(s, i + 1, Len(s))
<1>1. i \in 1..Len(s) /\ Len(s) \in Nat /\ \A j \in 1..Len(s) : s[j] \in S
  OBVIOUS
<1>2. /\ before \in Seq(S) /\ Len(before) = i - 1
      /\ \A j \in 1..i - 1 : before[j] = s[j]
  BY <1>1, SubSeqProperties
<1>3. /\ after \in Seq(S) /\ Len(after) = Len(s) - i
      /\ \A j \in 1..Len(s) - i : after[j] = s[i + j]
  BY <1>1, SubSeqProperties
<1> HIDE DEF before, after
<1>4. /\ before \o after \in Seq(S) /\ Len(before \o after) = Len(s) - 1
      /\ \A j \in 1..Len(s) - 1 :
           (before \o after)[j] = IF j <= i - 1 THEN before[j] ELSE after[j - (i - 1)]
  <2>1. /\ before \o after \in Seq(S) /\ Len(before \o after) = Len(before) + Len(after)
        /\ \A j \in 1..Len(before) + Len(after) :
             (before \o after)[j] =
               IF j <= Len(before) THEN before[j] ELSE after[j - Len(before)]
    BY <1>2, <1>3, ConcatProperties
  <2>2. Len(before) + Len(after) = Len(s) - 1
    BY <1>1, <1>2, <1>3
  <2> QED BY <1>2, <2>1, <2>2
<1>5. RemoveAt(s, i) = before \o after
  BY DEF RemoveAt, before, after
<1>6. \A j \in 1..Len(s) - 1 :
        (before \o after)[j] = IF j < i THEN s[j] ELSE s[j + 1]
  <2> SUFFICES ASSUME NEW j \in 1..Len(s) - 1
               PROVE  (before \o after)[j] = IF j < i THEN s[j] ELSE s[j + 1]
    OBVIOUS
  <2>1. CASE j < i
    BY <1>1, <1>2, <1>4, <2>1
  <2>2. CASE j >= i
    <3>1. j - (i - 1) \in 1..Len(s) - i /\ i + (j - (i - 1)) = j + 1
      BY <1>1, <2>2
    <3>2. after[j - (i - 1)] = s[j + 1]
      BY <1>3, <3>1
    <3> QED BY <1>1, <1>4, <2>2, <3>2
  <2>3. j < i \/ j >= i
    BY <1>1
  <2> QED BY <2>1, <2>2, <2>3
<1> QED BY <1>4, <1>5, <1>6

\* Counting references, signalling, and every other change of a structure keep
\* the type and the kind.
LEMMA Signalled ==
  ASSUME txn \in [Txn -> Record], NEW x \in Txn, txn' = [txn EXCEPT ![x].signal = FALSE]
  PROVE  /\ txn' \in [Txn -> Record]
         /\ \A y \in Txn : (IsSync(y)' <=> IsSync(y)) /\ (y # x => txn'[y] = txn[y])
BY DEF IsSync, Record

LEMMA Prepared ==
  ASSUME txn \in [Txn -> Record], NEW x \in Txn,
         txn' = [txn EXCEPT ![x].signal = FALSE, ![x].rc = "timeout"]
  PROVE  /\ txn' \in [Txn -> Record]
         /\ \A y \in Txn : (IsSync(y)' <=> IsSync(y)) /\ txn'[y].rxBuf = txn[y].rxBuf
BY DEF IsSync, Record

LEMMA BufferBack ==
  ASSUME txn \in [Txn -> Record], NEW x \in Txn, txn' = [txn EXCEPT ![x].rxBuf = FALSE]
  PROVE  /\ txn' \in [Txn -> Record]
         /\ \A y \in Txn : (IsSync(y)' <=> IsSync(y)) /\ (y # x => txn'[y] = txn[y])
BY DEF IsSync, Record

LEMMA RefCounted ==
  ASSUME txn \in [Txn -> Record], NEW x \in Txn, Inc(x) \/ Dec(x)
  PROVE  /\ txn' \in [Txn -> Record]
         /\ \A y \in Txn : (IsSync(y)' <=> IsSync(y)) /\ txn'[y].rxBuf = txn[y].rxBuf
BY DEF IsSync, Record, Inc, Dec, Less

LEMMA Dequeued ==
  ASSUME txn \in [Txn -> Record], txQ \in Seq(Txn), NEW x \in Txn, Dequeue(x)
  PROVE  /\ txQ' \in Seq(Txn) /\ txn' \in [Txn -> Record]
         /\ \A y \in Txn : (IsSync(y)' <=> IsSync(y)) /\ txn'[y].rxBuf = txn[y].rxBuf
BY Removed, RefCounted DEF Dequeue

LEMMA FreshRecord ==
  ASSUME txn \in [Txn -> Record], NEW x \in Txn, NEW kind \in {"sync", "async"},
         txn' = [txn EXCEPT ![x] =
           [kind |-> kind, ref |-> 1, rc |-> "none", signal |-> FALSE, rxBuf |-> TRUE]]
  PROVE  /\ txn' \in [Txn -> Record]
         /\ txn'[x].rxBuf /\ (IsSync(x)' <=> kind = "sync")
         /\ \A y \in Txn : y # x => txn'[y] = txn[y] /\ (IsSync(y)' <=> IsSync(y))
BY DEF IsSync, Record

LEMMA LessNat == \A n \in Nat, k \in 1..2 : Less(n, k) \in Nat
BY DEF Less

LEMMA Delisted ==
  ASSUME txn \in [Txn -> Record], NEW x \in Txn,
         txn' = [txn EXCEPT ![x].rxBuf = FALSE, ![x].ref = Less(@, 1)]
  PROVE  /\ txn' \in [Txn -> Record]
         /\ \A y \in Txn : (IsSync(y)' <=> IsSync(y)) /\ (y # x => txn'[y] = txn[y])
<1>1. txn[x] \in Record /\ Less(txn[x].ref, 1) \in Nat
  BY LessNat DEF Record
<1> QED BY <1>1 DEF IsSync, Record

LEMMA TwoReferences ==
  ASSUME txn \in [Txn -> Record], NEW x \in Txn, NEW k \in 1..2,
         txn' = [txn EXCEPT ![x].ref = Less(@, k)]
  PROVE  /\ txn' \in [Txn -> Record]
         /\ \A y \in Txn : (IsSync(y)' <=> IsSync(y)) /\ txn'[y].rxBuf = txn[y].rxBuf
BY DEF IsSync, Record, Less

LEMMA FailedIsRecord ==
  ASSUME NEW r \in Record, NEW b \in BOOLEAN
  PROVE  Failed(r, b) \in Record /\ Failed(r, b).kind = r.kind
<1> DEFINE s == r.signal \/ r.kind = "sync"
<1>1. s \in BOOLEAN
  OBVIOUS
<1>2. Less(r.ref, 1) \in Nat
  BY DEF Record, Less
<1>3. Failed(r, b) = [r EXCEPT !.rc = "failed", !.signal = s, !.rxBuf = b, !.ref = Less(r.ref, 1)]
  BY DEF Failed
<1> HIDE DEF s
<1> QED BY <1>1, <1>2, <1>3 DEF Record

LEMMA AnsweredIsRecord ==
  ASSUME NEW r \in Record
  PROVE  Answered(r) \in Record /\ Answered(r).kind = r.kind
<1> DEFINE s == r.signal \/ r.kind = "sync"
<1>1. s \in BOOLEAN
  OBVIOUS
<1>2. Less(r.ref, 1) \in Nat
  BY DEF Record, Less
<1>3. Answered(r) = [r EXCEPT !.rc = "ok", !.signal = s, !.ref = Less(r.ref, 1)]
  BY DEF Answered
<1> HIDE DEF s
<1> QED BY <1>1, <1>2, <1>3 DEF Record

\* A request that was not concluded is, once.
LEMMA Tells ==
  ASSUME ClientTypeOK, NEW x \in Txn, Untold(x),
         NEW c \in Conclusion, Tell(x, c)
  PROVE  /\ told' \in [Txn -> AtMostOne]
         /\ told'[x] = <<c>> /\ ~Untold(x)'
         /\ \A y \in Txn : y # x => told'[y] = told[y]
<1>1. told[x] = <<>> /\ Append(<<>>, c) = <<c>> /\ <<c>> \in AtMostOne /\ <<c>> # <<>>
  BY DEF Untold, AtMostOne
<1> QED BY <1>1 DEF ClientTypeOK, Untold, Tell

-----------------------------------------------------------------------------
(* Every step keeps the invariant *)


\* Requests, their owners and what was told of them stay when a step changes no
\* more of the structures than counts, signals and codes.
LEMMA RequestsStay ==
  ASSUME Owners, NotYetMade, SyncOpen, AsyncOpen, ClientTypeOK,
         \A y \in Txn : (IsSync(y)' <=> IsSync(y)) /\ txn'[y].rxBuf = txn[y].rxBuf,
         UNCHANGED <<nextTxn, txnList, hand, cur, handles, told>>
  PROVE  Owners' /\ NotYetMade' /\ SyncOpen' /\ AsyncOpen'
<1>1. Owners'
  BY DEF Owners, Owned, ClientTypeOK
<1>2. NotYetMade' /\ SyncOpen' /\ AsyncOpen'
  BY DEF NotYetMade, SyncOpen, AsyncOpen, Untold, Owned
<1> QED BY <1>1, <1>2


\* A thread that does nothing goes on working on the same kind of request.
LEMMA OthersKind ==
  ASSUME Kinds, ClientTypeOK, NEW u \in Caller, \A y \in Txn : IsSync(y)' <=> IsSync(y),
         pc'[u] = pc[u], cur'[u] = cur[u], ret'[u] = ret[u]
  PROVE  KindOf(u)'
<1>1. KindOf(u)
  BY DEF Kinds
<1>2. cur[u] # None => (IsSync(cur[u])' <=> IsSync(cur[u]))
  BY DEF ClientTypeOK, Thread
<1> QED BY <1>1, <1>2 DEF KindOf


\* A synchronous call tells the user how its request ended.
LEMMA SyncCallTold ==
  ASSUME ClientInv, NEW t \in Caller, pc[t] \in {"wait", "unsent"}, IsSync(cur[t]),
         NEW c \in Conclusion, Tell(cur[t], c),
         pc' = [pc EXCEPT ![t] = "invalidate"],
         txn' = txn \/ txn' = [txn EXCEPT ![cur[t]].signal = FALSE],
         UNCHANGED <<nextTxn, txnList, txQ, txQLock, refs, linked, accepting, valid, ready,
                     xport, received, handles, ret, cur, seek, hand, misused>>
  PROVE  ClientInv'
<1> USE ClientAssumption, TxnNumbers DEF ClientInv, Thread
<1>a. cur[t] \in Txn /\ cur[t] < nextTxn /\ nextTxn \in Nat
  BY DEF ClientTypeOK, Kinds, KindOf, Awaiting, Sending, Owners
<1>b. /\ txn' \in [Txn -> Record]
      /\ \A y \in Txn : (IsSync(y)' <=> IsSync(y)) /\ (y # cur[t] => txn'[y] = txn[y])
  BY <1>a, Signalled DEF ClientTypeOK, IsSync
<1>c. Untold(cur[t])
  BY <1>a DEF CallOpen
<1>d. /\ told' \in [Txn -> AtMostOne]
      /\ ~Untold(cur[t])'
      /\ \A y \in Txn : y # cur[t] => told'[y] = told[y]
  BY <1>a, <1>c, Tells
<1>1. ClientTypeOK'
  BY <1>b, <1>d DEF ClientTypeOK, Label, CallerLabel
<1>2. Places'
  BY DEF ClientTypeOK, Places, CallerLabel, SharedLabel
<1>9. Phases'
  BY DEF ClientTypeOK, Places, CallerLabel, Phases, Closing, SharedLabel
<1>3. RefsCounted'
  BY SameInside DEF ClientTypeOK, Inside
<1>4. Owners' /\ Kinds'
  BY <1>a, <1>b DEF ClientTypeOK, Owners, Owned, Kinds, KindOf, Awaiting, Sending, Deleting,
     SharedLabel
<1>5. NotYetMade'
  BY <1>a, <1>d DEF NotYetMade, Untold
<1>6. SyncOpen'
  BY <1>a, <1>b, <1>d DEF SyncOpen, Untold
<1>10. CallOpen'
  BY <1>a, <1>b, <1>d DEF ClientTypeOK, CallOpen, Untold, Owners
<1>7. AsyncOpen'
  BY <1>a, <1>b, <1>d DEF ClientTypeOK, AsyncOpen, Untold, Owned
<1>8. Drained'
  BY <1>b DEF ClientTypeOK, Drained, Emptied, Closing, Sending, SharedLabel
<1> QED BY <1>1, <1>2, <1>3, <1>4, <1>5, <1>6, <1>7, <1>8, <1>9, <1>10


\* A call ends that has done nothing else in this step.
LEMMA CallEnds ==
  ASSUME ClientInv, NEW t \in Caller, pc[t] \in {"enter", "checked", "register", "tellNow"},
         PutRef(t),
         UNCHANGED <<txn, nextTxn, txnList, txQ, txQLock, linked, accepting, valid, ready,
                     xport, received, handles, seek, hand, told, misused>>
  PROVE  ClientInv'
<1> USE ClientAssumption, TxnNumbers DEF ClientInv, Thread, PutRef, Goto
<1>a. cur[t] = None /\ cur' = cur
  BY DEF ClientTypeOK, Kinds, KindOf, Awaiting, Sending, Deleting, SharedLabel
<1>1. ClientTypeOK'
  BY <1>a DEF ClientTypeOK, Label, CallerLabel
<1>2. Places'
  BY DEF ClientTypeOK, Places, CallerLabel, SharedLabel
<1>8. Phases'
  BY DEF ClientTypeOK, Places, CallerLabel, Phases, Closing, SharedLabel
<1>3. RefsCounted'
  BY OneLeaves DEF ClientTypeOK, Inside
<1>4. Owners'
  BY <1>a DEF Owners, Owned, IsSync
<1>5. Kinds'
  BY <1>a DEF ClientTypeOK, Kinds, KindOf, IsSync, Awaiting, Sending, Deleting, SharedLabel
<1>6. NotYetMade' /\ SyncOpen' /\ CallOpen' /\ AsyncOpen'
  BY <1>a DEF ClientTypeOK, NotYetMade, SyncOpen, CallOpen, AsyncOpen, Untold, Owned, IsSync
<1>7. Drained'
  BY <1>a DEF ClientTypeOK, Drained, Emptied, Closing, Sending, SharedLabel, IsSync
<1> QED BY <1>1, <1>2, <1>3, <1>4, <1>5, <1>6, <1>7, <1>8

\* A call that works on no transaction goes on.
LEMMA CallGoesOn ==
  ASSUME ClientInv, NEW t \in Caller, pc[t] \in {"enter", "register"},
         NEW l \in {"checked", "tellNow"}, Goto(t, l),
         UNCHANGED <<txn, nextTxn, txnList, txQ, txQLock, refs, linked, accepting, valid, ready,
                     xport, received, handles, ret, cur, seek, hand, told, misused>>
  PROVE  ClientInv'
<1> USE ClientAssumption, TxnNumbers DEF ClientInv, Thread, Goto
<1>1. ClientTypeOK'
  BY DEF ClientTypeOK, Label, CallerLabel
<1>2. Places'
  BY DEF ClientTypeOK, Places, CallerLabel, SharedLabel
<1>8. Phases'
  BY DEF ClientTypeOK, Places, CallerLabel, Phases, Closing, SharedLabel
<1>3. RefsCounted'
  BY SameInside DEF ClientTypeOK, Inside
<1>4. Owners'
  BY DEF Owners, Owned, IsSync
<1>5. Kinds'
  BY DEF ClientTypeOK, Kinds, KindOf, IsSync, Awaiting, Sending, Deleting, SharedLabel
<1>6. NotYetMade' /\ SyncOpen' /\ CallOpen' /\ AsyncOpen'
  BY DEF ClientTypeOK, NotYetMade, SyncOpen, CallOpen, AsyncOpen, Untold, Owned, IsSync
<1>7. Drained'
  BY DEF ClientTypeOK, Drained, Emptied, Closing, Sending, SharedLabel, IsSync
<1> QED BY <1>1, <1>2, <1>3, <1>4, <1>5, <1>6, <1>7, <1>8


\* An asynchronous call looks for its transaction in the list: it concludes it,
\* or somebody else has, or will.
LEMMA AsyncCallLooks ==
  ASSUME ClientInv, NEW t \in Caller, pc[t] \in {"unsent", "delList"}, ~IsSync(cur[t]),
         \/ /\ cur[t] \in txnList /\ txnList' = txnList \ {cur[t]}
            /\ txn' \in [Txn -> Record]
            /\ \A y \in Txn : /\ IsSync(y)' <=> IsSync(y)
                              /\ y # cur[t] => txn'[y].rxBuf = txn[y].rxBuf
            /\ \E c \in Conclusion : Tell(cur[t], c)
         \/ cur[t] \notin txnList /\ UNCHANGED <<txn, txnList, told>>,
         cur' = [cur EXCEPT ![t] = None], Goto(t, "return"),
         UNCHANGED <<nextTxn, txQ, txQLock, refs, linked, accepting, valid, ready, xport,
                     received, handles, ret, seek, hand, misused>>
  PROVE  ClientInv'
<1> USE ClientAssumption, TxnNumbers DEF ClientInv, Thread
<1>0. cur[t] \in Txn /\ cur[t] < nextTxn /\ nextTxn \in Nat
  BY DEF ClientTypeOK, Kinds, KindOf, Sending, Deleting, Owners
<1>a. PICK x \in Txn : x = cur[t] /\ x < nextTxn /\ nextTxn \in Nat
  BY <1>0
<1>b. /\ txn' \in [Txn -> Record]
      /\ \A y \in Txn : (IsSync(y)' <=> IsSync(y)) /\ (y # x => txn'[y].rxBuf = txn[y].rxBuf)
  <2>1. CASE UNCHANGED txn
    BY <2>1 DEF ClientTypeOK, IsSync
  <2>2. CASE ~UNCHANGED txn
    BY <1>a, <2>2
  <2> QED BY <2>1, <2>2
<1>c. pc' = [pc EXCEPT ![t] = "return"]
  BY DEF Goto
<1>d. \/ /\ x \in txnList /\ txnList' = txnList \ {x}
         /\ told' \in [Txn -> AtMostOne] /\ ~Untold(x)'
         /\ \A y \in Txn : y # x => told'[y] = told[y]
      \/ x \notin txnList /\ UNCHANGED <<txn, txnList, told>>
  <2>1. x \in txnList => Untold(x)
    BY <1>a DEF AsyncOpen, Owned
  <2>2. CASE x \in txnList
    <3>1. PICK c \in Conclusion : Tell(x, c)
      BY <1>a, <2>2
    <3> QED BY <1>a, <2>1, <2>2, <3>1, Tells
  <2> QED BY <1>a, <2>2
<1>1. ClientTypeOK'
  BY <1>a, <1>b, <1>c, <1>d DEF ClientTypeOK, Label, CallerLabel
<1>2. Places'
  BY <1>c DEF ClientTypeOK, Places, CallerLabel, SharedLabel
<1>3. Phases'
  BY <1>c DEF ClientTypeOK, Phases, Closing, SharedLabel
<1>4. RefsCounted'
  BY <1>c, SameInside DEF ClientTypeOK, Inside
<1>5. Owners'
  BY <1>a, <1>b, <1>d DEF ClientTypeOK, Owners, Owned
<1>6. Kinds'
  <2>1. \A u \in Caller : u # t => pc'[u] = pc[u] /\ cur'[u] = cur[u] /\ ret'[u] = ret[u]
    BY <1>c DEF ClientTypeOK
  <2>2. \A u \in Caller : u # t => KindOf(u)'
    BY <1>b, <2>1, OthersKind
  <2>3. pc'[t] = "return" /\ cur'[t] = None
    BY <1>c DEF ClientTypeOK
  <2>4. KindOf(t)'
    BY <2>3 DEF KindOf, Awaiting, Sending, Deleting, SharedLabel
  <2> QED BY <2>2, <2>4 DEF Kinds
<1>7. NotYetMade'
  BY <1>a, <1>d DEF NotYetMade, Untold
<1>8. SyncOpen'
  <2> SUFFICES ASSUME NEW y \in Txn, y < nextTxn, IsSync(y), Untold(y)'
               PROVE  \E u \in Caller : cur'[u] = y
    BY <1>b DEF SyncOpen
  <2>1. y # x /\ Untold(y)
    BY <1>a, <1>d DEF Untold
  <2>2. PICK u \in Caller : cur[u] = y
    BY <2>1 DEF SyncOpen
  <2> QED BY <2>1, <2>2 DEF ClientTypeOK
<1>11. CallOpen'
  BY <1>a, <1>b, <1>c, <1>d DEF ClientTypeOK, CallOpen, Untold
<1>9. AsyncOpen'
  <2> SUFFICES ASSUME NEW y \in Txn, y < nextTxn, ~IsSync(y)
               PROVE  (Untold(y)' <=> Owned(y)') /\ (Owned(y)' => txn'[y].rxBuf)
    BY <1>b DEF AsyncOpen
  <2>1. CASE y # x
    BY <1>a, <1>b, <1>d, <2>1 DEF AsyncOpen, Untold, Owned
  <2>2. CASE y = x /\ x \in txnList
    BY <1>a, <1>d, <2>2 DEF Owners, Owned
  <2>3. CASE y = x /\ x \notin txnList
    BY <1>a, <1>d, <2>3 DEF AsyncOpen, Untold, Owned
  <2> QED BY <2>1, <2>2, <2>3
<1>10. Drained'
  <2> SUFFICES ASSUME ready, Emptied', NEW y \in txnList', ~IsSync(y)'
               PROVE  \E u \in Caller : cur'[u] = y /\ pc'[u] \in Sending
    BY DEF Drained
  <2>1. Emptied /\ y \in txnList /\ ~IsSync(y) /\ y # x
    BY <1>b, <1>c, <1>d DEF ClientTypeOK, Emptied, Closing, SharedLabel
  <2>2. PICK u \in Caller : cur[u] = y /\ pc[u] \in Sending
    BY <2>1 DEF Drained
  <2> QED BY <1>a, <1>c, <2>1, <2>2 DEF ClientTypeOK
<1> QED BY <1>1, <1>2, <1>3, <1>4, <1>5, <1>6, <1>7, <1>8, <1>9, <1>10, <1>11


\* A step inside the code that the threads share, or the end of a delivery: the
\* life of the client and the calls are what they were.
LEMMA SharedMoves ==
  ASSUME ClientInv, NEW t \in Thread, NEW l \in Label, pc' = [pc EXCEPT ![t] = l],
         \/ pc[t] \in {"lock", "transmit", "detachList", "failAll"} /\ l = ret[t]
         \/ pc[t] = "detachTx" /\ l = "detachList"
         \/ pc[t] \in {"detachList", "failAll"} /\ l = "failAll"
         \/ /\ pc[t] \in {"flush", "lock", "transmit", "notSent"}
            /\ l \in {"lock", "transmit", "notSent"}
         \/ t = Reader /\ pc[t] \in {"poll", "deliver"} /\ l \in {"poll", "deliver"},
         \A y \in Txn : (IsSync(y)' <=> IsSync(y)) /\ (IsSync(y) => told'[y] = told[y]),
         \/ txnList' = {}
         \/ txnList' \subseteq txnList /\ pc[t] # "detachList",
         UNCHANGED <<nextTxn, refs, linked, accepting, ready, xport, ret, cur>>
  PROVE  Phases' /\ RefsCounted' /\ Kinds' /\ CallOpen' /\ Drained'
<1> USE ClientAssumption, TxnNumbers DEF ClientInv, Thread
<1>a. /\ pc[t] \notin Sending /\ l \notin Sending
      /\ t \in Caller => /\ pc[t] \in SharedLabel
                         /\ \/ l \in SharedLabel
                            \/ l = ret[t] /\ l \in {"wait", "return", "close"}
  <2>1. CASE t = Reader
    <3>1. t \notin Caller
      BY <2>1
    <3>2. pc[t] \in SharedLabel => ret[t] \in {"poll", "notify"}
      BY <2>1 DEF Places
    <3> QED BY <2>1, <3>1, <3>2 DEF SharedLabel, Sending
  <2>2. CASE t # Reader
    <3>1. pc[t] \in SharedLabel
      BY <2>2 DEF SharedLabel
    <3>2. ret[t] \in {"wait", "return", "close"}
      BY <2>2, <3>1 DEF Places
    <3> QED BY <2>2, <3>1, <3>2 DEF SharedLabel, Sending
  <2> QED BY <2>1, <2>2
<1>b. t \in Caller => (Closing(t)' <=> Closing(t)) /\ (Closing(t) => ~accepting)
  BY <1>a DEF Closing, Places, Phases, SharedLabel, ClientTypeOK
<1>c. \A u \in Caller : u # t => pc'[u] = pc[u]
  BY DEF ClientTypeOK
<1>1. Phases'
  <2>1. \A u \in Caller : /\ Closing(u)' <=> Closing(u)
                          /\ accepting => pc'[u] = pc[u] \/ ~Closing(u)
    BY <1>b, <1>c DEF Closing
  <2>2. xport = "closed" => pc'[Reader] = "exit"
    BY <1>c DEF Phases, ClientTypeOK, SharedLabel, Places
  <2>3. \A u \in Caller : /\ pc[u] = "idle" => pc'[u] = "idle"
                          /\ pc[u] \in {"lookup", "joinInit"} => pc'[u] = pc[u]
                          /\ pc'[u] \in {"lookup", "joinInit"} => pc[u] = pc'[u]
    BY <1>a, <1>c DEF ClientTypeOK, SharedLabel
  <2> QED BY <2>1, <2>2, <2>3 DEF Phases
<1>2. RefsCounted'
  BY <1>a, <1>c, SameInside DEF ClientTypeOK, Inside, SharedLabel
<1>3. Kinds'
  <2>1. \A u \in Caller : cur[u] # None => cur[u] \in Txn
    BY DEF ClientTypeOK
  <2>2. ASSUME NEW u \in Caller, u # t
        PROVE  /\ pc'[u] = pc[u]
               /\ cur[u] # None => (IsSync(cur[u])' <=> IsSync(cur[u]))
    BY <1>c, <2>1, <2>2
  <2>3. t \in Caller => /\ pc'[t] = l
                        /\ cur[t] # None => (IsSync(cur[t])' <=> IsSync(cur[t]))
    BY <2>1 DEF ClientTypeOK
  <2>4. ASSUME NEW u \in Caller, u # t PROVE KindOf(u)'
    <3>1. KindOf(u) /\ cur'[u] = cur[u] /\ ret'[u] = ret[u]
      BY DEF Kinds
    <3>2. /\ pc'[u] = pc[u]
          /\ cur[u] # None => (IsSync(cur[u])' <=> IsSync(cur[u]))
      BY <2>2, <2>4
    <3> QED BY <3>1, <3>2 DEF KindOf
  <2>5. ASSUME t \in Caller PROVE KindOf(t)'
    <3>1. KindOf(t) /\ cur'[t] = cur[t] /\ ret'[t] = ret[t]
      BY <2>5 DEF Kinds
    <3> QED BY <1>a, <2>3, <2>5, <3>1
            DEF KindOf, Awaiting, Sending, Deleting, SharedLabel
  <2> QED BY <2>4, <2>5 DEF Kinds
<1>4. CallOpen'
  <2> SUFFICES ASSUME NEW u \in Caller, cur[u] # None, IsSync(cur[u])'
               PROVE  Untold(cur[u])' <=> pc'[u] \notin {"invalidate", "finish"}
    BY DEF CallOpen
  <2>1. PICK x \in Txn : x = cur[u]
    BY DEF ClientTypeOK
  <2>2. Untold(x) <=> pc[u] \notin {"invalidate", "finish"}
    BY <2>1 DEF CallOpen
  <2>3. told'[x] = told[x]
    BY <2>1
  <2> QED BY <1>a, <1>c, <2>1, <2>2, <2>3 DEF Untold, SharedLabel, ClientTypeOK
<1>5. Drained'
  <2> SUFFICES ASSUME ready, Emptied', NEW y \in txnList', ~IsSync(y)'
               PROVE  \E u \in Caller : cur[u] = y /\ pc'[u] \in Sending
    BY DEF Drained
  <2>1. y \in txnList /\ ~IsSync(y) /\ pc[t] # "detachList" /\ y \in Txn
    BY DEF ClientTypeOK
  <2>2. Emptied
    <3>1. CASE xport = "closed"
      BY <3>1 DEF Emptied
    <3>2. CASE xport # "closed"
      <4>1. PICK u \in Caller : Closing(u)' /\ pc'[u] \in {"failAll", "close", "join"}
        BY <3>2 DEF Emptied
      <4>2. CASE u # t
        BY <1>c, <4>1, <4>2 DEF Emptied, Closing
      <4>3. CASE u = t
        <5>1. Closing(t) /\ pc[t] \in SharedLabel /\ ret[t] = "close"
          BY <1>a, <1>b, <4>1, <4>3 DEF Closing, SharedLabel
        <5>2. pc[t] \in {"detachTx", "failAll"}
          BY <2>1, <4>3, <5>1 DEF Places
        <5>3. pc[t] # "detachTx"
          BY <4>1, <4>3, <5>1, <5>2 DEF SharedLabel, ClientTypeOK
        <5> QED BY <4>3, <5>1, <5>2, <5>3 DEF Emptied
      <4> QED BY <4>2, <4>3
    <3> QED BY <3>1, <3>2
  <2>3. PICK u \in Caller : cur[u] = y /\ pc[u] \in Sending
    BY <2>1, <2>2 DEF Drained
  <2> QED BY <1>a, <1>c, <2>3
<1> QED BY <1>1, <1>2, <1>3, <1>4, <1>5

\* Whoever owned a request lets go of it, and tells the user if it is an
\* asynchronous one.
LEMMA OwnerLetsGo ==
  ASSUME ClientInv, NEW x \in Txn, Owned(x), ~Owned(x)',
         \A y \in Txn : y # x => (Owned(y)' <=> Owned(y)) /\ txn'[y] = txn[y],
         IsSync(x)' <=> IsSync(x),
         IF IsSync(x) THEN UNCHANGED told ELSE \E c \in Conclusion : Tell(x, c),
         UNCHANGED <<nextTxn, cur>>
  PROVE  /\ told' \in [Txn -> AtMostOne] /\ NotYetMade' /\ SyncOpen' /\ AsyncOpen'
         /\ \A y \in Txn : (IsSync(y)' <=> IsSync(y)) /\ (IsSync(y) => told'[y] = told[y])
<1> USE DEF ClientInv
<1>1. x < nextTxn /\ nextTxn \in Nat
  BY DEF Owners, ClientTypeOK
<1>2. ~IsSync(x) => Untold(x)
  BY <1>1 DEF AsyncOpen
<1>3. /\ told' \in [Txn -> AtMostOne]
      /\ \A y \in Txn : y # x => told'[y] = told[y]
      /\ IF IsSync(x) THEN told'[x] = told[x] ELSE ~Untold(x)'
  <2>1. CASE IsSync(x)
    BY <2>1 DEF ClientTypeOK
  <2>2. CASE ~IsSync(x)
    <3>1. PICK c \in Conclusion : Tell(x, c)
      BY <2>2
    <3> QED BY <1>2, <2>2, <3>1, Tells
  <2> QED BY <2>1, <2>2
<1>4. \A y \in Txn : (IsSync(y)' <=> IsSync(y)) /\ (IsSync(y) => told'[y] = told[y])
  BY <1>3 DEF IsSync
<1>5. NotYetMade'
  BY <1>1, <1>3, TxnNumbers DEF NotYetMade, Untold
<1>6. SyncOpen'
  BY <1>3, <1>4 DEF SyncOpen, Untold
<1>7. AsyncOpen'
  <2> SUFFICES ASSUME NEW y \in Txn, y < nextTxn, ~IsSync(y)
               PROVE  (Untold(y)' <=> Owned(y)') /\ (Owned(y)' => txn'[y].rxBuf)
    BY <1>4 DEF AsyncOpen
  <2>1. CASE y = x
    BY <1>3, <2>1
  <2>2. CASE y # x
    BY <1>3, <2>2 DEF AsyncOpen, Untold
  <2> QED BY <2>1, <2>2
<1> QED BY <1>3, <1>4, <1>5, <1>6, <1>7

\* What depends on neither thread nor owner follows when only structures change.
LEMMA OwnersStay ==
  ASSUME ClientInv, \A y \in Txn : Owned(y)' <=> Owned(y),
         \A y \in Txn : (IsSync(y)' <=> IsSync(y)) /\ txn'[y].rxBuf = txn[y].rxBuf,
         UNCHANGED <<nextTxn, cur, told>>
  PROVE  NotYetMade' /\ SyncOpen' /\ AsyncOpen'
BY DEF ClientInv, NotYetMade, SyncOpen, AsyncOpen, Untold


\* A step inside the shared code that changes neither list nor hands, and no
\* more of the structures than their counts.
LEMMA QueueMoves ==
  ASSUME ClientInv, NEW t \in Thread, NEW l \in Label, pc' = [pc EXCEPT ![t] = l],
         \/ pc[t] \in {"lock", "transmit"} /\ l = ret[t]
         \/ pc[t] = "detachTx" /\ l = "detachList"
         \/ pc[t] \in {"lock", "transmit"} /\ l \in {"lock", "transmit", "notSent"},
         l = "transmit" => txQLock' = t /\ accepting,
         txQLock' # txQLock => txQLock \in {t, None},
         txQLock' \in {t, None, txQLock},
         txn' \in [Txn -> Record], txQ' \in Seq(Txn),
         \A y \in Txn : (IsSync(y)' <=> IsSync(y)) /\ txn'[y].rxBuf = txn[y].rxBuf,
         seek' \in [Thread -> Txn \cup {None}],
         \A u \in Thread : u # t => seek'[u] = seek[u],
         l \in {"notSent", "transmit"} => seek'[t] \in Txn,
         received' \subseteq Txn,
         UNCHANGED <<nextTxn, txnList, refs, linked, accepting, valid, ready, xport, handles,
                     told, ret, cur, hand, misused>>
  PROVE  ClientInv'
<1> USE ClientAssumption, TxnNumbers DEF ClientInv, Thread
<1>1. ClientTypeOK'
  BY DEF ClientTypeOK
<1>a. \A u \in Thread : pc'[u] = IF u = t THEN l ELSE pc[u]
  BY DEF ClientTypeOK
<1>2. Places'
  <2>1. \A u \in Caller :
          /\ pc'[u] \in CallerLabel \cup SharedLabel
          /\ pc'[u] \in SharedLabel =>
               ret[u] \in IF pc'[u] \in {"detachTx", "detachList", "failAll"}
                           THEN {"wait", "return", "close"} ELSE {"wait", "return"}
    BY <1>a DEF Places, SharedLabel, CallerLabel
  <2>2. /\ pc'[Reader] \in ReaderLabel \cup SharedLabel
        /\ pc'[Reader] \in SharedLabel => ret[Reader] \in {"poll", "notify"}
    BY <1>a DEF Places, SharedLabel, ReaderLabel
  <2>3. \A u \in Thread : hand[u] # {} => pc'[u] \in {"failAll", "deliver"}
    BY <1>a DEF Places
  <2>4. \A u \in Thread : pc'[u] \in {"notSent", "transmit"} => seek'[u] \in Txn
    BY <1>a DEF Places
  <2>5. \A u \in Thread : pc'[u] = "transmit" => txQLock' = u /\ accepting
    BY <1>a DEF Places
  <2>6. pc'[Reader] = "deliver" => \E x \in Txn : hand[Reader] = {x}
    <3>1. CASE t = Reader
      <4>1. l # "deliver"
        BY <3>1 DEF Places, SharedLabel
      <4> QED BY <1>a, <3>1, <4>1
    <3>2. CASE t # Reader
      BY <1>a, <3>2 DEF Places
    <3> QED BY <3>1, <3>2
  <2> QED BY <2>1, <2>2, <2>3, <2>4, <2>5, <2>6 DEF Places
<1>b. \A y : Owned(y)' <=> Owned(y)
  BY DEF Owned
<1>3. Owners'
  BY <1>b DEF Owners, ClientTypeOK
<1>4. NotYetMade' /\ SyncOpen' /\ AsyncOpen'
  BY <1>b, OwnersStay
<1>5. Phases' /\ RefsCounted' /\ Kinds' /\ CallOpen' /\ Drained'
  <2>1. pc[t] # "detachList" /\ txnList' \subseteq txnList
    OBVIOUS
  <2>2. \A y \in Txn : (IsSync(y)' <=> IsSync(y)) /\ (IsSync(y) => told'[y] = told[y])
    OBVIOUS
  <2> QED BY <2>1, <2>2, SharedMoves
<1> QED BY <1>1, <1>2, <1>3, <1>4, <1>5


LEMMA BeginSendStep ==
  ASSUME ClientInv, NEW t \in Caller, BeginSend(t)
  PROVE  ClientInv'
<1> USE ClientAssumption, TxnNumbers DEF ClientInv, BeginSend, At, Goto, Thread, Call, lists,
   errors, network, locals, GetRef
<1>1. ClientTypeOK'
  BY DEF ClientTypeOK, Label, CallerLabel, SharedLabel, ReaderLabel
<1>2. Places'
  BY DEF ClientTypeOK, Places, CallerLabel, SharedLabel, ReaderLabel
<1>3. Phases'
  BY DEF ClientTypeOK, Places, Phases, Closing, SharedLabel
<1>4. RefsCounted'
  BY OneEnters DEF ClientTypeOK, Inside, Places, Phases, Closing, SharedLabel
<1>5. Owners' /\ NotYetMade' /\ SyncOpen' /\ AsyncOpen'
  BY RequestsStay DEF IsSync
<1>6. Kinds'
  BY DEF IsSync, ClientTypeOK, Kinds, KindOf, Awaiting, Sending, SharedLabel, Deleting
<1>7. CallOpen'
  BY DEF IsSync, ClientTypeOK, CallOpen, Untold
<1>8. Drained'
  BY DEF IsSync, ClientTypeOK, Phases, Drained, Emptied, Closing, Sending, SharedLabel
<1> QED BY <1>1, <1>2, <1>3, <1>4, <1>5, <1>6, <1>7, <1>8

LEMMA CheckXportStep ==
  ASSUME ClientInv, NEW t \in Caller, CheckXport(t)
  PROVE  ClientInv'
BY CallEnds, CallGoesOn DEF CheckXport, At, unchangedByEnd, lists, network, user

\* A request is made: nobody knew of it, and the list has it.
LEMMA TxnMade ==
  ASSUME ClientInv, NEW t \in Caller, pc[t] = "checked", nextTxn \in Txn,
         nextTxn' = nextTxn + 1, txnList' = txnList \cup {nextTxn},
         NEW kind \in {"sync", "async"},
         txn' = [txn EXCEPT ![nextTxn] =
           [kind |-> kind, ref |-> 1, rc |-> "none", signal |-> FALSE, rxBuf |-> TRUE]],
         pc' = [pc EXCEPT ![t] = IF kind = "sync" THEN "created" ELSE "prepare"],
         ret' = [ret EXCEPT ![t] = IF kind = "sync" THEN "wait" ELSE "return"],
         cur' = [cur EXCEPT ![t] = nextTxn],
         UNCHANGED <<txQ, txQLock, refs, linked, accepting, valid, ready, xport, received,
                     handles, seek, hand, told, misused>>
  PROVE  ClientInv'
<1> USE ClientAssumption, TxnNumbers DEF ClientInv, Thread
<1>a. PICK l \in {"created", "prepare"}, r \in {"wait", "return"} :
        /\ pc' = [pc EXCEPT ![t] = l] /\ ret' = [ret EXCEPT ![t] = r]
        /\ l = "created" => r = "wait"
        /\ r = "wait" <=> kind = "sync"
  OBVIOUS
<1>x. PICK x \in Txn : x = nextTxn
  OBVIOUS
<1>b. /\ cur[t] = None /\ ~Owned(x) /\ x \notin handles /\ Untold(x)
      /\ \A u \in Caller : cur[u] # x
      /\ nextTxn \in Nat
  BY <1>x DEF ClientTypeOK, Owners, NotYetMade, Kinds, KindOf, Awaiting, Sending, Deleting,
     SharedLabel
<1>c. /\ txn' \in [Txn -> Record]
      /\ txn'[x].rxBuf /\ (IsSync(x)' <=> kind = "sync")
      /\ \A y \in Txn : y # x => txn'[y] = txn[y] /\ (IsSync(y)' <=> IsSync(y))
  BY <1>x, FreshRecord DEF ClientTypeOK
<1>1. ClientTypeOK'
  BY <1>x, <1>a, <1>b, <1>c DEF ClientTypeOK, Txn, Label, CallerLabel
<1>2. Places'
  BY <1>a DEF ClientTypeOK, Places, CallerLabel, SharedLabel
<1>3. Phases'
  BY <1>a DEF ClientTypeOK, Phases, Closing, SharedLabel
<1>4. RefsCounted'
  BY <1>a, SameInside DEF ClientTypeOK, Inside
<1>o. \A y \in Txn : Owned(y)' <=> Owned(y) \/ y = x
  BY <1>x DEF Owned
<1>5. Owners'
  <2>1. \A y \in Txn : Owned(y)' => y < nextTxn'
    BY <1>x, <1>b, <1>o DEF Owners
  <2>2. \A u \in Thread : hand[u] \cap txnList' = {}
    BY <1>x, <1>b DEF Owners, Owned
  <2>3. \A u \in Caller : cur'[u] # None =>
          /\ cur'[u] < nextTxn' /\ cur'[u] \notin handles
          /\ \A v \in Caller : v # u => cur'[v] # cur'[u]
    <3> SUFFICES ASSUME NEW u \in Caller, cur'[u] # None
                 PROVE  /\ cur'[u] < nextTxn' /\ cur'[u] \notin handles
                        /\ \A v \in Caller : v # u => cur'[v] # cur'[u]
      OBVIOUS
    <3>1. \A v \in Caller : cur'[v] = IF v = t THEN x ELSE cur[v]
      BY <1>x DEF ClientTypeOK
    <3>2. CASE u = t
      BY <1>x, <1>b, <3>1, <3>2
    <3>3. CASE u # t
      <4>1. cur[u] \in Txn /\ cur[u] < nextTxn /\ cur[u] \notin handles
            /\ \A v \in Caller : v # u => cur[v] # cur[u]
        BY <3>1, <3>3 DEF ClientTypeOK, Owners
      <4>2. PICK y \in Txn : y = cur[u] /\ y < nextTxn /\ y \in Nat
        BY <4>1
      <4>5. cur'[u] = y /\ y < nextTxn + 1
        BY <1>b, <3>1, <3>3, <4>2
      <4>3. ASSUME NEW v \in Caller, v # u PROVE cur'[v] # cur[u]
        BY <1>b, <3>1, <4>1, <4>3
      <4> QED BY <4>1, <4>2, <4>3, <4>5
    <3> QED BY <3>2, <3>3
  <2>4. ASSUME NEW y \in handles PROVE y < nextTxn' /\ ~IsSync(y)'
    <3>1. y \in Txn /\ y # x /\ y < nextTxn /\ ~IsSync(y)
      BY <1>b DEF ClientTypeOK, Owners
    <3>2. y < nextTxn + 1
      BY <1>b, <3>1
    <3> QED BY <1>c, <3>1, <3>2
  <2> QED BY <2>1, <2>2, <2>3, <2>4 DEF Owners
<1>k. \A u \in Caller \ {t} : /\ pc'[u] = pc[u] /\ ret'[u] = ret[u] /\ cur'[u] = cur[u]
                             /\ cur[u] # None => (IsSync(cur[u])' <=> IsSync(cur[u]))
  <2> SUFFICES ASSUME NEW u \in Caller \ {t}
               PROVE  /\ pc'[u] = pc[u] /\ ret'[u] = ret[u] /\ cur'[u] = cur[u]
                      /\ cur[u] # None => (IsSync(cur[u])' <=> IsSync(cur[u]))
    OBVIOUS
  <2>1. pc'[u] = pc[u] /\ ret'[u] = ret[u] /\ cur'[u] = cur[u]
    BY DEF ClientTypeOK
  <2>2. PICK y \in Txn \cup {None} : y = cur[u]
    BY DEF ClientTypeOK
  <2> QED BY <1>b, <1>c, <2>1, <2>2
<1>6. Kinds'
  <2>1. pc'[t] = l /\ ret'[t] = r /\ cur'[t] = x /\ (IsSync(cur[t])' <=> r = "wait")
    BY <1>x, <1>a, <1>c DEF ClientTypeOK
  <2> QED BY <1>a, <1>k, <2>1 DEF Kinds, KindOf, Awaiting, Sending, Deleting, SharedLabel
<1>7. NotYetMade'
  <2> SUFFICES ASSUME NEW y \in Txn, y >= nextTxn + 1 PROVE told[y] = <<>>
    BY DEF NotYetMade, Untold
  <2>1. y >= nextTxn
    BY <1>b
  <2> QED BY <2>1 DEF NotYetMade, Untold
<1>8. SyncOpen'
  <2> SUFFICES ASSUME NEW y \in Txn, y < nextTxn + 1, IsSync(y)', Untold(y)
               PROVE  \E u \in Caller : cur'[u] = y
    BY DEF SyncOpen, Untold
  <2>1. CASE y = x
    BY <1>x, <2>1 DEF ClientTypeOK
  <2>2. CASE y # x
    <3>1. PICK u \in Caller : cur[u] = y
      BY <1>x, <1>b, <1>c, <2>2 DEF SyncOpen
    <3>2. u # t
      BY <1>x, <1>b, <3>1
    <3> QED BY <3>1, <3>2 DEF ClientTypeOK
  <2> QED BY <2>1, <2>2
<1>11. CallOpen'
  <2>1. pc'[t] = l /\ cur'[t] = x /\ told'[x] = <<>>
    BY <1>x, <1>a, <1>b DEF ClientTypeOK, Untold
  <2> QED BY <1>a, <1>k, <2>1 DEF CallOpen, Untold
<1>9. AsyncOpen'
  BY <1>x, <1>b, <1>c, <1>o DEF AsyncOpen, Untold
<1>10. Drained'
  BY <1>x, <1>a, <1>b, <1>c DEF ClientTypeOK, Drained, Emptied, Closing, Sending, SharedLabel,
     Owners
<1> QED BY <1>1, <1>2, <1>3, <1>4, <1>5, <1>6, <1>7, <1>8, <1>9, <1>10, <1>11

LEMMA GetTxnStep ==
  ASSUME ClientInv, NEW t \in Caller, GetTxn(t)
  PROVE  ClientInv'
<1>1. CASE nextTxn' = nextTxn + 1
  BY <1>1, TxnMade DEF GetTxn, At, Goto, network, user
<1>2. CASE PutRef(t) /\ UNCHANGED <<txn, nextTxn, txnList>>
  BY <1>2, CallEnds DEF GetTxn, At, network, user
<1> QED BY <1>1, <1>2 DEF GetTxn

LEMMA TakeRefStep ==
  ASSUME ClientInv, NEW t \in Caller, TakeRef(t)
  PROVE  ClientInv'
<1> USE ClientAssumption, TxnNumbers DEF ClientInv, TakeRef, At, Goto, Thread, Inc, Touch,
   lists, client, errors, network, locals
<1>a. cur[t] \in Txn
  BY DEF ClientTypeOK, Kinds, KindOf, Awaiting, Sending
<1>b. /\ txn' \in [Txn -> Record] /\ misused' \subseteq Txn
      /\ \A y \in Txn : (IsSync(y)' <=> IsSync(y)) /\ txn'[y].rxBuf = txn[y].rxBuf
  BY <1>a, RefCounted DEF ClientTypeOK
<1>1. ClientTypeOK'
  BY <1>a, <1>b DEF ClientTypeOK, Label, CallerLabel, SharedLabel, ReaderLabel
<1>2. Places'
  BY <1>a, <1>b DEF ClientTypeOK, Places, CallerLabel, SharedLabel, ReaderLabel
<1>3. Phases'
  BY <1>a, <1>b DEF ClientTypeOK, Places, Phases, Closing, SharedLabel
<1>4. RefsCounted'
  BY <1>a, <1>b, SameInside DEF ClientTypeOK, Inside, Places, Phases, Closing, SharedLabel
<1>5. Owners' /\ NotYetMade' /\ SyncOpen' /\ AsyncOpen'
  BY <1>a, <1>b, RequestsStay
<1>6. Kinds'
  BY <1>a, <1>b DEF ClientTypeOK, Kinds, KindOf, Awaiting, Sending, SharedLabel, Deleting
<1>7. CallOpen'
  BY <1>a, <1>b DEF ClientTypeOK, CallOpen, Untold
<1>8. Drained'
  BY <1>a, <1>b DEF ClientTypeOK, Phases, Drained, Emptied, Closing, Sending, SharedLabel
<1> QED BY <1>1, <1>2, <1>3, <1>4, <1>5, <1>6, <1>7, <1>8

LEMMA PrepareStep ==
  ASSUME ClientInv, NEW t \in Caller, Prepare(t)
  PROVE  ClientInv'
<1> USE ClientAssumption, TxnNumbers DEF ClientInv, Thread
<1>a. UNCHANGED <<nextTxn, txnList, txQ, txQLock, refs, linked, accepting, valid, ready,
                  xport, received, handles, ret, cur, seek, hand, told>>
  BY DEF Prepare, lists, client, errors, network, locals
<1>b. cur[t] \in Txn /\ pc[t] = "prepare"
  BY DEF ClientTypeOK, Kinds, KindOf, Sending, Prepare, At
<1>c. /\ txn' \in [Txn -> Record]
      /\ \A y \in Txn : (IsSync(y)' <=> IsSync(y)) /\ txn'[y].rxBuf = txn[y].rxBuf
  <2>1. CASE IsSync(cur[t])
    <3>1. txn' = [txn EXCEPT ![cur[t]].signal = FALSE, ![cur[t]].rc = "timeout"]
      BY <2>1 DEF Prepare
    <3> QED BY <1>b, <3>1, Prepared DEF ClientTypeOK
  <2>2. CASE ~IsSync(cur[t])
    BY <2>2 DEF ClientTypeOK, Prepare, IsSync
  <2> QED BY <2>1, <2>2
<1>d. misused' \subseteq Txn
  BY <1>b DEF ClientTypeOK, Prepare, Touch
<1>e. PICK l \in {"unsent", "queueRef"} : pc' = [pc EXCEPT ![t] = l]
  BY DEF Prepare, Goto
<1>1. ClientTypeOK'
  BY <1>a, <1>b, <1>c, <1>d, <1>e DEF ClientTypeOK, Label, CallerLabel, SharedLabel, ReaderLabel
<1>2. Places'
  BY <1>a, <1>b, <1>c, <1>d, <1>e DEF ClientTypeOK, Places, CallerLabel, SharedLabel,
     ReaderLabel
<1>3. Phases'
  BY <1>a, <1>b, <1>c, <1>d, <1>e DEF ClientTypeOK, Places, Phases, Closing, SharedLabel
<1>4. RefsCounted'
  BY <1>a, <1>b, <1>c, <1>d, <1>e, SameInside DEF ClientTypeOK, Inside, Places, Phases, Closing,
     SharedLabel
<1>5. Owners' /\ NotYetMade' /\ SyncOpen' /\ AsyncOpen'
  BY <1>a, <1>b, <1>c, <1>d, <1>e, RequestsStay
<1>6. Kinds'
  <2>1. \A u \in Caller : u # t => pc'[u] = pc[u] /\ cur'[u] = cur[u] /\ ret'[u] = ret[u]
    BY <1>a, <1>b, <1>c, <1>e DEF ClientTypeOK
  <2>2. \A u \in Caller : u # t => KindOf(u)'
    BY <1>a, <1>b, <1>c, <1>e, <2>1, OthersKind
  <2>3. KindOf(t)'
    BY <1>a, <1>b, <1>c, <1>e DEF ClientTypeOK, Kinds, KindOf, Awaiting, Sending, SharedLabel,
       Deleting
  <2> QED BY <2>2, <2>3 DEF Kinds
<1>7. CallOpen'
  BY <1>a, <1>b, <1>c, <1>d, <1>e DEF ClientTypeOK, CallOpen, Untold
<1>8. Drained'
  BY <1>a, <1>b, <1>c, <1>d, <1>e DEF ClientTypeOK, Phases, Drained, Emptied, Closing, Sending,
     SharedLabel
<1> QED BY <1>1, <1>2, <1>3, <1>4, <1>5, <1>6, <1>7, <1>8

LEMMA QueueRefStep ==
  ASSUME ClientInv, NEW t \in Caller, QueueRef(t)
  PROVE  ClientInv'
<1> USE ClientAssumption, TxnNumbers DEF ClientInv, QueueRef, At, Goto, Thread, Inc, Touch,
   lists, client, errors, network, locals
<1>a. cur[t] \in Txn
  BY DEF ClientTypeOK, Kinds, KindOf, Awaiting, Sending
<1>b. /\ txn' \in [Txn -> Record] /\ misused' \subseteq Txn
      /\ \A y \in Txn : (IsSync(y)' <=> IsSync(y)) /\ txn'[y].rxBuf = txn[y].rxBuf
  BY <1>a, RefCounted DEF ClientTypeOK
<1>1. ClientTypeOK'
  BY <1>a, <1>b DEF ClientTypeOK, Label, CallerLabel, SharedLabel, ReaderLabel
<1>2. Places'
  BY <1>a, <1>b DEF ClientTypeOK, Places, CallerLabel, SharedLabel, ReaderLabel
<1>3. Phases'
  BY <1>a, <1>b DEF ClientTypeOK, Places, Phases, Closing, SharedLabel
<1>4. RefsCounted'
  BY <1>a, <1>b, SameInside DEF ClientTypeOK, Inside, Places, Phases, Closing, SharedLabel
<1>5. Owners' /\ NotYetMade' /\ SyncOpen' /\ AsyncOpen'
  BY <1>a, <1>b, RequestsStay
<1>6. Kinds'
  BY <1>a, <1>b DEF ClientTypeOK, Kinds, KindOf, Awaiting, Sending, SharedLabel, Deleting
<1>7. CallOpen'
  BY <1>a, <1>b DEF ClientTypeOK, CallOpen, Untold
<1>8. Drained'
  BY <1>a, <1>b DEF ClientTypeOK, Phases, Drained, Emptied, Closing, Sending, SharedLabel
<1> QED BY <1>1, <1>2, <1>3, <1>4, <1>5, <1>6, <1>7, <1>8

LEMMA EnqueueStep ==
  ASSUME ClientInv, NEW t \in Caller, Enqueue(t)
  PROVE  ClientInv'
<1> USE ClientAssumption, TxnNumbers DEF ClientInv, Thread
<1>a. UNCHANGED <<nextTxn, txnList, txQLock, refs, linked, accepting, valid, ready, xport,
                  received, handles, ret, cur, seek, hand, told, misused>>
  BY DEF Enqueue, client, errors, network, user, locals
<1>b. cur[t] \in Txn /\ pc[t] = "enqueue"
  BY DEF ClientTypeOK, Kinds, KindOf, Sending, Enqueue, At
<1>c. /\ txn' \in [Txn -> Record]
      /\ \A y \in Txn : (IsSync(y)' <=> IsSync(y)) /\ txn'[y].rxBuf = txn[y].rxBuf
  BY <1>b, RefCounted DEF ClientTypeOK, Enqueue, IsSync
<1>d. txQ' \in Seq(Txn)
  <2>1. txQ' = Append(txQ, cur[t]) \/ txQ' = txQ
    BY DEF Enqueue
  <2>2. txQ \in Seq(Txn)
    BY DEF ClientTypeOK
  <2> QED BY <1>b, <2>1, <2>2
<1>e. PICK l \in {"flush", "unsent"} :
        pc' = [pc EXCEPT ![t] = l] /\ l = IF accepting THEN "flush" ELSE "unsent"
  BY DEF Enqueue, Goto
<1>1. ClientTypeOK'
  BY <1>a, <1>b, <1>c, <1>d, <1>e DEF ClientTypeOK, Label, CallerLabel, SharedLabel, ReaderLabel
<1>2. Places'
  BY <1>a, <1>b, <1>e DEF ClientTypeOK, Places, Kinds, KindOf, Sending, CallerLabel, SharedLabel
<1>3. Phases'
  BY <1>a, <1>b, <1>e DEF ClientTypeOK, Phases, Closing, Kinds, KindOf, Sending, SharedLabel
<1>4. RefsCounted'
  BY <1>a, <1>b, <1>c, <1>d, <1>e, SameInside DEF ClientTypeOK, Inside, Places, Phases, Closing,
     SharedLabel
<1>5. Owners' /\ NotYetMade' /\ SyncOpen' /\ AsyncOpen'
  BY <1>a, <1>b, <1>c, <1>d, <1>e, RequestsStay
<1>6. Kinds'
  <2>1. \A u \in Caller : u # t => pc'[u] = pc[u] /\ cur'[u] = cur[u] /\ ret'[u] = ret[u]
    BY <1>a, <1>b, <1>c, <1>e DEF ClientTypeOK
  <2>2. \A u \in Caller : u # t => KindOf(u)'
    BY <1>a, <1>b, <1>c, <1>e, <2>1, OthersKind
  <2>3. KindOf(t)'
    BY <1>a, <1>b, <1>c, <1>e DEF ClientTypeOK, Kinds, KindOf, Awaiting, Sending, SharedLabel,
       Deleting
  <2> QED BY <2>2, <2>3 DEF Kinds
<1>7. CallOpen'
  BY <1>a, <1>b, <1>c, <1>d, <1>e DEF ClientTypeOK, CallOpen, Untold
<1>8. Drained'
  BY <1>a, <1>b, <1>c, <1>d, <1>e DEF ClientTypeOK, Phases, Drained, Emptied, Closing, Sending,
     SharedLabel
<1> QED BY <1>1, <1>2, <1>3, <1>4, <1>5, <1>6, <1>7, <1>8

LEMMA WaitResponseStep ==
  ASSUME ClientInv, NEW t \in Caller, WaitResponse(t)
  PROVE  ClientInv'
<1> USE ClientAssumption, TxnNumbers DEF ClientInv, Thread
<1>a. UNCHANGED <<nextTxn, txnList, txQ, txQLock, refs, linked, accepting, valid, ready,
                  xport, received, handles, ret, cur, seek, hand, misused>>
  BY DEF WaitResponse, lists, client, network, locals
<1>b. cur[t] \in Txn /\ IsSync(cur[t]) /\ pc[t] = "wait"
  BY DEF ClientTypeOK, Kinds, KindOf, Awaiting, WaitResponse, At
<1>c. txn' = [txn EXCEPT ![cur[t]].signal = FALSE]
  BY DEF WaitResponse
<1>1. CASE UNCHANGED <<pc, told>>
  <2>1. /\ txn' \in [Txn -> Record]
        /\ \A y \in Txn : (IsSync(y)' <=> IsSync(y)) /\ (y # cur[t] => txn'[y] = txn[y])
    BY <1>b, <1>c, Signalled DEF ClientTypeOK
  <2>2. ClientTypeOK' /\ Places' /\ Phases' /\ RefsCounted'
    BY <1>a, <1>1, <2>1, SameInside DEF ClientTypeOK, Places, Phases, Closing, Inside
  <2>3. Owners' /\ Kinds' /\ Drained'
    BY <1>a, <1>1, <2>1 DEF ClientTypeOK, Owners, Owned, Kinds, KindOf, Drained, Emptied,
       Closing
  <2>4. NotYetMade'
    BY <1>a, <1>1 DEF NotYetMade, Untold
  <2>6. SyncOpen' /\ CallOpen'
    BY <1>a, <1>b, <1>1, <2>1 DEF ClientTypeOK, SyncOpen, CallOpen, Untold
  <2>5. AsyncOpen'
    BY <1>a, <1>b, <1>1, <2>1 DEF AsyncOpen, Untold, Owned
  <2> QED BY <2>2, <2>3, <2>4, <2>5, <2>6
<1>2. CASE ~UNCHANGED <<pc, told>>
  <2>1. PICK c \in Conclusion : Tell(cur[t], c)
    BY <1>2 DEF WaitResponse, Conclusion
  <2>2. pc' = [pc EXCEPT ![t] = "invalidate"]
    BY <1>2 DEF WaitResponse, Goto
  <2> QED BY <1>a, <1>b, <1>c, <2>1, <2>2, SyncCallTold
<1> QED BY <1>1, <1>2

LEMMA WaitTimedOutStep ==
  ASSUME ClientInv, NEW t \in Caller, WaitTimedOut(t)
  PROVE  ClientInv'
<1>1. IsSync(cur[t])
  BY DEF WaitTimedOut, At, ClientInv, Kinds, KindOf, Awaiting
<1> QED BY <1>1, SyncCallTold DEF Conclusion, WaitTimedOut, At, Goto, lists, client, network,
   locals

LEMMA UnsentSyncStep ==
  ASSUME ClientInv, NEW t \in Caller, UnsentSync(t)
  PROVE  ClientInv'
BY SyncCallTold DEF Conclusion, UnsentSync, At, Goto, lists, client, network, locals

LEMMA UnsentAsyncStep ==
  ASSUME ClientInv, NEW t \in Caller, UnsentAsync(t)
  PROVE  ClientInv'
<1>a. cur[t] \in Txn /\ txn \in [Txn -> Record]
  BY TxnNumbers DEF UnsentAsync, At, ClientInv, ClientTypeOK, Kinds, KindOf, Sending, Thread
<1>1. CASE cur[t] \in txnList
  <2>1. Dec(cur[t])
    BY <1>1 DEF UnsentAsync
  <2>2. /\ txn' \in [Txn -> Record]
        /\ \A y \in Txn : (IsSync(y)' <=> IsSync(y)) /\ txn'[y].rxBuf = txn[y].rxBuf
    BY <1>a, <2>1, RefCounted
  <2> QED BY <1>1, <2>2, AsyncCallLooks DEF UnsentAsync, At, Conclusion, client, network
<1>2. CASE cur[t] \notin txnList
  BY <1>2, AsyncCallLooks DEF UnsentAsync, At, client, network
<1> QED BY <1>1, <1>2

LEMMA ReturnStep ==
  ASSUME ClientInv, NEW t \in Caller, Return(t)
  PROVE  ClientInv'
<1> USE ClientAssumption, TxnNumbers DEF ClientInv, Return, At, Goto, Thread, PutRef, lists,
   errors, network, unchangedByEnd
<1>a. /\ cur[t] # None => cur[t] \in Txn /\ cur[t] < nextTxn /\ ~IsSync(cur[t])
      /\ cur' = [cur EXCEPT ![t] = None]
      /\ \A y \in Txn : IsSync(y)' <=> IsSync(y)
  BY DEF ClientTypeOK, Kinds, KindOf, Owners, IsSync
<1>1. ClientTypeOK'
  <2>1. handles' \subseteq Txn
    BY <1>a DEF ClientTypeOK
  <2>2. pc' \in [Thread -> Label] /\ ret' \in [Thread -> Label]
    BY DEF ClientTypeOK, Label, CallerLabel
  <2>3. cur' \in [Thread -> Txn \cup {None}]
    BY <1>a DEF ClientTypeOK
  <2> QED BY <2>1, <2>2, <2>3 DEF ClientTypeOK
<1>2. Places'
  BY <1>a DEF ClientTypeOK, Places, CallerLabel, SharedLabel, ReaderLabel
<1>3. Phases'
  BY <1>a DEF ClientTypeOK, Places, Phases, Closing, SharedLabel
<1>4. RefsCounted'
  BY <1>a, OneLeaves DEF ClientTypeOK, Inside, Places, Phases, Closing, SharedLabel
<1>5. Owners'
  BY <1>a DEF ClientTypeOK, Owners, Owned
<1>6. Kinds'
  <2>1. \A u \in Caller : u # t => pc'[u] = pc[u] /\ cur'[u] = cur[u] /\ ret'[u] = ret[u]
    BY <1>a DEF ClientTypeOK
  <2>2. \A u \in Caller : u # t => KindOf(u)'
    BY <1>a, <2>1, OthersKind
  <2>3. KindOf(t)'
    BY <1>a DEF ClientTypeOK, Kinds, KindOf, Awaiting, Sending, SharedLabel, Deleting
  <2> QED BY <2>2, <2>3 DEF Kinds
<1>7. NotYetMade'
  BY <1>a DEF ClientTypeOK, NotYetMade, Untold
<1>8. SyncOpen'
  <2> SUFFICES ASSUME NEW x \in Txn, x < nextTxn, IsSync(x), Untold(x)
               PROVE  \E u \in Caller : cur'[u] = x
    BY <1>a DEF SyncOpen, Untold
  <2>1. PICK u \in Caller : cur[u] = x
    BY DEF SyncOpen
  <2>2. u # t
    BY <1>a, <2>1
  <2> QED BY <1>a, <2>1, <2>2 DEF ClientTypeOK
<1>9. CallOpen'
  BY <1>a DEF ClientTypeOK, CallOpen, Untold
<1>10. AsyncOpen'
  BY <1>a DEF ClientTypeOK, AsyncOpen, Untold, Owned
<1>11. Drained'
  <2> SUFFICES ASSUME ready, Emptied, NEW x \in txnList, ~IsSync(x)
               PROVE  \E u \in Caller : cur'[u] = x /\ pc'[u] \in Sending
    BY <1>a DEF ClientTypeOK, Drained, Emptied, Closing, SharedLabel
  <2>1. PICK u \in Caller : cur[u] = x /\ pc[u] \in Sending
    BY DEF Drained
  <2>2. u # t
    BY <2>1 DEF Sending
  <2> QED BY <1>a, <2>1, <2>2 DEF ClientTypeOK
<1> QED BY <1>1, <1>2, <1>3, <1>4, <1>5, <1>6, <1>7, <1>8, <1>9, <1>10, <1>11

LEMMA InvalidateStep ==
  ASSUME ClientInv, NEW t \in Caller, Invalidate(t)
  PROVE  ClientInv'
<1> USE ClientAssumption, TxnNumbers DEF ClientInv, Thread
<1>a. UNCHANGED <<nextTxn, txnList, txQ, txQLock, refs, linked, accepting, valid, ready,
                  xport, received, handles, ret, cur, seek, hand, told>>
  BY DEF Invalidate, lists, client, errors, network, locals
<1>b. cur[t] \in Txn /\ IsSync(cur[t]) /\ pc[t] = "invalidate"
  BY DEF ClientTypeOK, Kinds, KindOf, Awaiting, Invalidate, At, Goto, Touch, lists, client,
     errors, network, locals
<1>c. /\ txn' \in [Txn -> Record]
      /\ \A y \in Txn : (IsSync(y)' <=> IsSync(y)) /\ (y # cur[t] => txn'[y] = txn[y])
  BY <1>b, BufferBack DEF ClientTypeOK, Invalidate
<1>d. misused' \subseteq Txn /\ pc' = [pc EXCEPT ![t] = "finish"]
  BY <1>b DEF ClientTypeOK, Invalidate, At, Goto, Touch, lists, client, errors, network, locals
<1>1. ClientTypeOK'
  BY <1>a, <1>b, <1>c, <1>d DEF ClientTypeOK, Label, CallerLabel, SharedLabel, ReaderLabel
<1>2. Places'
  BY <1>a, <1>b, <1>c, <1>d DEF ClientTypeOK, Places, CallerLabel, SharedLabel, ReaderLabel
<1>3. Phases'
  BY <1>a, <1>b, <1>c, <1>d DEF ClientTypeOK, Places, Phases, Closing, SharedLabel
<1>4. RefsCounted'
  BY <1>a, <1>b, <1>c, <1>d, SameInside DEF ClientTypeOK, Inside, Places, Phases, Closing,
     SharedLabel
<1>5. Owners'
  BY <1>a, <1>b, <1>c, <1>d DEF ClientTypeOK, Owners, Owned
<1>6. Kinds'
  <2>1. \A u \in Caller : u # t => pc'[u] = pc[u] /\ cur'[u] = cur[u] /\ ret'[u] = ret[u]
    BY <1>a, <1>b, <1>c, <1>d DEF ClientTypeOK
  <2>2. \A u \in Caller : u # t => KindOf(u)'
    BY <1>a, <1>b, <1>c, <1>d, <2>1, OthersKind
  <2>3. KindOf(t)'
    BY <1>a, <1>b, <1>c, <1>d DEF ClientTypeOK, Kinds, KindOf, Awaiting, Sending, SharedLabel,
       Deleting
  <2> QED BY <2>2, <2>3 DEF Kinds
<1>7. NotYetMade'
  BY <1>a, <1>b, <1>c, <1>d DEF ClientTypeOK, NotYetMade, Untold
<1>8. SyncOpen'
  BY <1>a, <1>b, <1>c, <1>d DEF ClientTypeOK, SyncOpen, Untold
<1>9. CallOpen'
  BY <1>a, <1>b, <1>c, <1>d DEF ClientTypeOK, CallOpen, Untold
<1>10. AsyncOpen'
  BY <1>a, <1>b, <1>c, <1>d DEF ClientTypeOK, AsyncOpen, Untold, Owned
<1>11. Drained'
  BY <1>a, <1>b, <1>c, <1>d DEF ClientTypeOK, Phases, Drained, Emptied, Closing, Sending,
     SharedLabel
<1> QED BY <1>1, <1>2, <1>3, <1>4, <1>5, <1>6, <1>7, <1>8, <1>9, <1>10, <1>11

LEMMA FinishSyncStep ==
  ASSUME ClientInv, NEW t \in Caller, FinishSync(t)
  PROVE  ClientInv'
<1> USE ClientAssumption, TxnNumbers DEF ClientInv, FinishSync, At, Goto, Thread, PutRef, Less,
   errors, network, user, unchangedByEnd
<1>a. cur[t] \in Txn /\ IsSync(cur[t])
  BY DEF ClientTypeOK, Kinds, KindOf, Awaiting
<1>b. /\ txn' \in [Txn -> Record]
      /\ \A y \in Txn : (IsSync(y)' <=> IsSync(y)) /\ txn'[y].rxBuf = txn[y].rxBuf
  <2>1. PICK k \in 1..2 : k = IF cur[t] \in txnList THEN 2 ELSE 1
    OBVIOUS
  <2>2. txn' = [txn EXCEPT ![cur[t]].ref = Less(@, k)]
    BY <2>1
  <2> QED BY <1>a, <2>2, TwoReferences DEF ClientTypeOK
<1>1. ClientTypeOK'
  BY <1>a, <1>b DEF ClientTypeOK, Label, CallerLabel, SharedLabel, ReaderLabel
<1>2. Places'
  BY <1>a, <1>b DEF ClientTypeOK, Places, CallerLabel, SharedLabel, ReaderLabel
<1>3. Phases'
  BY <1>a, <1>b DEF ClientTypeOK, Places, Phases, Closing, SharedLabel
<1>4. RefsCounted'
  BY OneLeaves DEF ClientTypeOK, Inside
<1>5. Owners'
  BY <1>a, <1>b DEF ClientTypeOK, Owners, Owned
<1>6. Kinds'
  BY <1>a, <1>b DEF ClientTypeOK, Kinds, KindOf, Awaiting, Sending, SharedLabel, Deleting
<1>7. NotYetMade'
  BY <1>a, <1>b DEF ClientTypeOK, NotYetMade, Untold
<1>8. SyncOpen'
  <2> SUFFICES ASSUME NEW x \in Txn, x < nextTxn, IsSync(x), Untold(x)
               PROVE  \E u \in Caller : cur'[u] = x
    BY <1>b DEF SyncOpen, Untold
  <2>1. PICK u \in Caller : cur[u] = x
    BY DEF SyncOpen
  <2>2. u # t
    BY <1>a, <2>1 DEF CallOpen
  <2> QED BY <2>1, <2>2 DEF ClientTypeOK
<1>9. CallOpen'
  BY <1>a, <1>b DEF ClientTypeOK, CallOpen, Untold
<1>10. AsyncOpen'
  BY <1>a, <1>b DEF ClientTypeOK, AsyncOpen, Untold, Owned
<1>11. Drained'
  BY <1>a, <1>b DEF ClientTypeOK, Phases, Drained, Emptied, Closing, Sending, SharedLabel
<1> QED BY <1>1, <1>2, <1>3, <1>4, <1>5, <1>6, <1>7, <1>8, <1>9, <1>10, <1>11

LEMMA BeginDeleteStep ==
  ASSUME ClientInv, NEW t \in Caller, BeginDelete(t)
  PROVE  ClientInv'
<1> USE ClientAssumption, TxnNumbers DEF ClientInv, BeginDelete, At, Goto, Thread, Call, lists,
   errors, network, GetRef
<1>a. PICK x \in handles : handles' = handles \ {x} /\ cur' = [cur EXCEPT ![t] = x]
  OBVIOUS
<1>b. x \in Txn /\ ~IsSync(x) /\ cur[t] = None /\ \A y \in Txn : IsSync(y)' <=> IsSync(y)
  BY DEF ClientTypeOK, Owners, Kinds, KindOf, Awaiting, Sending, Deleting, SharedLabel, IsSync
<1>1. ClientTypeOK'
  BY <1>a, <1>b DEF ClientTypeOK, Label, CallerLabel, SharedLabel, ReaderLabel
<1>2. Places'
  BY <1>a, <1>b DEF ClientTypeOK, Places, CallerLabel, SharedLabel, ReaderLabel
<1>3. Phases'
  BY <1>a, <1>b DEF ClientTypeOK, Places, Phases, Closing, SharedLabel
<1>4. RefsCounted'
  BY <1>a, <1>b, OneEnters DEF ClientTypeOK, Inside, Places, Phases, Closing, SharedLabel
<1>5. Owners'
  <2>1. \A u \in Caller : cur'[u] = IF u = t THEN x ELSE cur[u]
    BY <1>a DEF ClientTypeOK
  <2>2. \A u \in Caller : cur'[u] # None =>
          /\ cur'[u] < nextTxn /\ cur'[u] \notin handles'
          /\ \A v \in Caller : v # u => cur'[v] # cur'[u]
    <3> SUFFICES ASSUME NEW u \in Caller, cur'[u] # None
                 PROVE  /\ cur'[u] < nextTxn /\ cur'[u] \notin handles'
                        /\ \A v \in Caller : v # u => cur'[v] # cur'[u]
      OBVIOUS
    <3>1. x < nextTxn /\ x \notin handles' /\ \A v \in Caller : cur[v] # x
      BY <1>a, <1>b DEF Owners
    <3>2. CASE u = t
      BY <1>b, <2>1, <3>1, <3>2
    <3>3. CASE u # t
      BY <1>a, <1>b, <2>1, <3>1, <3>3 DEF Owners
    <3> QED BY <3>2, <3>3
  <2>3. \A y \in handles' : y < nextTxn /\ ~IsSync(y)'
    BY <1>a, <1>b DEF ClientTypeOK, Owners
  <2>4. \A y \in Txn : Owned(y)' <=> Owned(y)
    BY DEF Owned
  <2> QED BY <2>2, <2>3, <2>4 DEF Owners
<1>6. Kinds'
  <2>1. \A u \in Caller : u # t => pc'[u] = pc[u] /\ cur'[u] = cur[u] /\ ret'[u] = ret[u]
    BY <1>a, <1>b DEF ClientTypeOK
  <2>2. \A u \in Caller : u # t => KindOf(u)'
    BY <1>a, <1>b, <2>1, OthersKind
  <2>3. KindOf(t)'
    BY <1>a, <1>b DEF ClientTypeOK, Kinds, KindOf, Awaiting, Sending, SharedLabel, Deleting
  <2> QED BY <2>2, <2>3 DEF Kinds
<1>7. NotYetMade'
  BY <1>a, <1>b DEF ClientTypeOK, NotYetMade, Untold
<1>8. SyncOpen'
  <2> SUFFICES ASSUME NEW y \in Txn, y < nextTxn, IsSync(y), Untold(y)
               PROVE  \E u \in Caller : cur'[u] = y
    BY <1>b DEF SyncOpen, Untold
  <2>1. PICK u \in Caller : cur[u] = y
    BY DEF SyncOpen
  <2>2. u # t
    BY <1>b, <2>1
  <2> QED BY <1>a, <2>1, <2>2 DEF ClientTypeOK
<1>9. CallOpen'
  BY <1>a, <1>b DEF ClientTypeOK, CallOpen, Untold
<1>10. AsyncOpen'
  BY <1>a, <1>b DEF ClientTypeOK, AsyncOpen, Untold, Owned
<1>11. Drained'
  BY <1>a, <1>b DEF ClientTypeOK, Phases, Drained, Emptied, Closing, Sending, SharedLabel
<1> QED BY <1>1, <1>2, <1>3, <1>4, <1>5, <1>6, <1>7, <1>8, <1>9, <1>10, <1>11

LEMMA DeleteFromQueueStep ==
  ASSUME ClientInv, NEW t \in Caller, DeleteFromQueue(t)
  PROVE  ClientInv'
<1> USE ClientAssumption, TxnNumbers DEF ClientInv, Thread
<1>a. UNCHANGED <<nextTxn, txnList, txQLock, refs, linked, accepting, valid, ready, xport,
                  received, handles, ret, cur, seek, hand, told, misused>>
  BY DEF DeleteFromQueue, client, errors, network, user, locals
<1>b. /\ cur[t] \in Txn /\ ~IsSync(cur[t]) /\ pc[t] = "delQueue"
      /\ pc' = [pc EXCEPT ![t] = "delList"]
  BY DEF ClientTypeOK, Kinds, KindOf, Deleting, DeleteFromQueue, At, Goto
<1>c. /\ txQ' \in Seq(Txn) /\ txn' \in [Txn -> Record]
      /\ \A y \in Txn : (IsSync(y)' <=> IsSync(y)) /\ txn'[y].rxBuf = txn[y].rxBuf
  BY <1>b, Dequeued DEF ClientTypeOK, DeleteFromQueue, IsSync
<1>1. ClientTypeOK'
  BY <1>a, <1>b, <1>c DEF ClientTypeOK, Label, CallerLabel, SharedLabel, ReaderLabel
<1>2. Places'
  BY <1>a, <1>b, <1>c DEF ClientTypeOK, Places, CallerLabel, SharedLabel, ReaderLabel
<1>3. Phases'
  BY <1>a, <1>b, <1>c DEF ClientTypeOK, Places, Phases, Closing, SharedLabel
<1>4. RefsCounted'
  BY <1>a, <1>b, <1>c, SameInside DEF ClientTypeOK, Inside, Places, Phases, Closing, SharedLabel
<1>5. Owners' /\ NotYetMade' /\ SyncOpen' /\ AsyncOpen'
  BY <1>a, <1>b, <1>c, RequestsStay
<1>6. Kinds'
  <2>1. \A u \in Caller : u # t => pc'[u] = pc[u] /\ cur'[u] = cur[u] /\ ret'[u] = ret[u]
    BY <1>a, <1>b, <1>c DEF ClientTypeOK
  <2>2. \A u \in Caller : u # t => KindOf(u)'
    BY <1>a, <1>b, <1>c, <2>1, OthersKind
  <2>3. KindOf(t)'
    BY <1>a, <1>b, <1>c DEF ClientTypeOK, Kinds, KindOf, Awaiting, Sending, SharedLabel,
       Deleting
  <2> QED BY <2>2, <2>3 DEF Kinds
<1>7. CallOpen'
  BY <1>a, <1>b, <1>c DEF ClientTypeOK, CallOpen, Untold
<1>8. Drained'
  <2>1. Emptied' => Emptied
    BY <1>a, <1>b DEF ClientTypeOK, Emptied, Closing, SharedLabel
  <2>2. \A u \in Caller : pc[u] \in Sending => pc'[u] \in Sending
    BY <1>b DEF ClientTypeOK, Sending
  <2> QED BY <1>a, <1>c, <2>1, <2>2 DEF ClientTypeOK, Drained
<1> QED BY <1>1, <1>2, <1>3, <1>4, <1>5, <1>6, <1>7, <1>8

LEMMA DeleteFromListStep ==
  ASSUME ClientInv, NEW t \in Caller, DeleteFromList(t)
  PROVE  ClientInv'
<1>1. ~IsSync(cur[t])
  BY DEF DeleteFromList, At, ClientInv, Kinds, KindOf, Deleting
<1>2. CASE cur[t] \in txnList
  <2>1. "deleted" \in Conclusion /\ Tell(cur[t], "deleted")
    BY <1>2 DEF DeleteFromList, Conclusion
  <2>2. \E c \in Conclusion : Tell(cur[t], c)
    BY <2>1
  <2>3. /\ txnList' = txnList \ {cur[t]}
        /\ txn' = [txn EXCEPT ![cur[t]].rxBuf = FALSE, ![cur[t]].ref = Less(@, 1)]
    BY <1>2 DEF DeleteFromList
  <2>5. cur[t] \in Txn /\ txn \in [Txn -> Record]
    BY TxnNumbers DEF DeleteFromList, At, ClientInv, ClientTypeOK, Kinds, KindOf, Deleting,
       Thread
  <2>6. /\ txn' \in [Txn -> Record]
        /\ \A y \in Txn : (IsSync(y)' <=> IsSync(y)) /\ (y # cur[t] => txn'[y] = txn[y])
    BY <2>3, <2>5, Delisted
  <2>7. \A y \in Txn : /\ IsSync(y)' <=> IsSync(y)
                      /\ y # cur[t] => txn'[y].rxBuf = txn[y].rxBuf
    BY <2>6
  <2>4. /\ pc[t] = "delList" /\ cur' = [cur EXCEPT ![t] = None] /\ Goto(t, "return")
        /\ UNCHANGED <<nextTxn, txQ, txQLock, refs, linked, accepting, valid, ready, xport,
                       received, handles, ret, seek, hand, misused>>
    BY DEF DeleteFromList, At, client, network
  <2>8. \/ /\ cur[t] \in txnList /\ txnList' = txnList \ {cur[t]}
           /\ txn' \in [Txn -> Record]
           /\ \A y \in Txn : /\ IsSync(y)' <=> IsSync(y)
                             /\ y # cur[t] => txn'[y].rxBuf = txn[y].rxBuf
           /\ \E c \in Conclusion : Tell(cur[t], c)
        \/ cur[t] \notin txnList /\ UNCHANGED <<txn, txnList, told>>
    BY <1>2, <2>2, <2>3, <2>6, <2>7
  <2> HIDE DEF Conclusion
  <2> QED BY <1>1, <2>4, <2>8, AsyncCallLooks
<1>3. CASE cur[t] \notin txnList
  BY <1>1, <1>3, AsyncCallLooks DEF DeleteFromList, At, client, network
<1> QED BY <1>2, <1>3

LEMMA BeginRegisterStep ==
  ASSUME ClientInv, NEW t \in Caller, BeginRegister(t)
  PROVE  ClientInv'
<1> USE ClientAssumption, TxnNumbers DEF ClientInv, BeginRegister, At, Goto, Thread, Call,
   lists, errors, network, locals, GetRef
<1>1. ClientTypeOK'
  BY DEF ClientTypeOK, Label, CallerLabel, SharedLabel, ReaderLabel
<1>2. Places'
  BY DEF ClientTypeOK, Places, CallerLabel, SharedLabel, ReaderLabel
<1>3. Phases'
  BY DEF ClientTypeOK, Places, Phases, Closing, SharedLabel
<1>4. RefsCounted'
  BY OneEnters DEF ClientTypeOK, Inside, Places, Phases, Closing, SharedLabel
<1>5. Owners' /\ NotYetMade' /\ SyncOpen' /\ AsyncOpen'
  BY RequestsStay DEF IsSync
<1>6. Kinds'
  BY DEF IsSync, ClientTypeOK, Kinds, KindOf, Awaiting, Sending, SharedLabel, Deleting
<1>7. CallOpen'
  BY DEF IsSync, ClientTypeOK, CallOpen, Untold
<1>8. Drained'
  BY DEF IsSync, ClientTypeOK, Phases, Drained, Emptied, Closing, Sending, SharedLabel
<1> QED BY <1>1, <1>2, <1>3, <1>4, <1>5, <1>6, <1>7, <1>8

LEMMA RegisterStep ==
  ASSUME ClientInv, NEW t \in Caller, Register(t)
  PROVE  ClientInv'
BY CallEnds, CallGoesOn DEF Register, At, unchangedByEnd, lists, network, user

LEMMA TellNowStep ==
  ASSUME ClientInv, NEW t \in Caller, TellNow(t)
  PROVE  ClientInv'
BY CallEnds DEF TellNow, At, unchangedByEnd, lists, network, user

LEMMA BeginReleaseStep ==
  ASSUME ClientInv, NEW t \in Caller, BeginRelease(t)
  PROVE  ClientInv'
<1> USE ClientAssumption, TxnNumbers DEF ClientInv, BeginRelease, At, Goto, Thread, lists,
   client, errors, network, locals
<1>1. ClientTypeOK'
  BY DEF ClientTypeOK, Label, CallerLabel, SharedLabel, ReaderLabel
<1>2. Places'
  BY DEF ClientTypeOK, Places, CallerLabel, SharedLabel, ReaderLabel
<1>3. Phases'
  BY DEF ClientTypeOK, Places, Phases, Closing, SharedLabel
<1>4. RefsCounted'
  BY SameInside DEF ClientTypeOK, Inside, Places, Phases, Closing, SharedLabel
<1>5. Owners' /\ NotYetMade' /\ SyncOpen' /\ AsyncOpen'
  BY RequestsStay DEF IsSync
<1>6. Kinds'
  BY DEF IsSync, ClientTypeOK, Kinds, KindOf, Awaiting, Sending, SharedLabel, Deleting
<1>7. CallOpen'
  BY DEF IsSync, ClientTypeOK, CallOpen, Untold
<1>8. Drained'
  BY DEF IsSync, ClientTypeOK, Phases, Drained, Emptied, Closing, Sending, SharedLabel
<1> QED BY <1>1, <1>2, <1>3, <1>4, <1>5, <1>6, <1>7, <1>8

LEMMA UnlinkStep ==
  ASSUME ClientInv, NEW t \in Caller, Unlink(t)
  PROVE  ClientInv'
<1> USE ClientAssumption, TxnNumbers DEF ClientInv, Unlink, At, Goto, Thread, lists, errors,
   network, user, locals
<1>1. ClientTypeOK'
  <2>1. pc' \in [Thread -> Label]
    BY DEF ClientTypeOK, Label, CallerLabel
  <2>2. linked' \in BOOLEAN
    OBVIOUS
  <2> QED BY <2>1, <2>2 DEF ClientTypeOK
<1>2. Places'
  BY DEF ClientTypeOK, Places, CallerLabel, SharedLabel, ReaderLabel
<1>3. Phases'
  BY DEF ClientTypeOK, Places, Phases, Closing, SharedLabel
<1>4. RefsCounted'
  BY SameInside, OneEnters DEF ClientTypeOK, Inside, Places, Phases, Closing, SharedLabel
<1>5. Owners' /\ NotYetMade' /\ SyncOpen' /\ AsyncOpen'
  BY RequestsStay DEF IsSync
<1>6. Kinds'
  <2>1. PICK l \in {"stop", "idle"} : pc' = [pc EXCEPT ![t] = l]
    OBVIOUS
  <2> QED BY <2>1 DEF IsSync, ClientTypeOK, Kinds, KindOf, Awaiting, Sending, SharedLabel,
     Deleting
<1>7. CallOpen'
  BY DEF IsSync, ClientTypeOK, CallOpen, Untold
<1>8. Drained'
  BY DEF IsSync, ClientTypeOK, Phases, Drained, Emptied, Closing, Sending, SharedLabel
<1> QED BY <1>1, <1>2, <1>3, <1>4, <1>5, <1>6, <1>7, <1>8

LEMMA StopAcceptingStep ==
  ASSUME ClientInv, NEW t \in Caller, StopAccepting(t)
  PROVE  ClientInv'
<1> USE ClientAssumption, TxnNumbers DEF ClientInv, StopAccepting, At, Goto, Thread, lists,
   errors, network, user
<1>1. ClientTypeOK'
  BY DEF ClientTypeOK, Label, CallerLabel, SharedLabel, ReaderLabel
<1>2. Places'
  BY DEF ClientTypeOK, Places, CallerLabel, SharedLabel, ReaderLabel
<1>3. Phases'
  BY DEF ClientTypeOK, Places, Phases, Closing, SharedLabel
<1>4. RefsCounted'
  BY SameInside DEF ClientTypeOK, Inside, Places, Phases, Closing, SharedLabel
<1>5. Owners' /\ NotYetMade' /\ SyncOpen' /\ AsyncOpen'
  BY RequestsStay DEF IsSync
<1>6. Kinds'
  BY DEF IsSync, ClientTypeOK, Kinds, KindOf, Awaiting, Sending, SharedLabel, Deleting
<1>7. CallOpen'
  BY DEF IsSync, ClientTypeOK, CallOpen, Untold
<1>8. Drained'
  BY DEF IsSync, ClientTypeOK, Phases, Drained, Emptied, Closing, Sending, SharedLabel
<1> QED BY <1>1, <1>2, <1>3, <1>4, <1>5, <1>6, <1>7, <1>8

LEMMA CloseStep ==
  ASSUME ClientInv, NEW t \in Caller, Close(t)
  PROVE  ClientInv'
<1> USE ClientAssumption, TxnNumbers DEF ClientInv, Close, At, Goto, Thread, lists, errors,
   user, locals
<1>1. ClientTypeOK'
  BY DEF ClientTypeOK, Label, CallerLabel, SharedLabel, ReaderLabel
<1>2. Places'
  BY DEF ClientTypeOK, Places, CallerLabel, SharedLabel, ReaderLabel
<1>3. Phases'
  BY DEF ClientTypeOK, Places, Phases, Closing, SharedLabel
<1>4. RefsCounted'
  BY SameInside DEF ClientTypeOK, Inside, Places, Phases, Closing, SharedLabel
<1>5. Owners' /\ NotYetMade' /\ SyncOpen' /\ AsyncOpen'
  BY RequestsStay DEF IsSync
<1>6. Kinds'
  BY DEF IsSync, ClientTypeOK, Kinds, KindOf, Awaiting, Sending, SharedLabel, Deleting
<1>7. CallOpen'
  BY DEF IsSync, ClientTypeOK, CallOpen, Untold
<1>8. Drained'
  BY DEF IsSync, ClientTypeOK, Phases, Drained, Emptied, Closing, Sending, SharedLabel
<1> QED BY <1>1, <1>2, <1>3, <1>4, <1>5, <1>6, <1>7, <1>8

LEMMA JoinStep ==
  ASSUME ClientInv, NEW t \in Caller, Join(t)
  PROVE  ClientInv'
<1> USE ClientAssumption, TxnNumbers DEF ClientInv, Join, At, Goto, Thread, Joined, lists,
   errors, user
<1>1. ClientTypeOK'
  BY DEF ClientTypeOK, Label, CallerLabel, SharedLabel, ReaderLabel
<1>2. Places'
  BY DEF ClientTypeOK, Places, CallerLabel, SharedLabel, ReaderLabel
<1>3. Phases'
  BY DEF ClientTypeOK, Places, Phases, Closing, SharedLabel
<1>4. RefsCounted'
  BY TransportLeaves DEF ClientTypeOK, Inside, Places, Phases, Closing, SharedLabel
<1>5. Owners' /\ NotYetMade' /\ SyncOpen' /\ AsyncOpen'
  BY RequestsStay DEF IsSync
<1>6. Kinds'
  BY DEF IsSync, ClientTypeOK, Kinds, KindOf, Awaiting, Sending, SharedLabel, Deleting
<1>7. CallOpen'
  BY DEF IsSync, ClientTypeOK, CallOpen, Untold
<1>8. Drained'
  BY DEF IsSync, ClientTypeOK, Phases, Drained, Emptied, Closing, Sending, SharedLabel
<1> QED BY <1>1, <1>2, <1>3, <1>4, <1>5, <1>6, <1>7, <1>8

LEMMA ReleasedStep ==
  ASSUME ClientInv, NEW t \in Caller, Released(t)
  PROVE  ClientInv'
<1> USE ClientAssumption, TxnNumbers DEF ClientInv, Released, At, Goto, Thread, lists, client,
   errors, network, user, locals
<1>1. ClientTypeOK'
  BY DEF ClientTypeOK, Label, CallerLabel, SharedLabel, ReaderLabel
<1>2. Places'
  BY DEF ClientTypeOK, Places, CallerLabel, SharedLabel, ReaderLabel
<1>3. Phases'
  BY DEF ClientTypeOK, Places, Phases, Closing, SharedLabel
<1>4. RefsCounted'
  BY SameInside DEF ClientTypeOK, Inside, Places, Phases, Closing, SharedLabel
<1>5. Owners' /\ NotYetMade' /\ SyncOpen' /\ AsyncOpen'
  BY RequestsStay DEF IsSync
<1>6. Kinds'
  BY DEF IsSync, ClientTypeOK, Kinds, KindOf, Awaiting, Sending, SharedLabel, Deleting
<1>7. CallOpen'
  BY DEF IsSync, ClientTypeOK, CallOpen, Untold
<1>8. Drained'
  BY DEF IsSync, ClientTypeOK, Phases, Drained, Emptied, Closing, Sending, SharedLabel
<1> QED BY <1>1, <1>2, <1>3, <1>4, <1>5, <1>6, <1>7, <1>8

LEMMA LookupStep ==
  ASSUME ClientInv, NEW t \in Caller, Lookup(t)
  PROVE  ClientInv'
<1> USE ClientAssumption, TxnNumbers DEF ClientInv, Thread
<1>a. /\ UNCHANGED <<txn, nextTxn, txnList, txQ, txQLock, linked, accepting, valid, xport,
                      received, handles, seek, hand, told, misused>>
      /\ pc[t] = "lookup"
  BY DEF Lookup, At, unchangedByEnd, lists
<1>c. ~ready /\ cur[t] = None /\ txnList = {}
  BY <1>a DEF ClientTypeOK, Phases, Owners, Owned, Txn,
              Kinds, KindOf, Awaiting, Sending, Deleting, SharedLabel
<1>b. PICK l \in {"idle", "joinInit"} :
        /\ pc' = [pc EXCEPT ![t] = l] /\ (l = "idle" <=> ready') /\ ready' \in BOOLEAN
        /\ refs' = IF ready' THEN refs - 1 ELSE refs
  <2>1. CASE ready' = TRUE /\ PutRef(t)
    BY <2>1 DEF PutRef, Goto
  <2>2. CASE Goto(t, "joinInit") /\ UNCHANGED <<ready, refs>>
    BY <1>c, <2>2 DEF Goto, ClientTypeOK
  <2> QED BY <2>1, <2>2 DEF Lookup
<1>d. cur' = cur /\ (ret' = ret \/ ret' = [ret EXCEPT ![t] = "idle"])
  BY <1>c DEF Lookup, PutRef, ClientTypeOK
<1>1. ClientTypeOK'
  BY <1>a, <1>b, <1>c, <1>d DEF ClientTypeOK, Label, CallerLabel
<1>2. Places'
  BY <1>a, <1>b, <1>c, <1>d DEF ClientTypeOK, Places, CallerLabel, SharedLabel
<1>3. Phases'
  BY <1>a, <1>b, <1>c DEF ClientTypeOK, Places, Phases, Closing, SharedLabel
<1>4. RefsCounted'
  BY <1>a, <1>b, SameInside, OneLeaves DEF ClientTypeOK, Inside
<1>5. Owners'
  BY <1>a, <1>d DEF Owners, Owned, IsSync
<1>6. Kinds'
  BY <1>a, <1>b, <1>c, <1>d DEF ClientTypeOK, Kinds, KindOf, IsSync, Awaiting, Sending,
     Deleting, SharedLabel
<1>7. NotYetMade' /\ SyncOpen' /\ AsyncOpen'
  BY <1>a, <1>c, <1>d DEF NotYetMade, SyncOpen, AsyncOpen, Untold, Owned, IsSync
<1>8. CallOpen'
  BY <1>a, <1>b, <1>c, <1>d DEF ClientTypeOK, CallOpen, Untold, IsSync
<1>9. Drained'
  BY <1>a, <1>c DEF Drained
<1> QED BY <1>1, <1>2, <1>3, <1>4, <1>5, <1>6, <1>7, <1>8, <1>9

LEMMA JoinInitStep ==
  ASSUME ClientInv, NEW t \in Caller, JoinInit(t)
  PROVE  ClientInv'
<1> USE ClientAssumption, TxnNumbers DEF ClientInv, JoinInit, At, Goto, Thread, Joined, lists,
   errors, user
<1>1. ClientTypeOK'
  BY DEF ClientTypeOK, Label, CallerLabel, SharedLabel, ReaderLabel
<1>2. Places'
  BY DEF ClientTypeOK, Places, CallerLabel, SharedLabel, ReaderLabel
<1>3. Phases'
  BY DEF ClientTypeOK, Places, Phases, Closing, SharedLabel
<1>4. RefsCounted'
  BY TransportLeaves DEF ClientTypeOK, Inside, Places, Phases, Closing, SharedLabel
<1>5. Owners' /\ NotYetMade' /\ SyncOpen' /\ AsyncOpen'
  BY RequestsStay DEF IsSync
<1>6. Kinds'
  BY DEF IsSync, ClientTypeOK, Kinds, KindOf, Awaiting, Sending, SharedLabel, Deleting
<1>7. CallOpen'
  BY DEF IsSync, ClientTypeOK, CallOpen, Untold
<1>8. Drained'
  BY DEF IsSync, ClientTypeOK, Phases, Drained, Emptied, Closing, Sending, SharedLabel
<1> QED BY <1>1, <1>2, <1>3, <1>4, <1>5, <1>6, <1>7, <1>8

LEMMA FlushAddrStep ==
  ASSUME ClientInv, NEW t \in Thread, FlushAddr(t)
  PROVE  ClientInv'
<1> USE ClientAssumption, TxnNumbers DEF ClientInv, FlushAddr, At, Goto, Thread, lists, client,
   errors, network, user, locals
<1>1. ClientTypeOK'
  BY DEF ClientTypeOK, Label, CallerLabel, SharedLabel, ReaderLabel
<1>2. Places'
  BY DEF ClientTypeOK, Places, CallerLabel, SharedLabel, ReaderLabel
<1>3. Phases'
  BY DEF ClientTypeOK, Places, Phases, Closing, SharedLabel
<1>4. RefsCounted'
  BY SameInside DEF ClientTypeOK, Inside, Places, Phases, Closing, SharedLabel
<1>5. Owners' /\ NotYetMade' /\ SyncOpen' /\ AsyncOpen'
  BY RequestsStay DEF IsSync
<1>6. Kinds'
  BY DEF IsSync, ClientTypeOK, Kinds, KindOf, Awaiting, Sending, SharedLabel, Deleting
<1>7. CallOpen'
  BY DEF IsSync, ClientTypeOK, CallOpen, Untold
<1>8. Drained'
  BY DEF IsSync, ClientTypeOK, Phases, Drained, Emptied, Closing, Sending, SharedLabel
<1> QED BY <1>1, <1>2, <1>3, <1>4, <1>5, <1>6, <1>7, <1>8

LEMMA FlushHeadStep ==
  ASSUME ClientInv, NEW t \in Thread, FlushHead(t)
  PROVE  ClientInv'
<1> USE ClientAssumption, TxnNumbers DEF ClientInv, Thread
<1>a. /\ UNCHANGED <<nextTxn, txnList, refs, linked, accepting, valid, ready,
                     xport, received, handles, told, ret, cur, hand, misused>>
      /\ pc[t] = "lock" /\ txQLock = None
  BY DEF FlushHead, At, client, network, user
<1>b. received' \subseteq Txn /\ ret[t] \in Label /\ txn \in [Txn -> Record]
      /\ txQ \in Seq(Txn) /\ seek \in [Thread -> Txn \cup {None}]
  BY <1>a DEF ClientTypeOK
<1>1. CASE Goto(t, ret[t]) /\ UNCHANGED <<txn, txQ, txQLock, seek>>
  <2>1. pc' = [pc EXCEPT ![t] = ret[t]] /\ ret[t] \notin {"transmit", "notSent"}
    BY <1>a, <1>1 DEF Goto, Places, SharedLabel
  <2>2. \A y \in Txn : (IsSync(y)' <=> IsSync(y)) /\ txn'[y].rxBuf = txn[y].rxBuf
    BY <1>1 DEF IsSync
  <2> QED BY <1>a, <1>b, <1>1, <2>1, <2>2, QueueMoves
<1>2. ASSUME txQ # <<>>, seek' = [seek EXCEPT ![t] = Head(txQ)]
      PROVE  ClientInv'
  <2>1. PICK x \in Txn : x = Head(txQ)
    BY <1>b, <1>2
  <2>2. /\ seek' \in [Thread -> Txn \cup {None}] /\ seek'[t] = x
        /\ \A u \in Thread : u # t => seek'[u] = seek[u]
    BY <1>b, <1>2, <2>1
  <2>3. CASE accepting /\ txQLock' = t /\ Goto(t, "transmit") /\ UNCHANGED <<txn, txQ>>
    <3>1. \A y \in Txn : (IsSync(y)' <=> IsSync(y)) /\ txn'[y].rxBuf = txn[y].rxBuf
      BY <2>3 DEF IsSync
    <3> QED BY <1>a, <1>b, <2>2, <2>3, <3>1, QueueMoves DEF Goto, Label, SharedLabel
  <2>4. CASE Dequeue(x) /\ Goto(t, "notSent") /\ UNCHANGED txQLock
    <3>1. /\ txQ' \in Seq(Txn) /\ txn' \in [Txn -> Record]
          /\ \A y \in Txn : (IsSync(y)' <=> IsSync(y)) /\ txn'[y].rxBuf = txn[y].rxBuf
      BY <1>b, <2>4, Dequeued
    <3> QED BY <1>a, <1>b, <2>2, <2>4, <3>1, QueueMoves DEF Goto, Label, SharedLabel
  <2> QED BY <1>2, <2>1, <2>3, <2>4 DEF FlushHead
<1> QED BY <1>1, <1>2 DEF FlushHead

LEMMA TransmitStep ==
  ASSUME ClientInv, NEW t \in Thread, Transmit(t)
  PROVE  ClientInv'
<1> USE ClientAssumption, TxnNumbers DEF ClientInv, Thread
<1>a. /\ UNCHANGED <<nextTxn, txnList, refs, linked, accepting, valid, ready,
                     xport, handles, told, ret, cur, hand, misused>>
      /\ pc[t] = "transmit" /\ txQLock' = None
  BY DEF Transmit, At, client, user
<1>b. ret[t] \in Label /\ txn \in [Txn -> Record] /\ received \subseteq Txn
      /\ txQ \in Seq(Txn) /\ seek \in [Thread -> Txn \cup {None}]
  BY <1>a DEF ClientTypeOK
<1>c. txQLock = t
  BY <1>a DEF Places
<1>d. PICK x \in Txn : x = seek[t]
  BY <1>a DEF Places
<1>1. CASE Dequeue(x) /\ received' \in {received, received \cup {x}}
           /\ seek' = [seek EXCEPT ![t] = None] /\ Goto(t, "lock")
  <2>1. /\ txQ' \in Seq(Txn) /\ txn' \in [Txn -> Record]
        /\ \A y \in Txn : (IsSync(y)' <=> IsSync(y)) /\ txn'[y].rxBuf = txn[y].rxBuf
    BY <1>b, <1>1, Dequeued
  <2>2. /\ seek' \in [Thread -> Txn \cup {None}] /\ received' \subseteq Txn
        /\ \A u \in Thread : u # t => seek'[u] = seek[u]
    BY <1>b, <1>1
  <2> QED BY <1>a, <1>c, <1>1, <2>1, <2>2, QueueMoves DEF Goto, Label, SharedLabel
<1>2. CASE seek' = [seek EXCEPT ![t] = None] /\ Goto(t, ret[t])
           /\ UNCHANGED <<txn, txQ, received>>
  <2>1. pc' = [pc EXCEPT ![t] = ret[t]] /\ ret[t] \notin {"transmit", "notSent"}
    BY <1>a, <1>2 DEF Goto, Places, SharedLabel
  <2>2. \A y \in Txn : (IsSync(y)' <=> IsSync(y)) /\ txn'[y].rxBuf = txn[y].rxBuf
    BY <1>2 DEF IsSync
  <2>3. /\ seek' \in [Thread -> Txn \cup {None}] /\ received' \subseteq Txn
        /\ \A u \in Thread : u # t => seek'[u] = seek[u]
    BY <1>b, <1>2
  <2> QED BY <1>a, <1>b, <1>c, <1>2, <2>1, <2>2, <2>3, QueueMoves
<1>3. CASE Dequeue(x) /\ Goto(t, "notSent") /\ UNCHANGED <<seek, received>>
  <2>1. /\ txQ' \in Seq(Txn) /\ txn' \in [Txn -> Record]
        /\ \A y \in Txn : (IsSync(y)' <=> IsSync(y)) /\ txn'[y].rxBuf = txn[y].rxBuf
    BY <1>b, <1>3, Dequeued
  <2> QED BY <1>a, <1>b, <1>c, <1>d, <1>3, <2>1, QueueMoves DEF Goto, Label, SharedLabel
<1> QED BY <1>d, <1>1, <1>2, <1>3 DEF Transmit

LEMMA FailUnsentStep ==
  ASSUME ClientInv, NEW t \in Thread, FailUnsent(t)
  PROVE  ClientInv'
<1> USE ClientAssumption, TxnNumbers DEF ClientInv, Thread
<1>a. /\ UNCHANGED <<nextTxn, txQ, txQLock, refs, linked, accepting, valid, ready,
                     xport, received, handles, ret, cur, hand, misused>>
      /\ pc[t] = "notSent" /\ pc' = [pc EXCEPT ![t] = "lock"]
      /\ seek' = [seek EXCEPT ![t] = None]
  BY DEF FailUnsent, At, Goto, client, network
<1>b. PICK x \in Txn : x = seek[t]
  BY <1>a DEF Places
<1>c. txn[x] \in Record
  BY DEF ClientTypeOK
<1>1. CASE x \notin txnList
  <2>1. UNCHANGED <<txnList, txn, told>>
    BY <1>b, <1>1 DEF FailUnsent
  <2>2. \A y \in Txn : (IsSync(y)' <=> IsSync(y)) /\ (IsSync(y) => told'[y] = told[y])
    BY <2>1 DEF IsSync
  <2>3. ClientTypeOK' /\ Places'
    BY <1>a, <2>1 DEF ClientTypeOK, Label, SharedLabel, Places
  <2>4. Owners' /\ NotYetMade' /\ SyncOpen' /\ AsyncOpen'
    BY <1>a, <2>1 DEF Owners, Owned, NotYetMade, SyncOpen, AsyncOpen, Untold, IsSync
  <2>5. Phases' /\ RefsCounted' /\ Kinds' /\ CallOpen' /\ Drained'
    BY <1>a, <2>1, <2>2, SharedMoves DEF Label, SharedLabel
  <2> QED BY <2>3, <2>4, <2>5
<1>2. CASE x \in txnList
  <2>1. /\ txnList' = txnList \ {x}
        /\ txn' = [txn EXCEPT ![x] = Failed(@, txn[x].rxBuf)]
        /\ TellFailed(x)
    BY <1>b, <1>2 DEF FailUnsent
  <2>2. txn' \in [Txn -> Record] /\ (IsSync(x)' <=> IsSync(x))
        /\ \A y \in Txn : y # x => txn'[y] = txn[y]
    <3>1. /\ Failed(txn[x], txn[x].rxBuf) \in Record
          /\ Failed(txn[x], txn[x].rxBuf).kind = txn[x].kind
      BY <1>c, FailedIsRecord DEF Record
    <3>2. txn' = [txn EXCEPT ![x] = Failed(txn[x], txn[x].rxBuf)]
      BY <2>1
    <3> QED BY <3>1, <3>2 DEF ClientTypeOK, IsSync
  <2>3. Owned(x) /\ ~Owned(x)' /\ \A y \in Txn : y # x => (Owned(y)' <=> Owned(y))
    BY <1>a, <1>2, <2>1 DEF Owned, Owners
  <2>4. IF IsSync(x) THEN UNCHANGED told ELSE \E c \in Conclusion : Tell(x, c)
    BY <2>1 DEF TellFailed, Conclusion
  <2>5. /\ told' \in [Txn -> AtMostOne] /\ NotYetMade' /\ SyncOpen' /\ AsyncOpen'
        /\ \A y \in Txn : (IsSync(y)' <=> IsSync(y)) /\ (IsSync(y) => told'[y] = told[y])
    BY <1>a, <2>2, <2>3, <2>4, OwnerLetsGo
  <2>6. ClientTypeOK'
    BY <1>a, <2>1, <2>2, <2>5 DEF ClientTypeOK, Label, SharedLabel
  <2>7. Places'
    BY <1>a DEF Places, SharedLabel, ClientTypeOK
  <2>8. Owners'
    BY <1>a, <2>1, <2>5, <2>3 DEF Owners, Owned, ClientTypeOK
  <2>9. Phases' /\ RefsCounted' /\ Kinds' /\ CallOpen' /\ Drained'
    BY <1>a, <2>1, <2>5, SharedMoves DEF Label, SharedLabel
  <2> QED BY <2>5, <2>6, <2>7, <2>8, <2>9
<1> QED BY <1>1, <1>2

LEMMA DetachQueueStep ==
  ASSUME ClientInv, NEW t \in Thread, DetachQueue(t)
  PROVE  ClientInv'
<1> USE ClientAssumption, TxnNumbers DEF ClientInv, Thread
<1>a. /\ UNCHANGED <<nextTxn, txnList, txQLock, refs, linked, accepting, valid, ready,
                     xport, received, handles, told, ret, cur, seek, hand, misused>>
      /\ pc[t] = "detachTx" /\ pc' = [pc EXCEPT ![t] = "detachList"] /\ txQ' = <<>>
  BY DEF DetachQueue, At, Goto, client, network, user, locals
<1>b. txn' \in [Txn -> Record]
      /\ \A y \in Txn : (IsSync(y)' <=> IsSync(y)) /\ txn'[y].rxBuf = txn[y].rxBuf
  <2>1. txn \in [Txn -> Record]
    BY DEF ClientTypeOK
  <2>2. \A x \in Txn : txn'[x] = IF x \in ToSet(txQ)
                                 THEN [txn[x] EXCEPT !.ref = Less(txn[x].ref, 1)] ELSE txn[x]
    BY DEF DetachQueue
  <2>3. ASSUME NEW r \in Record
        PROVE  /\ [r EXCEPT !.ref = Less(r.ref, 1)] \in Record
               /\ [r EXCEPT !.ref = Less(r.ref, 1)].kind = r.kind
               /\ [r EXCEPT !.ref = Less(r.ref, 1)].rxBuf = r.rxBuf
    <3>1. Less(r.ref, 1) \in Nat
      BY LessNat DEF Record
    <3> QED BY <3>1 DEF Record
  <2>4. ASSUME NEW x \in Txn
        PROVE  txn'[x] \in Record /\ txn'[x].kind = txn[x].kind /\ txn'[x].rxBuf = txn[x].rxBuf
    BY <2>1, <2>2, <2>3
  <2>5. DOMAIN txn' = Txn /\ txn' = [x \in Txn |-> txn'[x]]
    BY DEF DetachQueue
  <2> QED BY <2>4, <2>5 DEF IsSync
<1>c. seek' \in [Thread -> Txn \cup {None}] /\ txQ' \in Seq(Txn) /\ received' \subseteq Txn
  BY <1>a DEF ClientTypeOK
<1> QED BY <1>a, <1>b, <1>c, QueueMoves DEF Label, SharedLabel

LEMMA DetachListStep ==
  ASSUME ClientInv, NEW t \in Thread, DetachList(t)
  PROVE  ClientInv'
<1> USE ClientAssumption, TxnNumbers DEF ClientInv, Thread
<1>a. /\ UNCHANGED <<txn, nextTxn, txQ, txQLock, refs, linked, accepting, valid, ready,
                     xport, received, handles, told, ret, cur, seek, misused>>
      /\ pc[t] = "detachList" /\ txnList' = {}
      /\ hand' = [hand EXCEPT ![t] = txnList]
  BY DEF DetachList, At, client, network, user
<1>d. PICK l \in Label : /\ pc' = [pc EXCEPT ![t] = l]
                         /\ l = IF txnList = {} THEN ret[t] ELSE "failAll"
  BY DEF DetachList, Goto, ClientTypeOK, Label, SharedLabel
<1>b. hand[t] = {} /\ \A u \in Thread : hand'[u] = IF u = t THEN txnList ELSE hand[u]
  BY <1>a DEF Places, ClientTypeOK
<1>c. \A y : Owned(y)' <=> Owned(y)
  BY <1>a, <1>b DEF Owned
<1>e. \A y \in Txn : (IsSync(y)' <=> IsSync(y)) /\ (IsSync(y) => told'[y] = told[y])
  BY <1>a DEF IsSync, user
<1>1. ClientTypeOK'
  BY <1>a, <1>d DEF ClientTypeOK
<1>2. Places'
  <2>1. /\ t = Reader => ret[t] \in {"poll", "notify"}
        /\ t # Reader => ret[t] \in {"wait", "return", "close"}
    BY <1>a DEF Places, SharedLabel
  <2>2. \A u \in Thread : pc'[u] = IF u = t THEN l ELSE pc[u]
    BY <1>d DEF ClientTypeOK
  <2>3. CASE txnList = {}
    BY <1>a, <1>b, <1>d, <2>1, <2>2, <2>3 DEF Places, SharedLabel, CallerLabel, ReaderLabel
  <2>4. CASE txnList # {}
    BY <1>a, <1>b, <1>d, <2>1, <2>2, <2>4 DEF Places, SharedLabel, CallerLabel, ReaderLabel
  <2> QED BY <2>3, <2>4
<1>3. Owners'
  BY <1>a, <1>b, <1>c, <1>e DEF Owners, ClientTypeOK
<1>4. NotYetMade' /\ SyncOpen' /\ AsyncOpen'
  BY <1>a, <1>c, <1>e, OwnersStay
<1>5. Phases' /\ RefsCounted' /\ Kinds' /\ CallOpen' /\ Drained'
  <2>1. l = ret[t] \/ l = "failAll"
    BY <1>d
  <2>2. pc[t] \in SharedLabel
    BY <1>a DEF SharedLabel
  <2>3. \/ pc[t] \in {"lock", "transmit", "detachList", "failAll"} /\ l = ret[t]
        \/ pc[t] \in {"detachList", "failAll"} /\ l = "failAll"
    BY <1>a, <2>1
  <2>4. pc' = [pc EXCEPT ![t] = l]
    BY <1>d
  <2> QED BY <1>a, <1>e, <2>3, <2>4, SharedMoves
<1> QED BY <1>1, <1>2, <1>3, <1>4, <1>5

LEMMA FailNextStep ==
  ASSUME ClientInv, NEW t \in Thread, FailNext(t)
  PROVE  ClientInv'
<1> USE ClientAssumption, TxnNumbers DEF ClientInv, Thread
<1>a. /\ UNCHANGED <<nextTxn, txnList, txQ, txQLock, refs, linked, accepting, valid, ready,
                     xport, received, handles, ret, cur, seek, misused>>
      /\ pc[t] = "failAll"
  BY DEF FailNext, At, client, network, lists
<1>b. PICK x \in hand[t] :
        /\ txn' = [txn EXCEPT ![x] = Failed(@, FALSE)]
        /\ TellFailed(x)
        /\ hand' = [hand EXCEPT ![t] = hand[t] \ {x}]
        /\ Goto(t, IF hand[t] = {x} THEN ret[t] ELSE "failAll")
  BY DEF FailNext
<1>c. x \in Txn /\ txn[x] \in Record
  BY DEF ClientTypeOK
<1>d. PICK l \in Label : /\ pc' = [pc EXCEPT ![t] = l]
                         /\ l = IF hand[t] = {x} THEN ret[t] ELSE "failAll"
  BY <1>b DEF Goto, ClientTypeOK, Label, SharedLabel
<1>2. txn' \in [Txn -> Record] /\ (IsSync(x)' <=> IsSync(x))
      /\ \A y \in Txn : y # x => txn'[y] = txn[y]
  <2>1. Failed(txn[x], FALSE) \in Record /\ Failed(txn[x], FALSE).kind = txn[x].kind
    BY <1>c, FailedIsRecord
  <2>2. txn' = [txn EXCEPT ![x] = Failed(txn[x], FALSE)]
    BY <1>b
  <2> QED BY <1>c, <2>1, <2>2 DEF ClientTypeOK, IsSync
<1>3. Owned(x) /\ ~Owned(x)' /\ \A y \in Txn : y # x => (Owned(y)' <=> Owned(y))
  <2>1. \A u \in Thread : hand'[u] = IF u = t THEN hand[t] \ {x} ELSE hand[u]
    BY <1>b DEF ClientTypeOK
  <2> QED BY <1>a, <1>b, <2>1 DEF Owned, Owners
<1>4. IF IsSync(x) THEN UNCHANGED told ELSE \E c \in Conclusion : Tell(x, c)
  BY <1>b DEF TellFailed, Conclusion
<1>5. /\ told' \in [Txn -> AtMostOne] /\ NotYetMade' /\ SyncOpen' /\ AsyncOpen'
      /\ \A y \in Txn : (IsSync(y)' <=> IsSync(y)) /\ (IsSync(y) => told'[y] = told[y])
  BY <1>a, <1>c, <1>2, <1>3, <1>4, OwnerLetsGo
<1>6. ClientTypeOK'
  BY <1>a, <1>b, <1>d, <1>2, <1>5 DEF ClientTypeOK
<1>7. Places'
  BY <1>a, <1>b, <1>d DEF Places, SharedLabel, CallerLabel, ReaderLabel, ClientTypeOK
<1>8. Owners'
  BY <1>a, <1>b, <1>5, <1>3 DEF Owners, ClientTypeOK
<1>9. Phases' /\ RefsCounted' /\ Kinds' /\ CallOpen' /\ Drained'
  BY <1>a, <1>d, <1>5, SharedMoves DEF SharedLabel
<1> QED BY <1>5, <1>6, <1>7, <1>8, <1>9

LEMMA ReceiveStep ==
  ASSUME ClientInv, Receive
  PROVE  ClientInv'
<1> USE ClientAssumption, TxnNumbers DEF ClientInv, Thread
<1>a. /\ UNCHANGED <<txn, nextTxn, txQ, txQLock, refs, linked, accepting, valid, ready,
                     xport, handles, told, ret, cur, seek, misused>>
      /\ pc[Reader] = "poll"
  BY DEF Receive, At, client, user
<1>b. PICK x \in received :
        /\ received' = received \ {x}
        /\ \/ UNCHANGED <<txnList, hand, pc>>
           \/ /\ x \in txnList /\ txnList' = txnList \ {x}
              /\ hand' = [hand EXCEPT ![Reader] = {x}]
              /\ pc' = [pc EXCEPT ![Reader] = "deliver"]
  BY DEF Receive, Goto
<1>c. x \in Txn /\ \A y \in Txn : (IsSync(y)' <=> IsSync(y)) /\ told'[y] = told[y]
  BY <1>a DEF IsSync, ClientTypeOK
<1>1. CASE UNCHANGED <<txnList, hand, pc>>
  <2>1. ClientTypeOK' /\ Places' /\ Owners' /\ NotYetMade' /\ SyncOpen' /\ AsyncOpen'
    BY <1>a, <1>b, <1>c, <1>1 DEF ClientTypeOK, Places, Owners, Owned, NotYetMade,
         SyncOpen, AsyncOpen, Untold
  <2>2. Phases' /\ RefsCounted'
    BY <1>a, <1>1, SameInside DEF Phases, Closing, Inside
  <2>3. Kinds' /\ CallOpen'
    BY <1>a, <1>c, <1>1 DEF Kinds, KindOf, CallOpen, Untold, IsSync
  <2>4. Drained'
    BY <1>a, <1>c, <1>1 DEF Drained, Emptied, Closing, IsSync
  <2> QED BY <2>1, <2>2, <2>3, <2>4
<1>2. CASE /\ x \in txnList /\ txnList' = txnList \ {x}
           /\ hand' = [hand EXCEPT ![Reader] = {x}]
           /\ pc' = [pc EXCEPT ![Reader] = "deliver"]
  <2>1. hand[Reader] = {} /\ \A u \in Thread : hand'[u] = IF u = Reader THEN {x} ELSE hand[u]
    BY <1>a, <1>2 DEF Places, ClientTypeOK
  <2>2. \A y : Owned(y)' <=> Owned(y)
    BY <1>2, <2>1 DEF Owned
  <2>3. ClientTypeOK'
    BY <1>a, <1>b, <1>c, <1>2 DEF ClientTypeOK, Label, ReaderLabel
  <2>4. Places'
    BY <1>a, <1>c, <1>2, <2>1 DEF Places, SharedLabel, ReaderLabel, ClientTypeOK
  <2>5. Owners'
    BY <1>a, <1>c, <1>2, <2>1, <2>2 DEF Owners, ClientTypeOK
  <2>6. NotYetMade' /\ SyncOpen' /\ AsyncOpen'
    BY <1>a, <1>c, <2>2, OwnersStay
  <2>7. Phases' /\ RefsCounted' /\ Kinds' /\ CallOpen' /\ Drained'
    BY <1>a, <1>c, <1>2, SharedMoves DEF Label, ReaderLabel
  <2> QED BY <2>3, <2>4, <2>5, <2>6, <2>7
<1> QED BY <1>b, <1>1, <1>2

LEMMA DeliveredStep ==
  ASSUME ClientInv, Delivered
  PROVE  ClientInv'
<1> USE ClientAssumption, TxnNumbers DEF ClientInv, Thread
<1>a. /\ UNCHANGED <<nextTxn, txnList, txQ, txQLock, refs, linked, accepting, valid, ready,
                     xport, received, handles, ret, cur, seek, misused>>
      /\ pc[Reader] = "deliver" /\ pc' = [pc EXCEPT ![Reader] = "poll"]
  BY DEF Delivered, At, Goto, client, network, lists
<1>b. PICK x \in hand[Reader] :
        /\ \/ Deliver(x)
           \/ txn' = [txn EXCEPT ![x] = Failed(@, txn[x].rxBuf)] /\ TellFailed(x)
        /\ hand' = [hand EXCEPT ![Reader] = hand[Reader] \ {x}]
  BY DEF Delivered
<1>c. x \in Txn /\ txn[x] \in Record /\ hand[Reader] = {x}
  BY <1>a DEF ClientTypeOK, Places
<1>d. \A u \in Thread : hand'[u] = IF u = Reader THEN {} ELSE hand[u]
  BY <1>b, <1>c DEF ClientTypeOK
<1>3. Owned(x) /\ ~Owned(x)' /\ \A y \in Txn : y # x => (Owned(y)' <=> Owned(y))
  BY <1>a, <1>c, <1>d DEF Owned, Owners
<1>f. ~IsSync(x) => txn[x].rxBuf
  BY <1>c, <1>3 DEF AsyncOpen, Owners
<1>2. PICK r \in Record : /\ txn' = [txn EXCEPT ![x] = r] /\ r.kind = txn[x].kind
                          /\ IF IsSync(x) THEN UNCHANGED told
                             ELSE \E c \in Conclusion : Tell(x, c)
  <2>1. CASE txn' = [txn EXCEPT ![x] = Failed(@, txn[x].rxBuf)] /\ TellFailed(x)
    <3>1. /\ Failed(txn[x], txn[x].rxBuf) \in Record
          /\ Failed(txn[x], txn[x].rxBuf).kind = txn[x].kind
      BY <1>c, FailedIsRecord DEF Record
    <3>2. txn' = [txn EXCEPT ![x] = Failed(txn[x], txn[x].rxBuf)]
      BY <2>1
    <3>3. IF IsSync(x) THEN UNCHANGED told ELSE \E c \in Conclusion : Tell(x, c)
      BY <2>1 DEF TellFailed, Conclusion
    <3> QED BY <3>1, <3>2, <3>3
  <2>2. CASE Deliver(x) /\ txn[x].rxBuf
    <3>1. Answered(txn[x]) \in Record /\ Answered(txn[x]).kind = txn[x].kind
      BY <1>c, AnsweredIsRecord
    <3>2. txn' = [txn EXCEPT ![x] = Answered(txn[x])]
      BY <2>2 DEF Deliver
    <3>3. IF IsSync(x) THEN UNCHANGED told ELSE \E c \in Conclusion : Tell(x, c)
      BY <2>2 DEF Deliver, Conclusion
    <3> QED BY <3>1, <3>2, <3>3
  <2>3. CASE Deliver(x) /\ ~txn[x].rxBuf
    <3>1. [txn[x] EXCEPT !.ref = Less(@, 1)] \in Record
      BY <1>c, LessNat DEF Record
    <3>2. txn' = [txn EXCEPT ![x] = [txn[x] EXCEPT !.ref = Less(@, 1)]]
      BY <2>3 DEF Deliver, Dec
    <3>3. UNCHANGED told /\ IsSync(x)
      BY <1>f, <2>3 DEF Deliver
    <3>4. [txn[x] EXCEPT !.ref = Less(@, 1)].kind = txn[x].kind
      BY <1>c DEF Record
    <3> QED BY <3>1, <3>2, <3>3, <3>4
  <2> QED BY <1>b, <2>1, <2>2, <2>3
<1>4. txn' \in [Txn -> Record] /\ (IsSync(x)' <=> IsSync(x))
      /\ \A y \in Txn : y # x => txn'[y] = txn[y]
  BY <1>c, <1>2 DEF ClientTypeOK, IsSync
<1>5. /\ told' \in [Txn -> AtMostOne] /\ NotYetMade' /\ SyncOpen' /\ AsyncOpen'
      /\ \A y \in Txn : (IsSync(y)' <=> IsSync(y)) /\ (IsSync(y) => told'[y] = told[y])
  BY <1>a, <1>c, <1>2, <1>3, <1>4, OwnerLetsGo
<1>6. ClientTypeOK'
  BY <1>a, <1>b, <1>4, <1>5 DEF ClientTypeOK, Label, ReaderLabel
<1>7. Places'
  BY <1>a, <1>d DEF Places, SharedLabel, ReaderLabel, ClientTypeOK
<1>8. Owners'
  <2>1. \A y \in Txn : Owned(y)' => Owned(y)
    BY <1>3
  <2>2. \A u \in Thread : hand'[u] \subseteq hand[u]
    BY <1>d
  <2>3. \A y \in handles : y \in Txn
    BY DEF ClientTypeOK
  <2> QED BY <1>a, <1>5, <2>1, <2>2, <2>3 DEF Owners
<1>9. Phases' /\ RefsCounted' /\ Kinds' /\ CallOpen' /\ Drained'
  BY <1>a, <1>5, SharedMoves DEF Label, ReaderLabel
<1> QED BY <1>5, <1>6, <1>7, <1>8, <1>9

LEMMA ResumeTxStep ==
  ASSUME ClientInv, ResumeTx
  PROVE  ClientInv'
<1> USE ClientAssumption, TxnNumbers DEF ClientInv, ResumeTx, At, Goto, Thread, lists, client,
   errors, user
<1>1. ClientTypeOK'
  BY DEF ClientTypeOK, Label, CallerLabel, SharedLabel, ReaderLabel
<1>2. Places'
  BY DEF ClientTypeOK, Places, CallerLabel, SharedLabel, ReaderLabel
<1>3. Phases'
  BY DEF ClientTypeOK, Places, Phases, Closing, SharedLabel
<1>4. RefsCounted'
  BY SameInside DEF ClientTypeOK, Inside, Places, Phases, Closing, SharedLabel
<1>5. Owners' /\ NotYetMade' /\ SyncOpen' /\ AsyncOpen'
  BY RequestsStay DEF IsSync
<1>6. Kinds'
  BY DEF IsSync, ClientTypeOK, Kinds, KindOf, Awaiting, Sending, SharedLabel, Deleting
<1>7. CallOpen'
  BY DEF IsSync, ClientTypeOK, CallOpen, Untold
<1>8. Drained'
  BY DEF IsSync, ClientTypeOK, Phases, Drained, Emptied, Closing, Sending, SharedLabel
<1> QED BY <1>1, <1>2, <1>3, <1>4, <1>5, <1>6, <1>7, <1>8

LEMMA ServerGoneStep ==
  ASSUME ClientInv, ServerGone
  PROVE  ClientInv'
<1> USE ClientAssumption, TxnNumbers DEF ClientInv, ServerGone, At, Goto, Thread, lists, errors,
   network, user
<1>1. ClientTypeOK'
  BY DEF ClientTypeOK, Label, CallerLabel, SharedLabel, ReaderLabel
<1>2. Places'
  BY DEF ClientTypeOK, Places, CallerLabel, SharedLabel, ReaderLabel
<1>3. Phases'
  BY DEF ClientTypeOK, Places, Phases, Closing, SharedLabel
<1>4. RefsCounted'
  BY SameInside DEF ClientTypeOK, Inside, Places, Phases, Closing, SharedLabel
<1>5. Owners' /\ NotYetMade' /\ SyncOpen' /\ AsyncOpen'
  BY RequestsStay DEF IsSync
<1>6. Kinds'
  BY DEF IsSync, ClientTypeOK, Kinds, KindOf, Awaiting, Sending, SharedLabel, Deleting
<1>7. CallOpen'
  BY DEF IsSync, ClientTypeOK, CallOpen, Untold
<1>8. Drained'
  BY DEF IsSync, ClientTypeOK, Phases, Drained, Emptied, Closing, Sending, SharedLabel
<1> QED BY <1>1, <1>2, <1>3, <1>4, <1>5, <1>6, <1>7, <1>8

LEMMA NotifyStep ==
  ASSUME ClientInv, Notify
  PROVE  ClientInv'
<1> USE ClientAssumption, TxnNumbers DEF ClientInv, Notify, At, Goto, Thread, lists, client,
   network, user, locals
<1>1. ClientTypeOK'
  BY DEF ClientTypeOK, Label, CallerLabel, SharedLabel, ReaderLabel
<1>2. Places'
  BY DEF ClientTypeOK, Places, CallerLabel, SharedLabel, ReaderLabel
<1>3. Phases'
  BY DEF ClientTypeOK, Places, Phases, Closing, SharedLabel
<1>4. RefsCounted'
  BY SameInside DEF ClientTypeOK, Inside, Places, Phases, Closing, SharedLabel
<1>5. Owners' /\ NotYetMade' /\ SyncOpen' /\ AsyncOpen'
  BY RequestsStay DEF IsSync
<1>6. Kinds'
  BY DEF IsSync, ClientTypeOK, Kinds, KindOf, Awaiting, Sending, SharedLabel, Deleting
<1>7. CallOpen'
  BY DEF IsSync, ClientTypeOK, CallOpen, Untold
<1>8. Drained'
  BY DEF IsSync, ClientTypeOK, Phases, Drained, Emptied, Closing, Sending, SharedLabel
<1> QED BY <1>1, <1>2, <1>3, <1>4, <1>5, <1>6, <1>7, <1>8

LEMMA TellErrorStep ==
  ASSUME ClientInv, TellError
  PROVE  ClientInv'
<1> USE ClientAssumption, TxnNumbers DEF ClientInv, TellError, At, Goto, Thread, lists, client,
   network, user, locals
<1>1. ClientTypeOK'
  BY DEF ClientTypeOK, Label, CallerLabel, SharedLabel, ReaderLabel
<1>2. Places'
  BY DEF ClientTypeOK, Places, CallerLabel, SharedLabel, ReaderLabel
<1>3. Phases'
  BY DEF ClientTypeOK, Places, Phases, Closing, SharedLabel
<1>4. RefsCounted'
  BY SameInside DEF ClientTypeOK, Inside, Places, Phases, Closing, SharedLabel
<1>5. Owners' /\ NotYetMade' /\ SyncOpen' /\ AsyncOpen'
  BY RequestsStay DEF IsSync
<1>6. Kinds'
  BY DEF IsSync, ClientTypeOK, Kinds, KindOf, Awaiting, Sending, SharedLabel, Deleting
<1>7. CallOpen'
  BY DEF IsSync, ClientTypeOK, CallOpen, Untold
<1>8. Drained'
  BY DEF IsSync, ClientTypeOK, Phases, Drained, Emptied, Closing, Sending, SharedLabel
<1> QED BY <1>1, <1>2, <1>3, <1>4, <1>5, <1>6, <1>7, <1>8

LEMMA ReaderExitStep ==
  ASSUME ClientInv, ReaderExit
  PROVE  ClientInv'
<1> USE ClientAssumption, TxnNumbers DEF ClientInv, ReaderExit, At, Goto, Thread,
   lists, client, errors, network, user, locals
<1>1. ClientTypeOK'
  BY DEF ClientTypeOK, Label, CallerLabel, SharedLabel, ReaderLabel
<1>2. Places'
  BY DEF ClientTypeOK, Places, CallerLabel, SharedLabel, ReaderLabel
<1>3. Phases'
  BY DEF ClientTypeOK, Places, Phases, Closing, SharedLabel
<1>4. RefsCounted'
  BY SameInside DEF ClientTypeOK, Inside, Places, Phases, Closing, SharedLabel
<1>5. Owners' /\ NotYetMade' /\ SyncOpen' /\ AsyncOpen'
  BY RequestsStay DEF IsSync
<1>6. Kinds'
  BY DEF IsSync, ClientTypeOK, Kinds, KindOf, Awaiting, Sending, SharedLabel, Deleting
<1>7. CallOpen'
  BY DEF IsSync, ClientTypeOK, CallOpen, Untold
<1>8. Drained'
  BY DEF IsSync, ClientTypeOK, Phases, Drained, Emptied, Closing, Sending, SharedLabel
<1> QED BY <1>1, <1>2, <1>3, <1>4, <1>5, <1>6, <1>7, <1>8

LEMMA ReaderBreaksStep ==
  ASSUME ClientInv, ReaderBreaks
  PROVE  ClientInv'
<1> USE ClientAssumption, TxnNumbers DEF ClientInv, ReaderBreaks, At, Goto,
   Thread, lists, client, errors, network, user, locals
<1>1. ClientTypeOK'
  BY DEF ClientTypeOK, Label, CallerLabel, SharedLabel, ReaderLabel
<1>2. Places'
  BY DEF ClientTypeOK, Places, CallerLabel, SharedLabel, ReaderLabel
<1>3. Phases'
  BY DEF ClientTypeOK, Places, Phases, Closing, SharedLabel
<1>4. RefsCounted'
  BY SameInside DEF ClientTypeOK, Inside, Places, Phases, Closing, SharedLabel
<1>5. Owners' /\ NotYetMade' /\ SyncOpen' /\ AsyncOpen'
  BY RequestsStay DEF IsSync
<1>6. Kinds'
  BY DEF IsSync, ClientTypeOK, Kinds, KindOf, Awaiting, Sending, SharedLabel, Deleting
<1>7. CallOpen'
  BY DEF IsSync, ClientTypeOK, CallOpen, Untold
<1>8. Drained'
  BY DEF IsSync, ClientTypeOK, Phases, Drained, Emptied, Closing, Sending, SharedLabel
<1> QED BY <1>1, <1>2, <1>3, <1>4, <1>5, <1>6, <1>7, <1>8

LEMMA VanishStep ==
  ASSUME ClientInv, Vanish
  PROVE  ClientInv'
<1> USE ClientAssumption, TxnNumbers DEF ClientInv, Vanish, At, Goto, Thread, lists, client,
   errors, user, locals
<1>1. ClientTypeOK'
  BY DEF ClientTypeOK, Label, CallerLabel, SharedLabel, ReaderLabel
<1>2. Places'
  BY DEF ClientTypeOK, Places, CallerLabel, SharedLabel, ReaderLabel
<1>3. Phases'
  BY DEF ClientTypeOK, Places, Phases, Closing, SharedLabel
<1>4. RefsCounted'
  BY SameInside DEF ClientTypeOK, Inside, Places, Phases, Closing, SharedLabel
<1>5. Owners' /\ NotYetMade' /\ SyncOpen' /\ AsyncOpen'
  BY RequestsStay DEF IsSync
<1>6. Kinds'
  BY DEF IsSync, ClientTypeOK, Kinds, KindOf, Awaiting, Sending, SharedLabel, Deleting
<1>7. CallOpen'
  BY DEF IsSync, ClientTypeOK, CallOpen, Untold
<1>8. Drained'
  BY DEF IsSync, ClientTypeOK, Phases, Drained, Emptied, Closing, Sending, SharedLabel
<1> QED BY <1>1, <1>2, <1>3, <1>4, <1>5, <1>6, <1>7, <1>8

LEMMA StutterStep ==
  ASSUME ClientInv, UNCHANGED vars
  PROVE  ClientInv'
<1>1. UNCHANGED <<txn, nextTxn, txnList, txQ, txQLock, refs, linked, accepting, valid, ready,
                  xport, received, handles, pc, ret, cur, seek, hand, told, misused>>
  BY DEF vars, lists, client, network, user, locals
<1>2. ClientTypeOK' /\ Places' /\ Phases' /\ RefsCounted'
  BY <1>1, SameInside DEF ClientInv, ClientTypeOK, Places, Phases, Closing, Inside
<1>3. Owners' /\ Kinds' /\ NotYetMade' /\ SyncOpen'
  BY <1>1 DEF ClientInv, Owners, Owned, Kinds, KindOf, NotYetMade, SyncOpen, Untold, IsSync
<1>4. CallOpen' /\ AsyncOpen' /\ Drained'
  BY <1>1 DEF ClientInv, CallOpen, AsyncOpen, Owned, Drained, Emptied, Closing, Untold, IsSync
<1> QED BY <1>2, <1>3, <1>4 DEF ClientInv

LEMMA InitInv == ClientInit => ClientInv
<1> SUFFICES ASSUME ClientInit PROVE ClientInv
  OBVIOUS
<1> USE ClientAssumption, TxnNumbers DEF ClientInit, Thread
<1>a. /\ \A t \in Thread : pc[t] = IF t = Reader THEN "poll"
                                   ELSE IF t = Opener THEN "lookup" ELSE "idle"
      /\ \A t \in Thread : cur[t] = None /\ hand[t] = {}
      /\ \A x \in Txn : told[x] = <<>>
  OBVIOUS
<1>1. ClientTypeOK
  <2>1. [kind |-> "none", ref |-> 0, rc |-> "none", signal |-> FALSE, rxBuf |-> FALSE] \in Record
    BY DEF Record
  <2>2. txn \in [Txn -> Record] /\ told \in [Txn -> AtMostOne]
    BY <2>1 DEF AtMostOne
  <2>3. pc \in [Thread -> Label] /\ ret \in [Thread -> Label]
    BY DEF Label, CallerLabel, ReaderLabel
  <2>4. nextTxn \in 1..MaxTxns + 1 /\ txQ \in Seq(Txn)
    OBVIOUS
  <2>5. /\ cur \in [Thread -> Txn \cup {None}] /\ seek \in [Thread -> Txn \cup {None}]
        /\ hand \in [Thread -> SUBSET Txn]
    OBVIOUS
  <2>6. /\ txnList \subseteq Txn /\ txQLock \in Thread \cup {None}
        /\ linked \in BOOLEAN /\ accepting \in BOOLEAN /\ ready \in BOOLEAN
        /\ valid \in BOOLEAN /\ xport \in {"open", "closed"}
        /\ received \subseteq Txn /\ handles \subseteq Txn /\ misused \subseteq Txn
    OBVIOUS
  <2> QED BY ONLY <2>2, <2>3, <2>4, <2>5, <2>6 DEF ClientTypeOK
<1>2. Places
  BY <1>a DEF Places, CallerLabel, SharedLabel, ReaderLabel
<1>3. Phases
  BY <1>a DEF Phases, Closing, SharedLabel
<1>4. RefsCounted
  <2>1. Insiders = {Opener}
    BY <1>a DEF Insiders, Inside
  <2>2. Cardinality(Insiders) = 1
    BY ONLY <2>1, FS_Singleton
  <2>3. refs = 2 /\ xport = "open"
    OBVIOUS
  <2> QED BY ONLY <2>2, <2>3 DEF RefsCounted, Count
<1>5. Owners /\ Kinds
  BY <1>a DEF Owners, Owned, Kinds, KindOf, Awaiting, Sending, Deleting, SharedLabel
<1>6. NotYetMade /\ CallOpen
  BY <1>a DEF NotYetMade, CallOpen, Untold
<1>7. SyncOpen /\ AsyncOpen
  BY DEF SyncOpen, AsyncOpen, Txn
<1>8. Drained
  BY DEF Drained
<1> QED BY <1>1, <1>2, <1>3, <1>4, <1>5, <1>6, <1>7, <1>8 DEF ClientInv

LEMMA NextInv == ClientInv /\ [ClientNext]_vars => ClientInv'
<1> SUFFICES ASSUME ClientInv, [ClientNext]_vars PROVE ClientInv'
  OBVIOUS
<1>1. ASSUME NEW t \in Caller, Begin(t) \/ CallerStep(t) \/ WaitTimedOut(t)
      PROVE  ClientInv'
  <2>1. t \in Thread
    BY DEF Thread
  <2>2. CASE Begin(t)
    BY <2>2, BeginSendStep, BeginDeleteStep, BeginRegisterStep, BeginReleaseStep DEF Begin
  <2>3. CASE Flush(t) \/ Cleanup(t)
    BY <2>1, <2>3, FlushAddrStep, FlushHeadStep, TransmitStep, FailUnsentStep,
       DetachQueueStep, DetachListStep, FailNextStep DEF Flush, Cleanup
  <2>4. CASE \/ CheckXport(t) \/ GetTxn(t) \/ TakeRef(t) \/ Prepare(t)
             \/ QueueRef(t) \/ Enqueue(t)
    BY <2>4, CheckXportStep, GetTxnStep, TakeRefStep, PrepareStep, QueueRefStep, EnqueueStep
  <2>5. CASE \/ WaitResponse(t) \/ WaitTimedOut(t) \/ UnsentSync(t) \/ UnsentAsync(t)
             \/ Return(t) \/ Invalidate(t) \/ FinishSync(t)
    BY <2>5, WaitResponseStep, WaitTimedOutStep, UnsentSyncStep, UnsentAsyncStep,
       ReturnStep, InvalidateStep, FinishSyncStep
  <2>6. CASE DeleteFromQueue(t) \/ DeleteFromList(t) \/ Register(t) \/ TellNow(t)
    BY <2>6, DeleteFromQueueStep, DeleteFromListStep, RegisterStep, TellNowStep
  <2>7. CASE \/ Unlink(t) \/ StopAccepting(t) \/ Close(t) \/ Join(t) \/ Released(t)
             \/ Lookup(t) \/ JoinInit(t)
    BY <2>7, UnlinkStep, StopAcceptingStep, CloseStep, JoinStep, ReleasedStep,
       LookupStep, JoinInitStep
  <2> QED BY <1>1, <2>2, <2>3, <2>4, <2>5, <2>6, <2>7 DEF CallerStep
<1>2. CASE ReaderStep
  <2>1. Reader \in Thread
    BY DEF Thread
  <2>2. CASE Flush(Reader) \/ Cleanup(Reader)
    BY <2>1, <2>2, FlushAddrStep, FlushHeadStep, TransmitStep, FailUnsentStep,
       DetachQueueStep, DetachListStep, FailNextStep DEF Flush, Cleanup
  <2>3. CASE Delivered \/ ServerGone \/ Notify \/ TellError \/ ReaderExit
    BY <2>3, DeliveredStep, ServerGoneStep, NotifyStep, TellErrorStep, ReaderExitStep
  <2> QED BY <1>2, <2>2, <2>3 DEF ReaderStep
<1>3. CASE Receive \/ ResumeTx \/ ReaderBreaks \/ Vanish
  BY <1>3, ReceiveStep, ResumeTxStep, ReaderBreaksStep, VanishStep
<1>4. CASE UNCHANGED vars
  BY <1>4, StutterStep
<1> QED BY <1>1, <1>2, <1>3, <1>4 DEF ClientNext

\* ClientInv is inductive: where each thread can be and in which phase of the
\* client's life, who owns a request, and what its user was told.
THEOREM ClientAlwaysInv == ClientSpec => []ClientInv
BY InitInv, NextInv, PTL DEF ClientSpec

\* Nothing is sent on a transport that was closed (xport_send after xport_close).
THEOREM NeverSendsOnClosed == ClientSpec => []NoSendOnClosed
<1>1. ClientInv => NoSendOnClosed
  <2> SUFFICES ASSUME ClientInv, NEW t \in Thread, pc[t] = "transmit", xport # "open"
               PROVE  FALSE
    BY DEF NoSendOnClosed, At
  <2>1. xport = "closed" /\ accepting
    BY DEF ClientInv, ClientTypeOK, Places
  <2>2. ~ready /\ t \in Caller
    BY <2>1 DEF ClientInv, Phases, Thread
  <2> QED BY <2>2 DEF ClientInv, Phases
<1> QED BY <1>1, ClientAlwaysInv, PTL

-----------------------------------------------------------------------------
(* The refinement of QmiTransaction.                                       *)

\* When the last reference goes, every request that was made is concluded:
\* nobody is inside, and the release has emptied the list.
LEMMA NothingOpen ==
  ASSUME ClientInv, refs = 0, NEW x \in Txn, x < nextTxn
  PROVE  ~Untold(x)
<1> USE DEF ClientInv
<1>1. xport = "closed" /\ \A t \in Caller : ~Inside(t)
  BY InsidersFinite DEF RefsCounted, Count, ClientTypeOK, Insiders
<1>2. ready
  BY DEF Phases, Txn
<1>3. \A t \in Caller : cur[t] = None
  BY <1>1 DEF Inside, Kinds, KindOf, Awaiting, Sending, Deleting, SharedLabel
<1>4. \A t \in Thread : hand[t] = {}
  BY <1>1 DEF Thread, Inside, Places, Phases
<1>5. x # None
  BY TxnNumbers
<1>6. CASE IsSync(x)
  BY <1>3, <1>5, <1>6 DEF SyncOpen
<1>7. CASE ~IsSync(x)
  <2>1. x \notin txnList
    BY <1>1, <1>2, <1>3, <1>5, <1>7 DEF Drained, Emptied
  <2> QED BY <1>4, <1>7, <2>1 DEF AsyncOpen, Owned
<1> QED BY <1>6, <1>7

\* What a step does in the terms of the promise.
Silent == UNCHANGED <<nextTxn, told>> /\ (refs = 0 => refs' = 0)
Starts == /\ nextTxn \in Txn /\ nextTxn' = nextTxn + 1
          /\ UNCHANGED <<told, refs>> /\ refs # 0
Ends   == /\ \E x \in Txn, c \in Conclusion : x < nextTxn /\ Untold(x) /\ Tell(x, c)
          /\ UNCHANGED <<nextTxn, refs>> /\ refs # 0
Kept   == Silent \/ Starts \/ Ends

LEMMA Referenced ==
  ASSUME ClientInv
  PROVE  /\ \A t \in Caller : Inside(t) => refs # 0
         /\ pc[Reader] # "exit" => refs # 0
         /\ ready /\ linked => refs # 0
         /\ \A t \in Caller : pc[t] = "unlink" => ready
<1> USE DEF ClientInv
<1>1. refs = 0 => xport = "closed" /\ \A t \in Caller : ~Inside(t)
  BY InsidersFinite DEF RefsCounted, Count, ClientTypeOK, Insiders
<1> QED BY <1>1 DEF Phases

\* Steps of a thread that tells nobody anything.
LEMMA CallerSilent ==
  ASSUME ClientInv, NEW t \in Caller,
         \/ Begin(t) \/ CheckXport(t) \/ TakeRef(t) \/ Prepare(t) \/ QueueRef(t) \/ Enqueue(t)
         \/ Return(t) \/ Invalidate(t) \/ FinishSync(t) \/ DeleteFromQueue(t)
         \/ Register(t) \/ TellNow(t) \/ Unlink(t) \/ StopAccepting(t) \/ Close(t)
         \/ Join(t) \/ Released(t) \/ Lookup(t) \/ JoinInit(t)
  PROVE  Silent
<1>1. ASSUME Begin(t) PROVE Silent
  BY <1>1, Referenced DEF Silent, Begin, BeginSend, BeginDelete, BeginRegister, BeginRelease,
     Call, GetRef, client, user
<1>2. ASSUME TakeRef(t) \/ Prepare(t) \/ QueueRef(t) \/ Enqueue(t) \/ Invalidate(t)
             \/ DeleteFromQueue(t) \/ StopAccepting(t) \/ Close(t) \/ Released(t)
      PROVE  Silent
  BY <1>2 DEF Silent, TakeRef, Prepare, QueueRef, Enqueue, Invalidate,
     DeleteFromQueue, StopAccepting, Close, Released, client, user
<1>3. ASSUME CheckXport(t) \/ Return(t) \/ FinishSync(t) \/ Register(t) \/ TellNow(t)
             \/ Join(t) \/ Lookup(t) \/ JoinInit(t)
      PROVE  Silent
  <2>1. Inside(t)
    BY <1>3 DEF Inside, At, CheckXport, Return, FinishSync, Register, TellNow, Join,
       Lookup, JoinInit
  <2>2. refs # 0
    BY <2>1, Referenced
  <2>3. UNCHANGED <<nextTxn, told>>
    BY <1>3 DEF CheckXport, Return, FinishSync, Register, TellNow, Join, Joined,
       Lookup, JoinInit, unchangedByEnd, user
  <2> QED BY <2>2, <2>3 DEF Silent
<1>4. ASSUME Unlink(t) PROVE Silent
  <2>1. refs = 0 => ~linked
    BY <1>4, Referenced DEF Unlink, At
  <2> QED BY <1>4, <2>1 DEF Silent, Unlink, user
<1> QED BY <1>1, <1>2, <1>3, <1>4

LEMMA NextKept == ClientInv /\ [ClientNext]_vars => Kept
<1> SUFFICES ASSUME ClientInv, [ClientNext]_vars PROVE Kept
  OBVIOUS
<1>t. ASSUME NEW t \in Thread, Flush(t) \/ Cleanup(t) PROVE Kept
  <2>1. pc[t] \notin {"idle", "unlink", "await", "exit"}
    BY <1>t DEF Flush, Cleanup, FlushAddr, FlushHead, Transmit, FailUnsent,
       DetachQueue, DetachList, FailNext, At
  <2>2. refs # 0
    BY <2>1, Referenced DEF Thread, Inside
  <2>3. CASE FlushAddr(t) \/ FlushHead(t) \/ Transmit(t) \/ DetachQueue(t) \/ DetachList(t)
    BY <2>3 DEF Kept, Silent, FlushAddr, FlushHead, Transmit, DetachQueue, DetachList,
       client, user
  <2>4. CASE FailUnsent(t)
    <3>1. UNCHANGED <<nextTxn, refs>>
      BY <2>4 DEF FailUnsent, client
    <3>2. CASE UNCHANGED told
      BY <3>1, <3>2 DEF Kept, Silent
    <3>3. CASE ~UNCHANGED told
      <4>1. PICK x \in txnList : ~IsSync(x) /\ Tell(x, "failed")
        BY <2>4, <3>3 DEF FailUnsent, TellFailed
      <4>2. x \in Txn /\ x < nextTxn /\ Untold(x)
        BY <4>1 DEF ClientInv, ClientTypeOK, Owners, Owned, AsyncOpen
      <4> QED BY <2>2, <3>1, <4>1, <4>2 DEF Kept, Ends, Conclusion
    <3> QED BY <3>2, <3>3
  <2>5. CASE FailNext(t)
    <3>1. UNCHANGED <<nextTxn, refs>>
      BY <2>5 DEF FailNext, client
    <3>2. CASE UNCHANGED told
      BY <3>1, <3>2 DEF Kept, Silent
    <3>3. CASE ~UNCHANGED told
      <4>1. PICK x \in hand[t] : ~IsSync(x) /\ Tell(x, "failed")
        BY <2>5, <3>3 DEF FailNext, TellFailed
      <4>2. x \in Txn /\ x < nextTxn /\ Untold(x)
        BY <4>1 DEF ClientInv, ClientTypeOK, Owners, Owned, AsyncOpen
      <4> QED BY <2>2, <3>1, <4>1, <4>2 DEF Kept, Ends, Conclusion
    <3> QED BY <3>2, <3>3
  <2> QED BY <1>t, <2>3, <2>4, <2>5 DEF Flush, Cleanup
<1>1. ASSUME NEW t \in Caller, GetTxn(t) PROVE Kept
  <2>1. refs # 0
    BY <1>1, Referenced DEF GetTxn, At, Inside
  <2>2. UNCHANGED told
    BY <1>1 DEF GetTxn, user
  <2> QED BY <1>1, <2>1, <2>2 DEF GetTxn, Kept, Silent, Starts
<1>2. ASSUME NEW t \in Caller, WaitResponse(t) \/ WaitTimedOut(t) \/ UnsentSync(t) PROVE Kept
  <2>1. UNCHANGED <<nextTxn, refs>>
    BY <1>2 DEF WaitResponse, WaitTimedOut, UnsentSync, client
  <2>2. pc[t] \in {"wait", "unsent"} /\ IsSync(cur[t]) /\ cur[t] # None
    BY <1>2 DEF WaitResponse, WaitTimedOut, UnsentSync, At, ClientInv, Kinds, KindOf,
       Awaiting, Sending
  <2>3. PICK x \in Txn : x = cur[t] /\ x < nextTxn /\ Untold(x)
    BY <2>2 DEF ClientInv, ClientTypeOK, Owners, CallOpen, Thread
  <2>4. refs # 0
    BY <2>2, Referenced DEF Inside
  <2>5. CASE UNCHANGED told
    BY <2>1, <2>5 DEF Kept, Silent
  <2>6. CASE ~UNCHANGED told
    <3>1. PICK c \in Conclusion : Tell(x, c)
      BY <1>2, <2>3, <2>6 DEF WaitResponse, WaitTimedOut, UnsentSync, Conclusion
    <3> QED BY <2>1, <2>3, <2>4, <3>1 DEF Kept, Ends
  <2> QED BY <2>5, <2>6
<1>3. ASSUME NEW t \in Caller, UnsentAsync(t) \/ DeleteFromList(t) PROVE Kept
  <2>1. UNCHANGED <<nextTxn, refs>>
    BY <1>3 DEF UnsentAsync, DeleteFromList, client
  <2>2. pc[t] \in {"unsent", "delList"} /\ ~IsSync(cur[t])
    BY <1>3 DEF UnsentAsync, DeleteFromList, At, ClientInv, Kinds, KindOf, Deleting
  <2>4. refs # 0
    BY <2>2, Referenced DEF Inside
  <2>5. CASE UNCHANGED told
    BY <2>1, <2>5 DEF Kept, Silent
  <2>6. CASE ~UNCHANGED told
    <3>1. PICK c \in Conclusion : Tell(cur[t], c) /\ cur[t] \in txnList
      BY <1>3, <2>6 DEF UnsentAsync, DeleteFromList, Conclusion
    <3>2. PICK x \in Txn : x = cur[t] /\ x < nextTxn /\ Untold(x)
      BY <2>2, <3>1 DEF ClientInv, ClientTypeOK, Owners, Owned, AsyncOpen
    <3> QED BY <2>1, <2>4, <3>1, <3>2 DEF Kept, Ends
  <2> QED BY <2>5, <2>6
<1>4. ASSUME Delivered PROVE Kept
  <2>1. UNCHANGED <<nextTxn, refs>>
    BY <1>4 DEF Delivered, client
  <2>2. refs # 0
    BY <1>4, Referenced DEF Delivered, At
  <2>3. CASE UNCHANGED told
    BY <2>1, <2>3 DEF Kept, Silent
  <2>4. CASE ~UNCHANGED told
    <3>1. PICK x \in hand[Reader], c \in Conclusion : ~IsSync(x) /\ Tell(x, c)
      BY <1>4, <2>4 DEF Delivered, Deliver, TellFailed, Conclusion
    <3>2. x \in Txn /\ x < nextTxn /\ Untold(x)
      BY <3>1 DEF ClientInv, ClientTypeOK, Owners, Owned, AsyncOpen, Thread
    <3> QED BY <2>1, <2>2, <3>1, <3>2 DEF Kept, Ends
  <2> QED BY <2>3, <2>4
<1>5. CASE \/ ServerGone \/ Notify \/ TellError \/ ReaderExit \/ ReaderBreaks
           \/ Receive \/ ResumeTx \/ Vanish \/ UNCHANGED vars
  BY <1>5 DEF Kept, Silent, ServerGone, Notify, TellError, ReaderExit, ReaderBreaks, Receive,
     ResumeTx, Vanish, vars, client, user
<1>6. Reader \in Thread /\ Caller \subseteq Thread
  BY DEF Thread
<1>7. ASSUME NEW t \in Caller, Begin(t) \/ CallerStep(t) \/ WaitTimedOut(t) PROVE Kept
  <2>1. CASE Flush(t) \/ Cleanup(t) \/ GetTxn(t) \/ WaitResponse(t) \/ WaitTimedOut(t)
             \/ UnsentSync(t) \/ UnsentAsync(t) \/ DeleteFromList(t)
    BY <1>t, <1>1, <1>2, <1>3, <1>6, <2>1
  <2>2. CASE ~(Flush(t) \/ Cleanup(t) \/ GetTxn(t) \/ WaitResponse(t) \/ WaitTimedOut(t)
               \/ UnsentSync(t) \/ UnsentAsync(t) \/ DeleteFromList(t))
    <3>1. Silent
      BY <1>7, <2>2, CallerSilent DEF CallerStep
    <3> QED BY <3>1 DEF Kept
  <2> QED BY <2>1, <2>2
<1>8. CASE ReaderStep
  BY <1>t, <1>4, <1>5, <1>6, <1>8 DEF ReaderStep
<1> QED BY <1>5, <1>7, <1>8 DEF ClientNext

-----------------------------------------------------------------------------
(* Those steps in the terms of QmiTransaction.                             *)

PromiseStep == [Promise!TransactionNext]_(Promise!tvars)

\* Nothing is open when the release is reported.
Settled == refs = 0 => \A x \in Txn : x < nextTxn => ~Untold(x)

LEMMA InvSettled == ClientInv => Settled
BY NothingOpen DEF Settled

LEMMA StatusOf ==
  ASSUME NEW x \in Txn, nextTxn \in Nat, told[x] \in AtMostOne
  PROVE  /\ x >= nextTxn => Status(x) = "unused"
         /\ x < nextTxn /\ Untold(x) => Status(x) = "open"
         /\ x < nextTxn /\ ~Untold(x) => Status(x) # "open"
<1>1. x \in Nat
  BY TxnNumbers
<1>2. ~Untold(x) => \E c \in Conclusion : told[x] = <<c>>
  BY DEF Untold, AtMostOne
<1>3. \A c \in Conclusion : Len(<<c>>) = 1 /\ <<c>>[1] = c /\ c # "open"
  BY DEF Conclusion
<1> QED BY <1>1, <1>2, <1>3 DEF Status, Untold

LEMMA SilentKept ==
  ASSUME ClientInv, Settled', Silent
  PROVE  PromiseStep
<1> DEFINE status == [x \in Txn |-> Status(x)]
           life   == IF refs = 0 THEN "released" ELSE "open"
<1>1. status' = status
  BY DEF Silent, Status
<1>2. CASE life' = life
  BY <1>1, <1>2 DEF PromiseStep, Promise!tvars
<1>3. CASE life' # life
  <2>1. refs # 0 /\ refs' = 0
    BY <1>3 DEF Silent
  <2>2. \A x \in Txn : x < nextTxn => ~Untold(x)
    BY <2>1 DEF Settled, Silent, Untold
  <2>3. \A x \in Txn : Status(x) # "open"
    <3> SUFFICES ASSUME NEW x \in Txn PROVE Status(x) # "open"
      OBVIOUS
    <3>1. nextTxn \in Nat /\ told[x] \in AtMostOne /\ x \in Nat
      BY TxnNumbers DEF ClientInv, ClientTypeOK
    <3>2. x >= nextTxn \/ x < nextTxn
      BY <3>1
    <3> QED BY <2>2, <3>1, <3>2, StatusOf
  <2>4. Promise!Release
    BY <1>1, <2>1, <2>3 DEF Promise!Release
  <2> QED BY <2>4 DEF PromiseStep, Promise!TransactionNext
<1> QED BY <1>2, <1>3

LEMMA StartsKept ==
  ASSUME ClientInv, Starts
  PROVE  PromiseStep
<1>1. PICK x \in Txn : x = nextTxn /\ nextTxn' = x + 1 /\ told' = told /\ refs' = refs /\ refs # 0
  BY DEF Starts
<1>2. nextTxn \in Nat /\ Txn \subseteq Nat /\ told \in [Txn -> AtMostOne]
  BY TxnNumbers DEF ClientInv, ClientTypeOK
<1>3. told[x] = <<>>
  BY <1>1, <1>2 DEF ClientInv, NotYetMade, Untold
<1>4. Status(x) = "unused" /\ Status(x)' = "open"
  BY <1>1, <1>2, <1>3 DEF Status
<1>5. ASSUME NEW y \in Txn, y # x PROVE Status(y)' = Status(y)
  <2>1. y \in Nat /\ (y >= nextTxn' <=> y >= nextTxn)
    BY <1>1, <1>2, <1>5
  <2>2. told'[y] = told[y]
    BY <1>1
  <2> QED BY ONLY <2>1, <2>2, Zenon DEF Status
<1>6. Promise!Start(x)
  BY <1>1, <1>4, <1>5 DEF Promise!Start
<1> QED BY <1>6 DEF PromiseStep, Promise!TransactionNext

LEMMA EndsKept ==
  ASSUME ClientInv, Ends
  PROVE  PromiseStep
<1>1. PICK x \in Txn, c \in Conclusion : x < nextTxn /\ Untold(x) /\ Tell(x, c)
  BY DEF Ends
<1>2. nextTxn' = nextTxn /\ refs' = refs /\ refs # 0
  BY DEF Ends
<1>3. nextTxn \in Nat /\ Txn \subseteq Nat /\ told \in [Txn -> AtMostOne]
  BY TxnNumbers DEF ClientInv, ClientTypeOK
<1>4. told'[x] = <<c>> /\ \A y \in Txn : y # x => told'[y] = told[y]
  BY <1>1, Tells DEF ClientInv
<1>5. Status(x) = "open" /\ Status(x)' = c
  <2>1. Len(<<c>>) = 1 /\ <<c>>[1] = c /\ <<c>> # <<>>
    OBVIOUS
  <2>2. ~(x >= nextTxn)
    BY <1>1, <1>3
  <2> QED BY <1>1, <1>2, <1>4, <2>1, <2>2 DEF Status, Untold
<1>6. ASSUME NEW y \in Txn, y # x PROVE Status(y)' = Status(y)
  <2>1. told'[y] = told[y] /\ (y >= nextTxn' <=> y >= nextTxn)
    BY <1>2, <1>4, <1>6
  <2> QED BY ONLY <2>1, Zenon DEF Status
<1>7. c \in Promise!Conclusion
  BY DEF Conclusion, Promise!Conclusion
<1>8. Promise!Conclude(x)
  BY <1>2, <1>5, <1>6, <1>7 DEF Promise!Conclude
<1> QED BY <1>8 DEF PromiseStep, Promise!TransactionNext

LEMMA PromiseInit == ClientInit => Promise!TransactionInit
<1> SUFFICES ASSUME ClientInit PROVE Promise!TransactionInit
  OBVIOUS
<1>1. \A x \in Txn : Status(x) = "unused"
  BY DEF ClientInit, Status, Txn
<1> QED BY <1>1 DEF ClientInit, Promise!TransactionInit

\* The client keeps the promise of QmiTransaction: every request is concluded
\* at most once, by its response, a failure, its timeout or its deletion, and
\* the release is reported only when all have been concluded.
THEOREM Refinement == ClientSpec => ConcludedOnce
<1>1. ClientInv /\ Settled' /\ [ClientNext]_vars => [Promise!TransactionNext]_(Promise!tvars)
  BY NextKept, SilentKept, StartsKept, EndsKept DEF Kept, PromiseStep
<1>2. ClientInv => Settled
  BY InvSettled
<1> QED BY <1>1, <1>2, PromiseInit, ClientAlwaysInv, PTL
        DEF ClientSpec, ConcludedOnce, Promise!TransactionSpec
=============================================================================
