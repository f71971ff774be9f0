--------------------------- MODULE QmiServiceProofs ---------------------------
(***************************************************************************)
(* Proofs about QmiService, for any number of clients, threads, requests,  *)
(* messages and congestions: no structure is freed that a thread uses or a *)
(* transaction points to, and no request is answered twice or to another   *)
(* client than the one that made it; no transmit queue points to what was  *)
(* freed, and no message is lost or overtaken.                             *)
(***************************************************************************)
EXTENDS QmiService, SequenceTheorems, TLAPS

\* What is on the data socket when one event is taken from it ...
LEMMA EventTaken ==
  ASSUME LibraryTypeOK, inbox # <<>>, inbox' = Tail(inbox)
  PROVE  /\ Head(inbox) = inbox[1] /\ 1 \in DOMAIN inbox /\ Head(inbox) \in Event
         /\ inbox' \in Seq(Event)
         /\ \A i \in DOMAIN inbox' : i \in Nat /\ i > 0 /\ i + 1 \in DOMAIN inbox
                                      /\ inbox'[i] = inbox[i + 1]
BY DEF LibraryTypeOK

\* ... and when one arrives.
LEMMA EventArrives ==
  ASSUME LibraryTypeOK, NEW e \in Event, inbox' = Append(inbox, e)
  PROVE  /\ inbox' \in Seq(Event)
         /\ \A i \in DOMAIN inbox' :
              \/ i \in DOMAIN inbox /\ inbox'[i] = inbox[i]
              \/ i = Len(inbox) + 1 /\ i \notin DOMAIN inbox /\ inbox'[i] = e
BY DEF LibraryTypeOK

\* What a sender's call leaves: at most one more message for the client.
LEMMA SendTakes ==
  ASSUME LibraryTypeOK, NEW a \in Addr, NEW at, NEW m \in Message, NEW limited, NEW rc,
         Send(a, at, m, limited, rc)
  PROVE  /\ UNCHANGED <<open, inbox, removals, asker>>
         /\ accepted' = accepted \/ accepted' = [accepted EXCEPT ![a] = Append(@, m)]
         /\ accepted' \in [Addr -> Seq(Message)]
<1>1. accepted' = accepted \/ accepted' = [accepted EXCEPT ![a] = Append(@, m)]
  BY DEF Send
<1>2. accepted \in [Addr -> Seq(Message)] /\ Append(accepted[a], m) \in Seq(Message)
  BY DEF LibraryTypeOK
<1>3. accepted' \in [Addr -> Seq(Message)]
  BY <1>1, <1>2
<1> QED BY <1>1, <1>3 DEF Send

\* The requests that were answered then ...
LEMMA AnsweredNow ==
  ASSUME LibraryTypeOK, NEW a \in Addr, NEW m \in Message,
         accepted' = accepted \/ accepted' = [accepted EXCEPT ![a] = Append(@, m)]
  PROVE  \A r : Answered(r)' => Answered(r) \/ r = m.req
<1> SUFFICES ASSUME NEW r, Answered(r)', ~Answered(r) PROVE r = m.req
  OBVIOUS
<1>0. PICK b \in Addr : \E i \in DOMAIN accepted'[b] : accepted'[b][i].req = r
  BY DEF Answered
<1>1. PICK i \in DOMAIN accepted'[b] : accepted'[b][i].req = r
  BY <1>0
<1>2. accepted[b] \in Seq(Message) /\ accepted[a] \in Seq(Message)
  BY DEF LibraryTypeOK
<1>3. ~(i \in DOMAIN accepted[b] /\ accepted[b][i].req = r)
  BY DEF Answered
<1>4. accepted'[b] = Append(accepted[a], m)
  BY <1>1, <1>3 DEF LibraryTypeOK
<1>5. a = b
  BY <1>1, <1>3 DEF LibraryTypeOK
<1>6. i = Len(accepted[a]) + 1
  BY <1>1, <1>2, <1>3, <1>4, <1>5
<1> QED BY <1>1, <1>2, <1>4, <1>6

\* ... and that none of them was answered twice, if the message answers one
\* that was not answered, to the client that made it.
LEMMA StillOnce ==
  ASSUME LibraryTypeOK, AnsweredOnce, NEW a \in Addr, NEW m \in Message,
         m.req # Nobody => asker[m.req] = a /\ ~Answered(m.req),
         accepted' = accepted \/ accepted' = [accepted EXCEPT ![a] = Append(@, m)],
         asker' = asker
  PROVE  AnsweredOnce'
<1> SUFFICES ASSUME NEW b \in Addr, NEW i \in DOMAIN accepted'[b],
                    NEW j \in DOMAIN accepted'[b], accepted'[b][i].req # Nobody
             PROVE  /\ asker[accepted'[b][i].req] = b
                    /\ accepted'[b][j].req = accepted'[b][i].req => i = j
  BY DEF AnsweredOnce
<1>1. CASE accepted'[b] = accepted[b]
  BY <1>1 DEF AnsweredOnce
<1>2. CASE accepted'[b] # accepted[b]
  <2>1. a = b /\ accepted'[b] = Append(accepted[b], m) /\ accepted[b] \in Seq(Message)
    BY <1>2 DEF LibraryTypeOK
  <2>2. \A k \in DOMAIN accepted'[b] :
          \/ k \in DOMAIN accepted[b] /\ accepted'[b][k] = accepted[b][k]
          \/ k = Len(accepted[b]) + 1 /\ accepted'[b][k] = m
    BY <2>1
  <2>3. \A k \in DOMAIN accepted[b] : m.req # Nobody => accepted[b][k].req # m.req
    BY <2>1 DEF Answered
  <2> QED BY <2>1, <2>2, <2>3 DEF AnsweredOnce
<1> QED BY <1>1, <1>2


LEMMA TakeRequestStep ==
  ASSUME ServiceInv, TakeRequest
  PROVE  ServiceInv'
<1> USE ServiceAssumption DEF ServiceInv, TakeRequest, At, Goto, Listed, Thread, Req,
    wire, lists, locks, queue, service
<1>0. \A w \in Worker : pc'[w] = pc[w] /\ cur'[w] = cur[w] /\ todo'[w] = todo[w]
  BY DEF LibraryTypeOK
<1> DEFINE e == Head(inbox)
<1>a. /\ e = inbox[1] /\ 1 \in DOMAIN inbox /\ e \in Event /\ inbox' \in Seq(Event)
      /\ \A i \in DOMAIN inbox' : i \in Nat /\ i > 0 /\ i + 1 \in DOMAIN inbox
                                   /\ inbox'[i] = inbox[i + 1]
  BY EventTaken
<1>b. /\ e.kind = "request" /\ e.from \in Addr /\ e.req \in Req \cup {Nobody}
      /\ addr' = e.from /\ cur'[Handler] = e.req /\ pc'[Handler] \in {"find", "bail"}
  BY <1>a DEF LibraryTypeOK, Event
<1>1. LibraryTypeOK'
  BY <1>a, <1>b DEF LibraryTypeOK, Recv
<1>2. LocksHeld'
  BY <1>0 DEF LibraryTypeOK, LocksHeld, Recv
<1>3. RequestsKnown'
  BY <1>0, <1>a, <1>b DEF RequestsKnown
<1>4. ClientLives'
  BY DEF LibraryTypeOK, LocksHeld, RequestsKnown, ClientLives, PointersValid, Recv, Serving
<1>5. PointersValid'
  BY <1>0 DEF LibraryTypeOK, LocksHeld, RequestsKnown, ClientLives, PointersValid, Recv
<1>6. AnsweredAtEnd'
  <2>1. \A r : Answered(r)' <=> Answered(r)
    BY DEF Answered
  <2>2. AnsweredOnce'
    BY DEF AnsweredOnce, AnsweredAtEnd
  <2>3. Fresh(e.req) /\ e.req \notin txns
    BY <1>a, <1>b DEF AnsweredAtEnd, InboxFresh
  <2>4. InboxFresh'
    <3>1. \A i \in DOMAIN inbox' : inbox'[i].kind = "request" => inbox'[i].req # e.req
      BY <1>a, <1>b DEF AnsweredAtEnd, InboxFresh
    <3> QED BY <1>a, <1>b, <2>1, <3>1 DEF AnsweredAtEnd, InboxFresh, Fresh
  <2>5. \A w \in Worker : pc'[w] = "sendResp" =>
          cur'[w] \in given' \ txns' /\ ~Answered(cur[w])'
    BY <1>0, <2>1 DEF AnsweredAtEnd
  <2> QED BY <1>b, <2>1, <2>2, <2>3, <2>4, <2>5 DEF AnsweredAtEnd, Recv, Fresh
<1> QED BY <1>1, <1>2, <1>3, <1>4, <1>5, <1>6

LEMMA FindClientStep ==
  ASSUME ServiceInv, FindClient
  PROVE  ServiceInv'
<1> USE ServiceAssumption DEF ServiceInv, FindClient, At, Goto, Listed, Thread, Req,
    wire, lists, locks, queue, service
<1>0. \A w \in Worker : pc'[w] = pc[w] /\ cur'[w] = cur[w] /\ todo'[w] = todo[w]
  BY DEF LibraryTypeOK
<1>1. LibraryTypeOK'
  BY DEF LibraryTypeOK, Recv, Closing
<1>2. LocksHeld'
  <2>1. clientLock = Nobody /\ clientLock' \in {Handler, Nobody}
        /\ (pc'[Handler] \in {"add", "clean"} => clientLock' = Handler)
    BY DEF LibraryTypeOK
  <2> QED BY <1>0, <2>1 DEF LocksHeld
<1>3. RequestsKnown'
  BY DEF LibraryTypeOK, RequestsKnown, Recv, Serving
<1>4. ClientLives'
  BY DEF LibraryTypeOK, LocksHeld, RequestsKnown, ClientLives, PointersValid, Recv, Serving
<1>5. PointersValid'
  BY <1>0 DEF LibraryTypeOK, LocksHeld, RequestsKnown, ClientLives, PointersValid, Recv
<1>6. AnsweredAtEnd'
  <2>1. \A r : Answered(r)' <=> Answered(r)
    BY DEF Answered
  <2>2. AnsweredOnce'
    BY DEF AnsweredOnce, AnsweredAtEnd
  <2> QED BY <2>1, <2>2 DEF LibraryTypeOK, LocksHeld, RequestsKnown, AnsweredAtEnd, InboxFresh,
     Fresh, Recv
<1> QED BY <1>1, <1>2, <1>3, <1>4, <1>5, <1>6

LEMMA ConnectCbStep ==
  ASSUME ServiceInv, ConnectCb
  PROVE  ServiceInv'
<1> USE ServiceAssumption DEF ServiceInv, ConnectCb, At, Goto, Listed, Thread, Req,
    wire, lists, locks, queue, service
<1>0. \A w \in Worker : pc'[w] = pc[w] /\ cur'[w] = cur[w] /\ todo'[w] = todo[w]
  BY DEF LibraryTypeOK
<1>1. LibraryTypeOK'
  <2>1. addr \in Addr
    BY DEF LibraryTypeOK, RequestsKnown, Recv
  <2> QED BY <2>1 DEF LibraryTypeOK, Recv
<1>2. LocksHeld'
  BY <1>0 DEF LibraryTypeOK, LocksHeld, Recv
<1>3. RequestsKnown'
  BY DEF LibraryTypeOK, RequestsKnown, Recv, Serving
<1>4. ClientLives'
  BY DEF LibraryTypeOK, LocksHeld, RequestsKnown, ClientLives, PointersValid, Recv, Serving
<1>5. PointersValid'
  BY <1>0 DEF LibraryTypeOK, LocksHeld, RequestsKnown, ClientLives, PointersValid, Recv
<1>6. AnsweredAtEnd'
  <2>1. \A r : Answered(r)' <=> Answered(r)
    BY DEF Answered
  <2>2. AnsweredOnce'
    BY DEF AnsweredOnce, AnsweredAtEnd
  <2> QED BY <2>1, <2>2 DEF LibraryTypeOK, LocksHeld, RequestsKnown, AnsweredAtEnd, InboxFresh,
     Fresh, Recv
<1> QED BY <1>1, <1>2, <1>3, <1>4, <1>5, <1>6

LEMMA RefusedStep ==
  ASSUME ServiceInv, Refused
  PROVE  ServiceInv'
<1> USE ServiceAssumption DEF ServiceInv, Refused, At, Goto, Listed, Thread, Req,
    wire, lists, locks, queue, service
<1>0. \A w \in Worker : pc'[w] = pc[w] /\ cur'[w] = cur[w] /\ todo'[w] = todo[w]
  BY DEF LibraryTypeOK
<1>1. LibraryTypeOK'
  BY DEF LibraryTypeOK, Recv, Closing
<1>2. LocksHeld'
  BY <1>0 DEF LibraryTypeOK, LocksHeld, Recv
<1>3. RequestsKnown'
  BY DEF LibraryTypeOK, RequestsKnown, Recv, Serving
<1>4. ClientLives'
  BY DEF LibraryTypeOK, LocksHeld, RequestsKnown, ClientLives, PointersValid, Recv, Serving
<1>5. PointersValid'
  <2>1. \A w \in Worker : todo[w] = {}
    BY DEF LocksHeld
  <2>2. addr \in Addr /\ \A b \in Addr : b # addr => client'[b] = client[b]
    BY DEF LibraryTypeOK, RequestsKnown, Recv
  <2>3. \A r \in DOMAIN asker : asker[r] \in Addr
    BY DEF LibraryTypeOK
  <2> QED BY <1>0, <2>1, <2>2, <2>3 DEF PointersValid, ClientLives, RequestsKnown
<1>6. AnsweredAtEnd'
  <2>1. \A r : Answered(r)' <=> Answered(r)
    BY DEF Answered
  <2>2. AnsweredOnce'
    BY DEF AnsweredOnce, AnsweredAtEnd
  <2> QED BY <2>1, <2>2 DEF LibraryTypeOK, LocksHeld, RequestsKnown, AnsweredAtEnd, InboxFresh,
     Fresh, Recv
<1> QED BY <1>1, <1>2, <1>3, <1>4, <1>5, <1>6

LEMMA AddTxnStep ==
  ASSUME ServiceInv, AddTxn
  PROVE  ServiceInv'
<1> USE ServiceAssumption DEF ServiceInv, AddTxn, At, Goto, Listed, Thread, Req,
    wire, lists, locks, queue, service
<1>0. \A w \in Worker : pc'[w] = pc[w] /\ cur'[w] = cur[w] /\ todo'[w] = todo[w]
  BY DEF LibraryTypeOK
<1>a. \/ /\ txnLock = Nobody /\ txns' = txns \cup {cur[Handler]} /\ clientLock' = Nobody
         /\ pc'[Handler] = "process"
      \/ UNCHANGED <<txns, clientLock>> /\ pc'[Handler] = "bail"
  BY DEF LibraryTypeOK
<1>b. cur[Handler] \in Req /\ clientLock = Handler
  BY DEF LibraryTypeOK, RequestsKnown, LocksHeld, Recv
<1>1. LibraryTypeOK'
  BY <1>a, <1>b DEF LibraryTypeOK, Recv
<1>2. LocksHeld'
  BY <1>0, <1>a, <1>b DEF LocksHeld
<1>3. RequestsKnown'
  BY DEF LibraryTypeOK, RequestsKnown, Recv, Serving
<1>4. ClientLives'
  BY DEF LibraryTypeOK, LocksHeld, RequestsKnown, ClientLives, PointersValid, Recv, Serving
<1>5. PointersValid'
  <2>1. Listed(asker[cur[Handler]]) /\ xport # "freed"
    BY DEF ClientLives, RequestsKnown, Recv
  <2> QED BY <1>0, <1>a, <2>1 DEF PointersValid
<1>6. AnsweredAtEnd'
  <2>1. \A r : Answered(r)' <=> Answered(r)
    BY DEF Answered
  <2>2. AnsweredOnce'
    BY DEF AnsweredOnce, AnsweredAtEnd
  <2>3. /\ pc[Handler] = "add" /\ pc'[Handler] \in Recv /\ cur'[Handler] = cur[Handler]
        /\ txns \subseteq txns' /\ txns' \subseteq txns \cup {cur[Handler]}
        /\ UNCHANGED <<accepted, given, asker, inbox>>
    BY <1>a DEF LibraryTypeOK, Recv
  <2>4. Fresh(cur[Handler])
    BY <2>3 DEF AnsweredAtEnd, Recv
  <2> HIDE DEF AddTxn
  <2>5. InboxFresh'
    BY <2>1, <2>3 DEF AnsweredAtEnd, InboxFresh, Fresh, Recv
  <2>6. \A w \in Worker : pc'[w] = "sendResp" => cur[w] \in given \ txns' /\ ~Answered(cur[w])
    BY <1>0, <2>3, <2>4 DEF AnsweredAtEnd, Fresh
  <2>7. \A r \in txns' : ~Answered(r)
    BY <2>3, <2>4 DEF AnsweredAtEnd, Fresh
  <2>8. pc'[Handler] \notin Recv \ {"process", "freeTxn"}
        \/ (cur[Handler] \notin txns' /\ pc'[Handler] = "bail")
    BY <1>a, <2>3 DEF AnsweredAtEnd, Recv
  <2>9. \A r \in Req : Answered(r) => r \in DOMAIN asker
    BY DEF AnsweredAtEnd
  <2> HIDE DEF ServiceInv
  <2> QED BY <1>0, <2>1, <2>2, <2>3, <2>4, <2>5, <2>6, <2>7, <2>8, <2>9 DEF AnsweredAtEnd, Fresh
<1> QED BY <1>1, <1>2, <1>3, <1>4, <1>5, <1>6

LEMMA ProcessReqStep ==
  ASSUME ServiceInv, ProcessReq
  PROVE  ServiceInv'
<1> USE ServiceAssumption DEF ServiceInv, ProcessReq, At, Goto, Listed, Thread, Req,
    wire, lists, locks, queue, service
<1>0. \A w \in Worker : pc'[w] = pc[w] /\ cur'[w] = cur[w] /\ todo'[w] = todo[w]
  BY DEF LibraryTypeOK
<1>1. LibraryTypeOK'
  <2>1. cur[Handler] \in Req
    BY DEF LibraryTypeOK, RequestsKnown, Recv
  <2> QED BY <2>1 DEF LibraryTypeOK, Recv
<1>2. LocksHeld'
  BY <1>0 DEF LibraryTypeOK, LocksHeld, Recv
<1>3. RequestsKnown'
  BY DEF LibraryTypeOK, RequestsKnown, Recv, Serving
<1>4. ClientLives'
  BY DEF LibraryTypeOK, LocksHeld, RequestsKnown, ClientLives, PointersValid, Recv, Serving
<1>5. PointersValid'
  BY <1>0 DEF LibraryTypeOK, LocksHeld, RequestsKnown, ClientLives, PointersValid, Recv
<1>6. AnsweredAtEnd'
  <2>1. \A r : Answered(r)' <=> Answered(r)
    BY DEF Answered
  <2>2. AnsweredOnce'
    BY DEF AnsweredOnce, AnsweredAtEnd
  <2> QED BY <2>1, <2>2 DEF LibraryTypeOK, LocksHeld, RequestsKnown, AnsweredAtEnd, InboxFresh,
     Fresh, Recv
<1> QED BY <1>1, <1>2, <1>3, <1>4, <1>5, <1>6

LEMMA FreeTxnStep ==
  ASSUME ServiceInv, FreeTxn
  PROVE  ServiceInv'
<1> USE ServiceAssumption DEF ServiceInv, FreeTxn, At, Goto, Listed, Thread, Req,
    wire, lists, locks, queue, service
<1>0. \A w \in Worker : pc'[w] = pc[w] /\ cur'[w] = cur[w] /\ todo'[w] = todo[w]
  BY DEF LibraryTypeOK
<1>1. LibraryTypeOK'
  BY DEF LibraryTypeOK, Recv, Closing
<1>2. LocksHeld'
  BY <1>0 DEF LibraryTypeOK, LocksHeld, Recv
<1>3. RequestsKnown'
  BY DEF LibraryTypeOK, RequestsKnown, Recv, Serving
<1>4. ClientLives'
  BY DEF LibraryTypeOK, LocksHeld, RequestsKnown, ClientLives, PointersValid, Recv, Serving
<1>5. PointersValid'
  BY <1>0 DEF LibraryTypeOK, LocksHeld, RequestsKnown, ClientLives, PointersValid, Recv
<1>6. AnsweredAtEnd'
  <2>1. \A r : Answered(r)' <=> Answered(r)
    BY DEF Answered
  <2>2. AnsweredOnce'
    BY DEF AnsweredOnce, AnsweredAtEnd
  <2> QED BY <2>1, <2>2 DEF LibraryTypeOK, LocksHeld, RequestsKnown, AnsweredAtEnd, InboxFresh,
     Fresh, Recv
<1> QED BY <1>1, <1>2, <1>3, <1>4, <1>5, <1>6

LEMMA BailStep ==
  ASSUME ServiceInv, Bail
  PROVE  ServiceInv'
<1> USE ServiceAssumption DEF ServiceInv, Bail, At, Goto, Listed, Thread, Req,
    wire, lists, locks, queue, service
<1>0. \A w \in Worker : pc'[w] = pc[w] /\ cur'[w] = cur[w] /\ todo'[w] = todo[w]
  BY DEF LibraryTypeOK
<1>a. /\ cur[Handler] \in DOMAIN asker /\ cur[Handler] \in Req
      /\ addr \in Addr /\ asker[cur[Handler]] = addr
      /\ Error(cur[Handler]) \in Message /\ Error(cur[Handler]).req = cur[Handler]
  BY DEF LibraryTypeOK, RequestsKnown, Recv, Error, Message
<1>b. /\ UNCHANGED <<open, inbox, removals, asker>>
      /\ accepted' = accepted
         \/ accepted' = [accepted EXCEPT ![addr] = Append(@, Error(cur[Handler]))]
      /\ accepted' \in [Addr -> Seq(Message)]
  BY <1>a, SendTakes
<1>c. pc'[Handler] = "select" /\ cur'[Handler] = Nobody
  BY DEF LibraryTypeOK
<1>1. LibraryTypeOK'
  BY <1>b DEF LibraryTypeOK, Recv
<1>2. LocksHeld'
  BY <1>0 DEF LibraryTypeOK, LocksHeld, Recv
<1>3. RequestsKnown'
  BY <1>0, <1>b, <1>c DEF LibraryTypeOK, RequestsKnown, Recv
<1>4. ClientLives'
  BY <1>0, <1>b, <1>c DEF ClientLives, Recv
<1>5. PointersValid'
  BY <1>0, <1>b DEF PointersValid
<1>6. AnsweredAtEnd'
  <2>1. \A r : Answered(r)' => Answered(r) \/ r = cur[Handler]
    BY <1>a, <1>b, AnsweredNow
  <2>2. ~Answered(cur[Handler])
    BY DEF AnsweredAtEnd, Fresh, Recv
  <2>3. AnsweredOnce'
    BY <1>a, <1>b, <2>2, StillOnce DEF AnsweredAtEnd
  <2>4. cur[Handler] \notin given /\ cur[Handler] \notin txns
    BY DEF AnsweredAtEnd, Fresh, Recv
  <2>5. InboxFresh'
    BY <1>b, <1>c, <2>1 DEF AnsweredAtEnd, InboxFresh, Fresh, Recv
  <2> QED BY <1>0, <1>a, <1>b, <1>c, <2>1, <2>3, <2>4, <2>5 DEF AnsweredAtEnd, Recv
<1> QED BY <1>1, <1>2, <1>3, <1>4, <1>5, <1>6

LEMMA HandleResumeStep ==
  ASSUME ServiceInv, HandleResume
  PROVE  ServiceInv'
<1> USE ServiceAssumption DEF ServiceInv, HandleResume, At, Goto, Listed, Thread, Req,
    wire, lists, locks, queue, service
<1>c. pc' = pc \/ \E l \in {"resume", "select"} : pc' = [pc EXCEPT ![Handler] = l]
  BY ZenonT(30)
<1>d. UNCHANGED <<removals, asker, client, txns, clientLock, txnLock, xport, cur, todo, known,
                 given, accepted>>
  BY ZenonT(30)
<1>e. /\ pc[Handler] = "select" /\ inbox # <<>> /\ inbox' = Tail(inbox)
      /\ addr' = Head(inbox).from
  BY ZenonT(30)
<1> HIDE DEF HandleResume
<1>0. \A w \in Worker : pc'[w] = pc[w] /\ cur'[w] = cur[w] /\ todo'[w] = todo[w]
  BY <1>c, <1>d DEF LibraryTypeOK
<1>a. /\ Head(inbox) \in Event /\ inbox' \in Seq(Event)
      /\ \A i \in DOMAIN inbox' : i \in Nat /\ i > 0 /\ i + 1 \in DOMAIN inbox
                                   /\ inbox'[i] = inbox[i + 1]
  BY <1>e, EventTaken DEF LibraryTypeOK
<1>b. /\ addr' = Head(inbox).from /\ addr' \in Addr
      /\ pc'[Handler] \in {"resume", "select"} /\ pc[Handler] = "select"
  BY <1>a, <1>c, <1>e DEF LibraryTypeOK, Event
<1>1. LibraryTypeOK'
  BY <1>a, <1>b, <1>c, <1>d DEF LibraryTypeOK
<1>2. LocksHeld'
  BY <1>0, <1>b, <1>d DEF LocksHeld
<1>3. RequestsKnown'
  BY <1>0, <1>a, <1>b, <1>d DEF RequestsKnown, Recv
<1>4. ClientLives'
  BY <1>0, <1>b, <1>d DEF ClientLives
<1>5. PointersValid'
  BY <1>0, <1>d DEF PointersValid
<1>6. AnsweredAtEnd'
  <2>1. \A r : Answered(r)' <=> Answered(r)
    BY <1>d DEF Answered
  <2>2. AnsweredOnce'
    BY <1>d DEF AnsweredOnce, AnsweredAtEnd
  <2>3. InboxFresh'
    BY <1>a, <1>b, <1>d, <2>1 DEF AnsweredAtEnd, InboxFresh, Fresh, Recv
  <2> QED BY <1>0, <1>b, <1>d, <2>1, <2>2, <2>3 DEF AnsweredAtEnd, Recv
<1> QED BY <1>1, <1>2, <1>3, <1>4, <1>5, <1>6

LEMMA ResumeClientStep ==
  ASSUME ServiceInv, ResumeClient
  PROVE  ServiceInv'
<1> USE ServiceAssumption DEF ServiceInv, ResumeClient, At, Goto, Listed, Thread, Req,
    wire, lists, locks, queue, service
<1>0. \A w \in Worker : pc'[w] = pc[w] /\ cur'[w] = cur[w] /\ todo'[w] = todo[w]
  BY DEF LibraryTypeOK
<1>1. LibraryTypeOK'
  BY DEF LibraryTypeOK, Recv, Closing
<1>2. LocksHeld'
  BY <1>0 DEF LibraryTypeOK, LocksHeld, Recv
<1>3. RequestsKnown'
  BY DEF LibraryTypeOK, RequestsKnown, Recv, Serving
<1>4. ClientLives'
  BY DEF LibraryTypeOK, LocksHeld, RequestsKnown, ClientLives, PointersValid, Recv, Serving
<1>5. PointersValid'
  BY <1>0 DEF LibraryTypeOK, LocksHeld, RequestsKnown, ClientLives, PointersValid, Recv
<1>6. AnsweredAtEnd'
  <2>1. \A r : Answered(r)' <=> Answered(r)
    BY DEF Answered
  <2>2. AnsweredOnce'
    BY DEF AnsweredOnce, AnsweredAtEnd
  <2> QED BY <2>1, <2>2 DEF LibraryTypeOK, LocksHeld, RequestsKnown, AnsweredAtEnd, InboxFresh,
     Fresh, Recv
<1> QED BY <1>1, <1>2, <1>3, <1>4, <1>5, <1>6

LEMMA TakeRemovalStep ==
  ASSUME ServiceInv, TakeRemoval
  PROVE  ServiceInv'
<1> USE ServiceAssumption DEF ServiceInv, TakeRemoval, At, Goto, Listed, Thread, Req,
    wire, lists, locks, queue, service
<1>0. \A w \in Worker : pc'[w] = pc[w] /\ cur'[w] = cur[w] /\ todo'[w] = todo[w]
  BY DEF LibraryTypeOK
<1>1. LibraryTypeOK'
  BY DEF LibraryTypeOK, Recv, Closing
<1>2. LocksHeld'
  BY <1>0 DEF LibraryTypeOK, LocksHeld, Recv
<1>3. RequestsKnown'
  BY DEF LibraryTypeOK, RequestsKnown, Recv, Serving
<1>4. ClientLives'
  BY DEF LibraryTypeOK, LocksHeld, RequestsKnown, ClientLives, PointersValid, Recv, Serving
<1>5. PointersValid'
  BY <1>0 DEF LibraryTypeOK, LocksHeld, RequestsKnown, ClientLives, PointersValid, Recv
<1>6. AnsweredAtEnd'
  <2>1. \A r : Answered(r)' <=> Answered(r)
    BY DEF Answered
  <2>2. AnsweredOnce'
    BY DEF AnsweredOnce, AnsweredAtEnd
  <2> QED BY <2>1, <2>2 DEF LibraryTypeOK, LocksHeld, RequestsKnown, AnsweredAtEnd, InboxFresh,
     Fresh, Recv
<1> QED BY <1>1, <1>2, <1>3, <1>4, <1>5, <1>6

LEMMA DisconnectStep ==
  ASSUME ServiceInv, Disconnect
  PROVE  ServiceInv'
<1> USE ServiceAssumption DEF ServiceInv, Disconnect, At, Goto, Listed, Thread, Req,
    wire, lists, locks, queue, service
<1>0. \A w \in Worker : pc'[w] = pc[w] /\ cur'[w] = cur[w] /\ todo'[w] = todo[w]
  BY DEF LibraryTypeOK
<1>1. LibraryTypeOK'
  BY DEF LibraryTypeOK, Recv, Closing
<1>2. LocksHeld'
  <2>1. /\ clientLock = Nobody /\ clientLock' \in {Handler, Nobody}
        /\ pc'[Handler] \in {"add", "clean"} => clientLock' = Handler
    BY DEF LibraryTypeOK
  <2> QED BY <1>0, <2>1 DEF LocksHeld
<1>3. RequestsKnown'
  BY DEF LibraryTypeOK, RequestsKnown, Recv, Serving
<1>4. ClientLives'
  BY DEF LibraryTypeOK, LocksHeld, RequestsKnown, ClientLives, PointersValid, Recv, Serving
<1>5. PointersValid'
  <2>1. \A w \in Worker : todo[w] = {}
    BY DEF LocksHeld
  <2>2. \A b \in Addr : client[b] # "none" => client'[b] # "none"
    BY DEF LibraryTypeOK
  <2>3. \A r \in DOMAIN asker : asker[r] \in Addr
    BY DEF LibraryTypeOK
  <2> QED BY <1>0, <2>1, <2>2, <2>3 DEF PointersValid, RequestsKnown
<1>6. AnsweredAtEnd'
  <2>1. \A r : Answered(r)' <=> Answered(r)
    BY DEF Answered
  <2>2. AnsweredOnce'
    BY DEF AnsweredOnce, AnsweredAtEnd
  <2> QED BY <2>1, <2>2 DEF LibraryTypeOK, LocksHeld, RequestsKnown, AnsweredAtEnd, InboxFresh,
     Fresh, Recv
<1> QED BY <1>1, <1>2, <1>3, <1>4, <1>5, <1>6

LEMMA CleanTxnsStep ==
  ASSUME ServiceInv, CleanTxns
  PROVE  ServiceInv'
<1> USE ServiceAssumption DEF ServiceInv, CleanTxns, At, Goto, Listed, Thread, Req,
    wire, lists, locks, queue, service
<1>0. \A w \in Worker : pc'[w] = pc[w] /\ cur'[w] = cur[w] /\ todo'[w] = todo[w]
  BY DEF LibraryTypeOK
<1>1. LibraryTypeOK'
  BY DEF LibraryTypeOK, Recv, Closing
<1>2. LocksHeld'
  BY <1>0 DEF LibraryTypeOK, LocksHeld, Recv
<1>3. RequestsKnown'
  BY DEF LibraryTypeOK, RequestsKnown, Recv, Serving
<1>4. ClientLives'
  BY DEF LibraryTypeOK, LocksHeld, RequestsKnown, ClientLives, PointersValid, Recv, Serving
<1>5. PointersValid'
  BY <1>0 DEF LibraryTypeOK, LocksHeld, RequestsKnown, ClientLives, PointersValid, Recv
<1>6. AnsweredAtEnd'
  <2>1. \A r : Answered(r)' <=> Answered(r)
    BY DEF Answered
  <2>2. AnsweredOnce'
    BY DEF AnsweredOnce, AnsweredAtEnd
  <2> QED BY <2>1, <2>2 DEF LibraryTypeOK, LocksHeld, RequestsKnown, AnsweredAtEnd, InboxFresh,
     Fresh, Recv
<1> QED BY <1>1, <1>2, <1>3, <1>4, <1>5, <1>6

LEMMA PurgeAllStep ==
  ASSUME ServiceInv, PurgeAll
  PROVE  ServiceInv'
<1> USE ServiceAssumption DEF ServiceInv, PurgeAll, At, Goto, Listed, Thread, Req,
    wire, lists, locks, queue, service
<1>0. \A w \in Worker : pc'[w] = pc[w] /\ cur'[w] = cur[w] /\ todo'[w] = todo[w]
  BY DEF LibraryTypeOK
<1>1. LibraryTypeOK'
  BY DEF LibraryTypeOK, Recv, Closing
<1>2. LocksHeld'
  BY <1>0 DEF LibraryTypeOK, LocksHeld, Recv
<1>3. RequestsKnown'
  BY DEF LibraryTypeOK, RequestsKnown, Recv, Serving
<1>4. ClientLives'
  BY DEF LibraryTypeOK, LocksHeld, RequestsKnown, ClientLives, PointersValid, Recv, Serving
<1>5. PointersValid'
  BY <1>0 DEF LibraryTypeOK, LocksHeld, RequestsKnown, ClientLives, PointersValid, Recv
<1>6. AnsweredAtEnd'
  <2>1. \A r : Answered(r)' <=> Answered(r)
    BY DEF Answered
  <2>2. AnsweredOnce'
    BY DEF AnsweredOnce, AnsweredAtEnd
  <2> QED BY <2>1, <2>2 DEF LibraryTypeOK, LocksHeld, RequestsKnown, AnsweredAtEnd, InboxFresh,
     Fresh, Recv
<1> QED BY <1>1, <1>2, <1>3, <1>4, <1>5, <1>6

LEMMA CloseSocketsStep ==
  ASSUME ServiceInv, CloseSockets
  PROVE  ServiceInv'
<1> USE ServiceAssumption DEF ServiceInv, CloseSockets, At, Goto, Listed, Thread, Req,
    wire, lists, locks, queue, service
<1>0. \A w \in Worker : pc'[w] = pc[w] /\ cur'[w] = cur[w] /\ todo'[w] = todo[w]
  BY DEF LibraryTypeOK
<1>1. LibraryTypeOK'
  BY DEF LibraryTypeOK, Recv, Closing
<1>2. LocksHeld'
  BY <1>0 DEF LibraryTypeOK, LocksHeld, Recv
<1>3. RequestsKnown'
  BY DEF LibraryTypeOK, RequestsKnown, Recv, Serving
<1>4. ClientLives'
  BY DEF LibraryTypeOK, LocksHeld, RequestsKnown, ClientLives, PointersValid, Recv, Serving
<1>5. PointersValid'
  BY <1>0 DEF LibraryTypeOK, LocksHeld, RequestsKnown, ClientLives, PointersValid, Recv
<1>6. AnsweredAtEnd'
  <2>1. \A r : Answered(r)' <=> Answered(r)
    BY DEF Answered
  <2>2. AnsweredOnce'
    BY DEF AnsweredOnce, AnsweredAtEnd
  <2> QED BY <2>1, <2>2 DEF LibraryTypeOK, LocksHeld, RequestsKnown, AnsweredAtEnd, InboxFresh,
     Fresh, Recv
<1> QED BY <1>1, <1>2, <1>3, <1>4, <1>5, <1>6

LEMMA XportClosedStep ==
  ASSUME ServiceInv, XportClosed
  PROVE  ServiceInv'
<1> USE ServiceAssumption DEF ServiceInv, XportClosed, At, Goto, Listed, Thread, Req,
    wire, lists, locks, queue, service
<1>0. \A w \in Worker : pc'[w] = pc[w] /\ cur'[w] = cur[w] /\ todo'[w] = todo[w]
  BY DEF LibraryTypeOK
<1>1. LibraryTypeOK'
  BY DEF LibraryTypeOK, Recv, Closing
<1>2. LocksHeld'
  <2>1. /\ clientLock \in {Handler, Nobody} /\ clientLock' \in {Handler, Nobody}
        /\ pc'[Handler] \notin {"add", "clean"} /\ UNCHANGED txnLock
    BY DEF LibraryTypeOK
  <2> QED BY <1>0, <2>1 DEF LocksHeld
<1>3. RequestsKnown'
  BY DEF LibraryTypeOK, RequestsKnown, Recv, Serving
<1>4. ClientLives'
  BY DEF LibraryTypeOK, LocksHeld, RequestsKnown, ClientLives, PointersValid, Recv, Serving
<1>5. PointersValid'
  <2>1. clientLock \in {Handler, Nobody} /\ \A w \in Worker : todo[w] = {}
    BY DEF LocksHeld
  <2>2. \A r \in DOMAIN asker : asker[r] \in Addr
    BY DEF LibraryTypeOK
  <2>3. CASE UNCHANGED <<client, txns, xport>>
    BY <1>0, <2>1, <2>3 DEF PointersValid
  <2>4. CASE txnLock = Nobody /\ UNCHANGED xport
             /\ \E a \in Addr : /\ client' = [client EXCEPT ![a] = "none"]
                                /\ txns' = {r \in txns : asker[r] # a}
    BY <1>0, <2>1, <2>2, <2>4 DEF PointersValid, LocksHeld, LibraryTypeOK, RequestsKnown
  <2>5. CASE UNCHANGED <<client, txns>> /\ \A a \in Addr : ~Listed(a)
    <3>1. \A a \in Addr : client[a] = "none"
      BY <2>5 DEF LibraryTypeOK, ClientLives
    <3> QED BY <1>0, <2>1, <2>2, <2>5, <3>1 DEF PointersValid, RequestsKnown
  <2> QED BY <2>3, <2>4, <2>5
<1>6. AnsweredAtEnd'
  <2>1. \A r : Answered(r)' <=> Answered(r)
    BY DEF Answered
  <2>2. AnsweredOnce'
    BY DEF AnsweredOnce, AnsweredAtEnd
  <2>3. /\ pc'[Handler] \notin Recv /\ txns' \subseteq txns
        /\ UNCHANGED <<inbox, asker, accepted, given>>
    BY DEF LibraryTypeOK, Recv
  <2> HIDE DEF XportClosed
  <2> QED BY <1>0, <2>1, <2>2, <2>3 DEF AnsweredAtEnd, InboxFresh, Fresh
<1> QED BY <1>1, <1>2, <1>3, <1>4, <1>5, <1>6

LEMMA FindTxnStep ==
  ASSUME ServiceInv, NEW w \in Worker, FindTxn(w)
  PROVE  ServiceInv'
<1> USE ServiceAssumption DEF ServiceInv, FindTxn, At, Goto, Listed, Thread, Req,
    wire, lists, locks, queue, service
<1>1. LibraryTypeOK'
  BY DEF LibraryTypeOK, Recv, Closing
<1>2. LocksHeld'
  BY DEF LibraryTypeOK, LocksHeld, Recv
<1>3. RequestsKnown'
  BY DEF LibraryTypeOK, RequestsKnown, Recv, Serving
<1>4. ClientLives'
  BY DEF LibraryTypeOK, LocksHeld, RequestsKnown, ClientLives, PointersValid, Recv, Serving
<1>5. PointersValid'
  BY DEF LibraryTypeOK, PointersValid
<1>6. AnsweredAtEnd'
  <2>1. \A r : Answered(r)' <=> Answered(r)
    BY DEF Answered
  <2>2. AnsweredOnce'
    BY DEF AnsweredOnce, AnsweredAtEnd
  <2> QED BY <2>1, <2>2 DEF LibraryTypeOK, LocksHeld, RequestsKnown, AnsweredAtEnd, InboxFresh,
     Fresh, Recv
<1> QED BY <1>1, <1>2, <1>3, <1>4, <1>5, <1>6

LEMMA SendRespStep ==
  ASSUME ServiceInv, NEW w \in Worker, SendResp(w)
  PROVE  ServiceInv'
<1> USE ServiceAssumption DEF ServiceInv, SendResp, At, Goto, Listed, Thread, Req,
    wire, lists, locks, queue, service
<1>a. /\ cur[w] \in DOMAIN asker /\ cur[w] \in Req /\ asker[cur[w]] \in Addr
      /\ Answer(cur[w]) \in Message /\ Answer(cur[w]).req = cur[w]
  BY DEF LibraryTypeOK, RequestsKnown, Answer, Message
<1>b. /\ UNCHANGED <<open, inbox, removals, asker>>
      /\ accepted' = accepted
         \/ accepted' = [accepted EXCEPT ![asker[cur[w]]] = Append(@, Answer(cur[w]))]
      /\ accepted' \in [Addr -> Seq(Message)]
  <2>1. CASE \E rc \in Result : Send(asker[cur[w]], asker[cur[w]], Answer(cur[w]), FALSE, rc)
    BY <1>a, <2>1, SendTakes
  <2>2. CASE UNCHANGED <<wire, queue, accepted>>
    BY <2>2 DEF LibraryTypeOK
  <2> QED BY <2>1, <2>2
<1>c. /\ pc'[w] = "idle" /\ cur'[w] = Nobody /\ txnLock' = Nobody /\ txnLock = w
      /\ \A t \in Thread : t # w => pc'[t] = pc[t] /\ cur'[t] = cur[t]
      /\ UNCHANGED <<client, txns, clientLock, addr, xport, todo, given>>
  BY DEF LibraryTypeOK, LocksHeld
<1>1. LibraryTypeOK'
  BY <1>b DEF LibraryTypeOK, Recv
<1>2. LocksHeld'
  BY <1>c DEF LocksHeld
<1>3. RequestsKnown'
  BY <1>b, <1>c DEF RequestsKnown, Recv
<1>4. ClientLives'
  BY <1>b, <1>c DEF ClientLives, Recv
<1>5. PointersValid'
  BY <1>b, <1>c DEF PointersValid
<1>6. AnsweredAtEnd'
  <2>1. \A r : Answered(r)' => Answered(r) \/ r = cur[w]
    BY <1>a, <1>b, AnsweredNow
  <2>2. ~Answered(cur[w])
    BY DEF AnsweredAtEnd, Fresh, Recv
  <2>3. AnsweredOnce'
    BY <1>a, <1>b, <2>2, StillOnce DEF AnsweredAtEnd
  <2>4. cur[w] \in given /\ cur[w] \notin txns
    BY DEF AnsweredAtEnd
  <2>5. InboxFresh'
    BY <1>b, <1>c, <2>1, <2>4 DEF AnsweredAtEnd, InboxFresh, Fresh, Recv
  <2>6. \A t \in Worker : pc'[t] # "sendResp"
    BY <1>c DEF LocksHeld
  <2>7. pc[Handler] \in Recv => cur[Handler] # cur[w]
    BY <2>4 DEF AnsweredAtEnd, Fresh
  <2> QED BY <1>a, <1>b, <1>c, <2>1, <2>3, <2>4, <2>5, <2>6, <2>7 DEF AnsweredAtEnd, Fresh, Recv
<1> QED BY <1>1, <1>2, <1>3, <1>4, <1>5, <1>6

LEMMA FindReceiversStep ==
  ASSUME ServiceInv, NEW w \in Worker, FindReceivers(w)
  PROVE  ServiceInv'
<1> USE ServiceAssumption DEF ServiceInv, FindReceivers, At, Goto, Listed, Thread, Req,
    wire, lists, locks, queue, service
<1>a. /\ pc' = [pc EXCEPT ![w] = pc'[w]] /\ pc'[w] \in {"sendInd", "sendAll"}
      /\ clientLock' = w /\ clientLock = Nobody
  BY DEF LibraryTypeOK
<1>1. LibraryTypeOK'
  <2>1. \E A \in SUBSET Addr : todo' = [todo EXCEPT ![w] = A]
    BY DEF LibraryTypeOK
  <2>2. todo' \in [Thread -> SUBSET Addr]
    BY <2>1 DEF LibraryTypeOK
  <2>3. pc' \in [Thread -> {"idle", "sendResp", "sendInd", "sendAll"} \cup Recv \cup Closing
                             \cup {"select", "resume", "disconnect", "clean"}]
    BY DEF LibraryTypeOK
  <2> QED BY <1>a, <2>2, <2>3 DEF LibraryTypeOK
<1>2. LocksHeld'
  <2>1. /\ \A t \in Thread : t # w => pc'[t] = pc[t] /\ todo'[t] = todo[t]
        /\ Handler # w /\ UNCHANGED txnLock
    BY DEF LibraryTypeOK
  <2> QED BY <1>a, <2>1 DEF LocksHeld
<1>3. RequestsKnown'
  BY DEF LibraryTypeOK, RequestsKnown, Recv, Serving
<1>4. ClientLives'
  BY DEF LibraryTypeOK, LocksHeld, RequestsKnown, ClientLives, PointersValid, Recv, Serving
<1>5. PointersValid'
  <2>1. /\ pc'[w] \in {"sendInd", "sendAll"} /\ \A a \in todo'[w] : Listed(a)
        /\ \A t \in Worker \ {w} : pc'[t] = pc[t] /\ todo'[t] = todo[t]
    BY DEF LibraryTypeOK
  <2>2. clientLock = Nobody /\ \A t \in Worker : todo[t] = {}
    BY DEF LocksHeld
  <2>3. xport # "freed"
    BY DEF ClientLives, LibraryTypeOK
  <2> QED BY <2>1, <2>2, <2>3 DEF PointersValid
<1>6. AnsweredAtEnd'
  <2>1. \A r : Answered(r)' <=> Answered(r)
    BY DEF Answered
  <2>2. AnsweredOnce'
    BY DEF AnsweredOnce, AnsweredAtEnd
  <2> QED BY <2>1, <2>2 DEF LibraryTypeOK, LocksHeld, RequestsKnown, AnsweredAtEnd, InboxFresh,
     Fresh, Recv
<1> QED BY <1>1, <1>2, <1>3, <1>4, <1>5, <1>6

LEMMA SendIndStep ==
  ASSUME ServiceInv, NEW w \in Worker, SendInd(w)
  PROVE  ServiceInv'
<1> USE ServiceAssumption DEF ServiceInv, SendInd, At, Goto, Listed, Thread, Req,
    wire, lists, locks, queue, service
<1>a. PICK a \in todo[w], rc \in Result :
        /\ Send(a, a, Ind, TRUE, rc)
        /\ todo' = [todo EXCEPT ![w] = @ \ {a}]
        /\ IF todo[w] = {a} THEN clientLock' = Nobody /\ Goto(w, "idle")
                            ELSE UNCHANGED <<clientLock, pc>>
  OBVIOUS
<1>b. a \in Addr /\ Ind \in Message /\ Ind.req = Nobody
  BY DEF LibraryTypeOK, Ind, Message
<1>c. /\ UNCHANGED <<open, inbox, removals, asker>>
      /\ accepted' = accepted \/ accepted' = [accepted EXCEPT ![a] = Append(@, Ind)]
      /\ accepted' \in [Addr -> Seq(Message)]
  BY <1>a, <1>b, SendTakes
<1>d. /\ clientLock = w /\ clientLock' \in {w, Nobody}
      /\ clientLock' = w => pc'[w] = pc[w] /\ clientLock' = clientLock
      /\ clientLock' = Nobody => pc'[w] = "idle" /\ todo'[w] = {}
      /\ todo'[w] \subseteq todo[w]
      /\ \A t \in Thread : t # w => pc'[t] = pc[t] /\ todo'[t] = todo[t]
      /\ UNCHANGED <<client, txns, txnLock, addr, xport, cur, given>>
  BY <1>a DEF LibraryTypeOK, LocksHeld
<1>e. \A v \in Worker : pc'[v] = "sendResp" => pc[v] = "sendResp"
  BY <1>d
<1>1. LibraryTypeOK'
  <2>1. /\ UNCHANGED <<asker, removals, inbox, client, txns, given, known, txnLock, addr, xport,
                       cur>>
        /\ pc' = pc \/ pc' = [pc EXCEPT ![w] = "idle"]
        /\ todo' = [todo EXCEPT ![w] = @ \ {a}] /\ clientLock' \in {w, Nobody}
    BY <1>a, <1>c, <1>d
  <2> HIDE DEF SendInd
  <2> QED BY <1>c, <2>1 DEF LibraryTypeOK
<1> HIDE DEF SendInd
<1>2. LocksHeld'
  BY <1>d DEF LocksHeld
<1>3. RequestsKnown'
  BY <1>c, <1>d DEF RequestsKnown, Recv
<1>4. ClientLives'
  BY <1>c, <1>d DEF ClientLives, Recv
<1>5. PointersValid'
  BY <1>c, <1>d DEF PointersValid
<1>6. AnsweredAtEnd'
  <2>1. \A r \in Req : Answered(r)' => Answered(r)
    BY <1>b, <1>c, AnsweredNow
  <2>2. AnsweredOnce'
    BY <1>b, <1>c, StillOnce DEF AnsweredAtEnd
  <2>4. /\ \A r \in DOMAIN asker : r \in Req
        /\ pc'[Handler] = pc[Handler] /\ (pc[Handler] \in Recv => cur[Handler] \in Req)
        /\ txns \subseteq Req
    BY <1>d, SMTT(30) DEF LibraryTypeOK, RequestsKnown
  <2>3. InboxFresh'
    <3>1. \A i \in DOMAIN inbox : inbox[i].kind = "request" => inbox[i].req \in Req
      BY <2>4 DEF RequestsKnown
    <3> QED BY <1>c, <1>d, <2>1, <2>4, <3>1 DEF AnsweredAtEnd, InboxFresh, Fresh
  <2>5. \A t \in Worker : pc'[t] = "sendResp" => pc[t] = "sendResp" /\ cur[t] \in Req
    BY <1>e, <2>4 DEF RequestsKnown
  <2>6. \A t \in Worker : pc'[t] = "sendResp" => cur[t] \in given \ txns /\ ~Answered(cur[t])'
    BY <1>d, <2>1, <2>5 DEF AnsweredAtEnd
  <2>7. pc[Handler] \in Recv => Fresh(cur[Handler])'
    BY <1>d, <2>1, <2>4 DEF AnsweredAtEnd, Fresh
  <2>8. \A r \in txns : ~Answered(r)'
    BY <1>d, <2>1, <2>4 DEF AnsweredAtEnd
  <2>9. \A r \in Req : Answered(r)' => r \in DOMAIN asker'
    BY <1>c, <2>1 DEF AnsweredAtEnd
  <2>10. pc[Handler] \in Recv \ {"process", "freeTxn"} => cur[Handler] \notin txns
    BY DEF AnsweredAtEnd
  <2> HIDE DEF ServiceInv
  <2> QED BY <1>d, <2>2, <2>3, <2>4, <2>6, <2>7, <2>8, <2>9, <2>10 DEF AnsweredAtEnd
<1> QED BY <1>1, <1>2, <1>3, <1>4, <1>5, <1>6

LEMMA AskStep ==
  ASSUME ServiceInv, NEW a \in Addr, Ask(a)
  PROVE  ServiceInv'
<1> USE ServiceAssumption DEF ServiceInv, Ask, At, Goto, Listed, Thread, Req,
    wire, lists, locks, queue, service
<1>a. /\ Len(asker) + 1 \in Req /\ Len(asker) + 1 \notin DOMAIN asker
      /\ DOMAIN asker \subseteq DOMAIN asker' /\ Len(asker) + 1 \in DOMAIN asker'
      /\ \A r \in DOMAIN asker : asker'[r] = asker[r]
      /\ asker'[Len(asker) + 1] = a
      /\ asker' \in Seq(Addr) /\ Len(asker') <= MaxReqs
  BY DEF LibraryTypeOK
<1> DEFINE e == [kind |-> "request", from |-> a, req |-> Len(asker) + 1]
<1>b. e \in Event
  BY <1>a DEF Event
<1>c. /\ inbox' \in Seq(Event)
      /\ \A i \in DOMAIN inbox' :
           \/ i \in DOMAIN inbox /\ inbox'[i] = inbox[i]
           \/ i = Len(inbox) + 1 /\ i \notin DOMAIN inbox /\ inbox'[i] = e
  BY <1>b, EventArrives
<1>1. LibraryTypeOK'
  BY <1>a, <1>c DEF LibraryTypeOK
<1>2. LocksHeld'
  BY DEF LibraryTypeOK, LocksHeld, Recv
<1>3. RequestsKnown'
  BY <1>a, <1>c, SMTT(30) DEF LibraryTypeOK, RequestsKnown, Recv
<1>4. ClientLives'
  BY <1>a DEF RequestsKnown, ClientLives
<1>5. PointersValid'
  BY <1>a DEF RequestsKnown, PointersValid
<1>6. AnsweredAtEnd'
  <2>1. \A r : Answered(r)' <=> Answered(r)
    BY DEF Answered
  <2>2. AnsweredOnce'
    <3>1. \A b \in Addr : \A i \in DOMAIN accepted[b] : accepted[b][i] \in Message
      BY DEF LibraryTypeOK
    <3>2. \A b \in Addr : \A i \in DOMAIN accepted[b] :
            accepted[b][i].req \in DOMAIN asker \cup {Nobody}
      BY <3>1 DEF AnsweredAtEnd, Answered, Message
    <3> QED BY <1>a, <3>2 DEF AnsweredOnce, AnsweredAtEnd
  <2>3. /\ Fresh(e.req) /\ e.req \notin txns
        /\ pc[Handler] \in Recv => cur[Handler] # e.req
    BY <1>a DEF AnsweredAtEnd, Fresh, RequestsKnown
  <2>4. \A i \in DOMAIN inbox : inbox[i].kind = "request" => inbox[i].req # e.req
    BY <1>a DEF RequestsKnown
  <2>5. InboxFresh'
    BY <1>c, <2>1, <2>3, <2>4 DEF AnsweredAtEnd, InboxFresh, Fresh
  <2> QED BY <1>a, <2>1, <2>2, <2>5 DEF AnsweredAtEnd, Fresh
<1> QED BY <1>1, <1>2, <1>3, <1>4, <1>5, <1>6

LEMMA DrainStep ==
  ASSUME ServiceInv, NEW a \in Addr, Drain(a)
  PROVE  ServiceInv'
<1> USE ServiceAssumption DEF ServiceInv, Drain, At, Goto, Listed, Thread, Req,
    wire, lists, locks, queue, service
<1> DEFINE e == [kind |-> "resume", from |-> a, req |-> Nobody]
<1>a. /\ inbox' \in Seq(Event)
      /\ \A i \in DOMAIN inbox' :
           \/ i \in DOMAIN inbox /\ inbox'[i] = inbox[i]
           \/ i = Len(inbox) + 1 /\ i \notin DOMAIN inbox /\ inbox'[i] = e
  BY EventArrives DEF Event
<1>1. LibraryTypeOK'
  BY <1>a DEF LibraryTypeOK
<1>2. LocksHeld'
  BY DEF LibraryTypeOK, LocksHeld, Recv
<1>3. RequestsKnown'
  BY <1>a DEF RequestsKnown
<1>4. ClientLives'
  BY DEF LibraryTypeOK, LocksHeld, RequestsKnown, ClientLives, PointersValid, Recv, Serving
<1>5. PointersValid'
  BY DEF LibraryTypeOK, LocksHeld, RequestsKnown, ClientLives, PointersValid, Recv
<1>6. AnsweredAtEnd'
  <2>1. \A r : Answered(r)' <=> Answered(r)
    BY DEF Answered
  <2>2. AnsweredOnce'
    BY DEF AnsweredOnce, AnsweredAtEnd
  <2>3. InboxFresh'
    BY <1>a, <2>1 DEF AnsweredAtEnd, InboxFresh, Fresh
  <2> QED BY <2>1, <2>2, <2>3 DEF AnsweredAtEnd, Fresh
<1> QED BY <1>1, <1>2, <1>3, <1>4, <1>5, <1>6

LEMMA LeaveStep ==
  ASSUME ServiceInv, NEW a \in Addr, Leave(a)
  PROVE  ServiceInv'
<1> USE ServiceAssumption DEF ServiceInv, Leave, At, Goto, Listed, Thread, Req,
    wire, lists, locks, queue, service
<1>1. LibraryTypeOK'
  BY DEF LibraryTypeOK, Recv, Closing
<1>2. LocksHeld'
  BY DEF LibraryTypeOK, LocksHeld, Recv
<1>3. RequestsKnown'
  BY DEF LibraryTypeOK, RequestsKnown, Recv, Serving
<1>4. ClientLives'
  BY DEF LibraryTypeOK, LocksHeld, RequestsKnown, ClientLives, PointersValid, Recv, Serving
<1>5. PointersValid'
  BY DEF LibraryTypeOK, LocksHeld, RequestsKnown, ClientLives, PointersValid, Recv
<1>6. AnsweredAtEnd'
  <2>1. \A r : Answered(r)' <=> Answered(r)
    BY DEF Answered
  <2>2. AnsweredOnce'
    BY DEF AnsweredOnce, AnsweredAtEnd
  <2> QED BY <2>1, <2>2 DEF LibraryTypeOK, LocksHeld, RequestsKnown, AnsweredAtEnd, InboxFresh,
     Fresh, Recv
<1> QED BY <1>1, <1>2, <1>3, <1>4, <1>5, <1>6

\* A step that changes nothing.
LEMMA StutterStep ==
  ASSUME ServiceInv, UNCHANGED svars
  PROVE  ServiceInv'
<1>1. LibraryTypeOK' /\ LocksHeld' /\ RequestsKnown' /\ ClientLives' /\ PointersValid'
  BY DEF svars, wire, lists, locks, queue, service, ServiceInv, LibraryTypeOK, LocksHeld, At,
         RequestsKnown, ClientLives, PointersValid, Listed
<1>2. AnsweredAtEnd'
  BY DEF svars, wire, lists, locks, queue, service, ServiceInv, AnsweredAtEnd, AnsweredOnce,
         InboxFresh, Fresh, Answered, At
<1> QED BY <1>1, <1>2 DEF ServiceInv

LEMMA InitInv ==
  ASSUME QmiServiceInit
  PROVE  ServiceInv
<1> USE ServiceAssumption DEF QmiServiceInit, Thread, Req, At, Listed, Recv, Closing
<1>1. LibraryTypeOK
  BY DEF LibraryTypeOK, Event, Message
<1>2. LocksHeld
  BY DEF LocksHeld
<1>3. RequestsKnown
  BY DEF RequestsKnown
<1>4. ClientLives /\ PointersValid
  BY DEF ClientLives, PointersValid
<1>5. AnsweredAtEnd
  BY DEF AnsweredAtEnd, AnsweredOnce, InboxFresh, Fresh, Answered
<1> QED BY <1>1, <1>2, <1>3, <1>4, <1>5 DEF ServiceInv

\* Every step of the event thread, of a worker and of the world outside keeps
\* the invariant.
LEMMA NextInv ==
  ASSUME ServiceInv, [QmiServiceNext]_svars
  PROVE  ServiceInv'
<1>1. CASE HandlerStep
  BY <1>1, TakeRequestStep, FindClientStep, ConnectCbStep, RefusedStep, AddTxnStep,
     ProcessReqStep, FreeTxnStep, BailStep, HandleResumeStep, ResumeClientStep,
     TakeRemovalStep, DisconnectStep, CleanTxnsStep, CloseSocketsStep, XportClosedStep
     DEF HandlerStep
<1>2. CASE PurgeAll
  BY <1>2, PurgeAllStep
<1>3. ASSUME NEW w \in Worker, FindTxn(w) \/ FindReceivers(w) \/ WorkerStep(w)
      PROVE  ServiceInv'
  BY <1>3, FindTxnStep, FindReceiversStep, SendRespStep, SendIndStep DEF WorkerStep
<1>4. ASSUME NEW a \in Addr, Ask(a) \/ Drain(a) \/ Leave(a)
      PROVE  ServiceInv'
  BY <1>4, AskStep, DrainStep, LeaveStep
<1>5. CASE UNCHANGED svars
  BY <1>5, StutterStep
<1> QED BY <1>1, <1>2, <1>3, <1>4, <1>5 DEF QmiServiceNext

\* ServiceInv is inductive: what each lock protects and who holds it, where a
\* request is and that it was not answered yet.
THEOREM ServiceAlwaysInv == QmiServiceSpec => []ServiceInv
<1>1. QmiServiceInit => ServiceInv
  BY InitInv
<1>2. ServiceInv /\ [QmiServiceNext]_svars => ServiceInv'
  BY NextInv
<1> QED BY <1>1, <1>2, PTL DEF QmiServiceSpec

\* No thread uses a structure that was freed, and no transaction outlives its
\* client, whatever leaves, closes or is answered meanwhile (the comments of
\* qmi_csi_send_resp_internal and qmi_csi_send_broadcast_ind).
THEOREM PointersAlwaysValid == QmiServiceSpec => []PointersValid
<1>1. ServiceInv => PointersValid
  BY DEF ServiceInv
<1> QED BY <1>1, ServiceAlwaysInv, PTL

\* No request is answered twice, by the service or by the library's errors, or
\* to another client than the one that made it.
THEOREM AlwaysAnsweredOnce == QmiServiceSpec => []AnsweredOnce
<1>1. ServiceInv => AnsweredOnce
  BY DEF ServiceInv, AnsweredAtEnd
<1> QED BY <1>1, ServiceAlwaysInv, PTL


-----------------------------------------------------------------------------
(* The transmit queues, as long as none keeps a pointer too long           *)

TxQueue == [at : Addr \cup {Nobody}, bufs : Seq(Message), busy : BOOLEAN]
QueueTypeOK == delivered \in [Addr -> Seq(Message)] /\ txQ \in Seq(TxQueue)

\* One queue per client at most.
Apart ==
  /\ \A i \in DOMAIN txQ : txQ[i].at # Nobody
  /\ \A i, j \in DOMAIN txQ : txQ[i].at = txQ[j].at => i = j

\* The queue of a client that leaves stays purged until its structure is freed.
Parting == pc[Handler] \in {"disconnect", "clean"}
Purged  == Parting => \A i \in DOMAIN txQ : txQ[i].at # addr

\* A port that was removed does not come back.
Ports ==
  /\ open \subseteq Addr /\ stray \in BOOLEAN
  /\ removals \cap open = {} /\ (Parting => addr \notin open)
  /\ xport = "open" <=> pc[Handler] \notin {"closed", "end"}

QueueInv ==
  /\ Ports
  /\ ~stray => QueueTypeOK /\ Apart /\ Purged
  /\ NoDanglingQueue /\ InOrder

OrderAt(a) == delivered[a] \o Queued(a) = accepted[a]

\* The queue of a client is the one that points to it.
LEMMA QueueOf ==
  ASSUME txQ \in Seq(TxQueue), Apart, NEW a \in Addr, NEW i \in DOMAIN txQ, txQ[i].at = a
  PROVE  Queues(a) = {i} /\ First(a) = i /\ Queued(a) = txQ[i].bufs
<1>1. Queues(a) = {i}
  BY DEF Queues, Dest, Apart
<1>2. First(a) = i
  BY <1>1 DEF First
<1> QED BY <1>1, <1>2 DEF Queued

LEMMA NoQueueOf ==
  ASSUME Apart, NEW a \in Addr, \A i \in DOMAIN txQ : txQ[i].at # a
  PROVE  Queues(a) = {} /\ Queued(a) = <<>>
BY DEF Queues, Dest, Apart, Queued

\* The queue of a client stays when its messages do.
LEMMA QueueStays ==
  ASSUME txQ \in Seq(TxQueue), txQ' \in Seq(TxQueue), Apart, Apart', NEW a \in Addr,
         \A i \in DOMAIN txQ : txQ[i].at = a =>
           \E j \in DOMAIN txQ' : txQ'[j].at = a /\ txQ'[j].bufs = txQ[i].bufs,
         \A j \in DOMAIN txQ' : txQ'[j].at = a => \E i \in DOMAIN txQ : txQ[i].at = a
  PROVE  Queued(a)' = Queued(a)
<1>1. ASSUME NEW i \in DOMAIN txQ, txQ[i].at = a
      PROVE  Queued(a)' = Queued(a)
  <2>1. PICK j \in DOMAIN txQ' : txQ'[j].at = a /\ txQ'[j].bufs = txQ[i].bufs
    BY <1>1
  <2>2. Queued(a)' = txQ'[j].bufs
    <3>1. Queues(a)' = {j}
      BY <2>1 DEF Queues, Dest, Apart
    <3>2. First(a)' = j
      BY <3>1 DEF First
    <3> QED BY <2>1, <3>1, <3>2 DEF Queued
  <2>3. Queued(a) = txQ[i].bufs
    BY <1>1, QueueOf
  <2> QED BY <2>1, <2>2, <2>3
<1>2. ASSUME \A i \in DOMAIN txQ : txQ[i].at # a
      PROVE  Queued(a)' = Queued(a)
  <2>1. \A j \in DOMAIN txQ' : txQ'[j].at # a
    BY <1>2
  <2>2. Queued(a)' = <<>>
    BY <2>1 DEF Queues, Dest, Apart, Queued
  <2> QED BY <1>2, <2>2, NoQueueOf
<1> QED BY <1>1, <1>2

\* One queue is rewritten, ...
LEMMA QueueRewritten ==
  ASSUME txQ \in Seq(TxQueue), NEW i \in DOMAIN txQ, NEW q \in TxQueue, q.at = txQ[i].at,
         txQ' = [txQ EXCEPT ![i] = q]
  PROVE  /\ txQ' \in Seq(TxQueue) /\ DOMAIN txQ' = DOMAIN txQ
         /\ \A j \in DOMAIN txQ : txQ'[j].at = txQ[j].at
         /\ Apart => Apart'
         /\ Apart => \A a \in Addr :
              Queued(a)' = IF a = txQ[i].at THEN q.bufs ELSE Queued(a)
<1>1. /\ txQ' \in Seq(TxQueue) /\ DOMAIN txQ' = DOMAIN txQ
      /\ \A j \in DOMAIN txQ : txQ'[j] = IF j = i THEN q ELSE txQ[j]
  BY ExceptSeq
<1>2. \A j \in DOMAIN txQ : txQ'[j].at = txQ[j].at
  BY <1>1
<1>3. Apart => Apart'
  BY <1>1, <1>2 DEF Apart
<1>4. ASSUME Apart, NEW a \in Addr, a = txQ[i].at PROVE Queued(a)' = q.bufs
  <2>1. Queues(a)' = {i}
    BY <1>1, <1>2, <1>3, <1>4 DEF Queues, Dest, Apart
  <2>2. First(a)' = i
    BY <2>1 DEF First
  <2> QED BY <1>1, <2>1, <2>2 DEF Queued
<1>5. ASSUME Apart, NEW a \in Addr, a # txQ[i].at PROVE Queued(a)' = Queued(a)
  BY <1>1, <1>2, <1>3, <1>5, QueueStays
<1> QED BY <1>1, <1>2, <1>3, <1>4, <1>5

\* ... is started, ...
LEMMA QueueStarted ==
  ASSUME txQ \in Seq(TxQueue), NEW q \in TxQueue, q.at \in Addr, Apart,
         Queues(q.at) = {}, txQ' = Append(txQ, q)
  PROVE  /\ txQ' \in Seq(TxQueue) /\ Apart'
         /\ \A j \in DOMAIN txQ' : (j \in DOMAIN txQ /\ txQ'[j] = txQ[j]) \/ txQ'[j] = q
         /\ \A a \in Addr : Queued(a)' = IF a = q.at THEN q.bufs ELSE Queued(a)
<1>1. /\ txQ' \in Seq(TxQueue) /\ DOMAIN txQ' = 1..Len(txQ) + 1 /\ Len(txQ) \in Nat
      /\ DOMAIN txQ = 1..Len(txQ)
      /\ \A j \in 1..Len(txQ) : txQ'[j] = txQ[j]
      /\ txQ'[Len(txQ) + 1] = q
  BY AppendProperties
<1>2. \A j \in DOMAIN txQ : txQ[j].at # q.at
  BY DEF Queues, Dest, Apart
<1>0. q.at # Nobody
  BY ServiceAssumption
<1>3. Apart'
  BY <1>0, <1>1, <1>2 DEF Apart
<1>4. \A j \in DOMAIN txQ' : (j \in DOMAIN txQ /\ txQ'[j] = txQ[j]) \/ txQ'[j] = q
  BY <1>1
<1>5. Queued(q.at)' = q.bufs
  <2> DEFINE n == Len(txQ) + 1
  <2>1. n \in DOMAIN txQ' /\ txQ'[n] = q
    BY <1>1
  <2>2. Queues(q.at)' = {n}
    BY <1>1, <1>2, <1>3, <2>1 DEF Queues, Dest, Apart
  <2>3. First(q.at)' = n
    BY <2>2 DEF First
  <2> QED BY <2>1, <2>2, <2>3 DEF Queued
<1>6. ASSUME NEW a \in Addr, a # q.at PROVE Queued(a)' = Queued(a)
  <2>1. \A i \in DOMAIN txQ : txQ[i].at = a =>
          \E j \in DOMAIN txQ' : txQ'[j].at = a /\ txQ'[j].bufs = txQ[i].bufs
    BY <1>1
  <2>2. \A j \in DOMAIN txQ' : txQ'[j].at = a => \E i \in DOMAIN txQ : txQ[i].at = a
    BY <1>4, <1>6
  <2> QED BY <1>1, <1>3, <2>1, <2>2, QueueStays
<1> QED BY <1>1, <1>3, <1>4, <1>5, <1>6

\* What is left of a sequence without its i-th element.
LEMMA RemovedAt ==
  ASSUME NEW S, NEW s \in Seq(S), NEW i \in DOMAIN s
  PROVE  /\ RemoveAt(s, i) \in Seq(S) /\ Len(RemoveAt(s, i)) = Len(s) - 1
         /\ \A j \in 1..Len(s) - 1 :
              RemoveAt(s, i)[j] = IF j < i THEN s[j] ELSE s[j + 1]
<1> DEFINE before == SubSeq(s, 1, i - 1)
           after  == SubSeq(s, i + 1, Len(s))
<1>1. i \in 1..Len(s) /\ Len(s) \in Nat /\ \A j \in 1..Len(s) : s[j] \in S
  OBVIOUS
<1>2. /\ before \in Seq(S) /\ Len(before) = i - 1
      /\ \A j \in 1..i - 1 : before[j] = s[j]
  BY <1>1, SubSeqProperties
<1>3. /\ after \in Seq(S) /\ Len(after) = Len(s) - i
      /\ \A j \in 1..Len(s) - i : after[j] = s[i + j]
  BY <1>1, SubSeqProperties
<1> HIDE DEF before, after
<1>4. /\ before \o after \in Seq(S) /\ Len(before \o after) = Len(s) - 1
      /\ \A j \in 1..Len(s) - 1 :
           (before \o after)[j] = IF j <= i - 1 THEN before[j] ELSE after[j - (i - 1)]
  <2>1. /\ before \o after \in Seq(S) /\ Len(before \o after) = Len(before) + Len(after)
        /\ \A j \in 1..Len(before) + Len(after) :
             (before \o after)[j] =
               IF j <= Len(before) THEN before[j] ELSE after[j - Len(before)]
    BY <1>2, <1>3, ConcatProperties
  <2>2. Len(before) + Len(after) = Len(s) - 1
    BY <1>1, <1>2, <1>3
  <2> QED BY <1>2, <2>1, <2>2
<1>5. RemoveAt(s, i) = before \o after
  BY DEF RemoveAt, before, after
<1>6. \A j \in 1..Len(s) - 1 :
        (before \o after)[j] = IF j < i THEN s[j] ELSE s[j + 1]
  <2> SUFFICES ASSUME NEW j \in 1..Len(s) - 1
               PROVE  (before \o after)[j] = IF j < i THEN s[j] ELSE s[j + 1]
    OBVIOUS
  <2>1. CASE j < i
    BY <1>1, <1>2, <1>4, <2>1
  <2>2. CASE j >= i
    <3>1. j - (i - 1) \in 1..Len(s) - i /\ i + (j - (i - 1)) = j + 1
      BY <1>1, <2>2
    <3>2. after[j - (i - 1)] = s[j + 1]
      BY <1>3, <3>1
    <3>3. ~(j <= i - 1) /\ ~(j < i)
      BY <1>1, <2>2
    <3>4. (before \o after)[j] = after[j - (i - 1)]
      BY <1>4, <3>3
    <3> QED BY <3>2, <3>3, <3>4
  <2>3. j < i \/ j >= i
    BY <1>1
  <2> QED BY <2>1, <2>2, <2>3
<1> QED BY <1>4, <1>5, <1>6

\* ... or is removed.
LEMMA QueueRemoved ==
  ASSUME txQ \in Seq(TxQueue), NEW i \in DOMAIN txQ, Apart, txQ' = RemoveAt(txQ, i)
  PROVE  /\ txQ' \in Seq(TxQueue) /\ Apart'
         /\ \A j \in DOMAIN txQ' : txQ'[j].at # txQ[i].at
         /\ \A j \in DOMAIN txQ' : \E k \in DOMAIN txQ : txQ'[j] = txQ[k]
         /\ \A a \in Addr : Queued(a)' = IF a = txQ[i].at THEN <<>> ELSE Queued(a)
<1>1. /\ txQ' \in Seq(TxQueue) /\ DOMAIN txQ' = 1..Len(txQ) - 1
      /\ DOMAIN txQ = 1..Len(txQ) /\ Len(txQ) \in Nat
      /\ \A j \in 1..Len(txQ) - 1 : txQ'[j] = IF j < i THEN txQ[j] ELSE txQ[j + 1]
  <2>1. /\ txQ' \in Seq(TxQueue) /\ Len(txQ') = Len(txQ) - 1
        /\ \A j \in 1..Len(txQ) - 1 : txQ'[j] = IF j < i THEN txQ[j] ELSE txQ[j + 1]
    BY RemovedAt
  <2> QED BY <2>1
<1>2. \A j \in DOMAIN txQ' : \E k \in DOMAIN txQ : k # i /\ txQ'[j] = txQ[k]
  BY <1>1
<1>3. \A k \in DOMAIN txQ : k # i => \E j \in DOMAIN txQ' : txQ'[j] = txQ[k]
  <2> SUFFICES ASSUME NEW k \in DOMAIN txQ, k # i
               PROVE  \E j \in DOMAIN txQ' : txQ'[j] = txQ[k]
    OBVIOUS
  <2>1. CASE k < i
    BY <1>1, <2>1
  <2>2. CASE k > i
    <3>1. k - 1 \in DOMAIN txQ' /\ txQ'[k - 1] = txQ[k]
      BY <1>1, <2>2
    <3> QED BY <3>1
  <2> QED BY <1>1, <2>1, <2>2
<1>4. Apart'
  <2>1. \A j \in DOMAIN txQ' : txQ'[j].at # Nobody
    BY <1>2 DEF Apart
  <2>2. ASSUME NEW j \in DOMAIN txQ', NEW k \in DOMAIN txQ', txQ'[j].at = txQ'[k].at
        PROVE  j = k
    <3>1. /\ j \in Int /\ k \in Int /\ i \in Int
          /\ txQ'[j] = txQ[IF j < i THEN j ELSE j + 1]
          /\ (IF j < i THEN j ELSE j + 1) \in DOMAIN txQ
          /\ txQ'[k] = txQ[IF k < i THEN k ELSE k + 1]
          /\ (IF k < i THEN k ELSE k + 1) \in DOMAIN txQ
      BY <1>1
    <3>2. (IF j < i THEN j ELSE j + 1) = (IF k < i THEN k ELSE k + 1)
      BY <2>2, <3>1 DEF Apart
    <3> QED BY <3>1, <3>2
  <2> QED BY <2>1, <2>2 DEF Apart
<1>5. \A j \in DOMAIN txQ' : txQ'[j].at # txQ[i].at
  BY <1>2 DEF Apart
<1>6. ASSUME NEW a \in Addr, a = txQ[i].at PROVE Queued(a)' = <<>>
  BY <1>4, <1>5, <1>6 DEF Queues, Dest, Apart, Queued
<1>7. ASSUME NEW a \in Addr, a # txQ[i].at PROVE Queued(a)' = Queued(a)
  <2>1. \A k \in DOMAIN txQ : txQ[k].at = a =>
          \E j \in DOMAIN txQ' : txQ'[j].at = a /\ txQ'[j].bufs = txQ[k].bufs
    BY <1>3, <1>7
  <2>2. \A j \in DOMAIN txQ' : txQ'[j].at = a => \E k \in DOMAIN txQ : txQ[k].at = a
    BY <1>2
  <2> QED BY <1>1, <1>4, <2>1, <2>2, QueueStays
<1> QED BY <1>1, <1>2, <1>4, <1>5, <1>6, <1>7

-----------------------------------------------------------------------------
(* xport_send keeps what was sent to a client in order                     *)

LEMMA AppendAfter ==
  ASSUME NEW S, NEW s \in Seq(S), NEW t \in Seq(S), NEW m \in S
  PROVE  s \o Append(t, m) = Append(s \o t, m)
<1>1. Append(t, m) = t \o <<m>> /\ <<m>> \in Seq(S)
  BY AppendIsConcat
<1>2. s \o t \in Seq(S)
  BY ConcatProperties
<1>3. Append(s \o t, m) = (s \o t) \o <<m>>
  BY <1>2, AppendIsConcat
<1> QED BY <1>1, <1>3, ConcatAssociative

LEMMA SendInOrder ==
  ASSUME LibraryTypeOK, QueueTypeOK, Apart, NEW a \in Addr, NEW at \in {a, Nobody},
         NEW m \in Message, NEW limited, NEW rc, Send(a, at, m, limited, rc), ~stray, ~stray'
  PROVE  /\ QueueTypeOK' /\ Apart'
         /\ \A j \in DOMAIN txQ' :
              \/ \E k \in DOMAIN txQ : txQ'[j].at = txQ[k].at
              \/ txQ'[j].at = a /\ at = a /\ a \in open
         /\ \A b \in Addr : OrderAt(b) => OrderAt(b)'
<1> USE DEF QueueTypeOK
<1>t. accepted \in [Addr -> Seq(Message)]
  BY DEF LibraryTypeOK
<1>a. accepted' = IF rc = "ok" THEN [accepted EXCEPT ![a] = Append(@, m)] ELSE accepted
  BY DEF Send
<1>1. CASE Enqueue(a, m, limited, rc)
  <2>1. delivered' = delivered
    BY <1>1 DEF Enqueue
  <2>2. PICK i \in DOMAIN txQ : txQ[i].at = a
    BY <1>1 DEF Enqueue, Queues, Dest, Apart
  <2>3. First(a) = i /\ Queued(a) = txQ[i].bufs
    BY <2>2, QueueOf
  <2>4. txQ[i] \in TxQueue
    OBVIOUS
  <2>5. CASE rc = "busy"
    <3>1. txQ' = [txQ EXCEPT ![i].busy = TRUE]
      BY <1>1, <2>3, <2>5 DEF Enqueue
    <3> DEFINE q == [txQ[i] EXCEPT !.busy = TRUE]
    <3>2. q \in TxQueue /\ q.at = txQ[i].at /\ q.bufs = txQ[i].bufs
      BY <2>4 DEF TxQueue
    <3>3. txQ' = [txQ EXCEPT ![i] = q]
      BY <3>1
    <3> HIDE DEF q
    <3>4. /\ txQ' \in Seq(TxQueue) /\ DOMAIN txQ' = DOMAIN txQ /\ Apart'
          /\ \A j \in DOMAIN txQ : txQ'[j].at = txQ[j].at
          /\ \A b \in Addr : Queued(b)' = IF b = txQ[i].at THEN q.bufs ELSE Queued(b)
      BY <3>2, <3>3, QueueRewritten
    <3>5. \A b \in Addr : Queued(b)' = Queued(b)
      BY <2>2, <2>3, <3>2, <3>4
    <3>6. accepted' = accepted
      BY <1>a, <2>5
    <3>7. \A b \in Addr : OrderAt(b) => OrderAt(b)'
      BY <2>1, <3>5, <3>6 DEF OrderAt
    <3> QED BY <2>1, <3>4, <3>7
  <2>6. CASE rc = "ok"
    <3>1. txQ' = [txQ EXCEPT ![i].bufs = Append(@, m)]
      BY <1>1, <2>3, <2>6 DEF Enqueue
    <3> DEFINE q == [txQ[i] EXCEPT !.bufs = Append(@, m)]
    <3>2. q \in TxQueue /\ q.at = txQ[i].at /\ q.bufs = Append(txQ[i].bufs, m)
      <4>1. txQ[i].bufs \in Seq(Message)
        BY <2>4 DEF TxQueue
      <4>2. Append(txQ[i].bufs, m) \in Seq(Message)
        BY <4>1, AppendProperties
      <4> QED BY <2>4, <4>2 DEF TxQueue
    <3>3. txQ' = [txQ EXCEPT ![i] = q]
      BY <3>1
    <3> HIDE DEF q
    <3>4. /\ txQ' \in Seq(TxQueue) /\ DOMAIN txQ' = DOMAIN txQ /\ Apart'
          /\ \A j \in DOMAIN txQ : txQ'[j].at = txQ[j].at
          /\ \A b \in Addr : Queued(b)' = IF b = txQ[i].at THEN q.bufs ELSE Queued(b)
      BY <3>2, <3>3, QueueRewritten
    <3>5. ASSUME NEW b \in Addr, OrderAt(b), b # a PROVE OrderAt(b)'
      BY <1>t, <1>a, <2>1, <2>2, <3>4, <3>5 DEF OrderAt
    <3>6. ASSUME OrderAt(a) PROVE OrderAt(a)'
      <4>1. Queued(a)' = Append(Queued(a), m)
        BY <2>2, <2>3, <3>2, <3>4
      <4>2. Queued(a) \in Seq(Message)
        BY <2>3, <2>4 DEF TxQueue
      <4>3. delivered[a] \o Append(Queued(a), m) = Append(delivered[a] \o Queued(a), m)
        BY <4>2, AppendAfter
      <4>4. accepted'[a] = Append(accepted[a], m)
        BY <1>t, <1>a, <2>6
      <4> QED BY <2>1, <3>6, <4>1, <4>3, <4>4 DEF OrderAt
    <3> QED BY <2>1, <3>4, <3>5, <3>6
  <2> QED BY <1>1, <2>5, <2>6 DEF Enqueue
<1>2. CASE SendNow(a, m, rc)
  <2>1. /\ Queues(a) = {} /\ rc = "ok" /\ txQ' = txQ
        /\ delivered' = [delivered EXCEPT ![a] = Append(@, m)]
    BY <1>2 DEF SendNow, queue
  <2>2. \A j \in DOMAIN txQ : txQ[j].at # a
    BY <2>1 DEF Queues, Dest, Apart
  <2>3. Queued(a) = <<>>
    BY <2>2, NoQueueOf
  <2>4. Apart'
    BY <2>1 DEF Apart
  <2>5. \A b \in Addr : Queued(b)' = Queued(b)
    BY <2>1, <2>4, QueueStays
  <2>6. QueueTypeOK'
    <3>1. Append(delivered[a], m) \in Seq(Message)
      BY AppendProperties
    <3> QED BY <2>1, <3>1
  <2>7. ASSUME NEW b \in Addr, OrderAt(b), b # a PROVE OrderAt(b)'
    BY <1>t, <1>a, <2>1, <2>5, <2>7 DEF OrderAt
  <2>8. ASSUME OrderAt(a) PROVE OrderAt(a)'
    <3>1. delivered[a] = accepted[a]
      BY <2>3, <2>8, ConcatEmptySeq DEF OrderAt
    <3>2. delivered'[a] = Append(delivered[a], m) /\ accepted'[a] = Append(accepted[a], m)
      BY <1>t, <1>a, <2>1
    <3>3. delivered'[a] \o <<>> = delivered'[a]
      BY <2>6, ConcatEmptySeq
    <3> QED BY <2>3, <2>5, <3>1, <3>2, <3>3 DEF OrderAt
  <2> QED BY <2>1, <2>4, <2>6, <2>7, <2>8
<1>3. CASE SendLater(a, at, m, rc)
  <2> DEFINE q == [at |-> at, bufs |-> <<m>>, busy |-> FALSE]
  <2>1. /\ Queues(a) = {} /\ rc = "ok" /\ txQ' = Append(txQ, q) /\ a \in open
        /\ at # Nobody /\ delivered' = delivered
    BY <1>3 DEF SendLater
  <2>2. at = a /\ q \in TxQueue /\ q.at = a /\ q.bufs = <<m>>
    BY <2>1 DEF TxQueue
  <2> HIDE DEF q
  <2>3. \A j \in DOMAIN txQ : txQ[j].at # a
    BY <2>1 DEF Queues, Dest, Apart
  <2>4. Queued(a) = <<>>
    BY <2>3, NoQueueOf
  <2>5. /\ txQ' \in Seq(TxQueue) /\ Apart'
        /\ \A j \in DOMAIN txQ' : (j \in DOMAIN txQ /\ txQ'[j] = txQ[j]) \/ txQ'[j] = q
        /\ \A b \in Addr : Queued(b)' = IF b = q.at THEN q.bufs ELSE Queued(b)
    BY <2>1, <2>2, QueueStarted
  <2>6. ASSUME NEW b \in Addr, OrderAt(b), b # a PROVE OrderAt(b)'
    BY <1>t, <1>a, <2>1, <2>2, <2>5, <2>6 DEF OrderAt
  <2>7. ASSUME OrderAt(a) PROVE OrderAt(a)'
    <3>1. delivered[a] = accepted[a]
      BY <2>4, <2>7, ConcatEmptySeq DEF OrderAt
    <3>2. accepted'[a] = Append(accepted[a], m)
      BY <1>t, <1>a, <2>1
    <3>3. Append(delivered[a], m) = delivered[a] \o <<m>>
      BY AppendIsConcat
    <3> QED BY <2>1, <2>2, <2>5, <3>1, <3>2, <3>3 DEF OrderAt
  <2> QED BY <2>1, <2>2, <2>5, <2>6, <2>7
<1>4. CASE SendFails(a, rc)
  <2>1. rc = "failed" /\ UNCHANGED <<txQ, delivered>>
    BY <1>4 DEF SendFails, queue
  <2>2. Apart'
    BY <2>1 DEF Apart
  <2>3. \A b \in Addr : Queued(b)' = Queued(b)
    BY <2>1, <2>2, QueueStays
  <2>4. accepted' = accepted
    BY <1>a, <2>1
  <2> QED BY <2>1, <2>2, <2>3, <2>4 DEF OrderAt
<1> QED BY <1>1, <1>2, <1>3, <1>4 DEF Send

-----------------------------------------------------------------------------
(* Steps that send nothing                                                 *)

LEMMA QueueQuiet ==
  ASSUME QueueInv, UNCHANGED <<delivered, accepted, txQ>>, stray' \in BOOLEAN,
         stray => stray', open' \subseteq open, removals' \cap open' = {},
         Parting' => Parting /\ addr' = addr,
         xport' = "open" <=> pc'[Handler] \notin {"closed", "end"},
         pc'[Handler] \notin Closing => pc[Handler] \notin Closing,
         ~stray' /\ pc'[Handler] \notin Closing =>
           \A i \in DOMAIN txQ : client'[txQ[i].at] # "none"
  PROVE  QueueInv'
<1>1. Ports'
  BY DEF QueueInv, Ports
<1>2. ~stray' => QueueTypeOK' /\ Apart' /\ Purged'
  BY DEF QueueInv, QueueTypeOK, Apart, Purged
<1>3. NoDanglingQueue'
  BY DEF NoDanglingQueue
<1>4. InOrder'
  <2> SUFFICES ASSUME ~stray', xport' = "open", pc'[Handler] # "purged", NEW a \in open'
               PROVE  delivered'[a] \o Queued(a)' = accepted'[a]
    BY DEF InOrder
  <2>1. xport = "open" /\ pc[Handler] # "purged" /\ ~stray /\ a \in open /\ a \in Addr
    BY DEF Closing, QueueInv, Ports
  <2>2. delivered[a] \o Queued(a) = accepted[a]
    BY <2>1 DEF QueueInv, InOrder
  <2>3. Queued(a)' = Queued(a)
    BY <1>2, <2>1, QueueStays DEF QueueInv, QueueTypeOK
  <2> QED BY <2>2, <2>3
<1> QED BY <1>1, <1>2, <1>3, <1>4 DEF QueueInv

\* A structure that is not freed does not leave a queue behind.
LEMMA QueueLives ==
  ASSUME QueueInv, UNCHANGED <<delivered, accepted, txQ, stray, open, removals>>,
         Parting' => Parting /\ addr' = addr,
         xport' = "open" <=> pc'[Handler] \notin {"closed", "end"},
         pc'[Handler] \notin Closing => pc[Handler] \notin Closing,
         \A a \in Addr : client[a] # "none" => client'[a] # "none"
  PROVE  QueueInv'
<1>1. ASSUME ~stray', pc'[Handler] \notin Closing, NEW i \in DOMAIN txQ
      PROVE  client'[txQ[i].at] # "none"
  <2>1. /\ ~stray /\ pc[Handler] \notin Closing
        /\ txQ \in Seq(TxQueue) /\ txQ[i].at # Nobody
    BY <1>1 DEF QueueInv, QueueTypeOK, Apart
  <2>2. txQ[i].at \in Addr
    <3>1. txQ[i] \in TxQueue
      BY <1>1, <2>1, ElementOfSeq
    <3> QED BY <2>1, <3>1 DEF TxQueue
  <2>3. client[txQ[i].at] # "none"
    BY <2>1 DEF QueueInv, NoDanglingQueue
  <2> QED BY <2>2, <2>3
<1> QED BY <1>1, QueueQuiet DEF QueueInv, Ports

LEMMA QueueByHandler ==
  ASSUME ServiceInv, QueueInv,
         \/ TakeRequest \/ FindClient \/ ConnectCb \/ AddTxn \/ ProcessReq \/ FreeTxn
         \/ ResumeClient \/ Disconnect \/ CloseSockets
  PROVE  QueueInv'
<1> USE DEF At, Goto
<1>t. pc \in [Thread -> {"idle", "sendResp", "sendInd", "sendAll"} \cup Recv \cup Closing
                         \cup {"select", "resume", "disconnect", "clean"}]
      /\ Handler \in Thread /\ client \in [Addr -> {"none", "listed", "leaving"}]
  BY DEF ServiceInv, LibraryTypeOK, Thread
<1>p. xport = "open" <=> pc[Handler] \notin {"closed", "end"}
  BY DEF QueueInv, Ports
<1>1. UNCHANGED <<delivered, accepted, txQ, stray, open, removals>>
  BY DEF TakeRequest, FindClient, ConnectCb, AddTxn, ProcessReq, FreeTxn, ResumeClient,
     Disconnect, CloseSockets, wire, queue
<1>2. \A a \in Addr : client[a] # "none" => client'[a] # "none"
  BY <1>t DEF TakeRequest, FindClient, ConnectCb, AddTxn, ProcessReq, FreeTxn, ResumeClient,
     Disconnect, CloseSockets, lists
<1>3. /\ Parting' => Parting /\ addr' = addr
      /\ xport' = "open" <=> pc'[Handler] \notin {"closed", "end"}
      /\ pc'[Handler] \notin Closing => pc[Handler] \notin Closing
  BY <1>t, <1>p DEF TakeRequest, FindClient, ConnectCb, AddTxn, ProcessReq, FreeTxn, ResumeClient,
     Disconnect, CloseSockets, Parting, Closing
<1> QED BY <1>1, <1>2, <1>3, QueueLives

LEMMA QueueByOthers ==
  ASSUME ServiceInv, QueueInv,
         \/ \E w \in Worker : FindTxn(w) \/ FindReceivers(w)
         \/ \E a \in Addr : Ask(a) \/ Drain(a) \/ Leave(a)
         \/ UNCHANGED svars
  PROVE  QueueInv'
<1> USE DEF At, Goto
<1>t. pc \in [Thread -> {"idle", "sendResp", "sendInd", "sendAll"} \cup Recv \cup Closing
                         \cup {"select", "resume", "disconnect", "clean"}]
      /\ Handler \in Thread /\ Handler \notin Worker
  BY ServiceAssumption DEF ServiceInv, LibraryTypeOK, Thread
<1>p. xport = "open" <=> pc[Handler] \notin {"closed", "end"}
  BY DEF QueueInv, Ports
<1>1. UNCHANGED <<delivered, accepted, txQ, stray, client, addr, xport>>
      /\ pc'[Handler] = pc[Handler]
  BY <1>t DEF FindTxn, FindReceivers, Ask, Drain, Leave, wire, lists, queue, svars
<1>2. open' \subseteq open /\ removals' \cap open' = {}
  <2>1. removals \cap open = {}
    BY DEF QueueInv, Ports
  <2> QED BY <2>1 DEF FindTxn, FindReceivers, Ask, Drain, Leave, wire, svars
<1>3. ~stray' /\ pc'[Handler] \notin Closing =>
        \A i \in DOMAIN txQ : client'[txQ[i].at] # "none"
  BY <1>1 DEF QueueInv, NoDanglingQueue
<1> QED BY <1>1, <1>2, <1>3, <1>p, QueueQuiet DEF QueueInv, Ports, Parting

\* A structure is freed: the queues that would point to it make stray true, or
\* there is none, or the transport is not used any more.
LEMMA QueueByFreeing ==
  ASSUME ServiceInv, QueueInv, Refused \/ CleanTxns \/ XportClosed
  PROVE  QueueInv'
<1> USE DEF At, Goto
<1>t. pc \in [Thread -> {"idle", "sendResp", "sendInd", "sendAll"} \cup Recv \cup Closing
                         \cup {"select", "resume", "disconnect", "clean"}]
      /\ Handler \in Thread /\ client \in [Addr -> {"none", "listed", "leaving"}]
  BY DEF ServiceInv, LibraryTypeOK, Thread
<1>p. (xport = "open" <=> pc[Handler] \notin {"closed", "end"}) /\ stray \in BOOLEAN
      /\ removals \cap open = {}
  BY DEF QueueInv, Ports
<1>1. UNCHANGED <<delivered, accepted, txQ, open, removals>>
  BY DEF Refused, CleanTxns, XportClosed, wire, queue
<1>2. stray' \in BOOLEAN /\ (stray => stray')
  BY <1>p DEF Refused, CleanTxns, XportClosed, queue
<1>3. /\ Parting' => Parting /\ addr' = addr
      /\ xport' = "open" <=> pc'[Handler] \notin {"closed", "end"}
      /\ pc'[Handler] \notin Closing => pc[Handler] \notin Closing
  BY <1>t, <1>p DEF Refused, CleanTxns, XportClosed, Parting, Closing
<1>4. ASSUME ~stray', pc'[Handler] \notin Closing, NEW i \in DOMAIN txQ
      PROVE  client'[txQ[i].at] # "none"
  <2>s. ~stray /\ pc[Handler] \notin Closing
    BY <1>2, <1>3, <1>4
  <2>q. txQ \in Seq(TxQueue) /\ txQ[i].at # Nobody
    BY <1>1, <1>4, <2>s DEF QueueInv, QueueTypeOK, Apart
  <2>1. txQ[i].at \in Addr /\ client[txQ[i].at] # "none"
    <3>1. txQ[i].at \in Addr
      <4>1. txQ[i] \in TxQueue
        BY <1>4, <2>q, ElementOfSeq
      <4> QED BY <2>q, <4>1 DEF TxQueue
    <3>2. client[txQ[i].at] # "none"
      BY <1>4, <2>s DEF QueueInv, NoDanglingQueue
    <3> QED BY <3>1, <3>2
  <2>2. txQ[i].at # addr
    <3>1. CASE Refused
      BY <1>4, <3>1 DEF Refused
    <3>2. CASE CleanTxns
      BY <1>4, <2>s, <3>2 DEF CleanTxns, QueueInv, Purged, Parting
    <3>3. CASE XportClosed
      BY <1>3, <1>4, <3>3 DEF XportClosed, Closing
    <3> QED BY <3>1, <3>2, <3>3
  <2>3. ~XportClosed
    BY <1>3, <1>4 DEF XportClosed, Closing
  <2> QED BY <1>t, <2>1, <2>2, <2>3 DEF Refused, CleanTxns
<1> QED BY <1>1, <1>2, <1>3, <1>4, <1>p, QueueQuiet

-----------------------------------------------------------------------------
(* Steps that send                                                         *)

LEMMA StrayStays ==
  ASSUME stray \in BOOLEAN, NEW a, NEW at, NEW m, NEW limited, NEW rc, Send(a, at, m, limited, rc)
  PROVE  stray' \in BOOLEAN /\ (stray => stray')
BY DEF Send, Enqueue, SendNow, SendLater, SendFails, queue

LEMMA QueueBySending ==
  ASSUME LibraryTypeOK, QueueInv, NEW a \in Addr, NEW at \in {a, Nobody}, NEW m \in Message,
         NEW limited, NEW rc, Send(a, at, m, limited, rc), UNCHANGED <<client, addr, xport>>,
         \/ pc'[Handler] = pc[Handler]
         \/ pc[Handler] = "bail" /\ pc'[Handler] = "select",
         at = a /\ pc[Handler] \notin Closing => client[a] # "none"
  PROVE  QueueInv'
<1>1. UNCHANGED <<open, removals>>
  BY DEF Send
<1>2. stray' \in BOOLEAN /\ (stray => stray')
  BY StrayStays DEF QueueInv, Ports
<1>3. /\ Parting' => Parting
      /\ pc'[Handler] \in Closing <=> pc[Handler] \in Closing
      /\ xport' = "open" <=> pc'[Handler] \notin {"closed", "end"}
      /\ pc'[Handler] = "purged" <=> pc[Handler] = "purged"
  BY DEF QueueInv, Ports, Parting, Closing
<1>4. Ports'
  BY <1>1, <1>2, <1>3 DEF QueueInv, Ports
<1>5. ASSUME ~stray'
      PROVE  /\ QueueTypeOK' /\ Apart' /\ Purged'
             /\ NoDanglingQueue' /\ InOrder'
  <2>1. ~stray /\ QueueTypeOK /\ Apart /\ Purged
    BY <1>2, <1>5 DEF QueueInv
  <2>2. /\ QueueTypeOK' /\ Apart'
        /\ \A j \in DOMAIN txQ' :
             \/ \E k \in DOMAIN txQ : txQ'[j].at = txQ[k].at
             \/ txQ'[j].at = a /\ at = a /\ a \in open
        /\ \A b \in Addr : OrderAt(b) => OrderAt(b)'
    BY <1>5, <2>1, SendInOrder
  <2>3. Purged'
    BY <1>3, <2>1, <2>2 DEF Purged, QueueInv, Ports
  <2>4. NoDanglingQueue'
    <3>1. pc[Handler] \notin Closing => \A k \in DOMAIN txQ : client[txQ[k].at] # "none"
      BY <2>1 DEF QueueInv, NoDanglingQueue
    <3> QED BY <1>3, <2>2, <3>1 DEF NoDanglingQueue
  <2>5. InOrder'
    <3>1. xport = "open" /\ pc[Handler] # "purged" => \A b \in open : OrderAt(b)
      BY <2>1 DEF QueueInv, InOrder, OrderAt
    <3>2. open \subseteq Addr
      BY DEF QueueInv, Ports
    <3> QED BY <1>1, <1>3, <2>2, <3>1, <3>2 DEF InOrder, OrderAt
  <2> QED BY <2>2, <2>3, <2>4, <2>5
<1>6. ASSUME stray' PROVE NoDanglingQueue' /\ InOrder'
  BY <1>6 DEF NoDanglingQueue, InOrder
<1> QED BY <1>2, <1>4, <1>5, <1>6 DEF QueueInv

LEMMA QueueByBail ==
  ASSUME ServiceInv, QueueInv, Bail
  PROVE  QueueInv'
<1>1. /\ addr \in Addr /\ Error(cur[Handler]) \in Message
      /\ pc[Handler] = "bail" /\ pc'[Handler] = "select" /\ UNCHANGED <<client, addr, xport>>
  BY DEF Bail, At, Goto, ServiceInv, LibraryTypeOK, RequestsKnown, Recv, Error, Message, Thread,
     Req, lists
<1>2. PICK rc \in Result : Send(addr, Nobody, Error(cur[Handler]), FALSE, rc)
  BY DEF Bail
<1>3. LibraryTypeOK /\ addr # Nobody
  BY <1>1, ServiceAssumption DEF ServiceInv
<1> QED BY <1>1, <1>2, <1>3, QueueBySending

LEMMA QueueByAnswer ==
  ASSUME ServiceInv, QueueInv, NEW w \in Worker, SendResp(w)
  PROVE  QueueInv'
<1>1. /\ asker[cur[w]] \in Addr /\ Answer(cur[w]) \in Message
      /\ client[asker[cur[w]]] # "none"
      /\ pc'[Handler] = pc[Handler] /\ UNCHANGED <<client, addr, xport>>
  BY ServiceAssumption DEF SendResp, At, Goto, ServiceInv, LibraryTypeOK, RequestsKnown,
     PointersValid, Answer, Message, Thread, Req, lists
<1>2. CASE \E rc \in Result : Send(asker[cur[w]], asker[cur[w]], Answer(cur[w]), FALSE, rc)
  <2>1. PICK rc \in Result : Send(asker[cur[w]], asker[cur[w]], Answer(cur[w]), FALSE, rc)
    BY <1>2
  <2> QED BY <1>1, <2>1, QueueBySending DEF ServiceInv
<1>3. CASE UNCHANGED <<wire, queue, accepted>>
  BY <1>1, <1>3, QueueLives DEF wire, queue, Parting, QueueInv, Ports
<1> QED BY <1>2, <1>3 DEF SendResp

LEMMA QueueByIndication ==
  ASSUME ServiceInv, QueueInv, NEW w \in Worker, SendInd(w)
  PROVE  QueueInv'
<1>1. PICK a \in todo[w], rc \in Result : Send(a, a, Ind, TRUE, rc)
  BY DEF SendInd
<1>2. /\ a \in Addr /\ Ind \in Message /\ client[a] # "none"
      /\ pc'[Handler] = pc[Handler] /\ UNCHANGED <<client, addr, xport>>
  BY ServiceAssumption DEF SendInd, At, Goto, ServiceInv, LibraryTypeOK, PointersValid, Listed,
     Ind, Message, Thread, lists
<1> QED BY <1>1, <1>2, QueueBySending DEF ServiceInv

-----------------------------------------------------------------------------
(* Resume_Tx, REMOVE_CLIENT and the end                                    *)

LEMMA SplitAt ==
  ASSUME NEW S, NEW s \in Seq(S), NEW k \in 0..Len(s)
  PROVE  /\ SubSeq(s, 1, k) \in Seq(S) /\ SubSeq(s, k + 1, Len(s)) \in Seq(S)
         /\ SubSeq(s, 1, k) \o SubSeq(s, k + 1, Len(s)) = s
<1>1. Len(s) \in Nat /\ \A i \in 1..Len(s) : s[i] \in S
  OBVIOUS
<1>2. k \in 1 - 1..Len(s) /\ Len(s) \in k..Len(s) /\ 1 \in 1..Len(s) + 1
  BY <1>1
<1>3. SubSeq(s, 1, k) \o SubSeq(s, k + 1, Len(s)) = SubSeq(s, 1, Len(s))
  BY <1>2, ConcatAdjacentSubSeq
<1>4. SubSeq(s, 1, k) \in Seq(S)
  BY <1>1, SubSeqProperties
<1>5. SubSeq(s, k + 1, Len(s)) \in Seq(S)
  BY <1>1, SubSeqProperties
<1> QED BY <1>3, <1>4, <1>5, SubSeqFull

\* What b was given, what it is given now and what is left are still one sequence.
LEMMA Rejoined ==
  ASSUME NEW d \in Seq(Message), NEW s \in Seq(Message), NEW r \in Seq(Message)
  PROVE  (d \o s) \o r = d \o (s \o r)
BY ConcatAssociative

\* What the queue of b loses, b gets, if it is still there.
LEMMA QueueSent ==
  ASSUME QueueTypeOK, Apart, NEW i \in DOMAIN txQ, NEW b \in Addr, txQ[i].at = b,
         NEW n, n = Len(txQ[i].bufs), NEW k \in 0..n,
         delivered' = IF b \in open
            THEN [delivered EXCEPT ![b] = @ \o SubSeq(txQ[i].bufs, 1, k)]
            ELSE delivered,
         txQ' = IF k = n THEN RemoveAt(txQ, i)
                ELSE [txQ EXCEPT ![i].bufs = SubSeq(@, k + 1, n),
                                 ![i].busy = @ /\ n - k >= QueueSize],
         UNCHANGED accepted
  PROVE  /\ QueueTypeOK' /\ Apart'
         /\ \A j \in DOMAIN txQ' : \E l \in DOMAIN txQ : txQ'[j].at = txQ[l].at
         /\ \A a \in open : a \in Addr /\ OrderAt(a) => OrderAt(a)'
<1> DEFINE bufs == txQ[i].bufs
           sent == SubSeq(bufs, 1, k)
           kept == SubSeq(bufs, k + 1, n)
<1>t. txQ[i] \in TxQueue /\ bufs \in Seq(Message)
  <2>1. txQ[i] \in TxQueue
    BY ElementOfSeq DEF QueueTypeOK
  <2> QED BY <2>1 DEF TxQueue
<1>1. sent \in Seq(Message) /\ kept \in Seq(Message) /\ sent \o kept = bufs
  BY <1>t, SplitAt
<1>2. Queued(b) = bufs
  BY QueueOf DEF QueueTypeOK
<1>3. /\ txQ' \in Seq(TxQueue) /\ Apart'
      /\ \A j \in DOMAIN txQ' : \E l \in DOMAIN txQ : txQ'[j].at = txQ[l].at
      /\ \A a \in Addr : Queued(a)' = IF a = b THEN kept ELSE Queued(a)
  <2>1. CASE k = n
    <3>1. txQ' = RemoveAt(txQ, i) /\ txQ \in Seq(TxQueue)
      BY <2>1 DEF QueueTypeOK
    <3>2. kept = <<>>
      <4>1. n \in Nat
        BY <1>t
      <4>2. k + 1 \in Int /\ n \in Int /\ n < k + 1
        BY <2>1, <4>1
      <4> QED BY <4>2, SubSeqEmpty
    <3> HIDE DEF bufs, sent, kept
    <3>3. /\ txQ' \in Seq(TxQueue) /\ Apart'
          /\ \A j \in DOMAIN txQ' : \E l \in DOMAIN txQ : txQ'[j] = txQ[l]
          /\ \A a \in Addr : Queued(a)' = IF a = txQ[i].at THEN <<>> ELSE Queued(a)
      BY <3>1, QueueRemoved
    <3>4. \A j \in DOMAIN txQ' : \E l \in DOMAIN txQ : txQ'[j].at = txQ[l].at
      <4> TAKE j \in DOMAIN txQ'
      <4>1. PICK l \in DOMAIN txQ : txQ'[j] = txQ[l]
        BY <3>3, Zenon
      <4> WITNESS l \in DOMAIN txQ
      <4> QED BY <4>1
    <3>5. \A a \in Addr : Queued(a)' = IF a = b THEN kept ELSE Queued(a)
      BY <3>2, <3>3
    <3> QED BY <3>3, <3>4, <3>5
  <2>2. CASE k # n
    <3> DEFINE q == [txQ[i] EXCEPT !.bufs = kept, !.busy = @ /\ n - k >= QueueSize]
    <3>1. q \in TxQueue /\ q.at = txQ[i].at /\ q.bufs = kept
      <4> HIDE DEF bufs, kept
      <4>1. (txQ[i].busy /\ n - k >= QueueSize) \in BOOLEAN
        OBVIOUS
      <4> QED BY <1>t, <1>1, <4>1 DEF TxQueue
    <3>2. txQ' = [txQ EXCEPT ![i] = q]
      BY <2>2
    <3> HIDE DEF q, bufs, sent, kept
    <3>3. /\ txQ' \in Seq(TxQueue) /\ DOMAIN txQ' = DOMAIN txQ /\ Apart'
          /\ \A j \in DOMAIN txQ : txQ'[j].at = txQ[j].at
          /\ \A a \in Addr : Queued(a)' = IF a = txQ[i].at THEN q.bufs ELSE Queued(a)
      BY <3>1, <3>2, QueueRewritten DEF QueueTypeOK
    <3> QED BY <3>1, <3>3
  <2> QED BY <2>1, <2>2
<1>d. delivered' = IF b \in open THEN [delivered EXCEPT ![b] = @ \o sent] ELSE delivered
  OBVIOUS
<1> HIDE DEF bufs, sent, kept
<1>4. delivered' \in [Addr -> Seq(Message)]
  <2>1. delivered \in [Addr -> Seq(Message)] /\ delivered[b] \o sent \in Seq(Message)
    BY <1>1, ConcatProperties DEF QueueTypeOK
  <2> QED BY <1>d, <2>1
<1>5. ASSUME NEW a \in Addr, a \in open, OrderAt(a) PROVE OrderAt(a)'
  <2>1. CASE a = b
    <3>1. delivered'[b] = delivered[b] \o sent
      BY <1>d, <1>5, <2>1 DEF QueueTypeOK
    <3>2. (delivered[b] \o sent) \o kept = delivered[b] \o bufs
      <4>1. delivered[b] \in Seq(Message)
        BY DEF QueueTypeOK
      <4> QED BY <1>1, <4>1, Rejoined
    <3>3. delivered[b] \o bufs = accepted[b]
      BY <1>2, <1>5, <2>1 DEF OrderAt
    <3> QED BY <1>3, <2>1, <3>1, <3>2, <3>3 DEF OrderAt
  <2>2. CASE a # b
    BY <1>d, <1>3, <1>5, <2>2 DEF OrderAt, QueueTypeOK
  <2> QED BY <2>1, <2>2
<1> QED BY <1>3, <1>4, <1>5 DEF QueueTypeOK

LEMMA QueueByResume ==
  ASSUME ServiceInv, QueueInv, HandleResume
  PROVE  QueueInv'
<1> DEFINE b == Head(inbox).from
           Q == {i \in DOMAIN txQ : txQ[i].at \in {Nobody, b}}
           i == CHOOSE j \in Q : \A l \in Q : j <= l
           n == Len(txQ[i].bufs)
<1>t. pc \in [Thread -> {"idle", "sendResp", "sendInd", "sendAll"} \cup Recv \cup Closing
                         \cup {"select", "resume", "disconnect", "clean"}]
      /\ Handler \in Thread
  BY DEF ServiceInv, LibraryTypeOK, Thread
<1>a. /\ pc[Handler] = "select" /\ inbox # <<>> /\ addr' = b
      /\ UNCHANGED <<open, removals, stray, client, xport, accepted>>
  BY ZenonT(30) DEF HandleResume, At, lists
<1>b. pc' = pc \/ \E l \in {"resume", "select"} : pc' = [pc EXCEPT ![Handler] = l]
  BY ZenonT(30) DEF HandleResume, Goto
<1>3. \/ UNCHANGED <<delivered, txQ>>
      \/ /\ Q # {}
         /\ \E k \in 0..n :
              /\ delivered' = IF b \in open
                   THEN [delivered EXCEPT ![b] = @ \o SubSeq(txQ[i].bufs, 1, k)]
                   ELSE delivered
              /\ txQ' = IF k = n THEN RemoveAt(txQ, i)
                        ELSE [txQ EXCEPT ![i].bufs = SubSeq(@, k + 1, n),
                                         ![i].busy = @ /\ n - k >= QueueSize]
  BY ZenonT(30) DEF HandleResume
<1> HIDE DEF Q, i, n
<1>1. /\ b \in Addr /\ addr' = b
      /\ pc[Handler] = "select"
      /\ UNCHANGED <<open, removals, stray, client, xport, accepted>>
  <2>1. inbox \in Seq(Event) /\ inbox # <<>>
    BY <1>a DEF ServiceInv, LibraryTypeOK
  <2>2. Head(inbox) \in Event
    BY <2>1, EventTaken
  <2> QED BY <1>a, <2>2 DEF Event
<1> HIDE DEF b
<1>2. pc'[Handler] \in {"select", "resume"}
  BY <1>a, <1>b, <1>t
<1>p. Parting' = FALSE /\ pc[Handler] \notin Closing /\ pc'[Handler] \notin Closing
      /\ pc[Handler] # "purged" /\ xport = "open"
  BY <1>1, <1>2 DEF Parting, Closing, QueueInv, Ports
<1>4. CASE UNCHANGED <<delivered, txQ>>
  <2>1. \A j \in DOMAIN txQ : ~stray => client[txQ[j].at] # "none"
    BY <1>p DEF QueueInv, NoDanglingQueue
  <2> QED BY <1>1, <1>4, <1>p, <2>1, QueueQuiet DEF QueueInv, Ports, Closing
<1>5. CASE /\ Q # {} /\ ~stray
           /\ \E k \in 0..n :
                /\ delivered' = IF b \in open
                     THEN [delivered EXCEPT ![b] = @ \o SubSeq(txQ[i].bufs, 1, k)]
                     ELSE delivered
                /\ txQ' = IF k = n THEN RemoveAt(txQ, i)
                          ELSE [txQ EXCEPT ![i].bufs = SubSeq(@, k + 1, n),
                                           ![i].busy = @ /\ n - k >= QueueSize]
  <2>1. QueueTypeOK /\ Apart
    BY <1>5 DEF QueueInv
  <2>2. i \in DOMAIN txQ /\ txQ[i].at = b
    <3>1. PICK j \in DOMAIN txQ : txQ[j].at = b
      BY <1>5, <2>1 DEF Apart, Q
    <3>2. Q = {j}
      BY <2>1, <3>1 DEF Apart, Q
    <3>3. j <= j
      BY <2>1 DEF QueueTypeOK
    <3>4. i = CHOOSE k \in {j} : \A l \in {j} : k <= l
      BY <3>2 DEF i
    <3>5. i = j
      BY <3>3, <3>4
    <3> QED BY <3>1, <3>5
  <2>3. /\ QueueTypeOK' /\ Apart'
        /\ \A j \in DOMAIN txQ' : \E l \in DOMAIN txQ : txQ'[j].at = txQ[l].at
        /\ \A a \in open : a \in Addr /\ OrderAt(a) => OrderAt(a)'
    <3>1. n = Len(txQ[i].bufs)
      BY DEF n
    <3> QED BY <1>1, <1>5, <2>1, <2>2, <3>1, QueueSent
  <2>4. Ports'
    BY <1>1, <1>p, <1>2 DEF QueueInv, Ports
  <2>5. NoDanglingQueue'
    <3>1. \A l \in DOMAIN txQ : client[txQ[l].at] # "none"
      BY <1>5, <1>p DEF QueueInv, NoDanglingQueue
    <3>2. \A j \in DOMAIN txQ' : client'[txQ'[j].at] # "none"
      BY <1>1, <2>3, <3>1
    <3> QED BY <3>2 DEF NoDanglingQueue
  <2>6. InOrder'
    <3>1. \A a \in open : a \in Addr /\ OrderAt(a)
      BY <1>5, <1>p DEF QueueInv, Ports, InOrder, OrderAt
    <3> QED BY <1>1, <2>3, <3>1 DEF InOrder, OrderAt
  <2> QED BY <1>p, <2>3, <2>4, <2>5, <2>6 DEF QueueInv, Purged
<1>6. CASE stray
  <2> QED BY <1>1, <1>2, <1>p, <1>6 DEF QueueInv, Ports, NoDanglingQueue, InOrder
<1>7. stray \in BOOLEAN
  BY DEF QueueInv, Ports
<1> QED BY <1>3, <1>4, <1>5, <1>6, <1>7

LEMMA QueueByRemoval ==
  ASSUME ServiceInv, QueueInv, TakeRemoval
  PROVE  QueueInv'
<1>1. PICK a \in removals :
        /\ removals' = removals \ {a}
        /\ addr' = a
        /\ LET Q == {i \in DOMAIN txQ : txQ[i].at \in {Nobody, a}}
               i == CHOOSE i \in Q : \A j \in Q : i <= j
           IN txQ' = IF Q = {} THEN txQ ELSE RemoveAt(txQ, i)
  BY DEF TakeRemoval
<1>2. /\ a \in Addr /\ a \notin open
      /\ pc[Handler] = "select" /\ pc'[Handler] = "disconnect"
      /\ UNCHANGED <<open, stray, client, xport, accepted, delivered>>
  BY DEF TakeRemoval, At, Goto, lists, ServiceInv, LibraryTypeOK, Thread, QueueInv, Ports
<1>3. Ports'
  BY <1>1, <1>2 DEF QueueInv, Ports
<1>4. CASE stray
  BY <1>2, <1>3, <1>4 DEF QueueInv, NoDanglingQueue, InOrder
<1>5. CASE ~stray
  <2> DEFINE Q == {i \in DOMAIN txQ : txQ[i].at \in {Nobody, a}}
             i == CHOOSE i \in Q : \A j \in Q : i <= j
  <2>1. QueueTypeOK /\ Apart
    BY <1>5 DEF QueueInv
  <2>2. /\ QueueTypeOK' /\ Apart'
        /\ \A j \in DOMAIN txQ' : txQ'[j].at # a
        /\ \A j \in DOMAIN txQ' : \E l \in DOMAIN txQ : txQ'[j] = txQ[l]
        /\ \A b \in Addr : b # a => Queued(b)' = Queued(b)
    <3>1. CASE Q = {}
      <4>1. txQ' = txQ
        BY <1>1, <3>1
      <4>2. Apart'
        BY <2>1, <4>1 DEF Apart
      <4>3. \A j \in DOMAIN txQ : txQ[j].at # a
        BY <3>1
      <4> HIDE DEF Q
      <4>4. \A b \in Addr : Queued(b)' = Queued(b)
        BY <2>1, <4>1, <4>2, QueueStays DEF QueueTypeOK
      <4> QED BY <1>2, <2>1, <4>1, <4>2, <4>3, <4>4 DEF QueueTypeOK
    <3>2. CASE Q # {}
      <4>1. PICK j \in DOMAIN txQ : txQ[j].at = a
        BY <2>1, <3>2 DEF Apart
      <4>2. Q = {j}
        BY <2>1, <4>1 DEF Apart
      <4>3. j <= j
        BY <2>1 DEF QueueTypeOK
      <4>4. i = j
        BY <4>2, <4>3
      <4>5. txQ' = RemoveAt(txQ, j)
        BY <1>1, <3>2, <4>4
      <4> HIDE DEF Q, i
      <4>6. /\ txQ' \in Seq(TxQueue) /\ Apart'
            /\ \A l \in DOMAIN txQ' : txQ'[l].at # txQ[j].at
            /\ \A l \in DOMAIN txQ' : \E k \in DOMAIN txQ : txQ'[l] = txQ[k]
            /\ \A b \in Addr : Queued(b)' = IF b = txQ[j].at THEN <<>> ELSE Queued(b)
        BY <2>1, <4>5, QueueRemoved DEF QueueTypeOK
      <4> QED BY <1>2, <2>1, <4>1, <4>6 DEF QueueTypeOK
    <3> QED BY <3>1, <3>2
  <2> HIDE DEF Q, i
  <2>3. Purged'
    BY <1>1, <2>2 DEF Purged
  <2>4. NoDanglingQueue'
    BY <1>2, <1>5, <2>2 DEF QueueInv, NoDanglingQueue, Closing
  <2>5. InOrder'
    <3>1. \A b \in open : b \in Addr /\ b # a
      BY <1>2 DEF QueueInv, Ports
    <3>2. xport = "open" => \A b \in open : delivered[b] \o Queued(b) = accepted[b]
      BY <1>2, <1>5 DEF QueueInv, InOrder
    <3> QED BY <1>2, <2>2, <3>1, <3>2 DEF InOrder
  <2> QED BY <1>3, <2>2, <2>3, <2>4, <2>5 DEF QueueInv
<1> QED BY <1>4, <1>5, <1>3 DEF QueueInv, Ports

LEMMA QueueByPurgeAll ==
  ASSUME ServiceInv, QueueInv, PurgeAll
  PROVE  QueueInv'
<1>1. /\ pc[Handler] = "select" /\ pc'[Handler] = "purged"
      /\ txQ' = <<>> /\ removals' = {}
      /\ UNCHANGED <<open, stray, xport, delivered>>
  BY DEF PurgeAll, At, Goto, ServiceInv, LibraryTypeOK, Thread
<1>2. Ports' /\ NoDanglingQueue' /\ InOrder'
  BY <1>1 DEF QueueInv, Ports, NoDanglingQueue, InOrder, Parting, Closing
<1>3. ~stray' => QueueTypeOK' /\ Apart' /\ Purged'
  BY <1>1 DEF QueueInv, QueueTypeOK, Apart, Purged, Parting
<1> QED BY <1>2, <1>3 DEF QueueInv

LEMMA QueueInit ==
  ASSUME QmiServiceInit
  PROVE  QueueInv
<1>1. txQ = <<>> /\ stray = FALSE /\ open = Addr /\ removals = {} /\ xport = "open"
      /\ pc[Handler] = "select" /\ delivered = [a \in Addr |-> <<>>] /\ accepted = delivered
  BY DEF QmiServiceInit, Thread
<1>2. Ports
  BY <1>1 DEF Ports, Parting
<1>5. NoDanglingQueue
  BY <1>1 DEF NoDanglingQueue
<1>3. QueueTypeOK /\ Apart /\ Purged
  BY <1>1 DEF QueueTypeOK, Apart, Purged
<1>4. InOrder
  <2>1. \A a \in Addr : Queued(a) = <<>>
    BY <1>1, <1>3, NoQueueOf
  <2>2. <<>> \in Seq(Message) /\ <<>> \o <<>> = <<>>
    BY ConcatEmptySeq
  <2> QED BY <1>1, <2>1, <2>2 DEF InOrder
<1> QED BY <1>2, <1>3, <1>4, <1>5 DEF QueueInv

LEMMA QueueNext ==
  ASSUME ServiceInv, QueueInv, [QmiServiceNext]_svars
  PROVE  QueueInv'
<1>1. CASE HandlerStep
  BY <1>1, QueueByHandler, QueueByFreeing, QueueByBail, QueueByResume, QueueByRemoval
     DEF HandlerStep
<1>2. CASE PurgeAll
  BY <1>2, QueueByPurgeAll
<1>3. ASSUME NEW w \in Worker, FindTxn(w) \/ FindReceivers(w) \/ WorkerStep(w)
      PROVE  QueueInv'
  BY <1>3, QueueByOthers, QueueByAnswer, QueueByIndication DEF WorkerStep
<1>4. ASSUME NEW a \in Addr, Ask(a) \/ Drain(a) \/ Leave(a)
      PROVE  QueueInv'
  BY <1>4, QueueByOthers
<1>5. CASE UNCHANGED svars
  BY <1>5, QueueByOthers
<1> QED BY <1>1, <1>2, <1>3, <1>4, <1>5 DEF QmiServiceNext

\* QueueInv, with ServiceInv, is inductive: as long as no queue kept a pointer
\* too long there is one queue per client, it is gone before the structure it
\* points to is freed, and a port that was removed is not sent to again.
THEOREM QueueAlwaysInv == QmiServiceSpec => [](ServiceInv /\ QueueInv)
<1>1. QmiServiceInit => ServiceInv /\ QueueInv
  BY InitInv, QueueInit
<1>2. ServiceInv /\ QueueInv /\ [QmiServiceNext]_svars => (ServiceInv /\ QueueInv)'
  BY NextInv, QueueNext
<1> QED BY <1>1, <1>2, PTL DEF QmiServiceSpec

\* A transmit queue never points into the structure of a client that was freed,
\* in whatever order clients ask, become congested, leave and are answered
\* (handle_remove_client purges the queue before the client is disconnected),
\* unless a queue kept a pointer too long.
THEOREM QueuesNeverDangle == QmiServiceSpec => []NoDanglingQueue
<1>1. QueueInv => NoDanglingQueue
  BY DEF QueueInv
<1> QED BY <1>1, QueueAlwaysInv, PTL

\* What xport_send took for a client is what the client got and what its queue
\* still holds, in the order in which it was taken, with any number of
\* congestions, of Resume_Tx and of threads that send.
THEOREM MessagesInOrder == QmiServiceSpec => []InOrder
<1>1. QueueInv => InOrder
  BY DEF QueueInv
<1> QED BY <1>1, QueueAlwaysInv, PTL

=============================================================================
