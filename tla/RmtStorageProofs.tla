--------------------------- MODULE RmtStorageProofs ---------------------------
(***************************************************************************)
(* Proofs about RmtStorage, for any number of clients, partitions, threads *)
(* and requests: a descriptor names the client it was given out for, and   *)
(* the wake lock of a client follows its transfers.                        *)
(***************************************************************************)
EXTENDS RmtStorage, TLAPS

USE DEF None, Slot

LEMMA StorageInitInv ==
  ASSUME StorageInit
  PROVE  StorageInv
<1> USE StorageAssumption DEF StorageInit
<1>1. StorageTypeOK
  BY DEF StorageTypeOK
<1>2. HandlesApart
  BY DEF HandlesApart
<1>3. ThreadsApart
  BY DEF ThreadsApart, At
<1>4. LockFollows
  BY DEF LockFollows, At
<1> QED BY <1>1, <1>2, <1>3, <1>4 DEF StorageInv

\* Opens change one client that is not in use, the first there is.
LEMMA OpenNewStep ==
  ASSUME StorageInv, NEW p \in Partition, OpenNew(p)
  PROVE  StorageInv'
<1> USE StorageAssumption DEF StorageInv, StorageTypeOK
<1>0. /\ Found(p) = {} /\ nextThread' = nextThread + 1
      /\ UNCHANGED <<xfer, req, name, ending, wakeLocks, op, target, nextReq>>
  BY DEF OpenNew, request
<1>1. PICK i \in Slot :
        /\ IsFirst(i, Unused)
        /\ live' = [live EXCEPT ![i] = TRUE] /\ closing' = [closing EXCEPT ![i] = FALSE]
        /\ fd' = [fd EXCEPT ![i] = p] /\ base' = [base EXCEPT ![i] = FALSE]
        /\ held' = [held EXCEPT ![i] = FALSE]
        /\ thId' = [thId EXCEPT ![i] = nextThread]
        /\ Goto(i, "start")
        /\ early' = early \ {i} /\ broken' = broken \ {i}
  BY DEF OpenNew
<1>2. StorageTypeOK'
  <2>1. i \in Slot /\ nextThread \in Nat /\ nextThread' \in Nat \ {0} /\ p \in Partition
    BY <1>0
  <2>2. /\ live' \in [Slot -> BOOLEAN] /\ closing' \in [Slot -> BOOLEAN]
        /\ base' \in [Slot -> BOOLEAN] /\ held' \in [Slot -> BOOLEAN]
    BY <1>1, <2>1
  <2>3. fd' \in [Slot -> Partition \cup {Nothing}] /\ thId' \in [Slot -> Nat]
    BY <1>1, <2>1
  <2>4. pc' \in [Slot -> {"none", "start", "lock", "transfer", "release", "wait", "woken",
                         "exiting"}]
    BY <1>1, <2>1 DEF Goto
  <2> QED BY <1>0, <2>1, <2>2, <2>3, <2>4
<1>3. HandlesApart'
  <2>1. ~live[i] /\ \A j \in Slot : ~live[j] => i <= j
    BY <1>1 DEF IsFirst, Unused
  <2>2. \A j \in Slot : live[j] => fd[j] # p
    BY <1>0 DEF Found
  <2>3. /\ \A j \in Slot : j # i => live'[j] = live[j] /\ fd'[j] = fd[j]
        /\ fd'[i] = p
    BY <1>1
  <2>4. \A j \in Slot : j < i => live[j]
    BY <2>1
  <2> SUFFICES ASSUME NEW k \in Slot, live'[k]
               PROVE  /\ fd'[k] \in Partition
                      /\ \A j \in Slot : fd'[j] = fd'[k] => k <= j
    BY DEF HandlesApart
  <2>5. CASE k = i
    <3> SUFFICES ASSUME NEW j \in Slot, fd'[j] = p PROVE i <= j
      BY <2>3, <2>5
    <3>1. ~(j < i)
      BY <2>2, <2>3, <2>4
    <3> QED BY <3>1
  <2>6. CASE k # i
    BY <2>2, <2>3, <2>6 DEF HandlesApart
  <2> QED BY <2>5, <2>6
<1>4. ThreadsApart'
  <2>1. /\ \A j \in Slot : j # i => thId'[j] = thId[j] /\ pc'[j] = pc[j] /\ held'[j] = held[j]
        /\ thId'[i] = nextThread /\ pc'[i] = "start"
    BY <1>1 DEF Goto
  <2>2. /\ nextThread \in Nat \ {0} /\ nextThread' = nextThread + 1
        /\ name' = name /\ wakeLocks' = wakeLocks
        /\ \A j \in Slot : name[j] \in Nat /\ thId[j] \in Nat
    BY <1>0
  <2>3. ThreadsApart
    OBVIOUS
  <2> HIDE DEF StorageInv, StorageTypeOK
  <2>4. \A j \in Slot : thId[j] < nextThread /\ name[j] < nextThread
    BY <2>3 DEF ThreadsApart
  <2>5. \A j \in Slot : thId'[j] < nextThread' /\ name'[j] < nextThread'
    BY <2>1, <2>2, <2>4
  <2>6. \A l \in wakeLocks' : l \in Nat /\ l # None /\ l < nextThread'
    BY <2>2, <2>3 DEF ThreadsApart
  <2>7. \A j, k \in Slot : thId'[j] # None /\ j # k =>
          thId'[k] # thId'[j] /\ name'[k] # thId'[j]
    BY <2>1, <2>2, <2>3, <2>4 DEF ThreadsApart
  <2>8. nextThread # None /\ name[i] # nextThread /\ nextThread \notin wakeLocks
    BY <2>2, <2>3, <2>4 DEF ThreadsApart
  <2> QED BY <2>1, <2>2, <2>3, <2>5, <2>6, <2>7, <2>8 DEF ThreadsApart, At
<1>5. LockFollows'
  BY <1>0, <1>1 DEF LockFollows, Goto, At
<1> QED BY <1>2, <1>3, <1>4, <1>5

LEMMA OpenFailsStep ==
  ASSUME StorageInv, NEW p \in Partition, OpenFails(p)
  PROVE  StorageInv'
<1> USE StorageAssumption DEF StorageInv, StorageTypeOK
<1>0. /\ Found(p) = {}
      /\ UNCHANGED <<live, xfer, req, thId, name, held, pc, ending, wakeLocks, op,
                     target, nextThread, nextReq, early, broken>>
  BY DEF OpenFails, request, thread, modem, observe
<1>1. PICK i \in Slot :
        /\ IsFirst(i, Unused)
        /\ closing' = [closing EXCEPT ![i] = FALSE]
        /\ IF p \in Absent
           THEN fd' = [fd EXCEPT ![i] = Nothing] /\ UNCHANGED base
           ELSE fd' = [fd EXCEPT ![i] = p] /\ base' = [base EXCEPT ![i] = FALSE]
  BY DEF OpenFails
<1>2. StorageTypeOK'
  <2>1. fd' \in [Slot -> Partition \cup {Nothing}]
    BY <1>1
  <2>2. closing' \in [Slot -> BOOLEAN] /\ base' \in [Slot -> BOOLEAN]
    BY <1>1
  <2> QED BY <1>0, <2>1, <2>2
<1>3. HandlesApart'
  <2>1. \A j \in Slot : live[j] => j # i /\ fd[j] # p
    BY <1>0, <1>1 DEF Found, IsFirst, Unused
  <2>2. \A j \in Slot : live[j] => fd[j] # Nothing
    BY DEF HandlesApart
  <2>3. /\ \A j \in Slot : j # i => fd'[j] = fd[j]
        /\ fd'[i] \in {p, Nothing}
    BY <1>1
  <2> QED BY <1>0, <2>1, <2>2, <2>3 DEF HandlesApart
<1>4. ThreadsApart'
  BY <1>0 DEF ThreadsApart, At
<1>5. LockFollows'
  <2>1. \A j \in Slot : base'[j] => base[j]
    BY <1>1
  <2> QED BY <1>0, <2>1 DEF LockFollows, At
<1> QED BY <1>2, <1>3, <1>4, <1>5

\* The handler's other steps ...
LEMMA HandlerStepInv ==
  ASSUME StorageInv,
         BeginRw \/ BeginClose \/ AllocBuff \/ Rw \/ Close
  PROVE  StorageInv'
<1> USE StorageAssumption DEF StorageInv, StorageTypeOK
<1>1. CASE BeginRw \/ BeginClose \/ AllocBuff
  <2>1. /\ UNCHANGED <<client, request, thread, wakeLocks, nextThread, modem, observe>>
        /\ op' \in {"idle", "rw", "close"} /\ target' \in Slot
    BY <1>1 DEF BeginRw, BeginClose, Begin, AllocBuff
  <2> QED BY <2>1 DEF HandlesApart, ThreadsApart, LockFollows, At, client, request, thread,
             modem, observe
<1>2. CASE Rw
  <2> DEFINE i == target
  <2> USE <1>2 DEF Rw
  <2>1. /\ xfer' \in [Slot -> BOOLEAN] /\ \A j \in Slot : j # i => xfer'[j] = xfer[j]
        /\ ~EmptyTransfers => xfer'[i]
    OBVIOUS
  <2>2. StorageTypeOK'
    <3>1. (base[i] \/ (mapped /\ fd[i] \in Shared)) \in BOOLEAN
      OBVIOUS
    <3>2. base' \in [Slot -> BOOLEAN]
      BY <3>1
    <3>3. pc' \in [Slot -> {"none", "start", "lock", "transfer", "release", "wait", "woken",
                           "exiting"}]
      BY DEF Signal
    <3>4. xfer' \in [Slot -> BOOLEAN] /\ req' \in [Slot -> Nat] /\ nextReq' \in Nat
      BY <2>1
    <3>5. op' = "idle" /\ UNCHANGED <<live, closing, fd, thId, name, held, ending, target,
                                     nextThread>>
      OBVIOUS
    <3> HIDE <1>2 DEF Rw
    <3> QED BY <3>2, <3>3, <3>4, <3>5
  <2>3. HandlesApart'
    BY DEF HandlesApart
  <2>4. ThreadsApart'
    BY DEF ThreadsApart, Signal, At
  <2>5. \A j \in Slot : j # i /\ pc[j] \in {"lock", "transfer", "wait", "woken"} =>
          (name[j] \in wakeLocks' <=> name[j] \in wakeLocks)
    BY DEF ThreadsApart
  <2>6. ~At(i, "transfer") /\ ~At(i, "release")
    BY DEF ThreadsApart, At
  <2>7. pc[i] \in {"lock", "wait", "woken"} => name[i] \in wakeLocks'
    BY DEF ThreadsApart
  <2>8. LockFollows'
    <3> SUFFICES ASSUME ~EmptyTransfers, NEW j \in Slot \ (early' \cup broken')
                 PROVE  /\ At(j, "start")' => ~base'[j]
                        /\ At(j, "lock")' => (name'[j] \in wakeLocks' => xfer'[j])
                                             /\ (base'[j] => name'[j] \in wakeLocks')
                        /\ pc'[j] \in {"transfer", "wait", "woken"} =>
                             (name'[j] \in wakeLocks' <=> xfer'[j])
                        /\ At(j, "release")' => ~xfer'[j]
      BY DEF LockFollows
    <3>1. j \in Slot \ (early \cup broken)
      BY DEF UsesDestroyed
    <3>2. CASE j = i
      BY <2>1, <2>6, <2>7, <3>2 DEF Signal, At
    <3>3. CASE j # i
      BY <2>1, <2>5, <3>1, <3>3 DEF LockFollows, Signal, At
    <3> QED BY <3>2, <3>3
  <2> QED BY <2>2, <2>3, <2>4, <2>8
<1>3. CASE Close
  <2> USE <1>3 DEF Close
  <2>1. StorageTypeOK'
    BY DEF Signal, request
  <2>2. HandlesApart'
    BY DEF HandlesApart
  <2>3. ThreadsApart'
    BY DEF ThreadsApart, Signal, At
  <2>4. broken \subseteq broken'
    BY DEF UsesDestroyed
  <2>5. LockFollows'
    BY <2>4 DEF LockFollows, Signal, At, request
  <2> QED BY <2>1, <2>2, <2>3, <2>5
<1> QED BY <1>1, <1>2, <1>3

\* ... and those of the thread of a client.
LEMMA WorkerStepInv ==
  ASSUME StorageInv, NEW i \in Slot, WorkerStep(i) \/ WakeUp(i)
  PROVE  StorageInv'
<1> USE DEF StorageInv, StorageTypeOK, Goto, At, client, request, modem, observe
<1>1. CASE MakeName(i)
  <2> USE <1>1 DEF MakeName
  <2>1. StorageTypeOK'
    OBVIOUS
  <2>2. HandlesApart'
    BY DEF HandlesApart
  <2>3. ThreadsApart'
    BY DEF ThreadsApart
  <2>4. LockFollows'
    BY DEF ThreadsApart, LockFollows
  <2> QED BY <2>1, <2>2, <2>3, <2>4
<1>2. CASE Check(i)
  <2> USE <1>2 DEF Check
  <2>1. StorageTypeOK'
    OBVIOUS
  <2>2. HandlesApart'
    BY DEF HandlesApart
  <2>3. ThreadsApart'
    BY DEF ThreadsApart
  <2>4. LockFollows'
    <3>1. \A j \in Slot : j # i => pc'[j] = pc[j]
      OBVIOUS
    <3>2. /\ pc[i] \in {"lock", "woken"} /\ pc'[i] \in {"exiting", "transfer"}
          /\ pc'[i] = "transfer" /\ xfer[i] => base[i]
      OBVIOUS
    <3>3. ~EmptyTransfers /\ i \notin early \cup broken /\ pc'[i] = "transfer" =>
            (name[i] \in wakeLocks <=> xfer[i])
      BY <3>2 DEF LockFollows
    <3>4. UNCHANGED <<early, broken, base, xfer, name, wakeLocks>>
      OBVIOUS
    <3> QED BY <3>1, <3>2, <3>3, <3>4 DEF LockFollows
  <2> QED BY <2>1, <2>2, <2>3, <2>4
<1>3. CASE Transfer(i)
  <2> USE <1>3 DEF Transfer
  <2>1. StorageTypeOK'
    OBVIOUS
  <2>2. HandlesApart'
    BY DEF HandlesApart
  <2>3. ThreadsApart'
    BY DEF ThreadsApart
  <2>4. LockFollows'
    <3>1. /\ \A j \in Slot : j # i => pc'[j] = pc[j] /\ xfer'[j] = xfer[j]
          /\ UNCHANGED <<early, broken, base, name, wakeLocks>>
      OBVIOUS
    <3>2. ~EmptyTransfers /\ i \notin early \cup broken =>
            (name[i] \in wakeLocks <=> xfer[i])
      BY DEF LockFollows
    <3>3. CASE xfer[i]
      <4>1. pc'[i] = "release" /\ ~xfer'[i]
        BY <3>3
      <4> QED BY <3>1, <4>1 DEF LockFollows
    <3>4. CASE ~xfer[i]
      <4>1. pc'[i] = "wait" /\ ~xfer'[i]
        BY <3>4
      <4> QED BY <3>1, <3>2, <3>4, <4>1 DEF LockFollows
    <3> QED BY <3>3, <3>4
  <2> QED BY <2>1, <2>2, <2>3, <2>4
<1>4. CASE Release(i)
  <2> USE <1>4 DEF Release
  <2>1. StorageTypeOK'
    OBVIOUS
  <2>2. HandlesApart'
    BY DEF HandlesApart
  <2>3. ThreadsApart'
    BY DEF ThreadsApart
  <2>4. LockFollows'
    BY DEF ThreadsApart, LockFollows
  <2> QED BY <2>1, <2>2, <2>3, <2>4
<1>5. CASE WakeUp(i)
  <2> USE <1>5 DEF WakeUp
  <2>1. StorageTypeOK'
    OBVIOUS
  <2>2. HandlesApart'
    BY DEF HandlesApart
  <2>3. ThreadsApart'
    BY DEF ThreadsApart
  <2>4. LockFollows'
    BY DEF ThreadsApart, LockFollows
  <2> QED BY <2>1, <2>2, <2>3, <2>4
<1>6. CASE Free(i)
  <2> USE <1>6 DEF Free
  <2>1. StorageTypeOK'
    OBVIOUS
  <2>2. HandlesApart'
    BY DEF HandlesApart
  <2>3. ThreadsApart'
    BY DEF ThreadsApart
  <2>4. LockFollows'
    BY DEF ThreadsApart, LockFollows
  <2> QED BY <2>1, <2>2, <2>3, <2>4
<1>7. CASE Destroy(i)
  <2> USE <1>7 DEF Destroy
  <2>1. StorageTypeOK'
    OBVIOUS
  <2>2. HandlesApart'
    BY DEF HandlesApart
  <2>3. ThreadsApart'
    BY DEF ThreadsApart
  <2>4. LockFollows'
    BY DEF ThreadsApart, LockFollows
  <2> QED BY <2>1, <2>2, <2>3, <2>4
<1> QED BY <1>1, <1>2, <1>3, <1>4, <1>5, <1>6, <1>7 DEF WorkerStep

\* The inductive invariant of the storage server: handles and threads are told
\* apart and, when every transfer that is asked for has sectors, wake locks
\* follow transfers.
THEOREM StorageAlwaysInv == StorageSpec => []StorageInv
<1>1. StorageInit => StorageInv
  BY StorageInitInv
<1>2. StorageInv /\ [StorageNext]_rvars => StorageInv'
  <2> SUFFICES ASSUME StorageInv, [StorageNext]_rvars PROVE StorageInv'
    OBVIOUS
  <2>1. CASE \E p \in Partition : OpenNew(p) \/ OpenFails(p)
    BY <2>1, OpenNewStep, OpenFailsStep
  <2>2. CASE BeginRw \/ BeginClose \/ AllocBuff \/ HandlerStep
    BY <2>2, HandlerStepInv DEF HandlerStep
  <2>3. CASE \E i \in Slot : WorkerStep(i) \/ WakeUp(i)
    BY <2>3, WorkerStepInv
  <2>4. CASE UNCHANGED rvars
    BY <2>4 DEF rvars, StorageInv, StorageTypeOK, HandlesApart, ThreadsApart,
       LockFollows, At, client, request, thread, modem, observe
  <2> QED BY <2>1, <2>2, <2>3, <2>4 DEF StorageNext
<1> QED BY <1>1, <1>2, PTL DEF StorageSpec

\* rmt_storage_get_client finds the client a descriptor was given out for,
\* although it does not look whether the first that has it is in use.
THEOREM HandleNamesItsClient == StorageSpec => []CallerIdUnique
<1>1. StorageInv => CallerIdUnique
  BY DEF StorageInv, HandlesApart, CallerIdUnique
<1> QED BY <1>1, StorageAlwaysInv, PTL

\* A thread that waits or transfers has the wake lock if and only if there is
\* something to transfer.
THEOREM WakeLockFollowsTransfer ==
  ASSUME EmptyTransfers = FALSE
  PROVE  StorageSpec => []WakeLockMatches
<1>1. StorageInv => WakeLockMatches
  BY DEF StorageInv, LockFollows, WakeLockMatches, At
<1> QED BY <1>1, StorageAlwaysInv, PTL
=============================================================================
