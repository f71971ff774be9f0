------------------------------ MODULE RmtStorage ------------------------------
(***************************************************************************)
(* The storage server of the modem's file system (remotefs): the thread    *)
(* that handles the modem's requests, the table of open partitions, and    *)
(* the thread of each that transfers sectors between the partition and     *)
(* shared memory and answers, with the phone kept awake by a wake lock.    *)
(*                                                                         *)
(* A descriptor is known by its partition: part_lookup_table has one for   *)
(* each, opened at the start.  Requests that find no open partition are    *)
(* answered with an error and change nothing.  What a transfer returns is  *)
(* left out.                                                               *)
(***************************************************************************)
EXTENDS Integers, FiniteSets

CONSTANTS
  Partition,       \* paths the modem asks for
  Absent,          \* those whose descriptor is negative
  Shared,          \* those that use the shared memory: /boot/modem_*
  Fs1,             \* /boot/modem_fs1, whose client has the memory mapped
  MaxClients,      \* MAX_NUM_CLIENTS
  Nothing,         \* no partition: a descriptor of zero or less
  EmptyTransfers,  \* the modem may ask for a transfer of nothing
  MaxThreads,      \* bound: threads the server creates
  MaxReqs          \* bound: transfers the modem asks for

ASSUME StorageAssumption ==
  /\ Absent \subseteq Partition /\ Shared \subseteq Partition /\ Nothing \notin Partition
  /\ MaxClients \in Nat \ {0} /\ MaxThreads \in Nat /\ MaxReqs \in Nat
  /\ EmptyTransfers \in BOOLEAN

Slot == 1..MaxClients
None == 0     \* no thread, and the name of no wake lock

VARIABLES
  live,        \* check_word is RMT_STORAGE_CHECK_WORD
  closing,     \* close
  fd,          \* fd, known by its partition
  base,        \* shrd_mem.base is not NULL
  xfer,        \* xfer_cnt is not zero
  req,         \* req_handle
  thId,        \* th_id
  name,        \* wakelock_name, by the thread it was made from
  held,        \* th_mutex is held by the thread of the client
  pc,          \* where the thread of the client is
  ending,      \* threads that cleared check_word and will destroy the mutex
  mapped,      \* rmt_shrd_mem_base is not NULL: mapped, or MAP_FAILED
  wakeLocks,   \* wake locks the kernel has
  op,          \* the request being handled: "idle", "rw" or "close"
  target,      \* the client it works on
  nextThread,
  nextReq,
  answered,    \* transfers that got a response
  early,       \* clients with a request from before the thread made its name
  broken       \* clients whose mutex was destroyed and used

client  == <<live, closing, fd, base>>
request == <<xfer, req>>
thread  == <<thId, name, held, pc, ending>>
modem   == <<answered, nextReq>>
observe == <<early, broken>>
rvars   == <<client, request, thread, mapped, wakeLocks, op, target, nextThread, modem,
             observe>>

Goto(i, l) == pc' = [pc EXCEPT ![i] = l]
At(i, l)   == pc[i] = l

-----------------------------------------------------------------------------
(* rmt_storage_open_cb *)

\* A partition that is open is not opened again: its client answers for it, also
\* when it was closed and its thread has not freed it yet.
Found(p) == {i \in Slot : live[i] /\ fd[i] = p}
Unused   == {i \in Slot : ~live[i]}
IsFirst(i, S) == i \in S /\ \A j \in S : i <= j

\* For the mutants: an open partition is not looked for.
OpenNew_Twice(p) ==
  /\ op = "idle" /\ p \notin Absent
  /\ nextThread <= MaxThreads /\ nextThread' = nextThread + 1
  /\ \E i \in Slot :
       /\ IsFirst(i, Unused)
       /\ live' = [live EXCEPT ![i] = TRUE] /\ closing' = [closing EXCEPT ![i] = FALSE]
       /\ fd' = [fd EXCEPT ![i] = p] /\ base' = [base EXCEPT ![i] = FALSE]
       /\ held' = [held EXCEPT ![i] = FALSE]
       /\ thId' = [thId EXCEPT ![i] = nextThread]
       /\ Goto(i, "start")
       /\ early' = early \ {i} /\ broken' = broken \ {i}
  /\ UNCHANGED <<request, name, ending, mapped, wakeLocks, op, target, answered, nextReq>>

\* rmt_storage_init_client: the first client that is not in use.  What is left
\* in it of an earlier transfer stays.
OpenNew(p) ==
  /\ op = "idle" /\ Found(p) = {} /\ p \notin Absent
  /\ nextThread <= MaxThreads /\ nextThread' = nextThread + 1
  /\ \E i \in Slot :
       /\ IsFirst(i, Unused)
       /\ live' = [live EXCEPT ![i] = TRUE] /\ closing' = [closing EXCEPT ![i] = FALSE]
       /\ fd' = [fd EXCEPT ![i] = p] /\ base' = [base EXCEPT ![i] = FALSE]
       /\ held' = [held EXCEPT ![i] = FALSE]
       /\ thId' = [thId EXCEPT ![i] = nextThread]
       /\ Goto(i, "start")
       /\ early' = early \ {i} /\ broken' = broken \ {i}
  /\ UNCHANGED <<request, name, ending, mapped, wakeLocks, op, target, answered, nextReq>>

\* There is no such partition, or no thread: the client is freed again, and its
\* descriptor stays in it.
OpenFails(p) ==
  /\ op = "idle" /\ Found(p) = {}
  /\ \E i \in Slot :
       /\ IsFirst(i, Unused)
       /\ closing' = [closing EXCEPT ![i] = FALSE]
       /\ IF p \in Absent
          THEN fd' = [fd EXCEPT ![i] = Nothing] /\ UNCHANGED base
          ELSE fd' = [fd EXCEPT ![i] = p] /\ base' = [base EXCEPT ![i] = FALSE]
  /\ UNCHANGED <<live, request, thread, mapped, wakeLocks, op, target, nextThread, modem,
                 observe>>

-----------------------------------------------------------------------------
(* The other requests, which name a client by its descriptor *)

\* rmt_storage_get_client does not look at check_word, its callers do.
GetClient(p, i) == IsFirst(i, {j \in Slot : fd[j] = p}) /\ live[i]

Begin(kind) ==
  /\ op = "idle" /\ op' = kind
  /\ \E p \in Partition, i \in Slot : GetClient(p, i) /\ target' = i
  /\ UNCHANGED <<client, request, thread, mapped, wakeLocks, nextThread, modem, observe>>

BeginRw    == nextReq <= MaxReqs /\ Begin("rw")
BeginClose == Begin("close")

\* pthread_cond_signal: the thread has to get the mutex then.
Signal(i) == pc' = [pc EXCEPT ![i] = IF @ = "wait" THEN "woken" ELSE @]

\* The client was freed since it was looked up.
UsesDestroyed(i) == broken' = IF At(i, "none") /\ ending[i] = 0 THEN broken \cup {i} ELSE broken

\* For the mutants: th_mutex is not waited for.
Rw_Unlocked ==
  LET i == target IN
  /\ op = "rw" /\ op' = "idle"
  /\ base' = [base EXCEPT ![i] = @ \/ (mapped /\ fd[i] \in Shared)]
  /\ xfer' = [xfer EXCEPT ![i] = TRUE]
  /\ req' = [req EXCEPT ![i] = nextReq] /\ nextReq' = nextReq + 1
  /\ wakeLocks' = wakeLocks \cup ({name[i]} \ {None})
  /\ Signal(i)
  /\ early' = IF At(i, "start") THEN early \cup {i} ELSE early
  /\ UsesDestroyed(i)
  /\ UNCHANGED <<live, closing, fd, thId, name, held, ending, mapped, target, nextThread,
                 answered>>

\* rmt_storage_rw_iovec_cb under th_mutex.
Rw ==
  LET i == target IN
  /\ op = "rw" /\ op' = "idle" /\ ~held[i]
  /\ base' = [base EXCEPT ![i] = @ \/ (mapped /\ fd[i] \in Shared)]
  /\ \E some \in {TRUE, ~EmptyTransfers} : xfer' = [xfer EXCEPT ![i] = some]
  /\ req' = [req EXCEPT ![i] = nextReq] /\ nextReq' = nextReq + 1
  /\ wakeLocks' = wakeLocks \cup ({name[i]} \ {None})
  /\ Signal(i)
  /\ early' = IF At(i, "start") THEN early \cup {i} ELSE early
  /\ UsesDestroyed(i)
  /\ UNCHANGED <<live, closing, fd, thId, name, held, ending, mapped, target, nextThread,
                 answered>>

\* rmt_storage_close_cb under th_mutex.
Close ==
  LET i == target IN
  /\ op = "close" /\ op' = "idle" /\ ~held[i]
  /\ closing' = [closing EXCEPT ![i] = TRUE]
  /\ Signal(i)
  /\ UsesDestroyed(i)
  /\ UNCHANGED <<live, fd, base, request, thId, name, held, ending, mapped, wakeLocks,
                 target, nextThread, answered, nextReq, early>>

\* rmt_storage_alloc_buff_cb.  A mapping that failed counts as one.
AllocBuff ==
  /\ op = "idle" /\ \E i \in Slot : GetClient(Fs1, i)
  /\ mapped' = TRUE
  /\ UNCHANGED <<client, request, thread, wakeLocks, op, target, nextThread, modem, observe>>

-----------------------------------------------------------------------------
(* rmt_storage_client_thread *)

MakeName(i) ==
  /\ At(i, "start")
  /\ name' = [name EXCEPT ![i] = thId[i]]
  /\ Goto(i, "lock")
  /\ UNCHANGED <<client, request, thId, held, ending, mapped, wakeLocks, op, target,
                 nextThread, modem, observe>>

\* The head of the loop, with th_mutex from here to the next wait, or to the
\* end of a thread whose client was closed or has no memory to transfer from.
Check(i) ==
  /\ pc[i] \in {"lock", "woken"}
  /\ IF closing[i] \/ (xfer[i] /\ ~base[i])
     THEN Goto(i, "exiting") /\ UNCHANGED held
     ELSE Goto(i, "transfer") /\ held' = [held EXCEPT ![i] = TRUE]
  /\ UNCHANGED <<client, request, thId, name, ending, mapped, wakeLocks, op, target,
                 nextThread, modem, observe>>

\* The transfers, with smem_mutex, and the response.
Transfer(i) ==
  /\ At(i, "transfer")
  /\ IF xfer[i]
     THEN /\ answered' = answered \cup {req[i]}
          /\ xfer' = [xfer EXCEPT ![i] = FALSE]
          /\ Goto(i, "release")
          /\ UNCHANGED held
     ELSE /\ Goto(i, "wait") /\ held' = [held EXCEPT ![i] = FALSE]
          /\ UNCHANGED <<answered, xfer>>
  /\ UNCHANGED <<client, req, thId, name, ending, mapped, wakeLocks, op, target, nextThread,
                 nextReq, observe>>

\* For the mutants: the wake lock is not released.
Release_Kept(i) ==
  /\ At(i, "release")
  /\ held' = [held EXCEPT ![i] = FALSE]
  /\ Goto(i, "wait")
  /\ UNCHANGED <<client, request, thId, name, ending, mapped, wakeLocks, op, target,
                 nextThread, modem, observe>>

\* The wake lock goes, and pthread_cond_wait gives the mutex back.
Release(i) ==
  /\ At(i, "release")
  /\ wakeLocks' = wakeLocks \ {name[i]}
  /\ held' = [held EXCEPT ![i] = FALSE]
  /\ Goto(i, "wait")
  /\ UNCHANGED <<client, request, thId, name, ending, mapped, op, target, nextThread, modem,
                 observe>>

\* pthread_cond_wait may return without a signal.
WakeUp(i) ==
  /\ At(i, "wait") /\ Goto(i, "woken")
  /\ UNCHANGED <<client, request, thId, name, held, ending, mapped, wakeLocks, op, target,
                 nextThread, modem, observe>>

\* rmt_storage_free_client: the client can be taken from now on ...
Free(i) ==
  /\ At(i, "exiting")
  /\ live' = [live EXCEPT ![i] = FALSE]
  /\ Goto(i, "none")
  /\ ending' = [ending EXCEPT ![i] = @ + 1]
  /\ UNCHANGED <<closing, fd, base, request, thId, name, held, mapped, wakeLocks, op,
                 target, nextThread, modem, observe>>

\* ... and its mutex is destroyed, or the one of whoever has taken it.
Destroy(i) ==
  /\ ending[i] > 0
  /\ ending' = [ending EXCEPT ![i] = @ - 1]
  /\ broken' = IF At(i, "none") THEN broken ELSE broken \cup {i}
  /\ UNCHANGED <<client, request, thId, name, held, pc, mapped, wakeLocks, op, target,
                 nextThread, modem, early>>

-----------------------------------------------------------------------------
WorkerStep(i) ==
  MakeName(i) \/ Check(i) \/ Transfer(i) \/ Release(i) \/ Free(i) \/ Destroy(i)

HandlerStep == Rw \/ Close

StorageInit ==
  /\ live = [i \in Slot |-> FALSE] /\ closing = [i \in Slot |-> FALSE]
  /\ fd = [i \in Slot |-> Nothing] /\ base = [i \in Slot |-> FALSE]
  /\ xfer = [i \in Slot |-> FALSE] /\ req = [i \in Slot |-> None]
  /\ thId = [i \in Slot |-> None] /\ name = [i \in Slot |-> None]
  /\ held = [i \in Slot |-> FALSE] /\ pc = [i \in Slot |-> "none"]
  /\ ending = [i \in Slot |-> 0]
  /\ mapped = FALSE /\ wakeLocks = {}
  /\ op = "idle" /\ target = 1
  /\ nextThread = 1 /\ nextReq = 1 /\ answered = {}
  /\ early = {} /\ broken = {}

StorageNext ==
  \/ \E p \in Partition : OpenNew(p) \/ OpenFails(p)
  \/ BeginRw \/ BeginClose \/ AllocBuff \/ HandlerStep
  \/ \E i \in Slot : WorkerStep(i) \/ WakeUp(i)

StorageSpec == StorageInit /\ [][StorageNext]_rvars

\* Threads run.  What the modem asks for is up to the modem.
FairStorageSpec ==
  /\ StorageSpec /\ WF_rvars(HandlerStep)
  /\ \A i \in Slot : WF_rvars(WorkerStep(i))

-----------------------------------------------------------------------------
(* Properties *)

\* The modem names a client by its descriptor, and rmt_storage_get_client takes
\* the first that has it, whether it is in use or not.  It finds the right one,
\* though clients that are freed or could not be opened keep descriptors.
CallerIdUnique == \A i \in Slot : live[i] => \A j \in Slot : fd[j] = fd[i] => i <= j

\* The phone stays awake while a transfer is pending, and may sleep when none is:
\* the wake lock of a thread that waits, or transfers, is held if and only if it
\* has something to transfer.  Not so if a request came before the thread had
\* made the name of its lock, or the mutex was destroyed.
WakeLockMatches ==
  \A i \in Slot \ (early \cup broken) :
    /\ pc[i] \in {"wait", "woken"} => (name[i] \in wakeLocks <=> xfer[i])
    /\ At(i, "transfer") /\ xfer[i] => name[i] \in wakeLocks

\* No signal is lost: a transfer that a thread with memory has got is answered,
\* unless the modem closes the client or asks it for another one first.
Served(i, r) ==
  /\ xfer[i] /\ req[i] = r /\ base[i] /\ ~closing[i]
  /\ pc[i] \in {"start", "lock", "wait", "woken", "transfer"}
TransferAnswered ==
  \A i \in Slot, r \in 1..MaxReqs :
    Served(i, r) ~> (r \in answered \/ closing[i] \/ req[i] # r)

-----------------------------------------------------------------------------
(* The inductive invariant: the types of the variables ... *)

StorageTypeOK ==
  /\ live \in [Slot -> BOOLEAN] /\ closing \in [Slot -> BOOLEAN]
  /\ fd \in [Slot -> Partition \cup {Nothing}] /\ base \in [Slot -> BOOLEAN]
  /\ xfer \in [Slot -> BOOLEAN] /\ req \in [Slot -> Nat]
  /\ thId \in [Slot -> Nat] /\ name \in [Slot -> Nat]
  /\ held \in [Slot -> BOOLEAN]
  /\ pc \in [Slot -> {"none", "start", "lock", "transfer", "release", "wait", "woken",
                      "exiting"}]
  /\ ending \in [Slot -> Nat]
  /\ op \in {"idle", "rw", "close"} /\ target \in Slot
  /\ nextThread \in Nat \ {0} /\ nextReq \in Nat

\* A client in use has a descriptor, and the clients before it have others.
HandlesApart ==
  \A i \in Slot : live[i] =>
    /\ fd[i] \in Partition
    /\ \A j \in Slot : fd[j] = fd[i] => i <= j

\* Threads are numbered as they are created: no two share a number, and no
\* name of a wake lock was made from the number of another client's thread.
ThreadsApart ==
  /\ \A i \in Slot : thId[i] < nextThread /\ name[i] < nextThread
  /\ \A l \in wakeLocks : l \in Nat /\ l # None /\ l < nextThread
  /\ \A i, j \in Slot : thId[i] # None /\ i # j => thId[j] # thId[i] /\ name[j] # thId[i]
  /\ \A i \in Slot :
       /\ At(i, "start") =>
            thId[i] # None /\ name[i] # thId[i] /\ thId[i] \notin wakeLocks
       /\ pc[i] \in {"lock", "transfer", "release", "wait", "woken"} =>
            thId[i] # None /\ name[i] = thId[i]
       /\ pc[i] \in {"transfer", "release"} => held[i]

\* Where the wake lock of a thread is, from the start of the thread on, when
\* there is something in every transfer.
LockFollows ==
  ~EmptyTransfers => \A i \in Slot \ (early \cup broken) :
    /\ At(i, "start") => ~base[i]
    /\ At(i, "lock") =>
         (name[i] \in wakeLocks => xfer[i]) /\ (base[i] => name[i] \in wakeLocks)
    /\ pc[i] \in {"transfer", "wait", "woken"} => (name[i] \in wakeLocks <=> xfer[i])
    /\ At(i, "release") => ~xfer[i]

StorageInv == StorageTypeOK /\ HandlesApart /\ ThreadsApart /\ LockFollows

=============================================================================
