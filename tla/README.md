# A verification project for the modem services

The repository is a vendor tree: some sixty directories of daemons, libraries
and HAL code that run beside the modem of a phone. The programs share little
code; what they share is the modem. This project takes the two parts all of
them meet in, and one of the daemons that use them:

* `peripheral-manager/` decides whether the modem has power. Several processes
  and threads meet in it, and what it gets wrong shows as a phone without
  network.
* `qmi-framework/` carries requests to the services of the modem and their
  responses back, in both directions: its client library and its service library
  are linked into almost every daemon of the tree, with threads the daemons do
  not see.
* `remotefs/` serves the modem's file system from the phone's flash, through the
  service library.

1. [The system](#1-the-system)
2. [The modules](#2-the-modules)
3. [The runs](#3-the-runs)
4. [Bounds and fairness](#4-bounds-and-fairness)
5. [The proofs](#5-the-proofs)
6. [Disagreements between code and documentation](#6-disagreements-between-code-and-documentation)
7. [Known limits](#7-known-limits)
8. [The plan](#8-the-plan)
9. [Running the checks](#9-running-the-checks)

## 1. The system

### 1.1 peripheral-manager

| part | source | state | operations |
|---|---|---|---|
| one peripheral | `pm-server/Peripheral.cpp`, `Client.cpp` | last announced event, client list, vote and expected acknowledgement of every client, voter counter, crash flag, restart requestor, device descriptor, timer, shutdown flag, shutdown mutex | add and remove client, vote, unvote, acknowledge, time out, restart, shut down |
| server calls | `pm-server/PeripheralManagerServer.cpp` | none of its own, but every call is a lookup and several critical sections of the peripheral | registar, unregister, connect, disconnect, acknowledge, shutdown, clientDied |
| service process | `main` and `qmiServerThread` in the same file | signal mask, pipe, QMI thread, thread pool | start, signals, QMI registration and requests, stop |
| client library | `libpmclient/` | list of valid structures with its lock, a lock and `connected` in each structure | register, unregister, connect, disconnect, acknowledge, server death, `pm_service_shutdown` |
| users | `pm-proxy/`, `pm-app/` | a handle | a vote for the internal modem; test commands |
| message tables | `subsystem-request/` | none | generated |

How they interact:

```
 application --> client library ==binder calls==> server calls --> Peripheral --> device node
      ^               |  ^                             ^               |   ^
      |               |  +==one-way events=============|===============+   |
      +--callback-----+                                |                   |
                      +--death of the client-----------+                   |
 QMI client ==restart==> QMI thread ---------------------------------------+
 operator, pm_service_shutdown ==signal==> main --shutdownStart/Wait-------+
                                           timer thread --ack timeout------+
```

* A *vote* is counted per registered client. The first vote announces
  "going on-line", waits for the acknowledgement of every registered client or
  for a timeout, opens the device node and announces "is on-line"; the last
  unvote takes the same way back.
* A voter that *dies* gets a grace period: power goes only if the timer expires
  before the first vote of somebody, normally of the restarted process.
* A QMI client may *restart* the peripheral: the node is closed and opened
  again whatever the votes are, and the QMI client gets an indication.
* *Shutdown* forgets votes and restarts, powers down and lets `main` return.
* There is *one timer* per peripheral, for acknowledgements and for the grace
  period, and its handler runs on a thread of its own.
* When the *server* dies, the library registers again in a binder thread and
  votes again if `connected` is set.

What is hard here: one lock protects the peripheral, but calls consist of
several sections of it and look their client up without it; a call may race
with the notification that its caller died; acknowledgements and expiries
arrive after the transition they belong to; opening and closing the node may
fail half-way through a transition; the server may die at any line of the
library; signals meet a process whose threads do not all block them.

What makes each part correct:

| part | properties |
|---|---|
| one peripheral | the counter is the number of voters; announced state and power agree; power is cut only for a reason; nobody waits for a superseded event; every announced change ends; a shutdown ends powered off; a restart request is not lost |
| server calls | no deleted object is in the list; a client's calls and its death do not take the vote of another; a dead client leaves |
| service process | no QMI request meets a stopping peripheral; a requester of the shutdown returns, and not before the service is gone |
| client library | no deleted structure is used; no deadlock between the two levels of locks; `connected` is the vote the server counts; a vote survives the death of the server |

### 1.2 qmi-framework

| part | source | state | operations |
|---|---|---|---|
| client library | `qcci/src/qmi_cci_common.c`, `qmi_cci_xport_ipc_router.c` | reference counted transactions in `txn_list` and `tx_q`, each with its lock; the client's own references, table entry, address of the service, error callback; sockets, pipe and reader thread | send and wait, send asynchronously, delete a transaction, register the error callback, release; receive a response, resume, notice that the service is gone |
| service library | `qcsi/src/qmi_csi_common.c`, `qmi_csi_xport_ipc_router.c` | `client_list` and `txn_list` with their locks, transmit queue per destination, sockets | handle a request, a Resume_Tx, the end of a client; answer, indicate, broadcast; unregister |
| transports, message coding, utilities | the other directories | see PROJECT.json | not modelled |

```
 threads of the application --send, delete, release--> client library --requests--> service library
        ^    ^                                            |   ^                      |        ^
        |    +--response of a synchronous call------------+   |                      |        |
        +-----callback, error callback--- reader thread <-----+--responses-----------+        |
                                                                 indications, busy/resume     |
 threads of the service ------------------answer, indicate, broadcast-------------------------+
```

* The client library has no thread of its own but the *reader* of the transport.
  Everything else runs on the threads of the application, at the same time.
* Who takes a transaction out of `txn_list` owns the list's reference and is the
  one who tells the user: the reader with a response, a call whose wait timed
  out, a failed send, a deletion, or the cleanup of a release or a lost service.
* Both libraries keep a *transmit queue* for a congested port. The router sends
  Resume_Tx when it drains; who flushes holds the lock of the queue.
* The service library handles all events on one thread, while other threads of
  the service answer requests it handed them and send indications. Structures of
  clients are freed by the event thread.

What is hard here: a response may be late, and meets a timeout, a deletion, the
loss of the service and a release; two lists with two locks refer to the same
structure; references to a transaction are counted per owner; the release joins
the thread that may be inside a callback or a flush; clients leave while
responses to them are encoded; the transmit queue of the service keeps pointers
into structures it does not own.

| part | properties |
|---|---|
| client library | a request is concluded exactly once, and before the release is reported; references match their owners; nothing is sent on a closed transport; a waiting call is owed its signal; the loss of the service is told once; a buffer is written only while it is lent; calls return |
| service library | structures outlive their users; messages arrive in order; each request is answered once, to whom asked it; who was told "busy" is told "resume"; no two threads wait for each other's lock |

### 1.3 remotefs

| part | source | state | operations |
|---|---|---|---|
| storage server | `qmi_rmt_storage/rmt_storage_svc.c` | ten slots for clients, each with descriptor, check word, close flag, pending transfer, thread, mutex and name of a wake lock; the mapping of the shared memory; the kernel's wake locks | open, transfer (`rw_iovec`), close, allocate the buffer; the thread of a client |

A request of the modem is handled on the event thread of the service library. A
transfer is left in the client's slot, with a wake lock taken and a signal sent;
the thread of the client does it, answers, releases the wake lock and waits. A
close is only a flag: the thread frees the slot when it sees it.

What is hard here: slots are freed by one thread and taken by another without a
common lock, and keep what the last client left in them; requests look their
client up before they lock it; a condition variable signals nobody unless the
thread waits; a wake lock that is not released keeps the phone awake, and one that
is missing lets it sleep during a transfer. What makes it correct: descriptors
name the client they were given out for; wake locks follow transfers; a transfer
that arrived is answered.

### 1.4 The rest of the tree

PROJECT.json lists every top-level directory with the reason why it is not
modelled. Five groups:

* *protocol and control code that later models should take*: `mdm-helper`
  (powers, loads and restarts an external modem), `rfs_access`,
  `time-services`, `ks`, `thermal-engine`;
* *stacks that would each need a project of their own*: `qcril`, `data`, `gps`,
  `wfd`, the `mm-*` directories, `bt`, `nfc`, `sensors`;
* *vendored, generated or third-party code*: `llvm-rs`, `modem-apis`,
  `ts_firmware`, parts of `nfc`;
* *user interfaces, tests and samples*: `QualcommSettings`, `telephony-apps`,
  `QuickBoot`, `fastmmi`, `kernel-tests`, `oem-services`;
* *numeric or almost stateless code*: `mpdecision`, `fastcv`, `ss-restart`,
  `mm-color-conversion`, `xmllib`.

## 2. The modules

```
 PowerVoting  <--refines--  Peripheral  <--extends--  PmServerCalls <-- MCPmServerCalls
      ^                          ^                          ^
      | extends                  | extends                  | extends
 PmService                 PeripheralProofs <-extends- PmServerCallsProofs
      ^                    MCPeripheral
      | extends
 PmServiceProofs, MCPmService          PmClientLib <--extends-- PmClientLibProofs, MCPmClientLib

 QmiTransaction  <--refines--  QmiClient  <--extends-- QmiClientProofs <-- QmiClientRefsProofs, MCQmiClient
                               QmiService <--extends-- QmiServiceProofs, MCQmiService
                               RmtStorage <--extends-- RmtStorageProofs, MCRmtStorage
```

An operator `X_<fault>` next to an operator `X` is `X` with a bug the code might
have had: a dropped guard, a missing reset, a wrong order. No specification uses
it. PROJECT.json names, for every property of every passing run, one such
operator; with it in the place of `X`, TLC refutes the property.

### PowerVoting: the promise

An abstract modem with users, a phase (what was announced last), power, a
pending restart and the life of the service. Its actions are `Vote`, `Withdraw`,
`GiveUp`, `Restart`, `SwitchOn`, `SwitchOff`, `PowerUpAgain`, `Stop`, `Stopped`.
It knows nothing of acknowledgements, timers, listeners or grace periods. Two
sentences carry it: power changes only in `SwitchOn` and `SwitchOff`, each after
an announcement, and `SwitchOff` needs a reason (`MaySwitchOff`: no voter, a
restart, or a stopping service).

### Peripheral: one peripheral under its lock

| TLA+ | code |
|---|---|
| `mState`, `mClients`, `mNumVoters`, `mLastClientCrashed`, `mRestartRequestor`, `mFileDesc`, `mShutdown`, `mShutdownComplete` | the fields of `Peripheral` with these names |
| `mIsVoter[c]`, `mAckExpected[c]` | the fields of the `Client` of `c` |
| `mAckTimer` | the POSIX timer, with what it was armed for (`round` of acknowledgements, or `grace` of a crashed voter) |
| `expired` | expiries whose handler waits for `mLock` |
| `mainThread` | where `main` is in `deInitPeripherals` |
| `indicationOwed` | QMI clients that were told "started" and wait for the indication |
| `Registar`, `Unregister`, `ClientDied`, `Connect`, `Disconnect` | the server calls, each as one step |
| `NotifyClientAck`, `NotificationAckTimeout`, `Settle` | `notifyClientAck` and the timer handler; `Settle` is what both do when nobody is waited for |
| `PowerOn`, `PowerOnFailed`, `OnlineSettled`, `PowerOff`, `PowerOffFailed`, `OfflineSettled` | the cases of the switch over `mState` |
| `RestartPeripheral`, `ShutdownStart`, `ShutdownWait` | the QMI request and the two halves of the shutdown |

A critical section of `mLock` is one action. A request the code refuses leaves
everything unchanged and is a stuttering step. Permissions, names, statistics and
log texts are left out. Any client may acknowledge any event at any time, or
never, so late, repeated and missing acknowledgements are all in the model.

`UsersVoting`, the voters of the refinement mapping, are the clients whose vote
flag is set. While the calls are one step each these are the registered voters;
with calls in sections they may also be clients that left, and the same mapping
serves both specifications.

### PmServerCalls: calls in sections

Extends `Peripheral` with where each call is (`call`), where the death
notification of each client is (`dying`), the life of the `Client` object
(`object`), and the clients whose object was dereferenced after it was deleted
(`misused`). Each call is cut where the code releases `mLock`: lookup, then
`ConnectVote`, `DisconnectUnvote` or `Acknowledge`; `UnregisterUnvote`,
`UnregisterRemove`, `UnregisterDelete`; `ClientDiedLookup`, `-Unvote`, `-Remove`,
`-Delete`; `RegistarReadState`, `RegistarAdd`. The sections are the operators of
`Peripheral`, so that both modules speak of the same code. The library sends one
call of a client at a time (its structure is locked); only the death notification
runs beside it.

### PmService: the process

Extends `PowerVoting`: the modem is the abstract one, because `Peripheral` is
proved to implement it. It adds `main` (program counter of the main thread from
`addService` to the exit), `qmi` (the QMI thread), the pipe between the two, the
signals, and the processes in `pm_service_shutdown` with their mutex and death
notification. A signal goes to `main` if it waits in `sigwait`; otherwise to a
thread that does not block it. The kernel cuts the power of a killed process,
because its descriptor is closed.

### PmClientLib: the client library

One process with several structures (`Handle`). Every structure has a thread of
the application, a thread of callbacks, and a thread per death of the server
(`binderDied`). The steps are the library's lock operations and what happens
between them: `LockList`, `Found`/`NotFound`, `LockClient`, the body of each call,
`Unlock`, `Delete`, and for a registration `RegisterAtServer`, `LinkToDeath`,
`Reconnect`, `PushBack`. The server is external: an incarnation number, whether
it runs, and which structures it knows and counts a vote of. A call to a server
that is down succeeds, as the proxies do not look at the status of the
transaction and read zero from an empty reply.

### QmiTransaction: the promise of the client library

A request is `Start`ed, and `Conclude`d once: answered, failed, timed out or
deleted. `Release` needs that none is open, and nothing happens after it.

### QmiClient: a connected client

| TLA+ | code |
|---|---|
| `txn[x]` with `kind`, `ref`, `rc`, `signal`, `rxBuf` | the fields of `qmi_cci_txn_type`; `rxBuf` is whether the buffer of the user is still set |
| `txnList`, `txQ`, `txQLock` | `txn_list`, `tx_q`, and who holds `tx_q_lock` over a send |
| `refs`, `linked`, `accepting`, `valid`, `handle` | `priv.ref_count`, the entry in `qcci_client_tbl`, `accepting_txns`, `server_addr_valid`, `xport->handle` |
| `errCb`, `errPending` | the error callback and `err_pending` |
| `wakeup`, `xport` | the pipe to the reader, the sockets |
| `pc`, `cur`, `seek`, `hand`, `ret` | where a thread is, and its local variables: the transaction of its call, the one it transmits, those it took out of the list, and where flush and cleanup return to |
| `told`, `errTold`, `misused` | observers: what the user was told, how often, and what was touched after it was freed |
| `BeginSend` ... `Enqueue`, `WaitResponse`, `WaitTimedOut`, `UnsentSync`, `UnsentAsync`, `Return`, `Invalidate`, `FinishSync` | `qmi_client_send_*` and the functions it calls, cut at every lock |
| `FlushAddr`, `FlushHead`, `Transmit`, `FailUnsent` | `qmi_cci_flush_tx_q` |
| `DetachQueue`, `DetachList`, `FailNext` | `cleanup_client_lists` |
| `BeginDelete` ..., `BeginRegister` ..., `BeginRelease` ... | deletion, error callback, release |
| `Lookup`, `JoinInit` | the rest of `qmi_client_init` once the reader runs |
| `Receive`, `Delivered`, `ResumeTx`, `ServerGone`, `Notify`, `TellError`, `ReaderExit`, `ReaderBreaks` | the reader thread; it ends when the release wakes it, or at any time by a failed allocation or `recvfrom` |

A service is a set of requests that reached it and may be answered at any time,
or never. What the model merges: steps of one critical section, the dropping of
a reference with the step before it where no other thread can see between them,
encoding and the look at `server_addr_valid` (`Prepare`), the error path
`handle_txn_error`. Memory that is used after it was freed keeps its value;
`misused` records it.

### QmiService: a service over the IPC router

| TLA+ | code |
|---|---|
| `client`, `clientLock`, `txns`, `txnLock` | `client_list`, `txn_list` and their locks |
| `txQ` with `at`, `bufs`, `busy` | `tx_q`: `dest_addr`, the messages, `dest_busy` |
| `addr` | the variable `addr` of `xport_handle_event`, on the stack |
| `open`, `inbox`, `removals`, `full`, `delivered` | the IPC router: ports, data socket, control socket, congested ports, what arrived |
| `TakeRequest`, `FindClient`, `ConnectCb`, `Refused`, `AddTxn`, `ProcessReq`, `FreeTxn`, `Bail` | `qmi_csi_xport_recv` with the connection of a new client |
| `HandleResume`, `ResumeClient`, `TakeRemoval`, `Disconnect`, `CleanTxns` | the other events |
| `PurgeAll`, `CloseSockets`, `XportClosed` | `qmi_csi_unregister` |
| `FindTxn`, `SendResp`; `FindReceivers`, `SendInd` | response; indication and broadcast |
| `Send` = `Enqueue`, `SendNow`, `SendLater`, `SendFails` | `xport_send` with `find_tx_q` and `put_tx_q`, under `tx_q_lock` |
| `known`, `given`, `waiting`, `accepted`, `stray` | observers: clients and requests the service has handles of, whom it was told are busy, what the transport took, and whether a queue kept a pointer too long |

The pointer of a queue is modelled as a pointer: `at` names the structure whose
address it is, or the stack variable (`Nobody`), and `Dest` is where it leads
*now*. The stack slot keeps the last sender. A service has one event thread and
does not unregister while it handles an event.

### RmtStorage: the storage server

| TLA+ | code |
|---|---|
| `live`, `closing`, `fd`, `base`, `xfer`, `req`, `thId`, `name` | `check_word`, `close`, `fd`, `shrd_mem.base`, `xfer_cnt`, `req_handle`, `th_id`, `wakelock_name` of the clients |
| `held`, `ending` | `th_mutex`, and threads between clearing `check_word` and destroying the mutex |
| `mapped`, `wakeLocks` | `rmt_shrd_mem_base`, the wake locks the kernel has |
| `op`, `target` | the request being handled, and the client it looked up |
| `OpenNew`, `OpenFails` | the outcomes of `rmt_storage_open_cb` that change a client; an open that finds one in use (`Found`) changes only its connection |
| `BeginRw`, `BeginClose`; `Rw`, `Close` | the lookup in `rmt_storage_rw_iovec_cb` and `rmt_storage_close_cb`; the section under `th_mutex` |
| `MakeName`, `Check`, `Transfer`, `Release`, `WakeUp`, `Free`, `Destroy` | `rmt_storage_client_thread` and `rmt_storage_free_client` |
| `answered`, `early`, `broken` | observers: the transfers that were answered, clients that got a request before their thread made its name, and clients whose mutex was destroyed and used |

A descriptor is a partition, since `part_lookup_table` has one for each for the
life of the process. A slot keeps its descriptor, memory, pending transfer and
name when it is freed, as in the code. A mutex that is used after it was
destroyed works on; `broken` records it.

## 3. The runs

| run | question | size |
|---|---|---|
| `peripheral_safety` | do votes, announcements and power stay together, whatever order votes, acknowledgements, deaths, late timers, restarts, device failures and the shutdown come in, and does the whole implement `PowerVoting`? | 3 clients that may die, 2 QMI clients, symmetry: 24,165 states |
| `peripheral_progress` | does every announced change end if clients never acknowledge, does the shutdown end, and is the accepted restart of two remembered? | 2 clients, 2 QMI clients, failing close: 4,100 states |
| `peripheral_reconnect_stuck` | the same with clients that die while they vote | violation, section 6 |
| `peripheral_stale_restart` | what the header says of `mRestartRequestor` | violation, section 6 |
| `calls` | does cutting the calls into sections, with the death of the caller in between, break the list, the counter or the power, and do the dead leave the list? | 2 clients, one may die, 1 QMI client: 343,610 states |
| `calls_leaked_vote` | is the counter still exact then? | violation, section 6 |
| `lib_votes` | is `connected` the vote the server counts, can a thread lock a deleted structure or the two lock levels form a cycle, does every call return, does the vote come back? | 1 structure with its application, callback and `binderDied` threads, 2 calls per thread, 2 deaths: 53,570 states |
| `lib_lost_death` | the last question if the server dies while it is being registered with | violation, section 6 |
| `service_stop` | does the QMI thread end before the peripherals are taken down, do the callers of `pm_service_shutdown` return, and not too early? | 2 users, 2 requesters, 1 SIGUSR1: 41,815 states |
| `qmi_calls` | is every request concluded exactly once, whatever response, timeout, deletion, congestion, loss of the service, failure of the reader and release race for it, and does every call return? | 2 callers, 2 requests, 2 calls, 1 congestion, 1 loss, 1 end of the reader: 558,220 states |
| `qmi_service` | do structures outlive their users, messages arrive in order, and answers reach who asked, while clients come, leave and are congested? | 2 clients, 1 worker, 2 requests, 2 sends, 1 congestion, queue limit 1: 888,448 states |
| `storage_transfers` | whatever the modem opens, closes, reopens and transfers, do descriptors name the right client, do wake locks follow transfers, and is no signal lost? | 2 slots, 3 partitions (one with the shared memory, one absent), 2 threads, 2 transfers: 127,958 states |

What the properties say:

* `VotersCounted`: the counter that decides about power is the number of
  registered voters, until the shutdown resets it.
* `PowerMatchesState`: on-line is powered and off-line is not, including failed
  device operations.
* `AcksForCurrentState`: nobody is waited for because of an event that was
  superseded.
* `DeviceClosedOnlyIfUnwanted`: the step that closes the node has a reason: no
  registered voter and no grace period of a crashed one, a restart, or the
  shutdown.
* `ExitPoweredOff`: `main` returns only with the node closed.
* `RestartNotForgotten`: an accepted restart keeps its requestor until the
  indication was sent, and no second request takes its place.
* `TransitionCompletes`, `ShutdownCompletes`: announced changes and the shutdown
  end although nobody acknowledges.
* `KeepsPromise`: `Peripheral` implements `PowerVoting` under the refinement
  mapping at the end of the module; with the calls in sections it does so too, as
  section 5 proves. In the shutdown the abstract set of voters is empty,
  because the code resets the counter but leaves the flags. A vote that
  `clientDied` leaks is, to `PowerVoting`, the vote of a user who never withdraws.
* `ListedObjectsAlive`, `CountCoversVoters`, `DeadLeave`: with calls in sections,
  the list has no deleted objects, the counter never undercounts, and a dead
  client that is in the list leaves it.
* `MisusedOnlyInDeath`, `LeakedOnlyInDeath`: use of a deleted object, and a vote
  nobody can take back, happen only to a client whose process died. Both do
  happen (section 7 and `calls_leaked_vote`); these say how far it goes.
* `NoStaleStruct`, `LockOrder`: the client library's list keeps stale handles
  away from their structures, and whoever holds the list lock while it waits for
  a structure waits for a thread that does not need the list lock.
* `ConnectedMatchesVote`, `VoteRestored`, `CallsReturn`: what the library
  remembers is what the server counts; a vote that the server lost comes back or
  the structure is given up; every call returns.
* `QmiStopsFirst`, `ReturnsAfterExit`, `RequestReturns`: see the question of
  `service_stop`.
* `RefsMatch`: the count of a transaction is the number of its owners (list or
  who took it from there, queue, waiting call), that of the client the number of
  calls inside the library and of open transports. `NoUseAfterFree`: while the
  service is there and no release runs, no freed transaction is touched.
* `NoSendOnClosed`, `WaiterIsOwedSignal`, `LossTold`, `BufferOnlyWhileLent`: no
  send on a closed transport; no lost wake-up; the loss of the service is told
  once whenever the callback was registered; a response is written only into a
  buffer the user still lends.
* `ConcludedOnce`: `QmiClient` implements `QmiTransaction`. `Concluded` and
  `CallsReturn`: without the help of a timeout, all open requests are concluded
  and all calls return. When the reader ended on its own (`Deaf`) nobody reads
  the answers, and the properties ask that nothing but waiting for one is left,
  and that a release still concludes every request and returns.
* `PointersValid`, `NoDanglingQueue`: transactions, and threads that send, point
  to structures that exist, and so do queues.
* `InOrder`, `AnsweredOnce`: what arrived and what is queued is what was
  accepted, in this order; a request is answered once and to its client.
* `ResumeTold`, `HandlerReturns`: the caller that was refused for a full queue
  is told when there is room; the event thread gets every lock it asks for.
* `CallerIdUnique`: the lookup takes the first slot with a descriptor, in use or
  not; no slot in use is hidden by an earlier one.
* `WakeLockMatches`: a thread that waits has its wake lock exactly if a transfer
  came, and one that transfers has it. It speaks of clients whose thread had made
  the name before the first request and whose mutex is intact.
* `TransferAnswered`: a transfer that a thread with memory got is answered, unless the client is closed
  or asked for another one.

## 4. Bounds and fairness

**Bounds.** `MaxTimeouts` caps the expiries that wait for the lock. Two are
enough for an expiry of a superseded round to run after a later one was armed and
expired. `OffTimeout` and `AckTimeout` are data only as far as zero differs from
the rest, so the defaults stand for all positive values. Three clients let one
client's calls hit the votes of two others, and let a death and a shutdown meet
with a vote that stays. Two QMI clients are needed for one to take the place of
the other. With calls in sections two clients suffice: what goes wrong there
happens between one client's call and its death, and needs a second one only as
the victim. In the client library two deaths of the server let it die again
during the reconnection; the lock properties of the library were also checked
with two structures and symmetry before they were proved for any number.
`MaxDumps = 1` sends `main` once round its loop. `DiesWhileRegistering` separates the deaths that `lib_votes` can recover from and
the one `lib_lost_death` shows.

In the QMI client two callers and two requests let a call, a second call and the
reader meet in flush, cleanup and the wait, with a release by the second caller;
one congestion is enough for a request to be in the queue when another is sent,
times out or is deleted. In the service two clients let the structure of one be
freed while the other is served, and one message of a queue go to the wrong one;
a limit of one message makes the queue refuse the second indication. What the
bounds cut off (a third request, a second congestion) is in the proofs, where
they are parameters.

In the storage server two slots and two threads let a slot be freed and taken
again by another partition while the other is served; two transfers let one meet
the answer of the other. One of the partitions has no shared memory, so that its
thread ends by itself, and one is not there.

`CHECK_DEADLOCK FALSE` is in every configuration: the service exits, and clients
may stop to call.

`SYMMETRY` is used in runs without liveness properties only.

**Fairness.**

| specification | assumption | why |
|---|---|---|
| `FairSpec` | an armed timer expires, its handler runs, `main` gets the mutex once it is free | kernel timer, a thread of its own, a mutex without competitors |
| `FairCallsSpec` | a call or death notification that has begun goes on | binder threads run and `mLock` is only held for one section |
| `FairLibSpec` | threads run, free mutexes are taken, a server that stops goes, and init starts it again | the service is in the init script; waiting is for mutexes only |
| `FairClientSpec` | *some* thread inside the library that can move moves; the service, while it exists, answers, and its port drains | threads run and locks are held for short sections. One weak fairness over the disjunction of all steps is less than fairness per thread; it suffices, since the bounds make every run of steps end |
| `FairQmiServiceSpec` | the event thread and each worker inside the library go on; a congested port that exists drains | threads run; the router delivers. Whether the service ever answers is left open |
| `FairStorageSpec` | the event thread finishes a request once it gets the mutex; the thread of each client goes on, once signalled or woken | threads run. Spurious wake-ups happen but are not assumed, so that a lost signal shows |
| `FairServiceSpec` | `main`, the QMI thread and callers run; the steps of an announced power change happen; the QMI framework eventually accepts a registration (strong, with `QmiComesUp`) | the last but one is `TransitionCompletes` of `Peripheral`; the last is an assumption about another program, section 7 |

Clients are never assumed to do anything: not to acknowledge, not to unvote, not
to leave. That is what the timeouts in the code are for. Timeouts of QMI calls,
the loss of the service, the failure of the reader and the end of its clients
are never assumed to happen either.

## 5. The proofs

Eight modules hold proofs: one for each component's module, and a second one for
the references of `QmiClient`. Every invariant and every action property of a
passing run is stated by a theorem, and so are both refinements.
The assumptions are those named in the modules: `Client` is finite,
`CrashingClients` are some of them, `NULL` is no QMI client, timeouts are natural
numbers (`main` refuses negative ones), `MaxTimeouts` is positive, and only
opening and closing the node may fail; threads differ from each other and from
the value for "nobody", and the number of callers is finite. The theorems about
the power control hold for every number of clients and QMI clients, for a timeout
of zero, and for any combination of device failures; those about the libraries
for every number of threads, structures, requests, calls and congestions. Each
inductive invariant was checked by TLC on the instance of its run before it was
proved.

### Peripheral

None of the safety properties is inductive alone. `IInv` adds what they rest on:

| part | why it is needed |
|---|---|
| `TypeOK`, `VotersCounted`, `PowerMatchesState`, `AcksForCurrentState` | the properties themselves |
| `NoVoteLeftBehind` | a client that left has no vote; else `Registar` would add a voter that was not counted |
| `CrashOnlyUnvoted` | the crash flag is set only without votes; else the grace timer could take power from somebody who votes |
| `GoingOfflineJustified` | while the peripheral goes off-line there is a reason; this is where a late expiry, a reconnect and a restart meet, and `DeviceClosedOnlyIfUnwanted` follows from it |
| `ShutdownIsFinal` | nothing left in the shutdown can power up, and the mutex is free only when the peripheral is off-line; `ExitPoweredOff` follows |

All parts but `VotersCounted` and `NoVoteLeftBehind` form `PowerInv`: they do not
depend on the calls being one step. The lemmas that need only `PowerInv` are kept
apart, because `PmServerCallsProofs` cites them again.

`PeripheralProofs` has a lemma per part and a step per action. `Settle`, what
acknowledgement and timeout share, has its own lemmas (`SettleType`,
`SettlePower`, `SettleShutdown`, `SettleRestart`, `SettleVoting`), cited by both.

| theorem | states |
|---|---|
| `TypeCorrect`, `Inductive` | the types, and `IInv`, always |
| `VotersAlwaysCounted` | the counter is the cardinality of the set of voters (with the facts on cardinality of `FiniteSetTheorems`) |
| `PowerAlwaysMatches`, `AcksAlwaysCurrent`, `AlwaysExitPoweredOff` | the invariants of `peripheral_safety` |
| `ClosedOnlyIfUnwanted` | the action property, from `IInv` |
| `RestartNeverForgotten` | an accepted restart is not forgotten, if opening the node cannot fail; needs `AnsweredWhenOffline` on top of `IInv` |
| `Refinement` | `Spec => PV!VotingSpec`: initial states map to initial states, and every step to a step of `PowerVoting` or a stutter. `MaySwitchOff` is `GoingOfflineJustified` in the terms of the abstract module |

### PmService

`QmiAlwaysStopsFirst` rests on `QmiFollowsMain` (there is no QMI thread before
`main` creates it, and none after the join). `AlwaysReturnsAfterExit` rests on
`LockedUntilExit`: the mutex of a caller inside `pm_service_shutdown` stays
locked as long as the service lives, and on `EndedStable`, that a process that
ended does not come back.

### PmServerCalls

`CallsInv` is inductive. Its core is `LifeInOrder`: a registration is made,
listed, removed and deleted in this order, and only a call or death notification
at the right place can be between two of these; `ListedObjectsAlive` and
`MisusedOnlyInDeath` follow. `FlagsCounted` says that until the shutdown the
counter is the number of clients whose vote flag is set, listed or not;
`CountCoversVoters` and `LeakedOnlyInDeath` are two ways of comparing these
clients with the list. The sections are the operators of `Peripheral`, so the
module first states what each does to list, flags and counter (`ConnectSeen`,
`UnvoteSeen`, ...), and cites only that.

The second half of the module shows that what `Peripheral` guarantees about power
survives the cuts. `SectionStep`: a step of `CallsNext` does nothing to the
peripheral, or is a step of `Peripheral` (`Staying`), or is one of three that are
not (`Splits`): the vote is taken back but the client stays in the list, the client
is removed but its vote is not taken back, or an acknowledgement settles that may
be of a client that is gone. `CallsPowerStep` shows for those three, and cites
`PeripheralProofs` for the rest, that `PowerInv` is inductive. `VotersCounted` and
`NoVoteLeftBehind` are not kept (section 6, 3); `CallsVotingInv` takes what the
refinement needs of them from `FlagsCounted`.

| theorem | states |
|---|---|
| `CallsPowerMatches`, `CallsAcksCurrent`, `CallsExitPoweredOff` | the invariants of `peripheral_safety` but the exact count |
| `CallsCloseOnlyIfUnwanted` | no interleaving of sections cuts power while a registered client votes or a grace period runs |
| `CallsRestartNeverForgotten` | as `RestartNeverForgotten` |
| `CallsRefinement` | `CallsSpec => KeepsPromise`: what leaks is a vote, never power |

TLC checked `PowerInv`, `CallsInv`, `DeviceClosedOnlyIfUnwanted` and
`KeepsPromise` of the split calls beforehand, with both clients dying and both
device faults: 1,756,553 states. The run `calls` does not repeat that.

### PmClientLib

`LibInv` says who owns what: the list lock belongs to the thread whose place is
under it, a structure that is used is alive, its lock belongs to a thread of its
own, and there is one `binderDied` per structure and death. `NeverStaleStruct` is
a part of it, `LockOrderKept` follows: who waits with the list lock held waits
for an owner whose place does not lead to the list.

`ConnectedAlwaysMatches` needs `VoteInv` on top of it:

| part | why it is needed |
|---|---|
| `LocksOwned`, `Unused` | who works on a structure has its lock, except the call that makes it; a structure that was not made yet is nobody's |
| `DiedThreads`, `Wakes` | only `binderDied` deals with a death; until it has, the structure's server is dead and no other thread registers it |
| `Linked` | a link to death leads to the server the structure was registered with last, and stands only while nobody deals with a death |
| `VotesAlive` | no structure knows a later server than there is, and only a living server counts a vote |
| `Votes` | the property itself, and what it becomes while a structure is out of the list: no vote between the registration and `Reconnect`, `connected` if it reconnects, and both equal again at `push_back` if the server still lives |

The server may die at every one of these places (the theorem holds for both
values of `DiesWhileRegistering`): what section 6, 4 loses is the notification, not the agreement. TLC
checked `VoteInv` on 193,793 states with one structure and on 1,179,832 with two.

### QmiClient

`ClientInv` has these parts:

| part | why it is needed |
|---|---|
| `Places`, `Phases` | which thread can be where, and that accepting, linked, handle and sockets go down in this order behind the thread that releases; a thread that transmits holds `tx_q_lock`, which the release needs before it closes: `NoSendOnClosed` |
| `RefsCounted` | the client's count is the number of calls inside plus one for the transport: when it is zero nobody is inside |
| `Owners`, `Kinds` | a transaction is in the list, or in the hands of one thread, or in neither; a call knows which kind its transaction has |
| `NotYetMade`, `SyncOpen`, `CallOpen`, `AsyncOpen` | what the user was told of a transaction, by where it is: nothing while somebody can still conclude it, one thing after that |
| `Drained` | what the cleanup of a release emptied stays empty: at zero references no request is open |

There is a lemma per action, and from the invariant a step lemma of three kinds
(`Silent`, `Starts`, `Ends`) that says what an action is for `QmiTransaction`:
`Refinement` is `ClientSpec => ConcludedOnce`.

`QmiClientRefsProofs` adds `AccountInv` and `LossInv`, and from them the rest of
the run's invariants for any number of callers, requests and losses:

| part | why it is needed | theorem |
|---|---|---|
| `SentOnce` | a request is handed to the queue once and by its own call, so that the queue has no request twice and a purge drops one reference of each | |
| `Counted` | the count of a transaction is the number of its owners: who has it from the list, the queue or the call that is about to put it there, the call that waits | `CountsAreExact` (`RefsMatch`) |
| `CleanedWhenLost`, `FreshListed` | only a lost service or a release empties the list, so that until then a request that was not queued yet is in it, and its reference is alive | `NeverUsesFreed` (`NoUseAfterFree`) |
| `SignalHasCode`, `OwedSignal`, `WaitsReturn` | from the moment the signal is cleared until the call reads it, it is set, or somebody still owns the transaction and will set it, with a code | `WaiterNeverForgotten` (`WaiterIsOwedSignal`) |
| `Lent` | a buffer is set in a synchronous call only, while the user was not told; a call that returns has taken it back | `WritesOnlyLentBuffers` (`BufferOnlyWhileLent`) |
| `Registering`, `LossTold` | how the flag `err_pending` and the callback stand to each other between the loss of the service and what the reader tells | `LossReportedOnce` (`LossTold`) |

`Counted` speaks of transactions that were not used after they were freed: past
that the count is that of memory nobody owns, and `NoUseAfterFree` says when it
can come to it. TLC checked `ClientInv`, `AccountInv` and `LossInv` together on
3,302,931 states.

### QmiService

`ServiceInv` consists of `LocksHeld` (who is where holds which lock, and what
only its holder has), `RequestsKnown` (every request in a message, a list or a
local variable is known with its sender), `ClientLives` (only the event thread
adds and frees clients; a client that leaves does so while the event thread holds
the lock) and `AnsweredAtEnd` (a request that was answered is in no other place;
one that waits on the socket is nowhere else). `PointersAlwaysValid` and
`AlwaysAnsweredOnce` are parts of it. They hold with failing allocations and
after a queue kept a pointer too long.

`QueueInv` is about the transmit queues as long as none kept a pointer too long
(`stray`): `Ports` (a port that was removed does not come back, and the transport
is open until the event thread closes it), `Apart` (there is one queue per client
at most, and each has a client), `Purged` (the queue of a client that leaves stays
purged until the structure is freed: its port is gone, and a message to it fails
at once and starts no queue), and the two properties.
`QueuesNeverDangle` and `MessagesInOrder` follow. That the queues are apart is
what `InOrder` rests on: with two queues for a client a flush could send the
later message first. One lemma says what each way of sending does to what was
delivered and what is queued for every port, and `HandleResume`, which sends in
order until the port is full again, has the long case.

### RmtStorage

`StorageInv` consists of the types, `HandlesApart`, `ThreadsApart` and
`LockFollows`. A client that is opened takes the first slot that is free, so all
before it are in use, with other descriptors: `HandlesApart`, from which
`HandleNamesItsClient` follows. Threads are numbered, and a name is the number of
a thread the same slot had (`ThreadsApart`), so that no client takes or releases
the wake lock of another. `LockFollows` says where the wake lock is from the start
of a thread on: the slot may hold a transfer its last client left, but without
memory, which the thread sees before it transfers. It holds if no transfer is
empty (section 7); `WakeLockFollowsTransfer` alone assumes that.

### Only model-checked

* *Liveness*, which the prover cannot do: `TransitionCompletes`,
  `ShutdownCompletes`, `DeadLeave`, `VoteRestored`, `RequestReturns`, `Concluded`,
  `CallsReturn` (of both libraries), `ResumeTold`, `HandlerReturns`,
  `TransferAnswered`.
* *Properties that fail*: `RestartMeansRestarting`, `VotersCounted` with calls in
  sections, and the two liveness properties of section 6.
* *Under an assumption the theorem repeats*: `RestartNotForgotten` without
  failures of `open`, `WakeLockMatches` without empty transfers. Without them the
  code does not keep the property (section 7).

## 6. Disagreements between code and documentation

Each is a run whose property says what a comment of the repository says, and
which TLC refutes.

1. **A reconnecting voter stops the timer of a transition**
   (`peripheral_reconnect_stuck`, `Peripheral.cpp:302`). `pm-service.h:87`
   promises a timeout for every acknowledgement. A vote that replaces the vote of
   a client that died stops the peripheral's only timer, even if a restart is
   under way and waits for acknowledgements. A client that does not answer then
   holds the peripheral.
2. **A vote during a restart leaves the requestor set**
   (`peripheral_stale_restart`, `Peripheral.cpp:299`). `Peripheral.h:119` says it
   is set while the device is being closed and opened. The first vote turns
   "going off-line" into "going on-line" and leaves the requestor: later restart
   requests are refused, and the next ordinary power-down is turned into a
   restart.
3. **A vote leaks in clientDied** (`calls_leaked_vote`,
   `PeripheralManagerServer.cpp:269`). The comment above the line wants to ensure
   the dead client does not hold the device up. A `connect` of the same client,
   still running on another binder thread, can land between `decreaseVoters` and
   `removeClient`.
4. **The library misses a death of the server** (`lib_lost_death`,
   `PeripheralManagerClient.cpp:156`). `connected` is documented as what restores
   the vote. Between `linkToDeath` and `push_back` the structure is not in the
   list; `binderDied` does not find it and gives up.

## 7. Known limits

What the passing runs do not cover, because the code does not guarantee it, or
because it is not in the models.

**Assumed in a run, and the property fails without it.**

* A timeout of zero, which `main` accepts, disarms the POSIX timer instead of
  letting it expire at once (`Peripheral.cpp:568`). With `OffTimeout = 0` the
  shutdown waits for ever for a silent client; `TransitionCompletes` and
  `ShutdownCompletes` are therefore checked with the default timeouts.
* `select` in the QMI thread is given `quitFd` where `quitFd + 1` is due
  (`PeripheralManagerServer.cpp:651`). While the QMI framework refuses the
  registration the thread does not see that `main` quits, and `main` cannot join
  it. `RequestReturns` fails with `QmiComesUp = FALSE`.
* In `pm_service_shutdown` the mutex is locked after the death notification was
  armed (`PeripheralManagerClient.cpp:431`). If the service ends in between, the
  notification unlocks too early and the caller waits for ever. `RequestReturns`
  speaks of requests that reached the service.
* If closing the node fails in the shutdown, the peripheral returns on-line and
  `main` waits until something settles again (`Peripheral.cpp:244`).
  `ShutdownCompletes` allows that outcome and no other.
* If opening the node fails after a vote had reversed a restart's power-down,
  the restart is forgotten without an indication (`Peripheral.cpp:255`).
  `RestartNotForgotten` is checked and proved without failures of `open`.
* Without memory for a transaction `qmi_csi_xport_recv` answers with
  `client_list_lock` held and does not release it (`qmi_csi_common.c:606`).
  `HandlerReturns` holds with `TxnAllocFails = FALSE` only.
* `InOrder`, `NoDanglingQueue` and `ResumeTold` speak of runs in which no queue
  kept a pointer too long (`stray`). It does when an error response is the first
  message of a queue: it is sent with a pointer to the variable `addr` of
  `xport_handle_event` (`qmi_csi_common.c:735`), so the queue then belongs to
  whoever sends the next event. It also does when a connection is refused after a
  broadcast was queued for the new client (`:505`). After the purge of
  `qmi_csi_unregister` messages may be queued again and are left behind
  (`qmi_csi_xport_ipc_router.c:570`); the properties stop there.
* A transfer of no sectors is neither answered nor its wake lock released
  (`rmt_storage_svc.c:371`). `WakeLockMatches` is checked and proved with
  `EmptyTransfers = FALSE`; it fails otherwise.

**True of the code, and no property asks for the contrary.**

* The QMI thread is created before `main` blocks the signals
  (`PeripheralManagerServer.cpp:802`). A signal that comes while `main` is not in
  `sigwait`, for instance the second of two requests to stop, is given to that
  thread and kills the process; users are then not told that the power goes, which
  `PeripheralManagerClient.cpp:393` says they are.
* An open finds a client that was closed and not freed yet
  (`rmt_storage_svc.c:431`): the modem is told that the partition is open, and its
  requests are refused once the thread has freed the client. The comment at line
  432 expects this in the restart of a subsystem only.
* A request that comes before the thread of a new client has made the name of its
  wake lock (`rmt_storage_svc.c:537`) takes the lock of the slot's last thread,
  which nobody releases, or none. `WakeLockMatches` excludes these clients
  (`early`).
* A slot can be taken once `check_word` is cleared, and the mutex is destroyed
  after that (`rmt_storage_svc.c:291`): it may be that of the next client. A request
  may also lock the mutex of a client that was freed since its lookup (`:504`).
  `WakeLockMatches` excludes both (`broken`).
* A transfer that was left in a freed slot, or comes for a partition without
  shared memory, ends the thread of the client (`rmt_storage_svc.c:339`) without a
  response, and with the wake lock held if it was taken.
* A second transfer request before the first was done replaces it
  (`rmt_storage_svc.c:523`); the first is never answered. `TransferAnswered` allows
  for it.

* The reader of a QMI client ends when it has no memory for a message or
  `recvfrom` fails on either socket (`qmi_cci_xport_ipc_router.c:128`, `:137`,
  `:173`), and nobody is told. The sockets stay open, requests are still sent, but
  responses, Resume_Tx and the loss of the service are never read: asynchronous
  requests stay open, and a synchronous call without a timeout waits, until the
  client is released or the request deleted. The cleanup of the release concludes
  them all and signals the calls, so the release itself returns. `Concluded` and
  `CallsReturn` say so; they excuse nothing else.
* Between `qmi_client_get_txn` and the reference of a synchronous call
  (`qmi_cci_common.c:1929`) the only reference of the transaction is the list's.
  A cleanup in between frees it, although the comment at line 970 says the
  waiting function does. `NoUseAfterFree` says that this is the only way.
* A request on the data socket that is read after REMOVE_CLIENT of its sender
  connects the sender again, as a client that never leaves.
* The disconnect callback of a service runs with `client_list_lock` held.
* A broadcast that meets a full queue marks it busy, though nobody was told.
* If the service refuses a request the library answers it with an error response
  whose `rc` it took from the successful decoding (`qmi_csi_common.c:713`). A
  service that answered and then refuses is covered by `AnsweredOnce` only in so
  far as the model's service does not do both.
* `qmi_client_release` from within a callback joins the thread it runs on
  (`qmi_cci_xport_ipc_router.c:368`).
* Transaction ids have 16 bits (`qmi_cci_common.c:607`): after a wrap a late
  response may meet a new request with the same id.
* An acknowledgement in a settled state stops the grace timer of a crashed voter
  (`Peripheral.cpp:193`). The modem then stays powered without a voter.
* A restart powers the modem up again even if nobody votes any more.
* An expiry that waits for the lock while a voter dies ends the new grace period
  at once (`Peripheral.cpp:156`).
* `registar` reads the state in one section and adds the client in another
  (`PeripheralManagerServer.cpp:112`). An event between the two is neither in the
  state that is returned nor sent to the client, which `pm-service.h:76` says is
  the current state.
* A call that looked its client up before its death deleted it uses the deleted
  object (`PeripheralManagerServer.cpp:146`, `:148`, `:173`, `:200`), and
  `increaseVoters`, whose own lookup notices, reads its name for the log
  (`Peripheral.cpp:275`). The model records this in `misused` and continues as
  if the memory were intact; `MisusedOnlyInDeath` bounds it.
* A client that dies after `linkToDeath` and before it is added
  (`Client.cpp:21`) is not found by the notification and stays in the list.
* `pm-proxy` passes its handle as cookie before the handle is set
  (`pm-proxy.c:31`), so that all its acknowledgements fail and every transition
  of the internal modem waits for its timeout.
* Calls of the library to a dead server return OK.

**Not in the models.**

* The walk of `findClient` without a lock is one atomic look.
* Addresses are not reused: a `Client` object that is deleted stays recognisable.
  The same holds for transactions, their ids, and ports of QMI clients.
* QMI client: indications (they keep no state), the asynchronous release, the
  notifier and `qmi_client_init_instance`, connecting before the reader runs,
  callbacks that call the library, repeated responses to one request.
* QMI service: `qmi_csi_register` and the start of the transports, several event
  threads or transports, the legacy send of other transports, requests handed out
  raw or before decoding (they are `ProcessReq`); messages too short for a header,
  which are dropped; failing allocations of a queue or a queued message, the first
  of which leaves the port full without a queue and the second perhaps an empty
  queue; and a `sendto` that fails for another reason than EAGAIN while
  `handle_resume_tx` empties a queue, which drops the message. Elsewhere such a
  failure is `SendFails`.
* Storage server: its start (partition table, devices, registration), connecting
  and disconnecting, the sectors and the outcome of a transfer, and that a
  partition that is opened again has its closed descriptor (`:583`, `:248`).
* Several peripherals: they share no state but the list they are looked up in.
* Permissions, names, option parsing, statistics, log texts; failing pipe or
  thread creation; the QMI requests that reboot or shut down the system.

## 8. The plan

Done: `PowerVoting`, `Peripheral`, `PmServerCalls`, `PmClientLib`, `PmService`,
`QmiTransaction`, `QmiClient`, `QmiService` and `RmtStorage`, with proofs for
every component.

To extend, in this order:

1. `MdmHelper`: `mdm-helper/mdm_helper.c`. The state machine of an external
   modem, which uses `libpmclient` and so composes with `PmClientLib`.
2. A model of `rfs_access` or `time-services`.
3. `QmiClient` before it is connected: the notifier, and
   `qmi_client_init_instance`, which waits for a service with a timeout; the
   asynchronous release.
4. The composition of `QmiClient` and `QmiService` over one router.

To prove, in this order:

1. `PmService` over `Peripheral` instead of `PowerVoting`: that `QmiStopsFirst`
   meets the precondition of `ShutdownStart` in the composed process.
2. A promise of the service library, as `QmiTransaction` is one of the client
   library: a request is made, handed out, answered once, or dropped with its
   client; `ServiceInv` has what the refinement needs.
3. A promise of the storage server, a map of descriptors to partitions with
   transfers that are done under a wake lock.

## 9. Running the checks

```
tlc -workers 2 -config Peripheral_safety.cfg MCPeripheral
tlc -workers 2 -config PmServerCalls_calls.cfg MCPmServerCalls
tlc -workers 2 -config QmiClient_calls.cfg MCQmiClient
tlapm PeripheralProofs.tla
```

The configurations are named after the module and the run; PROJECT.json lists
which module goes with which. The longest run (`qmi_service`) takes about three
minutes on two workers, `qmi_calls` two and a half. From nothing `QmiClientProofs` takes
about five minutes, `QmiClientRefsProofs` and `QmiServiceProofs` about four,
`PmClientLibProofs` and `RmtStorageProofs` one to two, and the others less than
one.
