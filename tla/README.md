# A TLA+ model of the TR-069 agent

This directory holds TLA+ specifications of the CWMP (TR-069) agent of this
repository, the TLC instances that check them, and TLAPS proofs of the results
that matter most.  Definitions carry the names of the C code where TLA+ allows
it; `PROJECT.json` maps each of them to the lines it models.

## 1. The system

The agent runs on a device (CPE) and is managed by a server (ACS).  It informs
the ACS of events, answers the ACS's remote procedure calls in sessions that
the agent always opens, and performs file transfers.

| part | code | state | operations |
|---|---|---|---|
| Inform scheduler | `DM_ENG_InformMessageScheduler.c` | device status, `alive`, pending events, status of the session, what is being sent, retry delay | `run` (thread), `sendMessage`, `addEvent`, `sessionClosed`, `isSessionOpened`, `isReadyToClose`, the notification entry points |
| Parameter manager | `DM_ENG_ParameterManager.c` | the data lock, the queue of pending notifications, transaction state | `lock`/`unlock`, `manageEvents`, `clearEvents`, set/commit/cancel of values, transfer queue, notifications from the system |
| Parameter | `DM_ENG_Parameter.c` | value, back-up value, state flags of one parameter | `setValue`, `updateValue`, `commit`, `cancelChange`, checks |
| RPC interface | `DM_ENG_RPCInterface.c` | the entity that has locked the engine | the RPC methods, `SessionOpened`, `IsReadyToClose`, `SessionClosed` |
| Notification interface | `DM_ENG_NotificationInterface.c` | listeners and the values each one knows | `inform`, `transferComplete`, `requestDownload` |
| Data store | `DM_DAT1_ParameterData.c` (or `DM_DAT2_...QDBM.c`) | parameters, events, transfer queue, control data; two files and a back-up | `sync`, `restore`, factory reset |
| Communication module | `dm_com.c`, `dm_com_rpc_acs.c` | `bSession`, times, SOAP header options | parsing of ACS messages, the handlers of each RPC, session supervisor, retransmission |
| HTTP client | `DM_COM_HttpClientInterface.c` | queue of messages, sending state, close request | `sendHttpMessage`, the client thread, `closeHttpSession` |
| HTTP server and connection security | `DM_COM_HttpServerInterface.c`, `DM_COM_ConnectionSecurity.c`, `dm_com_digest.c` | nonce, times of past requests | connection requests, digest authentication, rate limit |
| STUN client | `dm_stun.c`, `dm_lib_stun.c`, `dm_lib_udp.c` | binding, keep-alive period | binding discovery, UDP connection requests |
| Statistics module | `DM_ENG_StatisticsModule.c` | groups of samples, sampling thread | sampling, computed statistics |
| Diagnostics launcher, data model configuration, computed expressions | `DM_ENG_DiagnosticsLauncher.c`, `DM_ENG_DataModelConfiguration.c`, `DM_ENG_ComputedExp.c` | - | start of a diagnostic, processing of a configuration file, evaluation of expressions |
| Device adapter, IPC, main | `dm_target_deviceAdapter`, `dm_ipc`, `dm_main.c` | - | calls to the system, D-Bus, start and stop of the agent |
| XML library | `ixml` (third party), `DM_COM_DomXmlParserInterface.c` | - | DOM |

How the parts interact:

- **Threads.** The scheduler thread (`run`), the supervisor of sessions, one
  thread per burst of HTTP messages (answers are handled in its curl callbacks),
  the HTTP server, the STUN threads, the sampling thread of the statistics, the
  threads of transfers and diagnostics in the device adapter, and the D-Bus
  server.
- **Locks.** The data lock (a file, made atomic by `_dataMutex`), `_changesMutex`
  of the queue of notifications, `_schedulerMutex` and `_statusMutex` of the
  scheduler, `mutexAcsSession` of the communication module,
  `mutexHttpSendThreadControl` of the HTTP client.  The scheduler holds the data lock
  during a whole session with the ACS; RPCs of the ACS run under it.
- **Calls.** System -> scheduler: `addEvent`, `checkNextInformTime`, device status.
  Scheduler -> communication module: Inform, TransferComplete, RequestDownload.
  Communication module -> engine: `DM_ENG_SessionOpened`, `IsReadyToClose`,
  `SessionClosed`, the RPCs.  Communication module -> HTTP client: send, close.
  HTTP client -> communication module: the header and body callbacks.
- **Persistence.** Events, retry counter, transfers and parameters are saved by
  `sync`, called from `unlock()` and from the places that must survive a restart.

What is hard: the waits and signals of `run()` among posts from any thread; the
end of a session, which the ACS, the supervisor (30 s), the scheduler (600 s)
and curl (60 s) can each decide; answers that come after it; locks held across
calls from one module to another; notifications that decide without the lock
whether to process or to queue; and a stop of the process between two writes.

What makes each part correct:

- *scheduler*: no event, value change or result is lost or left asleep; it leaves
  the agent only once the ACS has answered; a session always belongs to a
  thread that holds the data lock; `RetryCount` tells the truth; locks are given
  back;
- *HTTP client*: one message at a time, in order, on one handle; a close ends and
  does not pull the handle away; the list is served;
- *ACS session*: both views of the session (`bSession`, `sendMessageStatus`)
  agree; no circle of locks; a session ended with success has nothing left to
  send; flags of a session do not leak into the next; no session waits for ever;
- *data lock*: one owner; every notification is processed once;
- *data store*: whatever the moment of a stop, what was saved can be read again
  and nothing older replaces it;
- *values and RPCs*: a request does everything or nothing; what is answered is what
  is in effect; a change the ACS asked to hear of is reported, or marked to be;
  a test that was requested is run;
- *transfers*: a request that was saved is carried out and its result reported,
  across stops; one thread works on it; sessions and transfers do not use the
  device together;
- *connection requests*: never more than the policy allows, none refused for
  another reason, and an ACS that answers correctly gets in;
- *STUN*: the keep-alive period is one the binding survives, the published address
  is the binding's, a connection request counts once;
- *statistics*: no reading counts twice or not at all; the lists of a report and
  of a window stay aligned with their times; the polling thread reads what is
  enabled, and only under the locks it believes to have.

`PROJECT.json` lists the single hazards at their lines.

## 2. Plan

Done, in this order (most important behaviour first):

1. `InformScheduler` - the scheduler with the events, results and retries of the
   parameter manager; `InformSchedulerProofs`.
2. `HttpSession` (abstract) and `HttpClient`, with the refinement.
3. `AcsSession`, which extends `HttpClient` and composes it with the
   communication module, the supervisor and the engine's side of a session;
   `AcsSessionProofs`, of the client too.
4. `ParameterLock` - data lock and queue of notifications;
   `ParameterLockProofs`.
5. `DataStore` - the files; `DataStoreProofs`.
6. `Parameters` (values and instances as operators), `RpcInterface` (the methods and
   what the ACS is known to know), `SoapRpc` - sessions of requests over them, with
   other entities, notifications of the system and diagnostics.
7. `ControlData`, `FileTransfer`, `DeviceAdapter`, and `Transfers` which composes them
   with the scheduler, a file and stops of the agent; `TransfersProofs`.
8. `ConnectionRequest` - HTTP server, digest and policy; `ConnectionRequestProofs`.
9. `StunMessage` and `StunClient`; `StunProofs`.
10. `Samples` (what is computed) and `Statistics` (polling thread and its locks);
   `StatisticsProofs`.

Next, in this order:

1. `ComputedExp`: the evaluator against a reference over small expressions.
2. `DM_ENG_Lock` and `_currentEntity` with several D-Bus clients, over `ParameterLock`.
3. TLAPS for `KeepAliveSurvives` of `StunClient`, with a bound on the faults a discovery meets.

## 3. Modules and code

Every module has one action per operation or per section between two points
where other threads can interfere.  A section under a mutex that is not held
across such a point is one step.  Definitions named after a mapped one with a
suffix (`ClearEventsNoReset`, `TryLockRaced`...), under a comment *Mutant of*, are
faulty variants; no specification uses them: they serve to see that a property
notices the fault.

### InformScheduler

State: `lastStatus`, `alive`, `sendMessageStatus`, `transferIdSending`,
`requestDownloadSending`, `retryOn`, `retryDelay` are the static variables of
`DM_ENG_InformMessageScheduler.c`; `pc`, `inSession`, `noEvent` the position and the
locals of `run()`; `wake` tells whether a thread in a wait was signalled.
`pendingEvents` is the list `addEvent` fills, `events`, `retryCount`, `results` and
`downloads` are the control data of the parameter manager, `changed` stands for
the "value changed" flags of its parameters, `timer`/`planned` for the next
timeout and `nextInformTime`.  `bSession`, `informAcked`, `posts`, `asking`, `ready`,
`closing` are what the communication module knows of the session; `server` is the
HTTP server on a connection request; `lastSession` and `lateEnd` are history variables
(how the last session ended, and whether a thread of a stopped scheduler reset `alive`
under a restarted one).

Actions: `Start` ... `End` are the sections of `run()` between its locks and waits
(the table of positions is in the module); `SendMessage` is `sendMessage` up to
the return of the Inform callback and `SendQueued` its branch for a result;
`DeviceStatusChanged`, `ValueChanged`, `PostEvent`, `TransferDone`,
`DownloadRequested`, `ScheduleInform`, `QueueTransfer`, `TimerDue` the entry points;
`InformResponse`, `AcsRpc`, `AcsAnswer`, `IsReadyToClose`, `ConfirmSession`,
`SessionClosed` the calls of the communication module; `ServerAdmit`,
`ServerRequest`, `ServerPost` the HTTP server; `SpuriousWake` a return of
`pthread_cond_wait` without a signal.  `DeviceStatusChanged` starts a thread of its own whenever
`alive` is false, also beside one that has not ended.

Abstractions: events are a set of codes (`addEvent` and the parameter manager keep
the codes used here once); transfers are numbers in list order; times are
"armed" and "due"; a signal may wake more than one waiter.  `Disturbances` names the rare circumstances an instance includes: a
session longer than 600 s, an attribute taken off, no listener, a late fault, a
transfer asked by another entity.

### HttpSession, HttpClient

`HttpSession` states what the communication module may expect: `open`, `closing`,
`queue`, `wire`.  `HttpClient` is `DM_COM_HttpClientInterface.c`: `beingSent` and
`pending` are `_httpMessageBeingSent` and `_pendingHttpMessages`, `sessionHandle` the curl
handle, `closeExpected` is `_closeHttpSessionExpected`, `retryBuffer` the message kept
for a RetryRequest, `sender`/`posting` the threads and what each has given to
curl.  `SendHttpMessage`, `RefuseHttpMessage`, `CloseHttpSession`,
`StopHttpClient`, `Configure` are the calls; `BeginSending` and `EndSending` the
thread before and after `curl_easy_perform`, during which it holds no mutex.
The refinement mapping makes `queue` the message being sent followed by the
pending ones, and `wire` what the threads have given to curl.
Headers, TLS, proxy and cookies are left out.

### AcsSession

`bSession`, `irtc` (`bIRTCInProgess`), `closingFlag`, `ignore204` are the flags of
`dm_com.c`; `acsMutex` is the owner of `mutexAcsSession`; `stage` is the position of a
thread in a callback or in `_closeACSSession`; `sched`, `status`, `results`,
`sending`, `rpcLock` are the engine as the communication module can see it.

Abstractions: the first part of `_closeACSSession` (flags, `DM_CloseHttpSession`) is
one step and each call into the engine another; the reboot check at the end
of a session is left out; the scheduler may send the next result after any
wake-up, signalled or not; the ACS gives the bodies in `Bodies`, each to a
message it can answer (`Expected`); `Silences` says how it may fail: "dead" (no
answer, the HTTP thread has ended), "late" (the supervisor closes while curl still
waits), "long" (the scheduler gives up after 600 s).  `DM_RemoveHeaderIDFromTab` always returns
`DM_OK` (`dm_com.c:5035`), so the branches for its failure, which unlock `mutexAcsSession` without
having locked it (lines 2478 and 2533), cannot be taken and are not modelled.

### ParameterLock

`lockFile` is the file of `tryLock`, `dataMutex` and the one-step sections are
`_dataMutex` and `_changesMutex`, `inSession` is `_inSession`, `pendingChanges` the queue.
`Lock`, `OpenSession`, `BeginUnlock`/`Drain`/`Drained`/`Unlock` are `lock()` and `unlock()`;
`Notify`, `Acquire`, `Process`, `Enqueue` the notification of a new value
(`dataNewValue`), whose decision and whose queueing are separate steps.
Notification *n* carries the value *n*, so that `applied` shows order, loss and
repetition.  `CreateFails` lets the creation of the lock file fail.

### DataStore

`obj`, `backup`, `ctrl` are the three files, `dataChanged`/`controlChanged` the two
flags of `sync`, `parameters`/`control` the memory.  Contents are versions: version
n+1 is version n with one change.  `Sync`, `WriteControl`, `Rename`, `Open`,
`WriteParameters`, `SyncEnds` are `sync` and `_writeParameters`; `BootData`,
`BootBackup`, `BootReset`, `ReadIni`, `ReadControl` are `init`; `Restore` is `restore`;
`Crash` can come between any two of them.  A file that is opened and not
closed is torn.  `ChangeParameters` is any setter, which marks the data; `ResetDiagnostics` is
`_razDiagnosticsResult` in `unlock()`, after its last `sync`, whose
`DM_ENG_Parameter_resetValue` marks nothing.  Of ghosts, `saved` is what was last written to the
end and `marked` the parameters after the last marked change.  `rename` and `remove` are atomic; what was written reaches the
disk in order (a stop is one of the process, not of the power: the code calls
no `fsync`); writes do not fail.  On a factory reset the code does not read the
control file; the model's `ReadControl` then finds none, which has the same
effect.

### Parameters, RpcInterface, SoapRpc

`Parameters` has the operators of `DM_ENG_Parameter.c` and of the value part of
`DM_ENG_ParameterManager.c` on a record of the state: a parameter is a record with its
value, back-up value, state flags (`Marks`), attributes and what never changes
(storage mode, writable, group, definition).  `dev` is what the system holds,
reached through `DM_ENG_Device_*`, which may refuse.  A name is a sequence of
parts.  Loading goes from the system or through a definition: a redirection or a
count of instances; setting goes back through it.  `RpcInterface` has the methods
of `DM_ENG_RPCInterface.c` and what decides which changes an Inform reports.
`SoapRpc` is the state machine: `AcsRequest` is a request of the ACS from its parsing
in `dm_com.c`, missing nodes included, to the answer or fault; `LocalRequest` a
setting by another entity; `Notify` a notification of the system, processed at once or
queued in `waiting`; `Inform`, `InformAnswered`, `SessionClosed` the session, whose
close empties the queue and starts the tests; `LaunchDiagnostics` and
`DiagnosticsDone` the thread of a test.  `told` is the history of what the ACS knows,
`used` that of instance numbers, and `excused` the parameters whose report section 7
explains to be lost.  `Parameters` recurses through groups and redirections, so
these three modules are for TLC only.

### ControlData, FileTransfer, DeviceAdapter, Transfers

`ControlData` is the record of what the agent must remember - transfers, download
requests, scheduled Informs, reboot keys, events - with the operators of the parameter
manager that make it evolve; `FileTransfer` gives the fault code of a transfer from
its URL, curl's result and the HTTP code; `DeviceAdapter` has the flag
`_downloadThreadInProgress` (`busy`), with the take-over after thirty seconds, and the list
of values with its mutex (`fileMutex`).  `Transfers` composes them: the scheduler
(`engine`), a thread per transfer (`threads`), the user interface (`ui`), the ACS
with its commands and answers, the file (`disk`) and stops (`Crash`, `TornSave`, `Boot`,
`PlatformReboots`).  `unlock` is two actions: `EngineDrains` processes one notification of the
queue and saves, `EngineUnlocks` ends when the queue is empty (`NotifierUnlocks`, when a
notification has the lock).  The end of a transfer and the notifications of the user interface
are tried first (`Processes`, when `tryLock` succeeds) or refused and queued in a later step
(`Refused`, then `Enqueue`), between which the owner may have emptied the queue and gone.
Of a transfer that succeeded the result is what `_actionAfterDownload` makes of it
(`ResultCode`): 0, or the fault of a data model extension that cannot be read.
Nothing under `src/` calls `DM_ENG_ParameterManager_autonomousTransferComplete`; the model lets the
thread of the user interface call it.  Of ghosts, `told` is what the ACS has heard of, `outcomes` what happened,
`saved` what was once in the file, `lost` what nobody will hear of, and why is at each place
that adds to it.  A save is one step, or a stop that leaves the truncated file (`TornSave`); a
section under the data lock is one step, `ParameterLock` is about calls that meet.

### ConnectionRequest

`times` are the two arrays of `connectionFreqArray`, one per listener, as ages up to
`Forgotten`; `server` and `conn` the loop of the HTTP server between `accept` and
`close`; `acs.challenge` tells whether the challenge the ACS holds is the one in
`randomNonceStr`.  `Serve` is the server's step (policy, digest, request to the
engine, record), `AcsConnects` and `StrangerConnects` the clients, `UdpRequest` the listener
of `dm_stun.c`, `SetParameters` a change of policy or password, `OpenSession` and
`CloseSession` the state the engine answers from.  `grants` (the latest first) and `refusal` are
histories.

### StunMessage, StunClient

`StunMessage` is the messages: the attributes in the order of the encoder, each with the
length it claims, the parser that believes no length, and `stunServerProcessMsg`.
`StunClient` is `dm_stun.c`: `main` keeps a binding, `disc` a second one whose lifetime
`prober` threads find by bisection; `up` and `down` are datagrams, which may be lost,
repeated and late within the budget of a scenario.  A window is one call of
`DM_STUN_readManagement`; `Toggle` switches STUNEnable, `ChangeNat` gives the NAT another
address, `AcsRequest` and `AcsRepeat` are connection requests over UDP.  `gTimeout` is
`g_timeout`.  `asked` is the seconds of the requests, which several may share, and `accepted` the
numbers of those accepted.  Periods go up to a day (`Periods`, `Day`).

### Samples, Statistics

`Samples` is what `DM_ENG_StatisticsModule.c` computes from a reading: the totals since
the last reset, the current sample and the report of the periods, or the sliding
window; a comma-separated list is a sequence, an unsigned int is modulo `Word`.
`Statistics` has the polling thread with the two locks it gives up and takes again
(`dm`, `mutex`), the list `statsToPoll` (`list`), settings of the ACS, `Restart`, readings
the device makes by itself (`source`, `pending`) and the end of the agent (`Release`).
`Unlocked` is the queue processed in its order, `Selected` what a walk along a list keeps of it.
`traffic` is a ghost: all the counter counted; `history`, inside an object, what was
added to its totals.

## 4. Runs

`tlc -config <run>.cfg <module>` in this directory; all but the marked ones must
pass.

| run | module | checks | shows |
|---|---|---|---|
| `Scheduler_core` | `MCInformScheduler` | `RetryCountFaithful`, `NoSleepOnWork`, `NothingForgotten`, `WorkIsDone`, `DataReleased` | one thread, a value change, a periodic and a bootstrap event, one transfer and one download, timeouts, failing sessions: nothing is lost, nothing sleeps, what was posted is sent |
| `Scheduler_disturbed` | `MCInformScheduler` | `SessionUnderLock` | two threads, all disturbances, stops and restarts by the device, connection requests, no transfers: a session has a thread that holds the data, unless a late end of the old thread reset `alive` under it |
| `AcsSession_supervised` | `MCAcsSession` | `SessionConsistent`, `NoLockCycle`, `SessionsApart`, `WaitEnds`, `ClientGoesOn` | an ACS that answers in order or stops answering |
| `AcsSession_any` | `MCAcsSession` | `CloseIsPending`, `ImplementsSession` | any answers, late, with faults and holds: the HTTP client under the session implements `HttpSession` |
| `AcsSession_fault` (violation) | `MCAcsSession` | `MutexReleased` | see section 7 |
| `ParameterLock_queue` | `MCParameterLock` | `OneOwner`, `ExactlyOnce`, `Released` | the lock and the queue, with failures to create the file |
| `DataStore_crash` | `MCDataStore` | `CrashSafe`, `UnchangedIsSaved` | stops at any moment, any number of times |
| `Rpc` | `MCSoapRpc` | `RpcInvariant`, `AcsInformed`, `AllOrNothing`, `AnswersFresh`, `DiagnosticsUnderWay` | three requests of sixteen kinds in two sessions, with settings by others, changes by the system and one that refuses |
| `Transfers` | `MCTransfers` | `Accounted`, `KeptUntilReported`, `EarliestFirst`, `Exclusion`, `EventuallyReported`, `SessionOpens` | two commands of twelve kinds, with one stop (inside a save or not), failed session, long wait, input at the device, transfer of its own or save of its file |
| `ConnectionRequests` | `MCConnectionRequest` | `PolicyHolds`, `RefusalJustified`, `AcsLetIn` | two listeners, an ACS that tries again, strangers, sessions, changes of policy and password |
| `Stun_client` | `MCStunClient` | `KeepAlivePeriod`, `NoReplay`, `ComesToRest` | short and long bindings, lost, repeated and late messages, a NAT that changes its address, STUN switched off and on |
| `Statistics` | `MCStatistics` | `TrafficReal`, `ReportFaithful`, `SlidingWindow`, `EnabledIsPolled`, `PollingOwns` | an object by periods or in a window, with settings, a restart, a failure and readings of the device |

Properties whose name stands for several are conjunctions of named parts:
`NothingForgotten` of `NoEventLost`, `ValueChangeNotLost`, `ResultsKept`; `WorkIsDone` of
`PostedIsSent`, `DueIsHandled`; `SessionConsistent` of `SessionTypeOK`, `SessionAgreement`,
`RpcUnderLock`; `SessionsApart` of `FlagsFresh`, `CompletedIsDone`; `ClientGoesOn` of
`CloseEnds`, `PendingIsSent`; `OneOwner` of `Exclusion`, `DeviceSession`; `CrashSafe` of
`Recoverable`, `NeverOlder`; `RpcInvariant` of `RpcTypeOK`, `NoMarkLeft`; `AnswersFresh` of
`ReadsFresh`, `InstanceFresh`; `KeepAlivePeriod` of `TimeoutInRange`, `KeepAliveSurvives`;
`ComesToRest` of `AddressSettles`, `DiscoveryEnds`.

Bounds, and why they are enough:

- *Threads.* `Scheduler_core` has one scheduler thread; `Scheduler_disturbed` has two, the thread
  of a stopped scheduler that still has to end and that of the restarted one, and each may end and
  be started again.  `TwoAreQuiet`, the constraint of the run: while both exist no timeout is armed
  and no value change waits to be told; what the property is about, stops, sessions and locks, does not look at
  them.  The theorems (`LocksCorrect`, `SessionLocked`) have any number of threads and no such
  bound.  Two HTTP threads are the least that could share the handle.
- *MaxRetryDelay, MaxRetryCount.* `retryDelay` 1, 2 has each case of the doubling; the
  counter is only told apart from zero, and stays at its bound.
- *MaxPosts = 2.* The Inform's answer and one more; further posts in flight are
  not told apart.
- *MaxPending = 2, MaxResults = 2 (1 with any answers).* What is sent and one that waits; a
  result that is being sent and one that waits.
- *MaxNotifications = 3* (`ParameterLock`). One with the owner, one queued, one that overtakes.
- *ThreeChanges.* Tells the saved version, the one in the backup and an unsaved
  one apart.
- *Rpc.* The data model has one parameter of each kind the code tells apart: in the
  data model, of the system, redirected, computed, mandatory, an object of the data
  model and a group of the system with their prototypes, and a diagnostics object.
  Three requests are what it takes to set, disturb and read back; two sessions, for
  what the first leaves to the second.
- *Transfers.* Two commands can overtake each other; one disturbance of any kind at any
  moment; the clock advances only between sessions, and commands that would be due
  after `MaxTime` are not sent.  A transfer succeeds, and its result is then good or a
  fault of the data model extension; the faults of the servers (`FileTransfer`) take the way of the
  latter and differ only in their code.
- *ConnectionRequests.* An array of three with a limit of one or two: before, at and past
  the limit, and an entry that falls out.  `BootAge` is at least the period: a clock
  later than 1970 (section 7).
- *Stun_client.* Two requests, in one second or in two, and one datagram too many.
  `SomeScenarios` gives each run of the discovery one thing that goes wrong,
  and without discovery all of them; one prober at a time (`QuietToggles`, section 7).
- *Statistics.* A period of two units polled each unit, and a clock that goes through three
  periods: the report is full after two and drops one.  `Word = 4` makes sums overflow, not the counter.  The clock
  advances while the polling thread waits or is held up by a session.  The agent is
  released before the device is ready or at the end of time.

What each instance leaves out is deliberate: `Scheduler_core` has no
disturbance and `AcsSession_supervised` no fault, hold or late answer, because
with them some of the properties are false of this code (section 7); what
still holds with them is checked in `Scheduler_disturbed` and `AcsSession_any`.
Deadlock is checked except in `AcsSession_any` and `AcsSession_fault`, where the
circle of locks of section 7 really stops the threads, and in `Rpc` and `Transfers`,
which stop when their budgets are spent.

## 5. Fairness

- *Scheduler* (`FairSpec`): a thread that can go on does, and a retry delay ends (WF).
  `IsReadyToClose`, once begun, ends (WF).  A session is closed in the end (SF):
  the supervisor closes a session after 30 s of silence, and the ACS does not talk
  for ever.  SF of the *quiet* steps: it is not so that some event is posted each
  time the thread is about to unlock the data or to plan its wait.  The code has no
  protection against that; without this assumption `PostedIsSent` fails because
  `retryOn` is never reset.  Nothing is assumed of the ACS, the device or other
  callers.
- *HTTP client*: a thread goes on; `curl_easy_perform` returns because
  `CURLOPT_TIMEOUT` is set (WF).
- *ACS session*: WF of the scheduler's steps, of the supervisor with its timer, and
  of the HTTP threads, for the same reasons; the mutexes are weakly fair only.
- *Data lock*: WF of a thread that owns the data or has something at hand to do
  with it (`Working`).  Nothing is assumed of a thread polling in `lock()`: it may starve,
  and no property says otherwise.
- *Transfers*: WF of the scheduler with the ACS and the start of the agent, of each thread
  of a transfer, of the user interface once it has begun, of a save of the file, of
  the platform's reboot and of the clock.  Commands, stops and other disturbances
  need not happen.
- *Connection requests*: WF of the server, of an ACS that has something to ask, of the clock
  and of the end of a session.
- *STUN*: WF of the threads and of the server; a message that was sent is lost only within
  the budget.
- *Rpc* and *Statistics* state no fairness: their properties are about states and steps.
  `Statistics` ends in `Ended` or `Hung`, and every other state has a step, which the check for
  deadlock shows.

## 6. Proofs

TLAPS checks the theorems below for every value of the constants that satisfies the
named assumptions of the modules (sets disjoint from their null values, bounds
that are natural numbers, events and statuses of the enumerations of the code).

- `InformSchedulerProofs`.  `TypeCorrect`: types, and with `DelaysAssumption` that the retry delay stays
  at most twice its limit; one step per action, with lemmas for the helpers that
  several actions share.  `LocksCorrect`: `LockDiscipline` is inductive with the types; it says which
  positions own which lock, and mutual exclusion follows.  `SessionLocked`:
  `SessionUnderLock`, for any number of threads, stops and restarts, by `SessionGuard`: who is
  in the session or about to begin one.  The property excepts one case, `lateEnd`, in which the
  code breaks it (section 7); `NoLateEnd` says when the case does not arise: with one thread, or
  when the device never reports a status that stops the scheduler, since `alive` then holds
  wherever a thread is in its loop (`SchedulerAlive`).
  `SleepsOnlyAtRest`: `NoSleepOnWork`, by `RestInv`: what a thread has seen to be empty on its
  way to the wait stays so, or it is signalled.  For one thread (`OneThread`: with two, the other
  takes the signal) and while nobody queues a transfer behind its back (`Untimed`).
  `RetryCounted`: `RetryCountFaithful`, by `RetryInv` (a value change in the list is one of a
  parameter; the count, the events and the flags agree with how the last session ended, at
  every position of `run`), which needs `SessionState`.  `NothingIsForgotten`: the action
  property, by `ReportInv` and one fact a step, `Told`: whatever leaves events, changed values or
  results was in an Inform or a request that is answered.  `Undisturbed`, `Unaltered` and
  `Unasked` name the circumstances that are excluded; with any of them left in, TLC finds
  the property violated (section 7), so no hypothesis can be dropped.
- The HTTP client, in the first part of `AcsSessionProofs`.  `HttpTypeCorrect`.  `CloseIsNeverStuck`: `closeExpected` alone is not
  inductive; `Busy` (a close is expected, or messages wait, only behind one being sent) and
  `Manned` (what is being sent has a thread) are.  `OneSenderAlways`: as long as the client
  is not stopped.  `Refinement`: from `OneSender`, `Busy` and the types each step of the client
  is a step of `HttpSession` or a stutter; the lemmas `Cons...` say what head, tail and append
  do to the mapped queue.
- The session, in the rest of `AcsSessionProofs`.  `UsesClient`: what the whole system does to the client is a behaviour of the
  client (`Spec => HttpSpec`), so that the theorems about the client hold in it
  (`SessionCloseIsPending`, `SessionImplementsSession`).  `Types` is inductive without any
  hypothesis.  `CalmInv` holds when the ACS holds no request and no wait lasts 600 s (`Calm`):
  where each thread can be (`Positions`), which position owns which mutex (`Owners`), that a
  closed session is closed for both sides (`Closed`, `OneCloser`, `Outside`) and that
  `bSession` and `sendMessageStatus` agree but for the steps between them (`Views`); `ViewsAgree`
  and `NoCircularWait` follow.  `PunctualInv` holds when besides no answer comes after the supervisor
  gave up (`Punctual`): the time of the supervisor against what is on the wire (`Elapsed`,
  `Supervised`, `Ready`), the order Inform, requests, answers (`InformInTime`, `NoInformLate`, `Chain`,
  `InformFirst`, `Polite`) and the lock the RPCs run under (`RpcLocked`); `SessionConsistentAlways`
  and `SessionsApartAlways` follow.  The run `AcsSession_supervised` meets these conditions; what
  happens without them is in section 7.
- `ConnectionRequestProofs`.  `PolicyHeld` needs `Ordered` (the history has no gap and no later request
  is older), `Recorded` (the array holds the latest of the history) and `Admissible`: a connection
  that passed the check may still be recorded, however long it was served, because time only
  empties a period and nobody else records in the array.  The heart is `GrantsWithin`: an array
  larger than every limit that is applied forgets no request that still counts.
  `RefusalsJustified`, in the other direction, when no period reaches back to the zeros of the start
  (`ClockSet`).  What is counted are cardinalities of sets; `Shifted` and `WithinOlder` say how
  they change when a request is added and when time passes.
- `ParameterLockProofs`.  The invariant `Inv` is the types, `Roles` (which thread can be
  where, and what a notifier carries), `Exclusion`, `NoEarlySession`, `OwnerOpened` and
  `DeviceSession`.  `EveryNotificationOnce`: `ExactlyOnce` is inductive on top of it; one lemma for
  each step that moves a notification from one place to another.
- `DataStoreProofs`.  `Inv` adds to the types what each position of the agent guarantees of the
  files (`FilesByPosition`: which file is good and not older than what was saved) and of the memory
  (`MemoryByPosition`).  The theorems `SavedIsRecoverable`, `NeverRollsBack`,
  `MarkedIsSaved` follow from it; the last is about marked changes only, since the code makes
  some it does not mark (section 7).
  `SavedForGood` and, in `ParameterLockProofs`, `OwnerIsOne` are the conjunctions the runs check.
- `StunProofs`.  `RequestsNotReplayed`: a request is accepted after none of a later second, and twice
  only if another was made in its second, which is all that the code ensures (section 7).
  `NoReplay` needs that the time stamp and the identifier kept are those of one request (`StampsOK`),
  that no request accepted is of a later second than it, that the seconds do not go back and that
  one accepted twice shares its second with another (`AcceptedInOrder`), and that nothing encoded as a STUN message passes for a request (`AnswerIsNoRequest`).

- `TransfersProofs`.  A queue is reasoned about as the set of its records (`Records`), with two facts
  on the sequence (`Distinct`, `InOrder`): the effect lemmas (`InsertEffect`, `RemoveEffect`,
  `ReadEffect`, `ManageEffect`, `CommandEffect`...) say what each operator of `ControlData` does to the
  set and to the other keys, and are all the steps need.  `BaseInv` is the types (`EarliestIsNext` follows:
  every way into the queue, reading the file included, keeps the order of the times), `AtRest` and `Work`: threads,
  results in the queue of notifications and requests in progress correspond one to one
  (`WorkersOK`, `NotesOK`, `ProgressOK`), the request whose result is being sent is completed
  (`SendingOK`), and each result is an outcome (`ResultsOK`); `TransfersAccounted` follows.
  `TransfersExclude`: `HoldersInv` (who is between lock and unlock is counted) and `FlagInv`.
  `CommandsKept`, with `lost` for what is excepted: `MemoryInv` and `FileInv` (what was once saved is known to the memory and to
  the file, or was told), `BootInv` (the Reboot keys are in `pendingEvents` only until the first
  save, and no restart by the platform comes in between) and `KeysInv` (the key of a transfer
  is not that of another command, as `TransfersAssumption` has the ACS use a key once).

- `StatisticsProofs`.  `PollingOwnsAlways`: the inductive invariant is `OwnsInv`, that is `Shapes` (the
  records have their fields, the list is a sequence), `Turns` (the mutex is the thread's
  during a turn and nobody's between two steps), `Locks` (where each thread is and who has the
  data lock, unless the thread went on without it), `Numbers` (a node's number is that of one
  object, also when the node is freed) and `Kept` (the node the thread will come back to is in
  the list).  `EnabledIsPolledAlways`: `Polled` adds what holds before the samplings run, when it is
  the type of a node that decides whether it stays.  The two need each other: a session closes
  only before the release, which `Polled` says.  The lemmas say what a step does: a reading, alone or
  with all that waits in the queue, leaves Enable as it is and makes only an enabled object
  Enabled (`ProcessKeeps`, `UnlockedSame`); a turn keeps the numbers of the nodes and drops none that
  is to be polled (`RoundEffect`); a setting changes its object only (`SetEffect`).  `StatisticsAssumption` has
  the objects finite, as the list is, and new at the start.  `MinIsLeast` and `Induction`
  are proved here from finite cardinalities, since the prover cannot use the induction of its
  library; with them `Selected` and `Unlocked`, which go through a sequence, are reasoned about.

Only model-checked:

- every liveness property: the prover has no fairness;
- `KeepAlivePeriod` and `ComesToRest` of `StunClient`.  `TimeoutInRange` is false of the code when a
  minimum of ten or more is above the maximum (section 7), and the run's parameters have one digit.
  The margin of `DM_STUN_ComputeGlobalTimeout` is two and a
  half steps, so `KeepAliveSurvives` holds for as many late or repeated answers as the margin
  absorbs, which the scenarios of the run stay within, and not for any number of them;
- `TrafficReal`, `ReportFaithful` and `SlidingWindow` of `Statistics`: they compare sums over the whole
  history of readings with the growth of a counter, an induction over data;
- `RpcInvariant`, `AcsInformed`, `AllOrNothing` and `AnswersFresh` of `SoapRpc`: `Parameters` is recursive, as the
  code is, and the prover does not reason about recursive operators.

## 7. Where code and comments disagree

One of these is a run that ends in a violation:

- **A circle of locks** (`AcsSession_fault`, `dm_com.c:5113`).  A Fault that answers the Inform
  before `DM_ACS_InformCallback` has taken `mutexAcsSession`: the HTTP thread holds
  the mutex and waits for the scheduler's, the scheduler the other way round; the supervisor blocks
  behind them.

The others were met while modelling, with the same modules and other
constants or properties; they are the reason for the limits of the instances above:

Scheduler, session, locks and files:

- *A late end stops a restarted scheduler.*  A thread that leaves its loop sets `alive = false`
  (`DM_ENG_InformMessageScheduler.c:369`) after it has waited for the mutex; when the status went back to
  UP meanwhile, the new thread is stopped: `_start()` (lines 440-451) creates it as soon as `alive` is false,
  whether or not the old one has ended.  It then leaves a session with the data lock given back and the
  session still open; `SessionUnderLock` excepts this (`lateEnd`).  Line 560: "sinon l'agent doit tourner".
- *An older value wins.*  A notification that was refused the lock and queues itself after the owner has
  emptied the queue is processed after a newer one (`DM_ENG_ParameterManager.c:2113`).
- *A stop that is lost.*  `_stop()` (`DM_ENG_InformMessageScheduler.c:481`) does nothing while `alive` is false,
  and `alive` becomes true only when the new thread reaches line 212: a DOWN in between leaves the
  scheduler running.  Line 555: "2 seuls etats ou l'agent est stoppe".
- *A connection request that confirms an Inform.*  `DM_ENG_RequestConnection` calls `isSessionOpened(true)`
  (`DM_ENG_RPCInterface.c:46`); if a session has begun since the HTTP server read `bSession`, the events are
  cleared although the ACS has not answered.  `DM_ENG_ParameterManager.c:382`: clearEvents is "appele une fois
  que la transmission a l'ACS a ete confirme".
- *A retry that was none.*  When the only event was a value change whose notification was taken
  off, `sendMessage` gives up as CANCELLED and `run()` counts a retry (line 362).  `dm_com_rpc_acs.c:109`: the
  RetryCount is zero "if and only if the previous session if any, completed succeffully".
- *A queued transfer that sleeps.*  `manageTransferRequest` (`DM_ENG_ParameterManager.c:1734`) does not call
  `checkNextInformTime`, so a scheduler that waits without timeout does not perform a transfer asked
  by another entity than the ACS in its session.
- *A close gives messages up.*  `_CloseHttpSession` frees the pending messages
  (`DM_COM_HttpClientInterface.c:1581`); `dm_com.c:5139` says "once all message are sent".  `HttpSession` states what the code
  does.
- *An old retry buffer.*  Only a message that creates a thread updates it
  (`DM_COM_HttpClientInterface.c:331`); `dm_com.c:2899` calls it "the last emitted request".  A RetryRequest then
  sends an older message again.
- *A late InformResponse ends the next session.*  The supervisor closes after 30 s while curl waits for 60; the
  late answer sets `bIRTCInProgess` (`dm_com.c:2441`), and the 204 of the next session closes it with success
  although results are left.
- *A close without the mutex.*  `DM_HttpCallbackClientHeader` closes on 200 OK without `mutexAcsSession`
  (`dm_com.c:641`); line 5128 says it "must be locked by the calling routine".
- *A result erased before it was sent.*  Each RPC calls `isSessionOpened(true)`
  (`DM_ENG_InformMessageScheduler.c:409`); when a TransferComplete waits behind an answer and another RPC comes,
  it is erased while it is in the queue, and a close drops it.
- *No backup of the control data.*  `_writeDmControl` truncates its only file
  (`DM_DAT1_ParameterData.c:713`); a stop before `fclose` loses the events and transfers saved before.  Lines
  1172-1175 say `sync` is for a crash or a restart before `unlock()`.  In `DataStore` the file is torn; in
  `Transfers` the stop is `TornSave`, and `KeptUntilReported` excepts what it destroys (`lost`).
- *A change nobody marks.*  At the end of `unlock()`, after its last `sync`, the read-only results of a
  diagnostics test are reset by `DM_ENG_Parameter_resetValue` (`DM_ENG_Parameter.c:420`), which unlike the setters does not
  mark the data: until another change is marked and saved, a stop brings the results of the test before back.
  `UnchangedIsSaved` speaks of the changes that are marked.
- *A backup overwritten by a broken file.*  `_writeParameters` renames the data file over the backup without
  looking at it (`DM_DAT1_ParameterData.c:659`) and ignores write errors: after one on a full disk, the next call destroys
  the only good file.  Writes that fail are therefore outside `DataStore`.

Values and RPCs:

- *A change that is not reported.*  A SetParameterValues that is refused has already filled the list of
  what the ACS knows (`DM_ENG_RPCInterface.c:225`) and resets the state of a parameter that had a change to
  report (`DM_ENG_Parameter.c:698`).  A notification that was queued during a setting puts its older
  value back (`DM_ENG_ParameterManager.c:2113`).  The value of a mandatory parameter in an earlier Inform
  makes a later Inform be skipped (`DM_ENG_NotificationInterface.c:228`).  `AcsInformed` and `ReadsFresh`
  leave these parameters out (`excused`).
- *Attributes restored in the wrong order.*  A refused SetParameterAttributes restores from first to last
  (`DM_ENG_RPCInterface.c:627`); a name given twice keeps the first of the new values.
- *A delete that is done and refused.*  DeleteObject answers 9005 for an instance the system does not know
  after it has deleted it.
- *Requests without an answer.*  A ScheduleInform without its CommandKey, SetVouchers and GetOptions; an empty
  result of GetParameterNames or GetParameterValues gives a fault with code 0.
- *Two tests at once.*  Each has its thread; one the device does not support never ends.
- *An entity per process.*  `_currentEntity` (`DM_ENG_RPCInterface.c:46`) is read and written by several threads
  without a lock; two clients of one entity are taken for one.

Transfers:

- *A result that nobody is told of.*  `transferComplete` tries the lock and, when refused, queues the result
  (`DM_ENG_ParameterManager.c:2260`, `2270`); when the owner has emptied the queue and unlocked in between, the
  scheduler, which waits without timeout (`DM_ENG_InformMessageScheduler.c:251`), is not woken, and the result waits for
  whatever takes the lock next.  `EventuallyReported` excepts it (`Stranded`).
- *Accepted and forgotten.*  A transfer the ACS was told is accepted is in memory only until the next
  save; `DM_ENG_TransferRequest.h:29` says "managed in a persistent manner".  The ghost `saved` of
  `KeptUntilReported` starts at the save.
- *Interrupted for ever.*  A transfer in progress at a stop is neither started again nor reported.
- *A result that blocks the others.*  That of an autonomous transfer has no key, `DM_ACS_TransfertComplete` gives
  up, and the results behind it are never sent.
- *A mutex that is not given back.*  When `DeviceInterfaceStubFile` is missing or empty, the list is not
  built and its mutex stays locked (`DM_DeviceAdapter.c:1122`); the next session hangs with the data lock.
- *A flag given back twice.*  After the take-over of thirty seconds the first owner clears the flag of the
  second (`_transferUnlock`).
- *Keys.*  A FactoryReset after a Reboot overwrites the first character of its key; a Reboot with a key that
  begins with `*` is a factory reset; keys and URLs that begin with `_` are read back as NULL, and those with a
  comma or semicolon break the lists.  `ControlData` assumes keys without these.
- *A reboot nobody hears of.*  The key is removed from the file at the first save after the start, before the event
  it stands for is stored.  `DM_SystemCalls_reboot` does nothing on a PC, yet the listeners were
  deactivated: the agent no longer informs.
- *Uploads.*  The result of `curl_easy_perform` is not looked at; 401 gives UPLOAD_FAILURE; the actions
  after a download are also done after an upload.
- *An unknown identifier.*  `DM_ENG_ParameterManager.c:2235` dereferences what `updateTransferRequest` returns;
  `Accounted` shows that the device of this repository never reports one.
- *Any answer confirms.*  An RPC of the ACS while a TransferComplete is not answered removes its result.

Connection requests:

- *Zeros that count.*  The arrays start with zeros, which are within the period while the clock is younger
  than the period (`DM_COM_ConnectionSecurity.c:149`).  `BootAge` excludes it.
- *A limit per listener.*  The HTTP server and the UDP listener have an array each; UDP records the request before it
  is asked whether it is granted.
- *A challenge for all.*  Each challenge replaces the last (`dm_com_digest.c:65`): two clients can keep each other
  out.  After a success the nonce stays valid.  The URL of the request is not compared.

STUN:

- *Two requests in one second.*  The time stamp of a connection request counts seconds and one identifier is
  kept (`dm_stun.c:1201-1206`): after requests A and B of one second, a repeat of A is accepted again, then one of B.
  `NoReplay` says so.
- *A prober that is left.*  A thread 3 that sleeps while STUN is switched off and on is not stopped and later raises
  the period above what the NAT keeps.  Lines 868-870 of `dm_stun.c` take a TIMEOUT that is received to mean "that
  the previous time sleep is ok".  `QuietToggles` excludes it.
- *An error that publishes.*  An error response that comes first in a window has the address 0.0.0.0, which is
  published.  `dm_stun.c:1267`: managed here is all "Except the TIMEOUT_RESPONSE or a BindingErrorResponse".
- *NATDetected* stays as it was when STUN is switched or the device's address changes.
- *One binding change.*  Line 1756: "MUST be sent several times"; `NB_TRANSMIT` is 1 (line 193).
- *Half a number.*  A buffer of two bytes makes 10 a 1 (`dm_stun.c:2620`), so that a minimum of ten or more above the
  maximum leaves a maximum below the minimum, and `TimeoutInRange` is false.
- *Odds and ends.*  The published port is the client's own, not the NAT's; `extractUdpParameters` returns
  TRUE whatever it found; the connection request's name and password are read once; an unknown attribute is
  encoded with 2+2n bytes and parsed as a multiple of 4.

Statistics:

- *A loop without its lock.*  A `continue` after the data lock was given up (lines 2074 and 2107 of
  `DM_ENG_StatisticsModule.c`) goes on without it and then unlocks somebody else's (`excused.slip`).
- *A node used after it is freed.*  Enable=false during lines 2071-2080 frees `stp` (`excused.freed`).
- *Enabled and never polled.*  An object enabled while the samplings start is dropped from the list
  (`excused.early`).
- *An end that hangs.*  Release before the device is ready: the loop that waits ignores `_EXITING` and, once
  `_dataMutex` is gone, `unlock()` does nothing; the join waits for ever (`Hung`).  After a normal release the
  lock file stays.
- *Readings out of order* count twice and move LastTimeStamp back (`backwards`); a forced sample followed by two
  empty intervals counts twice (`forced`).
- *Sliding window.*  Leading empty elements vanish, so that MinTime and MaxTime index wrong times; an empty
  window publishes a Min of 4294967295.
- *Arithmetic.*  Averages are truncated at each step; sums wrap at 2^32; SubSampleInterval 0 makes an object
  always due; `_checkStatEnabled` overwrites Error by Enabled.

## 8. Not modelled

- `ComputedExp`: the operators on numbers and texts (planned).  Aliases, conversions of
  values and the parsing of a configuration file.
- The text of SOAP, D-Bus and XML, the contents of HTTP headers, TLS: formats
  without control of their own.
- MD5 and SHA1, ixml: third-party code.
- The store on QDBM: an alternative that leaves transactions to the library.
- Of the device adapter, the stubs that read a PC and the older component interfaces; of the
  STUN client, ports and sockets that fail; of the statistics, the parameters created at the
  start.
- D-Bus clients as listeners and as owners of the engine (`DM_ENG_Lock`): their
  threads are not in the models but as other entities between sessions.
- Power loss, failing writes, memory allocation; time is counted in units of the
  intervals that matter.
