------------------------------ MODULE Transfers ------------------------------
(***************************************************************************)
(* The transfers from the command of the ACS to the TransferComplete that  *)
(* reports them, and the Reboot, ScheduleInform and download requests that *)
(* take the same way.  The scheduler thread (DM_ENG_InformMessageScheduler *)
(* .c), the threads of the transfers and the thread of the user interface  *)
(* (DM_DeviceAdapter.c) run concurrently; the agent may stop at any moment *)
(* and what it knows then is what was last saved.                          *)
(* The lock of the data model is held while engine is not "idle"; what is  *)
(* done under it in one call is one step, but a notification the lock      *)
(* refuses is queued later, and a stop may fall inside a save (TornSave).  *)
(***************************************************************************)
EXTENDS ControlData, DeviceAdapter, FileTransfer

CONSTANTS
  Requests,      \* the commands the ACS may send
  Keys,          \* the sequence of the command keys: the n-th command has the n-th
  Replies,       \* what a file server may answer
  MaxTime,       \* the last time of the clock
  MaxDisturbances   \* crashes, failures of sessions, waits for the flag of more than thirty
                    \* seconds, inputs and transfers of the device

\* A command has its key of Keys, each its own; a request has the nodes the parsing looks at.
ASSUME TransfersAssumption ==
  /\ Keys \in Seq({Keys[i] : i \in DOMAIN Keys}) /\ MaxTime \in Nat /\ MaxDisturbances \in Nat
  /\ \A i, j \in DOMAIN Keys : Keys[i] \notin {Null, ResetKey} /\ (Keys[i] = Keys[j] => i = j)
  /\ \A q \in Requests :
       /\ DOMAIN q = {"method", "key", "fileType", "url", "size", "delay", "target"}
       /\ q.delay \in Nat \cup {Absent, NotANumber}

VARIABLES
  ctrl,          \* the control data in memory
  disk,          \* the control data in the file
  now,           \* the clock, from 1: time 0 stands for none
  engine,        \* where the scheduler thread is
  retry,         \* retryOn
  pendingEvents, pendingChanges,
  threads,       \* the threads of the transfers
  ui,            \* what the thread of the user interface is doing
  sending,       \* the identifier of the result being sent (transferIdSending), or 0
  asking,        \* requestDownloadSending
  listeners,     \* the ACS is to be informed (deactivateAll was not called)
  commands, disturbances,   \* counters
  told,          \* ghost: what the ACS has heard of, <<key, fault>>; 0 for an event
  outcomes,      \* ghost: the results, <<key, fault>>
  saved,         \* ghost: the keys that were once in the file
  interrupted,   \* ghost: the transfers that were in progress when the agent stopped
  lost           \* ghost: the keys nobody will hear of

ghosts == <<told, outcomes, saved, interrupted, lost>>
counters == <<commands, disturbances>>
vars == <<ctrl, disk, now, engine, retry, pendingEvents, pendingChanges, threads, ui, sending, asking,
          listeners, counters, ghosts, deviceVars>>

Engine == 0
Ui == -1

TransferKeys(c) == {c.queue[i].key : i \in DOMAIN c.queue} \ {Null}
RebootKeys(c) == {c.reboot[i] : i \in DOMAIN c.reboot} \ {ResetKey}
EventKeys(events) == {e[2] : e \in events} \ {Null, ResetKey}
CommandKeys(c) ==
  TransferKeys(c) \cup RebootKeys(c) \cup EventKeys(c.events) \cup {c.scheduled[i].key : i \in DOMAIN c.scheduled}
InProgress(c) == {c.queue[i].id : i \in {j \in DOMAIN c.queue : c.queue[j].state = _IN_PROGRESS}}

\* DM_ENG_ParameterData_sync: what is in memory is now in the file.
Saves(c) == disk' = c /\ saved' = saved \cup CommandKeys(c)
Sync(c) == ctrl' = c /\ Saves(c)

LastKey == Keys[commands + 1]

-----------------------------------------------------------------------------
(* Notifications of the threads: processed at once when the lock is free, queued *)
(* otherwise.                                                                   *)

DM_ENG_SYNTAX_ERROR_IN_DATA_MODEL_EXTENSION_FILE == 9040

\* after: what _actionAfterDownload will find, which looks at the file of a transfer without
\* fault when it extends the data model.
Note(kind, id, fault, after) == [kind |-> kind, id |-> id, fault |-> fault, after |-> after]
Actions == {0, DM_ENG_SYNTAX_ERROR_IN_DATA_MODEL_EXTENSION_FILE}

\* The result of the transfer of a request.
ResultCode(note) == IF note.fault = 0 THEN note.after ELSE note.fault

\* processTransferCompleteResult, processRequestDownload, processVendorSpecificEvent.
processed(c, note) ==
  CASE note.kind = "transfer" /\ note.id # 0 -> updateTransferRequest(c, note.id, _COMPLETED, ResultCode(note))
    [] note.kind = "transfer" /\ note.id = 0 -> insertTransferRequest(c, Transfer(TRUE, Null, "http", 0, _COMPLETED, note.fault, FALSE))
    [] note.kind = "request" -> addDownloadRequest(c, "Firmware")
    [] OTHER -> c

\* A result is autonomous when its request has no command key.
EventOf(c, note) ==
  CASE note.kind = "transfer" ->
         IF \E i \in Places(c, note.id) : c.queue[i].key # Null
         THEN "7 TRANSFER COMPLETE" ELSE "10 AUTONOMOUS TRANSFER COMPLETE"
    [] note.kind = "request" -> "9 REQUEST DOWNLOAD"
    [] OTHER -> "X event"

\* DM_ENG_ParameterManager_transferComplete, _requestDownload, _vendorSpecificEvent and
\* _autonomousTransferComplete when tryLock succeeds.  Their unlock() takes what was queued
\* before; the lock is then held until that is done.
Processes(note) ==
  /\ engine = "idle"
  /\ Sync(processed(ctrl, note))
  /\ pendingEvents' = pendingEvents \cup {Event(EventOf(ctrl, note))}
  /\ engine' = IF pendingChanges = <<>> THEN "idle" ELSE "draining"
  /\ UNCHANGED pendingChanges

\* tryLock fails, after the wait for an unlock() that is under way.
Refused ==
  /\ engine \notin {"off", "idle", "unlocking", "draining"}
  /\ UNCHANGED <<ctrl, disk, saved, pendingEvents, engine, pendingChanges>>

\* Mutant of Enqueue: what was refused is dropped.
EnqueueNothing(note) == UNCHANGED <<pendingChanges, ctrl, disk, saved, pendingEvents, engine>>

\* What was refused is queued, whatever has happened meanwhile: the lock may be free by now.
Enqueue(note) ==
  /\ pendingChanges' = Append(pendingChanges, note)
  /\ UNCHANGED <<ctrl, disk, saved, pendingEvents, engine>>

-----------------------------------------------------------------------------
(* The threads of the transfers *)

\* One waits for the flag, thirty seconds at most.
Locks(p) ==
  \/ _transferLock(p) /\ UNCHANGED disturbances
  \/ /\ disturbances < MaxDisturbances /\ disturbances' = disturbances + 1
     /\ _transferLockTakesOver(p)

\* DM_ENG_Device_download, DM_ENG_Device_upload: a thread for the request.
NewThread(tr) ==
  [id |-> tr.id, download |-> tr.download, key |-> tr.key, url |-> tr.url, named |-> tr.named, step |-> "created"]
Becomes(th, step) == threads' = (threads \ {th}) \cup {[th EXCEPT !.step = step]}

\* _downloadThread and _uploadThread, until their file is known.
ThreadLocks(th) ==
  /\ th.step = "created"
  /\ Locks(th.id)
  /\ Becomes(th, IF th.named THEN "transferring" ELSE "locked")
  /\ UNCHANGED <<ctrl, disk, now, engine, retry, pendingEvents, pendingChanges, ui, sending, asking, listeners, commands, ghosts>>

ThreadReadsName(th) ==
  /\ \/ th.step = "locked" /\ _buildInfoList(th.id) /\ Becomes(th, "naming")
     \/ /\ th.step = "naming" /\ _freeInfoList /\ Becomes(th, "transferring")
        /\ UNCHANGED <<busy, file, saving, holders, takenOver>>
  /\ UNCHANGED <<ctrl, disk, now, engine, retry, pendingEvents, pendingChanges, ui, sending, asking, listeners, counters, ghosts>>

\* The results a transfer may have (DM_HttpGetFile, DM_HttpPutFile, DM_FtpPutFile).
Results(th) ==
  {Note("transfer", th.id, TransferResult(th.download, th.url, reply), after) : reply \in Replies, after \in Actions}

\* The transfer is over: the result of one that has a key is known, and its thread gives
\* the flag back.
Over(th, note) ==
  /\ outcomes' = IF th.key = Null THEN outcomes ELSE outcomes \cup {<<th.key, ResultCode(note)>>}
  /\ IF th.key = Null THEN threads' = threads \ {th} ELSE Becomes(th, "ending")

\* The transfer itself, and its result is processed;
ThreadTransfers(th) ==
  /\ th.step = "transferring"
  /\ \E note \in Results(th) : Processes(note) /\ Over(th, note)
  /\ UNCHANGED <<now, retry, ui, sending, asking, listeners, counters, told, interrupted, lost, deviceVars>>

\* or the lock is refused to it, and it is queued: nobody can tell which result it is before.
ThreadIsRefused(th) ==
  /\ th.step = "transferring" /\ Refused /\ Becomes(th, "refused")
  /\ UNCHANGED <<now, retry, ui, sending, asking, listeners, counters, told, outcomes, interrupted, lost, deviceVars>>

ThreadQueues(th) ==
  /\ th.step = "refused"
  /\ \E note \in Results(th) : Enqueue(note) /\ Over(th, note)
  /\ UNCHANGED <<now, retry, ui, sending, asking, listeners, counters, told, interrupted, lost, deviceVars>>

ThreadEnds(th) ==
  /\ th.step = "ending"
  /\ _transferUnlock(th.id)
  /\ threads' = threads \ {th}
  /\ UNCHANGED <<fileMutex, list, file, saving>>
  /\ UNCHANGED <<ctrl, disk, now, engine, retry, pendingEvents, pendingChanges, ui, sending, asking, listeners, counters, ghosts>>

ThreadStep(th) ==
  \/ ThreadLocks(th) \/ ThreadReadsName(th)
  \/ ThreadTransfers(th) \/ ThreadIsRefused(th) \/ ThreadQueues(th) \/ ThreadEnds(th)

-----------------------------------------------------------------------------
(* The user interface, and the transfers the device makes of its own *)

\* _deviceInterfaceSimulationThread: a new value or an event need the list, a
\* request for a download does not, nor the end of a transfer of the device that the engine
\* was not told of before (autonomousTransferComplete).
UiBegins ==
  /\ engine # "off" /\ ui = "waiting" /\ disturbances < MaxDisturbances
  /\ disturbances' = disturbances + 1
  /\ \/ \E choice \in {"value", "event"} : ui' = choice /\ _buildInfoList(Ui)
     \/ ui' \in {"request", "complete"} /\ UNCHANGED deviceVars
  /\ UNCHANGED <<ctrl, disk, now, engine, retry, pendingEvents, pendingChanges, threads, sending, asking, listeners, commands, ghosts>>

\* _setValue: only a name of the list makes it saved.
UiSaves ==
  /\ ui = "value" /\ _saveInfoList(Ui) /\ ui' = "saving"
  /\ UNCHANGED <<ctrl, disk, now, engine, retry, pendingEvents, pendingChanges, threads, sending, asking, listeners, counters, ghosts>>

UiFrees ==
  /\ ui \in {"value", "event", "saving"} /\ saving = "no"
  /\ _freeInfoList /\ ui' = IF ui = "event" THEN "notify" ELSE "waiting"
  /\ UNCHANGED <<busy, file, saving, holders, takenOver>>
  /\ UNCHANGED <<ctrl, disk, now, engine, retry, pendingEvents, pendingChanges, threads, sending, asking, listeners, counters, ghosts>>

UiNotes ==
  [notify |-> Note("vendor", 0, 0, 0), request |-> Note("request", 0, 0, 0), complete |-> Note("transfer", 0, 0, 0)]
UiRefused == [notify |-> "refusedEvent", request |-> "refusedRequest", complete |-> "refusedTransfer"]

UiNotifies ==
  /\ ui \in DOMAIN UiNotes
  /\ \/ Processes(UiNotes[ui]) /\ ui' = "waiting"
     \/ Refused /\ ui' = UiRefused[ui]
  /\ UNCHANGED <<now, retry, threads, sending, asking, listeners, counters, told, outcomes, interrupted, lost, deviceVars>>

UiQueues ==
  /\ \E kind \in DOMAIN UiNotes : ui = UiRefused[kind] /\ Enqueue(UiNotes[kind])
  /\ ui' = "waiting"
  /\ UNCHANGED <<now, retry, threads, sending, asking, listeners, counters, told, outcomes, interrupted, lost, deviceVars>>

\* DM_ENG_ParameterManager_autonomousTransferInProgress waits for the lock.
AutonomousInProgress ==
  /\ engine = "idle" /\ disturbances < MaxDisturbances
  /\ disturbances' = disturbances + 1
  /\ LET c == insertTransferRequest(ctrl, Transfer(TRUE, Null, "http", 0, _IN_PROGRESS, 0, FALSE))
     IN  /\ Sync(c)
         /\ threads' = threads \cup {[NewThread(Transfer(TRUE, Null, "http", 0, _IN_PROGRESS, 0, TRUE)) EXCEPT !.id = c.lastId, !.step = "transferring"]}
  /\ engine' = IF pendingChanges = <<>> THEN "idle" ELSE "draining"
  /\ UNCHANGED <<now, retry, pendingEvents, pendingChanges, ui, sending, asking, listeners, commands, told, outcomes, interrupted, lost, deviceVars>>

-----------------------------------------------------------------------------
(* The scheduler: run, sendMessage *)

\* Something to do: an event, the end of the delay after a failure, the next timeout.
Awaited ==
  \/ pendingEvents # {} \/ ctrl.events # {} \/ retry
  \/ LET next == getNextTimeout(ctrl) IN next # 0 /\ next <= now

\* The delay after a failure is over; not if an event cut it short.
Wake ==
  /\ engine = "idle" /\ Awaited
  /\ engine' = "locking"
  /\ retry' = (retry /\ pendingEvents # {})
  /\ UNCHANGED <<ctrl, disk, now, pendingEvents, pendingChanges, threads, ui, sending, asking, listeners, counters, ghosts, deviceVars>>

\* DM_ENG_Device_openSession, in two steps.
EngineOpens ==
  /\ \/ engine = "locking" /\ Locks(Engine) /\ engine' = "building"
     \/ engine = "building" /\ _buildInfoList(Engine) /\ engine' = "managing" /\ UNCHANGED disturbances
  /\ UNCHANGED <<ctrl, disk, now, retry, pendingEvents, pendingChanges, threads, ui, sending, asking, listeners, commands, ghosts>>

\* The head of the loop: the events are taken and saved, the transfers whose time has
\* come are started, then an Inform message is sent, except after a session, a failure
\* or without an event.  "ended" is the same place after a session.
EngineManages ==
  /\ engine \in {"managing", "ended"}
  /\ LET c == manageEvents(ctrl, pendingEvents, now)
     IN  /\ Sync(c)
         /\ threads' = threads \cup {NewThread(ctrl.queue[i]) : i \in DueTransfers(ctrl, now)}
         /\ IF retry \/ engine = "ended" \/ c.events = {} THEN engine' = "unlocking" /\ UNCHANGED retry
            ELSE IF ~listeners THEN engine' = "ended" /\ retry' = TRUE
            ELSE engine' = "inform" /\ UNCHANGED retry
  /\ pendingEvents' = {}
  /\ UNCHANGED <<now, pendingChanges, ui, sending, asking, listeners, counters, told, outcomes, interrupted, lost, deviceVars>>

\* DM_ENG_ParameterManager_unlock, of the scheduler or of a notification: what was notified
\* meanwhile, and is notified until the queue is empty, is processed first, one by one and
\* each saved (the save before finds nothing new after EngineManages);
EngineDrains ==
  /\ engine \in {"unlocking", "draining"} /\ pendingChanges # <<>>
  /\ Sync(processed(ctrl, Head(pendingChanges)))
  /\ pendingEvents' = pendingEvents \cup {Event(EventOf(ctrl, Head(pendingChanges)))}
  /\ pendingChanges' = Tail(pendingChanges)
  /\ UNCHANGED <<now, engine, retry, threads, ui, sending, asking, listeners, counters, told, outcomes, interrupted, lost, deviceVars>>

NotifierUnlocks ==
  /\ engine = "draining" /\ pendingChanges = <<>>
  /\ engine' = "idle"
  /\ UNCHANGED <<ctrl, disk, now, retry, pendingEvents, pendingChanges, threads, ui, sending, asking, listeners, counters, ghosts, deviceVars>>

\* then the device closes its session.
EngineUnlocks ==
  /\ engine = "unlocking" /\ pendingChanges = <<>>
  /\ engine' = "idle"
  /\ Sync(ctrl)
  /\ DM_ENG_Device_closeSession(Engine)
  /\ UNCHANGED <<now, retry, pendingEvents, pendingChanges, threads, ui, sending, asking, listeners, counters, told, outcomes, interrupted, lost>>

\* DM_ENG_InformMessageScheduler_isSessionOpened and DM_ENG_SessionOpened: the ACS
\* has answered the Inform message, its events are forgotten.
InformAnswered ==
  /\ engine = "inform"
  /\ engine' = "session"
  /\ Sync([ctrl EXCEPT !.events = {}])
  /\ told' = told \cup {<<key, 0>> : key \in EventKeys(ctrl.events)}
  /\ UNCHANGED <<now, retry, pendingEvents, pendingChanges, threads, ui, sending, asking, listeners, counters, outcomes, interrupted, lost, deviceVars>>

\* DM_ENG_InformMessageScheduler_isSessionOpened, by anything that comes from the ACS:
\* what was sent is confirmed.
Confirmed(c) ==
  IF sending # 0 THEN removeTransferRequest(c, sending)
  ELSE IF asking THEN removeFirstDownloadRequest(c) ELSE c

Confirm ==
  /\ sending' = 0 /\ asking' = FALSE
  /\ told' = told \cup {<<ctrl.queue[i].key, ctrl.queue[i].fault>> : i \in Places(ctrl, sending)}

\* A command of the ACS, due within the time of the clock (a bound).  The confirmation of
\* what was sent is saved; the command is not.  A transfer without delay starts.
Rpc ==
  /\ engine = "session" /\ saving = "no" /\ commands < Len(Keys)
  /\ Confirm
  /\ IF sending # 0 \/ asking THEN Saves(Confirmed(ctrl)) ELSE UNCHANGED <<disk, saved>>
  /\ \E m \in {q \in Requests : now + OrZero(q.delay) <= MaxTime} :
       LET r == Commands(Confirmed(ctrl), [m EXCEPT !.key = IF @ = Null THEN @ ELSE LastKey], now)
       IN  /\ ctrl' = r.control
           /\ commands' = IF r.answer \in {"status 1", "response"} THEN commands + 1 ELSE commands
           /\ threads' = threads \cup
                IF r.answer = "status 1" /\ OrZero(m.delay) = 0
                THEN {NewThread(r.control.queue[First(Places(r.control, r.control.lastId))])} ELSE {}
           /\ lost' = lost \cup (RebootKeys(ctrl) \ RebootKeys(r.control))
  /\ UNCHANGED <<now, engine, retry, pendingEvents, pendingChanges, ui, listeners, disturbances, outcomes, interrupted, deviceVars>>

\* The ACS sets a parameter the device keeps in its file.
EngineSaves ==
  /\ engine = "session" /\ disturbances < MaxDisturbances /\ _saveInfoList(Engine)
  /\ disturbances' = disturbances + 1
  /\ UNCHANGED <<ctrl, disk, now, engine, retry, pendingEvents, pendingChanges, threads, ui, sending, asking, listeners, commands, ghosts>>

\* A TransferComplete without command key, and an AutonomousTransferComplete is one, is
\* not sent; a RequestDownload needs a file type.
DM_ACS_TransfertComplete(result) == result.key # Null
DM_ACS_RequestDownloadCallback(fileType) == fileType # Null

\* The first result is sent; when it is not, nothing behind it is.
SendResult ==
  /\ engine = "session" /\ saving = "no" /\ sending = 0 /\ ~asking
  /\ LET result == getTransferResult(ctrl)
     IN  IF result # <<>> THEN DM_ACS_TransfertComplete(result[1]) /\ sending' = result[1].id /\ UNCHANGED asking
         ELSE ctrl.downloads # <<>> /\ DM_ACS_RequestDownloadCallback(ctrl.downloads[1]) /\ asking' = TRUE /\ UNCHANGED sending
  /\ UNCHANGED <<ctrl, disk, now, engine, retry, pendingEvents, pendingChanges, threads, ui, listeners, counters, ghosts, deviceVars>>

\* Mutant of Acknowledge: the last request of the queue goes.
AcknowledgeLast ==
  /\ engine = "session" /\ saving = "no" /\ sending # 0
  /\ Confirm
  /\ Sync([ctrl EXCEPT !.queue = Front(@)])
  /\ UNCHANGED <<now, engine, retry, pendingEvents, pendingChanges, threads, ui, listeners, counters, outcomes, interrupted, lost, deviceVars>>

\* The answer to it, and the save of DM_ENG_SessionOpened.
Acknowledge ==
  /\ engine = "session" /\ saving = "no" /\ (sending # 0 \/ asking)
  /\ Confirm
  /\ Sync(Confirmed(ctrl))
  /\ UNCHANGED <<now, engine, retry, pendingEvents, pendingChanges, threads, ui, listeners, counters, outcomes, interrupted, lost, deviceVars>>

\* DM_ENG_ParameterManager_checkReboot: nobody is informed any more, the platform
\* will restart.
checkReboot == listeners' = (listeners /\ ctrl.reboot = <<>>)

\* DM_ENG_SessionClosed with success, when DM_ENG_IsReadyToClose.
CloseSession ==
  /\ engine = "session" /\ saving = "no" /\ sending = 0 /\ ~asking
  /\ getTransferResult(ctrl) = <<>> /\ ctrl.downloads = <<>>
  /\ engine' = "ended"
  /\ checkReboot
  /\ UNCHANGED <<ctrl, disk, now, retry, pendingEvents, pendingChanges, threads, ui, sending, asking, counters, ghosts, deviceVars>>

\* The message is not answered, or the session fails: the engine will try again.  A
\* session whose first result cannot be sent ends with its time.
SessionFails ==
  /\ engine \in {"inform", "session"} /\ saving = "no"
  /\ LET result == getTransferResult(ctrl)
     IN  \/ disturbances < MaxDisturbances /\ disturbances' = disturbances + 1 /\ checkReboot
         \/ /\ engine = "session" /\ result # <<>> /\ ~DM_ACS_TransfertComplete(result[1])
            /\ UNCHANGED <<disturbances, listeners>>
  /\ engine' = "ended" /\ retry' = TRUE
  /\ sending' = 0 /\ asking' = FALSE
  /\ UNCHANGED <<ctrl, disk, now, pendingEvents, pendingChanges, threads, ui, commands, ghosts, deviceVars>>

-----------------------------------------------------------------------------
(* Starting and stopping *)

\* DM_ENG_ParameterData_init, _bootEvent, and the scheduler thread starts: the Reboot
\* keys become events, which are saved at the head of the loop.
Boot ==
  /\ engine = "off"
  /\ engine' = "locking"
  /\ LET c == _readDmControl(disk)
     IN  /\ Sync(setRebootCommandKey(c))
         /\ pendingEvents' = {Event("1 BOOT")} \cup {<<"M Reboot", c.reboot[i]>> : i \in DOMAIN c.reboot}
         /\ interrupted' = interrupted \cup InProgress(c)
  /\ listeners' = TRUE
  /\ DM_ENG_Device_init
  /\ UNCHANGED <<now, retry, pendingChanges, threads, ui, sending, asking, counters, told, outcomes, lost>>

\* The process ends: only the files remain.
Stops ==
  /\ engine' = "off" /\ retry' = FALSE
  /\ ctrl' = EmptyControl /\ pendingEvents' = {} /\ pendingChanges' = <<>>
  /\ threads' = {} /\ ui' = "waiting" /\ sending' = 0 /\ asking' = FALSE
  /\ listeners' = FALSE
  /\ UNCHANGED <<now, commands>>
  /\ DM_ENG_Device_init

\* At any moment.  Between the boot and the first save of the events, the Reboot keys
\* are nowhere.
Crash ==
  /\ engine # "off" /\ disturbances < MaxDisturbances
  /\ disturbances' = disturbances + 1
  /\ Stops
  /\ lost' = lost \cup EventKeys(pendingEvents)
  /\ UNCHANGED <<disk, told, outcomes, saved, interrupted>>

\* The control data has one file, which _writeDmControl truncates before it writes it: a stop
\* inside a save leaves nothing to read.  The saves are in the steps with a Sync.
TornSave ==
  /\ engine \notin {"locking", "building"} /\ (engine = "session" => sending # 0 \/ asking)
  /\ disturbances < MaxDisturbances /\ disturbances' = disturbances + 1
  /\ Stops
  /\ disk' = EmptyControl /\ interrupted' = {}
  /\ lost' = lost \cup CommandKeys(disk) \cup EventKeys(pendingEvents)
  /\ UNCHANGED <<told, outcomes, saved>>

\* The system restarts the device after checkReboot, at any moment once the scheduler
\* has saved the command.  A factory reset erases the files of the agent.
PlatformReboots ==
  /\ engine # "off" /\ ~listeners /\ disk.reboot # <<>>
  /\ Stops
  /\ IF disk.reboot[1] = ResetKey
     THEN /\ disk' = EmptyControl
          /\ told' = {} /\ outcomes' = {} /\ saved' = {} /\ interrupted' = {} /\ lost' = {}
     ELSE UNCHANGED <<disk, ghosts>>
  /\ UNCHANGED disturbances

Saving ==
  /\ _saveInfoListOpens \/ _saveInfoListWrites
  /\ UNCHANGED <<ctrl, disk, now, engine, retry, pendingEvents, pendingChanges, threads, ui, sending, asking, listeners, counters, ghosts>>

\* A bound of the model: the clock goes on between the sessions.
Tick ==
  /\ engine \in {"idle", "off"}
  /\ now < MaxTime /\ now' = now + 1
  /\ UNCHANGED <<ctrl, disk, engine, retry, pendingEvents, pendingChanges, threads, ui, sending, asking, listeners, counters, ghosts, deviceVars>>

-----------------------------------------------------------------------------
Init ==
  /\ ctrl = EmptyControl /\ disk = EmptyControl /\ now = 1
  /\ engine = "off" /\ retry = FALSE
  /\ pendingEvents = {} /\ pendingChanges = <<>>
  /\ threads = {} /\ ui = "waiting" /\ sending = 0 /\ asking = FALSE /\ listeners = FALSE
  /\ commands = 0 /\ disturbances = 0
  /\ told = {} /\ outcomes = {} /\ saved = {} /\ interrupted = {} /\ lost = {}
  /\ busy = FALSE /\ fileMutex = NoOne /\ list = FALSE /\ file = "good" /\ saving = "no"
  /\ holders = {} /\ takenOver = FALSE

Threads == \E th \in threads : ThreadStep(th)
UiThread == UiSaves \/ UiFrees \/ UiNotifies \/ UiQueues
Scheduler == Wake \/ EngineOpens \/ EngineManages \/ EngineDrains \/ NotifierUnlocks \/ EngineUnlocks
Acs == InformAnswered \/ SendResult \/ Acknowledge \/ CloseSession \/ SessionFails

Next ==
  \/ Threads \/ UiBegins \/ UiThread
  \/ AutonomousInProgress
  \/ Scheduler \/ Acs \/ Rpc \/ EngineSaves
  \/ Boot \/ Crash \/ TornSave \/ PlatformReboots \/ Saving \/ Tick

\* The threads run, the clock goes on, the ACS answers, the device restarts when it is
\* told to.  That the user or the ACS asks for something is not assumed.
Fairness ==
  /\ WF_vars(Boot \/ Scheduler \/ Acs) /\ WF_vars(UiThread) /\ WF_vars(PlatformReboots)
  /\ WF_vars(Saving) /\ WF_vars(Tick)
  /\ \A id \in 1..(Len(Keys) + MaxDisturbances) : WF_vars(\E th \in threads : th.id = id /\ ThreadStep(th))

Spec == Init /\ [][Next]_vars /\ Fairness

-----------------------------------------------------------------------------
(* Properties *)

\* Types, and the places a thread can be in.
TransferTypeOK ==
  /\ DeviceTypeOK
  /\ engine \in {"off", "idle", "locking", "building", "managing", "ended", "inform", "session", "unlocking", "draining"}
  /\ ui \in {"waiting", "value", "saving", "event"} \cup DOMAIN UiNotes \cup {UiRefused[kind] : kind \in DOMAIN UiNotes}
  /\ {retry, asking, listeners} \subseteq BOOLEAN
  /\ \A th \in threads : th.step \in {"created", "locked", "naming", "transferring", "refused", "ending"}
  /\ \A i \in DOMAIN ctrl.queue : ctrl.queue[i].state \in 1..3
  /\ \A i, j \in DOMAIN ctrl.queue : ctrl.queue[i].id = ctrl.queue[j].id => i = j
  /\ saving # "no" => fileMutex # NoOne /\ list

NotesFor(id) == {i \in DOMAIN pendingChanges : pendingChanges[i].kind = "transfer" /\ pendingChanges[i].id = id}
Working(id) == {th \in threads : th.id = id /\ th.step # "ending"}

\* Every request in progress has exactly one thread at work or one result on its way,
\* except those a stop interrupted; and every thread and every result on its way has its
\* request: processTransferCompleteResult uses what updateTransferRequest returns
\* without a look (DM_ENG_ParameterManager.c:2234-2235).
Accounted ==
  engine # "off" =>
    /\ \A id \in InProgress(ctrl) \ interrupted : Cardinality(NotesFor(id)) + Cardinality(Working(id)) = 1
    /\ \A id \in {th.id : th \in {t \in threads : t.step # "ending"}} \cup
                 {pendingChanges[i].id : i \in {j \in DOMAIN pendingChanges : pendingChanges[j].kind = "transfer"}} :
         id = 0 \/ id \in InProgress(ctrl)

\* A command that was once in the file stays there, as a request and then as an event,
\* until the ACS has heard of it, and hears of the result a transfer had ("managed in a
\* persistent manner", DM_ENG_TransferRequest.h:29).  What lost holds are the commands of a
\* file whose save a stop tore (TornSave), the Reboot keys between the boot and the next save
\* (Crash), and those a FactoryReset command takes the place of.
KeptUntilReported ==
  /\ \A key \in saved :
       key \in CommandKeys(disk) \cup EventKeys(pendingEvents) \cup {t[1] : t \in told} \cup lost
  /\ \A key \in {o[1] : o \in outcomes}, t \in told : key = t[1] => t \in outcomes

\* The scheduler wakes up for the earliest of the transfers and of the ScheduleInform
\* commands, though it looks at one of each only
\* (DM_ENG_ParameterManager_getNextTimeout).
EarliestFirst ==
  LET next == getNextTimeout(ctrl)
  IN  /\ \A i \in DOMAIN ctrl.queue : ctrl.queue[i].state = _NOT_YET_STARTED => next # 0 /\ next <= ctrl.queue[i].due
      /\ \A i \in DOMAIN ctrl.scheduled : next # 0 /\ next <= ctrl.scheduled[i].time

\* The sessions and the transfers do not overlap (DM_DeviceAdapter.c:251), unless
\* somebody has waited for more than thirty seconds.
Exclusion == Cardinality(holders) > 1 => takenOver

\* What keeps a result from the ACS for good: an autonomous one is in front of it, or
\* the list cannot be built and its mutex is not given back.
Blocked ==
  \/ \E i \in DOMAIN ctrl.queue : ctrl.queue[i].key = Null
  \/ ~Readable(file)

\* The result of a command was refused the lock and queued when the unlock() that would have
\* taken it was over: nobody is told, and the scheduler sleeps.
Stranded(key) ==
  /\ engine = "idle"
  /\ \E i \in DOMAIN pendingChanges, j \in DOMAIN ctrl.queue :
       pendingChanges[i].kind = "transfer" /\ ctrl.queue[j].id = pendingChanges[i].id /\ ctrl.queue[j].key = key

\* A transfer that is in the file is carried out and reported, unless a stop
\* interrupted it, the file was erased or results are blocked
\* (DM_ENG_ParameterManager_manageEvents, DM_ENG_InformMessageScheduler.c:309-325), or its
\* result was queued too late and nothing wakes the scheduler any more
\* (DM_ENG_ParameterManager.c:2260-2272, DM_ENG_InformMessageScheduler.c:251-253).
EventuallyReported ==
  \A i \in 1..Len(Keys) :
    \/ (Keys[i] \in TransferKeys(disk)) ~>
         \/ Keys[i] \notin TransferKeys(disk) \/ Blocked
         \/ \E j \in DOMAIN disk.queue : disk.queue[j].key = Keys[i] /\ disk.queue[j].id \in interrupted
    \/ <>[]Stranded(Keys[i])

\* A session that waits for the device gets it, while the file is there: the flag and
\* the mutex are given back (DM_ENG_Device_openSession).
SessionOpens == (engine \in {"locking", "building"}) ~> (engine \notin {"locking", "building"} \/ ~Readable(file))
=============================================================================
