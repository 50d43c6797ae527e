----------------------------- MODULE ControlData -----------------------------
(***************************************************************************)
(* What the agent has to remember of the commands of the ACS: the transfer *)
(* requests, the requests for a download, the ScheduleInform commands, the *)
(* Reboot command keys and the events not yet delivered.                   *)
(* DM_DAT1_ParameterData.c keeps and saves them, DM_ENG_ParameterManager.c *)
(* makes them evolve, dm_com.c parses the commands.  The value is one      *)
(* record; an operator takes it and returns it changed.                    *)
(* A command key does not hold a comma or a semicolon and does not begin   *)
(* with an underscore: the files would not give it back.                   *)
(***************************************************************************)
EXTENDS Integers, FiniteSets, Sequences, SequencesExt

Null == "null"        \* NULL; a missing node of a request
Absent == -1          \* a missing number
NotANumber == -2      \* a text that is not a number
Empty == ""
ResetKey == "*"       \* the command key FactoryReset stands for

_NOT_YET_STARTED == 1
_IN_PROGRESS == 2
_COMPLETED == 3

\* scheduled: the comma-separated lists of times and keys; reboot: that of the keys.
EmptyControl ==
  [queue |-> <<>>, lastId |-> 0, downloads |-> <<>>, scheduled |-> <<>>, reboot |-> <<>>, events |-> {}]

\* The events this model is about: a code, and a command key.
Event(code) == <<code, Null>>

-----------------------------------------------------------------------------
(* The queue of the transfers *)

\* DM_ENG_newTransferRequest.  An autonomous transfer has no command key.
\* named: it says where to put the file (targetFileName).
Transfer(download, key, url, due, state, fault, named) ==
  [id |-> 0, download |-> download, key |-> key, url |-> url, due |-> due, state |-> state, fault |-> fault, named |-> named]

First(S) == CHOOSE i \in S : \A j \in S : i <= j

\* The place before the first of the elements from "from" on that is due later.
PlaceOf(queue, due, from) ==
  LET later == {i \in from..Len(queue) : queue[i].due > due}
  IN  IF later = {} THEN Len(queue) + 1 ELSE First(later)

\* Mutant of insertTransferRequest: the new request is put at the end.
insertTransferRequestLast(c, tr) ==
  [c EXCEPT !.lastId = @ + 1, !.queue = Append(@, [tr EXCEPT !.id = c.lastId + 1])]

insertTransferRequest(c, tr) ==
  [c EXCEPT !.lastId = @ + 1,
            !.queue = InsertAt(@, PlaceOf(@, tr.due, 1), [tr EXCEPT !.id = c.lastId + 1])]

Places(c, id) == {i \in DOMAIN c.queue : c.queue[i].id = id}

removeTransferRequest(c, id) ==
  IF Places(c, id) = {} THEN c ELSE [c EXCEPT !.queue = RemoveAt(@, First(Places(c, id)))]

updateTransferRequest(c, id, state, code) ==
  IF Places(c, id) = {} THEN c
  ELSE [c EXCEPT !.queue[First(Places(c, id))] = [@ EXCEPT !.state = state, !.fault = code]]

\* The first result, if there is one.
getTransferResult(c) ==
  LET results == {i \in DOMAIN c.queue : c.queue[i].state = _COMPLETED}
  IN  IF results = {} THEN <<>> ELSE <<c.queue[First(results)]>>

-----------------------------------------------------------------------------
(* Reading the file *)

\* DM_ENG_addTransferRequest never inserts before the head.
addTransferRequest(queue, tr) ==
  IF queue = <<>> THEN <<tr>> ELSE InsertAt(queue, PlaceOf(queue, tr.due, 2), tr)

addNewTransferRequest(c, tr) ==
  [c EXCEPT !.queue = addTransferRequest(@, tr), !.lastId = IF tr.id > @ THEN tr.id ELSE @]

\* The lines of the queue, one after the other.
_readDmControl(file) ==
  LET read[n \in 0..Len(file.queue)] ==
        IF n = 0 THEN [file EXCEPT !.queue = <<>>, !.lastId = 0]
        ELSE addNewTransferRequest(read[n - 1], file.queue[n])
  IN  read[Len(file.queue)]

-----------------------------------------------------------------------------
(* ScheduleInform and Reboot *)

addScheduledInformCommand(c, time, key) ==
  IF time <= 0 \/ key = Null THEN c
  ELSE LET later == {i \in DOMAIN c.scheduled : c.scheduled[i].time > time}
           at == IF later = {} THEN Len(c.scheduled) + 1 ELSE First(later)
       IN  [c EXCEPT !.scheduled = InsertAt(@, at, [time |-> time, key |-> key])]

\* The command of a factory reset takes the first character of the keys there are.
addRebootCommandKey(c, key) ==
  IF key = ResetKey /\ c.reboot # <<>> THEN [c EXCEPT !.reboot[1] = ResetKey]
  ELSE [c EXCEPT !.reboot = Append(@, key)]

setRebootCommandKey(c) == [c EXCEPT !.reboot = <<>>]

\* The first download request was sent.
removeFirstDownloadRequest(c) == IF c.downloads = <<>> THEN c ELSE [c EXCEPT !.downloads = Tail(@)]

addDownloadRequest(c, fileType) == [c EXCEPT !.downloads = Append(@, fileType)]

-----------------------------------------------------------------------------
(* DM_ENG_ParameterManager_manageEvents *)

\* The ScheduleInform commands to carry out, first to last.
DueCommands(c, now) == {i \in DOMAIN c.scheduled : \A j \in 1..i : c.scheduled[j].time <= now}

manageScheduled(c, now) ==
  LET due == DueCommands(c, now)
  IN  [c EXCEPT !.scheduled = SubSeq(@, Cardinality(due) + 1, Len(@)),
                !.events = @ \cup {<<"M ScheduleInform", c.scheduled[i].key>> : i \in due}
                             \cup (IF due = {} THEN {} ELSE {Event("3 SCHEDULED")})]

\* The transfers it starts: their time has come.
DueTransfers(c, now) == {i \in DOMAIN c.queue : c.queue[i].state = _NOT_YET_STARTED /\ c.queue[i].due <= now}

TransferEvents(c) ==
  {Event(IF c.queue[i].key = Null THEN "10 AUTONOMOUS TRANSFER COMPLETE" ELSE "7 TRANSFER COMPLETE") :
     i \in {j \in DOMAIN c.queue : c.queue[j].state = _COMPLETED}}

\* The device takes a transfer over: it is asynchronous.
manageTransfers(c, now) ==
  [c EXCEPT !.queue = [i \in DOMAIN @ |-> IF i \in DueTransfers(c, now) THEN [@[i] EXCEPT !.state = _IN_PROGRESS] ELSE @[i]],
            !.events = @ \cup TransferEvents(c)
                         \cup (IF c.downloads = <<>> THEN {} ELSE {Event("9 REQUEST DOWNLOAD")})]

manageEvents(c, pendingEvents, now) ==
  manageTransfers(manageScheduled([c EXCEPT !.events = @ \cup pendingEvents], now), now)

\* Mutant of getNextTimeout: the transfers are forgotten.
getNextTimeoutOfInform(c) == IF c.scheduled = <<>> THEN 0 ELSE c.scheduled[1].time

\* When the scheduler has to wake up, 0 for never: only the first of the transfers
\* to start is looked at.
getNextTimeout(c) ==
  LET waiting == {i \in DOMAIN c.queue : c.queue[i].state = _NOT_YET_STARTED}
      transfer == IF waiting = {} THEN 0 ELSE c.queue[First(waiting)].due
      inform == IF c.scheduled = <<>> THEN 0 ELSE c.scheduled[1].time
  IN  IF inform # 0 /\ (transfer = 0 \/ inform < transfer) THEN inform ELSE transfer

-----------------------------------------------------------------------------
(* The commands of the ACS: the nodes of the request, what becomes of the    *)
(* control data, the answer.                                                 *)

Uint(number) == number # NotANumber
OrZero(number) == IF number = Absent THEN 0 ELSE number

Done(c, answer) == [control |-> c, answer |-> answer]
Fault(c) == Done(c, "INVALID_ARGUMENTS")

\* DM_ENG_ParameterManager_manageTransferRequest.  A transfer without delay is given
\* to the device at once, as the device is asynchronous the answer is status 1.
manageTransferRequest(c, m, download, now) ==
  LET delay == OrZero(m.delay)
      state == IF delay = 0 THEN _IN_PROGRESS ELSE _NOT_YET_STARTED
  IN  insertTransferRequest(c, Transfer(download, m.key, m.url, now + delay, state, 0, download /\ m.target # Null))

ParseDownload(m) == m.key # Null /\ m.fileType # Null /\ m.url # Null /\ Uint(m.size) /\ Uint(m.delay)
ParseUpload(m) == m.key # Null /\ m.fileType # Null /\ m.url # Null /\ Uint(m.delay)

DM_SUB_Download(c, m, now) ==
  IF ParseDownload(m) THEN Done(manageTransferRequest(c, m, TRUE, now), "status 1") ELSE Fault(c)

DM_SUB_Upload(c, m, now) ==
  IF ParseUpload(m) THEN Done(manageTransferRequest(c, m, FALSE, now), "status 1") ELSE Fault(c)

\* Without a command key the request is not answered.
DM_SUB_ScheduleInform(c, m, now) ==
  IF m.delay = Absent THEN Fault(c)
  ELSE IF m.key = Null THEN Done(c, "none")
  ELSE IF ~Uint(m.delay) \/ m.delay = 0 THEN Fault(c)
  ELSE Done(addScheduledInformCommand(c, now + m.delay, m.key), "response")

DM_SUB_Reboot(c, m, now) ==
  IF m.key = Null THEN Fault(c) ELSE Done(addRebootCommandKey(c, m.key), "response")

DM_SUB_FactoryReset(c, m, now) == Done(addRebootCommandKey(c, ResetKey), "response")

\* GetAllQueuedTransfers tells the whole queue, GetQueuedTransfers is not supported.
DM_SUB_GetAllQueuedTransferts(c, m, now) == Done(c, "queue")

Commands(c, m, now) ==
  CASE m.method = "Download" -> DM_SUB_Download(c, m, now)
    [] m.method = "Upload" -> DM_SUB_Upload(c, m, now)
    [] m.method = "ScheduleInform" -> DM_SUB_ScheduleInform(c, m, now)
    [] m.method = "Reboot" -> DM_SUB_Reboot(c, m, now)
    [] m.method = "FactoryReset" -> DM_SUB_FactoryReset(c, m, now)
    [] m.method = "GetAllQueuedTransfers" -> DM_SUB_GetAllQueuedTransferts(c, m, now)
    [] OTHER -> Done(c, "METHOD_NOT_SUPPORTED")
=============================================================================
