--------------------------- MODULE InformScheduler ---------------------------
(***************************************************************************)
(* The Inform message scheduler of the DM engine                           *)
(* (dm_engine/src/DM_ENG_InformMessageScheduler.c) with the part of the    *)
(* parameter manager it drives: the event list, the results of transfers,  *)
(* the download requests and the retry counter.                            *)
(*                                                                         *)
(* Scheduler threads run function run(); they are created when the device  *)
(* status says that the agent must run.  Everything else is a caller:      *)
(* the system that notifies, the communication module that reports on the  *)
(* session with the ACS, and the HTTP server that receives connection      *)
(* requests.                                                               *)
(*                                                                         *)
(* Locks.  dataLock is the lock on the data model (ParameterManager_lock); *)
(* schedulerMutex protects the scheduler's own state.  _statusMutex has no *)
(* variable: every section it protects is one step here.  A step by        *)
(* another caller that needs the data lock or schedulerMutex and releases  *)
(* it again is one step guarded by the lock being free.                    *)
(***************************************************************************)
EXTENDS Naturals, FiniteSets

CONSTANTS
  Threads,            \* bound: threads that exist at once; run() is created again and again
  NoThread,           \* no owner
  Reported,           \* device statuses the system reports
  InitialStatus,      \* lastStatus after init: depends on DM_ENG_InitLevel
  Posted,             \* events the other modules post through addEvent
  Transfers,          \* identifiers of transfers that complete, in list order
  Downloads,          \* download requests of the device, in list order
  InitialRetryDelay,  \* 5 in the code
  MaxRetryDelay,      \* 2560 in the code
  MaxRetryCount,      \* bound: RetryCount is counted up to this value
  Disturbances        \* which rare circumstances this instance includes

DeviceStatus == {"UNINITIALIZED", "DOWN", "UP", "INITIALIZING", "ERROR", "DISABLED"}
EventCode == {"BOOTSTRAP", "BOOT", "PERIODIC", "VALUE_CHANGE", "CONNECTION_REQUEST",
              "TRANSFER_COMPLETE", "REQUEST_DOWNLOAD", "DIAGNOSTICS_COMPLETE", "VENDOR"}
NotificationStatus == {"COMPLETED", "SESSION_OPENING", "SESSION_OPENED", "CANCELLED"}

(***************************************************************************)
(* "timeout": a session outlives MAX_SESSION_TIME (600 s).                 *)
(* "mute": the last changed parameter loses its notification attribute.    *)
(* "unready": no listener is registered (NotificationInterface_isReady).   *)
(* "late": a Fault of the ACS is handled after its session was closed.     *)
(* "queue": the system, not the ACS, asks for a transfer with a delay.     *)
(***************************************************************************)
Disturbance == {"timeout", "mute", "unready", "late", "queue"}

ASSUME ThreadsAssumption == IsFiniteSet(Threads) /\ NoThread \notin Threads
ASSUME StatusAssumption  == Reported \subseteq DeviceStatus \ {"UNINITIALIZED"}
                            /\ InitialStatus \in {"UNINITIALIZED", "DOWN", "DISABLED"}
ASSUME EventsAssumption  == Posted \subseteq EventCode /\ Disturbances \subseteq Disturbance
ASSUME QueuesAssumption  == Transfers \subseteq Nat \ {0} /\ Downloads \subseteq Nat
ASSUME DelaysAssumption  == /\ InitialRetryDelay \in Nat \ {0}
                            /\ MaxRetryDelay \in Nat
                            /\ InitialRetryDelay <= MaxRetryDelay
                            /\ MaxRetryCount \in Nat \ {0}

VARIABLES
  lastStatus, alive,                \* device status last seen; scheduler running
  pc, inSession, noEvent, wake,     \* per thread: position, locals of run(), signalled
  dataLock, schedulerMutex,         \* owners
  sendMessageStatus, transferIdSending, requestDownloadSending,
  pendingEvents, events, changed,   \* posted, registered; a value changed
  results, downloads,               \* completed transfers, download requests
  retryOn, retryDelay, retryCount,
  timer, planned,                   \* next timeout; is nextInformTime set
  bSession, informAcked, posts,     \* com: session, Inform answered, open HTTP posts
  asking, ready, closing,           \* in IsReadyToClose, its answer; in SessionClosed
  server,                           \* the HTTP server on a connection request
  lastSession,                      \* history: how the last session ended
  lateEnd                           \* history: alive was reset under a restarted scheduler

threadVars  == <<pc, inSession, noEvent, wake>>
lockVars    == <<dataLock, schedulerMutex>>
statusVars  == <<sendMessageStatus, transferIdSending, requestDownloadSending>>
eventVars   == <<pendingEvents, events, changed>>
queueVars   == <<results, downloads>>
retryVars   == <<retryOn, retryDelay, retryCount>>
timeVars    == <<timer, planned>>
comVars     == <<bSession, informAcked, posts, asking, ready, closing>>
history     == <<lastSession, lateEnd>>
vars == <<lastStatus, alive, threadVars, lockVars, statusVars, eventVars, queueVars,
          retryVars, timeVars, comVars, server, history>>

MaxPosts == 2                          \* bound: more open posts are not told apart
Open    == {"SESSION_OPENING", "SESSION_OPENED"}
Stopped == {"INITIALIZING", "DOWN"}    \* the statuses that stop the scheduler

(***************************************************************************)
(* Positions of a thread in run():                                         *)
(*   off     not created, or ended                                         *)
(*   create  started, waits for the data lock     begin  waits for mutex   *)
(*   top     head of the loop, both locks held                             *)
(*   send    in sendMessage, before the Inform    loop   in-session test   *)
(*   wait    in the in-session wait                                        *)
(*   unlock  unlocks the data before it waits     plan   plans its wait    *)
(*   sleep   waits for a signal                   snooze same, or timeout  *)
(*   retry   waits the delay after a failure      nap    the 200 ms pause  *)
(*   relock  waits for the data lock again        enter  waits for mutex   *)
(*   quit    unlocks the data before it ends      end    waits for mutex   *)
(***************************************************************************)
Position == {"off", "create", "begin", "top", "send", "loop", "wait", "unlock", "plan",
             "sleep", "snooze", "retry", "nap", "relock", "enter", "quit", "end"}
WaitPoints == {"wait", "sleep", "snooze", "retry", "nap"}         \* on _schedulerCond
HoldsData  == {"begin", "top", "send", "loop", "wait", "unlock", "enter", "quit"}
HoldsMutex == {"top", "send", "loop"}
InSessionPoints == {"send", "loop", "wait"}

\* Types: the state of the scheduler, of the control data it drives and of its callers;
\* the retry delay stays below twice its limit.
TypeOK ==
  /\ lastStatus \in DeviceStatus /\ alive \in BOOLEAN
  /\ pc \in [Threads -> Position]
  /\ inSession \in [Threads -> BOOLEAN]
  /\ noEvent \in [Threads -> BOOLEAN]
  /\ wake \in [Threads -> BOOLEAN]
  /\ dataLock \in Threads \cup {NoThread}
  /\ schedulerMutex \in Threads \cup {NoThread}
  /\ sendMessageStatus \in NotificationStatus
  /\ transferIdSending \in Transfers \cup {0}
  /\ requestDownloadSending \in BOOLEAN
  /\ pendingEvents \subseteq EventCode /\ events \subseteq EventCode
  /\ changed \in BOOLEAN
  /\ results \subseteq Transfers /\ downloads \subseteq Downloads
  /\ retryOn \in BOOLEAN
  /\ retryDelay \in 0 .. 2 * MaxRetryDelay /\ retryCount \in 0 .. MaxRetryCount
  /\ timer \in {"none", "armed", "due"} /\ planned \in BOOLEAN
  /\ bSession \in BOOLEAN /\ informAcked \in BOOLEAN /\ posts \in 0 .. MaxPosts
  /\ asking \in BOOLEAN /\ ready \in BOOLEAN /\ closing \in BOOLEAN
  /\ server \in {"idle", "admitted", "locking", "posting"}
  /\ lastSession \in {"none", "ok", "failed"} /\ lateEnd \in BOOLEAN

Init ==
  /\ lastStatus = InitialStatus /\ alive = FALSE
  /\ pc = [t \in Threads |-> "off"]
  /\ inSession = [t \in Threads |-> FALSE]
  /\ noEvent = [t \in Threads |-> FALSE]
  /\ wake = [t \in Threads |-> FALSE]
  /\ dataLock = NoThread /\ schedulerMutex = NoThread
  /\ sendMessageStatus = "COMPLETED" /\ transferIdSending = 0
  /\ requestDownloadSending = FALSE
  /\ pendingEvents = {} /\ events = {} /\ changed = FALSE
  /\ results = {} /\ downloads = {}
  /\ retryOn = FALSE /\ retryDelay = 0 /\ retryCount = 0
  /\ timer = "none" /\ planned = FALSE
  /\ bSession = FALSE /\ informAcked = FALSE /\ posts = 0
  /\ asking = FALSE /\ ready = FALSE /\ closing = FALSE /\ server = "idle"
  /\ lastSession = "none" /\ lateEnd = FALSE

-----------------------------------------------------------------------------
(* Helpers *)

Goto(t, p) == pc' = [pc EXCEPT ![t] = p]

Waiters == {t \in Threads : pc[t] \in WaitPoints /\ ~wake[t]}

\* DM_CMN_Thread_signalCond: pthread_cond_signal unblocks at least one waiter.
SignalCond ==
  IF Waiters = {}
  THEN wake' = wake
  ELSE \E W \in (SUBSET Waiters) \ {{}} :
         wake' = [t \in Threads |-> wake[t] \/ t \in W]

\* The queues are kept in list order; the identifiers number that order.
IsFirst(x, S) == x \in S /\ \A y \in S : x <= y
RemoveFirst(S) == {x \in S : \E y \in S : y < x}

\* Mutant of ClearEvents: the retry counter is not reset.
ClearEventsNoReset ==
  /\ events' = {}
  /\ changed' = (changed /\ events = {})
  /\ UNCHANGED retryCount

\* clearEvents: does nothing when the list is empty.
ClearEvents ==
  /\ events' = {}
  /\ changed' = (changed /\ events = {})
  /\ retryCount' = IF events = {} THEN retryCount ELSE 0

\* What is transmitted with success is erased: isSessionOpened(true).
Confirm ==
  /\ IF sendMessageStatus = "SESSION_OPENING"
     THEN ClearEvents
     ELSE UNCHANGED <<events, changed, retryCount>>
  /\ results' = IF sendMessageStatus \in Open THEN results \ {transferIdSending} ELSE results
  /\ downloads' = IF sendMessageStatus \in Open /\ transferIdSending = 0 /\ requestDownloadSending
                  THEN RemoveFirst(downloads) ELSE downloads

IsSessionOpened ==
  /\ Confirm
  /\ sendMessageStatus' = IF sendMessageStatus = "SESSION_OPENING" THEN "SESSION_OPENED"
                          ELSE sendMessageStatus
  /\ transferIdSending' = IF sendMessageStatus \in Open THEN 0 ELSE transferIdSending
  /\ requestDownloadSending' = (requestDownloadSending
                                /\ ~(sendMessageStatus \in Open /\ transferIdSending = 0))
  /\ UNCHANGED <<pendingEvents, retryOn, retryDelay>>

\* The data model can be changed by a notification: the data lock is free, or
\* its owner is draining the queue of notifications in unlock().
DataAvailable == \A t \in Threads : dataLock = t => pc[t] \in {"unlock", "quit"}

NextDelay(d) == IF d = 0 THEN InitialRetryDelay
                ELSE IF d < MaxRetryDelay THEN 2 * d ELSE d

Least(a, b) == IF a < b THEN a ELSE b

\* DM_SendHttpMessage: one more post to be answered by the ACS.
OnePost == Least(posts + 1, MaxPosts)

-----------------------------------------------------------------------------
(* The scheduler thread: run() *)

LockData(t, from, to) ==
  /\ pc[t] = from /\ dataLock = NoThread
  /\ dataLock' = t
  /\ Goto(t, to)
  /\ UNCHANGED <<lastStatus, alive, inSession, noEvent, wake, schedulerMutex, statusVars,
                 eventVars, queueVars, retryVars, timeVars, comVars, server, history>>

\* The first ParameterManager_lock of run(), and the one after each pause.
Start(t)  == LockData(t, "create", "begin")
Relock(t) == LockData(t, "relock", "enter")

\* lockMutex(_schedulerMutex), and alive = true the first time.
Enter(t) ==
  /\ pc[t] \in {"begin", "enter"} /\ schedulerMutex = NoThread
  /\ schedulerMutex' = t
  /\ alive' = (alive \/ pc[t] = "begin")
  /\ Goto(t, "top")
  /\ UNCHANGED <<lastStatus, inSession, noEvent, wake, dataLock, statusVars, eventVars,
                 queueVars, retryVars, timeVars, comVars, server, history>>

\* manageEvents: posted events, timeouts that are due, and the results and
\* requests that wait for a session.  A timeout that is due gives an event
\* (in E), or starts a transfer that the device may complete at once (done).
ManageEvents(E, done) ==
  /\ timer # "due" => E = {} /\ done = {}
  /\ results' = results \cup done
  /\ events' = events \cup pendingEvents \cup E
                      \cup (IF results' # {} THEN {"TRANSFER_COMPLETE"} ELSE {})
                      \cup (IF downloads # {} THEN {"REQUEST_DOWNLOAD"} ELSE {})
  /\ pendingEvents' = {}
  /\ timer' \in IF timer = "due" THEN {"none", "armed"} ELSE {timer}

\* The head of the loop: stop, wait, or begin a session.  Two sessions never
\* follow each other without the data being unlocked in between.
Top(t) ==
  /\ pc[t] = "top"
  /\ \E E \in SUBSET {"PERIODIC"}, done \in SUBSET Transfers : ManageEvents(E, done)
  /\ \/ /\ ~alive
        /\ schedulerMutex' = NoThread
        /\ Goto(t, "quit")
        /\ inSession' = [inSession EXCEPT ![t] = FALSE]      \* the local ends with run()
        /\ UNCHANGED <<noEvent, sendMessageStatus, lateEnd>>
     \/ /\ alive /\ (retryOn \/ events' = {} \/ inSession[t])
        /\ inSession' = [inSession EXCEPT ![t] = FALSE]
        /\ noEvent' = [noEvent EXCEPT ![t] = events' = {}]
        /\ schedulerMutex' = NoThread
        /\ Goto(t, "unlock")
        /\ UNCHANGED <<sendMessageStatus, lateEnd>>
     \/ /\ alive /\ ~(retryOn \/ events' = {} \/ inSession[t])
        /\ inSession' = [inSession EXCEPT ![t] = TRUE]
        /\ sendMessageStatus' = "CANCELLED"
        /\ Goto(t, "send")
        /\ lateEnd' = FALSE
        /\ UNCHANGED <<noEvent, schedulerMutex>>
  /\ UNCHANGED <<lastStatus, alive, wake, dataLock, transferIdSending, requestDownloadSending,
                 changed, downloads, retryVars, planned, comVars, server, lastSession>>

\* updateValueChangeEvent
WithValueChange == IF changed THEN events \cup {"VALUE_CHANGE"} ELSE events \ {"VALUE_CHANGE"}

\* sendMessage: nothing is sent when no listener is registered or when the
\* only event was a value change that no longer exists; otherwise the Inform
\* is handed to the communication module.
SendMessage(t) ==
  /\ pc[t] = "send"
  /\ \/ /\ "unready" \in Disturbances
        /\ UNCHANGED <<events, queueVars, sendMessageStatus, bSession, informAcked, posts,
                       lastSession>>
     \/ /\ WithValueChange = {}
        /\ events' = {}
        /\ UNCHANGED <<queueVars, sendMessageStatus, bSession, informAcked, posts,
                       lastSession>>
     \/ /\ WithValueChange # {}
        /\ events' = WithValueChange
        /\ \/ /\ sendMessageStatus' = "SESSION_OPENING"
              /\ bSession' = TRUE /\ informAcked' = FALSE /\ posts' = OnePost
              /\ UNCHANGED queueVars
           \/ /\ sendMessageStatus' = "CANCELLED"
              /\ UNCHANGED <<queueVars, bSession, informAcked, posts>>
           \/ /\ events' = {"VALUE_CHANGE"}
              /\ sendMessageStatus' = "COMPLETED"      \* the ACS knows these values
              /\ results' = {} /\ downloads' = {}
              /\ UNCHANGED <<bSession, informAcked, posts>>
        /\ lastSession' = IF sendMessageStatus' = "COMPLETED" THEN "ok" ELSE "failed"
  /\ Goto(t, "loop")
  /\ UNCHANGED <<lastStatus, alive, inSession, noEvent, wake, lockVars, transferIdSending,
                 requestDownloadSending, pendingEvents, changed, retryVars, timeVars, asking,
                 ready, closing, server, lateEnd>>

\* The in-session loop: wait while the session lives ...
Await(t) ==
  /\ pc[t] = "loop"
  /\ alive /\ sendMessageStatus \in Open
  /\ schedulerMutex' = NoThread
  /\ Goto(t, "wait")
  /\ UNCHANGED <<lastStatus, alive, inSession, noEvent, wake, dataLock, statusVars, eventVars,
                 queueVars, retryVars, timeVars, comVars, server, history>>

\* Mutants of EndSession: an opened session does not keep the thread in the
\* loop; the events are cleared after a failure too.
EndSessionEarly(t) ==
  /\ pc[t] = "loop"
  /\ ~(alive /\ sendMessageStatus = "SESSION_OPENING")
  /\ \/ /\ sendMessageStatus = "COMPLETED"
        /\ retryDelay' = 0
        /\ ClearEvents
        /\ UNCHANGED retryOn
     \/ /\ sendMessageStatus # "COMPLETED" /\ alive
        /\ retryDelay' = NextDelay(retryDelay)
        /\ retryCount' = Least(retryCount + 1, MaxRetryCount)
        /\ retryOn' = TRUE
        /\ UNCHANGED <<events, changed>>
     \/ /\ sendMessageStatus # "COMPLETED" /\ ~alive
        /\ UNCHANGED <<events, changed, retryVars>>
  /\ Goto(t, "top")
  /\ UNCHANGED <<lastStatus, alive, inSession, noEvent, wake, lockVars, statusVars,
                 pendingEvents, queueVars, timeVars, comVars, server, history>>
EndSessionClears(t) ==
  /\ pc[t] = "loop"
  /\ ~(alive /\ sendMessageStatus \in Open)
  /\ \/ /\ sendMessageStatus = "COMPLETED"
        /\ retryDelay' = 0
        /\ ClearEvents
        /\ UNCHANGED retryOn
     \/ /\ sendMessageStatus # "COMPLETED" /\ alive
        /\ retryDelay' = NextDelay(retryDelay)
        /\ retryCount' = Least(retryCount + 1, MaxRetryCount)
        /\ retryOn' = TRUE
        /\ events' = {}
        /\ UNCHANGED changed
     \/ /\ sendMessageStatus # "COMPLETED" /\ ~alive
        /\ UNCHANGED <<events, changed, retryVars>>
  /\ Goto(t, "top")
  /\ UNCHANGED <<lastStatus, alive, inSession, noEvent, wake, lockVars, statusVars,
                 pendingEvents, queueVars, timeVars, comVars, server, history>>

\* ... and account for its end.
EndSession(t) ==
  /\ pc[t] = "loop"
  /\ ~(alive /\ sendMessageStatus \in Open)
  /\ \/ /\ sendMessageStatus = "COMPLETED"
        /\ retryDelay' = 0
        /\ ClearEvents
        /\ UNCHANGED retryOn
     \/ /\ sendMessageStatus # "COMPLETED" /\ alive
        /\ retryDelay' = NextDelay(retryDelay)
        /\ retryCount' = Least(retryCount + 1, MaxRetryCount)
        /\ retryOn' = TRUE
        /\ UNCHANGED <<events, changed>>
     \/ /\ sendMessageStatus # "COMPLETED" /\ ~alive
        /\ UNCHANGED <<events, changed, retryVars>>
  /\ Goto(t, "top")
  /\ UNCHANGED <<lastStatus, alive, inSession, noEvent, wake, lockVars, statusVars,
                 pendingEvents, queueVars, timeVars, comVars, server, history>>

\* The first result, or else the first request, is handed to the
\* communication module: it is sent, transmitted at once, or refused.
SendQueued ==
  \/ /\ results = {} /\ downloads = {}
     /\ UNCHANGED <<transferIdSending, requestDownloadSending, queueVars, posts>>
  \/ \E id \in results :
       /\ IsFirst(id, results)
       /\ \/ transferIdSending' = id /\ posts' = OnePost /\ UNCHANGED results
          \/ results' = results \ {id} /\ UNCHANGED <<transferIdSending, posts>>
          \/ UNCHANGED <<transferIdSending, results, posts>>
       /\ UNCHANGED <<requestDownloadSending, downloads>>
  \/ /\ results = {} /\ downloads # {}
     /\ \/ requestDownloadSending' = TRUE /\ posts' = OnePost /\ UNCHANGED downloads
        \/ downloads' = RemoveFirst(downloads) /\ UNCHANGED <<requestDownloadSending, posts>>
        \/ UNCHANGED <<requestDownloadSending, downloads, posts>>
     /\ UNCHANGED <<transferIdSending, results>>

\* The thread wakes up in a session: by a signal, or after MAX_SESSION_TIME.
\* (If the ACS had not answered, the supervisor would have closed before.)
WakeInSession(t) ==
  /\ pc[t] = "wait" /\ schedulerMutex = NoThread
  /\ \E expired \in BOOLEAN :
       /\ IF expired THEN "timeout" \in Disturbances /\ (informAcked \/ ~bSession) ELSE wake[t]
       /\ \/ /\ expired /\ sendMessageStatus \in Open
             /\ sendMessageStatus' = "CANCELLED"
             /\ transferIdSending' = 0 /\ requestDownloadSending' = FALSE
             /\ UNCHANGED <<queueVars, posts>>
          \/ /\ ~expired /\ sendMessageStatus = "SESSION_OPENED"
             /\ transferIdSending = 0 /\ ~requestDownloadSending
             /\ SendQueued
             /\ UNCHANGED sendMessageStatus
          \/ /\ \/ sendMessageStatus \notin Open
                \/ ~expired /\ (\/ sendMessageStatus = "SESSION_OPENING"
                                 \/ transferIdSending # 0 \/ requestDownloadSending)
             /\ UNCHANGED <<statusVars, queueVars, posts>>
  /\ schedulerMutex' = t
  /\ wake' = [wake EXCEPT ![t] = FALSE]
  /\ Goto(t, "loop")
  /\ UNCHANGED <<lastStatus, alive, inSession, noEvent, dataLock, eventVars, retryVars,
                 timeVars, bSession, informAcked, asking, ready, closing, server, history>>

\* ParameterManager_unlock, before a pause or before the thread ends.
Unlock(t) ==
  /\ pc[t] \in {"unlock", "quit"}
  /\ dataLock' = NoThread
  /\ Goto(t, IF pc[t] = "unlock" THEN "plan" ELSE "end")
  /\ UNCHANGED <<lastStatus, alive, inSession, noEvent, wake, schedulerMutex, statusVars,
                 eventVars, queueVars, retryVars, timeVars, comVars, server, history>>

\* Mutant of Plan: it does not look for events posted after the unlock.
PlanBlind(t) ==
  /\ pc[t] = "plan" /\ schedulerMutex = NoThread
  /\ IF (noEvent[t] \/ retryOn)
     THEN /\ planned' = (retryOn \/ timer # "none")
          /\ Goto(t, CASE retryOn -> "retry"
                        [] ~retryOn /\ timer = "none"  -> "sleep"
                        [] ~retryOn /\ timer = "armed" -> "snooze"
                        [] ~retryOn /\ timer = "due"   -> IF alive THEN "nap" ELSE "off")
          /\ retryOn' = FALSE
     ELSE /\ Goto(t, "nap")
          /\ UNCHANGED <<planned, retryOn>>
  /\ noEvent' = [noEvent EXCEPT ![t] = FALSE]               \* not read again
  /\ UNCHANGED <<lastStatus, alive, inSession, wake, lockVars, statusVars, eventVars,
                 queueVars, retryDelay, retryCount, timer, comVars, server, history>>

\* How long to wait.  An event may have been posted after the unlock.
Plan(t) ==
  /\ pc[t] = "plan" /\ schedulerMutex = NoThread
  /\ IF (noEvent[t] \/ retryOn) /\ pendingEvents = {}
     THEN /\ planned' = (retryOn \/ timer # "none")
          /\ Goto(t, CASE retryOn -> "retry"
                        [] ~retryOn /\ timer = "none"  -> "sleep"
                        [] ~retryOn /\ timer = "armed" -> "snooze"
                        [] ~retryOn /\ timer = "due"   -> IF alive THEN "nap" ELSE "off")
          /\ retryOn' = FALSE
     ELSE /\ Goto(t, "nap")
          /\ UNCHANGED <<planned, retryOn>>
  /\ noEvent' = [noEvent EXCEPT ![t] = FALSE]               \* not read again
  /\ UNCHANGED <<lastStatus, alive, inSession, wake, lockVars, statusVars, eventVars,
                 queueVars, retryDelay, retryCount, timer, comVars, server, history>>

\* A wait outside a session ends: the thread goes on, or breaks out of the loop.
Resume(t, to) ==
  /\ wake' = [wake EXCEPT ![t] = FALSE]
  /\ alive' = alive
  /\ Goto(t, IF alive THEN to ELSE "off")
  /\ UNCHANGED <<lastStatus, inSession, noEvent, lockVars, statusVars, eventVars, queueVars,
                 retryVars, timer, comVars, server, history>>

WakeSleep(t) ==
  /\ pc[t] \in {"sleep", "snooze"} /\ schedulerMutex = NoThread
  /\ wake[t] \/ (pc[t] = "snooze" /\ timer = "due")
  /\ planned' = (planned /\ pc[t] = "sleep")
  /\ Resume(t, "nap")

\* The delay after a failure: a signal does not shorten the minimal delay,
\* unless the scheduler is being stopped.
RetrySignalled(t) ==
  /\ pc[t] = "retry" /\ schedulerMutex = NoThread
  /\ wake[t] /\ alive
  /\ planned' = TRUE
  /\ Resume(t, "retry")

\* The delay has elapsed, or the scheduler is being stopped.
RetryElapsed(t) ==
  /\ pc[t] = "retry" /\ schedulerMutex = NoThread
  /\ planned' = FALSE
  /\ Resume(t, "nap")

\* pthread_cond_wait and pthread_cond_timedwait may return without a signal.
SpuriousWake(t) ==
  /\ pc[t] \in WaitPoints /\ ~wake[t]
  /\ wake' = [wake EXCEPT ![t] = TRUE]
  /\ UNCHANGED <<lastStatus, alive, pc, inSession, noEvent, lockVars, statusVars, eventVars,
                 queueVars, retryVars, timeVars, comVars, server, history>>

WakeNap(t) ==
  /\ pc[t] = "nap" /\ schedulerMutex = NoThread
  /\ UNCHANGED planned
  /\ Resume(t, "relock")

\* The end of run() after the head of the loop saw ~alive.  It resets alive
\* again, although the scheduler may have been restarted since: _start() creates
\* another thread as soon as alive is false.
End(t) ==
  /\ pc[t] = "end" /\ schedulerMutex = NoThread
  /\ alive' = FALSE
  /\ lateEnd' = (lateEnd \/ alive)
  /\ Goto(t, "off")
  /\ UNCHANGED <<lastStatus, inSession, noEvent, wake, lockVars, statusVars, eventVars,
                 queueVars, retryVars, timeVars, comVars, server, lastSession>>

Scheduler(t) ==
  \/ Start(t) \/ Relock(t) \/ Enter(t) \/ Top(t) \/ SendMessage(t) \/ Await(t)
  \/ EndSession(t) \/ WakeInSession(t) \/ Unlock(t) \/ Plan(t) \/ WakeSleep(t)
  \/ RetrySignalled(t) \/ RetryElapsed(t) \/ WakeNap(t) \/ End(t)

\* A post other than the Inform of this session is to be answered.
Answering == posts > (IF informAcked THEN 0 ELSE 1)

-----------------------------------------------------------------------------
(* The system: notifications and timeouts *)

\* Mutant of AddEvents: the signal is missing.
AddEventsSilent(E) == pendingEvents' = pendingEvents \cup E /\ UNCHANGED wake

\* addEvent, by a caller that holds _schedulerMutex.
AddEvents(E) == pendingEvents' = pendingEvents \cup E /\ SignalCond

quietVars == <<lockVars, statusVars, inSession, noEvent, retryDelay, retryCount, comVars,
               history>>

\* parameterValueChanged for the parameter DeviceStatus with value s: stops the
\* scheduler, or starts it (_start) and posts the boot events (_bootEvent).  The
\* change itself is notified according to the attribute of that parameter: not
\* at all, passively, or actively with an event.
DeviceStatusChanged(s) ==
  /\ DataAvailable /\ schedulerMutex = NoThread
  /\ s \in Reported
  /\ lastStatus' = s
  /\ changed' \in {changed, TRUE}
  /\ \/ /\ s \in Stopped
        /\ alive' = FALSE
        /\ IF alive THEN SignalCond ELSE UNCHANGED wake
        /\ UNCHANGED <<pc, retryOn, pendingEvents>>
     \/ /\ s \notin Stopped
        /\ IF alive
           THEN UNCHANGED <<pc, retryOn>>
           ELSE /\ \E t \in Threads : pc[t] = "off" /\ Goto(t, "create")
                /\ retryOn' = FALSE
        /\ CASE lastStatus = "UNINITIALIZED"          -> AddEvents({"BOOTSTRAP", "BOOT"})
             [] lastStatus \in {"DOWN", "INITIALIZING"} -> AddEvents({"BOOT"})
             [] OTHER -> IF s # lastStatus /\ changed'
                         THEN AddEvents({"VALUE_CHANGE"}) \/ UNCHANGED <<pendingEvents, wake>>
                         ELSE UNCHANGED <<pendingEvents, wake>>
        /\ UNCHANGED alive
  /\ UNCHANGED <<quietVars, events, queueVars, timeVars, server>>

\* Another parameter with notification changes: by the system when the data
\* are available, or on the way of an RPC of the ACS in its session.
ValueChanged ==
  /\ schedulerMutex = NoThread
  /\ "VALUE_CHANGE" \in Posted
  /\ DataAvailable \/ (Answering /\ sendMessageStatus = "SESSION_OPENED")
  /\ changed' = TRUE
  /\ \/ AddEvents({"VALUE_CHANGE"})            \* active notification
     \/ UNCHANGED <<pendingEvents, wake>>      \* passive notification
  /\ UNCHANGED <<quietVars, lastStatus, alive, pc, retryOn, events, queueVars, timeVars, server>>

\* SetParameterAttributes takes the notification off the changed parameter.
Mute ==
  /\ "mute" \in Disturbances
  /\ DataAvailable \/ (Answering /\ sendMessageStatus = "SESSION_OPENED")
  /\ changed' = FALSE
  /\ UNCHANGED <<quietVars, lastStatus, alive, pc, wake, retryOn, pendingEvents, events,
                 queueVars, timeVars, server>>

\* The events that come without data: bootstrapInform, diagnosticsComplete,
\* vendorSpecificEvent.
PostEvent(e) ==
  /\ e \in Posted \cap {"BOOTSTRAP", "DIAGNOSTICS_COMPLETE", "VENDOR"}
  /\ schedulerMutex = NoThread
  /\ AddEvents({e})
  /\ UNCHANGED <<quietVars, lastStatus, alive, pc, retryOn, events, changed, queueVars,
                 timeVars, server>>

\* processTransferCompleteResult and processRequestDownload.
TransferDone(id) ==
  /\ id \in Transfers \ results
  /\ DataAvailable /\ schedulerMutex = NoThread
  /\ results' = results \cup {id}
  /\ AddEvents({"TRANSFER_COMPLETE"})
  /\ UNCHANGED <<quietVars, lastStatus, alive, pc, retryOn, events, changed, downloads,
                 timeVars, server>>

DownloadRequested(d) ==
  /\ d \in Downloads \ downloads /\ \A x \in downloads : x < d
  /\ DataAvailable /\ schedulerMutex = NoThread
  /\ downloads' = downloads \cup {d}
  /\ AddEvents({"REQUEST_DOWNLOAD"})
  /\ UNCHANGED <<quietVars, lastStatus, alive, pc, retryOn, events, changed, results,
                 timeVars, server>>

\* scheduleInform and changeOnPeriodicInform: checkNextInformTime signals
\* unless an earlier wait is planned.
ScheduleInform ==
  /\ "PERIODIC" \in Posted
  /\ schedulerMutex = NoThread
  /\ timer = "none" /\ timer' = "armed"
  /\ SignalCond \/ (planned /\ UNCHANGED wake)
  /\ UNCHANGED <<quietVars, lastStatus, alive, pc, retryOn, eventVars, queueVars, planned, server>>

\* DM_ENG_Download or DM_ENG_Upload with a delay, for another entity than the
\* ACS in its session: manageTransferRequest does not call checkNextInformTime.
QueueTransfer ==
  /\ "queue" \in Disturbances
  /\ dataLock = NoThread
  /\ timer = "none" /\ timer' = "armed"
  /\ UNCHANGED <<lastStatus, alive, threadVars, lockVars, statusVars, eventVars, queueVars,
                 retryVars, planned, comVars, server, history>>

\* Time passes up to the next timeout.
TimerDue ==
  /\ timer = "armed" /\ timer' = "due"
  /\ UNCHANGED <<lastStatus, alive, threadVars, lockVars, statusVars, eventVars, queueVars,
                 retryVars, planned, comVars, server, history>>

-----------------------------------------------------------------------------
(* The communication module, in a session with the ACS *)

engineVars == <<lastStatus, alive, pc, inSession, noEvent, lockVars, timeVars, server>>

\* The handlers below call DM_ENG_IsReadyToClose.  Its first part confirms
\* what was transmitted.  When the engine is ready an empty message is posted.
AskReadyToClose ==
  /\ ~asking
  /\ IsSessionOpened
  /\ asking' = (sendMessageStatus' = "SESSION_OPENED")
  /\ ready' = (ready \/ ~asking')
  /\ posts' = IF asking' THEN posts - 1 ELSE posts

\* The ACS answers the Inform.  When it holds the requests, the engine is not
\* asked and the empty message is posted at once.
InformResponse ==
  /\ bSession /\ posts > 0 /\ ~informAcked
  /\ informAcked' = TRUE
  /\ \/ AskReadyToClose
     \/ UNCHANGED <<statusVars, eventVars, queueVars, retryVars, asking, ready, posts>>
  /\ UNCHANGED <<engineVars, history, wake, bSession, closing>>

\* An RPC of the ACS, answered by a new post: _toLockForOneCall asks
\* isSessionOpened(true).
AcsRpc ==
  /\ bSession /\ Answering
  /\ IsSessionOpened
  /\ UNCHANGED <<engineVars, history, wake, comVars>>

\* TransferCompleteResponse, RequestDownloadResponse or an empty message.
AcsAnswer ==
  /\ bSession /\ Answering /\ ~ready
  /\ AskReadyToClose
  /\ UNCHANGED <<engineVars, history, wake, bSession, informAcked, closing>>

\* DM_ENG_IsReadyToClose, second part: isReadyToClose signals without
\* holding _schedulerMutex.
IsReadyToClose ==
  /\ asking /\ asking' = FALSE
  /\ LET free == transferIdSending = 0 /\ ~requestDownloadSending
         queued == results # {} \/ downloads # {}
     IN /\ ready' = (ready \/ (free /\ ~queued))
        /\ posts' = IF free /\ ~queued THEN OnePost ELSE posts
        /\ IF free /\ queued THEN SignalCond ELSE UNCHANGED wake
  /\ UNCHANGED <<engineVars, history, statusVars, eventVars, queueVars, retryVars, bSession, informAcked,
                 closing>>

\* The ACS has nothing left either: _closeACSSession(true); sessionClosed
\* first confirms what was transmitted.
ConfirmSession ==
  /\ bSession /\ Answering /\ ready /\ ~asking
  /\ IsSessionOpened
  /\ bSession' = FALSE /\ closing' = TRUE
  /\ UNCHANGED <<engineVars, history, wake, informAcked, posts, asking, ready>>

\* Mutant of SessionClosed: the scheduler is not signalled.
SessionClosedSilent(success) ==
  /\ IF success THEN closing
     ELSE ~asking /\ ~closing /\ (bSession \/ "late" \in Disturbances)
  /\ schedulerMutex = NoThread
  /\ sendMessageStatus' = IF success THEN "COMPLETED" ELSE "CANCELLED"
  /\ transferIdSending' = 0 /\ requestDownloadSending' = FALSE
  /\ UNCHANGED wake
  /\ bSession' = FALSE /\ informAcked' = FALSE /\ posts' = 0
  /\ asking' = FALSE /\ ready' = FALSE /\ closing' = FALSE
  /\ lastSession' = IF success THEN "ok" ELSE lastSession
  /\ UNCHANGED <<engineVars, eventVars, queueVars, retryVars, lateEnd>>

\* sessionClosed: called on success after the confirmation; on failure by the
\* supervisor, or because of a Fault or an unknown RPC.
SessionClosed(success) ==
  /\ IF success THEN closing
     ELSE ~asking /\ ~closing /\ (bSession \/ "late" \in Disturbances)
  /\ schedulerMutex = NoThread
  /\ sendMessageStatus' = IF success THEN "COMPLETED" ELSE "CANCELLED"
  /\ transferIdSending' = 0 /\ requestDownloadSending' = FALSE
  /\ IF sendMessageStatus \in Open THEN SignalCond ELSE UNCHANGED wake
  /\ bSession' = FALSE /\ informAcked' = FALSE /\ posts' = 0
  /\ asking' = FALSE /\ ready' = FALSE /\ closing' = FALSE
  /\ lastSession' = IF success THEN "ok" ELSE lastSession
  /\ UNCHANGED <<engineVars, eventVars, queueVars, retryVars, lateEnd>>

-----------------------------------------------------------------------------
(* The HTTP server on a connection request *)

\* It refuses the request while bSession is set, which it reads without lock.
ServerAdmit ==
  /\ "CONNECTION_REQUEST" \in Posted
  /\ server = "idle" /\ ~bSession
  /\ server' = "admitted"
  /\ UNCHANGED <<lastStatus, alive, threadVars, lockVars, statusVars, eventVars, queueVars,
                 retryVars, timeVars, comVars, history>>

\* DM_ENG_RequestConnection on behalf of the ACS: isSessionOpened(true) ...
ServerRequest ==
  /\ server = "admitted"
  /\ IsSessionOpened
  /\ server' = IF sendMessageStatus' = "SESSION_OPENED" THEN "posting" ELSE "locking"
  /\ UNCHANGED <<lastStatus, alive, threadVars, lockVars, timeVars, comVars, history>>

\* ... and the event, posted with the data locked.
ServerPost ==
  /\ server = "posting" \/ (server = "locking" /\ dataLock = NoThread)
  /\ schedulerMutex = NoThread
  /\ AddEvents({"CONNECTION_REQUEST"})
  /\ server' = "idle"
  /\ UNCHANGED <<quietVars, lastStatus, alive, pc, retryOn, events, changed, queueVars, timeVars>>

-----------------------------------------------------------------------------
Com ==
  \/ InformResponse \/ AcsRpc \/ AcsAnswer \/ IsReadyToClose \/ ConfirmSession
  \/ \E success \in BOOLEAN : SessionClosed(success)

Environment ==
  \/ \E s \in DeviceStatus : DeviceStatusChanged(s)
  \/ ValueChanged \/ Mute \/ ScheduleInform \/ QueueTransfer \/ TimerDue
  \/ \E e \in EventCode : PostEvent(e)
  \/ \E id \in Transfers : TransferDone(id)
  \/ \E d \in Downloads : DownloadRequested(d)
  \/ ServerAdmit \/ ServerRequest \/ ServerPost
  \/ \E t \in Threads : SpuriousWake(t)

Next == (\E t \in Threads : Scheduler(t)) \/ Com \/ Environment

Spec == Init /\ [][Next]_vars

(***************************************************************************)
(* Fairness.  Threads are scheduled and time passes: a thread that can go  *)
(* on does, a delay ends, and the handler of a message or the closing of a *)
(* session that has begun runs to its end.  Strong fairness of             *)
(* SessionClosed: the ACS does not talk for ever, and the supervisor       *)
(* closes a session that has been silent for 30 seconds.  Strong fairness  *)
(* of the quiet steps: it is not so that an event is posted each time the  *)
(* thread is about to unlock the data or to plan its wait; if it were,     *)
(* retryOn would never be reset and no Inform would be sent.               *)
(***************************************************************************)
QuietUnlock(t) == pendingEvents = {} /\ Unlock(t)
QuietPlan(t)   == pendingEvents = {} /\ Plan(t)
ThreadFairness(t) ==
  /\ WF_vars(Scheduler(t)) /\ WF_vars(RetryElapsed(t))
  /\ SF_vars(QuietUnlock(t)) /\ SF_vars(QuietPlan(t))
ComFairness == WF_vars(IsReadyToClose) /\ SF_vars(\E success \in BOOLEAN : SessionClosed(success))
FairSpec == Spec /\ (\A t \in Threads : ThreadFairness(t)) /\ ComFairness

-----------------------------------------------------------------------------
(* Properties *)

\* The positions of the threads agree with the owners of the two locks, so at
\* most one thread is in a session and works on the data model: run() takes
\* and gives back _schedulerMutex inside and outside the data lock on many
\* paths, and calls to unlock() and to the waits must match them.
LockDiscipline ==
  \A t \in Threads : /\ pc[t] \in HoldsData <=> dataLock = t
                     /\ pc[t] \in HoldsMutex <=> schedulerMutex = t

\* While a session is opening or opened, a scheduler thread is in it and holds
\* the data lock: an RPC of the ACS in an opened session does not lock the
\* data model itself (_toLockForOneCall).  One case only breaks this: the
\* session was begun by a thread of the restarted scheduler and a thread of the
\* stopped one ended during it, and reset alive under it.
SessionUnderLock ==
  sendMessageStatus \in Open =>
    lateEnd \/ \E t \in Threads : pc[t] \in {"loop", "wait"} /\ dataLock = t

\* A thread that sleeps without having been signalled has nothing to do: no
\* event is posted or registered, no result or request waits for a session,
\* and without a planned timeout none is armed.
NoSleepOnWork ==
  \A t \in Threads :
    pc[t] \in {"sleep", "snooze"} /\ ~wake[t] =>
      /\ pendingEvents = {} /\ events = {} /\ results = {} /\ downloads = {}
      /\ pc[t] = "sleep" => timer = "none"

\* The RetryCount given with an Inform is zero if and only if the previous
\* session, if any, completed successfully.
RetryCountFaithful ==
  \A t \in Threads :
    pc[t] = "send" /\ WithValueChange # {} => (retryCount = 0 <=> lastSession # "failed")

\* A registered event is dropped only after the ACS has answered the Inform,
\* or when the engine decided that nothing had to be sent.  (VALUE_CHANGE is
\* recomputed for each Inform.)
NoEventLost ==
  [][\A e \in events \ {"VALUE_CHANGE"} :
       e \in events' \/ informAcked' \/ sendMessageStatus = "COMPLETED"]_vars

\* The flag of a value change is cleared only when an Inform that carried it
\* was answered: a change during a session stays for the next one.
ValueChangeNotLost ==
  [][changed /\ ~changed' =>
       "VALUE_CHANGE" \in events /\ (informAcked' \/ sendMessageStatus = "COMPLETED")]_vars

\* The result of a transfer and a request of download are erased only in a
\* session whose Inform the ACS has answered.
ResultsKept ==
  [][\/ results \subseteq results' /\ downloads \subseteq downloads'
     \/ informAcked' /\ sendMessageStatus \in Open]_vars

\* What the engine has to tell the ACS is forgotten only when the ACS has heard of it:
\* the events, the value changes, the results and the requests, each after its own answer.
NothingForgotten == NoEventLost /\ ValueChangeNotLost /\ ResultsKept

\* An event posted while the agent is up is part of a later Inform.
PostedIsSent ==
  \A e \in EventCode :
    (lastStatus = "UP" /\ e \in pendingEvents) ~> (\E t \in Threads : pc[t] = "send" /\ e \in events)

\* A timeout that is due is handled.
DueIsHandled == (lastStatus = "UP" /\ timer = "due") ~> (timer # "due")

\* What there is to do is done: the events posted, and what the timeout is for.
WorkIsDone == PostedIsSent /\ DueIsHandled

\* The scheduler does not keep the data model locked for ever: the end of the
\* session wakes it up.
DataReleased == \A t \in Threads : (dataLock = t) ~> (dataLock # t)
=============================================================================
