------------------------ MODULE InformSchedulerProofs ------------------------
(***************************************************************************)
(* Theorems about the Inform message scheduler, for every number of        *)
(* threads, every set of events, transfers and download requests, and all  *)
(* circumstances.  A theorem that needs a single thread, or that one of    *)
(* the rare circumstances stays away, names it as a hypothesis.            *)
(***************************************************************************)
EXTENDS InformScheduler, TLAPS

USE DEF history

\* pthread_cond_signal only sets flags of waiting threads.
LEMMA SignalCondType ==
  ASSUME wake \in [Threads -> BOOLEAN], SignalCond
  PROVE  wake' \in [Threads -> BOOLEAN]
BY DEF SignalCond

\* Moving a thread to a position keeps the type of pc.
LEMMA GotoType ==
  ASSUME pc \in [Threads -> Position], NEW t \in Threads, NEW p \in Position, Goto(t, p)
  PROVE  pc' \in [Threads -> Position]
BY DEF Goto

\* isSessionOpened keeps the types of what it touches.
LEMMA IsSessionOpenedType ==
  ASSUME TypeOK, IsSessionOpened
  PROVE  /\ sendMessageStatus' \in NotificationStatus
         /\ transferIdSending' \in Transfers \cup {0}
         /\ requestDownloadSending' \in BOOLEAN
         /\ pendingEvents' \subseteq EventCode /\ events' \subseteq EventCode
         /\ changed' \in BOOLEAN
         /\ results' \subseteq Transfers /\ downloads' \subseteq Downloads
         /\ retryOn' \in BOOLEAN
         /\ retryDelay' \in 0 .. 2 * MaxRetryDelay /\ retryCount' \in 0 .. MaxRetryCount
<1>1. sendMessageStatus' \in NotificationStatus
  BY DEF IsSessionOpened, TypeOK, NotificationStatus
<1>2. transferIdSending' \in Transfers \cup {0}
  BY DEF IsSessionOpened, TypeOK
<1>3. requestDownloadSending' \in BOOLEAN
  BY DEF IsSessionOpened
<1>4. /\ events' \subseteq EventCode /\ changed' \in BOOLEAN
      /\ retryCount' \in 0 .. MaxRetryCount
  <2>1. CASE sendMessageStatus = "SESSION_OPENING"
    BY <2>1, DelaysAssumption DEF IsSessionOpened, Confirm, ClearEvents, TypeOK
  <2>2. CASE sendMessageStatus # "SESSION_OPENING"
    BY <2>2 DEF IsSessionOpened, Confirm, TypeOK
  <2>3. QED BY <2>1, <2>2
<1>5. results' \subseteq Transfers /\ downloads' \subseteq Downloads
  BY DEF IsSessionOpened, Confirm, RemoveFirst, TypeOK
<1>6. /\ pendingEvents' \subseteq EventCode /\ retryOn' \in BOOLEAN
      /\ retryDelay' \in 0 .. 2 * MaxRetryDelay
  BY DEF IsSessionOpened, TypeOK
<1>7. QED BY <1>1, <1>2, <1>3, <1>4, <1>5, <1>6

\* The back-off doubles the delay below its limit only.
LEMMA NextDelayType ==
  ASSUME NEW d \in 0 .. 2 * MaxRetryDelay
  PROVE  NextDelay(d) \in 0 .. 2 * MaxRetryDelay
BY DelaysAssumption DEF NextDelay

-----------------------------------------------------------------------------
(* Type correctness *)

\* A step of a scheduler thread keeps every type.
LEMMA SchedulerType ==
  ASSUME TypeOK, NEW t \in Threads, Scheduler(t)
  PROVE  TypeOK'
<1> USE DEF TypeOK, Goto, Position, threadVars, lockVars, statusVars, eventVars, queueVars,
            retryVars, timeVars, comVars
<1>1. CASE Start(t)
  BY <1>1 DEF Start, LockData
<1>2. CASE Relock(t)
  BY <1>2 DEF Relock, LockData
<1>3. CASE Enter(t)
  BY <1>3 DEF Enter
<1>4. CASE Top(t)
  <2>1. inSession' \in [Threads -> BOOLEAN] /\ noEvent' \in [Threads -> BOOLEAN]
    BY <1>4 DEF Top
  <2>2. events' \subseteq EventCode /\ pendingEvents' \subseteq EventCode /\ results' \subseteq Transfers
    BY <1>4 DEF Top, ManageEvents, EventCode
  <2>3. lateEnd' \in BOOLEAN
    BY <1>4 DEF Top
  <2>4. QED BY <1>4, <2>1, <2>2, <2>3 DEF Top, ManageEvents, NotificationStatus
<1>5. CASE SendMessage(t)
  <2>1. bSession' \in BOOLEAN /\ informAcked' \in BOOLEAN
    BY <1>5 DEF SendMessage
  <2>2. posts' \in 0 .. MaxPosts
    BY <1>5 DEF SendMessage, OnePost, Least, MaxPosts
  <2>3. events' \subseteq EventCode
    BY <1>5 DEF SendMessage, WithValueChange, EventCode
  <2>4. QED BY <1>5, <2>1, <2>2, <2>3 DEF SendMessage, NotificationStatus
<1>6. CASE Await(t)
  BY <1>6 DEF Await
<1>7. CASE EndSession(t)
  <2>1. retryOn' \in BOOLEAN /\ changed' \in BOOLEAN
    BY <1>7 DEF EndSession, ClearEvents
  <2>2. retryDelay' \in 0 .. 2 * MaxRetryDelay
    BY <1>7, NextDelayType, DelaysAssumption DEF EndSession
  <2>3. retryCount' \in 0 .. MaxRetryCount
    BY <1>7, DelaysAssumption DEF EndSession, ClearEvents, Least
  <2>4. events' \subseteq EventCode
    BY <1>7 DEF EndSession, ClearEvents
  <2>5. QED BY <1>7, <2>1, <2>2, <2>3, <2>4 DEF EndSession
<1>8. CASE WakeInSession(t)
  <2>1. requestDownloadSending' \in BOOLEAN
    BY <1>8 DEF WakeInSession, SendQueued
  <2>2. wake' \in [Threads -> BOOLEAN]
    BY <1>8 DEF WakeInSession
  <2>3. posts' \in 0 .. MaxPosts
    BY <1>8 DEF WakeInSession, SendQueued, OnePost, Least, MaxPosts
  <2>4. /\ results' \subseteq Transfers /\ downloads' \subseteq Downloads
        /\ transferIdSending' \in Transfers \cup {0}
    BY <1>8 DEF WakeInSession, SendQueued, RemoveFirst
  <2>5. QED BY <1>8, <2>1, <2>2, <2>3, <2>4 DEF WakeInSession, NotificationStatus
<1>9. CASE Unlock(t)
  BY <1>9 DEF Unlock
<1>10. CASE Plan(t)
  <2>1. planned' \in BOOLEAN /\ retryOn' \in BOOLEAN
    BY <1>10 DEF Plan
  <2>2. pc' \in [Threads -> Position] /\ noEvent' \in [Threads -> BOOLEAN]
    BY <1>10 DEF Plan
  <2>3. QED BY <1>10, <2>1, <2>2 DEF Plan
<1>11. CASE WakeSleep(t)
  BY <1>11 DEF WakeSleep, Resume
<1>12. CASE RetrySignalled(t)
  BY <1>12 DEF RetrySignalled, Resume
<1>13. CASE RetryElapsed(t)
  <2>1. planned' \in BOOLEAN
    BY <1>13 DEF RetryElapsed
  <2>2. wake' \in [Threads -> BOOLEAN]
    BY <1>13 DEF RetryElapsed, Resume
  <2>3. QED BY <1>13, <2>1, <2>2 DEF RetryElapsed, Resume
<1>14. CASE WakeNap(t)
  BY <1>14 DEF WakeNap, Resume
<1>15. CASE End(t)
  <2>1. alive' \in BOOLEAN /\ lateEnd' \in BOOLEAN
    BY <1>15 DEF End
  <2>2. QED BY <1>15, <2>1 DEF End
<1>16. QED
  BY <1>1, <1>2, <1>3, <1>4, <1>5, <1>6, <1>7, <1>8, <1>9, <1>10, <1>11, <1>12, <1>13, <1>14, <1>15 DEF Scheduler

\* A step of the communication module keeps every type.
LEMMA ComType ==
  ASSUME TypeOK, Com
  PROVE  TypeOK'
<1> USE DEF threadVars, lockVars, statusVars, eventVars, queueVars, retryVars, timeVars, comVars,
            engineVars
<1>1. CASE InformResponse
  <2>1. CASE AskReadyToClose
    BY <1>1, <2>1, IsSessionOpenedType DEF TypeOK, InformResponse, AskReadyToClose, MaxPosts
  <2>2. CASE UNCHANGED <<statusVars, eventVars, queueVars, retryVars, asking, ready, posts>>
    BY <1>1, <2>2 DEF TypeOK, InformResponse
  <2>3. QED BY <1>1, <2>1, <2>2 DEF InformResponse
<1>2. CASE AcsRpc
  BY <1>2, IsSessionOpenedType DEF TypeOK, AcsRpc
<1>3. CASE AcsAnswer
  BY <1>3, IsSessionOpenedType DEF TypeOK, AcsAnswer, AskReadyToClose, Answering, MaxPosts
<1>4. CASE IsReadyToClose
  <2>1. asking' \in BOOLEAN /\ ready' \in BOOLEAN
    BY <1>4 DEF IsReadyToClose
  <2>2. wake' \in [Threads -> BOOLEAN]
    BY <1>4, SignalCondType DEF TypeOK, IsReadyToClose
  <2>3. posts' \in 0 .. MaxPosts
    BY <1>4 DEF TypeOK, IsReadyToClose, OnePost, Least, MaxPosts
  <2>4. QED BY <1>4, <2>1, <2>2, <2>3 DEF TypeOK, IsReadyToClose
<1>5. CASE ConfirmSession
  <2>1. /\ bSession' = FALSE /\ closing' = TRUE /\ IsSessionOpened
        /\ UNCHANGED <<engineVars, history, wake, informAcked, posts, asking, ready>>
    BY <1>5 DEF ConfirmSession
  <2>2. /\ sendMessageStatus' \in NotificationStatus /\ transferIdSending' \in Transfers \cup {0}
        /\ requestDownloadSending' \in BOOLEAN
        /\ pendingEvents' \subseteq EventCode /\ events' \subseteq EventCode
        /\ changed' \in BOOLEAN
        /\ results' \subseteq Transfers /\ downloads' \subseteq Downloads
        /\ retryOn' \in BOOLEAN
        /\ retryDelay' \in 0 .. 2 * MaxRetryDelay /\ retryCount' \in 0 .. MaxRetryCount
    BY <2>1, IsSessionOpenedType, Zenon
  <2>3. UNCHANGED <<lastStatus, alive, pc, inSession, noEvent, wake, dataLock, schedulerMutex, timer,
                    planned, informAcked, posts, asking, ready, server, lastSession, lateEnd>>
    BY <2>1
  <2>4. /\ lastStatus' \in DeviceStatus /\ alive' \in BOOLEAN
        /\ pc' \in [Threads -> Position] /\ inSession' \in [Threads -> BOOLEAN]
        /\ noEvent' \in [Threads -> BOOLEAN] /\ wake' \in [Threads -> BOOLEAN]
        /\ dataLock' \in Threads \cup {NoThread} /\ schedulerMutex' \in Threads \cup {NoThread}
        /\ timer' \in {"none", "armed", "due"} /\ planned' \in BOOLEAN
    BY <2>3 DEF TypeOK
  <2>5. /\ bSession' \in BOOLEAN /\ informAcked' \in BOOLEAN /\ posts' \in 0 .. MaxPosts
        /\ asking' \in BOOLEAN /\ ready' \in BOOLEAN /\ closing' \in BOOLEAN
        /\ server' \in {"idle", "admitted", "locking", "posting"}
        /\ lastSession' \in {"none", "ok", "failed"} /\ lateEnd' \in BOOLEAN
    BY <2>1, <2>3 DEF TypeOK
  <2> QED BY <2>2, <2>4, <2>5 DEF TypeOK
<1>6. ASSUME NEW success \in BOOLEAN, SessionClosed(success) PROVE TypeOK'
  <2>1. /\ bSession' \in BOOLEAN /\ informAcked' \in BOOLEAN /\ asking' \in BOOLEAN
        /\ ready' \in BOOLEAN /\ closing' \in BOOLEAN /\ requestDownloadSending' \in BOOLEAN
    BY <1>6 DEF SessionClosed
  <2>2. wake' \in [Threads -> BOOLEAN]
    BY <1>6, SignalCondType DEF TypeOK, SessionClosed
  <2>3. posts' \in 0 .. MaxPosts
    BY <1>6 DEF SessionClosed, MaxPosts
  <2>4. QED BY <1>6, <2>1, <2>2, <2>3 DEF TypeOK, SessionClosed, NotificationStatus
<1>7. QED BY <1>1, <1>2, <1>3, <1>4, <1>5, <1>6 DEF Com

\* A step of the system or of the HTTP server keeps every type.
LEMMA EnvironmentType ==
  ASSUME TypeOK, Environment
  PROVE  TypeOK'
<1> USE DEF threadVars, lockVars, statusVars, eventVars, queueVars, retryVars, timeVars, comVars,
            quietVars
<1>1. ASSUME NEW s \in DeviceStatus, DeviceStatusChanged(s) PROVE TypeOK'
  <2>1. pc' \in [Threads -> Position]
    BY <1>1, GotoType DEF TypeOK, DeviceStatusChanged, Position
  <2>2. wake' \in [Threads -> BOOLEAN]
    BY <1>1, SignalCondType DEF TypeOK, DeviceStatusChanged, AddEvents
  <2>3. pendingEvents' \subseteq EventCode /\ changed' \in BOOLEAN
    BY <1>1 DEF TypeOK, DeviceStatusChanged, AddEvents, EventCode
  <2>4. alive' \in BOOLEAN /\ retryOn' \in BOOLEAN /\ lastStatus' \in DeviceStatus
    BY <1>1 DEF TypeOK, DeviceStatusChanged
  <2>5. QED BY <1>1, <2>1, <2>2, <2>3, <2>4 DEF TypeOK, DeviceStatusChanged
<1>2. CASE ValueChanged
  <2>1. changed' \in BOOLEAN
    BY <1>2 DEF ValueChanged
  <2>2. wake' \in [Threads -> BOOLEAN] /\ pendingEvents' \subseteq EventCode
    BY <1>2, SignalCondType DEF TypeOK, ValueChanged, AddEvents, EventCode
  <2>3. QED BY <1>2, <2>1, <2>2 DEF TypeOK, ValueChanged
<1>3. CASE Mute
  <2>1. changed' \in BOOLEAN
    BY <1>3 DEF Mute
  <2>2. QED BY <1>3, <2>1 DEF TypeOK, Mute
<1>4. CASE ScheduleInform
  BY <1>4, SignalCondType DEF TypeOK, ScheduleInform
<1>5. CASE QueueTransfer
  BY <1>5 DEF TypeOK, QueueTransfer
<1>6. CASE TimerDue
  BY <1>6 DEF TypeOK, TimerDue
<1>7. ASSUME NEW e \in EventCode, PostEvent(e) PROVE TypeOK'
  BY <1>7, SignalCondType DEF TypeOK, PostEvent, AddEvents
<1>8. ASSUME NEW id \in Transfers, TransferDone(id) PROVE TypeOK'
  BY <1>8, SignalCondType DEF TypeOK, TransferDone, AddEvents, EventCode
<1>9. ASSUME NEW d \in Downloads, DownloadRequested(d) PROVE TypeOK'
  BY <1>9, SignalCondType DEF TypeOK, DownloadRequested, AddEvents, EventCode
<1>10. CASE ServerAdmit
  BY <1>10 DEF TypeOK, ServerAdmit
<1>11. CASE ServerRequest
  BY <1>11, IsSessionOpenedType DEF TypeOK, ServerRequest
<1>12. CASE ServerPost
  BY <1>12, SignalCondType DEF TypeOK, ServerPost, AddEvents, EventCode
<1>13. ASSUME NEW t \in Threads, SpuriousWake(t) PROVE TypeOK'
  BY <1>13 DEF TypeOK, SpuriousWake
<1>14. QED
  BY <1>1, <1>2, <1>3, <1>4, <1>5, <1>6, <1>7, <1>8, <1>9, <1>10, <1>11, <1>12, <1>13 DEF Environment

\* Every variable keeps its type: in particular the retry delay stays below
\* twice its limit and the retry counter within its bound.
THEOREM TypeCorrect == Spec => []TypeOK
<1>1. Init => TypeOK
  <2> SUFFICES ASSUME Init PROVE TypeOK
    OBVIOUS
  <2>1. /\ alive \in BOOLEAN /\ changed \in BOOLEAN /\ retryOn \in BOOLEAN /\ planned \in BOOLEAN
        /\ requestDownloadSending \in BOOLEAN /\ bSession \in BOOLEAN /\ informAcked \in BOOLEAN
        /\ asking \in BOOLEAN /\ ready \in BOOLEAN /\ closing \in BOOLEAN
    BY DEF Init
  <2>2. /\ inSession \in [Threads -> BOOLEAN] /\ noEvent \in [Threads -> BOOLEAN]
        /\ wake \in [Threads -> BOOLEAN] /\ lateEnd \in BOOLEAN
    BY DEF Init
  <2>3. /\ retryDelay \in 0 .. 2 * MaxRetryDelay /\ retryCount \in 0 .. MaxRetryCount
        /\ posts \in 0 .. MaxPosts
    BY DelaysAssumption DEF Init, MaxPosts
  <2>4. QED BY <2>1, <2>2, <2>3, StatusAssumption
            DEF Init, TypeOK, DeviceStatus, Position, NotificationStatus
<1>2. TypeOK /\ [Next]_vars => TypeOK'
  <2> SUFFICES ASSUME TypeOK, [Next]_vars PROVE TypeOK'
    OBVIOUS
  <2>1. CASE Next
    BY <2>1, SchedulerType, ComType, EnvironmentType DEF Next
  <2>2. CASE UNCHANGED vars
    BY <2>2 DEF vars, TypeOK, threadVars, lockVars, statusVars, eventVars, queueVars, retryVars,
                timeVars, comVars
  <2>3. QED BY <2>1, <2>2
<1>3. QED BY <1>1, <1>2, PTL DEF Spec

-----------------------------------------------------------------------------
(* Mutual exclusion *)

\* A step of a scheduler thread keeps positions and owners of the locks in
\* agreement.
LEMMA SchedulerLocks ==
  ASSUME TypeOK, LockDiscipline, NEW t \in Threads, Scheduler(t)
  PROVE  LockDiscipline'
<1> USE ThreadsAssumption DEF TypeOK, LockDiscipline, HoldsData, HoldsMutex, Goto, lockVars
<1>1. CASE Start(t)
  BY <1>1 DEF Start, LockData
<1>2. CASE Relock(t)
  BY <1>2 DEF Relock, LockData
<1>3. CASE Enter(t)
  BY <1>3 DEF Enter
<1>4. CASE Top(t)
  BY <1>4 DEF Top
<1>5. CASE SendMessage(t)
  BY <1>5 DEF SendMessage
<1>6. CASE Await(t)
  BY <1>6 DEF Await
<1>7. CASE EndSession(t)
  BY <1>7 DEF EndSession
<1>8. CASE WakeInSession(t)
  BY <1>8 DEF WakeInSession
<1>9. CASE Unlock(t)
  BY <1>9 DEF Unlock
<1>10. CASE Plan(t)
  BY <1>10 DEF Plan
<1>11. CASE WakeSleep(t)
  BY <1>11 DEF WakeSleep, Resume
<1>12. CASE RetrySignalled(t)
  BY <1>12 DEF RetrySignalled, Resume
<1>13. CASE RetryElapsed(t)
  BY <1>13 DEF RetryElapsed, Resume
<1>14. CASE WakeNap(t)
  BY <1>14 DEF WakeNap, Resume
<1>15. CASE End(t)
  BY <1>15 DEF End
<1>16. QED
  BY <1>1, <1>2, <1>3, <1>4, <1>5, <1>6, <1>7, <1>8, <1>9, <1>10, <1>11, <1>12, <1>13, <1>14, <1>15 DEF Scheduler

\* The other steps leave the locks alone and move a thread only when they
\* create it.
LEMMA OthersLocks ==
  ASSUME Com \/ Environment
  PROVE  /\ UNCHANGED lockVars
         /\ UNCHANGED pc \/ \E t \in Threads : pc[t] = "off" /\ Goto(t, "create")
<1> USE DEF lockVars, engineVars, quietVars, threadVars
<1>1. CASE Com
  BY <1>1 DEF Com, InformResponse, AcsRpc, AcsAnswer, IsReadyToClose, ConfirmSession, SessionClosed
<1>2. ASSUME NEW s \in DeviceStatus, DeviceStatusChanged(s)
      PROVE  /\ UNCHANGED lockVars
             /\ UNCHANGED pc \/ \E t \in Threads : pc[t] = "off" /\ Goto(t, "create")
  BY <1>2 DEF DeviceStatusChanged
<1>3. CASE ValueChanged \/ Mute \/ ScheduleInform \/ QueueTransfer \/ TimerDue
  BY <1>3 DEF ValueChanged, Mute, ScheduleInform, QueueTransfer, TimerDue
<1>4. CASE \/ \E e \in EventCode : PostEvent(e)
           \/ \E id \in Transfers : TransferDone(id)
           \/ \E d \in Downloads : DownloadRequested(d)
  BY <1>4 DEF PostEvent, TransferDone, DownloadRequested
<1>5. CASE ServerAdmit \/ ServerRequest \/ ServerPost \/ \E t \in Threads : SpuriousWake(t)
  BY <1>5 DEF ServerAdmit, ServerRequest, ServerPost, SpuriousWake
<1>6. QED BY <1>1, <1>2, <1>3, <1>4, <1>5 DEF Environment

\* Positions and owners agree in every reachable state, for any number of
\* scheduler threads: at most one of them works on the data model, and at
\* most one is in the scheduler's critical section.
THEOREM LocksCorrect == Spec => []LockDiscipline
<1>1. Init => LockDiscipline
  BY ThreadsAssumption DEF Init, LockDiscipline, HoldsData, HoldsMutex
<1>2. TypeOK /\ LockDiscipline /\ [Next]_vars => LockDiscipline'
  <2> SUFFICES ASSUME TypeOK, LockDiscipline, [Next]_vars PROVE LockDiscipline'
    OBVIOUS
  <2>1. CASE \E t \in Threads : Scheduler(t)
    BY <2>1, SchedulerLocks
  <2>2. CASE Com \/ Environment
    BY <2>2, OthersLocks DEF TypeOK, LockDiscipline, HoldsData, HoldsMutex, Goto, lockVars
  <2>3. CASE UNCHANGED vars
    BY <2>3 DEF vars, LockDiscipline, threadVars, lockVars
  <2>4. QED BY <2>1, <2>2, <2>3 DEF Next
<1>3. QED BY <1>1, <1>2, TypeCorrect, PTL DEF Spec
-----------------------------------------------------------------------------
(* A session lives under the data lock *)

OneThread    == \A a, b \in Threads : a = b
NeverStopped == Reported \cap Stopped = {}

\* What keeps the thread of a session in its loop: the scheduler is alive as
\* long as a thread is in a session, unless a thread that ended late reset alive.
SessionAlive == \A t \in Threads : pc[t] \in InSessionPoints => alive \/ lateEnd

\* No thread ends late when there is one thread, or when the scheduler is never
\* stopped: then none is about to end, and all that run find it alive.
Punctual ==
  /\ ~lateEnd
  /\ OneThread => \A t \in Threads : pc[t] \in {"quit", "end"} => ~alive
  /\ NeverStopped => \A t \in Threads : /\ pc[t] \notin {"quit", "end"}
                                        /\ pc[t] \notin {"off", "create", "begin"} => alive

SessionGuard == SessionAlive /\ SessionUnderLock
SessionInv   == SessionGuard /\ ~lateEnd

\* isSessionOpened changes an open session into an open session only.
LEMMA IsSessionOpenedKeeps ==
  ASSUME IsSessionOpened
  PROVE  sendMessageStatus' \in Open => sendMessageStatus \in Open
BY DEF IsSessionOpened, Open

\* No step but those of the threads and the notification of the device status
\* changes alive or opens a session, and only threads end; the notification cannot stop the
\* scheduler under the feet of a thread in a session, since that thread holds
\* the data lock.
LEMMA OthersSession ==
  ASSUME Com \/ Environment
  PROVE  /\ sendMessageStatus' \in Open => sendMessageStatus \in Open
         /\ \/ alive' = alive
            \/ DataAvailable /\ alive' = FALSE /\ ~NeverStopped
         /\ lateEnd' = lateEnd
<1> USE DEF engineVars, quietVars, statusVars
<1>1. CASE Com
  BY <1>1, IsSessionOpenedKeeps
     DEF Com, InformResponse, AcsRpc, AcsAnswer, AskReadyToClose, IsReadyToClose, ConfirmSession,
         SessionClosed, Open
<1>2. ASSUME NEW s \in DeviceStatus, DeviceStatusChanged(s)
      PROVE  /\ sendMessageStatus' = sendMessageStatus
             /\ alive' = alive \/ (DataAvailable /\ alive' = FALSE /\ ~NeverStopped)
             /\ lateEnd' = lateEnd
  BY <1>2 DEF DeviceStatusChanged, NeverStopped
<1>3. CASE ValueChanged \/ Mute \/ ScheduleInform \/ QueueTransfer \/ TimerDue
  BY <1>3 DEF ValueChanged, Mute, ScheduleInform, QueueTransfer, TimerDue
<1>4. CASE \/ \E e \in EventCode : PostEvent(e)
           \/ \E id \in Transfers : TransferDone(id)
           \/ \E d \in Downloads : DownloadRequested(d)
  BY <1>4 DEF PostEvent, TransferDone, DownloadRequested
<1>5. CASE ServerAdmit \/ ServerRequest \/ ServerPost \/ \E t \in Threads : SpuriousWake(t)
  BY <1>5, IsSessionOpenedKeeps DEF ServerAdmit, ServerRequest, ServerPost, SpuriousWake
<1>6. QED BY <1>1, <1>2, <1>3, <1>4, <1>5 DEF Environment

\* A step of a thread keeps the scheduler alive for the threads in a session,
\* or is the end of one that ends late.
LEMMA SchedulerAlive ==
  ASSUME TypeOK, LockDiscipline, SessionAlive, NEW t \in Threads, Scheduler(t)
  PROVE  SessionAlive'
<1> USE DEF TypeOK, LockDiscipline, HoldsData, SessionAlive, InSessionPoints, Goto
<1>1. CASE Start(t) \/ Relock(t)
  BY <1>1 DEF Start, Relock, LockData
<1>2. CASE Enter(t)
  BY <1>2 DEF Enter
<1>3. CASE Top(t)
  BY <1>3 DEF Top
<1>4. CASE SendMessage(t)
  BY <1>4 DEF SendMessage
<1>5. CASE Await(t) \/ EndSession(t)
  BY <1>5 DEF Await, EndSession
<1>6. CASE WakeInSession(t)
  BY <1>6 DEF WakeInSession
<1>7. CASE Unlock(t)
  BY <1>7 DEF Unlock
<1>8. CASE Plan(t)
  BY <1>8 DEF Plan
<1>9. CASE WakeSleep(t) \/ RetrySignalled(t) \/ RetryElapsed(t) \/ WakeNap(t)
  BY <1>9 DEF WakeSleep, RetrySignalled, RetryElapsed, WakeNap, Resume
<1>10. CASE End(t)
  BY <1>10 DEF End
<1>11. QED
  BY <1>1, <1>2, <1>3, <1>4, <1>5, <1>6, <1>7, <1>8, <1>9, <1>10 DEF Scheduler

\* No thread ends late, under either hypothesis.
LEMMA SchedulerPunctual ==
  ASSUME OneThread \/ NeverStopped, TypeOK, Punctual, NEW t \in Threads, Scheduler(t)
  PROVE  Punctual'
<1> USE DEF TypeOK, Punctual, Goto, OneThread
<1>1. CASE Start(t) \/ Relock(t)
  BY <1>1 DEF Start, Relock, LockData
<1>2. CASE Enter(t)
  BY <1>2 DEF Enter
<1>3. CASE Top(t)
  BY <1>3 DEF Top
<1>4. CASE SendMessage(t)
  BY <1>4 DEF SendMessage
<1>5. CASE Await(t) \/ EndSession(t)
  BY <1>5 DEF Await, EndSession
<1>6. CASE WakeInSession(t)
  BY <1>6 DEF WakeInSession
<1>7. CASE Unlock(t)
  BY <1>7 DEF Unlock
<1>8. CASE Plan(t)
  BY <1>8 DEF Plan
<1>9. CASE WakeSleep(t) \/ RetrySignalled(t) \/ RetryElapsed(t) \/ WakeNap(t)
  BY <1>9 DEF WakeSleep, RetrySignalled, RetryElapsed, WakeNap, Resume
<1>10. CASE End(t)
  BY <1>10 DEF End
<1>11. QED
  BY <1>1, <1>2, <1>3, <1>4, <1>5, <1>6, <1>7, <1>8, <1>9, <1>10 DEF Scheduler

\* A step of a thread keeps an open session in the hands of the owner of the
\* data lock.
LEMMA SchedulerSession ==
  ASSUME TypeOK, LockDiscipline, SessionGuard, NEW t \in Threads, Scheduler(t)
  PROVE  SessionUnderLock'
<1> USE DEF TypeOK, SessionGuard, SessionUnderLock, Goto, LockDiscipline, HoldsData, HoldsMutex,
            lockVars, statusVars
<1>1. CASE Start(t) \/ Relock(t)
  BY <1>1, ThreadsAssumption DEF Start, Relock, LockData
<1>2. CASE Enter(t)
  BY <1>2 DEF Enter
<1>3. CASE Top(t)
  BY <1>3 DEF Top, Open
<1>4. CASE SendMessage(t)
  BY <1>4 DEF SendMessage
<1>5. CASE Await(t)
  BY <1>5 DEF Await
<1>6. CASE EndSession(t)
  BY <1>6 DEF EndSession, SessionAlive, InSessionPoints
<1>7. CASE WakeInSession(t)
  BY <1>7 DEF WakeInSession
<1>8. CASE Unlock(t)
  BY <1>8 DEF Unlock
<1>9. CASE Plan(t)
  BY <1>9 DEF Plan
<1>10. CASE WakeSleep(t) \/ RetrySignalled(t) \/ RetryElapsed(t) \/ WakeNap(t)
  BY <1>10 DEF WakeSleep, RetrySignalled, RetryElapsed, WakeNap, Resume
<1>11. CASE End(t)
  BY <1>11 DEF End
<1>12. QED
  BY <1>1, <1>2, <1>3, <1>4, <1>5, <1>6, <1>7, <1>8, <1>9, <1>10, <1>11 DEF Scheduler

\* The strengthened invariant holds in every reachable state.
LEMMA SessionGuarded == Spec => []SessionGuard
<1>1. Init => SessionGuard
  BY DEF Init, SessionGuard, SessionAlive, SessionUnderLock, InSessionPoints, Open
<1>2. TypeOK /\ LockDiscipline /\ SessionGuard /\ [Next]_vars => SessionGuard'
  <2> SUFFICES ASSUME TypeOK, LockDiscipline, SessionGuard, [Next]_vars PROVE SessionGuard'
    OBVIOUS
  <2>1. CASE \E t \in Threads : Scheduler(t)
    BY <2>1, SchedulerAlive, SchedulerSession DEF SessionGuard
  <2>2. CASE Com \/ Environment
    <3>1. /\ UNCHANGED lockVars
          /\ UNCHANGED pc \/ \E t \in Threads : pc[t] = "off" /\ Goto(t, "create")
      BY <2>2, OthersLocks
    <3>2. /\ sendMessageStatus' \in Open => sendMessageStatus \in Open
          /\ alive' = alive \/ DataAvailable
          /\ lateEnd' = lateEnd
      BY <2>2, OthersSession
    <3>3. SessionUnderLock'
      BY <3>1, <3>2 DEF SessionGuard, SessionUnderLock, Goto, TypeOK, lockVars
    <3>4. SessionAlive'
      BY <3>1, <3>2 DEF SessionGuard, SessionAlive, InSessionPoints, Goto, TypeOK, DataAvailable,
                        LockDiscipline, HoldsData
    <3>5. QED BY <3>3, <3>4 DEF SessionGuard
  <2>3. CASE UNCHANGED vars
    BY <2>3 DEF vars, SessionGuard, SessionAlive, SessionUnderLock, threadVars, lockVars, statusVars
  <2>4. QED BY <2>1, <2>2, <2>3 DEF Next
<1>3. QED BY <1>1, <1>2, TypeCorrect, LocksCorrect, PTL DEF Spec

\* While a session is opening or opened its thread holds the data lock, so the
\* RPCs of the ACS may work on the data model without locking it.  This holds
\* for any number of threads, whatever the device reports, up to the one case
\* that a thread of the stopped scheduler ends after the restart and resets
\* alive under the session.
THEOREM SessionLocked == Spec => []SessionUnderLock
<1>1. SessionGuard => SessionUnderLock
  BY DEF SessionGuard
<1>2. QED BY <1>1, SessionGuarded, PTL

\* That case needs two threads and a device that asks to stop the scheduler.
THEOREM NoLateEnd ==
  ASSUME OneThread \/ NeverStopped
  PROVE  Spec => []~lateEnd
<1>1. Init => Punctual
  BY DEF Init, Punctual
<1>2. TypeOK /\ Punctual /\ [Next]_vars => Punctual'
  <2> SUFFICES ASSUME TypeOK, Punctual, [Next]_vars PROVE Punctual'
    OBVIOUS
  <2>1. CASE \E t \in Threads : Scheduler(t)
    BY <2>1, SchedulerPunctual
  <2>2. CASE Com \/ Environment
    <3>1. UNCHANGED pc \/ \E t \in Threads : pc[t] = "off" /\ Goto(t, "create")
      BY <2>2, OthersLocks
    <3>2. /\ alive' = alive \/ (alive' = FALSE /\ ~NeverStopped)
          /\ lateEnd' = lateEnd
      BY <2>2, OthersSession
    <3>3. QED BY <3>1, <3>2 DEF Punctual, Goto, TypeOK
  <2>3. CASE UNCHANGED vars
    BY <2>3 DEF vars, Punctual, threadVars
  <2>4. QED BY <2>1, <2>2, <2>3 DEF Next
<1>3. Punctual => ~lateEnd
  BY DEF Punctual
<1>4. QED BY <1>1, <1>2, <1>3, TypeCorrect, PTL DEF Spec

\* Under either hypothesis a session always has its thread.
LEMMA SessionHeld ==
  ASSUME OneThread \/ NeverStopped
  PROVE  Spec => []SessionInv
<1>1. SessionGuard /\ ~lateEnd => SessionInv
  BY DEF SessionInv
<1>2. Spec => []~lateEnd
  BY NoLateEnd
<1>3. QED BY <1>1, <1>2, SessionGuarded, PTL
-----------------------------------------------------------------------------
(* What a thread that sleeps knows *)

Untimed == "queue" \notin Disturbances

\* From the head of the loop to the wait, what the thread saw there (noEvent)
\* stays true: what is added to the queues meanwhile comes with a posted
\* event, at which the thread looks before it waits.  Asleep without a
\* timeout, it has none planned, so that a timeout that is armed signals it.
RestInv ==
  \A t \in Threads :
    /\ pc[t] \in {"unlock", "plan"} /\ noEvent[t] =>
         events = {} /\ (pendingEvents = {} => results = {} /\ downloads = {})
    /\ pc[t] = "sleep" => ~planned
    /\ pc[t] \in {"sleep", "snooze"} /\ ~wake[t] =>
         /\ pendingEvents = {} /\ events = {} /\ results = {} /\ downloads = {}
         /\ pc[t] = "sleep" => timer = "none"

\* pthread_cond_signal wakes up the only thread, if it waits.
LEMMA SignalOne ==
  ASSUME OneThread, TypeOK, SignalCond, NEW t \in Threads
  PROVE  /\ pc[t] \in WaitPoints => wake'[t]
         /\ wake[t] => wake'[t]
BY DEF OneThread, TypeOK, SignalCond, Waiters

\* isSessionOpened only takes away from the queues.
LEMMA IsSessionOpenedShrinks ==
  ASSUME IsSessionOpened
  PROVE  /\ events = {} => events' = {}
         /\ results = {} => results' = {}
         /\ downloads = {} => downloads' = {}
         /\ pendingEvents' = pendingEvents
BY DEF IsSessionOpened, Confirm, ClearEvents, RemoveFirst, eventVars, queueVars

\* A step of the thread keeps what it knows.
LEMMA SchedulerRests ==
  ASSUME OneThread, TypeOK, RestInv, NEW t \in Threads, Scheduler(t)
  PROVE  RestInv'
<1> USE DEF OneThread, TypeOK, RestInv, Goto, lockVars, statusVars, eventVars, queueVars, retryVars,
            timeVars
<1>1. CASE Start(t) \/ Relock(t)
  BY <1>1 DEF Start, Relock, LockData
<1>2. CASE Enter(t)
  BY <1>2 DEF Enter
<1>3. CASE Top(t)
  <2>1. pendingEvents' = {} /\ downloads' = downloads
    BY <1>3 DEF Top, ManageEvents
  <2>2. events' = {} => results' = {} /\ downloads = {}
    BY <1>3 DEF Top, ManageEvents
  <2>3. pc'[t] \in {"quit", "unlock", "send"}
    BY <1>3 DEF Top
  <2>4. pc'[t] = "unlock" => (noEvent'[t] <=> events' = {})
    BY <1>3 DEF Top
  <2>5. QED BY <2>1, <2>2, <2>3, <2>4
<1>4. CASE SendMessage(t)
  BY <1>4 DEF SendMessage
<1>5. CASE Await(t)
  BY <1>5 DEF Await
<1>6. CASE EndSession(t)
  BY <1>6 DEF EndSession
<1>7. CASE WakeInSession(t)
  BY <1>7 DEF WakeInSession
<1>8. CASE Unlock(t)
  BY <1>8 DEF Unlock
<1>9. CASE Plan(t)
  BY <1>9 DEF Plan
<1>10. CASE WakeSleep(t) \/ RetrySignalled(t) \/ RetryElapsed(t) \/ WakeNap(t)
  BY <1>10 DEF WakeSleep, RetrySignalled, RetryElapsed, WakeNap, Resume
<1>11. CASE End(t)
  BY <1>11 DEF End
<1>12. QED
  BY <1>1, <1>2, <1>3, <1>4, <1>5, <1>6, <1>7, <1>8, <1>9, <1>10, <1>11 DEF Scheduler

\* What another caller does: it adds to the queues with a posted event and a
\* signal, arms the timer with a signal unless one is planned, or takes away.
Added == /\ UNCHANGED <<pc, events, timer>>
         /\ pendingEvents' # {} /\ SignalCond
Armed == /\ UNCHANGED <<pc, events, pendingEvents, results, downloads>>
         /\ SignalCond \/ (planned /\ UNCHANGED wake)
Taken == /\ UNCHANGED <<pc, pendingEvents, timer>>
         /\ events = {} => events' = {}
         /\ results = {} => results' = {}
         /\ downloads = {} => downloads' = {}
         /\ SignalCond \/ UNCHANGED wake

\* Nothing else is done by the communication module, ...
LEMMA ComTakes ==
  ASSUME Com
  PROVE  Taken /\ UNCHANGED <<noEvent, planned>>
<1> USE DEF Taken, engineVars, timeVars, eventVars, queueVars
<1>1. CASE InformResponse
  BY <1>1, IsSessionOpenedShrinks DEF InformResponse, AskReadyToClose
<1>2. CASE AcsRpc \/ AcsAnswer \/ ConfirmSession
  BY <1>2, IsSessionOpenedShrinks DEF AcsRpc, AcsAnswer, AskReadyToClose, ConfirmSession
<1>3. CASE IsReadyToClose
  BY <1>3 DEF IsReadyToClose
<1>4. ASSUME NEW success \in BOOLEAN, SessionClosed(success)
      PROVE  Taken /\ UNCHANGED <<noEvent, planned>>
  BY <1>4 DEF SessionClosed
<1>5. QED BY <1>1, <1>2, <1>3, <1>4 DEF Com

\* ... and by the system only what sets the device status besides.
LEMMA EnvironmentAdds ==
  ASSUME Untimed, TypeOK, Environment
  PROVE  /\ UNCHANGED <<noEvent, planned>>
         /\ \/ Added \/ Armed \/ Taken
            \/ UNCHANGED <<pc, events, pendingEvents, results, downloads, wake>> /\ timer # "none"
            \/ /\ UNCHANGED <<pc, events, pendingEvents, results, downloads, timer>>
               /\ \A t \in Threads : wake[t] => wake'[t]
            \/ /\ UNCHANGED <<events, results, downloads, timer>>
               /\ \E t \in Threads : pc[t] = "off" /\ Goto(t, "create")
<1> USE DEF Added, Armed, Taken, AddEvents, quietVars, threadVars, timeVars, eventVars, queueVars
<1>1. ASSUME NEW s \in DeviceStatus, DeviceStatusChanged(s)
      PROVE  /\ UNCHANGED <<noEvent, planned>>
             /\ \/ Added \/ Taken
                \/ /\ UNCHANGED <<events, results, downloads, timer>>
                   /\ \E t \in Threads : pc[t] = "off" /\ Goto(t, "create")
  <2>1. UNCHANGED <<noEvent, planned, events, results, downloads, timer>>
    BY <1>1 DEF DeviceStatusChanged
  <2>2. \/ UNCHANGED pc
        \/ \E t \in Threads : pc[t] = "off" /\ Goto(t, "create")
    BY <1>1 DEF DeviceStatusChanged
  <2>3. \/ pendingEvents' # {} /\ SignalCond
        \/ pendingEvents' = pendingEvents /\ (SignalCond \/ UNCHANGED wake)
    BY <1>1 DEF DeviceStatusChanged
  <2>4. QED BY <2>1, <2>2, <2>3
<1>2. CASE ValueChanged
  BY <1>2 DEF ValueChanged
<1>3. CASE Mute
  BY <1>3 DEF Mute
<1>4. CASE ScheduleInform
  BY <1>4 DEF ScheduleInform
<1>5. CASE QueueTransfer
  BY <1>5 DEF QueueTransfer, Untimed
<1>6. CASE TimerDue
  BY <1>6 DEF TimerDue
<1>7. CASE \/ \E e \in EventCode : PostEvent(e)
           \/ \E id \in Transfers : TransferDone(id)
           \/ \E d \in Downloads : DownloadRequested(d)
  BY <1>7 DEF PostEvent, TransferDone, DownloadRequested
<1>8. CASE ServerAdmit \/ ServerPost
  BY <1>8 DEF ServerAdmit, ServerPost
<1>9. CASE ServerRequest
  BY <1>9, IsSessionOpenedShrinks DEF ServerRequest
<1>10. CASE \E t \in Threads : SpuriousWake(t)
  BY <1>10 DEF SpuriousWake
<1>11. QED BY <1>1, <1>2, <1>3, <1>4, <1>5, <1>6, <1>7, <1>8, <1>9, <1>10 DEF Environment

\* A thread that sleeps without having been signalled has nothing to do: with
\* one scheduler thread no wake-up is lost, whatever is posted, completed or
\* requested between the moment the thread looks and the moment it waits, and
\* however its sessions end.  (A second thread may take the signal; a transfer
\* that the system queues with a delay does not signal.)
THEOREM SleepsOnlyAtRest ==
  ASSUME OneThread, Untimed
  PROVE  Spec => []NoSleepOnWork
<1>1. Init => RestInv
  BY DEF Init, RestInv
<1>2. TypeOK /\ RestInv /\ [Next]_vars => RestInv'
  <2> SUFFICES ASSUME TypeOK, RestInv, [Next]_vars PROVE RestInv'
    OBVIOUS
  <2>1. CASE \E t \in Threads : Scheduler(t)
    BY <2>1, SchedulerRests
  <2>2. CASE Com \/ Environment
    <3>1. UNCHANGED <<noEvent, planned>>
      BY <2>2, ComTakes, EnvironmentAdds
    <3>2. CASE Added
      BY <3>1, <3>2, SignalOne DEF RestInv, Added, WaitPoints
    <3>3. CASE Armed
      BY <3>1, <3>3, SignalOne DEF RestInv, Armed, WaitPoints, TypeOK
    <3>4. CASE Taken
      BY <3>1, <3>4, SignalOne DEF RestInv, Taken, WaitPoints, TypeOK
    <3>5. CASE UNCHANGED <<pc, events, pendingEvents, results, downloads, wake>> /\ timer # "none"
      BY <3>1, <3>5 DEF RestInv
    <3>6. CASE \E t \in Threads : pc[t] = "off" /\ Goto(t, "create")
      BY <3>6 DEF RestInv, Goto, OneThread, TypeOK
    <3>7. CASE /\ UNCHANGED <<pc, events, pendingEvents, results, downloads, timer>>
               /\ \A t \in Threads : wake[t] => wake'[t]
      BY <3>1, <3>7 DEF RestInv
    <3>8. QED BY <2>2, <3>2, <3>3, <3>4, <3>5, <3>6, <3>7, ComTakes, EnvironmentAdds
  <2>3. CASE UNCHANGED vars
    BY <2>3 DEF vars, RestInv, threadVars, eventVars, queueVars, timeVars
  <2>4. QED BY <2>1, <2>2, <2>3 DEF Next
<1>3. RestInv => NoSleepOnWork
  BY DEF RestInv, NoSleepOnWork
<1>4. QED BY <1>1, <1>2, <1>3, TypeCorrect, PTL DEF Spec

-----------------------------------------------------------------------------
(* What the scheduler and the communication module agree on in a session *)

Bounded == "timeout" \notin Disturbances

\* The communication module has no session of its own: as long as one is open
\* there, or its end is asked for or confirmed, the scheduler is in a session.
\* Once it is opened no event is registered any more.
SessionState ==
  /\ bSession => sendMessageStatus \in Open
  /\ asking => sendMessageStatus = "SESSION_OPENED"
  /\ closing => sendMessageStatus = "SESSION_OPENED"
  /\ sendMessageStatus = "SESSION_OPENED" => events = {}

\* Where the data model is locked for something else, no session is open.
LEMMA LockedOutside ==
  ASSUME LockDiscipline, SessionInv
  PROVE  /\ \A t \in Threads :
              pc[t] \in {"top", "send", "unlock", "quit"} => sendMessageStatus \notin Open
         /\ DataAvailable => sendMessageStatus \notin Open
         /\ \A t, u \in Threads : pc[t] \in InSessionPoints \cup {"top"}
                                  /\ pc[u] \in InSessionPoints \cup {"top"} => t = u
         /\ DataAvailable => \A t \in Threads : pc[t] \notin InSessionPoints
         /\ schedulerMutex = NoThread => \A t \in Threads : pc[t] \notin {"top", "send", "loop"}
BY ThreadsAssumption
   DEF LockDiscipline, SessionInv, SessionGuard, SessionUnderLock, DataAvailable, HoldsData, HoldsMutex, InSessionPoints

\* isSessionOpened opens the session that is opening and drops its events.
LEMMA SessionOpens ==
  ASSUME IsSessionOpened
  PROVE  /\ sendMessageStatus' = IF sendMessageStatus = "SESSION_OPENING" THEN "SESSION_OPENED"
                                 ELSE sendMessageStatus
         /\ events' = IF sendMessageStatus = "SESSION_OPENING" THEN {} ELSE events
         /\ pendingEvents' = pendingEvents
         /\ changed' <=> (changed /\ (sendMessageStatus = "SESSION_OPENING" => events = {}))
         /\ retryCount' = IF sendMessageStatus = "SESSION_OPENING" /\ events # {} THEN 0 ELSE retryCount
         /\ results' \subseteq results /\ downloads' \subseteq downloads
         /\ sendMessageStatus \notin Open => UNCHANGED <<results, downloads>>
<1> USE DEF IsSessionOpened, Confirm, Open
<1>1. /\ sendMessageStatus' = IF sendMessageStatus = "SESSION_OPENING" THEN "SESSION_OPENED"
                              ELSE sendMessageStatus
      /\ pendingEvents' = pendingEvents
  OBVIOUS
<1>2. /\ events' = IF sendMessageStatus = "SESSION_OPENING" THEN {} ELSE events
      /\ retryCount' = IF sendMessageStatus = "SESSION_OPENING" /\ events # {} THEN 0 ELSE retryCount
  BY DEF ClearEvents
<1>3. changed' <=> (changed /\ (sendMessageStatus = "SESSION_OPENING" => events = {}))
  BY DEF ClearEvents
<1>4. results' \subseteq results /\ downloads' \subseteq downloads
  BY DEF RemoveFirst
<1>5. sendMessageStatus \notin Open => UNCHANGED <<results, downloads>>
  OBVIOUS
<1>6. QED BY <1>1, <1>2, <1>3, <1>4, <1>5

\* The steps of a thread outside its sessions.
Idling(t) ==
  \/ Start(t) \/ Relock(t) \/ Enter(t) \/ Unlock(t) \/ Plan(t) \/ WakeSleep(t)
  \/ RetrySignalled(t) \/ RetryElapsed(t) \/ WakeNap(t) \/ End(t)

sessionVars == <<statusVars, eventVars, queueVars, retryCount, comVars, server, lastSession>>

LEMMA IdlingQuiet ==
  ASSUME TypeOK, NEW t \in Threads, Idling(t)
  PROVE  /\ UNCHANGED sessionVars
         /\ \A u \in Threads : pc[u] \in InSessionPoints \/ pc'[u] \in InSessionPoints => pc'[u] = pc[u]
<1> USE DEF TypeOK, sessionVars, retryVars, timeVars, Goto, InSessionPoints
<1>1. CASE Start(t) \/ Relock(t)
  BY <1>1 DEF Start, Relock, LockData
<1>2. CASE Enter(t) \/ Unlock(t) \/ End(t)
  BY <1>2 DEF Enter, Unlock, End
<1>3. CASE Plan(t)
  BY <1>3 DEF Plan
<1>4. CASE WakeSleep(t) \/ RetrySignalled(t) \/ RetryElapsed(t) \/ WakeNap(t)
  BY <1>4 DEF WakeSleep, RetrySignalled, RetryElapsed, WakeNap, Resume
<1>5. QED BY <1>1, <1>2, <1>3, <1>4 DEF Idling

\* The other steps of a thread.
LEMMA SchedulerSteps ==
  ASSUME NEW t \in Threads, Scheduler(t)
  PROVE  \/ Idling(t) \/ Top(t) \/ SendMessage(t) \/ Await(t) \/ EndSession(t) \/ WakeInSession(t)
BY DEF Scheduler, Idling

\* What the system and the HTTP server do to a session: the server may take it
\* for opened; the system only posts, outside the critical section of the
\* scheduler, and a value changes outside the sessions or in an opened one.
SystemStep ==
  /\ UNCHANGED <<events, statusVars, retryCount>>
  /\ \/ results' # results \/ downloads' # downloads
     \/ pendingEvents' # pendingEvents \/ changed' # changed
     => schedulerMutex = NoThread \/ "mute" \in Disturbances
  /\ changed /\ ~changed' => "mute" \in Disturbances
  /\ changed # changed' \/ "VALUE_CHANGE" \in pendingEvents' \ pendingEvents =>
       DataAvailable \/ sendMessageStatus = "SESSION_OPENED"
  /\ "VALUE_CHANGE" \in pendingEvents' \ pendingEvents => changed'
  /\ results \subseteq results' /\ downloads \subseteq downloads'

LEMMA EnvironmentPosts ==
  ASSUME Environment
  PROVE  /\ UNCHANGED <<comVars, lastSession>>
         /\ \/ SystemStep
            \/ IsSessionOpened /\ UNCHANGED pc /\ server = "admitted"
         /\ "CONNECTION_REQUEST" \notin Posted /\ server = "idle" => server' = "idle"
<1> USE DEF SystemStep, quietVars, threadVars, eventVars, queueVars, statusVars, retryVars, AddEvents
<1> DEFINE G == /\ UNCHANGED <<comVars, lastSession>> /\ SystemStep
                /\ server = "idle" => server' = "idle"
<1>1. ASSUME NEW s \in DeviceStatus, DeviceStatusChanged(s)
      PROVE  G
  <2>1. /\ UNCHANGED <<comVars, lastSession, events, statusVars, retryCount, results, downloads, server>>
        /\ schedulerMutex = NoThread /\ DataAvailable
    BY <1>1 DEF DeviceStatusChanged
  <2>4. changed => changed'
    <3>1. changed' \in {changed, TRUE}
      BY <1>1 DEF DeviceStatusChanged
    <3>2. QED BY <3>1
  <2>2. "VALUE_CHANGE" \in pendingEvents' \ pendingEvents => changed'
    BY <1>1 DEF DeviceStatusChanged
  <2>3. QED BY <2>1, <2>2, <2>4
<1>2. CASE ValueChanged
  BY <1>2 DEF ValueChanged
<1>3. CASE Mute
  BY <1>3 DEF Mute
<1>4. CASE ScheduleInform \/ QueueTransfer \/ TimerDue
  BY <1>4 DEF ScheduleInform, QueueTransfer, TimerDue
<1>5. CASE \/ \E e \in EventCode : PostEvent(e)
           \/ \E id \in Transfers : TransferDone(id)
           \/ \E d \in Downloads : DownloadRequested(d)
  BY <1>5 DEF PostEvent, TransferDone, DownloadRequested
<1>6. CASE ServerAdmit \/ ServerPost
  BY <1>6 DEF ServerAdmit, ServerPost
<1>7. CASE ServerRequest
  BY <1>7 DEF ServerRequest, threadVars
<1>8. CASE \E t \in Threads : SpuriousWake(t)
  BY <1>8 DEF SpuriousWake
<1>9. QED BY <1>1, <1>2, <1>3, <1>4, <1>5, <1>6, <1>7, <1>8 DEF Environment

\* A step of a thread keeps the agreement.
LEMMA SchedulerAgrees ==
  ASSUME Bounded, TypeOK, LockDiscipline, SessionInv, SessionState, NEW t \in Threads, Scheduler(t)
  PROVE  SessionState'
<1> USE DEF SessionState, statusVars, eventVars, comVars, Open
<1>1. CASE Idling(t)
  BY <1>1, IdlingQuiet DEF sessionVars
<1>2. CASE Top(t)
  BY <1>2, LockedOutside DEF Top, SessionInv
<1>3. CASE SendMessage(t)
  BY <1>3, LockedOutside DEF SendMessage, SessionInv
<1>4. CASE Await(t)
  BY <1>4 DEF Await
<1>5. CASE EndSession(t)
  BY <1>5 DEF EndSession, SessionInv, SessionGuard, SessionAlive, InSessionPoints
<1>6. CASE WakeInSession(t)
  BY <1>6 DEF WakeInSession, Bounded
<1>7. QED BY <1>1, <1>2, <1>3, <1>4, <1>5, <1>6, SchedulerSteps

\* A step of the communication module keeps the agreement.
LEMMA ComAgrees ==
  ASSUME SessionState, Com
  PROVE  SessionState'
<1> USE SessionOpens DEF SessionState, statusVars, eventVars, comVars, Open
<1>1. CASE InformResponse
  BY <1>1 DEF InformResponse, AskReadyToClose
<1>2. CASE AcsRpc
  BY <1>2 DEF AcsRpc
<1>3. CASE AcsAnswer
  BY <1>3 DEF AcsAnswer, AskReadyToClose
<1>4. CASE IsReadyToClose
  BY <1>4 DEF IsReadyToClose
<1>5. CASE ConfirmSession
  BY <1>5 DEF ConfirmSession
<1>6. ASSUME NEW success \in BOOLEAN, SessionClosed(success) PROVE SessionState'
  BY <1>6 DEF SessionClosed
<1>7. QED BY <1>1, <1>2, <1>3, <1>4, <1>5, <1>6 DEF Com

\* The two modules agree in every reachable state, if no session outlives
\* MAX_SESSION_TIME.
LEMMA SessionAgrees ==
  ASSUME OneThread \/ NeverStopped, Bounded
  PROVE  Spec => []SessionState
<1>1. Init => SessionState
  BY DEF Init, SessionState
<1>2. TypeOK /\ LockDiscipline /\ SessionInv /\ SessionState /\ [Next]_vars => SessionState'
  <2> SUFFICES ASSUME TypeOK, LockDiscipline, SessionInv, SessionState, [Next]_vars PROVE SessionState'
    OBVIOUS
  <2>1. CASE \E t \in Threads : Scheduler(t)
    BY <2>1, SchedulerAgrees
  <2>2. CASE Com
    BY <2>2, ComAgrees
  <2>3. CASE Environment
    BY <2>3, EnvironmentPosts, SessionOpens DEF SessionState, SystemStep, comVars, statusVars, Open
  <2>4. CASE UNCHANGED vars
    BY <2>4 DEF vars, SessionState, comVars, statusVars, eventVars
  <2>5. QED BY <2>1, <2>2, <2>3, <2>4 DEF Next
<1>3. QED BY <1>1, <1>2, TypeCorrect, LocksCorrect, SessionHeld, PTL DEF Spec

-----------------------------------------------------------------------------
(* The retry counter *)

Undisturbed == Disturbances \cap {"timeout", "mute", "unready", "late"} = {}

\* The event VALUE_CHANGE stands for a value that has changed; none is posted
\* while an Inform is under way, whose end clears the flag.
ValueChangeReal ==
  /\ "VALUE_CHANGE" \in pendingEvents \cup events => changed
  /\ \A t \in Threads :
       /\ pc[t] = "send" => events # {}
       /\ pc[t] \in InSessionPoints /\ events # {} => "VALUE_CHANGE" \notin pendingEvents

\* Between the sessions the counter tells how the last one ended; in a session
\* it tells how the one before ended, until the session is opened.
RetryState ==
  /\ (\A t \in Threads : pc[t] \notin {"loop", "wait"}) =>
       (retryCount = 0 <=> lastSession # "failed")
  /\ sendMessageStatus = "SESSION_OPENING" => events # {}
  /\ sendMessageStatus = "SESSION_OPENED" => retryCount = 0
  /\ \A t \in Threads : pc[t] \in {"loop", "wait"} =>
       /\ sendMessageStatus = "COMPLETED" =>
            lastSession = "ok" /\ (events = {} => retryCount = 0)
       /\ sendMessageStatus # "COMPLETED" => lastSession = "failed"

RetryInv == ValueChangeReal /\ RetryState

\* What is given with the Inform is never empty.
LEMMA SomethingToSend ==
  ASSUME ValueChangeReal, NEW t \in Threads, pc[t] = "send"
  PROVE  WithValueChange # {}
BY DEF ValueChangeReal, WithValueChange

\* The step that hands the Inform over, when a listener is registered.
LEMMA InformHandedOver ==
  ASSUME "unready" \notin Disturbances, TypeOK, ValueChangeReal, NEW t \in Threads, SendMessage(t)
  PROVE  /\ pc[t] = "send" /\ pc' = [pc EXCEPT ![t] = "loop"]
         /\ UNCHANGED <<pendingEvents, changed, retryCount>>
         /\ events' # {} /\ ("VALUE_CHANGE" \in events' => changed)
         /\ \/ sendMessageStatus' \in {"SESSION_OPENING", "CANCELLED"} /\ lastSession' = "failed"
            \/ sendMessageStatus' = "COMPLETED" /\ lastSession' = "ok"
<1>1. /\ pc[t] = "send" /\ pc' = [pc EXCEPT ![t] = "loop"]
      /\ UNCHANGED <<pendingEvents, changed, retryCount>>
  BY DEF SendMessage, Goto, retryVars
<1>2. WithValueChange # {}
  BY <1>1, SomethingToSend
<1>3. events' # {} /\ events' = WithValueChange
  BY <1>2 DEF SendMessage
<1>4. \/ sendMessageStatus' \in {"SESSION_OPENING", "CANCELLED"} /\ lastSession' = "failed"
      \/ sendMessageStatus' = "COMPLETED" /\ lastSession' = "ok"
  BY <1>2 DEF SendMessage
<1>5. QED BY <1>1, <1>3, <1>4 DEF WithValueChange

\* What the end of a session does to the counter: a success counts for
\* something only if the session still had events.
LEMMA SessionAccounted ==
  ASSUME TypeOK, SessionInv, NEW t \in Threads, EndSession(t)
  PROVE  /\ pc[t] = "loop" /\ pc' = [pc EXCEPT ![t] = "top"]
         /\ UNCHANGED <<sendMessageStatus, lastSession, pendingEvents>>
         /\ sendMessageStatus \notin Open
         /\ \/ /\ sendMessageStatus = "COMPLETED"
               /\ events' = {} /\ (changed' <=> (changed /\ events = {}))
               /\ retryCount' = IF events = {} THEN retryCount ELSE 0
            \/ sendMessageStatus # "COMPLETED" /\ retryCount' # 0 /\ UNCHANGED <<events, changed>>
<1>1. /\ pc[t] = "loop" /\ pc' = [pc EXCEPT ![t] = "top"]
      /\ UNCHANGED <<sendMessageStatus, lastSession, pendingEvents>>
  BY DEF EndSession, Goto, statusVars
<1>2. alive
  BY <1>1 DEF SessionInv, SessionGuard, SessionAlive, InSessionPoints
<1>3. sendMessageStatus \notin Open
  BY <1>2 DEF EndSession
<1>4. CASE sendMessageStatus = "COMPLETED"
  <2>1. events' = {} /\ retryCount' = IF events = {} THEN retryCount ELSE 0
    BY <1>4 DEF EndSession, ClearEvents
  <2>2. changed' <=> (changed /\ events = {})
    BY <1>4 DEF EndSession, ClearEvents
  <2>3. QED BY <1>1, <1>3, <1>4, <2>1, <2>2
<1>5. CASE sendMessageStatus # "COMPLETED"
  <2>1. retryCount' # 0
    BY <1>2, <1>5, DelaysAssumption DEF EndSession, Least, TypeOK
  <2>2. UNCHANGED <<events, changed>>
    BY <1>2, <1>5 DEF EndSession
  <2>3. QED BY <1>1, <1>3, <1>5, <2>1, <2>2
<1>6. QED BY <1>4, <1>5

\* A step of a thread keeps the counter faithful.
LEMMA SchedulerCounts ==
  ASSUME Undisturbed, TypeOK, LockDiscipline, SessionInv, SessionState, RetryInv,
         NEW t \in Threads, Scheduler(t)
  PROVE  RetryInv'
<1>o. \A u \in Threads : pc[t] \in InSessionPoints \cup {"top"} /\ pc[u] \in InSessionPoints => u = t
  BY LockedOutside DEF SessionInv
<1> USE DEF RetryInv, ValueChangeReal, RetryState, TypeOK, Open, InSessionPoints
<1>1. CASE Idling(t)
  BY <1>1, IdlingQuiet DEF sessionVars, statusVars, eventVars
<1>2. CASE Top(t)
  <2>1. /\ pc[t] = "top" /\ UNCHANGED <<changed, retryCount, lastSession>> /\ pendingEvents' = {}
        /\ "VALUE_CHANGE" \in events' => "VALUE_CHANGE" \in events \cup pendingEvents
    BY <1>2 DEF Top, ManageEvents, retryVars
  <2>2. \E p \in {"quit", "unlock", "send"} :
          pc' = [pc EXCEPT ![t] = p] /\ (p = "send" => events' # {})
    BY <1>2 DEF Top, Goto
  <2>3. sendMessageStatus' \notin Open
    BY <1>2, LockedOutside DEF Top, SessionInv
  <2>4. QED BY <1>o, <2>1, <2>2, <2>3
<1>3. CASE SendMessage(t)
  BY <1>3, <1>o, InformHandedOver DEF Undisturbed
<1>4. CASE Await(t)
  BY <1>4, <1>o DEF Await, Goto, statusVars, eventVars, retryVars
<1>5. CASE EndSession(t)
  BY <1>5, <1>o, SessionAccounted
<1>6. CASE WakeInSession(t)
  <2>1. /\ pc[t] = "wait" /\ pc' = [pc EXCEPT ![t] = "loop"]
        /\ UNCHANGED <<sendMessageStatus, events, pendingEvents, changed, retryCount, lastSession>>
    BY <1>6 DEF WakeInSession, Undisturbed, Goto, statusVars, eventVars, retryVars
  <2>2. QED BY <2>1
<1>7. QED BY <1>1, <1>2, <1>3, <1>4, <1>5, <1>6, SchedulerSteps

\* The opening of the session by the ACS keeps the counter faithful.
LEMMA OpeningCounts ==
  ASSUME LockDiscipline, SessionInv, SessionState, RetryInv, IsSessionOpened,
         UNCHANGED <<pc, lastSession>>
  PROVE  RetryInv'
<1> USE DEF RetryInv, ValueChangeReal, RetryState, SessionState, Open
<1>1. CASE sendMessageStatus = "SESSION_OPENING"
  <2>1. PICK t \in Threads : pc[t] \in {"loop", "wait"}
    BY <1>1 DEF SessionInv, SessionGuard, SessionUnderLock
  <2>2. "VALUE_CHANGE" \notin pendingEvents /\ events # {}
    BY <1>1, <2>1 DEF InSessionPoints
  <2>3. /\ sendMessageStatus' = "SESSION_OPENED" /\ events' = {} /\ retryCount' = 0
        /\ pendingEvents' = pendingEvents
    BY <1>1, <2>2, SessionOpens
  <2>4. \A u \in Threads : pc[u] # "send"
    BY <1>1, LockedOutside DEF SessionInv
  <2>5. QED BY <1>1, <2>1, <2>2, <2>3, <2>4
<1>2. CASE sendMessageStatus # "SESSION_OPENING"
  <2>1. UNCHANGED <<sendMessageStatus, events, pendingEvents, retryCount>> /\ (changed' <=> changed)
    BY <1>2, SessionOpens
  <2>2. QED BY <2>1
<1>3. QED BY <1>1, <1>2

\* A step of the communication module keeps the counter faithful.
LEMMA ComCounts ==
  ASSUME Undisturbed, LockDiscipline, SessionInv, SessionState, RetryInv, Com
  PROVE  RetryInv'
<1> USE DEF engineVars
<1> DEFINE Same == UNCHANGED <<pc, sendMessageStatus, events, pendingEvents, changed, retryCount,
                               lastSession>>
<1>1. Same => RetryInv'
  BY DEF RetryInv, ValueChangeReal, RetryState
<1>2. CASE InformResponse
  BY <1>1, <1>2, OpeningCounts DEF InformResponse, AskReadyToClose, statusVars, eventVars, retryVars
<1>3. CASE AcsRpc \/ AcsAnswer \/ ConfirmSession
  BY <1>3, OpeningCounts DEF AcsRpc, AcsAnswer, AskReadyToClose, ConfirmSession
<1>4. CASE IsReadyToClose
  BY <1>1, <1>4 DEF IsReadyToClose, statusVars, eventVars, retryVars
<1>5. ASSUME NEW success \in BOOLEAN, SessionClosed(success) PROVE RetryInv'
  <2>1. PICK t \in Threads : pc[t] \in {"loop", "wait"}
    BY <1>5 DEF SessionClosed, SessionInv, SessionGuard, SessionUnderLock, SessionState, Undisturbed, Open
  <2>2. UNCHANGED <<pc, events, pendingEvents, changed, retryCount>>
    BY <1>5 DEF SessionClosed, eventVars, retryVars
  <2>3. /\ success => /\ sendMessageStatus = "SESSION_OPENED"
                      /\ sendMessageStatus' = "COMPLETED" /\ lastSession' = "ok"
        /\ ~success => /\ sendMessageStatus \in Open
                       /\ sendMessageStatus' = "CANCELLED" /\ lastSession' = lastSession
    BY <1>5 DEF SessionClosed, SessionState, Undisturbed
  <2>4. QED BY <2>1, <2>2, <2>3 DEF RetryInv, ValueChangeReal, RetryState, SessionState, Open
<1>6. QED BY <1>2, <1>3, <1>4, <1>5 DEF Com

\* A step of the system or of the HTTP server keeps the counter faithful.
LEMMA EnvironmentCounts ==
  ASSUME Undisturbed, TypeOK, LockDiscipline, SessionInv, SessionState, RetryInv, Environment
  PROVE  RetryInv'
<1>1. /\ UNCHANGED lastSession
      /\ \A t \in Threads : pc'[t] = pc[t] \/ (pc[t] = "off" /\ pc'[t] = "create")
  BY EnvironmentPosts, OthersLocks DEF Goto, TypeOK
<1>2. CASE SystemStep
  <2>1. /\ UNCHANGED <<events, sendMessageStatus, retryCount>> /\ (changed => changed')
        /\ "VALUE_CHANGE" \in pendingEvents' \ pendingEvents => changed'
    BY <1>2 DEF SystemStep, Undisturbed, statusVars
  <2>2. "VALUE_CHANGE" \in pendingEvents' \ pendingEvents =>
          \A t \in Threads : pc[t] \in InSessionPoints => events = {}
    BY <1>2, LockedOutside DEF SystemStep, SessionInv, SessionState, Open, InSessionPoints
  <2>3. QED BY <1>1, <2>1, <2>2 DEF RetryInv, ValueChangeReal, RetryState, InSessionPoints
<1>3. CASE IsSessionOpened /\ UNCHANGED pc
  BY <1>1, <1>3, OpeningCounts
<1>4. QED BY <1>2, <1>3, EnvironmentPosts

\* The RetryCount given with an Inform is zero if and only if the previous
\* session, if any, completed successfully: it is counted when a session ends
\* and reset when the next one is opened, by two callers.  This needs that a
\* session ends as it was accounted: not by MAX_SESSION_TIME, nor by a Fault
\* that is handled after its end, and not before its Inform was handed over
\* (no listener, or the value change was taken back).
THEOREM RetryCounted ==
  ASSUME OneThread \/ NeverStopped, Undisturbed
  PROVE  Spec => []RetryCountFaithful
<1>1. Init => RetryInv
  BY DEF Init, RetryInv, ValueChangeReal, RetryState, InSessionPoints
<1>2. TypeOK /\ LockDiscipline /\ SessionInv /\ SessionState /\ RetryInv /\ [Next]_vars => RetryInv'
  <2> SUFFICES ASSUME TypeOK, LockDiscipline, SessionInv, SessionState, RetryInv, [Next]_vars
               PROVE  RetryInv'
    OBVIOUS
  <2>1. CASE \E t \in Threads : Scheduler(t)
    BY <2>1, SchedulerCounts
  <2>2. CASE Com
    BY <2>2, ComCounts
  <2>3. CASE Environment
    BY <2>3, EnvironmentCounts
  <2>4. CASE UNCHANGED vars
    BY <2>4 DEF vars, RetryInv, ValueChangeReal, RetryState, threadVars, statusVars, eventVars, retryVars
  <2>5. QED BY <2>1, <2>2, <2>3, <2>4 DEF Next
<1>3. LockDiscipline /\ SessionInv /\ RetryInv => RetryCountFaithful
  <2> SUFFICES ASSUME LockDiscipline, SessionInv, RetryInv, NEW t \in Threads, pc[t] = "send"
               PROVE  retryCount = 0 <=> lastSession # "failed"
    BY DEF RetryCountFaithful
  <2>1. \A u \in Threads : pc[u] \notin {"loop", "wait"}
    BY LockedOutside DEF SessionInv, InSessionPoints
  <2>2. QED BY <2>1 DEF RetryInv, RetryState
<1>4. Undisturbed => Bounded
  BY DEF Undisturbed, Bounded
<1>5. QED BY <1>1, <1>2, <1>3, <1>4, TypeCorrect, LocksCorrect, SessionHeld, SessionAgrees, PTL DEF Spec

-----------------------------------------------------------------------------
(* Nothing is forgotten *)

Unasked   == "CONNECTION_REQUEST" \notin Posted
Unaltered == Disturbances \cap {"timeout", "mute"} = {}

\* A session is opened by the answer to its Inform, since no other post is
\* open before; and the Inform under way carries all there is to report, as
\* nothing is added to it until the session is opened.
ReportInv ==
  /\ server = "idle"
  /\ sendMessageStatus \notin Open => posts = 0
  /\ sendMessageStatus = "SESSION_OPENING" =>
       /\ informAcked \/ posts <= 1
       /\ changed => "VALUE_CHANGE" \in events
  /\ sendMessageStatus = "SESSION_OPENED" => informAcked
  /\ \A t \in Threads :
       /\ pc[t] = "send" =>
            /\ sendMessageStatus = "CANCELLED"
            /\ results # {} => "TRANSFER_COMPLETE" \in events
            /\ downloads # {} => "REQUEST_DOWNLOAD" \in events
       /\ pc[t] \in {"loop", "wait"} /\ sendMessageStatus = "COMPLETED" /\ events # {} =>
            (changed => "VALUE_CHANGE" \in events)

\* What a step may not do, by the three kinds of things to report.
EventsTold ==
  \A e \in events \ {"VALUE_CHANGE"} :
    e \in events' \/ informAcked' \/ sendMessageStatus = "COMPLETED"
ChangeTold ==
  changed /\ ~changed' =>
    "VALUE_CHANGE" \in events /\ (informAcked' \/ sendMessageStatus = "COMPLETED")
QueuesTold ==
  \/ results \subseteq results' /\ downloads \subseteq downloads'
  \/ informAcked' /\ sendMessageStatus \in Open
Told == EventsTold /\ ChangeTold /\ QueuesTold

\* What the Inform takes from the state: all there is to report, or it is
\* not sent at all.
LEMMA InformComplete ==
  ASSUME TypeOK, LockDiscipline, SessionInv, ReportInv, NEW t \in Threads, SendMessage(t)
  PROVE  /\ pc[t] = "send" /\ pc' = [pc EXCEPT ![t] = "loop"]
         /\ UNCHANGED <<pendingEvents, changed, server>>
         /\ \A e \in events \ {"VALUE_CHANGE"} : e \in events'
         /\ results' = results /\ downloads' = downloads
         /\ \/ sendMessageStatus' = "CANCELLED" /\ posts' = 0
            \/ /\ sendMessageStatus' = "COMPLETED" /\ posts' = 0
               /\ changed => "VALUE_CHANGE" \in events'
            \/ /\ sendMessageStatus' = "SESSION_OPENING" /\ posts' = 1
               /\ changed => "VALUE_CHANGE" \in events'
<1>1. /\ pc[t] = "send" /\ pc' = [pc EXCEPT ![t] = "loop"]
      /\ UNCHANGED <<pendingEvents, changed, server>>
  BY DEF SendMessage, Goto
<1>2. \A e \in events \ {"VALUE_CHANGE"} : e \in WithValueChange
  BY DEF WithValueChange
<1>3. changed => "VALUE_CHANGE" \in WithValueChange
  BY DEF WithValueChange
<1>4. sendMessageStatus = "CANCELLED" /\ posts = 0 /\ OnePost = 1
  BY <1>1 DEF ReportInv, Open, OnePost, Least, MaxPosts
<1>5. WithValueChange = {"VALUE_CHANGE"} => results = {} /\ downloads = {}
  BY <1>1, <1>2 DEF ReportInv
<1>6. CASE UNCHANGED <<events, queueVars, sendMessageStatus, posts>>
  BY <1>1, <1>4, <1>6 DEF queueVars
<1>7. CASE WithValueChange = {} /\ events' = {} /\ UNCHANGED <<queueVars, sendMessageStatus, posts>>
  BY <1>1, <1>2, <1>4, <1>7 DEF queueVars
<1>8. CASE /\ events' = WithValueChange
           /\ \/ sendMessageStatus' = "SESSION_OPENING" /\ posts' = OnePost /\ UNCHANGED queueVars
              \/ sendMessageStatus' = "CANCELLED" /\ UNCHANGED <<queueVars, posts>>
              \/ /\ events' = {"VALUE_CHANGE"} /\ sendMessageStatus' = "COMPLETED"
                 /\ results' = {} /\ downloads' = {} /\ UNCHANGED posts
  BY <1>1, <1>2, <1>3, <1>4, <1>5, <1>8 DEF queueVars
<1>9. QED BY <1>6, <1>7, <1>8 DEF SendMessage

\* A step of a thread forgets nothing, and keeps the report complete.
LEMMA SchedulerTells ==
  ASSUME Unaltered, TypeOK, LockDiscipline, SessionInv, SessionState, ReportInv,
         NEW t \in Threads, Scheduler(t)
  PROVE  Told /\ ReportInv'
<1>o. \A u \in Threads : pc[t] \in InSessionPoints \cup {"top"} /\ pc[u] \in InSessionPoints => u = t
  BY LockedOutside DEF SessionInv
<1> USE DEF Told, EventsTold, ChangeTold, QueuesTold, ReportInv, TypeOK, Open, InSessionPoints
<1>1. CASE Idling(t)
  BY <1>1, IdlingQuiet DEF sessionVars, statusVars, eventVars, queueVars, comVars
<1>2. CASE Top(t)
  <2>1. /\ pc[t] = "top" /\ UNCHANGED <<changed, downloads, server, posts, informAcked>>
        /\ results \subseteq results' /\ events \subseteq events'
        /\ results' # {} => "TRANSFER_COMPLETE" \in events'
        /\ downloads # {} => "REQUEST_DOWNLOAD" \in events'
    BY <1>2 DEF Top, ManageEvents, comVars
  <2>2. \E p \in {"quit", "unlock", "send"} :
          pc' = [pc EXCEPT ![t] = p] /\ (p = "send" => sendMessageStatus' = "CANCELLED")
    BY <1>2 DEF Top, Goto
  <2>3. sendMessageStatus \notin Open /\ sendMessageStatus' \notin Open
    BY <1>2, LockedOutside DEF Top, SessionInv
  <2>4. QED BY <1>o, <2>1, <2>2, <2>3
<1>3. CASE SendMessage(t)
  BY <1>3, <1>o, InformComplete
<1>4. CASE Await(t)
  BY <1>4, <1>o DEF Await, Goto, statusVars, eventVars, queueVars, comVars
<1>5. CASE EndSession(t)
  <2>1. UNCHANGED <<results, downloads, server, posts, informAcked>>
    BY <1>5 DEF EndSession, queueVars, comVars
  <2>2. QED BY <1>5, <1>o, <2>1, SessionAccounted
<1>6. CASE WakeInSession(t)
  <2>1. /\ pc[t] = "wait" /\ pc' = [pc EXCEPT ![t] = "loop"]
        /\ UNCHANGED <<sendMessageStatus, events, pendingEvents, changed, informAcked, server>>
    BY <1>6 DEF WakeInSession, Unaltered, Goto, statusVars, eventVars
  <2>2. \/ UNCHANGED <<results, downloads, posts>>
        \/ sendMessageStatus = "SESSION_OPENED"
    BY <1>6 DEF WakeInSession, Unaltered, queueVars
  <2>3. QED BY <1>o, <2>1, <2>2
<1>7. QED BY <1>1, <1>2, <1>3, <1>4, <1>5, <1>6, SchedulerSteps

\* When the ACS opens the session, it has answered the Inform.
LEMMA OpeningTells ==
  ASSUME TypeOK, LockDiscipline, SessionInv, SessionState, ReportInv, IsSessionOpened,
         UNCHANGED <<pc, server>>,
         sendMessageStatus \in Open => informAcked'
  PROVE  /\ Told
         /\ sendMessageStatus \notin Open => UNCHANGED sendMessageStatus
         /\ sendMessageStatus \in Open => sendMessageStatus' = "SESSION_OPENED"
         /\ sendMessageStatus \in Open \/ posts' = posts => ReportInv'
<1>1. CASE sendMessageStatus \in Open
  <2>1. sendMessageStatus' = "SESSION_OPENED"
    BY <1>1, SessionOpens DEF Open
  <2>2. \A u \in Threads : pc[u] # "send"
    BY <1>1, LockedOutside DEF SessionInv
  <2>3. ReportInv'
    BY <1>1, <2>1, <2>2 DEF ReportInv, Open
  <2>4. Told
    BY <1>1, SessionOpens
       DEF Told, EventsTold, ChangeTold, QueuesTold, ReportInv, SessionState, Open, TypeOK
  <2>5. QED BY <1>1, <2>1, <2>3, <2>4
<1>2. CASE sendMessageStatus \notin Open
  <2>1. UNCHANGED <<sendMessageStatus, events, results, downloads>> /\ (changed' <=> changed)
    BY <1>2, SessionOpens DEF Open
  <2>2. QED BY <1>2, <2>1 DEF Told, EventsTold, ChangeTold, QueuesTold, ReportInv, Open
<1>3. QED BY <1>1, <1>2

\* A step of the communication module forgets nothing.
LEMMA ComTells ==
  ASSUME TypeOK, LockDiscipline, SessionInv, SessionState, ReportInv, Com
  PROVE  Told /\ ReportInv'
<1> USE DEF engineVars
<1>1. CASE InformResponse
  <2>1. informAcked' /\ sendMessageStatus \in Open /\ UNCHANGED <<pc, server>>
    BY <1>1 DEF InformResponse, SessionState
  <2>2. CASE IsSessionOpened
    BY <2>1, <2>2, OpeningTells
  <2>3. CASE UNCHANGED <<statusVars, eventVars, queueVars, retryVars, asking, ready, posts>>
    BY <2>1, <2>3
       DEF Told, EventsTold, ChangeTold, QueuesTold, ReportInv, statusVars, eventVars, queueVars, Open
  <2>4. QED BY <1>1, <2>2, <2>3 DEF InformResponse, AskReadyToClose
<1>2. CASE AcsRpc \/ AcsAnswer \/ ConfirmSession
  <2>1. /\ bSession /\ Answering /\ IsSessionOpened /\ UNCHANGED <<pc, server, informAcked>>
    BY <1>2 DEF AcsRpc, AcsAnswer, AskReadyToClose, ConfirmSession, comVars
  <2>2. sendMessageStatus \in Open /\ informAcked'
    BY <2>1 DEF SessionState, ReportInv, Answering, Open, TypeOK, MaxPosts
  <2>3. QED BY <2>1, <2>2, OpeningTells
<1>3. CASE IsReadyToClose
  <2>1. /\ sendMessageStatus = "SESSION_OPENED"
        /\ UNCHANGED <<pc, server, sendMessageStatus, events, pendingEvents, changed, results,
                       downloads, informAcked>>
    BY <1>3 DEF IsReadyToClose, SessionState, statusVars, eventVars, queueVars
  <2>2. QED BY <2>1 DEF Told, EventsTold, ChangeTold, QueuesTold, ReportInv, Open
<1>4. ASSUME NEW success \in BOOLEAN, SessionClosed(success) PROVE Told /\ ReportInv'
  <2>1. /\ UNCHANGED <<pc, server, events, pendingEvents, changed, results, downloads>>
        /\ posts' = 0
    BY <1>4 DEF SessionClosed, eventVars, queueVars
  <2>2. \/ sendMessageStatus = "SESSION_OPENED" /\ sendMessageStatus' = "COMPLETED"
        \/ sendMessageStatus' = "CANCELLED"
    BY <1>4 DEF SessionClosed, SessionState
  <2>3. \A u \in Threads : sendMessageStatus = "SESSION_OPENED" => pc[u] # "send"
    BY LockedOutside DEF SessionInv, Open
  <2>4. QED BY <2>1, <2>2, <2>3
            DEF Told, EventsTold, ChangeTold, QueuesTold, ReportInv, SessionState, Open
<1>5. QED BY <1>1, <1>2, <1>3, <1>4 DEF Com

\* A step of the system forgets nothing.
LEMMA EnvironmentTells ==
  ASSUME Unasked, Unaltered, TypeOK, LockDiscipline, SessionInv, SessionState, ReportInv, Environment
  PROVE  Told /\ ReportInv'
<1>1. /\ UNCHANGED <<posts, informAcked>> /\ server' = "idle"
      /\ \A t \in Threads : pc'[t] = pc[t] \/ (pc[t] = "off" /\ pc'[t] = "create")
      /\ SystemStep
  BY EnvironmentPosts, OthersLocks DEF Goto, TypeOK, ReportInv, Unasked, comVars
<1>2. /\ UNCHANGED <<events, sendMessageStatus>> /\ (changed => changed')
      /\ results \subseteq results' /\ downloads \subseteq downloads'
  BY <1>1 DEF SystemStep, Unaltered, statusVars
<1>3. \A t \in Threads : pc[t] = "send" => UNCHANGED <<results, downloads>>
  BY <1>1, LockedOutside DEF SystemStep, SessionInv, Unaltered
<1>4. changed' # changed => /\ sendMessageStatus # "SESSION_OPENING"
                            /\ \/ \A t \in Threads : pc[t] \notin InSessionPoints
                               \/ sendMessageStatus = "SESSION_OPENED"
  BY <1>1, LockedOutside DEF SystemStep, SessionInv, Open
<1>5. Told
  BY <1>2 DEF Told, EventsTold, ChangeTold, QueuesTold
<1>6. ReportInv'
  BY <1>1, <1>2, <1>3, <1>4 DEF ReportInv, InSessionPoints, Open
<1>7. QED BY <1>5, <1>6

\* What the engine has to tell the ACS is forgotten only when the ACS has
\* heard of it: an event when an Inform that carried it was answered, a value
\* change when its Inform was, a result or a request after its own session was
\* opened.  This needs that a connection request is not admitted just before
\* the scheduler opens a session (the server then takes the session for opened
\* before the Inform is answered), and that MAX_SESSION_TIME does not end one.
THEOREM NothingIsForgotten ==
  ASSUME OneThread \/ NeverStopped, Unasked, Unaltered
  PROVE  Spec => NothingForgotten
<1>1. Init => ReportInv
  BY DEF Init, ReportInv, Open
<1>2. TypeOK /\ LockDiscipline /\ SessionInv /\ SessionState /\ ReportInv /\ [Next]_vars
        => ReportInv' /\ [Told]_vars
  <2> SUFFICES ASSUME TypeOK, LockDiscipline, SessionInv, SessionState, ReportInv, [Next]_vars
               PROVE  ReportInv' /\ [Told]_vars
    OBVIOUS
  <2>1. CASE \E t \in Threads : Scheduler(t)
    BY <2>1, SchedulerTells
  <2>2. CASE Com
    BY <2>2, ComTells
  <2>3. CASE Environment
    BY <2>3, EnvironmentTells
  <2>4. CASE UNCHANGED vars
    BY <2>4 DEF vars, ReportInv, threadVars, statusVars, eventVars, queueVars, comVars
  <2>5. QED BY <2>1, <2>2, <2>3, <2>4 DEF Next
<1>3. [Told]_vars => [EventsTold]_vars /\ [ChangeTold]_vars /\ [QueuesTold]_vars
  BY DEF Told
<1>4. Bounded
  BY DEF Unaltered, Bounded
<1>5. Spec => [][EventsTold]_vars /\ [][ChangeTold]_vars /\ [][QueuesTold]_vars
  BY <1>1, <1>2, <1>3, <1>4, TypeCorrect, LocksCorrect, SessionHeld, SessionAgrees, PTL DEF Spec
<1>6. QED
  BY <1>5 DEF NothingForgotten, NoEventLost, ValueChangeNotLost, ResultsKept,
              EventsTold, ChangeTold, QueuesTold
=============================================================================
