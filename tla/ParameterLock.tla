---------------------------- MODULE ParameterLock ----------------------------
(***************************************************************************)
(* The lock on the data model (DM_ENG_ParameterManager.c, lock file of     *)
(* DM_DAT1_ParameterData.c) and the queue of system notifications that     *)
(* found it taken.                                                         *)
(*                                                                         *)
(* _dataMutex is held for one step by tryLock and for the whole of         *)
(* unlock(); _changesMutex for one step each time.  Users are the          *)
(* scheduler, the RPCs and the statistics; notifiers are threads of the    *)
(* system that report new values of one parameter: the n-th notification   *)
(* carries the value n.                                                    *)
(***************************************************************************)
EXTENDS Naturals, Sequences, FiniteSets

CONSTANTS
  Users,             \* threads that lock and unlock
  Notifiers,         \* threads of the system that notify
  NoThread,          \* nobody
  MaxNotifications,  \* bound on the notifications
  CreateFails        \* can the creation of the lock file fail

Threads == Users \cup Notifiers

ASSUME LockThreads == Users \cap Notifiers = {} /\ NoThread \notin Threads
ASSUME LockBounds == MaxNotifications \in Nat /\ CreateFails \in BOOLEAN

VARIABLES
  lockFile,       \* does the lock file exist
  dataMutex,      \* owner of _dataMutex
  inSession,      \* _inSession: a session with the device adapter is open
  pendingChanges, \* the queue
  issued,         \* number of notifications made so far
  carried,        \* per notifier: the notification it is at work on, 0 if none
  applied,        \* the notifications processed, in their order
  pc              \* where each thread is

lockVars == <<lockFile, dataMutex, inSession, pendingChanges, issued, carried, applied, pc>>

(***************************************************************************)
(* idle    not concerned                                                   *)
(* session, data  polling for the lock in lock(), in lockDM()              *)
(* open    has the lock file, in DM_ENG_Device_openSession                 *)
(* owner   owns the data                                                   *)
(* drain   in the loop of unlock()      close   in what follows the loop   *)
(* notify  before tryLock               queue   after tryLock has failed   *)
(***************************************************************************)
Position == {"idle", "session", "data", "open", "owner", "drain", "close", "notify", "queue"}
Owns == {"open", "owner", "drain", "close"}

Init ==
  /\ lockFile = FALSE /\ dataMutex = NoThread /\ inSession = FALSE
  /\ pendingChanges = <<>> /\ issued = 0 /\ applied = <<>>
  /\ carried = [t \in Notifiers |-> 0]
  /\ pc = [t \in Threads |-> "idle"]

Goto(t, p) == pc' = [pc EXCEPT ![t] = p]

-----------------------------------------------------------------------------
\* Mutant of TryLock: the file is tested and created without _dataMutex, so that
\* two threads can find it missing.
TryLockRaced(success) ==
  /\ \/ success /\ lockFile' = TRUE
     \/ ~success /\ (lockFile \/ CreateFails) /\ UNCHANGED lockFile

\* tryLock
TryLock(success) ==
  /\ dataMutex = NoThread
  /\ \/ success /\ ~lockFile /\ lockFile' = TRUE
     \/ ~success /\ (lockFile \/ CreateFails) /\ UNCHANGED lockFile

\* lock() or lockDM() is called.
Ask(t) ==
  /\ t \in Users /\ pc[t] = "idle"
  /\ \E p \in {"session", "data"} : Goto(t, p)
  /\ UNCHANGED <<lockFile, dataMutex, inSession, pendingChanges, issued, carried, applied>>

\* lockDM polls; lock() goes on with the session.
Lock(t) ==
  /\ pc[t] \in {"session", "data"}
  /\ \/ TryLock(TRUE) /\ Goto(t, IF pc[t] = "session" THEN "open" ELSE "owner")
     \/ TryLock(FALSE) /\ UNCHANGED pc
  /\ UNCHANGED <<dataMutex, inSession, pendingChanges, issued, carried, applied>>

\* The end of lock().
OpenSession(t) ==
  /\ pc[t] = "open"
  /\ inSession' = TRUE
  /\ Goto(t, "owner")
  /\ UNCHANGED <<lockFile, dataMutex, pendingChanges, issued, carried, applied>>

-----------------------------------------------------------------------------
(* unlock() *)

\* Mutant of BeginUnlock: a notification returns without unlock().
BeginUnlockUsers(t) ==
  /\ t \in Users /\ pc[t] = "owner"
  /\ dataMutex = NoThread
  /\ dataMutex' = t
  /\ Goto(t, "drain")
  /\ UNCHANGED <<lockFile, inSession, pendingChanges, issued, carried, applied>>

BeginUnlock(t) ==
  /\ pc[t] = "owner"
  /\ t \in Notifiers => carried[t] = 0
  /\ dataMutex = NoThread
  /\ dataMutex' = t
  /\ Goto(t, "drain")
  /\ UNCHANGED <<lockFile, inSession, pendingChanges, issued, carried, applied>>

\* Mutant of Drain: the notification stays at the head of the queue when it is
\* the last one.
DrainAgain(t) ==
  /\ pc[t] = "drain" /\ pendingChanges # <<>>
  /\ applied' = Append(applied, Head(pendingChanges))
  /\ pendingChanges' = IF Len(pendingChanges) = 1 /\ Len(applied) < 2 * MaxNotifications
                         THEN pendingChanges ELSE Tail(pendingChanges)
  /\ UNCHANGED <<lockFile, dataMutex, inSession, issued, carried, pc>>

\* One round of the loop: the first notification is taken and processed.
Drain(t) ==
  /\ pc[t] = "drain" /\ pendingChanges # <<>>
  /\ applied' = Append(applied, Head(pendingChanges))
  /\ pendingChanges' = Tail(pendingChanges)
  /\ UNCHANGED <<lockFile, dataMutex, inSession, issued, carried, pc>>

\* The loop ends on an empty queue.
Drained(t) ==
  /\ pc[t] = "drain" /\ pendingChanges = <<>>
  /\ Goto(t, "close")
  /\ UNCHANGED <<lockFile, dataMutex, inSession, pendingChanges, issued, carried, applied>>

\* The session with the device is closed, the lock file is removed.
Unlock(t) ==
  /\ pc[t] = "close"
  /\ inSession' = FALSE /\ lockFile' = FALSE /\ dataMutex' = NoThread
  /\ Goto(t, "idle")
  /\ UNCHANGED <<pendingChanges, issued, carried, applied>>

-----------------------------------------------------------------------------
(* DM_ENG_ParameterManager_dataNewValue, and the other notifications *)

Notify(t) ==
  /\ t \in Notifiers /\ pc[t] = "idle" /\ issued < MaxNotifications
  /\ issued' = issued + 1
  /\ carried' = [carried EXCEPT ![t] = issued + 1]
  /\ Goto(t, "notify")
  /\ UNCHANGED <<lockFile, dataMutex, inSession, pendingChanges, applied>>

\* tryLock succeeds, or fails.
Acquire(t) ==
  /\ pc[t] = "notify"
  /\ \E acquired \in BOOLEAN : TryLock(acquired) /\ Goto(t, IF acquired THEN "owner" ELSE "queue")
  /\ UNCHANGED <<dataMutex, inSession, pendingChanges, issued, carried, applied>>

\* The notification is processed by its own thread.
Process(t) ==
  /\ t \in Notifiers /\ pc[t] = "owner" /\ carried[t] # 0
  /\ applied' = Append(applied, carried[t])
  /\ carried' = [carried EXCEPT ![t] = 0]
  /\ UNCHANGED <<lockFile, dataMutex, inSession, pendingChanges, issued, pc>>

\* The notification is queued.
Enqueue(t) ==
  /\ pc[t] = "queue"
  /\ pendingChanges' = Append(pendingChanges, carried[t])
  /\ carried' = [carried EXCEPT ![t] = 0]
  /\ Goto(t, "idle")
  /\ UNCHANGED <<lockFile, dataMutex, inSession, issued, applied>>

Unlocking(t) == BeginUnlock(t) \/ Drain(t) \/ Drained(t) \/ Unlock(t)
Working(t) == OpenSession(t) \/ Process(t) \/ Acquire(t) \/ Enqueue(t) \/ Unlocking(t)

Next == \E t \in Threads : Ask(t) \/ Lock(t) \/ Notify(t) \/ Working(t)

Spec == Init /\ [][Next]_lockVars

\* Threads that are at work go on; a polling thread may be unlucky for ever.
FairSpec == Spec /\ \A t \in Threads : WF_lockVars(Working(t))

-----------------------------------------------------------------------------
\* Types: only notifications that were made are queued, carried or processed.
TypeOK ==
  /\ lockFile \in BOOLEAN /\ inSession \in BOOLEAN
  /\ dataMutex \in Threads \cup {NoThread}
  /\ issued \in 0 .. MaxNotifications
  /\ pendingChanges \in Seq(1 .. issued) /\ applied \in Seq(1 .. issued)
  /\ carried \in [Notifiers -> 0 .. issued]
  /\ pc \in [Threads -> Position]

\* One thread at most owns the data, and the lock file is there exactly as long:
\* tryLock and unlock() of several threads never cross.
Exclusion ==
  /\ \A t, u \in Threads : pc[t] \in Owns /\ pc[u] \in Owns => t = u
  /\ lockFile = (\E t \in Threads : pc[t] \in Owns)
  /\ \A t \in Threads : pc[t] \in {"drain", "close"} <=> dataMutex = t

\* A session with the device adapter is open only for a thread that owns the data,
\* and never for a notifier, which calls tryLock without opening one.
DeviceSession == inSession => \E t \in Users : pc[t] \in Owns \ {"open"}

\* The data, and the session with the device adapter that goes with it, have one owner.
OneOwner == Exclusion /\ DeviceSession

\* Every notification made is with its thread, in the queue, or processed.
NoneLost ==
  \A n \in 1 .. issued :
    \/ \E t \in Notifiers : carried[t] = n
    \/ \E i \in 1 .. Len(pendingChanges) : pendingChanges[i] = n
    \/ \E i \in 1 .. Len(applied) : applied[i] = n

\* It is in one of these places only, and once.
NoneTwice ==
  /\ \A t, u \in Notifiers : carried[t] = carried[u] /\ carried[t] # 0 => t = u
  /\ \A i, j \in 1 .. Len(pendingChanges) : pendingChanges[i] = pendingChanges[j] => i = j
  /\ \A i, j \in 1 .. Len(applied) : applied[i] = applied[j] => i = j
  /\ \A t \in Notifiers, i \in 1 .. Len(pendingChanges) : carried[t] # pendingChanges[i]
  /\ \A t \in Notifiers, i \in 1 .. Len(applied) : carried[t] # applied[i]
  /\ \A i \in 1 .. Len(pendingChanges), j \in 1 .. Len(applied) : pendingChanges[i] # applied[j]

\* No notification is lost and none is processed twice, though threads decide
\* without the lock whether to process or to queue theirs.
ExactlyOnce == NoneLost /\ NoneTwice

\* The data is given back, whatever is queued meanwhile.
Released == \A t \in Threads : (pc[t] \in Owns) ~> (pc[t] \notin Owns)
=============================================================================
