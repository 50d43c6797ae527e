------------------------- MODULE ParameterLockProofs -------------------------
(***************************************************************************)
(* Proofs about ParameterLock, for any users, notifiers and number of      *)
(* notifications.                                                          *)
(***************************************************************************)
EXTENDS ParameterLock, SequenceTheorems, TLAPS

\* Who can be where, and what it carries there: the part of the inductive
\* invariant that no other conjunct says.
Roles ==
  /\ \A t \in Threads : pc[t] \in {"session", "data", "open"} => t \in Users
  /\ \A t \in Threads : pc[t] \in {"notify", "queue"} => t \in Notifiers /\ carried[t] # 0
  /\ \A t \in Notifiers : pc[t] \in {"idle", "drain", "close"} => carried[t] = 0

\* A session with the device belongs to a thread that has finished lock().
NoEarlySession == \A t \in Threads : pc[t] = "open" => ~inSession
OwnerOpened == \A t \in Notifiers : pc[t] \in Owns => ~inSession

Inv == TypeOK /\ Roles /\ Exclusion /\ NoEarlySession /\ OwnerOpened /\ DeviceSession

-----------------------------------------------------------------------------
\* A sequence over a set is one over any larger set.
LEMMA SeqWider ==
  ASSUME NEW S, NEW T, S \subseteq T, NEW s \in Seq(S)
  PROVE  s \in Seq(T)
  OBVIOUS

\* The inductive invariant holds when the lock has just been created.
LEMMA InitInv == Init => Inv
<1> SUFFICES ASSUME Init PROVE Inv
  OBVIOUS
<1>1. TypeOK
  <2>1. pendingChanges \in Seq(1 .. issued) /\ applied \in Seq(1 .. issued)
    BY EmptySeq DEF Init
  <2>2. issued \in 0 .. MaxNotifications
    BY LockBounds DEF Init
  <2>3. carried \in [Notifiers -> 0 .. issued] /\ pc \in [Threads -> Position]
    BY DEF Init, Position
  <2> QED
    BY <2>1, <2>2, <2>3 DEF Init, TypeOK
<1>2. Roles /\ Exclusion /\ NoEarlySession /\ OwnerOpened /\ DeviceSession
  BY LockThreads DEF Init, Roles, Exclusion, NoEarlySession, OwnerOpened, DeviceSession, Owns
<1> QED
  BY <1>1, <1>2 DEF Inv

-----------------------------------------------------------------------------
\* Every step keeps the types.
LEMMA NextType ==
  ASSUME TypeOK, Roles, Next
  PROVE  TypeOK'
<1> USE DEF TypeOK, Goto, Position
<1> PICK t \in Threads : Ask(t) \/ Lock(t) \/ Notify(t) \/ Working(t)
  BY DEF Next
<1>1. CASE Ask(t)
  BY <1>1 DEF Ask
<1>2. CASE Lock(t)
  BY <1>2 DEF Lock, TryLock
<1>3. CASE Notify(t)
  <2>1. issued' \in 0 .. MaxNotifications /\ 1 .. issued \subseteq 1 .. issued'
    BY <1>3, LockBounds DEF Notify
  <2>2. pendingChanges' \in Seq(1 .. issued') /\ applied' \in Seq(1 .. issued')
    BY <1>3, <2>1, SeqWider DEF Notify
  <2>3. carried' \in [Notifiers -> 0 .. issued']
    BY <1>3, LockBounds DEF Notify
  <2> QED
    BY <1>3, <2>1, <2>2, <2>3 DEF Notify
<1>4. CASE OpenSession(t)
  BY <1>4 DEF OpenSession
<1>5. CASE Process(t)
  <2>1. carried[t] \in 1 .. issued
    BY <1>5 DEF Process
  <2>2. applied' \in Seq(1 .. issued)
    BY <1>5, <2>1 DEF Process
  <2> QED
    BY <1>5, <2>2 DEF Process
<1>6. CASE Acquire(t)
  BY <1>6 DEF Acquire, TryLock
<1>7. CASE Enqueue(t)
  <2>1. t \in Notifiers /\ carried[t] \in 1 .. issued
    BY <1>7 DEF Enqueue, Roles
  <2>2. pendingChanges' \in Seq(1 .. issued)
    BY <1>7, <2>1 DEF Enqueue
  <2> QED
    BY <1>7, <2>1, <2>2 DEF Enqueue
<1>8. CASE BeginUnlock(t)
  BY <1>8 DEF BeginUnlock
<1>9. CASE Drain(t)
  <2>1. Head(pendingChanges) \in 1 .. issued /\ Tail(pendingChanges) \in Seq(1 .. issued)
    BY <1>9, HeadTailProperties DEF Drain
  <2> QED
    BY <1>9, <2>1 DEF Drain
<1>10. CASE Drained(t)
  BY <1>10 DEF Drained
<1>11. CASE Unlock(t)
  BY <1>11 DEF Unlock
<1> QED
  BY <1>1, <1>2, <1>3, <1>4, <1>5, <1>6, <1>7, <1>8, <1>9, <1>10, <1>11 DEF Working, Unlocking

-----------------------------------------------------------------------------
\* Every step keeps the lock: one step per action, one fact per conjunct.
LEMMA NextLock ==
  ASSUME Inv, Next
  PROVE  (Roles /\ Exclusion /\ NoEarlySession /\ OwnerOpened /\ DeviceSession)'
<1> USE LockThreads DEF Inv, TypeOK, Goto, Threads
<1> PICK t \in Threads : Ask(t) \/ Lock(t) \/ Notify(t) \/ Working(t)
  BY DEF Next
<1> USE DEF Roles, Exclusion, NoEarlySession, OwnerOpened, DeviceSession, Owns, Position
<1>1. CASE Ask(t)
  BY <1>1 DEF Ask
<1>2. CASE Lock(t)
  <2>1. CASE TryLock(TRUE) /\ pc' = [pc EXCEPT ![t] = IF pc[t] = "session" THEN "open" ELSE "owner"]
    <3>1. \A u \in Threads : pc[u] \notin Owns
      BY <2>1 DEF TryLock
    <3>2. ~inSession
      BY <3>1
    <3> QED
      BY <1>2, <2>1, <3>1, <3>2 DEF Lock, TryLock
  <2>2. CASE TryLock(FALSE) /\ UNCHANGED pc
    BY <1>2, <2>2 DEF Lock, TryLock
  <2> QED
    BY <1>2, <2>1, <2>2 DEF Lock
<1>3. CASE Notify(t)
  BY <1>3, LockBounds DEF Notify
<1>4. CASE OpenSession(t)
  BY <1>4 DEF OpenSession
<1>5. CASE Process(t)
  BY <1>5 DEF Process
<1>6. CASE Acquire(t)
  <2>1. CASE TryLock(TRUE) /\ pc' = [pc EXCEPT ![t] = "owner"]
    <3>1. \A u \in Threads : pc[u] \notin Owns
      BY <2>1 DEF TryLock
    <3>2. ~inSession
      BY <3>1
    <3> QED
      BY <1>6, <2>1, <3>1, <3>2 DEF Acquire, TryLock
  <2>2. CASE TryLock(FALSE) /\ pc' = [pc EXCEPT ![t] = "queue"]
    BY <1>6, <2>2 DEF Acquire, TryLock
  <2> HIDE DEF Inv, TypeOK, Roles, Exclusion, NoEarlySession, OwnerOpened, DeviceSession
  <2>3. PICK acquired \in BOOLEAN : TryLock(acquired) /\ Goto(t, IF acquired THEN "owner" ELSE "queue")
    BY <1>6 DEF Acquire
  <2> QED
    BY <2>1, <2>2, <2>3
<1>7. CASE Enqueue(t)
  BY <1>7 DEF Enqueue
<1>8. CASE BeginUnlock(t)
  BY <1>8 DEF BeginUnlock
<1>9. CASE Drain(t)
  BY <1>9 DEF Drain
<1>10. CASE Drained(t)
  BY <1>10 DEF Drained
<1>11. CASE Unlock(t)
  BY ZenonT(40), <1>11 DEF Unlock
<1> HIDE DEF Inv, TypeOK, Roles, Exclusion, NoEarlySession, OwnerOpened, DeviceSession, Owns, Position
<1> QED
  BY <1>1, <1>2, <1>3, <1>4, <1>5, <1>6, <1>7, <1>8, <1>9, <1>10, <1>11 DEF Working, Unlocking

\* A step that changes nothing keeps the invariant.
LEMMA StutterInv ==
  ASSUME Inv, UNCHANGED lockVars
  PROVE  Inv'
  BY DEF Inv, lockVars, TypeOK, Roles, Exclusion, NoEarlySession, OwnerOpened, DeviceSession

\* The inductive invariant holds of every behaviour.
LEMMA Invariance == Spec => []Inv
<1>1. Inv /\ [Next]_lockVars => Inv'
  BY NextType, NextLock, StutterInv DEF Inv
<1> QED
  BY InitInv, <1>1, PTL DEF Spec

-----------------------------------------------------------------------------
(* Notifications: the steps that move one from a place to another *)

\* A new notification is in one place only.
LEMMA NotifyOnce ==
  ASSUME TypeOK, Roles, ExactlyOnce, NEW t \in Notifiers, Notify(t)
  PROVE  ExactlyOnce'
<1>1. /\ issued \in Nat /\ issued' = issued + 1 /\ carried'[t] = issued + 1
      /\ \A u \in Notifiers \ {t} : carried'[u] = carried[u]
      /\ \A u \in Notifiers : carried[u] \in 0 .. issued
  BY LockBounds DEF TypeOK, Notify
<1>2. /\ \A i \in 1 .. Len(pendingChanges) : pendingChanges[i] \in 1 .. issued
      /\ \A i \in 1 .. Len(applied) : applied[i] \in 1 .. issued
  BY ElementOfSeq DEF TypeOK
<1>3. UNCHANGED <<pendingChanges, applied>>
  BY DEF Notify
<1>4. carried[t] = 0
  BY DEF Roles, Notify
<1>5. NoneLost'
  <2> SUFFICES ASSUME NEW n \in 1 .. issued + 1
               PROVE  \/ \E u \in Notifiers : carried'[u] = n
                      \/ \E i \in 1 .. Len(pendingChanges) : pendingChanges[i] = n
                      \/ \E i \in 1 .. Len(applied) : applied[i] = n
    BY <1>1, <1>3 DEF NoneLost
  <2>1. CASE n = issued + 1
    BY <2>1, <1>1
  <2>2. CASE n \in 1 .. issued
    <3>1. CASE \E u \in Notifiers : carried[u] = n
      BY <3>1, <2>2, <1>1, <1>4
    <3> QED
      BY <3>1, <2>2 DEF ExactlyOnce, NoneLost
  <2> QED
    BY <2>1, <2>2, <1>1
<1>6. NoneTwice'
  <2>1. NoneTwice
    BY DEF ExactlyOnce
  <2>2. /\ \A u \in Notifiers, i \in 1 .. Len(pendingChanges) : carried'[u] # pendingChanges[i]
        /\ \A u \in Notifiers, i \in 1 .. Len(applied) : carried'[u] # applied[i]
    BY <1>1, <1>2, <2>1 DEF NoneTwice
  <2>3. \A u, v \in Notifiers : carried'[u] = carried'[v] /\ carried'[u] # 0 => u = v
    BY <1>1, <2>1 DEF NoneTwice
  <2> QED
    BY <1>3, <2>1, <2>2, <2>3 DEF NoneTwice
<1> QED
  BY <1>5, <1>6 DEF ExactlyOnce

\* Processing a notification at once takes it from its thread.
LEMMA ProcessOnce ==
  ASSUME TypeOK, ExactlyOnce, NEW t \in Threads, Process(t)
  PROVE  ExactlyOnce'
<1>1. /\ t \in Notifiers /\ carried[t] # 0 /\ carried'[t] = 0
      /\ \A u \in Notifiers \ {t} : carried'[u] = carried[u]
  BY DEF TypeOK, Process
<1>2. /\ Len(applied) \in Nat /\ Len(applied') = Len(applied) + 1
      /\ applied'[Len(applied) + 1] = carried[t]
      /\ \A i \in 1 .. Len(applied) : applied'[i] = applied[i]
  BY DEF TypeOK, Process
<1>3. UNCHANGED <<issued, pendingChanges>>
  BY DEF Process
<1>4. /\ \A i \in 1 .. Len(pendingChanges) : pendingChanges[i] # 0
      /\ \A i \in 1 .. Len(applied) : applied[i] # 0
  BY ElementOfSeq DEF TypeOK
<1>5. NoneLost'
  <2> SUFFICES ASSUME NEW n \in 1 .. issued
               PROVE  \/ \E u \in Notifiers : carried'[u] = n
                      \/ \E i \in 1 .. Len(pendingChanges) : pendingChanges[i] = n
                      \/ \E i \in 1 .. Len(applied') : applied'[i] = n
    BY <1>3 DEF NoneLost
  <2>1. CASE carried[t] = n
    BY <2>1, <1>2
  <2>2. CASE \E u \in Notifiers \ {t} : carried[u] = n
    BY <2>2, <1>1
  <2>3. CASE \E i \in 1 .. Len(applied) : applied[i] = n
    BY <2>3, <1>2
  <2> QED
    BY <2>1, <2>2, <2>3 DEF ExactlyOnce, NoneLost
<1>6. NoneTwice'
  <2> USE DEF ExactlyOnce, NoneTwice
  <2>1. \A u, v \in Notifiers : carried'[u] = carried'[v] /\ carried'[u] # 0 => u = v
    BY <1>1
  <2>2. \A i, j \in 1 .. Len(applied') : applied'[i] = applied'[j] => i = j
    BY <1>1, <1>2
  <2>3. \A u \in Notifiers, i \in 1 .. Len(pendingChanges) : carried'[u] # pendingChanges[i]
    BY <1>1, <1>4
  <2>4. \A u \in Notifiers, i \in 1 .. Len(applied') : carried'[u] # applied'[i]
    BY <1>1, <1>2, <1>4
  <2>5. \A i \in 1 .. Len(pendingChanges), j \in 1 .. Len(applied') : pendingChanges[i] # applied'[j]
    BY <1>1, <1>2
  <2> QED
    BY <2>1, <2>2, <2>3, <2>4, <2>5, <1>3
<1> QED
  BY <1>5, <1>6 DEF ExactlyOnce

\* Queueing a notification takes it from its thread.
LEMMA EnqueueOnce ==
  ASSUME TypeOK, Roles, ExactlyOnce, NEW t \in Threads, Enqueue(t)
  PROVE  ExactlyOnce'
<1>1. t \in Notifiers /\ carried[t] # 0
  BY DEF Roles, Enqueue
<1>2. carried'[t] = 0 /\ \A u \in Notifiers \ {t} : carried'[u] = carried[u]
  BY <1>1 DEF TypeOK, Enqueue
<1>3. /\ Len(pendingChanges) \in Nat /\ Len(pendingChanges') = Len(pendingChanges) + 1
      /\ pendingChanges'[Len(pendingChanges) + 1] = carried[t]
      /\ \A i \in 1 .. Len(pendingChanges) : pendingChanges'[i] = pendingChanges[i]
  BY <1>1 DEF TypeOK, Enqueue
<1>4. UNCHANGED <<issued, applied>>
  BY DEF Enqueue
<1>5. /\ \A i \in 1 .. Len(pendingChanges) : pendingChanges[i] # 0
      /\ \A i \in 1 .. Len(applied) : applied[i] # 0
  BY ElementOfSeq DEF TypeOK
<1>6. NoneLost'
  <2> SUFFICES ASSUME NEW n \in 1 .. issued
               PROVE  \/ \E u \in Notifiers : carried'[u] = n
                      \/ \E i \in 1 .. Len(pendingChanges') : pendingChanges'[i] = n
                      \/ \E i \in 1 .. Len(applied) : applied[i] = n
    BY <1>4 DEF NoneLost
  <2>1. CASE carried[t] = n
    BY <2>1, <1>3
  <2>2. CASE \E u \in Notifiers \ {t} : carried[u] = n
    BY <2>2, <1>2
  <2>3. CASE \E i \in 1 .. Len(pendingChanges) : pendingChanges[i] = n
    BY <2>3, <1>3
  <2> QED
    BY <2>1, <2>2, <2>3 DEF ExactlyOnce, NoneLost
<1>7. NoneTwice'
  BY <1>1, <1>2, <1>3, <1>4, <1>5 DEF ExactlyOnce, NoneTwice
<1> QED
  BY <1>6, <1>7 DEF ExactlyOnce

\* Taking a notification from the queue processes it, and only it.
LEMMA DrainOnce ==
  ASSUME TypeOK, ExactlyOnce, NEW t \in Threads, Drain(t)
  PROVE  ExactlyOnce'
<1>1. /\ Len(pendingChanges) \in Nat \ {0}
      /\ Len(pendingChanges') = Len(pendingChanges) - 1
      /\ \A i \in 1 .. Len(pendingChanges) - 1 : pendingChanges'[i] = pendingChanges[i + 1]
      /\ Head(pendingChanges) = pendingChanges[1]
  BY HeadTailProperties DEF TypeOK, Drain
<1>2. /\ Len(applied) \in Nat /\ Len(applied') = Len(applied) + 1
      /\ applied'[Len(applied) + 1] = pendingChanges[1]
      /\ \A i \in 1 .. Len(applied) : applied'[i] = applied[i]
  BY <1>1, HeadTailProperties DEF TypeOK, Drain
<1>3. UNCHANGED <<issued, carried>>
  BY DEF Drain
<1>4. NoneLost'
  <2> SUFFICES ASSUME NEW n \in 1 .. issued
               PROVE  \/ \E u \in Notifiers : carried[u] = n
                      \/ \E i \in 1 .. Len(pendingChanges') : pendingChanges'[i] = n
                      \/ \E i \in 1 .. Len(applied') : applied'[i] = n
    BY <1>3 DEF NoneLost
  <2>1. CASE \E i \in 1 .. Len(pendingChanges) : pendingChanges[i] = n
    <3> PICK i \in 1 .. Len(pendingChanges) : pendingChanges[i] = n
      BY <2>1
    <3>1. CASE i = 1
      BY <3>1, <1>2
    <3>2. CASE i # 1
      <4>1. i - 1 \in 1 .. Len(pendingChanges') /\ pendingChanges'[i - 1] = n
        BY <3>2, <1>1
      <4> QED
        BY <4>1
    <3> QED
      BY <3>1, <3>2
  <2>2. CASE \E i \in 1 .. Len(applied) : applied[i] = n
    BY <2>2, <1>2
  <2> QED
    BY <2>1, <2>2 DEF ExactlyOnce, NoneLost
<1>5. NoneTwice'
  <2> USE DEF ExactlyOnce, NoneTwice
  <2>1. \A i, j \in 1 .. Len(pendingChanges') : pendingChanges'[i] = pendingChanges'[j] => i = j
    BY <1>1
  <2>2. \A i, j \in 1 .. Len(applied') : applied'[i] = applied'[j] => i = j
    BY <1>1, <1>2
  <2>3. \A u \in Notifiers, i \in 1 .. Len(pendingChanges') : carried[u] # pendingChanges'[i]
    BY <1>1
  <2>4. \A u \in Notifiers, i \in 1 .. Len(applied') : carried[u] # applied'[i]
    BY <1>1, <1>2
  <2>5. \A i \in 1 .. Len(pendingChanges'), j \in 1 .. Len(applied') : pendingChanges'[i] # applied'[j]
    BY <1>1, <1>2
  <2> QED
    BY <2>1, <2>2, <2>3, <2>4, <2>5, <1>3
<1> QED
  BY <1>4, <1>5 DEF ExactlyOnce

\* The other steps leave the notifications where they are.
LEMMA NextOnce ==
  ASSUME TypeOK, Roles, ExactlyOnce, Next
  PROVE  ExactlyOnce'
<1> PICK t \in Threads : Ask(t) \/ Lock(t) \/ Notify(t) \/ Working(t)
  BY DEF Next
<1>1. CASE UNCHANGED <<issued, carried, pendingChanges, applied>>
  BY <1>1 DEF ExactlyOnce, NoneLost, NoneTwice
<1>2. CASE Notify(t)
  BY <1>2, NotifyOnce DEF Notify
<1>3. CASE Process(t)
  BY <1>3, ProcessOnce
<1>4. CASE Enqueue(t)
  BY <1>4, EnqueueOnce
<1>5. CASE Drain(t)
  BY <1>5, DrainOnce
<1> QED
  BY <1>1, <1>2, <1>3, <1>4, <1>5
     DEF Ask, Lock, Working, OpenSession, Acquire, Unlocking, BeginUnlock, Drained, Unlock

\* Whatever the threads do, no notification of the system is lost and none is
\* processed twice.
THEOREM EveryNotificationOnce == Spec => []ExactlyOnce
<1>1. Init => ExactlyOnce
  BY LockBounds, EmptySeq DEF Init, ExactlyOnce, NoneLost, NoneTwice
<1>2. Inv /\ ExactlyOnce /\ [Next]_lockVars => ExactlyOnce'
  <2>1. Inv /\ ExactlyOnce /\ Next => ExactlyOnce'
    BY NextOnce DEF Inv
  <2>2. ExactlyOnce /\ UNCHANGED lockVars => ExactlyOnce'
    BY DEF lockVars, ExactlyOnce, NoneLost, NoneTwice
  <2> QED
    BY <2>1, <2>2
<1> QED
  BY Invariance, <1>1, <1>2, PTL DEF Spec

\* The variables of the lock and of the queue keep their types.
THEOREM LockTypeCorrect == Spec => []TypeOK
<1>1. Inv => TypeOK
  BY DEF Inv
<1> QED
  BY Invariance, <1>1, PTL

\* tryLock and unlock() give the data to one thread at a time, and the lock file
\* exists exactly while a thread owns it.
THEOREM DataExclusion == Spec => []Exclusion
<1>1. Inv => Exclusion
  BY DEF Inv
<1> QED
  BY Invariance, <1>1, PTL

\* A session with the device adapter is only ever open for a user that owns the
\* data: notifications that get hold of it in between never run inside one.
THEOREM DeviceSessionOwned == Spec => []DeviceSession
<1>1. Inv => DeviceSession
  BY DEF Inv
<1> QED
  BY Invariance, <1>1, PTL

\* The data, and the session with the device adapter that goes with it, have one owner.
THEOREM OwnerIsOne == Spec => []OneOwner
<1>1. Exclusion /\ DeviceSession => OneOwner
  BY DEF OneOwner
<1> QED
  BY DataExclusion, DeviceSessionOwned, <1>1, PTL
=============================================================================
