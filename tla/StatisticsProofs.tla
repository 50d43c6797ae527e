--------------------------- MODULE StatisticsProofs ---------------------------
(***************************************************************************)
(* Proofs about the statistics module, for any objects, intervals, lengths *)
(* of time, and any number of settings, sessions and mishaps: what the     *)
(* polling thread may use, and which objects it polls.                     *)
(***************************************************************************)
EXTENDS Statistics, FiniteSetTheorems, SequenceTheorems, TLAPS

-----------------------------------------------------------------------------
(* The inductive invariant *)

IsSeq(s) == s \in Seq({s[i] : i \in DOMAIN s})
HasFields(r, fields) == fields \subseteq DOMAIN r

\* The fields of an object and of a node that matter here.
Fields == {"enable", "status"}
NodeFields == {"object", "type", "time", "id"}
PollFields == {"at", "node", "time", "last", "sample"}
WellMade(os) == DOMAIN os = Objects /\ \A x \in Objects : HasFields(os[x], Fields)

\* The parts of the state that the proofs below look at.
Shapes ==
  /\ WellMade(objects)
  /\ IsSeq(pending) /\ IsSeq(list) /\ nodes \in Nat
  /\ \A i \in DOMAIN list : HasFields(list[i], NodeFields) /\ list[i].id \in 1..nodes
  /\ HasFields(poll, PollFields)
  /\ HasFields(excused, {"early", "freed", "slip"}) /\ excused.slip \in BOOLEAN

\* The polling thread has the mutex during a turn of its loop, and nobody has it between
\* two steps otherwise.
Turns == mutex = (IF At("round") THEN Poller ELSE NoOne)

\* Who has the lock of the data model, as long as the polling thread has not gone on without it.
Locks ==
  ~excused.slip =>
    /\ session <=> dm = Acs
    /\ poll.at \in {"entering", "unready", "round", "releasing", "delivering"} => dm = Poller
    /\ leaving => dm = Poller /\ At("off")

\* A node is known by its number, and so is that of the polling thread.
Numbers ==
  /\ \A i, j \in DOMAIN list : list[i].id = list[j].id => list[i].object = list[j].object
  /\ poll.node # NoNode => poll.node.id \in 1..nodes
  /\ \A i \in DOMAIN list : list[i].id = poll.node.id => list[i].object = poll.node.object

\* The thread goes to wait without a node; the node it goes to read is in the list.
Kept ==
  /\ poll.at \in {"planning", "waiting", "woken"} => poll.node = NoNode
  /\ (poll.at \in {"releasing", "fetching", "locking", "delivering"} /\ status = "RUNNING" /\ poll.node # NoNode)
       => Live(poll.node) \/ excused.freed = poll.node.id

OwnsInv == Shapes /\ Turns /\ Locks /\ Numbers /\ Kept

\* Before the samplings run, what is enabled is in the list with the type of a polled object;
\* once they do, it is in the list; and after the end there is no list and no session.
Starts == status \in {"INITIAL", "STARTING"} /\ ~released
Polled ==
  /\ \A x \in Objects : objects[x].status = "Enabled" => objects[x].enable
  /\ released => status # "RUNNING" /\ list = <<>> /\ ~session
  /\ status = "EXITING" => released
  /\ status \in {"INITIAL", "STARTING", "RUNNING", "EXITING"}
  /\ Starts => \A x \in Objects : objects[x].enable =>
       x \in excused.early \/ \E i \in DOMAIN list : list[i].object = x /\ list[i].type = 1
  /\ Starts => \A i \in DOMAIN list : list[i].type = 1 \/ list[i].object \in excused.early
  /\ status = "RUNNING" => \A x \in Objects : objects[x].enable => x \in excused.early \/ Listed(x)

-----------------------------------------------------------------------------
(* Numbers and sequences *)

\* A set of numbers that is not empty has a least element, the one Min names.  Were there
\* none, taking 1 away would put the numbers not below some element up to a given one in
\* place of themselves, and leave out the given one.
LEMMA MinIsLeast ==
  ASSUME NEW T \in SUBSET Nat, T # {}
  PROVE  Min(T) \in T /\ \A j \in T : Min(T) <= j
<1>1. PICK t \in T : TRUE
  OBVIOUS
<1> DEFINE U == {n \in 0 .. t : \E y \in T : y <= n}
           down == [n \in U |-> n - 1]
<1>2. SUFFICES ASSUME \A x \in T : \E y \in T : y < x PROVE FALSE
  <2>1. CASE \E x \in T : \A y \in T : x <= y
    BY <2>1 DEF Min
  <2>2. CASE \A x \in T : \E y \in T : ~(x <= y)
    <3>1. \A x, y \in T : ~(x <= y) => y < x
      OBVIOUS
    <3> QED BY <2>2, <3>1, <1>2
  <2> QED BY <2>1, <2>2
<1>3. \A n \in U : n - 1 \in U
  <2>1. SUFFICES ASSUME NEW n \in U PROVE n - 1 \in U
    OBVIOUS
  <2>2. PICK y \in T : y <= n
    OBVIOUS
  <2>3. PICK z \in T : z < y
    BY <1>2
  <2> QED BY <2>2, <2>3
<1>4. down \in [U -> U] /\ \A m, n \in U : down[m] = down[n] => m = n
  BY <1>3
<1>5. down \in Injection(U, U)
  BY <1>4 DEF Injection, IsInjective
<1>6. IsFiniteSet(U)
  <2>1. IsFiniteSet(0 .. t) /\ U \in SUBSET (0 .. t)
    BY <1>1, FS_Interval
  <2> QED BY <2>1, FS_Subset
<1>7. down \in Surjection(U, U)
  BY <1>5, <1>6, FS_Injection
<1>8. t \in U
  BY <1>1
<1>9. PICK n \in U : down[n] = t
  BY <1>7, <1>8 DEF Surjection
<1> QED BY <1>9

\* Induction, on the set of the numbers that have a property.
LEMMA Induction ==
  ASSUME NEW S, 0 \in S, \A n \in Nat : n \in S => n + 1 \in S
  PROVE  Nat \subseteq S
<1> DEFINE T == {n \in Nat : n \notin S}
<1>1. SUFFICES ASSUME T # {} PROVE FALSE
  OBVIOUS
<1>2. Min(T) \in T /\ \A j \in T : Min(T) <= j
  BY <1>1, MinIsLeast
<1>3. PICK m \in Nat : Min(T) = m + 1
  BY <1>2
<1>4. m \in S
  BY <1>2, <1>3
<1> QED BY <1>2, <1>3, <1>4

\* A sequence is one of its own elements.
LEMMA OwnSeq ==
  ASSUME NEW S, NEW s \in Seq(S)
  PROVE  IsSeq(s) /\ DOMAIN s = 1..Len(s) /\ Len(s) \in Nat /\ \A i \in DOMAIN s : s[i] \in S
<1>1. Len(s) \in Nat /\ DOMAIN s = 1..Len(s) /\ s \in [1..Len(s) -> S]
  OBVIOUS
<1> DEFINE R == {s[i] : i \in DOMAIN s}
<1>2. s \in [1..Len(s) -> R]
  BY <1>1
<1> HIDE DEF R
<1>3. s \in Seq(R)
  BY <1>1, <1>2
<1> QED BY <1>1, <1>3 DEF IsSeq, R

\* What a sequence is when an element is added to it.
LEMMA Appended ==
  ASSUME NEW s, IsSeq(s), NEW e
  PROVE  /\ IsSeq(Append(s, e)) /\ DOMAIN s = 1..Len(s) /\ Len(s) \in Nat
         /\ DOMAIN Append(s, e) = 1..(Len(s) + 1) /\ Len(Append(s, e)) = Len(s) + 1
         /\ \A i \in 1..(Len(s) + 1) : Append(s, e)[i] = IF i = Len(s) + 1 THEN e ELSE s[i]
<1> DEFINE S == {s[i] : i \in DOMAIN s} \cup {e}
<1>1. {s[i] : i \in DOMAIN s} \subseteq S /\ e \in S
  OBVIOUS
<1>2. s \in Seq(S)
  <2>1. s \in Seq({s[i] : i \in DOMAIN s})
    BY DEF IsSeq
  <2> HIDE DEF S
  <2>2. ASSUME NEW R, s \in Seq(R), R \subseteq S PROVE s \in Seq(S)
    BY <2>2
  <2> QED BY <1>1, <2>1, <2>2
<1> HIDE DEF S
<1>3. Append(s, e) \in Seq(S) /\ Len(Append(s, e)) = Len(s) + 1 /\ Len(s) \in Nat
  BY <1>1, <1>2
<1>4. \A i \in 1..(Len(s) + 1) : Append(s, e)[i] = IF i = Len(s) + 1 THEN e ELSE s[i]
  BY <1>1, <1>2
<1> QED BY <1>2, <1>3, <1>4, OwnSeq

\* The function that Selected uses exists.
Selecting(f, s, places, m) ==
  f = [i \in 0..m |-> IF i = 0 THEN <<>> ELSE IF i \in places THEN Append(f[i - 1], s[i]) ELSE f[i - 1]]

LEMMA SelectionExists ==
  ASSUME NEW s, NEW places, NEW N \in Nat
  PROVE  \E f : Selecting(f, s, places, N)
<1> USE DEF Selecting
<1> DEFINE Step(i, t) == IF i \in places THEN Append(t, s[i]) ELSE t
           Upto(m, f) == f = [i \in 0..m |-> IF i = 0 THEN <<>> ELSE Step(i, f[i - 1])]
           S == {m \in Nat : \E f : Upto(m, f)}
<1>0. ASSUME NEW m, NEW f PROVE Upto(m, f) <=> Selecting(f, s, places, m)
  OBVIOUS
<1> HIDE DEF Step
<1>1. 0 \in S
  <2>1. Upto(0, [i \in 0..0 |-> <<>>])
    OBVIOUS
  <2> QED BY <2>1
<1>2. ASSUME NEW m \in Nat, m \in S PROVE m + 1 \in S
  <2>1. PICK f : Upto(m, f)
    BY <1>2
  <2> DEFINE g == [i \in 0..(m + 1) |-> IF i \in 0..m THEN f[i] ELSE Step(m + 1, f[m])]
  <2>2. /\ DOMAIN f = 0..m
        /\ \A i \in 0..m : f[i] = IF i = 0 THEN <<>> ELSE Step(i, f[i - 1])
    BY <2>1
  <2>3. \A i \in 0..(m + 1) : g[i] = IF i = 0 THEN <<>> ELSE Step(i, g[i - 1])
    <3>1. SUFFICES ASSUME NEW i \in 0..(m + 1) PROVE g[i] = IF i = 0 THEN <<>> ELSE Step(i, g[i - 1])
      OBVIOUS
    <3>2. CASE i = m + 1
      <4>1. i \notin 0..m /\ i # 0 /\ i - 1 = m /\ m \in 0..m /\ m \in 0..(m + 1)
        BY <3>2
      <4>2. g[i] = Step(m + 1, f[m]) /\ g[m] = f[m]
        BY <4>1
      <4> QED BY <3>2, <4>1, <4>2
    <3>3. CASE i # m + 1
      <4>1. i \in 0..m /\ (i # 0 => i - 1 \in 0..m /\ i - 1 \in 0..(m + 1))
        BY <3>3
      <4>2. g[i] = f[i] /\ (i # 0 => g[i - 1] = f[i - 1])
        BY <4>1
      <4> QED BY <2>2, <4>1, <4>2
    <3> QED BY <3>2, <3>3
  <2>4. Upto(m + 1, g)
    <3>1. g = [i \in 0..(m + 1) |-> g[i]]
      OBVIOUS
    <3> HIDE DEF g
    <3> QED BY <2>3, <3>1
  <2> HIDE DEF g, Upto
  <2> QED BY <2>4
<1>3. N \in S
  <2> HIDE DEF S
  <2> QED BY <1>1, <1>2, Induction
<1> HIDE DEF Selecting, Upto
<1>4. PICK f : Upto(N, f)
  BY <1>3
<1> QED BY <1>0, <1>4

\* What is selected is at the places given, and all of it is.
LEMMA SelectedEffect ==
  ASSUME NEW s, IsSeq(s), NEW places \in SUBSET DOMAIN s
  PROVE  /\ IsSeq(Selected(s, places))
         /\ \A i \in DOMAIN Selected(s, places) : \E p \in places : Selected(s, places)[i] = s[p]
         /\ \A p \in places : \E i \in DOMAIN Selected(s, places) : Selected(s, places)[i] = s[p]
<1>1. Len(s) \in Nat /\ DOMAIN s = 1..Len(s)
  BY OwnSeq DEF IsSeq
<1> DEFINE N == Len(s)
           f == CHOOSE f : f = [i \in 0..Len(s) |->
                  IF i = 0 THEN <<>> ELSE IF i \in places THEN Append(f[i - 1], s[i]) ELSE f[i - 1]]
<1>2. Selected(s, places) = f[N]
  BY DEF Selected
<1>3. f = [i \in 0..N |-> IF i = 0 THEN <<>> ELSE IF i \in places THEN Append(f[i - 1], s[i]) ELSE f[i - 1]]
  <2>1. PICK g : Selecting(g, s, places, N)
    BY <1>1, SelectionExists
  <2> QED BY Zenon, <1>1, <2>1 DEF Selecting
<1> HIDE DEF f
<1> DEFINE Right(n, t) ==
             /\ IsSeq(t)
             /\ \A i \in DOMAIN t : \E p \in places : p <= n /\ t[i] = s[p]
             /\ \A p \in places : p <= n => \E i \in DOMAIN t : t[i] = s[p]
           S == {n \in Nat : n <= N => Right(n, f[n])}
<1>4. 0 \in S
  <2>1. f[0] = <<>>
    BY <1>1, <1>3
  <2>2. IsSeq(<<>>) /\ DOMAIN <<>> = {}
    BY DEF IsSeq
  <2>3. \A p \in places : ~(p <= 0)
    BY <1>1
  <2>4. Right(0, <<>>)
    BY <2>2, <2>3
  <2> HIDE DEF Right
  <2> QED BY <2>1, <2>4
<1>5. ASSUME NEW n \in Nat, n \in S PROVE n + 1 \in S
  <2>1. SUFFICES ASSUME n + 1 <= N PROVE Right(n + 1, f[n + 1])
    OBVIOUS
  <2>2. Right(n, f[n])
    <3> HIDE DEF Right
    <3> QED BY <1>1, <1>5, <2>1
  <2>3. n + 1 \in 0..N /\ n + 1 # 0 /\ (n + 1) - 1 = n
    BY <1>1, <2>1
  <2>4. f[n + 1] = IF n + 1 \in places THEN Append(f[n], s[n + 1]) ELSE f[n]
    BY <1>3, <2>3
  <2>5. \A p \in places : p \in Nat /\ (p <= n + 1 <=> p <= n \/ p = n + 1)
    BY <1>1
  <2>6. CASE n + 1 \notin places
    <3>1. \A p \in places : p <= n + 1 <=> p <= n
      BY <2>5, <2>6
    <3> QED BY <2>2, <2>4, <2>6, <3>1
  <2>7. CASE n + 1 \in places
    <3> DEFINE t == f[n]
               L == Len(t)
               r == Append(t, s[n + 1])
    <3>1. /\ IsSeq(r) /\ L \in Nat /\ DOMAIN t = 1..L /\ DOMAIN r = 1..(L + 1)
          /\ \A i \in 1..(L + 1) : r[i] = IF i = L + 1 THEN s[n + 1] ELSE t[i]
      BY <2>2, Appended
    <3>2. \A i \in DOMAIN r : \E p \in places : p <= n + 1 /\ r[i] = s[p]
      <4>1. SUFFICES ASSUME NEW i \in DOMAIN r PROVE \E p \in places : p <= n + 1 /\ r[i] = s[p]
        OBVIOUS
      <4>2. CASE i = L + 1
        BY <2>5, <2>7, <3>1, <4>2
      <4>3. CASE i # L + 1
        <5>1. i \in DOMAIN t /\ r[i] = t[i]
          BY <3>1, <4>3
        <5> HIDE DEF r, t
        <5>2. \E p \in places : p <= n /\ t[i] = s[p]
          BY <2>2, <5>1 DEF t
        <5> QED BY <2>5, <5>1, <5>2
      <4> QED BY <4>2, <4>3
    <3>3. \A p \in places : p <= n + 1 => \E i \in DOMAIN r : r[i] = s[p]
      <4>1. SUFFICES ASSUME NEW p \in places, p <= n + 1 PROVE \E i \in DOMAIN r : r[i] = s[p]
        OBVIOUS
      <4>2. CASE p = n + 1
        <5>1. L + 1 \in DOMAIN r /\ r[L + 1] = s[n + 1]
          BY <3>1
        <5> QED BY <4>2, <5>1
      <4>3. CASE p <= n
        <5>1. PICK i \in DOMAIN t : t[i] = s[p]
          BY <2>2, <4>3
        <5>2. i \in DOMAIN r /\ r[i] = t[i]
          BY <3>1, <5>1
        <5> QED BY <5>1, <5>2
      <4> QED BY <2>5, <4>1, <4>2, <4>3
    <3> HIDE DEF t, r
    <3>4. f[n + 1] = r
      BY <2>4, <2>7 DEF t, r
    <3> QED BY <3>1, <3>2, <3>3, <3>4
  <2> QED BY <2>6, <2>7
<1>6. Right(N, f[N])
  <2>1. N \in S
    <3> HIDE DEF S
    <3> QED BY <1>1, <1>4, <1>5, Induction
  <2> HIDE DEF Right
  <2> QED BY <1>1, <2>1
<1> QED BY <1>1, <1>2, <1>6

-----------------------------------------------------------------------------
(* The objects *)

\* What is done to an object that is neither enabled nor disabled by it: its Status does not
\* change, or becomes Enabled if the object is enabled.
Same(o, p) ==
  /\ HasFields(p, Fields) /\ p.enable = o.enable
  /\ p.status = o.status \/ (p.status = "Enabled" /\ o.enable)

\* A sample that is pushed leaves Enable and Status as they are.
LEMMA PushKeeps ==
  ASSUME NEW o, HasFields(o, Fields), NEW pushCase, NEW argTime
  PROVE  LET p == _pushSample(o, pushCase, argTime)
         IN HasFields(p, Fields) /\ p.enable = o.enable /\ p.status = o.status
<1>1. ASSUME NEW bound, NEW end
      PROVE  LET p == _report(o, pushCase, bound, end)
             IN HasFields(p, Fields) /\ p.enable = o.enable /\ p.status = o.status
  BY Zenon DEF _report, HasFields, Fields
<1> QED BY Zenon, <1>1 DEF _pushSample, HasFields, Fields

\* Nor do the times of a reading, or its value.
LEMMA SpanKeeps ==
  ASSUME NEW o, HasFields(o, Fields), NEW sd, NEW seconds, NEW valuesToSave
  PROVE  LET p == _withSpan(o, sd, seconds, valuesToSave)
         IN HasFields(p, Fields) /\ p.enable = o.enable /\ p.status = o.status
BY Zenon DEF _withSpan, HasFields, Fields

LEMMA DataKeeps ==
  ASSUME NEW o, HasFields(o, Fields), NEW sd, NEW valuesToSave
  PROVE  LET p == _processOneData(o, sd, valuesToSave)
         IN HasFields(p, Fields) /\ p.enable = o.enable /\ p.status = o.status
BY Zenon DEF _processOneData, HasFields, Fields

\* A reading that is counted leaves Enable as it is, and its object is Enabled.
LEMMA CountKeeps ==
  ASSUME NEW o, HasFields(o, Fields), NEW sd
  PROVE  LET p == _counted(o, sd)
         IN HasFields(p, Fields) /\ p.enable = o.enable /\ p.status = "Enabled"
<1> DEFINE pushed == IF o.sampleEnable THEN _pushSample(o, "before", sd.time) ELSE o
           seconds == IF o.lastTime # Empty /\ sd.continued /\ sd.time > o.lastTime THEN sd.time - o.lastTime ELSE 0
           valuesToSave == _valuesToSave(pushed.current.times, sd.time)
           timed == [pushed EXCEPT
                      !.status = "Enabled", !.lastTime = sd.time,
                      !.total.duration = IF seconds > 0 THEN Number(@) + seconds ELSE @,
                      !.total.suspect = @ \/ sd.suspect,
                      !.newest = Max({@, sd.time}), !.backwards = @ \/ sd.time < o.newest]
           spanned == IF o.sampleEnable THEN _withSpan(timed, sd, seconds, valuesToSave) ELSE timed
           processed == _processOneData(spanned, sd, valuesToSave)
<1>1. HasFields(pushed, Fields) /\ pushed.enable = o.enable
  BY PushKeeps
<1> HIDE DEF pushed
<1>2. HasFields(timed, Fields) /\ timed.enable = o.enable /\ timed.status = "Enabled"
  BY Zenon, <1>1 DEF HasFields, Fields
<1> HIDE DEF timed, seconds, valuesToSave
<1>3. HasFields(spanned, Fields) /\ spanned.enable = o.enable /\ spanned.status = "Enabled"
  <2> DEFINE p == _withSpan(timed, sd, seconds, valuesToSave)
  <2>1. HasFields(p, Fields) /\ p.enable = timed.enable /\ p.status = timed.status
    BY <1>2, SpanKeeps
  <2> HIDE DEF p
  <2>2. spanned = IF o.sampleEnable THEN p ELSE timed
    BY DEF p
  <2> HIDE DEF spanned
  <2> QED BY Zenon, <1>2, <2>1, <2>2
<1> HIDE DEF spanned
<1>4. HasFields(processed, Fields) /\ processed.enable = o.enable /\ processed.status = "Enabled"
  <2>1. HasFields(processed, Fields) /\ processed.enable = spanned.enable /\ processed.status = spanned.status
    BY <1>3, DataKeeps
  <2> HIDE DEF processed
  <2> QED BY Zenon, <1>3, <2>1
<1> HIDE DEF processed
<1> DEFINE last == IF o.sampleEnable THEN _pushSample(processed, "after", Number(o.lastTime)) ELSE processed
<1>5. HasFields(last, Fields) /\ last.enable = o.enable /\ last.status = "Enabled"
  <2> DEFINE p == _pushSample(processed, "after", Number(o.lastTime))
  <2>1. HasFields(p, Fields) /\ p.enable = processed.enable /\ p.status = processed.status
    BY <1>4, PushKeeps
  <2> HIDE DEF p
  <2>2. last = IF o.sampleEnable THEN p ELSE processed
    BY DEF p
  <2> QED BY Zenon, <1>4, <2>1, <2>2
<1>6. _counted(o, sd) = last
  BY Zenon DEF _counted, last, processed, spanned, timed, pushed, seconds, valuesToSave
<1> HIDE DEF last
<1> QED BY Zenon, <1>5, <1>6

\* Nothing is counted of an object that is not enabled.
LEMMA ProcessKeeps ==
  ASSUME NEW o, HasFields(o, Fields), NEW sd
  PROVE  Same(o, processSampleData(o, sd))
BY Zenon, CountKeeps DEF processSampleData, Same

\* What holds of all the objects when each of them is the same in that sense.
AllSame(os, os2) == WellMade(os2) /\ \A x \in Objects : Same(os[x], os2[x])

LEMMA ProcessedSame ==
  ASSUME NEW os, WellMade(os), NEW sd
  PROVE  AllSame(os, Processed(os, sd))
<1>1. DOMAIN Processed(os, sd) = Objects
  BY DEF Processed, WellMade
<1>2. ASSUME NEW x \in Objects PROVE HasFields(Processed(os, sd)[x], Fields) /\ Same(os[x], Processed(os, sd)[x])
  <2>1. CASE x = sd.object
    <3>1. Processed(os, sd)[x] = processSampleData(os[x], sd)
      BY <1>2, <2>1 DEF Processed, WellMade
    <3>2. HasFields(os[x], Fields)
      BY <1>2 DEF WellMade
    <3> QED BY <3>1, <3>2, ProcessKeeps DEF Same
  <2>2. CASE x # sd.object
    <3>1. Processed(os, sd)[x] = os[x]
      BY <1>2, <2>2 DEF Processed, WellMade
    <3> QED BY <1>2, <3>1 DEF Same, WellMade
  <2> QED BY <2>1, <2>2
<1> QED BY <1>1, <1>2 DEF AllSame, WellMade

\* The function that Unlocked uses exists.
Unlocking(f, os, m) == f = [i \in 0..m |-> IF i = 0 THEN os ELSE Processed(f[i - 1], pending[i])]

LEMMA UnlockingExists ==
  ASSUME NEW os, NEW N \in Nat
  PROVE  \E f : Unlocking(f, os, N)
<1> DEFINE S == {m \in Nat : \E f : Unlocking(f, os, m)}
<1>1. 0 \in S
  <2>1. Unlocking([i \in 0..0 |-> os], os, 0)
    BY DEF Unlocking
  <2> QED BY <2>1
<1>2. ASSUME NEW m \in Nat, m \in S PROVE m + 1 \in S
  <2>1. PICK f : Unlocking(f, os, m)
    BY <1>2
  <2> DEFINE g == [i \in 0..(m + 1) |-> IF i \in 0..m THEN f[i] ELSE Processed(f[m], pending[m + 1])]
  <2>2. /\ DOMAIN f = 0..m
        /\ \A i \in 0..m : f[i] = IF i = 0 THEN os ELSE Processed(f[i - 1], pending[i])
    BY <2>1 DEF Unlocking
  <2>3. \A i \in 0..(m + 1) : g[i] = IF i = 0 THEN os ELSE Processed(g[i - 1], pending[i])
    <3>1. SUFFICES ASSUME NEW i \in 0..(m + 1) PROVE g[i] = IF i = 0 THEN os ELSE Processed(g[i - 1], pending[i])
      OBVIOUS
    <3>2. CASE i = m + 1
      <4>1. i \notin 0..m /\ i # 0 /\ i - 1 = m /\ m \in 0..m /\ m \in 0..(m + 1)
        BY <3>2
      <4>2. g[i] = Processed(f[m], pending[m + 1]) /\ g[m] = f[m]
        BY <4>1
      <4> QED BY <3>2, <4>1, <4>2
    <3>3. CASE i # m + 1
      <4>1. i \in 0..m /\ (i # 0 => i - 1 \in 0..m /\ i - 1 \in 0..(m + 1))
        BY <3>3
      <4>2. g[i] = f[i] /\ (i # 0 => g[i - 1] = f[i - 1])
        BY <4>1
      <4> QED BY <2>2, <4>1, <4>2
    <3> QED BY <3>2, <3>3
  <2>4. Unlocking(g, os, m + 1)
    <3>1. g = [i \in 0..(m + 1) |-> g[i]]
      OBVIOUS
    <3> HIDE DEF g
    <3> QED BY <2>3, <3>1 DEF Unlocking
  <2> HIDE DEF g
  <2> QED BY <2>4
<1>3. N \in S
  <2> HIDE DEF S
  <2> QED BY <1>1, <1>2, Induction
<1> QED BY <1>3

\* Whatever waits in the queue, the objects are the same once it is processed.
LEMMA UnlockedSame ==
  ASSUME NEW os, WellMade(os), IsSeq(pending)
  PROVE  AllSame(os, Unlocked(os))
<1> DEFINE N == Len(pending)
           f == CHOOSE f : f = [i \in 0..Len(pending) |-> IF i = 0 THEN os ELSE Processed(f[i - 1], pending[i])]
<1>1. N \in Nat
  BY OwnSeq DEF IsSeq
<1>2. Unlocked(os) = f[N]
  BY DEF Unlocked
<1>3. f = [i \in 0..N |-> IF i = 0 THEN os ELSE Processed(f[i - 1], pending[i])]
  <2>1. PICK g : Unlocking(g, os, N)
    BY <1>1, UnlockingExists
  <2> QED BY Zenon, <1>1, <2>1 DEF Unlocking
<1> HIDE DEF f, N
<1> DEFINE S == {n \in Nat : n <= N => AllSame(os, f[n])}
<1>4. 0 \in S
  <2>1. f[0] = os
    BY <1>1, <1>3
  <2>2. AllSame(os, os)
    BY DEF AllSame, WellMade, Same
  <2> QED BY <2>1, <2>2
<1>5. ASSUME NEW n \in Nat, n \in S PROVE n + 1 \in S
  <2>1. SUFFICES ASSUME n + 1 <= N PROVE AllSame(os, f[n + 1])
    OBVIOUS
  <2>2. AllSame(os, f[n])
    BY <1>1, <1>5, <2>1
  <2>3. n + 1 \in 0..N /\ n + 1 # 0 /\ (n + 1) - 1 = n
    BY <1>1, <2>1
  <2>4. f[n + 1] = Processed(f[n], pending[n + 1])
    BY <1>3, <2>3
  <2>5. AllSame(f[n], f[n + 1])
    BY <2>2, <2>4, ProcessedSame DEF AllSame
  <2> QED BY <2>2, <2>5 DEF AllSame, Same
<1>6. AllSame(os, f[N])
  <2>1. N \in S
    <3> HIDE DEF S
    <3> QED BY <1>1, <1>4, <1>5, Induction
  <2> QED BY <1>1, <2>1
<1> QED BY <1>2, <1>6

-----------------------------------------------------------------------------
(* The list and the polling thread *)

\* A function on the first numbers is a sequence.
LEMMA FunctionSeq ==
  ASSUME NEW f, NEW n \in Nat, f = [i \in 1..n |-> f[i]]
  PROVE  IsSeq(f) /\ Len(f) = n /\ DOMAIN f = 1..n
<1> DEFINE R == {f[i] : i \in 1..n}
<1>1. f \in [1..n -> R]
  OBVIOUS
<1> HIDE DEF R
<1>2. f \in Seq(R) /\ Len(f) = n /\ DOMAIN f = 1..n
  BY <1>1
<1> QED BY <1>2, OwnSeq

\* The list is filled with one node for each object, numbered after those there were.
LEMMA FilledEffect ==
  ASSUME NEW count \in Nat
  PROVE  /\ Cardinality(Objects) \in Nat /\ DOMAIN _filled(count) = 1..Cardinality(Objects)
         /\ IsSeq(_filled(count))
         /\ \A i \in 1..Cardinality(Objects) :
              HasFields(_filled(count)[i], NodeFields) /\ _filled(count)[i].id = count + i /\ _filled(count)[i].type = 1
         /\ \A x \in Objects : \E i \in 1..Cardinality(Objects) : _filled(count)[i].object = x
<1> DEFINE N == Cardinality(Objects)
           s == SetToSeq(Objects)
<1>1. IsFiniteSet(Objects) /\ N \in Nat
  BY StatisticsAssumption, FS_CardinalityType
<1>2. PICK f \in Bijection(1..N, Objects) : TRUE
  <2>1. PICK n \in Nat : ExistsBijection(1..n, Objects)
    BY <1>1, FS_NatBijection
  <2>2. N = n
    BY <2>1, FS_CountingElements
  <2> QED BY <2>1, <2>2 DEF ExistsBijection
<1>3. s \in [1..N -> Objects] /\ IsInjective(s)
  <2>1. f \in [1..N -> Objects] /\ IsInjective(f)
    BY <1>2 DEF Bijection, Injection
  <2> QED BY <2>1 DEF SetToSeq
<1>4. \A x \in Objects : \E i \in 1..N : s[i] = x
  <2>1. s \in Injection(1..N, Objects)
    BY <1>3 DEF Injection
  <2>2. Cardinality(1..N) = N /\ IsFiniteSet(1..N)
    BY <1>1, FS_Interval
  <2>3. s \in Surjection(1..N, Objects)
    BY <1>1, <2>1, <2>2, FS_Injection
  <2> QED BY <2>3 DEF Surjection
<1> HIDE DEF s, N
<1>5. _filled(count) = [i \in 1..N |-> Node(s[i], 1, count + i)]
  BY DEF _filled, s, N
<1>6. \A i \in 1..N : /\ HasFields(_filled(count)[i], NodeFields) /\ _filled(count)[i].id = count + i
                      /\ _filled(count)[i].type = 1 /\ _filled(count)[i].object = s[i]
  BY <1>5 DEF Node, HasFields, NodeFields
<1>7. IsSeq(_filled(count)) /\ DOMAIN _filled(count) = 1..N
  BY <1>1, <1>5, FunctionSeq
<1> QED BY SMTT(30), <1>1, <1>4, <1>6, <1>7 DEF N

\* The plan of a turn: the nodes are the same but for the delay of a retry, and the node
\* chosen is one of them.
LEMMA PlannedEffect ==
  ASSUME NEW ns, IsSeq(ns), \A i \in DOMAIN ns : HasFields(ns[i], NodeFields), NEW os, Planned(ns, os)
  PROVE  /\ IsSeq(list') /\ DOMAIN list' = DOMAIN ns
         /\ \A i \in DOMAIN ns :
              /\ HasFields(list'[i], NodeFields) /\ list'[i].id = ns[i].id /\ list'[i].object = ns[i].object
              /\ list'[i].type = ns[i].type \/ ns[i].type > SubSampleInterval
         /\ HasFields(poll', PollFields) /\ poll'.at = "releasing"
         /\ poll'.node # NoNode => \E i \in DOMAIN ns : poll'.node = list'[i]
<1> DEFINE Object(i) == os[ns[i].object]
           due == {i \in DOMAIN ns : _pollingTime(ns[i], Object(i)) <= now}
           limited == [i \in DOMAIN ns |->
                         IF due = {} \/ i <= Min(due) THEN _limited(ns[i], Object(i)) ELSE ns[i]]
<1>1. /\ list' = limited
      /\ HasFields(poll', PollFields) /\ poll'.at = "releasing"
      /\ poll'.node = IF due = {} THEN NoNode ELSE limited[Min(due)]
  BY Zenon DEF Planned, HasFields, PollFields
<1>2. \A i \in DOMAIN ns :
        /\ HasFields(_limited(ns[i], Object(i)), NodeFields)
        /\ _limited(ns[i], Object(i)).id = ns[i].id /\ _limited(ns[i], Object(i)).object = ns[i].object
        /\ _limited(ns[i], Object(i)).type = ns[i].type \/ ns[i].type > SubSampleInterval
  BY Zenon DEF _limited, HasFields, NodeFields
<1>3. DOMAIN ns = 1..Len(ns) /\ Len(ns) \in Nat
  BY OwnSeq DEF IsSeq
<1>4. due # {} => Min(due) \in DOMAIN ns
  <2>1. due \subseteq DOMAIN ns
    OBVIOUS
  <2> HIDE DEF due
  <2> QED BY <1>3, <2>1, MinIsLeast
<1> HIDE DEF due, Object
<1>5. IsSeq(limited) /\ DOMAIN limited = DOMAIN ns
  BY <1>3, FunctionSeq
<1>6. \A i \in DOMAIN ns :
        /\ HasFields(limited[i], NodeFields) /\ limited[i].id = ns[i].id /\ limited[i].object = ns[i].object
        /\ limited[i].type = ns[i].type \/ ns[i].type > SubSampleInterval
  BY <1>2
<1> HIDE DEF limited
<1> QED BY <1>1, <1>4, <1>5, <1>6

\* The lock of the data model is removed, whoever had it; once it is gone nothing changes.
LEMMA UnlockEffect ==
  ASSUME NEW os, WellMade(os), IsSeq(pending), Unlock(os)
  PROVE  /\ AllSame(os, objects') /\ IsSeq(pending')
         /\ released => UNCHANGED <<dm, pending>> /\ objects' = os
         /\ ~released => dm' = NoOne
<1>1. AllSame(os, os)
  BY DEF AllSame, WellMade, Same
<1>2. CASE released
  BY <1>1, <1>2 DEF Unlock
<1>3. CASE ~released
  BY <1>3, UnlockedSame DEF Unlock, IsSeq
<1> QED BY <1>2, <1>3

\* A turn of the loop: it is the end when the list is empty; otherwise what is left of the
\* list keeps its numbers, and the node chosen is one of them.
RoundStarts ==
  /\ status' = "RUNNING" /\ WellMade(objects')
  /\ \A x \in Objects : /\ objects'[x].enable = objects[x].enable
                        /\ objects'[x].status = "Enabled" => objects[x].status = "Enabled" \/ objects[x].enable
  /\ \A i \in DOMAIN list : objects[list[i].object].enable /\ list[i].type = 1 =>
       \E j \in DOMAIN list' : list'[j].object = list[i].object

LEMMA RoundEffect ==
  ASSUME Shapes, PollRound
  PROVE  /\ At("round") /\ mutex' = NoOne
         /\ UNCHANGED <<dm, released, pending, nodes, session, source, device, excused, budget>>
         /\ \/ list = <<>> /\ leaving' = TRUE /\ poll' = Off /\ UNCHANGED <<objects, status, list>>
            \/ /\ list # <<>> /\ UNCHANGED leaving /\ IsSeq(list')
               /\ HasFields(poll', PollFields) /\ poll'.at = "releasing"
               /\ \A i \in DOMAIN list' : HasFields(list'[i], NodeFields)
               /\ \A i \in DOMAIN list' : \E j \in DOMAIN list :
                    list'[i].id = list[j].id /\ list'[i].object = list[j].object
               /\ poll'.node # NoNode => \E i \in DOMAIN list' : poll'.node = list'[i]
               /\ \/ /\ status # "STARTING" /\ UNCHANGED <<objects, status>> /\ DOMAIN list' = DOMAIN list
                     /\ \A i \in DOMAIN list : list'[i].object = list[i].object
                     /\ \A i \in DOMAIN list : list'[i].type = list[i].type \/ list[i].type > SubSampleInterval
                  \/ status = "STARTING" /\ RoundStarts
<1>1. /\ IsSeq(list) /\ WellMade(objects) /\ \A i \in DOMAIN list : HasFields(list[i], NodeFields)
  BY DEF Shapes
<1>2. /\ At("round") /\ mutex' = NoOne
      /\ UNCHANGED <<dm, released, pending, nodes, session, source, device, excused, budget>>
  BY DEF PollRound
<1>3. CASE list = <<>> /\ leaving' = TRUE /\ poll' = Off /\ UNCHANGED <<objects, status, list>>
  BY <1>2, <1>3
<1>4. CASE list # <<>> /\ status # "STARTING" /\ Planned(list, objects) /\ UNCHANGED <<objects, status, leaving>>
  <2>1. /\ IsSeq(list') /\ DOMAIN list' = DOMAIN list
        /\ \A i \in DOMAIN list :
             /\ HasFields(list'[i], NodeFields) /\ list'[i].id = list[i].id /\ list'[i].object = list[i].object
             /\ list'[i].type = list[i].type \/ list[i].type > SubSampleInterval
        /\ HasFields(poll', PollFields) /\ poll'.at = "releasing"
        /\ poll'.node # NoNode => \E i \in DOMAIN list : poll'.node = list'[i]
    BY <1>1, <1>4, PlannedEffect
  <2> QED BY <1>2, <1>4, <2>1
<1>5. CASE /\ list # <<>> /\ status = "STARTING" /\ UNCHANGED leaving
           /\ objects' = [x \in Objects |-> IF Listed(x) /\ objects[x].enable
                                            THEN _isSampleEnabled(_started(objects[x])) ELSE objects[x]]
           /\ status' = "RUNNING" /\ Planned(_startAllSamplings, objects')
  <2> DEFINE places == {i \in DOMAIN list : _kept(list[i])}
             ns == _startAllSamplings
  <2>1. /\ IsSeq(_keptNodes)
        /\ \A i \in DOMAIN _keptNodes : \E p \in places : _keptNodes[i] = list[p]
        /\ \A p \in places : \E i \in DOMAIN _keptNodes : _keptNodes[i] = list[p]
    <3>1. _keptNodes = Selected(list, places) /\ places \in SUBSET DOMAIN list
      BY DEF _keptNodes
    <3> HIDE DEF places
    <3> QED BY <1>1, <3>1, SelectedEffect
  <2>2. DOMAIN _keptNodes = 1..Len(_keptNodes) /\ Len(_keptNodes) \in Nat
    BY <2>1, OwnSeq DEF IsSeq
  <2>3. ns = [i \in DOMAIN _keptNodes |-> [_keptNodes[i] EXCEPT !.type = 0]]
    BY DEF _startAllSamplings
  <2>4. IsSeq(ns) /\ DOMAIN ns = DOMAIN _keptNodes
    <3> HIDE DEF ns
    <3> QED BY <2>2, <2>3, FunctionSeq
  <2>5. \A i \in DOMAIN ns : /\ HasFields(ns[i], NodeFields)
                             /\ ns[i].id = _keptNodes[i].id /\ ns[i].object = _keptNodes[i].object
    <3>1. SUFFICES ASSUME NEW i \in DOMAIN ns
                   PROVE  /\ HasFields(ns[i], NodeFields)
                          /\ ns[i].id = _keptNodes[i].id /\ ns[i].object = _keptNodes[i].object
      OBVIOUS
    <3> HIDE DEF ns
    <3>2. HasFields(_keptNodes[i], NodeFields) /\ ns[i] = [_keptNodes[i] EXCEPT !.type = 0]
      BY <1>1, <2>1, <2>3, <2>4
    <3> QED BY <3>2 DEF HasFields, NodeFields
  <2> HIDE DEF ns
  <2>6. /\ IsSeq(list') /\ DOMAIN list' = DOMAIN ns
        /\ \A i \in DOMAIN ns :
             HasFields(list'[i], NodeFields) /\ list'[i].id = ns[i].id /\ list'[i].object = ns[i].object
        /\ HasFields(poll', PollFields) /\ poll'.at = "releasing"
        /\ poll'.node # NoNode => \E i \in DOMAIN ns : poll'.node = list'[i]
    BY <1>5, <2>4, <2>5, PlannedEffect DEF ns
  <2>7. \A i \in DOMAIN list' : \E j \in DOMAIN list : list'[i].id = list[j].id /\ list'[i].object = list[j].object
    BY <2>1, <2>4, <2>5, <2>6
  <2>8. \A i \in DOMAIN list : objects[list[i].object].enable /\ list[i].type = 1 =>
          \E j \in DOMAIN list' : list'[j].object = list[i].object
    <3>1. SUFFICES ASSUME NEW i \in DOMAIN list, objects[list[i].object].enable, list[i].type = 1
                   PROVE  \E j \in DOMAIN list' : list'[j].object = list[i].object
      OBVIOUS
    <3>2. i \in places
      BY <3>1 DEF _kept
    <3> HIDE DEF places
    <3> QED BY <2>1, <2>4, <2>5, <2>6, <3>2
  <2>9. ASSUME NEW o, HasFields(o, Fields), o.enable
        PROVE  LET p == _isSampleEnabled(_started(o)) IN HasFields(p, Fields) /\ p.enable = o.enable
    BY Zenon, <2>9 DEF _isSampleEnabled, _started, HasFields, Fields
  <2>10. /\ WellMade(objects')
         /\ \A x \in Objects : /\ objects'[x].enable = objects[x].enable
                               /\ objects'[x].status = "Enabled" => objects[x].status = "Enabled" \/ objects[x].enable
    <3>1. DOMAIN objects' = Objects
      BY <1>5
    <3>2. ASSUME NEW x \in Objects
          PROVE  /\ HasFields(objects'[x], Fields) /\ objects'[x].enable = objects[x].enable
                 /\ objects'[x].status = "Enabled" => objects[x].status = "Enabled" \/ objects[x].enable
      <4>1. HasFields(objects[x], Fields)
        BY <1>1, <3>2 DEF WellMade
      <4>2. CASE Listed(x) /\ objects[x].enable
        <5>1. objects'[x] = _isSampleEnabled(_started(objects[x]))
          BY <1>5, <3>2, <4>2
        <5> QED BY <2>9, <4>1, <4>2, <5>1
      <4>3. CASE ~(Listed(x) /\ objects[x].enable)
        <5>1. objects'[x] = objects[x]
          BY Zenon, <1>5, <3>2, <4>3
        <5> QED BY <4>1, <5>1
      <4> QED BY <4>2, <4>3
    <3> QED BY <3>1, <3>2 DEF WellMade
  <2> QED BY <1>2, <1>5, <2>6, <2>7, <2>8, <2>10 DEF RoundStarts
<1> QED BY <1>3, <1>4, <1>5 DEF PollRound

\* The polling thread goes on, or is signalled.
LEMMA GoesEffect ==
  ASSUME HasFields(poll, PollFields), NEW place, Goes(place)
  PROVE  HasFields(poll', PollFields) /\ poll'.at = place /\ poll'.node = poll.node
BY DEF Goes, HasFields, PollFields

LEMMA WokenEffect ==
  ASSUME HasFields(poll, PollFields)
  PROVE  /\ HasFields(Woken(poll), PollFields) /\ Woken(poll).node = poll.node
         /\ Woken(poll).at = IF poll.at = "waiting" THEN "woken" ELSE poll.at
BY DEF Woken, HasFields, PollFields

LEMMA SignalEffect ==
  ASSUME HasFields(poll, PollFields), _signalPolling
  PROVE  /\ HasFields(poll', PollFields)
         /\ \/ poll.at = "off" /\ poll'.at = "start" /\ poll'.node = NoNode
            \/ poll.at # "off" /\ poll'.node = poll.node
               /\ poll'.at = IF poll.at = "waiting" THEN "woken" ELSE poll.at
BY WokenEffect DEF _signalPolling, Off, HasFields, PollFields

-----------------------------------------------------------------------------
(* The steps *)

LEMMA NextSplit ==
  [Next]_vars =>
    \/ PollStart \/ PollEnter \/ PollSleep \/ PollRound \/ PollUnlock \/ PollFetch \/ PollPlan
    \/ PollWake \/ PollLock \/ PollDeliver \/ PollLeave
    \/ SessionOpens \/ SessionCloses \/ Restart
    \/ \E x \in Objects : SetEnable(x) \/ SetEnableAgain(x) \/ SetDisable(x) \/ SetOther(x)
    \/ SourceReads \/ SourceNotifies \/ DeviceReady \/ Tick \/ Release
    \/ UNCHANGED vars
BY DEF Next, Polls, Sets, Ended, Hung

\* What a setting does to an object: it has the same fields.
LEMMA SettingKeeps ==
  ASSUME NEW o, HasFields(o, Fields)
  PROVE  /\ LET p == _isSampleEnabled([o EXCEPT !.enable = TRUE, !.status = "Enabled"])
            IN HasFields(p, Fields) /\ p.enable = TRUE
         /\ LET p == _isSampleEnabled(_started([o EXCEPT !.enable = TRUE]))
            IN HasFields(p, Fields) /\ p.enable = TRUE
         /\ LET p == _isSampleEnabled([o EXCEPT !.enable = FALSE, !.status = "Disabled"])
            IN HasFields(p, Fields) /\ p.enable = FALSE /\ p.status = "Disabled"
         /\ \A p \in Settings(o) : HasFields(p, Fields) /\ p.enable = o.enable /\ p.status = o.status
<1>1. LET p == _isSampleEnabled([o EXCEPT !.enable = TRUE, !.status = "Enabled"])
      IN HasFields(p, Fields) /\ p.enable = TRUE
  BY Zenon DEF _isSampleEnabled, HasFields, Fields
<1>2. LET p == _isSampleEnabled(_started([o EXCEPT !.enable = TRUE]))
      IN HasFields(p, Fields) /\ p.enable = TRUE
  BY Zenon DEF _isSampleEnabled, _started, HasFields, Fields
<1>3. LET p == _isSampleEnabled([o EXCEPT !.enable = FALSE, !.status = "Disabled"])
      IN HasFields(p, Fields) /\ p.enable = FALSE /\ p.status = "Disabled"
  BY Zenon DEF _isSampleEnabled, HasFields, Fields
<1>4. \A p \in {_reset(o), _resetTotal(o)} : HasFields(p, Fields) /\ p.enable = o.enable /\ p.status = o.status
  BY Zenon DEF _reset, _resetTotal, HasFields, Fields
<1>5. \A p \in {_otherSampleSet(o), _enableSamples(o)} : HasFields(p, Fields) /\ p.enable = o.enable /\ p.status = o.status
  BY Zenon DEF _otherSampleSet, _enableSamples, _isSampleEnabled, HasFields, Fields
<1>6. HasFields(_forceSample(o), Fields) /\ _forceSample(o).enable = o.enable /\ _forceSample(o).status = o.status
  BY PushKeeps DEF _forceSample
<1>7. \A p \in Settings(o) : p \in {_reset(o), _resetTotal(o)} \/ p \in {_otherSampleSet(o), _enableSamples(o)}
                             \/ p = _forceSample(o)
  BY Zenon DEF Settings
<1> QED BY <1>1, <1>2, <1>3, <1>4, <1>5, <1>6, <1>7

\* So the objects are well made after any setting, and the others are not changed.
LEMMA SetEffect ==
  ASSUME WellMade(objects), NEW x \in Objects,
         SetEnable(x) \/ SetEnableAgain(x) \/ SetDisable(x) \/ SetOther(x)
  PROVE  /\ WellMade(objects') /\ \A y \in Objects : y # x => objects'[y] = objects[y]
         /\ SetEnable(x) \/ SetEnableAgain(x) => objects'[x].enable = TRUE
         /\ SetDisable(x) => objects'[x].enable = FALSE /\ objects'[x].status = "Disabled"
         /\ SetOther(x) => objects'[x].enable = objects[x].enable /\ objects'[x].status = objects[x].status
<1> DEFINE o1 == _isSampleEnabled([objects[x] EXCEPT !.enable = TRUE, !.status = "Enabled"])
           o2 == _isSampleEnabled(_started([objects[x] EXCEPT !.enable = TRUE]))
           o3 == _isSampleEnabled([objects[x] EXCEPT !.enable = FALSE, !.status = "Disabled"])
           Becomes(o) == HasFields(o, Fields) /\ objects' = [objects EXCEPT ![x] = o]
<1>1. HasFields(objects[x], Fields)
  BY DEF WellMade
<1>2. /\ HasFields(o1, Fields) /\ o1.enable = TRUE
      /\ HasFields(o2, Fields) /\ o2.enable = TRUE
      /\ HasFields(o3, Fields) /\ o3.enable = FALSE /\ o3.status = "Disabled"
      /\ \A o \in Settings(objects[x]) :
           HasFields(o, Fields) /\ o.enable = objects[x].enable /\ o.status = objects[x].status
  BY Zenon, <1>1, SettingKeeps
<1>3. SetEnable(x) => objects' = [objects EXCEPT ![x] = o1]
  BY Zenon DEF SetEnable
<1>4. SetEnableAgain(x) => objects' = [objects EXCEPT ![x] = o2]
  BY Zenon DEF SetEnableAgain
<1>5. SetDisable(x) => objects' = [objects EXCEPT ![x] = o3]
  BY Zenon DEF SetDisable
<1>6. SetOther(x) => \E o \in Settings(objects[x]) : objects' = [objects EXCEPT ![x] = o]
  BY Zenon DEF SetOther
<1> HIDE DEF o1, o2, o3
<1>7. ASSUME NEW o, Becomes(o)
      PROVE  /\ WellMade(objects') /\ \A y \in Objects : y # x => objects'[y] = objects[y]
             /\ objects'[x] = o
  BY <1>7 DEF WellMade
<1>8. /\ SetEnable(x) => Becomes(o1)
      /\ SetEnableAgain(x) => Becomes(o2)
      /\ SetDisable(x) => Becomes(o3)
      /\ SetOther(x) => \E o \in Settings(objects[x]) : Becomes(o)
  BY Zenon, <1>2, <1>3, <1>4, <1>5, <1>6
<1> HIDE DEF Becomes
<1>9. SetOther(x) => objects'[x].enable = objects[x].enable /\ objects'[x].status = objects[x].status
  BY Zenon, <1>2, <1>7, <1>8
<1>10. \E o : Becomes(o)
  BY Zenon, <1>8
<1> QED BY Zenon, <1>2, <1>7, <1>8, <1>9, <1>10

\* What a delivery, and a setting of Enable, make of the list.
LEMMA DeliverEffect ==
  ASSUME Shapes, PollDeliver
  PROVE  /\ IsSeq(list') /\ DOMAIN list' = DOMAIN list
         /\ \A i \in DOMAIN list : /\ HasFields(list'[i], NodeFields) /\ list'[i].id \in 1..nodes
                                   /\ list'[i].id = list[i].id /\ list'[i].object = list[i].object
         /\ status # "RUNNING" => UNCHANGED list
<1>1. IsSeq(list) /\ DOMAIN list = 1..Len(list) /\ Len(list) \in Nat
  BY OwnSeq DEF Shapes, IsSeq
<1>2. CASE poll.node # NoNode /\ status = "RUNNING"
  <2>1. list' = [i \in DOMAIN list |-> _polled(list[i])]
    BY <1>2 DEF PollDeliver
  <2>2. ASSUME NEW node, HasFields(node, NodeFields)
        PROVE  /\ HasFields(_polled(node), NodeFields)
               /\ _polled(node).id = node.id /\ _polled(node).object = node.object
    BY Zenon, <2>2 DEF _polled, HasFields, NodeFields
  <2>3. IsSeq(list') /\ DOMAIN list' = DOMAIN list
    BY <1>1, <2>1, FunctionSeq
  <2> QED BY <1>2, <2>1, <2>2, <2>3 DEF Shapes
<1>3. CASE ~(poll.node # NoNode /\ status = "RUNNING")
  <2>1. UNCHANGED list
    BY <1>3 DEF PollDeliver
  <2> QED BY <1>1, <2>1 DEF Shapes
<1> QED BY <1>2, <1>3

LEMMA EnableEffect ==
  ASSUME Shapes, NEW x \in Objects, SetEnable(x)
  PROVE  /\ nodes' \in Nat /\ nodes' = nodes + 1 /\ IsSeq(list')
         /\ \A i \in DOMAIN list : i \in DOMAIN list' /\ list'[i] = list[i]
         /\ \A i \in DOMAIN list' :
              /\ HasFields(list'[i], NodeFields) /\ list'[i].id \in 1..nodes'
              /\ i \in DOMAIN list \/ (list'[i].id = nodes + 1 /\ list'[i].object = x)
         /\ \E i \in DOMAIN list' : list'[i].object = x
<1> DEFINE L == Len(list)
           e == Node(x, 0, nodes + 1)
<1>1. /\ IsSeq(list) /\ nodes \in Nat
      /\ \A i \in DOMAIN list : HasFields(list[i], NodeFields) /\ list[i].id \in 1..nodes
  BY DEF Shapes
<1>2. list' = Append(list, e) /\ nodes' = nodes + 1
  BY DEF SetEnable
<1>3. HasFields(e, NodeFields) /\ e.id = nodes + 1 /\ e.object = x
  BY DEF Node, HasFields, NodeFields
<1> HIDE DEF e
<1>4. /\ IsSeq(list') /\ DOMAIN list = 1..L /\ L \in Nat /\ DOMAIN list' = 1..(L + 1)
      /\ \A i \in 1..(L + 1) : list'[i] = IF i = L + 1 THEN e ELSE list[i]
  BY <1>1, <1>2, Appended
<1> HIDE DEF L
<1>5. \A i \in DOMAIN list : i \in DOMAIN list' /\ list'[i] = list[i]
  BY <1>4
<1>6. \A i \in DOMAIN list' : /\ HasFields(list'[i], NodeFields) /\ list'[i].id \in 1..nodes'
                              /\ i \in DOMAIN list \/ (list'[i].id = nodes + 1 /\ list'[i].object = x)
  <2>1. SUFFICES ASSUME NEW i \in DOMAIN list'
                 PROVE  /\ HasFields(list'[i], NodeFields) /\ list'[i].id \in 1..nodes'
                        /\ i \in DOMAIN list \/ (list'[i].id = nodes + 1 /\ list'[i].object = x)
    OBVIOUS
  <2>2. CASE i = L + 1
    BY <1>1, <1>2, <1>3, <1>4, <2>2
  <2>3. CASE i # L + 1
    BY <1>1, <1>2, <1>4, <2>3
  <2> QED BY <2>2, <2>3
<1>7. L + 1 \in DOMAIN list' /\ list'[L + 1] = e
  BY <1>4
<1> QED BY <1>1, <1>2, <1>3, <1>4, <1>5, <1>6, <1>7

LEMMA DisableEffect ==
  ASSUME Shapes, NEW x \in Objects, SetDisable(x)
  PROVE  /\ IsSeq(list')
         /\ \A i \in DOMAIN list' : \E j \in DOMAIN list : list'[i] = list[j]
         /\ \A j \in DOMAIN list : list[j].object # x => \E i \in DOMAIN list' : list'[i] = list[j]
<1> DEFINE places == {i \in DOMAIN list : list[i].object # x}
<1>1. IsSeq(list) /\ places \in SUBSET DOMAIN list /\ list' = Selected(list, places)
  BY DEF Shapes, SetDisable
<1>2. \A j \in DOMAIN list : list[j].object # x => j \in places
  OBVIOUS
<1> HIDE DEF places
<1>3. /\ IsSeq(list')
      /\ \A i \in DOMAIN list' : \E p \in places : list'[i] = list[p]
      /\ \A p \in places : \E i \in DOMAIN list' : list'[i] = list[p]
  BY <1>1, SelectedEffect
<1> QED BY <1>1, <1>2, <1>3

LEMMA ShapesInit == Init => Shapes
<1> SUFFICES ASSUME Init PROVE Shapes
  OBVIOUS
<1>1. WellMade(objects)
  BY StatisticsAssumption DEF Init, WellMade, NewObject, HasFields, Fields
<1>2. Cardinality(Objects) \in Nat
  BY StatisticsAssumption, FS_CardinalityType
<1>3. IsSeq(list) /\ \A i \in DOMAIN list : HasFields(list[i], NodeFields) /\ list[i].id \in 1..nodes
  <2>1. list = _filled(0) /\ nodes = Cardinality(Objects)
    BY DEF Init
  <2> QED BY SMTT(30), <1>2, <2>1, FilledEffect
<1>4. IsSeq(pending) /\ nodes \in Nat
  BY <1>2 DEF Init, IsSeq
<1>5. HasFields(poll, PollFields) /\ HasFields(excused, {"early", "freed", "slip"}) /\ excused.slip \in BOOLEAN
  BY DEF Init, Off, HasFields, PollFields
<1> QED BY <1>1, <1>3, <1>4, <1>5 DEF Shapes

\* The parts of the state keep their shapes.
LEMMA ShapesStep == Shapes /\ [Next]_vars => Shapes'
<1> SUFFICES ASSUME Shapes, [Next]_vars PROVE Shapes'
  OBVIOUS
<1> USE DEF device
<1>0. HasFields(poll, PollFields) /\ WellMade(objects) /\ IsSeq(pending) /\ IsSeq(list) /\ nodes \in Nat
  BY DEF Shapes
<1>a. ASSUME NEW os, AllSame(objects, os) PROVE WellMade(os)
  BY <1>a DEF AllSame
<1>1. CASE PollStart
  BY <1>0, <1>1, GoesEffect DEF PollStart, Shapes
<1>2. CASE PollEnter
  <2>1. HasFields(poll', PollFields)
    BY <1>0, <1>2 DEF PollEnter, HasFields, PollFields
  <2> QED BY <1>2, <2>1 DEF PollEnter, Shapes
<1>3. CASE PollSleep
  BY <1>0, <1>a, <1>3, GoesEffect, UnlockEffect DEF PollSleep, Shapes
<1>4. CASE PollRound
  <2>1. HasFields(poll', PollFields) /\ WellMade(objects')
    BY <1>0, <1>4, RoundEffect DEF RoundStarts, Off, HasFields, PollFields
  <2>2. IsSeq(list') /\ \A i \in DOMAIN list' : HasFields(list'[i], NodeFields) /\ list'[i].id \in 1..nodes
    BY <1>4, RoundEffect DEF Shapes
  <2>3. UNCHANGED <<pending, nodes, excused>>
    BY <1>4, RoundEffect
  <2> QED BY <2>1, <2>2, <2>3 DEF Shapes
<1>5. CASE PollUnlock
  BY <1>0, <1>a, <1>5, GoesEffect, UnlockEffect DEF PollUnlock, Shapes
<1>6. CASE PollFetch
  <2>1. HasFields(poll', PollFields)
    BY <1>0, <1>6, GoesEffect DEF PollFetch, Continues, HasFields, PollFields
  <2>2. HasFields(excused', {"early", "freed", "slip"}) /\ excused'.slip \in BOOLEAN
    BY <1>6 DEF PollFetch, Continues, Shapes, HasFields
  <2> QED BY <1>6, <2>1, <2>2 DEF PollFetch, Shapes
<1>7. CASE PollPlan
  <2>1. HasFields(poll', PollFields)
    BY <1>0, <1>7, GoesEffect DEF PollPlan, Continues
  <2>2. HasFields(excused', {"early", "freed", "slip"}) /\ excused'.slip \in BOOLEAN
    BY <1>7 DEF PollPlan, Continues, Shapes, HasFields
  <2> QED BY <1>7, <2>1, <2>2 DEF PollPlan, Shapes
<1>8. CASE PollWake
  BY <1>0, <1>8, GoesEffect DEF PollWake, Shapes
<1>9. CASE PollLock
  BY <1>0, <1>9, GoesEffect DEF PollLock, Shapes
<1>10. CASE PollDeliver
  <2>1. HasFields(poll', PollFields)
    BY <1>10 DEF PollDeliver, Off, HasFields, PollFields
  <2>2. WellMade(objects')
    BY <1>0, <1>10, ProcessedSame DEF PollDeliver, AllSame
  <2>3. IsSeq(list') /\ \A i \in DOMAIN list' : HasFields(list'[i], NodeFields) /\ list'[i].id \in 1..nodes
    BY <1>10, DeliverEffect
  <2> QED BY <1>10, <2>1, <2>2, <2>3 DEF PollDeliver, Shapes
<1>11. CASE PollLeave
  BY <1>0, <1>a, <1>11, UnlockEffect DEF PollLeave, Shapes
<1>12. CASE SessionOpens
  BY <1>12 DEF SessionOpens, Shapes
<1>13. CASE SessionCloses
  BY <1>0, <1>a, <1>13, UnlockEffect DEF SessionCloses, Shapes
<1>14. CASE Restart
  <2>1. HasFields(poll', PollFields)
    BY <1>0, <1>14, SignalEffect DEF Restart
  <2>2. /\ nodes' \in Nat /\ IsSeq(list')
        /\ \A i \in DOMAIN list' : HasFields(list'[i], NodeFields) /\ list'[i].id \in 1..nodes'
    <3>1. list' = _filled(nodes) /\ nodes' = nodes + Cardinality(Objects) /\ Cardinality(Objects) \in Nat
      BY <1>0, <1>14, FilledEffect DEF Restart
    <3>2. /\ IsSeq(list') /\ DOMAIN list' = 1..Cardinality(Objects)
          /\ \A i \in 1..Cardinality(Objects) : HasFields(list'[i], NodeFields) /\ list'[i].id = nodes + i
      BY <1>0, <3>1, FilledEffect
    <3> QED BY <1>0, <3>1, <3>2
  <2> QED BY <1>14, <2>1, <2>2 DEF Restart, Shapes
<1>15. ASSUME NEW x \in Objects, SetEnable(x) PROVE Shapes'
  <2>1. HasFields(poll', PollFields)
    BY <1>0, <1>15, SignalEffect DEF SetEnable
  <2>2. WellMade(objects')
    BY <1>0, <1>15, SetEffect
  <2>3. /\ nodes' \in Nat /\ IsSeq(list')
        /\ \A i \in DOMAIN list' : HasFields(list'[i], NodeFields) /\ list'[i].id \in 1..nodes'
    BY <1>15, EnableEffect
  <2>4. HasFields(excused', {"early", "freed", "slip"}) /\ excused'.slip \in BOOLEAN
    BY <1>15 DEF SetEnable, Shapes, HasFields
  <2> QED BY <1>15, <2>1, <2>2, <2>3, <2>4 DEF SetEnable, Shapes
<1>16. ASSUME NEW x \in Objects, SetEnableAgain(x) PROVE Shapes'
  <2>1. WellMade(objects')
    BY <1>0, <1>16, SetEffect
  <2>2. HasFields(excused', {"early", "freed", "slip"}) /\ excused'.slip \in BOOLEAN
    BY <1>16 DEF SetEnableAgain, Shapes, HasFields
  <2> QED BY <1>16, <2>1, <2>2 DEF SetEnableAgain, Shapes
<1>17. ASSUME NEW x \in Objects, SetDisable(x) PROVE Shapes'
  <2>1. WellMade(objects')
    BY <1>0, <1>17, SetEffect
  <2>2. IsSeq(list') /\ \A i \in DOMAIN list' : HasFields(list'[i], NodeFields) /\ list'[i].id \in 1..nodes
    BY <1>17, DisableEffect DEF Shapes
  <2>3. HasFields(excused', {"early", "freed", "slip"}) /\ excused'.slip \in BOOLEAN
    BY <1>17 DEF SetDisable, Shapes, HasFields
  <2> QED BY <1>17, <2>1, <2>2, <2>3 DEF SetDisable, Shapes
<1>18. ASSUME NEW x \in Objects, SetOther(x) PROVE Shapes'
  <2>1. WellMade(objects')
    BY <1>0, <1>18, SetEffect
  <2> QED BY <1>18, <2>1 DEF SetOther, Shapes
<1>19. CASE SourceReads
  BY <1>19 DEF SourceReads, Shapes
<1>20. CASE SourceNotifies
  <2>1. CASE dm = NoOne
    <3>1. AllSame(objects, Processed(objects, source[1])) /\ WellMade(Processed(objects, source[1]))
      BY <1>0, ProcessedSame DEF AllSame
    <3>2. WellMade(objects') /\ IsSeq(pending')
      BY <1>0, <1>20, <2>1, <3>1, UnlockEffect DEF SourceNotifies, AllSame
    <3> QED BY <1>20, <3>2 DEF SourceNotifies, Shapes
  <2>2. CASE dm # NoOne
    <3>1. IsSeq(pending') /\ UNCHANGED objects
      <4>1. pending' = Append(pending, source[1]) /\ UNCHANGED objects
        BY <1>20, <2>2 DEF SourceNotifies
      <4> QED BY <1>0, <4>1, Appended
    <3> QED BY <1>20, <3>1 DEF SourceNotifies, Shapes
  <2> QED BY <2>1, <2>2
<1>21. CASE DeviceReady
  BY <1>21 DEF DeviceReady, Shapes
<1>22. CASE Tick
  BY <1>22 DEF Tick, Shapes
<1>23. CASE Release
  <2>1. HasFields(poll', PollFields) /\ IsSeq(list') /\ DOMAIN list' = {}
    BY <1>0, <1>23, WokenEffect DEF Release, IsSeq
  <2> QED BY <1>23, <2>1 DEF Release, Shapes
<1>24. CASE UNCHANGED vars
  BY <1>24 DEF vars, Shapes
<1> QED BY <1>1, <1>2, <1>3, <1>4, <1>5, <1>6, <1>7, <1>8, <1>9, <1>10, <1>11, <1>12, <1>13, <1>14,
     <1>15, <1>16, <1>17, <1>18, <1>19, <1>20, <1>21, <1>22, <1>23, <1>24, NextSplit

\* The thread enters a turn, or goes to wait for the device.
LEMMA EnterEffect ==
  ASSUME Shapes, PollEnter
  PROVE  /\ poll.at = "entering" /\ mutex = NoOne /\ HasFields(poll', PollFields) /\ poll'.node = poll.node
         /\ \/ poll'.at = "unready" /\ UNCHANGED mutex
            \/ poll'.at = "round" /\ mutex' = Poller
         /\ status' = IF status = "INITIAL" THEN "STARTING" ELSE status
         /\ UNCHANGED <<objects, dm, released, pending, list, nodes, leaving, session, source, device, excused, budget>>
BY DEF Shapes, PollEnter, At, HasFields, PollFields

\* A reading that the device gives takes the lock for itself, or is put in the queue.
LEMMA NotifyEffect ==
  ASSUME Shapes, SourceNotifies
  PROVE  /\ AllSame(objects, objects') /\ ~released
         /\ UNCHANGED <<released, mutex, status, list, nodes, poll, leaving, session, device, excused, budget>>
         /\ \/ dm = NoOne /\ dm' = NoOne
            \/ dm # NoOne /\ UNCHANGED dm
<1>1. WellMade(objects) /\ IsSeq(pending)
  BY DEF Shapes
<1>2. UNCHANGED <<released, mutex, status, list, nodes, poll, leaving, session, device, excused, budget>> /\ ~released
  BY DEF SourceNotifies
<1>3. CASE dm = NoOne
  <2>1. AllSame(objects, Processed(objects, source[1])) /\ Unlock(Processed(objects, source[1]))
    BY <1>1, <1>3, ProcessedSame DEF SourceNotifies
  <2>2. AllSame(Processed(objects, source[1]), objects') /\ dm' = NoOne
    BY <1>1, <1>2, <2>1, UnlockEffect DEF AllSame
  <2> QED BY <1>2, <1>3, <2>1, <2>2 DEF AllSame, Same
<1>4. CASE dm # NoOne
  <2>1. UNCHANGED <<objects, dm>>
    BY <1>4 DEF SourceNotifies
  <2> QED BY <1>1, <1>2, <1>4, <2>1 DEF AllSame, WellMade, Same
<1> QED BY <1>3, <1>4

\* After a turn the thread has chosen, or it is at its end.
LEMMA RoundPlace ==
  ASSUME Shapes, PollRound
  PROVE  /\ poll.at = "round" /\ mutex' = NoOne /\ UNCHANGED <<dm, session, excused>>
         /\ \/ leaving' = TRUE /\ poll'.at = "off"
            \/ UNCHANGED leaving /\ poll'.at = "releasing"
<1>1. Off.at = "off"
  BY DEF Off
<1> QED BY <1>1, RoundEffect DEF At

\* The thread has a reading, or none, or goes on without the lock of the data model.
LEMMA FetchEffect ==
  ASSUME Shapes, PollFetch \/ PollPlan
  PROVE  /\ HasFields(poll', PollFields) /\ poll'.node = poll.node /\ mutex = NoOne
         /\ UNCHANGED <<objects, dm, released, pending, status, list, nodes, leaving, session, source>>
         /\ \/ /\ status # "RUNNING" /\ mutex' = Poller /\ poll'.at = "round"
               /\ excused'.slip = TRUE /\ excused'.early = excused.early /\ excused'.freed = excused.freed
            \/ /\ status = "RUNNING" /\ UNCHANGED <<mutex, excused>>
               /\ poll'.at = IF poll.at = "fetching" THEN "locking" ELSE "waiting"
         /\ poll.at \in {"fetching", "planning"}
<1>1. HasFields(poll, PollFields) /\ HasFields(excused, {"early", "freed", "slip"})
  BY DEF Shapes
<1>2. ASSUME Continues
      PROVE  /\ HasFields(poll', PollFields) /\ poll'.node = poll.node
             /\ status # "RUNNING" /\ mutex' = Poller /\ poll'.at = "round"
             /\ excused'.slip = TRUE /\ excused'.early = excused.early /\ excused'.freed = excused.freed
  BY <1>1, <1>2, GoesEffect DEF Continues, HasFields
<1>3. CASE PollFetch
  <2>1. ASSUME NEW sd, poll' = [poll EXCEPT !.at = "locking", !.sample = sd]
        PROVE  HasFields(poll', PollFields) /\ poll'.node = poll.node /\ poll'.at = "locking"
    BY <1>1, <2>1 DEF HasFields, PollFields
  <2> QED BY <1>1, <1>2, <1>3, <2>1, GoesEffect DEF PollFetch, At
<1>4. CASE PollPlan
  BY <1>1, <1>2, <1>4, GoesEffect DEF PollPlan, At
<1> QED BY <1>3, <1>4

\* A setting of Enable is made in a session, between two turns of the thread.
LEMMA SettingEffect ==
  ASSUME Shapes, NEW x \in Objects, SetEnable(x) \/ SetEnableAgain(x) \/ SetDisable(x)
  PROVE  /\ session /\ mutex = NoOne /\ excused'.slip = excused.slip
         /\ UNCHANGED <<dm, released, pending, mutex, leaving, session>>
<1>1. HasFields(excused, {"early", "freed", "slip"})
  BY DEF Shapes
<1> QED BY <1>1 DEF SetEnable, SetEnableAgain, SetDisable, Setting, HasFields

\* A turn begins when the mutex is taken and ends when it is released.
LEMMA TurnsStep == Shapes /\ Turns /\ [Next]_vars => Turns'
<1> SUFFICES ASSUME Shapes, Turns, [Next]_vars PROVE Turns'
  OBVIOUS
<1> USE DEF device
<1>0. HasFields(poll, PollFields) /\ WellMade(objects) /\ IsSeq(pending) /\ IsSeq(list)
  BY DEF Shapes
<1>1. CASE PollStart
  BY <1>0, <1>1, GoesEffect DEF PollStart, Turns, At, NoOne, Poller
<1>2. CASE PollEnter
  BY <1>0, <1>2, EnterEffect DEF Turns, At, NoOne, Poller
<1>3. CASE PollSleep
  BY <1>0, <1>3, GoesEffect, UnlockEffect DEF PollSleep, Turns, At, NoOne, Poller
<1>4. CASE PollRound
  BY <1>0, <1>4, RoundPlace DEF Turns, At, NoOne, Poller
<1>5. CASE PollUnlock
  BY <1>0, <1>5, GoesEffect, UnlockEffect DEF PollUnlock, Turns, At, NoOne, Poller
<1>6. CASE PollFetch
  BY <1>0, <1>6, FetchEffect DEF Turns, At, NoOne, Poller
<1>7. CASE PollPlan
  BY <1>0, <1>7, FetchEffect DEF Turns, At, NoOne, Poller
<1>8. CASE PollWake
  BY <1>0, <1>8, GoesEffect DEF PollWake, Turns, At, NoOne, Poller
<1>9. CASE PollLock
  BY <1>0, <1>9, GoesEffect DEF PollLock, Turns, At, NoOne, Poller
<1>10. CASE PollDeliver
  BY <1>0, <1>10 DEF PollDeliver, Off, Turns, At, NoOne, Poller
<1>11. CASE PollLeave
  BY <1>0, <1>11, UnlockEffect DEF PollLeave, Turns, At, NoOne, Poller
<1>12. CASE SessionOpens
  BY <1>0, <1>12 DEF SessionOpens, Turns, At, NoOne, Poller
<1>13. CASE SessionCloses
  BY <1>0, <1>13, UnlockEffect DEF SessionCloses, Turns, At, NoOne, Poller
<1>14. CASE Restart
  BY <1>0, <1>14, SignalEffect DEF Restart, Turns, At, NoOne, Poller
<1>15. ASSUME NEW x \in Objects, SetEnable(x) PROVE Turns'
  BY <1>0, <1>15, SignalEffect DEF SetEnable, Turns, At, NoOne, Poller
<1>16. ASSUME NEW x \in Objects, SetEnableAgain(x) PROVE Turns'
  BY <1>0, <1>16 DEF SetEnableAgain, Turns, At, NoOne, Poller
<1>17. ASSUME NEW x \in Objects, SetDisable(x) PROVE Turns'
  BY <1>0, <1>17 DEF SetDisable, Turns, At, NoOne, Poller
<1>18. ASSUME NEW x \in Objects, SetOther(x) PROVE Turns'
  BY <1>0, <1>18 DEF SetOther, Turns, At, NoOne, Poller
<1>19. CASE SourceReads
  BY <1>0, <1>19 DEF SourceReads, Turns, At, NoOne, Poller
<1>20. CASE SourceNotifies
  BY <1>0, <1>20, NotifyEffect DEF Turns, At, NoOne, Poller
<1>21. CASE DeviceReady
  BY <1>0, <1>21 DEF DeviceReady, Turns, At, NoOne, Poller
<1>22. CASE Tick
  BY <1>0, <1>22 DEF Tick, Turns, At, NoOne, Poller
<1>23. CASE Release
  BY <1>0, <1>23, WokenEffect DEF Release, Turns, At, NoOne, Poller
<1>24. CASE UNCHANGED vars
  BY <1>24 DEF vars, Turns, At, NoOne, Poller
<1> QED BY <1>1, <1>2, <1>3, <1>4, <1>5, <1>6, <1>7, <1>8, <1>9, <1>10, <1>11, <1>12, <1>13, <1>14,
     <1>15, <1>16, <1>17, <1>18, <1>19, <1>20, <1>21, <1>22, <1>23, <1>24, NextSplit

\* The lock of the data model is taken and given up along the loop, unless the thread slips.
LEMMA LocksStep == Shapes /\ Polled /\ Locks /\ [Next]_vars => Locks'
<1> SUFFICES ASSUME Shapes, Polled, Locks, [Next]_vars PROVE Locks'
  OBVIOUS
<1> USE DEF device
<1>0. HasFields(poll, PollFields) /\ WellMade(objects) /\ IsSeq(pending) /\ IsSeq(list)
  BY DEF Shapes
<1>a. released => ~session
  BY DEF Polled
<1>1. CASE PollStart
  BY <1>0, <1>1, GoesEffect DEF PollStart, Locks, At, NoOne, Poller, Acs
<1>2. CASE PollEnter
  BY <1>0, <1>2, EnterEffect DEF Locks, At, NoOne, Poller, Acs
<1>3. CASE PollSleep
  BY <1>0, <1>3, GoesEffect, UnlockEffect DEF PollSleep, Locks, At, NoOne, Poller, Acs
<1>4. CASE PollRound
  BY <1>0, <1>4, RoundPlace DEF Locks, At, NoOne, Poller, Acs
<1>5. CASE PollUnlock
  BY <1>0, <1>5, GoesEffect, UnlockEffect DEF PollUnlock, Locks, At, NoOne, Poller, Acs
<1>6. CASE PollFetch
  BY <1>0, <1>6, FetchEffect DEF Locks, At, NoOne, Poller, Acs
<1>7. CASE PollPlan
  BY <1>0, <1>7, FetchEffect DEF Locks, At, NoOne, Poller, Acs
<1>8. CASE PollWake
  BY <1>0, <1>8, GoesEffect DEF PollWake, Locks, At, NoOne, Poller, Acs
<1>9. CASE PollLock
  BY <1>0, <1>9, GoesEffect DEF PollLock, Locks, At, NoOne, Poller, Acs
<1>10. CASE PollDeliver
  BY <1>0, <1>10 DEF PollDeliver, Off, Locks, At, NoOne, Poller, Acs
<1>11. CASE PollLeave
  BY <1>0, <1>11, UnlockEffect DEF PollLeave, Locks, At, NoOne, Poller, Acs
<1>12. CASE SessionOpens
  BY <1>0, <1>12 DEF SessionOpens, Locks, At, NoOne, Poller, Acs
<1>13. CASE SessionCloses
  BY <1>0, <1>a, <1>13, UnlockEffect DEF SessionCloses, Locks, At, NoOne, Poller, Acs
<1>14. CASE Restart
  BY <1>0, <1>14, SignalEffect DEF Restart, Setting, Locks, At, NoOne, Poller, Acs
<1>15. ASSUME NEW x \in Objects, SetEnable(x) PROVE Locks'
  BY <1>0, <1>15, SettingEffect, SignalEffect DEF SetEnable, Locks, At, NoOne, Poller, Acs
<1>16. ASSUME NEW x \in Objects, SetEnableAgain(x) PROVE Locks'
  BY <1>0, <1>16, SettingEffect DEF SetEnableAgain, Locks, At, NoOne, Poller, Acs
<1>17. ASSUME NEW x \in Objects, SetDisable(x) PROVE Locks'
  BY <1>0, <1>17, SettingEffect DEF SetDisable, Locks, At, NoOne, Poller, Acs
<1>18. ASSUME NEW x \in Objects, SetOther(x) PROVE Locks'
  BY <1>0, <1>18 DEF SetOther, Locks, At, NoOne, Poller, Acs
<1>19. CASE SourceReads
  BY <1>0, <1>19 DEF SourceReads, Locks, At, NoOne, Poller, Acs
<1>20. CASE SourceNotifies
  BY <1>0, <1>20, NotifyEffect DEF Locks, At, NoOne, Poller, Acs
<1>21. CASE DeviceReady
  BY <1>0, <1>21 DEF DeviceReady, Locks, At, NoOne, Poller, Acs
<1>22. CASE Tick
  BY <1>0, <1>22 DEF Tick, Locks, At, NoOne, Poller, Acs
<1>23. CASE Release
  BY <1>0, <1>23, WokenEffect DEF Release, Locks, At, NoOne, Poller, Acs
<1>24. CASE UNCHANGED vars
  BY <1>24 DEF vars, Locks, At, NoOne, Poller, Acs
<1> QED BY <1>1, <1>2, <1>3, <1>4, <1>5, <1>6, <1>7, <1>8, <1>9, <1>10, <1>11, <1>12, <1>13, <1>14,
     <1>15, <1>16, <1>17, <1>18, <1>19, <1>20, <1>21, <1>22, <1>23, <1>24, NextSplit

\* The nodes keep their numbers when the list loses some of them, and the node of the thread
\* is the same, none, or one of the list.
LEMMA NumbersFrom ==
  ASSUME Shapes, Numbers, nodes' = nodes,
         \A i \in DOMAIN list' : \E j \in DOMAIN list : list'[i].id = list[j].id /\ list'[i].object = list[j].object,
         \/ poll'.node = poll.node \/ poll'.node = NoNode
         \/ \E i \in DOMAIN list' : poll'.node = list'[i]
  PROVE  Numbers'
<1>1. \A i \in DOMAIN list : list[i].id \in 1..nodes
  BY DEF Shapes
<1>2. \A i, j \in DOMAIN list' : list'[i].id = list'[j].id => list'[i].object = list'[j].object
  BY DEF Numbers
<1>3. \A i \in DOMAIN list' : list'[i].id \in 1..nodes'
  BY <1>1
<1>4. NoNode.id = 0 /\ \A i \in DOMAIN list' : list'[i].id # 0
  BY <1>3 DEF NoNode, Node
<1>5. CASE poll'.node = poll.node
  BY <1>2, <1>5 DEF Numbers
<1>6. CASE poll'.node = NoNode
  BY <1>2, <1>4, <1>6 DEF Numbers
<1>7. CASE \E i \in DOMAIN list' : poll'.node = list'[i]
  BY <1>2, <1>3, <1>7 DEF Numbers
<1> QED BY <1>5, <1>6, <1>7

\* Nodes that are added have numbers that no node had.
LEMMA NumbersAbove ==
  ASSUME Shapes, Numbers, nodes' \in Nat, nodes <= nodes',
         \A i, j \in DOMAIN list' : list'[i].id = list'[j].id => list'[i].object = list'[j].object,
         \A i \in DOMAIN list' : \/ list'[i].id > nodes
                                 \/ i \in DOMAIN list /\ list'[i] = list[i],
         poll'.node = poll.node \/ poll'.node = NoNode
  PROVE  Numbers'
<1>1. nodes \in Nat /\ \A i \in DOMAIN list : list[i].id \in 1..nodes
  BY DEF Shapes
<1>2. NoNode.id = 0
  BY DEF NoNode, Node
<1>3. \A i \in DOMAIN list' : list'[i].id # 0
  BY <1>1
<1>4. CASE poll'.node = NoNode
  BY <1>2, <1>3, <1>4 DEF Numbers
<1>5. CASE poll'.node = poll.node /\ poll.node # NoNode
  <2>1. poll.node.id \in 1..nodes /\ \A i \in DOMAIN list : list[i].id = poll.node.id => list[i].object = poll.node.object
    BY <1>5 DEF Numbers
  <2>2. \A i \in DOMAIN list' : list'[i].id = poll.node.id => list'[i].object = poll.node.object
    BY <1>1, <2>1
  <2>3. poll'.node.id \in 1..nodes'
    BY <1>1, <1>5, <2>1
  <2> QED BY <1>5, <2>2, <2>3 DEF Numbers
<1> QED BY <1>4, <1>5


\* A number is given to one object only.
LEMMA NumbersStep == Shapes /\ Numbers /\ [Next]_vars => Numbers'
<1> SUFFICES ASSUME Shapes, Numbers, [Next]_vars PROVE Numbers'
  OBVIOUS
<1> USE DEF device
<1>0. HasFields(poll, PollFields) /\ WellMade(objects) /\ IsSeq(pending) /\ IsSeq(list) /\ nodes \in Nat
  BY DEF Shapes
<1>1. CASE PollStart
  BY <1>0, <1>1, GoesEffect, NumbersFrom DEF PollStart
<1>2. CASE PollEnter
  BY <1>0, <1>2, EnterEffect, NumbersFrom DEF Shapes
<1>3. CASE PollSleep
  BY <1>0, <1>3, GoesEffect, NumbersFrom DEF PollSleep
<1>4. CASE PollRound
  <2>1. nodes' = nodes
    BY <1>4, RoundEffect
  <2>2. CASE list = <<>> /\ poll' = Off /\ UNCHANGED list
    BY <2>1, <2>2, NumbersFrom DEF Off
  <2>3. CASE /\ \A i \in DOMAIN list' : \E j \in DOMAIN list :
                  list'[i].id = list[j].id /\ list'[i].object = list[j].object
             /\ poll'.node # NoNode => \E i \in DOMAIN list' : poll'.node = list'[i]
    BY <2>1, <2>3, NumbersFrom
  <2> QED BY <1>4, <2>2, <2>3, RoundEffect
<1>5. CASE PollUnlock
  BY <1>0, <1>5, GoesEffect, NumbersFrom DEF PollUnlock
<1>6. CASE PollFetch
  BY <1>6, FetchEffect, NumbersFrom
<1>7. CASE PollPlan
  BY <1>7, FetchEffect, NumbersFrom
<1>8. CASE PollWake
  BY <1>0, <1>8, GoesEffect, NumbersFrom DEF PollWake
<1>9. CASE PollLock
  BY <1>0, <1>9, GoesEffect, NumbersFrom DEF PollLock
<1>10. CASE PollDeliver
  <2>1. nodes' = nodes /\ poll'.node = NoNode
    BY <1>10 DEF PollDeliver, Off
  <2> QED BY <1>10, <2>1, DeliverEffect, NumbersFrom
<1>11. CASE PollLeave
  BY <1>0, <1>11, NumbersFrom DEF PollLeave
<1>12. CASE SessionOpens
  BY <1>0, <1>12, NumbersFrom DEF SessionOpens
<1>13. CASE SessionCloses
  BY <1>0, <1>13, NumbersFrom DEF SessionCloses
<1>14. CASE Restart
  <2>1. /\ list' = _filled(nodes) /\ nodes' = nodes + Cardinality(Objects)
        /\ poll'.node = poll.node \/ poll'.node = NoNode
    BY <1>0, <1>14, SignalEffect DEF Restart
  <2>2. nodes' \in Nat /\ nodes <= nodes'
    BY <1>0, <2>1, FilledEffect
  <2>3. /\ DOMAIN list' = 1..Cardinality(Objects) /\ Cardinality(Objects) \in Nat
        /\ \A i \in 1..Cardinality(Objects) : list'[i].id = nodes + i
    BY <1>0, <2>1, FilledEffect
  <2>4. /\ \A i \in DOMAIN list' : list'[i].id > nodes
        /\ \A i, j \in DOMAIN list' : list'[i].id = list'[j].id => i = j
    BY <1>0, <2>3
  <2> QED BY <2>1, <2>2, <2>4, NumbersAbove
<1>15. ASSUME NEW x \in Objects, SetEnable(x) PROVE Numbers'
  <2>1. poll'.node = poll.node \/ poll'.node = NoNode
    BY <1>0, <1>15, SignalEffect DEF SetEnable
  <2>2. /\ nodes' = nodes + 1
        /\ \A i \in DOMAIN list' :
             \/ i \in DOMAIN list /\ list'[i] = list[i]
             \/ list'[i].id = nodes + 1 /\ list'[i].object = x
    BY <1>15, EnableEffect
  <2>3. \A i \in DOMAIN list : list[i].id \in 1..nodes
    BY DEF Shapes
  <2>4. \A i, j \in DOMAIN list' : list'[i].id = list'[j].id => list'[i].object = list'[j].object
    BY <1>0, <2>2, <2>3 DEF Numbers
  <2>5. \A i \in DOMAIN list' : list'[i].id > nodes \/ (i \in DOMAIN list /\ list'[i] = list[i])
    BY <1>0, <2>2
  <2> QED BY <1>0, <2>1, <2>2, <2>4, <2>5, NumbersAbove
<1>16. ASSUME NEW x \in Objects, SetEnableAgain(x) PROVE Numbers'
  BY <1>0, <1>16, NumbersFrom DEF SetEnableAgain
<1>17. ASSUME NEW x \in Objects, SetDisable(x) PROVE Numbers'
  <2>1. UNCHANGED <<nodes, poll>>
    BY <1>17 DEF SetDisable
  <2> QED BY <1>17, <2>1, DisableEffect, NumbersFrom
<1>18. ASSUME NEW x \in Objects, SetOther(x) PROVE Numbers'
  BY <1>0, <1>18, NumbersFrom DEF SetOther
<1>19. CASE SourceReads
  BY <1>0, <1>19, NumbersFrom DEF SourceReads
<1>20. CASE SourceNotifies
  BY <1>20, NotifyEffect, NumbersFrom
<1>21. CASE DeviceReady
  BY <1>0, <1>21, NumbersFrom DEF DeviceReady
<1>22. CASE Tick
  BY <1>0, <1>22, NumbersFrom DEF Tick
<1>23. CASE Release
  <2>1. UNCHANGED nodes /\ poll'.node = poll.node /\ DOMAIN list' = {}
    BY <1>0, <1>23, WokenEffect DEF Release
  <2> QED BY <2>1, NumbersFrom
<1>24. CASE UNCHANGED vars
  BY <1>24, NumbersFrom DEF vars
<1> QED BY <1>1, <1>2, <1>3, <1>4, <1>5, <1>6, <1>7, <1>8, <1>9, <1>10, <1>11, <1>12, <1>13, <1>14,
     <1>15, <1>16, <1>17, <1>18, <1>19, <1>20, <1>21, <1>22, <1>23, <1>24, NextSplit

\* The node that the thread goes to read is in the list until its object is disabled.
LEMMA KeptStep == Shapes /\ Numbers /\ Kept /\ [Next]_vars => Kept'
<1> SUFFICES ASSUME Shapes, Numbers, Kept, [Next]_vars PROVE Kept'
  OBVIOUS
<1> USE DEF device
<1>0. HasFields(poll, PollFields) /\ WellMade(objects) /\ IsSeq(pending) /\ IsSeq(list)
  BY DEF Shapes
<1>e. HasFields(excused, {"early", "freed", "slip"})
  BY DEF Shapes
<1>1. CASE PollStart
  BY <1>0, <1>1, GoesEffect DEF PollStart, At, Kept, Live
<1>2. CASE PollEnter
  BY <1>0, <1>2, EnterEffect DEF Kept, Live
<1>3. CASE PollSleep
  BY <1>0, <1>3, GoesEffect DEF PollSleep, At, Kept, Live
<1>4. CASE PollRound
  <2>1. CASE poll'.at = "off"
    BY <2>1 DEF Kept
  <2>2. CASE poll'.at # "off"
    <3>1. poll' # Off
      BY <2>2 DEF Off
    <3>2. poll'.at = "releasing" /\ (poll'.node # NoNode => \E i \in DOMAIN list' : poll'.node = list'[i])
      BY <1>4, <3>1, RoundEffect
    <3> QED BY <3>2 DEF Kept, Live
  <2> QED BY <2>1, <2>2
<1>5. CASE PollUnlock
  BY <1>0, <1>5, GoesEffect DEF PollUnlock, At, Kept, Live
<1>6. CASE PollFetch
  BY <1>6, FetchEffect DEF Kept, Live
<1>7. CASE PollPlan
  BY <1>7, FetchEffect DEF Kept, Live
<1>8. CASE PollWake
  BY <1>0, <1>8, GoesEffect DEF PollWake, At, Kept, Live
<1>9. CASE PollLock
  BY <1>0, <1>9, GoesEffect DEF PollLock, At, Kept, Live
<1>10. CASE PollDeliver
  <2>1. poll'.at = "round"
    BY <1>10 DEF PollDeliver, Off
  <2> QED BY <2>1 DEF Kept
<1>11. CASE PollLeave
  BY <1>11 DEF PollLeave, Kept, Live
<1>12. CASE SessionOpens
  BY <1>12 DEF SessionOpens, Kept, Live
<1>13. CASE SessionCloses
  BY <1>13 DEF SessionCloses, Kept, Live
<1>14. CASE Restart
  <2>1. status' # "RUNNING"
    BY <1>14 DEF Restart
  <2> QED BY <1>0, <1>14, <2>1, SignalEffect DEF Restart, Kept
<1>15. ASSUME NEW x \in Objects, SetEnable(x) PROVE Kept'
  <2>1. excused'.freed = excused.freed /\ status' = status
    BY <1>e, <1>15 DEF SetEnable, HasFields
  <2>2. \A i \in DOMAIN list : i \in DOMAIN list' /\ list'[i] = list[i]
    BY <1>15, EnableEffect
  <2>3. CASE poll.at = "off" /\ poll'.at = "start"
    BY <2>3 DEF Kept
  <2>4. CASE poll'.node = poll.node /\ poll'.at = IF poll.at = "waiting" THEN "woken" ELSE poll.at
    BY <2>1, <2>2, <2>4 DEF Kept, Live
  <2> QED BY <1>0, <1>15, <2>3, <2>4, SignalEffect DEF SetEnable
<1>16. ASSUME NEW x \in Objects, SetEnableAgain(x) PROVE Kept'
  <2>1. excused'.freed = excused.freed /\ UNCHANGED <<status, list, poll>>
    BY <1>e, <1>16 DEF SetEnableAgain, HasFields
  <2> QED BY <2>1 DEF Kept, Live
<1>17. ASSUME NEW x \in Objects, SetDisable(x) PROVE Kept'
  <2>1. /\ excused'.freed = (IF poll.node.object = x THEN poll.node.id ELSE excused.freed)
        /\ UNCHANGED <<status, poll>>
    BY <1>e, <1>17 DEF SetDisable, HasFields
  <2>2. \A j \in DOMAIN list : list[j].object # x => \E i \in DOMAIN list' : list'[i] = list[j]
    BY <1>17, DisableEffect
  <2>3. ASSUME Live(poll.node) PROVE Live(poll.node)' \/ poll.node.object = x
    BY <2>1, <2>2, <2>3 DEF Live, Numbers
  <2> QED BY <2>1, <2>3 DEF Kept
<1>18. ASSUME NEW x \in Objects, SetOther(x) PROVE Kept'
  BY <1>18 DEF SetOther, Kept, Live
<1>19. CASE SourceReads
  BY <1>19 DEF SourceReads, Kept, Live
<1>20. CASE SourceNotifies
  BY <1>20, NotifyEffect DEF Kept, Live
<1>21. CASE DeviceReady
  BY <1>21 DEF DeviceReady, Kept, Live
<1>22. CASE Tick
  BY <1>22 DEF Tick, Kept, Live
<1>23. CASE Release
  <2>1. status' = "EXITING" /\ poll' = Woken(poll)
    BY <1>23 DEF Release
  <2> QED BY <1>0, <2>1, WokenEffect DEF Kept
<1>24. CASE UNCHANGED vars
  BY <1>24 DEF vars, Kept, Live
<1> QED BY <1>1, <1>2, <1>3, <1>4, <1>5, <1>6, <1>7, <1>8, <1>9, <1>10, <1>11, <1>12, <1>13, <1>14,
     <1>15, <1>16, <1>17, <1>18, <1>19, <1>20, <1>21, <1>22, <1>23, <1>24, NextSplit

\* What Polled says of the objects and the list, and its part about the status.
StatusOK ==
  /\ released => status # "RUNNING" /\ list = <<>> /\ ~session
  /\ status = "EXITING" => released
  /\ status \in {"INITIAL", "STARTING", "RUNNING", "EXITING"}
Listed1(x) == \E i \in DOMAIN list : list[i].object = x /\ list[i].type = 1
EnabledListed ==
  /\ \A x \in Objects : objects[x].status = "Enabled" => objects[x].enable
  /\ Starts => \A x \in Objects : objects[x].enable => x \in excused.early \/ Listed1(x)
  /\ Starts => \A i \in DOMAIN list : list[i].type = 1 \/ list[i].object \in excused.early
  /\ status = "RUNNING" => \A x \in Objects : objects[x].enable => x \in excused.early \/ Listed(x)

LEMMA PolledParts == (Polled <=> StatusOK /\ EnabledListed) /\ (Polled' <=> StatusOK' /\ EnabledListed')
BY DEF Polled, StatusOK, EnabledListed, Listed1

\* A step that changes neither the list nor the status, and no Enable.
LEMMA PolledSame ==
  ASSUME Polled, AllSame(objects, objects') \/ UNCHANGED objects, UNCHANGED <<released, status, list>>,
         excused'.early = excused.early, released => ~session'
  PROVE  Polled'
<1>1. StatusOK /\ EnabledListed
  BY PolledParts
<1>2. StatusOK'
  BY <1>1 DEF StatusOK
<1>3. \A x \in Objects : /\ objects'[x].enable = objects[x].enable
                         /\ objects'[x].status = "Enabled" => objects[x].status = "Enabled" \/ objects[x].enable
  BY DEF AllSame, Same
<1>4. Starts' = Starts /\ (\A x : Listed(x)' = Listed(x)) /\ \A x : Listed1(x)' = Listed1(x)
  BY DEF Starts, Listed, Listed1
<1>5. EnabledListed'
  BY <1>1, <1>3, <1>4 DEF EnabledListed
<1> QED BY <1>2, <1>5, PolledParts

\* While the samplings are to be started, a node that is not to be kept is of an object that
\* is excused.
LEMMA RoundPolled == Shapes /\ Polled /\ PollRound => Polled'
<1> SUFFICES ASSUME Shapes, Polled, PollRound PROVE Polled'
  OBVIOUS
<1>1. StatusOK /\ EnabledListed
  BY PolledParts
<1>2. UNCHANGED <<released, session, excused>>
  BY RoundEffect
<1>3. CASE UNCHANGED <<objects, status, list>>
  BY <1>1, <1>2, <1>3, PolledSame DEF StatusOK
<1>4. ASSUME list # <<>>, status # "STARTING", UNCHANGED <<objects, status>>, DOMAIN list' = DOMAIN list,
             \A i \in DOMAIN list : list'[i].object = list[i].object,
             \A i \in DOMAIN list : list'[i].type = list[i].type \/ list[i].type > SubSampleInterval
      PROVE  Polled'
  <2>1. ~released
    BY <1>1, <1>4 DEF StatusOK
  <2>2. StatusOK'
    BY <1>1, <1>2, <1>4, <2>1 DEF StatusOK
  <2>3. \A i \in DOMAIN list : list[i].type = 1 => list'[i].type = 1
    BY <1>4, StatisticsAssumption
  <2>4. \A x : (Listed(x) => Listed(x)') /\ (Listed1(x) => Listed1(x)')
    BY <1>4, <2>3 DEF Listed, Listed1
  <2>5. Starts' = Starts
    BY <1>2, <1>4 DEF Starts
  <2>6. Starts => \A i \in DOMAIN list' : list'[i].type = 1 \/ list'[i].object \in excused.early
    BY <1>1, <1>4, <2>3 DEF EnabledListed
  <2>7. EnabledListed'
    BY <1>1, <1>2, <1>4, <2>4, <2>5, <2>6 DEF EnabledListed
  <2> QED BY <2>2, <2>7, PolledParts
<1>5. ASSUME list # <<>>, status = "STARTING", RoundStarts PROVE Polled'
  <2>1. ~released /\ Starts /\ ~Starts'
    BY <1>1, <1>5 DEF StatusOK, Starts, RoundStarts
  <2>2. StatusOK'
    BY <1>2, <1>5, <2>1 DEF StatusOK, RoundStarts
  <2>3. ASSUME NEW x \in Objects, objects'[x].enable PROVE x \in excused.early \/ Listed(x)'
    <3>1. objects[x].enable
      BY <1>5, <2>3 DEF RoundStarts
    <3>2. CASE x \notin excused.early
      <4>1. PICK i \in DOMAIN list : list[i].object = x /\ list[i].type = 1
        BY <1>1, <2>1, <3>1, <3>2 DEF EnabledListed, Listed1
      <4> QED BY <1>5, <3>1, <4>1 DEF RoundStarts, Listed
    <3> QED BY <3>2
  <2>4. \A x \in Objects : objects'[x].status = "Enabled" => objects'[x].enable
    BY <1>1, <1>5 DEF EnabledListed, RoundStarts
  <2>5. EnabledListed'
    BY <1>2, <2>1, <2>3, <2>4 DEF EnabledListed
  <2> QED BY <2>2, <2>5, PolledParts
<1> QED BY <1>3, <1>4, <1>5, RoundEffect

\* A new node has no type: its object is excused unless the samplings run.
LEMMA EnablePolled ==
  ASSUME Shapes, Polled, NEW x \in Objects, SetEnable(x) \/ SetEnableAgain(x)
  PROVE  Polled'
<1>1. StatusOK /\ EnabledListed /\ WellMade(objects) /\ HasFields(excused, {"early", "freed", "slip"})
  BY PolledParts DEF Shapes
<1>2. session /\ ~released /\ UNCHANGED <<released, status, session>>
  BY <1>1 DEF SetEnable, SetEnableAgain, Setting, StatusOK
<1>3. StatusOK'
  BY <1>1, <1>2 DEF StatusOK
<1>4. objects'[x].enable = TRUE /\ \A y \in Objects : y # x => objects'[y] = objects[y]
  BY <1>1, SetEffect
<1>5. Starts' = Starts /\ (Starts => status # "RUNNING")
  BY <1>2 DEF Starts
<1>6. CASE SetEnable(x)
  <2>1. excused'.early = IF status = "RUNNING" THEN excused.early ELSE excused.early \cup {x}
    BY <1>1, <1>6 DEF SetEnable, HasFields
  <2>2. (\A y : (Listed(y) => Listed(y)') /\ (Listed1(y) => Listed1(y)')) /\ Listed(x)'
    BY <1>6, EnableEffect DEF Listed, Listed1
  <2>3. Starts => \A i \in DOMAIN list' : list'[i].type = 1 \/ list'[i].object \in excused'.early
    BY <1>1, <1>5, <1>6, <2>1, EnableEffect DEF EnabledListed
  <2>4. EnabledListed'
    BY <1>1, <1>2, <1>4, <1>5, <2>1, <2>2, <2>3 DEF EnabledListed
  <2> QED BY <1>3, <2>4, PolledParts
<1>7. CASE SetEnableAgain(x)
  <2>1. /\ excused'.early = IF Listed(x) THEN excused.early ELSE excused.early \cup {x}
        /\ UNCHANGED list
    BY <1>1, <1>7 DEF SetEnableAgain, HasFields
  <2>2. \A y : (Listed(y) = Listed(y)') /\ (Listed1(y) = Listed1(y)')
    BY <2>1 DEF Listed, Listed1
  <2>3. Starts /\ Listed(x) => Listed1(x) \/ x \in excused.early
    BY <1>1 DEF EnabledListed, Listed, Listed1
  <2>4. EnabledListed'
    BY <1>1, <1>2, <1>4, <1>5, <2>1, <2>2, <2>3 DEF EnabledListed
  <2> QED BY <1>3, <2>4, PolledParts
<1> QED BY <1>6, <1>7

LEMMA DisablePolled ==
  ASSUME Shapes, Polled, NEW x \in Objects, SetDisable(x)
  PROVE  Polled'
<1>1. StatusOK /\ EnabledListed /\ WellMade(objects) /\ HasFields(excused, {"early", "freed", "slip"})
  BY PolledParts DEF Shapes
<1>2. session /\ ~released /\ UNCHANGED <<released, status, session>>
  BY <1>1 DEF SetDisable, Setting, StatusOK
<1>3. StatusOK'
  BY <1>1, <1>2 DEF StatusOK
<1>4. objects'[x].enable = FALSE /\ objects'[x].status = "Disabled" /\ \A y \in Objects : y # x => objects'[y] = objects[y]
  BY <1>1, SetEffect
<1>5. Starts' = Starts /\ excused'.early = excused.early
  BY <1>1, <1>2 DEF Starts, SetDisable, HasFields
<1>6. \A y : y # x => (Listed(y) => Listed(y)') /\ (Listed1(y) => Listed1(y)')
  BY DisableEffect DEF Listed, Listed1
<1>7. Starts => \A i \in DOMAIN list' : list'[i].type = 1 \/ list'[i].object \in excused.early
  BY <1>1, DisableEffect DEF EnabledListed
<1>8. EnabledListed'
  BY <1>1, <1>2, <1>4, <1>5, <1>6, <1>7 DEF EnabledListed
<1> QED BY <1>3, <1>8, PolledParts

\* A restart fills the list with all the objects again.
LEMMA RestartPolled == Shapes /\ Polled /\ Restart => Polled'
<1> SUFFICES ASSUME Shapes, Polled, Restart PROVE Polled'
  OBVIOUS
<1>1. StatusOK /\ EnabledListed /\ nodes \in Nat
  BY PolledParts DEF Shapes
<1>2. /\ session /\ ~released /\ UNCHANGED <<objects, released, session, excused>> /\ list' = _filled(nodes)
      /\ status' = IF status = "RUNNING" THEN "STARTING" ELSE status
  BY <1>1 DEF Restart, Setting, StatusOK
<1>3. StatusOK' /\ status' # "RUNNING"
  BY <1>1, <1>2 DEF StatusOK
<1>4. (\A i \in DOMAIN list' : list'[i].type = 1) /\ \A x \in Objects : Listed1(x)'
  BY <1>1, <1>2, FilledEffect DEF Listed1
<1>5. EnabledListed'
  BY <1>1, <1>2, <1>3, <1>4 DEF EnabledListed
<1> QED BY <1>3, <1>5, PolledParts

\* A poll keeps the nodes, and gives them a type only while the samplings run.
LEMMA DeliverPolled == Shapes /\ Polled /\ PollDeliver => Polled'
<1> SUFFICES ASSUME Shapes, Polled, PollDeliver PROVE Polled'
  OBVIOUS
<1>1. StatusOK /\ EnabledListed /\ WellMade(objects)
  BY PolledParts DEF Shapes
<1>2. UNCHANGED <<released, status, session, excused>>
  BY DEF PollDeliver
<1>3. AllSame(objects, objects') \/ UNCHANGED objects
  BY <1>1, ProcessedSame DEF PollDeliver
<1>4. CASE status # "RUNNING"
  BY <1>1, <1>2, <1>3, <1>4, PolledSame, DeliverEffect DEF StatusOK
<1>5. CASE status = "RUNNING"
  <2>1. ~released /\ StatusOK'
    BY <1>1, <1>2, <1>5 DEF StatusOK
  <2>2. ~Starts' /\ \A x : Listed(x) => Listed(x)'
    BY <1>2, <1>5, DeliverEffect DEF Starts, Listed
  <2>3. \A x \in Objects : /\ objects'[x].enable = objects[x].enable
                           /\ objects'[x].status = "Enabled" => objects[x].status = "Enabled" \/ objects[x].enable
    BY <1>3 DEF AllSame, Same
  <2>4. EnabledListed'
    BY <1>1, <1>2, <1>5, <2>2, <2>3 DEF EnabledListed
  <2> QED BY <2>1, <2>4, PolledParts
<1> QED BY <1>4, <1>5

\* Nothing that is polled changes when the status does.
LEMMA StatusPolled ==
  ASSUME Shapes, Polled, PollEnter \/ PollLeave \/ Release
  PROVE  Polled'
<1>1. StatusOK /\ EnabledListed /\ WellMade(objects) /\ IsSeq(pending)
  BY PolledParts DEF Shapes
<1>2. CASE PollEnter
  <2>1. /\ UNCHANGED <<objects, released, list, session, excused>>
        /\ status' = IF status = "INITIAL" THEN "STARTING" ELSE status
    BY <1>2, EnterEffect
  <2>2. StatusOK' /\ Starts' = Starts
    BY <1>1, <2>1 DEF StatusOK, Starts
  <2>3. \A x : (Listed(x) = Listed(x)') /\ (Listed1(x) = Listed1(x)')
    BY <2>1 DEF Listed, Listed1
  <2>4. EnabledListed'
    BY <1>1, <2>1, <2>2, <2>3 DEF EnabledListed
  <2> QED BY <2>2, <2>4, PolledParts
<1>3. CASE PollLeave
  <2>1. /\ UNCHANGED <<released, list, session, excused>> /\ AllSame(objects, objects')
        /\ status' = IF status = "EXITING" THEN "INITIAL" ELSE status
    BY <1>1, <1>3, UnlockEffect DEF PollLeave
  <2>2. CASE status # "EXITING"
    BY <1>1, <2>1, <2>2, PolledSame DEF StatusOK
  <2>3. CASE status = "EXITING"
    <3>1. StatusOK' /\ ~Starts' /\ status' # "RUNNING"
      BY <1>1, <2>1, <2>3 DEF StatusOK, Starts
    <3>2. \A x \in Objects : objects'[x].status = "Enabled" => objects'[x].enable
      BY <1>1, <2>1 DEF EnabledListed, AllSame, Same
    <3> QED BY <3>1, <3>2, PolledParts DEF EnabledListed
  <2> QED BY <2>2, <2>3
<1>4. CASE Release
  <2>1. /\ released' = TRUE /\ status' = "EXITING" /\ list' = <<>> /\ ~session' /\ UNCHANGED objects
    BY <1>4 DEF Release
  <2>2. StatusOK' /\ ~Starts' /\ status' # "RUNNING"
    BY <2>1 DEF StatusOK, Starts
  <2> QED BY <1>1, <2>1, <2>2, PolledParts DEF EnabledListed
<1> QED BY <1>2, <1>3, <1>4

\* What is enabled stays in the list, or is excused.
LEMMA PolledStep == Shapes /\ Polled /\ [Next]_vars => Polled'
<1> SUFFICES ASSUME Shapes, Polled, [Next]_vars PROVE Polled'
  OBVIOUS
<1> USE DEF device
<1>0. HasFields(poll, PollFields) /\ WellMade(objects) /\ IsSeq(pending) /\ IsSeq(list)
  BY DEF Shapes
<1>p. released => ~session
  BY DEF Polled
<1>1. CASE PollStart
  BY <1>p, <1>1, PolledSame DEF PollStart
<1>2. CASE PollEnter
  BY <1>2, StatusPolled
<1>3. CASE PollSleep
  BY <1>p, <1>0, <1>3, PolledSame, UnlockEffect DEF PollSleep
<1>4. CASE PollRound
  BY <1>4, RoundPolled
<1>5. CASE PollUnlock
  BY <1>p, <1>0, <1>5, PolledSame, UnlockEffect DEF PollUnlock
<1>6. CASE PollFetch
  BY <1>p, <1>6, PolledSame, FetchEffect
<1>7. CASE PollPlan
  BY <1>p, <1>7, PolledSame, FetchEffect
<1>8. CASE PollWake
  BY <1>p, <1>8, PolledSame DEF PollWake
<1>9. CASE PollLock
  BY <1>p, <1>9, PolledSame DEF PollLock
<1>10. CASE PollDeliver
  BY <1>10, DeliverPolled
<1>11. CASE PollLeave
  BY <1>11, StatusPolled
<1>12. CASE SessionOpens
  BY <1>12, PolledSame DEF SessionOpens
<1>13. CASE SessionCloses
  BY <1>p, <1>0, <1>13, PolledSame, UnlockEffect DEF SessionCloses
<1>14. CASE Restart
  BY <1>14, RestartPolled
<1>15. ASSUME NEW x \in Objects, SetEnable(x) PROVE Polled'
  BY <1>15, EnablePolled
<1>16. ASSUME NEW x \in Objects, SetEnableAgain(x) PROVE Polled'
  BY <1>16, EnablePolled
<1>17. ASSUME NEW x \in Objects, SetDisable(x) PROVE Polled'
  BY <1>17, DisablePolled
<1>18. ASSUME NEW x \in Objects, SetOther(x) PROVE Polled'
  <2>1. AllSame(objects, objects')
    <3>1. WellMade(objects) /\ \A y \in Objects : HasFields(objects[y], Fields)
      BY <1>0 DEF WellMade
    <3> QED BY <1>0, <1>18, <3>1, SetEffect DEF AllSame, Same, WellMade
  <2> QED BY <1>p, <1>18, <2>1, PolledSame DEF SetOther
<1>19. CASE SourceReads
  BY <1>p, <1>19, PolledSame DEF SourceReads
<1>20. CASE SourceNotifies
  BY <1>p, <1>20, PolledSame, NotifyEffect
<1>21. CASE DeviceReady
  BY <1>p, <1>21, PolledSame DEF DeviceReady
<1>22. CASE Tick
  BY <1>p, <1>22, PolledSame DEF Tick
<1>23. CASE Release
  BY <1>23, StatusPolled
<1>24. CASE UNCHANGED vars
  BY <1>p, <1>24, PolledSame DEF vars
<1> QED BY <1>1, <1>2, <1>3, <1>4, <1>5, <1>6, <1>7, <1>8, <1>9, <1>10, <1>11, <1>12, <1>13, <1>14,
     <1>15, <1>16, <1>17, <1>18, <1>19, <1>20, <1>21, <1>22, <1>23, <1>24, NextSplit

-----------------------------------------------------------------------------
(* The theorems *)

LEMMA OwnsInit == Init => OwnsInv /\ Polled
<1> SUFFICES ASSUME Init PROVE OwnsInv /\ Polled
  OBVIOUS
<1>1. Shapes
  BY ShapesInit
<1>2. /\ list = _filled(0) /\ status = "INITIAL" /\ released = FALSE /\ dm = NoOne /\ mutex = NoOne
      /\ session = FALSE /\ leaving = FALSE /\ objects \in [Objects -> Kinds]
  BY DEF Init
<1>3. poll.at = "start" /\ poll.node = NoNode /\ NoNode.id = 0
  BY DEF Init, Off, NoNode, Node
<1>4. /\ DOMAIN list = 1..Cardinality(Objects) /\ Cardinality(Objects) \in Nat
      /\ \A i \in 1..Cardinality(Objects) : list[i].id = 0 + i /\ list[i].type = 1
      /\ \A x \in Objects : \E i \in 1..Cardinality(Objects) : list[i].object = x
  BY <1>2, FilledEffect
<1>5. Turns
  BY <1>2, <1>3 DEF Turns, At
<1>6. Locks
  BY <1>2, <1>3 DEF Locks, NoOne, Acs
<1>7. Numbers
  BY <1>3, <1>4 DEF Numbers
<1>8. Kept
  BY <1>3 DEF Kept
<1>9. \A x \in Objects : objects[x].status # "Enabled"
  BY <1>2, StatisticsAssumption DEF NewObject
<1>10. Polled
  BY <1>2, <1>4, <1>9 DEF Polled, Starts
<1> QED BY <1>1, <1>5, <1>6, <1>7, <1>8, <1>10 DEF OwnsInv

LEMMA OwnsKept == Spec => [](OwnsInv /\ Polled)
<1>1. OwnsInv /\ Polled /\ [Next]_vars => (OwnsInv /\ Polled)'
  BY ShapesStep, TurnsStep, LocksStep, NumbersStep, KeptStep, PolledStep DEF OwnsInv
<1> QED BY <1>1, OwnsInit, PTL DEF Spec

\* The polling thread (_runPolling) uses statsToPoll under _pollingMutex and the parameters
\* under their lock, and the node it keeps while both are released is still allocated when it
\* comes back to it, unless a restart came meanwhile or the object of the node was disabled.
THEOREM PollingOwnsAlways == Spec => []PollingOwns
<1>1. OwnsInv => PollingOwns
  BY DEF OwnsInv, PollingOwns, Turns, Locks, Kept, At, Shapes
<1> QED BY <1>1, OwnsKept, PTL

\* An object whose Status is Enabled is enabled, and it is polled unless it was enabled while
\* the samplings were starting: a reading that comes late (processSampleData) does not enable
\* again what a setting has disabled, nor does a restart lose what was enabled.
THEOREM EnabledIsPolledAlways == Spec => []EnabledIsPolled
<1>1. Polled => EnabledIsPolled
  BY DEF Polled, EnabledIsPolled
<1> QED BY <1>1, OwnsKept, PTL
=============================================================================
