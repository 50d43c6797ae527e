--------------------------- MODULE TransfersProofs ---------------------------
(***************************************************************************)
(* Proofs about the transfers, for any commands of the ACS, any answers of *)
(* the file servers, any number of stops and other disturbances and any    *)
(* length of time.                                                         *)
(***************************************************************************)
EXTENDS Transfers, FiniteSetTheorems, SequenceTheorems, TLAPS

-----------------------------------------------------------------------------
(* Numbers and sequences *)

\* A set of numbers that is not empty has a least element, the one First names.  Were there
\* none, taking 1 away would put the numbers not below some element up to a given one in
\* place of themselves, and leave out the given one.
LEMMA FirstIsLeast ==
  ASSUME NEW T \in SUBSET Nat, T # {}
  PROVE  First(T) \in T /\ \A j \in T : First(T) <= j
<1>1. PICK t \in T : TRUE
  OBVIOUS
<1> DEFINE U == {n \in 0 .. t : \E y \in T : y <= n}
           down == [n \in U |-> n - 1]
<1>2. SUFFICES ASSUME \A x \in T : \E y \in T : y < x PROVE FALSE
  <2>1. CASE \E x \in T : \A y \in T : x <= y
    BY <2>1 DEF First
  <2>2. CASE \A x \in T : \E y \in T : ~(x <= y)
    <3>1. \A x, y \in T : ~(x <= y) => y < x
      OBVIOUS
    <3> QED BY <2>2, <3>1, <1>2
  <2> QED BY <2>1, <2>2
<1>3. \A n \in U : n - 1 \in U
  <2>1. SUFFICES ASSUME NEW n \in U PROVE n - 1 \in U
    OBVIOUS
  <2>2. PICK y \in T : y <= n
    OBVIOUS
  <2>3. PICK z \in T : z < y
    BY <1>2
  <2> QED BY <2>2, <2>3
<1>4. down \in [U -> U] /\ \A m, n \in U : down[m] = down[n] => m = n
  BY <1>3
<1>5. down \in Injection(U, U)
  BY <1>4 DEF Injection, IsInjective
<1>6. IsFiniteSet(U)
  <2>1. IsFiniteSet(0 .. t) /\ U \in SUBSET (0 .. t)
    BY <1>1, FS_Interval
  <2> QED BY <2>1, FS_Subset
<1>7. down \in Surjection(U, U)
  BY <1>5, <1>6, FS_Injection
<1>8. t \in U
  BY <1>1
<1>9. PICK n \in U : down[n] = t
  BY <1>7, <1>8 DEF Surjection
<1> QED BY <1>9

\* Induction, on the set of the numbers that have a property.
LEMMA Induction ==
  ASSUME NEW S, 0 \in S, \A n \in Nat : n \in S => n + 1 \in S
  PROVE  Nat \subseteq S
<1> DEFINE T == {n \in Nat : n \notin S}
<1>1. SUFFICES ASSUME T # {} PROVE FALSE
  OBVIOUS
<1>2. First(T) \in T /\ \A j \in T : First(T) <= j
  BY <1>1, FirstIsLeast
<1>3. PICK m \in Nat : First(T) = m + 1
  BY <1>2
<1>4. m \in S
  BY <1>2, <1>3
<1> QED BY <1>2, <1>3, <1>4

\* What an insertion into a sequence gives.
LEMMA Inserted ==
  ASSUME NEW S, NEW s \in Seq(S), NEW e \in S, NEW at \in 1 .. Len(s) + 1
  PROVE  /\ InsertAt(s, at, e) \in Seq(S)
         /\ Len(InsertAt(s, at, e)) = Len(s) + 1
         /\ \A i \in 1 .. Len(s) + 1 :
              InsertAt(s, at, e)[i] = IF i < at THEN s[i] ELSE IF i = at THEN e ELSE s[i - 1]
<1> DEFINE a == SubSeq(s, 1, at - 1)
           b == SubSeq(s, at, Len(s))
<1>1. Len(s) \in Nat /\ at \in Int /\ \A i \in 1 .. Len(s) : s[i] \in S
  OBVIOUS
<1>2. /\ a \in Seq(S) /\ Len(a) = at - 1
      /\ \A i \in 1 .. at - 1 : a[i] = s[i]
  BY <1>1, SubSeqProperties
<1>3. /\ b \in Seq(S) /\ Len(b) = Len(s) - at + 1
      /\ \A i \in 1 .. Len(s) - at + 1 : b[i] = s[at + i - 1]
  BY <1>1, SubSeqProperties
<1>4. <<e>> \in Seq(S) /\ Len(<<e>>) = 1 /\ <<e>>[1] = e
  OBVIOUS
<1> DEFINE ae == a \o <<e>>
<1> HIDE DEF a, b
<1>5. /\ ae \in Seq(S) /\ Len(ae) = at
      /\ \A i \in 1 .. at : ae[i] = IF i < at THEN s[i] ELSE e
  BY <1>1, <1>2, <1>4, ConcatProperties
<1> HIDE DEF ae
<1>6. /\ ae \o b \in Seq(S) /\ Len(ae \o b) = Len(s) + 1
      /\ \A i \in 1 .. Len(s) + 1 : (ae \o b)[i] = IF i <= at THEN ae[i] ELSE b[i - at]
  <2>1. /\ ae \o b \in Seq(S) /\ Len(ae \o b) = Len(ae) + Len(b)
        /\ \A i \in 1 .. Len(ae) + Len(b) : (ae \o b)[i] = IF i <= Len(ae) THEN ae[i] ELSE b[i - Len(ae)]
    BY <1>3, <1>5, ConcatProperties
  <2>2. Len(ae) = at /\ Len(ae) + Len(b) = Len(s) + 1
    BY <1>1, <1>3, <1>5
  <2> QED BY <2>1, <2>2
<1>7. \A i \in 1 .. Len(s) + 1 : (ae \o b)[i] = IF i < at THEN s[i] ELSE IF i = at THEN e ELSE s[i - 1]
  <2>1. SUFFICES ASSUME NEW i \in 1 .. Len(s) + 1
                 PROVE (ae \o b)[i] = IF i < at THEN s[i] ELSE IF i = at THEN e ELSE s[i - 1]
    OBVIOUS
  <2>2. CASE i <= at
    BY <1>1, <1>5, <1>6, <2>2
  <2>3. CASE ~(i <= at)
    <3>1. i - at \in 1 .. Len(s) - at + 1 /\ at + (i - at) - 1 = i - 1
      BY <1>1, <2>3
    <3>2. b[i - at] = s[i - 1]
      BY <1>3, <3>1
    <3> QED BY <1>1, <1>6, <2>3, <3>2
  <2> QED BY <2>2, <2>3
<1> QED BY <1>6, <1>7 DEF InsertAt, a, b, ae

\* What a removal gives.
LEMMA Removed ==
  ASSUME NEW S, NEW s \in Seq(S), NEW at \in 1 .. Len(s)
  PROVE  /\ RemoveAt(s, at) \in Seq(S)
         /\ Len(RemoveAt(s, at)) = Len(s) - 1
         /\ \A i \in 1 .. Len(s) - 1 : RemoveAt(s, at)[i] = IF i < at THEN s[i] ELSE s[i + 1]
<1> DEFINE a == SubSeq(s, 1, at - 1)
           b == SubSeq(s, at + 1, Len(s))
<1>1. Len(s) \in Nat /\ at \in Int /\ \A i \in 1 .. Len(s) : s[i] \in S
  OBVIOUS
<1>2. /\ a \in Seq(S) /\ Len(a) = at - 1
      /\ \A i \in 1 .. at - 1 : a[i] = s[i]
  BY <1>1, SubSeqProperties
<1>3. /\ b \in Seq(S) /\ Len(b) = Len(s) - at
      /\ \A i \in 1 .. Len(s) - at : b[i] = s[at + i]
  BY <1>1, SubSeqProperties
<1> HIDE DEF a, b
<1>4. /\ a \o b \in Seq(S) /\ Len(a \o b) = Len(s) - 1
      /\ \A i \in 1 .. Len(s) - 1 : (a \o b)[i] = IF i <= at - 1 THEN a[i] ELSE b[i - (at - 1)]
  <2>1. /\ a \o b \in Seq(S) /\ Len(a \o b) = Len(a) + Len(b)
        /\ \A i \in 1 .. Len(a) + Len(b) : (a \o b)[i] = IF i <= Len(a) THEN a[i] ELSE b[i - Len(a)]
    BY <1>2, <1>3, ConcatProperties
  <2>2. Len(a) = at - 1 /\ Len(a) + Len(b) = Len(s) - 1
    BY <1>1, <1>2, <1>3
  <2> QED BY <2>1, <2>2
<1>5. \A i \in 1 .. Len(s) - 1 : (a \o b)[i] = IF i < at THEN s[i] ELSE s[i + 1]
  <2>1. SUFFICES ASSUME NEW i \in 1 .. Len(s) - 1 PROVE (a \o b)[i] = IF i < at THEN s[i] ELSE s[i + 1]
    OBVIOUS
  <2>2. CASE i < at
    BY <1>1, <1>2, <1>4, <2>2
  <2>3. CASE ~(i < at)
    <3>1. i - (at - 1) \in 1 .. Len(s) - at /\ at + (i - (at - 1)) = i + 1
      BY <1>1, <2>3
    <3>2. b[i - (at - 1)] = s[i + 1]
      BY <1>3, <3>1
    <3> QED BY <1>1, <1>4, <2>3, <3>2
  <2> QED BY <2>2, <2>3
<1> QED BY <1>4, <1>5 DEF RemoveAt, a, b

-----------------------------------------------------------------------------
(* The control data *)

KeySet == {Keys[i] : i \in DOMAIN Keys} \cup {Null}
Urls == {q.url : q \in Requests} \cup {"http"}
Faults == Actions \cup {TransferResult(download, url, reply) : download \in BOOLEAN, url \in Urls, reply \in Replies}

Entries ==
  [id : Nat, download : BOOLEAN, key : KeySet, url : Urls, due : Nat, state : 1..3, fault : Faults, named : BOOLEAN]
Informs == [time : Nat \ {0}, key : KeySet \ {Null}]
Codes ==
  {"1 BOOT", "M Reboot", "M ScheduleInform", "3 SCHEDULED", "7 TRANSFER COMPLETE", "9 REQUEST DOWNLOAD",
   "10 AUTONOMOUS TRANSFER COMPLETE", "X event"}
Events == Codes \X (KeySet \cup {ResetKey})
Controls ==
  [queue : Seq(Entries), lastId : Nat, downloads : Seq({"Firmware"}), scheduled : Seq(Informs),
   reboot : Seq((KeySet \ {Null}) \cup {ResetKey}), events : SUBSET Events]

Records(c) == {c.queue[i] : i \in DOMAIN c.queue}

\* A transfer has an identifier of its own.
Distinct(c) ==
  \A i \in DOMAIN c.queue :
    c.queue[i].id \in 1..c.lastId /\ \A j \in DOMAIN c.queue : c.queue[i].id = c.queue[j].id => i = j

\* The transfers and the ScheduleInform commands are in the order of their times.
InOrder(c) ==
  /\ \A i, j \in DOMAIN c.queue : i <= j => c.queue[i].due <= c.queue[j].due
  /\ \A i, j \in DOMAIN c.scheduled : i <= j => c.scheduled[i].time <= c.scheduled[j].time
  /\ \A i \in DOMAIN c.queue : c.queue[i].state = _NOT_YET_STARTED => c.queue[i].due > 0

Valid(c) == c \in Controls /\ Distinct(c) /\ InOrder(c)

\* What a change of the queue leaves alone.
Rest(c) == <<c.scheduled, c.reboot, c.events>>

\* The keys that are not those of transfers.
OtherKeys(c) == RebootKeys(c) \cup EventKeys(c.events) \cup {c.scheduled[i].key : i \in DOMAIN c.scheduled}

\* What the operations do to the transfers, whatever their order.
Completed(R, id, fault) == {IF r.id = id THEN [r EXCEPT !.state = _COMPLETED, !.fault = fault] ELSE r : r \in R}
Started(R, time) == {IF r.state = _NOT_YET_STARTED /\ r.due <= time THEN [r EXCEPT !.state = _IN_PROGRESS] ELSE r : r \in R}
Without(R, id) == {r \in R : r.id # id}

LEMMA QueueOf ==
  ASSUME NEW c, Valid(c)
  PROVE  /\ c.queue \in Seq(Entries) /\ Len(c.queue) \in Nat /\ DOMAIN c.queue = 1 .. Len(c.queue)
         /\ \A i \in 1 .. Len(c.queue) : c.queue[i] \in Entries /\ c.queue[i].due \in Nat
         /\ c.lastId \in Nat
<1>1. c.queue \in Seq(Entries) /\ c.lastId \in Nat
  BY DEF Valid, Controls
<1> DEFINE q == c.queue
<1> HIDE DEF q
<1>2. q \in Seq(Entries)
  BY <1>1 DEF q
<1>3. /\ Len(q) \in Nat /\ DOMAIN q = 1 .. Len(q)
      /\ \A i \in 1 .. Len(q) : q[i] \in Entries
  BY <1>2
<1>4. \A e \in Entries : e.due \in Nat
  BY DEF Entries
<1> QED BY <1>1, <1>3, <1>4 DEF q

LEMMA RecordsOf ==
  ASSUME NEW c, Valid(c)
  PROVE  /\ Records(c) \subseteq Entries
         /\ \A r \in Records(c) : r.id \in 1 .. c.lastId
         /\ \A r, s \in Records(c) : r.id = s.id => r = s
         /\ \A r \in Records(c) : r.state = _NOT_YET_STARTED => r.due > 0
BY QueueOf DEF Valid, Distinct, InOrder, Records

\* The place of a request that waits: behind those that are not due later, before the others.
LEMMA PlaceFound ==
  ASSUME NEW q \in Seq(Entries), NEW due \in Nat, NEW from \in Nat \ {0},
         \A i, j \in 1 .. Len(q) : i <= j => q[i].due <= q[j].due
  PROVE  /\ PlaceOf(q, due, from) \in 1 .. Len(q) + 1
         /\ \A i \in from .. Len(q) : i < PlaceOf(q, due, from) => q[i].due <= due
         /\ \A i \in from .. Len(q) : i >= PlaceOf(q, due, from) => q[i].due > due
<1> DEFINE later == {i \in from .. Len(q) : q[i].due > due}
<1>1. Len(q) \in Nat /\ \A i \in 1 .. Len(q) : q[i].due \in Nat
  <2>1. \A e \in Entries : e.due \in Nat
    BY DEF Entries
  <2> QED BY <2>1
<1>2. CASE later = {}
  <2>1. PlaceOf(q, due, from) = Len(q) + 1
    BY <1>2 DEF PlaceOf
  <2>2. \A i \in from .. Len(q) : ~(q[i].due > due) /\ q[i].due \in Nat
    BY <1>1, <1>2
  <2> QED BY <1>1, <2>1, <2>2
<1>3. CASE later # {}
  <2>1. PlaceOf(q, due, from) = First(later)
    BY <1>3 DEF PlaceOf
  <2>2. later \in SUBSET Nat
    BY <1>1
  <2>3. First(later) \in later /\ \A j \in later : First(later) <= j
    BY <1>3, <2>2, FirstIsLeast
  <2> HIDE DEF later
  <2>4. First(later) \in from .. Len(q) /\ q[First(later)].due > due
    BY <2>3 DEF later
  <2>5. \A i \in from .. Len(q) : i < First(later) => q[i].due <= due
    <3>1. SUFFICES ASSUME NEW i \in from .. Len(q), i < First(later) PROVE q[i].due <= due
      OBVIOUS
    <3>2. i \notin later
      BY <1>1, <2>3, <2>4, <3>1
    <3> QED BY <1>1, <3>2 DEF later
  <2>6. \A i \in from .. Len(q) : i >= First(later) => q[i].due > due
    <3>1. SUFFICES ASSUME NEW i \in from .. Len(q), i >= First(later) PROVE q[i].due > due
      OBVIOUS
    <3>2. q[First(later)].due <= q[i].due /\ q[First(later)].due \in Nat /\ q[i].due \in Nat
      BY <1>1, <2>4, <3>1
    <3> QED BY <2>4, <3>2
  <2> QED BY <1>1, <2>1, <2>4, <2>5, <2>6
<1> QED BY <1>2, <1>3

\* The elements p of a queue are those of q and e, put at its place with a new identifier.
Insertion(p, q, n, at, e, last) ==
  /\ n \in Nat /\ last \in Nat /\ at \in 1 .. n + 1
  /\ \A i \in 1 .. n + 1 : p[i] = IF i < at THEN q[i] ELSE IF i = at THEN e ELSE q[i - 1]
  /\ \A i \in 1 .. n : q[i].due \in Nat /\ q[i].id \in 1 .. last
  /\ \A i, j \in 1 .. n : (q[i].id = q[j].id => i = j) /\ (i <= j => q[i].due <= q[j].due)
  /\ e.due \in Nat /\ e.id = last + 1
  /\ \A i \in 1 .. n : (i < at => q[i].due <= e.due) /\ (i >= at => q[i].due > e.due)

LEMMA InsertedInOrder ==
  ASSUME NEW p, NEW q, NEW n, NEW at, NEW e, NEW last, Insertion(p, q, n, at, e, last)
  PROVE  /\ {p[i] : i \in 1 .. n + 1} = {q[i] : i \in 1 .. n} \cup {e}
         /\ \A i \in 1 .. n + 1 : p[i].id \in 1 .. last + 1
         /\ \A i, j \in 1 .. n + 1 : (p[i].id = p[j].id => i = j) /\ (i <= j => p[i].due <= p[j].due)
<1> USE DEF Insertion
<1> DEFINE old(i) == IF i < at THEN i ELSE i - 1
           Others == (1 .. n + 1) \ {at}
<1>1. /\ \A i \in Others : old(i) \in 1 .. n /\ i \in 1 .. n + 1 /\ p[i] = q[old(i)]
      /\ p[at] = e /\ at \in 1 .. n + 1
  OBVIOUS
<1>2. /\ \A i, j \in Others : (old(i) = old(j) => i = j) /\ (i <= j => old(i) <= old(j))
      /\ \A i \in Others : (i <= at => old(i) < at) /\ (at <= i => old(i) >= at)
  OBVIOUS
<1>3. \A k \in 1 .. n : \E i \in Others : old(i) = k
  <2>1. SUFFICES ASSUME NEW k \in 1 .. n PROVE \E i \in Others : old(i) = k
    OBVIOUS
  <2>2. CASE k < at
    <3>1. k \in Others /\ old(k) = k
      BY <2>2
    <3> QED BY <3>1
  <2>3. CASE ~(k < at)
    <3>1. k + 1 \in Others /\ old(k + 1) = k
      BY <2>3
    <3> QED BY <3>1
  <2> QED BY <2>2, <2>3
<1>4. \A i \in 1 .. n + 1 : i = at \/ i \in Others
  OBVIOUS
<1> HIDE DEF old, Others
<1>5. {p[i] : i \in 1 .. n + 1} = {q[i] : i \in 1 .. n} \cup {e}
  <2>1. \A i \in 1 .. n + 1 : p[i] \in {q[k] : k \in 1 .. n} \cup {e}
    BY <1>1, <1>4
  <2>2. \A k \in 1 .. n : q[k] \in {p[i] : i \in 1 .. n + 1}
    BY <1>1, <1>3
  <2>3. e \in {p[i] : i \in 1 .. n + 1}
    BY <1>1
  <2> QED BY <2>1, <2>2, <2>3
<1>6. \A i \in 1 .. n + 1 : p[i].id \in 1 .. last + 1
  BY <1>1, <1>4
<1>7. SUFFICES ASSUME NEW i \in 1 .. n + 1, NEW j \in 1 .. n + 1
               PROVE (p[i].id = p[j].id => i = j) /\ (i <= j => p[i].due <= p[j].due)
  BY <1>5, <1>6
<1>8. \A k \in 1 .. n : q[k].id # e.id
  OBVIOUS
<1>9. CASE i \in Others /\ j \in Others
  <2>1. old(i) \in 1 .. n /\ old(j) \in 1 .. n /\ p[i] = q[old(i)] /\ p[j] = q[old(j)]
    BY <1>1, <1>9
  <2>2. (q[old(i)].id = q[old(j)].id => old(i) = old(j)) /\ (old(i) <= old(j) => q[old(i)].due <= q[old(j)].due)
    BY <2>1
  <2> QED BY <1>2, <1>9, <2>1, <2>2
<1>10. CASE i \in Others /\ j = at
  <2>1. old(i) \in 1 .. n /\ p[i] = q[old(i)] /\ p[j] = e
    BY <1>1, <1>10
  <2>2. i <= j => q[old(i)].due <= e.due
    BY <1>2, <1>10, <2>1
  <2> QED BY <1>8, <2>1, <2>2
<1>11. CASE i = at /\ j \in Others
  <2>1. old(j) \in 1 .. n /\ p[j] = q[old(j)] /\ p[i] = e
    BY <1>1, <1>11
  <2>2. i <= j => q[old(j)].due > e.due
    BY <1>2, <1>11, <2>1
  <2>3. q[old(j)].due \in Nat
    BY <2>1
  <2> QED BY <1>8, <2>1, <2>2, <2>3
<1>12. CASE i = at /\ j = at
  BY <1>1, <1>12
<1> QED BY <1>4, <1>9, <1>10, <1>11, <1>12

\* DM_ENG_ParameterData_insertTransferRequest
LEMMA InsertEffect ==
  ASSUME NEW c, Valid(c), NEW tr \in Entries, tr.state = _NOT_YET_STARTED => tr.due > 0
  PROVE  /\ Valid(insertTransferRequest(c, tr))
         /\ Records(insertTransferRequest(c, tr)) = Records(c) \cup {[tr EXCEPT !.id = c.lastId + 1]}
         /\ insertTransferRequest(c, tr).lastId = c.lastId + 1
         /\ Rest(insertTransferRequest(c, tr)) = Rest(c)
<1>1. PICK q, n, last : q = c.queue /\ n = Len(q) /\ last = c.lastId
  OBVIOUS
<1>2. /\ q \in Seq(Entries) /\ n \in Nat /\ DOMAIN q = 1 .. n /\ last \in Nat
      /\ \A i \in 1 .. n : q[i] \in Entries /\ q[i].due \in Nat
  BY <1>1, QueueOf
<1>3. /\ \A i \in 1 .. n : q[i].id \in 1 .. last
      /\ \A i, j \in 1 .. n : (q[i].id = q[j].id => i = j) /\ (i <= j => q[i].due <= q[j].due)
      /\ \A i \in 1 .. n : q[i].state = _NOT_YET_STARTED => q[i].due > 0
  BY <1>1, <1>2 DEF Valid, Distinct, InOrder
<1>4. PICK e : e = [tr EXCEPT !.id = last + 1]
  OBVIOUS
<1>5. /\ e \in Entries /\ e.id = last + 1 /\ e.due = tr.due /\ e.due \in Nat
      /\ (e.state = _NOT_YET_STARTED => e.due > 0)
  <2>1. last + 1 \in Nat
    BY <1>2
  <2>2. e \in Entries /\ e.id = last + 1 /\ e.due = tr.due /\ e.state = tr.state
    BY <1>4, <2>1 DEF Entries
  <2>3. tr.due \in Nat
    BY DEF Entries
  <2> QED BY <2>2, <2>3
<1>6. PICK at : at = PlaceOf(q, tr.due, 1)
  OBVIOUS
<1>7. /\ at \in 1 .. n + 1
      /\ \A i \in 1 .. n : (i < at => q[i].due <= e.due) /\ (i >= at => q[i].due > e.due)
  <2>1. n = Len(q) /\ 1 \in Nat \ {0}
    BY <1>1
  <2> QED BY <1>2, <1>3, <1>5, <1>6, <2>1, PlaceFound
<1>8. PICK p : p = InsertAt(q, at, e)
  OBVIOUS
<1>9. /\ p \in Seq(Entries) /\ Len(p) = n + 1
      /\ \A i \in 1 .. n + 1 : p[i] = IF i < at THEN q[i] ELSE IF i = at THEN e ELSE q[i - 1]
  <2>1. at \in 1 .. Len(q) + 1 /\ e \in Entries /\ q \in Seq(Entries)
    BY <1>1, <1>2, <1>5, <1>7
  <2>2. /\ InsertAt(q, at, e) \in Seq(Entries)
        /\ Len(InsertAt(q, at, e)) = Len(q) + 1
        /\ \A i \in 1 .. Len(q) + 1 :
             InsertAt(q, at, e)[i] = IF i < at THEN q[i] ELSE IF i = at THEN e ELSE q[i - 1]
    BY <2>1, Inserted
  <2> QED BY <1>1, <1>8, <2>2
<1>10. /\ {p[i] : i \in 1 .. n + 1} = {q[i] : i \in 1 .. n} \cup {e}
       /\ \A i \in 1 .. n + 1 : p[i].id \in 1 .. last + 1
       /\ \A i, j \in 1 .. n + 1 : (p[i].id = p[j].id => i = j) /\ (i <= j => p[i].due <= p[j].due)
  <2>1. Insertion(p, q, n, at, e, last)
    BY <1>2, <1>3, <1>5, <1>7, <1>9 DEF Insertion
  <2> QED BY <2>1, InsertedInOrder
<1>11. PICK d : d = insertTransferRequest(c, tr)
  OBVIOUS
<1>12. c \in Controls /\ d = [c EXCEPT !.queue = p, !.lastId = last + 1]
  BY <1>1, <1>4, <1>6, <1>8, <1>11 DEF insertTransferRequest, Valid, Controls
<1>13. d \in Controls /\ d.queue = p /\ d.lastId = last + 1 /\ Rest(d) = Rest(c) /\ d.scheduled = c.scheduled
  <2>1. p \in Seq(Entries) /\ last + 1 \in Nat
    BY <1>2, <1>9
  <2> QED BY <1>12, <2>1 DEF Controls, Rest
<1>14. DOMAIN p = 1 .. n + 1
  BY <1>9
<1>15. Records(d) = Records(c) \cup {e}
  <2>1. Records(d) = {p[i] : i \in 1 .. n + 1} /\ Records(c) = {q[i] : i \in 1 .. n}
    BY <1>1, <1>2, <1>13, <1>14 DEF Records
  <2> QED BY <1>10, <2>1
<1>16. Distinct(d)
  BY <1>10, <1>13, <1>14 DEF Distinct
<1>17. InOrder(d)
  <2>1. \A i \in 1 .. n + 1 : p[i] = e \/ \E k \in 1 .. n : p[i] = q[k]
    BY <1>10
  <2>2. \A i \in 1 .. n + 1 : p[i].state = _NOT_YET_STARTED => p[i].due > 0
    BY <1>3, <1>5, <2>1
  <2> QED BY <1>10, <1>13, <1>14, <2>2 DEF InOrder, Valid
<1> QED BY <1>1, <1>4, <1>11, <1>13, <1>15, <1>16, <1>17 DEF Valid

\* The elements p of a queue are those of q but one.
Removal(p, q, n, at) ==
  /\ n \in Nat /\ at \in 1 .. n
  /\ \A i \in 1 .. n - 1 : p[i] = IF i < at THEN q[i] ELSE q[i + 1]
  /\ \A i \in 1 .. n : q[i].due \in Nat
  /\ \A i, j \in 1 .. n : (q[i].id = q[j].id => i = j) /\ (i <= j => q[i].due <= q[j].due)

LEMMA RemovedInOrder ==
  ASSUME NEW p, NEW q, NEW n, NEW at, Removal(p, q, n, at)
  PROVE  /\ {p[i] : i \in 1 .. n - 1} = {q[i] : i \in 1 .. n} \ {q[at]}
         /\ \A i, j \in 1 .. n - 1 : (p[i].id = p[j].id => i = j) /\ (i <= j => p[i].due <= p[j].due)
<1> USE DEF Removal
<1> DEFINE new(i) == IF i < at THEN i ELSE i + 1
<1>1. \A i \in 1 .. n - 1 : new(i) \in 1 .. n /\ new(i) # at /\ p[i] = q[new(i)]
  OBVIOUS
<1>2. \A i, j \in 1 .. n - 1 : (new(i) = new(j) => i = j) /\ (i <= j => new(i) <= new(j))
  OBVIOUS
<1>3. \A k \in 1 .. n : k # at => \E i \in 1 .. n - 1 : new(i) = k
  <2>1. SUFFICES ASSUME NEW k \in 1 .. n, k # at PROVE \E i \in 1 .. n - 1 : new(i) = k
    OBVIOUS
  <2>2. CASE k < at
    <3>1. k \in 1 .. n - 1 /\ new(k) = k
      BY <2>2
    <3> QED BY <3>1
  <2>3. CASE ~(k < at)
    <3>1. k - 1 \in 1 .. n - 1 /\ new(k - 1) = k
      BY <2>1, <2>3
    <3> QED BY <3>1
  <2> QED BY <2>2, <2>3
<1> HIDE DEF new
<1>4. \A k \in 1 .. n : k # at => q[k] # q[at]
  OBVIOUS
<1>5. {p[i] : i \in 1 .. n - 1} = {q[i] : i \in 1 .. n} \ {q[at]}
  <2>1. \A i \in 1 .. n - 1 : p[i] \in {q[k] : k \in 1 .. n} \ {q[at]}
    BY <1>1, <1>4
  <2>2. \A k \in 1 .. n : q[k] # q[at] => q[k] \in {p[i] : i \in 1 .. n - 1}
    BY <1>1, <1>3
  <2> QED BY <2>1, <2>2
<1>6. SUFFICES ASSUME NEW i \in 1 .. n - 1, NEW j \in 1 .. n - 1
               PROVE (p[i].id = p[j].id => i = j) /\ (i <= j => p[i].due <= p[j].due)
  BY <1>5
<1>7. new(i) \in 1 .. n /\ new(j) \in 1 .. n /\ p[i] = q[new(i)] /\ p[j] = q[new(j)]
  BY <1>1
<1>8. (q[new(i)].id = q[new(j)].id => new(i) = new(j)) /\ (new(i) <= new(j) => q[new(i)].due <= q[new(j)].due)
  BY <1>7
<1> QED BY <1>2, <1>7, <1>8

\* The queue, position by position.
LEMMA Positions ==
  ASSUME NEW c, Valid(c)
  PROVE  \E q, n :
           /\ q = c.queue /\ n = Len(q) /\ q \in Seq(Entries) /\ n \in Nat /\ DOMAIN q = 1 .. n
           /\ \A i \in 1 .. n : q[i] \in Entries /\ q[i].due \in Nat /\ q[i].id \in 1 .. c.lastId
           /\ \A i, j \in 1 .. n : (q[i].id = q[j].id => i = j) /\ (i <= j => q[i].due <= q[j].due)
           /\ \A i \in 1 .. n : q[i].state = _NOT_YET_STARTED => q[i].due > 0
           /\ Records(c) = {q[i] : i \in 1 .. n}
<1>1. PICK q, n : q = c.queue /\ n = Len(q)
  OBVIOUS
<1>2. /\ q \in Seq(Entries) /\ n \in Nat /\ DOMAIN q = 1 .. n
      /\ \A i \in 1 .. n : q[i] \in Entries /\ q[i].due \in Nat
  BY <1>1, QueueOf
<1>3. /\ \A i \in 1 .. n : q[i].id \in 1 .. c.lastId
      /\ \A i, j \in 1 .. n : (q[i].id = q[j].id => i = j) /\ (i <= j => q[i].due <= q[j].due)
      /\ \A i \in 1 .. n : q[i].state = _NOT_YET_STARTED => q[i].due > 0
  BY <1>1, <1>2 DEF Valid, Distinct, InOrder
<1>4. Records(c) = {q[i] : i \in 1 .. n}
  BY <1>1, <1>2 DEF Records
<1> QED BY SMTT(30), <1>1, <1>2, <1>3, <1>4

\* The place of a request, when there is one.
LEMMA PlaceOfRequest ==
  ASSUME NEW c, Valid(c), NEW id
  PROVE  IF Places(c, id) = {} THEN \A r \in Records(c) : r.id # id
         ELSE /\ First(Places(c, id)) \in DOMAIN c.queue
              /\ c.queue[First(Places(c, id))].id = id
              /\ Places(c, id) = {First(Places(c, id))}
<1>1. PICK q, n : /\ q = c.queue /\ n \in Nat /\ DOMAIN q = 1 .. n
                  /\ \A i, j \in 1 .. n : q[i].id = q[j].id => i = j
                  /\ Records(c) = {q[i] : i \in 1 .. n}
  BY Positions
<1>2. Places(c, id) = {i \in 1 .. n : q[i].id = id}
  BY <1>1 DEF Places
<1>3. CASE Places(c, id) = {}
  BY <1>1, <1>2, <1>3
<1>4. CASE Places(c, id) # {}
  <2>1. First(Places(c, id)) \in Places(c, id)
    <3>1. Places(c, id) \in SUBSET Nat
      BY <1>1, <1>2
    <3> QED BY <1>4, <3>1, FirstIsLeast
  <2> QED BY ZenonT(40), <1>1, <1>2, <1>4, <2>1
<1> QED BY <1>3, <1>4

\* DM_ENG_ParameterData_removeTransferRequest
LEMMA RemoveEffect ==
  ASSUME NEW c, Valid(c), NEW id
  PROVE  /\ Valid(removeTransferRequest(c, id))
         /\ Records(removeTransferRequest(c, id)) = Without(Records(c), id)
         /\ removeTransferRequest(c, id).lastId = c.lastId
         /\ Rest(removeTransferRequest(c, id)) = Rest(c)
<1>1. CASE Places(c, id) = {}
  <2>1. removeTransferRequest(c, id) = c
    BY <1>1 DEF removeTransferRequest
  <2>2. Records(c) = Without(Records(c), id)
    BY <1>1, PlaceOfRequest DEF Without
  <2> QED BY <2>1, <2>2
<1>2. CASE Places(c, id) # {}
  <2>1. PICK q, n :
           /\ q = c.queue /\ n = Len(q) /\ q \in Seq(Entries) /\ n \in Nat /\ DOMAIN q = 1 .. n
           /\ \A i \in 1 .. n : q[i] \in Entries /\ q[i].due \in Nat /\ q[i].id \in 1 .. c.lastId
           /\ \A i, j \in 1 .. n : (q[i].id = q[j].id => i = j) /\ (i <= j => q[i].due <= q[j].due)
           /\ \A i \in 1 .. n : q[i].state = _NOT_YET_STARTED => q[i].due > 0
           /\ Records(c) = {q[i] : i \in 1 .. n}
    BY Positions
  <2>2. PICK at : at = First(Places(c, id))
    OBVIOUS
  <2>3. at \in 1 .. n /\ q[at].id = id
    BY <1>2, <2>1, <2>2, PlaceOfRequest
  <2>4. PICK p : p = RemoveAt(q, at)
    OBVIOUS
  <2>5. /\ p \in Seq(Entries) /\ Len(p) = n - 1
        /\ \A i \in 1 .. n - 1 : p[i] = IF i < at THEN q[i] ELSE q[i + 1]
    <3>1. at \in 1 .. Len(q) /\ q \in Seq(Entries)
      BY <2>1, <2>3
    <3>2. /\ RemoveAt(q, at) \in Seq(Entries) /\ Len(RemoveAt(q, at)) = Len(q) - 1
          /\ \A i \in 1 .. Len(q) - 1 : RemoveAt(q, at)[i] = IF i < at THEN q[i] ELSE q[i + 1]
      BY <3>1, Removed
    <3> QED BY <2>1, <2>4, <3>2
  <2>6. /\ {p[i] : i \in 1 .. n - 1} = {q[i] : i \in 1 .. n} \ {q[at]}
        /\ \A i, j \in 1 .. n - 1 : (p[i].id = p[j].id => i = j) /\ (i <= j => p[i].due <= p[j].due)
    <3>1. Removal(p, q, n, at)
      BY <2>1, <2>3, <2>5 DEF Removal
    <3> QED BY <3>1, RemovedInOrder
  <2>7. PICK d : d = removeTransferRequest(c, id)
    OBVIOUS
  <2>8. c \in Controls /\ d = [c EXCEPT !.queue = p]
    BY <1>2, <2>1, <2>2, <2>4, <2>7 DEF removeTransferRequest, Valid
  <2>9. d \in Controls /\ d.queue = p /\ d.lastId = c.lastId /\ Rest(d) = Rest(c) /\ d.scheduled = c.scheduled
    <3>1. p \in Seq(Entries)
      BY <2>5
    <3> QED BY <2>8, <3>1 DEF Controls, Rest
  <2>10. DOMAIN p = 1 .. n - 1
    BY <2>5
  <2>11. Records(d) = {q[i] : i \in 1 .. n} \ {q[at]}
    <3>1. Records(d) = {p[i] : i \in 1 .. n - 1}
      BY <2>9, <2>10 DEF Records
    <3> QED BY <2>6, <3>1
  <2>12. \A i \in 1 .. n - 1 : \E k \in 1 .. n : p[i] = q[k]
    BY <2>6
  <2>13. Distinct(d)
    <3>1. \A i \in 1 .. n - 1 : p[i].id \in 1 .. c.lastId
      BY <2>1, <2>12
    <3> QED BY <2>6, <2>9, <2>10, <3>1 DEF Distinct
  <2>14. InOrder(d)
    <3>1. \A i \in 1 .. n - 1 : p[i].state = _NOT_YET_STARTED => p[i].due > 0
      BY <2>1, <2>12
    <3> QED BY <2>6, <2>9, <2>10, <3>1 DEF InOrder, Valid
  <2>15. Records(d) = Without(Records(c), id)
    <3>1. \A i \in 1 .. n : q[i].id = id <=> q[i] = q[at]
      BY <2>1, <2>3
    <3> QED BY <2>1, <2>11, <3>1 DEF Without
  <2> QED BY <2>7, <2>9, <2>13, <2>14, <2>15 DEF Valid
<1> QED BY <1>1, <1>2

\* A change of some requests that touches neither identifiers nor times.
LEMMA ChangedInPlace ==
  ASSUME NEW c, Valid(c), NEW d, NEW p,
         d.queue = p, d.lastId = c.lastId, d.scheduled = c.scheduled, d \in Controls,
         DOMAIN p = DOMAIN c.queue,
         \A i \in DOMAIN p : /\ p[i].id = c.queue[i].id /\ p[i].due = c.queue[i].due
                             /\ p[i].state = _NOT_YET_STARTED => c.queue[i].state = _NOT_YET_STARTED
  PROVE  Valid(d)
<1>1. Distinct(d)
  BY DEF Distinct, Valid
<1>2. InOrder(d)
  BY DEF InOrder, Valid
<1> QED BY <1>1, <1>2 DEF Valid

\* DM_ENG_ParameterData_updateTransferRequest, when a transfer has ended.
LEMMA UpdateEffect ==
  ASSUME NEW c, Valid(c), NEW id, NEW fault \in Faults
  PROVE  /\ Valid(updateTransferRequest(c, id, _COMPLETED, fault))
         /\ Records(updateTransferRequest(c, id, _COMPLETED, fault)) = Completed(Records(c), id, fault)
         /\ updateTransferRequest(c, id, _COMPLETED, fault).lastId = c.lastId
         /\ Rest(updateTransferRequest(c, id, _COMPLETED, fault)) = Rest(c)
<1>1. CASE Places(c, id) = {}
  <2>1. updateTransferRequest(c, id, _COMPLETED, fault) = c
    BY <1>1 DEF updateTransferRequest
  <2>2. \A r \in Records(c) : r.id # id
    BY <1>1, PlaceOfRequest
  <2>3. Records(c) = Completed(Records(c), id, fault)
    BY <2>2 DEF Completed
  <2> QED BY <2>1, <2>3
<1>2. CASE Places(c, id) # {}
  <2>1. PICK q, n :
           /\ q = c.queue /\ n = Len(q) /\ q \in Seq(Entries) /\ n \in Nat /\ DOMAIN q = 1 .. n
           /\ \A i \in 1 .. n : q[i] \in Entries /\ q[i].due \in Nat /\ q[i].id \in 1 .. c.lastId
           /\ \A i, j \in 1 .. n : (q[i].id = q[j].id => i = j) /\ (i <= j => q[i].due <= q[j].due)
           /\ \A i \in 1 .. n : q[i].state = _NOT_YET_STARTED => q[i].due > 0
           /\ Records(c) = {q[i] : i \in 1 .. n}
    BY Positions
  <2>2. PICK at : at = First(Places(c, id))
    OBVIOUS
  <2>3. at \in 1 .. n /\ q[at].id = id
    BY <1>2, <2>1, <2>2, PlaceOfRequest
  <2>4. PICK e : e = [q[at] EXCEPT !.state = _COMPLETED, !.fault = fault]
    OBVIOUS
  <2>5. e \in Entries /\ e.id = q[at].id /\ e.due = q[at].due /\ e.state = _COMPLETED
    <3>1. q[at] \in Entries /\ _COMPLETED \in 1 .. 3
      BY <2>1, <2>3 DEF _COMPLETED
    <3> QED BY <2>4, <3>1 DEF Entries
  <2>6. PICK p : p = [q EXCEPT ![at] = e]
    OBVIOUS
  <2>7. p \in Seq(Entries) /\ DOMAIN p = 1 .. n /\ \A i \in 1 .. n : p[i] = IF i = at THEN e ELSE q[i]
    <3>1. p \in Seq(Entries)
      BY <2>1, <2>3, <2>5, <2>6, ExceptSeq
    <3>2. p \in [1 .. n -> Entries]
      BY <2>1, <2>3, <2>5, <2>6
    <3> QED BY <2>1, <2>6, <3>1, <3>2
  <2>8. PICK d : d = updateTransferRequest(c, id, _COMPLETED, fault)
    OBVIOUS
  <2>9. d = [c EXCEPT !.queue = p]
    <3>1. d = [c EXCEPT !.queue = [c.queue EXCEPT ![at] = [c.queue[at] EXCEPT !.state = _COMPLETED, !.fault = fault]]]
      BY <1>2, <2>2, <2>8 DEF updateTransferRequest, Valid, Controls
    <3> QED BY <2>1, <2>4, <2>6, <3>1
  <2>10. d \in Controls /\ d.queue = p /\ d.lastId = c.lastId /\ Rest(d) = Rest(c) /\ d.scheduled = c.scheduled
    <3>1. p \in Seq(Entries) /\ c \in Controls
      BY <2>7 DEF Valid
    <3> QED BY <2>9, <3>1 DEF Controls, Rest
  <2>11. Valid(d)
    <3>1. _COMPLETED # _NOT_YET_STARTED
      BY DEF _COMPLETED, _NOT_YET_STARTED
    <3>2. \A i \in DOMAIN p : /\ p[i].id = c.queue[i].id /\ p[i].due = c.queue[i].due
                              /\ p[i].state = _NOT_YET_STARTED => c.queue[i].state = _NOT_YET_STARTED
      BY <2>1, <2>5, <2>7, <3>1
    <3>3. DOMAIN p = DOMAIN c.queue
      BY <2>1, <2>7
    <3> QED BY <2>10, <3>2, <3>3, ChangedInPlace
  <2>12. Records(d) = Completed(Records(c), id, fault)
    <3>1. \A i \in 1 .. n : q[i].id = id <=> i = at
      BY <2>1, <2>3
    <3>2. \A i \in 1 .. n : p[i] = IF q[i].id = id THEN [q[i] EXCEPT !.state = _COMPLETED, !.fault = fault] ELSE q[i]
      BY <2>4, <2>7, <3>1
    <3>3. Records(d) = {p[i] : i \in 1 .. n}
      BY <2>7, <2>10 DEF Records
    <3>4. Completed(Records(c), id, fault)
            = {IF q[i].id = id THEN [q[i] EXCEPT !.state = _COMPLETED, !.fault = fault] ELSE q[i] : i \in 1 .. n}
      <4>1. Records(c) = {q[i] : i \in 1 .. n}
        BY <2>1
      <4> QED BY ZenonT(40), <4>1, Zenon DEF Completed
    <3> QED BY ZenonT(40), <3>2, <3>3, <3>4
  <2> QED BY <2>8, <2>10, <2>11, <2>12
<1> QED BY <1>1, <1>2

\* The events of the transfers and of the requests have no command key.
LEMMA KeylessEvents ==
  ASSUME NEW c
  PROVE  TransferEvents(c) \subseteq Codes \X {Null} /\ Event("9 REQUEST DOWNLOAD") \in Codes \X {Null}
<1>1. \A code \in Codes : Event(code) \in Codes \X {Null}
  BY DEF Event
<1>2. "9 REQUEST DOWNLOAD" \in Codes /\ "10 AUTONOMOUS TRANSFER COMPLETE" \in Codes /\ "7 TRANSFER COMPLETE" \in Codes
  BY Zenon DEF Codes
<1>3. \A x \in TransferEvents(c) : x = Event("10 AUTONOMOUS TRANSFER COMPLETE") \/ x = Event("7 TRANSFER COMPLETE")
  BY Zenon DEF TransferEvents
<1> QED BY <1>1, <1>2, <1>3, Zenon

\* The head of the loop starts the transfers whose time has come; the events it adds have
\* no command key.
LEMMA StartEffect ==
  ASSUME NEW c, Valid(c), NEW time \in Nat
  PROVE  /\ Valid(manageTransfers(c, time))
         /\ Records(manageTransfers(c, time)) = Started(Records(c), time)
         /\ manageTransfers(c, time).lastId = c.lastId
         /\ OtherKeys(manageTransfers(c, time)) = OtherKeys(c)
<1>1. PICK q, n :
         /\ q = c.queue /\ n = Len(q) /\ q \in Seq(Entries) /\ n \in Nat /\ DOMAIN q = 1 .. n
         /\ \A i \in 1 .. n : q[i] \in Entries /\ q[i].due \in Nat /\ q[i].id \in 1 .. c.lastId
         /\ \A i, j \in 1 .. n : (q[i].id = q[j].id => i = j) /\ (i <= j => q[i].due <= q[j].due)
         /\ \A i \in 1 .. n : q[i].state = _NOT_YET_STARTED => q[i].due > 0
         /\ Records(c) = {q[i] : i \in 1 .. n}
  BY Positions
<1> DEFINE begun(r) == IF r.state = _NOT_YET_STARTED /\ r.due <= time THEN [r EXCEPT !.state = _IN_PROGRESS] ELSE r
<1>2. \A r \in Entries : /\ begun(r) \in Entries /\ begun(r).id = r.id /\ begun(r).due = r.due
                         /\ begun(r).state = _NOT_YET_STARTED => r.state = _NOT_YET_STARTED
  BY DEF Entries, _IN_PROGRESS, _NOT_YET_STARTED
<1>3. PICK p : p = [i \in 1 .. n |-> begun(q[i])]
  OBVIOUS
<1>4. DueTransfers(c, time) = {i \in 1 .. n : q[i].state = _NOT_YET_STARTED /\ q[i].due <= time}
  BY <1>1 DEF DueTransfers
<1>5. p = [i \in DOMAIN q |-> IF i \in DueTransfers(c, time) THEN [q[i] EXCEPT !.state = _IN_PROGRESS] ELSE q[i]]
  BY <1>1, <1>3, <1>4
<1>6. Started(Records(c), time) = {begun(r) : r \in Records(c)}
  BY DEF Started
<1> HIDE DEF begun
<1>7. p \in Seq(Entries) /\ DOMAIN p = 1 .. n /\ \A i \in 1 .. n : p[i] = begun(q[i])
  <2>1. \A i \in 1 .. n : begun(q[i]) \in Entries
    BY <1>1, <1>2
  <2>2. [i \in 1 .. n |-> begun(q[i])] \in Seq(Entries)
    BY <1>1, <2>1, IsASeq
  <2> QED BY <1>3, <2>2
<1>8. PICK added : added = TransferEvents(c) \cup (IF c.downloads = <<>> THEN {} ELSE {Event("9 REQUEST DOWNLOAD")})
  OBVIOUS
<1>9. added \subseteq Codes \X {Null}
  BY <1>8, KeylessEvents
<1>10. PICK d : d = manageTransfers(c, time)
  OBVIOUS
<1>11. d = [c EXCEPT !.queue = p, !.events = c.events \cup added] /\ c \in Controls
  <2>1. c \in Controls
    BY DEF Valid
  <2>2. d = [c EXCEPT !.queue = [i \in DOMAIN c.queue |-> IF i \in DueTransfers(c, time) THEN [c.queue[i] EXCEPT !.state = _IN_PROGRESS] ELSE c.queue[i]],
                      !.events = c.events \cup TransferEvents(c) \cup (IF c.downloads = <<>> THEN {} ELSE {Event("9 REQUEST DOWNLOAD")})]
    BY <1>10, <2>1 DEF manageTransfers, Controls
  <2>3. c.events \cup TransferEvents(c) \cup (IF c.downloads = <<>> THEN {} ELSE {Event("9 REQUEST DOWNLOAD")}) = c.events \cup added
    BY <1>8
  <2> QED BY <1>1, <1>5, <2>1, <2>2, <2>3
<1>12. /\ d \in Controls /\ d.queue = p /\ d.lastId = c.lastId /\ d.scheduled = c.scheduled /\ d.reboot = c.reboot
       /\ d.events = c.events \cup added
  <2>1. added \subseteq Events
    BY <1>9 DEF Events, KeySet
  <2> QED BY <1>7, <1>11, <2>1 DEF Controls
<1>13. Valid(d)
  <2>1. \A i \in DOMAIN p : /\ p[i].id = c.queue[i].id /\ p[i].due = c.queue[i].due
                            /\ p[i].state = _NOT_YET_STARTED => c.queue[i].state = _NOT_YET_STARTED
    BY <1>1, <1>2, <1>7
  <2>2. DOMAIN p = DOMAIN c.queue
    BY <1>1, <1>7
  <2> QED BY <1>12, <2>1, <2>2, ChangedInPlace
<1>14. Records(d) = Started(Records(c), time)
  <2>1. Records(d) = {p[i] : i \in 1 .. n}
    BY <1>7, <1>12 DEF Records
  <2>2. Started(Records(c), time) = {begun(q[i]) : i \in 1 .. n}
    BY <1>1, <1>6
  <2> QED BY <1>7, <2>1, <2>2
<1>15. OtherKeys(d) = OtherKeys(c)
  <2>1. EventKeys(c.events \cup added) = EventKeys(c.events)
    BY <1>9 DEF EventKeys
  <2> QED BY <1>12, <2>1 DEF OtherKeys, RebootKeys
<1> QED BY <1>10, <1>12, <1>13, <1>14, <1>15

\* A request that is not due before the others is put at the end.
LEMMA AddedAtTheEnd ==
  ASSUME NEW q \in Seq(Entries), NEW tr \in Entries, \A i \in 1 .. Len(q) : q[i].due <= tr.due
  PROVE  addTransferRequest(q, tr) = Append(q, tr)
<1>1. Len(q) \in Nat
  OBVIOUS
<1>2. CASE q = <<>>
  BY <1>2 DEF addTransferRequest
<1>3. CASE q # <<>>
  <2>1. PICK at : at = PlaceOf(q, tr.due, 2)
    OBVIOUS
  <2>2. at = Len(q) + 1
    <3>1. \A e \in Entries : e.due \in Nat
      BY DEF Entries
    <3>2. \A i \in 2 .. Len(q) : i \in 1 .. Len(q) /\ q[i].due \in Nat
      BY <3>1
    <3>3. {i \in 2 .. Len(q) : q[i].due > tr.due} = {}
      BY <3>1, <3>2
    <3> QED BY <2>1, <3>3 DEF PlaceOf
  <2>3. PICK p : p = InsertAt(q, at, tr)
    OBVIOUS
  <2>4. /\ p \in Seq(Entries) /\ Len(p) = Len(q) + 1
        /\ \A i \in 1 .. Len(q) + 1 : p[i] = IF i < at THEN q[i] ELSE IF i = at THEN tr ELSE q[i - 1]
    <3>1. at \in 1 .. Len(q) + 1
      BY <1>1, <2>2
    <3> QED BY SMTT(30), <2>3, <3>1, Inserted
  <2>5. PICK r : r = Append(q, tr)
    OBVIOUS
  <2>6. /\ r \in Seq(Entries) /\ Len(r) = Len(q) + 1
        /\ \A i \in 1 .. Len(q) : r[i] = q[i]
        /\ r[Len(q) + 1] = tr
    BY <2>5, AppendProperties
  <2>7. \A i \in 1 .. Len(p) : p[i] = r[i]
    <3>1. SUFFICES ASSUME NEW i \in 1 .. Len(q) + 1 PROVE p[i] = r[i]
      BY <2>4
    <3>2. CASE i = Len(q) + 1
      BY <1>1, <2>2, <2>4, <2>6, <3>2
    <3>3. CASE i # Len(q) + 1
      <4>1. i \in 1 .. Len(q) /\ i < at
        BY <1>1, <2>2, <3>3
      <4> QED BY <2>4, <2>6, <4>1
    <3> QED BY <3>2, <3>3
  <2>8. p = r
    BY <2>4, <2>6, <2>7, SeqEqual
  <2> QED BY <1>3, <2>1, <2>3, <2>5, <2>8 DEF addTransferRequest
<1> QED BY <1>2, <1>3

\* The function that _readDmControl uses exists.
Reading(f, w, base, m) ==
  f = [n \in 0 .. m |-> IF n = 0 THEN base ELSE addNewTransferRequest(f[n - 1], w.queue[n])]

LEMMA ReadExists ==
  ASSUME NEW w, NEW base, NEW N \in Nat
  PROVE  \E f : Reading(f, w, base, N)
<1> USE DEF Reading
<1> DEFINE Upto(m, f) == Reading(f, w, base, m)
           S == {m \in Nat : \E f : Upto(m, f)}
<1>1. 0 \in S
  <2>1. Upto(0, [n \in 0 .. 0 |-> base])
    OBVIOUS
  <2> QED BY <2>1
<1>2. ASSUME NEW m \in Nat, m \in S PROVE m + 1 \in S
  <2>1. PICK f : Upto(m, f)
    BY <1>2
  <2> DEFINE g == [n \in 0 .. m + 1 |-> IF n \in 0 .. m THEN f[n] ELSE addNewTransferRequest(f[m], w.queue[m + 1])]
  <2>2. /\ DOMAIN f = 0 .. m
        /\ \A n \in 0 .. m : f[n] = IF n = 0 THEN base ELSE addNewTransferRequest(f[n - 1], w.queue[n])
    BY <2>1
  <2>3. \A n \in 0 .. m + 1 : g[n] = IF n = 0 THEN base ELSE addNewTransferRequest(g[n - 1], w.queue[n])
    <3>1. SUFFICES ASSUME NEW n \in 0 .. m + 1
                   PROVE g[n] = IF n = 0 THEN base ELSE addNewTransferRequest(g[n - 1], w.queue[n])
      OBVIOUS
    <3>2. CASE n = m + 1
      <4>1. n \notin 0 .. m /\ n # 0 /\ n - 1 = m /\ m \in 0 .. m /\ m \in 0 .. m + 1 /\ n \in 0 .. m + 1
        BY <3>2
      <4>2. g[n] = addNewTransferRequest(f[m], w.queue[m + 1]) /\ g[m] = f[m]
        BY <4>1
      <4> QED BY <3>2, <4>1, <4>2
    <3>3. CASE n # m + 1
      <4>1. n \in 0 .. m /\ (n # 0 => n - 1 \in 0 .. m /\ n - 1 \in 0 .. m + 1)
        BY <3>3
      <4>2. g[n] = f[n] /\ (n # 0 => g[n - 1] = f[n - 1])
        BY <4>1
      <4> QED BY <2>2, <4>1, <4>2
    <3> QED BY <3>2, <3>3
  <2>4. Upto(m + 1, g)
    <3>1. g = [n \in 0 .. m + 1 |-> g[n]]
      OBVIOUS
    <3> HIDE DEF g
    <3> QED BY <2>3, <3>1
  <2> HIDE DEF g, Upto
  <2> QED BY <2>4
<1>3. N \in S
  <2> HIDE DEF S
  <2> QED BY <1>1, <1>2, Induction
<1> HIDE DEF Reading
<1> QED BY <1>3

\* What is read is what was written: the queue in its order, and a last identifier that none
\* of its requests is beyond.
LEMMA ReadEffect ==
  ASSUME NEW w, Valid(w)
  PROVE  /\ Valid(_readDmControl(w))
         /\ Records(_readDmControl(w)) = Records(w)
         /\ Rest(_readDmControl(w)) = Rest(w)
<1>1. PICK q, N :
         /\ q = w.queue /\ N = Len(q) /\ q \in Seq(Entries) /\ N \in Nat /\ DOMAIN q = 1 .. N
         /\ \A i \in 1 .. N : q[i] \in Entries /\ q[i].due \in Nat /\ q[i].id \in 1 .. w.lastId
         /\ \A i, j \in 1 .. N : (q[i].id = q[j].id => i = j) /\ (i <= j => q[i].due <= q[j].due)
         /\ \A i \in 1 .. N : q[i].state = _NOT_YET_STARTED => q[i].due > 0
         /\ Records(w) = {q[i] : i \in 1 .. N}
  BY Positions
<1> DEFINE base == [w EXCEPT !.queue = <<>>, !.lastId = 0]
           f == CHOOSE f : f = [n \in 0 .. Len(w.queue) |->
                                  IF n = 0 THEN base ELSE addNewTransferRequest(f[n - 1], w.queue[n])]
<1>2. _readDmControl(w) = f[N]
  BY <1>1 DEF _readDmControl
<1>3. f = [n \in 0 .. N |-> IF n = 0 THEN base ELSE addNewTransferRequest(f[n - 1], q[n])]
  <2> HIDE DEF base
  <2>1. PICK g : Reading(g, w, base, N)
    BY <1>1, ReadExists
  <2> QED BY <1>1, <2>1 DEF Reading
<1>4. base \in Controls /\ base.queue = <<>> /\ base.lastId = 0 /\ Rest(base) = Rest(w)
  <2>1. w \in Controls /\ <<>> \in Seq(Entries) /\ 0 \in Nat
    BY DEF Valid
  <2> QED BY <2>1 DEF Controls, Rest
<1> HIDE DEF f, base
<1> DEFINE Read(n, c) == /\ c \in Controls /\ c.queue = SubSeq(q, 1, n) /\ Rest(c) = Rest(w)
                         /\ \A i \in 1 .. n : q[i].id <= c.lastId
           S == {n \in Nat : n <= N => Read(n, f[n])}
<1>5. 0 \in S
  <2>1. f[0] = base
    BY <1>1, <1>3
  <2>2. SubSeq(q, 1, 0) = <<>>
    BY SubSeqEmpty
  <2>3. Read(0, base)
    BY <1>4, <2>2
  <2> HIDE DEF Read
  <2> QED BY <2>1, <2>3
<1>6. ASSUME NEW n \in Nat, n \in S PROVE n + 1 \in S
  <2>1. SUFFICES ASSUME n + 1 <= N PROVE Read(n + 1, f[n + 1])
    OBVIOUS
  <2>2. PICK c : c = f[n]
    OBVIOUS
  <2>3. PICK d, tr, p : d = f[n + 1] /\ tr = q[n + 1] /\ p = SubSeq(q, 1, n)
    OBVIOUS
  <2>4. Read(n, c)
    BY <1>1, <1>6, <2>1, <2>2
  <2>5. d = addNewTransferRequest(c, tr)
    <3>1. n + 1 \in 0 .. N /\ n + 1 # 0 /\ (n + 1) - 1 = n
      BY <1>1, <2>1
    <3> QED BY <1>3, <2>2, <2>3, <3>1
  <2>6. n + 1 \in 1 .. N /\ tr \in Entries /\ tr.id \in Nat /\ \A i \in 1 .. n : i \in 1 .. N
    BY <1>1, <2>1, <2>3 DEF Entries
  <2>7. p \in Seq(Entries) /\ Len(p) = n /\ \A i \in 1 .. n : p[i] = q[i]
    <3>1. \A i \in 1 .. n : q[i] \in Entries
      BY <1>1, <2>6
    <3> QED BY <2>3, <3>1, SubSeqProperties
  <2>8. addTransferRequest(p, tr) = Append(p, tr)
    <3>1. \A i \in 1 .. Len(p) : p[i].due <= tr.due
      BY <1>1, <2>3, <2>6, <2>7
    <3> QED BY <2>6, <2>7, <3>1, AddedAtTheEnd
  <2>9. PICK r : r = Append(p, tr)
    OBVIOUS
  <2>10. r \in Seq(Entries) /\ r = SubSeq(q, 1, n + 1)
    <3>1. /\ r \in Seq(Entries) /\ Len(r) = n + 1 /\ r[n + 1] = tr
          /\ \A i \in 1 .. n : r[i] = p[i]
      BY <2>6, <2>7, <2>9, AppendProperties
    <3>2. PICK t : t = SubSeq(q, 1, n + 1)
      OBVIOUS
    <3>3. t \in Seq(Entries) /\ Len(t) = n + 1 /\ \A i \in 1 .. n + 1 : t[i] = q[i]
      <4>1. \A i \in 1 .. n + 1 : q[i] \in Entries
        BY <1>1, <2>1
      <4> QED BY <3>2, <4>1, SubSeqProperties
    <3>4. \A i \in 1 .. Len(r) : r[i] = t[i]
      <4>1. SUFFICES ASSUME NEW i \in 1 .. n + 1 PROVE r[i] = t[i]
        BY <3>1
      <4>2. i = n + 1 \/ i \in 1 .. n
        OBVIOUS
      <4> QED BY <2>3, <2>7, <3>1, <3>3, <4>2
    <3> QED BY <3>1, <3>2, <3>3, <3>4, SeqEqual
  <2>11. PICK last : last = IF tr.id > c.lastId THEN tr.id ELSE c.lastId
    OBVIOUS
  <2>12. last \in Nat /\ last >= tr.id /\ last >= c.lastId /\ c.lastId \in Nat
    <3>1. c.lastId \in Nat
      BY <2>4 DEF Controls
    <3> QED BY <2>6, <2>11, <3>1
  <2>13. d = [c EXCEPT !.queue = r, !.lastId = last] /\ c \in Controls
    <3>1. c \in Controls /\ c.queue = p
      BY <2>3, <2>4
    <3>2. d = [c EXCEPT !.queue = addTransferRequest(c.queue, tr), !.lastId = IF tr.id > c.lastId THEN tr.id ELSE c.lastId]
      BY <2>5, <3>1 DEF addNewTransferRequest, Controls
    <3> QED BY <2>8, <2>9, <2>11, <3>1, <3>2
  <2>14. d \in Controls /\ d.queue = r /\ d.lastId = last /\ Rest(d) = Rest(c)
    <3>1. r \in Seq(Entries) /\ last \in Nat
      BY <2>10, <2>12
    <3> QED BY <2>13, <3>1 DEF Controls, Rest
  <2>15. \A i \in 1 .. n + 1 : q[i].id <= last
    <3>1. SUFFICES ASSUME NEW i \in 1 .. n + 1 PROVE q[i].id <= last
      OBVIOUS
    <3>2. CASE i = n + 1
      BY <2>3, <2>12, <3>2
    <3>3. CASE i \in 1 .. n
      <4>1. q[i].id <= c.lastId /\ q[i].id \in Nat
        BY <1>1, <2>4, <2>6, <3>3
      <4> QED BY <2>12, <4>1
    <3> QED BY <3>2, <3>3
  <2> QED BY <2>3, <2>4, <2>10, <2>14, <2>15
<1>7. Read(N, f[N])
  <2>1. N \in S
    <3> HIDE DEF S
    <3> QED BY <1>1, <1>5, <1>6, Induction
  <2> QED BY <1>1, <2>1
<1>8. SubSeq(q, 1, N) = q
  <2>1. PICK t : t = SubSeq(q, 1, N)
    OBVIOUS
  <2>2. t \in Seq(Entries) /\ Len(t) = N /\ \A i \in 1 .. N : t[i] = q[i]
    BY <1>1, <2>1, SubSeqProperties
  <2>3. t = q
    BY <1>1, <2>2, SeqEqual
  <2> QED BY <2>1, <2>3
<1>9. PICK d : d = f[N]
  OBVIOUS
<1>10. /\ d \in Controls /\ d.queue = q /\ Rest(d) = Rest(w) /\ d.scheduled = w.scheduled
       /\ \A i \in 1 .. N : q[i].id <= d.lastId
  BY <1>7, <1>8, <1>9 DEF Rest
<1>11. Distinct(d)
  <2>1. d.lastId \in Nat
    BY <1>10 DEF Controls
  <2>2. \A i \in 1 .. N : q[i].id \in 1 .. d.lastId
    BY <1>1, <1>10, <2>1
  <2> QED BY <1>1, <1>10, <2>2 DEF Distinct
<1>12. InOrder(d)
  BY <1>1, <1>10 DEF InOrder, Valid
<1>13. Records(d) = Records(w)
  BY <1>1, <1>10 DEF Records
<1> QED BY <1>2, <1>9, <1>10, <1>11, <1>12, <1>13 DEF Valid

\* The ScheduleInform commands to carry out are the first ones.
LEMMA DueFirst ==
  ASSUME NEW c, Valid(c), NEW time \in Nat
  PROVE  \E k \in 0 .. Len(c.scheduled) : DueCommands(c, time) = 1 .. k
<1>1. PICK s, n : s = c.scheduled /\ n = Len(s) /\ n \in Nat /\ DOMAIN s = 1 .. n
  <2>1. c.scheduled \in Seq(Informs)
    BY DEF Valid, Controls
  <2> QED BY <2>1
<1> DEFINE due == {i \in 1 .. n : \A j \in 1 .. i : s[j].time <= time}
           T == (1 .. n) \ due
<1>2. DueCommands(c, time) = due
  BY <1>1 DEF DueCommands
<1>3. SUFFICES \E k \in 0 .. n : due = 1 .. k
  BY <1>1, <1>2
<1>4. CASE T = {}
  <2>1. due = 1 .. n
    BY <1>4
  <2>2. n \in 0 .. n
    BY <1>1
  <2> QED BY <2>1, <2>2
<1>5. CASE T # {}
  <2>1. First(T) \in T /\ \A j \in T : First(T) <= j
    <3>1. T \in SUBSET Nat
      BY <1>1
    <3> HIDE DEF T
    <3> QED BY <1>5, <3>1, FirstIsLeast
  <2>2. PICK m : m = First(T)
    OBVIOUS
  <2>3. m \in 1 .. n /\ m \notin due /\ \A j \in 1 .. n : j \notin due => m <= j
    BY <2>1, <2>2
  <2>4. \A i \in 1 .. n : i < m => i \in due
    <3> HIDE DEF due
    <3> QED BY <1>1, <2>3
  <2>5. \A i \in 1 .. n : i >= m => i \notin due
    <3>1. SUFFICES ASSUME NEW i \in 1 .. n, i >= m, i \in due PROVE FALSE
      OBVIOUS
    <3>2. \A j \in 1 .. m : j \in 1 .. i
      BY <2>3, <3>1
    <3> QED BY <2>3, <3>1, <3>2
  <2>6. due \subseteq 1 .. n
    OBVIOUS
  <2> HIDE DEF due
  <2>7. due = 1 .. (m - 1)
    <3>1. \A i : i \in due <=> i \in 1 .. n /\ i < m
      <4>1. \A i \in 1 .. n : i < m \/ i >= m
        BY <1>1, <2>3
      <4>2. \A i \in 1 .. n : ~(i < m /\ i >= m)
        BY <1>1, <2>3
      <4> QED BY <2>4, <2>5, <2>6, <4>1, <4>2, Zenon
    <3>2. \A i : i \in 1 .. (m - 1) <=> i \in 1 .. n /\ i < m
      BY <1>1, <2>3
    <3> QED BY <3>1, <3>2
  <2> QED BY <1>1, <2>3, <2>7
<1> QED BY <1>4, <1>5

LEMMA KeysOfCommands ==
  /\ Null \in KeySet /\ ResetKey \notin KeySet /\ Null # ResetKey
  /\ \A i \in DOMAIN Keys : Keys[i] \in KeySet \ {Null}
<1>1. Null # ResetKey
  BY DEF Null, ResetKey
<1> QED BY <1>1, TransfersAssumption DEF KeySet

\* A command carried out becomes an event with its key.
LEMMA ScheduledEffect ==
  ASSUME NEW c, Valid(c), NEW time \in Nat
  PROVE  /\ Valid(manageScheduled(c, time))
         /\ manageScheduled(c, time).queue = c.queue
         /\ manageScheduled(c, time).lastId = c.lastId
         /\ OtherKeys(manageScheduled(c, time)) = OtherKeys(c)
<1>1. PICK s, n, due, k :
         /\ s = c.scheduled /\ s \in Seq(Informs) /\ n = Len(s) /\ n \in Nat /\ DOMAIN s = 1 .. n
         /\ due = DueCommands(c, time) /\ k \in 0 .. n /\ due = 1 .. k
  <2>1. c.scheduled \in Seq(Informs)
    BY DEF Valid, Controls
  <2>2. PICK k \in 0 .. Len(c.scheduled) : DueCommands(c, time) = 1 .. k
    BY DueFirst
  <2>3. PICK s : s = c.scheduled
    OBVIOUS
  <2>4. Len(s) \in Nat /\ DOMAIN s = 1 .. Len(s)
    BY <2>1, <2>3
  <2> QED BY <2>1, <2>2, <2>3, <2>4
<1>2. Cardinality(due) = k
  <2>1. Cardinality(1 .. k) = IF 1 > k THEN 0 ELSE k - 1 + 1
    BY <1>1, FS_Interval
  <2> QED BY <1>1, <2>1
<1>3. \A i \in 1 .. n : s[i] \in Informs /\ s[i].key \in KeySet \ {Null} /\ s[i].time \in Nat
  <2>1. \A x \in Informs : x.key \in KeySet \ {Null} /\ x.time \in Nat
    BY DEF Informs
  <2> QED BY <1>1, <2>1
<1>4. \A i, j \in 1 .. n : i <= j => s[i].time <= s[j].time
  BY <1>1 DEF Valid, InOrder
<1>5. PICK p : p = SubSeq(s, k + 1, n)
  OBVIOUS
<1>6. p \in Seq(Informs) /\ DOMAIN p = 1 .. n - k /\ \A i \in 1 .. n - k : p[i] = s[k + i]
  <2>1. \A i \in k + 1 .. n : s[i] \in Informs
    BY <1>1, <1>3
  <2>2. /\ p \in Seq(Informs) /\ Len(p) = IF k + 1 <= n THEN n - (k + 1) + 1 ELSE 0
        /\ \A i \in 1 .. n - (k + 1) + 1 : p[i] = s[(k + 1) + i - 1]
    BY <1>1, <1>5, <2>1, SubSeqProperties
  <2>3. Len(p) = n - k /\ \A i \in 1 .. n - k : p[i] = s[k + i]
    BY <1>1, <2>2
  <2> QED BY <2>2, <2>3
<1> DEFINE code == "M ScheduleInform"
           informs == {<<code, s[i].key>> : i \in due} \cup (IF due = {} THEN {} ELSE {Event("3 SCHEDULED")})
<1>7. PICK d : d = manageScheduled(c, time)
  OBVIOUS
<1>8. PICK added : added = informs
  OBVIOUS
<1>9. d = [c EXCEPT !.scheduled = p, !.events = c.events \cup added] /\ c \in Controls
  <2>1. c \in Controls
    BY DEF Valid
  <2>2. d = [c EXCEPT !.scheduled = SubSeq(c.scheduled, Cardinality(due) + 1, Len(c.scheduled)),
                      !.events = c.events \cup {<<code, c.scheduled[i].key>> : i \in due}
                                          \cup (IF due = {} THEN {} ELSE {Event("3 SCHEDULED")})]
    BY <1>1, <1>7, <2>1, Zenon DEF manageScheduled
  <2> HIDE DEF code
  <2> DEFINE three == Event("3 SCHEDULED")
  <2> HIDE DEF three
  <2>3. c.events \cup {<<code, c.scheduled[i].key>> : i \in due} \cup (IF due = {} THEN {} ELSE {three}) = c.events \cup added
    <3>1. added = {<<code, s[i].key>> : i \in due} \cup (IF due = {} THEN {} ELSE {three})
      BY <1>8, Zenon DEF three
    <3> QED BY <1>1, <3>1
  <2>4. SubSeq(c.scheduled, Cardinality(due) + 1, Len(c.scheduled)) = p
    BY <1>1, <1>2, <1>5
  <2> QED BY <2>1, <2>2, <2>3, <2>4, Zenon DEF three
<1>10. code \in Codes /\ \A e \in {Event("3 SCHEDULED")} : e \in Codes \X {Null}
  <2>1. code \in Codes /\ "3 SCHEDULED" \in Codes
    BY Zenon DEF Codes
  <2>2. \A x \in Codes : Event(x) \in Codes \X {Null}
    BY DEF Event
  <2> QED BY <2>1, <2>2, Zenon
<1> DEFINE three == Event("3 SCHEDULED")
<1>11. \A e \in added : (\E i \in 1 .. k : e = <<code, s[i].key>>) \/ e = three
  <2> HIDE DEF code, three
  <2>1. added = {<<code, s[i].key>> : i \in due} \cup (IF due = {} THEN {} ELSE {three})
    BY <1>8, Zenon DEF three, code
  <2> QED BY <1>1, <2>1
<1>12. \A i \in 1 .. k : <<code, s[i].key>> \in added
  <2> HIDE DEF code, three
  <2>1. added = {<<code, s[i].key>> : i \in due} \cup (IF due = {} THEN {} ELSE {three})
    BY <1>8, Zenon DEF three, code
  <2> QED BY <1>1, <2>1
<1> HIDE DEF code, informs, three
<1>13. code \in Codes /\ three \in Codes \X {Null}
  BY <1>10, Zenon DEF three
<1>14. added \subseteq Events
  <2>1. \A i \in 1 .. k : i \in 1 .. n
    BY <1>1
  <2>2. \A i \in 1 .. k : <<code, s[i].key>> \in Events
    BY <1>3, <1>13, <2>1 DEF Events
  <2>3. three \in Events
    BY <1>13, KeysOfCommands DEF Events
  <2> QED BY <1>11, <2>2, <2>3
<1>15. /\ d \in Controls /\ d.queue = c.queue /\ d.lastId = c.lastId /\ d.reboot = c.reboot
       /\ d.scheduled = p /\ d.events = c.events \cup added
  BY <1>6, <1>9, <1>14 DEF Controls
<1>16. EventKeys(d.events) = EventKeys(c.events) \cup {s[i].key : i \in 1 .. k}
  <2>1. EventKeys(d.events) = EventKeys(c.events) \cup EventKeys(added)
    BY <1>15 DEF EventKeys
  <2>2. EventKeys(added) = {s[i].key : i \in 1 .. k}
    <3>1. \A i \in 1 .. k : s[i].key \notin {Null, ResetKey} /\ <<code, s[i].key>>[2] = s[i].key
      BY <1>1, <1>3, KeysOfCommands
    <3>2. three[2] = Null
      BY <1>13
    <3>3. \A e \in added : e[2] \notin {Null, ResetKey} => e[2] \in {s[i].key : i \in 1 .. k}
      BY <1>11, <3>1, <3>2
    <3>4. \A i \in 1 .. k : s[i].key \in {e[2] : e \in added}
      BY <1>12, <3>1
    <3> QED BY <3>1, <3>3, <3>4 DEF EventKeys
  <2> QED BY <2>1, <2>2
<1>17. {s[i].key : i \in 1 .. n} = {s[i].key : i \in 1 .. k} \cup {p[i].key : i \in 1 .. n - k}
  <2>1. \A i \in 1 .. n : i \in 1 .. k \/ (i - k \in 1 .. n - k /\ s[i] = p[i - k])
    <3>1. SUFFICES ASSUME NEW i \in 1 .. n, i \notin 1 .. k PROVE i - k \in 1 .. n - k /\ s[i] = p[i - k]
      OBVIOUS
    <3>2. i - k \in 1 .. n - k /\ k + (i - k) = i
      BY <1>1, <3>1
    <3> QED BY <1>6, <3>2
  <2>2. \A i \in 1 .. n - k : k + i \in 1 .. n /\ p[i] = s[k + i]
    BY <1>1, <1>6
  <2>3. \A i \in 1 .. k : i \in 1 .. n
    BY <1>1
  <2> QED BY <2>1, <2>2, <2>3
<1>18. OtherKeys(d) = OtherKeys(c)
  <2>1. RebootKeys(d) = RebootKeys(c)
    BY <1>15 DEF RebootKeys
  <2>2. {d.scheduled[i].key : i \in DOMAIN d.scheduled} = {p[i].key : i \in 1 .. n - k}
    BY <1>6, <1>15
  <2>3. {c.scheduled[i].key : i \in DOMAIN c.scheduled} = {s[i].key : i \in 1 .. n}
    BY <1>1
  <2> QED BY <1>16, <1>17, <2>1, <2>2, <2>3 DEF OtherKeys
<1>19. Valid(d)
  <2>1. Distinct(d)
    BY <1>15 DEF Distinct, Valid
  <2>2. \A i, j \in 1 .. n - k : i <= j => p[i].time <= p[j].time
    <3>1. SUFFICES ASSUME NEW i \in 1 .. n - k, NEW j \in 1 .. n - k, i <= j PROVE p[i].time <= p[j].time
      OBVIOUS
    <3>2. k + i \in 1 .. n /\ k + j \in 1 .. n /\ k + i <= k + j
      BY <1>1, <3>1
    <3>3. s[k + i].time <= s[k + j].time
      BY <1>4, <3>2
    <3> QED BY <1>6, <3>3
  <2>3. InOrder(d)
    BY <1>6, <1>15, <2>2 DEF InOrder, Valid
  <2> QED BY <1>15, <2>1, <2>3 DEF Valid
<1> QED BY <1>7, <1>15, <1>18, <1>19

LEMMA EmptyEffect ==
  Valid(EmptyControl) /\ Records(EmptyControl) = {} /\ OtherKeys(EmptyControl) = {} /\ EmptyControl.lastId = 0
<1>1. EmptyControl \in Controls
  BY DEF EmptyControl, Controls
<1>2. Distinct(EmptyControl) /\ InOrder(EmptyControl)
  BY DEF EmptyControl, Distinct, InOrder
<1>3. Records(EmptyControl) = {} /\ OtherKeys(EmptyControl) = {} /\ EmptyControl.lastId = 0
  BY DEF EmptyControl, Records, OtherKeys, RebootKeys, EventKeys
<1> QED BY <1>1, <1>2, <1>3 DEF Valid

\* A change that touches neither the queue nor the ScheduleInform commands.
LEMMA SameQueue ==
  ASSUME NEW c, Valid(c), NEW d \in Controls, d.queue = c.queue, d.lastId = c.lastId, d.scheduled = c.scheduled
  PROVE  Valid(d) /\ Records(d) = Records(c)
<1>1. Distinct(d) /\ InOrder(d)
  BY DEF Valid, Distinct, InOrder
<1> QED BY <1>1 DEF Valid, Records

LEMMA RestKeys ==
  ASSUME NEW c, NEW d, Rest(d) = Rest(c)
  PROVE  OtherKeys(d) = OtherKeys(c) /\ RebootKeys(d) = RebootKeys(c)
BY DEF Rest, OtherKeys, RebootKeys

\* DM_ENG_ParameterManager_manageEvents
LEMMA ManageEffect ==
  ASSUME NEW c, Valid(c), NEW pending \in SUBSET Events, NEW time \in Nat
  PROVE  /\ Valid(manageEvents(c, pending, time))
         /\ Records(manageEvents(c, pending, time)) = Started(Records(c), time)
         /\ manageEvents(c, pending, time).lastId = c.lastId
         /\ OtherKeys(manageEvents(c, pending, time)) = OtherKeys(c) \cup EventKeys(pending)
<1>1. PICK a : a = [c EXCEPT !.events = c.events \cup pending]
  OBVIOUS
<1>2. PICK b : b = manageScheduled(a, time)
  OBVIOUS
<1>3. PICK d : d = manageTransfers(b, time)
  OBVIOUS
<1>4. /\ a \in Controls /\ a.queue = c.queue /\ a.lastId = c.lastId /\ a.scheduled = c.scheduled /\ a.reboot = c.reboot
      /\ a.events = c.events \cup pending
  BY <1>1 DEF Valid, Controls
<1>5. Valid(a) /\ Records(a) = Records(c)
  BY <1>4, SameQueue
<1>6. OtherKeys(a) = OtherKeys(c) \cup EventKeys(pending)
  <2>1. EventKeys(c.events \cup pending) = EventKeys(c.events) \cup EventKeys(pending)
    BY DEF EventKeys
  <2>2. RebootKeys(a) = RebootKeys(c)
    BY <1>4 DEF RebootKeys
  <2> QED BY <1>4, <2>1, <2>2 DEF OtherKeys
<1>7. Valid(b) /\ b.queue = a.queue /\ b.lastId = a.lastId /\ OtherKeys(b) = OtherKeys(a)
  BY <1>2, <1>5, ScheduledEffect
<1>8. Records(b) = Records(c)
  BY <1>5, <1>7 DEF Records
<1>9. Valid(d) /\ Records(d) = Started(Records(b), time) /\ d.lastId = b.lastId /\ OtherKeys(d) = OtherKeys(b)
  BY <1>3, <1>7, StartEffect
<1>10. manageEvents(c, pending, time) = d
  <2>1. [c EXCEPT !.events = @ \cup pending] = a
    BY <1>1 DEF Valid, Controls
  <2> QED BY <1>2, <1>3, <2>1 DEF manageEvents
<1> QED BY <1>4, <1>6, <1>7, <1>8, <1>9, <1>10

\* A command put among those in the order of their times.
InformInsertion(p, s, n, at, e) ==
  /\ n \in Nat /\ at \in 1 .. n + 1
  /\ \A i \in 1 .. n + 1 : p[i] = IF i < at THEN s[i] ELSE IF i = at THEN e ELSE s[i - 1]
  /\ \A i \in 1 .. n : s[i].time \in Nat
  /\ \A i, j \in 1 .. n : i <= j => s[i].time <= s[j].time
  /\ e.time \in Nat
  /\ \A i \in 1 .. n : (i < at => s[i].time <= e.time) /\ (i >= at => s[i].time > e.time)

LEMMA InformInserted ==
  ASSUME NEW p, NEW s, NEW n, NEW at, NEW e, InformInsertion(p, s, n, at, e)
  PROVE  /\ {p[i] : i \in 1 .. n + 1} = {s[i] : i \in 1 .. n} \cup {e}
         /\ \A i, j \in 1 .. n + 1 : i <= j => p[i].time <= p[j].time
<1> USE DEF InformInsertion
<1> DEFINE old(i) == IF i < at THEN i ELSE i - 1
           Others == (1 .. n + 1) \ {at}
<1>1. /\ \A i \in Others : old(i) \in 1 .. n /\ i \in 1 .. n + 1 /\ p[i] = s[old(i)]
      /\ p[at] = e /\ at \in 1 .. n + 1
  OBVIOUS
<1>2. /\ \A i, j \in Others : i <= j => old(i) <= old(j)
      /\ \A i \in Others : (i <= at => old(i) < at) /\ (at <= i => old(i) >= at)
  OBVIOUS
<1>3. \A k \in 1 .. n : \E i \in Others : old(i) = k
  <2>1. SUFFICES ASSUME NEW k \in 1 .. n PROVE \E i \in Others : old(i) = k
    OBVIOUS
  <2>2. CASE k < at
    <3>1. k \in Others /\ old(k) = k
      BY <2>2
    <3> QED BY <3>1
  <2>3. CASE ~(k < at)
    <3>1. k + 1 \in Others /\ old(k + 1) = k
      BY <2>3
    <3> QED BY <3>1
  <2> QED BY <2>2, <2>3
<1>4. \A i \in 1 .. n + 1 : i = at \/ i \in Others
  OBVIOUS
<1> HIDE DEF old, Others
<1>5. {p[i] : i \in 1 .. n + 1} = {s[i] : i \in 1 .. n} \cup {e}
  <2>1. \A i \in 1 .. n + 1 : p[i] \in {s[k] : k \in 1 .. n} \cup {e}
    BY <1>1, <1>4
  <2>2. \A k \in 1 .. n : s[k] \in {p[i] : i \in 1 .. n + 1}
    BY <1>1, <1>3
  <2>3. e \in {p[i] : i \in 1 .. n + 1}
    BY <1>1
  <2> QED BY <2>1, <2>2, <2>3
<1>6. SUFFICES ASSUME NEW i \in 1 .. n + 1, NEW j \in 1 .. n + 1, i <= j PROVE p[i].time <= p[j].time
  BY <1>5
<1>7. CASE i \in Others /\ j \in Others
  <2>1. old(i) \in 1 .. n /\ old(j) \in 1 .. n /\ p[i] = s[old(i)] /\ p[j] = s[old(j)] /\ old(i) <= old(j)
    BY <1>1, <1>2, <1>6, <1>7
  <2>2. s[old(i)].time <= s[old(j)].time
    BY <2>1
  <2> QED BY <2>1, <2>2
<1>8. CASE i \in Others /\ j = at
  <2>1. old(i) \in 1 .. n /\ p[i] = s[old(i)] /\ p[j] = e /\ old(i) < at
    BY <1>1, <1>2, <1>6, <1>8
  <2> QED BY <2>1
<1>9. CASE i = at /\ j \in Others
  <2>1. old(j) \in 1 .. n /\ p[j] = s[old(j)] /\ p[i] = e /\ old(j) >= at
    BY <1>1, <1>2, <1>6, <1>9
  <2>2. s[old(j)].time > e.time /\ s[old(j)].time \in Nat
    BY <2>1
  <2> QED BY <2>1, <2>2
<1>10. CASE i = at /\ j = at
  BY <1>1, <1>10
<1> QED BY <1>4, <1>7, <1>8, <1>9, <1>10

\* DM_ENG_ParameterData_addScheduledInformCommand
LEMMA AddScheduledEffect ==
  ASSUME NEW c, Valid(c), NEW time \in Nat \ {0}, NEW key \in KeySet \ {Null}
  PROVE  /\ Valid(addScheduledInformCommand(c, time, key))
         /\ Records(addScheduledInformCommand(c, time, key)) = Records(c)
         /\ addScheduledInformCommand(c, time, key).lastId = c.lastId
         /\ OtherKeys(addScheduledInformCommand(c, time, key)) = OtherKeys(c) \cup {key}
         /\ RebootKeys(addScheduledInformCommand(c, time, key)) = RebootKeys(c)
<1>1. PICK s, n : s = c.scheduled /\ s \in Seq(Informs) /\ n = Len(s) /\ n \in Nat /\ DOMAIN s = 1 .. n
  <2>1. PICK s : s = c.scheduled
    OBVIOUS
  <2>2. s \in Seq(Informs)
    BY <2>1 DEF Valid, Controls
  <2>3. Len(s) \in Nat /\ DOMAIN s = 1 .. Len(s)
    BY <2>2
  <2> QED BY <2>1, <2>2, <2>3
<1>2. \A i \in 1 .. n : s[i] \in Informs /\ s[i].time \in Nat
  <2>1. \A x \in Informs : x.time \in Nat
    BY DEF Informs
  <2> QED BY <1>1, <2>1
<1>3. \A i, j \in 1 .. n : i <= j => s[i].time <= s[j].time
  BY <1>1 DEF Valid, InOrder
<1> DEFINE later == {i \in 1 .. n : s[i].time > time}
<1>4. PICK at : at = IF later = {} THEN n + 1 ELSE First(later)
  OBVIOUS
<1>5. at \in 1 .. n + 1 /\ \A i \in 1 .. n : (i < at => s[i].time <= time) /\ (i >= at => s[i].time > time)
  <2>1. CASE later = {}
    <3>1. at = n + 1
      BY <1>4, <2>1
    <3>2. \A i \in 1 .. n : ~(s[i].time > time)
      BY <2>1
    <3> QED BY <1>1, <1>2, <3>1, <3>2
  <2>2. CASE later # {}
    <3>1. at \in later /\ \A j \in later : at <= j
      <4>1. later \in SUBSET Nat
        BY <1>1
      <4> HIDE DEF later
      <4> QED BY <1>4, <2>2, <4>1, FirstIsLeast
    <3>2. at \in 1 .. n /\ s[at].time > time
      BY <3>1
    <3>3. \A i \in 1 .. n : i < at => ~(s[i].time > time)
      BY <1>1, <3>1, <3>2
    <3>4. \A i \in 1 .. n : i >= at => s[i].time > time
      <4>1. SUFFICES ASSUME NEW i \in 1 .. n, i >= at PROVE s[i].time > time
        OBVIOUS
      <4>2. s[at].time <= s[i].time /\ s[i].time \in Nat /\ s[at].time \in Nat
        BY <1>2, <1>3, <3>2, <4>1
      <4> QED BY <3>2, <4>2
    <3> QED BY <1>1, <1>2, <3>2, <3>3, <3>4
  <2> QED BY <2>1, <2>2
<1>6. PICK e : e = [time |-> time, key |-> key]
  OBVIOUS
<1>7. e \in Informs /\ e.time = time /\ e.key = key
  BY <1>6 DEF Informs
<1>8. PICK p : p = InsertAt(s, at, e)
  OBVIOUS
<1>9. /\ p \in Seq(Informs) /\ DOMAIN p = 1 .. n + 1
      /\ \A i \in 1 .. n + 1 : p[i] = IF i < at THEN s[i] ELSE IF i = at THEN e ELSE s[i - 1]
  <2>1. at \in 1 .. Len(s) + 1
    BY <1>1, <1>5
  <2>2. /\ p \in Seq(Informs) /\ Len(p) = Len(s) + 1
        /\ \A i \in 1 .. Len(s) + 1 : p[i] = IF i < at THEN s[i] ELSE IF i = at THEN e ELSE s[i - 1]
    BY <1>1, <1>7, <1>8, <2>1, Inserted
  <2> QED BY <1>1, <2>2
<1>10. /\ {p[i] : i \in 1 .. n + 1} = {s[i] : i \in 1 .. n} \cup {e}
       /\ \A i, j \in 1 .. n + 1 : i <= j => p[i].time <= p[j].time
  <2>1. InformInsertion(p, s, n, at, e)
    BY <1>1, <1>2, <1>3, <1>5, <1>7, <1>9 DEF InformInsertion
  <2> QED BY <2>1, InformInserted
<1>11. PICK d : d = addScheduledInformCommand(c, time, key)
  OBVIOUS
<1>12. d = [c EXCEPT !.scheduled = p] /\ c \in Controls
  <2>1. c \in Controls /\ ~(time <= 0) /\ key # Null
    BY DEF Valid
  <2>2. at = IF {i \in DOMAIN c.scheduled : c.scheduled[i].time > time} = {} THEN Len(c.scheduled) + 1
             ELSE First({i \in DOMAIN c.scheduled : c.scheduled[i].time > time})
    BY <1>1, <1>4
  <2> HIDE DEF later
  <2>3. d = [c EXCEPT !.scheduled = InsertAt(c.scheduled, at, e)]
    BY <1>6, <1>11, <2>1, <2>2 DEF addScheduledInformCommand, Controls
  <2> QED BY <1>1, <1>8, <2>1, <2>3
<1>13. /\ d \in Controls /\ d.queue = c.queue /\ d.lastId = c.lastId /\ d.reboot = c.reboot /\ d.events = c.events
       /\ d.scheduled = p
  BY <1>9, <1>12 DEF Controls
<1>14. Valid(d)
  <2>1. Distinct(d)
    BY <1>13 DEF Distinct, Valid
  <2>2. InOrder(d)
    BY <1>9, <1>10, <1>13 DEF InOrder, Valid
  <2> QED BY <1>13, <2>1, <2>2 DEF Valid
<1>15. RebootKeys(d) = RebootKeys(c)
  BY <1>13 DEF RebootKeys
<1>16. OtherKeys(d) = OtherKeys(c) \cup {key}
  <2>1. {p[i].key : i \in 1 .. n + 1} = {s[i].key : i \in 1 .. n} \cup {key}
    <3>1. \A i \in 1 .. n + 1 : p[i].key \in {s[k].key : k \in 1 .. n} \cup {key}
      <4>1. \A i \in 1 .. n + 1 : p[i] = e \/ \E k \in 1 .. n : p[i] = s[k]
        BY <1>10
      <4> QED BY <1>7, <4>1
    <3>2. \A k \in 1 .. n : \E i \in 1 .. n + 1 : p[i] = s[k]
      BY <1>10
    <3>3. \E i \in 1 .. n + 1 : p[i] = e
      BY <1>10
    <3> QED BY <1>7, <3>1, <3>2, <3>3
  <2>2. {d.scheduled[i].key : i \in DOMAIN d.scheduled} = {p[i].key : i \in 1 .. n + 1}
    BY <1>9, <1>13
  <2>3. {c.scheduled[i].key : i \in DOMAIN c.scheduled} = {s[i].key : i \in 1 .. n}
    BY <1>1
  <2> QED BY <1>13, <1>15, <2>1, <2>2, <2>3 DEF OtherKeys
<1>17. Records(d) = Records(c)
  BY <1>13 DEF Records
<1> QED BY <1>11, <1>13, <1>14, <1>15, <1>16, <1>17

\* DM_ENG_ParameterData_addRebootCommandKey
LEMMA RebootEffect ==
  ASSUME NEW c, Valid(c), NEW key \in (KeySet \ {Null}) \cup {ResetKey}
  PROVE  /\ Valid(addRebootCommandKey(c, key))
         /\ Records(addRebootCommandKey(c, key)) = Records(c)
         /\ addRebootCommandKey(c, key).lastId = c.lastId
         /\ OtherKeys(addRebootCommandKey(c, key)) \subseteq OtherKeys(c) \cup ({key} \ {ResetKey})
         /\ OtherKeys(c) \subseteq OtherKeys(addRebootCommandKey(c, key))
                                     \cup (RebootKeys(c) \ RebootKeys(addRebootCommandKey(c, key)))
<1> DEFINE T == (KeySet \ {Null}) \cup {ResetKey}
<1>1. PICK s, n : s = c.reboot /\ s \in Seq(T) /\ n = Len(s) /\ n \in Nat /\ DOMAIN s = 1 .. n
  <2>1. PICK s : s = c.reboot
    OBVIOUS
  <2>2. s \in Seq(T)
    BY <2>1 DEF Valid, Controls
  <2> HIDE DEF T
  <2>3. Len(s) \in Nat /\ DOMAIN s = 1 .. Len(s)
    BY <2>2
  <2> QED BY <2>1, <2>2, <2>3
<1>2. key \in T
  OBVIOUS
<1> HIDE DEF T
<1>3. PICK p : p = IF key = ResetKey /\ s # <<>> THEN [s EXCEPT ![1] = ResetKey] ELSE Append(s, key)
  OBVIOUS
<1>4. p \in Seq(T) /\ \A i \in DOMAIN p : p[i] = key \/ \E k \in DOMAIN s : p[i] = s[k]
  <2>1. CASE key = ResetKey /\ s # <<>>
    <3>1. p = [s EXCEPT ![1] = key]
      BY <1>3, <2>1
    <3>2. 1 \in 1 .. Len(s)
      BY <1>1, <2>1, EmptySeq
    <3>3. p \in Seq(T)
      BY <1>1, <1>2, <3>1, <3>2, ExceptSeq
    <3>4. DOMAIN p = DOMAIN s /\ \A i \in DOMAIN s : p[i] = IF i = 1 THEN key ELSE s[i]
      BY <1>1, <3>1, <3>2
    <3> QED BY <3>3, <3>4
  <2>2. CASE ~(key = ResetKey /\ s # <<>>)
    <3>1. p = Append(s, key)
      BY <1>3, <2>2
    <3>2. /\ p \in Seq(T) /\ Len(p) = n + 1 /\ p[n + 1] = key
          /\ \A i \in 1 .. n : p[i] = s[i]
      BY <1>1, <1>2, <3>1, AppendProperties
    <3>3. DOMAIN p = 1 .. n + 1
      BY <3>2
    <3>4. \A i \in 1 .. n + 1 : i = n + 1 \/ i \in 1 .. n
      BY <1>1
    <3> QED BY <1>1, <3>2, <3>3, <3>4
  <2> QED BY <2>1, <2>2
<1>5. PICK d : d = addRebootCommandKey(c, key)
  OBVIOUS
<1>6. d = [c EXCEPT !.reboot = p] /\ c \in Controls
  <2>1. c \in Controls
    BY DEF Valid
  <2>2. d = IF key = ResetKey /\ c.reboot # <<>> THEN [c EXCEPT !.reboot = [c.reboot EXCEPT ![1] = ResetKey]]
            ELSE [c EXCEPT !.reboot = Append(c.reboot, key)]
    BY <1>5, <2>1 DEF addRebootCommandKey, Controls
  <2> QED BY <1>1, <1>3, <2>1, <2>2
<1>7. /\ d \in Controls /\ d.queue = c.queue /\ d.lastId = c.lastId /\ d.scheduled = c.scheduled
      /\ d.events = c.events /\ d.reboot = p
  BY <1>4, <1>6 DEF Controls, T
<1>8. Valid(d) /\ Records(d) = Records(c)
  BY <1>7, SameQueue
<1>9. RebootKeys(d) \subseteq RebootKeys(c) \cup ({key} \ {ResetKey})
  BY <1>1, <1>4, <1>7 DEF RebootKeys
<1>10. \A x \in OtherKeys(c) : x \in RebootKeys(c) \/ x \in OtherKeys(d)
  BY <1>7 DEF OtherKeys
<1>11. \A x \in OtherKeys(d) : x \in RebootKeys(d) \/ x \in OtherKeys(c)
  BY <1>7 DEF OtherKeys
<1>12. RebootKeys(d) \subseteq OtherKeys(d) /\ RebootKeys(c) \subseteq OtherKeys(c)
  BY DEF OtherKeys
<1> QED BY <1>5, <1>7, <1>8, <1>9, <1>10, <1>11, <1>12

\* The requests for a download.
LEMMA DownloadsEffect ==
  ASSUME NEW c, Valid(c)
  PROVE  /\ Valid(addDownloadRequest(c, "Firmware"))
         /\ Records(addDownloadRequest(c, "Firmware")) = Records(c)
         /\ addDownloadRequest(c, "Firmware").lastId = c.lastId
         /\ Rest(addDownloadRequest(c, "Firmware")) = Rest(c)
         /\ Valid(removeFirstDownloadRequest(c))
         /\ Records(removeFirstDownloadRequest(c)) = Records(c)
         /\ removeFirstDownloadRequest(c).lastId = c.lastId
         /\ Rest(removeFirstDownloadRequest(c)) = Rest(c)
<1>1. PICK s : s = c.downloads
  OBVIOUS
<1>2. c \in Controls /\ s \in Seq({"Firmware"})
  BY <1>1 DEF Valid, Controls
<1>3. ASSUME NEW p \in Seq({"Firmware"}), NEW d, d = [c EXCEPT !.downloads = p]
      PROVE  Valid(d) /\ Records(d) = Records(c) /\ d.lastId = c.lastId /\ Rest(d) = Rest(c)
  <2>1. d \in Controls /\ d.queue = c.queue /\ d.lastId = c.lastId /\ d.scheduled = c.scheduled /\ Rest(d) = Rest(c)
    BY <1>2, <1>3 DEF Controls, Rest
  <2> QED BY <2>1, SameQueue
<1>4. PICK a : a = Append(s, "Firmware")
  OBVIOUS
<1>5. a \in Seq({"Firmware"})
  BY <1>2, <1>4, AppendProperties
<1>6. addDownloadRequest(c, "Firmware") = [c EXCEPT !.downloads = a]
  BY <1>1, <1>2, <1>4 DEF addDownloadRequest, Controls
<1>7. /\ Valid(removeFirstDownloadRequest(c))
      /\ Records(removeFirstDownloadRequest(c)) = Records(c)
      /\ removeFirstDownloadRequest(c).lastId = c.lastId
      /\ Rest(removeFirstDownloadRequest(c)) = Rest(c)
  <2>1. CASE s = <<>>
    BY <1>1, <2>1 DEF removeFirstDownloadRequest
  <2>2. CASE s # <<>>
    <3>1. PICK t : t = Tail(s)
      OBVIOUS
    <3>2. t \in Seq({"Firmware"})
      BY <1>2, <2>2, <3>1, HeadTailProperties
    <3>3. removeFirstDownloadRequest(c) = [c EXCEPT !.downloads = t]
      BY <1>1, <1>2, <2>2, <3>1 DEF removeFirstDownloadRequest, Controls
    <3> QED BY <1>3, <3>2, <3>3
  <2> QED BY <2>1, <2>2
<1> QED BY <1>3, <1>5, <1>6, <1>7

\* Once the boot has taken them, no Reboot key is left.
LEMMA SetRebootEffect ==
  ASSUME NEW c, Valid(c)
  PROVE  /\ Valid(setRebootCommandKey(c))
         /\ Records(setRebootCommandKey(c)) = Records(c)
         /\ setRebootCommandKey(c).lastId = c.lastId
         /\ OtherKeys(c) = OtherKeys(setRebootCommandKey(c)) \cup RebootKeys(c)
<1>1. PICK d : d = setRebootCommandKey(c)
  OBVIOUS
<1>2. /\ d \in Controls /\ d.queue = c.queue /\ d.lastId = c.lastId /\ d.scheduled = c.scheduled
      /\ d.events = c.events /\ d.reboot = <<>>
  <2>1. <<>> \in Seq((KeySet \ {Null}) \cup {ResetKey})
    BY EmptySeq
  <2> QED BY <1>1, <2>1 DEF setRebootCommandKey, Valid, Controls
<1>3. Valid(d) /\ Records(d) = Records(c)
  BY <1>2, SameQueue
<1>4. OtherKeys(c) = OtherKeys(d) \cup RebootKeys(c)
  BY <1>2 DEF OtherKeys, RebootKeys
<1> QED BY <1>1, <1>2, <1>3, <1>4

\* The ACS has answered the Inform message: the events are forgotten.
LEMMA ForgetEffect ==
  ASSUME NEW c, Valid(c)
  PROVE  /\ Valid([c EXCEPT !.events = {}])
         /\ Records([c EXCEPT !.events = {}]) = Records(c)
         /\ [c EXCEPT !.events = {}].lastId = c.lastId
         /\ OtherKeys(c) = OtherKeys([c EXCEPT !.events = {}]) \cup EventKeys(c.events)
<1>1. PICK d : d = [c EXCEPT !.events = {}]
  OBVIOUS
<1>2. /\ d \in Controls /\ d.queue = c.queue /\ d.lastId = c.lastId /\ d.scheduled = c.scheduled
      /\ d.events = {} /\ d.reboot = c.reboot
  BY <1>1 DEF Valid, Controls
<1>3. Valid(d) /\ Records(d) = Records(c)
  BY <1>2, SameQueue
<1>4. OtherKeys(c) = OtherKeys(d) \cup EventKeys(c.events)
  BY <1>2 DEF OtherKeys, RebootKeys, EventKeys
<1> QED BY <1>1, <1>2, <1>3, <1>4

\* The result that is sent is one of the queue.
LEMMA ResultEffect ==
  ASSUME NEW c, Valid(c), getTransferResult(c) # <<>>
  PROVE  getTransferResult(c)[1] \in Records(c) /\ getTransferResult(c)[1].state = _COMPLETED
<1>1. PICK q, n : /\ q = c.queue /\ n \in Nat /\ DOMAIN q = 1 .. n
                  /\ Records(c) = {q[i] : i \in 1 .. n}
  BY Positions
<1>2. PICK results : results = {i \in 1 .. n : q[i].state = _COMPLETED}
  OBVIOUS
<1>3. getTransferResult(c) = IF results = {} THEN <<>> ELSE <<q[First(results)]>>
  BY <1>1, <1>2 DEF getTransferResult
<1>4. results # {} /\ results \in SUBSET Nat
  BY <1>1, <1>2, <1>3
<1>5. First(results) \in results
  BY <1>4, FirstIsLeast
<1>6. First(results) \in 1 .. n /\ q[First(results)].state = _COMPLETED
  BY <1>2, <1>5
<1> QED BY <1>1, <1>3, <1>4, <1>6

\* What is sent is taken off the queue when it is confirmed.
LEMMA ConfirmedEffect ==
  ASSUME NEW c, Valid(c)
  PROVE  /\ Valid(Confirmed(c))
         /\ Records(Confirmed(c)) = IF sending = 0 THEN Records(c) ELSE Without(Records(c), sending)
         /\ Confirmed(c).lastId = c.lastId
         /\ Rest(Confirmed(c)) = Rest(c)
BY RemoveEffect, DownloadsEffect DEF Confirmed

\* What a notification of a thread does to the transfers: the result of a request, that of a
\* transfer of the device, or nothing.
Processed(R, last, note) ==
  IF note.kind # "transfer" THEN R
  ELSE IF note.id = 0
       THEN R \cup {[Transfer(TRUE, Null, "http", 0, _COMPLETED, note.fault, FALSE) EXCEPT !.id = last + 1]}
       ELSE Completed(R, note.id, ResultCode(note))
Notes == [kind : {"transfer", "request", "vendor"}, id : Nat, fault : Faults, after : Faults]

LEMMA ResultCodes ==
  0 \in Faults /\ \A note \in Notes : note.fault \in Faults /\ ResultCode(note) \in Faults
BY DEF Faults, Actions, Notes, ResultCode

LEMMA ProcessedEffect ==
  ASSUME NEW c, Valid(c), NEW note \in Notes
  PROVE  /\ Valid(processed(c, note))
         /\ Records(processed(c, note)) = Processed(Records(c), c.lastId, note)
         /\ processed(c, note).lastId = IF note.kind = "transfer" /\ note.id = 0 THEN c.lastId + 1 ELSE c.lastId
         /\ Rest(processed(c, note)) = Rest(c)
<1>1. /\ note.kind \in {"transfer", "request", "vendor"} /\ note.id \in Nat
      /\ note.fault \in Faults /\ ResultCode(note) \in Faults
  BY ResultCodes DEF Notes
<1>2. CASE note.kind = "transfer" /\ note.id # 0
  <2>1. processed(c, note) = updateTransferRequest(c, note.id, _COMPLETED, ResultCode(note))
    BY <1>2 DEF processed
  <2>2. Processed(Records(c), c.lastId, note) = Completed(Records(c), note.id, ResultCode(note))
    BY <1>2 DEF Processed
  <2> QED BY <1>1, <1>2, <2>1, <2>2, UpdateEffect
<1>3. CASE note.kind = "transfer" /\ note.id = 0
  <2>1. PICK tr : tr = Transfer(TRUE, Null, "http", 0, _COMPLETED, note.fault, FALSE)
    OBVIOUS
  <2>2. tr \in Entries /\ tr.state # _NOT_YET_STARTED
    <3>1. Null \in KeySet /\ "http" \in Urls /\ _COMPLETED \in 1 .. 3 /\ _COMPLETED # _NOT_YET_STARTED
      BY DEF KeySet, Urls, _COMPLETED, _NOT_YET_STARTED
    <3> QED BY <1>1, <2>1, <3>1 DEF Transfer, Entries
  <2>3. processed(c, note) = insertTransferRequest(c, tr)
    BY <1>3, <2>1 DEF processed
  <2>4. Processed(Records(c), c.lastId, note) = Records(c) \cup {[tr EXCEPT !.id = c.lastId + 1]}
    BY <1>3, <2>1 DEF Processed
  <2> QED BY <1>3, <2>2, <2>3, <2>4, InsertEffect
<1>4. CASE note.kind = "request"
  <2>1. processed(c, note) = addDownloadRequest(c, "Firmware")
    BY <1>4 DEF processed
  <2>2. Processed(Records(c), c.lastId, note) = Records(c)
    BY <1>4 DEF Processed
  <2> QED BY <1>4, <2>1, <2>2, DownloadsEffect
<1>5. CASE note.kind = "vendor"
  <2>1. processed(c, note) = c
    BY <1>5 DEF processed
  <2>2. Processed(Records(c), c.lastId, note) = Records(c)
    BY <1>5 DEF Processed
  <2> QED BY <1>5, <2>1, <2>2
<1> QED BY <1>1, <1>2, <1>3, <1>4, <1>5

-----------------------------------------------------------------------------
(* The commands of the ACS *)

\* A request as the parsing finds it.
Command(m) ==
  /\ DOMAIN m = {"method", "key", "fileType", "url", "size", "delay", "target"}
  /\ m.key \in KeySet /\ m.url \in Urls /\ m.delay \in Nat \cup {Absent, NotANumber}

\* A command that is not taken leaves all as it was.
Nothing(c, r) == r.control = c /\ r.answer \notin {"status 1", "response"}

\* A transfer: it is the last one of the queue, in progress when it has no delay.
Queued(c, m, r) ==
  /\ r.answer = "status 1" /\ m.key # Null
  /\ Valid(r.control) /\ r.control.lastId = c.lastId + 1 /\ Rest(r.control) = Rest(c)
  /\ \E e \in Entries :
       /\ e.id = c.lastId + 1 /\ e.key = m.key
       /\ e.state = IF OrZero(m.delay) = 0 THEN _IN_PROGRESS ELSE _NOT_YET_STARTED
       /\ Records(r.control) = Records(c) \cup {e}

\* Another command: its key is remembered.
Remembered(c, m, r) ==
  /\ r.answer = "response"
  /\ Valid(r.control) /\ r.control.lastId = c.lastId /\ Records(r.control) = Records(c)
  /\ OtherKeys(r.control) \subseteq OtherKeys(c) \cup ({m.key} \ {Null})
  /\ OtherKeys(c) \subseteq OtherKeys(r.control) \cup (RebootKeys(c) \ RebootKeys(r.control))

LEMMA TransferRequested ==
  ASSUME NEW c, Valid(c), NEW m, Command(m), m.key # Null, m.delay # NotANumber,
         NEW download \in BOOLEAN, NEW time \in Nat \ {0}
  PROVE  Queued(c, m, Done(manageTransferRequest(c, m, download, time), "status 1"))
<1>1. PICK delay : delay = OrZero(m.delay)
  OBVIOUS
<1>2. delay \in Nat
  BY <1>1 DEF Command, OrZero, Absent, NotANumber
<1>3. PICK state : state = IF delay = 0 THEN _IN_PROGRESS ELSE _NOT_YET_STARTED
  OBVIOUS
<1>4. PICK named : named = (download /\ m.target # Null)
  OBVIOUS
<1>5. PICK tr : tr = Transfer(download, m.key, m.url, time + delay, state, 0, named)
  OBVIOUS
<1>6. state \in 1 .. 3 /\ named \in BOOLEAN /\ time + delay \in Nat /\ time + delay > 0 /\ 0 \in Faults
  BY <1>2, <1>3, <1>4, ResultCodes DEF _IN_PROGRESS, _NOT_YET_STARTED
<1>7. tr \in Entries /\ tr.due > 0 /\ tr.key = m.key /\ tr.state = state
  BY <1>5, <1>6 DEF Transfer, Entries, Command
<1>8. PICK d : d = insertTransferRequest(c, tr)
  OBVIOUS
<1>9. manageTransferRequest(c, m, download, time) = d
  BY <1>1, <1>3, <1>4, <1>5, <1>8 DEF manageTransferRequest
<1>10. PICK e : e = [tr EXCEPT !.id = c.lastId + 1]
  OBVIOUS
<1>11. Valid(d) /\ Records(d) = Records(c) \cup {e} /\ d.lastId = c.lastId + 1 /\ Rest(d) = Rest(c)
  BY <1>7, <1>8, <1>10, InsertEffect
<1>12. e \in Entries /\ e.id = c.lastId + 1 /\ e.key = m.key /\ e.state = state
  <2>1. c.lastId + 1 \in Nat
    BY QueueOf
  <2> QED BY <1>7, <1>10, <2>1 DEF Entries
<1>13. PICK r : r = Done(d, "status 1")
  OBVIOUS
<1>14. r.control = d /\ r.answer = "status 1"
  BY <1>13 DEF Done
<1>15. Queued(c, m, r)
  BY <1>1, <1>3, <1>11, <1>12, <1>14 DEF Queued
<1> QED BY <1>9, <1>13, <1>15

LEMMA CommandEffect ==
  ASSUME NEW c, Valid(c), NEW m, Command(m), NEW time \in Nat \ {0}
  PROVE  LET r == Commands(c, m, time) IN Nothing(c, r) \/ Queued(c, m, r) \/ Remembered(c, m, r)
<1>1. PICK r : r = Commands(c, m, time)
  OBVIOUS
<1>2. SUFFICES Nothing(c, r) \/ Queued(c, m, r) \/ Remembered(c, m, r)
  BY <1>1
<1>3. ASSUME NEW a, a \notin {"status 1", "response"}, r = Done(c, a) PROVE Nothing(c, r)
  BY <1>3 DEF Done, Nothing
<1>4. ASSUME r = Fault(c) PROVE Nothing(c, r)
  <2>1. r = Done(c, "INVALID_ARGUMENTS")
    BY <1>4 DEF Fault
  <2> QED BY <1>3, <2>1
<1>5. CASE m.method = "Download"
  <2>1. r = DM_SUB_Download(c, m, time)
    BY <1>1, <1>5 DEF Commands
  <2>2. CASE ParseDownload(m)
    <3>1. m.key # Null /\ m.delay # NotANumber
      BY <2>2 DEF ParseDownload, Uint
    <3>2. r = Done(manageTransferRequest(c, m, TRUE, time), "status 1")
      BY <2>1, <2>2 DEF DM_SUB_Download
    <3> QED BY <3>1, <3>2, TransferRequested
  <2>3. CASE ~ParseDownload(m)
    BY <1>4, <2>1, <2>3 DEF DM_SUB_Download
  <2> QED BY <2>2, <2>3
<1>6. CASE m.method = "Upload"
  <2>1. r = DM_SUB_Upload(c, m, time)
    BY <1>1, <1>6 DEF Commands
  <2>2. CASE ParseUpload(m)
    <3>1. m.key # Null /\ m.delay # NotANumber
      BY <2>2 DEF ParseUpload, Uint
    <3>2. r = Done(manageTransferRequest(c, m, FALSE, time), "status 1")
      BY <2>1, <2>2 DEF DM_SUB_Upload
    <3> QED BY <3>1, <3>2, TransferRequested
  <2>3. CASE ~ParseUpload(m)
    BY <1>4, <2>1, <2>3 DEF DM_SUB_Upload
  <2> QED BY <2>2, <2>3
<1>7. CASE m.method = "ScheduleInform"
  <2>1. r = DM_SUB_ScheduleInform(c, m, time)
    BY <1>1, <1>7 DEF Commands
  <2>2. CASE m.delay = Absent
    BY <1>4, <2>1, <2>2 DEF DM_SUB_ScheduleInform
  <2>3. CASE m.delay # Absent /\ m.key = Null
    <3>1. r = Done(c, "none")
      BY <2>1, <2>3 DEF DM_SUB_ScheduleInform
    <3> QED BY <1>3, <3>1
  <2>4. CASE m.delay # Absent /\ m.key # Null /\ (~Uint(m.delay) \/ m.delay = 0)
    BY <1>4, <2>1, <2>4 DEF DM_SUB_ScheduleInform
  <2>5. CASE m.delay # Absent /\ m.key # Null /\ Uint(m.delay) /\ m.delay # 0
    <3>1. PICK d : d = addScheduledInformCommand(c, time + m.delay, m.key)
      OBVIOUS
    <3>2. r = Done(d, "response")
      BY <2>1, <2>5, <3>1 DEF DM_SUB_ScheduleInform
    <3>3. time + m.delay \in Nat \ {0} /\ m.key \in KeySet \ {Null}
      BY <2>5 DEF Command, Uint
    <3>4. /\ Valid(d) /\ Records(d) = Records(c) /\ d.lastId = c.lastId
          /\ OtherKeys(d) = OtherKeys(c) \cup {m.key}
      BY <3>1, <3>3, AddScheduledEffect
    <3>5. r.control = d /\ r.answer = "response"
      BY <3>2 DEF Done
    <3> QED BY <2>5, <3>4, <3>5 DEF Remembered
  <2> QED BY <2>2, <2>3, <2>4, <2>5
<1>8. ASSUME NEW key \in (KeySet \ {Null}) \cup {ResetKey}, key = ResetKey \/ key = m.key,
             r = Done(addRebootCommandKey(c, key), "response")
      PROVE  Remembered(c, m, r)
  <2>1. PICK d : d = addRebootCommandKey(c, key)
    OBVIOUS
  <2>2. /\ Valid(d) /\ Records(d) = Records(c) /\ d.lastId = c.lastId
        /\ OtherKeys(d) \subseteq OtherKeys(c) \cup ({key} \ {ResetKey})
        /\ OtherKeys(c) \subseteq OtherKeys(d) \cup (RebootKeys(c) \ RebootKeys(d))
    BY <2>1, RebootEffect
  <2>3. r.control = d /\ r.answer = "response"
    BY <1>8, <2>1 DEF Done
  <2>4. {key} \ {ResetKey} \subseteq {m.key} \ {Null}
    BY <1>8
  <2> QED BY <2>2, <2>3, <2>4 DEF Remembered
<1>9. CASE m.method = "Reboot"
  <2>1. r = DM_SUB_Reboot(c, m, time)
    BY <1>1, <1>9 DEF Commands
  <2>2. CASE m.key = Null
    BY <1>4, <2>1, <2>2 DEF DM_SUB_Reboot
  <2>3. CASE m.key # Null
    <3>1. m.key \in (KeySet \ {Null}) \cup {ResetKey}
      BY <2>3 DEF Command
    <3> QED BY <1>8, <2>1, <2>3, <3>1 DEF DM_SUB_Reboot
  <2> QED BY <2>2, <2>3
<1>10. CASE m.method = "FactoryReset"
  <2>1. r = DM_SUB_FactoryReset(c, m, time)
    BY <1>1, <1>10 DEF Commands
  <2> QED BY <1>8, <2>1 DEF DM_SUB_FactoryReset
<1>11. CASE m.method = "GetAllQueuedTransfers"
  <2>1. r = Done(c, "queue")
    BY <1>1, <1>11 DEF Commands, DM_SUB_GetAllQueuedTransferts
  <2> QED BY <1>3, <2>1
<1>12. CASE m.method \notin {"Download", "Upload", "ScheduleInform", "Reboot", "FactoryReset", "GetAllQueuedTransfers"}
  <2>1. r = Done(c, "METHOD_NOT_SUPPORTED")
    BY <1>1, <1>12 DEF Commands
  <2> QED BY <1>3, <2>1
<1> QED BY <1>5, <1>6, <1>7, <1>9, <1>10, <1>11, <1>12

-----------------------------------------------------------------------------
(* Who works on what: the transfers R of the queue, the last identifier, the *)
(* threads, the notifications that wait, the result being sent, the          *)
(* transfers interrupted and the results there were.                         *)

Steps == {"created", "locked", "naming", "transferring", "refused", "ending"}
Workers == [id : Nat, download : BOOLEAN, key : KeySet, url : Urls, named : BOOLEAN, step : Steps]

Queue(R, last) ==
  /\ R \subseteq Entries /\ last \in Nat
  /\ \A r \in R : r.id \in 1 .. last
  /\ \A r, s \in R : r.id = s.id => r = s

\* A thread has an identifier of its own, that of a request; until it has told the result,
\* the request is in progress.
WorkersOK(R, last, ths) ==
  /\ ths \subseteq Workers
  /\ \A a, b \in ths : a.id = b.id => a = b
  /\ \A th \in ths : th.id \in 1 .. last
  /\ \A th \in ths : th.step # "ending" => \E r \in R : r.id = th.id /\ r.state = _IN_PROGRESS
  /\ \A th \in ths : \A r \in R : r.id = th.id => r.state # _NOT_YET_STARTED /\ r.key = th.key

\* A result on its way is that of a request in progress nobody else is about to tell.
ResultOf(note, id) == note.kind = "transfer" /\ note.id = id
NotesOK(R, ths, notes) ==
  /\ notes \in Seq(Notes)
  /\ \A i \in DOMAIN notes : (notes[i].kind = "transfer" /\ notes[i].id # 0) =>
       /\ \E r \in R : r.id = notes[i].id /\ r.state = _IN_PROGRESS
       /\ \A j \in DOMAIN notes : ResultOf(notes[j], notes[i].id) => i = j
       /\ \A th \in ths : th.id = notes[i].id => th.step = "ending"

\* A request in progress has a thread or a result on its way, unless it was interrupted.
ProgressOK(R, ths, notes, stopped) ==
  \A r \in R : (r.state = _IN_PROGRESS /\ r.id \notin stopped) =>
    \/ \E th \in ths : th.id = r.id /\ th.step # "ending"
    \/ \E i \in DOMAIN notes : ResultOf(notes[i], r.id)

\* What is being sent is a result.
SendingOK(R, last, sent) ==
  sent \in 0 .. last /\ \A r \in R : r.id = sent => r.state = _COMPLETED

\* The result of a request is one that it had.
ResultsOK(R, notes, outs) ==
  /\ \A r \in R : r.state = _COMPLETED /\ r.key # Null => <<r.key, r.fault>> \in outs
  /\ \A i \in DOMAIN notes : \A r \in R : ResultOf(notes[i], r.id) /\ r.key # Null => <<r.key, ResultCode(notes[i])>> \in outs

Work(R, last, ths, notes, sent, stopped, outs) ==
  /\ Queue(R, last)
  /\ WorkersOK(R, last, ths)
  /\ NotesOK(R, ths, notes)
  /\ ProgressOK(R, ths, notes, stopped)
  /\ SendingOK(R, last, sent)
  /\ ResultsOK(R, notes, outs)

LEMMA States ==
  /\ _COMPLETED # _IN_PROGRESS /\ _COMPLETED # _NOT_YET_STARTED /\ _IN_PROGRESS # _NOT_YET_STARTED
  /\ {_NOT_YET_STARTED, _IN_PROGRESS, _COMPLETED} \subseteq 1 .. 3
BY DEF _COMPLETED, _IN_PROGRESS, _NOT_YET_STARTED

\* The transfers, one by one, when one has ended.
LEMMA CompletedOneByOne ==
  ASSUME NEW R \in SUBSET Entries, NEW id, NEW fault \in Faults
  PROVE  /\ \A x \in Completed(R, id, fault) : \E r \in R :
              /\ x.id = r.id /\ x.key = r.key
              /\ IF r.id = id THEN x.state = _COMPLETED /\ x.fault = fault ELSE x = r
         /\ \A r \in R : \E x \in Completed(R, id, fault) :
              /\ x.id = r.id /\ x.key = r.key
              /\ IF r.id = id THEN x.state = _COMPLETED /\ x.fault = fault ELSE x = r
<1> DEFINE ended(r) == IF r.id = id THEN [r EXCEPT !.state = _COMPLETED, !.fault = fault] ELSE r
<1>1. \A r \in Entries :
        /\ ended(r).id = r.id /\ ended(r).key = r.key
        /\ IF r.id = id THEN ended(r).state = _COMPLETED /\ ended(r).fault = fault ELSE ended(r) = r
  BY DEF Entries
<1>2. Completed(R, id, fault) = {ended(r) : r \in R}
  BY DEF Completed
<1> HIDE DEF ended
<1> QED BY <1>1, <1>2

\* The transfers, one by one, when those whose time has come are started.
LEMMA StartedOneByOne ==
  ASSUME NEW R \in SUBSET Entries, NEW time
  PROVE  /\ \A x \in Started(R, time) : \E r \in R :
              /\ x.id = r.id /\ x.key = r.key /\ x.fault = r.fault
              /\ IF r.state = _NOT_YET_STARTED /\ r.due <= time THEN x.state = _IN_PROGRESS ELSE x = r
         /\ \A r \in R : \E x \in Started(R, time) :
              /\ x.id = r.id /\ x.key = r.key /\ x.fault = r.fault
              /\ IF r.state = _NOT_YET_STARTED /\ r.due <= time THEN x.state = _IN_PROGRESS ELSE x = r
<1> DEFINE begun(r) == IF r.state = _NOT_YET_STARTED /\ r.due <= time THEN [r EXCEPT !.state = _IN_PROGRESS] ELSE r
<1>1. \A r \in Entries :
        /\ begun(r).id = r.id /\ begun(r).key = r.key /\ begun(r).fault = r.fault
        /\ IF r.state = _NOT_YET_STARTED /\ r.due <= time THEN begun(r).state = _IN_PROGRESS ELSE begun(r) = r
  BY DEF Entries
<1>2. Started(R, time) = {begun(r) : r \in R}
  BY DEF Started
<1> HIDE DEF begun
<1> QED BY <1>1, <1>2

\* A thread at its next step.
Stepped(th, step) == [th EXCEPT !.step = step]
LEMMA SteppedThread ==
  ASSUME NEW th \in Workers, NEW step \in Steps
  PROVE  Stepped(th, step) \in Workers /\ Stepped(th, step).id = th.id /\ Stepped(th, step).key = th.key
         /\ Stepped(th, step).step = step
BY DEF Stepped, Workers

\* A thread that has told its result stops or only gives the flag back.
Told(ths, th, ths2) == ths2 = ths \ {th} \/ ths2 = (ths \ {th}) \cup {Stepped(th, "ending")}

LEMMA ToldThreads ==
  ASSUME NEW R, NEW last, NEW ths, NEW th \in ths, NEW ths2, WorkersOK(R, last, ths), Told(ths, th, ths2)
  PROVE  /\ ths2 \subseteq Workers
         /\ \A t \in ths2 : (t \in ths /\ t.id # th.id) \/ (t.id = th.id /\ t.key = th.key /\ t.step = "ending")
         /\ \A a, b \in ths2 : a.id = b.id => a = b
         /\ \A t \in ths : t.id # th.id => t \in ths2
<1>1. Stepped(th, "ending") \in Workers /\ Stepped(th, "ending").id = th.id /\ Stepped(th, "ending").key = th.key
      /\ Stepped(th, "ending").step = "ending"
  BY SteppedThread DEF WorkersOK, Steps
<1>2. \A t \in ths : t # th => t.id # th.id
  BY DEF WorkersOK
<1>3. ths2 \subseteq (ths \ {th}) \cup {Stepped(th, "ending")} /\ ths \ {th} \subseteq ths2
  BY DEF Told
<1>4. \A t \in ths2 : (t \in ths /\ t.id # th.id) \/ t = Stepped(th, "ending")
  BY <1>2, <1>3
<1>5. \A a, b \in ths2 : a.id = b.id => a = b
  BY <1>1, <1>4 DEF WorkersOK
<1>6. ths2 \subseteq Workers
  BY <1>1, <1>4 DEF WorkersOK
<1> QED BY <1>1, <1>3, <1>4, <1>5, <1>6

\* A thread tells its result, which is processed at once.
LEMMA WorkTold ==
  ASSUME NEW R, NEW last, NEW ths, NEW sent, NEW stopped, NEW outs,
         NEW notes, Work(R, last, ths, notes, sent, stopped, outs),
         NEW th \in ths, th.step # "ending", NEW ths2, Told(ths, th, ths2),
         NEW fault \in Faults, NEW outs2, outs \subseteq outs2, th.key # Null => <<th.key, fault>> \in outs2,
         Queue(Completed(R, th.id, fault), last)
  PROVE  Work(Completed(R, th.id, fault), last, ths2, notes, sent, stopped, outs2)
<1>1. PICK R2 : R2 = Completed(R, th.id, fault)
  OBVIOUS
<1>2. R \in SUBSET Entries /\ WorkersOK(R, last, ths)
  BY DEF Work, Queue
<1>3. /\ \A x \in R2 : \E r \in R :
           /\ x.id = r.id /\ x.key = r.key
           /\ IF r.id = th.id THEN x.state = _COMPLETED /\ x.fault = fault ELSE x = r
      /\ \A r \in R : \E x \in R2 :
           /\ x.id = r.id /\ x.key = r.key
           /\ IF r.id = th.id THEN x.state = _COMPLETED /\ x.fault = fault ELSE x = r
  BY <1>1, <1>2, CompletedOneByOne
<1>4. /\ ths2 \subseteq Workers
      /\ \A t \in ths2 : (t \in ths /\ t.id # th.id) \/ (t.id = th.id /\ t.key = th.key /\ t.step = "ending")
      /\ \A a, b \in ths2 : a.id = b.id => a = b
      /\ \A t \in ths : t.id # th.id => t \in ths2
  BY <1>2, ToldThreads
<1>5. \A r \in R : r.id = th.id => r.key = th.key
  BY <1>2 DEF WorkersOK
<1>6. WorkersOK(R2, last, ths2)
  <2>1. \A t \in ths2 : t.id \in 1 .. last
    BY <1>2, <1>4 DEF WorkersOK
  <2>2. \A t \in ths2 : t.step # "ending" => \E r \in R2 : r.id = t.id /\ r.state = _IN_PROGRESS
    <3>1. SUFFICES ASSUME NEW t \in ths2, t.step # "ending" PROVE \E r \in R2 : r.id = t.id /\ r.state = _IN_PROGRESS
      OBVIOUS
    <3>2. t \in ths /\ t.id # th.id
      BY <1>4, <3>1
    <3>3. PICK r \in R : r.id = t.id /\ r.state = _IN_PROGRESS
      BY <1>2, <3>1, <3>2 DEF WorkersOK
    <3> QED BY <1>3, <3>2, <3>3
  <2>3. \A t \in ths2 : \A x \in R2 : x.id = t.id => x.state # _NOT_YET_STARTED /\ x.key = t.key
    <3>1. SUFFICES ASSUME NEW t \in ths2, NEW x \in R2, x.id = t.id
                   PROVE  x.state # _NOT_YET_STARTED /\ x.key = t.key
      OBVIOUS
    <3>2. PICK r \in R : /\ x.id = r.id /\ x.key = r.key
                         /\ IF r.id = th.id THEN x.state = _COMPLETED /\ x.fault = fault ELSE x = r
      BY <1>3
    <3>3. CASE t.id = th.id
      BY <1>4, <1>5, <3>1, <3>2, <3>3, States
    <3>4. CASE t.id # th.id
      BY ZenonT(40), <1>2, <1>4, <3>1, <3>2, <3>4 DEF WorkersOK
    <3> QED BY <3>3, <3>4
  <2> QED BY <1>4, <2>1, <2>2, <2>3 DEF WorkersOK
<1>7. NotesOK(R2, ths2, notes)
  <2>1. SUFFICES ASSUME NEW i \in DOMAIN notes, notes[i].kind = "transfer", notes[i].id # 0
                 PROVE  /\ \E x \in R2 : x.id = notes[i].id /\ x.state = _IN_PROGRESS
                        /\ \A j \in DOMAIN notes : ResultOf(notes[j], notes[i].id) => i = j
                        /\ \A t \in ths2 : t.id = notes[i].id => t.step = "ending"
    BY DEF Work, NotesOK
  <2>2. /\ \E r \in R : r.id = notes[i].id /\ r.state = _IN_PROGRESS
        /\ \A j \in DOMAIN notes : ResultOf(notes[j], notes[i].id) => i = j
        /\ \A t \in ths : t.id = notes[i].id => t.step = "ending"
    BY <2>1 DEF Work, NotesOK
  <2>3. notes[i].id # th.id
    BY <2>2
  <2> QED BY <1>3, <1>4, <2>2, <2>3
<1>8. ProgressOK(R2, ths2, notes, stopped)
  <2>1. SUFFICES ASSUME NEW x \in R2, x.state = _IN_PROGRESS, x.id \notin stopped
                 PROVE  \/ \E t \in ths2 : t.id = x.id /\ t.step # "ending"
                        \/ \E i \in DOMAIN notes : ResultOf(notes[i], x.id)
    BY DEF ProgressOK
  <2>2. x \in R /\ x.id # th.id
    BY <1>3, <2>1, States
  <2>3. (\E t \in ths : t.id = x.id /\ t.step # "ending") \/ \E i \in DOMAIN notes : ResultOf(notes[i], x.id)
    BY <2>1, <2>2 DEF Work, ProgressOK
  <2> QED BY <1>4, <2>2, <2>3
<1>9. SendingOK(R2, last, sent)
  BY <1>3 DEF Work, SendingOK
<1>10. ResultsOK(R2, notes, outs2)
  <2>1. \A x \in R2 : x.state = _COMPLETED /\ x.key # Null => <<x.key, x.fault>> \in outs2
    <3>1. SUFFICES ASSUME NEW x \in R2, x.state = _COMPLETED, x.key # Null PROVE <<x.key, x.fault>> \in outs2
      OBVIOUS
    <3>2. PICK r \in R : /\ x.id = r.id /\ x.key = r.key
                         /\ IF r.id = th.id THEN x.state = _COMPLETED /\ x.fault = fault ELSE x = r
      BY <1>3
    <3>3. CASE r.id = th.id
      BY <1>5, <3>1, <3>2, <3>3
    <3>4. CASE r.id # th.id
      BY <3>1, <3>2, <3>4 DEF Work, ResultsOK
    <3> QED BY <3>3, <3>4
  <2>2. \A i \in DOMAIN notes : \A x \in R2 : ResultOf(notes[i], x.id) /\ x.key # Null => <<x.key, ResultCode(notes[i])>> \in outs2
    BY <1>3 DEF Work, ResultsOK
  <2> QED BY <2>1, <2>2 DEF ResultsOK
<1> QED BY <1>1, <1>6, <1>7, <1>8, <1>9, <1>10 DEF Work

\* A thread tells its result while the data is locked.
LEMMA WorkQueued ==
  ASSUME NEW R, NEW last, NEW ths, NEW notes, NEW sent, NEW stopped, NEW outs,
         Work(R, last, ths, notes, sent, stopped, outs),
         NEW th \in ths, th.step # "ending", NEW ths2, Told(ths, th, ths2),
         NEW note \in Notes, ResultOf(note, th.id),
         NEW outs2, outs \subseteq outs2, th.key # Null => <<th.key, ResultCode(note)>> \in outs2
  PROVE  Work(R, last, ths2, Append(notes, note), sent, stopped, outs2)
<1>1. WorkersOK(R, last, ths) /\ Queue(R, last) /\ notes \in Seq(Notes)
  BY DEF Work, NotesOK
<1>2. /\ ths2 \subseteq Workers
      /\ \A t \in ths2 : (t \in ths /\ t.id # th.id) \/ (t.id = th.id /\ t.key = th.key /\ t.step = "ending")
      /\ \A a, b \in ths2 : a.id = b.id => a = b
      /\ \A t \in ths : t.id # th.id => t \in ths2
  BY <1>1, ToldThreads
<1>3. PICK n, notes2 : n = Len(notes) /\ notes2 = Append(notes, note)
  OBVIOUS
<1>4. /\ n \in Nat /\ DOMAIN notes = 1 .. n /\ DOMAIN notes2 = 1 .. n + 1 /\ notes2 \in Seq(Notes)
      /\ \A i \in 1 .. n : notes2[i] = notes[i] /\ i \in 1 .. n + 1
      /\ notes2[n + 1] = note /\ n + 1 \in 1 .. n + 1
      /\ \A i \in 1 .. n + 1 : i \in 1 .. n \/ i = n + 1
  <2>1. /\ notes2 \in Seq(Notes) /\ Len(notes2) = Len(notes) + 1
        /\ \A i \in 1 .. Len(notes) : notes2[i] = notes[i]
        /\ notes2[Len(notes) + 1] = note
    BY <1>1, <1>3, AppendProperties
  <2>2. Len(notes) \in Nat /\ DOMAIN notes = 1 .. Len(notes) /\ DOMAIN notes2 = 1 .. Len(notes2)
    BY <1>1, <2>1
  <2> QED BY <1>3, <2>1, <2>2
<1>5. \A i \in 1 .. n : ~ResultOf(notes[i], th.id)
  <2>1. th.id # 0
    BY <1>1 DEF WorkersOK
  <2> QED BY <1>4, <2>1 DEF Work, NotesOK, ResultOf
<1>6. PICK own \in R : own.id = th.id /\ own.state = _IN_PROGRESS
  BY <1>1 DEF WorkersOK
<1>7. WorkersOK(R, last, ths2)
  <2>1. \A t \in ths2 : t.id \in 1 .. last
    BY <1>1, <1>2 DEF WorkersOK
  <2>2. \A t \in ths2 : t.step # "ending" => \E r \in R : r.id = t.id /\ r.state = _IN_PROGRESS
    BY <1>1, <1>2 DEF WorkersOK
  <2>3. \A t \in ths2 : \A r \in R : r.id = t.id => r.state # _NOT_YET_STARTED /\ r.key = t.key
    <3>1. \A r \in R : r.id = th.id => r.state # _NOT_YET_STARTED /\ r.key = th.key
      BY <1>1 DEF WorkersOK
    <3>2. \A t \in ths : \A r \in R : r.id = t.id => r.state # _NOT_YET_STARTED /\ r.key = t.key
      BY <1>1 DEF WorkersOK
    <3> QED BY <1>2, <3>1, <3>2
  <2> QED BY <1>2, <2>1, <2>2, <2>3 DEF WorkersOK
<1>8. NotesOK(R, ths2, notes2)
  <2>1. SUFFICES ASSUME NEW i \in 1 .. n + 1, notes2[i].kind = "transfer", notes2[i].id # 0
                 PROVE  /\ \E r \in R : r.id = notes2[i].id /\ r.state = _IN_PROGRESS
                        /\ \A j \in 1 .. n + 1 : ResultOf(notes2[j], notes2[i].id) => i = j
                        /\ \A t \in ths2 : t.id = notes2[i].id => t.step = "ending"
    BY <1>4 DEF NotesOK
  <2>2. CASE i \in 1 .. n
    <3>1. /\ notes2[i] = notes[i] /\ notes[i].id # th.id
      BY <1>4, <1>5, <2>1, <2>2 DEF ResultOf
    <3>2. /\ \E r \in R : r.id = notes[i].id /\ r.state = _IN_PROGRESS
          /\ \A j \in 1 .. n : ResultOf(notes[j], notes[i].id) => i = j
          /\ \A t \in ths : t.id = notes[i].id => t.step = "ending"
      BY <1>4, <2>1, <2>2, <3>1 DEF Work, NotesOK
    <3>3. ~ResultOf(note, notes[i].id)
      BY <3>1 DEF ResultOf
    <3> QED BY <1>2, <1>4, <3>1, <3>2, <3>3
  <2>3. CASE i = n + 1
    <3>1. notes2[i] = note /\ note.id = th.id
      BY <1>4, <2>3 DEF ResultOf
    <3> QED BY <1>2, <1>4, <1>5, <1>6, <2>3, <3>1
  <2> QED BY <1>4, <2>2, <2>3
<1>9. ProgressOK(R, ths2, notes2, stopped)
  <2>1. SUFFICES ASSUME NEW r \in R, r.state = _IN_PROGRESS, r.id \notin stopped
                 PROVE  \/ \E t \in ths2 : t.id = r.id /\ t.step # "ending"
                        \/ \E i \in 1 .. n + 1 : ResultOf(notes2[i], r.id)
    BY <1>4 DEF ProgressOK
  <2>2. CASE r.id = th.id
    BY <1>4, <2>2
  <2>3. CASE r.id # th.id
    <3>1. (\E t \in ths : t.id = r.id /\ t.step # "ending") \/ \E i \in 1 .. n : ResultOf(notes[i], r.id)
      BY <1>4, <2>1 DEF Work, ProgressOK
    <3> QED BY <1>2, <1>4, <2>3, <3>1
  <2> QED BY <2>2, <2>3
<1>10. ResultsOK(R, notes2, outs2)
  <2>1. \A r \in R : r.id = th.id => r.key = th.key
    BY <1>1 DEF WorkersOK
  <2>2. \A i \in 1 .. n + 1 : \A r \in R : ResultOf(notes2[i], r.id) /\ r.key # Null => <<r.key, ResultCode(notes2[i])>> \in outs2
    <3>1. SUFFICES ASSUME NEW i \in 1 .. n + 1, NEW r \in R, ResultOf(notes2[i], r.id), r.key # Null
                   PROVE  <<r.key, ResultCode(notes2[i])>> \in outs2
      OBVIOUS
    <3>2. CASE i \in 1 .. n
      BY <1>4, <3>1, <3>2 DEF Work, ResultsOK
    <3>3. CASE i = n + 1
      BY <1>4, <2>1, <3>1, <3>3 DEF ResultOf
    <3> QED BY <1>4, <3>2, <3>3
  <2>3. \A r \in R : r.state = _COMPLETED /\ r.key # Null => <<r.key, r.fault>> \in outs2
    BY DEF Work, ResultsOK
  <2> QED BY <1>4, <2>2, <2>3 DEF ResultsOK
<1> QED BY <1>1, <1>3, <1>7, <1>8, <1>9, <1>10 DEF Work


\* Another notification waits: it is that of no request.
LEMMA WorkNoted ==
  ASSUME NEW R, NEW last, NEW ths, NEW notes, NEW sent, NEW stopped, NEW outs,
         Work(R, last, ths, notes, sent, stopped, outs),
         NEW note \in Notes, note.kind # "transfer" \/ note.id = 0
  PROVE  Work(R, last, ths, Append(notes, note), sent, stopped, outs)
<1>1. Queue(R, last) /\ notes \in Seq(Notes)
  BY DEF Work, NotesOK
<1>2. PICK n, notes2 : n = Len(notes) /\ notes2 = Append(notes, note)
  OBVIOUS
<1>3. /\ n \in Nat /\ DOMAIN notes = 1 .. n /\ DOMAIN notes2 = 1 .. n + 1 /\ notes2 \in Seq(Notes)
      /\ \A i \in 1 .. n : notes2[i] = notes[i] /\ i \in 1 .. n + 1
      /\ notes2[n + 1] = note /\ n + 1 \in 1 .. n + 1
      /\ \A i \in 1 .. n + 1 : i \in 1 .. n \/ i = n + 1
  <2>1. /\ notes2 \in Seq(Notes) /\ Len(notes2) = Len(notes) + 1
        /\ \A i \in 1 .. Len(notes) : notes2[i] = notes[i]
        /\ notes2[Len(notes) + 1] = note
    BY <1>1, <1>2, AppendProperties
  <2>2. Len(notes) \in Nat /\ DOMAIN notes = 1 .. Len(notes) /\ DOMAIN notes2 = 1 .. Len(notes2)
    BY <1>1, <2>1
  <2> QED BY <1>2, <2>1, <2>2
<1>4. \A r \in R : ~ResultOf(note, r.id)
  <2>1. \A r \in R : r.id # 0
    BY <1>1 DEF Queue
  <2> QED BY <2>1 DEF ResultOf
<1>5. NotesOK(R, ths, notes2)
  <2>1. SUFFICES ASSUME NEW i \in 1 .. n + 1, notes2[i].kind = "transfer", notes2[i].id # 0
                 PROVE  /\ \E r \in R : r.id = notes2[i].id /\ r.state = _IN_PROGRESS
                        /\ \A j \in 1 .. n + 1 : ResultOf(notes2[j], notes2[i].id) => i = j
                        /\ \A th \in ths : th.id = notes2[i].id => th.step = "ending"
    BY <1>3 DEF NotesOK
  <2>2. i \in 1 .. n /\ notes2[i] = notes[i]
    BY <1>3, <2>1
  <2>3. /\ \E r \in R : r.id = notes[i].id /\ r.state = _IN_PROGRESS
        /\ \A j \in 1 .. n : ResultOf(notes[j], notes[i].id) => i = j
        /\ \A th \in ths : th.id = notes[i].id => th.step = "ending"
    BY <1>3, <2>1, <2>2 DEF Work, NotesOK
  <2>4. ~ResultOf(note, notes[i].id)
    BY <2>1, <2>2 DEF ResultOf
  <2> QED BY <1>3, <2>2, <2>3, <2>4
<1>6. ProgressOK(R, ths, notes2, stopped)
  BY <1>3 DEF Work, ProgressOK
<1>7. ResultsOK(R, notes2, outs)
  <2>1. \A i \in 1 .. n + 1 : \A r \in R : ResultOf(notes2[i], r.id) /\ r.key # Null => <<r.key, ResultCode(notes2[i])>> \in outs
    BY <1>3, <1>4 DEF Work, ResultsOK
  <2> QED BY <1>3, <2>1 DEF Work, ResultsOK
<1> QED BY <1>2, <1>5, <1>6, <1>7 DEF Work

\* A request is put in the queue: the result of a transfer of the device, a transfer that waits
\* or one that has its thread.
LEMMA WorkAdded ==
  ASSUME NEW R, NEW last, NEW ths, NEW notes, NEW sent, NEW stopped, NEW outs,
         Work(R, last, ths, notes, sent, stopped, outs),
         NEW e \in Entries, e.id = last + 1, e.state = _COMPLETED => e.key = Null,
         NEW added \in SUBSET Workers,
         \A a, b \in added : a = b,
         \A th \in added : th.id = e.id /\ th.key = e.key /\ th.step # "ending",
         IF e.state = _IN_PROGRESS THEN added # {} ELSE added = {}
  PROVE  Work(R \cup {e}, last + 1, ths \cup added, notes, sent, stopped, outs)
<1>1. /\ R \subseteq Entries /\ last \in Nat
      /\ \A r \in R : r.id \in 1 .. last /\ r.id # e.id
      /\ \A th \in ths : th.id \in 1 .. last /\ th.id # e.id
  BY DEF Work, Queue, WorkersOK
<1>2. PICK R2, last2, ths2 : R2 = R \cup {e} /\ last2 = last + 1 /\ ths2 = ths \cup added
  OBVIOUS
<1>3. last2 \in Nat /\ 1 .. last \subseteq 1 .. last2 /\ 0 .. last \subseteq 0 .. last2 /\ e.id \in 1 .. last2
  BY <1>1, <1>2
<1>4. Queue(R2, last2)
  BY <1>1, <1>2, <1>3 DEF Work, Queue
<1>5. WorkersOK(R2, last2, ths2)
  <2>1. ths2 \subseteq Workers /\ \A a, b \in ths2 : a.id = b.id => a = b
    BY <1>1, <1>2 DEF Work, WorkersOK
  <2>2. \A th \in ths2 : th.id \in 1 .. last2
    BY <1>1, <1>2, <1>3
  <2>3. \A th \in ths2 : th.step # "ending" => \E r \in R2 : r.id = th.id /\ r.state = _IN_PROGRESS
    BY <1>2 DEF Work, WorkersOK
  <2>4. \A th \in ths2 : \A r \in R2 : r.id = th.id => r.state # _NOT_YET_STARTED /\ r.key = th.key
    BY <1>1, <1>2, States DEF Work, WorkersOK
  <2> QED BY <2>1, <2>2, <2>3, <2>4 DEF WorkersOK
<1>6. NotesOK(R2, ths2, notes)
  <2>1. \A i \in DOMAIN notes : (notes[i].kind = "transfer" /\ notes[i].id # 0) =>
          \A th \in ths2 : th.id = notes[i].id => th.step = "ending"
    BY <1>1, <1>2 DEF Work, NotesOK
  <2> QED BY <1>2, <2>1 DEF Work, NotesOK
<1>7. ProgressOK(R2, ths2, notes, stopped)
  BY <1>2 DEF Work, ProgressOK
<1>8. SendingOK(R2, last2, sent)
  <2>1. sent # e.id /\ sent \in 0 .. last2
    BY <1>1, <1>3 DEF Work, SendingOK
  <2> QED BY <1>2, <2>1 DEF Work, SendingOK
<1>9. ResultsOK(R2, notes, outs)
  <2>1. \A i \in DOMAIN notes : ~ResultOf(notes[i], e.id)
    BY <1>1, <1>3 DEF Work, NotesOK, ResultOf
  <2> QED BY <1>2, <2>1 DEF Work, ResultsOK
<1> QED BY <1>2, <1>4, <1>5, <1>6, <1>7, <1>8, <1>9 DEF Work

LEMMA RestOfNotes ==
  ASSUME NEW notes \in Seq(Notes), notes # <<>>
  PROVE  \E n \in Nat :
           /\ DOMAIN notes = 1 .. n + 1 /\ DOMAIN Tail(notes) = 1 .. n /\ Tail(notes) \in Seq(Notes)
           /\ \A i \in 1 .. n : Tail(notes)[i] = notes[i + 1] /\ i + 1 \in 1 .. n + 1
           /\ Head(notes) = notes[1] /\ 1 \in 1 .. n + 1 /\ Head(notes) \in Notes
           /\ \A i \in 1 .. n + 1 : i = 1 \/ \E j \in 1 .. n : i = j + 1
<1>1. PICK n, t : n = Len(notes) /\ t = Tail(notes)
  OBVIOUS
<1>2. /\ t \in Seq(Notes) /\ Len(t) = Len(notes) - 1 /\ Head(notes) \in Notes
      /\ \A i \in 1 .. Len(t) : t[i] = notes[i + 1]
  BY <1>1, HeadTailProperties
<1>3. n \in Nat \ {0} /\ DOMAIN notes = 1 .. n /\ DOMAIN t = 1 .. Len(t) /\ Head(notes) = notes[1]
  BY <1>1, <1>2, EmptySeq
<1>4. n - 1 \in Nat /\ n = (n - 1) + 1
  BY <1>3
<1>5. \A i \in 1 .. n : i # 1 => i - 1 \in 1 .. n - 1 /\ i = (i - 1) + 1
  BY <1>3
<1>6. \A i \in 1 .. n - 1 : t[i] = notes[i + 1] /\ i + 1 \in 1 .. n
  BY <1>1, <1>2, <1>3
<1>7. 1 \in 1 .. n /\ DOMAIN t = 1 .. n - 1
  BY <1>1, <1>2, <1>3
<1> QED BY <1>1, <1>2, <1>3, <1>4, <1>5, <1>6, <1>7

\* One that is that of no request is taken.
LEMMA WorkForgotten ==
  ASSUME NEW R, NEW last, NEW ths, NEW notes, NEW sent, NEW stopped, NEW outs,
         Work(R, last, ths, notes, sent, stopped, outs), notes # <<>>,
         Head(notes).kind # "transfer" \/ Head(notes).id = 0
  PROVE  Work(R, last, ths, Tail(notes), sent, stopped, outs)
<1>1. Queue(R, last) /\ notes \in Seq(Notes)
  BY DEF Work, NotesOK
<1>2. PICK t : t = Tail(notes)
  OBVIOUS
<1>3. PICK n \in Nat :
        /\ DOMAIN notes = 1 .. n + 1 /\ DOMAIN t = 1 .. n /\ t \in Seq(Notes)
        /\ \A i \in 1 .. n : t[i] = notes[i + 1] /\ i + 1 \in 1 .. n + 1
        /\ Head(notes) = notes[1]
        /\ \A i \in 1 .. n + 1 : i = 1 \/ \E j \in 1 .. n : i = j + 1
  BY <1>1, <1>2, RestOfNotes
<1>4. \A i, j \in 1 .. n : i + 1 = j + 1 => i = j
  BY <1>3
<1>5. \A r \in R : ~ResultOf(notes[1], r.id)
  <2>1. \A r \in R : r.id # 0
    BY <1>1 DEF Queue
  <2> QED BY <1>3, <2>1 DEF ResultOf
<1>6. NotesOK(R, ths, t)
  <2>1. SUFFICES ASSUME NEW i \in 1 .. n, t[i].kind = "transfer", t[i].id # 0
                 PROVE  /\ \E r \in R : r.id = t[i].id /\ r.state = _IN_PROGRESS
                        /\ \A j \in 1 .. n : ResultOf(t[j], t[i].id) => i = j
                        /\ \A th \in ths : th.id = t[i].id => th.step = "ending"
    BY <1>3 DEF NotesOK
  <2>2. PICK k \in 1 .. n + 1 : k = i + 1 /\ t[i] = notes[k]
    BY <1>3
  <2>3. notes[k].kind = "transfer" /\ notes[k].id # 0 /\ k \in DOMAIN notes
    BY <1>3, <2>1, <2>2
  <2>4. /\ \E r \in R : r.id = notes[k].id /\ r.state = _IN_PROGRESS
        /\ \A j \in DOMAIN notes : ResultOf(notes[j], notes[k].id) => k = j
        /\ \A th \in ths : th.id = notes[k].id => th.step = "ending"
    BY <2>3 DEF Work, NotesOK
  <2>5. /\ \E r \in R : r.id = t[i].id /\ r.state = _IN_PROGRESS
        /\ \A j \in 1 .. n + 1 : ResultOf(notes[j], t[i].id) => k = j
        /\ \A th \in ths : th.id = t[i].id => th.step = "ending"
    BY <1>3, <2>2, <2>4
  <2>6. \A j \in 1 .. n : ResultOf(t[j], t[i].id) => i = j
    BY <1>3, <1>4, <2>2, <2>5
  <2> QED BY <2>5, <2>6
<1>7. ProgressOK(R, ths, t, stopped)
  <2>1. SUFFICES ASSUME NEW r \in R, \E i \in 1 .. n + 1 : ResultOf(notes[i], r.id)
                 PROVE  \E i \in 1 .. n : ResultOf(t[i], r.id)
    BY <1>3 DEF Work, ProgressOK
  <2> QED BY <1>3, <1>5, <2>1
<1>8. ResultsOK(R, t, outs)
  BY <1>3 DEF Work, ResultsOK
<1> QED BY <1>2, <1>6, <1>7, <1>8 DEF Work

\* A result that waited is processed.
LEMMA WorkDrained ==
  ASSUME NEW R, NEW last, NEW ths, NEW notes, NEW sent, NEW stopped, NEW outs,
         Work(R, last, ths, notes, sent, stopped, outs), notes # <<>>,
         NEW id, NEW fault, Head(notes).kind = "transfer", id = Head(notes).id, id # 0, fault = ResultCode(Head(notes)),
         Queue(Completed(R, id, fault), last)
  PROVE  Work(Completed(R, id, fault), last, ths, Tail(notes), sent, stopped, outs)
<1>1. R \in SUBSET Entries /\ notes \in Seq(Notes) /\ WorkersOK(R, last, ths)
  BY DEF Work, NotesOK, Queue
<1>2. PICK t, R2 : t = Tail(notes) /\ R2 = Completed(R, id, fault)
  OBVIOUS
<1>3. PICK n \in Nat :
        /\ DOMAIN notes = 1 .. n + 1 /\ DOMAIN t = 1 .. n /\ t \in Seq(Notes)
        /\ \A i \in 1 .. n : t[i] = notes[i + 1] /\ i + 1 \in 1 .. n + 1
        /\ Head(notes) = notes[1] /\ 1 \in 1 .. n + 1 /\ Head(notes) \in Notes
        /\ \A i \in 1 .. n + 1 : i = 1 \/ \E j \in 1 .. n : i = j + 1
  BY <1>1, <1>2, RestOfNotes
<1>4. \A i, j \in 1 .. n : (i + 1 = j + 1 => i = j) /\ i + 1 # 1
  BY <1>3
<1>5. fault \in Faults
  BY <1>3, ResultCodes
<1>6. /\ \A x \in R2 : \E r \in R :
           /\ x.id = r.id /\ x.key = r.key
           /\ IF r.id = id THEN x.state = _COMPLETED /\ x.fault = fault ELSE x = r
      /\ \A r \in R : \E x \in R2 :
           /\ x.id = r.id /\ x.key = r.key
           /\ IF r.id = id THEN x.state = _COMPLETED /\ x.fault = fault ELSE x = r
  BY SMTT(30), <1>1, <1>2, <1>5, CompletedOneByOne
<1>7. /\ \A j \in 1 .. n + 1 : ResultOf(notes[j], id) => j = 1
      /\ \A th \in ths : th.id = id => th.step = "ending"
      /\ ResultOf(notes[1], id)
  <2>1. notes[1].kind = "transfer" /\ notes[1].id = id /\ notes[1].id # 0 /\ 1 \in DOMAIN notes
    BY <1>3
  <2>2. /\ \A j \in DOMAIN notes : ResultOf(notes[j], notes[1].id) => 1 = j
        /\ \A th \in ths : th.id = notes[1].id => th.step = "ending"
    BY <2>1 DEF Work, NotesOK
  <2> QED BY <1>3, <2>1, <2>2 DEF ResultOf
<1>8. \A i \in 1 .. n : ~ResultOf(t[i], id)
  BY <1>3, <1>4, <1>7
<1>9. WorkersOK(R2, last, ths)
  <2>1. \A th \in ths : th.step # "ending" => \E x \in R2 : x.id = th.id /\ x.state = _IN_PROGRESS
    <3>1. SUFFICES ASSUME NEW th \in ths, th.step # "ending" PROVE \E x \in R2 : x.id = th.id /\ x.state = _IN_PROGRESS
      OBVIOUS
    <3>2. PICK r \in R : r.id = th.id /\ r.state = _IN_PROGRESS
      BY <1>1, <3>1 DEF WorkersOK
    <3>3. th.id # id
      BY <1>7, <3>1
    <3> QED BY <1>6, <3>2, <3>3
  <2>2. \A th \in ths : \A x \in R2 : x.id = th.id => x.state # _NOT_YET_STARTED /\ x.key = th.key
    BY <1>1, <1>6, States DEF WorkersOK
  <2> QED BY <1>1, <2>1, <2>2 DEF WorkersOK
<1>10. NotesOK(R2, ths, t)
  <2>1. SUFFICES ASSUME NEW i \in 1 .. n, t[i].kind = "transfer", t[i].id # 0
                 PROVE  /\ \E x \in R2 : x.id = t[i].id /\ x.state = _IN_PROGRESS
                        /\ \A j \in 1 .. n : ResultOf(t[j], t[i].id) => i = j
                        /\ \A th \in ths : th.id = t[i].id => th.step = "ending"
    BY <1>3 DEF NotesOK
  <2>2. PICK k \in 1 .. n + 1 : k = i + 1 /\ t[i] = notes[k]
    BY <1>3
  <2>3. notes[k].kind = "transfer" /\ notes[k].id # 0 /\ k \in DOMAIN notes
    BY <1>3, <2>1, <2>2
  <2>4. /\ \E r \in R : r.id = notes[k].id /\ r.state = _IN_PROGRESS
        /\ \A j \in DOMAIN notes : ResultOf(notes[j], notes[k].id) => k = j
        /\ \A th \in ths : th.id = notes[k].id => th.step = "ending"
    BY <2>3 DEF Work, NotesOK
  <2>5. /\ \E r \in R : r.id = t[i].id /\ r.state = _IN_PROGRESS
        /\ \A j \in 1 .. n + 1 : ResultOf(notes[j], t[i].id) => k = j
        /\ \A th \in ths : th.id = t[i].id => th.step = "ending"
    BY <1>3, <2>2, <2>4
  <2>6. \A j \in 1 .. n : ResultOf(t[j], t[i].id) => i = j
    BY <1>3, <1>4, <2>2, <2>5
  <2>7. t[i].id # id
    BY <1>8, <2>1 DEF ResultOf
  <2> QED BY <1>6, <2>5, <2>6, <2>7
<1>11. ProgressOK(R2, ths, t, stopped)
  <2>1. SUFFICES ASSUME NEW x \in R2, x.state = _IN_PROGRESS, x.id \notin stopped,
                        ~\E th \in ths : th.id = x.id /\ th.step # "ending"
                 PROVE  \E i \in 1 .. n : ResultOf(t[i], x.id)
    BY <1>3 DEF ProgressOK
  <2>2. x \in R /\ x.id # id
    BY <1>6, <2>1, States
  <2>3. PICK i \in 1 .. n + 1 : ResultOf(notes[i], x.id)
    BY <1>3, <2>1, <2>2 DEF Work, ProgressOK
  <2>4. i # 1
    BY <1>7, <2>2, <2>3 DEF ResultOf
  <2> QED BY <1>3, <2>3, <2>4
<1>12. SendingOK(R2, last, sent)
  BY <1>6 DEF Work, SendingOK
<1>13. ResultsOK(R2, t, outs)
  <2>1. \A x \in R2 : x.state = _COMPLETED /\ x.key # Null => <<x.key, x.fault>> \in outs
    <3>1. SUFFICES ASSUME NEW x \in R2, x.state = _COMPLETED, x.key # Null PROVE <<x.key, x.fault>> \in outs
      OBVIOUS
    <3>2. PICK r \in R : /\ x.id = r.id /\ x.key = r.key
                         /\ IF r.id = id THEN x.state = _COMPLETED /\ x.fault = fault ELSE x = r
      BY <1>6
    <3>3. CASE r.id = id
      <4>1. ResultOf(notes[1], r.id) /\ ResultCode(notes[1]) = fault
        BY <1>3, <1>7, <3>3
      <4> QED BY <1>3, <3>1, <3>2, <3>3, <4>1 DEF Work, ResultsOK
    <3>4. CASE r.id # id
      BY <3>1, <3>2, <3>4 DEF Work, ResultsOK
    <3> QED BY <3>3, <3>4
  <2>2. \A i \in 1 .. n : \A x \in R2 : ResultOf(t[i], x.id) /\ x.key # Null => <<x.key, ResultCode(t[i])>> \in outs
    <3>1. SUFFICES ASSUME NEW i \in 1 .. n, NEW x \in R2, ResultOf(t[i], x.id), x.key # Null
                   PROVE  <<x.key, ResultCode(t[i])>> \in outs
      OBVIOUS
    <3>2. PICK r \in R : x.id = r.id /\ x.key = r.key
      BY <1>6
    <3>3. PICK k \in DOMAIN notes : t[i] = notes[k]
      BY <1>3
    <3>4. ResultOf(notes[k], r.id)
      BY <3>1, <3>2, <3>3
    <3> QED BY <3>1, <3>2, <3>3, <3>4 DEF Work, ResultsOK
  <2> QED BY <1>3, <2>1, <2>2 DEF ResultsOK
<1> QED BY <1>2, <1>9, <1>10, <1>11, <1>12, <1>13 DEF Work

\* The threads of the transfers that start.
DueThreads(R, time) == {NewThread(r) : r \in {s \in R : s.state = _NOT_YET_STARTED /\ s.due <= time}}

LEMMA NewThreads ==
  ASSUME NEW R \in SUBSET Entries, NEW time
  PROVE  /\ \A th \in DueThreads(R, time) : th \in Workers /\ \E r \in R :
              /\ r.state = _NOT_YET_STARTED /\ r.due <= time
              /\ th = NewThread(r) /\ th.id = r.id /\ th.key = r.key /\ th.step = "created"
         /\ \A r \in R : r.state = _NOT_YET_STARTED /\ r.due <= time =>
              \E th \in DueThreads(R, time) : th.id = r.id /\ th.step = "created"
<1>1. \A r \in Entries : NewThread(r) \in Workers /\ NewThread(r).id = r.id /\ NewThread(r).key = r.key
                         /\ NewThread(r).step = "created"
  BY DEF Entries, NewThread, Workers, Steps
<1> QED BY <1>1 DEF DueThreads

\* The transfers whose time has come start.
LEMMA WorkStarted ==
  ASSUME NEW R, NEW last, NEW ths, NEW notes, NEW sent, NEW stopped, NEW outs, NEW time,
         Work(R, last, ths, notes, sent, stopped, outs), Queue(Started(R, time), last)
  PROVE  Work(Started(R, time), last, ths \cup DueThreads(R, time), notes, sent, stopped, outs)
<1>1. R \in SUBSET Entries /\ WorkersOK(R, last, ths) /\ Queue(R, last)
  BY DEF Work, Queue
<1>2. PICK R2, new, ths2 : R2 = Started(R, time) /\ new = DueThreads(R, time) /\ ths2 = ths \cup new
  OBVIOUS
<1>3. /\ \A x \in R2 : \E r \in R :
           /\ x.id = r.id /\ x.key = r.key /\ x.fault = r.fault
           /\ IF r.state = _NOT_YET_STARTED /\ r.due <= time THEN x.state = _IN_PROGRESS ELSE x = r
      /\ \A r \in R : \E x \in R2 :
           /\ x.id = r.id /\ x.key = r.key /\ x.fault = r.fault
           /\ IF r.state = _NOT_YET_STARTED /\ r.due <= time THEN x.state = _IN_PROGRESS ELSE x = r
  BY <1>1, <1>2, StartedOneByOne
<1>4. /\ \A th \in new : th \in Workers /\ \E r \in R :
           /\ r.state = _NOT_YET_STARTED /\ r.due <= time
           /\ th = NewThread(r) /\ th.id = r.id /\ th.key = r.key /\ th.step = "created"
      /\ \A r \in R : r.state = _NOT_YET_STARTED /\ r.due <= time =>
           \E th \in new : th.id = r.id /\ th.step = "created"
  BY <1>1, <1>2, NewThreads
<1>5. \A r, s \in R : r.id = s.id => r = s
  BY <1>1 DEF Queue
<1>6. \A a \in new, b \in ths : a.id # b.id
  BY <1>1, <1>4 DEF WorkersOK
<1>7. WorkersOK(R2, last, ths2)
  <2>1. ths2 \subseteq Workers
    BY <1>1, <1>2, <1>4 DEF WorkersOK
  <2>2. \A a, b \in new : a.id = b.id => a = b
    BY <1>4, <1>5
  <2>3. \A a, b \in ths2 : a.id = b.id => a = b
    BY <1>1, <1>2, <1>6, <2>2 DEF WorkersOK
  <2>4. \A th \in ths2 : th.id \in 1 .. last
    BY <1>1, <1>2, <1>4 DEF WorkersOK, Queue
  <2>5. \A th \in ths2 : th.step # "ending" => \E x \in R2 : x.id = th.id /\ x.state = _IN_PROGRESS
    <3>1. SUFFICES ASSUME NEW th \in ths2, th.step # "ending" PROVE \E x \in R2 : x.id = th.id /\ x.state = _IN_PROGRESS
      OBVIOUS
    <3>2. CASE th \in ths
      <4>1. PICK r \in R : r.id = th.id /\ r.state = _IN_PROGRESS
        BY <1>1, <3>1, <3>2 DEF WorkersOK
      <4> QED BY <1>3, <4>1, States
    <3>3. CASE th \in new
      <4>1. PICK r \in R : r.id = th.id /\ r.state = _NOT_YET_STARTED /\ r.due <= time
        BY <1>4, <3>3
      <4> QED BY <1>3, <4>1
    <3> QED BY <1>2, <3>1, <3>2, <3>3
  <2>6. \A th \in ths2 : \A x \in R2 : x.id = th.id => x.state # _NOT_YET_STARTED /\ x.key = th.key
    <3>1. SUFFICES ASSUME NEW th \in ths2, NEW x \in R2, x.id = th.id PROVE x.state # _NOT_YET_STARTED /\ x.key = th.key
      OBVIOUS
    <3>2. PICK r \in R : /\ x.id = r.id /\ x.key = r.key
                         /\ IF r.state = _NOT_YET_STARTED /\ r.due <= time THEN x.state = _IN_PROGRESS ELSE x = r
      BY <1>3
    <3>3. CASE th \in ths
      BY <1>1, <3>1, <3>2, <3>3, States DEF WorkersOK
    <3>4. CASE th \in new
      <4>1. PICK s \in R : s.state = _NOT_YET_STARTED /\ s.due <= time /\ th.id = s.id /\ th.key = s.key
        BY <1>4, <3>4
      <4>2. r = s
        BY <1>5, <3>1, <3>2, <4>1
      <4> QED BY <3>2, <4>1, <4>2, States
    <3> QED BY <1>2, <3>3, <3>4
  <2> QED BY <2>1, <2>3, <2>4, <2>5, <2>6 DEF WorkersOK
<1>8. NotesOK(R2, ths2, notes)
  <2>1. \A i \in DOMAIN notes : (notes[i].kind = "transfer" /\ notes[i].id # 0) =>
          /\ \E x \in R2 : x.id = notes[i].id /\ x.state = _IN_PROGRESS
          /\ \A th \in ths2 : th.id = notes[i].id => th.step = "ending"
    <3>1. SUFFICES ASSUME NEW i \in DOMAIN notes, notes[i].kind = "transfer", notes[i].id # 0
                   PROVE  /\ \E x \in R2 : x.id = notes[i].id /\ x.state = _IN_PROGRESS
                          /\ \A th \in ths2 : th.id = notes[i].id => th.step = "ending"
      OBVIOUS
    <3>2. PICK r \in R : r.id = notes[i].id /\ r.state = _IN_PROGRESS
      BY <3>1 DEF Work, NotesOK
    <3>3. \A th \in ths : th.id = notes[i].id => th.step = "ending"
      BY <3>1 DEF Work, NotesOK
    <3>4. \A th \in new : th.id # notes[i].id
      BY <1>4, <1>5, <3>2, States
    <3>5. \E x \in R2 : x.id = notes[i].id /\ x.state = _IN_PROGRESS
      BY <1>3, <3>2, States
    <3> QED BY <1>2, <3>3, <3>4, <3>5
  <2> QED BY <2>1 DEF Work, NotesOK
<1>9. ProgressOK(R2, ths2, notes, stopped)
  <2>1. SUFFICES ASSUME NEW x \in R2, x.state = _IN_PROGRESS, x.id \notin stopped
                 PROVE  \/ \E th \in ths2 : th.id = x.id /\ th.step # "ending"
                        \/ \E i \in DOMAIN notes : ResultOf(notes[i], x.id)
    BY DEF ProgressOK
  <2>2. PICK r \in R : /\ x.id = r.id
                       /\ IF r.state = _NOT_YET_STARTED /\ r.due <= time THEN x.state = _IN_PROGRESS ELSE x = r
    BY <1>3
  <2>3. CASE r.state = _NOT_YET_STARTED /\ r.due <= time
    <3>1. PICK th \in new : th.id = r.id /\ th.step = "created"
      BY <1>4, <2>3
    <3> QED BY <1>2, <2>2, <3>1
  <2>4. CASE ~(r.state = _NOT_YET_STARTED /\ r.due <= time)
    BY <1>2, <2>1, <2>2, <2>4 DEF Work, ProgressOK
  <2> QED BY <2>3, <2>4
<1>10. SendingOK(R2, last, sent)
  BY <1>3, States DEF Work, SendingOK
<1>11. ResultsOK(R2, notes, outs)
  <2>1. \A x \in R2 : x.state = _COMPLETED /\ x.key # Null => <<x.key, x.fault>> \in outs
    BY <1>3, States DEF Work, ResultsOK
  <2>2. \A i \in DOMAIN notes : \A x \in R2 : ResultOf(notes[i], x.id) /\ x.key # Null => <<x.key, ResultCode(notes[i])>> \in outs
    BY <1>3 DEF Work, ResultsOK
  <2> QED BY <2>1, <2>2 DEF ResultsOK
<1> QED BY <1>2, <1>7, <1>8, <1>9, <1>10, <1>11 DEF Work

\* A result is confirmed.
LEMMA WorkConfirmed ==
  ASSUME NEW R, NEW last, NEW ths, NEW notes, NEW sent, NEW stopped, NEW outs,
         Work(R, last, ths, notes, sent, stopped, outs)
  PROVE  /\ Work(Without(R, sent), last, ths, notes, 0, stopped, outs)
         /\ Work(R, last, ths, notes, 0, stopped, outs)
<1>1. PICK R2 : R2 = Without(R, sent)
  OBVIOUS
<1>2. /\ R2 \subseteq R
      /\ \A r \in R : r.state = _IN_PROGRESS => r \in R2
  BY <1>1, States DEF Without, Work, SendingOK
<1>3. last \in Nat /\ \A r \in R : r.id # 0
  BY DEF Work, Queue
<1>4. SendingOK(R2, last, 0) /\ SendingOK(R, last, 0)
  BY <1>2, <1>3 DEF SendingOK
<1>5. Queue(R2, last)
  BY <1>2 DEF Work, Queue
<1>6. WorkersOK(R2, last, ths)
  BY <1>2 DEF Work, WorkersOK
<1>7. NotesOK(R2, ths, notes)
  BY <1>2 DEF Work, NotesOK
<1>8. ProgressOK(R2, ths, notes, stopped)
  BY <1>2 DEF Work, ProgressOK
<1>9. ResultsOK(R2, notes, outs)
  BY <1>2 DEF Work, ResultsOK
<1> QED BY <1>1, <1>4, <1>5, <1>6, <1>7, <1>8, <1>9 DEF Work

\* A thread goes on, or ends once it has told its result.
LEMMA WorkStep ==
  ASSUME NEW R, NEW last, NEW ths, NEW notes, NEW sent, NEW stopped, NEW outs,
         Work(R, last, ths, notes, sent, stopped, outs),
         NEW th \in ths, NEW step \in Steps \ {"ending"}
  PROVE  /\ th.step # "ending" => Work(R, last, (ths \ {th}) \cup {Stepped(th, step)}, notes, sent, stopped, outs)
         /\ th.step = "ending" => Work(R, last, ths \ {th}, notes, sent, stopped, outs)
<1>1. WorkersOK(R, last, ths)
  BY DEF Work
<1>2. PICK w : w = Stepped(th, step)
  OBVIOUS
<1>3. w \in Workers /\ w.id = th.id /\ w.key = th.key /\ w.step # "ending"
  BY <1>1, <1>2, SteppedThread DEF WorkersOK
<1>4. ASSUME th.step # "ending" PROVE Work(R, last, (ths \ {th}) \cup {w}, notes, sent, stopped, outs)
  <2>1. PICK ths2 : ths2 = (ths \ {th}) \cup {w}
    OBVIOUS
  <2>2. WorkersOK(R, last, ths2)
    BY <1>1, <1>3, <1>4, <2>1 DEF WorkersOK
  <2>3. NotesOK(R, ths2, notes)
    BY <1>3, <1>4, <2>1 DEF Work, NotesOK
  <2>4. ProgressOK(R, ths2, notes, stopped)
    BY <1>3, <2>1 DEF Work, ProgressOK
  <2> QED BY <2>1, <2>2, <2>3, <2>4 DEF Work
<1>5. ASSUME th.step = "ending" PROVE Work(R, last, ths \ {th}, notes, sent, stopped, outs)
  <2>1. PICK ths2 : ths2 = ths \ {th}
    OBVIOUS
  <2>2. WorkersOK(R, last, ths2)
    BY <1>1, <2>1 DEF WorkersOK
  <2>3. NotesOK(R, ths2, notes)
    BY <2>1 DEF Work, NotesOK
  <2>4. ProgressOK(R, ths2, notes, stopped)
    BY <1>5, <2>1 DEF Work, ProgressOK
  <2> QED BY <2>1, <2>2, <2>3, <2>4 DEF Work
<1> QED BY <1>2, <1>4, <1>5

\* A result is sent.
LEMMA WorkSent ==
  ASSUME NEW R, NEW last, NEW ths, NEW notes, NEW sent, NEW stopped, NEW outs,
         Work(R, last, ths, notes, sent, stopped, outs), NEW r \in R, r.state = _COMPLETED
  PROVE  Work(R, last, ths, notes, r.id, stopped, outs)
<1>1. r.id \in 0 .. last /\ \A s \in R : s.id = r.id => s.state = _COMPLETED
  BY DEF Work, Queue
<1>2. SendingOK(R, last, r.id)
  BY <1>1 DEF SendingOK
<1> QED BY <1>2 DEF Work

\* The agent starts: nobody works on the transfers that were in progress.
LEMMA WorkBooted ==
  ASSUME NEW R, NEW last, NEW stopped, NEW outs,
         Queue(R, last), ResultsOK(R, <<>>, outs), \A r \in R : r.state = _IN_PROGRESS => r.id \in stopped
  PROVE  Work(R, last, {}, <<>>, 0, stopped, outs)
<1>1. WorkersOK(R, last, {}) /\ ProgressOK(R, {}, <<>>, stopped)
  BY DEF WorkersOK, ProgressOK
<1>2. NotesOK(R, {}, <<>>)
  BY EmptySeq DEF NotesOK
<1>3. SendingOK(R, last, 0)
  BY DEF Queue, SendingOK
<1> QED BY <1>1, <1>2, <1>3 DEF Work

-----------------------------------------------------------------------------
(* The transfers and those who work on them, in the states of the system *)

EnginePlaces == {"off", "idle", "locking", "building", "managing", "ended", "inform", "session", "unlocking",
                 "draining"}

Types ==
  /\ Valid(ctrl) /\ Valid(disk)
  /\ now \in Nat \ {0}
  /\ engine \in EnginePlaces
  /\ pendingEvents \in SUBSET Events
  /\ commands \in 0 .. Len(Keys)

\* When the agent is off, and between the sessions.
AtRest ==
  /\ engine = "off" => ctrl = EmptyControl /\ threads = {} /\ ui = "waiting" /\ ~listeners
  /\ engine = "off" => pendingChanges = <<>>
  /\ engine # "session" => sending = 0 /\ ~asking

\* Everybody works on a transfer that there is; the results of the file are those there were.
WorkInv ==
  /\ Work(Records(ctrl), ctrl.lastId, threads, pendingChanges, sending, interrupted, outcomes)
  /\ ResultsOK(Records(disk), <<>>, outcomes)

BaseInv == Types /\ AtRest /\ WorkInv

LEMMA QueueOfControl ==
  ASSUME NEW c, Valid(c)
  PROVE  Queue(Records(c), c.lastId)
BY QueueOf, RecordsOf DEF Queue

\* What is in memory is saved.
LEMMA SavedResults ==
  ASSUME NEW R, NEW last, NEW ths, NEW notes, NEW sent, NEW stopped, NEW outs,
         Work(R, last, ths, notes, sent, stopped, outs)
  PROVE  ResultsOK(R, <<>>, outs)
BY DEF Work, ResultsOK

\* More results.
LEMMA MoreResults ==
  ASSUME NEW R, NEW notes, NEW outs, NEW outs2, outs \subseteq outs2, ResultsOK(R, notes, outs)
  PROVE  ResultsOK(R, notes, outs2)
BY DEF ResultsOK

\* An event without command key is remembered.
LEMMA EventAdded ==
  ASSUME NEW events \in SUBSET Events, NEW code \in Codes
  PROVE  /\ events \cup {Event(code)} \in SUBSET Events
         /\ EventKeys(events \cup {Event(code)}) = EventKeys(events)
<1>1. Event(code) = <<code, Null>>
  BY DEF Event
<1>2. Event(code) \in Events /\ Event(code)[2] = Null
  BY <1>1, KeysOfCommands DEF Events
<1> QED BY <1>2 DEF EventKeys

LEMMA EventCodes ==
  ASSUME NEW c, NEW note
  PROVE  EventOf(c, note) \in Codes
<1>1. {"7 TRANSFER COMPLETE", "10 AUTONOMOUS TRANSFER COMPLETE", "9 REQUEST DOWNLOAD", "X event"} \subseteq Codes
  BY Zenon DEF Codes
<1>2. EventOf(c, note) \in {"7 TRANSFER COMPLETE", "10 AUTONOMOUS TRANSFER COMPLETE", "9 REQUEST DOWNLOAD", "X event"}
  <2>1. CASE note.kind = "transfer"
    BY <2>1, Zenon DEF EventOf
  <2>2. CASE note.kind = "request"
    BY <2>2, Zenon DEF EventOf
  <2>3. CASE note.kind # "transfer" /\ note.kind # "request"
    BY <2>3, Zenon DEF EventOf
  <2> QED BY <2>1, <2>2, <2>3
<1> QED BY <1>1, <1>2

\* DM_ENG_ParameterManager_transferComplete and its like: processed at once, or queued.
Notify(note) == Processes(note) \/ Enqueue(note)

LEMMA ProcessesEffect ==
  ASSUME BaseInv, NEW note \in Notes, Processes(note)
  PROVE  /\ Valid(ctrl') /\ disk' = ctrl' /\ saved' = saved \cup CommandKeys(ctrl') /\ Rest(ctrl') = Rest(ctrl)
         /\ pendingEvents' \in SUBSET Events /\ EventKeys(pendingEvents') = EventKeys(pendingEvents)
         /\ engine = "idle" /\ engine' \in {"idle", "draining"} /\ UNCHANGED pendingChanges
         /\ Records(ctrl') = Processed(Records(ctrl), ctrl.lastId, note)
         /\ ctrl'.lastId = (IF note.kind = "transfer" /\ note.id = 0 THEN ctrl.lastId + 1 ELSE ctrl.lastId)
<1>1. Valid(ctrl) /\ pendingEvents \in SUBSET Events
  BY DEF BaseInv, Types
<1>2. PICK c : c = processed(ctrl, note)
  OBVIOUS
<1>3. /\ engine = "idle" /\ engine' \in {"idle", "draining"} /\ UNCHANGED pendingChanges
      /\ ctrl' = c /\ disk' = c /\ saved' = saved \cup CommandKeys(c)
      /\ pendingEvents' = pendingEvents \cup {Event(EventOf(ctrl, note))}
  BY <1>2 DEF Processes, Sync, Saves
<1>4. pendingEvents' \in SUBSET Events /\ EventKeys(pendingEvents') = EventKeys(pendingEvents)
  BY <1>1, <1>3, EventAdded, EventCodes
<1>5. /\ Valid(c) /\ Records(c) = Processed(Records(ctrl), ctrl.lastId, note)
      /\ c.lastId = (IF note.kind = "transfer" /\ note.id = 0 THEN ctrl.lastId + 1 ELSE ctrl.lastId)
      /\ Rest(c) = Rest(ctrl)
  BY <1>1, <1>2, ProcessedEffect
<1> QED BY <1>3, <1>4, <1>5

\* A notification that is that of no request.
LEMMA OtherNotified ==
  ASSUME BaseInv, NEW note \in Notes, Notify(note), note.kind # "transfer" \/ note.id = 0,
         UNCHANGED <<threads, sending, interrupted, outcomes>>
  PROVE  WorkInv'
<1>1. PICK R, last, ths, notes, sent, stopped, outs :
        /\ R = Records(ctrl) /\ last = ctrl.lastId /\ ths = threads /\ notes = pendingChanges
        /\ sent = sending /\ stopped = interrupted /\ outs = outcomes
  OBVIOUS
<1>2. Work(R, last, ths, notes, sent, stopped, outs) /\ ResultsOK(Records(disk), <<>>, outs)
  BY <1>1 DEF BaseInv, WorkInv
<1>3. CASE Processes(note)
  <2>1. /\ pendingChanges' = notes /\ disk' = ctrl'
        /\ Records(ctrl') = Processed(R, last, note)
        /\ ctrl'.lastId = (IF note.kind = "transfer" /\ note.id = 0 THEN last + 1 ELSE last)
    BY <1>1, <1>3, ProcessesEffect
  <2>2. CASE note.kind # "transfer"
    <3>1. Records(ctrl') = R /\ ctrl'.lastId = last
      BY <2>1, <2>2 DEF Processed
    <3>2. ResultsOK(R, <<>>, outs)
      BY <1>2, SavedResults
    <3> QED BY <1>1, <1>2, <2>1, <3>1, <3>2 DEF WorkInv
  <2>3. CASE note.kind = "transfer"
    <3>1. PICK e : e = [Transfer(TRUE, Null, "http", 0, _COMPLETED, note.fault, FALSE) EXCEPT !.id = last + 1]
      OBVIOUS
    <3>2. last + 1 \in Nat /\ note.fault \in Faults /\ _COMPLETED \in 1 .. 3
      BY <1>2, States DEF Work, Queue, Notes
    <3>3. e \in Entries /\ e.id = last + 1 /\ e.key = Null /\ e.state # _IN_PROGRESS
      <4>1. Null \in KeySet /\ "http" \in Urls
        BY DEF KeySet, Urls
      <4> QED BY <3>1, <3>2, <4>1, States DEF Transfer, Entries
    <3>4. Records(ctrl') = R \cup {e} /\ ctrl'.lastId = last + 1
      BY <2>1, <2>3, <3>1 DEF Processed
    <3>5. PICK none : none = {}
      OBVIOUS
    <3>6. Work(R \cup {e}, last + 1, ths \cup none, notes, sent, stopped, outs)
      <4>1. none \in SUBSET Workers /\ none = {} /\ \A th \in none : FALSE
        BY <3>5
      <4> QED BY <1>2, <3>3, <4>1, WorkAdded
    <3>7. Work(R \cup {e}, last + 1, ths, notes, sent, stopped, outs)
      <4>1. ths \cup none = ths
        BY <3>5
      <4> QED BY <3>6, <4>1
    <3>8. ResultsOK(R \cup {e}, <<>>, outs)
      BY <3>7, SavedResults
    <3> QED BY <1>1, <2>1, <3>4, <3>7, <3>8 DEF WorkInv
  <2> QED BY <2>2, <2>3
<1>4. CASE Enqueue(note)
  <2>1. ctrl' = ctrl /\ disk' = disk /\ pendingChanges' = Append(notes, note)
    BY <1>1, <1>4 DEF Enqueue
  <2>2. Work(R, last, ths, Append(notes, note), sent, stopped, outs)
    BY <1>2, WorkNoted
  <2> QED BY <1>1, <1>2, <2>1, <2>2 DEF WorkInv
<1> QED BY <1>3, <1>4 DEF Notify

\* What a step does that leaves the transfers and those who work on them alone.
LEMMA BaseKept ==
  ASSUME BaseInv, UNCHANGED <<ctrl, disk, threads, pendingChanges, interrupted, outcomes, commands, pendingEvents>>,
         now' \in Nat \ {0}, engine' \in EnginePlaces, AtRest', sending' \in {sending, 0}
  PROVE  BaseInv'
<1>1. Types'
  BY DEF BaseInv, Types
<1>2. Work(Records(ctrl), ctrl.lastId, threads, pendingChanges, sending', interrupted, outcomes)
  BY WorkConfirmed DEF BaseInv, WorkInv
<1>3. WorkInv'
  BY <1>2 DEF BaseInv, WorkInv
<1> QED BY <1>1, <1>3 DEF BaseInv

\* Types and places, after a notification.
LEMMA NotifiedTypes ==
  ASSUME BaseInv, NEW note \in Notes, Notify(note), UNCHANGED <<now, commands, sending, asking, listeners>>,
         engine # "off"
  PROVE  Types' /\ AtRest'
<1>1. CASE Processes(note)
  BY <1>1, ProcessesEffect DEF BaseInv, Types, AtRest, EnginePlaces
<1>2. CASE Enqueue(note)
  BY <1>2 DEF Enqueue, BaseInv, Types, AtRest
<1> QED BY <1>1, <1>2 DEF Notify

LEMMA ThreadOf ==
  ASSUME BaseInv, NEW th \in threads
  PROVE  th \in Workers /\ th.id \in Nat \ {0} /\ engine # "off" /\ th.key \in KeySet
<1>1. WorkersOK(Records(ctrl), ctrl.lastId, threads)
  BY DEF BaseInv, WorkInv, Work
<1>2. th \in Workers /\ th.id \in 1 .. ctrl.lastId
  BY <1>1 DEF WorkersOK
<1>3. ctrl.lastId \in Nat
  BY QueueOf DEF BaseInv, Types
<1>4. engine # "off"
  BY DEF BaseInv, AtRest
<1> QED BY <1>2, <1>3, <1>4 DEF Workers

\* A thread before its transfer.
LEMMA BaseThreadGoesOn ==
  ASSUME BaseInv, NEW th \in threads, ThreadLocks(th) \/ ThreadReadsName(th) \/ ThreadIsRefused(th)
  PROVE  BaseInv'
<1>1. PICK step \in Steps \ {"ending"} :
        /\ th.step # "ending" /\ threads' = (threads \ {th}) \cup {Stepped(th, step)}
        /\ UNCHANGED <<ctrl, disk, now, engine, pendingEvents, pendingChanges, sending, asking, listeners, ui, commands, ghosts>>
  <2>1. CASE ThreadLocks(th)
    BY <2>1 DEF ThreadLocks, Becomes, Stepped, Steps
  <2>2. CASE ThreadReadsName(th)
    BY <2>2 DEF ThreadReadsName, Becomes, Stepped, Steps, counters
  <2>3. CASE ThreadIsRefused(th)
    BY <2>3 DEF ThreadIsRefused, Refused, Becomes, Stepped, Steps, counters, ghosts
  <2> QED BY <2>1, <2>2, <2>3
<1>2. engine # "off"
  BY ThreadOf
<1>3. Types' /\ AtRest'
  BY <1>1, <1>2 DEF BaseInv, Types, AtRest
<1>4. Work(Records(ctrl), ctrl.lastId, (threads \ {th}) \cup {Stepped(th, step)}, pendingChanges, sending, interrupted, outcomes)
  BY <1>1, WorkStep DEF BaseInv, WorkInv
<1>5. WorkInv'
  BY <1>1, <1>4 DEF BaseInv, WorkInv, ghosts
<1> QED BY <1>3, <1>5 DEF BaseInv

LEMMA BaseThreadEnds ==
  ASSUME BaseInv, NEW th \in threads, ThreadEnds(th)
  PROVE  BaseInv'
<1>1. /\ th.step = "ending" /\ threads' = threads \ {th}
      /\ UNCHANGED <<ctrl, disk, now, engine, pendingEvents, pendingChanges, sending, asking, listeners, ui, commands, ghosts>>
  BY DEF ThreadEnds, counters
<1>2. engine # "off"
  BY ThreadOf
<1>3. Types' /\ AtRest'
  BY <1>1, <1>2 DEF BaseInv, Types, AtRest
<1>4. Work(Records(ctrl), ctrl.lastId, threads \ {th}, pendingChanges, sending, interrupted, outcomes)
  <2>1. "created" \in Steps \ {"ending"}
    BY DEF Steps
  <2> QED BY <1>1, <2>1, WorkStep DEF BaseInv, WorkInv
<1>5. WorkInv'
  BY <1>1, <1>4 DEF BaseInv, WorkInv, ghosts
<1> QED BY <1>3, <1>5 DEF BaseInv

\* The result of a transfer is one of the faults.
LEMMA ResultNoted ==
  ASSUME BaseInv, NEW th \in threads, NEW note \in Results(th)
  PROVE  note \in Notes /\ note.kind = "transfer" /\ note.id = th.id /\ note.id # 0 /\ ResultOf(note, th.id)
<1>1. PICK reply \in Replies, after \in Actions : note = Note("transfer", th.id, TransferResult(th.download, th.url, reply), after)
  BY DEF Results
<1>2. th.id \in Nat \ {0} /\ th.download \in BOOLEAN /\ th.url \in Urls
  BY ThreadOf DEF Workers
<1>3. PICK fault : fault = TransferResult(th.download, th.url, reply)
  OBVIOUS
<1>4. fault \in Faults /\ after \in Faults
  BY <1>2, <1>3 DEF Faults
<1>5. note = Note("transfer", th.id, fault, after)
  BY <1>1, <1>3
<1> QED BY <1>2, <1>4, <1>5 DEF Note, Notes, ResultOf

\* The end of a transfer, whose result is processed or queued.
LEMMA ThreadEffect ==
  ASSUME BaseInv, NEW th \in threads, ThreadTransfers(th) \/ ThreadQueues(th)
  PROVE  /\ \E note \in Notes :
              /\ Notify(note) /\ note.kind = "transfer" /\ note.id = th.id /\ note.id # 0 /\ ResultOf(note, th.id)
              /\ outcomes' = IF th.key = Null THEN outcomes ELSE outcomes \cup {<<th.key, ResultCode(note)>>}
         /\ IF th.key = Null THEN threads' = threads \ {th} ELSE threads' = (threads \ {th}) \cup {Stepped(th, "ending")}
         /\ th.step \in {"transferring", "refused"} /\ engine # "off"
         /\ UNCHANGED <<now, ui, sending, asking, listeners, commands, told, interrupted, lost, deviceVars>>
<1>1. PICK note \in Results(th) : Notify(note) /\ Over(th, note)
  BY DEF ThreadTransfers, ThreadQueues, Notify
<1>2. note \in Notes /\ note.kind = "transfer" /\ note.id = th.id /\ note.id # 0 /\ ResultOf(note, th.id)
  BY ResultNoted
<1>3. /\ outcomes' = IF th.key = Null THEN outcomes ELSE outcomes \cup {<<th.key, ResultCode(note)>>}
      /\ IF th.key = Null THEN threads' = threads \ {th} ELSE threads' = (threads \ {th}) \cup {Stepped(th, "ending")}
  BY <1>1 DEF Over, Becomes, Stepped
<1>4. /\ th.step \in {"transferring", "refused"}
      /\ UNCHANGED <<now, ui, sending, asking, listeners, commands, told, interrupted, lost, deviceVars>>
  BY DEF ThreadTransfers, ThreadQueues, counters
<1> QED BY <1>1, <1>2, <1>3, <1>4, ThreadOf

LEMMA BaseThreadTransfers ==
  ASSUME BaseInv, NEW th \in threads, ThreadTransfers(th) \/ ThreadQueues(th)
  PROVE  BaseInv'
<1>1. PICK note \in Notes :
        /\ Notify(note) /\ note.kind = "transfer" /\ note.id = th.id /\ note.id # 0 /\ ResultOf(note, th.id)
        /\ outcomes' = IF th.key = Null THEN outcomes ELSE outcomes \cup {<<th.key, ResultCode(note)>>}
  BY ThreadEffect
<1>2. /\ threads' = threads \ {th} \/ threads' = (threads \ {th}) \cup {Stepped(th, "ending")}
      /\ th.step # "ending" /\ engine # "off"
      /\ UNCHANGED <<now, ui, sending, asking, listeners, commands, told, interrupted, lost>>
  BY ThreadEffect
<1>3. PICK fault : fault = ResultCode(note)
  OBVIOUS
<1>4. fault \in Faults
  BY <1>3, ResultCodes
<1>5. Types' /\ AtRest'
  BY <1>1, <1>2, NotifiedTypes
<1>6. PICK R, last, ths, notes, sent, stopped, outs, ths2, outs2 :
        /\ R = Records(ctrl) /\ last = ctrl.lastId /\ ths = threads /\ notes = pendingChanges
        /\ sent = sending /\ stopped = interrupted /\ outs = outcomes /\ ths2 = threads' /\ outs2 = outcomes'
  OBVIOUS
<1>7. Work(R, last, ths, notes, sent, stopped, outs) /\ ResultsOK(Records(disk), <<>>, outs)
  BY <1>6 DEF BaseInv, WorkInv
<1>8. /\ th \in ths /\ Told(ths, th, ths2) /\ outs \subseteq outs2
      /\ th.key # Null => <<th.key, fault>> \in outs2
  BY <1>1, <1>2, <1>3, <1>6 DEF Told
<1>9. CASE Processes(note)
  <2>1. /\ pendingChanges' = notes /\ disk' = ctrl' /\ Valid(ctrl')
        /\ Records(ctrl') = Completed(R, th.id, fault) /\ ctrl'.lastId = last
    BY <1>1, <1>3, <1>6, <1>9, ProcessesEffect DEF Processed
  <2>2. Queue(Completed(R, th.id, fault), last)
    <3>1. PICK c : c = ctrl'
      OBVIOUS
    <3> QED BY <2>1, <3>1, QueueOfControl
  <2>3. Work(Completed(R, th.id, fault), last, ths2, notes, sent, stopped, outs2)
    BY <1>2, <1>4, <1>7, <1>8, <2>2, WorkTold
  <2>4. ResultsOK(Completed(R, th.id, fault), <<>>, outs2)
    BY <2>3, SavedResults
  <2>5. WorkInv'
    BY <1>2, <1>6, <2>1, <2>3, <2>4 DEF WorkInv
  <2> QED BY <1>5, <2>5 DEF BaseInv
<1>10. CASE Enqueue(note)
  <2>1. ctrl' = ctrl /\ disk' = disk /\ pendingChanges' = Append(notes, note)
    BY <1>6, <1>10 DEF Enqueue
  <2>2. Work(R, last, ths2, Append(notes, note), sent, stopped, outs2)
    BY <1>1, <1>2, <1>3, <1>7, <1>8, WorkQueued
  <2>3. ResultsOK(Records(disk), <<>>, outs2)
    BY <1>7, <1>8, MoreResults
  <2>4. WorkInv'
    BY <1>2, <1>6, <2>1, <2>2, <2>3 DEF WorkInv
  <2> QED BY <1>5, <2>4 DEF BaseInv
<1> QED BY <1>1, <1>9, <1>10 DEF Notify

\* The steps of the user interface and of the file, and those of the engine that only change
\* its place.
LEMMA BaseOthers ==
  ASSUME BaseInv, \/ UiBegins \/ UiSaves \/ UiFrees \/ EngineSaves \/ Saving \/ Tick
         \/ Wake \/ EngineOpens \/ NotifierUnlocks \/ CloseSession \/ SessionFails
  PROVE  BaseInv'
<1>1. UNCHANGED <<ctrl, disk, threads, pendingChanges, interrupted, outcomes, commands, pendingEvents>>
  BY DEF UiBegins, UiSaves, UiFrees, EngineSaves, Saving, Tick, Wake, EngineOpens, NotifierUnlocks, CloseSession, SessionFails, counters, ghosts
<1>2. now' \in Nat \ {0}
  <2>1. now \in Nat \ {0}
    BY DEF BaseInv, Types
  <2> QED BY <2>1 DEF UiBegins, UiSaves, UiFrees, EngineSaves, Saving, Tick, Wake, EngineOpens, NotifierUnlocks, CloseSession, SessionFails
<1>3. engine' \in EnginePlaces /\ sending' \in {sending, 0}
  <2>1. engine \in EnginePlaces
    BY DEF BaseInv, Types
  <2> QED BY <2>1 DEF UiBegins, UiSaves, UiFrees, EngineSaves, Saving, Tick, Wake, EngineOpens, NotifierUnlocks, CloseSession, SessionFails, EnginePlaces
<1>4. AtRest'
  <2>1. AtRest
    BY DEF BaseInv
  <2>2. CASE UiBegins
    BY <1>1, <2>1, <2>2 DEF UiBegins, AtRest
  <2>3. CASE UiSaves \/ UiFrees
    BY <1>1, <2>1, <2>3 DEF UiSaves, UiFrees, AtRest
  <2>4. CASE EngineSaves \/ Saving
    BY <1>1, <2>1, <2>4 DEF EngineSaves, Saving, AtRest
  <2>5. CASE Tick \/ Wake
    BY <1>1, <2>1, <2>5 DEF Tick, Wake, AtRest
  <2>6. CASE EngineOpens \/ NotifierUnlocks
    BY <1>1, <2>1, <2>6 DEF EngineOpens, NotifierUnlocks, AtRest
  <2>7. CASE CloseSession \/ SessionFails
    BY <1>1, <2>1, <2>7 DEF CloseSession, SessionFails, AtRest, counters
  <2> QED BY <2>2, <2>3, <2>4, <2>5, <2>6, <2>7
<1> QED BY <1>1, <1>2, <1>3, <1>4, BaseKept

\* The notifications that are those of no transfer of the ACS.
LEMMA UiNoted ==
  \A kind \in DOMAIN UiNotes :
    UiNotes[kind] \in Notes /\ UiNotes[kind].id = 0 /\ kind # "waiting" /\ UiRefused[kind] # "waiting"
<1>1. DOMAIN UiNotes = {"notify", "request", "complete"}
  BY DEF UiNotes
<1>2. \A kind \in {"vendor", "request", "transfer"} : Note(kind, 0, 0, 0) \in Notes /\ Note(kind, 0, 0, 0).id = 0
  BY ResultCodes DEF Note, Notes
<1>3. \A kind \in DOMAIN UiNotes : UiNotes[kind] \in Notes /\ UiNotes[kind].id = 0
  BY <1>1, <1>2 DEF UiNotes
<1> QED BY <1>1, <1>3 DEF UiRefused

\* A notification of the user interface: one that is that of no request, or nothing yet.
LEMMA UiEffect ==
  ASSUME BaseInv, UiNotifies \/ UiQueues
  PROVE  /\ \/ \E note \in Notes : Notify(note) /\ (note.kind # "transfer" \/ note.id = 0)
            \/ UNCHANGED <<ctrl, disk, saved, pendingEvents, engine, pendingChanges>>
         /\ engine # "off"
         /\ UNCHANGED <<now, threads, sending, asking, listeners, commands, told, outcomes, interrupted, lost>>
<1>1. \/ \E note \in Notes : Notify(note) /\ (note.kind # "transfer" \/ note.id = 0)
      \/ UNCHANGED <<ctrl, disk, saved, pendingEvents, engine, pendingChanges>>
  BY UiNoted DEF UiNotifies, UiQueues, Notify, Refused
<1>2. ui # "waiting"
  BY UiNoted DEF UiNotifies, UiQueues
<1>3. engine # "off"
  BY <1>2 DEF BaseInv, AtRest
<1>4. UNCHANGED <<now, threads, sending, asking, listeners, commands, told, outcomes, interrupted, lost>>
  BY DEF UiNotifies, UiQueues, counters
<1> QED BY <1>1, <1>3, <1>4

LEMMA BaseNotified ==
  ASSUME BaseInv, UiNotifies \/ UiQueues
  PROVE  BaseInv'
<1>1. /\ engine # "off"
      /\ UNCHANGED <<now, threads, sending, asking, listeners, commands, told, outcomes, interrupted>>
  BY UiEffect
<1>2. CASE \E note \in Notes : Notify(note) /\ (note.kind # "transfer" \/ note.id = 0)
  <2>1. PICK note \in Notes : Notify(note) /\ (note.kind # "transfer" \/ note.id = 0)
    BY <1>2
  <2>2. WorkInv'
    BY <1>1, <2>1, OtherNotified
  <2>3. Types' /\ AtRest'
    BY <1>1, <2>1, NotifiedTypes
  <2> QED BY <2>2, <2>3 DEF BaseInv
<1>3. CASE UNCHANGED <<ctrl, disk, saved, pendingEvents, engine, pendingChanges>>
  <2>1. AtRest' /\ now' \in Nat \ {0} /\ engine' \in EnginePlaces
    BY <1>1, <1>3 DEF BaseInv, AtRest, Types
  <2> QED BY <1>1, <1>3, <2>1, BaseKept
<1> QED BY <1>2, <1>3, UiEffect

\* The device starts a transfer of its own.
LEMMA BaseAutonomous ==
  ASSUME BaseInv, AutonomousInProgress
  PROVE  BaseInv'
<1>1. PICK tr, c, w :
        /\ tr = Transfer(TRUE, Null, "http", 0, _IN_PROGRESS, 0, FALSE) /\ c = insertTransferRequest(ctrl, tr)
        /\ w = [NewThread(Transfer(TRUE, Null, "http", 0, _IN_PROGRESS, 0, TRUE)) EXCEPT !.id = c.lastId, !.step = "transferring"]
  OBVIOUS
<1>2. /\ engine = "idle" /\ ctrl' = c /\ disk' = c /\ threads' = threads \cup {w}
      /\ engine' \in {"idle", "draining"}
      /\ UNCHANGED <<now, pendingEvents, pendingChanges, ui, sending, asking, listeners, commands, outcomes, interrupted>>
  BY <1>1 DEF AutonomousInProgress, Sync, Saves
<1>3. Null \in KeySet /\ "http" \in Urls /\ 0 \in Faults
  BY ResultCodes DEF KeySet, Urls
<1>4. Valid(ctrl) /\ ctrl.lastId \in Nat
  BY QueueOf DEF BaseInv, Types
<1>5. PICK e : e = [tr EXCEPT !.id = ctrl.lastId + 1]
  OBVIOUS
<1>6. /\ tr \in Entries /\ tr.state # _NOT_YET_STARTED
      /\ e \in Entries /\ e.id = ctrl.lastId + 1 /\ e.key = Null /\ e.state = _IN_PROGRESS
  <2>1. _IN_PROGRESS \in 1 .. 3 /\ _IN_PROGRESS # _NOT_YET_STARTED
    BY States
  <2>2. tr \in Entries /\ tr.state = _IN_PROGRESS /\ tr.key = Null
    BY <1>1, <1>3, <2>1 DEF Transfer, Entries
  <2>3. e \in Entries /\ e.id = ctrl.lastId + 1 /\ e.key = tr.key /\ e.state = tr.state
    BY <1>4, <1>5, <2>2 DEF Entries
  <2> QED BY <2>1, <2>2, <2>3
<1>7. Valid(c) /\ Records(c) = Records(ctrl) \cup {e} /\ c.lastId = ctrl.lastId + 1
  BY <1>1, <1>4, <1>5, <1>6, InsertEffect
<1>8. w \in Workers /\ w.id = e.id /\ w.key = e.key /\ w.step # "ending"
  <2>1. c.lastId \in Nat
    BY <1>4, <1>7
  <2> QED BY <1>1, <1>3, <1>6, <1>7, <2>1 DEF Transfer, NewThread, Workers, Steps
<1>9. Work(Records(ctrl) \cup {e}, ctrl.lastId + 1, threads \cup {w}, pendingChanges, sending, interrupted, outcomes)
  <2>1. PICK added : added = {w}
    OBVIOUS
  <2>2. added \in SUBSET Workers /\ added # {} /\ \A th \in added : th = w
    BY <1>8, <2>1
  <2>3. PICK R, last, ths, notes, sent, stopped, outs :
          /\ R = Records(ctrl) /\ last = ctrl.lastId /\ ths = threads /\ notes = pendingChanges
          /\ sent = sending /\ stopped = interrupted /\ outs = outcomes
    OBVIOUS
  <2>4. Work(R, last, ths, notes, sent, stopped, outs)
    BY <2>3 DEF BaseInv, WorkInv
  <2>5. Work(R \cup {e}, last + 1, ths \cup added, notes, sent, stopped, outs)
    BY <1>6, <1>8, <2>2, <2>3, <2>4, States, WorkAdded
  <2> QED BY <2>1, <2>3, <2>5
<1>10. WorkInv'
  BY <1>2, <1>7, <1>9, SavedResults DEF WorkInv
<1>11. Types' /\ AtRest'
  BY <1>2, <1>7 DEF BaseInv, Types, AtRest, EnginePlaces
<1> QED BY <1>10, <1>11 DEF BaseInv

\* The head of the loop.
LEMMA BaseManages ==
  ASSUME BaseInv, EngineManages
  PROVE  BaseInv'
<1>1. PICK c : c = manageEvents(ctrl, pendingEvents, now)
  OBVIOUS
<1>2. /\ engine \in {"managing", "ended"} /\ ctrl' = c /\ disk' = c
      /\ engine' \in {"unlocking", "ended", "inform"} /\ pendingEvents' = {}
      /\ threads' = threads \cup {NewThread(ctrl.queue[i]) : i \in DueTransfers(ctrl, now)}
      /\ UNCHANGED <<now, pendingChanges, ui, sending, asking, listeners, commands, outcomes, interrupted>>
  BY <1>1 DEF EngineManages, Sync, Saves, counters
<1>3. Valid(ctrl) /\ pendingEvents \in SUBSET Events /\ now \in Nat
  BY DEF BaseInv, Types
<1>4. Valid(c) /\ Records(c) = Started(Records(ctrl), now) /\ c.lastId = ctrl.lastId
  BY <1>1, <1>3, ManageEffect
<1>5. {NewThread(ctrl.queue[i]) : i \in DueTransfers(ctrl, now)} = DueThreads(Records(ctrl), now)
  BY DEF DueTransfers, DueThreads, Records
<1>6. Queue(Started(Records(ctrl), now), ctrl.lastId)
  BY <1>4, QueueOfControl
<1>7. Work(Started(Records(ctrl), now), ctrl.lastId, threads \cup DueThreads(Records(ctrl), now), pendingChanges, sending, interrupted, outcomes)
  BY <1>6, WorkStarted DEF BaseInv, WorkInv
<1>8. WorkInv'
  BY <1>2, <1>4, <1>5, <1>7, SavedResults DEF WorkInv
<1>9. Types' /\ AtRest'
  BY <1>2, <1>4 DEF BaseInv, Types, AtRest, EnginePlaces
<1> QED BY <1>8, <1>9 DEF BaseInv

\* DM_ENG_ParameterManager_unlock: one of the notifications that waited.
LEMMA DrainEffect ==
  ASSUME BaseInv, EngineDrains
  PROVE  /\ Valid(ctrl') /\ disk' = ctrl' /\ saved' = saved \cup CommandKeys(ctrl') /\ Rest(ctrl') = Rest(ctrl)
         /\ pendingChanges # <<>> /\ Head(pendingChanges) \in Notes /\ pendingChanges' = Tail(pendingChanges)
         /\ Records(ctrl') = Processed(Records(ctrl), ctrl.lastId, Head(pendingChanges))
         /\ ctrl'.lastId = (IF Head(pendingChanges).kind = "transfer" /\ Head(pendingChanges).id = 0
                            THEN ctrl.lastId + 1 ELSE ctrl.lastId)
         /\ pendingEvents' \in SUBSET Events /\ EventKeys(pendingEvents') = EventKeys(pendingEvents)
         /\ engine # "off"
         /\ UNCHANGED <<now, engine, retry, threads, ui, sending, asking, listeners, commands, told, outcomes, interrupted, lost>>
<1>1. PICK note, c : note = Head(pendingChanges) /\ c = processed(ctrl, note)
  OBVIOUS
<1>2. /\ engine # "off" /\ pendingChanges # <<>>
      /\ ctrl' = c /\ disk' = c /\ saved' = saved \cup CommandKeys(c)
      /\ pendingEvents' = pendingEvents \cup {Event(EventOf(ctrl, note))}
      /\ pendingChanges' = Tail(pendingChanges)
      /\ UNCHANGED <<now, engine, retry, threads, ui, sending, asking, listeners, commands, told, outcomes, interrupted, lost>>
  BY <1>1 DEF EngineDrains, Sync, Saves, counters
<1>3. Valid(ctrl) /\ pendingEvents \in SUBSET Events /\ pendingChanges \in Seq(Notes)
  BY DEF BaseInv, Types, WorkInv, Work, NotesOK
<1>4. note \in Notes
  BY <1>1, <1>2, <1>3, HeadTailProperties
<1>5. pendingEvents' \in SUBSET Events /\ EventKeys(pendingEvents') = EventKeys(pendingEvents)
  BY <1>2, <1>3, EventAdded, EventCodes
<1>6. /\ Valid(c) /\ Records(c) = Processed(Records(ctrl), ctrl.lastId, note)
      /\ c.lastId = (IF note.kind = "transfer" /\ note.id = 0 THEN ctrl.lastId + 1 ELSE ctrl.lastId)
      /\ Rest(c) = Rest(ctrl)
  BY <1>1, <1>3, <1>4, ProcessedEffect
<1> QED BY <1>1, <1>2, <1>4, <1>5, <1>6

LEMMA BaseDrains ==
  ASSUME BaseInv, EngineDrains
  PROVE  BaseInv'
<1>1. PICK R, last, ths, notes, sent, stopped, outs, note :
        /\ R = Records(ctrl) /\ last = ctrl.lastId /\ ths = threads /\ notes = pendingChanges
        /\ sent = sending /\ stopped = interrupted /\ outs = outcomes /\ note = Head(notes)
  OBVIOUS
<1>2. Work(R, last, ths, notes, sent, stopped, outs)
  BY <1>1 DEF BaseInv, WorkInv
<1>3. /\ Valid(ctrl') /\ disk' = ctrl'
      /\ notes # <<>> /\ note \in Notes /\ pendingChanges' = Tail(notes)
      /\ Records(ctrl') = Processed(R, last, note)
      /\ ctrl'.lastId = (IF note.kind = "transfer" /\ note.id = 0 THEN last + 1 ELSE last)
      /\ pendingEvents' \in SUBSET Events /\ engine # "off"
      /\ UNCHANGED <<now, engine, threads, ui, sending, asking, listeners, commands, outcomes, interrupted>>
  BY <1>1, DrainEffect
<1>4. Types' /\ AtRest'
  BY <1>3 DEF BaseInv, Types, AtRest
<1>5. Work(Records(ctrl'), ctrl'.lastId, ths, Tail(notes), sent, stopped, outs)
  <2>1. CASE note.kind # "transfer"
    <3>1. Records(ctrl') = R /\ ctrl'.lastId = last
      BY <1>3, <2>1 DEF Processed
    <3>2. Work(R, last, ths, Tail(notes), sent, stopped, outs)
      BY <1>1, <1>2, <1>3, <2>1, WorkForgotten
    <3> QED BY <3>1, <3>2
  <2>2. CASE note.kind = "transfer" /\ note.id = 0
    <3>1. PICK e : e = [Transfer(TRUE, Null, "http", 0, _COMPLETED, note.fault, FALSE) EXCEPT !.id = last + 1]
      OBVIOUS
    <3>2. last + 1 \in Nat /\ note.fault \in Faults /\ _COMPLETED \in 1 .. 3
      BY <1>2, <1>3, States DEF Work, Queue, Notes
    <3>3. e \in Entries /\ e.id = last + 1 /\ e.key = Null /\ e.state # _IN_PROGRESS
      <4>1. Null \in KeySet /\ "http" \in Urls
        BY DEF KeySet, Urls
      <4> QED BY <3>1, <3>2, <4>1, States DEF Transfer, Entries
    <3>4. Records(ctrl') = R \cup {e} /\ ctrl'.lastId = last + 1
      BY <1>3, <2>2, <3>1 DEF Processed
    <3>5. Work(R, last, ths, Tail(notes), sent, stopped, outs)
      BY <1>1, <1>2, <1>3, <2>2, WorkForgotten
    <3>6. PICK none, t : none = {} /\ t = Tail(notes)
      OBVIOUS
    <3>7. none \in SUBSET Workers /\ none = {} /\ \A th \in none : FALSE
      BY <3>6
    <3>8. Work(R \cup {e}, last + 1, ths \cup none, t, sent, stopped, outs)
      BY <3>3, <3>5, <3>6, <3>7, WorkAdded
    <3>9. ths \cup none = ths
      BY <3>6
    <3> QED BY <3>4, <3>6, <3>8, <3>9
  <2>3. CASE note.kind = "transfer" /\ note.id # 0
    <3>1. PICK id, fault : id = note.id /\ fault = ResultCode(note)
      OBVIOUS
    <3>2. Records(ctrl') = Completed(R, id, fault) /\ ctrl'.lastId = last
      BY <1>3, <2>3, <3>1 DEF Processed
    <3>3. Queue(Completed(R, id, fault), last)
      <4>1. PICK c : c = ctrl'
        OBVIOUS
      <4> QED BY <1>3, <3>2, <4>1, QueueOfControl
    <3>4. Work(Completed(R, id, fault), last, ths, Tail(notes), sent, stopped, outs)
      BY <1>1, <1>2, <1>3, <2>3, <3>1, <3>3, WorkDrained
    <3> QED BY <3>2, <3>4
  <2> QED BY <2>1, <2>2, <2>3
<1>6. WorkInv'
  BY <1>1, <1>3, <1>5, SavedResults DEF WorkInv
<1> QED BY <1>4, <1>6 DEF BaseInv

\* The device closes its session; what there is in memory is saved.
LEMMA BaseUnlocks ==
  ASSUME BaseInv, EngineUnlocks
  PROVE  BaseInv'
<1>1. /\ engine = "unlocking" /\ pendingChanges = <<>> /\ engine' = "idle" /\ ctrl' = ctrl /\ disk' = ctrl
      /\ UNCHANGED <<now, pendingEvents, pendingChanges, threads, ui, sending, asking, listeners, commands, outcomes, interrupted>>
  BY DEF EngineUnlocks, Sync, Saves, counters
<1>2. Types' /\ AtRest'
  BY <1>1 DEF BaseInv, Types, AtRest, EnginePlaces
<1>3. WorkInv'
  BY <1>1, SavedResults DEF BaseInv, WorkInv
<1> QED BY <1>2, <1>3 DEF BaseInv

\* The ACS has heard of the events.
LEMMA BaseInformAnswered ==
  ASSUME BaseInv, InformAnswered
  PROVE  BaseInv'
<1>1. PICK c : c = [ctrl EXCEPT !.events = {}]
  OBVIOUS
<1>2. /\ engine = "inform" /\ engine' = "session" /\ ctrl' = c /\ disk' = c
      /\ UNCHANGED <<now, pendingEvents, pendingChanges, threads, ui, sending, asking, listeners, commands, outcomes, interrupted>>
  BY <1>1 DEF InformAnswered, Sync, Saves, counters
<1>3. Valid(c) /\ Records(c) = Records(ctrl) /\ c.lastId = ctrl.lastId
  BY <1>1, ForgetEffect DEF BaseInv, Types
<1>4. Types' /\ AtRest'
  BY <1>2, <1>3 DEF BaseInv, Types, AtRest, EnginePlaces
<1>5. WorkInv'
  BY <1>2, <1>3, SavedResults DEF BaseInv, WorkInv
<1> QED BY <1>4, <1>5 DEF BaseInv

LEMMA BaseSendResult ==
  ASSUME BaseInv, SendResult
  PROVE  BaseInv'
<1>1. /\ engine = "session"
      /\ UNCHANGED <<ctrl, disk, now, engine, pendingEvents, pendingChanges, threads, ui, listeners, commands, outcomes, interrupted>>
      /\ \/ getTransferResult(ctrl) # <<>> /\ sending' = getTransferResult(ctrl)[1].id
         \/ sending' = sending
  BY DEF SendResult, counters, ghosts
<1>2. Types' /\ AtRest'
  BY <1>1 DEF BaseInv, Types, AtRest
<1>3. WorkInv'
  <2>1. CASE sending' = sending
    BY <1>1, <2>1 DEF BaseInv, WorkInv
  <2>2. CASE getTransferResult(ctrl) # <<>> /\ sending' = getTransferResult(ctrl)[1].id
    <3>1. PICK r \in Records(ctrl) : sending' = r.id /\ r.state = _COMPLETED
      BY <2>2, ResultEffect DEF BaseInv, Types
    <3>2. Work(Records(ctrl), ctrl.lastId, threads, pendingChanges, r.id, interrupted, outcomes)
      BY <3>1, WorkSent DEF BaseInv, WorkInv
    <3> QED BY <1>1, <3>1, <3>2 DEF BaseInv, WorkInv
  <2> QED BY <1>1, <2>1, <2>2
<1> QED BY <1>2, <1>3 DEF BaseInv

\* What is confirmed leaves the queue; nobody works on it.
LEMMA WorkAfterConfirm ==
  ASSUME BaseInv
  PROVE  Work(Records(Confirmed(ctrl)), Confirmed(ctrl).lastId, threads, pendingChanges, 0, interrupted, outcomes)
<1>1. /\ Records(Confirmed(ctrl)) = IF sending = 0 THEN Records(ctrl) ELSE Without(Records(ctrl), sending)
      /\ Confirmed(ctrl).lastId = ctrl.lastId
  BY ConfirmedEffect DEF BaseInv, Types
<1>2. /\ Work(Without(Records(ctrl), sending), ctrl.lastId, threads, pendingChanges, 0, interrupted, outcomes)
      /\ Work(Records(ctrl), ctrl.lastId, threads, pendingChanges, 0, interrupted, outcomes)
  BY WorkConfirmed DEF BaseInv, WorkInv
<1> QED BY <1>1, <1>2

LEMMA BaseAcknowledge ==
  ASSUME BaseInv, Acknowledge
  PROVE  BaseInv'
<1>1. PICK c : c = Confirmed(ctrl)
  OBVIOUS
<1>2. /\ engine = "session" /\ ctrl' = c /\ disk' = c /\ sending' = 0 /\ asking' = FALSE
      /\ UNCHANGED <<now, engine, pendingEvents, pendingChanges, threads, ui, listeners, commands, outcomes, interrupted>>
  BY <1>1 DEF Acknowledge, Confirm, Sync, Saves, counters
<1>3. Valid(c)
  BY <1>1, ConfirmedEffect DEF BaseInv, Types
<1>4. Work(Records(c), c.lastId, threads, pendingChanges, 0, interrupted, outcomes)
  BY <1>1, WorkAfterConfirm
<1>5. Types' /\ AtRest'
  BY <1>2, <1>3 DEF BaseInv, Types, AtRest
<1>6. WorkInv'
  BY <1>2, <1>4, SavedResults DEF WorkInv
<1> QED BY <1>5, <1>6 DEF BaseInv

\* The thread of the transfer that was put in the queue last.
LEMMA LastRequest ==
  ASSUME NEW c, Valid(c), NEW e \in Records(c), e.id = c.lastId
  PROVE  c.queue[First(Places(c, c.lastId))] = e
<1>1. Places(c, c.lastId) # {}
  BY DEF Places, Records
<1>2. /\ First(Places(c, c.lastId)) \in DOMAIN c.queue
      /\ c.queue[First(Places(c, c.lastId))].id = c.lastId
  BY <1>1, PlaceOfRequest
<1> QED BY <1>2, RecordsOf DEF Records

\* A command of the ACS, after what is confirmed.
RpcStep(m, r) ==
  /\ Command(m) /\ m.key \in {Null, LastKey}
  /\ Nothing(Confirmed(ctrl), r) \/ Queued(Confirmed(ctrl), m, r) \/ Remembered(Confirmed(ctrl), m, r)
  /\ ctrl' = r.control
  /\ commands' = IF r.answer \in {"status 1", "response"} THEN commands + 1 ELSE commands
  /\ threads' = threads \cup
        IF r.answer = "status 1" /\ OrZero(m.delay) = 0
        THEN {NewThread(r.control.queue[First(Places(r.control, r.control.lastId))])} ELSE {}
  /\ lost' = lost \cup (RebootKeys(ctrl) \ RebootKeys(r.control))

LEMMA RpcEffect ==
  ASSUME BaseInv, Rpc
  PROVE  /\ \E m, r : RpcStep(m, r)
         /\ engine = "session" /\ sending' = 0 /\ asking' = FALSE
         /\ commands \in 0 .. Len(Keys) - 1 /\ commands + 1 \in 0 .. Len(Keys) /\ LastKey \in KeySet \ {Null}
         /\ told' = told \cup {<<ctrl.queue[i].key, ctrl.queue[i].fault>> : i \in Places(ctrl, sending)}
         /\ \/ UNCHANGED <<disk, saved>>
            \/ disk' = Confirmed(ctrl) /\ saved' = saved \cup CommandKeys(Confirmed(ctrl))
         /\ UNCHANGED <<now, engine, pendingEvents, pendingChanges, ui, listeners, outcomes, interrupted>>
<1>1. Valid(Confirmed(ctrl)) /\ now \in Nat \ {0} /\ commands \in 0 .. Len(Keys) /\ Len(Keys) \in Nat /\ DOMAIN Keys = 1 .. Len(Keys)
  <2>1. Keys \in Seq({Keys[i] : i \in DOMAIN Keys})
    BY TransfersAssumption
  <2>2. Len(Keys) \in Nat /\ DOMAIN Keys = 1 .. Len(Keys)
    BY <2>1
  <2> QED BY <2>2, ConfirmedEffect DEF BaseInv, Types
<1>2. commands < Len(Keys)
  BY DEF Rpc
<1>3. commands + 1 \in DOMAIN Keys /\ commands \in 0 .. Len(Keys) - 1 /\ commands + 1 \in 0 .. Len(Keys)
  BY <1>1, <1>2
<1>4. LastKey \in KeySet \ {Null}
  BY <1>3, KeysOfCommands DEF LastKey
<1>5. PICK q \in Requests :
        LET r == Commands(Confirmed(ctrl), [q EXCEPT !.key = IF @ = Null THEN @ ELSE LastKey], now)
        IN  /\ ctrl' = r.control
            /\ commands' = IF r.answer \in {"status 1", "response"} THEN commands + 1 ELSE commands
            /\ threads' = threads \cup
                 IF r.answer = "status 1" /\ OrZero(q.delay) = 0
                 THEN {NewThread(r.control.queue[First(Places(r.control, r.control.lastId))])} ELSE {}
            /\ lost' = lost \cup (RebootKeys(ctrl) \ RebootKeys(r.control))
  BY Zenon DEF Rpc
<1>6. PICK m, r : m = [q EXCEPT !.key = IF @ = Null THEN @ ELSE LastKey] /\ r = Commands(Confirmed(ctrl), m, now)
  OBVIOUS
<1>7. /\ DOMAIN q = {"method", "key", "fileType", "url", "size", "delay", "target"}
      /\ q.delay \in Nat \cup {Absent, NotANumber} /\ q.url \in Urls
  BY TransfersAssumption DEF Urls
<1>8. Command(m) /\ m.key \in {Null, LastKey} /\ m.delay = q.delay
  <2>1. /\ DOMAIN m = DOMAIN q /\ m.url = q.url /\ m.delay = q.delay
        /\ m.key = IF q.key = Null THEN q.key ELSE LastKey
    BY <1>6, <1>7
  <2>2. Null \in KeySet
    BY KeysOfCommands
  <2> QED BY <1>4, <1>7, <2>1, <2>2 DEF Command
<1>9. Nothing(Confirmed(ctrl), r) \/ Queued(Confirmed(ctrl), m, r) \/ Remembered(Confirmed(ctrl), m, r)
  BY <1>1, <1>6, <1>8, CommandEffect
<1>10. /\ ctrl' = r.control
       /\ commands' = IF r.answer \in {"status 1", "response"} THEN commands + 1 ELSE commands
       /\ threads' = threads \cup
            IF r.answer = "status 1" /\ OrZero(m.delay) = 0
            THEN {NewThread(r.control.queue[First(Places(r.control, r.control.lastId))])} ELSE {}
       /\ lost' = lost \cup (RebootKeys(ctrl) \ RebootKeys(r.control))
  BY <1>5, <1>6, <1>8
<1>11. RpcStep(m, r)
  BY <1>8, <1>9, <1>10 DEF RpcStep
<1>12. /\ engine = "session" /\ sending' = 0 /\ asking' = FALSE
       /\ told' = told \cup {<<ctrl.queue[i].key, ctrl.queue[i].fault>> : i \in Places(ctrl, sending)}
       /\ \/ UNCHANGED <<disk, saved>>
          \/ disk' = Confirmed(ctrl) /\ saved' = saved \cup CommandKeys(Confirmed(ctrl))
       /\ UNCHANGED <<now, engine, pendingEvents, pendingChanges, ui, listeners, outcomes, interrupted>>
  BY DEF Rpc, Confirm, Saves
<1> QED BY <1>3, <1>4, <1>11, <1>12

LEMMA BaseRpc ==
  ASSUME BaseInv, Rpc
  PROVE  BaseInv'
<1>1. PICK m, r : RpcStep(m, r)
  BY RpcEffect
<1>2. /\ engine = "session" /\ sending' = 0 /\ asking' = FALSE /\ commands \in 0 .. Len(Keys) - 1 /\ commands + 1 \in 0 .. Len(Keys)
      /\ disk' \in {disk, Confirmed(ctrl)}
      /\ UNCHANGED <<now, engine, pendingEvents, pendingChanges, ui, listeners, outcomes, interrupted>>
  BY RpcEffect
<1>3. PICK c, d : c = Confirmed(ctrl) /\ d = r.control
  OBVIOUS
<1>4. Valid(c) /\ Work(Records(c), c.lastId, threads, pendingChanges, 0, interrupted, outcomes)
  BY <1>3, ConfirmedEffect, WorkAfterConfirm DEF BaseInv, Types
<1>5. Nothing(c, r) \/ Queued(c, m, r) \/ Remembered(c, m, r)
  BY <1>1, <1>3 DEF RpcStep
<1>6. /\ ctrl' = d /\ commands' \in 0 .. Len(Keys)
      /\ threads' = threads \cup
            IF r.answer = "status 1" /\ OrZero(m.delay) = 0
            THEN {NewThread(d.queue[First(Places(d, d.lastId))])} ELSE {}
  <2>1. commands \in 0 .. Len(Keys)
    BY DEF BaseInv, Types
  <2> QED BY <1>1, <1>2, <1>3, <2>1 DEF RpcStep
<1>7. /\ Valid(d)
      /\ Work(Records(d), d.lastId, threads', pendingChanges, 0, interrupted, outcomes)
  <2>1. CASE Nothing(c, r)
    <3>1. d = c /\ threads' = threads
      BY <1>3, <1>6, <2>1 DEF Nothing
    <3> QED BY <1>4, <3>1
  <2>2. CASE Remembered(c, m, r)
    <3>1. /\ Valid(d) /\ d.lastId = c.lastId /\ Records(d) = Records(c) /\ threads' = threads
      BY <1>3, <1>6, <2>2 DEF Remembered
    <3> QED BY <1>4, <3>1
  <2>3. CASE Queued(c, m, r)
    <3>1. PICK e \in Entries :
            /\ e.id = c.lastId + 1 /\ e.key = m.key
            /\ e.state = IF OrZero(m.delay) = 0 THEN _IN_PROGRESS ELSE _NOT_YET_STARTED
            /\ Records(d) = Records(c) \cup {e}
      BY <1>3, <2>3 DEF Queued
    <3>2. r.answer = "status 1" /\ Valid(d) /\ d.lastId = c.lastId + 1
      BY <1>3, <2>3 DEF Queued
    <3>3. d.queue[First(Places(d, d.lastId))] = e
      BY <3>1, <3>2, LastRequest
    <3>4. PICK w, added : w = NewThread(e) /\ added = (IF OrZero(m.delay) = 0 THEN {w} ELSE {})
      OBVIOUS
    <3>5. w \in Workers /\ w.id = e.id /\ w.key = e.key /\ w.step # "ending"
      BY <3>4 DEF Entries, NewThread, Workers, Steps
    <3>6. /\ added \in SUBSET Workers /\ \A th \in added : th = w
          /\ IF e.state = _IN_PROGRESS THEN added # {} ELSE added = {}
      BY <3>1, <3>4, <3>5, States
    <3>7. threads' = threads \cup added
      BY <1>6, <3>2, <3>3, <3>4
    <3>8. PICK R, last, ths, notes, stopped, outs :
            /\ R = Records(c) /\ last = c.lastId /\ ths = threads /\ notes = pendingChanges
            /\ stopped = interrupted /\ outs = outcomes
      OBVIOUS
    <3>9. Work(R, last, ths, notes, 0, stopped, outs)
      BY <1>4, <3>8
    <3>10. e.id = last + 1 /\ e.state # _COMPLETED
      BY <3>1, <3>8, States
    <3>11. Work(R \cup {e}, last + 1, ths \cup added, notes, 0, stopped, outs)
      BY <3>5, <3>6, <3>9, <3>10, WorkAdded
    <3> QED BY <3>1, <3>2, <3>7, <3>8, <3>11
  <2> QED BY <1>5, <2>1, <2>2, <2>3
<1>8. Valid(disk') /\ ResultsOK(Records(disk'), <<>>, outcomes)
  <2>1. ResultsOK(Records(c), <<>>, outcomes)
    BY <1>4, SavedResults
  <2> QED BY <1>2, <1>3, <1>4, <2>1 DEF BaseInv, Types, WorkInv
<1>9. Types' /\ AtRest'
  BY <1>2, <1>6, <1>7, <1>8 DEF BaseInv, Types, AtRest
<1>10. WorkInv'
  BY <1>2, <1>6, <1>7, <1>8 DEF WorkInv
<1> QED BY <1>9, <1>10 DEF BaseInv

\* The agent starts with what the file holds.
LEMMA BootEffect ==
  ASSUME BaseInv, Boot
  PROVE  \E c :
           /\ c = _readDmControl(disk)
           /\ Valid(c) /\ Records(c) = Records(disk) /\ Rest(c) = Rest(disk)
           /\ ctrl' = setRebootCommandKey(c) /\ disk' = ctrl' /\ saved' = saved \cup CommandKeys(ctrl')
           /\ Valid(ctrl') /\ Records(ctrl') = Records(disk)
           /\ OtherKeys(c) = OtherKeys(ctrl') \cup RebootKeys(c)
           /\ pendingEvents' = {Event("1 BOOT")} \cup {<<"M Reboot", c.reboot[i]>> : i \in DOMAIN c.reboot}
           /\ pendingEvents' \in SUBSET Events
           /\ EventKeys(pendingEvents') = RebootKeys(c)
           /\ interrupted' = interrupted \cup InProgress(c)
<1>1. PICK c : c = _readDmControl(disk)
  OBVIOUS
<1>2. Valid(c) /\ Records(c) = Records(disk) /\ Rest(c) = Rest(disk)
  BY <1>1, ReadEffect DEF BaseInv, Types
<1>3. PICK d : d = setRebootCommandKey(c)
  OBVIOUS
<1>4. /\ ctrl' = d /\ disk' = d /\ saved' = saved \cup CommandKeys(d)
      /\ pendingEvents' = {Event("1 BOOT")} \cup {<<"M Reboot", c.reboot[i]>> : i \in DOMAIN c.reboot}
      /\ interrupted' = interrupted \cup InProgress(c)
  BY <1>1, <1>3 DEF Boot, Sync, Saves
<1>5. Valid(d) /\ Records(d) = Records(c) /\ OtherKeys(c) = OtherKeys(d) \cup RebootKeys(c)
  BY <1>2, <1>3, SetRebootEffect
<1>6. PICK boot, code : boot = Event("1 BOOT") /\ code = "M Reboot"
  OBVIOUS
<1>7. code \in Codes /\ boot \in Events /\ boot[2] = Null
  <2>1. "1 BOOT" \in Codes /\ code \in Codes
    BY <1>6, Zenon DEF Codes
  <2>2. \A x \in Codes : Event(x) \in Events /\ Event(x)[2] = Null
    BY KeysOfCommands DEF Event, Events
  <2> QED BY <1>6, <2>1, <2>2
<1>8. pendingEvents' = {boot} \cup {<<code, c.reboot[i]>> : i \in DOMAIN c.reboot}
  BY <1>4, <1>6, Zenon
<1>9. \A i \in DOMAIN c.reboot : c.reboot[i] \in (KeySet \ {Null}) \cup {ResetKey}
  <2>1. c.reboot \in Seq((KeySet \ {Null}) \cup {ResetKey})
    BY <1>2 DEF Valid, Controls
  <2> QED BY <2>1
<1>10. pendingEvents' \in SUBSET Events
  BY <1>7, <1>8, <1>9 DEF Events
<1>11. EventKeys(pendingEvents') = RebootKeys(c)
  <2>1. {e[2] : e \in pendingEvents'} = {Null} \cup {c.reboot[i] : i \in DOMAIN c.reboot}
    <3>1. PICK events : events = pendingEvents'
      OBVIOUS
    <3>2. \A x : <<code, x>>[2] = x
      OBVIOUS
    <3>3. boot \in events /\ \A i \in DOMAIN c.reboot : <<code, c.reboot[i]>> \in events
      BY <1>8, <3>1
    <3>4. \A e \in events : e = boot \/ \E i \in DOMAIN c.reboot : e = <<code, c.reboot[i]>>
      BY <1>8, <3>1
    <3>5. \A e \in events : e[2] = Null \/ \E i \in DOMAIN c.reboot : e[2] = c.reboot[i]
      BY <1>7, <3>2, <3>4
    <3>6. \A i \in DOMAIN c.reboot : \E e \in events : e[2] = c.reboot[i]
      BY <3>2, <3>3
    <3>7. {e[2] : e \in events} = {Null} \cup {c.reboot[i] : i \in DOMAIN c.reboot}
      BY <1>7, <3>3, <3>5, <3>6
    <3> QED BY <3>1, <3>7
  <2>2. Null # ResetKey /\ Null \notin {c.reboot[i] : i \in DOMAIN c.reboot}
    <3>1. Null # ResetKey
      BY KeysOfCommands
    <3>2. Null \notin (KeySet \ {Null}) \cup {ResetKey}
      BY <3>1
    <3> QED BY <1>9, <3>1, <3>2
  <2> QED BY <2>1, <2>2 DEF EventKeys, RebootKeys
<1>12. ctrl' = d /\ disk' = ctrl' /\ saved' = saved \cup CommandKeys(ctrl') /\ ctrl' = setRebootCommandKey(c)
  BY <1>3, <1>4
<1>13. Valid(ctrl') /\ Records(ctrl') = Records(disk) /\ OtherKeys(c) = OtherKeys(ctrl') \cup RebootKeys(c)
  BY <1>2, <1>5, <1>12
<1> QED BY <1>1, <1>2, <1>4, <1>10, <1>11, <1>12, <1>13

LEMMA BaseBoot ==
  ASSUME BaseInv, Boot
  PROVE  BaseInv'
<1>1. PICK c :
        /\ Records(c) = Records(disk) /\ disk' = ctrl'
        /\ Valid(ctrl') /\ Records(ctrl') = Records(disk)
        /\ pendingEvents' \in SUBSET Events
        /\ interrupted' = interrupted \cup InProgress(c)
  BY BootEffect
<1>2. /\ engine = "off" /\ engine' = "locking"
      /\ UNCHANGED <<now, pendingChanges, threads, sending, asking, commands, outcomes>>
  BY DEF Boot, counters
<1>3. threads = {} /\ pendingChanges = <<>> /\ sending = 0 /\ ~asking
  BY <1>2 DEF BaseInv, AtRest
<1>4. Types' /\ AtRest'
  BY <1>1, <1>2, <1>3 DEF BaseInv, Types, AtRest, EnginePlaces
<1>5. WorkInv'
  <2>1. \A r \in Records(disk) : r.state = _IN_PROGRESS => r.id \in interrupted'
    <3>1. InProgress(c) = {r.id : r \in {s \in Records(c) : s.state = _IN_PROGRESS}}
      BY DEF InProgress, Records
    <3> QED BY <1>1, <3>1
  <2>2. PICK d : d = ctrl'
    OBVIOUS
  <2>3. Queue(Records(d), d.lastId) /\ Records(d) = Records(disk)
    BY <1>1, <2>2, QueueOfControl
  <2>4. ResultsOK(Records(disk), <<>>, outcomes)
    BY DEF BaseInv, WorkInv
  <2>5. Work(Records(d), d.lastId, {}, <<>>, 0, interrupted', outcomes)
    BY <2>1, <2>3, <2>4, WorkBooted
  <2> QED BY <1>1, <1>2, <1>3, <2>2, <2>4, <2>5 DEF WorkInv
<1> QED BY <1>4, <1>5 DEF BaseInv

\* The agent stops.
LEMMA BaseStops ==
  ASSUME BaseInv, Crash \/ TornSave \/ PlatformReboots
  PROVE  BaseInv'
<1>1. /\ engine' = "off" /\ ctrl' = EmptyControl /\ pendingEvents' = {} /\ pendingChanges' = <<>>
      /\ threads' = {} /\ ui' = "waiting" /\ sending' = 0 /\ asking' = FALSE /\ listeners' = FALSE
      /\ UNCHANGED <<now, commands>>
  BY DEF Crash, TornSave, PlatformReboots, Stops
<1>2. /\ disk' = disk /\ outcomes' = outcomes
      \/ disk' = EmptyControl
  BY DEF Crash, TornSave, PlatformReboots, ghosts
<1>3. Valid(EmptyControl) /\ Records(EmptyControl) = {} /\ EmptyControl.lastId = 0
  BY EmptyEffect
<1>4. Types' /\ AtRest'
  BY <1>1, <1>2, <1>3 DEF BaseInv, Types, AtRest, EnginePlaces
<1>5. WorkInv'
  <2>1. \A outs : ResultsOK({}, <<>>, outs)
    BY EmptySeq DEF ResultsOK
  <2>2. Queue({}, 0)
    BY DEF Queue
  <2>3. \A stopped, outs : Work({}, 0, {}, <<>>, 0, stopped, outs)
    BY <2>1, <2>2, WorkBooted
  <2>4. ResultsOK(Records(disk'), <<>>, outcomes')
    BY <1>2, <1>3, <2>1 DEF BaseInv, WorkInv
  <2> QED BY <1>1, <1>3, <2>3, <2>4 DEF WorkInv
<1> QED BY <1>4, <1>5 DEF BaseInv

LEMMA BaseInit ==
  Init => BaseInv
<1>1. SUFFICES ASSUME Init PROVE BaseInv
  OBVIOUS
<1>2. Valid(EmptyControl) /\ Records(EmptyControl) = {} /\ EmptyControl.lastId = 0
  BY EmptyEffect
<1>3. Len(Keys) \in Nat
  BY TransfersAssumption
<1>4. Types
  BY <1>1, <1>2, <1>3 DEF Init, Types, EnginePlaces
<1>5. AtRest
  BY <1>1 DEF Init, AtRest
<1>6. WorkInv
  <2>1. \A outs : ResultsOK({}, <<>>, outs)
    BY EmptySeq DEF ResultsOK
  <2>2. Queue({}, 0)
    BY DEF Queue
  <2>3. Work({}, 0, {}, <<>>, 0, {}, {})
    BY <2>1, <2>2, WorkBooted
  <2> QED BY <1>1, <1>2, <2>1, <2>3 DEF Init, WorkInv
<1> QED BY <1>4, <1>5, <1>6 DEF BaseInv

LEMMA BaseNext ==
  BaseInv /\ [Next]_vars => BaseInv'
<1>1. SUFFICES ASSUME BaseInv, [Next]_vars PROVE BaseInv'
  OBVIOUS
<1>2. CASE UNCHANGED vars
  BY <1>1, <1>2 DEF BaseInv, Types, AtRest, WorkInv, vars, ghosts, counters
<1>3. CASE Threads
  <2>1. PICK th \in threads : ThreadStep(th)
    BY <1>3 DEF Threads
  <2> QED BY <1>1, <2>1, BaseThreadGoesOn, BaseThreadTransfers, BaseThreadEnds DEF ThreadStep
<1>4. CASE UiBegins \/ UiThread
  BY <1>1, <1>4, BaseOthers, BaseNotified DEF UiThread
<1>5. CASE AutonomousInProgress
  BY <1>1, <1>5, BaseAutonomous
<1>6. CASE Scheduler
  BY <1>1, <1>6, BaseOthers, BaseManages, BaseDrains, BaseUnlocks DEF Scheduler
<1>7. CASE Acs
  BY <1>1, <1>7, BaseOthers, BaseInformAnswered, BaseSendResult, BaseAcknowledge DEF Acs
<1>8. CASE Rpc \/ EngineSaves
  BY <1>1, <1>8, BaseRpc, BaseOthers
<1>9. CASE Boot \/ Crash \/ TornSave \/ PlatformReboots \/ Saving \/ Tick
  BY <1>1, <1>9, BaseBoot, BaseStops, BaseOthers
<1> QED BY <1>1, <1>2, <1>3, <1>4, <1>5, <1>6, <1>7, <1>8, <1>9 DEF Next

-----------------------------------------------------------------------------
(* Every transfer in progress is accounted for *)

LEMMA AccountedFor ==
  BaseInv => Accounted
<1>1. SUFFICES ASSUME BaseInv PROVE Accounted
  OBVIOUS
<1>2. PICK R, ths, notes, n :
        /\ R = Records(ctrl) /\ ths = threads /\ notes = pendingChanges /\ n = Len(notes)
  OBVIOUS
<1>3. /\ WorkersOK(R, ctrl.lastId, ths) /\ NotesOK(R, ths, notes) /\ ProgressOK(R, ths, notes, interrupted)
      /\ \A r \in R : r.id # 0
  BY <1>1, <1>2 DEF BaseInv, WorkInv, Work, Queue
<1>4. InProgress(ctrl) = {r.id : r \in {s \in R : s.state = _IN_PROGRESS}}
  BY <1>2 DEF InProgress, Records
<1>5. ASSUME NEW id \in InProgress(ctrl) \ interrupted PROVE Cardinality(NotesFor(id)) + Cardinality(Working(id)) = 1
  <2>1. PICK r \in R : r.id = id /\ r.state = _IN_PROGRESS
    BY <1>4, <1>5
  <2>2. NotesFor(id) = {i \in DOMAIN notes : ResultOf(notes[i], id)}
    BY <1>2 DEF NotesFor, ResultOf
  <2>3. Working(id) = {th \in ths : th.id = id /\ th.step # "ending"}
    BY <1>2 DEF Working
  <2>4. id # 0
    BY <1>3, <2>1
  <2>5. \A i \in NotesFor(id) :
          /\ \A j \in NotesFor(id) : i = j
          /\ Working(id) = {}
    <3>1. SUFFICES ASSUME NEW i \in DOMAIN notes, ResultOf(notes[i], id)
                   PROVE  /\ \A j \in DOMAIN notes : ResultOf(notes[j], id) => i = j
                          /\ \A th \in ths : th.id = id => th.step = "ending"
      BY <2>2, <2>3
    <3>2. notes[i].kind = "transfer" /\ notes[i].id = id
      BY <3>1 DEF ResultOf
    <3>3. /\ \A j \in DOMAIN notes : ResultOf(notes[j], notes[i].id) => i = j
          /\ \A th \in ths : th.id = notes[i].id => th.step = "ending"
      BY <1>3, <2>4, <3>2 DEF NotesOK
    <3> QED BY <3>2, <3>3
  <2>6. \A a, b \in Working(id) : a = b
    BY <1>3, <2>3 DEF WorkersOK
  <2>7. Working(id) # {} \/ NotesFor(id) # {}
    BY <1>3, <1>5, <2>1, <2>2, <2>3 DEF ProgressOK
  <2>8. \A S : S # {} /\ (\A a, b \in S : a = b) => Cardinality(S) = 1
    <3>1. SUFFICES ASSUME NEW S, S # {}, \A a, b \in S : a = b PROVE Cardinality(S) = 1
      OBVIOUS
    <3>2. PICK a \in S : TRUE
      BY <3>1
    <3>3. S = {a}
      BY <3>1, <3>2
    <3> QED BY <3>3, FS_Singleton
  <2>9. Cardinality({}) = 0
    BY FS_EmptySet
  <2>10. CASE NotesFor(id) # {}
    <3>1. Working(id) = {} /\ \A i, j \in NotesFor(id) : i = j
      BY <2>5, <2>10
    <3>2. Cardinality(NotesFor(id)) = 1
      BY <2>8, <2>10, <3>1
    <3> QED BY <2>9, <3>1, <3>2
  <2>11. CASE NotesFor(id) = {}
    <3>1. Cardinality(Working(id)) = 1
      BY <2>6, <2>7, <2>8, <2>11
    <3> QED BY <2>9, <2>11, <3>1
  <2> QED BY <2>10, <2>11
<1>6. \A id \in {th.id : th \in {t \in threads : t.step # "ending"}} : id = 0 \/ id \in InProgress(ctrl)
  BY <1>2, <1>3, <1>4 DEF WorkersOK
<1>7. \A id \in {pendingChanges[i].id : i \in {j \in DOMAIN pendingChanges : pendingChanges[j].kind = "transfer"}} :
        id = 0 \/ id \in InProgress(ctrl)
  BY <1>2, <1>3, <1>4 DEF NotesOK
<1> QED BY <1>5, <1>6, <1>7 DEF Accounted

\* The behaviours of the system keep what an invariant says.
LEMMA BaseHolds ==
  Spec => []BaseInv
<1>1. BaseInv /\ [Next]_vars => BaseInv'
  BY BaseNext
<1>2. Init => BaseInv
  BY BaseInit
<1> QED BY <1>1, <1>2, PTL DEF Spec

\* Every transfer in progress has exactly one thread at work or one result on its way, unless a
\* stop interrupted it, and every thread and every result has its transfer: what
\* DM_ENG_ParameterManager_transferComplete and the processing of the queue of notifications
\* rely on, at any interleaving of the threads, the scheduler and the sessions.
THEOREM TransfersAccounted ==
  Spec => []Accounted
BY BaseHolds, AccountedFor, PTL

-----------------------------------------------------------------------------
(* The scheduler and the times *)

LEMMA NextIsFirst ==
  ASSUME NEW c, Valid(c)
  PROVE  LET next == getNextTimeout(c)
         IN  /\ \A i \in DOMAIN c.queue : c.queue[i].state = _NOT_YET_STARTED => next # 0 /\ next <= c.queue[i].due
             /\ \A i \in DOMAIN c.scheduled : next # 0 /\ next <= c.scheduled[i].time
<1>1. PICK q, n :
        /\ q = c.queue /\ n \in Nat /\ DOMAIN q = 1 .. n
        /\ \A i \in 1 .. n : q[i].due \in Nat
        /\ \A i, j \in 1 .. n : i <= j => q[i].due <= q[j].due
        /\ \A i \in 1 .. n : q[i].state = _NOT_YET_STARTED => q[i].due > 0
  BY Positions
<1>2. PICK s, m : s = c.scheduled /\ m = Len(s) /\ s \in Seq(Informs) /\ m \in Nat /\ DOMAIN s = 1 .. m
  <2>1. c.scheduled \in Seq(Informs)
    BY DEF Valid, Controls
  <2> QED BY <2>1
<1>3. /\ \A i \in 1 .. m : s[i].time \in Nat \ {0}
      /\ \A i, j \in 1 .. m : i <= j => s[i].time <= s[j].time
  <2>1. \A e \in Informs : e.time \in Nat \ {0}
    BY DEF Informs
  <2>2. \A i, j \in 1 .. m : i <= j => s[i].time <= s[j].time
    BY <1>2 DEF Valid, InOrder
  <2> QED BY <1>2, <2>1, <2>2
<1>4. PICK waiting : waiting = {i \in 1 .. n : q[i].state = _NOT_YET_STARTED}
  OBVIOUS
<1>5. PICK transfer, inform :
        /\ transfer = IF waiting = {} THEN 0 ELSE q[First(waiting)].due
        /\ inform = IF s = <<>> THEN 0 ELSE s[1].time
  OBVIOUS
<1>6. getNextTimeout(c) = IF inform # 0 /\ (transfer = 0 \/ inform < transfer) THEN inform ELSE transfer
  BY <1>1, <1>2, <1>4, <1>5 DEF getNextTimeout
<1>7. \A i \in waiting : transfer # 0 /\ transfer <= q[i].due
  <2>1. SUFFICES ASSUME NEW i \in waiting PROVE transfer # 0 /\ transfer <= q[i].due
    OBVIOUS
  <2>2. waiting \in SUBSET Nat /\ waiting # {}
    BY <1>4
  <2>3. PICK f : f = First(waiting) /\ f \in waiting /\ \A j \in waiting : f <= j
    BY <2>2, FirstIsLeast
  <2>4. transfer = q[f].due /\ f \in 1 .. n /\ q[f].state = _NOT_YET_STARTED /\ i \in 1 .. n /\ f <= i
    BY <1>4, <1>5, <2>2, <2>3
  <2>5. q[f].due \in Nat /\ q[f].due > 0 /\ q[f].due <= q[i].due
    BY <1>1, <2>4
  <2> QED BY <2>4, <2>5
<1>8. \A i \in 1 .. m : inform # 0 /\ inform <= s[i].time
  <2>1. SUFFICES ASSUME NEW i \in 1 .. m PROVE inform # 0 /\ inform <= s[i].time
    OBVIOUS
  <2>2. s # <<>> /\ 1 \in 1 .. m /\ 1 <= i
    BY <1>2, <2>1
  <2> QED BY <1>3, <1>5, <2>1, <2>2
<1>9. transfer \in Nat /\ inform \in Nat
  <2>1. CASE waiting # {}
    <3>1. First(waiting) \in waiting
      BY <1>4, <2>1, FirstIsLeast
    <3>2. transfer \in Nat
      BY <1>1, <1>4, <1>5, <2>1, <3>1
    <3>3. s = <<>> \/ 1 \in 1 .. m
      BY <1>2, EmptySeq
    <3> QED BY <1>3, <1>5, <3>2, <3>3
  <2>2. CASE waiting = {}
    <3>1. s = <<>> \/ 1 \in 1 .. m
      BY <1>2, EmptySeq
    <3> QED BY <1>3, <1>5, <2>2, <3>1
  <2> QED BY <2>1, <2>2
<1>10. PICK next : next = getNextTimeout(c)
  OBVIOUS
<1>11. \A i \in 1 .. n : q[i].state = _NOT_YET_STARTED => next # 0 /\ next <= q[i].due
  BY <1>1, <1>4, <1>6, <1>7, <1>9, <1>10
<1>12. \A i \in 1 .. m : next # 0 /\ next <= s[i].time
  BY <1>3, <1>6, <1>8, <1>9, <1>10
<1> QED BY <1>1, <1>2, <1>10, <1>11, <1>12

\* The scheduler wakes up for the earliest of the transfers and of the ScheduleInform commands:
\* DM_ENG_ParameterManager_getNextTimeout may look at one of each, as all that puts a request
\* into the queue, and reads it from the file, keeps it in the order of the times.
THEOREM EarliestIsNext ==
  Spec => []EarliestFirst
<1>1. BaseInv => EarliestFirst
  BY NextIsFirst DEF BaseInv, Types, EarliestFirst
<1> QED BY <1>1, BaseHolds, PTL

-----------------------------------------------------------------------------
(* The flag that keeps the transfers and the sessions apart *)

Holding(th) == th.step \in {"locked", "naming", "ending"} \/ (th.step \in {"transferring", "refused"} /\ th.key # Null)
EngineHolds(place) == place \in {"building", "managing", "ended", "inform", "session", "unlocking"}

\* Who is between _transferLock and _transferUnlock is counted among the holders.
HoldersInv ==
  /\ EngineHolds(engine) => Engine \in holders
  /\ \A th \in threads : Holding(th) => th.id \in holders

\* While nobody has taken the flag over, it is set and has one holder, or has none.
FlagInv ==
  /\ busy \in BOOLEAN /\ takenOver \in BOOLEAN
  /\ ~takenOver => (\A p, q \in holders : p = q) /\ (holders # {} => busy)

LEMMA FlagTaken ==
  ASSUME FlagInv, NEW p, Locks(p)
  PROVE  FlagInv' /\ holders' = holders \cup {p}
<1>1. CASE _transferLock(p)
  BY <1>1 DEF _transferLock, FlagInv
<1>2. CASE _transferLockTakesOver(p)
  BY <1>2 DEF _transferLockTakesOver, FlagInv
<1> QED BY <1>1, <1>2 DEF Locks

LEMMA FlagGiven ==
  ASSUME FlagInv, NEW p \in holders, _transferUnlock(p)
  PROVE  FlagInv' /\ holders' = holders \ {p}
<1>1. busy' = FALSE /\ holders' = holders \ {p} /\ takenOver' = (takenOver /\ holders # {p})
  BY DEF _transferUnlock
<1>2. takenOver' \in BOOLEAN
  BY <1>1
<1>3. ASSUME ~takenOver' PROVE holders' = {}
  <2>1. CASE takenOver
    BY <1>1, <1>3, <2>1
  <2>2. CASE ~takenOver
    BY <1>1, <2>2 DEF FlagInv
  <2> QED BY <2>1, <2>2
<1> QED BY <1>1, <1>2, <1>3 DEF FlagInv

LEMMA HoldersKept ==
  ASSUME HoldersInv, FlagInv, UNCHANGED <<busy, holders, takenOver>>, EngineHolds(engine') => EngineHolds(engine),
         \A th \in threads' : Holding(th) => \E t \in threads : t.id = th.id /\ Holding(t)
  PROVE  HoldersInv' /\ FlagInv'
<1>1. FlagInv'
  BY DEF FlagInv
<1>2. HoldersInv'
  BY DEF HoldersInv
<1> QED BY <1>1, <1>2

\* What neither begins nor ends a transfer or a session.
LEMMA HoldersOthers ==
  ASSUME BaseInv, HoldersInv, FlagInv,
         \/ UiBegins \/ UiThread \/ Acs \/ EngineSaves \/ Saving \/ Tick \/ Wake \/ EngineDrains \/ NotifierUnlocks
         \/ UNCHANGED vars
  PROVE  HoldersInv' /\ FlagInv'
<1>1. UNCHANGED <<busy, holders, takenOver>>
  BY DEF UiBegins, UiThread, UiSaves, UiFrees, UiNotifies, UiQueues, Acs, InformAnswered, SendResult, Acknowledge,
         CloseSession, SessionFails, EngineSaves, Saving, Tick, Wake, EngineDrains, NotifierUnlocks, vars, deviceVars,
         _buildInfoList, _saveInfoList, _saveInfoListOpens, _saveInfoListWrites
<1>2. threads' = threads
  BY DEF UiBegins, UiThread, UiSaves, UiFrees, UiNotifies, UiQueues, Acs, InformAnswered, SendResult, Acknowledge,
         CloseSession, SessionFails, EngineSaves, Saving, Tick, Wake, EngineDrains, NotifierUnlocks, vars
<1>3. EngineHolds(engine') => EngineHolds(engine)
  BY DEF UiBegins, UiThread, UiSaves, UiFrees, UiNotifies, UiQueues, Acs, InformAnswered, SendResult, Acknowledge,
         CloseSession, SessionFails, EngineSaves, Saving, Tick, Wake, EngineDrains, NotifierUnlocks, vars, EngineHolds,
         Processes, Refused, Enqueue
<1> QED BY <1>1, <1>2, <1>3, HoldersKept

\* A transfer that begins waits for the flag before it does anything else.
LEMMA HoldersStart ==
  ASSUME BaseInv, HoldersInv, FlagInv, AutonomousInProgress \/ EngineManages \/ Rpc
  PROVE  HoldersInv' /\ FlagInv'
<1>1. UNCHANGED <<busy, holders, takenOver>>
  BY DEF AutonomousInProgress, EngineManages, Rpc, deviceVars
<1>2. EngineHolds(engine') => EngineHolds(engine)
  BY DEF AutonomousInProgress, EngineManages, Rpc, EngineHolds
<1>3. \A tr : ~Holding(NewThread(tr))
  BY DEF NewThread, Holding
<1>4. \A th \in threads' : Holding(th) => th \in threads
  <2>1. CASE AutonomousInProgress
    <3>1. PICK last, w :
            /\ threads' = threads \cup {w}
            /\ w = [NewThread(Transfer(TRUE, Null, "http", 0, _IN_PROGRESS, 0, TRUE)) EXCEPT !.id = last, !.step = "transferring"]
      BY <2>1 DEF AutonomousInProgress
    <3>2. w.step = "transferring" /\ w.key = Null
      BY <3>1 DEF NewThread, Transfer
    <3> QED BY <3>1, <3>2 DEF Holding
  <2>2. CASE EngineManages
    <3>1. threads' = threads \cup {NewThread(ctrl.queue[i]) : i \in DueTransfers(ctrl, now)}
      BY <2>2 DEF EngineManages
    <3> QED BY <1>3, <3>1
  <2>3. CASE Rpc
    <3>1. PICK m, r : RpcStep(m, r)
      BY <2>3, RpcEffect
    <3>2. \A th \in threads' : th \in threads \/ th = NewThread(r.control.queue[First(Places(r.control, r.control.lastId))])
      BY <3>1 DEF RpcStep
    <3> QED BY <1>3, <3>2
  <2> QED BY <2>1, <2>2, <2>3
<1> QED BY <1>1, <1>2, <1>4, HoldersKept

\* The threads of the transfers.
LEMMA HoldersThread ==
  ASSUME BaseInv, HoldersInv, FlagInv, NEW th \in threads, ThreadStep(th)
  PROVE  HoldersInv' /\ FlagInv'
<1>1. /\ th \in Workers /\ th.id # Engine
      /\ \A t \in threads : t.id = th.id => t = th
  <2>1. WorkersOK(Records(ctrl), ctrl.lastId, threads)
    BY DEF BaseInv, WorkInv, Work
  <2> QED BY <2>1, ThreadOf DEF WorkersOK, Engine
<1>2. \A step \in Steps : Stepped(th, step).id = th.id /\ Stepped(th, step).key = th.key /\ Stepped(th, step).step = step
  BY <1>1, SteppedThread
<1>3. CASE ThreadLocks(th)
  <2>1. /\ Locks(th.id) /\ engine' = engine
        /\ \E step \in Steps : threads' = (threads \ {th}) \cup {Stepped(th, step)}
    BY <1>3 DEF ThreadLocks, Becomes, Stepped, Steps
  <2>2. FlagInv' /\ holders' = holders \cup {th.id}
    BY <2>1, FlagTaken
  <2>3. HoldersInv'
    BY <1>2, <2>1, <2>2 DEF HoldersInv
  <2> QED BY <2>2, <2>3
<1>4. CASE ThreadReadsName(th)
  <2>1. /\ UNCHANGED <<busy, holders, takenOver, engine>> /\ Holding(th)
        /\ \E step \in Steps : threads' = (threads \ {th}) \cup {Stepped(th, step)}
    BY <1>4 DEF ThreadReadsName, Becomes, Stepped, Steps, Holding, _buildInfoList
  <2>2. \A t \in threads' : Holding(t) => \E s \in threads : s.id = t.id /\ Holding(s)
    BY <1>2, <2>1
  <2> QED BY <2>1, <2>2, HoldersKept
<1>5. CASE ThreadTransfers(th) \/ ThreadQueues(th)
  <2>1. /\ UNCHANGED <<busy, holders, takenOver>> /\ th.step \in {"transferring", "refused"}
        /\ IF th.key = Null THEN threads' = threads \ {th} ELSE threads' = (threads \ {th}) \cup {Stepped(th, "ending")}
    BY <1>5, ThreadEffect DEF deviceVars
  <2>2. Stepped(th, "ending").id = th.id
    BY <1>2 DEF Steps
  <2>3. \A t \in threads' : Holding(t) => \E s \in threads : s.id = t.id /\ Holding(s)
    <3>1. CASE th.key = Null
      BY <2>1, <3>1
    <3>2. CASE th.key # Null
      <4>1. Holding(th)
        BY <2>1, <3>2 DEF Holding
      <4> QED BY <2>1, <2>2, <3>2, <4>1
    <3> QED BY <3>1, <3>2
  <2>4. EngineHolds(engine') => EngineHolds(engine)
    BY <1>5 DEF ThreadTransfers, ThreadQueues, Processes, Enqueue, EngineHolds
  <2> QED BY <2>1, <2>3, <2>4, HoldersKept
<1>6. CASE ThreadEnds(th)
  <2>1. _transferUnlock(th.id) /\ engine' = engine /\ threads' = threads \ {th} /\ th.step = "ending"
    BY <1>6 DEF ThreadEnds
  <2>2. th.id \in holders
    BY <2>1 DEF HoldersInv, Holding
  <2>3. FlagInv' /\ holders' = holders \ {th.id}
    BY <2>1, <2>2, FlagGiven
  <2>4. HoldersInv'
    BY <1>1, <2>1, <2>3 DEF HoldersInv
  <2> QED BY <2>3, <2>4
<1>7. CASE ThreadIsRefused(th)
  <2>1. /\ UNCHANGED <<busy, holders, takenOver, engine>> /\ th.step = "transferring"
        /\ threads' = (threads \ {th}) \cup {Stepped(th, "refused")}
    BY <1>7 DEF ThreadIsRefused, Refused, Becomes, Stepped, deviceVars
  <2>2. Stepped(th, "refused").id = th.id /\ (Holding(Stepped(th, "refused")) => Holding(th))
    BY <1>2, <2>1 DEF Steps, Holding
  <2>3. \A t \in threads' : Holding(t) => \E s \in threads : s.id = t.id /\ Holding(s)
    BY <2>1, <2>2
  <2> QED BY <2>1, <2>3, HoldersKept
<1> QED BY <1>3, <1>4, <1>5, <1>6, <1>7 DEF ThreadStep

\* The sessions, and the agent that stops and starts.
LEMMA HoldersSession ==
  ASSUME BaseInv, HoldersInv, FlagInv, EngineOpens \/ EngineUnlocks \/ Boot \/ Crash \/ TornSave \/ PlatformReboots
  PROVE  HoldersInv' /\ FlagInv'
<1>1. CASE EngineOpens
  <2>1. CASE engine = "locking" /\ Locks(Engine) /\ engine' = "building"
    <3>1. FlagInv' /\ holders' = holders \cup {Engine} /\ threads' = threads
      BY <1>1, <2>1, FlagTaken DEF EngineOpens
    <3>2. HoldersInv'
      BY <3>1 DEF HoldersInv
    <3> QED BY <3>1, <3>2
  <2>2. CASE engine = "building" /\ _buildInfoList(Engine)
    <3>1. UNCHANGED <<busy, holders, takenOver>> /\ threads' = threads /\ EngineHolds(engine)
      BY <1>1, <2>2 DEF EngineOpens, _buildInfoList, EngineHolds
    <3> QED BY <3>1, HoldersKept
  <2> QED BY <1>1, <2>1, <2>2 DEF EngineOpens
<1>2. CASE EngineUnlocks
  <2>1. _transferUnlock(Engine) /\ engine = "unlocking" /\ engine' = "idle" /\ threads' = threads
    BY <1>2 DEF EngineUnlocks, DM_ENG_Device_closeSession
  <2>2. Engine \in holders
    BY <2>1 DEF HoldersInv, EngineHolds
  <2>3. FlagInv' /\ holders' = holders \ {Engine}
    BY <2>1, <2>2, FlagGiven
  <2>4. \A th \in threads : th.id # Engine
    BY ThreadOf DEF Engine
  <2>5. HoldersInv'
    BY <2>1, <2>3, <2>4 DEF HoldersInv, EngineHolds
  <2> QED BY <2>3, <2>5
<1>3. CASE Boot \/ Crash \/ TornSave \/ PlatformReboots
  <2>1. busy' = FALSE /\ holders' = {} /\ takenOver' = FALSE /\ threads' = {} /\ ~EngineHolds(engine')
    BY <1>3 DEF Boot, Crash, TornSave, PlatformReboots, Stops, DM_ENG_Device_init, EngineHolds, BaseInv, AtRest
  <2>2. FlagInv'
    BY <2>1 DEF FlagInv
  <2>3. HoldersInv'
    BY <2>1 DEF HoldersInv
  <2> QED BY <2>2, <2>3
<1> QED BY <1>1, <1>2, <1>3

\* The sessions and the transfers do not overlap, as DM_DeviceAdapter.c:251 has it, unless
\* somebody has waited for more than thirty seconds: the flag is given back by those only who
\* took it, whatever the order of the threads.
THEOREM TransfersExclude ==
  Spec => []Exclusion
<1>1. Init => HoldersInv /\ FlagInv
  BY DEF Init, HoldersInv, FlagInv, EngineHolds
<1>2. BaseInv /\ HoldersInv /\ FlagInv /\ [Next]_vars => (HoldersInv /\ FlagInv)'
  <2>1. SUFFICES ASSUME BaseInv, HoldersInv, FlagInv, [Next]_vars PROVE HoldersInv' /\ FlagInv'
    OBVIOUS
  <2>2. CASE Threads
    BY <2>1, <2>2, HoldersThread DEF Threads
  <2>3. CASE UiBegins \/ UiThread \/ Acs \/ EngineSaves \/ Saving \/ Tick \/ UNCHANGED vars
    BY <2>1, <2>3, HoldersOthers
  <2>4. CASE AutonomousInProgress \/ Rpc
    BY <2>1, <2>4, HoldersStart
  <2>5. CASE Scheduler
    BY <2>1, <2>5, HoldersOthers, HoldersStart, HoldersSession DEF Scheduler
  <2>6. CASE Boot \/ Crash \/ TornSave \/ PlatformReboots
    BY <2>1, <2>6, HoldersSession
  <2> QED BY <2>1, <2>2, <2>3, <2>4, <2>5, <2>6 DEF Next
<1>3. FlagInv => Exclusion
  <2>1. SUFFICES ASSUME FlagInv, ~takenOver PROVE ~(Cardinality(holders) > 1)
    BY DEF Exclusion
  <2>2. \A p, q \in holders : p = q
    BY <2>1 DEF FlagInv
  <2>3. CASE holders = {}
    BY <2>3, FS_EmptySet
  <2>4. CASE holders # {}
    <3>1. PICK p \in holders : TRUE
      BY <2>4
    <3>2. holders = {p}
      BY <2>2, <3>1
    <3> QED BY SMTT(30), <3>2, FS_Singleton
  <2> QED BY <2>3, <2>4
<1> QED BY <1>1, <1>2, <1>3, BaseHolds, PTL DEF Spec

-----------------------------------------------------------------------------
(* What was once saved is remembered until the ACS has heard of it *)

KeysOf(S) == {r.key : r \in S} \ {Null}
ToldKeys == {t[1] : t \in told}

\* What was once in the file is in memory too, or was told.
Remembers(c, events) == CommandKeys(c) \cup EventKeys(events) \cup ToldKeys \cup lost
MemoryInv == engine # "off" => saved \subseteq Remembers(ctrl, pendingEvents)
FileInv == saved \subseteq Remembers(disk, pendingEvents)

\* Only the events of the boot have a key; they are in the file before the first session.
BootInv ==
  /\ engine = "off" => pendingEvents = {}
  /\ EventKeys(pendingEvents) # {} => listeners /\ engine \in {"locking", "building", "managing"}

\* The keys of the transfers, those that may become one of a result, the other ones, and those
\* the ACS has given.
TransferKeysEver ==
  TransferKeys(ctrl) \cup TransferKeys(disk) \cup {o[1] : o \in outcomes} \cup KeysOf(threads)
OtherKeysEver == OtherKeys(ctrl) \cup OtherKeys(disk) \cup EventKeys(pendingEvents)
Given == {Keys[n] : n \in 1 .. commands}

\* A key is that of one command, a transfer or another; what was told of a transfer is a result
\* it had.
KeysOK(transfers, others, given, tolds, outs) ==
  /\ transfers \subseteq given \ {Null} /\ others \subseteq given /\ transfers \cap others = {}
  /\ \A t \in tolds : t[1] \in given \cup {Null}
  /\ \A t \in tolds : t \in outs \/ t[1] \notin transfers
KeysInv == KeysOK(TransferKeysEver, OtherKeysEver, Given, told, outcomes)

LedgerInv == MemoryInv /\ FileInv /\ BootInv /\ KeysInv

LEMMA KeysStep ==
  ASSUME NEW tr, NEW ot, NEW giv, NEW tolds, NEW outs, KeysOK(tr, ot, giv, tolds, outs),
         NEW tr2, NEW ot2, NEW giv2, NEW tolds2, NEW outs2, giv \subseteq giv2, outs \subseteq outs2,
         (tr2 \ tr) \cup (ot2 \ ot) \subseteq giv2 \ (giv \cup {Null}), (tr2 \ tr) \cap (ot2 \ ot) = {},
         \A t \in tolds2 : t \in tolds \/ (t \in outs2 /\ t[1] \in tr) \/ t[1] \in ot \cup {Null}
  PROVE  KeysOK(tr2, ot2, giv2, tolds2, outs2)
BY DEF KeysOK

LEMMA AllKeys ==
  ASSUME NEW c
  PROVE  TransferKeys(c) = KeysOf(Records(c)) /\ CommandKeys(c) = KeysOf(Records(c)) \cup OtherKeys(c)
<1>1. TransferKeys(c) = KeysOf(Records(c))
  BY DEF TransferKeys, KeysOf, Records
<1> QED BY <1>1 DEF CommandKeys, OtherKeys

\* The operations on the transfers keep their keys.
LEMMA SameKeys ==
  ASSUME NEW R \in SUBSET Entries
  PROVE  /\ \A id : \A fault \in Faults : KeysOf(Completed(R, id, fault)) = KeysOf(R)
         /\ \A time : KeysOf(Started(R, time)) = KeysOf(R)
<1>1. ASSUME NEW id, NEW fault \in Faults PROVE KeysOf(Completed(R, id, fault)) = KeysOf(R)
  <2>1. PICK S : S = Completed(R, id, fault)
    OBVIOUS
  <2>2. (\A x \in S : \E r \in R : x.key = r.key) /\ (\A r \in R : \E x \in S : x.key = r.key)
    BY <2>1, CompletedOneByOne
  <2> QED BY <2>1, <2>2 DEF KeysOf
<1>2. ASSUME NEW time PROVE KeysOf(Started(R, time)) = KeysOf(R)
  <2>1. PICK S : S = Started(R, time)
    OBVIOUS
  <2>2. (\A x \in S : \E r \in R : x.key = r.key) /\ (\A r \in R : \E x \in S : x.key = r.key)
    BY <2>1, StartedOneByOne
  <2> QED BY <2>1, <2>2 DEF KeysOf
<1> QED BY <1>1, <1>2

LEMMA ProcessedKeys ==
  ASSUME NEW R \in SUBSET Entries, NEW last, NEW note \in Notes
  PROVE  KeysOf(Processed(R, last, note)) = KeysOf(R)
<1>1. CASE note.kind # "transfer"
  BY <1>1 DEF Processed
<1>2. CASE note.kind = "transfer" /\ note.id = 0
  <2>1. PICK e : e = [Transfer(TRUE, Null, "http", 0, _COMPLETED, note.fault, FALSE) EXCEPT !.id = last + 1]
    OBVIOUS
  <2>2. e.key = Null
    BY <2>1 DEF Transfer
  <2>3. Processed(R, last, note) = R \cup {e}
    BY <1>2, <2>1 DEF Processed
  <2> QED BY <2>2, <2>3 DEF KeysOf
<1>3. CASE note.kind = "transfer" /\ note.id # 0
  <2>1. ResultCode(note) \in Faults
    BY ResultCodes
  <2> QED BY <1>3, <2>1, SameKeys DEF Processed
<1> QED BY <1>1, <1>2, <1>3

\* What is known of the keys after a step that loses none.
LEMMA MemoryKept ==
  ASSUME MemoryInv, FileInv, engine # "off", told \subseteq told', lost \subseteq lost',
         \/ disk' = ctrl' /\ saved' = saved \cup CommandKeys(ctrl')
         \/ UNCHANGED <<disk, saved>> /\ EventKeys(pendingEvents) \subseteq EventKeys(pendingEvents'),
         CommandKeys(ctrl) \cup EventKeys(pendingEvents)
           \subseteq CommandKeys(ctrl') \cup EventKeys(pendingEvents') \cup {t[1] : t \in told'} \cup lost'
  PROVE  MemoryInv' /\ FileInv'
<1>1. ToldKeys \subseteq {t[1] : t \in told'} /\ ToldKeys' = {t[1] : t \in told'}
  BY DEF ToldKeys
<1>2. Remembers(ctrl, pendingEvents) \subseteq CommandKeys(ctrl') \cup EventKeys(pendingEvents') \cup {t[1] : t \in told'} \cup lost'
  BY <1>1 DEF Remembers
<1>3. saved \subseteq Remembers(ctrl, pendingEvents) /\ saved \subseteq Remembers(disk, pendingEvents)
  BY DEF MemoryInv, FileInv
<1>4. CASE disk' = ctrl' /\ saved' = saved \cup CommandKeys(ctrl')
  <2>1. saved' \subseteq CommandKeys(ctrl') \cup EventKeys(pendingEvents') \cup {t[1] : t \in told'} \cup lost'
    BY <1>2, <1>3, <1>4
  <2> QED BY <1>1, <1>4, <2>1 DEF MemoryInv, FileInv, Remembers
<1>5. CASE UNCHANGED <<disk, saved>> /\ EventKeys(pendingEvents) \subseteq EventKeys(pendingEvents')
  <2>1. saved' \subseteq CommandKeys(ctrl') \cup EventKeys(pendingEvents') \cup {t[1] : t \in told'} \cup lost'
    BY <1>2, <1>3, <1>5
  <2>2. saved' \subseteq CommandKeys(disk') \cup EventKeys(pendingEvents') \cup {t[1] : t \in told'} \cup lost'
    BY <1>1, <1>3, <1>5 DEF Remembers
  <2> QED BY <1>1, <2>1, <2>2 DEF MemoryInv, FileInv, Remembers
<1> QED BY <1>4, <1>5

\* The keys after a step that takes no new one.
LEMMA KeysKept ==
  ASSUME KeysInv, commands' = commands, outcomes \subseteq outcomes',
         TransferKeysEver' \subseteq TransferKeysEver, OtherKeysEver' \subseteq OtherKeysEver,
         \A t \in told' : t \in told \/ (t \in outcomes' /\ t[1] \in TransferKeysEver) \/ t[1] \in OtherKeysEver \cup {Null}
  PROVE  KeysInv'
<1>1. PICK tr, ot, giv, tolds, outs, tr2, ot2, tolds2, outs2 :
        /\ tr = TransferKeysEver /\ ot = OtherKeysEver /\ giv = Given /\ tolds = told /\ outs = outcomes
        /\ tr2 = TransferKeysEver' /\ ot2 = OtherKeysEver' /\ tolds2 = told' /\ outs2 = outcomes'
  OBVIOUS
<1>2. Given' = giv
  BY <1>1 DEF Given
<1>3. KeysOK(tr, ot, giv, tolds, outs)
  BY <1>1 DEF KeysInv
<1>4. tr2 \ tr = {} /\ ot2 \ ot = {} /\ outs \subseteq outs2
  BY <1>1
<1>5. \A t \in tolds2 : t \in tolds \/ (t \in outs2 /\ t[1] \in tr) \/ t[1] \in ot \cup {Null}
  BY <1>1
<1>6. KeysOK(tr2, ot2, giv, tolds2, outs2)
  BY <1>3, <1>4, <1>5, KeysStep
<1> QED BY <1>1, <1>2, <1>6 DEF KeysInv

\* A step that leaves the control data and the events alone.
LEMMA LedgerSame ==
  ASSUME LedgerInv, UNCHANGED <<ctrl, disk, saved, told, outcomes, lost, pendingEvents, commands>>,
         KeysOf(threads') \subseteq KeysOf(threads), engine = "off" => engine' = "off", BootInv'
  PROVE  LedgerInv'
<1>1. MemoryInv' /\ FileInv'
  BY DEF LedgerInv, MemoryInv, FileInv, Remembers, ToldKeys
<1>2. TransferKeysEver' \subseteq TransferKeysEver /\ OtherKeysEver' \subseteq OtherKeysEver
  BY DEF TransferKeysEver, OtherKeysEver
<1>3. KeysInv'
  BY <1>2, KeysKept DEF LedgerInv
<1> QED BY <1>1, <1>3 DEF LedgerInv

LEMMA SteppedKeys ==
  ASSUME BaseInv, NEW th \in threads, NEW step \in Steps
  PROVE  KeysOf((threads \ {th}) \cup {Stepped(th, step)}) \subseteq KeysOf(threads) /\ KeysOf(threads \ {th}) \subseteq KeysOf(threads)
<1>1. Stepped(th, step).key = th.key
  BY ThreadOf, SteppedThread
<1> QED BY <1>1 DEF KeysOf

LEMMA LedgerThread ==
  ASSUME BaseInv, LedgerInv, NEW th \in threads, ThreadLocks(th) \/ ThreadReadsName(th) \/ ThreadIsRefused(th) \/ ThreadEnds(th)
  PROVE  LedgerInv'
<1>1. /\ UNCHANGED <<ctrl, disk, saved, told, outcomes, lost, pendingEvents, commands, engine, listeners>>
      /\ \/ threads' = threads \ {th}
         \/ \E step \in Steps : threads' = (threads \ {th}) \cup {Stepped(th, step)}
  <2>1. CASE ThreadLocks(th)
    BY <2>1 DEF ThreadLocks, Becomes, Stepped, Steps, ghosts
  <2>2. CASE ThreadReadsName(th)
    BY <2>2 DEF ThreadReadsName, Becomes, Stepped, Steps, ghosts, counters
  <2>3. CASE ThreadEnds(th)
    BY <2>3 DEF ThreadEnds, ghosts, counters
  <2>4. CASE ThreadIsRefused(th)
    BY <2>4 DEF ThreadIsRefused, Refused, Becomes, Stepped, Steps, counters
  <2> QED BY <2>1, <2>2, <2>3, <2>4
<1>2. KeysOf(threads') \subseteq KeysOf(threads)
  <2>1. "created" \in Steps
    BY DEF Steps
  <2> QED BY <1>1, <2>1, SteppedKeys
<1>3. BootInv'
  BY <1>1 DEF LedgerInv, BootInv
<1> QED BY <1>1, <1>2, <1>3, LedgerSame

LEMMA LedgerOthers ==
  ASSUME BaseInv, LedgerInv,
         \/ UiBegins \/ UiSaves \/ UiFrees \/ EngineSaves \/ Saving \/ Tick \/ Wake \/ EngineOpens \/ SendResult
         \/ NotifierUnlocks \/ CloseSession \/ SessionFails \/ UNCHANGED vars
  PROVE  LedgerInv'
<1>1. UNCHANGED <<ctrl, disk, saved, told, outcomes, lost, pendingEvents, commands, threads>>
  BY DEF UiBegins, UiSaves, UiFrees, EngineSaves, Saving, Tick, Wake, EngineOpens, SendResult, NotifierUnlocks, CloseSession,
         SessionFails,
         ghosts, counters, vars
<1>2. BootInv' /\ (engine = "off" => engine' = "off")
  <2>1. BootInv
    BY DEF LedgerInv
  <2>2. CASE UiBegins \/ UiSaves \/ UiFrees \/ EngineSaves \/ Saving \/ Tick \/ SendResult \/ UNCHANGED vars
    <3>1. engine' = engine /\ listeners' = listeners
      BY <2>2 DEF UiBegins, UiSaves, UiFrees, EngineSaves, Saving, Tick, SendResult, vars
    <3> QED BY <1>1, <2>1, <3>1 DEF BootInv
  <2>3. CASE Wake \/ EngineOpens \/ NotifierUnlocks
    BY <1>1, <2>1, <2>3 DEF Wake, EngineOpens, NotifierUnlocks, BootInv
  <2>4. CASE CloseSession \/ SessionFails
    BY <1>1, <2>1, <2>4 DEF CloseSession, SessionFails, BootInv
  <2> QED BY <2>2, <2>3, <2>4
<1> QED BY <1>1, <1>2, LedgerSame

\* A step of a thread or of the engine on the transfers that leaves the other commands alone.
LEMMA LedgerChange ==
  ASSUME BaseInv, LedgerInv, Valid(ctrl'), Rest(ctrl') = Rest(ctrl), engine # "off",
         KeysOf(Records(ctrl')) = KeysOf(Records(ctrl)),
         EventKeys(pendingEvents') = EventKeys(pendingEvents),
         \/ disk' = ctrl' /\ saved' = saved \cup CommandKeys(ctrl')
         \/ UNCHANGED <<disk, saved>>,
         KeysOf(threads') \subseteq KeysOf(threads),
         outcomes \subseteq outcomes', \A o \in outcomes' : o \in outcomes \/ o[1] \in KeysOf(threads),
         engine' = engine \/ (engine = "idle" /\ engine' = "draining"),
         UNCHANGED <<told, lost, commands, listeners>>
  PROVE  LedgerInv'
<1>1. OtherKeys(ctrl') = OtherKeys(ctrl)
  <2>1. PICK c : c = ctrl'
    OBVIOUS
  <2> QED BY <2>1, RestKeys
<1>2. CommandKeys(ctrl') = CommandKeys(ctrl) /\ TransferKeys(ctrl') = TransferKeys(ctrl)
  <2>1. PICK c : c = ctrl'
    OBVIOUS
  <2> QED BY <1>1, <2>1, AllKeys
<1>3. MemoryInv' /\ FileInv'
  BY <1>2, MemoryKept DEF LedgerInv
<1>4. BootInv'
  BY DEF LedgerInv, BootInv
<1>5. TransferKeys(disk') \subseteq TransferKeys(ctrl) \cup TransferKeys(disk) /\ OtherKeys(disk') \subseteq OtherKeys(ctrl) \cup OtherKeys(disk)
  <2>1. CASE disk' = ctrl'
    <3>1. TransferKeys(disk') = TransferKeys(ctrl) /\ OtherKeys(disk') = OtherKeys(ctrl)
      BY <1>1, <1>2, <2>1
    <3> QED BY <3>1
  <2>2. CASE disk' = disk
    BY <2>2
  <2> QED BY <2>1, <2>2
<1>6. {o[1] : o \in outcomes'} \subseteq {o[1] : o \in outcomes} \cup KeysOf(threads)
  OBVIOUS
<1>7. TransferKeysEver' \subseteq TransferKeysEver
  BY <1>2, <1>5, <1>6 DEF TransferKeysEver
<1>8. OtherKeysEver' \subseteq OtherKeysEver
  BY <1>1, <1>5 DEF OtherKeysEver
<1>9. KeysInv'
  BY <1>7, <1>8, KeysKept DEF LedgerInv
<1> QED BY <1>3, <1>4, <1>9 DEF LedgerInv

\* The notifications, processed or queued.
LEMMA NotifiedKeys ==
  ASSUME BaseInv, NEW note \in Notes, Notify(note)
  PROVE  /\ Valid(ctrl') /\ Rest(ctrl') = Rest(ctrl) /\ EventKeys(pendingEvents') = EventKeys(pendingEvents)
         /\ (disk' = ctrl' /\ saved' = saved \cup CommandKeys(ctrl')) \/ UNCHANGED <<disk, saved>>
         /\ KeysOf(Records(ctrl')) = KeysOf(Records(ctrl))
         /\ engine' = engine \/ (engine = "idle" /\ engine' = "draining")
<1>1. Records(ctrl) \in SUBSET Entries /\ Valid(ctrl)
  BY RecordsOf DEF BaseInv, Types
<1>2. CASE Processes(note)
  <2>1. Records(ctrl') = Processed(Records(ctrl), ctrl.lastId, note)
    BY <1>2, ProcessesEffect
  <2>2. KeysOf(Records(ctrl')) = KeysOf(Records(ctrl))
    BY <1>1, <2>1, ProcessedKeys
  <2> QED BY <1>2, <2>2, ProcessesEffect
<1>3. CASE Enqueue(note)
  BY <1>1, <1>3 DEF Enqueue
<1> QED BY <1>2, <1>3 DEF Notify

LEMMA LedgerTransfers ==
  ASSUME BaseInv, LedgerInv, NEW th \in threads, ThreadTransfers(th) \/ ThreadQueues(th)
  PROVE  LedgerInv'
<1>1. PICK note \in Notes :
        /\ Notify(note)
        /\ outcomes' = IF th.key = Null THEN outcomes ELSE outcomes \cup {<<th.key, ResultCode(note)>>}
  BY ThreadEffect
<1>2. /\ threads' = threads \ {th} \/ threads' = (threads \ {th}) \cup {Stepped(th, "ending")}
      /\ engine # "off" /\ UNCHANGED <<listeners, commands, told, lost>>
  BY ThreadEffect
<1>3. KeysOf(threads') \subseteq KeysOf(threads)
  <2>1. "ending" \in Steps
    BY DEF Steps
  <2> QED BY <1>2, <2>1, SteppedKeys
<1>4. \A o \in outcomes' : o \in outcomes \/ o[1] \in KeysOf(threads)
  <2>1. CASE th.key = Null
    BY <1>1, <2>1
  <2>2. CASE th.key # Null
    <3>1. PICK fault : outcomes' = outcomes \cup {<<th.key, fault>>}
      BY <1>1, <2>2
    <3>2. th.key \in KeysOf(threads)
      BY <2>2 DEF KeysOf
    <3> QED BY <3>1, <3>2
  <2> QED BY <2>1, <2>2
<1>5. outcomes \subseteq outcomes'
  BY <1>1
<1>6. /\ Valid(ctrl') /\ Rest(ctrl') = Rest(ctrl) /\ EventKeys(pendingEvents') = EventKeys(pendingEvents)
      /\ (disk' = ctrl' /\ saved' = saved \cup CommandKeys(ctrl')) \/ UNCHANGED <<disk, saved>>
      /\ KeysOf(Records(ctrl')) = KeysOf(Records(ctrl))
      /\ engine' = engine \/ (engine = "idle" /\ engine' = "draining")
  BY <1>1, NotifiedKeys
<1> QED BY <1>2, <1>3, <1>4, <1>5, <1>6, LedgerChange

LEMMA LedgerNotified ==
  ASSUME BaseInv, LedgerInv, UiNotifies \/ UiQueues
  PROVE  LedgerInv'
<1>1. engine # "off" /\ UNCHANGED <<threads, listeners, commands, told, lost, outcomes>>
  BY UiEffect
<1>2. CASE \E note \in Notes : Notify(note)
  <2>1. PICK note \in Notes : Notify(note)
    BY <1>2
  <2>2. /\ Valid(ctrl') /\ Rest(ctrl') = Rest(ctrl) /\ EventKeys(pendingEvents') = EventKeys(pendingEvents)
        /\ (disk' = ctrl' /\ saved' = saved \cup CommandKeys(ctrl')) \/ UNCHANGED <<disk, saved>>
        /\ KeysOf(Records(ctrl')) = KeysOf(Records(ctrl))
        /\ engine' = engine \/ (engine = "idle" /\ engine' = "draining")
    BY <2>1, NotifiedKeys
  <2> QED BY <1>1, <2>2, LedgerChange
<1>3. CASE UNCHANGED <<ctrl, disk, saved, pendingEvents, engine, pendingChanges>>
  <2>1. BootInv'
    BY <1>1, <1>3 DEF LedgerInv, BootInv
  <2> QED BY <1>1, <1>3, <2>1, LedgerSame
<1> QED BY <1>2, <1>3, UiEffect

LEMMA LedgerAutonomous ==
  ASSUME BaseInv, LedgerInv, AutonomousInProgress
  PROVE  LedgerInv'
<1>1. PICK tr, c, w :
        /\ tr = Transfer(TRUE, Null, "http", 0, _IN_PROGRESS, 0, FALSE) /\ c = insertTransferRequest(ctrl, tr)
        /\ w = [NewThread(Transfer(TRUE, Null, "http", 0, _IN_PROGRESS, 0, TRUE)) EXCEPT !.id = c.lastId, !.step = "transferring"]
  OBVIOUS
<1>2. /\ engine = "idle" /\ ctrl' = c /\ disk' = c /\ saved' = saved \cup CommandKeys(c) /\ threads' = threads \cup {w}
      /\ engine' \in {"idle", "draining"}
      /\ UNCHANGED <<pendingEvents, listeners, commands, told, outcomes, lost>>
  BY <1>1 DEF AutonomousInProgress, Sync, Saves
<1>3. tr \in Entries /\ tr.state # _NOT_YET_STARTED /\ tr.key = Null
  <2>1. Null \in KeySet /\ "http" \in Urls /\ 0 \in Faults
    BY ResultCodes DEF KeySet, Urls
  <2>2. _IN_PROGRESS \in 1 .. 3 /\ _IN_PROGRESS # _NOT_YET_STARTED
    BY States
  <2> QED BY <1>1, <2>1, <2>2 DEF Transfer, Entries
<1>4. PICK e : e = [tr EXCEPT !.id = ctrl.lastId + 1]
  OBVIOUS
<1>5. Valid(c) /\ Records(c) = Records(ctrl) \cup {e} /\ Rest(c) = Rest(ctrl)
  BY <1>1, <1>3, <1>4, InsertEffect DEF BaseInv, Types
<1>6. e.key = Null /\ w.key = Null
  BY <1>1, <1>3, <1>4 DEF Entries, NewThread, Transfer
<1>7. KeysOf(Records(c)) = KeysOf(Records(ctrl)) /\ KeysOf(threads') = KeysOf(threads)
  BY <1>2, <1>5, <1>6 DEF KeysOf
<1> QED BY <1>2, <1>5, <1>7, LedgerChange

LEMMA LedgerDrains ==
  ASSUME BaseInv, LedgerInv, EngineDrains
  PROVE  LedgerInv'
<1>1. /\ Valid(ctrl') /\ disk' = ctrl' /\ saved' = saved \cup CommandKeys(ctrl') /\ Rest(ctrl') = Rest(ctrl)
      /\ Head(pendingChanges) \in Notes
      /\ Records(ctrl') = Processed(Records(ctrl), ctrl.lastId, Head(pendingChanges))
      /\ EventKeys(pendingEvents') = EventKeys(pendingEvents)
      /\ engine # "off"
      /\ UNCHANGED <<engine, threads, listeners, commands, told, outcomes, lost>>
  BY DrainEffect
<1>2. Records(ctrl) \in SUBSET Entries
  BY RecordsOf DEF BaseInv, Types
<1>3. KeysOf(Records(ctrl')) = KeysOf(Records(ctrl))
  BY <1>1, <1>2, ProcessedKeys
<1> QED BY <1>1, <1>3, LedgerChange

\* The head of the loop: the events and the keys they carry are saved.
LEMMA LedgerManages ==
  ASSUME BaseInv, LedgerInv, EngineManages
  PROVE  LedgerInv'
<1>1. PICK c : c = manageEvents(ctrl, pendingEvents, now)
  OBVIOUS
<1>2. /\ engine \in {"managing", "ended"} /\ ctrl' = c /\ disk' = c /\ saved' = saved \cup CommandKeys(c)
      /\ engine' \in {"unlocking", "ended", "inform"} /\ pendingEvents' = {}
      /\ threads' = threads \cup {NewThread(ctrl.queue[i]) : i \in DueTransfers(ctrl, now)}
      /\ UNCHANGED <<listeners, commands, told, outcomes, lost>>
  BY <1>1 DEF EngineManages, Sync, Saves, counters
<1>3. Valid(ctrl) /\ pendingEvents \in SUBSET Events /\ now \in Nat
  BY DEF BaseInv, Types
<1>4. /\ Valid(c) /\ Records(c) = Started(Records(ctrl), now)
      /\ OtherKeys(c) = OtherKeys(ctrl) \cup EventKeys(pendingEvents)
  BY <1>1, <1>3, ManageEffect
<1>5. Records(ctrl) \in SUBSET Entries
  BY <1>3, RecordsOf
<1>6. KeysOf(Records(c)) = KeysOf(Records(ctrl))
  BY <1>4, <1>5, SameKeys
<1>7. threads' = threads \cup DueThreads(Records(ctrl), now)
  <2>1. {NewThread(ctrl.queue[i]) : i \in DueTransfers(ctrl, now)} = DueThreads(Records(ctrl), now)
    BY DEF DueTransfers, DueThreads, Records
  <2> QED BY <1>2, <2>1
<1>8. KeysOf(threads') \subseteq KeysOf(threads) \cup KeysOf(Records(ctrl))
  BY <1>5, <1>7, NewThreads DEF KeysOf
<1>9. EventKeys(pendingEvents') = {}
  BY <1>2 DEF EventKeys
<1>10. /\ CommandKeys(c) = CommandKeys(ctrl) \cup EventKeys(pendingEvents)
       /\ TransferKeys(c) = TransferKeys(ctrl) /\ TransferKeys(ctrl) = KeysOf(Records(ctrl))
  BY <1>4, <1>6, AllKeys
<1>11. MemoryInv' /\ FileInv'
  BY <1>2, <1>9, <1>10, MemoryKept DEF LedgerInv
<1>12. BootInv'
  BY <1>2, <1>9 DEF BootInv
<1>13. TransferKeysEver' \subseteq TransferKeysEver
  BY <1>2, <1>8, <1>10 DEF TransferKeysEver
<1>14. OtherKeysEver' \subseteq OtherKeysEver
  BY <1>2, <1>4, <1>9 DEF OtherKeysEver
<1>15. KeysInv'
  BY <1>2, <1>13, <1>14, KeysKept DEF LedgerInv
<1> QED BY <1>11, <1>12, <1>15 DEF LedgerInv

LEMMA LedgerUnlocks ==
  ASSUME BaseInv, LedgerInv, EngineUnlocks
  PROVE  LedgerInv'
<1>1. /\ engine = "unlocking" /\ engine' = "idle" /\ ctrl' = ctrl /\ disk' = ctrl /\ saved' = saved \cup CommandKeys(ctrl)
      /\ UNCHANGED <<pendingEvents, threads, listeners, commands, told, outcomes, lost>>
  BY DEF EngineUnlocks, Sync, Saves, counters
<1>2. MemoryInv' /\ FileInv'
  BY <1>1, MemoryKept DEF LedgerInv
<1>3. BootInv'
  BY <1>1 DEF LedgerInv, BootInv
<1>4. TransferKeysEver' \subseteq TransferKeysEver /\ OtherKeysEver' \subseteq OtherKeysEver
  BY <1>1 DEF TransferKeysEver, OtherKeysEver
<1>5. KeysInv'
  BY <1>1, <1>4, KeysKept DEF LedgerInv
<1> QED BY <1>2, <1>3, <1>5 DEF LedgerInv

\* What the ACS hears of a transfer when its result is confirmed.
Heard == {<<ctrl.queue[i].key, ctrl.queue[i].fault>> : i \in Places(ctrl, sending)}

LEMMA HeardResults ==
  ASSUME BaseInv, NEW t \in Heard
  PROVE  t[1] = Null \/ (t \in outcomes /\ t[1] \in KeysOf(Records(ctrl)))
<1>1. PICK i \in Places(ctrl, sending) : t = <<ctrl.queue[i].key, ctrl.queue[i].fault>>
  BY DEF Heard
<1>2. PICK r : r = ctrl.queue[i]
  OBVIOUS
<1>3. r \in Records(ctrl) /\ r.id = sending
  BY <1>1, <1>2 DEF Records, Places
<1>4. r.state = _COMPLETED
  BY <1>3 DEF BaseInv, WorkInv, Work, SendingOK
<1>5. r.key # Null => <<r.key, r.fault>> \in outcomes
  BY <1>3, <1>4 DEF BaseInv, WorkInv, Work, ResultsOK
<1>6. t = <<r.key, r.fault>> /\ t[1] = r.key
  BY <1>1, <1>2
<1>7. r.key = Null \/ r.key \in KeysOf(Records(ctrl))
  BY <1>3 DEF KeysOf
<1> QED BY <1>5, <1>6, <1>7

\* A transfer that leaves the queue is one the ACS has heard of.
LEMMA HeardKeys ==
  ASSUME BaseInv
  PROVE  /\ KeysOf(Records(ctrl)) \subseteq KeysOf(Records(Confirmed(ctrl))) \cup {t[1] : t \in Heard}
         /\ KeysOf(Records(Confirmed(ctrl))) \subseteq KeysOf(Records(ctrl))
         /\ OtherKeys(Confirmed(ctrl)) = OtherKeys(ctrl) /\ RebootKeys(Confirmed(ctrl)) = RebootKeys(ctrl)
<1>1. PICK c : c = Confirmed(ctrl)
  OBVIOUS
<1>2. Records(c) = (IF sending = 0 THEN Records(ctrl) ELSE Without(Records(ctrl), sending)) /\ Rest(c) = Rest(ctrl)
  BY <1>1, ConfirmedEffect DEF BaseInv, Types
<1>3. KeysOf(Records(c)) \subseteq KeysOf(Records(ctrl))
  BY <1>2 DEF KeysOf, Without
<1>4. ASSUME NEW r \in Records(ctrl), r.id = sending PROVE r.key \in {t[1] : t \in Heard}
  <2>1. PICK i \in DOMAIN ctrl.queue : r = ctrl.queue[i]
    BY <1>4 DEF Records
  <2>2. i \in Places(ctrl, sending)
    BY <1>4, <2>1 DEF Places
  <2>3. <<r.key, r.fault>> \in Heard
    BY <2>1, <2>2 DEF Heard
  <2> QED BY <2>3
<1>5. \A r \in Records(ctrl) : r \in Records(c) \/ r.id = sending
  BY <1>2 DEF Without
<1>6. KeysOf(Records(ctrl)) \subseteq KeysOf(Records(c)) \cup {t[1] : t \in Heard}
  BY <1>4, <1>5 DEF KeysOf
<1>7. OtherKeys(c) = OtherKeys(ctrl) /\ RebootKeys(c) = RebootKeys(ctrl)
  BY <1>2, RestKeys
<1> QED BY <1>1, <1>3, <1>6, <1>7

LEMMA LedgerInformAnswered ==
  ASSUME BaseInv, LedgerInv, InformAnswered
  PROVE  LedgerInv'
<1>1. PICK c, keys : c = [ctrl EXCEPT !.events = {}] /\ keys = EventKeys(ctrl.events)
  OBVIOUS
<1>2. /\ engine = "inform" /\ engine' = "session" /\ ctrl' = c /\ disk' = c /\ saved' = saved \cup CommandKeys(c)
      /\ told' = told \cup {<<key, 0>> : key \in keys}
      /\ UNCHANGED <<pendingEvents, threads, listeners, commands, outcomes, lost>>
  BY <1>1 DEF InformAnswered, Sync, Saves, counters
<1>3. Records(c) = Records(ctrl) /\ OtherKeys(ctrl) = OtherKeys(c) \cup keys
  BY <1>1, ForgetEffect DEF BaseInv, Types
<1>4. TransferKeys(c) = TransferKeys(ctrl) /\ CommandKeys(ctrl) = CommandKeys(c) \cup keys
  BY <1>3, AllKeys
<1>5. keys \subseteq {t[1] : t \in told'}
  <2>1. ASSUME NEW key \in keys PROVE key \in {t[1] : t \in told'}
    <3>1. <<key, 0>> \in told' /\ <<key, 0>>[1] = key
      BY <1>2, <2>1
    <3> QED BY <3>1
  <2> QED BY <2>1
<1>6. MemoryInv' /\ FileInv'
  BY <1>2, <1>4, <1>5, MemoryKept DEF LedgerInv
<1>7. BootInv'
  BY <1>2 DEF LedgerInv, BootInv
<1>8. TransferKeysEver' \subseteq TransferKeysEver
  BY <1>2, <1>4 DEF TransferKeysEver
<1>9. OtherKeysEver' \subseteq OtherKeysEver /\ keys \subseteq OtherKeysEver
  BY <1>2, <1>3 DEF OtherKeysEver
<1>10. \A t \in told' : t \in told \/ t[1] \in OtherKeysEver
  BY <1>2, <1>9
<1>11. KeysInv'
  BY <1>2, <1>8, <1>9, <1>10, KeysKept DEF LedgerInv
<1> QED BY <1>6, <1>7, <1>11 DEF LedgerInv

LEMMA LedgerAcknowledge ==
  ASSUME BaseInv, LedgerInv, Acknowledge
  PROVE  LedgerInv'
<1>1. PICK c, heard : c = Confirmed(ctrl) /\ heard = Heard
  OBVIOUS
<1>2. /\ engine = "session" /\ ctrl' = c /\ disk' = c /\ saved' = saved \cup CommandKeys(c)
      /\ told' = told \cup heard
      /\ UNCHANGED <<engine, pendingEvents, threads, listeners, commands, outcomes, lost>>
  BY <1>1 DEF Acknowledge, Confirm, Sync, Saves, counters, Heard
<1>3. /\ KeysOf(Records(ctrl)) \subseteq KeysOf(Records(c)) \cup {t[1] : t \in heard}
      /\ KeysOf(Records(c)) \subseteq KeysOf(Records(ctrl)) /\ OtherKeys(c) = OtherKeys(ctrl)
  BY <1>1, HeardKeys
<1>4. /\ TransferKeys(c) \subseteq TransferKeys(ctrl) /\ KeysOf(Records(ctrl)) = TransferKeys(ctrl)
      /\ CommandKeys(ctrl) \subseteq CommandKeys(c) \cup {t[1] : t \in heard}
  BY <1>3, AllKeys
<1>5. {t[1] : t \in heard} \subseteq {t[1] : t \in told'}
  BY <1>2
<1>6. MemoryInv' /\ FileInv'
  <2>1. CommandKeys(ctrl) \cup EventKeys(pendingEvents)
          \subseteq CommandKeys(ctrl') \cup EventKeys(pendingEvents') \cup {t[1] : t \in told'} \cup lost'
    BY <1>2, <1>4, <1>5
  <2> QED BY <1>2, <2>1, MemoryKept DEF LedgerInv
<1>7. BootInv'
  BY <1>2 DEF LedgerInv, BootInv
<1>8. TransferKeysEver' \subseteq TransferKeysEver /\ TransferKeys(ctrl) \subseteq TransferKeysEver
  BY <1>2, <1>4 DEF TransferKeysEver
<1>9. OtherKeysEver' \subseteq OtherKeysEver
  BY <1>2, <1>3 DEF OtherKeysEver
<1>10. \A t \in heard : t[1] = Null \/ (t \in outcomes /\ t[1] \in TransferKeysEver)
  BY <1>1, <1>4, <1>8, HeardResults
<1>11. \A t \in told' : t \in told \/ (t \in outcomes' /\ t[1] \in TransferKeysEver) \/ t[1] \in OtherKeysEver \cup {Null}
  BY <1>2, <1>10
<1>12. KeysInv'
  BY <1>2, <1>8, <1>9, <1>11, KeysKept DEF LedgerInv
<1> QED BY <1>6, <1>7, <1>12 DEF LedgerInv

\* A command has a key of its own.
LEMMA FreshKey ==
  ASSUME commands \in 0 .. Len(Keys) - 1, commands' = commands \/ commands' = commands + 1
  PROVE  /\ LastKey \notin Given
         /\ Given \subseteq Given' /\ (commands' = commands + 1 => LastKey \in Given')
<1>1. Len(Keys) \in Nat /\ DOMAIN Keys = 1 .. Len(Keys)
  <2>1. Keys \in Seq({Keys[i] : i \in DOMAIN Keys})
    BY TransfersAssumption
  <2> QED BY <2>1
<1>2. commands + 1 \in DOMAIN Keys /\ \A n \in 1 .. commands : n \in DOMAIN Keys /\ n # commands + 1
  BY <1>1
<1>3. LastKey \notin Given
  BY <1>2, TransfersAssumption DEF LastKey, Given
<1>4. Given \subseteq Given'
  <2>1. 1 .. commands \subseteq 1 .. commands'
    BY <1>1
  <2> QED BY <2>1 DEF Given
<1>5. ASSUME commands' = commands + 1 PROVE LastKey \in Given'
  <2>1. commands + 1 \in 1 .. commands'
    BY <1>1, <1>5
  <2> QED BY <2>1 DEF LastKey, Given
<1> QED BY <1>3, <1>4, <1>5

\* What a command adds to the control data: the key of a transfer, that of another command, or
\* none; and the Reboot keys a factory reset takes away.
LEMMA CommandKeysStep ==
  ASSUME BaseInv, Rpc
  PROVE  \E d, nt, no :
           /\ ctrl' = d /\ lost' = lost \cup (RebootKeys(ctrl) \ RebootKeys(d))
           /\ nt \cup no \subseteq {LastKey} \ {Null} /\ nt \cap no = {}
           /\ commands' = commands \/ commands' = commands + 1
           /\ nt \cup no # {} => commands' = commands + 1
           /\ KeysOf(Records(d)) = KeysOf(Records(Confirmed(ctrl))) \cup nt
           /\ KeysOf(threads') \subseteq KeysOf(threads) \cup nt
           /\ OtherKeys(d) \subseteq OtherKeys(ctrl) \cup no
           /\ OtherKeys(ctrl) \subseteq OtherKeys(d) \cup (RebootKeys(ctrl) \ RebootKeys(d))
<1>1. PICK m, r : RpcStep(m, r)
  BY RpcEffect
<1>2. PICK c, d : c = Confirmed(ctrl) /\ d = r.control
  OBVIOUS
<1>3. /\ m.key \in {Null, LastKey}
      /\ Nothing(c, r) \/ Queued(c, m, r) \/ Remembered(c, m, r)
      /\ ctrl' = d
      /\ commands' = IF r.answer \in {"status 1", "response"} THEN commands + 1 ELSE commands
      /\ threads' = threads \cup
            IF r.answer = "status 1" /\ OrZero(m.delay) = 0
            THEN {NewThread(d.queue[First(Places(d, d.lastId))])} ELSE {}
      /\ lost' = lost \cup (RebootKeys(ctrl) \ RebootKeys(d))
  BY <1>1, <1>2 DEF RpcStep
<1>4. OtherKeys(c) = OtherKeys(ctrl) /\ RebootKeys(c) = RebootKeys(ctrl)
  BY <1>2, HeardKeys
<1>5. PICK none, key : none = {} /\ key = {m.key} \ {Null}
  OBVIOUS
<1>6. key \subseteq {LastKey} \ {Null}
  BY <1>3, <1>5
<1>7. CASE Nothing(c, r)
  <2>1. d = c /\ threads' = threads /\ commands' = commands
    BY <1>2, <1>3, <1>7 DEF Nothing
  <2>2. /\ none \cup none \subseteq {LastKey} \ {Null} /\ none \cap none = {} /\ none \cup none = {}
        /\ KeysOf(Records(d)) = KeysOf(Records(c)) \cup none
        /\ KeysOf(threads') \subseteq KeysOf(threads) \cup none
        /\ OtherKeys(d) \subseteq OtherKeys(ctrl) \cup none
        /\ OtherKeys(ctrl) \subseteq OtherKeys(d) \cup (RebootKeys(ctrl) \ RebootKeys(d))
    BY <1>4, <1>5, <2>1
  <2> QED BY <1>2, <1>3, <2>1, <2>2
<1>8. CASE Remembered(c, m, r)
  <2>1. threads' = threads /\ commands' = commands + 1
    BY <1>3, <1>8 DEF Remembered
  <2>2. /\ Records(d) = Records(c)
        /\ OtherKeys(d) \subseteq OtherKeys(c) \cup key
        /\ OtherKeys(c) \subseteq OtherKeys(d) \cup (RebootKeys(c) \ RebootKeys(d))
    BY <1>2, <1>5, <1>8 DEF Remembered
  <2>3. /\ none \cup key \subseteq {LastKey} \ {Null} /\ none \cap key = {}
        /\ KeysOf(Records(d)) = KeysOf(Records(c)) \cup none
        /\ KeysOf(threads') \subseteq KeysOf(threads) \cup none
        /\ OtherKeys(d) \subseteq OtherKeys(ctrl) \cup key
        /\ OtherKeys(ctrl) \subseteq OtherKeys(d) \cup (RebootKeys(ctrl) \ RebootKeys(d))
    BY <1>4, <1>5, <1>6, <2>1, <2>2
  <2> QED BY <1>2, <1>3, <2>1, <2>3
<1>9. CASE Queued(c, m, r)
  <2>1. PICK e \in Entries :
          /\ e.id = c.lastId + 1 /\ e.key = m.key
          /\ Records(d) = Records(c) \cup {e}
    BY <1>2, <1>9 DEF Queued
  <2>2. Valid(d) /\ d.lastId = c.lastId + 1 /\ Rest(d) = Rest(c) /\ commands' = commands + 1
    BY <1>2, <1>3, <1>9 DEF Queued
  <2>3. d.queue[First(Places(d, d.lastId))] = e
    BY <2>1, <2>2, LastRequest
  <2>4. PICK w : w = NewThread(e)
    OBVIOUS
  <2>5. w.key = m.key
    BY <2>1, <2>4 DEF NewThread
  <2>6. threads' = threads \/ threads' = threads \cup {w}
    BY <1>3, <2>3, <2>4
  <2>7. KeysOf(threads') \subseteq KeysOf(threads) \cup key
    BY <1>5, <2>5, <2>6 DEF KeysOf
  <2>8. KeysOf(Records(d)) = KeysOf(Records(c)) \cup key
    BY <1>5, <2>1 DEF KeysOf
  <2>9. OtherKeys(d) = OtherKeys(ctrl)
    BY <1>4, <2>2, RestKeys
  <2>10. /\ key \cup none \subseteq {LastKey} \ {Null} /\ key \cap none = {}
         /\ OtherKeys(d) \subseteq OtherKeys(ctrl) \cup none
         /\ OtherKeys(ctrl) \subseteq OtherKeys(d) \cup (RebootKeys(ctrl) \ RebootKeys(d))
    BY <1>5, <1>6, <2>9
  <2> QED BY <1>2, <1>3, <2>2, <2>7, <2>8, <2>10
<1> QED BY <1>3, <1>7, <1>8, <1>9

LEMMA LedgerRpc ==
  ASSUME BaseInv, LedgerInv, Rpc
  PROVE  LedgerInv'
<1>1. PICK d, nt, no :
        /\ ctrl' = d /\ lost' = lost \cup (RebootKeys(ctrl) \ RebootKeys(d))
        /\ nt \cup no \subseteq {LastKey} \ {Null} /\ nt \cap no = {}
        /\ commands' = commands \/ commands' = commands + 1
        /\ nt \cup no # {} => commands' = commands + 1
        /\ KeysOf(Records(d)) = KeysOf(Records(Confirmed(ctrl))) \cup nt
        /\ KeysOf(threads') \subseteq KeysOf(threads) \cup nt
        /\ OtherKeys(d) \subseteq OtherKeys(ctrl) \cup no
        /\ OtherKeys(ctrl) \subseteq OtherKeys(d) \cup (RebootKeys(ctrl) \ RebootKeys(d))
  BY CommandKeysStep
<1>2. PICK heard : heard = Heard
  OBVIOUS
<1>3. /\ engine = "session" /\ commands \in 0 .. Len(Keys) - 1 /\ told' = told \cup heard
      /\ UNCHANGED <<engine, pendingEvents, listeners, outcomes>>
      /\ \/ UNCHANGED <<disk, saved>>
         \/ disk' = Confirmed(ctrl) /\ saved' = saved \cup CommandKeys(Confirmed(ctrl))
  BY <1>2, RpcEffect DEF Heard
<1>4. /\ KeysOf(Records(ctrl)) \subseteq KeysOf(Records(Confirmed(ctrl))) \cup {t[1] : t \in heard}
      /\ KeysOf(Records(Confirmed(ctrl))) \subseteq KeysOf(Records(ctrl))
      /\ OtherKeys(Confirmed(ctrl)) = OtherKeys(ctrl)
  BY <1>2, HeardKeys
<1>5. {t[1] : t \in heard} \subseteq {t[1] : t \in told'}
  BY <1>3
<1>6. /\ CommandKeys(d) = KeysOf(Records(d)) \cup OtherKeys(d) /\ TransferKeys(d) = KeysOf(Records(d))
      /\ CommandKeys(ctrl) = KeysOf(Records(ctrl)) \cup OtherKeys(ctrl) /\ TransferKeys(ctrl) = KeysOf(Records(ctrl))
      /\ CommandKeys(Confirmed(ctrl)) = KeysOf(Records(Confirmed(ctrl))) \cup OtherKeys(Confirmed(ctrl))
      /\ TransferKeys(Confirmed(ctrl)) = KeysOf(Records(Confirmed(ctrl)))
  BY AllKeys
<1>7. MemoryInv' /\ FileInv'
  <2>1. CommandKeys(ctrl) \cup EventKeys(pendingEvents)
          \subseteq CommandKeys(ctrl') \cup EventKeys(pendingEvents') \cup {t[1] : t \in told'} \cup lost'
    BY <1>1, <1>3, <1>4, <1>5, <1>6
  <2>2. told \subseteq told' /\ lost \subseteq lost' /\ EventKeys(pendingEvents) \subseteq EventKeys(pendingEvents')
    BY <1>1, <1>3
  <2>3. CASE UNCHANGED <<disk, saved>>
    BY <1>3, <2>1, <2>2, <2>3, MemoryKept DEF LedgerInv
  <2>4. CASE disk' = Confirmed(ctrl) /\ saved' = saved \cup CommandKeys(Confirmed(ctrl))
    <3>1. ToldKeys \subseteq ToldKeys' /\ ToldKeys' = {t[1] : t \in told'}
      BY <1>3 DEF ToldKeys
    <3>2. saved \subseteq CommandKeys(ctrl) \cup EventKeys(pendingEvents) \cup ToldKeys \cup lost
      BY <1>3 DEF LedgerInv, MemoryInv, Remembers
    <3>3. saved' \subseteq CommandKeys(Confirmed(ctrl)) \cup EventKeys(pendingEvents) \cup ToldKeys' \cup lost
      BY <1>4, <1>5, <1>6, <2>4, <3>1, <3>2
    <3>4. saved' \subseteq CommandKeys(d) \cup EventKeys(pendingEvents) \cup ToldKeys' \cup lost'
      BY <1>1, <1>4, <1>6, <3>3
    <3> QED BY <1>1, <1>3, <2>2, <2>4, <3>3, <3>4 DEF MemoryInv, FileInv, Remembers
  <2> QED BY <1>3, <2>3, <2>4
<1>8. BootInv'
  BY <1>3 DEF LedgerInv, BootInv
<1>9. KeysInv'
  <2>1. PICK tr, ot, giv, tolds, outs, tr2, ot2, giv2, tolds2, key :
          /\ tr = TransferKeysEver /\ ot = OtherKeysEver /\ giv = Given /\ tolds = told /\ outs = outcomes
          /\ tr2 = TransferKeysEver' /\ ot2 = OtherKeysEver' /\ giv2 = Given' /\ tolds2 = told' /\ key = LastKey
    OBVIOUS
  <2>2. KeysOK(tr, ot, giv, tolds, outs)
    BY <2>1 DEF LedgerInv, KeysInv
  <2>3. key \notin giv /\ giv \subseteq giv2 /\ (commands' = commands + 1 => key \in giv2)
    BY <1>1, <1>3, <2>1, FreshKey
  <2>4. tr2 \subseteq tr \cup nt
    <3>1. TransferKeys(disk') \subseteq TransferKeys(disk) \cup TransferKeys(ctrl)
      BY <1>3, <1>4, <1>6
    <3>2. TransferKeysEver' \subseteq TransferKeysEver \cup nt
      BY <1>1, <1>3, <1>4, <1>6, <3>1 DEF TransferKeysEver
    <3> QED BY <2>1, <3>2
  <2>5. ot2 \subseteq ot \cup no
    <3>1. OtherKeys(disk') \subseteq OtherKeys(disk) \cup OtherKeys(ctrl)
      BY <1>3, <1>4
    <3>2. OtherKeysEver' \subseteq OtherKeysEver \cup no
      BY <1>1, <1>3, <3>1 DEF OtherKeysEver
    <3> QED BY <2>1, <3>2
  <2>6. nt \cup no \subseteq giv2 \ (giv \cup {Null}) /\ nt \cap no = {}
    BY <1>1, <2>1, <2>3
  <2>7. (tr2 \ tr) \cup (ot2 \ ot) \subseteq giv2 \ (giv \cup {Null}) /\ (tr2 \ tr) \cap (ot2 \ ot) = {}
    BY <2>4, <2>5, <2>6
  <2>8. \A t \in heard : t[1] = Null \/ (t \in outs /\ t[1] \in tr)
    <3>1. KeysOf(Records(ctrl)) \subseteq TransferKeysEver
      BY <1>6 DEF TransferKeysEver
    <3> QED BY <1>2, <2>1, <3>1, HeardResults
  <2>9. \A t \in tolds2 : t \in tolds \/ (t \in outs /\ t[1] \in tr) \/ t[1] \in ot \cup {Null}
    BY <1>3, <2>1, <2>8
  <2>10. KeysOK(tr2, ot2, giv2, tolds2, outs)
    BY <2>2, <2>3, <2>7, <2>9, KeysStep
  <2> QED BY <1>3, <2>1, <2>10 DEF KeysInv
<1> QED BY <1>7, <1>8, <1>9 DEF LedgerInv

\* The agent starts: the Reboot keys of the file become events.
LEMMA LedgerBoot ==
  ASSUME BaseInv, LedgerInv, Boot
  PROVE  LedgerInv'
<1>1. PICK c :
        /\ Rest(c) = Rest(disk)
        /\ disk' = ctrl' /\ saved' = saved \cup CommandKeys(ctrl')
        /\ Records(ctrl') = Records(disk)
        /\ OtherKeys(c) = OtherKeys(ctrl') \cup RebootKeys(c)
        /\ EventKeys(pendingEvents') = RebootKeys(c)
  BY BootEffect
<1>2. PICK d : d = ctrl'
  OBVIOUS
<1>3. /\ engine = "off" /\ engine' = "locking" /\ listeners' = TRUE
      /\ UNCHANGED <<threads, commands, told, outcomes, lost>>
  BY DEF Boot, counters
<1>4. EventKeys(pendingEvents) = {}
  BY <1>3 DEF LedgerInv, BootInv, EventKeys
<1>5. OtherKeys(disk) = OtherKeys(d) \cup EventKeys(pendingEvents')
  BY <1>1, <1>2, RestKeys
<1>6. /\ CommandKeys(disk) = CommandKeys(d) \cup EventKeys(pendingEvents')
      /\ TransferKeys(d) = TransferKeys(disk)
  BY <1>1, <1>2, <1>5, AllKeys
<1>7. MemoryInv' /\ FileInv'
  <2>1. saved \subseteq CommandKeys(disk) \cup ToldKeys \cup lost
    BY <1>4 DEF LedgerInv, FileInv, Remembers
  <2>2. ToldKeys' = ToldKeys
    BY <1>3 DEF ToldKeys
  <2>3. saved' \subseteq CommandKeys(d) \cup EventKeys(pendingEvents') \cup ToldKeys' \cup lost'
    BY <1>1, <1>2, <1>3, <1>6, <2>1, <2>2
  <2> QED BY <1>1, <1>2, <2>3 DEF MemoryInv, FileInv, Remembers
<1>8. BootInv'
  BY <1>3 DEF BootInv
<1>9. TransferKeysEver' \subseteq TransferKeysEver
  BY <1>1, <1>2, <1>3, <1>6 DEF TransferKeysEver
<1>10. OtherKeysEver' \subseteq OtherKeysEver
  BY <1>1, <1>2, <1>5 DEF OtherKeysEver
<1>11. KeysInv'
  BY <1>3, <1>9, <1>10, KeysKept DEF LedgerInv
<1> QED BY <1>7, <1>8, <1>11 DEF LedgerInv

\* Nothing is known of a device that has nothing in memory and in the file.
LEMMA EmptyKeys ==
  /\ TransferKeys(EmptyControl) = {} /\ OtherKeys(EmptyControl) = {}
  /\ EventKeys({}) = {} /\ KeysOf({}) = {}
<1>1. KeysOf({}) = {} /\ EventKeys({}) = {}
  BY DEF KeysOf, EventKeys
<1> QED BY <1>1, EmptyEffect, AllKeys

\* The agent stops.
LEMMA LedgerStops ==
  ASSUME BaseInv, LedgerInv, Crash \/ TornSave \/ PlatformReboots
  PROVE  LedgerInv'
<1>1. engine' = "off" /\ ctrl' = EmptyControl /\ pendingEvents' = {} /\ threads' = {} /\ commands' = commands
  BY DEF Crash, TornSave, PlatformReboots, Stops
<1>2. MemoryInv'
  BY <1>1 DEF MemoryInv
<1>3. BootInv'
  BY <1>1, EmptyKeys DEF BootInv
<1>4. CASE UNCHANGED <<disk, told, outcomes, saved>> /\ lost \cup EventKeys(pendingEvents) \subseteq lost'
  <2>1. ToldKeys' = ToldKeys
    BY <1>4 DEF ToldKeys
  <2>2. FileInv'
    BY <1>4, <2>1 DEF LedgerInv, FileInv, Remembers
  <2>3. TransferKeysEver' \subseteq TransferKeysEver /\ OtherKeysEver' \subseteq OtherKeysEver
    BY <1>1, <1>4, EmptyKeys DEF TransferKeysEver, OtherKeysEver
  <2>4. KeysInv'
    BY <1>1, <1>4, <2>3, KeysKept DEF LedgerInv
  <2> QED BY <1>2, <1>3, <2>2, <2>4 DEF LedgerInv
<1>5. CASE disk' = EmptyControl /\ told' = {} /\ outcomes' = {} /\ saved' = {} /\ lost' = {}
  <2>1. FileInv'
    BY <1>5 DEF FileInv
  <2>2. TransferKeysEver' = {} /\ OtherKeysEver' = {}
    BY <1>1, <1>5, EmptyKeys DEF TransferKeysEver, OtherKeysEver
  <2>3. KeysInv'
    BY <1>5, <2>2 DEF KeysInv, KeysOK
  <2> QED BY <1>2, <1>3, <2>1, <2>3 DEF LedgerInv
<1>6. CASE Crash
  BY <1>4, <1>6 DEF Crash
<1>7. CASE PlatformReboots
  <2>1. EventKeys(pendingEvents) = {}
    BY <1>7 DEF PlatformReboots, LedgerInv, BootInv
  <2> QED BY <1>4, <1>5, <1>7, <2>1 DEF PlatformReboots, ghosts
<1>8. CASE TornSave
  <2>1. /\ disk' = EmptyControl /\ lost' = lost \cup CommandKeys(disk) \cup EventKeys(pendingEvents)
        /\ UNCHANGED <<told, outcomes, saved>>
    BY <1>8 DEF TornSave
  <2>2. ToldKeys' = ToldKeys
    BY <2>1 DEF ToldKeys
  <2>3. FileInv'
    BY <1>1, <2>1, <2>2 DEF LedgerInv, FileInv, Remembers
  <2>4. TransferKeysEver' \subseteq TransferKeysEver /\ OtherKeysEver' \subseteq OtherKeysEver
    BY <1>1, <2>1, EmptyKeys DEF TransferKeysEver, OtherKeysEver
  <2>5. KeysInv'
    BY <1>1, <2>1, <2>4, KeysKept DEF LedgerInv
  <2> QED BY <1>2, <1>3, <2>3, <2>5 DEF LedgerInv
<1> QED BY <1>6, <1>7, <1>8

LEMMA LedgerInit ==
  Init => LedgerInv
<1>1. SUFFICES ASSUME Init PROVE LedgerInv
  OBVIOUS
<1>2. MemoryInv /\ FileInv
  BY <1>1 DEF Init, MemoryInv, FileInv
<1>3. BootInv
  BY <1>1, EmptyKeys DEF Init, BootInv
<1>4. TransferKeysEver = {} /\ OtherKeysEver = {}
  BY <1>1, EmptyKeys DEF Init, TransferKeysEver, OtherKeysEver
<1>5. KeysInv
  BY <1>1, <1>4 DEF Init, KeysInv, KeysOK
<1> QED BY <1>2, <1>3, <1>5 DEF LedgerInv

LEMMA LedgerNext ==
  BaseInv /\ LedgerInv /\ [Next]_vars => LedgerInv'
<1>1. SUFFICES ASSUME BaseInv, LedgerInv, [Next]_vars PROVE LedgerInv'
  OBVIOUS
<1>2. CASE UNCHANGED vars
  BY <1>1, <1>2, LedgerOthers
<1>3. CASE Threads
  BY <1>1, <1>3, LedgerThread, LedgerTransfers DEF Threads, ThreadStep
<1>4. CASE UiBegins \/ UiThread
  BY <1>1, <1>4, LedgerOthers, LedgerNotified DEF UiThread
<1>5. CASE AutonomousInProgress
  BY <1>1, <1>5, LedgerAutonomous
<1>6. CASE Scheduler
  BY <1>1, <1>6, LedgerOthers, LedgerManages, LedgerDrains, LedgerUnlocks DEF Scheduler
<1>7. CASE Acs
  BY <1>1, <1>7, LedgerOthers, LedgerInformAnswered, LedgerAcknowledge DEF Acs
<1>8. CASE Rpc \/ EngineSaves
  BY <1>1, <1>8, LedgerRpc, LedgerOthers
<1>9. CASE Boot \/ Crash \/ TornSave \/ PlatformReboots \/ Saving \/ Tick
  BY <1>1, <1>9, LedgerBoot, LedgerStops, LedgerOthers
<1> QED BY <1>1, <1>2, <1>3, <1>4, <1>5, <1>6, <1>7, <1>8, <1>9 DEF Next

LEMMA LedgerKeeps ==
  LedgerInv => KeptUntilReported
<1>1. SUFFICES ASSUME LedgerInv PROVE KeptUntilReported
  OBVIOUS
<1>2. \A key \in saved : key \in CommandKeys(disk) \cup EventKeys(pendingEvents) \cup {t[1] : t \in told} \cup lost
  BY <1>1 DEF LedgerInv, FileInv, Remembers, ToldKeys
<1>3. \A key \in {o[1] : o \in outcomes} : key \in TransferKeysEver
  BY DEF TransferKeysEver
<1>4. \A t \in told : t \in outcomes \/ t[1] \notin TransferKeysEver
  BY <1>1 DEF LedgerInv, KeysInv, KeysOK
<1> QED BY <1>2, <1>3, <1>4 DEF KeptUntilReported

\* A command that was once in the file is not forgotten before the ACS has heard of it, and what
\* the ACS hears of a transfer is a result it had, whatever the order of the saves and the
\* sessions: each operation that takes a request or an event away does so with the answer of
\* the ACS.  A stop keeps this but for what it puts in lost: a stop inside a save leaves an empty
\* file, as _writeDmControl truncates the only one (DM_DAT1_ParameterData.c:713), and one
\* between the boot and the next save takes the Reboot keys.
THEOREM CommandsKept ==
  Spec => []KeptUntilReported
<1>1. Init => LedgerInv
  BY LedgerInit
<1>2. BaseInv /\ LedgerInv /\ [Next]_vars => LedgerInv'
  BY LedgerNext
<1>3. LedgerInv => KeptUntilReported
  BY LedgerKeeps
<1> QED BY <1>1, <1>2, <1>3, BaseHolds, PTL DEF Spec
====
