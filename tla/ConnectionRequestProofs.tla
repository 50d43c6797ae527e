----------------------- MODULE ConnectionRequestProofs -----------------------
(***************************************************************************)
(* Proofs about the acceptance policy of connection requests, for any size *)
(* of the array, any policies the parameters may hold, any number of       *)
(* requests of any client and any length of time.                          *)
(***************************************************************************)
EXTENDS ConnectionRequest, FiniteSetTheorems, TLAPS

-----------------------------------------------------------------------------
(* The inductive invariant *)

\* What is known of the parameters.
PolicyRead == policy \in Policies

\* The requests accepted are numbered from the latest, without a gap, and a later one is
\* never older.
Ordered ==
  /\ IsFiniteSet(DOMAIN grants) /\ DOMAIN grants \subseteq Nat \ {0}
  /\ \A i \in DOMAIN grants :
       /\ grants[i] \in [age : 0 .. Forgotten - 1, max : Nat, period : Nat]
       /\ \A j \in 1 .. i : j \in DOMAIN grants /\ grants[j].age <= grants[i].age

\* The array of the HTTP server holds the times of the latest requests it accepted, and
\* behind them what no period reaches unless it reaches back to the zeros of the start.
Recorded ==
  \A i \in 1 .. ArraySize :
    IF i \in DOMAIN grants THEN times["http"][i] = grants[i].age ELSE times["http"][i] >= BootAge

\* A connection that is being served may be accepted by the policy it was held against,
\* however long that takes; and a policy never allows as many as the array holds.
Admissible ==
  server \in {"receive", "request"} =>
    /\ conn.policy[1] \in 0 .. ArraySize - 1 /\ conn.policy[2] \in Nat
    /\ Within(times["http"], conn.policy[2]) < conn.policy[1]

ConnInv == ConnTypeOK /\ PolicyRead /\ Ordered /\ Recorded /\ Admissible /\ PolicyHolds

\* The clock of the device, at its start, is beyond every period of a policy: the zeros of
\* the arrays are never taken for requests.
ClockSet ==
  DefaultPeriod <= BootAge /\ \A p \in Policies : p # <<>> => p[2] <= BootAge

-----------------------------------------------------------------------------
(* Lemmas about the operators *)

\* The first n positions, and any of them, are a finite set.
LEMMA PartFinite ==
  ASSUME NEW S \in SUBSET (1 .. ArraySize)
  PROVE  IsFiniteSet(S) /\ Cardinality(S) \in 0 .. ArraySize
<1>1. ArraySize \in Nat /\ IsFiniteSet(1 .. ArraySize) /\ Cardinality(1 .. ArraySize) = ArraySize
  BY ConnectionAssumption, FS_Interval
<1>2. IsFiniteSet(S) /\ Cardinality(S) <= ArraySize
  BY <1>1, FS_Subset
<1>3. Cardinality(S) \in Nat
  BY <1>2, FS_CardinalityType
<1> QED BY <1>1, <1>2, <1>3

\* A set moved by one is no larger.
LEMMA Shifted ==
  ASSUME NEW S, IsFiniteSet(S), S \subseteq Nat
  PROVE  /\ IsFiniteSet({j + 1 : j \in S})
         /\ Cardinality({j + 1 : j \in S}) <= Cardinality(S)
<1> DEFINE T == {j + 1 : j \in S}
           back == [t \in T |-> t - 1]
<1>1. back \in [T -> S]
  OBVIOUS
<1>2. \A s, t \in T : back[s] = back[t] => s = t
  OBVIOUS
<1>3. back \in Injection(T, S)
  BY <1>1, <1>2 DEF Injection, IsInjective
<1> QED BY <1>3, FS_Injection

\* The policy applied always allows fewer requests than the array holds.
LEMMA AppliedPolicy ==
  ASSUME NEW p \in Policies
  PROVE  Applied(p)[1] \in 0 .. ArraySize - 1 /\ Applied(p)[2] \in 0 .. Forgotten
<1>1. CASE p = <<>>
  BY <1>1, ConnectionAssumption DEF Applied
<1>2. CASE p # <<>>
  <2>1. p[1] \in Nat /\ p[2] \in 1 .. Forgotten
    BY <1>2, ConnectionAssumption
  <2> QED BY <1>2, <2>1, ConnectionAssumption DEF Applied
<1> QED BY <1>1, <1>2

\* Fewer requests fall within a period when all times are older.
LEMMA WithinOlder ==
  ASSUME NEW a \in [1 .. ArraySize -> Nat], NEW b \in [1 .. ArraySize -> Nat], NEW period \in Nat,
         \A i \in 1 .. ArraySize : a[i] <= b[i]
  PROVE  Within(b, period) <= Within(a, period) /\ Within(a, period) \in Nat /\ Within(b, period) \in Nat
<1> DEFINE A == {i \in 1 .. ArraySize : a[i] < period}
           B == {i \in 1 .. ArraySize : b[i] < period}
<1>1. B \subseteq A
  OBVIOUS
<1>2. IsFiniteSet(A) /\ Cardinality(A) \in Nat /\ Cardinality(B) \in Nat
  BY PartFinite
<1>3. Cardinality(B) <= Cardinality(A)
  BY <1>1, <1>2, FS_Subset
<1> QED BY <1>2, <1>3 DEF Within

\* The array forgets no request that a period below its size could still count: of the
\* requests accepted, those within the period are among the times of the array.
LEMMA GrantsWithin ==
  ASSUME ConnInv, NEW period \in Nat, Within(times["http"], period) < ArraySize
  PROVE  /\ IsFiniteSet({i \in DOMAIN grants : grants[i].age < period})
         /\ GrantedWithin(period) <= Within(times["http"], period)
         /\ GrantedWithin(period) \in Nat
<1> DEFINE G == {i \in DOMAIN grants : grants[i].age < period}
           W == {i \in 1 .. ArraySize : times["http"][i] < period}
<1>1. IsFiniteSet(G) /\ Cardinality(G) \in Nat
  BY FS_Subset, FS_CardinalityType DEF ConnInv, Ordered
<1>2. G \subseteq W
  <2>1. SUFFICES ASSUME NEW i \in G PROVE i \in W
    OBVIOUS
  <2>2. i \in Nat \ {0} /\ ArraySize \in Nat
    BY ConnectionAssumption DEF ConnInv, Ordered
  <2>3. CASE i <= ArraySize
    BY <2>2, <2>3 DEF ConnInv, Recorded
  <2>4. CASE i > ArraySize
    <3>1. \A k \in 1 .. ArraySize : k \in 1 .. i
      BY <2>2, <2>4
    <3>2. \A k \in 1 .. ArraySize : k \in DOMAIN grants /\ grants[k].age <= grants[i].age
      BY <3>1 DEF ConnInv, Ordered
    <3>3. \A k \in 1 .. ArraySize : grants[k].age \in Nat /\ grants[i].age \in Nat
      BY <3>2, ConnectionAssumption DEF ConnInv, Ordered
    <3>4. \A k \in 1 .. ArraySize : times["http"][k] < period
      BY <3>2, <3>3 DEF ConnInv, Recorded
    <3>5. W = 1 .. ArraySize
      BY <3>4
    <3>6. Cardinality(1 .. ArraySize) = ArraySize
      BY ConnectionAssumption, FS_Interval
    <3>7. Within(times["http"], period) = Cardinality(W)
      BY DEF Within
    <3>8. Cardinality(W) = ArraySize
      BY <3>5, <3>6, Zenon
    <3> HIDE DEF W
    <3> QED BY <3>7, <3>8, <2>2
  <2> QED BY <2>2, <2>3, <2>4
<1>3. Cardinality(G) <= Cardinality(W)
  BY <1>2, PartFinite, FS_Subset
<1> QED BY <1>1, <1>3 DEF Within, GrantedWithin

\* The requests a full policy counts were all accepted, if no period reaches the zeros.
LEMMA WithinGrants ==
  ASSUME ConnInv, NEW period \in Nat, period <= BootAge
  PROVE  /\ Within(times["http"], period) <= GrantedWithin(period)
         /\ Within(times["http"], period) \in Nat /\ GrantedWithin(period) \in Nat
<1> DEFINE G == {i \in DOMAIN grants : grants[i].age < period}
           W == {i \in 1 .. ArraySize : times["http"][i] < period}
<1>1. IsFiniteSet(G) /\ Cardinality(G) \in Nat
  BY FS_Subset, FS_CardinalityType DEF ConnInv, Ordered
<1>2. W \subseteq G
  <2>1. SUFFICES ASSUME NEW i \in W PROVE i \in G
    OBVIOUS
  <2>2. times["http"][i] \in Nat
    BY ConnectionAssumption DEF ConnInv, ConnTypeOK, Listeners
  <2> QED BY <2>2, ConnectionAssumption DEF ConnInv, Recorded
<1>3. Cardinality(W) <= Cardinality(G) /\ Cardinality(W) \in Nat
  BY <1>1, <1>2, PartFinite, FS_Subset
<1> QED BY <1>1, <1>3 DEF Within, GrantedWithin

-----------------------------------------------------------------------------
(* Every step keeps the invariant *)

\* The arrays at the start hold nothing: zeros, whatever the clock says.
LEMMA InitConn == Init => ConnInv
<1> SUFFICES ASSUME Init PROVE ConnInv
  OBVIOUS
<1>1. DOMAIN grants = {}
  BY DEF Init
<1>2. ConnTypeOK
  BY <1>1, ConnectionAssumption DEF Init, ConnTypeOK, initConnectionFreqArray
<1>3. PolicyRead /\ Admissible
  BY DEF Init, PolicyRead, Admissible
<1>4. Ordered
  BY <1>1, FS_EmptySet DEF Ordered
<1>5. Recorded
  BY <1>1, ConnectionAssumption DEF Init, Recorded, Listeners, initConnectionFreqArray
<1>6. PolicyHolds
  BY <1>1 DEF PolicyHolds
<1> QED BY <1>2, <1>3, <1>4, <1>5, <1>6 DEF ConnInv

\* A second more for every time.
LEMMA AgedTime == ASSUME NEW n \in 0 .. Forgotten
                  PROVE  /\ Aged(n) \in 0 .. Forgotten /\ Aged(n) >= n
                         /\ n < Forgotten => Aged(n) = n + 1
BY ConnectionAssumption DEF Aged

\* An array after a request is accepted: the times move by one.
LEMMA ArrayMoved ==
  ASSUME NEW a \in [1 .. ArraySize -> 0 .. Forgotten]
  PROVE  /\ newConnectionRequestAllowed(a) \in [1 .. ArraySize -> 0 .. Forgotten]
         /\ newConnectionRequestAllowed(a)[1] = 0
         /\ \A i \in 2 .. ArraySize : newConnectionRequestAllowed(a)[i] = a[i - 1]
<1>1. ArraySize \in Nat \ {0} /\ 0 \in 0 .. Forgotten
  BY ConnectionAssumption
<1>2. \A i \in 1 .. ArraySize : i # 1 => i - 1 \in 1 .. ArraySize /\ a[i - 1] \in 0 .. Forgotten
  BY <1>1
<1> QED BY <1>1, <1>2 DEF newConnectionRequestAllowed

\* The history after a request is accepted: the requests move by one.
LEMMA HistoryMoved ==
  ASSUME DOMAIN grants \subseteq Nat \ {0}, NEW g
  PROVE  /\ DOMAIN WithGrant(g) = {1} \cup {j + 1 : j \in DOMAIN grants}
         /\ WithGrant(g)[1] = g
         /\ \A j \in DOMAIN grants : j + 1 \in DOMAIN WithGrant(g) /\ WithGrant(g)[j + 1] = grants[j]
<1>1. \A j \in DOMAIN grants : j + 1 # 1 /\ (j + 1) - 1 = j
  OBVIOUS
<1> QED BY <1>1 DEF WithGrant

\* A request accepted comes first, in the array and in the history.
LEMMA GrantedEffect ==
  ASSUME ConnInv, Granted
  PROVE  /\ times' \in [Listeners -> [1 .. ArraySize -> 0 .. Forgotten]]
         /\ times'["http"][1] = 0
         /\ \A i \in 2 .. ArraySize : times'["http"][i] = times["http"][i - 1]
         /\ DOMAIN grants' = {1} \cup {j + 1 : j \in DOMAIN grants}
         /\ grants'[1] = [age |-> 0, max |-> conn.policy[1], period |-> conn.policy[2]]
         /\ \A j \in DOMAIN grants : grants'[j + 1] = grants[j]
<1> DEFINE g == [age |-> 0, max |-> conn.policy[1], period |-> conn.policy[2]]
<1>1. times \in [Listeners -> [1 .. ArraySize -> 0 .. Forgotten]] /\ "http" \in Listeners
  BY DEF ConnInv, ConnTypeOK, Listeners
<1>2. times' = [times EXCEPT !["http"] = newConnectionRequestAllowed(@)] /\ grants' = WithGrant(g)
  BY DEF Granted
<1>3. newConnectionRequestAllowed(times["http"]) \in [1 .. ArraySize -> 0 .. Forgotten]
  BY <1>1, ArrayMoved
<1>4. times'["http"] = newConnectionRequestAllowed(times["http"])
  BY <1>1, <1>2
<1>5. times' \in [Listeners -> [1 .. ArraySize -> 0 .. Forgotten]]
  BY <1>1, <1>2, <1>3
<1>6. times'["http"][1] = 0 /\ \A i \in 2 .. ArraySize : times'["http"][i] = times["http"][i - 1]
  BY <1>1, <1>4, ArrayMoved
<1> HIDE DEF g
<1>7. DOMAIN grants \subseteq Nat \ {0}
  BY DEF ConnInv, Ordered
<1>8. /\ DOMAIN grants' = {1} \cup {j + 1 : j \in DOMAIN grants} /\ grants'[1] = g
      /\ \A j \in DOMAIN grants : grants'[j + 1] = grants[j]
  BY <1>2, <1>7, HistoryMoved
<1> QED BY <1>5, <1>6, <1>8 DEF g

\* Every variable keeps its type.
LEMMA TypeStep == ConnInv /\ Next => ConnTypeOK' /\ PolicyRead'
<1> SUFFICES ASSUME ConnInv, Next PROVE ConnTypeOK' /\ PolicyRead'
  OBVIOUS
<1> USE DEF ConnTypeOK, PolicyRead
<1>1. ConnTypeOK /\ PolicyRead
  BY DEF ConnInv
<1>2. ASSUME NEW from, NEW auth, NEW wellFormed, Accept(from, auth, wellFormed),
             UNCHANGED <<policy, times, grants, bSession>>
      PROVE  ConnTypeOK' /\ PolicyRead'
  BY <1>1, <1>2 DEF Accept, _sendHttpResponse
<1>3. CASE AcsConnects
  BY <1>2, <1>3 DEF AcsConnects
<1>4. CASE StrangerConnects
  BY <1>2, <1>4 DEF StrangerConnects
<1>5. CASE ReceiveFails
  BY <1>1, <1>5 DEF ReceiveFails, _sendHttpResponse
<1>6. CASE Receive
  BY <1>1, <1>6 DEF Receive, _sendHttpResponse, _sendAuthenticationRequest, Older
<1>7. CASE Granted
  <2>1. times' \in [Listeners -> [1 .. ArraySize -> 0 .. Forgotten]]
    BY <1>7, GrantedEffect
  <2>2. \A i \in DOMAIN grants' : grants'[i].age \in 0 .. Forgotten
    <3>1. /\ DOMAIN grants' = {1} \cup {j + 1 : j \in DOMAIN grants} /\ grants'[1].age = 0
          /\ \A j \in DOMAIN grants : grants'[j + 1] = grants[j]
      BY <1>7, GrantedEffect
    <3>2. 0 \in 0 .. Forgotten
      BY ConnectionAssumption
    <3> QED BY <1>1, <3>1, <3>2
  <2> QED BY <1>1, <1>7, <2>1, <2>2 DEF Granted, _sendHttpResponse
<1>8. CASE Close
  BY <1>1, <1>8 DEF Close
<1>9. CASE UdpRequest
  <2>1. times' \in [Listeners -> [1 .. ArraySize -> 0 .. Forgotten]]
    BY <1>1, <1>9, ArrayMoved DEF UdpRequest, Listeners
  <2> QED BY <1>1, <1>9, <2>1 DEF UdpRequest
<1>10. CASE AcsWants
  BY <1>1, <1>10 DEF AcsWants
<1>11. CASE Tick
  <2>1. times' \in [Listeners -> [1 .. ArraySize -> 0 .. Forgotten]]
    BY <1>1, <1>11, AgedTime DEF Tick
  <2>2. \A i \in DOMAIN grants' : grants'[i].age \in 0 .. Forgotten
    BY <1>1, <1>11, AgedTime DEF Tick
  <2> QED BY <1>1, <1>11, <2>1, <2>2 DEF Tick
<1>12. CASE OpenSession \/ CloseSession
  BY <1>1, <1>12 DEF OpenSession, CloseSession
<1>13. CASE SetParameters
  BY <1>1, <1>13 DEF SetParameters
<1> QED BY <1>3, <1>4, <1>5, <1>6, <1>7, <1>8, <1>9, <1>10, <1>11, <1>12, <1>13 DEF Next, Serve

\* A step that accepts no request, and lets no time pass, leaves the history and the array
\* of the HTTP server alone.
LEMMA HistoryKept ==
  ConnInv /\ Next => Granted \/ Tick \/ UNCHANGED <<grants, times["http"]>>
<1> SUFFICES ASSUME ConnInv, Next, ~Granted, ~Tick PROVE UNCHANGED <<grants, times["http"]>>
  OBVIOUS
<1>1. CASE UdpRequest
  BY <1>1 DEF UdpRequest, ConnInv, ConnTypeOK, Listeners
<1>2. CASE AcsConnects \/ StrangerConnects \/ ReceiveFails \/ Receive \/ Close
  BY <1>2 DEF AcsConnects, StrangerConnects, ReceiveFails, Receive, Close
<1>3. CASE AcsWants \/ OpenSession \/ CloseSession \/ SetParameters
  BY <1>3 DEF AcsWants, OpenSession, CloseSession, SetParameters
<1> QED BY <1>1, <1>2, <1>3 DEF Next, Serve

\* A second passes: every time is a second older, but those that are old already; the
\* requests too old for every period are forgotten.
LEMMA TickEffect ==
  ASSUME ConnInv, Tick
  PROVE  /\ DOMAIN grants' = {i \in DOMAIN grants : grants[i].age + 1 < Forgotten}
         /\ \A i \in DOMAIN grants' : grants'[i] = [grants[i] EXCEPT !.age = grants[i].age + 1]
         /\ \A i \in 1 .. ArraySize :
              /\ times["http"][i] \in 0 .. Forgotten
              /\ times'["http"][i] = Aged(times["http"][i])
<1>1. \A i \in DOMAIN grants : grants[i].age \in 0 .. Forgotten - 1 /\ Aged(grants[i].age) = grants[i].age + 1
  BY SMTT(30), AgedTime, ConnectionAssumption DEF ConnInv, Ordered
<1>2. DOMAIN grants' = {i \in DOMAIN grants : Aged(grants[i].age) < Forgotten}
  BY DEF Tick
<1>3. \A i \in DOMAIN grants' : grants'[i] = [grants[i] EXCEPT !.age = Aged(grants[i].age)]
  BY DEF Tick
<1>4. \A i \in 1 .. ArraySize : /\ times["http"][i] \in 0 .. Forgotten
                                /\ times'["http"][i] = Aged(times["http"][i])
  BY DEF Tick, ConnInv, ConnTypeOK, Listeners
<1> QED BY <1>1, <1>2, <1>3, <1>4

\* A request of the history that is a second older is one still.
LEMMA OlderGrant ==
  ASSUME NEW g \in [age : 0 .. Forgotten - 1, max : Nat, period : Nat], g.age + 1 < Forgotten
  PROVE  LET h == [g EXCEPT !.age = g.age + 1]
         IN  h.age = g.age + 1 /\ h \in [age : 0 .. Forgotten - 1, max : Nat, period : Nat]
<1>1. g.age + 1 \in 0 .. Forgotten - 1
  BY ConnectionAssumption
<1> QED BY <1>1

\* The history stays in order.
LEMMA OrderedStep == ConnInv /\ Next => Ordered'
<1> SUFFICES ASSUME ConnInv, Next PROVE Ordered'
  OBVIOUS
<1>1. Ordered
  BY DEF ConnInv
<1>2. CASE Granted
  <2> DEFINE moved == {j + 1 : j \in DOMAIN grants}
  <2>1. /\ DOMAIN grants' = {1} \cup moved
        /\ grants'[1] = [age |-> 0, max |-> conn.policy[1], period |-> conn.policy[2]]
        /\ \A j \in DOMAIN grants : grants'[j + 1] = grants[j]
    BY <1>2, GrantedEffect
  <2>2. IsFiniteSet(DOMAIN grants') /\ DOMAIN grants' \subseteq Nat \ {0}
    <3>1. IsFiniteSet(moved)
      BY <1>1, Shifted DEF Ordered
    <3>2. IsFiniteSet(moved \cup {1})
      BY <3>1, FS_AddElement
    <3>3. moved \cup {1} = DOMAIN grants'
      BY <2>1
    <3>4. DOMAIN grants' \subseteq Nat \ {0}
      BY <1>1, <2>1 DEF Ordered
    <3> QED BY <3>2, <3>3, <3>4
  <2>3. grants'[1].age = 0 /\ grants'[1] \in [age : 0 .. Forgotten - 1, max : Nat, period : Nat]
    <3>1. conn.policy[1] \in Nat /\ conn.policy[2] \in Nat
      BY <1>2 DEF Granted, ConnInv, Admissible
    <3> QED BY <2>1, <3>1, ConnectionAssumption
  <2>4. ASSUME NEW i \in DOMAIN grants'
        PROVE  /\ grants'[i] \in [age : 0 .. Forgotten - 1, max : Nat, period : Nat]
               /\ \A j \in 1 .. i : j \in DOMAIN grants' /\ grants'[j].age <= grants'[i].age
    <3>1. CASE i = 1
      BY <2>1, <2>3, <3>1
    <3>2. CASE i # 1
      <4>1. PICK k \in DOMAIN grants : i = k + 1
        BY <2>1, <3>2
      <4>2. grants'[i] = grants[k] /\ k \in Nat
        BY <1>1, <2>1, <4>1 DEF Ordered
      <4>3. grants[k] \in [age : 0 .. Forgotten - 1, max : Nat, period : Nat]
        BY <1>1 DEF Ordered
      <4>4. ASSUME NEW j \in 1 .. i PROVE j \in DOMAIN grants' /\ grants'[j].age <= grants'[i].age
        <5>1. CASE j = 1
          BY <2>1, <2>3, <4>2, <4>3, <5>1
        <5>2. CASE j # 1
          <6>1. j - 1 \in 1 .. k /\ j = (j - 1) + 1
            BY <4>1, <4>2, <5>2
          <6>2. j - 1 \in DOMAIN grants /\ grants[j - 1].age <= grants[k].age
            BY <1>1, <6>1 DEF Ordered
          <6>3. grants'[j] = grants[j - 1]
            BY <2>1, <6>1, <6>2
          <6> QED BY <2>1, <4>2, <6>1, <6>2, <6>3
        <5> QED BY <5>1, <5>2
      <4> QED BY <4>2, <4>3, <4>4
    <3> QED BY <3>1, <3>2
  <2> QED BY <2>2, <2>4 DEF Ordered
<1>3. CASE Tick
  <2>1. /\ DOMAIN grants' = {i \in DOMAIN grants : grants[i].age + 1 < Forgotten}
        /\ \A i \in DOMAIN grants' : grants'[i] = [grants[i] EXCEPT !.age = grants[i].age + 1]
    BY <1>3, TickEffect
  <2>2. IsFiniteSet(DOMAIN grants') /\ DOMAIN grants' \subseteq Nat \ {0}
    BY <1>1, <2>1, FS_Subset DEF Ordered
  <2>3. ASSUME NEW i \in DOMAIN grants'
        PROVE  /\ grants'[i] \in [age : 0 .. Forgotten - 1, max : Nat, period : Nat]
               /\ \A j \in 1 .. i : j \in DOMAIN grants' /\ grants'[j].age <= grants'[i].age
    <3>1. i \in DOMAIN grants /\ grants[i].age + 1 < Forgotten
      BY <2>1
    <3>2. /\ grants[i] \in [age : 0 .. Forgotten - 1, max : Nat, period : Nat]
          /\ \A j \in 1 .. i : j \in DOMAIN grants /\ grants[j].age <= grants[i].age
      BY <1>1, <3>1 DEF Ordered
    <3>3. grants'[i] = [grants[i] EXCEPT !.age = grants[i].age + 1]
      BY <2>1
    <3>4. grants'[i].age = grants[i].age + 1
          /\ grants'[i] \in [age : 0 .. Forgotten - 1, max : Nat, period : Nat]
      BY <3>1, <3>2, <3>3, OlderGrant
    <3>5. ASSUME NEW j \in 1 .. i PROVE j \in DOMAIN grants' /\ grants'[j].age <= grants'[i].age
      <4>1. j \in DOMAIN grants /\ grants[j].age <= grants[i].age
        BY <3>2
      <4>2. grants[j] \in [age : 0 .. Forgotten - 1, max : Nat, period : Nat]
        BY <1>1, <4>1 DEF Ordered
      <4>3. /\ grants[i].age \in Nat /\ grants[j].age \in Nat /\ Forgotten \in Nat
            /\ grants[j].age + 1 < Forgotten
        BY <3>1, <3>2, <4>1, <4>2, ConnectionAssumption
      <4>4. j \in DOMAIN grants'
        BY <2>1, <4>1, <4>3
      <4>5. grants'[j].age = grants[j].age + 1
        BY <2>1, <4>2, <4>3, <4>4, OlderGrant
      <4> QED BY <3>4, <4>1, <4>3, <4>4, <4>5
    <3> QED BY <3>4, <3>5
  <2> QED BY <2>2, <2>3 DEF Ordered
<1>4. CASE UNCHANGED grants
  BY <1>1, <1>4 DEF Ordered
<1> QED BY <1>2, <1>3, <1>4, HistoryKept

\* The array of the HTTP server keeps the times of the latest requests.
LEMMA RecordedStep == ConnInv /\ Next => Recorded'
<1> SUFFICES ASSUME ConnInv, Next PROVE Recorded'
  OBVIOUS
<1>1. Recorded /\ Ordered
  BY DEF ConnInv
<1>2. CASE Granted
  <2>1. /\ times'["http"][1] = 0
        /\ \A i \in 2 .. ArraySize : times'["http"][i] = times["http"][i - 1]
        /\ DOMAIN grants' = {1} \cup {j + 1 : j \in DOMAIN grants}
        /\ grants'[1].age = 0
        /\ \A j \in DOMAIN grants : grants'[j + 1] = grants[j]
    BY <1>2, GrantedEffect
  <2>2. SUFFICES ASSUME NEW i \in 1 .. ArraySize
                 PROVE  IF i \in DOMAIN grants' THEN times'["http"][i] = grants'[i].age
                        ELSE times'["http"][i] >= BootAge
    BY DEF Recorded
  <2>3. CASE i = 1
    BY <2>1, <2>3
  <2>4. CASE i # 1
    <3>1. i \in 2 .. ArraySize /\ i - 1 \in 1 .. ArraySize /\ i = (i - 1) + 1
      BY <2>4, ConnectionAssumption
    <3>2. IF i - 1 \in DOMAIN grants THEN times["http"][i - 1] = grants[i - 1].age
          ELSE times["http"][i - 1] >= BootAge
      BY <1>1, <3>1 DEF Recorded
    <3>3. i \in DOMAIN grants' <=> i - 1 \in DOMAIN grants
      BY <1>1, <2>1, <2>4, <3>1 DEF Ordered
    <3>4. i - 1 \in DOMAIN grants => grants'[i] = grants[i - 1]
      BY <2>1, <3>1
    <3> QED BY <2>1, <3>1, <3>2, <3>3, <3>4
  <2> QED BY <2>3, <2>4
<1>3. CASE Tick
  <2>1. /\ DOMAIN grants' = {i \in DOMAIN grants : grants[i].age + 1 < Forgotten}
        /\ \A i \in DOMAIN grants' : grants'[i] = [grants[i] EXCEPT !.age = grants[i].age + 1]
        /\ \A i \in 1 .. ArraySize : /\ times["http"][i] \in 0 .. Forgotten
                                     /\ times'["http"][i] = Aged(times["http"][i])
    BY <1>3, TickEffect
  <2>2. SUFFICES ASSUME NEW i \in 1 .. ArraySize
                 PROVE  IF i \in DOMAIN grants' THEN times'["http"][i] = grants'[i].age
                        ELSE times'["http"][i] >= BootAge
    BY DEF Recorded
  <2>3. CASE i \in DOMAIN grants
    <3>1. times["http"][i] = grants[i].age /\ grants[i] \in [age : 0 .. Forgotten - 1, max : Nat, period : Nat]
      BY <1>1, <2>3 DEF Recorded, Ordered
    <3>2. times'["http"][i] = grants[i].age + 1
      BY <2>1, <3>1, ConnectionAssumption DEF Aged
    <3>3. i \in DOMAIN grants' => grants'[i].age = grants[i].age + 1
      BY <2>1, <3>1
    <3>4. i \notin DOMAIN grants' => times'["http"][i] >= BootAge
      BY <2>1, <2>3, <3>1, <3>2, ConnectionAssumption
    <3> QED BY <3>2, <3>3, <3>4
  <2>4. CASE i \notin DOMAIN grants
    <3>1. times["http"][i] >= BootAge /\ times["http"][i] \in 0 .. Forgotten
      BY <1>1, <2>1, <2>4 DEF Recorded
    <3>2. Aged(times["http"][i]) >= BootAge
      BY <3>1, ConnectionAssumption DEF Aged
    <3> QED BY <2>1, <2>4, <3>2
  <2> QED BY <2>3, <2>4
<1>4. CASE UNCHANGED <<grants, times["http"]>>
  BY <1>1, <1>4 DEF Recorded
<1> QED BY <1>2, <1>3, <1>4, HistoryKept

\* Whatever happens while a connection is served, its request may still be accepted.
LEMMA AdmissibleStep == ConnInv /\ Next => Admissible'
<1> SUFFICES ASSUME ConnInv, Next PROVE Admissible'
  OBVIOUS
<1>1. Admissible /\ PolicyRead
  BY DEF ConnInv
<1>2. ASSUME NEW from, NEW auth, NEW wellFormed, Accept(from, auth, wellFormed), UNCHANGED times
      PROVE  Admissible'
  <2>1. CASE maxConnectionPerPeriodReached(times["http"], policy)
    BY <1>2, <2>1 DEF Accept, Admissible
  <2>2. CASE ~maxConnectionPerPeriodReached(times["http"], policy)
    <3>1. Applied(policy)[1] \in 0 .. ArraySize - 1 /\ Applied(policy)[2] \in 0 .. Forgotten
      BY <1>1, AppliedPolicy DEF PolicyRead
    <3>2. conn'.policy = Applied(policy)
      BY <1>2, <2>2 DEF Accept
    <3>3. Within(times["http"], Applied(policy)[2]) \in Nat
      BY PartFinite DEF Within
    <3>4. Within(times["http"], Applied(policy)[2]) < Applied(policy)[1]
      BY <2>2, <3>1, <3>3, ConnectionAssumption DEF maxConnectionPerPeriodReached
    <3>5. Within(times'["http"], conn'.policy[2]) < conn'.policy[1]
      BY <1>2, <3>2, <3>4
    <3> QED BY <3>1, <3>2, <3>5, ConnectionAssumption DEF Admissible
  <2> QED BY <2>1, <2>2
<1>3. CASE AcsConnects
  BY <1>2, <1>3 DEF AcsConnects
<1>4. CASE StrangerConnects
  BY <1>2, <1>4 DEF StrangerConnects
<1>5. CASE ReceiveFails \/ Granted \/ Close
  BY <1>5 DEF ReceiveFails, Granted, Close, Admissible
<1>6. CASE Receive
  BY <1>1, <1>6 DEF Receive, Admissible
<1>7. CASE UdpRequest
  <2>1. times'["http"] = times["http"]
    BY <1>7 DEF UdpRequest, ConnInv, ConnTypeOK, Listeners
  <2> QED BY <1>1, <1>7, <2>1 DEF UdpRequest, Admissible
<1>8. CASE Tick
  <2> DEFINE a == times["http"]
             b == times'["http"]
  <2>1. SUFFICES ASSUME server \in {"receive", "request"}
                 PROVE  /\ conn.policy[1] \in 0 .. ArraySize - 1 /\ conn.policy[2] \in Nat
                        /\ Within(b, conn.policy[2]) < conn.policy[1]
    BY <1>8 DEF Tick, Admissible
  <2>2. /\ conn.policy[1] \in 0 .. ArraySize - 1 /\ conn.policy[2] \in Nat
        /\ Within(a, conn.policy[2]) < conn.policy[1]
    BY <1>1, <2>1 DEF Admissible
  <2>3. a \in [1 .. ArraySize -> 0 .. Forgotten] /\ b \in [1 .. ArraySize -> 0 .. Forgotten]
    <3>1. times \in [Listeners -> [1 .. ArraySize -> 0 .. Forgotten]]
      BY DEF ConnInv, ConnTypeOK
    <3>2. times' \in [Listeners -> [1 .. ArraySize -> 0 .. Forgotten]]
      BY TypeStep DEF ConnTypeOK
    <3> QED BY <3>1, <3>2 DEF Listeners
  <2>4. \A i \in 1 .. ArraySize : a[i] <= b[i]
    BY <1>8, TickEffect, AgedTime
  <2>5. a \in [1 .. ArraySize -> Nat] /\ b \in [1 .. ArraySize -> Nat]
    BY <2>3, ConnectionAssumption
  <2> HIDE DEF a, b
  <2>6. /\ Within(b, conn.policy[2]) <= Within(a, conn.policy[2])
        /\ Within(a, conn.policy[2]) \in Nat /\ Within(b, conn.policy[2]) \in Nat
    BY <2>2, <2>4, <2>5, WithinOlder
  <2> QED BY <2>2, <2>6, ConnectionAssumption
<1>9. CASE AcsWants \/ OpenSession \/ CloseSession \/ SetParameters
  BY <1>1, <1>9 DEF AcsWants, OpenSession, CloseSession, SetParameters, Admissible
<1> QED BY <1>3, <1>4, <1>5, <1>6, <1>7, <1>8, <1>9 DEF Next, Serve

-----------------------------------------------------------------------------
(* The policy holds *)

\* What PolicyHolds counts: the requests accepted in the period of request i that ends with it.
InPeriodOf(h, i) == {j \in DOMAIN h : j >= i /\ h[j].age - h[i].age < h[i].period}

\* A request accepted makes no period fuller than its policy allows: not its own, because
\* the array still has all the requests of that period; and no earlier one.
LEMMA PolicyHoldsGranted == ConnInv /\ Granted => PolicyHolds'
<1> SUFFICES ASSUME ConnInv, Granted PROVE PolicyHolds'
  OBVIOUS
<1> DEFINE max == conn.policy[1]
           period == conn.policy[2]
<1>1. /\ Ordered /\ PolicyHolds
      /\ max \in 0 .. ArraySize - 1 /\ period \in Nat
      /\ Within(times["http"], period) < max
  BY DEF ConnInv, Granted, Admissible
<1>2. /\ DOMAIN grants' = {1} \cup {j + 1 : j \in DOMAIN grants}
      /\ grants'[1] = [age |-> 0, max |-> max, period |-> period]
      /\ \A j \in DOMAIN grants : grants'[j + 1] = grants[j]
  BY GrantedEffect
<1> HIDE DEF max, period
<1>3. \A j \in DOMAIN grants : /\ grants[j] \in [age : 0 .. Forgotten - 1, max : Nat, period : Nat]
                               /\ j \in Nat \ {0}
  BY <1>1 DEF Ordered
<1>4. Cardinality(InPeriodOf(grants', 1)) <= max
  <2> DEFINE G == {j \in DOMAIN grants : grants[j].age < period}
             moved == {j + 1 : j \in G}
  <2>1. Within(times["http"], period) \in Nat /\ Within(times["http"], period) < ArraySize
    BY <1>1, PartFinite, ConnectionAssumption DEF Within
  <2>2. IsFiniteSet(G) /\ Cardinality(G) \in Nat /\ Cardinality(G) < max
    <3>1. IsFiniteSet(G) /\ GrantedWithin(period) <= Within(times["http"], period) /\ GrantedWithin(period) \in Nat
      BY <1>1, <2>1, GrantsWithin
    <3>2. GrantedWithin(period) = Cardinality(G)
      BY DEF GrantedWithin
    <3> HIDE DEF G
    <3> QED BY <1>1, <2>1, <3>1, <3>2
  <2>3. G \subseteq Nat
    BY <1>3
  <2>4. IsFiniteSet(moved) /\ Cardinality(moved) <= Cardinality(G) /\ Cardinality(moved) \in Nat
    <3>1. IsFiniteSet(moved) /\ Cardinality(moved) <= Cardinality(G)
      BY <2>2, <2>3, Shifted
    <3> QED BY <3>1, FS_CardinalityType
  <2>5. InPeriodOf(grants', 1) \subseteq moved \cup {1}
    BY <1>2, <1>3 DEF InPeriodOf
  <2> HIDE DEF moved
  <2>6. IsFiniteSet(moved \cup {1}) /\ Cardinality(moved \cup {1}) <= Cardinality(moved) + 1
        /\ Cardinality(moved \cup {1}) \in Nat
    <3>1. /\ IsFiniteSet(moved \cup {1})
          /\ Cardinality(moved \cup {1}) = IF 1 \in moved THEN Cardinality(moved) ELSE Cardinality(moved) + 1
      BY <2>4, FS_AddElement
    <3> QED BY <2>4, <3>1
  <2>7. Cardinality(InPeriodOf(grants', 1)) <= Cardinality(moved \cup {1})
        /\ Cardinality(InPeriodOf(grants', 1)) \in Nat
    BY <2>5, <2>6, FS_Subset, FS_CardinalityType
  <2> HIDE DEF G
  <2> QED BY <1>1, <2>2, <2>4, <2>6, <2>7
<1>5. ASSUME NEW k \in DOMAIN grants PROVE Cardinality(InPeriodOf(grants', k + 1)) <= grants[k].max
  <2> DEFINE S == InPeriodOf(grants, k)
             moved == {j + 1 : j \in S}
  <2>1. S \subseteq DOMAIN grants /\ S \subseteq Nat
    BY <1>3 DEF InPeriodOf
  <2>2. IsFiniteSet(S) /\ Cardinality(S) \in Nat
    BY <1>1, <2>1, FS_Subset, FS_CardinalityType DEF Ordered
  <2>3. Cardinality(S) <= grants[k].max
    BY <1>1 DEF PolicyHolds, InPeriodOf
  <2>4. InPeriodOf(grants', k + 1) = moved
    BY <1>2, <1>3 DEF InPeriodOf
  <2>5. IsFiniteSet(moved) /\ Cardinality(moved) <= Cardinality(S)
    BY <2>1, <2>2, Shifted
  <2>6. Cardinality(moved) \in Nat /\ grants[k].max \in Nat
    BY <1>3, <2>5, FS_CardinalityType
  <2> HIDE DEF S, moved
  <2> QED BY <2>2, <2>3, <2>4, <2>5, <2>6
<1>6. \A i \in DOMAIN grants' : Cardinality(InPeriodOf(grants', i)) <= grants'[i].max
  BY <1>2, <1>4, <1>5
<1> QED BY <1>6 DEF PolicyHolds, InPeriodOf

\* Time makes no period fuller.
LEMMA PolicyHoldsTick == ConnInv /\ Tick => PolicyHolds'
<1> SUFFICES ASSUME ConnInv, Tick, NEW i \in DOMAIN grants'
             PROVE  Cardinality(InPeriodOf(grants', i)) <= grants'[i].max
  BY DEF PolicyHolds, InPeriodOf
<1>1. /\ DOMAIN grants' \subseteq DOMAIN grants
      /\ \A j \in DOMAIN grants' : grants'[j] = [grants[j] EXCEPT !.age = grants[j].age + 1]
  BY TickEffect
<1>2. /\ IsFiniteSet(DOMAIN grants)
      /\ \A j \in DOMAIN grants : /\ grants[j] \in [age : 0 .. Forgotten - 1, max : Nat, period : Nat]
                                  /\ j \in Nat \ {0}
  BY DEF ConnInv, Ordered
<1>3. \A j \in DOMAIN grants' : /\ grants'[j].age = grants[j].age + 1 /\ grants[j].age \in Int
                                /\ grants'[j].period = grants[j].period /\ grants'[j].max = grants[j].max
  BY <1>1, <1>2
<1>4. InPeriodOf(grants', i) \subseteq InPeriodOf(grants, i)
  <2>1. SUFFICES ASSUME NEW j \in InPeriodOf(grants', i) PROVE j \in InPeriodOf(grants, i)
    OBVIOUS
  <2>2. j \in DOMAIN grants' /\ j >= i /\ grants'[j].age - grants'[i].age < grants'[i].period
    BY DEF InPeriodOf
  <2>3. grants'[j].age - grants'[i].age = grants[j].age - grants[i].age
    BY <1>3, <2>2
  <2> QED BY <1>1, <1>3, <2>2, <2>3 DEF InPeriodOf
<1>5. IsFiniteSet(InPeriodOf(grants, i))
  BY <1>2, FS_Subset DEF InPeriodOf
<1>6. /\ Cardinality(InPeriodOf(grants', i)) <= Cardinality(InPeriodOf(grants, i))
      /\ Cardinality(InPeriodOf(grants', i)) \in Nat /\ Cardinality(InPeriodOf(grants, i)) \in Nat
  BY <1>4, <1>5, FS_Subset, FS_CardinalityType
<1>7. Cardinality(InPeriodOf(grants, i)) <= grants[i].max /\ grants[i].max \in Nat
  BY <1>1, <1>2 DEF ConnInv, PolicyHolds, InPeriodOf
<1> QED BY <1>3, <1>6, <1>7

\* The invariant holds of every reachable state.
LEMMA ConnInvAlways == Spec => []ConnInv
<1>1. Init => ConnInv
  BY InitConn
<1>2. ConnInv /\ [Next]_vars => ConnInv'
  <2>1. ConnInv /\ Next => PolicyHolds'
    <3>1. ConnInv /\ UNCHANGED grants => PolicyHolds'
      BY DEF ConnInv, PolicyHolds
    <3> QED BY <3>1, HistoryKept, PolicyHoldsGranted, PolicyHoldsTick
  <2>2. ConnInv /\ Next => ConnInv'
    BY <2>1, TypeStep, OrderedStep, RecordedStep, AdmissibleStep DEF ConnInv
  <2>3. ConnInv /\ UNCHANGED vars => ConnInv'
    BY DEF vars, ConnInv, ConnTypeOK, PolicyRead, Ordered, Recorded, Admissible, PolicyHolds, Within
  <2> QED BY <2>2, <2>3
<1> QED BY <1>1, <1>2, PTL DEF Spec

\* Every variable keeps its type.
THEOREM ConnTypeCorrect == Spec => []ConnTypeOK
<1>1. ConnInv => ConnTypeOK
  BY DEF ConnInv
<1> QED BY <1>1, ConnInvAlways, PTL

\* The HTTP server accepts at most as many requests in a period as the policy it held them
\* against allows, although the policy is looked at when a connection is accepted
\* (DM_HttpServer_Start) and the request recorded only after it was received, authenticated
\* and the engine's lock was free (newConnectionRequestAllowed).  One server thread is enough
\* for it: nobody else records in its array.
THEOREM PolicyHeld == Spec => []PolicyHolds
<1>1. ConnInv => PolicyHolds
  BY DEF ConnInv
<1> QED BY <1>1, ConnInvAlways, PTL

-----------------------------------------------------------------------------
(* Refusals are justified *)

\* A refusal of the policy counted requests that were accepted, and nothing else.
LEMMA RefusalStep ==
  ASSUME ClockSet, ConnInv, RefusalJustified, [Next]_vars
  PROVE  RefusalJustified'
<1>1. ASSUME NEW from, NEW auth, NEW wellFormed, Accept(from, auth, wellFormed) PROVE RefusalJustified'
  <2>1. CASE maxConnectionPerPeriodReached(times["http"], policy)
    <3> DEFINE max == Applied(policy)[1]
               period == Applied(policy)[2]
    <3>1. max \in Nat /\ period \in Nat
      BY AppliedPolicy, ConnectionAssumption DEF ConnInv, PolicyRead
    <3>2. period <= BootAge
      BY ConnectionAssumption DEF ConnInv, PolicyRead, ClockSet, Applied
    <3>3. refusal' = <<max, period, GrantedWithin(period)>>
      BY <1>1, <2>1 DEF Accept
    <3>4. Within(times["http"], period) >= max
      BY <2>1 DEF maxConnectionPerPeriodReached
    <3> HIDE DEF max, period
    <3>5. /\ Within(times["http"], period) <= GrantedWithin(period)
          /\ Within(times["http"], period) \in Nat /\ GrantedWithin(period) \in Nat
      BY <3>1, <3>2, WithinGrants
    <3> QED BY <3>1, <3>3, <3>4, <3>5 DEF RefusalJustified
  <2>2. CASE ~maxConnectionPerPeriodReached(times["http"], policy)
    BY <1>1, <2>2 DEF Accept, RefusalJustified
  <2> QED BY <2>1, <2>2
<1>2. CASE AcsConnects
  BY <1>1, <1>2 DEF AcsConnects
<1>3. CASE StrangerConnects
  BY <1>1, <1>3 DEF StrangerConnects
<1>4. CASE UNCHANGED refusal
  BY <1>4 DEF RefusalJustified
<1>5. CASE Next /\ ~AcsConnects /\ ~StrangerConnects
  BY <1>4, <1>5 DEF Next, Serve, ReceiveFails, Receive, Granted, Close, UdpRequest, AcsWants, Tick,
                    OpenSession, CloseSession, SetParameters
<1>6. CASE UNCHANGED vars
  BY <1>4, <1>6 DEF vars
<1> QED BY <1>2, <1>3, <1>5, <1>6

\* While the clock of the device is set when it starts, maxConnectionPerPeriodReached refuses
\* a request only because as many requests were accepted within the period: never because of
\* the zeros initConnectionFreqArray fills the array with, and never more of them than came.
THEOREM RefusalsJustified == ASSUME ClockSet PROVE Spec => []RefusalJustified
<1>1. Init => RefusalJustified
  BY DEF Init, RefusalJustified
<1>2. ConnInv /\ RefusalJustified /\ [Next]_vars => RefusalJustified'
  BY RefusalStep
<1> QED BY <1>1, <1>2, ConnInvAlways, PTL DEF Spec
=============================================================================
