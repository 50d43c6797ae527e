------------------------------ MODULE StunProofs ------------------------------
(***************************************************************************)
(* Proofs about the STUN client, for any scenario, any number of probing   *)
(* threads and any faults of the network: which connection requests over   *)
(* UDP can be accepted after which.                                        *)
(***************************************************************************)
EXTENDS StunClient, TLAPS

-----------------------------------------------------------------------------
(* Connection requests over UDP *)

\* What an encoded message holds: not the fields of a connection request.
LEMMA EncodedIsNoRequest ==
  ASSUME NEW m, NEW key
  PROVE  ~DM_STUN_extractUdpParameters(stunEncodeMessage(m, key))
BY DEF DM_STUN_extractUdpParameters, stunEncodeMessage

\* Nothing the server answers is taken for a connection request.
LEMMA AnswerIsNoRequest ==
  ASSUME NEW d, NEW from, NEW server, NEW password
  PROVE  ~DM_STUN_extractUdpParameters(stunServerProcessMsg(d, from, server, password).msg)
<1>1. ~DM_STUN_extractUdpParameters(TimeoutResponse(from, server))
  BY EncodedIsNoRequest DEF TimeoutResponse
<1>2. ~DM_STUN_extractUdpParameters(BindingResponse(d, from, server, password))
  BY EncodedIsNoRequest DEF BindingResponse
<1> QED BY <1>1, <1>2 DEF stunServerProcessMsg

\* A message read as a connection request has the fields of one.
LEMMA RequestHasFields ==
  ASSUME NEW d, NEW heard, NEW username, NEW password,
         DM_STUN_readMessage(d, heard, username, password).type = "UDP_REQUEST"
  PROVE  DM_STUN_extractUdpParameters(d)
BY DEF DM_STUN_readMessage, MessageType, UdpRequestType

\* What the ACS sends, delivered twice or not, has its number and the second it was made in.
Numbered(d) ==
  DM_STUN_extractUdpParameters(d.msg) =>
    d.msg.id \in DOMAIN asked /\ d.msg.ts = asked[d.msg.id]

MainFields == {"prev", "lan", "wan", "natDetected", "last", "notif", "timeStamp", "messageId"}

\* What is kept is the time stamp and the number of the last request read, ...
StampsOK ==
  /\ main = [f \in MainFields |-> main[f]]
  /\ main.timeStamp \in Nat
  /\ \/ main.messageId = 0 /\ accepted = <<>>
     \/ main.messageId \in DOMAIN asked /\ asked[main.messageId] = main.timeStamp

\* A request accepted twice shares its second with another one.
Shared(n) == \E k \in DOMAIN asked : k # n /\ asked[k] = asked[n]

\* ... no request accepted is of a later second, and the seconds do not go back.
AcceptedInOrder ==
  /\ accepted \in Seq(Nat)
  /\ \A i \in DOMAIN accepted : accepted[i] \in DOMAIN asked /\ asked[accepted[i]] <= main.timeStamp
  /\ \A i, j \in DOMAIN accepted : i < j =>
       /\ asked[accepted[i]] <= asked[accepted[j]]
       /\ accepted[i] = accepted[j] => Shared(accepted[j])

ReplayInv ==
  /\ asked \in Seq(Nat)
  /\ StampsOK
  /\ AcceptedInOrder
  /\ \A d \in down : Numbered(d)

\* The data of thread 1 change but for the stamps.
SameStamps == main' = [f \in MainFields |-> main'[f]]
              /\ main'.timeStamp = main.timeStamp /\ main'.messageId = main.messageId

\* A step that leaves the stamps and the requests, sent and accepted, keeps their order.
LEMMA Untouched ==
  ASSUME ReplayInv, SameStamps, UNCHANGED <<asked, accepted>>
  PROVE  StampsOK' /\ AcceptedInOrder'
BY DEF ReplayInv, SameStamps, StampsOK, AcceptedInOrder, Shared

\* A request that passes goes behind those accepted: if it is one of them, the last one
\* read was another of its second.
LEMMA AcceptedKeepsOrder ==
  ASSUME ReplayInv, NEW m, m.id \in DOMAIN asked, m.ts = asked[m.id], IsNewRequest(m),
         NEW i \in DOMAIN accepted
  PROVE  /\ asked[accepted[i]] <= asked[m.id]
         /\ accepted[i] = m.id => Shared(m.id)
<1>1. /\ asked \in Seq(Nat) /\ main.timeStamp \in Nat /\ m.id \in 1 .. Len(asked)
      /\ accepted[i] \in 1 .. Len(asked)
      /\ asked[accepted[i]] <= main.timeStamp
      /\ main.timeStamp <= asked[m.id] /\ main.messageId # m.id
      /\ main.messageId \in DOMAIN asked /\ asked[main.messageId] = main.timeStamp
  <2>1. accepted # <<>>
    BY DEF ReplayInv, AcceptedInOrder
  <2> QED BY <2>1 DEF ReplayInv, StampsOK, AcceptedInOrder, IsNewRequest
<1>2. asked[accepted[i]] \in Nat /\ asked[m.id] \in Nat
  BY <1>1
<1>3. ASSUME accepted[i] = m.id PROVE asked[main.messageId] = asked[m.id]
  BY <1>1, <1>2, <1>3
<1> QED BY <1>1, <1>2, <1>3 DEF Shared

\* A connection request that is read, accepted or not, keeps the order.
LEMMA RequestKeepsOrder ==
  ASSUME ReplayInv, NEW m, m.id \in DOMAIN asked, m.ts = asked[m.id], UdpRequest(m),
         UNCHANGED asked
  PROVE  StampsOK' /\ AcceptedInOrder'
<1>1. PICK allowed \in BOOLEAN :
        /\ accepted' = IF IsNewRequest(m) /\ allowed THEN Append(accepted, m.id) ELSE accepted
        /\ \E s : /\ s = [main EXCEPT !.timeStamp = IF m.ts >= @ THEN m.ts ELSE @,
                                      !.messageId = IF m.ts >= main.timeStamp THEN m.id ELSE @]
                  /\ main' = s \/ main' = Received(s, "UDP_REQUEST")
  BY Zenon DEF UdpRequest
<1> DEFINE s == [main EXCEPT !.timeStamp = IF m.ts >= @ THEN m.ts ELSE @,
                             !.messageId = IF m.ts >= main.timeStamp THEN m.id ELSE @]
<1>2. /\ s = [f \in MainFields |-> s[f]]
      /\ s.timeStamp = IF m.ts >= main.timeStamp THEN m.ts ELSE main.timeStamp
      /\ s.messageId = IF m.ts >= main.timeStamp THEN m.id ELSE main.messageId
  BY DEF ReplayInv, StampsOK, MainFields
<1>3. /\ main' = [f \in MainFields |-> main'[f]]
      /\ main'.timeStamp = s.timeStamp /\ main'.messageId = s.messageId
  <2> HIDE DEF s
  <2>1. main' = s \/ main' = Received(s, "UDP_REQUEST")
    BY <1>1 DEF s
  <2> QED BY <2>1, <1>2 DEF Received, MainFields
<1> HIDE DEF s
<1>4. m.ts \in Nat /\ main.timeStamp \in Nat
  BY DEF ReplayInv, StampsOK
<1>5. /\ main'.timeStamp \in Nat /\ main.timeStamp <= main'.timeStamp
      /\ m.ts >= main.timeStamp => main'.messageId = m.id /\ main'.timeStamp = m.ts
      /\ m.ts < main.timeStamp => main'.messageId = main.messageId /\ main'.timeStamp = main.timeStamp
  BY <1>2, <1>3, <1>4
<1>6. CASE accepted' = accepted
  <2>1. \/ main'.messageId = 0 /\ accepted = <<>>
        \/ main'.messageId \in DOMAIN asked /\ asked[main'.messageId] = main'.timeStamp
    BY <1>4, <1>5 DEF ReplayInv, StampsOK
  <2>2. \A i \in DOMAIN accepted : asked[accepted[i]] <= main'.timeStamp
    <3> SUFFICES ASSUME NEW i \in DOMAIN accepted PROVE asked[accepted[i]] <= main'.timeStamp
      OBVIOUS
    <3>1. accepted[i] \in DOMAIN asked /\ asked[accepted[i]] <= main.timeStamp /\ asked \in Seq(Nat)
      BY DEF ReplayInv, AcceptedInOrder
    <3>2. asked[accepted[i]] \in Nat
      BY <3>1
    <3> QED BY <1>4, <1>5, <3>1, <3>2
  <2> QED BY <1>3, <1>5, <1>6, <2>1, <2>2 DEF ReplayInv, StampsOK, AcceptedInOrder, Shared
<1>7. CASE IsNewRequest(m) /\ accepted' = Append(accepted, m.id)
  <2> DEFINE t == accepted'
             k == Len(accepted)
  <2>1. m.ts >= main.timeStamp /\ main'.messageId = m.id /\ main'.timeStamp = asked[m.id]
    BY <1>5, <1>7 DEF IsNewRequest
  <2>2. /\ accepted \in Seq(Nat) /\ m.id \in Nat /\ k \in Nat
        /\ t \in Seq(Nat) /\ Len(t) = k + 1 /\ t[k + 1] = m.id
        /\ DOMAIN accepted = 1 .. k /\ DOMAIN t = 1 .. (k + 1)
    BY <1>7 DEF ReplayInv, AcceptedInOrder
  <2>3. \A i \in 1 .. k : t[i] = accepted[i]
    BY <1>7 DEF ReplayInv, AcceptedInOrder
  <2>4. ASSUME NEW i \in 1 .. k
        PROVE  /\ t[i] \in DOMAIN asked /\ asked[t[i]] <= asked[m.id]
               /\ t[i] = m.id => Shared(m.id)
    <3>1. i \in DOMAIN accepted
      BY <2>2
    <3>2. accepted[i] \in DOMAIN asked
      BY <3>1 DEF ReplayInv, AcceptedInOrder
    <3>3. asked[accepted[i]] <= asked[m.id] /\ (accepted[i] = m.id => Shared(m.id))
      BY <3>1, <1>7, AcceptedKeepsOrder
    <3> QED BY <2>3, <3>2, <3>3
  <2>5. ASSUME NEW i \in 1 .. k, NEW j \in 1 .. k, i < j
        PROVE  asked[t[i]] <= asked[t[j]] /\ (t[i] = t[j] => Shared(t[j]))
    BY <2>2, <2>3, <2>5 DEF ReplayInv, AcceptedInOrder
  <2> HIDE DEF t, k
  <2>6. ASSUME NEW i \in 1 .. (k + 1) PROVE t[i] \in DOMAIN asked /\ asked[t[i]] <= asked[m.id]
    <3>1. CASE i \in 1 .. k
      BY <2>4, <3>1
    <3>2. CASE i = k + 1
      BY <1>4, <2>2, <3>2
    <3> QED BY <2>2, <3>1, <3>2
  <2>7. ASSUME NEW i \in 1 .. (k + 1), NEW j \in 1 .. (k + 1), i < j
        PROVE  asked[t[i]] <= asked[t[j]] /\ (t[i] = t[j] => Shared(t[j]))
    <3>1. i \in 1 .. k /\ (j \in 1 .. k \/ j = k + 1)
      BY <2>2, <2>7
    <3>2. CASE j \in 1 .. k
      BY <2>5, <2>7, <3>1, <3>2
    <3>3. CASE j = k + 1
      BY <2>2, <2>4, <3>1, <3>3
    <3> QED BY <3>1, <3>2, <3>3
  <2>8. StampsOK'
    BY <1>3, <1>5, <2>1 DEF StampsOK
  <2>9. AcceptedInOrder'
    <3>1. /\ t \in Seq(Nat)
          /\ \A i \in DOMAIN t : t[i] \in DOMAIN asked /\ asked[t[i]] <= main'.timeStamp
          /\ \A i, j \in DOMAIN t : i < j =>
               asked[t[i]] <= asked[t[j]] /\ (t[i] = t[j] => Shared(t[j]))
      BY <2>1, <2>2, <2>6, <2>7
    <3>2. \A n : Shared(n)' = Shared(n)
      BY DEF Shared
    <3> QED BY <3>1, <3>2 DEF t, AcceptedInOrder
  <2> QED BY <2>8, <2>9
<1> QED BY <1>1, <1>6, <1>7

\* A request more does not change those made before.
LEMMA AskedGrows ==
  ASSUME ReplayInv, NEW second \in Nat, asked' = Append(asked, second), UNCHANGED <<main, accepted>>
  PROVE  /\ asked' \in Seq(Nat) /\ StampsOK' /\ AcceptedInOrder'
         /\ Len(asked) + 1 \in DOMAIN asked' /\ asked'[Len(asked) + 1] = second
         /\ \A d \in down : Numbered(d)'
<1>1. /\ asked' \in Seq(Nat) /\ Len(asked) + 1 \in DOMAIN asked'
      /\ asked'[Len(asked) + 1] = second
      /\ \A n \in DOMAIN asked : n \in DOMAIN asked' /\ asked'[n] = asked[n]
      /\ \A n \in DOMAIN asked' : n \in DOMAIN asked \/ n = Len(asked) + 1
  BY DEF ReplayInv
<1>2. \A n \in DOMAIN asked : Shared(n) => Shared(n)'
  BY <1>1, Zenon DEF Shared
<1>3. AcceptedInOrder'
  <2>1. /\ accepted \in Seq(Nat)
        /\ \A i \in DOMAIN accepted : accepted[i] \in DOMAIN asked /\ asked[accepted[i]] <= main.timeStamp
        /\ \A i, j \in DOMAIN accepted : i < j =>
             /\ asked[accepted[i]] <= asked[accepted[j]]
             /\ accepted[i] = accepted[j] => Shared(accepted[j])
    BY DEF ReplayInv, AcceptedInOrder
  <2> QED BY <1>1, <1>2, <2>1 DEF AcceptedInOrder
<1>4. \A d \in down : Numbered(d)'
  BY <1>1 DEF ReplayInv, Numbered
<1>5. StampsOK'
  BY <1>1 DEF ReplayInv, StampsOK
<1> QED BY <1>1, <1>3, <1>4, <1>5

\* Every step of thread 1, of the network and of the other threads keeps the invariant.
LEMMA ReplayStep == ReplayInv /\ [Next]_vars => ReplayInv'
<1> SUFFICES ASSUME ReplayInv, [Next]_vars PROVE ReplayInv'
  OBVIOUS
<1> USE DEF mainVars, acsVars, netVars
<1>0. ASSUME UNCHANGED <<main, asked, accepted>> PROVE StampsOK' /\ AcceptedInOrder'
  BY <1>0 DEF ReplayInv, StampsOK, AcceptedInOrder, Shared
<1>1. CASE MainLoop
  <2>1. SameStamps
    BY <1>1 DEF MainLoop, ReplayInv, StampsOK, SameStamps, MainFields, DM_STUN_initValues, AfterSending
  <2> QED BY <1>1, <2>1, Untouched DEF MainLoop, ReplayInv, Numbered
<1>2. CASE MainEnd
  <2>1. SameStamps
    BY <1>2 DEF MainEnd, ReplayInv, StampsOK, SameStamps, MainFields, TimedOut, Received
  <2> QED BY <1>2, <2>1, Untouched DEF MainEnd, ReplayInv, Numbered
<1>3. ASSUME NEW d \in down, MainRead(d) PROVE ReplayInv'
  <2> DEFINE r == DM_STUN_readMessage(d.msg, window.heard, UserName, Password)
  <2>0. asked' = asked /\ down' \subseteq down
    BY <1>3 DEF MainRead
  <2>1. CASE r.type = "UDP_REQUEST"
    <3>1. UdpRequest(d.msg)
      BY <1>3, <2>1 DEF MainRead
    <3>2. d.msg.id \in DOMAIN asked /\ d.msg.ts = asked[d.msg.id]
      BY <2>1, RequestHasFields DEF ReplayInv, Numbered
    <3> QED BY <2>0, <3>1, <3>2, RequestKeepsOrder DEF ReplayInv, Numbered
  <2>2. CASE r.type # "UDP_REQUEST"
    <3>1. accepted' = accepted /\ (MainAnswer(r) \/ main' = main \/ main' = Received(main, r.type))
      BY <1>3, <2>2 DEF MainRead, MainAnswer
    <3> HIDE DEF r
    <3>2. SameStamps
      BY <3>1 DEF MainAnswer, ReplayInv, StampsOK, SameStamps, MainFields, Received, Learn
    <3> QED BY <2>0, <3>1, <3>2, Untouched DEF ReplayInv, Numbered
  <2> QED BY <2>1, <2>2
<1>4. ASSUME NEW q \in up, NEW again \in BOOLEAN, Serve(q, again) PROVE ReplayInv'
  <2>1. \A d \in down' : Numbered(d)
    <3> DEFINE r == stunServerProcessMsg(q.msg, q.from, Server, Password)
    <3>1. ~DM_STUN_extractUdpParameters(r.msg)
      BY AnswerIsNoRequest
    <3> HIDE DEF r
    <3>2. \A d \in down' : d \in down \/ d.msg = r.msg
      BY <1>4 DEF Serve, r
    <3> QED BY <3>1, <3>2 DEF ReplayInv, Numbered
  <2> QED BY <1>0, <1>4, <2>1 DEF Serve, ReplayInv, Numbered
<1>5. CASE Lose
  BY <1>0, <1>5 DEF Lose, ReplayInv, Numbered
<1>6. CASE AcsRequest
  <2>1. LastAsked \in Nat
    BY DEF ReplayInv, LastAsked
  <2>2. PICK second \in {LastAsked, LastAsked + 1}, sig \in {Password, NoKey} :
          /\ asked' = Append(asked, second)
          /\ down' = down \cup {ConnectionRequest(Len(asked) + 1, second, sig)}
          /\ UNCHANGED <<main, accepted>>
    BY <1>6 DEF AcsRequest
  <2>3. second \in Nat
    BY <2>1
  <2>4. /\ asked' \in Seq(Nat) /\ StampsOK' /\ AcceptedInOrder'
        /\ Len(asked) + 1 \in DOMAIN asked' /\ asked'[Len(asked) + 1] = second
        /\ \A d \in down : Numbered(d)'
    BY <2>2, <2>3, AskedGrows, Zenon
  <2> DEFINE request == ConnectionRequest(Len(asked) + 1, second, sig)
  <2>5. request.msg.id = Len(asked) + 1 /\ request.msg.ts = second
    BY DEF ConnectionRequest
  <2>6. down' = down \cup {request}
    BY <2>2
  <2> HIDE DEF request
  <2>7. \A d \in down' : Numbered(d)'
    <3>1. request.msg.id \in DOMAIN asked' /\ request.msg.ts = asked'[request.msg.id]
      BY <2>4, <2>5, Zenon
    <3> QED BY <2>4, <2>6, <3>1, Zenon DEF Numbered
  <2> QED BY <2>4, <2>7, Zenon DEF ReplayInv
<1>7. ASSUME NEW i \in DOMAIN asked, AcsRepeat(i) PROVE ReplayInv'
  <2>1. Numbered(ConnectionRequest(i, asked[i], Password))
    BY DEF Numbered, ConnectionRequest
  <2> QED BY <1>0, <1>7, <2>1 DEF AcsRepeat, ReplayInv, Numbered
<1>8. CASE ChangeNat \/ Toggle
  BY <1>0, <1>8 DEF ChangeNat, Toggle, ReplayInv, Numbered
<1>9. CASE DiscLoop \/ DiscEnd \/ DiscAfter
  BY <1>0, <1>9 DEF DiscLoop, DiscEnd, DiscAfter, ReplayInv, Numbered
<1>10. ASSUME NEW d \in down, DiscRead(d) PROVE ReplayInv'
  BY <1>0, <1>10 DEF DiscRead, ReplayInv, Numbered
<1>11. ASSUME NEW p \in Probers, ProbeStep(p) PROVE ReplayInv'
  BY <1>0, <1>11 DEF ProbeStep, ProbeSend, ProbeWake, ReplayInv, Numbered
<1>12. CASE UNCHANGED vars
  BY <1>0, <1>12 DEF vars, ReplayInv, Numbered
<1> QED BY <1>1, <1>2, <1>3, <1>4, <1>5, <1>6, <1>7, <1>8, <1>9, <1>10, <1>11, <1>12
        DEF Next, MainStep, DiscStep, ServerStep

\* Whatever datagrams are lost, repeated or late, a connection request over UDP is accepted
\* after none of a later second, and again only if another one was made in its second
\* (DM_STUN_readManagement compares the time stamp and the last identifier).
THEOREM RequestsNotReplayed == Spec => []NoReplay
<1>1. Init => ReplayInv
  BY DEF Init, ReplayInv, StampsOK, AcceptedInOrder, NewThreadData, MainFields
<1>2. ReplayInv => NoReplay
  BY DEF ReplayInv, AcceptedInOrder, NoReplay, Shared
<1> QED BY <1>1, <1>2, ReplayStep, PTL DEF Spec
===============================================================================
