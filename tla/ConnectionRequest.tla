-------------------------- MODULE ConnectionRequest --------------------------
(***************************************************************************)
(* Connection requests of the ACS: the HTTP server of the device           *)
(* (DM_COM_HttpServerInterface.c) with its digest authentication           *)
(* (dm_com_digest.c), and the acceptance policy (DM_COM_ConnectionSecurity.c) *)
(* that it shares with the UDP listener of dm_stun.c.  Each listener has   *)
(* an array of its own with the times of the requests it accepted.         *)
(*                                                                         *)
(* A time is kept as its age, up to Forgotten.  A digest answer is the     *)
(* challenge it answers and the password it was made with: MD5 is not      *)
(* modelled.  The tokens a message must have are there or not.  What the   *)
(* server answers is the ACS's at once; what it does with it comes later.  *)
(***************************************************************************)
EXTENDS Integers, FiniteSets

CONSTANTS
  ArraySize,       \* MAXCONNECTIONREQUESTARRAYSIZE (100)
  DefaultMax,      \* DEFAULT_MAX_CONNECTIONREQUEST (50)
  DefaultPeriod,   \* DEFAULT_FREQ_CONNECTION_REQUEST (3600 s)
  Policies,        \* the pairs <<max, period>> the parameters may hold; <<>> if unreadable
  BootAge,         \* the time of day at boot, the age of the zeros in the arrays
  Forgotten,       \* bound on ages: beyond every period
  Passwords,       \* ConnectionRequestPassword may be any of these
  MaxChanges,      \* bound on the changes of the parameters
  MaxStrangers,    \* bound on the requests of others than the ACS
  MaxSessions,     \* bound on the sessions the device opens by itself
  MaxFaults,       \* bound on the requests whose data does not arrive
  MaxUdp           \* bound on the requests over UDP

ASSUME ConnectionAssumption ==
  /\ ArraySize \in Nat \ {0} /\ DefaultMax \in 1 .. ArraySize - 1
  /\ DefaultPeriod \in Nat /\ Forgotten \in Nat \ {0}
  /\ \A p \in Policies : p = <<>> \/ (p[1] \in Nat /\ p[2] \in 1 .. Forgotten)
  /\ DefaultPeriod <= Forgotten /\ BootAge \in 0 .. Forgotten

VARIABLES
  policy, password,    \* the parameters
  times,               \* connectionFreqArray of each listener, as ages, the latest first
  grants,              \* history: the requests accepted by HTTP, the latest first: age, and
                       \* the policy they were held against
  refusal,             \* the last request the policy refused: what it was held against
  server, conn,        \* the server's place in its loop, and the connection it serves
  acs,                 \* the ACS: whether it is waiting, and the challenge it holds: none, the one
                       \* of randomNonceStr and randomOpaqueStr, or an older one
  bSession,            \* a session with the ACS is open
  left                 \* what the environment may still do

vars == <<policy, password, times, grants, refusal, server, conn, acs, bSession, left>>

Listeners == {"http", "udp"}
NoConn == [from |-> "none", auth |-> <<>>, wellFormed |-> TRUE, policy |-> <<>>]

-----------------------------------------------------------------------------
(* DM_COM_ConnectionSecurity.c *)

\* Mutant of newConnectionRequestAllowed: the entries are not moved.
AllowedInPlace(a) == [a EXCEPT ![1] = 0]

\* The entries move by one; the last is lost.
newConnectionRequestAllowed(a) == [i \in 1 .. ArraySize |-> IF i = 1 THEN 0 ELSE a[i - 1]]

\* The number and the period to apply: the defaults if the parameters cannot be read.
Applied(p) ==
  IF p = <<>> THEN <<DefaultMax, DefaultPeriod>>
  ELSE <<IF p[1] >= ArraySize THEN DefaultMax ELSE p[1], p[2]>>

Within(a, period) == Cardinality({i \in 1 .. ArraySize : a[i] < period})

\* Mutant of maxConnectionPerPeriodReached: the request that fills the period is refused too.
ReachedEarly(a, p) == Within(a, Applied(p)[2] + 1) >= Applied(p)[1]

maxConnectionPerPeriodReached(a, p) == Within(a, Applied(p)[2]) >= Applied(p)[1]

-----------------------------------------------------------------------------
(* The digest, dm_com_digest.c *)

Older(c) == IF c = "none" THEN "none" ELSE "older"

\* Mutant of _sendAuthenticationRequest: the challenge sent is not the one kept.
ChallengeLost(to) == acs' = [acs EXCEPT !.challenge = IF to = "acs" THEN "older" ELSE Older(@)]

\* A new nonce and opaque replace the old ones, whoever holds them.
_sendAuthenticationRequest(to) ==
  acs' = [acs EXCEPT !.challenge = IF to = "acs" THEN "last" ELSE Older(@)]

\* _sendHttpResponse, or no answer at all.
_sendHttpResponse(to, code) == acs' = [acs EXCEPT !.waiting = @ /\ ~(to = "acs" /\ code = 200)]

\* The message has the tokens of a digest.
_getDigestMessageToken(auth) == auth # <<>>

\* The nonce and the opaque are the last that were sent.
NonceIsLast(auth) == auth[1] = "last"

\* The response is the one the password in force gives.
ResponseMatches(auth) == auth[2] = password

performClientDigestAuthentication(auth) ==
  _getDigestMessageToken(auth) /\ NonceIsLast(auth) /\ ResponseMatches(auth)

\* GET, and HTTP/1.1.
_checkHttpMessageContent(c) == c.wellFormed

-----------------------------------------------------------------------------
(* The server, DM_HttpServer_Start *)

\* How many requests were accepted less than a period ago.
GrantedWithin(period) == Cardinality({i \in DOMAIN grants : grants[i].age < period})

\* accept, then the policy: a refused connection is answered without being read.
Accept(from, auth, wellFormed) ==
  /\ server = "accept"
  /\ IF maxConnectionPerPeriodReached(times["http"], policy)
     THEN /\ _sendHttpResponse(from, 503)
          /\ refusal' = <<Applied(policy)[1], Applied(policy)[2], GrantedWithin(Applied(policy)[2])>>
          /\ server' = "close" /\ UNCHANGED conn
     ELSE /\ conn' = [from |-> from, auth |-> auth, wellFormed |-> wellFormed, policy |-> Applied(policy)]
          /\ server' = "receive" /\ UNCHANGED <<acs, refusal>>

\* The ACS connects, with the answer to the challenge it got if it got one.
AcsConnects ==
  /\ acs.waiting
  /\ Accept("acs", IF acs.challenge = "none" THEN <<>> ELSE <<acs.challenge, password>>, TRUE)
  /\ UNCHANGED <<policy, password, times, grants, bSession, left>>

StrangerConnects ==
  /\ left.strangers > 0 /\ left' = [left EXCEPT !.strangers = @ - 1]
  /\ \E auth \in {<<>>} \cup ({"last", "older"} \X Passwords), wellFormed \in BOOLEAN : Accept("stranger", auth, wellFormed)
  /\ UNCHANGED <<policy, password, times, grants, bSession>>

\* recv gives nothing within its tries: closed without an answer.
ReceiveFails ==
  /\ server = "receive" /\ left.faults > 0
  /\ left' = [left EXCEPT !.faults = @ - 1]
  /\ _sendHttpResponse(conn.from, 0)
  /\ server' = "close" /\ conn' = NoConn
  /\ UNCHANGED <<policy, password, times, grants, refusal, bSession>>

\* The message is looked at: a session, the tokens, the digest, GET and HTTP/1.1.
Receive ==
  /\ server = "receive"
  /\ IF bSession
     THEN _sendHttpResponse(conn.from, 503) /\ server' = "close" /\ conn' = NoConn
     ELSE IF ~performClientDigestAuthentication(conn.auth) \/ ~_checkHttpMessageContent(conn)
          THEN _sendAuthenticationRequest(conn.from) /\ server' = "close" /\ conn' = NoConn
          ELSE server' = "request" /\ UNCHANGED <<acs, conn>>
  /\ UNCHANGED <<policy, password, times, grants, refusal, bSession, left>>

WithGrant(g) ==
  [i \in {1} \cup {j + 1 : j \in DOMAIN grants} |-> IF i = 1 THEN g ELSE grants[i - 1]]

\* DM_ENG_RequestConnection never refuses; it waits for the lock an open session
\* holds.  Then the time is recorded.
Granted ==
  /\ server = "request" /\ ~bSession
  /\ times' = [times EXCEPT !["http"] = newConnectionRequestAllowed(@)]
  /\ grants' = WithGrant([age |-> 0, max |-> conn.policy[1], period |-> conn.policy[2]])
  /\ _sendHttpResponse(conn.from, 200)
  /\ bSession' = TRUE
  /\ server' = "close" /\ conn' = NoConn
  /\ UNCHANGED <<policy, password, refusal, left>>

Close ==
  /\ server = "close" /\ server' = "accept"
  /\ UNCHANGED <<policy, password, times, grants, refusal, conn, acs, bSession, left>>

\* A new request over UDP (dm_stun.c): recorded before the engine is asked.
UdpRequest ==
  /\ left.udp > 0 /\ left' = [left EXCEPT !.udp = @ - 1]
  /\ IF maxConnectionPerPeriodReached(times["udp"], policy) THEN UNCHANGED <<times, bSession>>
     ELSE /\ times' = [times EXCEPT !["udp"] = newConnectionRequestAllowed(@)]
          /\ bSession' = TRUE
  /\ UNCHANGED <<policy, password, grants, refusal, server, conn, acs>>

-----------------------------------------------------------------------------
(* The environment *)

\* The ACS wants a connection; it has no challenge yet, or an older one.
AcsWants ==
  /\ ~acs.waiting
  /\ acs' = [acs EXCEPT !.waiting = TRUE]
  /\ UNCHANGED <<policy, password, times, grants, refusal, server, conn, bSession, left>>

Aged(n) == IF n < Forgotten THEN n + 1 ELSE n

\* A second passes.
Tick ==
  /\ times' = [l \in Listeners |-> [i \in 1 .. ArraySize |-> Aged(times[l][i])]]
  /\ grants' = [i \in {j \in DOMAIN grants : Aged(grants[j].age) < Forgotten} |->
                  [grants[i] EXCEPT !.age = Aged(@)]]
  /\ UNCHANGED <<policy, password, refusal, server, conn, acs, bSession, left>>

\* The device opens a session of its own; a session ends.
OpenSession ==
  /\ ~bSession /\ left.sessions > 0 /\ left' = [left EXCEPT !.sessions = @ - 1]
  /\ bSession' = TRUE
  /\ UNCHANGED <<policy, password, times, grants, refusal, server, conn, acs>>

CloseSession ==
  /\ bSession /\ bSession' = FALSE
  /\ UNCHANGED <<policy, password, times, grants, refusal, server, conn, acs, left>>

\* The ACS sets the policy or the password.
SetParameters ==
  /\ left.changes > 0 /\ left' = [left EXCEPT !.changes = @ - 1]
  /\ policy' \in Policies /\ password' \in Passwords
  /\ UNCHANGED <<times, grants, refusal, server, conn, acs, bSession>>

-----------------------------------------------------------------------------
\* The arrays at the start: zeros, which are times in 1970.
initConnectionFreqArray == [i \in 1 .. ArraySize |-> BootAge]

Init ==
  /\ policy \in Policies /\ password \in Passwords
  /\ times = [l \in Listeners |-> initConnectionFreqArray]
  /\ grants = <<>> /\ refusal = <<>>
  /\ server = "accept" /\ conn = NoConn
  /\ acs = [waiting |-> FALSE, challenge |-> "none"]
  /\ bSession = FALSE
  /\ left = [changes |-> MaxChanges, strangers |-> MaxStrangers, sessions |-> MaxSessions,
             faults |-> MaxFaults, udp |-> MaxUdp]

Serve == Receive \/ Granted \/ Close

Next ==
  \/ AcsConnects \/ StrangerConnects \/ ReceiveFails \/ Serve \/ UdpRequest
  \/ AcsWants \/ Tick \/ OpenSession \/ CloseSession \/ SetParameters

Spec == Init /\ [][Next]_vars

FairSpec ==
  Spec /\ WF_vars(Serve) /\ WF_vars(AcsConnects) /\ WF_vars(Tick)
       /\ WF_vars(CloseSession)

-----------------------------------------------------------------------------
(* Properties *)

\* Types: the arrays, the place of the server and what it answered.
ConnTypeOK ==
  /\ times \in [Listeners -> [1 .. ArraySize -> 0 .. Forgotten]]
  /\ server \in {"accept", "receive", "request", "close"}
  /\ bSession \in BOOLEAN /\ acs \in [waiting : BOOLEAN, challenge : {"none", "last", "older"}]
  /\ \A i \in DOMAIN grants : grants[i].age \in 0 .. Forgotten

\* Whatever passes between the check of the policy and the recording of the request, the
\* HTTP server never accepts more requests in a period than the policy it checked allows.
PolicyHolds ==
  \A i \in DOMAIN grants :
    Cardinality({j \in DOMAIN grants : j >= i /\ grants[j].age - grants[i].age < grants[i].period})
      <= grants[i].max

\* A request the policy refuses had that many accepted before it within the period: nothing
\* else, such as the zeros of an array never filled, counts.
RefusalJustified == refusal # <<>> => refusal[3] >= refusal[1]

\* An ACS that answers the challenges it gets is let in at last, although others connect,
\* sessions come and go and answers are lost: a challenge sent is one that can be met.
AcsLetIn == acs.waiting ~> ~acs.waiting
=============================================================================
