------------------------------ MODULE StunClient ------------------------------
(***************************************************************************)
(* The STUN client (dm_stun.c) behind a NAT whose address and binding      *)
(* lifetime it has to find out, with three threads:                        *)
(*   main    DM_STUN_stunThread: keeps a binding and publishes its address; *)
(*   disc    DM_STUN_timeoutDiscoveryManagementThread: a second binding;   *)
(*   prober  DM_STUN_timeoutDiscoveryThread: probes how long the second    *)
(*           binding survives without traffic.                             *)
(* A window is one call of DM_STUN_readManagement(Timeout).  The network   *)
(* may lose, duplicate and delay; the server is stunServerProcessMsg.      *)
(* Ports are left out: what the client publishes is its own port.          *)
(***************************************************************************)
EXTENDS StunMessage, FiniteSets

CONSTANTS
  Ips,           \* addresses of the NAT
  LanIp,         \* LAN_IP, the address of the device
  Probers,       \* threads 3 that may exist at a time
  NoProber,      \* threadId = 0
  Scenarios,     \* the parameters and the NAT, and how often the environment does something:
                 \* min, max, life, changes (of the NAT's address and of STUNEnable),
                 \* faults (lost, duplicated and late messages), requests (of the ACS)
  QuietToggles   \* STUNEnable is not switched while a thread 3 runs

\* Keep-alive periods: up to a day in seconds; all negative ones are treated as -1 is.
Day == 86400
Periods == -1 .. Day

ASSUME StunAssumption ==
  /\ Unknown \notin Ips /\ LanIp # Unknown /\ NoProber \notin Probers
  /\ Scenarios \subseteq [min : Periods, max : Periods, life : Nat, changes : Nat, faults : Nat, requests : Nat]
  /\ QuietToggles \in BOOLEAN

VARIABLES
  enable,             \* STUNEnable
  keep,               \* the keep-alive periods [min, max]
  udpAddress,         \* UDPConnectionRequestAddress
  natDetectedParam,   \* NATDetected
  nat, life, idle,    \* the NAT: address, lifetime of a binding, idle time of the second binding
  changes, faults, requests,   \* what the environment may still do
  up, down,           \* datagrams to the server, and at the client's sockets
  mainPc, main, window,
  startDiscovery,     \* bStartDiscovery
  discPc, disc, discWindow,
  prober,             \* for each thread 3: where it is, its timeout, and whom it writes to
  gTimeout,           \* g_timeout
  asked, accepted     \* the seconds of the connection requests the ACS has sent, in order,
                      \* and the numbers of those accepted

envVars == <<enable, keep, nat, life, changes>>
dmVars == <<udpAddress, natDetectedParam>>
netVars == <<up, down, faults, idle>>
mainVars == <<mainPc, main, window, startDiscovery>>
discVars == <<discPc, disc, discWindow>>
acsVars == <<requests, asked, accepted>>
vars == <<envVars, dmVars, netVars, mainVars, discVars, prober, gTimeout, acsVars>>

Server == "server"
Sockets == {"main", "disc", "probe"}
Password == "password"
UserName == Text(8)

-----------------------------------------------------------------------------
(* Parameters *)

PowersOfTen == {1, 10, 100, 1000, 10000}

\* "%u" into the two bytes of tmpStr: the first digit is left.
OneDigit(n) == IF n = 0 THEN 0 ELSE CHOOSE d \in 1 .. 9 : \E p \in PowersOfTen : n \div p = d

\* DM_STUN_checkAllStunParameters: what it leaves in the parameters.
DM_STUN_checkAllStunParameters(min, max) ==
  LET low == IF min < 0 THEN 10 ELSE min
  IN  [min |-> IF min < 0 THEN OneDigit(low) ELSE min,
       max |-> IF low > max \/ max < 0 THEN OneDigit(low) ELSE max]

\* Mutant of DM_STUN_ComputeGlobalTimeout: half a step of margin.
ComputeThinMargin(step, min, max, limit) ==
  LET computed == limit - step \div 2 IN
  IF computed < min THEN min ELSE IF computed > max THEN max ELSE computed

\* limit - (1.5 + 1) steps - 5 seconds, between the two periods.
DM_STUN_ComputeGlobalTimeout(step, min, max, limit) ==
  LET computed == limit - (5 * step) \div 2 - 5
      low == IF computed < min THEN min ELSE computed
  IN  IF low > max THEN max ELSE low

Step(k) == IF (k.max - k.min) \div 20 = 0 THEN 1 ELSE (k.max - k.min) \div 20

\* DM_STUN_initValues: the address is not reset, nor is g_timeout.
DM_STUN_initValues(s) ==
  [s EXCEPT !.last = "MESSAGE_UNKNOWN", !.natDetected = FALSE, !.notif = "NOT_NOTIFIED"]

NewThreadData ==
  [prev |-> "UNKNOWN_STATE", lan |-> Unknown, wan |-> Unknown, natDetected |-> FALSE,
   last |-> "MESSAGE_UNKNOWN", notif |-> "NOT_NOTIFIED", timeStamp |-> 0, messageId |-> 0]

NewDiscData ==
  [prev |-> "UNKNOWN_STATE", lan |-> Unknown, wan |-> Unknown, natDetected |-> FALSE,
   last |-> "MESSAGE_UNKNOWN", notif |-> "NOT_NOTIFIED", third |-> FALSE, exitWindow |-> TRUE,
   timeoutState |-> "TIMEOUT_NONE", threadId |-> NoProber, port |-> 0]

-----------------------------------------------------------------------------
(* The network *)

Datagram(sock, msg, reply) == [sock |-> sock, from |-> nat, msg |-> msg, reply |-> reply]

\* The messages the client may send.
Messages ==
  [kind \in {"BINDING_REQUEST", "BINDING_CHANGE", "MSG_INTEGRITY", "TIMEOUT_DISCOVERY"},
   wan \in Ips \cup {Unknown} |-> DM_STUN_sendMessage(kind, UserName, Password, wan)]

\* sendMessage, getMessage (dm_lib_udp.c) through the NAT; any may be lost.
Sent(sock, kind, wan, reply) == up \cup {Datagram(sock, Messages[kind, wan], reply)}

\* The server answers.  The NAT drops what is not for its address, or is for a
\* binding it has forgotten; what it lets through keeps the binding alive.
Serve(q, again) ==
  /\ q \in up
  /\ LET r == stunServerProcessMsg(q.msg, q.from, Server, Password)
         sock == IF r.to = q.from /\ q.reply = <<>> THEN q.sock ELSE q.reply
         passes == r.to = nat /\ (sock = <<"main">> \/ idle < life)
     IN  /\ down' = IF passes THEN down \cup {[sock |-> sock, msg |-> r.msg]} ELSE down
         /\ idle' = IF passes /\ sock # <<"main">> THEN 0 ELSE idle
  /\ up' = IF again THEN up ELSE up \ {q}
  /\ again => faults > 0
  /\ faults' = IF again THEN faults - 1 ELSE faults
  /\ UNCHANGED <<envVars, dmVars, mainVars, discVars, prober, gTimeout, acsVars>>

Lose ==
  /\ faults > 0
  /\ \/ \E q \in up : up' = up \ {q} /\ UNCHANGED down
     \/ \E d \in down : down' = down \ {d} /\ UNCHANGED up
  /\ faults' = faults - 1
  /\ UNCHANGED <<envVars, dmVars, idle, mainVars, discVars, prober, gTimeout, acsVars>>

\* The second in which the ACS last asked for a connection.
LastAsked == IF asked = <<>> THEN 1 ELSE asked[Len(asked)]

\* A connection request: its time stamp counts seconds, its identifier is its number.
ConnectionRequest(i, second, sig) ==
  [sock |-> <<"main">>, msg |-> [ts |-> second, id |-> i, un |-> UserName, sig |-> sig]]

\* The ACS asks for a connection at the address published, in the same second as the
\* last time or in a later one.
AcsRequest ==
  /\ requests > 0 /\ requests' = requests - 1 /\ udpAddress = nat
  /\ \E second \in {LastAsked, LastAsked + 1}, sig \in {Password, NoKey} :
       /\ asked' = Append(asked, second)
       /\ down' = down \cup {ConnectionRequest(Len(asked) + 1, second, sig)}
  /\ UNCHANGED <<envVars, dmVars, up, faults, idle, mainVars, discVars, prober, gTimeout, accepted>>

\* A connection request that was delivered is delivered again.
AcsRepeat(i) ==
  /\ faults > 0
  /\ faults' = faults - 1
  /\ down' = down \cup {ConnectionRequest(i, asked[i], Password)}
  /\ UNCHANGED <<envVars, dmVars, up, idle, mainVars, discVars, prober, gTimeout, acsVars>>

ChangeNat ==
  /\ changes > 0 /\ changes' = changes - 1
  /\ nat' \in Ips \ {nat}
  /\ UNCHANGED <<enable, keep, life, dmVars, netVars, mainVars, discVars, prober, gTimeout, acsVars>>

Running(p) == prober[p].pc # "none"

Toggle ==
  /\ changes > 0 /\ changes' = changes - 1
  /\ QuietToggles => \A p \in Probers : ~Running(p)
  /\ enable' = ~enable
  /\ UNCHANGED <<keep, nat, life, dmVars, netVars, mainVars, discVars, prober, gTimeout, acsVars>>

-----------------------------------------------------------------------------
(* What the two receiving threads share *)

\* DM_STUN_sendManagement: an error is answered with MSG_INTEGRITY.
KindToSend(s) == IF s.last = "BINDING_ERROR_RESPONSE" THEN "MSG_INTEGRITY" ELSE "BINDING_REQUEST"

AfterSending(s) ==
  IF s.last = "BINDING_ERROR_RESPONSE" THEN [s EXCEPT !.last = "NONE"]
  ELSE [s EXCEPT !.notif = IF @ = "NOTIFIED" THEN "VALIDATED" ELSE @]

\* Mutant of Learn: the address is published but not kept.
LearnForgetful(s, r) ==
  [s EXCEPT !.notif = CASE r.type = "BINDING_RESPONSE" -> "NOTIFIED"
                        [] r.type = "MSG_INTEGRITY_RESPONSE" -> "VALIDATED" [] OTHER -> @]

\* An address other than the one known: any answer may bring it.
Learn(s, r) ==
  [s EXCEPT !.wan = r.wan,
            !.notif = CASE r.type = "BINDING_RESPONSE" -> "NOTIFIED"
                        [] r.type = "MSG_INTEGRITY_RESPONSE" -> "VALIDATED" [] OTHER -> @]

Received(s, type) == [s EXCEPT !.last = type]

\* The end of a window by timeout: an error is kept for the next sending.
TimedOut(s) == IF s.last = "BINDING_ERROR_RESPONSE" THEN s ELSE Received(s, "NONE")

\* A window closes before its answers have come only if they are late.
Closes(sock) ==
  IF (\E q \in up : q.sock = sock \/ q.reply = sock) \/ (\E d \in down : d.sock = sock)
  THEN faults > 0 /\ faults' = faults - 1
  ELSE UNCHANGED faults

-----------------------------------------------------------------------------
(* Thread 1: DM_STUN_stunThread *)

\* One turn of the loop, up to the reading.
MainLoop ==
  /\ mainPc = "loop"
  /\ LET turned == main.prev # (IF enable THEN "ENABLE" ELSE "DISABLE")
         s == [main EXCEPT !.lan = LanIp, !.prev = IF enable THEN "ENABLE" ELSE "DISABLE"]
         t == IF turned THEN DM_STUN_initValues(s) ELSE s
     IN  IF enable
         THEN /\ main' = AfterSending(t)
              /\ up' = Sent(<<"main">>, KindToSend(t), Unknown, <<>>)
              /\ startDiscovery' = (startDiscovery \/ turned)
              /\ mainPc' = "read" /\ window' = [heard |-> Unknown, received |-> FALSE]
         ELSE /\ main' = s /\ startDiscovery' = (startDiscovery /\ ~turned)
              /\ UNCHANGED <<up, mainPc, window>>
  /\ UNCHANGED <<envVars, dmVars, down, faults, idle, discVars, prober, gTimeout, acsVars>>

\* Mutant of IsNewRequest: the identifier is not looked at.
IsNewRequestByTime(m) == m.ts >= main.timeStamp

\* Old time stamps and the last identifier are refused.
IsNewRequest(m) == m.ts >= main.timeStamp /\ main.messageId # m.id

\* A connection request over UDP: the policy may refuse it, the engine never does.
UdpRequest(m) ==
  \E allowed \in BOOLEAN :
    LET ok == IsNewRequest(m) /\ allowed
        s == [main EXCEPT !.timeStamp = IF m.ts >= @ THEN m.ts ELSE @,
                          !.messageId = IF m.ts >= main.timeStamp THEN m.id ELSE @]
    IN  /\ main' = IF window.received \/ ok THEN s ELSE Received(s, "UDP_REQUEST")
        /\ window' = [window EXCEPT !.received = @ \/ ok]
        /\ accepted' = IF ok THEN Append(accepted, m.id) ELSE accepted
  /\ UNCHANGED <<dmVars, up>>

\* The parameters are written: the address, and NATDetected if it changes.
Publish(s, r) ==
  /\ udpAddress' = r.wan
  /\ natDetectedParam' = IF s.natDetected # (r.wan # s.lan) THEN r.wan # s.lan ELSE natDetectedParam

\* A STUN answer.
MainAnswer(r) ==
  /\ IF main.wan # r.wan
     THEN /\ Publish(main, r)
          /\ up' = Sent(<<"main">>, "BINDING_CHANGE", Unknown, <<>>)
          /\ main' = LET s == [Learn(main, r) EXCEPT !.natDetected = r.wan # main.lan]
                     IN  IF window.received THEN s ELSE Received(s, r.type)
     ELSE /\ main' = IF window.received THEN main ELSE Received(main, r.type)
          /\ UNCHANGED <<dmVars, up>>
  /\ window' = [window EXCEPT !.heard = r.wan]
  /\ UNCHANGED accepted

\* One message of DM_STUN_readManagement.
MainRead(d) ==
  /\ mainPc = "read" /\ d \in down /\ d.sock = <<"main">>
  /\ LET r == DM_STUN_readMessage(d.msg, window.heard, UserName, Password)
     IN  CASE r.type = "UDP_REQUEST" -> UdpRequest(d.msg)
           [] r.type = "MESSAGE_UNKNOWN" ->
                /\ main' = IF window.received THEN main ELSE Received(main, r.type)
                /\ UNCHANGED <<dmVars, up, window, accepted>>
           [] OTHER -> MainAnswer(r)
  /\ down' = down \ {d}
  /\ UNCHANGED <<envVars, faults, idle, mainPc, startDiscovery, discVars, prober, gTimeout, requests, asked>>

\* The window ends, by timeout or because the last message came as it ended; then
\* DM_STUN_startTimeoutDiscoveryThread, the first time after STUN was enabled.
MainEnd ==
  /\ mainPc = "read" /\ Closes(<<"main">>)
  /\ main' = IF window.received THEN main ELSE TimedOut(main)
  /\ mainPc' = "loop"
  /\ IF startDiscovery /\ keep.min # keep.max
     THEN /\ startDiscovery' = FALSE
          /\ discPc' = "loop"
          /\ disc' = [NewDiscData EXCEPT !.port = disc.port + 1]
          /\ discWindow' = [heard |-> Unknown, received |-> FALSE]
     ELSE UNCHANGED <<startDiscovery, discVars>>
  /\ UNCHANGED <<envVars, dmVars, up, down, idle, window, prober, gTimeout, acsVars>>

-----------------------------------------------------------------------------
(* Thread 2: DM_STUN_timeoutDiscoveryManagementThread *)

DiscSock == <<"disc", disc.port>>

DiscLoop ==
  /\ discPc = "loop"
  /\ LET state == IF enable THEN "ENABLE" ELSE "DISABLE"
         s == [disc EXCEPT !.lan = LanIp, !.prev = state]
         t == IF enable /\ disc.prev # state THEN DM_STUN_initValues(s) ELSE s
     IN  IF enable /\ disc.threadId = NoProber
         THEN /\ disc' = AfterSending(t)
              /\ up' = Sent(DiscSock, KindToSend(t), Unknown, <<>>) /\ idle' = 0
         ELSE disc' = t /\ UNCHANGED <<up, idle>>
  /\ discWindow' = [heard |-> Unknown, received |-> FALSE]
  /\ discPc' = "read"
  /\ UNCHANGED <<envVars, dmVars, down, faults, mainVars, prober, gTimeout, acsVars>>

\* One message of DM_STUN_readManagementTimeout: any message counts as received.
\* While thread 3 runs, another address is not learnt and ends the reading.
DiscRead(d) ==
  /\ discPc = "read" /\ d \in down /\ d.sock = DiscSock
  /\ LET r == DM_STUN_readMessage(d.msg, discWindow.heard, UserName, Password)
         s == [disc EXCEPT !.timeoutState = "TIMEOUT_RECEIVED"]
     IN  /\ discWindow' = [heard |-> r.wan, received |-> TRUE]
         /\ IF s.wan = r.wan
            THEN disc' = Received(s, r.type) /\ UNCHANGED <<up, discPc>>
            ELSE IF s.third
                 THEN disc' = Received(s, "BINDING_RESPONSE") /\ discPc' = "after" /\ UNCHANGED up
                 ELSE /\ disc' = Received(Learn(s, r), r.type)
                      /\ up' = Sent(DiscSock, "BINDING_CHANGE", Unknown, <<>>)
                      /\ UNCHANGED discPc
  /\ down' = down \ {d}
  /\ UNCHANGED <<envVars, dmVars, faults, idle, mainVars, prober, gTimeout, acsVars>>

\* The window ends; without a message the probe has expired.
DiscEnd ==
  /\ discPc = "read" /\ Closes(DiscSock)
  /\ disc' = TimedOut([disc EXCEPT !.timeoutState =
                         IF @ \in {"TIMEOUT_SEND", "TIMEOUT_NONE"} /\ ~discWindow.received
                         THEN "TIMEOUT_EXPIRATION" ELSE @])
  /\ discPc' = "after"
  /\ UNCHANGED <<envVars, dmVars, up, down, idle, mainVars, discWindow, prober, gTimeout, acsVars>>

\* Once the change of address is validated, thread 3 is started, in place of the
\* one that runs; then the end of the loop.
DiscAfter ==
  /\ discPc = "after"
  /\ discPc' = IF disc.exitWindow THEN "loop" ELSE "none"
  /\ IF disc.notif = "VALIDATED"
     THEN \E p \in Probers :
            /\ ~Running(p) \/ p = disc.threadId
            /\ disc' = [disc EXCEPT !.notif = "NOT_NOTIFIED", !.third = TRUE, !.threadId = p]
            /\ prober' = [prober EXCEPT ![p] = [pc |-> "send", timeout |-> keep.min,
                                                wan |-> disc.wan, reply |-> DiscSock]]
     ELSE UNCHANGED <<disc, prober>>
  /\ UNCHANGED <<envVars, dmVars, netVars, mainVars, discWindow, gTimeout, acsVars>>

-----------------------------------------------------------------------------
(* Thread 3: DM_STUN_timeoutDiscoveryThread *)

ProbeSend(p) ==
  /\ prober[p].pc = "send"
  /\ disc' = [disc EXCEPT !.timeoutState = "TIMEOUT_SEND"]
  /\ up' = Sent(<<"probe">>, "TIMEOUT_DISCOVERY", prober[p].wan, prober[p].reply)
  /\ prober' = [prober EXCEPT ![p].pc = "sleep"]
  /\ UNCHANGED <<envVars, dmVars, down, faults, idle, mainVars, discPc, discWindow, gTimeout, acsVars>>

\* The answer to a probe comes while the thread sleeps, unless it is late or never comes.
Slept(p) ==
  IF \E q \in up : q.reply = prober[p].reply THEN faults > 0 /\ faults' = faults - 1
  ELSE IF \E d \in down : d.sock = prober[p].reply THEN faults > 0 /\ faults' = faults - 1
  ELSE UNCHANGED faults

\* The end of thread 3: thread 2 is told to leave its loop.
Ended(d) == [d EXCEPT !.exitWindow = FALSE, !.third = FALSE, !.threadId = NoProber]

\* sleep(timeout) is over: go on with a longer timeout, or tell thread 1 and thread 2.
ProbeWake(p) ==
  /\ prober[p].pc = "sleep" /\ Slept(p)
  /\ idle' = idle + prober[p].timeout
  /\ LET received == disc.timeoutState = "TIMEOUT_RECEIVED"
         timeout == prober[p].timeout + (IF received THEN Step(keep) ELSE 0)
     IN  IF received /\ timeout <= keep.max
         THEN /\ prober' = [prober EXCEPT ![p].pc = "send", ![p].timeout = timeout]
              /\ UNCHANGED <<disc, gTimeout>>
         ELSE /\ gTimeout' = DM_STUN_ComputeGlobalTimeout(Step(keep), keep.min, keep.max, timeout)
              /\ disc' = Ended(disc)
              /\ prober' = [prober EXCEPT ![p] = [pc |-> "none", timeout |-> 0,
                                                  wan |-> Unknown, reply |-> <<>>]]
  /\ UNCHANGED <<envVars, dmVars, up, down, mainVars, discPc, discWindow, acsVars>>

-----------------------------------------------------------------------------
\* What is published before the first answer: 0.0.0.0.
DM_STUN_updateValuesDatamodel == udpAddress = Unknown /\ natDetectedParam = FALSE

\* DM_STUN_stunThread up to its loop.
Init ==
  /\ enable \in BOOLEAN /\ nat \in Ips /\ idle = 0
  /\ \E k \in Scenarios :
       /\ keep = DM_STUN_checkAllStunParameters(k.min, k.max) /\ life = k.life
       /\ changes = k.changes /\ faults = k.faults /\ requests = k.requests
  /\ DM_STUN_updateValuesDatamodel
  /\ up = {} /\ down = {}
  /\ mainPc = "loop" /\ main = NewThreadData /\ startDiscovery = TRUE
  /\ window = [heard |-> Unknown, received |-> FALSE]
  /\ discPc = "none" /\ disc = NewDiscData /\ discWindow = [heard |-> Unknown, received |-> FALSE]
  /\ prober = [p \in Probers |-> [pc |-> "none", timeout |-> 0, wan |-> Unknown, reply |-> <<>>]]
  /\ gTimeout = keep.min
  /\ asked = <<>> /\ accepted = <<>>

MainStep == MainLoop \/ MainEnd \/ \E d \in down : MainRead(d)
DiscStep == DiscLoop \/ DiscEnd \/ DiscAfter \/ \E d \in down : DiscRead(d)
ProbeStep(p) == ProbeSend(p) \/ ProbeWake(p)
ServerStep(kind) == \E q \in up : q.sock[1] = kind /\ Serve(q, FALSE)

Next ==
  \/ MainStep \/ DiscStep \/ (\E k \in Sockets : ServerStep(k))
  \/ \E p \in Probers : ProbeStep(p)
  \/ \E q \in up : Serve(q, TRUE)
  \/ Lose \/ AcsRequest \/ (\E i \in DOMAIN asked : AcsRepeat(i)) \/ ChangeNat \/ Toggle

Spec == Init /\ [][Next]_vars

FairSpec ==
  Spec /\ WF_vars(MainStep) /\ WF_vars(DiscStep)
       /\ (\A k \in Sockets : WF_vars(ServerStep(k)))
       /\ \A p \in Probers : WF_vars(ProbeStep(p))

-----------------------------------------------------------------------------
(* Properties *)

MessageTypes == {"NONE", "MESSAGE_UNKNOWN", "UDP_REQUEST", "BINDING_RESPONSE", "TIMEOUT_RESPONSE",
                 "MSG_INTEGRITY_RESPONSE", "BINDING_ERROR_RESPONSE"}

\* Types: the data of the three threads, the parameters and the budgets.
StunTypeOK ==
  /\ enable \in BOOLEAN /\ nat \in Ips /\ udpAddress \in Ips \cup {Unknown}
  /\ natDetectedParam \in BOOLEAN /\ idle \in Nat /\ gTimeout \in Nat
  /\ changes \in Nat /\ faults \in Nat /\ requests \in Nat /\ asked \in Seq(Nat)
  /\ mainPc \in {"loop", "read"} /\ discPc \in {"none", "loop", "read", "after"}
  /\ main.last \in MessageTypes /\ disc.last \in MessageTypes
  /\ disc.threadId \in Probers \cup {NoProber}
  /\ \A p \in Probers : prober[p].pc \in {"none", "send", "sleep"}

\* The keep-alive period the client uses stays between the two parameters: not so with a
\* minimum of ten or more above the maximum, of which the check keeps only one digit, so
\* that it leaves them out of order.
TimeoutInRange == keep.min <= gTimeout /\ gTimeout <= keep.max

\* The period found by the discovery is one the NAT's binding survives, or the minimum,
\* though a message be lost, late or repeated or the address change while it is probed:
\* the margin of DM_STUN_ComputeGlobalTimeout absorbs one such disturbance.
KeepAliveSurvives == gTimeout < life \/ gTimeout = keep.min

\* The period in use is one the ACS allows and the NAT survives.
KeepAlivePeriod == TimeoutInRange /\ KeepAliveSurvives

\* Whatever the order and the number of its datagrams, a connection request is accepted
\* after none of a later second, and twice only if another request was made in its second:
\* DM_STUN_readManagement keeps the last time stamp, in seconds, and the last identifier.
NoReplay ==
  \A i, j \in DOMAIN accepted : i < j =>
    /\ asked[accepted[i]] <= asked[accepted[j]]
    /\ accepted[i] = accepted[j] =>
         \E k \in DOMAIN asked : k # accepted[j] /\ asked[k] = asked[accepted[j]]

\* When the network has calmed down and STUN stays enabled, the address published is
\* the NAT's, and stays so.
AddressSettles == <>[]enable => <>[](udpAddress = nat)

\* The discovery ends: the second binding is not kept for ever.
DiscoveryEnds == <>[]enable => []<>(discPc = "none")

\* With STUN enabled for good, the client comes to rest: the address settles, and every
\* discovery ends.
ComesToRest == AddressSettles /\ DiscoveryEnds
=============================================================================
