--------------------------- MODULE AcsSessionProofs ---------------------------
(***************************************************************************)
(* Proofs about a session with the ACS, for any number of HTTP threads and *)
(* of results to send.  The session steps through the HTTP client, about   *)
(* which the first part is; what the communication module and the engine   *)
(* know of one another is an invariant of two levels, each with the        *)
(* hypotheses on the ACS under which it holds.                             *)
(***************************************************************************)
EXTENDS AcsSession, SequenceTheorems, TLAPS

-----------------------------------------------------------------------------
(* The HTTP client, for any messages, any number of threads and any bound on *)
(* the pending messages                                                      *)

\* TypeOK is preserved by every step of the client.
LEMMA TypeStep == TypeOK /\ [HttpNext]_httpVars => TypeOK'
<1> USE MessagesAssumption, BoundsAssumption
<1> SUFFICES ASSUME TypeOK, [HttpNext]_httpVars PROVE TypeOK'
  OBVIOUS
<1>1. CASE Configure
  BY <1>1 DEF TypeOK, Configure
<1>2. CASE RefuseHttpMessage
  BY <1>2 DEF TypeOK, RefuseHttpMessage
<1>3. CASE CloseHttpSession
  BY <1>3 DEF TypeOK, CloseHttpSession
<1>4. CASE StopHttpClient
  BY <1>4, EmptySeq DEF TypeOK, StopHttpClient
<1>5. ASSUME NEW m \in Messages, SendHttpMessage(m) PROVE TypeOK'
  <2>1. CASE AddPendingHttpMessage(m)
    BY <2>1 DEF TypeOK, AddPendingHttpMessage
  <2>2. CASE StartSending(m)
    BY <2>2 DEF TypeOK, StartSending, UpdateRetryBuffer
  <2> QED BY <1>5, <2>1, <2>2 DEF SendHttpMessage
<1>6. ASSUME NEW s \in Senders, BeginSending(s) PROVE TypeOK'
  BY <1>6 DEF TypeOK, BeginSending, Perform
<1>7. ASSUME NEW s \in Senders, EndSending(s) PROVE TypeOK'
  BY <1>7 DEF TypeOK, EndSending, Perform
<1>8. CASE UNCHANGED httpVars
  BY <1>8 DEF TypeOK, httpVars
<1> QED BY <1>1, <1>2, <1>3, <1>4, <1>5, <1>6, <1>7, <1>8 DEF HttpNext

\* Every variable of the client keeps its type.
THEOREM HttpTypeCorrect == HttpSpec => []TypeOK
<1>1. HttpInit => TypeOK
  BY MessagesAssumption, EmptySeq DEF HttpInit, TypeOK
<1> QED BY <1>1, TypeStep, PTL DEF HttpSpec

-----------------------------------------------------------------------------
\* A message is being sent only while some thread is there to send it.
Manned == beingSent # NoMessage => \E s \in Senders : sender[s] # "off"

\* A close is expected only while a message is being sent, and only then
\* messages wait.
Busy == beingSent = NoMessage => ~closeExpected /\ pending = <<>>

\* Every step keeps Busy: only one thread may be on the wire.
LEMMA BusyStep == TypeOK /\ Busy /\ [HttpNext]_httpVars => Busy'
<1> USE MessagesAssumption, BoundsAssumption
<1> SUFFICES ASSUME TypeOK, Busy, [HttpNext]_httpVars PROVE Busy'
  OBVIOUS
<1>1. CASE Configure \/ RefuseHttpMessage
  BY <1>1 DEF Busy, Configure, RefuseHttpMessage
<1>2. CASE CloseHttpSession \/ StopHttpClient
  BY <1>2 DEF Busy, CloseHttpSession, StopHttpClient
<1>3. ASSUME NEW m \in Messages, SendHttpMessage(m) PROVE Busy'
  BY <1>3 DEF Busy, SendHttpMessage, AddPendingHttpMessage, StartSending
<1>4. ASSUME NEW s \in Senders, BeginSending(s) PROVE Busy'
  BY <1>4 DEF Busy, BeginSending, Perform
<1>5. ASSUME NEW s \in Senders, EndSending(s) PROVE Busy'
  <2>1. pending # <<>> => Head(pending) \in Messages
    BY HeadTailProperties DEF TypeOK
  <2> QED BY <1>5, <2>1 DEF Busy, EndSending, Perform
<1>6. CASE UNCHANGED httpVars
  BY <1>6 DEF Busy, httpVars
<1> QED BY <1>1, <1>2, <1>3, <1>4, <1>5, <1>6 DEF HttpNext

\* Every step keeps Manned: a pending message has a thread to send it.
LEMMA MannedStep == TypeOK /\ Manned /\ [HttpNext]_httpVars => Manned'
<1> USE MessagesAssumption, BoundsAssumption
<1> SUFFICES ASSUME TypeOK, Manned, [HttpNext]_httpVars PROVE Manned'
  OBVIOUS
<1>1. CASE Configure \/ RefuseHttpMessage
  BY <1>1 DEF Manned, Configure, RefuseHttpMessage
<1>2. CASE CloseHttpSession \/ StopHttpClient
  BY <1>2 DEF Manned, CloseHttpSession, StopHttpClient
<1>3. ASSUME NEW m \in Messages, SendHttpMessage(m) PROVE Manned'
  BY <1>3 DEF Manned, SendHttpMessage, AddPendingHttpMessage, StartSending, TypeOK
<1>4. ASSUME NEW s \in Senders, BeginSending(s) PROVE Manned'
  BY <1>4 DEF Manned, BeginSending, Perform, TypeOK
<1>5. ASSUME NEW s \in Senders, EndSending(s) PROVE Manned'
  BY <1>5 DEF Manned, EndSending, Perform, TypeOK
<1>6. CASE UNCHANGED httpVars
  BY <1>6 DEF Manned, httpVars
<1> QED BY <1>1, <1>2, <1>3, <1>4, <1>5, <1>6 DEF HttpNext

\* The request to close never gets stuck: while it is pending, a thread of
\* _sendHttpMessage will perform it, even if the client was stopped and
\* restarted under older threads.
THEOREM CloseIsNeverStuck == HttpSpec => []CloseIsPending
<1>1. HttpInit => TypeOK /\ Busy /\ Manned
  BY MessagesAssumption, EmptySeq DEF HttpInit, TypeOK, Busy, Manned
<1>2. Busy /\ Manned => CloseIsPending
  BY DEF Busy, Manned, CloseIsPending
<1> QED BY <1>1, <1>2, TypeStep, BusyStep, MannedStep, PTL DEF HttpSpec

-----------------------------------------------------------------------------
LEMMA OneSenderStep ==
  ASSUME ~Stops, TypeOK, Busy, Manned, OneSender, [HttpNext]_httpVars PROVE OneSender'
<1> USE MessagesAssumption, BoundsAssumption
<1>1. CASE Configure \/ RefuseHttpMessage
  BY <1>1 DEF OneSender, Configure, RefuseHttpMessage
<1>2. CASE CloseHttpSession
  BY <1>2 DEF OneSender, CloseHttpSession
<1>3. CASE StopHttpClient
  BY <1>3 DEF StopHttpClient
<1>4. ASSUME NEW m \in Messages, AddPendingHttpMessage(m) PROVE OneSender'
  BY <1>4 DEF OneSender, AddPendingHttpMessage
<1>5. ASSUME NEW m \in Messages, StartSending(m) PROVE OneSender'
  BY <1>5 DEF OneSender, StartSending, TypeOK
<1>6. ASSUME NEW s \in Senders, BeginSending(s) PROVE OneSender'
  BY <1>6 DEF OneSender, BeginSending, Perform, TypeOK
<1>7. ASSUME NEW s \in Senders, EndSending(s) PROVE OneSender'
  BY <1>7 DEF OneSender, EndSending, Perform, TypeOK
<1>8. CASE UNCHANGED httpVars
  BY <1>8 DEF OneSender, httpVars
<1> QED BY <1>1, <1>2, <1>3, <1>4, <1>5, <1>6, <1>7, <1>8 DEF HttpNext, SendHttpMessage

\* One thread at most uses the curl handle, which is not cleaned up under it.
THEOREM OneSenderAlways == HttpSpec => []OneSender
<1>1. CASE Stops
  <2>1. OneSender
    BY <1>1 DEF OneSender
  <2> QED BY <2>1, PTL
<1>2. CASE ~Stops
  <2>1. HttpInit => TypeOK /\ Busy /\ Manned /\ OneSender
    BY MessagesAssumption, EmptySeq DEF HttpInit, TypeOK, Busy, Manned, OneSender
  <2>2. TypeOK /\ Busy /\ Manned /\ OneSender /\ [HttpNext]_httpVars => OneSender'
    BY <1>2, OneSenderStep
  <2> QED BY <2>1, <2>2, TypeStep, BusyStep, MannedStep, PTL DEF HttpSpec
<1> QED BY <1>1, <1>2

-----------------------------------------------------------------------------
(* The refinement: facts about the queue that the abstract session sees *)

\* A message put before a sequence of messages gives a sequence of messages.
LEMMA ConsSeq ==
  ASSUME NEW S, NEW a \in S, NEW p \in Seq(S)
  PROVE  /\ <<a>> \o p \in Seq(S) /\ <<a>> \o p # <<>>
         /\ Head(<<a>> \o p) = a /\ Tail(<<a>> \o p) = p
OBVIOUS

\* Taking the first message away and putting it back changes nothing.
LEMMA ConsHeadTail ==
  ASSUME NEW S, NEW p \in Seq(S), p # <<>>
  PROVE  <<Head(p)>> \o Tail(p) = p
OBVIOUS

\* Putting a message before and appending one at the end commute.
LEMMA ConsAppend ==
  ASSUME NEW S, NEW a \in S, NEW p \in Seq(S), NEW m \in S
  PROVE  <<a>> \o Append(p, m) = Append(<<a>> \o p, m)
OBVIOUS

\* A message put before the empty sequence.
LEMMA ConsEmpty ==
  ASSUME NEW S, NEW a \in S
  PROVE  <<a>> \o <<>> = <<a>> /\ Append(<<>>, a) = <<a>>
OBVIOUS

\* The queue and the wire of the abstract session.
AQueue == IF beingSent = NoMessage THEN <<>> ELSE <<beingSent>> \o pending
AWire == {posting[s] : s \in {u \in Senders : sender[u] = "perform"}}

\* Every step of the client is a step of the session or a stutter.
LEMMA SessionStep ==
  ASSUME ~Stops, TypeOK, Busy, Manned, OneSender, [HttpNext]_httpVars
  PROVE  [Session!SessionNext]_(Session!sessionVars)
<1> USE MessagesAssumption, BoundsAssumption
<1>1. CASE Configure
  BY <1>1 DEF Configure, Session!sessionVars
<1>2. CASE RefuseHttpMessage
  BY <1>2 DEF RefuseHttpMessage, Session!sessionVars, Session!SessionNext, Session!Open
<1>3. CASE StopHttpClient
  BY <1>3 DEF StopHttpClient
<1>4. CASE CloseHttpSession
  <2>1. AWire' = AWire
    BY <1>4 DEF CloseHttpSession, AWire
  <2>2. AQueue' = IF AQueue = <<>> THEN <<>> ELSE <<Head(AQueue)>>
    BY <1>4, ConsSeq, ConsEmpty DEF CloseHttpSession, AQueue, TypeOK
  <2>3. AQueue # <<>> <=> beingSent # NoMessage
    BY ConsSeq DEF AQueue, TypeOK
  <2> QED BY <1>4, <2>1, <2>2, <2>3
          DEF CloseHttpSession, AQueue, AWire, Session!SessionNext, Session!Close
<1>5. ASSUME NEW m \in Messages, AddPendingHttpMessage(m)
      PROVE  Session!Accept(m)
  <2>1. AWire' = AWire
    BY <1>5 DEF AddPendingHttpMessage, AWire
  <2>2. AQueue' = Append(AQueue, m)
    BY <1>5, ConsAppend DEF AddPendingHttpMessage, AQueue, TypeOK
  <2>3. sessionHandle
    BY <1>5 DEF AddPendingHttpMessage, Manned, OneSender
  <2> QED BY <1>5, <2>1, <2>2, <2>3
          DEF AddPendingHttpMessage, AQueue, AWire, TypeOK, Session!Accept
<1>6. ASSUME NEW m \in Messages, StartSending(m)
      PROVE  Session!Accept(m)
  <2>1. AWire' = AWire
    BY <1>6 DEF StartSending, AWire, TypeOK
  <2>2. AQueue' = Append(AQueue, m)
    BY <1>6, ConsEmpty DEF StartSending, AQueue, Busy
  <2> QED BY <1>6, <2>1, <2>2 DEF StartSending, AQueue, AWire, Session!Accept
<1>7. ASSUME NEW s \in Senders, BeginSending(s)
      PROVE  Session!Post
  <2>1. beingSent # NoMessage /\ sessionHandle
    BY <1>7 DEF BeginSending, OneSender
  <2>2. AWire = {} /\ AWire' = {beingSent}
    BY <1>7, <2>1 DEF BeginSending, Perform, OneSender, AWire, TypeOK
  <2>3. AQueue' = AQueue /\ AQueue # <<>> /\ Head(AQueue) = beingSent
    BY <1>7, <2>1, ConsSeq DEF BeginSending, AQueue, TypeOK
  <2> QED BY <1>7, <2>1, <2>2, <2>3
          DEF BeginSending, Perform, AQueue, AWire, TypeOK, Session!Post, Session!Advance
<1>8. ASSUME NEW s \in Senders, EndSending(s)
      PROVE  Session!Posted
  <2>1. beingSent # NoMessage
    BY <1>8 DEF EndSending, OneSender
  <2>2. IF pending = <<>>
        THEN beingSent' = NoMessage
        ELSE beingSent' = Head(pending) /\ beingSent' # NoMessage
    BY <1>8, HeadTailProperties DEF EndSending, TypeOK
  <2>3. AQueue' = pending
    BY <1>8, <2>2, ConsHeadTail DEF EndSending, AQueue, TypeOK
  <2>4. Tail(AQueue) = pending
    BY <2>1, ConsSeq DEF AQueue, TypeOK
  <2>5. AWire # {}
    BY <1>8 DEF EndSending, AWire
  <2>6. AWire' = IF pending = <<>> THEN {} ELSE {Head(pending)}
    BY <1>8, <2>2 DEF EndSending, Perform, OneSender, AWire, TypeOK
  <2>7. IF pending = <<>>
        THEN closeExpected' = FALSE /\ sessionHandle' = (sessionHandle /\ ~closeExpected)
        ELSE UNCHANGED <<sessionHandle, closeExpected>>
    BY <1>8, <2>2 DEF EndSending, Perform, TypeOK
  <2> QED BY <2>3, <2>4, <2>5, <2>6, <2>7
          DEF AQueue, AWire, Session!Posted, Session!Advance
<1>9. CASE UNCHANGED httpVars
  BY <1>9 DEF httpVars, Session!sessionVars
<1> QED BY <1>1, <1>2, <1>3, <1>4, <1>5, <1>6, <1>7, <1>8, <1>9
        DEF HttpNext, SendHttpMessage, Session!SessionNext

\* The HTTP client implements the session its users rely on, as long as the
\* agent does not stop it.
THEOREM Refinement ==
  ASSUME ~Stops
  PROVE  HttpSpec => ImplementsSession
<1>1. HttpInit => TypeOK /\ Busy /\ Manned
  BY MessagesAssumption, EmptySeq DEF HttpInit, TypeOK, Busy, Manned
<1>2. HttpInit => Session!SessionInit
  BY DEF HttpInit, Session!SessionInit
<1>3. TypeOK /\ Busy /\ Manned /\ OneSender /\ [HttpNext]_httpVars
      => [Session!SessionNext]_(Session!sessionVars)
  BY SessionStep
<1> QED
  BY <1>1, <1>2, <1>3, TypeStep, BusyStep, MannedStep, OneSenderAlways, PTL
  DEF HttpSpec, ImplementsSession, Session!SessionSpec

-----------------------------------------------------------------------------
(* The hypotheses on the ACS *)

\* The ACS does not hold requests, and the scheduler does not give a session up.
Calm == "Hold" \notin Bodies /\ "long" \notin Silences

\* And a session does not outlive ACSSESSIONTIMEOUT while a message of it is
\* on the wire: only an ACS that is gone is timed out.
Punctual == Calm /\ "late" \notin Silences

-----------------------------------------------------------------------------
(* The inductive invariant, for a calm ACS *)

\* A thread that closes the session, and one that has closed it.
ClosingStages == {"confirm", "complete", "cancel"}
Ending == ClosingStages \cup {"unflag"}

\* What waits to be sent, and all that may still be sent.
PendingMessages == {pending[i] : i \in DOMAIN pending}
Contents == {beingSent, retryBuffer} \cup PendingMessages

\* A thread is in a callback only while curl has its message, and the callback
\* is one that the message can lead to.
Positions ==
  /\ \A s \in Senders : stage[s] # "wait" => sender[s] = "perform"
  /\ stage[Supervisor] \in {"wait", "cancel", "unflag"}
  /\ \A s \in Senders : stage[s] \in {"inform", "irtc"} => posting[s] = "inform"
  /\ \A s \in Senders : stage[s] \in {"lockResponse", "response"} => posting[s] = "request"
  /\ \A s \in Senders : stage[s] \in {"lock204", "ready204"} => posting[s] # "request"
  /\ \A s \in Senders : stage[s] \in {"lockRpc", "rpc"} => posting[s] \in {"answer", EmptyMessage}
  /\ \A s \in Senders : stage[s] \in {"force", "cancel"} => "Fault" \in Bodies

\* Who holds mutexAcsSession, and where.
Owners ==
  /\ \A s \in Senders : stage[s] \in {"ready204", "response"} => acsMutex = s
  /\ stage[Supervisor] # "wait" => acsMutex = Supervisor
  /\ acsMutex # NoOwner => stage[acsMutex] \in {"ready204", "response"} \cup Ending

\* A close that is expected leaves nothing to send; the scheduler alone starts
\* threads, so only its messages are there to be retried.
Closed ==
  /\ closeExpected => pending = <<>>
  /\ \A s \in Senders : stage[s] \in Ending => closeExpected
  /\ retryBuffer \in {"inform", "request", NoMessage}

\* One thread at most closes the session.
OneCloser == \A t, u \in Threads : stage[t] \in Ending /\ stage[u] \in Ending => t = u

\* What bSession says of the scheduler and of the threads.
Views ==
  /\ bSession => sched = "waiting" /\ status \in Opened
  /\ status \in Opened => sched = "waiting"
  /\ \A t \in Threads : stage[t] \in Ending => ~bSession
  /\ Closing \/ bSession \/ status \notin Opened
  /\ \A s \in Senders : stage[s] \in {"ready204", "response"} => bSession
  /\ closingFlag => bSession
  /\ \A s \in Senders : stage[s] = "irtc" => bSession \/ closeExpected
  /\ \A t \in Threads : stage[t] \in {"confirm", "complete"} => status \in Opened
  /\ stage[Supervisor] = "cancel" => status \in Opened
  /\ sched = "informing" => \A t \in Threads : stage[t] \in Ending => acsMutex = t
  /\ sched = "informing" /\ closeExpected => \E s \in Senders : stage[s] = "cancel" /\ acsMutex = s

\* Outside a session only the scheduler has messages on their way: requests it
\* posted too late for the last one, and the Inform that is to open the next.
Outside ==
  ~bSession /\ ~closeExpected /\ beingSent # NoMessage =>
    Contents \subseteq IF sched = "informing" THEN {"inform", "request"} ELSE {"request"}

CalmInv == Positions /\ Owners /\ Closed /\ OneCloser /\ Views /\ Outside

-----------------------------------------------------------------------------
(* The inductive invariant, for a punctual ACS *)

\* A thread of the HTTP client that has not ended.
Alive(s) == sender[s] # "off"

\* When the session times out, what is on its way is of the scheduler, and no
\* callback is at work for the session.
Elapsed ==
  elapsed /\ bSession => \A s \in Senders : Alive(s) =>
    Contents \subseteq {"request"} /\ stage[s] \in {"wait", "body"}

\* While the supervisor closes the session, too.
Supervised ==
  stage[Supervisor] = "cancel" /\ beingSent # NoMessage => Contents \subseteq {"request"}

\* That the engine was ready to close the session stays true until it is closed.
Ready ==
  /\ irtc => bSession \/ \E t \in Threads : stage[t] \in Ending
  /\ irtc /\ bSession => results = 0 /\ ~sending
  /\ closingFlag => irtc
  /\ \A s \in Senders : stage[s] = "irtc" => bSession /\ results = 0 /\ ~sending
  /\ \A s \in Senders : stage[s] = "ready204" => ~irtc
  /\ \A t \in Threads : stage[t] \in {"confirm", "complete"} => results = 0 /\ ~sending
  /\ closingFlag => \A s \in Senders : stage[s] \in {"wait", "done", "lock204"}
  /\ \A s \in Senders : stage[s] \in Ending /\ acsMutex # s => beingSent # "inform"

\* An Inform that may still be answered is that of this session.
InformInTime ==
  \A s \in Senders : Alive(s) /\ beingSent = "inform" /\ stage[s] \in {"wait", "body", "inform", "irtc"}
    => bSession \/ sched = "informing"

\* The message that closes the session does not find an Inform before it.
NoInformLate ==
  closingFlag =>
    /\ "inform" \notin PendingMessages
    /\ \A s \in Senders : Alive(s) /\ beingSent = "inform" => stage[s] = "done"

\* The thread of the Inform sends one message after the other: each is posted by
\* the callbacks of the one before, when they are done.
Chain ==
  \A s \in Senders : Alive(s) /\ retryBuffer = "inform" /\ (bSession \/ sched = "informing") =>
    /\ pending # <<>> => stage[s] = "done" /\ Len(pending) = 1
    /\ status = "opened" /\ ~sending /\ results > 0 => stage[s] = "done" /\ pending = <<>>

\* In the thread of a late request, the Inform follows requests only.
InformFirst ==
  beingSent # NoMessage /\ retryBuffer # "inform" =>
    \A j \in DOMAIN pending : pending[j] = "inform" =>
      beingSent = "request" /\ \A i \in 1 .. (j - 1) : pending[i] = "request"

\* The agent lets the ACS speak only when it has itself nothing left to say.
Polite ==
  bSession /\ beingSent # NoMessage /\ ({beingSent} \cup PendingMessages) \cap {"answer", EmptyMessage} # {}
    => results = 0 /\ ~sending

\* An RPC that did not take the data lock runs in a session.
RpcLocked == \A s \in Senders : stage[s] = "rpc" /\ ~rpcLock => bSession

PunctualInv ==
  /\ Elapsed /\ Supervised /\ Ready /\ InformInTime /\ NoInformLate
  /\ Chain /\ InformFirst /\ Polite /\ RpcLocked

\* The steps of the system, one by one.
LEMMA NextSplit ==
  [Next]_vars =>
    \/ ConfigureClient \/ Inform \/ EnableSession \/ SendResult \/ EndSession \/ GiveUp \/ NewResult
    \/ Elapse \/ Supervise
    \/ \E t \in Threads : ConfirmClose(t) \/ SessionClosed(t) \/ EndClose(t)
    \/ \E s \in Senders :
         \/ Post(s) \/ Posted(s) \/ Header200(s) \/ ContentLength0(s) \/ Header204(s) \/ Lock204(s)
         \/ Ready204(s) \/ AskOnInform(s) \/ ReadyOnInform(s) \/ LockResponse(s) \/ Response(s)
         \/ HoldResponse(s) \/ LockRpc(s) \/ Rpc(s) \/ ForceClose(s)
         \/ \E b \in Bodies : ReceiveBody(s, b)
    \/ UNCHANGED vars
BY DEF Next, SchedulerStep, SupervisorStep, HttpStep, Callback, Close, Threads

\* What the session does to the HTTP client is what the client may do.
LEMMA ClientStep == TypeOK /\ [Next]_vars => [HttpNext]_httpVars
<1> USE MessagesAssumption, MessageKinds DEF HttpNext, httpVars
<1> SUFFICES ASSUME TypeOK, [Next]_vars PROVE [HttpNext]_httpVars
  OBVIOUS
<1>1. CASE ConfigureClient
  BY <1>1 DEF ConfigureClient
<1>2. CASE Inform
  BY <1>2 DEF Inform
<1>3. CASE SchedulerStep \/ GiveUp \/ NewResult
  BY <1>3 DEF SchedulerStep, EnableSession, SendResult, EndSession, GiveUp, NewResult, TrySend
<1>4. CASE Elapse
  BY <1>4 DEF Elapse
<1>5. CASE Supervise
  BY <1>5 DEF Supervise, BeginClose
<1>6. ASSUME NEW t \in Threads, Close(t) PROVE [HttpNext]_httpVars
  BY <1>6 DEF Close, ConfirmClose, SessionClosed, EndClose
<1>7. ASSUME NEW s \in Senders, Post(s) \/ Posted(s) PROVE [HttpNext]_httpVars
  BY <1>7 DEF Post, Posted
<1>8. ASSUME NEW s \in Senders, Callback(s) PROVE [HttpNext]_httpVars
  <2>1. CASE Header200(s) \/ Header204(s) \/ Lock204(s) \/ ForceClose(s)
    BY <2>1 DEF Header200, Header204, Lock204, ForceClose, BeginClose
  <2>2. CASE ContentLength0(s) \/ Ready204(s)
    BY <2>2 DEF ContentLength0, Ready204
  <2>3. CASE AskOnInform(s) \/ ReadyOnInform(s) \/ LockResponse(s) \/ Response(s) \/ HoldResponse(s)
    BY <2>3 DEF AskOnInform, ReadyOnInform, LockResponse, Response, HoldResponse, TrySend
  <2>4. CASE LockRpc(s) \/ Rpc(s)
    BY <2>4 DEF LockRpc, Rpc, TrySend
  <2>5. ASSUME NEW b \in Bodies, ReceiveBody(s, b) PROVE [HttpNext]_httpVars
    BY <2>5 DEF ReceiveBody, TrySend, TypeOK
  <2> QED BY <1>6, <1>8, <2>1, <2>2, <2>3, <2>4, <2>5 DEF Callback, Threads
<1>9. CASE UNCHANGED vars
  BY <1>9 DEF vars
<1> QED BY <1>1, <1>2, <1>3, <1>4, <1>5, <1>6, <1>7, <1>8, <1>9
        DEF Next, SupervisorStep, HttpStep, Threads

\* What is proved of the client, as one invariant.
HttpInv == TypeOK /\ Busy /\ Manned /\ OneSender

\* The session keeps the invariant of the client.
LEMMA HttpInvStep == HttpInv /\ [Next]_vars => HttpInv'
<1> SUFFICES ASSUME HttpInv, [Next]_vars PROVE HttpInv'
  OBVIOUS
<1>1. [HttpNext]_httpVars
  BY ClientStep DEF HttpInv
<1> QED BY <1>1, SessionAssumption, TypeStep, BusyStep, MannedStep, OneSenderStep DEF HttpInv

-----------------------------------------------------------------------------
\* The types of the session; the result being sent is one of those to send.
Types == HttpInv /\ SessionTypeOK /\ (sending => results > 0)

\* Confirming a session takes one result away at most, the one that is being sent.
LEMMA ConfirmTypes ==
  ASSUME Confirm, status \in Opened \cup {"completed", "cancelled"}, sending \in BOOLEAN,
         results \in 0 .. MaxResults, sending => results > 0
  PROVE  /\ status' \in Opened \cup {"completed", "cancelled"} /\ sending' \in BOOLEAN
         /\ results' \in 0 .. MaxResults /\ (sending' => results' > 0)
<1> USE SessionAssumption DEF Confirm, Opened
<1>1. status' \in Opened \cup {"completed", "cancelled"} /\ sending' \in BOOLEAN
  OBVIOUS
<1>2. results' \in 0 .. MaxResults
  OBVIOUS
<1>3. sending' => results' > 0
  OBVIOUS
<1> QED BY <1>1, <1>2, <1>3

\* Every step leaves the threads where they are, or moves one.
LEMMA StagesStep ==
  ASSUME stage \in [Threads -> Stages], [Next]_vars
  PROVE  stage' \in [Threads -> Stages]
<1> SUFFICES stage' = stage \/ \E t \in Threads, p \in Stages : Goto(t, p)
  BY DEF Goto
<1>s. Senders \subseteq Threads /\ Supervisor \in Threads
  BY DEF Threads
<1> USE <1>s DEF Stages
<1>1. CASE ConfigureClient \/ Inform \/ EnableSession \/ SendResult \/ EndSession
  BY <1>1 DEF ConfigureClient, Inform, EnableSession, SendResult, EndSession
<1>2. CASE GiveUp \/ NewResult \/ Elapse
  BY <1>2 DEF GiveUp, NewResult, Elapse
<1>3. CASE Supervise
  BY <1>3 DEF Supervise, BeginClose
<1>4. ASSUME NEW t \in Threads, ConfirmClose(t) \/ SessionClosed(t) \/ EndClose(t)
      PROVE  \E p \in Stages : Goto(t, p)
  BY <1>4 DEF ConfirmClose, SessionClosed, EndClose
<1>5. ASSUME NEW s \in Senders, Post(s) \/ Posted(s)
      PROVE  stage' = stage \/ \E p \in Stages : Goto(s, p)
  BY <1>5 DEF Post, Posted
<1>6. ASSUME NEW s \in Senders, Header200(s) \/ Lock204(s) \/ ForceClose(s)
      PROVE  \E p \in Stages : Goto(s, p)
  BY <1>6 DEF Header200, Lock204, ForceClose, BeginClose
<1>7. ASSUME NEW s \in Senders, ContentLength0(s) \/ Header204(s) \/ Ready204(s) \/ AskOnInform(s)
      PROVE  \E p \in Stages : Goto(s, p)
  BY <1>7 DEF ContentLength0, Header204, Ready204, AskOnInform
<1>8. ASSUME NEW s \in Senders,
             ReadyOnInform(s) \/ LockResponse(s) \/ Response(s) \/ HoldResponse(s) \/ LockRpc(s) \/ Rpc(s)
      PROVE  \E p \in Stages : Goto(s, p)
  BY <1>8 DEF ReadyOnInform, LockResponse, Response, HoldResponse, LockRpc, Rpc
<1>9. ASSUME NEW s \in Senders, NEW b \in Bodies, ReceiveBody(s, b) PROVE \E p \in Stages : Goto(s, p)
  BY <1>9 DEF ReceiveBody
<1>10. CASE UNCHANGED vars
  BY <1>10 DEF vars
<1> HIDE DEF Stages
<1> QED BY <1>1, <1>2, <1>3, <1>4, <1>5, <1>6, <1>7, <1>8, <1>9, <1>10, NextSplit

\* Every step keeps the types.
LEMMA TypesStep == Types /\ [Next]_vars => Types'
<1> USE DEF Opened
<1> SUFFICES ASSUME Types, [Next]_vars PROVE Types'
  OBVIOUS
<1>s. Senders \subseteq Threads /\ Supervisor \in Threads /\ MaxResults \in Nat
  BY SessionAssumption DEF Threads
<1>0. HttpInv' /\ TypeOK'
  BY HttpInvStep DEF Types, HttpInv
<1> DEFINE SessionTypes ==
      /\ bSession \in BOOLEAN /\ irtc \in BOOLEAN /\ closingFlag \in BOOLEAN /\ ignore204 \in BOOLEAN
      /\ elapsed \in BOOLEAN /\ acsMutex \in Threads \cup {NoOwner}
      /\ sched \in {"idle", "informing", "waiting"}
      /\ status \in Opened \cup {"completed", "cancelled"}
      /\ results \in 0 .. MaxResults /\ sending \in BOOLEAN /\ rpcLock \in BOOLEAN
      /\ (sending => results > 0)
<1>a. SessionTypes
  BY DEF Types, SessionTypeOK
<1>b. stage' \in [Threads -> Stages]
  BY StagesStep DEF Types, SessionTypeOK
<1>c. SUFFICES SessionTypes'
  BY <1>0, <1>b DEF Types, SessionTypeOK
<1>1. CASE ConfigureClient
  BY <1>1, <1>a, <1>s DEF ConfigureClient, Configure, comVars, engVars
<1>2. CASE Inform
  BY <1>2, <1>a, <1>s DEF Inform, comVars, engVars
<1>3. CASE EnableSession
  BY <1>3, <1>a, <1>s DEF EnableSession, comVars, engVars
<1>4. CASE SendResult
  BY <1>4, <1>a, <1>s DEF SendResult, comVars, engVars
<1>5. CASE EndSession
  BY <1>5, <1>a, <1>s DEF EndSession, comVars, engVars
<1>6. CASE GiveUp
  BY <1>6, <1>a, <1>s DEF GiveUp, comVars, engVars
<1>7. CASE NewResult
  BY <1>7, <1>a, <1>s DEF NewResult, comVars, engVars
<1>8. CASE Elapse
  BY <1>8, <1>a, <1>s DEF Elapse, comVars, engVars
<1>9. CASE Supervise
  BY <1>9, <1>a, <1>s DEF Supervise, BeginClose, comVars, engVars
<1>10. ASSUME NEW t \in Threads, ConfirmClose(t) PROVE SessionTypes'
  BY <1>10, <1>a, <1>s, ConfirmTypes DEF ConfirmClose, comVars, engVars
<1>11. ASSUME NEW t \in Threads, SessionClosed(t) PROVE SessionTypes'
  BY <1>11, <1>a, <1>s DEF SessionClosed, comVars, engVars
<1>12. ASSUME NEW t \in Threads, EndClose(t) PROVE SessionTypes'
  BY <1>12, <1>a, <1>s DEF EndClose, comVars, engVars
<1>13. ASSUME NEW s \in Senders, Post(s) PROVE SessionTypes'
  BY <1>13, <1>a, <1>s DEF Post, comVars, engVars
<1>14. ASSUME NEW s \in Senders, Posted(s) PROVE SessionTypes'
  BY <1>14, <1>a, <1>s DEF Posted, comVars, engVars
<1>15. ASSUME NEW s \in Senders, Header200(s) PROVE SessionTypes'
  BY ZenonT(40), <1>15, <1>a, <1>s DEF Header200, Http, BeginClose, comVars, engVars
<1>16. ASSUME NEW s \in Senders, ContentLength0(s) PROVE SessionTypes'
  BY ZenonT(40), <1>16, <1>a, <1>s DEF ContentLength0, Http, comVars, engVars
<1>17. ASSUME NEW s \in Senders, Header204(s) PROVE SessionTypes'
  BY ZenonT(40), <1>17, <1>a, <1>s DEF Header204, Http, comVars, engVars
<1>18. ASSUME NEW s \in Senders, Lock204(s) PROVE SessionTypes'
  <2>1. CASE bSession /\ irtc
    BY <1>18, <1>a, <1>s, <2>1 DEF Lock204, BeginClose, comVars, engVars
  <2>2. CASE ~(bSession /\ irtc)
    BY ZenonT(40), <1>18, <1>a, <1>s, <2>2 DEF Lock204, comVars, engVars
  <2> QED BY <2>1, <2>2
<1>19. ASSUME NEW s \in Senders, Ready204(s) PROVE SessionTypes'
  BY <1>19, <1>a, <1>s, ConfirmTypes DEF Ready204, Http, IsReadyToClose, comVars, engVars
<1>20. ASSUME NEW s \in Senders, AskOnInform(s) PROVE SessionTypes'
  BY <1>20, <1>a, <1>s, ConfirmTypes DEF AskOnInform, Http, IsReadyToClose, comVars, engVars
<1>21. ASSUME NEW s \in Senders, ReadyOnInform(s) PROVE SessionTypes'
  BY <1>21, <1>a, <1>s DEF ReadyOnInform, Http, comVars, engVars
<1>22. ASSUME NEW s \in Senders, LockResponse(s) PROVE SessionTypes'
  BY <1>22, <1>a, <1>s DEF LockResponse, Http, comVars, engVars
<1>23. ASSUME NEW s \in Senders, Response(s) PROVE SessionTypes'
  BY <1>23, <1>a, <1>s, ConfirmTypes DEF Response, Http, IsReadyToClose, Confirm, comVars, engVars
<1>24. ASSUME NEW s \in Senders, HoldResponse(s) PROVE SessionTypes'
  BY <1>24, <1>a, <1>s DEF HoldResponse, Http, comVars, engVars
<1>25. ASSUME NEW s \in Senders, LockRpc(s) PROVE SessionTypes'
  BY <1>25, <1>a, <1>s, ConfirmTypes DEF LockRpc, Http, comVars, engVars
<1>26. ASSUME NEW s \in Senders, Rpc(s) PROVE SessionTypes'
  BY ZenonT(40), <1>26, <1>a, <1>s DEF Rpc, Http, comVars, engVars
<1>27. ASSUME NEW s \in Senders, ForceClose(s) PROVE SessionTypes'
  BY <1>27, <1>a, <1>s DEF ForceClose, Http, BeginClose, comVars, engVars
<1>28. ASSUME NEW s \in Senders, NEW b \in Bodies, ReceiveBody(s, b) PROVE SessionTypes'
  BY <1>28, <1>a, <1>s DEF ReceiveBody, Http, comVars, engVars
<1>29. CASE UNCHANGED vars
  BY <1>29, <1>a DEF vars, comVars, engVars
<1> QED BY <1>1, <1>2, <1>3, <1>4, <1>5, <1>6, <1>7, <1>8, <1>9, <1>10, <1>11, <1>12, <1>13, <1>14,
     <1>15, <1>16, <1>17, <1>18, <1>19, <1>20, <1>21, <1>22, <1>23, <1>24, <1>25, <1>26, <1>27,
     <1>28, <1>29, NextSplit

-----------------------------------------------------------------------------
(* What the steps do to the HTTP client *)

\* In a callback a message is refused by a close, or waits behind the one being sent.
LEMMA CallbackSends ==
  ASSUME HttpInv, NEW s \in Senders, sender[s] = "perform", NEW m, TrySend(m)
  PROVE  /\ UNCHANGED <<beingSent, closeExpected, retryBuffer, sender, posting>>
         /\ \/ closeExpected /\ UNCHANGED pending
            \/ ~closeExpected /\ pending' = Append(pending, m)
BY SessionAssumption DEF HttpInv, OneSender, TrySend, SendHttpMessage, AddPendingHttpMessage,
     StartSending, RefuseHttpMessage

\* The same, when the message is accepted, and when it is refused.
LEMMA CallbackAccepts ==
  ASSUME HttpInv, NEW s \in Senders, sender[s] = "perform", NEW m, SendHttpMessage(m)
  PROVE  /\ UNCHANGED <<beingSent, closeExpected, retryBuffer, sender, posting>>
         /\ ~closeExpected /\ pending' = Append(pending, m)
BY SessionAssumption DEF HttpInv, OneSender, SendHttpMessage, AddPendingHttpMessage, StartSending

LEMMA CallbackRefused ==
  ASSUME HttpInv, NEW s \in Senders, sender[s] = "perform", RefuseHttpMessage
  PROVE  /\ UNCHANGED <<beingSent, closeExpected, retryBuffer, sender, posting, pending>>
         /\ closeExpected
BY SessionAssumption DEF HttpInv, OneSender, RefuseHttpMessage

\* A message of the scheduler waits too, or is given to a new thread.
LEMMA SchedulerSends ==
  ASSUME HttpInv, NEW m, m # EmptyMessage, SendHttpMessage(m)
  PROVE  /\ ~closeExpected /\ UNCHANGED <<closeExpected, posting>>
         /\ \/ /\ beingSent # NoMessage /\ pending' = Append(pending, m)
               /\ UNCHANGED <<beingSent, retryBuffer, sender>>
            \/ /\ beingSent = NoMessage /\ pending = <<>> /\ pending' = <<>>
               /\ beingSent' = m /\ retryBuffer' = m
               /\ \A s \in Senders : sender[s] = "off"
               /\ \E s \in Senders : sender' = [sender EXCEPT ![s] = "start"]
BY SessionAssumption DEF HttpInv, OneSender, Busy, SendHttpMessage, AddPendingHttpMessage,
     StartSending, UpdateRetryBuffer

\* What is pending after a message more, or a message less.
LEMMA PendingAppend ==
  ASSUME TypeOK, NEW m \in Messages, pending' = Append(pending, m)
  PROVE  PendingMessages' = PendingMessages \cup {m}
BY DEF TypeOK, PendingMessages

\* The same messages, or none.
LEMMA PendingKept == UNCHANGED pending => UNCHANGED PendingMessages
BY DEF PendingMessages

LEMMA PendingEmpty == pending = <<>> => PendingMessages = {}
BY DEF PendingMessages

\* The first message goes, and the others stay.
LEMMA PendingTail ==
  ASSUME TypeOK, pending # <<>>, pending' = Tail(pending)
  PROVE  Head(pending) \in PendingMessages /\ PendingMessages' \subseteq PendingMessages
BY DEF TypeOK, PendingMessages

\* The thread takes up what is being sent, then what is pending.
LEMMA Taken ==
  ASSUME HttpInv, NEW s \in Senders, BeginSending(s)
  PROVE  /\ UNCHANGED <<beingSent, pending, closeExpected, retryBuffer>>
         /\ posting' = [posting EXCEPT ![s] = beingSent]
         /\ sender' = [sender EXCEPT ![s] = "perform"] /\ sender[s] = "start"
BY SessionAssumption DEF HttpInv, OneSender, BeginSending, Perform, TypeOK

\* curl returns: the thread ends, or takes the first message that waits.
LEMMA Sent ==
  ASSUME HttpInv, NEW s \in Senders, EndSending(s)
  PROVE  /\ sender[s] = "perform"
         /\ UNCHANGED retryBuffer
         /\ posting' = [posting EXCEPT ![s] = beingSent']
         /\ PendingMessages' \subseteq PendingMessages
         /\ \/ /\ pending = <<>> /\ beingSent' = NoMessage /\ pending' = <<>> /\ closeExpected' = FALSE
               /\ sender' = [sender EXCEPT ![s] = "off"]
            \/ /\ pending # <<>> /\ beingSent' \in PendingMessages /\ beingSent' # NoMessage
               /\ beingSent' = Head(pending) /\ pending' = Tail(pending)
               /\ UNCHANGED <<closeExpected, sender>>
<1> USE SessionAssumption, MessagesAssumption DEF HttpInv
<1>1. pending # <<>> => Head(pending) \in Messages
  BY HeadTailProperties DEF TypeOK
<1>2. CASE pending = <<>>
  BY <1>2, PendingEmpty DEF EndSending, Perform, PendingMessages
<1>3. CASE pending # <<>>
  <2>1. beingSent' = Head(pending) /\ pending' = Tail(pending) /\ beingSent' # NoMessage
    BY <1>1, <1>3 DEF EndSending
  <2>2. sender' = sender /\ closeExpected' = closeExpected
    BY <2>1 DEF EndSending, Perform, TypeOK
  <2> QED BY <1>3, <2>1, <2>2, PendingTail DEF EndSending, Perform
<1> QED BY <1>2, <1>3

\* The Inform is refused, or posted by a scheduler that had no session.
LEMMA InformEffect ==
  ASSUME Types, Inform
  PROVE  /\ sched = "idle" /\ ~rpcLock /\ status' = "cancelled"
         /\ UNCHANGED <<comVars, closeExpected, posting, results, sending, rpcLock, stage>>
         /\ \/ UNCHANGED <<sched, beingSent, pending, retryBuffer, sender>>
            \/ /\ sched' = "informing" /\ ~closeExpected
               /\ \/ /\ beingSent # NoMessage /\ pending' = Append(pending, "inform")
                     /\ UNCHANGED <<beingSent, retryBuffer, sender>>
                  \/ /\ beingSent = NoMessage /\ pending = <<>> /\ pending' = <<>>
                     /\ beingSent' = "inform" /\ retryBuffer' = "inform"
                     /\ \A s \in Senders : sender[s] = "off" /\ sender'[s] \in {"off", "start"}
                     /\ \A s, u \in Senders : sender'[s] # "off" /\ sender'[u] # "off" => s = u
BY SchedulerSends, MessageKinds DEF Types, Inform, RefuseHttpMessage, HttpInv, TypeOK

\* A result is refused, or posted in a session the engine knows to be opened.
LEMMA SendResultEffect ==
  ASSUME Types, SendResult
  PROVE  /\ sched = "waiting" /\ status = "opened" /\ ~sending /\ results > 0 /\ sending'
         /\ UNCHANGED <<comVars, closeExpected, posting, sched, status, results, rpcLock, stage>>
         /\ \/ UNCHANGED <<beingSent, pending, retryBuffer, sender>>
            \/ /\ ~closeExpected
               /\ \/ /\ beingSent # NoMessage /\ pending' = Append(pending, "request")
                     /\ UNCHANGED <<beingSent, retryBuffer, sender>>
                  \/ /\ beingSent = NoMessage /\ pending = <<>> /\ pending' = <<>>
                     /\ beingSent' = "request" /\ retryBuffer' = "request"
                     /\ \A s \in Senders : sender[s] = "off" /\ sender'[s] \in {"off", "start"}
                     /\ \A s, u \in Senders : sender'[s] # "off" /\ sender'[u] # "off" => s = u
BY SchedulerSends, MessageKinds DEF Types, SendResult, TrySend, RefuseHttpMessage, HttpInv, TypeOK

\* The thread that has closed the session goes on where it was.
LEMMA EndCloseEffect ==
  ASSUME NEW t \in Threads, EndClose(t)
  PROVE  /\ stage[t] = "unflag" /\ ~irtc'
         /\ acsMutex' = IF acsMutex = t THEN NoOwner ELSE acsMutex
         /\ \E p \in {"wait", "body", "done"} :
              /\ stage' = [stage EXCEPT ![t] = p]
              /\ t = Supervisor => p = "wait"
              /\ t # Supervisor => p = IF acsMutex = t THEN "done" ELSE "body"
         /\ UNCHANGED <<httpVars, bSession, closingFlag, ignore204, elapsed, engVars>>
<1>1. stage[t] = "unflag" /\ ~irtc'
  BY DEF EndClose
<1>2. acsMutex' = IF acsMutex = t THEN NoOwner ELSE acsMutex
  BY DEF EndClose
<1>3. \E p \in {"wait", "body", "done"} :
        /\ stage' = [stage EXCEPT ![t] = p]
        /\ t = Supervisor => p = "wait"
        /\ t # Supervisor => p = IF acsMutex = t THEN "done" ELSE "body"
  <2>1. CASE t = Supervisor
    BY <2>1 DEF EndClose, Goto
  <2>2. CASE t # Supervisor /\ acsMutex = t
    BY <2>2 DEF EndClose, Goto
  <2>3. CASE t # Supervisor /\ acsMutex # t
    BY <2>3 DEF EndClose, Goto
  <2> QED BY <2>1, <2>2, <2>3
<1> QED BY <1>1, <1>2, <1>3 DEF EndClose

\* A body goes where its kind says; a Retry posts the last message again.
Received(s, p) ==
  /\ stage' = [stage EXCEPT ![s] = p]
  /\ p = "inform" => posting[s] = "inform"
  /\ p = "lockResponse" => posting[s] = "request"
  /\ p = "lockRpc" => posting[s] \in {"answer", EmptyMessage}
  /\ p = "force" => "Fault" \in Bodies
  /\ \/ UNCHANGED pending
     \/ p = "done" /\ ~closeExpected /\ retryBuffer # NoMessage /\ pending' = Append(pending, retryBuffer)

\* The effect of a body as the proofs below use it.
LEMMA ReceiveEffect ==
  ASSUME Types, "Hold" \notin Bodies, NEW s \in Senders, NEW b \in Bodies, ReceiveBody(s, b)
  PROVE  /\ sender[s] = "perform" /\ stage[s] = "body" /\ acsMutex = NoOwner
         /\ elapsed' = FALSE
         /\ \E p \in {"inform", "lockResponse", "lockRpc", "force", "done"} : Received(s, p)
         /\ UNCHANGED <<beingSent, closeExpected, retryBuffer, sender, posting>>
         /\ UNCHANGED <<bSession, irtc, closingFlag, ignore204, acsMutex, engVars>>
<1>1. beingSent # NoMessage /\ sender[s] = "perform" /\ posting[s] \in Messages
  BY SessionAssumption, MessagesAssumption DEF ReceiveBody, Http, OneSender, Types, HttpInv, TypeOK
<1>2. CASE b = "Retry" /\ retryBuffer # NoMessage
  <2>1. TrySend(retryBuffer)
    BY <1>2 DEF ReceiveBody
  <2>2. /\ UNCHANGED <<beingSent, closeExpected, retryBuffer, sender, posting>>
        /\ \/ closeExpected /\ UNCHANGED pending
           \/ ~closeExpected /\ pending' = Append(pending, retryBuffer)
    BY <1>1, <2>1
       DEF TrySend, SendHttpMessage, AddPendingHttpMessage, StartSending, RefuseHttpMessage
  <2>3. stage' = [stage EXCEPT ![s] = "done"]
    BY <1>2 DEF ReceiveBody, Goto
  <2>4. Received(s, "done")
    BY <2>2, <2>3, <1>2 DEF Received
  <2> QED BY <1>1, <1>2, <2>2, <2>4 DEF ReceiveBody, Http
<1>3. CASE ~(b = "Retry" /\ retryBuffer # NoMessage)
  <2>1. UNCHANGED httpVars
    BY <1>3 DEF ReceiveBody
  <2>2. b \in Expected(posting[s])
    BY DEF ReceiveBody
  <2>3. \E p \in {"inform", "lockResponse", "lockRpc", "force", "done"} : Received(s, p)
    <3> USE <1>1, <2>1, <2>2, MessageKinds DEF Received, httpVars
    <3>1. CASE b = "InformResponse"
      BY <3>1 DEF ReceiveBody, Goto, Expected
    <3>2. CASE b = "Response"
      BY <3>2 DEF ReceiveBody, Goto, Expected
    <3>3. CASE b = "Rpc"
      BY <3>3 DEF ReceiveBody, Goto, Expected
    <3>4. CASE b = "Fault"
      BY <3>4 DEF ReceiveBody, Goto
    <3>5. CASE b \in {"Hold", "Retry"}
      BY <3>5 DEF ReceiveBody, Goto
    <3> QED BY <3>1, <3>2, <3>3, <3>4, <3>5, BodyKinds
  <2> QED BY <1>1, <2>1, <2>3 DEF ReceiveBody, Http, httpVars
<1> QED BY <1>2, <1>3

\* The steps that a calm ACS leaves.
LEMMA CalmSplit ==
  ASSUME Calm, [Next]_vars
  PROVE
    \/ ConfigureClient \/ Inform \/ EnableSession \/ SendResult \/ EndSession \/ NewResult
    \/ Elapse \/ Supervise
    \/ \E t \in Threads : ConfirmClose(t) \/ SessionClosed(t) \/ EndClose(t)
    \/ \E s \in Senders :
         \/ Post(s) \/ Posted(s) \/ Header200(s) \/ ContentLength0(s) \/ Header204(s) \/ Lock204(s)
         \/ Ready204(s) \/ AskOnInform(s) \/ ReadyOnInform(s) \/ LockResponse(s) \/ Response(s)
         \/ LockRpc(s) \/ Rpc(s) \/ ForceClose(s)
         \/ \E b \in Bodies : ReceiveBody(s, b)
    \/ UNCHANGED vars
<1>1. ~GiveUp /\ \A s \in Senders : ~HoldResponse(s)
  BY DEF Calm, GiveUp, HoldResponse
<1> QED BY <1>1, NextSplit

\* What the types say of the threads, in the form the proofs below use.
LEMMA Threading ==
  ASSUME Types
  PROVE  /\ HttpInv /\ TypeOK
         /\ stage \in [Threads -> Stages]
         /\ sender \in [Senders -> {"off", "start", "perform"}]
         /\ posting \in [Senders -> Messages \cup {NoMessage}]
         /\ acsMutex \in Threads \cup {NoOwner}
         /\ \A s \in Senders : sender[s] # "off" => beingSent # NoMessage
         /\ \A s \in Senders : sender[s] = "perform" => posting[s] = beingSent
         /\ \A s, u \in Senders : sender[s] # "off" /\ sender[u] # "off" => s = u
         /\ beingSent # NoMessage => \E s \in Senders : sender[s] # "off"
         /\ beingSent = NoMessage => ~closeExpected /\ pending = <<>>
BY SessionAssumption DEF Types, HttpInv, SessionTypeOK, TypeOK, OneSender, Manned, Busy

\* A message has been answered: the thread ends, or takes one that waited.
LEMMA PostedEffect ==
  ASSUME Types, NEW s \in Senders, Posted(s)
  PROVE  /\ sender[s] = "perform" /\ stage[s] \in {"wait", "body", "done"}
         /\ \A t \in Threads : stage'[t] = IF t = s THEN "wait" ELSE stage[t]
         /\ \A u \in Senders : posting'[u] = IF u = s THEN beingSent' ELSE posting[u]
         /\ UNCHANGED <<retryBuffer, comVars, engVars>>
         /\ \/ /\ beingSent' = NoMessage /\ pending = <<>> /\ pending' = <<>> /\ closeExpected' = FALSE
               /\ \A u \in Senders : sender'[u] = IF u = s THEN "off" ELSE sender[u]
            \/ /\ beingSent' # NoMessage /\ pending # <<>>
               /\ UNCHANGED <<closeExpected, sender>>
<1>1. EndSending(s) /\ HttpInv
  BY DEF Posted, Types
<1> QED BY ZenonT(40), <1>1, Sent, Threading DEF Posted, Goto, Threads

\* The message taken is the first that waited, so nothing new is to be sent.
LEMMA PostedNext ==
  ASSUME Types, NEW s \in Senders, Posted(s), beingSent' # NoMessage
  PROVE  /\ pending # <<>> /\ beingSent' = Head(pending) /\ pending' = Tail(pending)
         /\ beingSent # NoMessage /\ beingSent' \in PendingMessages
         /\ PendingMessages' \subseteq PendingMessages /\ Contents' \subseteq Contents
<1>1. EndSending(s) /\ HttpInv
  BY DEF Posted, Types
<1>2. beingSent # NoMessage
  BY <1>1, Threading DEF EndSending
<1>3. beingSent' \in PendingMessages => Contents' \subseteq Contents
  BY <1>1, Sent DEF Contents
<1> QED BY <1>1, <1>2, <1>3, Sent

\* The three callbacks that ask the engine whether the session may be closed.
LEMMA AskEffect ==
  ASSUME Types, NEW s \in Senders, AskOnInform(s)
  PROVE  /\ Http(s, "inform") /\ sched # "informing" /\ Confirm
         /\ \/ /\ stage' = [stage EXCEPT ![s] = "irtc"]
               /\ status \in Opened => results' = 0 /\ ~sending'
            \/ stage' = [stage EXCEPT ![s] = "done"]
         /\ UNCHANGED <<httpVars, comVars, sched, rpcLock>>
BY DEF AskOnInform, IsReadyToClose, EngineFree, Goto

\* After a 204 the mutex is held while the engine answers.
LEMMA Ready204Effect ==
  ASSUME Types, NEW s \in Senders, Ready204(s)
  PROVE  /\ Http(s, "ready204") /\ sched # "informing" /\ Confirm
         /\ irtc' \in BOOLEAN /\ closingFlag' \in BOOLEAN
         /\ irtc' /\ status \in Opened => results' = 0 /\ ~sending'
         /\ UNCHANGED <<beingSent, closeExpected, retryBuffer, sender, posting>>
         /\ \/ UNCHANGED <<pending, closingFlag>>
            \/ ~closeExpected /\ pending' = Append(pending, EmptyMessage) /\ irtc' /\ closingFlag'
         /\ acsMutex' = NoOwner /\ stage' = [stage EXCEPT ![s] = "done"]
         /\ UNCHANGED <<bSession, ignore204, elapsed, sched, rpcLock>>
<1>1. sender[s] = "perform" /\ HttpInv
  BY DEF Ready204, Http, Types
<1>2. PICK ready \in BOOLEAN :
        /\ IsReadyToClose(ready) /\ irtc' = ready
        /\ \/ ready /\ SendHttpMessage(EmptyMessage) /\ closingFlag' = TRUE
           \/ ready /\ RefuseHttpMessage /\ UNCHANGED closingFlag
           \/ ~ready /\ UNCHANGED <<httpVars, closingFlag>>
  BY DEF Ready204
<1>3. /\ UNCHANGED <<beingSent, closeExpected, retryBuffer, sender, posting>>
      /\ \/ UNCHANGED <<pending, closingFlag>>
         \/ ~closeExpected /\ pending' = Append(pending, EmptyMessage) /\ irtc' /\ closingFlag'
  BY <1>1, <1>2, CallbackAccepts, CallbackRefused DEF httpVars
<1>4. /\ sched # "informing" /\ Confirm /\ UNCHANGED <<sched, rpcLock>>
      /\ irtc' /\ status \in Opened => results' = 0 /\ ~sending'
  BY <1>2 DEF IsReadyToClose, EngineFree
<1>5. closingFlag' \in BOOLEAN
  BY <1>2 DEF Types, SessionTypeOK
<1> QED BY <1>2, <1>3, <1>4, <1>5 DEF Ready204, Goto

\* So it is after a response.
LEMMA ResponseEffect ==
  ASSUME Types, NEW s \in Senders, Response(s)
  PROVE  /\ Http(s, "response") /\ sched # "informing" /\ Confirm
         /\ irtc' \in BOOLEAN /\ (irtc => irtc')
         /\ irtc' /\ ~irtc /\ status \in Opened => results' = 0 /\ ~sending'
         /\ UNCHANGED <<beingSent, closeExpected, retryBuffer, sender, posting>>
         /\ \/ UNCHANGED pending
            \/ /\ ~closeExpected /\ pending' = Append(pending, EmptyMessage)
               /\ status \in Opened => results' = 0 /\ ~sending'
         /\ acsMutex' = NoOwner /\ stage' = [stage EXCEPT ![s] = "done"]
         /\ UNCHANGED <<bSession, closingFlag, ignore204, elapsed, sched, rpcLock>>
<1>1. sender[s] = "perform" /\ HttpInv
  BY DEF Response, Http, Types
<1>2. PICK ready \in BOOLEAN :
        /\ IsReadyToClose(ready) /\ irtc' = (irtc \/ ready)
        /\ IF ready THEN TrySend(EmptyMessage) ELSE UNCHANGED httpVars
  BY DEF Response
<1>3. /\ UNCHANGED <<beingSent, closeExpected, retryBuffer, sender, posting>>
      /\ \/ UNCHANGED pending
         \/ ~closeExpected /\ pending' = Append(pending, EmptyMessage) /\ ready
  BY <1>1, <1>2, CallbackSends DEF httpVars
<1>4. /\ sched # "informing" /\ Confirm /\ UNCHANGED <<sched, rpcLock>>
      /\ ready /\ status \in Opened => results' = 0 /\ ~sending'
  BY <1>2 DEF IsReadyToClose, EngineFree
<1>5. irtc \in BOOLEAN
  BY DEF Types, SessionTypeOK
<1> QED BY <1>2, <1>3, <1>4, <1>5 DEF Response, Goto

-----------------------------------------------------------------------------
(* The steps of the system, for a calm ACS *)

\* A callback begins when curl has the message, and goes where the answer leads.
LEMMA PositionsStep ==
  ASSUME Types, Calm, Positions, [Next]_vars PROVE Positions'
<1> USE SessionAssumption, MessagesAssumption, MessageKinds, BodyKinds
        DEF EngineFree, Threads, Goto, httpVars, comVars, engVars
<1>1. ASSUME NEW s \in Senders, NEW b \in Bodies, ReceiveBody(s, b) PROVE Positions'
  <2>1. PICK p \in {"inform", "lockResponse", "lockRpc", "force", "done"} : Received(s, p)
    BY <1>1, ReceiveEffect DEF Calm, Punctual
  <2>2. /\ UNCHANGED <<beingSent, closeExpected, retryBuffer, sender, posting>>
        /\ UNCHANGED <<bSession, irtc, closingFlag, ignore204, acsMutex, engVars>>
        /\ sender[s] = "perform" /\ stage[s] = "body" /\ acsMutex = NoOwner /\ elapsed' = FALSE
    BY <1>1, ReceiveEffect DEF Calm, Punctual
  <2> QED BY <2>1, <2>2, Threading DEF Received, Positions
<1> USE Threading DEF Positions
<1>2. CASE ConfigureClient
  BY <1>2 DEF ConfigureClient, Configure
<1>3. CASE Inform
  BY <1>3, InformEffect
<1>4. CASE EnableSession
  BY <1>4 DEF EnableSession
<1>5. CASE SendResult
  BY <1>5, SendResultEffect
<1>6. CASE EndSession
  BY <1>6 DEF EndSession
<1>7. CASE NewResult
  BY <1>7 DEF NewResult
<1>8. CASE Elapse
  BY <1>8 DEF Elapse
<1>9. CASE Supervise
  BY <1>9 DEF Supervise, BeginClose, CloseHttpSession
<1>10. ASSUME NEW t \in Threads, ConfirmClose(t) PROVE Positions'
  BY <1>10 DEF ConfirmClose, Confirm
<1>11. ASSUME NEW t \in Threads, SessionClosed(t) PROVE Positions'
  BY <1>11 DEF SessionClosed
<1>12. ASSUME NEW t \in Threads, EndClose(t) PROVE Positions'
  BY <1>12, EndCloseEffect
<1>13. ASSUME NEW s \in Senders, Post(s) PROVE Positions'
  BY <1>13, Taken DEF Post
<1>14. ASSUME NEW s \in Senders, Posted(s) PROVE Positions'
  BY ZenonT(40), <1>14, Sent DEF Posted
<1>15. ASSUME NEW s \in Senders, Header200(s) PROVE Positions'
  <2>1. CASE closingFlag
    BY <1>15, <2>1 DEF Header200, Http, BeginClose, CloseHttpSession
  <2>2. CASE ~closingFlag
    BY <1>15, <2>2 DEF Header200, Http, BeginClose, CloseHttpSession
  <2> QED BY <2>1, <2>2
<1>16. ASSUME NEW s \in Senders, ContentLength0(s) PROVE Positions'
  BY <1>16, CallbackAccepts, CallbackRefused DEF ContentLength0, Http
<1>17. ASSUME NEW s \in Senders, Header204(s) PROVE Positions'
  BY <1>17 DEF Header204, Http
<1>18. ASSUME NEW s \in Senders, Lock204(s) PROVE Positions'
  <2>1. CASE bSession /\ irtc
    BY <1>18, <2>1 DEF Lock204, Http, BeginClose, CloseHttpSession
  <2>2. CASE ~(bSession /\ irtc)
    BY <1>18, <2>2 DEF Lock204, Http, BeginClose, CloseHttpSession
  <2> QED BY <2>1, <2>2
<1>19. ASSUME NEW s \in Senders, Ready204(s) PROVE Positions'
  BY <1>19, Ready204Effect DEF Http, Confirm
<1>20. ASSUME NEW s \in Senders, AskOnInform(s) PROVE Positions'
  BY <1>20, AskEffect DEF Http, Confirm
<1>21. ASSUME NEW s \in Senders, ReadyOnInform(s) PROVE Positions'
  BY <1>21, CallbackSends DEF ReadyOnInform, Http
<1>22. ASSUME NEW s \in Senders, LockResponse(s) PROVE Positions'
  BY <1>22 DEF LockResponse, Http
<1>23. ASSUME NEW s \in Senders, Response(s) PROVE Positions'
  BY <1>23, ResponseEffect DEF Http, Confirm
<1>24. ASSUME NEW s \in Senders, LockRpc(s) PROVE Positions'
  BY <1>24 DEF LockRpc, Http, Confirm
<1>25. ASSUME NEW s \in Senders, Rpc(s) PROVE Positions'
  BY <1>25, CallbackSends DEF Rpc, Http
<1>26. ASSUME NEW s \in Senders, ForceClose(s) PROVE Positions'
  BY <1>26 DEF ForceClose, Http, BeginClose, CloseHttpSession
<1>27. CASE UNCHANGED vars
  BY <1>27 DEF vars
<1> QED BY <1>1, <1>2, <1>3, <1>4, <1>5, <1>6, <1>7, <1>8, <1>9, <1>10, <1>11, <1>12, <1>13, <1>14,
     <1>15, <1>16, <1>17, <1>18, <1>19, <1>20, <1>21, <1>22, <1>23, <1>24, <1>25, <1>26, <1>27,
     CalmSplit

\* mutexAcsSession is taken and given back in pairs, by its owner.
LEMMA OwnersStep ==
  ASSUME Types, Calm, Positions, Owners, [Next]_vars PROVE Owners'
<1> USE SessionAssumption, MessagesAssumption, MessageKinds, BodyKinds
        DEF EngineFree, Threads, Goto, httpVars, comVars, engVars
<1>1. ASSUME NEW s \in Senders, NEW b \in Bodies, ReceiveBody(s, b) PROVE Owners'
  <2>1. PICK p \in {"inform", "lockResponse", "lockRpc", "force", "done"} : Received(s, p)
    BY <1>1, ReceiveEffect DEF Calm, Punctual
  <2>2. /\ UNCHANGED <<beingSent, closeExpected, retryBuffer, sender, posting>>
        /\ UNCHANGED <<bSession, irtc, closingFlag, ignore204, acsMutex, engVars>>
        /\ sender[s] = "perform" /\ stage[s] = "body" /\ acsMutex = NoOwner /\ elapsed' = FALSE
    BY <1>1, ReceiveEffect DEF Calm, Punctual
  <2> QED BY <2>1, <2>2, Threading DEF Received, Positions, Owners, ClosingStages, Ending
<1> USE Threading DEF Positions, Owners, ClosingStages, Ending
<1>2. CASE ConfigureClient
  BY <1>2 DEF ConfigureClient, Configure
<1>3. CASE Inform
  BY <1>3, InformEffect
<1>4. CASE EnableSession
  BY <1>4 DEF EnableSession
<1>5. CASE SendResult
  BY <1>5, SendResultEffect
<1>6. CASE EndSession
  BY <1>6 DEF EndSession
<1>7. CASE NewResult
  BY <1>7 DEF NewResult
<1>8. CASE Elapse
  BY <1>8 DEF Elapse
<1>9. CASE Supervise
  BY <1>9 DEF Supervise, BeginClose, CloseHttpSession
<1>10. ASSUME NEW t \in Threads, ConfirmClose(t) PROVE Owners'
  BY <1>10 DEF ConfirmClose, Confirm
<1>11. ASSUME NEW t \in Threads, SessionClosed(t) PROVE Owners'
  BY <1>11 DEF SessionClosed
<1>12. ASSUME NEW t \in Threads, EndClose(t) PROVE Owners'
  BY <1>12, EndCloseEffect
<1>13. ASSUME NEW s \in Senders, Post(s) PROVE Owners'
  BY <1>13, Taken DEF Post
<1>14. ASSUME NEW s \in Senders, Posted(s) PROVE Owners'
  BY <1>14, Sent DEF Posted
<1>15. ASSUME NEW s \in Senders, Header200(s) PROVE Owners'
  <2>1. CASE closingFlag
    BY <1>15, <2>1 DEF Header200, Http, BeginClose, CloseHttpSession
  <2>2. CASE ~closingFlag
    BY <1>15, <2>2 DEF Header200, Http, BeginClose, CloseHttpSession
  <2> QED BY <2>1, <2>2
<1>16. ASSUME NEW s \in Senders, ContentLength0(s) PROVE Owners'
  BY <1>16, CallbackAccepts, CallbackRefused DEF ContentLength0, Http
<1>17. ASSUME NEW s \in Senders, Header204(s) PROVE Owners'
  BY <1>17 DEF Header204, Http
<1>18. ASSUME NEW s \in Senders, Lock204(s) PROVE Owners'
  <2>1. CASE bSession /\ irtc
    BY <1>18, <2>1 DEF Lock204, Http, BeginClose, CloseHttpSession
  <2>2. CASE ~(bSession /\ irtc)
    BY <1>18, <2>2 DEF Lock204, Http, BeginClose, CloseHttpSession
  <2> QED BY <2>1, <2>2
<1>19. ASSUME NEW s \in Senders, Ready204(s) PROVE Owners'
  BY <1>19, Ready204Effect DEF Http, Confirm
<1>20. ASSUME NEW s \in Senders, AskOnInform(s) PROVE Owners'
  BY <1>20, AskEffect DEF Http, Confirm
<1>21. ASSUME NEW s \in Senders, ReadyOnInform(s) PROVE Owners'
  BY <1>21, CallbackSends DEF ReadyOnInform, Http
<1>22. ASSUME NEW s \in Senders, LockResponse(s) PROVE Owners'
  BY <1>22 DEF LockResponse, Http
<1>23. ASSUME NEW s \in Senders, Response(s) PROVE Owners'
  BY <1>23, ResponseEffect DEF Http, Confirm
<1>24. ASSUME NEW s \in Senders, LockRpc(s) PROVE Owners'
  BY <1>24 DEF LockRpc, Http, Confirm
<1>25. ASSUME NEW s \in Senders, Rpc(s) PROVE Owners'
  BY <1>25, CallbackSends DEF Rpc, Http
<1>26. ASSUME NEW s \in Senders, ForceClose(s) PROVE Owners'
  BY <1>26 DEF ForceClose, Http, BeginClose, CloseHttpSession
<1>27. CASE UNCHANGED vars
  BY <1>27 DEF vars
<1> QED BY <1>1, <1>2, <1>3, <1>4, <1>5, <1>6, <1>7, <1>8, <1>9, <1>10, <1>11, <1>12, <1>13, <1>14,
     <1>15, <1>16, <1>17, <1>18, <1>19, <1>20, <1>21, <1>22, <1>23, <1>24, <1>25, <1>26, <1>27,
     CalmSplit

\* A close gives up what waits, and nothing is added until it is done.
LEMMA ClosedStep ==
  ASSUME Types, Calm, Positions, Owners, Closed, [Next]_vars PROVE Closed'
<1> USE SessionAssumption, MessagesAssumption, MessageKinds, BodyKinds
        DEF EngineFree, Threads, Goto, httpVars, comVars, engVars
<1>1. ASSUME NEW s \in Senders, NEW b \in Bodies, ReceiveBody(s, b) PROVE Closed'
  <2>1. PICK p \in {"inform", "lockResponse", "lockRpc", "force", "done"} : Received(s, p)
    BY <1>1, ReceiveEffect DEF Calm, Punctual
  <2>2. /\ UNCHANGED <<beingSent, closeExpected, retryBuffer, sender, posting>>
        /\ UNCHANGED <<bSession, irtc, closingFlag, ignore204, acsMutex, engVars>>
        /\ sender[s] = "perform" /\ stage[s] = "body" /\ acsMutex = NoOwner /\ elapsed' = FALSE
    BY <1>1, ReceiveEffect DEF Calm, Punctual
  <2> QED BY <2>1, <2>2, Threading DEF Received, Positions, Closed, ClosingStages, Ending
<1> USE Threading DEF Positions, Closed, ClosingStages, Ending
<1>2. CASE ConfigureClient
  BY <1>2 DEF ConfigureClient, Configure
<1>3. CASE Inform
  BY <1>3, InformEffect
<1>4. CASE EnableSession
  BY <1>4 DEF EnableSession
<1>5. CASE SendResult
  BY <1>5, SendResultEffect
<1>6. CASE EndSession
  BY <1>6 DEF EndSession
<1>7. CASE NewResult
  BY <1>7 DEF NewResult
<1>8. CASE Elapse
  BY <1>8 DEF Elapse
<1>9. CASE Supervise
  BY <1>9 DEF Supervise, BeginClose, CloseHttpSession
<1>10. ASSUME NEW t \in Threads, ConfirmClose(t) PROVE Closed'
  BY <1>10 DEF ConfirmClose, Confirm
<1>11. ASSUME NEW t \in Threads, SessionClosed(t) PROVE Closed'
  BY <1>11 DEF SessionClosed
<1>12. ASSUME NEW t \in Threads, EndClose(t) PROVE Closed'
  BY <1>12, EndCloseEffect
<1>13. ASSUME NEW s \in Senders, Post(s) PROVE Closed'
  BY <1>13, Taken DEF Post
<1>14. ASSUME NEW s \in Senders, Posted(s) PROVE Closed'
  BY <1>14, Sent DEF Posted
<1>15. ASSUME NEW s \in Senders, Header200(s) PROVE Closed'
  <2>1. CASE closingFlag
    BY <1>15, <2>1 DEF Header200, Http, BeginClose, CloseHttpSession
  <2>2. CASE ~closingFlag
    BY <1>15, <2>2 DEF Header200, Http, BeginClose, CloseHttpSession
  <2> QED BY <2>1, <2>2
<1>16. ASSUME NEW s \in Senders, ContentLength0(s) PROVE Closed'
  BY <1>16, CallbackAccepts, CallbackRefused DEF ContentLength0, Http
<1>17. ASSUME NEW s \in Senders, Header204(s) PROVE Closed'
  BY <1>17 DEF Header204, Http
<1>18. ASSUME NEW s \in Senders, Lock204(s) PROVE Closed'
  <2>1. CASE bSession /\ irtc
    BY <1>18, <2>1 DEF Lock204, Http, BeginClose, CloseHttpSession
  <2>2. CASE ~(bSession /\ irtc)
    BY <1>18, <2>2 DEF Lock204, Http, BeginClose, CloseHttpSession
  <2> QED BY <2>1, <2>2
<1>19. ASSUME NEW s \in Senders, Ready204(s) PROVE Closed'
  BY <1>19, Ready204Effect DEF Http, Confirm
<1>20. ASSUME NEW s \in Senders, AskOnInform(s) PROVE Closed'
  BY <1>20, AskEffect DEF Http, Confirm
<1>21. ASSUME NEW s \in Senders, ReadyOnInform(s) PROVE Closed'
  BY <1>21, CallbackSends DEF ReadyOnInform, Http
<1>22. ASSUME NEW s \in Senders, LockResponse(s) PROVE Closed'
  BY <1>22 DEF LockResponse, Http
<1>23. ASSUME NEW s \in Senders, Response(s) PROVE Closed'
  BY <1>23, ResponseEffect DEF Http, Confirm
<1>24. ASSUME NEW s \in Senders, LockRpc(s) PROVE Closed'
  BY <1>24 DEF LockRpc, Http, Confirm
<1>25. ASSUME NEW s \in Senders, Rpc(s) PROVE Closed'
  BY <1>25, CallbackSends DEF Rpc, Http
<1>26. ASSUME NEW s \in Senders, ForceClose(s) PROVE Closed'
  BY <1>26 DEF ForceClose, Http, BeginClose, CloseHttpSession
<1>27. CASE UNCHANGED vars
  BY <1>27 DEF vars
<1> QED BY <1>1, <1>2, <1>3, <1>4, <1>5, <1>6, <1>7, <1>8, <1>9, <1>10, <1>11, <1>12, <1>13, <1>14,
     <1>15, <1>16, <1>17, <1>18, <1>19, <1>20, <1>21, <1>22, <1>23, <1>24, <1>25, <1>26, <1>27,
     CalmSplit

\* Who begins to close the session finds nobody closing it.
LEMMA OneCloserStep ==
  ASSUME Types, Calm, Positions, Owners, OneCloser, Views, [Next]_vars PROVE OneCloser'
<1> USE SessionAssumption, MessagesAssumption, MessageKinds, BodyKinds
        DEF EngineFree, Threads, Goto, httpVars, comVars, engVars
<1>1. ASSUME NEW s \in Senders, NEW b \in Bodies, ReceiveBody(s, b) PROVE OneCloser'
  <2>1. PICK p \in {"inform", "lockResponse", "lockRpc", "force", "done"} : Received(s, p)
    BY <1>1, ReceiveEffect DEF Calm, Punctual
  <2>2. /\ UNCHANGED <<beingSent, closeExpected, retryBuffer, sender, posting>>
        /\ UNCHANGED <<bSession, irtc, closingFlag, ignore204, acsMutex, engVars>>
        /\ sender[s] = "perform" /\ stage[s] = "body" /\ acsMutex = NoOwner /\ elapsed' = FALSE
    BY <1>1, ReceiveEffect DEF Calm, Punctual
  <2> QED BY <2>1, <2>2, Threading
     DEF Received, Positions, Owners, OneCloser, Views, ClosingStages, Ending
<1> USE Threading DEF Positions, Owners, OneCloser, Views, ClosingStages, Ending
<1>2. CASE ConfigureClient
  BY <1>2 DEF ConfigureClient, Configure
<1>3. CASE Inform
  BY <1>3, InformEffect
<1>4. CASE EnableSession
  BY <1>4 DEF EnableSession
<1>5. CASE SendResult
  BY <1>5, SendResultEffect
<1>6. CASE EndSession
  BY <1>6 DEF EndSession
<1>7. CASE NewResult
  BY <1>7 DEF NewResult
<1>8. CASE Elapse
  BY <1>8 DEF Elapse
<1>9. CASE Supervise
  BY <1>9 DEF Supervise, BeginClose, CloseHttpSession
<1>10. ASSUME NEW t \in Threads, ConfirmClose(t) PROVE OneCloser'
  BY <1>10 DEF ConfirmClose, Confirm
<1>11. ASSUME NEW t \in Threads, SessionClosed(t) PROVE OneCloser'
  BY <1>11 DEF SessionClosed
<1>12. ASSUME NEW t \in Threads, EndClose(t) PROVE OneCloser'
  BY <1>12, EndCloseEffect
<1>13. ASSUME NEW s \in Senders, Post(s) PROVE OneCloser'
  BY <1>13, Taken DEF Post
<1>14. ASSUME NEW s \in Senders, Posted(s) PROVE OneCloser'
  BY <1>14, Sent DEF Posted
<1>15. ASSUME NEW s \in Senders, Header200(s) PROVE OneCloser'
  <2>1. CASE closingFlag
    BY <1>15, <2>1 DEF Header200, Http, BeginClose, CloseHttpSession
  <2>2. CASE ~closingFlag
    BY <1>15, <2>2 DEF Header200, Http, BeginClose, CloseHttpSession
  <2> QED BY <2>1, <2>2
<1>16. ASSUME NEW s \in Senders, ContentLength0(s) PROVE OneCloser'
  BY <1>16, CallbackAccepts, CallbackRefused DEF ContentLength0, Http
<1>17. ASSUME NEW s \in Senders, Header204(s) PROVE OneCloser'
  BY <1>17 DEF Header204, Http
<1>18. ASSUME NEW s \in Senders, Lock204(s) PROVE OneCloser'
  <2>1. CASE bSession /\ irtc
    BY <1>18, <2>1 DEF Lock204, Http, BeginClose, CloseHttpSession
  <2>2. CASE ~(bSession /\ irtc)
    BY <1>18, <2>2 DEF Lock204, Http, BeginClose, CloseHttpSession
  <2> QED BY <2>1, <2>2
<1>19. ASSUME NEW s \in Senders, Ready204(s) PROVE OneCloser'
  BY <1>19, Ready204Effect DEF Http, Confirm
<1>20. ASSUME NEW s \in Senders, AskOnInform(s) PROVE OneCloser'
  BY <1>20, AskEffect DEF Http, Confirm
<1>21. ASSUME NEW s \in Senders, ReadyOnInform(s) PROVE OneCloser'
  BY <1>21, CallbackSends DEF ReadyOnInform, Http
<1>22. ASSUME NEW s \in Senders, LockResponse(s) PROVE OneCloser'
  BY <1>22 DEF LockResponse, Http
<1>23. ASSUME NEW s \in Senders, Response(s) PROVE OneCloser'
  BY <1>23, ResponseEffect DEF Http, Confirm
<1>24. ASSUME NEW s \in Senders, LockRpc(s) PROVE OneCloser'
  BY <1>24 DEF LockRpc, Http, Confirm
<1>25. ASSUME NEW s \in Senders, Rpc(s) PROVE OneCloser'
  BY <1>25, CallbackSends DEF Rpc, Http
<1>26. ASSUME NEW s \in Senders, ForceClose(s) PROVE OneCloser'
  BY <1>26 DEF ForceClose, Http, BeginClose, CloseHttpSession
<1>27. CASE UNCHANGED vars
  BY <1>27 DEF vars
<1> QED BY <1>1, <1>2, <1>3, <1>4, <1>5, <1>6, <1>7, <1>8, <1>9, <1>10, <1>11, <1>12, <1>13, <1>14,
     <1>15, <1>16, <1>17, <1>18, <1>19, <1>20, <1>21, <1>22, <1>23, <1>24, <1>25, <1>26, <1>27,
     CalmSplit

\* The two views of the session change in the order of _closeACSSession.
LEMMA ViewsStep ==
  ASSUME Types, Calm, CalmInv, [Next]_vars PROVE Views'
<1> USE SessionAssumption, MessagesAssumption, MessageKinds, BodyKinds
        DEF EngineFree, Threads, Goto, httpVars, comVars, engVars
<1>1. ASSUME NEW s \in Senders, NEW b \in Bodies, ReceiveBody(s, b) PROVE Views'
  <2>1. PICK p \in {"inform", "lockResponse", "lockRpc", "force", "done"} : Received(s, p)
    BY <1>1, ReceiveEffect DEF Calm, Punctual
  <2>2. /\ UNCHANGED <<beingSent, closeExpected, retryBuffer, sender, posting>>
        /\ UNCHANGED <<bSession, irtc, closingFlag, ignore204, acsMutex, engVars>>
        /\ sender[s] = "perform" /\ stage[s] = "body" /\ acsMutex = NoOwner /\ elapsed' = FALSE
    BY <1>1, ReceiveEffect DEF Calm, Punctual
  <2> QED BY <2>1, <2>2, Threading
     DEF Received, CalmInv, Positions, Owners, Closed, OneCloser, Views, Closing, Opened,
       ClosingStages, Ending
<1> USE Threading
   DEF CalmInv, Positions, Owners, Closed, OneCloser, Views, Closing, Opened, ClosingStages, Ending
<1>2. CASE ConfigureClient
  BY <1>2 DEF ConfigureClient, Configure
<1>3. CASE Inform
  BY <1>3, InformEffect
<1>4. CASE EnableSession
  BY <1>4 DEF EnableSession
<1>5. CASE SendResult
  BY <1>5, SendResultEffect
<1>6. CASE EndSession
  BY <1>6 DEF EndSession
<1>7. CASE NewResult
  BY <1>7 DEF NewResult
<1>8. CASE Elapse
  BY <1>8 DEF Elapse
<1>9. CASE Supervise
  BY ZenonT(40), <1>9 DEF Supervise, BeginClose, CloseHttpSession
<1>10. ASSUME NEW t \in Threads, ConfirmClose(t) PROVE Views'
  BY <1>10 DEF ConfirmClose, Confirm
<1>11. ASSUME NEW t \in Threads, SessionClosed(t) PROVE Views'
  BY <1>11 DEF SessionClosed
<1>12. ASSUME NEW t \in Threads, EndClose(t) PROVE Views'
  BY <1>12, EndCloseEffect
<1>13. ASSUME NEW s \in Senders, Post(s) PROVE Views'
  BY <1>13, Taken DEF Post
<1>14. ASSUME NEW s \in Senders, Posted(s) PROVE Views'
  BY ZenonT(40), <1>14, Sent DEF Posted
<1>15. ASSUME NEW s \in Senders, Header200(s) PROVE Views'
  <2>1. CASE closingFlag
    BY <1>15, <2>1 DEF Header200, Http, BeginClose, CloseHttpSession
  <2>2. CASE ~closingFlag
    BY <1>15, <2>2 DEF Header200, Http, BeginClose, CloseHttpSession
  <2> QED BY <2>1, <2>2
<1>16. ASSUME NEW s \in Senders, ContentLength0(s) PROVE Views'
  <2>1. (bSession => sched = "waiting" /\ status \in Opened)'
    BY <1>16, CallbackAccepts, CallbackRefused DEF ContentLength0, Http, Outside, Contents
  <2>2. (status \in Opened => sched = "waiting")'
    BY <1>16, CallbackAccepts, CallbackRefused DEF ContentLength0, Http, Outside, Contents
  <2>3. (\A t \in Threads : stage[t] \in Ending => ~bSession)'
    BY <1>16, CallbackAccepts, CallbackRefused DEF ContentLength0, Http, Outside, Contents
  <2>4. (Closing \/ bSession \/ status \notin Opened)'
    BY <1>16, CallbackAccepts, CallbackRefused DEF ContentLength0, Http, Outside, Contents
  <2>5. (\A q \in Senders : stage[q] \in {"ready204", "response"} => bSession)'
    BY <1>16, CallbackAccepts, CallbackRefused DEF ContentLength0, Http, Outside, Contents
  <2>6. (closingFlag => bSession)'
    BY ZenonT(40), <1>16, CallbackAccepts, CallbackRefused DEF ContentLength0, Http, Outside, Contents
  <2>7. (\A q \in Senders : stage[q] = "irtc" => bSession \/ closeExpected)'
    BY <1>16, CallbackAccepts, CallbackRefused DEF ContentLength0, Http, Outside, Contents
  <2>8. (\A t \in Threads : stage[t] \in {"confirm", "complete"} => status \in Opened)'
    BY <1>16, CallbackAccepts, CallbackRefused DEF ContentLength0, Http, Outside, Contents
  <2>9. (stage[Supervisor] = "cancel" => status \in Opened)'
    BY <1>16, CallbackAccepts, CallbackRefused DEF ContentLength0, Http, Outside, Contents
  <2>10. (sched = "informing" => \A t \in Threads : stage[t] \in Ending => acsMutex = t)'
    BY <1>16, CallbackAccepts, CallbackRefused DEF ContentLength0, Http, Outside, Contents
  <2>11. (sched = "informing" /\ closeExpected => \E q \in Senders : stage[q] = "cancel" /\ acsMutex = q)'
    BY <1>16, CallbackAccepts, CallbackRefused DEF ContentLength0, Http, Outside, Contents
  <2> QED BY <2>1, <2>2, <2>3, <2>4, <2>5, <2>6, <2>7, <2>8, <2>9, <2>10, <2>11 DEF Views
<1>17. ASSUME NEW s \in Senders, Header204(s) PROVE Views'
  BY <1>17 DEF Header204, Http
<1>18. ASSUME NEW s \in Senders, Lock204(s) PROVE Views'
  <2>1. CASE bSession /\ irtc
    BY <1>18, <2>1 DEF Lock204, Http, BeginClose, CloseHttpSession
  <2>2. CASE ~(bSession /\ irtc)
    BY <1>18, <2>2 DEF Lock204, Http, BeginClose, CloseHttpSession
  <2> QED BY <2>1, <2>2
<1>19. ASSUME NEW s \in Senders, Ready204(s) PROVE Views'
  BY <1>19, Ready204Effect DEF Http, Confirm
<1>20. ASSUME NEW s \in Senders, AskOnInform(s) PROVE Views'
  <2>1. (bSession => sched = "waiting" /\ status \in Opened)'
    BY <1>20, AskEffect DEF Http, Confirm, Outside, Contents
  <2>2. (status \in Opened => sched = "waiting")'
    BY <1>20, AskEffect DEF Http, Confirm, Outside, Contents
  <2>3. (\A t \in Threads : stage[t] \in Ending => ~bSession)'
    BY <1>20, AskEffect DEF Http, Confirm, Outside, Contents
  <2>4. (Closing \/ bSession \/ status \notin Opened)'
    BY <1>20, AskEffect DEF Http, Confirm, Outside, Contents
  <2>5. (\A q \in Senders : stage[q] \in {"ready204", "response"} => bSession)'
    BY <1>20, AskEffect DEF Http, Confirm, Outside, Contents
  <2>6. (closingFlag => bSession)'
    BY <1>20, AskEffect DEF Http, Confirm, Outside, Contents
  <2>7. (\A q \in Senders : stage[q] = "irtc" => bSession \/ closeExpected)'
    <3>1. bSession \/ closeExpected
      BY ZenonT(40), <1>20, AskEffect, Threading DEF Http, Outside, Contents
    <3> QED BY <1>20, <3>1, AskEffect
  <2>8. (\A t \in Threads : stage[t] \in {"confirm", "complete"} => status \in Opened)'
    BY <1>20, AskEffect DEF Http, Confirm, Outside, Contents
  <2>9. (stage[Supervisor] = "cancel" => status \in Opened)'
    BY <1>20, AskEffect DEF Http, Confirm, Outside, Contents
  <2>10. (sched = "informing" => \A t \in Threads : stage[t] \in Ending => acsMutex = t)'
    BY <1>20, AskEffect DEF Http, Confirm, Outside, Contents
  <2>11. (sched = "informing" /\ closeExpected => \E q \in Senders : stage[q] = "cancel" /\ acsMutex = q)'
    BY <1>20, AskEffect DEF Http, Confirm, Outside, Contents
  <2> QED BY <2>1, <2>2, <2>3, <2>4, <2>5, <2>6, <2>7, <2>8, <2>9, <2>10, <2>11 DEF Views
<1>21. ASSUME NEW s \in Senders, ReadyOnInform(s) PROVE Views'
  BY <1>21, CallbackSends DEF ReadyOnInform, Http
<1>22. ASSUME NEW s \in Senders, LockResponse(s) PROVE Views'
  BY <1>22 DEF LockResponse, Http
<1>23. ASSUME NEW s \in Senders, Response(s) PROVE Views'
  BY <1>23, ResponseEffect DEF Http, Confirm
<1>24. ASSUME NEW s \in Senders, LockRpc(s) PROVE Views'
  BY <1>24 DEF LockRpc, Http, Confirm
<1>25. ASSUME NEW s \in Senders, Rpc(s) PROVE Views'
  BY <1>25, CallbackSends DEF Rpc, Http
<1>26. ASSUME NEW s \in Senders, ForceClose(s) PROVE Views'
  BY <1>26 DEF ForceClose, Http, BeginClose, CloseHttpSession
<1>27. CASE UNCHANGED vars
  BY <1>27 DEF vars
<1> QED BY <1>1, <1>2, <1>3, <1>4, <1>5, <1>6, <1>7, <1>8, <1>9, <1>10, <1>11, <1>12, <1>13, <1>14,
     <1>15, <1>16, <1>17, <1>18, <1>19, <1>20, <1>21, <1>22, <1>23, <1>24, <1>25, <1>26, <1>27,
     CalmSplit

\* Outside a session a callback has nothing to send.
LEMMA OutsideStep ==
  ASSUME Types, Calm, CalmInv, [Next]_vars PROVE Outside'
<1> USE SessionAssumption, MessagesAssumption, MessageKinds, BodyKinds
        DEF EngineFree, Threads, Goto, httpVars, comVars, engVars
<1>1. ASSUME NEW s \in Senders, Posted(s) PROVE Outside'
  <2>1. CASE beingSent' = NoMessage
    BY <2>1 DEF Outside
  <2>2. CASE beingSent' # NoMessage
    BY <1>1, <2>2, PostedEffect, PostedNext DEF CalmInv, Outside
  <2> QED BY <2>1, <2>2
<1>2. ASSUME NEW s \in Senders, Rpc(s) PROVE Outside'
  <2>1. bSession \/ closeExpected
    BY <1>2, Threading DEF Rpc, Http, CalmInv, Positions, Outside, Contents
  <2>2. UNCHANGED <<bSession, closeExpected>>
    BY <1>2, Threading, CallbackSends DEF Rpc, Http
  <2> QED BY <2>1, <2>2 DEF Outside
<1>3. ASSUME NEW s \in Senders, NEW b \in Bodies, ReceiveBody(s, b) PROVE Outside'
  <2>1. PICK p \in {"inform", "lockResponse", "lockRpc", "force", "done"} : Received(s, p)
    BY <1>3, ReceiveEffect DEF Calm, Punctual
  <2>2. /\ UNCHANGED <<beingSent, closeExpected, retryBuffer, sender, posting>>
        /\ UNCHANGED <<bSession, irtc, closingFlag, ignore204, acsMutex, engVars>>
        /\ sender[s] = "perform" /\ stage[s] = "body" /\ acsMutex = NoOwner /\ elapsed' = FALSE
    BY <1>3, ReceiveEffect DEF Calm, Punctual
  <2> QED BY <2>1, <2>2, Threading, PendingAppend, PendingEmpty, PendingKept
     DEF Received, CalmInv, Positions, Owners, Closed, OneCloser, Views, Outside, Contents, Closing,
       Opened, ClosingStages, Ending
<1> USE Threading, PendingAppend, PendingEmpty, PendingKept
   DEF CalmInv, Positions, Owners, Closed, OneCloser, Views, Outside, Contents, Closing, Opened,
     ClosingStages, Ending
<1>4. CASE ConfigureClient
  BY <1>4 DEF ConfigureClient, Configure
<1>5. CASE Inform
  BY SMTT(30), <1>5, InformEffect
<1>6. CASE EnableSession
  BY <1>6 DEF EnableSession
<1>7. CASE SendResult
  BY ZenonT(40), <1>7, SendResultEffect
<1>8. CASE EndSession
  BY <1>8 DEF EndSession
<1>9. CASE NewResult
  BY <1>9 DEF NewResult
<1>10. CASE Elapse
  BY <1>10 DEF Elapse
<1>11. CASE Supervise
  BY <1>11 DEF Supervise, BeginClose, CloseHttpSession
<1>12. ASSUME NEW t \in Threads, ConfirmClose(t) PROVE Outside'
  BY <1>12 DEF ConfirmClose, Confirm
<1>13. ASSUME NEW t \in Threads, SessionClosed(t) PROVE Outside'
  BY <1>13 DEF SessionClosed
<1>14. ASSUME NEW t \in Threads, EndClose(t) PROVE Outside'
  BY ZenonT(40), <1>14, EndCloseEffect
<1>15. ASSUME NEW s \in Senders, Post(s) PROVE Outside'
  BY <1>15, Taken DEF Post
<1>16. ASSUME NEW s \in Senders, Header200(s) PROVE Outside'
  <2>1. CASE closingFlag
    BY <1>16, <2>1 DEF Header200, Http, BeginClose, CloseHttpSession
  <2>2. CASE ~closingFlag
    BY <1>16, <2>2 DEF Header200, Http, BeginClose, CloseHttpSession
  <2> QED BY <2>1, <2>2
<1>17. ASSUME NEW s \in Senders, ContentLength0(s) PROVE Outside'
  BY ZenonT(40), <1>17, CallbackAccepts, CallbackRefused DEF ContentLength0, Http
<1>18. ASSUME NEW s \in Senders, Header204(s) PROVE Outside'
  BY <1>18 DEF Header204, Http
<1>19. ASSUME NEW s \in Senders, Lock204(s) PROVE Outside'
  <2>1. CASE bSession /\ irtc
    BY <1>19, <2>1 DEF Lock204, Http, BeginClose, CloseHttpSession
  <2>2. CASE ~(bSession /\ irtc)
    BY ZenonT(40), <1>19, <2>2 DEF Lock204, Http, BeginClose, CloseHttpSession
  <2> QED BY <2>1, <2>2
<1>20. ASSUME NEW s \in Senders, Ready204(s) PROVE Outside'
  BY <1>20, Ready204Effect DEF Http, Confirm
<1>21. ASSUME NEW s \in Senders, AskOnInform(s) PROVE Outside'
  BY <1>21, AskEffect DEF Http, Confirm
<1>22. ASSUME NEW s \in Senders, ReadyOnInform(s) PROVE Outside'
  BY <1>22, CallbackSends DEF ReadyOnInform, Http
<1>23. ASSUME NEW s \in Senders, LockResponse(s) PROVE Outside'
  BY <1>23 DEF LockResponse, Http
<1>24. ASSUME NEW s \in Senders, Response(s) PROVE Outside'
  BY <1>24, ResponseEffect DEF Http, Confirm
<1>25. ASSUME NEW s \in Senders, LockRpc(s) PROVE Outside'
  BY <1>25 DEF LockRpc, Http, Confirm
<1>26. ASSUME NEW s \in Senders, ForceClose(s) PROVE Outside'
  BY <1>26 DEF ForceClose, Http, BeginClose, CloseHttpSession
<1>27. CASE UNCHANGED vars
  BY <1>27 DEF vars
<1> QED BY <1>1, <1>2, <1>3, <1>4, <1>5, <1>6, <1>7, <1>8, <1>9, <1>10, <1>11, <1>12, <1>13, <1>14,
     <1>15, <1>16, <1>17, <1>18, <1>19, <1>20, <1>21, <1>22, <1>23, <1>24, <1>25, <1>26, <1>27,
     CalmSplit

-----------------------------------------------------------------------------
(* Theorems, for any ACS *)

\* Nothing has been posted, and there is no session.
LEMMA AtStart == Init => Types /\ CalmInv /\ PunctualInv
<1> USE SessionAssumption, MessagesAssumption, MessageKinds DEF Init, HttpInit, Threads
<1> SUFFICES ASSUME Init PROVE Types /\ CalmInv /\ PunctualInv
  OBVIOUS
<1>1. Types
  BY EmptySeq DEF Types, HttpInv, TypeOK, Busy, Manned, OneSender, SessionTypeOK, Stages, Opened
<1>2. CalmInv
  BY DEF CalmInv, Positions, Owners, Closed, OneCloser, Views, Outside, ClosingStages, Ending,
       Closing, Opened
<1>3. PunctualInv
  BY DEF PunctualInv, Elapsed, Supervised, Ready, InformInTime, NoInformLate, Chain, InformFirst,
       Polite,
         RpcLocked, Alive, ClosingStages, Ending
<1> QED BY <1>1, <1>2, <1>3

\* Every variable of the session keeps its type: in particular the number of
\* results to send never goes below zero, however often the engine confirms one.
THEOREM SessionTypeCorrect == Spec => []SessionTypeOK
<1>1. Types => SessionTypeOK
  BY DEF Types
<1> QED BY <1>1, AtStart, TypesStep, PTL DEF Spec

\* The session uses the HTTP client as its clients do.
LEMMA UsesClient == Spec => HttpSpec
<1>1. Init => HttpInit
  BY DEF Init
<1>2. Types /\ [Next]_vars => [HttpNext]_httpVars
  BY ClientStep DEF Types, HttpInv
<1> QED BY <1>1, <1>2, AtStart, TypesStep, PTL DEF Spec, HttpSpec

\* In the whole system too a close of the HTTP session that is expected is never stuck.
THEOREM SessionCloseIsPending == Spec => []CloseIsPending
BY UsesClient, CloseIsNeverStuck, PTL

\* In the whole system the HTTP client is to the session what HttpSession promises.
THEOREM SessionImplementsSession == Spec => ImplementsSession
BY UsesClient, Refinement, SessionAssumption, PTL

-----------------------------------------------------------------------------
(* Theorems, for a calm ACS *)

\* The first level is an invariant of its own.
LEMMA CalmStep == ASSUME Calm PROVE Types /\ CalmInv /\ [Next]_vars => CalmInv'
BY PositionsStep, OwnersStep, ClosedStep, OneCloserStep, ViewsStep, OutsideStep DEF CalmInv

\* It holds of every state.
LEMMA CalmAlways == ASSUME Calm PROVE Spec => [](Types /\ CalmInv)
BY AtStart, TypesStep, CalmStep, PTL DEF Spec

\* What bSession tells the HTTP server and the supervisor is what the scheduler
\* waits for, except while a thread is between the two in _closeACSSession.
THEOREM ViewsAgree == ASSUME Calm PROVE Spec => []SessionAgreement
<1>1. Types /\ CalmInv => SessionAgreement
  BY DEF CalmInv, Views, SessionAgreement, Types, SessionTypeOK
<1> QED BY <1>1, CalmAlways, PTL

\* The scheduler, holding schedulerMutex, never waits for mutexAcsSession while its
\* owner waits for schedulerMutex: an ACS that sends no faults cannot cause it.
THEOREM NoCircularWait == ASSUME Calm, "Fault" \notin Bodies PROVE Spec => []NoLockCycle
<1>1. Types /\ CalmInv => NoLockCycle
  BY SessionAssumption
     DEF CalmInv, Positions, Owners, Views, NoLockCycle, Types, SessionTypeOK, Threads
<1> QED BY <1>1, CalmAlways, PTL

-----------------------------------------------------------------------------
(* The steps of the system, for a punctual ACS *)

\* What keeps a session that was ready to be closed so: a step of one thread that
\* neither begins nor ends a close.
LEMMA ReadyKept ==
  ASSUME Types, Ready, NEW t \in Threads, NEW p \in Stages, stage' = [stage EXCEPT ![t] = p],
         p # "ready204", p \in Ending <=> stage[t] \in Ending,
         p = "irtc" => bSession /\ results' = 0 /\ ~sending',
         p \in {"confirm", "complete"} => results' = 0 /\ ~sending',
         results = 0 /\ ~sending => results' = 0 /\ ~sending',
         closingFlag /\ t \in Senders => p \in {"wait", "done", "lock204"},
         UNCHANGED <<irtc, bSession, closingFlag, acsMutex, beingSent>>
  PROVE  Ready'
<1>1. \A u \in Threads : stage'[u] = IF u = t THEN p ELSE stage[u]
  BY Threading
<1>2. \A u \in Threads : stage'[u] \in Ending <=> stage[u] \in Ending
  BY <1>1
<1>3. Senders \subseteq Threads
  BY DEF Threads
<1>4. (irtc => bSession \/ \E u \in Threads : stage[u] \in Ending)'
  BY <1>2 DEF Ready
<1>5. (irtc /\ bSession => results = 0 /\ ~sending)' /\ (closingFlag => irtc)'
  BY DEF Ready
<1>6. (\A s \in Senders : stage[s] = "irtc" => bSession /\ results = 0 /\ ~sending)'
  BY <1>1, <1>3 DEF Ready
<1>7. (\A s \in Senders : stage[s] = "ready204" => ~irtc)'
  BY <1>1, <1>3 DEF Ready
<1>8. (\A u \in Threads : stage[u] \in {"confirm", "complete"} => results = 0 /\ ~sending)'
  BY <1>1 DEF Ready
<1>9. (closingFlag => \A s \in Senders : stage[s] \in {"wait", "done", "lock204"})'
  BY <1>1, <1>3 DEF Ready
<1>10. (\A s \in Senders : stage[s] \in Ending /\ acsMutex # s => beingSent # "inform")'
  BY <1>2, <1>3 DEF Ready
<1> QED BY <1>4, <1>5, <1>6, <1>7, <1>8, <1>9, <1>10 DEF Ready

\* What the engine said it was ready for stays true: it starts no request then.
LEMMA ReadyStep ==
  ASSUME Types, Punctual, CalmInv, PunctualInv, [Next]_vars PROVE Ready'
<1> USE SessionAssumption, MessagesAssumption, MessageKinds, BodyKinds
        DEF EngineFree, Threads, Goto, httpVars, comVars, engVars
<1>1. ASSUME NEW s \in Senders, Ready204(s) PROVE Ready'
  <2>1. (irtc => bSession \/ \E t \in Threads : stage[t] \in Ending)'
    BY <1>1, Ready204Effect, Threading
       DEF Http, Confirm, Alive, PunctualInv, CalmInv, Positions, Owners, Closed, OneCloser, Views,
         Closing, Opened, ClosingStages, Ending, Ready, Outside, Contents, Elapsed, InformInTime,
         NoInformLate
  <2>2. (irtc /\ bSession => results = 0 /\ ~sending)'
    BY <1>1, Ready204Effect, Threading
       DEF Http, Confirm, Alive, PunctualInv, CalmInv, Positions, Owners, Closed, OneCloser, Views,
         Closing, Opened, ClosingStages, Ending, Ready, Outside, Contents, Elapsed, InformInTime,
         NoInformLate
  <2>3. (closingFlag => irtc)'
    BY ZenonT(40), <1>1, Ready204Effect, Threading
       DEF Http, Confirm, Alive, PunctualInv, CalmInv, Positions, Owners, Closed, OneCloser, Views,
         Closing, Opened, ClosingStages, Ending, Ready, Outside, Contents, Elapsed, InformInTime,
         NoInformLate
  <2>4. (\A q \in Senders : stage[q] = "irtc" => bSession /\ results = 0 /\ ~sending)'
    BY <1>1, Ready204Effect, Threading
       DEF Http, Confirm, Alive, PunctualInv, CalmInv, Positions, Owners, Closed, OneCloser, Views,
         Closing, Opened, ClosingStages, Ending, Ready, Outside, Contents, Elapsed, InformInTime,
         NoInformLate
  <2>5. (\A q \in Senders : stage[q] = "ready204" => ~irtc)'
    BY <1>1, Ready204Effect, Threading
       DEF Http, Confirm, Alive, PunctualInv, CalmInv, Positions, Owners, Closed, OneCloser, Views,
         Closing, Opened, ClosingStages, Ending, Ready, Outside, Contents, Elapsed, InformInTime,
         NoInformLate
  <2>6. (\A t \in Threads : stage[t] \in {"confirm", "complete"} => results = 0 /\ ~sending)'
    BY <1>1, Ready204Effect, Threading
       DEF Http, Confirm, Alive, PunctualInv, CalmInv, Positions, Owners, Closed, OneCloser, Views,
         Closing, Opened, ClosingStages, Ending, Ready, Outside, Contents, Elapsed, InformInTime,
         NoInformLate
  <2>7. (closingFlag => \A q \in Senders : stage[q] \in {"wait", "done", "lock204"})'
    <3>1. \A u \in Senders : u # s => stage[u] = "wait"
      BY <1>1, Threading, Ready204Effect DEF Http, CalmInv, Positions
    <3>2. stage' = [stage EXCEPT ![s] = "done"]
      BY <1>1, Ready204Effect
    <3> QED BY <3>1, <3>2, Threading
  <2>8. (\A q \in Senders : stage[q] \in Ending /\ acsMutex # q => beingSent # "inform")'
    BY <1>1, Ready204Effect, Threading
       DEF Http, Confirm, Alive, PunctualInv, CalmInv, Positions, Owners, Closed, OneCloser, Views,
         Closing, Opened, ClosingStages, Ending, Ready, Outside, Contents, Elapsed, InformInTime,
         NoInformLate
  <2> QED BY <2>1, <2>2, <2>3, <2>4, <2>5, <2>6, <2>7, <2>8 DEF Ready
<1>2. ASSUME NEW s \in Senders, NEW b \in Bodies, ReceiveBody(s, b) PROVE Ready'
  <2>1. PICK p \in {"inform", "lockResponse", "lockRpc", "force", "done"} : Received(s, p)
    BY <1>2, ReceiveEffect DEF Calm, Punctual
  <2>2. /\ UNCHANGED <<beingSent, closeExpected, retryBuffer, sender, posting>>
        /\ UNCHANGED <<bSession, irtc, closingFlag, ignore204, acsMutex, engVars>>
        /\ sender[s] = "perform" /\ stage[s] = "body" /\ acsMutex = NoOwner /\ elapsed' = FALSE
    BY <1>2, ReceiveEffect DEF Calm, Punctual
  <2> QED BY <2>1, <2>2, Threading
     DEF Received, Alive, PunctualInv, CalmInv, Positions, Owners, Closed, OneCloser, Views,
       Closing, Opened, ClosingStages, Ending, Ready, Outside, Contents, Elapsed, InformInTime,
       NoInformLate
<1>11. ASSUME NEW t \in Threads, ConfirmClose(t) PROVE Ready'
  <2>1. stage[t] = "confirm" /\ stage' = [stage EXCEPT ![t] = "complete"]
    BY <1>11 DEF ConfirmClose
  <2>2. results = 0 /\ ~sending /\ results' = 0 /\ ~sending'
    BY <1>11, <2>1 DEF ConfirmClose, Confirm, PunctualInv, Ready
  <2>3. closingFlag => t \notin Senders
    BY <2>1 DEF PunctualInv, Ready
  <2>4. UNCHANGED <<irtc, bSession, closingFlag, acsMutex, beingSent>> /\ Ready
    BY <1>11 DEF ConfirmClose, PunctualInv
  <2> QED BY <2>1, <2>2, <2>3, <2>4, ReadyKept DEF Ending, ClosingStages, Stages
<1>20. ASSUME NEW s \in Senders, AskOnInform(s) PROVE Ready'
  <2>1. stage[s] = "inform" /\ sender[s] = "perform" /\ sched # "informing"
    BY <1>20, AskEffect DEF Http
  <2>2. bSession /\ status \in Opened
    BY <2>1, Threading DEF PunctualInv, InformInTime, Alive, CalmInv, Positions, Views
  <2>3. ~closingFlag
    BY <2>1 DEF PunctualInv, Ready
  <2>4. UNCHANGED <<irtc, bSession, closingFlag, acsMutex, beingSent>> /\ Ready
    BY <1>20, AskEffect DEF PunctualInv
  <2>5. results = 0 /\ ~sending => results' = 0 /\ ~sending'
    BY <1>20, AskEffect DEF Confirm
  <2>6. CASE stage' = [stage EXCEPT ![s] = "irtc"] /\ results' = 0 /\ ~sending'
    BY <2>1, <2>2, <2>3, <2>4, <2>5, <2>6, ReadyKept DEF Ending, ClosingStages, Stages
  <2>7. CASE stage' = [stage EXCEPT ![s] = "done"]
    BY <2>1, <2>3, <2>4, <2>5, <2>7, ReadyKept DEF Ending, ClosingStages, Stages
  <2> QED BY <1>20, <2>2, <2>6, <2>7, AskEffect
<1>24. ASSUME NEW s \in Senders, LockRpc(s) PROVE Ready'
  <2>1. stage[s] = "lockRpc" /\ stage' = [stage EXCEPT ![s] = "rpc"]
    BY <1>24 DEF LockRpc, Http
  <2>2. ~closingFlag
    BY <2>1 DEF PunctualInv, Ready
  <2>3. UNCHANGED <<irtc, bSession, closingFlag, acsMutex, beingSent>> /\ Ready
    BY <1>24 DEF LockRpc, PunctualInv
  <2>4. results = 0 /\ ~sending => results' = 0 /\ ~sending'
    BY <1>24 DEF LockRpc, Confirm
  <2> QED BY <2>1, <2>2, <2>3, <2>4, ReadyKept DEF Ending, ClosingStages, Stages
<1>28. ASSUME NEW s \in Senders, Response(s)
       PROVE  (closingFlag => \A q \in Senders : stage[q] \in {"wait", "done", "lock204"})'
  <2>1. stage[s] = "response" /\ UNCHANGED closingFlag
    BY <1>28, ResponseEffect DEF Http
  <2> QED BY <2>1 DEF PunctualInv, Ready
<1> USE Threading
   DEF Alive, PunctualInv, CalmInv, Positions, Owners, Closed, OneCloser, Views, Closing, Opened,
     ClosingStages, Ending, Ready, Outside, Contents, Elapsed, InformInTime, NoInformLate
<1>3. CASE ConfigureClient
  BY <1>3 DEF ConfigureClient, Configure
<1>4. CASE Inform
  BY <1>4, InformEffect
<1>5. CASE EnableSession
  BY <1>5 DEF EnableSession
<1>6. CASE SendResult
  BY <1>6, SendResultEffect
<1>7. CASE EndSession
  BY <1>7 DEF EndSession
<1>8. CASE NewResult
  BY <1>8 DEF NewResult
<1>9. CASE Elapse
  BY <1>9 DEF Elapse
<1>10. CASE Supervise
  BY <1>10 DEF Supervise, BeginClose, CloseHttpSession
<1>12. ASSUME NEW t \in Threads, SessionClosed(t) PROVE Ready'
  BY <1>12 DEF SessionClosed
<1>13. ASSUME NEW t \in Threads, EndClose(t) PROVE Ready'
  BY <1>13, EndCloseEffect
<1>14. ASSUME NEW s \in Senders, Post(s) PROVE Ready'
  BY <1>14, Taken DEF Post
<1>15. ASSUME NEW s \in Senders, Posted(s) PROVE Ready'
  <2>1. (irtc => bSession \/ \E t \in Threads : stage[t] \in Ending)'
    BY <1>15, Sent DEF Posted
  <2>2. (irtc /\ bSession => results = 0 /\ ~sending)'
    BY <1>15, Sent DEF Posted
  <2>3. (closingFlag => irtc)'
    BY <1>15, Sent DEF Posted
  <2>4. (\A q \in Senders : stage[q] = "irtc" => bSession /\ results = 0 /\ ~sending)'
    BY <1>15, Sent DEF Posted
  <2>5. (\A q \in Senders : stage[q] = "ready204" => ~irtc)'
    BY <1>15, Sent DEF Posted
  <2>6. (\A t \in Threads : stage[t] \in {"confirm", "complete"} => results = 0 /\ ~sending)'
    BY <1>15, Sent DEF Posted
  <2>7. (closingFlag => \A q \in Senders : stage[q] \in {"wait", "done", "lock204"})'
    BY <1>15, Sent DEF Posted
  <2>8. (\A q \in Senders : stage[q] \in Ending /\ acsMutex # q => beingSent # "inform")'
    BY ZenonT(40), <1>15, Sent DEF Posted
  <2> QED BY <2>1, <2>2, <2>3, <2>4, <2>5, <2>6, <2>7, <2>8 DEF Ready
<1>16. ASSUME NEW s \in Senders, Header200(s) PROVE Ready'
  <2>1. CASE closingFlag
    BY <1>16, <2>1 DEF Header200, Http, BeginClose, CloseHttpSession
  <2>2. CASE ~closingFlag
    BY <1>16, <2>2 DEF Header200, Http, BeginClose, CloseHttpSession
  <2> QED BY <2>1, <2>2
<1>17. ASSUME NEW s \in Senders, ContentLength0(s) PROVE Ready'
  BY <1>17, CallbackAccepts, CallbackRefused DEF ContentLength0, Http
<1>18. ASSUME NEW s \in Senders, Header204(s) PROVE Ready'
  BY <1>18 DEF Header204, Http
<1>19. ASSUME NEW s \in Senders, Lock204(s) PROVE Ready'
  <2>1. CASE bSession /\ irtc
    BY <1>19, <2>1 DEF Lock204, Http, BeginClose, CloseHttpSession
  <2>2. CASE ~(bSession /\ irtc)
    BY <1>19, <2>2 DEF Lock204, Http, BeginClose, CloseHttpSession
  <2> QED BY <2>1, <2>2
<1>21. ASSUME NEW s \in Senders, ReadyOnInform(s) PROVE Ready'
  BY <1>21, CallbackSends DEF ReadyOnInform, Http
<1>22. ASSUME NEW s \in Senders, LockResponse(s) PROVE Ready'
  BY <1>22 DEF LockResponse, Http
<1>23. ASSUME NEW s \in Senders, Response(s) PROVE Ready'
  <2>1. (irtc => bSession \/ \E t \in Threads : stage[t] \in Ending)'
    BY <1>23, ResponseEffect DEF Http, Confirm
  <2>2. (irtc /\ bSession => results = 0 /\ ~sending)'
    BY <1>23, ResponseEffect DEF Http, Confirm
  <2>3. (closingFlag => irtc)'
    BY <1>23, ResponseEffect DEF Http, Confirm
  <2>4. (\A q \in Senders : stage[q] = "irtc" => bSession /\ results = 0 /\ ~sending)'
    BY <1>23, ResponseEffect DEF Http, Confirm
  <2>5. (\A q \in Senders : stage[q] = "ready204" => ~irtc)'
    BY <1>23, ResponseEffect DEF Http, Confirm
  <2>6. (\A t \in Threads : stage[t] \in {"confirm", "complete"} => results = 0 /\ ~sending)'
    BY <1>23, ResponseEffect DEF Http, Confirm
  <2>7. (closingFlag => \A q \in Senders : stage[q] \in {"wait", "done", "lock204"})'
    BY <1>23, <1>28
  <2>8. (\A q \in Senders : stage[q] \in Ending /\ acsMutex # q => beingSent # "inform")'
    BY <1>23, ResponseEffect DEF Http, Confirm
  <2> QED BY <2>1, <2>2, <2>3, <2>4, <2>5, <2>6, <2>7, <2>8 DEF Ready
<1>25. ASSUME NEW s \in Senders, Rpc(s) PROVE Ready'
  BY <1>25, CallbackSends DEF Rpc, Http
<1>26. ASSUME NEW s \in Senders, ForceClose(s) PROVE Ready'
  BY <1>26 DEF ForceClose, Http, BeginClose, CloseHttpSession
<1>27. CASE UNCHANGED vars
  BY <1>27 DEF vars
<1> QED BY <1>1, <1>2, <1>3, <1>4, <1>5, <1>6, <1>7, <1>8, <1>9, <1>10, <1>11, <1>12, <1>13, <1>14,
     <1>15, <1>16, <1>17, <1>18, <1>19, <1>20, <1>21, <1>22, <1>23, <1>24, <1>25, <1>26, <1>27,
     CalmSplit DEF Punctual

\* An RPC of a session ends before the supervisor may close the session.
LEMMA RpcLockedStep ==
  ASSUME Types, Punctual, CalmInv, PunctualInv, [Next]_vars PROVE RpcLocked'
<1> USE SessionAssumption, MessagesAssumption, MessageKinds, BodyKinds
        DEF EngineFree, Threads, Goto, httpVars, comVars, engVars
<1>1. ASSUME NEW s \in Senders, LockRpc(s) PROVE RpcLocked'
  <2>1. stage[s] = "lockRpc" /\ stage' = [stage EXCEPT ![s] = "rpc"] /\ UNCHANGED bSession
        /\ (~rpcLock' => status \in Opened) /\ sched # "informing" /\ sender[s] = "perform"
    BY <1>1 DEF LockRpc, Http, Confirm
  <2>2. beingSent \notin {"request", "inform"} /\ beingSent # NoMessage
    BY <2>1, Threading DEF CalmInv, Positions
  <2>3. status \in Opened => bSession
    <3>1. \A t \in Senders : stage[t] \notin Ending
      BY <2>1, Threading DEF CalmInv, Positions, Ending, ClosingStages
    <3>2. stage[Supervisor] \notin {"confirm", "complete", "cancel"}
      BY <2>2 DEF PunctualInv, Supervised, CalmInv, Positions, Contents
    <3> QED BY <3>1, <3>2 DEF CalmInv, Views, Closing, Ending, ClosingStages
  <2>4. \A u \in Senders : u # s => stage'[u] # "rpc"
    BY <2>1, Threading DEF CalmInv, Positions
  <2> QED BY <2>1, <2>3, <2>4 DEF RpcLocked
<1>2. ASSUME NEW s \in Senders, NEW b \in Bodies, ReceiveBody(s, b) PROVE RpcLocked'
  <2>1. PICK p \in {"inform", "lockResponse", "lockRpc", "force", "done"} : Received(s, p)
    BY <1>2, ReceiveEffect DEF Calm, Punctual
  <2>2. /\ UNCHANGED <<beingSent, closeExpected, retryBuffer, sender, posting>>
        /\ UNCHANGED <<bSession, irtc, closingFlag, ignore204, acsMutex, engVars>>
        /\ sender[s] = "perform" /\ stage[s] = "body" /\ acsMutex = NoOwner /\ elapsed' = FALSE
    BY <1>2, ReceiveEffect DEF Calm, Punctual
  <2> QED BY <2>1, <2>2, Threading
     DEF Received, Alive, PunctualInv, CalmInv, Positions, Owners, Closed, OneCloser, Views,
       Closing, Opened, ClosingStages, Ending, RpcLocked, Elapsed, Supervised, Contents
<1> USE Threading
   DEF Alive, PunctualInv, CalmInv, Positions, Owners, Closed, OneCloser, Views, Closing, Opened,
     ClosingStages, Ending, RpcLocked, Elapsed, Supervised, Contents
<1>3. CASE ConfigureClient
  BY <1>3 DEF ConfigureClient, Configure
<1>4. CASE Inform
  BY <1>4, InformEffect
<1>5. CASE EnableSession
  BY <1>5 DEF EnableSession
<1>6. CASE SendResult
  BY <1>6, SendResultEffect
<1>7. CASE EndSession
  BY <1>7 DEF EndSession
<1>8. CASE NewResult
  BY <1>8 DEF NewResult
<1>9. CASE Elapse
  BY <1>9 DEF Elapse
<1>10. CASE Supervise
  BY <1>10 DEF Supervise, BeginClose, CloseHttpSession
<1>11. ASSUME NEW t \in Threads, ConfirmClose(t) PROVE RpcLocked'
  BY <1>11 DEF ConfirmClose, Confirm
<1>12. ASSUME NEW t \in Threads, SessionClosed(t) PROVE RpcLocked'
  BY <1>12 DEF SessionClosed
<1>13. ASSUME NEW t \in Threads, EndClose(t) PROVE RpcLocked'
  BY <1>13, EndCloseEffect
<1>14. ASSUME NEW s \in Senders, Post(s) PROVE RpcLocked'
  BY <1>14, Taken DEF Post
<1>15. ASSUME NEW s \in Senders, Posted(s) PROVE RpcLocked'
  BY <1>15, Sent DEF Posted
<1>16. ASSUME NEW s \in Senders, Header200(s) PROVE RpcLocked'
  <2>1. CASE closingFlag
    BY <1>16, <2>1 DEF Header200, Http, BeginClose, CloseHttpSession
  <2>2. CASE ~closingFlag
    BY <1>16, <2>2 DEF Header200, Http, BeginClose, CloseHttpSession
  <2> QED BY <2>1, <2>2
<1>17. ASSUME NEW s \in Senders, ContentLength0(s) PROVE RpcLocked'
  BY <1>17, CallbackAccepts, CallbackRefused DEF ContentLength0, Http
<1>18. ASSUME NEW s \in Senders, Header204(s) PROVE RpcLocked'
  BY <1>18 DEF Header204, Http
<1>19. ASSUME NEW s \in Senders, Lock204(s) PROVE RpcLocked'
  <2>1. CASE bSession /\ irtc
    BY <1>19, <2>1 DEF Lock204, Http, BeginClose, CloseHttpSession
  <2>2. CASE ~(bSession /\ irtc)
    BY <1>19, <2>2 DEF Lock204, Http, BeginClose, CloseHttpSession
  <2> QED BY <2>1, <2>2
<1>20. ASSUME NEW s \in Senders, Ready204(s) PROVE RpcLocked'
  BY <1>20, Ready204Effect DEF Http, Confirm
<1>21. ASSUME NEW s \in Senders, AskOnInform(s) PROVE RpcLocked'
  BY <1>21, AskEffect DEF Http, Confirm
<1>22. ASSUME NEW s \in Senders, ReadyOnInform(s) PROVE RpcLocked'
  BY <1>22, CallbackSends DEF ReadyOnInform, Http
<1>23. ASSUME NEW s \in Senders, LockResponse(s) PROVE RpcLocked'
  BY <1>23 DEF LockResponse, Http
<1>24. ASSUME NEW s \in Senders, Response(s) PROVE RpcLocked'
  BY <1>24, ResponseEffect DEF Http, Confirm
<1>25. ASSUME NEW s \in Senders, Rpc(s) PROVE RpcLocked'
  BY <1>25, CallbackSends DEF Rpc, Http
<1>26. ASSUME NEW s \in Senders, ForceClose(s) PROVE RpcLocked'
  BY <1>26 DEF ForceClose, Http, BeginClose, CloseHttpSession
<1>27. CASE UNCHANGED vars
  BY <1>27 DEF vars
<1> QED BY <1>1, <1>2, <1>3, <1>4, <1>5, <1>6, <1>7, <1>8, <1>9, <1>10, <1>11, <1>12, <1>13, <1>14,
     <1>15, <1>16, <1>17, <1>18, <1>19, <1>20, <1>21, <1>22, <1>23, <1>24, <1>25, <1>26, <1>27,
     CalmSplit DEF Punctual

\* A thread in a callback of the engine shows that the session has not timed out.
LEMMA ElapsedKept ==
  ASSUME Elapsed, NEW s \in Senders, sender[s] = "perform", stage[s] \notin {"wait", "body"},
         UNCHANGED <<elapsed, bSession>>
  PROVE  Elapsed'
BY DEF Elapsed, Alive

\* A session times out when nobody is left to be answered.
LEMMA ElapsedStep ==
  ASSUME Types, Punctual, CalmInv, PunctualInv, [Next]_vars PROVE Elapsed'
<1> USE SessionAssumption, MessagesAssumption, MessageKinds, BodyKinds
        DEF EngineFree, Threads, Goto, httpVars, comVars, engVars
<1>1. CASE SendResult
  <2>1. PendingMessages' \subseteq PendingMessages \cup {"request"}
    BY <1>1, Threading, SendResultEffect, PendingAppend, PendingEmpty, PendingKept
  <2>2. CASE beingSent # NoMessage
    BY <1>1, <2>1, <2>2, Threading, SendResultEffect DEF PunctualInv, Elapsed, Contents, Alive
  <2>3. CASE beingSent = NoMessage
    <3>1. \A u \in Senders : stage'[u] = "wait"
      BY <1>1, <2>3, Threading, SendResultEffect DEF CalmInv, Positions
    <3>2. UNCHANGED sender \/ Contents' \subseteq {"request"}
      BY <1>1, <2>3, Threading, SendResultEffect, PendingEmpty DEF Contents, PendingMessages
    <3> QED BY <1>1, <2>3, <3>1, <3>2, Threading, SendResultEffect DEF Elapsed, Alive
  <2> QED BY <2>2, <2>3
<1>2. CASE Elapse
  <2>1. \A u \in Senders : ~Alive(u)
    BY <1>2 DEF Elapse, Punctual, Alive
  <2>2. UNCHANGED sender
    BY <1>2 DEF Elapse
  <2> QED BY <2>1, <2>2 DEF Elapsed, Alive
<1>3. ASSUME NEW s \in Senders, Posted(s) PROVE Elapsed'
  <2>1. CASE beingSent' = NoMessage
    BY ZenonT(40), <1>3, <2>1, PostedEffect, Threading DEF Elapsed, Alive
  <2>2. CASE beingSent' # NoMessage
    BY ZenonT(40), <1>3, <2>2, PostedEffect, PostedNext, Threading
       DEF PunctualInv, Elapsed, Alive, CalmInv, Positions
  <2> QED BY <2>1, <2>2
<1>4. ASSUME NEW s \in Senders, Header200(s) PROVE Elapsed'
  <2>1. CASE closingFlag
    BY <1>4, <2>1, Threading DEF Header200, Http, BeginClose, CloseHttpSession, Elapsed
  <2>2. CASE ~closingFlag
    <3>1. /\ UNCHANGED <<sender, beingSent, retryBuffer, pending, elapsed, bSession>>
          /\ stage' = [stage EXCEPT ![s] = "body"]
      BY <1>4, <2>2 DEF Header200, Http
    <3> QED BY <3>1, PendingKept, Threading DEF PunctualInv, Elapsed, Contents, Alive
  <2> QED BY <2>1, <2>2
<1>5. ASSUME NEW s \in Senders, NEW b \in Bodies, ReceiveBody(s, b) PROVE Elapsed'
  <2>1. PICK p \in {"inform", "lockResponse", "lockRpc", "force", "done"} : Received(s, p)
    BY <1>5, ReceiveEffect DEF Calm, Punctual
  <2>2. /\ UNCHANGED <<beingSent, closeExpected, retryBuffer, sender, posting>>
        /\ UNCHANGED <<bSession, irtc, closingFlag, ignore204, acsMutex, engVars>>
        /\ sender[s] = "perform" /\ stage[s] = "body" /\ acsMutex = NoOwner /\ elapsed' = FALSE
    BY <1>5, ReceiveEffect DEF Calm, Punctual
  <2> QED BY <2>1, <2>2, Threading, PendingAppend, PendingEmpty, PendingKept
     DEF Received, Alive, PunctualInv, CalmInv, Positions, Owners, Closed, OneCloser, Views,
       Closing, Opened, ClosingStages, Ending, Elapsed, Contents
<1>19. ASSUME NEW s \in Senders, Ready204(s) PROVE Elapsed'
  BY <1>19, Ready204Effect, ElapsedKept DEF Http, PunctualInv
<1>20. ASSUME NEW s \in Senders, AskOnInform(s) PROVE Elapsed'
  BY <1>20, AskEffect, ElapsedKept DEF Http, PunctualInv
<1>23. ASSUME NEW s \in Senders, Response(s) PROVE Elapsed'
  BY <1>23, ResponseEffect, ElapsedKept DEF Http, PunctualInv
<1> USE Threading, PendingAppend, PendingEmpty, PendingKept
   DEF Alive, PunctualInv, CalmInv, Positions, Owners, Closed, OneCloser, Views, Closing, Opened,
     ClosingStages, Ending, Elapsed, Contents
<1>6. CASE ConfigureClient
  BY <1>6 DEF ConfigureClient, Configure
<1>7. CASE Inform
  BY <1>7, InformEffect
<1>8. CASE EnableSession
  BY <1>8 DEF EnableSession
<1>9. CASE EndSession
  BY <1>9 DEF EndSession
<1>10. CASE NewResult
  BY <1>10 DEF NewResult
<1>11. CASE Supervise
  BY <1>11 DEF Supervise, BeginClose, CloseHttpSession
<1>12. ASSUME NEW t \in Threads, ConfirmClose(t) PROVE Elapsed'
  BY <1>12 DEF ConfirmClose, Confirm
<1>13. ASSUME NEW t \in Threads, SessionClosed(t) PROVE Elapsed'
  BY <1>13 DEF SessionClosed
<1>14. ASSUME NEW t \in Threads, EndClose(t) PROVE Elapsed'
  BY <1>14, EndCloseEffect
<1>15. ASSUME NEW s \in Senders, Post(s) PROVE Elapsed'
  BY <1>15, Taken DEF Post
<1>16. ASSUME NEW s \in Senders, ContentLength0(s) PROVE Elapsed'
  BY <1>16, CallbackAccepts, CallbackRefused DEF ContentLength0, Http
<1>17. ASSUME NEW s \in Senders, Header204(s) PROVE Elapsed'
  BY <1>17 DEF Header204, Http
<1>18. ASSUME NEW s \in Senders, Lock204(s) PROVE Elapsed'
  <2>1. CASE bSession /\ irtc
    BY <1>18, <2>1 DEF Lock204, Http, BeginClose, CloseHttpSession
  <2>2. CASE ~(bSession /\ irtc)
    BY ZenonT(40), <1>18, <2>2 DEF Lock204, Http, BeginClose, CloseHttpSession
  <2> QED BY <2>1, <2>2
<1>21. ASSUME NEW s \in Senders, ReadyOnInform(s) PROVE Elapsed'
  BY <1>21, CallbackSends DEF ReadyOnInform, Http
<1>22. ASSUME NEW s \in Senders, LockResponse(s) PROVE Elapsed'
  BY <1>22 DEF LockResponse, Http
<1>24. ASSUME NEW s \in Senders, LockRpc(s) PROVE Elapsed'
  BY <1>24 DEF LockRpc, Http, Confirm
<1>25. ASSUME NEW s \in Senders, Rpc(s) PROVE Elapsed'
  BY <1>25, CallbackSends DEF Rpc, Http
<1>26. ASSUME NEW s \in Senders, ForceClose(s) PROVE Elapsed'
  BY <1>26 DEF ForceClose, Http, BeginClose, CloseHttpSession
<1>27. CASE UNCHANGED vars
  BY <1>27 DEF vars
<1> QED BY ZenonT(40), <1>1, <1>2, <1>3, <1>4, <1>5, <1>6, <1>7, <1>8, <1>9, <1>10, <1>11, <1>12, <1>13, <1>14,
     <1>15, <1>16, <1>17, <1>18, <1>19, <1>20, <1>21, <1>22, <1>23, <1>24, <1>25, <1>26, <1>27,
     CalmSplit DEF Punctual

\* While the supervisor closes, the scheduler alone posts, and only requests.
LEMMA SupervisedStep ==
  ASSUME Types, Punctual, CalmInv, PunctualInv, [Next]_vars PROVE Supervised'
<1> USE SessionAssumption, MessagesAssumption, MessageKinds, BodyKinds
        DEF EngineFree, Threads, Goto, httpVars, comVars, engVars
<1>1. CASE Supervise
  <2>1. PendingMessages' = {} /\ UNCHANGED <<beingSent, retryBuffer>>
    BY <1>1, PendingEmpty DEF Supervise, BeginClose, CloseHttpSession, PendingMessages
  <2>2. bSession /\ elapsed
    BY <1>1 DEF Supervise
  <2>3. beingSent # NoMessage => Contents \subseteq {"request"}
    BY <2>2, Threading DEF PunctualInv, Elapsed, Alive
  <2> QED BY <2>1, <2>3 DEF Supervised, Contents
<1>2. ASSUME NEW s \in Senders, Posted(s) PROVE Supervised'
  <2>1. CASE beingSent' = NoMessage
    BY <2>1 DEF Supervised
  <2>2. CASE beingSent' # NoMessage
    BY <1>2, <2>2, PostedEffect, PostedNext, Threading DEF PunctualInv, Supervised
  <2> QED BY <2>1, <2>2
<1>3. ASSUME NEW s \in Senders, AskOnInform(s) PROVE Supervised'
  <2>1. UNCHANGED httpVars /\ stage[Supervisor] = stage'[Supervisor]
    BY <1>3, Threading, AskEffect
  <2> QED BY <2>1, PendingKept DEF PunctualInv, Supervised, Contents
<1>4. ASSUME NEW s \in Senders, Rpc(s) PROVE Supervised'
  <2>1. UNCHANGED <<beingSent, retryBuffer>> /\ stage[Supervisor] = stage'[Supervisor]
    BY <1>4, Threading, CallbackSends DEF Rpc, Http
  <2>2. CASE beingSent # NoMessage /\ stage[Supervisor] = "cancel"
    <3>1. beingSent \in {"answer", EmptyMessage}
      BY <1>4, Threading DEF Rpc, Http, CalmInv, Positions
    <3> QED BY <3>1, <2>2, MessageKinds DEF PunctualInv, Supervised, Contents
  <2> QED BY <2>1, <2>2 DEF Supervised
<1>5. ASSUME NEW s \in Senders, NEW b \in Bodies, ReceiveBody(s, b) PROVE Supervised'
  <2>1. PICK p \in {"inform", "lockResponse", "lockRpc", "force", "done"} : Received(s, p)
    BY <1>5, ReceiveEffect DEF Calm, Punctual
  <2>2. /\ UNCHANGED <<beingSent, closeExpected, retryBuffer, sender, posting>>
        /\ UNCHANGED <<bSession, irtc, closingFlag, ignore204, acsMutex, engVars>>
        /\ sender[s] = "perform" /\ stage[s] = "body" /\ acsMutex = NoOwner /\ elapsed' = FALSE
    BY <1>5, ReceiveEffect DEF Calm, Punctual
  <2> QED BY <2>1, <2>2, Threading, PendingAppend, PendingEmpty, PendingKept
     DEF Received, Alive, PunctualInv, CalmInv, Positions, Owners, Closed, OneCloser, Views,
       Closing, Opened, ClosingStages, Ending, Supervised, Elapsed, Outside, Contents
<1> USE Threading, PendingAppend, PendingEmpty, PendingKept
   DEF Alive, PunctualInv, CalmInv, Positions, Owners, Closed, OneCloser, Views, Closing, Opened,
     ClosingStages, Ending, Supervised, Elapsed, Outside, Contents
<1>6. CASE ConfigureClient
  BY <1>6 DEF ConfigureClient, Configure
<1>7. CASE Inform
  BY <1>7, InformEffect
<1>8. CASE EnableSession
  BY <1>8 DEF EnableSession
<1>9. CASE SendResult
  BY SMTT(30), <1>9, SendResultEffect
<1>10. CASE EndSession
  BY <1>10 DEF EndSession
<1>11. CASE NewResult
  BY <1>11 DEF NewResult
<1>12. CASE Elapse
  BY <1>12 DEF Elapse
<1>13. ASSUME NEW t \in Threads, ConfirmClose(t) PROVE Supervised'
  BY <1>13 DEF ConfirmClose, Confirm
<1>14. ASSUME NEW t \in Threads, SessionClosed(t) PROVE Supervised'
  BY <1>14 DEF SessionClosed
<1>15. ASSUME NEW t \in Threads, EndClose(t) PROVE Supervised'
  BY <1>15, EndCloseEffect
<1>16. ASSUME NEW s \in Senders, Post(s) PROVE Supervised'
  BY <1>16, Taken DEF Post
<1>17. ASSUME NEW s \in Senders, Header200(s) PROVE Supervised'
  <2>1. CASE closingFlag
    BY <1>17, <2>1 DEF Header200, Http, BeginClose, CloseHttpSession
  <2>2. CASE ~closingFlag
    BY <1>17, <2>2 DEF Header200, Http, BeginClose, CloseHttpSession
  <2> QED BY <2>1, <2>2
<1>18. ASSUME NEW s \in Senders, ContentLength0(s) PROVE Supervised'
  BY <1>18, CallbackAccepts, CallbackRefused DEF ContentLength0, Http
<1>19. ASSUME NEW s \in Senders, Header204(s) PROVE Supervised'
  BY <1>19 DEF Header204, Http
<1>20. ASSUME NEW s \in Senders, Lock204(s) PROVE Supervised'
  <2>1. CASE bSession /\ irtc
    BY <1>20, <2>1 DEF Lock204, Http, BeginClose, CloseHttpSession
  <2>2. CASE ~(bSession /\ irtc)
    BY <1>20, <2>2 DEF Lock204, Http, BeginClose, CloseHttpSession
  <2> QED BY <2>1, <2>2
<1>21. ASSUME NEW s \in Senders, Ready204(s) PROVE Supervised'
  BY <1>21, Ready204Effect DEF Http, Confirm
<1>22. ASSUME NEW s \in Senders, ReadyOnInform(s) PROVE Supervised'
  BY ZenonT(40), <1>22, CallbackSends DEF ReadyOnInform, Http
<1>23. ASSUME NEW s \in Senders, LockResponse(s) PROVE Supervised'
  BY <1>23 DEF LockResponse, Http
<1>24. ASSUME NEW s \in Senders, Response(s) PROVE Supervised'
  BY <1>24, ResponseEffect DEF Http, Confirm
<1>25. ASSUME NEW s \in Senders, LockRpc(s) PROVE Supervised'
  BY <1>25 DEF LockRpc, Http, Confirm
<1>26. ASSUME NEW s \in Senders, ForceClose(s) PROVE Supervised'
  BY <1>26 DEF ForceClose, Http, BeginClose, CloseHttpSession
<1>27. CASE UNCHANGED vars
  BY <1>27 DEF vars
<1> QED BY ZenonT(40), <1>1, <1>2, <1>3, <1>4, <1>5, <1>6, <1>7, <1>8, <1>9, <1>10, <1>11, <1>12, <1>13, <1>14,
     <1>15, <1>16, <1>17, <1>18, <1>19, <1>20, <1>21, <1>22, <1>23, <1>24, <1>25, <1>26, <1>27,
     CalmSplit DEF Punctual

\* No Inform outlives the session that it opens.
LEMMA InformInTimeStep ==
  ASSUME Types, Punctual, CalmInv, PunctualInv, [Next]_vars PROVE InformInTime'
<1> USE SessionAssumption, MessagesAssumption, MessageKinds, BodyKinds
        DEF EngineFree, Threads, Goto, httpVars, comVars, engVars
<1>1. ASSUME NEW s \in Senders, Posted(s) PROVE InformInTime'
  <2>1. CASE beingSent' = "inform"
    <3>1. beingSent' # NoMessage
      BY <2>1, MessagesAssumption, MessageKinds
    <3>2. ~closeExpected /\ "inform" \in Contents /\ beingSent # NoMessage
      BY <1>1, <2>1, <3>1, PostedNext DEF CalmInv, Closed, Contents
    <3>3. bSession \/ sched = "informing"
      BY <3>2, MessageKinds DEF CalmInv, Outside
    <3> QED BY <1>1, <3>3 DEF Posted, InformInTime
  <2>2. CASE beingSent' # "inform"
    BY <2>2 DEF InformInTime
  <2> QED BY <2>1, <2>2
<1>2. ASSUME NEW s \in Senders, NEW b \in Bodies, ReceiveBody(s, b) PROVE InformInTime'
  <2>1. PICK p \in {"inform", "lockResponse", "lockRpc", "force", "done"} : Received(s, p)
    BY <1>2, ReceiveEffect DEF Calm, Punctual
  <2>2. /\ UNCHANGED <<beingSent, closeExpected, retryBuffer, sender, posting>>
        /\ UNCHANGED <<bSession, irtc, closingFlag, ignore204, acsMutex, engVars>>
        /\ sender[s] = "perform" /\ stage[s] = "body" /\ acsMutex = NoOwner /\ elapsed' = FALSE
    BY <1>2, ReceiveEffect DEF Calm, Punctual
  <2> QED BY <2>1, <2>2, Threading
     DEF Received, Alive, PunctualInv, CalmInv, Positions, Owners, Closed, OneCloser, Views,
       Closing, Opened, ClosingStages, Ending, InformInTime, Elapsed, Ready, Outside, Contents
<1> USE Threading
   DEF Alive, PunctualInv, CalmInv, Positions, Owners, Closed, OneCloser, Views, Closing, Opened,
     ClosingStages, Ending, InformInTime, Elapsed, Ready, Outside, Contents
<1>3. CASE ConfigureClient
  BY <1>3 DEF ConfigureClient, Configure
<1>4. CASE Inform
  BY <1>4, InformEffect
<1>5. CASE EnableSession
  BY <1>5 DEF EnableSession
<1>6. CASE SendResult
  BY <1>6, SendResultEffect
<1>7. CASE EndSession
  BY <1>7 DEF EndSession
<1>8. CASE NewResult
  BY <1>8 DEF NewResult
<1>9. CASE Elapse
  BY <1>9 DEF Elapse
<1>10. CASE Supervise
  BY <1>10 DEF Supervise, BeginClose, CloseHttpSession
<1>11. ASSUME NEW t \in Threads, ConfirmClose(t) PROVE InformInTime'
  BY <1>11 DEF ConfirmClose, Confirm
<1>12. ASSUME NEW t \in Threads, SessionClosed(t) PROVE InformInTime'
  BY <1>12 DEF SessionClosed
<1>13. ASSUME NEW t \in Threads, EndClose(t) PROVE InformInTime'
  BY <1>13, EndCloseEffect
<1>14. ASSUME NEW s \in Senders, Post(s) PROVE InformInTime'
  BY <1>14, Taken DEF Post
<1>15. ASSUME NEW s \in Senders, Header200(s) PROVE InformInTime'
  <2>1. CASE closingFlag
    BY <1>15, <2>1 DEF Header200, Http, BeginClose, CloseHttpSession
  <2>2. CASE ~closingFlag
    BY <1>15, <2>2 DEF Header200, Http, BeginClose, CloseHttpSession
  <2> QED BY <2>1, <2>2
<1>16. ASSUME NEW s \in Senders, ContentLength0(s) PROVE InformInTime'
  BY <1>16, CallbackAccepts, CallbackRefused DEF ContentLength0, Http
<1>17. ASSUME NEW s \in Senders, Header204(s) PROVE InformInTime'
  BY <1>17 DEF Header204, Http
<1>18. ASSUME NEW s \in Senders, Lock204(s) PROVE InformInTime'
  <2>1. CASE bSession /\ irtc
    BY <1>18, <2>1 DEF Lock204, Http, BeginClose, CloseHttpSession
  <2>2. CASE ~(bSession /\ irtc)
    BY <1>18, <2>2 DEF Lock204, Http, BeginClose, CloseHttpSession
  <2> QED BY <2>1, <2>2
<1>19. ASSUME NEW s \in Senders, Ready204(s) PROVE InformInTime'
  BY <1>19, Ready204Effect DEF Http, Confirm
<1>20. ASSUME NEW s \in Senders, AskOnInform(s) PROVE InformInTime'
  BY <1>20, AskEffect DEF Http, Confirm
<1>21. ASSUME NEW s \in Senders, ReadyOnInform(s) PROVE InformInTime'
  BY <1>21, CallbackSends DEF ReadyOnInform, Http
<1>22. ASSUME NEW s \in Senders, LockResponse(s) PROVE InformInTime'
  BY <1>22 DEF LockResponse, Http
<1>23. ASSUME NEW s \in Senders, Response(s) PROVE InformInTime'
  BY <1>23, ResponseEffect DEF Http, Confirm
<1>24. ASSUME NEW s \in Senders, LockRpc(s) PROVE InformInTime'
  BY <1>24 DEF LockRpc, Http, Confirm
<1>25. ASSUME NEW s \in Senders, Rpc(s) PROVE InformInTime'
  BY <1>25, CallbackSends DEF Rpc, Http
<1>26. ASSUME NEW s \in Senders, ForceClose(s) PROVE InformInTime'
  BY <1>26 DEF ForceClose, Http, BeginClose, CloseHttpSession
<1>27. CASE UNCHANGED vars
  BY <1>27 DEF vars
<1> QED BY <1>1, <1>2, <1>3, <1>4, <1>5, <1>6, <1>7, <1>8, <1>9, <1>10, <1>11, <1>12, <1>13, <1>14,
     <1>15, <1>16, <1>17, <1>18, <1>19, <1>20, <1>21, <1>22, <1>23, <1>24, <1>25, <1>26, <1>27,
     CalmSplit DEF Punctual

\* In a session no Inform waits behind a message that is not a request, unless its
\* thread is the one that sends it again.
LEMMA NoInformWaits ==
  ASSUME PunctualInv, beingSent # NoMessage, beingSent # "request", retryBuffer # "inform"
  PROVE  "inform" \notin PendingMessages
BY DEF PunctualInv, InformFirst, PendingMessages

\* The empty message and the answers are sent when no result is left.
LEMMA PoliteStep ==
  ASSUME Types, Punctual, CalmInv, PunctualInv, [Next]_vars PROVE Polite'
<1> USE SessionAssumption, MessagesAssumption, MessageKinds, BodyKinds
        DEF EngineFree, Threads, Goto, httpVars, comVars, engVars
<1>1. CASE EnableSession
  <2>1. sched = "informing" /\ acsMutex = NoOwner /\ UNCHANGED httpVars
    BY <1>1 DEF EnableSession
  <2>2. ~bSession /\ ~closeExpected
    BY <2>1 DEF CalmInv, Views
  <2>3. beingSent # NoMessage => Contents \subseteq {"inform", "request"}
    BY <2>1, <2>2 DEF CalmInv, Outside
  <2> QED BY <2>1, <2>3, PendingKept DEF Polite, Contents
<1>2. CASE SendResult
  <2>1. beingSent' \in {beingSent, "request"} /\ PendingMessages' \subseteq PendingMessages \cup {"request"}
    BY <1>2, Threading, SendResultEffect, PendingAppend, PendingEmpty, PendingKept
  <2>2. results > 0 /\ UNCHANGED bSession
    BY <1>2, SendResultEffect
  <2>3. beingSent = NoMessage => PendingMessages = {}
    BY Threading, PendingEmpty
  <2>4. bSession => (beingSent = NoMessage \/ ({beingSent} \cup PendingMessages) \cap {"answer", EmptyMessage} = {})
    BY <2>2 DEF PunctualInv, Polite
  <2> QED BY <2>1, <2>2, <2>3, <2>4 DEF Polite
<1>3. ASSUME NEW s \in Senders, Posted(s) PROVE Polite'
  <2>1. CASE beingSent' = NoMessage
    BY <2>1 DEF Polite
  <2>2. CASE beingSent' # NoMessage
    BY ZenonT(40), <1>3, <2>2, PostedEffect, PostedNext DEF PunctualInv, Polite
  <2> QED BY <2>1, <2>2
<1>4. ASSUME NEW s \in Senders, NEW b \in Bodies, ReceiveBody(s, b) PROVE Polite'
  <2>1. PICK p \in {"inform", "lockResponse", "lockRpc", "force", "done"} : Received(s, p)
    BY <1>4, ReceiveEffect DEF Calm, Punctual
  <2>2. UNCHANGED <<beingSent, bSession, results, sending, retryBuffer>>
    BY <1>4, ReceiveEffect DEF Calm, Punctual
  <2>3. PendingMessages' \subseteq PendingMessages \cup {"inform", "request"}
    BY <2>1, Threading, PendingAppend, PendingKept DEF Received, CalmInv, Closed
  <2> QED BY <2>2, <2>3 DEF PunctualInv, Polite
<1> USE Threading, PendingAppend, PendingEmpty, PendingKept
   DEF Alive, PunctualInv, CalmInv, Positions, Owners, Closed, OneCloser, Views, Closing, Opened,
     ClosingStages, Ending, Polite, Ready, Outside, Contents
<1>5. CASE ConfigureClient
  BY <1>5 DEF ConfigureClient, Configure
<1>6. CASE Inform
  BY <1>6, InformEffect
<1>7. CASE EndSession
  BY <1>7 DEF EndSession
<1>8. CASE NewResult
  BY <1>8 DEF NewResult
<1>9. CASE Elapse
  BY <1>9 DEF Elapse
<1>10. CASE Supervise
  BY <1>10 DEF Supervise, BeginClose, CloseHttpSession
<1>11. ASSUME NEW t \in Threads, ConfirmClose(t) PROVE Polite'
  BY <1>11 DEF ConfirmClose, Confirm
<1>12. ASSUME NEW t \in Threads, SessionClosed(t) PROVE Polite'
  BY <1>12 DEF SessionClosed
<1>13. ASSUME NEW t \in Threads, EndClose(t) PROVE Polite'
  BY <1>13, EndCloseEffect
<1>14. ASSUME NEW s \in Senders, Post(s) PROVE Polite'
  BY <1>14, Taken DEF Post
<1>15. ASSUME NEW s \in Senders, Header200(s) PROVE Polite'
  <2>1. CASE closingFlag
    BY <1>15, <2>1 DEF Header200, Http, BeginClose, CloseHttpSession
  <2>2. CASE ~closingFlag
    BY <1>15, <2>2 DEF Header200, Http, BeginClose, CloseHttpSession
  <2> QED BY <2>1, <2>2
<1>16. ASSUME NEW s \in Senders, ContentLength0(s) PROVE Polite'
  BY <1>16, CallbackAccepts, CallbackRefused DEF ContentLength0, Http
<1>17. ASSUME NEW s \in Senders, Header204(s) PROVE Polite'
  BY <1>17 DEF Header204, Http
<1>18. ASSUME NEW s \in Senders, Lock204(s) PROVE Polite'
  <2>1. CASE bSession /\ irtc
    BY <1>18, <2>1 DEF Lock204, Http, BeginClose, CloseHttpSession
  <2>2. CASE ~(bSession /\ irtc)
    BY <1>18, <2>2 DEF Lock204, Http, BeginClose, CloseHttpSession
  <2> QED BY <2>1, <2>2
<1>19. ASSUME NEW s \in Senders, Ready204(s) PROVE Polite'
  BY <1>19, Ready204Effect DEF Http, Confirm
<1>20. ASSUME NEW s \in Senders, AskOnInform(s) PROVE Polite'
  BY <1>20, AskEffect DEF Http, Confirm
<1>21. ASSUME NEW s \in Senders, ReadyOnInform(s) PROVE Polite'
  BY <1>21, CallbackSends DEF ReadyOnInform, Http
<1>22. ASSUME NEW s \in Senders, LockResponse(s) PROVE Polite'
  BY <1>22 DEF LockResponse, Http
<1>23. ASSUME NEW s \in Senders, Response(s) PROVE Polite'
  BY <1>23, ResponseEffect DEF Http, Confirm
<1>24. ASSUME NEW s \in Senders, LockRpc(s) PROVE Polite'
  BY <1>24 DEF LockRpc, Http, Confirm
<1>25. ASSUME NEW s \in Senders, Rpc(s) PROVE Polite'
  BY ZenonT(40), <1>25, CallbackSends DEF Rpc, Http
<1>26. ASSUME NEW s \in Senders, ForceClose(s) PROVE Polite'
  BY <1>26 DEF ForceClose, Http, BeginClose, CloseHttpSession
<1>27. CASE UNCHANGED vars
  BY <1>27 DEF vars
<1> QED BY ZenonT(40), <1>1, <1>2, <1>3, <1>4, <1>5, <1>6, <1>7, <1>8, <1>9, <1>10, <1>11, <1>12, <1>13, <1>14,
     <1>15, <1>16, <1>17, <1>18, <1>19, <1>20, <1>21, <1>22, <1>23, <1>24, <1>25, <1>26, <1>27,
     CalmSplit DEF Punctual

\* The message that closes the session has no Inform before it.
LEMMA NoInformLateStep ==
  ASSUME Types, Punctual, CalmInv, PunctualInv, [Next]_vars PROVE NoInformLate'
<1> USE SessionAssumption, MessagesAssumption, MessageKinds, BodyKinds
        DEF EngineFree, Threads, Goto, httpVars, comVars, engVars
<1>1. CASE SendResult
  <2>1. ~closingFlag /\ UNCHANGED closingFlag
    BY <1>1, SendResultEffect DEF PunctualInv, Ready, CalmInv, Views
  <2> QED BY <2>1 DEF NoInformLate
<1>2. ASSUME NEW s \in Senders, ContentLength0(s) PROVE NoInformLate'
  <2>1. /\ UNCHANGED beingSent /\ beingSent \in {"answer", EmptyMessage} /\ beingSent # NoMessage
        /\ sender[s] = "perform" /\ stage[s] = "body" /\ ~closingFlag /\ irtc
    BY <1>2, Threading, CallbackAccepts, CallbackRefused DEF ContentLength0, Http
  <2>2. PendingMessages' \subseteq PendingMessages \cup {EmptyMessage} /\ (closingFlag' => ~closeExpected)
    BY <1>2, <2>1, Threading, CallbackAccepts, CallbackRefused, PendingAppend, PendingKept
       DEF ContentLength0
  <2>3. closingFlag' => bSession
    BY <2>1, <2>2, MessageKinds DEF CalmInv, Outside, Contents
  <2>4. closingFlag' => "inform" \notin PendingMessages
    BY <2>1, <2>3, NoInformWaits, PendingEmpty DEF PunctualInv, Chain, Alive
  <2> QED BY <2>1, <2>2, <2>4, MessageKinds DEF NoInformLate
<1>3. ASSUME NEW s \in Senders, Ready204(s) PROVE NoInformLate'
  <2>1. /\ UNCHANGED beingSent /\ beingSent # NoMessage /\ beingSent # "request"
        /\ sender[s] = "perform" /\ stage[s] = "ready204" /\ bSession /\ UNCHANGED sender
        /\ stage' = [stage EXCEPT ![s] = "done"]
    BY <1>3, Threading, Ready204Effect DEF Http, CalmInv, Positions, Views
  <2>2. PendingMessages' \subseteq PendingMessages \cup {EmptyMessage}
    BY <1>3, Threading, Ready204Effect, PendingAppend, PendingKept
  <2>3. "inform" \notin PendingMessages
    BY <2>1, NoInformWaits, PendingEmpty DEF PunctualInv, Chain, Alive
  <2>4. \A u \in Senders : Alive(u) => u = s
    BY <2>1, Threading DEF Alive
  <2> QED BY <2>1, <2>2, <2>3, <2>4, MessageKinds, Threading DEF NoInformLate, Alive
<1>4. ASSUME NEW s \in Senders, NEW b \in Bodies, ReceiveBody(s, b) PROVE NoInformLate'
  <2>1. PICK p \in {"inform", "lockResponse", "lockRpc", "force", "done"} : Received(s, p)
    BY <1>4, ReceiveEffect DEF Calm, Punctual
  <2>2. /\ UNCHANGED <<beingSent, closeExpected, retryBuffer, sender, posting>>
        /\ UNCHANGED <<bSession, irtc, closingFlag, ignore204, acsMutex, engVars>>
        /\ sender[s] = "perform" /\ stage[s] = "body" /\ acsMutex = NoOwner /\ elapsed' = FALSE
    BY <1>4, ReceiveEffect DEF Calm, Punctual
  <2> QED BY <2>1, <2>2, Threading, PendingAppend, PendingEmpty, PendingKept
     DEF Received, Alive, PunctualInv, CalmInv, Positions, Owners, Closed, OneCloser, Views,
       Closing, Opened, ClosingStages, Ending, NoInformLate, Ready
<1>16. ASSUME NEW s \in Senders, Posted(s) PROVE NoInformLate'
  <2>1. UNCHANGED closingFlag
    BY <1>16, PostedEffect
  <2>2. CASE beingSent' = NoMessage
    <3>1. pending' = <<>> /\ beingSent' # "inform"
      BY <1>16, <2>2, PostedEffect
    <3>2. PendingMessages' = {}
      BY <3>1 DEF PendingMessages
    <3> QED BY <3>1, <3>2 DEF NoInformLate
  <2>3. CASE beingSent' # NoMessage
    BY <1>16, <2>1, <2>3, PostedNext DEF NoInformLate, PunctualInv
  <2> QED BY <2>2, <2>3
<1> USE Threading, PendingAppend, PendingEmpty, PendingKept
   DEF Alive, PunctualInv, CalmInv, Positions, Owners, Closed, OneCloser, Views, Closing, Opened,
     ClosingStages, Ending, NoInformLate, Ready
<1>5. CASE ConfigureClient
  BY <1>5 DEF ConfigureClient, Configure
<1>6. CASE Inform
  BY <1>6, InformEffect
<1>7. CASE EnableSession
  BY <1>7 DEF EnableSession
<1>8. CASE EndSession
  BY <1>8 DEF EndSession
<1>9. CASE NewResult
  BY <1>9 DEF NewResult
<1>10. CASE Elapse
  BY <1>10 DEF Elapse
<1>11. CASE Supervise
  BY <1>11 DEF Supervise, BeginClose, CloseHttpSession
<1>12. ASSUME NEW t \in Threads, ConfirmClose(t) PROVE NoInformLate'
  BY <1>12 DEF ConfirmClose, Confirm
<1>13. ASSUME NEW t \in Threads, SessionClosed(t) PROVE NoInformLate'
  BY <1>13 DEF SessionClosed
<1>14. ASSUME NEW t \in Threads, EndClose(t) PROVE NoInformLate'
  BY <1>14, EndCloseEffect
<1>15. ASSUME NEW s \in Senders, Post(s) PROVE NoInformLate'
  BY <1>15, Taken DEF Post
<1>17. ASSUME NEW s \in Senders, Header200(s) PROVE NoInformLate'
  <2>1. CASE closingFlag
    BY <1>17, <2>1 DEF Header200, Http, BeginClose, CloseHttpSession
  <2>2. CASE ~closingFlag
    BY <1>17, <2>2 DEF Header200, Http, BeginClose, CloseHttpSession
  <2> QED BY <2>1, <2>2
<1>18. ASSUME NEW s \in Senders, Header204(s) PROVE NoInformLate'
  BY <1>18 DEF Header204, Http
<1>19. ASSUME NEW s \in Senders, Lock204(s) PROVE NoInformLate'
  <2>1. CASE bSession /\ irtc
    BY <1>19, <2>1 DEF Lock204, Http, BeginClose, CloseHttpSession
  <2>2. CASE ~(bSession /\ irtc)
    BY <1>19, <2>2 DEF Lock204, Http, BeginClose, CloseHttpSession
  <2> QED BY <2>1, <2>2
<1>20. ASSUME NEW s \in Senders, AskOnInform(s) PROVE NoInformLate'
  BY <1>20, AskEffect DEF Http, Confirm
<1>21. ASSUME NEW s \in Senders, ReadyOnInform(s) PROVE NoInformLate'
  BY <1>21, CallbackSends DEF ReadyOnInform, Http
<1>22. ASSUME NEW s \in Senders, LockResponse(s) PROVE NoInformLate'
  BY <1>22 DEF LockResponse, Http
<1>23. ASSUME NEW s \in Senders, Response(s) PROVE NoInformLate'
  BY <1>23, ResponseEffect DEF Http, Confirm
<1>24. ASSUME NEW s \in Senders, LockRpc(s) PROVE NoInformLate'
  BY <1>24 DEF LockRpc, Http, Confirm
<1>25. ASSUME NEW s \in Senders, Rpc(s) PROVE NoInformLate'
  BY <1>25, CallbackSends DEF Rpc, Http
<1>26. ASSUME NEW s \in Senders, ForceClose(s) PROVE NoInformLate'
  BY <1>26 DEF ForceClose, Http, BeginClose, CloseHttpSession
<1>27. CASE UNCHANGED vars
  BY <1>27 DEF vars
<1> QED BY <1>1, <1>2, <1>3, <1>4, <1>5, <1>6, <1>7, <1>8, <1>9, <1>10, <1>11, <1>12, <1>13, <1>14,
     <1>15, <1>16, <1>17, <1>18, <1>19, <1>20, <1>21, <1>22, <1>23, <1>24, <1>25, <1>26, <1>27,
     CalmSplit DEF Punctual

\* One message after none, and none after one.
LEMMA PendingOne ==
  ASSUME NEW m \in Messages, pending = <<>>, pending' = Append(pending, m)
  PROVE  pending' # <<>> /\ Len(pending') = 1
OBVIOUS

\* Of one message nothing is left.
LEMMA PendingNone ==
  ASSUME TypeOK, Len(pending) = 1, pending' = Tail(pending) PROVE pending' = <<>>
BY DEF TypeOK

\* The thread of the Inform has one message at most to send next.
LEMMA ChainStep ==
  ASSUME Types, Punctual, CalmInv, PunctualInv, [Next]_vars PROVE Chain'
<1> USE SessionAssumption, MessagesAssumption, MessageKinds, BodyKinds
        DEF EngineFree, Threads, Goto, httpVars, comVars, engVars
<1>1. ASSUME NEW s \in Senders, Posted(s) PROVE Chain'
  <2>1. CASE beingSent' = NoMessage
    BY ZenonT(40), <1>1, <2>1, PostedEffect, Threading DEF Chain, Alive
  <2>2. CASE beingSent' # NoMessage
    <3>1. UNCHANGED <<sender, retryBuffer, bSession, sched, status, sending, results>> /\ pending # <<>>
      BY <1>1, <2>2, PostedEffect
    <3>2. \A u \in Senders : Alive(u) => u = s
      BY <1>1, PostedEffect, Threading DEF Alive
    <3>3. Len(pending) = 1 => pending' = <<>>
      BY <1>1, <2>2, PostedNext, PendingNone, Threading
    <3> QED BY <3>1, <3>2, <3>3, Threading DEF PunctualInv, Chain, Alive
  <2> QED BY <2>1, <2>2
<1>2. ASSUME NEW s \in Senders, NEW b \in Bodies, ReceiveBody(s, b) PROVE Chain'
  <2>1. PICK p \in {"inform", "lockResponse", "lockRpc", "force", "done"} : Received(s, p)
    BY <1>2, ReceiveEffect DEF Calm, Punctual
  <2>2. /\ UNCHANGED <<beingSent, closeExpected, retryBuffer, sender, posting>>
        /\ UNCHANGED <<bSession, irtc, closingFlag, ignore204, acsMutex, engVars>>
        /\ sender[s] = "perform" /\ stage[s] = "body" /\ acsMutex = NoOwner /\ elapsed' = FALSE
    BY <1>2, ReceiveEffect DEF Calm, Punctual
  <2> QED BY <2>1, <2>2, Threading, PendingOne
     DEF Received, Alive, PunctualInv, CalmInv, Positions, Owners, Closed, OneCloser, Views,
       Closing, Opened, ClosingStages, Ending, Chain, Ready, Polite, Outside, Contents
<1> USE Threading, PendingOne
   DEF Alive, PunctualInv, CalmInv, Positions, Owners, Closed, OneCloser, Views, Closing, Opened,
     ClosingStages, Ending, Chain, Ready, Polite, Outside, Contents
<1>3. CASE ConfigureClient
  BY <1>3 DEF ConfigureClient, Configure
<1>4. CASE Inform
  BY <1>4, InformEffect
<1>5. CASE EnableSession
  BY <1>5 DEF EnableSession
<1>6. CASE SendResult
  BY <1>6, SendResultEffect
<1>7. CASE EndSession
  BY <1>7 DEF EndSession
<1>8. CASE NewResult
  BY <1>8 DEF NewResult
<1>9. CASE Elapse
  BY <1>9 DEF Elapse
<1>10. CASE Supervise
  BY <1>10 DEF Supervise, BeginClose, CloseHttpSession
<1>11. ASSUME NEW t \in Threads, ConfirmClose(t) PROVE Chain'
  BY <1>11 DEF ConfirmClose, Confirm
<1>12. ASSUME NEW t \in Threads, SessionClosed(t) PROVE Chain'
  BY <1>12 DEF SessionClosed
<1>13. ASSUME NEW t \in Threads, EndClose(t) PROVE Chain'
  BY <1>13, EndCloseEffect
<1>14. ASSUME NEW s \in Senders, Post(s) PROVE Chain'
  BY <1>14, Taken DEF Post
<1>15. ASSUME NEW s \in Senders, Header200(s) PROVE Chain'
  <2>1. CASE closingFlag
    BY <1>15, <2>1 DEF Header200, Http, BeginClose, CloseHttpSession
  <2>2. CASE ~closingFlag
    BY <1>15, <2>2 DEF Header200, Http, BeginClose, CloseHttpSession
  <2> QED BY <2>1, <2>2
<1>16. ASSUME NEW s \in Senders, ContentLength0(s) PROVE Chain'
  BY <1>16, CallbackAccepts, CallbackRefused DEF ContentLength0, Http
<1>17. ASSUME NEW s \in Senders, Header204(s) PROVE Chain'
  BY <1>17 DEF Header204, Http
<1>18. ASSUME NEW s \in Senders, Lock204(s) PROVE Chain'
  <2>1. CASE bSession /\ irtc
    BY <1>18, <2>1 DEF Lock204, Http, BeginClose, CloseHttpSession
  <2>2. CASE ~(bSession /\ irtc)
    BY <1>18, <2>2 DEF Lock204, Http, BeginClose, CloseHttpSession
  <2> QED BY <2>1, <2>2
<1>19. ASSUME NEW s \in Senders, Ready204(s) PROVE Chain'
  BY <1>19, Ready204Effect DEF Http, Confirm
<1>20. ASSUME NEW s \in Senders, AskOnInform(s) PROVE Chain'
  BY <1>20, AskEffect DEF Http, Confirm
<1>21. ASSUME NEW s \in Senders, ReadyOnInform(s) PROVE Chain'
  BY <1>21, CallbackSends DEF ReadyOnInform, Http
<1>22. ASSUME NEW s \in Senders, LockResponse(s) PROVE Chain'
  BY <1>22 DEF LockResponse, Http
<1>23. ASSUME NEW s \in Senders, Response(s) PROVE Chain'
  BY <1>23, ResponseEffect DEF Http, Confirm
<1>24. ASSUME NEW s \in Senders, LockRpc(s) PROVE Chain'
  BY <1>24 DEF LockRpc, Http, Confirm
<1>25. ASSUME NEW s \in Senders, Rpc(s) PROVE Chain'
  BY <1>25, CallbackSends DEF Rpc, Http
<1>26. ASSUME NEW s \in Senders, ForceClose(s) PROVE Chain'
  BY <1>26 DEF ForceClose, Http, BeginClose, CloseHttpSession
<1>27. CASE UNCHANGED vars
  BY <1>27 DEF vars
<1> QED BY <1>1, <1>2, <1>3, <1>4, <1>5, <1>6, <1>7, <1>8, <1>9, <1>10, <1>11, <1>12, <1>13, <1>14,
     <1>15, <1>16, <1>17, <1>18, <1>19, <1>20, <1>21, <1>22, <1>23, <1>24, <1>25, <1>26, <1>27,
     CalmSplit DEF Punctual

\* Behind a late request come requests, then the Inform.
LEMMA InformFirstStep ==
  ASSUME Types, Punctual, CalmInv, PunctualInv, [Next]_vars PROVE InformFirst'
<1> USE SessionAssumption, MessagesAssumption, MessageKinds, BodyKinds
        DEF EngineFree, Threads, Goto, httpVars, comVars, engVars
<1>1. CASE Inform
  <2>1. CASE UNCHANGED <<beingSent, pending, retryBuffer>>
    BY <2>1 DEF PunctualInv, InformFirst
  <2>2. CASE pending' = <<>>
    BY <2>2 DEF InformFirst
  <2>3. CASE beingSent # NoMessage /\ ~closeExpected /\ pending' = Append(pending, "inform") /\ UNCHANGED <<beingSent, retryBuffer>>
    <3>1. Contents \subseteq {"request"}
      BY <1>1, <2>3, InformEffect DEF CalmInv, Views, Outside
    <3>2. beingSent = "request" /\ \A i \in DOMAIN pending : pending[i] = "request"
      BY <3>1 DEF Contents, PendingMessages
    <3>3. pending \in Seq(Messages)
      BY Threading DEF TypeOK
    <3> QED BY <2>3, <3>2, <3>3, MessageKinds DEF InformFirst
  <2> QED BY <1>1, <2>1, <2>2, <2>3, InformEffect
<1>2. ASSUME NEW s \in Senders, Posted(s) PROVE InformFirst'
  <2>1. CASE beingSent' = NoMessage
    BY <2>1 DEF InformFirst
  <2>2. CASE beingSent' # NoMessage
    <3>1. /\ pending # <<>> /\ beingSent' = Head(pending) /\ pending' = Tail(pending)
          /\ beingSent # NoMessage /\ pending \in Seq(Messages) /\ UNCHANGED retryBuffer
      BY <1>2, <2>2, PostedEffect, PostedNext, Threading DEF TypeOK
    <3>2. beingSent' = pending[1] /\ \A j \in DOMAIN pending' : j + 1 \in DOMAIN pending /\ pending'[j] = pending[j + 1]
      BY <3>1
    <3> SUFFICES ASSUME retryBuffer # "inform", NEW j \in DOMAIN pending', pending'[j] = "inform"
                 PROVE  beingSent' = "request" /\ \A i \in 1 .. (j - 1) : pending'[i] = "request"
      BY <3>1 DEF InformFirst
    <3>3. j + 1 \in DOMAIN pending /\ pending[j + 1] = "inform" /\ j \in 1 .. Len(pending')
      BY <3>1, <3>2
    <3>4. \A i \in 1 .. j : pending[i] = "request"
      BY <3>1, <3>3 DEF PunctualInv, InformFirst
    <3> QED BY <3>1, <3>2, <3>3, <3>4
  <2> QED BY <2>1, <2>2
<1>3. ASSUME NEW s \in Senders, Response(s) PROVE InformFirst'
  <2>1. UNCHANGED <<beingSent, retryBuffer>> /\ (UNCHANGED pending \/ pending' = Append(pending, EmptyMessage))
    BY <1>3, ResponseEffect
  <2>2. pending \in Seq(Messages)
    BY Threading DEF TypeOK
  <2> QED BY <2>1, <2>2, MessagesAssumption DEF PunctualInv, InformFirst
<1>4. ASSUME NEW s \in Senders, NEW b \in Bodies, ReceiveBody(s, b) PROVE InformFirst'
  <2>1. PICK p \in {"inform", "lockResponse", "lockRpc", "force", "done"} : Received(s, p)
    BY <1>4, ReceiveEffect DEF Calm, Punctual
  <2>2. /\ UNCHANGED <<beingSent, closeExpected, retryBuffer, sender, posting>>
        /\ UNCHANGED <<bSession, irtc, closingFlag, ignore204, acsMutex, engVars>>
        /\ sender[s] = "perform" /\ stage[s] = "body" /\ acsMutex = NoOwner /\ elapsed' = FALSE
    BY <1>4, ReceiveEffect DEF Calm, Punctual
  <2> QED BY <2>1, <2>2, Threading
     DEF Received, Alive, PunctualInv, CalmInv, Positions, Owners, Closed, OneCloser, Views,
       Closing, Opened, ClosingStages, Ending, InformFirst, Outside, Contents, PendingMessages
<1> USE Threading
   DEF Alive, PunctualInv, CalmInv, Positions, Owners, Closed, OneCloser, Views, Closing, Opened,
     ClosingStages, Ending, InformFirst, Outside, Contents, PendingMessages
<1>5. CASE ConfigureClient
  BY <1>5 DEF ConfigureClient, Configure
<1>6. CASE EnableSession
  BY <1>6 DEF EnableSession
<1>7. CASE SendResult
  BY SMTT(30), <1>7, SendResultEffect
<1>8. CASE EndSession
  BY <1>8 DEF EndSession
<1>9. CASE NewResult
  BY <1>9 DEF NewResult
<1>10. CASE Elapse
  BY <1>10 DEF Elapse
<1>11. CASE Supervise
  BY <1>11 DEF Supervise, BeginClose, CloseHttpSession
<1>12. ASSUME NEW t \in Threads, ConfirmClose(t) PROVE InformFirst'
  BY <1>12 DEF ConfirmClose, Confirm
<1>13. ASSUME NEW t \in Threads, SessionClosed(t) PROVE InformFirst'
  BY <1>13 DEF SessionClosed
<1>14. ASSUME NEW t \in Threads, EndClose(t) PROVE InformFirst'
  BY <1>14, EndCloseEffect
<1>15. ASSUME NEW s \in Senders, Post(s) PROVE InformFirst'
  BY <1>15, Taken DEF Post
<1>16. ASSUME NEW s \in Senders, Header200(s) PROVE InformFirst'
  <2>1. CASE closingFlag
    BY <1>16, <2>1 DEF Header200, Http, BeginClose, CloseHttpSession
  <2>2. CASE ~closingFlag
    BY <1>16, <2>2 DEF Header200, Http, BeginClose, CloseHttpSession
  <2> QED BY <2>1, <2>2
<1>17. ASSUME NEW s \in Senders, ContentLength0(s) PROVE InformFirst'
  BY <1>17, CallbackAccepts, CallbackRefused DEF ContentLength0, Http
<1>18. ASSUME NEW s \in Senders, Header204(s) PROVE InformFirst'
  BY <1>18 DEF Header204, Http
<1>19. ASSUME NEW s \in Senders, Lock204(s) PROVE InformFirst'
  <2>1. CASE bSession /\ irtc
    BY <1>19, <2>1 DEF Lock204, Http, BeginClose, CloseHttpSession
  <2>2. CASE ~(bSession /\ irtc)
    BY <1>19, <2>2 DEF Lock204, Http, BeginClose, CloseHttpSession
  <2> QED BY <2>1, <2>2
<1>20. ASSUME NEW s \in Senders, Ready204(s) PROVE InformFirst'
  BY <1>20, Ready204Effect DEF Http, Confirm
<1>21. ASSUME NEW s \in Senders, AskOnInform(s) PROVE InformFirst'
  BY <1>21, AskEffect DEF Http, Confirm
<1>22. ASSUME NEW s \in Senders, ReadyOnInform(s) PROVE InformFirst'
  BY <1>22, CallbackSends DEF ReadyOnInform, Http
<1>23. ASSUME NEW s \in Senders, LockResponse(s) PROVE InformFirst'
  BY <1>23 DEF LockResponse, Http
<1>24. ASSUME NEW s \in Senders, LockRpc(s) PROVE InformFirst'
  BY <1>24 DEF LockRpc, Http, Confirm
<1>25. ASSUME NEW s \in Senders, Rpc(s) PROVE InformFirst'
  BY <1>25, CallbackSends DEF Rpc, Http
<1>26. ASSUME NEW s \in Senders, ForceClose(s) PROVE InformFirst'
  BY <1>26 DEF ForceClose, Http, BeginClose, CloseHttpSession
<1>27. CASE UNCHANGED vars
  BY <1>27 DEF vars
<1> QED BY <1>1, <1>2, <1>3, <1>4, <1>5, <1>6, <1>7, <1>8, <1>9, <1>10, <1>11, <1>12, <1>13, <1>14,
     <1>15, <1>16, <1>17, <1>18, <1>19, <1>20, <1>21, <1>22, <1>23, <1>24, <1>25, <1>26, <1>27,
     CalmSplit DEF Punctual

-----------------------------------------------------------------------------
(* Theorems, for a punctual ACS *)

\* The second level is an invariant of the steps that keep the first.
LEMMA PunctualStep ==
  ASSUME Punctual PROVE Types /\ CalmInv /\ PunctualInv /\ [Next]_vars => PunctualInv'
BY ElapsedStep, SupervisedStep, ReadyStep, InformInTimeStep, NoInformLateStep, ChainStep,
     InformFirstStep,
   PoliteStep, RpcLockedStep DEF PunctualInv

\* Both levels hold of every state.
LEMMA PunctualAlways == ASSUME Punctual PROVE Spec => [](Types /\ CalmInv /\ PunctualInv)
<1>1. Types /\ CalmInv /\ [Next]_vars => CalmInv'
  BY CalmStep DEF Punctual
<1> QED BY <1>1, AtStart, TypesStep, PunctualStep, PTL DEF Spec

\* All threads have the same session: its two views agree, and an RPC works on the data
\* under the data lock, its own or the session's.
THEOREM SessionConsistentAlways == ASSUME Punctual PROVE Spec => []SessionConsistent
<1>1. Types /\ CalmInv /\ PunctualInv => SessionConsistent
  BY DEF Types, CalmInv, Views, PunctualInv, RpcLocked, SessionConsistent, SessionAgreement,
       SessionTypeOK,
         RpcUnderLock
<1> QED BY <1>1, PunctualAlways, PTL

\* A session begins without the marks of the one before.
LEMMA FreshStep ==
  ASSUME Types, CalmInv, PunctualInv, [Next]_vars, bSession', ~bSession PROVE ~irtc /\ ~closingFlag
<1> USE DEF comVars, engVars, httpVars, Types, SessionTypeOK
<1>1. EnableSession
  BY ZenonT(40), NextSplit
     DEF ConfigureClient, Inform, EnableSession, SendResult, EndSession, GiveUp, NewResult,
       Elapse, Supervise, ConfirmClose, SessionClosed, EndClose, Post, Posted, Header200, ContentLength0,
       Header204, Lock204, Ready204, AskOnInform, ReadyOnInform, LockResponse, Response, HoldResponse,
       LockRpc, Rpc, ForceClose, ReceiveBody, BeginClose, vars
<1>2. \A t \in Threads : stage[t] \notin Ending
  BY <1>1, SessionAssumption DEF EnableSession, CalmInv, Views, Threads
<1> QED BY <1>2 DEF PunctualInv, CalmInv, Ready, Views

\* A session that succeeds is closed by a thread that found nothing left to send.
LEMMA DoneStep ==
  ASSUME Types, CalmInv, PunctualInv, [Next]_vars, status' = "completed", status # "completed"
  PROVE  results' = 0
<1> USE DEF comVars, engVars, httpVars, Confirm
<1>1. \E t \in Threads : SessionClosed(t)
  BY NextSplit
     DEF ConfigureClient, Inform, EnableSession, SendResult, EndSession, GiveUp, NewResult,
       Elapse, Supervise, ConfirmClose, EndClose, Post, Posted, Header200, ContentLength0,
       Header204, Lock204, Ready204, AskOnInform, ReadyOnInform, LockResponse, Response, HoldResponse,
       LockRpc, Rpc, ForceClose, ReceiveBody, BeginClose, IsReadyToClose, vars
<1>2. PICK t \in Threads : SessionClosed(t)
  BY <1>1
<1>3. stage[t] = "complete" /\ UNCHANGED results
  BY <1>2 DEF SessionClosed
<1> QED BY <1>2, <1>3 DEF PunctualInv, Ready

\* Two sessions have nothing of one another: none begins with the flags of the one
\* before, and none succeeds and leaves a result behind.
THEOREM SessionsApartAlways == ASSUME Punctual PROVE Spec => SessionsApart
<1>1. Types /\ CalmInv /\ PunctualInv /\ [Next]_vars => [bSession' /\ ~bSession => ~irtc /\ ~closingFlag]_vars
  BY FreshStep
<1>2. Types /\ CalmInv /\ PunctualInv /\ [Next]_vars
      => [status' = "completed" /\ status # "completed" => results' = 0]_vars
  BY DoneStep
<1>3. Spec => FlagsFresh
  BY <1>1, PunctualAlways, PTL DEF FlagsFresh, Spec
<1>4. Spec => CompletedIsDone
  BY <1>2, PunctualAlways, PTL DEF CompletedIsDone, Spec
<1> QED BY <1>3, <1>4 DEF SessionsApart
===============================================================================
