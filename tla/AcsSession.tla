------------------------------ MODULE AcsSession ------------------------------
(***************************************************************************)
(* A session with the ACS as the communication module runs it (dm_com.c,   *)
(* dm_com_rpc_acs.c), between three kinds of threads: the scheduler that   *)
(* opens the session, the threads of the HTTP client (HttpClient) in whose *)
(* curl callbacks the answers are handled, and the supervisor that closes  *)
(* a session that lasts too long.                                          *)
(*                                                                         *)
(* Locks.  mutexAcsSession is held across steps: acsMutex is its owner.    *)
(* schedulerMutex and _statusMutex are held across steps only by the       *)
(* scheduler in sendMessage, while sched = "informing"; all other sections *)
(* under them are one step.  The data lock is the scheduler's from the     *)
(* Inform to the end of its session.                                       *)
(***************************************************************************)
EXTENDS HttpClient

CONSTANTS
  Supervisor,     \* the thread DM_COM_ACS_SESSION_SUPERVISOR
  NoOwner,        \* nobody holds the mutex
  Bodies,         \* the SOAP bodies the ACS may answer with
  MaxResults,     \* bound on the TransferCompletes and RequestDownloads to send
  Silences        \* how the ACS may fail to answer: "late", "dead", "long"

ASSUME MessageKinds ==
  /\ Messages = {"inform", "request", "answer", EmptyMessage}
  /\ EmptyMessage \notin {"inform", "request", "answer"}
ASSUME BodyKinds == Bodies \subseteq {"InformResponse", "Hold", "Response", "Rpc", "Retry", "Fault"}
ASSUME SessionAssumption ==
  /\ Supervisor \notin Senders /\ NoOwner \notin Senders \cup {Supervisor}
  /\ MaxResults \in Nat /\ Silences \subseteq {"late", "dead", "long"} /\ ~Stops

VARIABLES
  bSession,       \* g_DmComData.bSession
  irtc,           \* g_DmComData.bIRTCInProgess
  closingFlag,    \* cwmpSessionClosingFlag
  ignore204,      \* ignoreHttpNoContentMsgFlag
  elapsed,        \* ACSSESSIONTIMEOUT has passed since bSessionOpeningTime
  acsMutex,       \* owner of mutexAcsSession
  stage,          \* where each thread is in its callback, or in its closing of the session
  sched,          \* the scheduler: "idle", "informing", "waiting"
  status,         \* sendMessageStatus of the engine
  results,        \* number of results still to send
  sending,        \* transferIdSending, requestDownloadSending
  rpcLock         \* does a callback hold the data lock for one RPC

comVars == <<bSession, irtc, closingFlag, ignore204, elapsed, acsMutex>>
engVars == <<sched, status, results, sending, rpcLock>>
vars == <<httpVars, comVars, engVars, stage>>

Threads == Senders \cup {Supervisor}

\* Positions of a thread: in curl; in a callback; in _closeACSSession.
Stages == {"wait", "body", "done",
           "lock204", "ready204", "inform", "irtc", "lockResponse", "response", "lockRpc", "rpc", "force",
           "confirm", "complete", "cancel", "unflag"}

Opened == {"opening", "opened"}

Init ==
  /\ HttpInit
  /\ bSession = FALSE /\ irtc = FALSE /\ closingFlag = FALSE /\ ignore204 = TRUE
  /\ elapsed = FALSE /\ acsMutex = NoOwner
  /\ stage = [t \in Threads |-> "wait"]
  /\ sched = "idle" /\ status = "cancelled" /\ results \in 0 .. MaxResults /\ sending = FALSE
  /\ rpcLock = FALSE

Goto(t, p) == stage' = [stage EXCEPT ![t] = p]

\* DM_SendHttpMessage with either result.
TrySend(m) == SendHttpMessage(m) \/ RefuseHttpMessage

-----------------------------------------------------------------------------
(* The engine, as the communication module calls it *)

\* schedulerMutex and _statusMutex can be taken.
EngineFree == sched # "informing"

\* isSessionOpened(true)
Confirm ==
  /\ status' = IF status = "opening" THEN "opened" ELSE status
  /\ results' = IF status \in Opened /\ sending THEN results - 1 ELSE results
  /\ sending' = (sending /\ status \notin Opened)

\* Mutant of IsReadyToClose: only the result being sent counts.
IsReadyToCloseEarly(ready) ==
  /\ EngineFree /\ Confirm
  /\ ready = (status \notin Opened \/ ~sending')
  /\ UNCHANGED <<sched, rpcLock>>

\* DM_ENG_IsReadyToClose, when its answer is ready: an engine without session is.
IsReadyToClose(ready) ==
  /\ EngineFree /\ Confirm
  /\ ready = (status \notin Opened \/ (~sending' /\ results' = 0))
  /\ UNCHANGED <<sched, rpcLock>>

\* sendMessage: the Inform is posted with schedulerMutex and _statusMutex held.
Inform ==
  /\ sched = "idle" /\ ~rpcLock
  /\ \/ SendHttpMessage("inform") /\ sched' = "informing"
     \/ RefuseHttpMessage /\ UNCHANGED sched
  /\ status' = "cancelled"
  /\ UNCHANGED <<comVars, results, sending, rpcLock, stage>>

\* DM_ACS_InformCallback enables the session, and sendMessage returns.
EnableSession ==
  /\ sched = "informing" /\ acsMutex = NoOwner
  /\ bSession' = TRUE /\ elapsed' = FALSE
  /\ sched' = "waiting" /\ status' = "opening"
  /\ UNCHANGED <<httpVars, irtc, closingFlag, ignore204, acsMutex, results, sending, rpcLock, stage>>

\* run() in a session: the next TransferComplete or RequestDownload.
SendResult ==
  /\ sched = "waiting" /\ status = "opened" /\ ~sending /\ results > 0
  /\ TrySend("request")
  /\ sending' = TRUE
  /\ UNCHANGED <<comVars, sched, status, results, rpcLock, stage>>

\* run() gives the session up after MAX_SESSION_TIME.
GiveUp ==
  /\ "long" \in Silences /\ sched = "waiting" /\ status \in Opened
  /\ status' = "cancelled" /\ sending' = FALSE
  /\ UNCHANGED <<httpVars, comVars, sched, results, rpcLock, stage>>

\* run() sees that the session is over, and gives the data lock back.
EndSession ==
  /\ sched = "waiting" /\ status \notin Opened
  /\ sched' = "idle"
  /\ UNCHANGED <<httpVars, comVars, status, results, sending, rpcLock, stage>>

\* A transfer ends, or a download is requested, between sessions.
NewResult ==
  /\ sched = "idle" /\ results < MaxResults
  /\ results' = results + 1
  /\ UNCHANGED <<httpVars, comVars, sched, status, sending, rpcLock, stage>>

-----------------------------------------------------------------------------
(* _closeACSSession *)

\* Mutant of BeginClose: bSession is left.
BeginCloseKept(t, success) ==
  /\ CloseHttpSession
  /\ ignore204' = TRUE /\ closingFlag' = FALSE
  /\ Goto(t, IF success THEN "confirm" ELSE "cancel")
  /\ UNCHANGED <<bSession, irtc, elapsed, engVars>>

\* Its first part; what follows calls the engine.
BeginClose(t, success) ==
  /\ CloseHttpSession
  /\ bSession' = FALSE /\ ignore204' = TRUE /\ closingFlag' = FALSE
  /\ Goto(t, IF success THEN "confirm" ELSE "cancel")
  /\ UNCHANGED <<irtc, elapsed, engVars>>

\* sessionClosed(true) first calls isSessionOpened(true).
ConfirmClose(t) ==
  /\ stage[t] = "confirm" /\ EngineFree
  /\ Confirm
  /\ Goto(t, "complete")
  /\ UNCHANGED <<httpVars, comVars, sched, rpcLock>>

SessionClosed(t) ==
  /\ stage[t] \in {"complete", "cancel"} /\ EngineFree
  /\ status' = IF stage[t] = "complete" THEN "completed" ELSE "cancelled"
  /\ sending' = FALSE
  /\ Goto(t, "unflag")
  /\ UNCHANGED <<httpVars, comVars, sched, results, rpcLock>>

\* The end of _closeACSSession, and of the caller's section.  The caller that
\* does not hold the mutex is in the header callback, which the body follows.
EndClose(t) ==
  /\ stage[t] = "unflag"
  /\ irtc' = FALSE
  /\ acsMutex' = IF acsMutex = t THEN NoOwner ELSE acsMutex
  /\ Goto(t, IF t = Supervisor THEN "wait" ELSE IF acsMutex = t THEN "done" ELSE "body")
  /\ UNCHANGED <<httpVars, bSession, closingFlag, ignore204, elapsed, engVars>>

Close(t) == ConfirmClose(t) \/ SessionClosed(t) \/ EndClose(t)

-----------------------------------------------------------------------------
(* DM_COM_ACS_SESSION_SUPERVISOR *)

Elapse ==
  /\ bSession /\ ~elapsed
  /\ \/ "late" \in Silences
     \/ "dead" \in Silences /\ \A s \in Senders : sender[s] = "off"
  /\ elapsed' = TRUE
  /\ UNCHANGED <<httpVars, bSession, irtc, closingFlag, ignore204, acsMutex, engVars, stage>>

\* Mutant of Supervise: only the HTTP session is closed.
SuperviseHttp ==
  /\ stage[Supervisor] = "wait" /\ acsMutex = NoOwner
  /\ bSession /\ elapsed
  /\ CloseHttpSession
  /\ UNCHANGED <<comVars, engVars, stage>>

Supervise ==
  /\ stage[Supervisor] = "wait" /\ acsMutex = NoOwner
  /\ bSession /\ elapsed
  /\ acsMutex' = Supervisor
  /\ BeginClose(Supervisor, FALSE)

-----------------------------------------------------------------------------
(* The thread of the HTTP client: DM_HttpCallbackClientHeader *)

\* The ACS answers what TR-069 expects: InformResponse to an Inform, the
\* response to a TransferComplete or RequestDownload, an RPC or nothing to an
\* answer or an empty message; and a fault to anything.
Expected(m) ==
  Bodies \cap (CASE m = "inform" -> {"InformResponse", "Hold", "Retry", "Fault"}
                 [] m = "request" -> {"Response", "Retry", "Fault"}
                 [] OTHER -> {"Rpc", "Retry", "Fault"})

Http(s, p) == sender[s] = "perform" /\ stage[s] = p

\* 200 OK
Header200(s) ==
  /\ Http(s, "wait")
  /\ IF closingFlag
     THEN BeginClose(s, TRUE) /\ UNCHANGED acsMutex
     ELSE /\ ignore204' = FALSE /\ Goto(s, "body")
          /\ UNCHANGED <<httpVars, bSession, irtc, closingFlag, elapsed, acsMutex, engVars>>

\* Content-Length: 0 after 200 OK
ContentLength0(s) ==
  /\ Http(s, "body") /\ posting[s] \in {"answer", EmptyMessage} /\ irtc /\ ~closingFlag
  /\ \/ SendHttpMessage(EmptyMessage) /\ closingFlag' = TRUE
     \/ RefuseHttpMessage /\ UNCHANGED closingFlag
  /\ Goto(s, "done")
  /\ UNCHANGED <<bSession, irtc, ignore204, elapsed, acsMutex, engVars>>

\* 204 No Content; the first of a session is ignored.
Header204(s) ==
  /\ Http(s, "wait") /\ posting[s] # "request"
  /\ ignore204' = FALSE
  /\ Goto(s, IF ignore204 THEN "done" ELSE "lock204")
  /\ UNCHANGED <<httpVars, bSession, irtc, closingFlag, elapsed, acsMutex, engVars>>

Lock204(s) ==
  /\ Http(s, "lock204") /\ acsMutex = NoOwner
  /\ IF bSession /\ irtc
     THEN acsMutex' = s /\ BeginClose(s, TRUE)
     ELSE /\ acsMutex' = IF bSession THEN s ELSE NoOwner
          /\ Goto(s, IF bSession THEN "ready204" ELSE "done")
          /\ UNCHANGED <<httpVars, bSession, irtc, closingFlag, ignore204, elapsed, engVars>>

\* The engine is asked; if it is ready an empty message is sent.
Ready204(s) ==
  /\ Http(s, "ready204")
  /\ \E ready \in BOOLEAN :
       /\ IsReadyToClose(ready)
       /\ irtc' = ready
       /\ \/ ready /\ SendHttpMessage(EmptyMessage) /\ closingFlag' = TRUE
          \/ ready /\ RefuseHttpMessage /\ UNCHANGED closingFlag
          \/ ~ready /\ UNCHANGED <<httpVars, closingFlag>>
  /\ acsMutex' = NoOwner
  /\ Goto(s, "done")
  /\ UNCHANGED <<bSession, ignore204, elapsed>>

-----------------------------------------------------------------------------
(* The thread of the HTTP client: DM_ParseSoapBodyMessage *)

\* The session timer is updated under the mutex, then the body is looked at.
ReceiveBody(s, b) ==
  /\ Http(s, "body") /\ b \in Expected(posting[s]) /\ acsMutex = NoOwner
  /\ elapsed' = FALSE
  /\ Goto(s, CASE b = "InformResponse" -> "inform" [] b = "Response" -> "lockResponse"
               [] b = "Rpc" -> "lockRpc" [] b = "Fault" -> "force" [] OTHER -> "done")
  /\ CASE b = "Hold" -> TrySend(EmptyMessage)
       [] b = "Retry" /\ retryBuffer # NoMessage -> TrySend(retryBuffer)
       [] OTHER -> UNCHANGED httpVars
  /\ UNCHANGED <<bSession, irtc, closingFlag, ignore204, acsMutex, engVars>>

\* InformResponse: the engine is asked without the mutex...
AskOnInform(s) ==
  /\ Http(s, "inform")
  /\ \E ready \in BOOLEAN : IsReadyToClose(ready) /\ Goto(s, IF ready THEN "irtc" ELSE "done")
  /\ UNCHANGED <<httpVars, comVars>>

\* ... and its answer is written down later.
ReadyOnInform(s) ==
  /\ Http(s, "irtc")
  /\ irtc' = TRUE
  /\ TrySend(EmptyMessage)
  /\ Goto(s, "done")
  /\ UNCHANGED <<bSession, closingFlag, ignore204, elapsed, acsMutex, engVars>>

\* Mutant of LockResponse: bSession is not looked at.
LockResponseAlways(s) ==
  /\ Http(s, "lockResponse") /\ acsMutex = NoOwner
  /\ acsMutex' = s
  /\ Goto(s, "response")
  /\ UNCHANGED <<httpVars, bSession, irtc, closingFlag, ignore204, elapsed, engVars>>

\* TransferCompleteResponse, RequestDownloadResponse. DM_RemoveHeaderIDFromTab
\* always answers DM_OK (dm_com.c:5035-5038): the branch of its failure is dead.
LockResponse(s) ==
  /\ Http(s, "lockResponse") /\ acsMutex = NoOwner
  /\ acsMutex' = IF bSession THEN s ELSE NoOwner
  /\ Goto(s, IF bSession THEN "response" ELSE "done")
  /\ UNCHANGED <<httpVars, bSession, irtc, closingFlag, ignore204, elapsed, engVars>>

Response(s) ==
  /\ Http(s, "response")
  /\ \E ready \in BOOLEAN :
       /\ IsReadyToClose(ready)
       /\ irtc' = (irtc \/ ready)
       /\ IF ready THEN TrySend(EmptyMessage) ELSE UNCHANGED httpVars
  /\ acsMutex' = NoOwner
  /\ Goto(s, "done")
  /\ UNCHANGED <<bSession, closingFlag, ignore204, elapsed>>

\* With HoldRequests the engine is not asked.
HoldResponse(s) ==
  /\ Http(s, "response") /\ "Hold" \in Bodies
  /\ TrySend(EmptyMessage)
  /\ acsMutex' = NoOwner
  /\ Goto(s, "done")
  /\ UNCHANGED <<bSession, irtc, closingFlag, ignore204, elapsed, engVars>>

\* An RPC of the ACS: the data lock is taken for it when no session is opened.
LockRpc(s) ==
  /\ Http(s, "lockRpc") /\ EngineFree
  /\ Confirm
  /\ status \notin Opened => sched = "idle"
  /\ rpcLock' = (status \notin Opened)
  /\ Goto(s, "rpc")
  /\ UNCHANGED <<httpVars, comVars, sched>>

\* The RPC ends and its answer is sent.
Rpc(s) ==
  /\ Http(s, "rpc")
  /\ rpcLock' = FALSE
  /\ TrySend("answer")
  /\ Goto(s, "done")
  /\ UNCHANGED <<comVars, sched, status, results, sending>>

\* Fault, or a method nobody knows: _forceACSSessionToClose.
ForceClose(s) ==
  /\ Http(s, "force") /\ acsMutex = NoOwner
  /\ acsMutex' = s
  /\ BeginClose(s, FALSE)

Callback(s) ==
  \/ Header200(s) \/ ContentLength0(s) \/ Header204(s) \/ Lock204(s) \/ Ready204(s)
  \/ AskOnInform(s) \/ ReadyOnInform(s) \/ LockResponse(s) \/ Response(s) \/ HoldResponse(s)
  \/ LockRpc(s) \/ Rpc(s) \/ ForceClose(s)
  \/ \E b \in Bodies : ReceiveBody(s, b)
  \/ Close(s)

\* curl_easy_perform is called, and returns after the callbacks; without an
\* answer, or without a body, it returns too.
Post(s) ==
  /\ BeginSending(s)
  /\ UNCHANGED <<comVars, engVars, stage>>

Posted(s) ==
  /\ stage[s] \in {"wait", "body", "done"}
  /\ EndSending(s)
  /\ Goto(s, "wait")
  /\ UNCHANGED <<comVars, engVars>>

-----------------------------------------------------------------------------
ConfigureClient == ~acsURL /\ Configure /\ UNCHANGED <<comVars, engVars, stage>>


SchedulerStep == EnableSession \/ SendResult \/ EndSession
SupervisorStep == Supervise \/ Close(Supervisor)
HttpStep(s) == Post(s) \/ Posted(s) \/ Callback(s)

Next ==
  \/ ConfigureClient \/ Inform \/ SchedulerStep \/ GiveUp \/ NewResult
  \/ Elapse \/ SupervisorStep
  \/ \E s \in Senders : HttpStep(s)

Spec == Init /\ [][Next]_vars

Fairness ==
  /\ WF_vars(SchedulerStep) /\ WF_vars(SupervisorStep) /\ WF_vars(Elapse)
  /\ \A s \in Senders : WF_vars(HttpStep(s))

FairSpec == Spec /\ Fairness

-----------------------------------------------------------------------------
(* Properties *)

\* Types: the flags of dm_com.c, the positions of the threads, and what the engine
\* still has to send.
SessionTypeOK ==
  /\ TypeOK
  /\ bSession \in BOOLEAN /\ irtc \in BOOLEAN /\ closingFlag \in BOOLEAN /\ ignore204 \in BOOLEAN
  /\ elapsed \in BOOLEAN /\ acsMutex \in Threads \cup {NoOwner}
  /\ stage \in [Threads -> Stages]
  /\ sched \in {"idle", "informing", "waiting"}
  /\ status \in Opened \cup {"completed", "cancelled"}
  /\ results \in 0 .. MaxResults /\ sending \in BOOLEAN /\ rpcLock \in BOOLEAN

Closing == \E t \in Threads : stage[t] \in {"confirm", "complete", "cancel"}

\* The two views of the session agree, except while a thread is closing it: what
\* bSession says (to the HTTP server and the supervisor) is what the scheduler
\* waits for.
SessionAgreement == Closing \/ bSession = (status \in Opened)

\* An RPC works on the data under the data lock: the scheduler's, or its own.
RpcUnderLock == \A s \in Senders : stage[s] = "rpc" => rpcLock \/ sched # "idle"

\* What the threads hold of the session is the same for all: its two views, and the lock
\* of the data its RPCs work on.
SessionConsistent == SessionTypeOK /\ SessionAgreement /\ RpcUnderLock

\* The threads never wait for one another in a circle: a thread that has
\* mutexAcsSession and needs the engine, the scheduler that needs the mutex.
NoLockCycle ==
  ~(sched = "informing" /\ \E t \in Threads :
      acsMutex = t /\ stage[t] \in {"ready204", "response", "confirm", "complete", "cancel"})

\* A session begins without the marks of the one before: nobody has yet asked
\* the engine whether it may be closed, and no empty message is closing it.
FlagsFresh == [][bSession' /\ ~bSession => ~irtc /\ ~closingFlag]_vars

\* A session closed with success has no TransferComplete or RequestDownload left
\* to send: the answer of DM_ENG_IsReadyToClose it is closed on still holds.
CompletedIsDone == [][status' = "completed" /\ status # "completed" => results' = 0]_vars

\* Two sessions have nothing of one another: no flag, no result left behind.
SessionsApart == FlagsFresh /\ CompletedIsDone

\* Whoever locks mutexAcsSession unlocks it: the calls of the engine made under
\* it return.
MutexReleased == \A t \in Threads : (acsMutex = t) ~> (acsMutex # t)

\* The scheduler does not wait for ever in a session nobody will close.
WaitEnds == (sched = "waiting" /\ elapsed) ~> (sched # "waiting" \/ ~elapsed)
=============================================================================
