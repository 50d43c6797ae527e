------------------------------ MODULE HttpClient ------------------------------
(***************************************************************************)
(* The HTTP client of the agent (DM_COM_HttpClientInterface.c): one curl   *)
(* handle, one message being sent by a thread of its own, a list of        *)
(* pending messages, and the request to close the session.                 *)
(*                                                                         *)
(* Every section under mutexHttpSendThreadControl is one step.  A thread   *)
(* of _sendHttpMessage gives the mutex back only around curl_easy_perform, *)
(* which is where it is while its state is "perform".                      *)
(***************************************************************************)
EXTENDS Naturals, Sequences

CONSTANTS
  Messages,       \* what the communication module posts
  EmptyMessage,   \* EMPTY_HTTP_MESSAGE
  NoMessage,      \* the NULL pointer
  Senders,        \* threads that can be created (a bound)
  MaxPending,     \* bound on the list of pending messages
  Stops           \* does DM_COM_STOP happen in this instance

ASSUME MessagesAssumption == EmptyMessage \in Messages /\ NoMessage \notin Messages
ASSUME BoundsAssumption == MaxPending \in Nat /\ Stops \in BOOLEAN

VARIABLES
  acsURL,          \* is _acsURLPtr set
  sessionHandle,   \* is _sessionHandle set
  beingSent,       \* _httpMessageBeingSent
  pending,         \* _pendingHttpMessages
  closeExpected,   \* _closeHttpSessionExpected
  retryBuffer,     \* g_retryBuffer
  sender,          \* per thread: "off", "start" (before its first lock), "perform"
  posting          \* per thread: the message it gave to curl

httpVars == <<acsURL, sessionHandle, beingSent, pending, closeExpected, retryBuffer,
              sender, posting>>

\* Types: the client and its threads; only messages are queued or given to curl.
TypeOK ==
  /\ acsURL \in BOOLEAN /\ sessionHandle \in BOOLEAN /\ closeExpected \in BOOLEAN
  /\ beingSent \in Messages \cup {NoMessage}
  /\ pending \in Seq(Messages)
  /\ retryBuffer \in Messages \cup {NoMessage}
  /\ sender \in [Senders -> {"off", "start", "perform"}]
  /\ posting \in [Senders -> Messages \cup {NoMessage}]

HttpInit ==
  /\ acsURL = FALSE /\ sessionHandle = FALSE /\ closeExpected = FALSE
  /\ beingSent = NoMessage /\ pending = <<>> /\ retryBuffer = NoMessage
  /\ sender = [s \in Senders |-> "off"]
  /\ posting = [s \in Senders |-> NoMessage]

-----------------------------------------------------------------------------
\* DM_ConfigureHttpClient
Configure ==
  /\ acsURL' = TRUE
  /\ UNCHANGED <<sessionHandle, beingSent, pending, closeExpected, retryBuffer, sender, posting>>

\* DM_UpdateRetryBuffer: an empty message empties the buffer.
UpdateRetryBuffer(m) == retryBuffer' = IF m = EmptyMessage THEN NoMessage ELSE m

\* The message waits for the thread that is sending another one.
AddPendingHttpMessage(m) ==
  /\ ~closeExpected /\ beingSent # NoMessage
  /\ Len(pending) < MaxPending
  /\ pending' = Append(pending, m)
  /\ UNCHANGED <<acsURL, sessionHandle, beingSent, closeExpected, retryBuffer, sender, posting>>

\* The HTTP session is set up if there is none, and a thread is created.
StartSending(m) ==
  /\ ~closeExpected /\ beingSent = NoMessage
  /\ sessionHandle \/ acsURL
  /\ sessionHandle' = TRUE
  /\ beingSent' = m
  /\ \E s \in Senders : sender[s] = "off" /\ sender' = [sender EXCEPT ![s] = "start"]
  /\ UpdateRetryBuffer(m)
  /\ UNCHANGED <<acsURL, pending, closeExpected, posting>>

\* DM_SendHttpMessage returns DM_OK.
SendHttpMessage(m) == AddPendingHttpMessage(m) \/ StartSending(m)

\* DM_SendHttpMessage returns DM_ERR: a session is being closed, the session
\* cannot be set up, or no thread can be created.
RefuseHttpMessage ==
  /\ closeExpected \/ beingSent = NoMessage
  /\ \/ UNCHANGED sessionHandle
     \/ ~closeExpected /\ acsURL /\ sessionHandle' = TRUE
  /\ UNCHANGED <<acsURL, beingSent, pending, closeExpected, retryBuffer, sender, posting>>

\* DM_CloseHttpSession(NORMAL_CLOSE): the thread that is sending will close.
CloseHttpSession ==
  /\ pending' = <<>>
  /\ closeExpected' = (beingSent # NoMessage)
  /\ sessionHandle' = (sessionHandle /\ beingSent # NoMessage)
  /\ UNCHANGED <<acsURL, beingSent, retryBuffer, sender, posting>>

\* DM_StopHttpClient: an immediate close.
StopHttpClient ==
  /\ Stops
  /\ acsURL' = FALSE /\ sessionHandle' = FALSE /\ closeExpected' = FALSE
  /\ beingSent' = NoMessage /\ pending' = <<>>
  /\ UNCHANGED <<retryBuffer, sender, posting>>

-----------------------------------------------------------------------------
(* The thread: _sendHttpMessage *)

\* The message being sent, if any, is given to curl; else the thread ends, and
\* closes the session if that is expected.
Perform(s, m) ==
  /\ posting' = [posting EXCEPT ![s] = m]
  /\ sender' = [sender EXCEPT ![s] = IF m = NoMessage THEN "off" ELSE "perform"]
  /\ closeExpected' = (closeExpected /\ m # NoMessage)
  /\ sessionHandle' = (sessionHandle /\ (m # NoMessage \/ ~closeExpected))
  /\ UNCHANGED <<acsURL, retryBuffer>>

BeginSending(s) ==
  /\ sender[s] = "start"
  /\ Perform(s, beingSent)
  /\ UNCHANGED <<beingSent, pending>>

\* Mutant of EndSending: the pending messages are sent last in, first out.
EndSendingLast(s) ==
  /\ sender[s] = "perform"
  /\ beingSent' = IF pending = <<>> THEN NoMessage ELSE pending[Len(pending)]
  /\ pending' = IF pending = <<>> THEN <<>> ELSE SubSeq(pending, 1, Len(pending) - 1)
  /\ Perform(s, beingSent')

\* Mutant of EndSending: the thread forgets that a close is expected.
EndSendingOpen(s) ==
  /\ sender[s] = "perform"
  /\ beingSent' = IF pending = <<>> THEN NoMessage ELSE Head(pending)
  /\ pending' = IF pending = <<>> THEN <<>> ELSE Tail(pending)
  /\ posting' = [posting EXCEPT ![s] = beingSent']
  /\ sender' = [sender EXCEPT ![s] = IF beingSent' = NoMessage THEN "off" ELSE "perform"]
  /\ UNCHANGED <<acsURL, retryBuffer, closeExpected, sessionHandle>>

\* Mutant of EndSending: the thread ends after one message.
EndSendingOnce(s) ==
  /\ sender[s] = "perform"
  /\ beingSent' = NoMessage
  /\ UNCHANGED pending
  /\ Perform(s, NoMessage)

\* curl_easy_perform returns; the first pending message is next.
EndSending(s) ==
  /\ sender[s] = "perform"
  /\ beingSent' = IF pending = <<>> THEN NoMessage ELSE Head(pending)
  /\ pending' = IF pending = <<>> THEN <<>> ELSE Tail(pending)
  /\ Perform(s, beingSent')

-----------------------------------------------------------------------------
HttpNext ==
  \/ Configure \/ RefuseHttpMessage \/ CloseHttpSession \/ StopHttpClient
  \/ \E m \in Messages : SendHttpMessage(m)
  \/ \E s \in Senders : BeginSending(s) \/ EndSending(s)

HttpSpec == HttpInit /\ [][HttpNext]_httpVars

\* curl gives up after CURL_TIMEOUT, so every thread goes on.
SenderFairness == \A s \in Senders : WF_httpVars(BeginSending(s) \/ EndSending(s))
FairHttpSpec == HttpSpec /\ SenderFairness

-----------------------------------------------------------------------------
(* Properties *)

\* While the client is not stopped, one thread at most uses the curl handle, it
\* posts the message being sent, and the handle is not cleaned up under it:
\* CloseHttpSession and SendHttpMessage come from other threads meanwhile.
OneSender ==
  ~Stops =>
    /\ \A s \in Senders :
         /\ sender[s] # "off" => sessionHandle /\ beingSent # NoMessage
         /\ sender[s] = "perform" => posting[s] = beingSent
    /\ \A s, u \in Senders : sender[s] # "off" /\ sender[u] # "off" => s = u

\* The request to close is pending only while a thread is there that will
\* perform it: with the flag stuck, every later message would be refused.
CloseIsPending == closeExpected => \E s \in Senders : sender[s] # "off"

\* A close that is expected takes place, and the client accepts messages again.
CloseEnds == closeExpected ~> ~closeExpected

\* The first pending message goes on the wire, unless a close gives it up: the
\* thread that is sending goes on with the list.
PendingIsSent ==
  \A m \in Messages : (pending # <<>> /\ Head(pending) = m) ~> (beingSent = m \/ pending = <<>>)

\* The client does not stand still: neither a close nor a message waits for ever.
ClientGoesOn == CloseEnds /\ PendingIsSent

\* What the communication module sees of the client.
Session == INSTANCE HttpSession WITH
  open    <- sessionHandle,
  closing <- closeExpected,
  queue   <- IF beingSent = NoMessage THEN <<>> ELSE <<beingSent>> \o pending,
  wire    <- {posting[s] : s \in {u \in Senders : sender[u] = "perform"}}

\* The client implements the abstract session: messages are on the wire one at
\* a time, in order, over an open connection that a close does not cut.
ImplementsSession == Session!SessionSpec
=============================================================================
