------------------------------ MODULE HttpSession ------------------------------
(***************************************************************************)
(* What the HTTP client promises to the communication module: a session    *)
(* carries one message at a time, in the order in which they were          *)
(* accepted; it is open while a message is on the wire; and a close lets   *)
(* the first message end, gives up the others, and refuses new ones until  *)
(* it is done.                                                             *)
(***************************************************************************)
EXTENDS Sequences

CONSTANT Messages

VARIABLES open, closing, queue, wire

sessionVars == <<open, closing, queue, wire>>

SessionInit == ~open /\ ~closing /\ queue = <<>> /\ wire = {}

\* The first of a non-empty queue goes on the wire; at the end of the queue a
\* close that is expected takes place.
Advance ==
  IF queue' = <<>>
  THEN wire' = {} /\ closing' = FALSE /\ open' = (open /\ ~closing)
  ELSE wire' = {Head(queue')} /\ UNCHANGED <<open, closing>>

Accept(m) ==
  /\ ~closing
  /\ open' = TRUE /\ queue' = Append(queue, m)
  /\ UNCHANGED <<closing, wire>>

Open == ~closing /\ open' = TRUE /\ UNCHANGED <<closing, queue, wire>>

Post == wire = {} /\ queue # <<>> /\ open /\ UNCHANGED queue /\ Advance

Posted == wire # {} /\ queue' = Tail(queue) /\ Advance

Close ==
  /\ queue' = IF queue = <<>> THEN <<>> ELSE <<Head(queue)>>
  /\ closing' = (queue # <<>>)
  /\ open' = (open /\ queue # <<>>)
  /\ UNCHANGED wire

SessionNext == Open \/ Post \/ Posted \/ Close \/ \E m \in Messages : Accept(m)

SessionSpec == SessionInit /\ [][SessionNext]_sessionVars
=============================================================================
