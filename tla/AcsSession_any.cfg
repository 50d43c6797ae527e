\* An ACS that also holds, faults and answers late; two threads can be created.
\* The locks can end in a circle here (AcsSession_fault), so the system may stop.
SPECIFICATION Spec
CONSTANTS
  EmptyMessage = "empty"
  NoMessage = NoMessage
  Senders = {s1, s2}
  MaxPending = 2
  Stops = FALSE
  Supervisor = supervisor
  NoOwner = NoOwner
  MaxResults = 1
  Silences = {"late", "dead", "long"}
  Messages <- AgentMessages
  Bodies <- AllBodies
INVARIANTS
  CloseIsPending
PROPERTIES
  ImplementsSession
CHECK_DEADLOCK FALSE
