\* The ACS answers the Inform with a fault before the session is enabled.
\* The threads wait for one another, so the system may stop.
SPECIFICATION FairSpec
CONSTANTS
  EmptyMessage = "empty"
  NoMessage = NoMessage
  Senders = {s1}
  MaxPending = 2
  Stops = FALSE
  Supervisor = supervisor
  NoOwner = NoOwner
  MaxResults = 1
  Silences = {"dead"}
  Messages <- AgentMessages
  Bodies <- FaultBodies
PROPERTIES
  MutexReleased
CHECK_DEADLOCK FALSE
