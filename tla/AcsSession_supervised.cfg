\* An ACS that answers in order, or no more.
SPECIFICATION FairSpec
CONSTANTS
  EmptyMessage = "empty"
  NoMessage = NoMessage
  Senders = {s1}
  MaxPending = 2
  Stops = FALSE
  Supervisor = supervisor
  NoOwner = NoOwner
  MaxResults = 2
  Silences = {"dead"}
  Messages <- AgentMessages
  Bodies <- OrderlyBodies
INVARIANTS
  SessionConsistent
  NoLockCycle
PROPERTIES
  SessionsApart
  WaitEnds
  ClientGoesOn
