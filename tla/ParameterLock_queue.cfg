\* Two users and two notifiers.
SPECIFICATION FairSpec
CONSTANTS
  NoThread = NoThread
  MaxNotifications = 3
  CreateFails = TRUE
  Users <- LockUsers
  Notifiers <- LockNotifiers
INVARIANTS
  OneOwner
  ExactlyOnce
PROPERTIES
  Released
