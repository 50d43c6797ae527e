\* One thread, transfers, download requests, value changes and timeouts.
SPECIFICATION FairSpec
CONSTANTS
  Threads = {t1}
  NoThread = NoThread
  Reported = {"UP"}
  InitialStatus = "UNINITIALIZED"
  Posted = {"VALUE_CHANGE", "PERIODIC", "BOOTSTRAP"}
  Transfers = {1}
  Downloads = {1}
  InitialRetryDelay = 1
  MaxRetryDelay = 2
  MaxRetryCount = 2
  Disturbances = {}
INVARIANTS
  RetryCountFaithful
  NoSleepOnWork
PROPERTIES
  NothingForgotten
  WorkIsDone
  DataReleased
