\* Two threads, of a scheduler that the device stops and restarts; timeouts, late faults, connection requests, timers set by the system.
SPECIFICATION Spec
CONSTANTS
  Threads = {t1, t2}
  NoThread = NoThread
  Reported = {"UP", "DOWN"}
  InitialStatus = "DOWN"
  Posted = {"CONNECTION_REQUEST"}
  Transfers = {}
  Downloads = {}
  InitialRetryDelay = 1
  MaxRetryDelay = 1
  MaxRetryCount = 1
  Disturbances <- AllDisturbances
INVARIANTS
  SessionUnderLock
SYMMETRY ThreadSymmetry
CONSTRAINT TwoAreQuiet
