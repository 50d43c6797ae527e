\* Two listeners, an ACS that tries again, others that connect, and a policy that changes.
SPECIFICATION FairSpec
CONSTANTS
  ArraySize = 3
  DefaultMax = 1
  DefaultPeriod = 2
  Policies <- SomePolicies
  BootAge = 3
  Forgotten = 3
  Passwords = {pw1, pw2}
  MaxChanges = 1
  MaxStrangers = 1
  MaxSessions = 1
  MaxFaults = 1
  MaxUdp = 1
INVARIANTS
  PolicyHolds
  RefusalJustified
PROPERTIES
  AcsLetIn
