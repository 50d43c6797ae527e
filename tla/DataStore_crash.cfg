\* The agent stops at any moment.
SPECIFICATION Spec
CONSTANTS
  MaxVersion <- ThreeChanges
INVARIANTS
  CrashSafe
  UnchangedIsSaved
