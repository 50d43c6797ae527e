--------------------------- MODULE DataStoreProofs ---------------------------
(***************************************************************************)
(* Proofs about DataStore, for any number of changes and of stops.         *)
(***************************************************************************)
EXTENDS DataStore, TLAPS

\* A version that has been saved can be read from the file f.
Covers(f) == Good(f) /\ f >= saved

\* While init or sync is in _writeParameters, the backup holds what was saved,
\* unless nothing was, and the data file cannot be mistaken for it; before and
\* after, the data file does.
FilesByPosition ==
  /\ pc \in {"run", "ctrl", "data", "initCtrl"} => Covers(obj)
  /\ pc \in {"renamed", "open"} => Covers(backup)
  /\ pc \in {"initRenamed", "initOpen", "ini"} => saved = None \/ Covers(backup)
  /\ pc = "off" => saved = None \/ Covers(obj) \/ (~Good(obj) /\ Covers(backup))
  /\ pc \in {"renamed", "open", "initRenamed", "initOpen", "ini"} => ~Good(obj)

\* The memory is not older than what was saved, once it has been read.
MemoryByPosition ==
  /\ pc \notin {"off", "ini"} => parameters >= saved
  /\ pc = "ini" => saved = None
  /\ pc = "initCtrl" => obj = parameters
  /\ marked <= parameters
  /\ pc \in {"initCtrl", "initRenamed", "initOpen", "off", "ini"} => ~dataChanged
  /\ pc \in {"run", "ctrl", "data"} /\ ~dataChanged => marked <= obj /\ obj <= parameters
  /\ pc \in {"run", "data", "renamed", "open"} /\ ~controlChanged
       => control = (IF Good(ctrl) THEN ctrl ELSE 0)

Inv == StoreTypeOK /\ FilesByPosition /\ MemoryByPosition

\* The inductive invariant implies the properties.
LEMMA InvImplies == Inv => Recoverable /\ NeverOlder /\ UnchangedIsSaved
BY StoreAssumption DEF Inv, StoreTypeOK, Position, FilesByPosition, MemoryByPosition, Covers,
  Recoverable, NeverOlder, UnchangedIsSaved, Versions, None, Torn, Good

\* A new device satisfies it.
LEMMA InitInv == Init => Inv
<1>1. Init => dataChanged \in BOOLEAN /\ controlChanged \in BOOLEAN
  BY DEF Init
<1> QED
  BY <1>1, StoreAssumption DEF Init, Inv, StoreTypeOK, Position, FilesByPosition, MemoryByPosition, Covers,
    Versions, None, Torn, Good

\* Every step keeps the types.
LEMMA StepType ==
  ASSUME Inv, [Next]_storeVars
  PROVE  StoreTypeOK'
<1> USE StoreAssumption DEF Inv, StoreTypeOK, Versions, None, Torn, storeVars, memory, files
<1>1. CASE ChangeParameters
  BY <1>1 DEF ChangeParameters
<1>1a. CASE ResetDiagnostics
  BY <1>1a DEF ResetDiagnostics
<1>2. CASE ChangeControl
  BY <1>2 DEF ChangeControl
<1>3. CASE Sync
  BY <1>3 DEF Sync, Position
<1>4. CASE WriteControl
  BY <1>4 DEF WriteControl, Position
<1>5. CASE SyncEnds
  BY <1>5 DEF SyncEnds, Position
<1>6. CASE Rename
  BY <1>6 DEF Rename, Renamed, Position
<1>7. CASE Open
  BY <1>7 DEF Open, Opened, Position
<1>8. CASE WriteParameters
  BY <1>8 DEF WriteParameters, Returned, Position
<1>9. CASE Restore
  BY <1>9 DEF Restore, Position, Good
<1>10. CASE Crash
  <2>1. dataChanged' \in BOOLEAN /\ controlChanged' \in BOOLEAN
    BY <1>10, Zenon DEF Crash
  <2> QED
    BY <1>10, <2>1 DEF Crash, Position
<1>11. CASE BootData \/ BootBackup
  BY <1>11 DEF BootData, BootBackup, Good, Position
<1>12. CASE BootReset \/ ReadIni \/ ReadControl
  BY <1>12 DEF BootReset, ReadIni, ReadControl, Good, Position
<1>13. CASE UNCHANGED storeVars
  BY <1>13
<1> QED
  BY <1>1, <1>1a, <1>2, <1>3, <1>4, <1>5, <1>6, <1>7, <1>8, <1>9, <1>10, <1>11, <1>12, <1>13 DEF Next

\* Every step keeps the files and the memory in agreement with what was saved.
LEMMA StepPosition ==
  ASSUME Inv, [Next]_storeVars
  PROVE  FilesByPosition' /\ MemoryByPosition'
<1> USE StoreAssumption DEF Inv, StoreTypeOK, FilesByPosition, MemoryByPosition, Covers, Recoverable,
      Good, Versions, None, Torn, storeVars, memory, files
<1>1. CASE ChangeParameters
  BY <1>1 DEF ChangeParameters
<1>1a. CASE ResetDiagnostics
  BY <1>1a DEF ResetDiagnostics
<1>2. CASE ChangeControl
  BY <1>2 DEF ChangeControl
<1>3. CASE Sync
  BY <1>3 DEF Sync
<1>4. CASE WriteControl
  BY <1>4 DEF WriteControl
<1>5. CASE SyncEnds
  BY <1>5 DEF SyncEnds
<1>6. CASE Rename
  BY <1>6 DEF Rename, Renamed
<1>7. CASE Open
  BY <1>7 DEF Open, Opened
<1>8. CASE WriteParameters
  BY <1>8 DEF WriteParameters, Returned
<1>9. CASE Restore
  BY <1>9 DEF Restore
<1>10. CASE Crash
  BY <1>10 DEF Crash, Position
<1>11. CASE BootData \/ BootBackup
  BY <1>11 DEF BootData, BootBackup
<1>12. CASE BootReset \/ ReadIni \/ ReadControl
  BY <1>12 DEF BootReset, ReadIni, ReadControl
<1>13. CASE UNCHANGED storeVars
  BY <1>13
<1> QED
  BY <1>1, <1>1a, <1>2, <1>3, <1>4, <1>5, <1>6, <1>7, <1>8, <1>9, <1>10, <1>11, <1>12, <1>13 DEF Next

\* It holds of every behaviour.
LEMMA InvInvariant == Spec => []Inv
<1>1. Inv /\ [Next]_storeVars => Inv'
  BY StepType, StepPosition DEF Inv
<1> QED
  BY InitInv, <1>1, PTL DEF Spec

\* The memory and the files keep their types (DM_DAT1_ParameterData.c).
THEOREM StoreTypeCorrect == Spec => []StoreTypeOK
<1>1. Inv => StoreTypeOK
  BY DEF Inv
<1> QED
  BY InvInvariant, <1>1, PTL

\* Whatever moment the agent is stopped at, in sync or in init, one of the two
\* files written by _writeParameters holds all that was saved.
THEOREM SavedIsRecoverable == Spec => []Recoverable
BY InvInvariant, InvImplies, PTL

\* The agent that DM_ENG_ParameterData_init has started never has parameters
\* older than those it has saved.
THEOREM NeverRollsBack == Spec => []NeverOlder
BY InvInvariant, InvImplies, PTL

\* What was saved is not lost, and is what the agent starts with again.
THEOREM SavedForGood == Spec => []CrashSafe
<1>1. Recoverable /\ NeverOlder => CrashSafe
  BY DEF CrashSafe
<1> QED
  BY SavedIsRecoverable, NeverRollsBack, <1>1, PTL

\* What sync would not write is in the files already, but for the results of
\* diagnostics that DM_ENG_Parameter_resetValue has reset without marking the data.
THEOREM MarkedIsSaved == Spec => []UnchangedIsSaved
BY InvInvariant, InvImplies, PTL
=============================================================================
