---------------------------- MODULE DeviceAdapter ----------------------------
(***************************************************************************)
(* What DM_DeviceAdapter.c shares between the threads that use it: the     *)
(* flag that is to keep transfers and sessions apart, and the list built   *)
(* from the file DeviceInterfaceStubFile, with its mutex.  The actors are  *)
(* the session of the engine, the threads of the transfers and the thread  *)
(* of the user interface.                                                  *)
(***************************************************************************)
EXTENDS Integers

NoOne == -2      \* the mutex is free

VARIABLES
  busy,          \* _downloadThreadInProgress
  fileMutex,     \* who holds _deviceInterfaceStubFileMutex
  list,          \* is the list built (rootInfoElementPtr)
  file,          \* DeviceInterfaceStubFile: good, partial, empty or missing
  saving,        \* where _saveInfoList is, "no" outside it
  holders,       \* ghost: who is between _transferLock and _transferUnlock
  takenOver      \* ghost: somebody did not wait for the flag; until all have left

deviceVars == <<busy, fileMutex, list, file, saving, holders, takenOver>>

FileStates == {"good", "partial", "empty", "missing"}

\* A list comes out of it.
Readable(f) == f \in {"good", "partial"}

DeviceTypeOK ==
  /\ busy \in BOOLEAN /\ list \in BOOLEAN /\ takenOver \in BOOLEAN
  /\ fileMutex \in Int /\ holders \subseteq Int
  /\ file \in FileStates
  /\ saving \in {"no", "removed", "opened"}

\* DM_ENG_Device_init, in a process that starts.
DM_ENG_Device_init ==
  /\ busy' = FALSE /\ fileMutex' = NoOne /\ list' = FALSE /\ saving' = "no"
  /\ holders' = {} /\ takenOver' = FALSE
  /\ UNCHANGED file

-----------------------------------------------------------------------------
(* The flag *)

\* Mutant of _transferLock: the flag is not looked at.
_transferLockAnyway(p) ==
  /\ busy' = TRUE /\ holders' = holders \cup {p}
  /\ UNCHANGED <<fileMutex, list, file, saving, takenOver>>

_transferLock(p) ==
  /\ ~busy
  /\ busy' = TRUE /\ holders' = holders \cup {p}
  /\ UNCHANGED <<fileMutex, list, file, saving, takenOver>>

\* After thirty seconds the flag is taken as it is.
_transferLockTakesOver(p) ==
  /\ busy
  /\ holders' = holders \cup {p} /\ takenOver' = TRUE
  /\ UNCHANGED <<busy, fileMutex, list, file, saving>>

_transferUnlock(p) ==
  /\ busy' = FALSE
  /\ holders' = holders \ {p}
  /\ takenOver' = (takenOver /\ holders # {p})

-----------------------------------------------------------------------------
(* The list *)

\* The mutex is taken, and kept even when there is no file.
_buildInfoList(p) ==
  /\ fileMutex = NoOne
  /\ fileMutex' = p
  /\ list' = (list \/ Readable(file))
  /\ UNCHANGED <<busy, file, saving, holders, takenOver>>

\* Mutant of _freeInfoList: the mutex is never given back.
_freeInfoListLocked ==
  /\ list' = FALSE
  /\ UNCHANGED fileMutex

\* Without a list it returns before it gives the mutex back.
_freeInfoList ==
  /\ list' = FALSE
  /\ fileMutex' = IF list THEN NoOne ELSE fileMutex

\* _setValue of a name of the list, by the holder of the mutex: the file is removed, ...
_saveInfoList(p) ==
  /\ fileMutex = p /\ list /\ saving = "no"
  /\ file' = "missing" /\ saving' = "removed"
  /\ UNCHANGED <<busy, fileMutex, list, holders, takenOver>>

\* ... created, ...
_saveInfoListOpens ==
  /\ saving = "removed"
  /\ file' = "empty" /\ saving' = "opened"
  /\ UNCHANGED <<busy, fileMutex, list, holders, takenOver>>

\* ... written and closed; some of it may be on the disk before.
_saveInfoListWrites ==
  /\ saving = "opened"
  /\ \/ file = "empty" /\ file' = "partial" /\ UNCHANGED saving
     \/ file' = "good" /\ saving' = "no"
  /\ UNCHANGED <<busy, fileMutex, list, holders, takenOver>>

\* DM_ENG_Device_closeSession; the end of a transfer without the list.
DM_ENG_Device_closeSession(p) ==
  /\ _freeInfoList /\ _transferUnlock(p)
  /\ UNCHANGED <<file, saving>>
=============================================================================
