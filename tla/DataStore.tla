------------------------------ MODULE DataStore ------------------------------
(***************************************************************************)
(* The files of the data model (DM_DAT1_ParameterData.c): the parameters   *)
(* with their backup, and the control data (events, retry counter,         *)
(* transfers, download requests); what DM_ENG_ParameterData_sync writes,   *)
(* and what DM_ENG_ParameterData_init reads after the agent was stopped at *)
(* any moment.                                                             *)
(*                                                                         *)
(* The contents are versions: version n + 1 is version n with one change,  *)
(* version 0 is what the ini file holds.  A file that was opened for       *)
(* writing and not closed has no valid CRC32: it is torn, as is an empty   *)
(* one.  rename and remove are atomic.                                     *)
(***************************************************************************)
EXTENDS Integers

CONSTANT MaxVersion   \* bound on the changes

ASSUME StoreAssumption == MaxVersion \in Nat

None == -1      \* no file
Torn == -2      \* a file whose CRC32 does not agree

VARIABLES
  parameters, control,         \* in memory
  dataChanged, controlChanged, \* may they differ from the files
  obj, backup, ctrl,           \* the files
  pc,                          \* where the agent is
  saved,                       \* ghost: the parameters last written to the end
  marked                       \* ghost: the parameters after the last marked change

memory == <<parameters, control, dataChanged, controlChanged>>
files == <<obj, backup, ctrl>>
storeVars == <<memory, files, pc, saved, marked>>

Versions == 0 .. MaxVersion

(***************************************************************************)
(* run            between two calls of sync                                *)
(* off            stopped                                                  *)
(* ctrl           sync is in _writeDmControl                               *)
(* data           sync is after it                                         *)
(* renamed, open  sync is in _writeParameters                              *)
(* initRenamed, initOpen   init is in _writeParameters                     *)
(* initCtrl       init is before _readDmControl                            *)
(* ini            init has removed the files for the factory reset         *)
(***************************************************************************)
Position == {"run", "off", "ctrl", "data", "renamed", "open",
             "initRenamed", "initOpen", "initCtrl", "ini"}

\* The steps of _writeParameters, by caller.
Opened == [renamed |-> "open", initRenamed |-> "initOpen"]
Returned == [open |-> "run", initOpen |-> "initCtrl"]

Good(f) == f >= 0

\* A new device: the agent has never run.
Init ==
  /\ parameters = 0 /\ control = 0 /\ dataChanged = FALSE /\ controlChanged = FALSE
  /\ obj = None /\ backup = None /\ ctrl = None
  /\ pc = "off"
  /\ saved = None /\ marked = 0

-----------------------------------------------------------------------------
(* The engine changes the data and saves it *)

\* Mutant of ChangeParameters: a change that is not marked.
ChangeParametersUnmarked ==
  /\ pc = "run" /\ parameters < MaxVersion
  /\ parameters' = parameters + 1 /\ marked' = parameters'
  /\ UNCHANGED <<control, dataChanged, controlChanged, files, pc, saved>>

\* A parameter is added, deleted or instantiated; the setters of
\* DM_ENG_Parameter.c, but for resetValue, mark the data in the same way.
ChangeParameters ==
  /\ pc = "run" /\ parameters < MaxVersion
  /\ parameters' = parameters + 1 /\ marked' = parameters'
  /\ dataChanged' = TRUE
  /\ UNCHANGED <<control, controlChanged, files, pc, saved>>

\* _razDiagnosticsResult, in unlock after its last sync: the results of the
\* diagnostics asked for are reset, and DM_ENG_Parameter_resetValue does not mark
\* the data.
ResetDiagnostics ==
  /\ pc = "run" /\ parameters < MaxVersion
  /\ parameters' = parameters + 1
  /\ UNCHANGED <<control, dataChanged, controlChanged, files, pc, saved, marked>>

\* An event, the retry counter, a transfer or a download request changes.
ChangeControl ==
  /\ pc = "run" /\ control < MaxVersion
  /\ control' = control + 1 /\ controlChanged' = TRUE
  /\ UNCHANGED <<parameters, dataChanged, files, pc, saved, marked>>

\* DM_ENG_ParameterData_sync begins: the control file is opened for writing, if
\* there is something to write.
Sync ==
  /\ pc = "run" /\ (controlChanged \/ dataChanged)
  /\ ctrl' = IF controlChanged THEN Torn ELSE ctrl
  /\ pc' = IF controlChanged THEN "ctrl" ELSE "data"
  /\ UNCHANGED <<memory, obj, backup, saved, marked>>

\* _writeDmControl ends.
WriteControl ==
  /\ pc = "ctrl"
  /\ ctrl' = control /\ controlChanged' = FALSE
  /\ pc' = "data"
  /\ UNCHANGED <<parameters, control, dataChanged, obj, backup, saved, marked>>

\* Nothing else is to be written.
SyncEnds ==
  /\ pc = "data" /\ ~dataChanged
  /\ pc' = "run"
  /\ UNCHANGED <<memory, files, saved, marked>>

\* The rename of _writeParameters: without a data file it fails, and the backup
\* stays what it is.
Renamed ==
  /\ backup' = IF obj = None THEN backup ELSE obj
  /\ obj' = None

Rename ==
  /\ pc = "data" /\ dataChanged
  /\ Renamed
  /\ pc' = "renamed"
  /\ UNCHANGED <<memory, ctrl, saved, marked>>

\* The file is created: it is empty.
Open ==
  /\ pc \in DOMAIN Opened
  /\ obj' = Torn
  /\ pc' = Opened[pc]
  /\ UNCHANGED <<memory, backup, ctrl, saved, marked>>

\* The file is written and closed.  Only sync clears the flag.
WriteParameters ==
  /\ pc \in DOMAIN Returned
  /\ obj' = parameters
  /\ dataChanged' = (dataChanged /\ pc # "open")
  /\ saved' = IF pc = "open" \/ saved = None THEN parameters ELSE saved
  /\ pc' = Returned[pc]
  /\ UNCHANGED <<parameters, control, controlChanged, backup, ctrl, marked>>

\* DM_ENG_ParameterData_restore, after a configuration command that failed: the
\* changes not yet saved are dropped.  The data file is good (Recoverable is proved
\* with that), so _readParameters does not come to the backup.
Restore ==
  /\ pc = "run" /\ Good(obj)
  /\ parameters' = obj /\ marked' = obj
  /\ UNCHANGED <<control, dataChanged, controlChanged, files, pc, saved>>

-----------------------------------------------------------------------------
(* Stops, and DM_ENG_ParameterData_init *)

Crash ==
  /\ pc # "off"
  /\ parameters' = 0 /\ control' = 0 /\ dataChanged' = FALSE /\ controlChanged' = FALSE
  /\ marked' = 0
  /\ pc' = "off"
  /\ UNCHANGED <<files, saved>>

\* The data file is good.
BootData ==
  /\ pc = "off" /\ Good(obj)
  /\ parameters' = obj /\ marked' = obj
  /\ pc' = "initCtrl"
  /\ UNCHANGED <<control, dataChanged, controlChanged, files, saved>>

\* Mutant of BootBackup: the broken file is not removed, and takes the place of
\* the backup when the data is written.
BootBackupRenamed ==
  /\ pc = "off" /\ ~Good(obj) /\ Good(backup)
  /\ parameters' = backup /\ marked' = backup
  /\ Renamed
  /\ pc' = "initRenamed"
  /\ UNCHANGED <<control, dataChanged, controlChanged, ctrl, saved>>

\* It is not: it is removed, the backup is read and written as the data file.
\* The rename of _writeParameters finds nothing to rename.
BootBackup ==
  /\ pc = "off" /\ ~Good(obj) /\ Good(backup)
  /\ parameters' = backup /\ marked' = backup
  /\ obj' = None
  /\ pc' = "initRenamed"
  /\ UNCHANGED <<control, dataChanged, controlChanged, backup, ctrl, saved>>

\* Neither file is good: DM_ENG_ParameterManager_init asks for a factory reset.
\* The backup is not removed.
BootReset ==
  /\ pc = "off" /\ ~Good(obj) /\ ~Good(backup)
  /\ obj' = None /\ ctrl' = None
  /\ pc' = "ini"
  /\ UNCHANGED <<memory, backup, saved, marked>>

\* The ini file is read, and is written as the data file: there is none to rename.
ReadIni ==
  /\ pc = "ini"
  /\ parameters' = 0 /\ marked' = 0
  /\ pc' = "initRenamed"
  /\ UNCHANGED <<control, dataChanged, controlChanged, files, saved>>

\* _readDmControl: without a valid file there is no control data.
ReadControl ==
  /\ pc = "initCtrl"
  /\ control' = IF Good(ctrl) THEN ctrl ELSE 0
  /\ pc' = "run"
  /\ UNCHANGED <<parameters, dataChanged, controlChanged, files, saved, marked>>

Next ==
  \/ ChangeParameters \/ ResetDiagnostics \/ ChangeControl
  \/ Sync \/ WriteControl \/ SyncEnds \/ Rename \/ Open \/ WriteParameters
  \/ Restore
  \/ Crash \/ BootData \/ BootBackup \/ BootReset \/ ReadIni \/ ReadControl

Spec == Init /\ [][Next]_storeVars

-----------------------------------------------------------------------------
(* Properties *)

\* Types: the memory holds versions; a file is absent, torn or a version.
StoreTypeOK ==
  /\ parameters \in Versions /\ control \in Versions
  /\ dataChanged \in BOOLEAN /\ controlChanged \in BOOLEAN
  /\ obj \in Versions \cup {None, Torn}
  /\ backup \in Versions \cup {None, Torn}
  /\ ctrl \in Versions \cup {None, Torn}
  /\ pc \in Position
  /\ saved \in Versions \cup {None}
  /\ marked \in Versions

\* The parameters that sync or init has written to the end can be read again: at
\* every moment one of the two files of _writeParameters is good and is not older.
Recoverable ==
  \/ saved = None
  \/ Good(obj) /\ obj >= saved
  \/ Good(backup) /\ backup >= saved

\* The agent that runs, after any number of crashes in sync and in init, never
\* has parameters older than those it has saved.
NeverOlder ==
  pc = "run" => parameters >= saved

\* What was saved is not lost, whenever the agent stops, and is what it starts with again.
CrashSafe == Recoverable /\ NeverOlder

\* What sync would not write is in the files already: with the flags down, the
\* data file holds every change a setter has marked, though saves, stops, restores
\* and unmarked resets came between, and the control file holds the control data.
\* Only the resets of ResetDiagnostics made since can be missing from the data file.
UnchangedIsSaved ==
  pc = "run" =>
    /\ ~dataChanged => marked <= obj /\ obj <= parameters
    /\ ~controlChanged => control = (IF Good(ctrl) THEN ctrl ELSE 0)
=============================================================================
