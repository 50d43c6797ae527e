----------------------------- MODULE MCDataStore -----------------------------
(* Model-checking instance of the data store. *)
EXTENDS DataStore

\* Versions 0 .. 3: three changes tell the last saved version, the one before it
\* (in the backup) and an unsaved one apart.
ThreeChanges == 3
=============================================================================
