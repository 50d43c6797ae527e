--------------------------- MODULE MCParameterLock ---------------------------
(* Model-checking instances of the lock on the data model. *)
EXTENDS ParameterLock

\* A session of the ACS and a local client that lock the data; the device adapter
\* and the thread of a transfer that notify it.
LockUsers == {"acs", "local"}
LockNotifiers == {"adapter", "transfer"}
=============================================================================
