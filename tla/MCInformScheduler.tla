-------------------------- MODULE MCInformScheduler --------------------------
(* Model-checking instances of the Inform message scheduler. *)
EXTENDS InformScheduler, TLC

\* Everything that can go wrong around the scheduler, at once.
AllDisturbances == Disturbance

\* Threads differ by nothing but their place (safety properties only).
ThreadSymmetry == Permutations(Threads)

\* Bound: while two threads exist, an ending one and one of the restarted scheduler, no
\* timeout is armed and no value change waits to be told.  With one thread there is no bound.
TwoAreQuiet == (\A t \in Threads : pc[t] # "off") => timer = "none" /\ ~changed
=============================================================================
