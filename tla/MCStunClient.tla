---------------------------- MODULE MCStunClient -----------------------------
(* Model-checking instance of the STUN client. *)
EXTENDS StunClient

Case(min, max, l, c, f, r) ==
  [min |-> min, max |-> max, life |-> l, changes |-> c, faults |-> f, requests |-> r]

\* The discovery of a binding that lasts and of one that does not, disturbed by the network
\* or by a change; and, without discovery, parameters to correct and everything at once.
SomeScenarios ==
  {Case(1, 10, 12, 1, 0, 0), Case(1, 10, 3, 1, 0, 0), Case(1, 10, 3, 0, 1, 0),
   Case(-1, 3, 3, 1, 1, 1), Case(5, 3, 3, 0, 1, 2)}
=============================================================================
