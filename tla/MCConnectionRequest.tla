------------------------ MODULE MCConnectionRequest --------------------------
(* Model-checking instance of the connection requests. *)
EXTENDS ConnectionRequest

\* One and two requests a period, a number too large for the array, parameters unreadable.
SomePolicies == {<<1, 3>>, <<2, 2>>, <<5, 3>>, <<>>}
=============================================================================
