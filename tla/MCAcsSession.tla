---------------------------- MODULE MCAcsSession -----------------------------
(* Model-checking instances of the session with the ACS. *)
EXTENDS AcsSession

\* The messages the agent posts: an Inform, a TransferComplete or RequestDownload,
\* the answer to an RPC, and the empty message.
AgentMessages == {"inform", "request", "answer", "empty"}

\* An ACS that answers in order.
OrderlyBodies == {"InformResponse", "Response", "Rpc", "Retry"}

\* One that also holds the requests and answers with faults.
AllBodies == OrderlyBodies \cup {"Hold", "Fault"}

\* One that has nothing but faults to say once it is asked something.
FaultBodies == {"InformResponse", "Response", "Fault"}
=============================================================================
