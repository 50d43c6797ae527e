----------------------------- MODULE MCTransfers -----------------------------
EXTENDS Transfers

Req(method, delay) ==
  [method |-> method, key |-> "given", fileType |-> "1 Firmware", url |-> "http", size |-> 0, delay |-> delay, target |-> Null]

\* A download at once, and to a named file; an upload later; a command of each other
\* kind; requests that lack a node or hold a text that is not a number.
MCRequests ==
  {Req("Download", Absent), [Req("Download", 1) EXCEPT !.target = "file"], [Req("Upload", 2) EXCEPT !.url = "ftp"],
   [Req("Download", 0) EXCEPT !.url = Null], Req("Upload", NotANumber),
   Req("ScheduleInform", 1), [Req("ScheduleInform", 1) EXCEPT !.key = Null], Req("ScheduleInform", 0),
   Req("Reboot", Absent), Req("FactoryReset", Absent), Req("GetAllQueuedTransfers", Absent), Req("GetQueuedTransfers", Absent)}

\* The server gives the file; that it extends the data model badly is the fault a result has.
MCReplies == {Reply(CURLE_OK, HTTP_OK, TRUE)}

MCKeys == <<"k1", "k2">>
=============================================================================
