-------------------------------- MODULE SoapRpc --------------------------------
(***************************************************************************)
(* The RPC methods on the data model as the ACS meets them: the parsing of *)
(* the SOAP requests and the answers (dm_com.c), the engine's methods      *)
(* (RpcInterface), the Inform message that opens a session and decides     *)
(* what is reported, the notifications of the system that wait for the end *)
(* of a session, the calls of another entity between sessions, and the     *)
(* diagnostics that a session starts (DM_ENG_DiagnosticsLauncher.c).       *)
(* A request is the record of the nodes found in the XML document; Null is *)
(* a node that is missing.                                                 *)
(***************************************************************************)
EXTENDS RpcInterface

CONSTANTS
  Requests,             \* requests of the ACS
  Supported,            \* the methods the build supports (DM_ENG_IS_..._SUPPORTED)
  LocalRequests,        \* SetParameterValues of the entity SUBSCRIBER
  Notifications,        \* changes the system makes and notifies
  InitialDm, InitialDev,
  MaxRpcs, MaxNotifications, MaxSessions

VARIABLES
  dm, dev, pending, diag, periodic, acs,   \* the state of Parameters
  events,               \* the stored events
  session,              \* "none", "opening" (Inform sent) or "open"
  waiting,              \* pendingChanges: notifications that wait for the unlock
  known, removing,      \* knownParameters and knownParametersToRemove of the ACS
  sent,                 \* the parameters of the Inform message under way
  tests,                \* threads of launchDiagnostics
  answer,               \* the request of the last step, and its answer
  told,                 \* history: the values the ACS was told or told itself
  excused,              \* history: the parameters whose report the code is known to lose
  used,                 \* history: the instances there have been
  rpcs, changes, sessions                  \* counters for the bounds

world == <<dm, dev, pending, diag, periodic, acs>>
history == <<told, excused, used>>
bounds == <<rpcs, changes, sessions>>
vars == <<dm, dev, pending, diag, periodic, acs, events, session, waiting, known, removing, sent, tests,
          answer, told, excused, used, rpcs, changes, sessions>>

W == [dm |-> dm, dev |-> dev, pending |-> pending, diag |-> diag, periodic |-> periodic, acs |-> acs]

Becomes(w) ==
  /\ dm' = w.dm /\ dev' = w.dev /\ pending' = w.pending
  /\ diag' = w.diag /\ periodic' = w.periodic /\ acs' = w.acs

\* The objects whose tests unlock starts.
Started(w) == {o \in DOMAIN w.diag : w.diag[o]}

\* DM_ENG_ParameterManager_unlock, with the threads it creates.
Unlocked(w, queue) ==
  /\ Becomes(DM_ENG_ParameterManager_unlock(w, queue))
  /\ tests' = tests \o SetToSeq({[obj |-> o, step |-> "created", host |-> Null] : o \in Started(w)})

-----------------------------------------------------------------------------
(* Requests: Null when a mandatory node is missing *)

\* A type it does not know is UNDEFINED, and accepted; no type is an error.
DM_FindTypeParameter(type) == type # Null

\* A structure without a name takes the name of the one before.
NameOf(list, i) ==
  LET named == {j \in 1..i : list[j].name # Null}
  IN  IF named = {} THEN Null ELSE list[CHOOSE j \in named : \A k \in named : k <= j].name

OrEmpty(text) == IF text = Null THEN Empty ELSE text

ParseParameterList(m) ==
  IF m.list = Null \/ m.key = Null \/ m.list = <<>> THEN Null
  ELSE IF \E i \in DOMAIN m.list : NameOf(m.list, i) = Null \/ ~DM_FindTypeParameter(m.list[i].type) THEN Null
  ELSE [i \in DOMAIN m.list |-> [name |-> NameOf(m.list, i), value |-> OrEmpty(m.list[i].value)]]

\* GetParameterValues (and GetParameterAttributes below): an empty name is the root.
ParseParameterNames(m) ==
  IF m.names \in {Null, <<>>} THEN Null
  ELSE [i \in DOMAIN m.names |-> IF m.names[i] = Null THEN Top ELSE m.names[i]]

ParseNamesOfAttributes(m) ==
  IF m.names \in {Null, <<>>} THEN Null
  ELSE [i \in DOMAIN m.names |-> IF m.names[i] = Null THEN Top ELSE m.names[i]]

\* GetParameterNames: without a path it is the prefix of all names.
ParsePath(m) == IF m.nextLevel \notin BOOLEAN THEN Null ELSE IF m.path = Null THEN Top ELSE m.path

\* One structure of SetParameterAttributes: what is not to change is left undefined.
AttributesEntry(e) ==
  [name |-> e.name,
   notification |-> IF e.change /\ e.notification # Null THEN e.notification ELSE "UNDEFINED",
   access |-> IF e.accessChange THEN e.access ELSE Null]

\* SetParameterAttributes: a structure that is not complete ends the list.
ParseAttributesList(m) ==
  LET complete(i) == m.list[i].name # Null /\ m.list[i].change # Null /\ m.list[i].accessChange # Null
      holes == {i \in DOMAIN m.list : ~complete(i)}
      length == IF holes = {} THEN Len(m.list) ELSE (CHOOSE i \in holes : \A j \in holes : i <= j) - 1
  IN  IF m.list \in {Null, <<>>} THEN Null
      ELSE IF \E i \in DOMAIN m.list : complete(i) /\ m.list[i].accessChange /\ m.list[i].access = Null THEN Null
      ELSE [i \in 1..length |-> AttributesEntry(m.list[i])]

\* AddObject and DeleteObject
ParseObject(m) == IF m.object = Null \/ m.key = Null THEN Null ELSE m.object

-----------------------------------------------------------------------------
(* Methods: the state, the known values, and the answer *)

Answer(m, kind, code, values) == [request |-> m, kind |-> kind, code |-> code, values |-> values]

NoAnswer == Answer([method |-> "none"], "none", "OK", <<>>)

\* DM_SoapFaultResponse, and the response of a method that ended well.
DM_SoapFaultResponse(m, code) == Answer(m, "fault", code, <<>>)
Response(m, code, values) == IF code = "OK" THEN Answer(m, "response", "OK", values) ELSE DM_SoapFaultResponse(m, code)

Effect(w, k, a) == [w |-> w, known |-> k, answer |-> a]
Malformed(m) == Effect(W, known, DM_SoapFaultResponse(m, "INVALID_ARGUMENTS"))

\* The fault of SetParameterValues names each parameter that was refused.
SetParameterValuesResponse(m, r) ==
  IF r.code = "OK" THEN Answer(m, "response", "OK", <<>>) ELSE Answer(m, "fault", r.code, r.faults)

\* DM_ENG_GetRPCMethods
DM_ENG_GetRPCMethods == [method \in Supported |-> method]
DM_SUB_GetRPCMethods(m, system) == Effect(W, known, Response(m, "OK", DM_ENG_GetRPCMethods))

\* "system" is what the device says: to the values, the number of a new instance, a deletion.
SetEffect(m, k, r) == Effect(DM_ENG_ParameterManager_sync(r.w, TRUE), k.known, SetParameterValuesResponse(m, r))

SetKnowing(m, list, k, ok) == SetEffect(m, k, DM_ENG_SetParameterValues(k.w, "ACS", list, OrEmpty(m.key), ok))

DM_SUB_SetParameterValues(m, system) ==
  LET list == ParseParameterList(m)
  IN  IF list = Null THEN Malformed(m)
      ELSE SetKnowing(m, list, setKnownParameterList(W, list), system.ok)

\* A method that reads, and one whose answer is empty.
ReadEffect(m, r) == Effect(r.w, known, Response(m, r.code, r.values))
EmptyEffect(m, r) == Effect(r.w, known, Response(m, r.code, <<>>))

DM_SUB_GetParameterValues(m, system) ==
  LET names == ParseParameterNames(m)
  IN  IF names = Null THEN Malformed(m) ELSE ReadEffect(m, DM_ENG_GetParameterValues(W, names))

DM_SUB_GetParameterNames(m, system) ==
  LET path == ParsePath(m)
  IN  IF path = Null THEN Malformed(m) ELSE ReadEffect(m, DM_ENG_GetParameterNames(W, path, m.nextLevel))

DM_SUB_SetParameterAttributes(m, system) ==
  LET list == ParseAttributesList(m)
  IN  IF list = Null THEN Malformed(m) ELSE EmptyEffect(m, DM_ENG_SetParameterAttributes(W, "ACS", list))

DM_SUB_GetParameterAttributes(m, system) ==
  LET names == ParseNamesOfAttributes(m)
  IN  IF names = Null THEN Malformed(m) ELSE ReadEffect(m, DM_ENG_GetParameterAttributes(W, names))

\* DM_ENG_Device_addObject and DM_ENG_Device_deleteObject: the system has the values of an
\* instance of one of its objects from then on, or no longer.
DeviceAdds(w, obj, k) ==
  LET proto(n) == IsPrefix(obj \o <<"">>, n) /\ w.dm[n].mode = "SYSTEM_ONLY" /\ ~w.dm[n].node
      at(n) == obj \o <<ToString(k)>> \o SubSeq(n, Len(obj) + 2, Len(n))
  IN  [w EXCEPT !.dev = [n \in {at(m) : m \in {q \in DOMAIN w.dm : proto(q)}} |-> Empty] @@ @]

DeviceDeletes(w, obj) == [w EXCEPT !.dev = [n \in {m \in DOMAIN @ : ~Under(obj, m)} |-> @[n]]]

DM_SUB_AddObject(m, system) ==
  LET obj == ParseObject(m)
      asks == obj \in DOMAIN dm /\ dm[obj].node /\ dm[obj].writable /\ dm[obj].mode # "DM_ONLY"
      w == IF asks /\ system.ok THEN DeviceAdds(W, obj, system.number) ELSE W
      r == DM_ENG_AddObject(w, "ACS", obj, m.key, IF system.ok THEN system.number ELSE 0)
  IN  IF obj = Null THEN Malformed(m)
      ELSE Effect(DM_ENG_ParameterManager_sync(r.w, TRUE), known, Response(m, r.code, <<r.number>>))

DM_SUB_DeleteObject(m, system) ==
  LET obj == ParseObject(m)
      code == IF ~system.ok THEN "INTERNAL_ERROR"
              ELSE IF SystemNames(W, obj) = {} THEN "INVALID_PARAMETER_NAME" ELSE "OK"
      r == DM_ENG_DeleteObject(W, "ACS", obj, m.key, code)
      w == IF r.code = "OK" THEN DeviceDeletes(r.w, obj) ELSE r.w
  IN  IF obj = Null THEN Malformed(m)
      ELSE Effect(DM_ENG_ParameterManager_sync(w, TRUE), known, Response(m, r.code, <<>>))

\* SetVouchers and GetOptions are recognised and have no answer.
Unanswered(m, system) == Effect(W, known, Answer(m, "none", "OK", <<>>))

\* DM_ParseSoapBodyMessage, the methods on the data model: a method that the build leaves out
\* is refused before its arguments are looked at.
DM_ParseSoapBodyMessage(m, system) ==
  IF m.method \notin Supported \cup {"SetVouchers", "GetOptions"}
  THEN Effect(W, known, DM_SoapFaultResponse(m, "METHOD_NOT_SUPPORTED"))
  ELSE CASE m.method = "GetRPCMethods" -> DM_SUB_GetRPCMethods(m, system)
         [] m.method = "SetParameterValues" -> DM_SUB_SetParameterValues(m, system)
         [] m.method = "GetParameterValues" -> DM_SUB_GetParameterValues(m, system)
         [] m.method = "GetParameterNames" -> DM_SUB_GetParameterNames(m, system)
         [] m.method = "SetParameterAttributes" -> DM_SUB_SetParameterAttributes(m, system)
         [] m.method = "GetParameterAttributes" -> DM_SUB_GetParameterAttributes(m, system)
         [] m.method = "AddObject" -> DM_SUB_AddObject(m, system)
         [] m.method = "DeleteObject" -> DM_SUB_DeleteObject(m, system)
         [] m.method \in {"SetVouchers", "GetOptions"} -> Unanswered(m, system)

-----------------------------------------------------------------------------
(* What a value is, and what the histories record *)

RECURSIVE InEffect(_, _)

\* The value a parameter has: the system's own, or that of what it is defined by.
InEffect(w, n) ==
  LET p == w.dm[n]
      count(obj) == Cardinality({SubSeq(m, 1, Len(obj) + 1) : m \in {q \in DOMAIN w.dm : Under(obj, q) /\ ~IsProto(q)}})
  IN  IF p.mode = "SYSTEM_ONLY" /\ n \in DOMAIN w.dev THEN w.dev[n]
      ELSE IF p.mode # "COMPUTED" THEN p.value
      ELSE IF p.definition[1] = "#" THEN ToString(count(p.definition[2]))
      ELSE InEffect(w, p.definition[2])

\* What the ACS knows after the answer to one of its requests.
ToldBy(w, a) ==
  LET m == a.request
      list == ParseParameterList(m)
      attributes == ParseAttributesList(m)
  IN  IF a.kind # "response" THEN told
      ELSE IF m.method = "SetParameterValues"
      THEN [n \in DOMAIN told |-> IF \E i \in DOMAIN list : list[i].name = n THEN InEffect(w, n) ELSE told[n]]
      ELSE IF m.method = "GetParameterValues"
      THEN [n \in DOMAIN told |-> IF n \in DOMAIN a.values THEN a.values[n] ELSE told[n]]
      ELSE IF m.method = "SetParameterAttributes"
      THEN [n \in DOMAIN told |-> IF \E i \in DOMAIN attributes : IsPrefix(attributes[i].name, n)
                                  THEN InEffect(w, n) ELSE told[n]]
      ELSE told

RECURSIVE Chain(_, _)

\* A parameter and those it is redirected to.
Chain(w, n) ==
  IF n \notin DOMAIN w.dm THEN {} ELSE {n} \cup (IF Target(w.dm[n]) = Null THEN {} ELSE Chain(w, Target(w.dm[n])))

\* A refused setting leaves its values among the known ones and drops the marks of changes
\* not yet reported; a value of the system that waits is older than one set meanwhile.
ExcusedBy(list, refused) ==
  LET named == UNION {Chain(W, list[i].name) : i \in DOMAIN list}
      late == {n \in named : \E i \in DOMAIN waiting : n \in DOMAIN waiting[i].set}
      computed == {n \in DOMAIN dm : dm[n].mode = "COMPUTED" /\ Chain(W, n) \cap (late \cup IF refused THEN named ELSE {}) # {}}
  IN  excused \cup late \cup computed \cup (IF refused THEN named ELSE {})

-----------------------------------------------------------------------------
(* Actions *)

Init ==
  /\ dm = InitialDm /\ dev = InitialDev
  /\ pending = {"BOOT"} /\ diag = <<>> /\ periodic = FALSE /\ acs = FALSE
  /\ events = {} /\ session = "none" /\ waiting = <<>>
  /\ known = <<>> /\ removing = {} /\ sent = {} /\ tests = <<>>
  /\ answer = NoAnswer
  /\ told = [n \in Visible(InitialDm) |-> InEffect(W, n)]
  /\ excused = {}
  /\ used = {n \in DOMAIN InitialDm : IsInstance(InitialDm, n)}
  /\ rpcs = 0 /\ changes = 0 /\ sessions = 0

\* A request of the ACS within the session, and its answer.
AcsRequest(m, system) ==
  LET list == ParseParameterList(m)
      isSet == m.method = "SetParameterValues" /\ list # Null
  IN  /\ session = "open" /\ rpcs < MaxRpcs
      /\ \E e \in {DM_ParseSoapBodyMessage(m, system)} :
           /\ Becomes(e.w)
           /\ known' = e.known /\ answer' = e.answer
           /\ told' = ToldBy(e.w, e.answer)
           /\ excused' = IF isSet THEN ExcusedBy(list, e.answer.kind # "response") ELSE excused
      /\ used' = used \cup {n \in DOMAIN dm' : IsInstance(dm', n)}
      /\ rpcs' = rpcs + 1
      /\ UNCHANGED <<events, session, waiting, removing, sent, tests, changes, sessions>>

\* SetParameterValues of another entity, locked for the one call.
LocalRequest(m, ok) ==
  /\ session = "none" /\ rpcs < MaxRpcs
  /\ \E r \in {DM_ENG_SetParameterValues(W, "SUBSCRIBER", m.list, Null, ok)} :
       /\ Unlocked(r.w, <<>>)
       /\ answer' = SetParameterValuesResponse(m, r)
       /\ excused' = IF r.code = "OK" THEN excused ELSE ExcusedBy(m.list, TRUE)
  /\ rpcs' = rpcs + 1
  /\ UNCHANGED <<events, session, waiting, known, removing, sent, told, used, changes, sessions>>

\* The system changes and notifies: dataValueChanged, dataNewValue, parameterValuesUpdated,
\* vendorSpecificEvent. Processed at once when the lock is free.
Notify(c) ==
  LET w == [W EXCEPT !.dev = c.set @@ [n \in DOMAIN @ \ c.drop |-> @[n]]]
  IN  /\ changes < MaxNotifications
      /\ changes' = changes + 1
      /\ IF session = "none" THEN Unlocked(Process(w, c), <<>>) /\ UNCHANGED waiting
         ELSE Becomes(w) /\ waiting' = Append(waiting, c) /\ UNCHANGED tests
      /\ answer' = NoAnswer /\ UNCHANGED <<events, session, known, removing, sent, history, rpcs, sessions>>

\* The scheduler's thread: the lock, the events, sendMessage and
\* DM_ENG_NotificationInterface_inform.
Inform(timer) ==
  \E p \in {InformParameters(W)} :
  LET all == events \cup pending \cup timer
      ev == InformEvents(W, all)
      f == Filtered(p.w.dm, p.names, known)
      whole == known = <<>>
      left == IF Cardinality(DOMAIN known) <= Cardinality(Mandatory(dm)) THEN <<>> ELSE known
      sends == whole \/ f.change \/ ev # {"VALUE CHANGE"}
      w == [p.w EXCEPT !.pending = {}]
      settled == [w EXCEPT !.dm = [n \in DOMAIN @ |-> DM_ENG_Parameter_initState(@[n])]]
  IN  /\ session = "none" /\ sessions < MaxSessions
      /\ events \cup pending \cup timer # {}
      /\ sessions' = sessions + 1
      /\ \/ \* nothing to say: the session is cancelled
            /\ ev = {}
            /\ Unlocked(w, <<>>) /\ events' = {}
            /\ UNCHANGED <<session, known, removing, sent>>
         \/ \* only what the ACS knows: completed without a message
            /\ ev # {} /\ ~sends
            /\ Unlocked(settled, <<>>) /\ events' = {}
            /\ known' = Without(left, f.remove) /\ removing' = {}
            /\ UNCHANGED <<session, sent>>
         \/ /\ ev # {} /\ sends
            /\ Becomes(w) /\ events' = ev /\ session' = "opening"
            /\ known' = left
            /\ removing' = IF whole THEN removing ELSE f.remove
            /\ sent' = IF whole THEN p.names ELSE f.sent
            /\ UNCHANGED tests
      /\ answer' = NoAnswer /\ UNCHANGED <<waiting, history, rpcs, changes>>

\* The InformResponse (DM_ENG_InformMessageScheduler_isSessionOpened): what was sent is settled.
InformAnswered ==
  /\ session = "opening"
  /\ session' = "open" /\ events' = {}
  /\ dm' = [n \in DOMAIN dm |-> DM_ENG_Parameter_initState(dm[n])]
  /\ known' = Without(known, removing) /\ removing' = {}
  /\ told' = [n \in DOMAIN told |-> IF n \in sent THEN dm[n].value ELSE told[n]]
  /\ sent' = {}
  /\ answer' = NoAnswer /\ UNCHANGED <<dev, pending, diag, periodic, acs, waiting, tests, excused, used, bounds>>

\* The end of a session: a failure before the InformResponse leaves the events.
SessionClosed ==
  /\ session # "none"
  /\ session' = "none" /\ sent' = {}
  /\ Unlocked(W, waiting) /\ waiting' = <<>>
  /\ answer' = NoAnswer /\ UNCHANGED <<events, known, removing, history, bounds>>

\* launchDiagnostics up to its unlock: the parameters of the test are read.
LaunchDiagnostics(i) ==
  LET host == tests[i].obj \o <<"Host">>
  IN  /\ session = "none" /\ tests[i].step = "created"
      /\ Becomes(DM_ENG_ParameterManager_unlock(W, <<>>))
      /\ tests' = [tests EXCEPT ![i] = [@ EXCEPT !.step = "performing", !.host = dm[host].value]]
      /\ answer' = NoAnswer /\ UNCHANGED <<events, session, waiting, known, removing, sent, history, bounds>>

\* DM_ENG_Device_performDiagnostics (the ping) ends: its results are notified.
DiagnosticsDone(i, found) ==
  LET state == tests[i].obj \o <<"DiagnosticsState">>
      result == tests[i].obj \o <<"SuccessCount">>
      values == IF tests[i].host = Null THEN {<<state, "Error">>}
                ELSE IF ~found THEN {<<state, "Error">>}
                ELSE {<<state, "Complete">>, <<result, tests[i].host>>}
      c == [type |-> "VALUES_UPDATED", values |-> values, set |-> <<>>, drop |-> {}]
  IN  /\ tests[i].step = "performing"
      /\ IF session = "none"
         THEN /\ Becomes(DM_ENG_ParameterManager_unlock(Process(W, c), <<>>)) /\ UNCHANGED waiting
         ELSE waiting' = Append(waiting, c) /\ UNCHANGED world
      /\ tests' = RemoveAt(tests, i)
      /\ answer' = NoAnswer /\ UNCHANGED <<events, session, known, removing, sent, history, bounds>>

NewNumber(k) == \A n \in used : Last(n) # ToString(k)

\* What the system may say to a request: it is asked to set and to delete, and for the
\* number of an instance, one it has not given before.
Systems(m) ==
  [ok : IF m.method \in {"SetParameterValues", "AddObject", "DeleteObject"} THEN BOOLEAN ELSE {TRUE},
   number : IF m.method = "AddObject" THEN {k \in 1..MaxInstance : NewNumber(k)} ELSE {0}]

Next ==
  \/ \E m \in Requests : \E s \in Systems(m) : AcsRequest(m, s)
  \/ \E m \in LocalRequests, ok \in BOOLEAN : LocalRequest(m, ok)
  \/ \E c \in Notifications : Notify(c)
  \/ \E timer \in {{}, {"PERIODIC"}} : Inform(timer)
  \/ InformAnswered
  \/ SessionClosed
  \/ \E i \in DOMAIN tests : LaunchDiagnostics(i)
  \/ \E i \in DOMAIN tests, found \in BOOLEAN : DiagnosticsDone(i, found)

Spec == Init /\ [][Next]_vars
-----------------------------------------------------------------------------
(* Properties *)

\* Types: the states of the parameters are known marks, the answers have a code.
RpcTypeOK ==
  /\ \A n \in DOMAIN dm : dm[n].state \subseteq Marks
  /\ answer.kind \in {"none", "response", "fault"} /\ answer.code \in Codes
  /\ session \in {"none", "opening", "open"}
  /\ (session = "none") => (waiting = <<>> /\ sent = {})
  /\ removing \cap Mandatory(dm) = {}

\* No request, answered or refused, leaves a parameter half set: the marks that guard against
\* a name given twice and against a cycle of redirections (DM_ENG_Parameter.c:542-757) are gone
\* when it ends, or the parameter could never be set again.
NoMarkLeft == \A n \in DOMAIN dm : dm[n].state \cap {"CHANGE_REQUESTED", "BEING_EVALUATED"} = {}

\* The parameters are well formed, and no request leaves its marks on them.
RpcInvariant == RpcTypeOK /\ NoMarkLeft

\* What a request must not disturb: the values in effect, the attributes, the objects of the
\* data model and the parameter key.
Picture(w) ==
  LET names == {n \in Visible(w.dm) : n[1] \in {q[1] : q \in {m \in DOMAIN w.dm : Len(m) = 1 /\ w.dm[m].mode # "SYSTEM_ONLY"}}}
      leaves == {n \in Visible(w.dm) : n \in names \/ n \in DOMAIN InitialDm}
  IN  [n \in leaves |-> [value |-> InEffect(w, n), notification |-> w.dm[n].notification, access |-> w.dm[n].access]]

Twice(list) == \E i, j \in DOMAIN list : i # j /\ list[i].name = list[j].name

\* A request that ends in a fault has done nothing, one that ends well has done everything: every
\* value of a SetParameterValues is in effect, through the redirections, and so is the key
\* (DM_ENG_RPCInterface.c:219-328, 511-557, 567-639). Attributes given twice for a name are left
\* out: they are restored in the wrong order.
AllOrNothing ==
  [][rpcs' # rpcs =>
      LET m == answer'.request
      IN  /\ (answer'.kind = "fault" /\ ~(m.method = "SetParameterAttributes" /\ m.list # Null /\ Twice(m.list)))
               => Picture(W) = Picture(W')
          /\ (answer'.kind = "response" /\ m.method = "SetParameterValues") =>
               /\ \A i \in DOMAIN m.list : m.list[i].name # Null =>
                     InEffect(W', m.list[i].name) = OrEmpty(m.list[i].value)
               /\ session = "open" => dm'[KeyName].value = m.key]_vars

\* What GetParameterValues answers is what is in effect, whatever the session set before: the
\* values that were computed or read earlier in the session are not answered again when a
\* setting or a new object made them old (DM_ENG_ParameterManager_sync, DM_ENG_Parameter.c:466).
ReadsFresh ==
  [][(rpcs' # rpcs /\ answer'.kind = "response" /\ answer'.request.method = "GetParameterValues" /\ waiting = <<>>) =>
      \A n \in DOMAIN answer'.values : n \in excused \/ answer'.values[n] = InEffect(W', n)]_vars

\* An instance number of an object of the data model is never given twice, not even after the
\* instance was deleted: the ACS would take the new object for the old one.
InstanceFresh ==
  [][(rpcs' # rpcs /\ answer'.kind = "response" /\ answer'.request.method = "AddObject") =>
      answer'.request.object \o <<ToString(answer'.values[1])>> \notin used]_vars

\* What the ACS is answered is new: the values are those in effect, an instance number is one
\* it has never had.
AnswersFresh == ReadsFresh /\ InstanceFresh

\* Outside a session a change that the ACS asked to hear of and does not know is marked, so that
\* the next Inform message reports it: nothing of what sessions, refusals, filters and queued
\* notifications do loses it, but for the excused cases.
AcsInformed ==
  session = "none" =>
    \A n \in DOMAIN told :
      (/\ n \in DOMAIN dm /\ dm[n].notification # "OFF" /\ n \notin excused
       /\ InEffect(W, n) # told[n])
      => "VALUE_CHANGED" \in dm[n].state

\* A test that is "Requested" when a session ends is under way from then on, or its result waits:
\* the request is not forgotten when the same session sets other parameters of the test, nor when
\* it comes while another test runs (DM_ENG_ParameterManager.c:1453-1508, 1929-1943).
DiagnosticsUnderWay ==
  [][(session # "none" /\ session' = "none") =>
      \A o \in {n \in DOMAIN InitialDm : Last(n) = "Diagnostics"} :
        LET state == o \o <<"DiagnosticsState">>
        IN  dm[state].value = "Requested" =>
              \/ \E i \in DOMAIN tests' : tests'[i].obj = o
              \/ \E i \in DOMAIN waiting : waiting[i].type = "VALUES_UPDATED" /\ \E x \in waiting[i].values : x[1] = state]_vars
===============================================================================
