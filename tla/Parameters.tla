------------------------------ MODULE Parameters ------------------------------
(***************************************************************************)
(* The parameters of the data model: DM_ENG_Parameter.c and the part of    *)
(* DM_ENG_ParameterManager.c that loads, sets, commits and cancels values  *)
(* and creates and deletes instances, as operators on a state record w:    *)
(*   dm       a record for every name;                                     *)
(*   dev      the values of the system, what DM_ENG_Device_* reads and sets;*)
(*   pending  events posted to the inform scheduler;                       *)
(*   diag     diagnosticsRequested: objects, and whether with "Requested"; *)
(*   periodic, acs   periodicInformChanged, acsParametersToUpdate.         *)
(* A name is a sequence of parts; instance numbers are parts, and the part *)
(* "" marks the prototype of an object's instances ("Obj..x").             *)
(***************************************************************************)
EXTENDS Integers, FiniteSets, Sequences, SequencesExt, TLC

CONSTANTS
  Null, Empty,          \* no value, the empty string
  KeyName,              \* ParameterKey
  UrlName,              \* ManagementServer.URL
  PeriodicName,         \* ManagementServer.PeriodicInformInterval
  MaxInstance           \* bound on instance numbers

Codes == {"OK", "REQUEST_DENIED", "INTERNAL_ERROR", "INVALID_ARGUMENTS", "RESOURCES_EXCEEDED",
          "INVALID_PARAMETER_NAME", "INVALID_PARAMETER_TYPE", "INVALID_PARAMETER_VALUE",
          "READ_ONLY_PARAMETER", "NOTIFICATION_REQUEST_REJECTED", "METHOD_NOT_SUPPORTED"}

Top == <<>>
Numbers == {ToString(k) : k \in 1..MaxInstance}
Marks == {"CHANGE_REQUESTED", "VALUE_CHANGED", "PUSHED", "LOADED", "BEING_EVALUATED"}

IsProto(n) == \E i \in 1..Len(n) : n[i] = ""
Under(obj, n) == IsPrefix(obj, n) /\ n # obj
IsInstance(dm, n) == dm[n].node /\ Last(n) \in Numbers
Put(w, n, p) == [w EXCEPT !.dm[n] = p]
Result(w, code) == [w |-> w, code |-> code]

-----------------------------------------------------------------------------
(* DM_ENG_Parameter.c *)

\* DM_ENG_newParameter: what never changes is mode (the storage mode), node, writable,
\* hidden, mandatory, group and inst (the bits 1 and 2 of loadingMode), definition
\* (<<"=", name>> a redirection, <<"#", name>> a counter), values (those that have the
\* type and the range), trigger (immediateChanges = _FLAG_TRIGGER: the values of a flag) and
\* denied (activeNotificationDenied).
NewParameter(f) ==
  f @@ [mode |-> "DM_ONLY", node |-> FALSE, writable |-> TRUE, hidden |-> FALSE, mandatory |-> FALSE,
        group |-> FALSE, inst |-> FALSE, definition |-> Null, values |-> {}, trigger |-> {}, denied |-> FALSE,
        access |-> {}, notification |-> "OFF", value |-> Null, back |-> Null, state |-> {}, last |-> 0]

isDiagnosticsState(n) == Len(n) > 1 /\ Last(n) = "DiagnosticsState"
DiagnosticsObjects(n) == {SubSeq(n, 1, i) : i \in {j \in 1..Len(n) - 1 : n[j] = "Diagnostics"}}

\* A flag (read only, with values that trigger a notification) is reset once it is delivered.
DM_ENG_Parameter_initState(p) ==
  IF p.state = {} THEN p
  ELSE [p EXCEPT !.state = {}, !.value = IF ~p.writable /\ @ \in p.trigger THEN p.back ELSE @]

isLoaded(p, withValues) ==
  \/ p.value # Null /\ (p.mode # "COMPUTED" \/ "LOADED" \in p.state)
  \/ ~p.node /\ p.mode = "DM_ONLY"
  \/ ~withValues /\ (~p.node \/ p.back # Null)

DM_ENG_Parameter_markLoaded(p, withValues) ==
  IF withValues
  THEN [p EXCEPT !.value = IF @ = Null THEN Empty ELSE @,
                 !.state = IF p.mode = "COMPUTED" THEN @ \cup {"LOADED"} ELSE @]
  ELSE IF p.value = Null /\ p.back = Null THEN [p EXCEPT !.back = Empty] ELSE p

\* Mutant of DM_ENG_Parameter_clearTemporaryValue: a counter stays marked as loaded.
ClearKeepsCounter(p, level) ==
  IF level = 1 /\ (p.node \/ p.mode = "SYSTEM_ONLY")
  THEN LET keep == p.value # Null /\ "VALUE_CHANGED" \in p.state
       IN  [p EXCEPT !.back = Null, !.value = IF keep THEN @ ELSE Null, !.state = IF keep THEN @ ELSE {}]
  ELSE p

\* Level 1: at the end of a session; level 0: after a setting within a session.
DM_ENG_Parameter_clearTemporaryValue(p, level) ==
  IF level = 1 /\ ((p.node /\ p.mode # "MIXED") \/ p.mode = "SYSTEM_ONLY")
  THEN LET gone == p.value # Null /\ "VALUE_CHANGED" \notin p.state
       IN  [p EXCEPT !.back = IF p.writable \/ p.trigger = {} THEN Null ELSE @,
                     !.value = IF gone THEN Null ELSE @, !.state = IF gone THEN {} ELSE @]
  ELSE IF p.mode = "COMPUTED"
  THEN [p EXCEPT !.value = IF p.definition # Null /\ p.definition[1] = "=" THEN Null ELSE @,
                 !.state = @ \ {"LOADED", "PUSHED"}]
  ELSE p

DM_ENG_Parameter_checkBeforeSetValue(p, v) ==
  IF "CHANGE_REQUESTED" \in p.state THEN "INVALID_ARGUMENTS"
  ELSE IF v \in p.values THEN "OK" ELSE "INVALID_PARAMETER_VALUE"

DM_ENG_Parameter_setValue(p, v) ==
  [p EXCEPT !.back = p.value, !.value = v, !.state = @ \cup {"CHANGE_REQUESTED", "VALUE_CHANGED"}]

DM_ENG_Parameter_cancelChange(p) ==
  IF "CHANGE_REQUESTED" \in p.state THEN [p EXCEPT !.value = p.back, !.back = Null, !.state = {}] ELSE p

DM_ENG_Parameter_commit(w, n) ==
  LET p == [w.dm[n] EXCEPT !.state = @ \ {"CHANGE_REQUESTED"}, !.back = IF w.dm[n].writable THEN Null ELSE @]
      over == isDiagnosticsState(n) /\ p.value \notin {Null, "None", "Requested"}
      told == p.notification = "ACTIVE" /\ ~p.node
  IN  [w EXCEPT !.dm[n] = p,
                !.pending = IF p.state = {} THEN @
                            ELSE @ \cup (IF over THEN {"DIAGNOSTICS COMPLETE"} ELSE {})
                                   \cup (IF told THEN {"VALUE CHANGE"} ELSE {})]

DM_ENG_Parameter_updateValue(w, n, v, newValue) ==
  LET p == [w.dm[n] EXCEPT !.value = v]
  IN  IF newValue
      THEN DM_ENG_Parameter_commit(Put(w, n, [p EXCEPT !.state = @ \cup {"VALUE_CHANGED", "PUSHED"}]), n)
      ELSE Put(w, n, p)

\* Returns the parameter and a code.
DM_ENG_Parameter_setAttributes(p, notification, access) ==
  IF notification = "ACTIVE" /\ p.denied
  THEN [p |-> p, code |-> "NOTIFICATION_REQUEST_REJECTED"]
  ELSE [p |-> [p EXCEPT !.notification = IF notification = "UNDEFINED" THEN @ ELSE notification,
                        !.access = IF access = Null THEN @ ELSE access],
        code |-> "OK"]

DM_ENG_EntityType_belongsTo(entity, access) == entity \in {"ACS", "SYSTEM"} \/ entity \in access

-----------------------------------------------------------------------------
(* Instances *)

\* DM_ENG_ParameterData_createInstance and _relocateInstances: the prototypes are copied,
\* with the definitions that refer to the same object.
createInstance(dm, obj, k) ==
  LET at(n) == obj \o <<k>> \o SubSeq(n, Len(obj) + 2, Len(n))
      protos == {n \in DOMAIN dm : IsPrefix(obj \o <<"">>, n)}
      relocated(d) == IF d # Null /\ IsPrefix(obj \o <<"">>, d[2]) THEN <<d[1], at(d[2])>> ELSE d
      from(m) == CHOOSE n \in protos : at(n) = m
  IN  dm @@ [m \in {at(n) : n \in protos} |->
               [dm[from(m)] EXCEPT !.definition = relocated(dm[from(m)].definition)]]

DM_ENG_ParameterData_deleteObject(dm, obj) == [n \in {m \in DOMAIN dm : ~IsPrefix(obj, m)} |-> dm[n]]

\* _computeProto: the name of the prototype, one instance number replaced.
Protos(n) == {[n EXCEPT ![i] = ""] : i \in {j \in 1..Len(n) : n[j] \in Numbers}}

\* _getParameter: missing instances are created from the prototypes.
getParameter(dm, n) ==
  IF n \in DOMAIN dm \/ Protos(n) \cap DOMAIN dm = {} THEN dm
  ELSE LET i == CHOOSE j \in 1..Len(n) : n[j] \in Numbers /\ [n EXCEPT ![j] = ""] \in DOMAIN dm
       IN  createInstance(dm, SubSeq(n, 1, i - 1), n[i])

-----------------------------------------------------------------------------
(* Loading *)

\* _markInstancesLoaded: instances the system does not have are deleted.
markInstancesLoaded(dm, obj, names, withValues) ==
  LET inside == {n \in DOMAIN dm : Under(obj, n) /\ dm[n].node /\ ~IsProto(n)}
      known(n) == \E m \in names : IsPrefix(n, m)
      gone == {n \in inside : ~known(n) /\ IsInstance(dm, n)}
  IN  [n \in {m \in DOMAIN dm : ~\E g \in gone : IsPrefix(g, m)} |->
         IF n \in inside /\ known(n) THEN DM_ENG_Parameter_markLoaded(dm[n], withValues) ELSE dm[n]]

Created(dm, names) == FoldSet(LAMBDA n, d : getParameter(d, n), dm, names)

SystemNames(w, obj) == {n \in DOMAIN w.dev : Under(obj, n)}

\* _updateObject with the values the system gives for the object.
updateObject(w, obj, pushed) ==
  LET names == SystemNames(w, obj)
      made == [w EXCEPT !.dm = Created(w.dm, names)]
      valued == FoldSet(LAMBDA n, v : IF n \in DOMAIN v.dm
                                      THEN DM_ENG_Parameter_updateValue(v, n, v.dev[n], pushed) ELSE v,
                        made, names)
  IN  [valued EXCEPT !.dm = markInstancesLoaded(valued.dm, obj, names, TRUE)]

\* _loadNames: the instances without the values.
loadNames(w, obj) ==
  LET names == SystemNames(w, obj)
      made == Created(w.dm, names)
      marked == [n \in DOMAIN made |-> IF n \in names THEN DM_ENG_Parameter_markLoaded(made[n], FALSE) ELSE made[n]]
  IN  [w EXCEPT !.dm = markInstancesLoaded(marked, obj, names, FALSE)]

\* _loadSystemParameter
loadLeaf(w, n) ==
  IF w.dm[n].mode \in {"SYSTEM_ONLY", "MIXED"} /\ w.dm[n].value = Null
  THEN IF n \in DOMAIN w.dev THEN Result(DM_ENG_Parameter_updateValue(w, n, w.dev[n], FALSE), "OK")
       ELSE Result(w, "INTERNAL_ERROR")
  ELSE Result(w, "OK")

RECURSIVE loadComputed(_, _, _), loadFinal(_, _, _), loadSub(_, _, _), loadSystemParameter(_, _, _),
          loadPending(_, _, _), loadRest(_, _, _)

\* _computeNumberOfIntances
NumberIn(w, obj) ==
  [w |-> w, value |-> ToString(Cardinality({n \in DOMAIN w.dm : /\ Under(obj, n) /\ Len(n) = Len(obj) + 1
                                                                /\ IsInstance(w.dm, n)}))]

computeNumberOfInstances(w, obj) == NumberIn(loadSystemParameter(w, obj, FALSE).w, obj)

\* _getValue, for a definition that is a name.
ValueIn(w, n) == [w |-> w, value |-> w.dm[n].value]

getValue(w, n) ==
  IF n \notin DOMAIN w.dm THEN [w |-> w, value |-> Null]
  ELSE LET p == w.dm[n]
       IN  ValueIn(IF p.value # Null \/ (p.mode = "DM_ONLY" /\ ~p.node) THEN w
                   ELSE IF p.mode = "COMPUTED" THEN loadComputed(w, n, FALSE).w
                   ELSE loadSystemParameter(w, n, TRUE).w, n)

\* _loadComputedParameter: e is what the evaluation of the definition gives.
Evaluated(e, n, old, checkChange) ==
  LET clear == Put(e.w, n, [e.w.dm[n] EXCEPT !.state = @ \ {"BEING_EVALUATED"}])
      set == IF e.value \in {Null, old} THEN clear
             ELSE DM_ENG_Parameter_updateValue(clear, n, e.value, checkChange)
  IN  Result(Put(set, n, DM_ENG_Parameter_markLoaded(set.dm[n], TRUE)), "OK")

loadComputed(w, n, checkChange) ==
  LET p == w.dm[n]
      marked == Put(w, n, [p EXCEPT !.state = @ \cup {"BEING_EVALUATED"}])
  IN  IF "BEING_EVALUATED" \in p.state THEN Result(w, "INTERNAL_ERROR")
      ELSE Evaluated(IF p.definition = Null THEN [w |-> w, value |-> Null]
                     ELSE IF p.definition[1] = "#" THEN computeNumberOfInstances(marked, p.definition[2])
                     ELSE getValue(marked, p.definition[2]), n, p.value, checkChange)

\* _loadFinal: r is what loading gave.
Marking(r, n, withValues) ==
  IF r.code # "OK" THEN r
  ELSE IF n \notin DOMAIN r.w.dm THEN Result(r.w, "INTERNAL_ERROR")
  ELSE Result(Put(r.w, n, DM_ENG_Parameter_markLoaded(r.w.dm[n], withValues)), "OK")

loadFinal(w, n, withValues) ==
  LET p == w.dm[n]
  IN  IF isLoaded(p, withValues) \/ IsProto(n) THEN Result(w, "OK")
      ELSE Marking(
             CASE withValues /\ p.node -> IF SystemNames(w, n) = {} THEN Result(w, "INVALID_ARGUMENTS")
                                          ELSE Result(updateObject(w, n, FALSE), "OK")
               [] withValues /\ ~p.node -> IF p.mode = "COMPUTED" THEN loadComputed(w, n, FALSE) ELSE loadLeaf(w, n)
               [] ~withValues /\ p.node /\ p.inst -> Result(loadNames(w, n), "OK")
               [] OTHER -> Result(w, "OK"), n, withValues)

\* What _loadSubParameters still has to load: single values first, then the outermost
\* groups, and computed values last.
loadPending(w, obj, withValues) ==
  LET todo == {n \in DOMAIN w.dm : Under(obj, n) /\ ~IsProto(n) /\ (w.dm[n].group \/ ~w.dm[n].node)
                                   /\ ~isLoaded(w.dm[n], withValues)}
      single == {n \in todo : ~w.dm[n].group /\ w.dm[n].mode # "COMPUTED"}
      group == {n \in todo : w.dm[n].group /\ ~\E m \in todo : Under(m, n)}
      next == IF single # {} THEN CHOOSE n \in single : TRUE
              ELSE IF group # {} THEN CHOOSE n \in group : TRUE ELSE CHOOSE n \in todo : TRUE
  IN  IF todo = {} THEN Result(w, "OK")
      ELSE loadRest(IF next \in single THEN loadLeaf(w, next) ELSE loadFinal(w, next, withValues), obj, withValues)

loadRest(r, obj, withValues) == IF r.code # "OK" THEN r ELSE loadPending(r.w, obj, withValues)

\* _loadSubParameters
loadSub(w, n, withValues) ==
  CASE n # Top /\ ~w.dm[n].node -> IF withValues /\ w.dm[n].mode = "COMPUTED" THEN loadComputed(w, n, FALSE)
                                   ELSE IF withValues THEN loadLeaf(w, n) ELSE Result(w, "OK")
    [] n # Top /\ w.dm[n].node -> loadPending(Put(w, n, DM_ENG_Parameter_markLoaded(w.dm[n], withValues)), n, withValues)
    [] OTHER -> loadPending(w, n, withValues)

\* DM_ENG_ParameterManager_loadSystemParameter: a member of a group is loaded with its outermost group.
loadSystemParameter(w, n, withValues) ==
  LET above == {i \in 1..Len(n) : \A j \in i..Len(n) : SubSeq(n, 1, j) \in DOMAIN w.dm /\ w.dm[SubSeq(n, 1, j)].group}
      root == SubSeq(n, 1, CHOOSE i \in above : \A j \in above : i <= j)
  IN  IF isLoaded(w.dm[n], withValues) THEN Result(w, "OK")
      ELSE IF w.dm[n].group THEN loadFinal(w, root, withValues) ELSE loadSub(w, n, withValues)

DM_ENG_ParameterManager_loadSystemParameters(w, n, withValues) ==
  LET found == IF n \in DOMAIN w.dm THEN {n} ELSE Protos(n) \cap DOMAIN w.dm
  IN  IF n = Top THEN loadSub(w, Top, withValues)
      ELSE IF found = {} THEN Result(w, "INVALID_PARAMETER_NAME")
      ELSE loadSystemParameter(w, CHOOSE m \in found : TRUE, withValues)

-----------------------------------------------------------------------------
(* Setting *)

Target(p) == IF p.mode = "COMPUTED" /\ p.definition # Null THEN p.definition[2] ELSE Null

RECURSIVE setParameterValue(_, _, _, _, _), commitParameter(_, _), unsetParameter(_, _)

\* DM_ENG_ParameterManager_setParameterValue: "sys" is the parameter the system has to set.
\* A redirection is followed; its cycles are found by BEING_EVALUATED.
setParameterValue(w, entity, n, v, first) ==
  LET p == w.dm[n]
      marked == Put(w, n, [p EXCEPT !.state = @ \cup {"BEING_EVALUATED"}])
      check == DM_ENG_Parameter_checkBeforeSetValue(p, v)
      loaded == loadLeaf(marked, n)
      set == Put(loaded.w, n, DM_ENG_Parameter_setValue(loaded.w.dm[n], v))
      system == p.mode \in {"SYSTEM_ONLY", "MIXED"}
      rest == IF check # "OK" THEN [w |-> marked, code |-> check, sys |-> Null]
              ELSE IF loaded.code # "OK" THEN [w |-> loaded.w, code |-> loaded.code, sys |-> Null]
              ELSE IF Target(p) = Null THEN [w |-> set, code |-> "OK", sys |-> IF system THEN n ELSE Null]
              ELSE setParameterValue(set, entity, Target(p), v, FALSE)
      unmark(u) == Put(u, n, [u.dm[n] EXCEPT !.state = @ \ {"BEING_EVALUATED"}])
  IN  CASE n \notin DOMAIN w.dm -> [w |-> w, code |-> "INVALID_PARAMETER_NAME", sys |-> Null]
        [] OTHER ->
           CASE p.node \/ (first /\ p.hidden) -> [w |-> w, code |-> "INVALID_PARAMETER_NAME", sys |-> Null]
             [] ~p.node /\ ~(first /\ p.hidden) ->
                IF ~p.writable \/ ~DM_ENG_EntityType_belongsTo(entity, p.access)
                THEN [w |-> w, code |-> "READ_ONLY_PARAMETER", sys |-> Null]
                ELSE IF "BEING_EVALUATED" \in p.state
                THEN [w |-> unmark(w), code |-> "INTERNAL_ERROR", sys |-> Null]
                ELSE [rest EXCEPT !.w = unmark(rest.w)]

\* Mutant of Consequences: the last setting decides whether a test was requested.
LastDecides(w, n) ==
  LET obj == CHOOSE o \in DiagnosticsObjects(n) : \A q \in DiagnosticsObjects(n) : Len(q) <= Len(o)
  IN  IF DiagnosticsObjects(n) = {} THEN w
      ELSE [w EXCEPT !.diag = (obj :> (isDiagnosticsState(n) /\ w.dm[n].value = "Requested")) @@ @]

\* What a commit makes of the parameters the agent itself depends on.
Consequences(w, n) ==
  IF DiagnosticsObjects(n) # {}
  THEN LET obj == CHOOSE o \in DiagnosticsObjects(n) : \A q \in DiagnosticsObjects(n) : Len(q) <= Len(o)
           asked == isDiagnosticsState(n) /\ w.dm[n].value = "Requested"
           was == obj \in DOMAIN w.diag /\ w.diag[obj]
       IN  [w EXCEPT !.diag = (obj :> (asked \/ was)) @@ @]
  ELSE IF n = PeriodicName THEN [w EXCEPT !.periodic = TRUE]
  ELSE IF n = UrlName THEN [w EXCEPT !.acs = TRUE, !.pending = @ \cup {"BOOTSTRAP"}]
  ELSE w

\* DM_ENG_ParameterManager_commitParameter
commitParameter(w, n) ==
  IF n \notin DOMAIN w.dm \/ w.dm[n].node THEN w
  ELSE LET next == Target(w.dm[n])
           done == Consequences(DM_ENG_Parameter_commit(w, n), n)
       IN  IF next = Null THEN done ELSE commitParameter(done, next)

\* Mutant of unsetParameter: the target of a redirection is left as it is.
UnsetOnlyName(w, n) ==
  IF n \notin DOMAIN w.dm \/ w.dm[n].node THEN w ELSE Put(w, n, DM_ENG_Parameter_cancelChange(w.dm[n]))

\* DM_ENG_ParameterManager_unsetParameter
unsetParameter(w, n) ==
  IF n \notin DOMAIN w.dm \/ w.dm[n].node THEN w
  ELSE LET p == w.dm[n]
           done == Put(w, n, DM_ENG_Parameter_cancelChange(p))
       IN  IF "CHANGE_REQUESTED" \in p.state /\ Target(p) # Null THEN unsetParameter(done, Target(p)) ELSE done

\* DM_ENG_ParameterManager_setParameterKey: what _setParameterValue returns is not looked at.
DM_ENG_ParameterManager_setParameterKey(w, key) ==
  LET p == w.dm[KeyName]
      ok == DM_ENG_Parameter_checkBeforeSetValue(p, key) = "OK"
  IN  IF key = Null THEN w
      ELSE DM_ENG_Parameter_commit(IF ok THEN Put(w, KeyName, DM_ENG_Parameter_setValue(p, key)) ELSE w, KeyName)

\* DM_ENG_ParameterManager_addObject: "given" is the number the system gives, 0 when it fails.
DM_ENG_ParameterManager_addObject(w, entity, obj, given) ==
  LET p == w.dm[obj]
      own == p.mode = "DM_ONLY"
      k == IF own THEN p.last + 1 ELSE given
      counted == IF own THEN DM_ENG_Parameter_commit(Put(w, obj, [p EXCEPT !.last = k]), obj) ELSE w
      marked == DM_ENG_Parameter_updateValue(counted, obj, Null, TRUE)
      fails(code) == [w |-> w, code |-> code, number |-> 0]
  IN  IF obj \notin DOMAIN w.dm THEN fails("INVALID_PARAMETER_NAME")
      ELSE IF ~p.node THEN fails("INVALID_PARAMETER_NAME")
      ELSE IF ~p.writable THEN fails("REQUEST_DENIED")
      ELSE IF own /\ p.last >= MaxInstance THEN fails("RESOURCES_EXCEEDED")
      ELSE IF ~own /\ entity = "SYSTEM" THEN fails("REQUEST_DENIED")
      ELSE IF ~own /\ given = 0 THEN fails("INTERNAL_ERROR")
      ELSE [w |-> [marked EXCEPT !.dm = createInstance(@, obj, ToString(k))], code |-> "OK", number |-> k]

\* DM_ENG_ParameterManager_deleteObject: "answer" is what the system says.
DM_ENG_ParameterManager_deleteObject(w, entity, obj, answer) ==
  LET parent == Front(obj)
      asks == w.dm[parent].mode # "DM_ONLY" /\ entity # "SYSTEM"
      code == IF asks THEN answer ELSE "OK"
      marked == DM_ENG_Parameter_updateValue(w, parent, Null, TRUE)
  IN  IF obj \notin DOMAIN w.dm THEN Result(w, "INVALID_PARAMETER_NAME")
      ELSE IF ~w.dm[obj].node \/ Len(obj) < 2 \/ parent \notin DOMAIN w.dm THEN Result(w, "INVALID_PARAMETER_NAME")
      ELSE IF ~w.dm[parent].writable THEN Result(w, "REQUEST_DENIED")
      ELSE IF code \in {"OK", "INVALID_PARAMETER_NAME"}
      THEN Result([marked EXCEPT !.dm = DM_ENG_ParameterData_deleteObject(@, obj)], code)
      ELSE Result(w, code)

-----------------------------------------------------------------------------
(* The end of a session, and what the system notifies *)

\* DM_ENG_ParameterManager_sync
DM_ENG_ParameterManager_sync(w, resetComputed) ==
  IF resetComputed THEN [w EXCEPT !.dm = [n \in DOMAIN @ |-> DM_ENG_Parameter_clearTemporaryValue(@[n], 0)]] ELSE w

\* _checkValueChange
checkValueChange(w, n) ==
  IF w.dm[n].node THEN w
  ELSE IF w.dm[n].value = Null THEN DM_ENG_Parameter_updateValue(w, n, Null, TRUE)
  ELSE IF w.dm[n].mode # "DM_ONLY" /\ n \in DOMAIN w.dev /\ w.dev[n] # w.dm[n].value
  THEN DM_ENG_Parameter_updateValue(w, n, w.dev[n], TRUE) ELSE w

\* processChange
processChange(w, n) ==
  IF n \notin DOMAIN w.dm THEN w
  ELSE FoldSet(LAMBDA m, v : checkValueChange(v, m), w,
               {m \in DOMAIN w.dm : m = n \/ (w.dm[n].node /\ Under(n, m))})

\* processValueChange
processValueChange(w, n, v) ==
  IF n \in DOMAIN w.dm /\ ~w.dm[n].node THEN DM_ENG_Parameter_updateValue(w, n, v, TRUE) ELSE w

\* DM_ENG_ParameterManager_updateParameterValues, for values of single parameters.
updateParameterValues(w, pairs) ==
  FoldSet(LAMBDA x, v : IF x[1] \in DOMAIN v.dm THEN DM_ENG_Parameter_updateValue(v, x[1], x[2], TRUE) ELSE v, w, pairs)

\* _checkComputedChanged
AddMarks(w, n, marks) == [w EXCEPT !.dm[n].state = @ \cup marks]

checkComputedChanged(w, n) ==
  LET p == w.dm[n]
      source == p.definition[2]
      has(mark) == p.definition # Null /\ source \in DOMAIN w.dm /\ mark \in w.dm[source].state
      changed == IF p.value # Null \/ p.notification # "OFF" THEN loadComputed(w, n, TRUE).w
                 ELSE DM_ENG_Parameter_updateValue(w, n, Null, TRUE)
  IN  AddMarks(IF has("VALUE_CHANGED") THEN changed ELSE w, n, IF has("PUSHED") THEN {"PUSHED"} ELSE {})

\* _razDiagnosticsResult: the results of the last test are erased.
razDiagnosticsResult(w, obj, requested) ==
  LET instances == {n \in DOMAIN w.dm : Under(obj, n) /\ IsInstance(w.dm, n)}
      kept == {n \in DOMAIN w.dm : ~\E i \in instances : IsPrefix(i, n)}
      reset(n) == Under(obj, n) /\ ~w.dm[n].node /\ (IF isDiagnosticsState(n) THEN ~requested ELSE ~w.dm[n].writable)
  IN  [w EXCEPT !.dm = [n \in kept |-> IF reset(n)
                          THEN [w.dm[n] EXCEPT !.value = IF isDiagnosticsState(n) THEN "None" ELSE Null]
                          ELSE w.dm[n]]]

\* One notification of the system: type and argument.
Process(w, c) ==
  CASE c.type = "PATH_CHANGE" -> processChange(w, c.name)
    [] c.type = "DATA_VALUE_CHANGE" -> processValueChange(w, c.name, c.value)
    [] c.type = "VALUES_UPDATED" -> updateParameterValues(w, c.values)
    [] c.type = "VENDOR_SPECIFIC_EVENT" -> [w EXCEPT !.pending = @ \cup {c.event}]

\* DM_ENG_ParameterManager_unlock, with the notifications that were waiting: the temporary
\* values are dropped, the notifications processed, the computed values checked and the results
\* of the tests erased.
Cleared(w) ==
  [w EXCEPT !.dm = [n \in DOMAIN @ |-> DM_ENG_Parameter_clearTemporaryValue(@[n], 1)], !.periodic = FALSE]

ComputedChecked(w) ==
  FoldSet(LAMBDA n, v : checkComputedChanged(v, n), w,
          {n \in DOMAIN w.dm : /\ w.dm[n].mode = "COMPUTED" /\ ~IsProto(n)
                               /\ ("VALUE_CHANGED" \notin w.dm[n].state \/ w.dm[n].value # Null)})

ResultsErased(w) ==
  [FoldSet(LAMBDA o, v : razDiagnosticsResult(v, o, v.diag[o]), w, DOMAIN w.diag) EXCEPT !.diag = <<>>, !.acs = FALSE]

DM_ENG_ParameterManager_unlock(w, waiting) ==
  ResultsErased(ComputedChecked(FoldLeft(LAMBDA v, c : Process(v, c), Cleared(w), waiting)))
===============================================================================
