----------------------------- MODULE RpcInterface -----------------------------
(***************************************************************************)
(* The RPC methods of the engine (DM_ENG_RPCInterface.c) and what decides  *)
(* which changes of values the ACS is told of (DM_ENG_Parameter.c, sendMessage *)
(* of the inform scheduler, DM_ENG_NotificationInterface.c), as operators  *)
(* on the state of Parameters.                                             *)
(***************************************************************************)
EXTENDS Parameters

isValuable(dm, n) == ~dm[n].node /\ ~IsProto(n)
Visible(dm) == {n \in DOMAIN dm : isValuable(dm, n) /\ ~dm[n].hidden}
Selected(dm, path) == {n \in Visible(dm) : IsPrefix(path, n)}
IsPath(dm, n) == n = Top \/ (n \in DOMAIN dm /\ dm[n].node)

-----------------------------------------------------------------------------
(* Values *)

\* One entry of the list: acc has the state, the faults and what the system has to set.
SetLoaded(l, entity, e) ==
  IF l.code = "OK" THEN setParameterValue(l.w, entity, e.name, e.value, TRUE)
  ELSE [w |-> l.w, code |-> l.code, sys |-> Null]

Noted(r, acc, e) ==
  [w |-> r.w,
   faults |-> IF r.code = "OK" THEN acc.faults ELSE Append(acc.faults, [name |-> e.name, code |-> r.code]),
   sys |-> IF r.sys = Null THEN acc.sys ELSE Append(acc.sys, [name |-> r.sys, value |-> e.value])]

SetOne(entity, acc, e) ==
  Noted(SetLoaded(DM_ENG_ParameterManager_loadSystemParameters(acc.w, e.name, FALSE), entity, e), acc, e)

\* DM_ENG_Device_setValues: all the values, or none.
DM_ENG_Device_setValues(w, sys, ok) ==
  IF ok THEN [w EXCEPT !.dev = [n \in DOMAIN @ |->
                 IF \E i \in DOMAIN sys : sys[i].name = n
                 THEN sys[CHOOSE i \in DOMAIN sys : sys[i].name = n /\ \A j \in DOMAIN sys : sys[j].name = n => j <= i].value
                 ELSE @[n]]]
  ELSE w

\* DM_ENG_SetParameterValues: all the settings, or none.
Settle(acc, entity, list, key, systemOk) ==
  LET asks == acc.faults = <<>> /\ acc.sys # <<>>
      refused == [i \in DOMAIN acc.sys |-> [name |-> acc.sys[i].name, code |-> "INTERNAL_ERROR"]]
      faults == IF asks /\ ~systemOk THEN refused ELSE acc.faults
      done == faults = <<>>
      set == IF asks THEN DM_ENG_Device_setValues(acc.w, acc.sys, systemOk) ELSE acc.w
      keyed == IF done /\ entity = "ACS" THEN DM_ENG_ParameterManager_setParameterKey(set, key) ELSE set
      names == [i \in DOMAIN list |-> list[i].name]
  IN  [w |-> IF done THEN FoldLeft(LAMBDA v, n : commitParameter(v, n), keyed, names)
             ELSE FoldLeft(LAMBDA v, n : unsetParameter(v, n), keyed, names),
       code |-> IF done THEN "OK" ELSE "INVALID_ARGUMENTS", faults |-> faults]

DM_ENG_SetParameterValues(w, entity, list, key, systemOk) ==
  Settle(FoldLeft(LAMBDA a, e : SetOne(entity, a, e), [w |-> w, faults |-> <<>>, sys |-> <<>>], list),
         entity, list, key, systemOk)

\* A name of GetParameterValues: r has the state, the code and the values found.
Collect(r, l, n) ==
  LET bad == n # Top /\ (n \notin DOMAIN l.w.dm \/ l.w.dm[n].hidden)
      names == IF IsPath(l.w.dm, n) THEN Selected(l.w.dm, n) ELSE {n}
  IN  IF r.code # "OK" THEN r
      ELSE IF l.code # "OK" THEN [r EXCEPT !.w = l.w, !.code = l.code]
      ELSE IF bad THEN [r EXCEPT !.w = l.w, !.code = "INVALID_PARAMETER_NAME"]
      ELSE [w |-> l.w, code |-> "OK", values |-> [m \in names |-> l.w.dm[m].value] @@ r.values]

GetOne(r, n) == Collect(r, DM_ENG_ParameterManager_loadSystemParameters(r.w, n, TRUE), n)

DM_ENG_GetParameterValues(w, names) ==
  FoldLeft(LAMBDA r, n : GetOne(r, n), [w |-> w, code |-> "OK", values |-> <<>>], names)

\* DM_ENG_GetParameterNames: the names found, and whether each is writable.
NamesFound(l, path, nextLevel) ==
  LET dm == l.w.dm
      fits(n) == IsPrefix(path, n) /\ ~IsProto(n) /\ ~dm[n].hidden /\ (nextLevel => Len(n) = Len(path) + 1)
      bad == (path # Top /\ path \notin DOMAIN dm) \/ (nextLevel /\ ~IsPath(dm, path)) \/ IsProto(path)
  IN  IF l.code # "OK" THEN [w |-> l.w, code |-> l.code, values |-> <<>>]
      ELSE IF bad THEN [w |-> l.w, code |-> "INVALID_PARAMETER_NAME", values |-> <<>>]
      ELSE IF path # Top /\ dm[path].hidden THEN [w |-> l.w, code |-> "INVALID_PARAMETER_NAME", values |-> <<>>]
      ELSE [w |-> l.w, code |-> "OK",
            values |-> [n \in IF IsPath(dm, path) THEN {m \in DOMAIN dm : fits(m)} ELSE {path} |-> dm[n].writable]]

DM_ENG_GetParameterNames(w, path, nextLevel) ==
  NamesFound(DM_ENG_ParameterManager_loadSystemParameters(w, path, FALSE), path, nextLevel)

-----------------------------------------------------------------------------
(* Attributes *)

\* The parameters an entry is about, in some order.
AttributeNames(dm, n) == SetToSeq(IF IsPath(dm, n) THEN Selected(dm, n) ELSE {n})

\* One parameter: its attributes are kept in "back" before they are set.
SetAttribute(r, n, e) ==
  LET p == r.w.dm[n]
      s == DM_ENG_Parameter_setAttributes(p, e.notification, e.access)
  IN  IF r.code # "OK" THEN r
      ELSE [w |-> Put(r.w, n, s.p), code |-> s.code,
            back |-> Append(r.back, [name |-> n, notification |-> p.notification, access |-> p.access])]

SetAttributesLoaded(r, l, e) ==
  LET dm == l.w.dm
      bad == e.name # Top /\ (e.name \notin DOMAIN dm \/ IsProto(e.name) \/ dm[e.name].hidden)
  IN  IF r.code # "OK" THEN r
      ELSE IF e.notification \notin {"OFF", "PASSIVE", "ACTIVE", "UNDEFINED"} THEN [r EXCEPT !.code = "INVALID_ARGUMENTS"]
      ELSE IF l.code # "OK" THEN [r EXCEPT !.w = l.w, !.code = l.code]
      ELSE IF bad THEN [r EXCEPT !.w = l.w, !.code = "INVALID_PARAMETER_NAME"]
      ELSE FoldLeft(LAMBDA a, n : SetAttribute(a, n, e), [r EXCEPT !.w = l.w], AttributeNames(dm, e.name))

SetAttributesOf(r, e) ==
  SetAttributesLoaded(r, DM_ENG_ParameterManager_loadSystemParameters(r.w, e.name, FALSE), e)

\* DM_ENG_SetParameterAttributes: after an error what "back" holds is put back, first entry first.
RestoreAfterError(r) ==
  LET restore(v, b) == Put(v, b.name, DM_ENG_Parameter_setAttributes(v.dm[b.name], b.notification, b.access).p)
  IN  IF r.code = "OK" THEN Result(r.w, "OK")
      ELSE Result(FoldLeft(LAMBDA v, b : restore(v, b), r.w, r.back), r.code)

DM_ENG_SetParameterAttributes(w, entity, list) ==
  IF entity # "ACS" THEN Result(w, "REQUEST_DENIED")
  ELSE RestoreAfterError(FoldLeft(LAMBDA a, e : SetAttributesOf(a, e), [w |-> w, code |-> "OK", back |-> <<>>], list))

\* A name of GetParameterAttributes.
CollectAttributes(r, l, n) ==
  LET dm == l.w.dm
      bad == n # Top /\ (n \notin DOMAIN dm \/ IsProto(n) \/ dm[n].hidden)
      names == IF IsPath(dm, n) THEN Selected(dm, n) ELSE {n}
  IN  IF r.code # "OK" THEN r
      ELSE IF l.code # "OK" THEN [r EXCEPT !.w = l.w, !.code = l.code]
      ELSE IF bad THEN [r EXCEPT !.w = l.w, !.code = "INVALID_PARAMETER_NAME"]
      ELSE [w |-> l.w, code |-> "OK",
            values |-> [m \in names |-> <<dm[m].notification, dm[m].access>>] @@ r.values]

GetAttributesOf(r, n) == CollectAttributes(r, DM_ENG_ParameterManager_loadSystemParameters(r.w, n, FALSE), n)

DM_ENG_GetParameterAttributes(w, names) ==
  FoldLeft(LAMBDA r, n : GetAttributesOf(r, n), [w |-> w, code |-> "OK", values |-> <<>>], names)

-----------------------------------------------------------------------------
(* Objects *)

DM_ENG_AddObject(w, entity, obj, key, given) ==
  LET r == DM_ENG_ParameterManager_addObject(w, entity, obj, given)
  IN  IF r.code = "OK" /\ entity = "ACS" THEN [r EXCEPT !.w = DM_ENG_ParameterManager_setParameterKey(@, key)] ELSE r

\* Mutant of DM_ENG_DeleteObject: the key is set although the system refused.
DeleteSetsKey(w, entity, obj, key, answer) ==
  LET r == DM_ENG_ParameterManager_deleteObject(w, entity, obj, answer)
  IN  [r EXCEPT !.w = DM_ENG_ParameterManager_setParameterKey(@, key)]

DM_ENG_DeleteObject(w, entity, obj, key, answer) ==
  LET r == DM_ENG_ParameterManager_deleteObject(w, entity, obj, answer)
  IN  IF r.code = "OK" /\ entity = "ACS" THEN [r EXCEPT !.w = DM_ENG_ParameterManager_setParameterKey(@, key)] ELSE r

-----------------------------------------------------------------------------
(* Which values the ACS is told of *)

Mandatory(dm) == {n \in DOMAIN dm : dm[n].mandatory}

isInformParameter(dm, n) == n \in DOMAIN dm /\ (dm[n].mandatory \/ dm[n].notification \in {"PASSIVE", "ACTIVE"})

\* DM_ENG_ParameterManager_loadLeafParameterValue
loadLeafParameterValue(w, n) ==
  IF w.dm[n].mode # "COMPUTED" THEN loadLeaf(w, n).w
  ELSE IF isLoaded(w.dm[n], TRUE) THEN w ELSE loadComputed(w, n, FALSE).w

\* DM_ENG_NotificationInterface_setKnownParameterList: the values the ACS is taken to know,
\* those it sets (before they are checked) and the mandatory ones (as they are).
setKnownParameterList(w, list) ==
  LET asked == {i \in DOMAIN list : isInformParameter(w.dm, list[i].name)}
      first(n) == CHOOSE i \in asked : list[i].name = n /\ \A j \in asked : list[j].name = n => i <= j
      names == {list[i].name : i \in asked}
      loaded == FoldSet(LAMBDA n, v : loadLeafParameterValue(v, n), w, Mandatory(w.dm) \ names)
  IN  [w |-> loaded,
       known |-> [n \in names |-> list[first(n)].value] @@ [n \in Mandatory(w.dm) |-> loaded.dm[n].value]]

Without(known, names) == [n \in DOMAIN known \ names |-> known[n]]

ChangedParameter(dm, n) == "VALUE_CHANGED" \in dm[n].state /\ dm[n].notification # "OFF"

\* sendMessage: the parameters of an Inform message, loaded, and the events.
InformParameters(w) ==
  LET names == {n \in DOMAIN w.dm : ~IsProto(n) /\ (w.dm[n].mandatory \/ ChangedParameter(w.dm, n))}
  IN  [w |-> FoldSet(LAMBDA n, v : loadLeafParameterValue(v, n), w, names), names |-> names]

InformEvents(w, events) ==
  IF \E n \in DOMAIN w.dm : ~IsProto(n) /\ ChangedParameter(w.dm, n)
  THEN events \cup {"VALUE CHANGE"} ELSE events \ {"VALUE CHANGE"}

\* Mutant of Filtered: what the ACS is taken to know is compared by name only.
FilteredByName(dm, names, known) ==
  [sent |-> {n \in names : n \in Mandatory(dm) \/ n \notin DOMAIN known},
   remove |-> (names \cap DOMAIN known) \ Mandatory(dm),
   change |-> \E n \in names : n \notin DOMAIN known]

\* DM_ENG_NotificationInterface_inform: what is left of the parameters.
Filtered(dm, names, known) ==
  LET new(n) == n \notin DOMAIN known \/ known[n] # dm[n].value
  IN  [sent |-> {n \in names : n \in Mandatory(dm) \/ new(n)},
       remove |-> (names \cap DOMAIN known) \ Mandatory(dm),
       change |-> \E n \in names : new(n) /\ (n = KeyName => n \notin DOMAIN known)]
===============================================================================
