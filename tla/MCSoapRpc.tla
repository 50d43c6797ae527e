------------------------------- MODULE MCSoapRpc -------------------------------
EXTENDS SoapRpc

V == {"v0", "v1"}
P == <<"P">>
K == <<"K">>
S == <<"S">>
R == <<"R">>
C == <<"C">>
Obj == <<"Obj">>
G == <<"G">>
D == <<"Diagnostics">>

Leaf(f) == NewParameter(f @@ [values |-> V \cup {Empty}])
Node(f) == NewParameter(f @@ [node |-> TRUE])

MCDm ==
  (P :> Leaf([value |-> "v0", notification |-> "ACTIVE", access |-> {"SUBSCRIBER"}]))
  @@ (K :> Leaf([value |-> Empty, writable |-> FALSE, mandatory |-> TRUE]))
  @@ (S :> Leaf([mode |-> "SYSTEM_ONLY", notification |-> "PASSIVE", access |-> {"SUBSCRIBER"}]))
  @@ (R :> Leaf([mode |-> "COMPUTED", definition |-> <<"=", S>>, notification |-> "PASSIVE"]))
  @@ (C :> Leaf([mode |-> "COMPUTED", definition |-> <<"#", Obj>>, writable |-> FALSE, denied |-> TRUE]))
  @@ (Obj :> Node([mode |-> "DM_ONLY"]))
  @@ (Obj \o <<"">> :> Node([mode |-> "DM_ONLY"]))
  @@ (Obj \o <<"", "x">> :> Leaf([value |-> "v0"]))
  @@ (G :> Node([mode |-> "SYSTEM_ONLY", group |-> TRUE, inst |-> TRUE]))
  @@ (G \o <<"">> :> Node([mode |-> "SYSTEM_ONLY", group |-> TRUE]))
  @@ (G \o <<"", "y">> :> Leaf([mode |-> "SYSTEM_ONLY", group |-> TRUE]))
  @@ (D :> Node([mode |-> "DM_ONLY", writable |-> FALSE]))
  @@ (D \o <<"DiagnosticsState">> :> Leaf([value |-> "None", values |-> {"None", "Requested"}]))
  @@ (D \o <<"Host">> :> Leaf([value |-> Empty]))
  @@ (D \o <<"SuccessCount">> :> Leaf([writable |-> FALSE]))

MCDev == (S :> "v0")

Set(list) == [method |-> "SetParameterValues", key |-> "v1",
              list |-> [i \in DOMAIN list |-> [name |-> list[i][1], type |-> "string", value |-> list[i][2]]]]
Get(names) == [method |-> "GetParameterValues", names |-> names]
Attribute(n, notification) ==
  [name |-> n, change |-> TRUE, notification |-> notification, accessChange |-> FALSE, access |-> Null]
Attributes(list) == [method |-> "SetParameterAttributes", list |-> list]

MCRequests ==
  { Set(<< <<P, "v1">>, <<R, "v1">> >>),                  \* both, through the redirection
    Set(<< <<R, "v1">>, <<S, "v0">> >>),                  \* S twice
    Set(<< <<P, "v1">>, <<Null, "v0">> >>),               \* a name is missing
    Set(<< <<D \o <<"DiagnosticsState">>, "Requested">> >>),
    Set(<< <<D \o <<"Host">>, "v1">> >>),
    Get(<<Null>>), Get(<<C, R>>),
    [method |-> "GetParameterNames", path |-> G, nextLevel |-> TRUE],
    Attributes(<<Attribute(S, "ACTIVE"), Attribute(C, "ACTIVE")>>),
    Attributes(<<Attribute(R, "OFF"), [Attribute(P, "OFF") EXCEPT !.name = Null]>>),
    [method |-> "AddObject", object |-> Obj, key |-> "v1"],
    [method |-> "AddObject", object |-> G, key |-> Empty],
    [method |-> "DeleteObject", object |-> Obj \o <<"1">>, key |-> "v1"],
    [method |-> "DeleteObject", object |-> G \o <<"1">>, key |-> "v1"],
    [method |-> "GetRPCMethods"], [method |-> "GetOptions"] }

\* The build leaves GetParameterAttributes out.
MCSupported == {"GetRPCMethods", "SetParameterValues", "GetParameterValues", "GetParameterNames",
                "SetParameterAttributes", "AddObject", "DeleteObject"}

MCLocalRequests ==
  { [method |-> "SetParameterValues", list |-> <<[name |-> P, value |-> "v1"], [name |-> R, value |-> "v1"]>>] }

MCNotifications ==
  { [type |-> "PATH_CHANGE", name |-> S, set |-> (S :> "v1"), drop |-> {}],
    [type |-> "DATA_VALUE_CHANGE", name |-> P, value |-> "v0", set |-> <<>>, drop |-> {}],
    [type |-> "VALUES_UPDATED", values |-> {<<S, "v0">>}, set |-> (S :> "v0"), drop |-> {}],
    [type |-> "PATH_CHANGE", name |-> G, set |-> (G \o <<"1", "y">> :> "v0"), drop |-> {}],
    [type |-> "PATH_CHANGE", name |-> G, set |-> <<>>, drop |-> {G \o <<"1", "y">>}] }

MCKeyName == K
MCUrlName == <<"U">>
MCPeriodicName == <<"I">>
===============================================================================
