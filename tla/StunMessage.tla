----------------------------- MODULE StunMessage -----------------------------
(***************************************************************************)
(* The messages between the STUN client, the STUN server and the ACS       *)
(* (dm_lib_stun.c, and the message part of dm_stun.c).                     *)
(*                                                                         *)
(* A message is a type and a function from the attributes it has to their  *)
(* values.  On the wire it is a sequence of attributes, each with the      *)
(* length its encoder claims; the parser believes no length.  An IP        *)
(* address is an opaque value: each htonl of the code meets its ntohl.     *)
(* An HMAC is the key it was made with.  XorOnly, the one attribute that   *)
(* is encoded without a length, is sent by nobody and left out.            *)
(***************************************************************************)
EXTENDS Integers, Sequences

CONSTANTS
  Unknown,      \* UNKNOWN, the address 0.0.0.0
  NoKey         \* no HMAC is asked for

AddressAttrs == {"MappedAddress", "ResponseAddress", "SourceAddress", "ChangedAddress",
                 "ReflectedFrom", "XorMappedAddress", "SecondaryAddress"}
StringAttrs == {"Username", "Password", "ServerName", "ConnectionRequestBinding"}

\* The order in which stunEncodeMessage looks at the attributes.
AttrOrder ==
  <<"MappedAddress", "ResponseAddress", "ChangeRequest", "SourceAddress", "ChangedAddress",
    "Username", "Password", "ErrorCode", "UnknownAttribute", "ReflectedFrom", "XorMappedAddress",
    "ServerName", "SecondaryAddress", "ConnectionRequestBinding", "BindingChange">>

\* encodeAtrAddress4, encodeAtrChangeRequest, encodeAtrError, encodeAtrUnknown,
\* encodeAtrString, encodeAtrIntegrity, encodeBindingChange: the length they claim.
AtrLength(a, v) ==
  CASE a \in AddressAttrs -> 8
    [] a \in StringAttrs -> v.sizeValue
    [] a = "ChangeRequest" -> 4
    [] a = "ErrorCode" -> 4 + v.sizeReason
    [] a = "UnknownAttribute" -> 2 + 2 * v.numAttributes
    [] a = "MessageIntegrity" -> 20
    [] a = "BindingChange" -> 0

Atr(a, v) == [type |-> a, length |-> AtrLength(a, v), value |-> v]

Bytes(attrs) ==
  LET upTo[i \in 0 .. Len(attrs)] == IF i = 0 THEN 0 ELSE upTo[i - 1] + 4 + attrs[i].length
  IN  upTo[Len(attrs)]

\* The HMAC, when there is a key, covers what precedes it and is counted in the header.
stunEncodeMessage(m, key) ==
  LET present == SelectSeq(AttrOrder, LAMBDA a : a \in DOMAIN m.attrs)
      plain == [i \in 1 .. Len(present) |-> Atr(present[i], m.attrs[present[i]])]
      all == IF key = NoKey THEN plain ELSE Append(plain, Atr("MessageIntegrity", key))
  IN  [msgType |-> m.msgType, msgLength |-> Bytes(all), attrs |-> all]

\* stunParseAtrAddress, ..ChangeRequest, ..Error, ..Unknown, ..String, ..Integrity;
\* the two attributes of TR-111 are taken whatever they hold.
AtrParses(a) ==
  CASE a.type \in AddressAttrs -> a.length = 8
    [] a.type \in {"ConnectionRequestBinding", "BindingChange"} -> TRUE
    [] a.type \in StringAttrs -> a.length < 256 /\ a.length % 4 = 0
    [] a.type = "ChangeRequest" -> a.length = 4
    [] a.type = "ErrorCode" -> a.length < 262
    [] a.type = "UnknownAttribute" -> a.length < 18 /\ a.length % 4 = 0
    [] a.type = "MessageIntegrity" -> a.length = 20
    [] OTHER -> FALSE

\* stunParseMessage: the lengths add up, and each attribute fits in what is left.
Parses(d) ==
  /\ "attrs" \in DOMAIN d /\ d.msgLength = Bytes(d.attrs)
  /\ \A i \in 1 .. Len(d.attrs) :
       /\ d.attrs[i].length + 4 <= d.msgLength - Bytes(SubSeq(d.attrs, 1, i - 1))
       /\ AtrParses(d.attrs[i])

\* The attributes found, and their values.
Found(d) == {d.attrs[i].type : i \in 1 .. Len(d.attrs)}
ValueOf(d, a) == (CHOOSE i \in 1 .. Len(d.attrs) : d.attrs[i].type = a)
AtrValue(d, a) == d.attrs[ValueOf(d, a)].value

-----------------------------------------------------------------------------
(* What the client sends: DM_STUN_sendMessage *)

Text(size) == [sizeValue |-> size]

\* CONNECTION_REQUEST_BINDING_VALUE is "dslforum.org/TR-111 ", 20 characters.
BindingValue == Text(20)

Request(kind, username, wan) ==
  LET named == [Username |-> username, ConnectionRequestBinding |-> BindingValue]
      change == [Username |-> username, ConnectionRequestBinding |-> BindingValue,
                 BindingChange |-> 0]
  IN  [msgType |-> "BindRequestMsg",
       attrs |-> CASE kind = "BINDING_REQUEST" -> named
                   [] kind \in {"BINDING_CHANGE", "MSG_INTEGRITY"} -> change
                   [] kind = "TIMEOUT_DISCOVERY" -> [ResponseAddress |-> wan]]

DM_STUN_sendMessage(kind, username, password, wan) ==
  stunEncodeMessage(Request(kind, username, wan), IF kind = "MSG_INTEGRITY" THEN password ELSE NoKey)

-----------------------------------------------------------------------------
(* What the server answers: stunServerProcessMsg *)

Addresses(from, server) ==
  [MappedAddress |-> from, SourceAddress |-> server, ChangedAddress |-> server]

\* To a request of the discovery: a message that goes to the address it asks for.
TimeoutResponse(from, server) ==
  stunEncodeMessage([msgType |-> "BindResponseMsg",
                     attrs |-> [MappedAddress |-> from, SourceAddress |-> server,
                                ChangedAddress |-> server, ReflectedFrom |-> from]], NoKey)

\* To the other requests: BINDING_CHANGE without HMAC is refused.
BindingResponse(d, from, server, password) ==
  LET has == Found(d)
  IN  IF "BindingChange" \in has /\ "MessageIntegrity" \notin has
      THEN stunEncodeMessage([msgType |-> "BindErrorResponseMsg",
                              attrs |-> [ErrorCode |-> [sizeReason |-> 12]]], NoKey)
      ELSE stunEncodeMessage([msgType |-> "BindResponseMsg", attrs |-> Addresses(from, server)],
                             IF "BindingChange" \in has THEN password ELSE NoKey)

stunServerProcessMsg(d, from, server, password) ==
  IF "ConnectionRequestBinding" \in Found(d)
  THEN [to |-> from, msg |-> BindingResponse(d, from, server, password)]
  ELSE [to |-> AtrValue(d, "ResponseAddress"), msg |-> TimeoutResponse(from, server)]

-----------------------------------------------------------------------------
(* What the client reads: DM_STUN_readMessage *)

\* The attributes tell the kind of answer; a wrong HMAC makes no difference.
MessageType(d) ==
  LET has == Found(d)
  IN  IF {"MappedAddress", "SourceAddress", "ChangedAddress"} \subseteq has
      THEN IF "ReflectedFrom" \in has THEN "TIMEOUT_RESPONSE"
           ELSE IF "MessageIntegrity" \in has THEN "MSG_INTEGRITY_RESPONSE"
           ELSE "BINDING_RESPONSE"
      ELSE IF "ErrorCode" \in has THEN "BINDING_ERROR_RESPONSE" ELSE "MESSAGE_UNKNOWN"

\* The fields of a connection request over UDP, which each one sent here has.  The code
\* counts them but returns TRUE without them too, with what its buffers held before.
DM_STUN_extractUdpParameters(d) == {"ts", "id", "un", "sig"} \subseteq DOMAIN d

DM_STUN_isHmacIdentical(d, password) == d.sig = password

\* What does not parse may be a connection request over UDP.
UdpRequestType(d, username, password) ==
  IF DM_STUN_extractUdpParameters(d) /\ d.un = username /\ DM_STUN_isHmacIdentical(d, password)
  THEN "UDP_REQUEST" ELSE "MESSAGE_UNKNOWN"

\* The type read, and the address if the message has one (else the caller's stays).
DM_STUN_readMessage(d, heard, username, password) ==
  IF Parses(d)
  THEN [type |-> MessageType(d),
        wan |-> IF "MappedAddress" \in Found(d) THEN AtrValue(d, "MappedAddress") ELSE heard]
  ELSE [type |-> UdpRequestType(d, username, password), wan |-> heard]
=============================================================================
