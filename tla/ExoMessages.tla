---------------------------- MODULE ExoMessages ----------------------------
(***************************************************************************)
(* The messages of one call of exo_operate, byte by byte: the builders of   *)
(* src/exosite.c on top of picocoap's codec.  The receive loop may answer a *)
(* datagram it does not recognise with a reset, built over the datagram;    *)
(* then the walk over the operations builds one message after the other in  *)
(* one buffer, which is never initialised.  What ExoEngine calls a request  *)
(* (a message id, a token and a kind) is one of these messages.             *)
(*                                                                          *)
(* The operations the walk meets are inputs: any request, any message id a  *)
(* pending one or a notification may hold.                                  *)
(***************************************************************************)
EXTENDS CoapCodec

CONSTANTS
  MINIMUM_DATAGRAM_SIZE,  \* exosite.c
  Count,        \* messages built in one walk over the operations
  RandMids,     \* message_id_counter when the call begins
  OpMids,       \* message ids of pending operations and notifications
  RandBytes,    \* bytes of the tokens rand() gives
  Fills,        \* bytes uninitialised or received memory may hold
  AliasLens,    \* lengths of aliases
  ValueLens,    \* lengths of values to write
  NameLens,     \* lengths of vendor, model and serial number
  TextByte,     \* byte the application's strings consist of
  CikByte       \* byte the CIK consists of (0 until there is one)

\* A datagram holds the fixed header and the longest token.
ASSUME SizeAssumption == /\ MINIMUM_DATAGRAM_SIZE \in Nat /\ 12 <= MINIMUM_DATAGRAM_SIZE
                         /\ BufAddr > MINIMUM_DATAGRAM_SIZE
ASSUME MidsAssumption == RandMids \subseteq U16 /\ OpMids \subseteq U16
ASSUME MemoryAssumption == /\ RandBytes \subseteq Byte /\ Fills \subseteq Byte
                           /\ TextByte \in Byte /\ CikByte \in Byte
\* The strings that become options are below 65536 bytes: coap_add_option
\* would cut longer ones, see WithOption.
ASSUME StringAssumption == /\ AliasLens \subseteq U16 /\ NameLens \subseteq U16
                           /\ ValueLens \subseteq Nat /\ Count \in Nat

VARIABLES
  pdu,                 \* pdu and buf of the loop that is running
  message_id_counter,  \* static message_id_counter
  cursor,              \* operations visited; -1 while datagrams are received
  request,             \* the request the last message stands for, if any
  ok,                  \* did the last builder return EXO_OK?
  want                 \* history: the message the caller means to send

vars == <<pdu, message_id_counter, cursor, request, ok, want>>

-----------------------------------------------------------------------------
(* Requests and the messages they call for.                                 *)

CON == 0
ACK == 2
RST == 3
GET == 1
POST == 2
OBSERVE == 6
URI_PATH == 11
URI_QUERY == 15

Strings(lens) == {Data(n, TextByte) : n \in lens}

Requests ==
  [type : {"READ", "SUBSCRIBE"}, alias : Strings(AliasLens)]
  \cup [type : {"WRITE"}, alias : Strings(AliasLens), value : Strings(ValueLens)]
  \cup [type : {"ACTIVATE"}, vendor : Strings(NameLens), model : Strings(NameLens),
        serial : Strings(NameLens)]

NoRequest == [type |-> "NONE"]

Path(val) == [num |-> URI_PATH, val |-> val]

\* "/provision/activate/vendor/model/serial" or "/1a/alias?cik"; the fixed
\* words matter by their length only.
Options(r) ==
  LET dataport == <<Path(Data(2, TextByte)), Path(r.alias),
                    [num |-> URI_QUERY, val |-> Data(40, CikByte)]>>
  IN  CASE r.type = "ACTIVATE" ->
             <<Path(Data(9, TextByte)), Path(Data(8, TextByte)),
               Path(r.vendor), Path(r.model), Path(r.serial)>>
        [] r.type = "SUBSCRIBE" -> <<[num |-> OBSERVE, val |-> <<0>>]>> \o dataport
        [] OTHER -> dataport

Code(r) == IF r.type \in {"ACTIVATE", "WRITE"} THEN POST ELSE GET

Payload(r) == IF r.type = "WRITE" THEN r.value ELSE <<>>

Message(type, code, mid, tkl, token) ==
  [type |-> type, code |-> code, mid |-> mid, tkl |-> tkl, token |-> token,
   opts |-> <<>>, payload |-> <<>>]

\* The whole request, under this message id and token.
Asked(r, mid, tkl, token) ==
  [Message(CON, Code(r), mid, tkl, token)
     EXCEPT !.opts = Options(r), !.payload = Payload(r)]

NoMessage == Message(CON, 0, 0, 0, Token(0, 0))

-----------------------------------------------------------------------------
(* The builders.  A builder goes on after a call that failed; ret collects  *)
(* the errors, and is EXO_OK in the end when there was none.                *)

ThenLast(b, p) == [pdu |-> p, ok |-> p.err = "NONE"]

Then(b, p) == [pdu |-> p, ok |-> b.ok /\ p.err = "NONE"]

WithVersion(b) == Then(b, coap_set_version(b.pdu, 1))

WithType(b, type) == Then(b, coap_set_type(b.pdu, type))

WithCode(b, code) == Then(b, coap_set_code(b.pdu, code))

WithMid(b, mid) == Then(b, coap_set_mid(b.pdu, mid))

WithToken(b, token, tkl) == Then(b, coap_set_token(b.pdu, token, tkl))

\* strlen() becomes the uint16_t opt_len of coap_add_option, which takes that
\* many bytes of the string.
Passed(val) == SubSeq(val, 1, AsU16(Len(val)))

WithOption(b, o) == Then(b, coap_add_option(b.pdu, o.num, Passed(o.val)))

WithPayload(b, r) ==
  IF r.type = "WRITE" THEN Then(b, coap_set_payload(b.pdu, r.value)) ELSE b

HeaderKeepsOld(p, type, code, mid) ==
  LET q == IF type = CON /\ p.len > 0 THEN p ELSE coap_init_pdu(p)
  IN  WithMid(WithCode(WithType(WithVersion([pdu |-> q, ok |-> TRUE]), type), code), mid)

\* What all builders begin with; the result of coap_init_pdu is not looked at.
Header(p, type, code, mid) ==
  WithMid(WithCode(WithType(WithVersion([pdu |-> coap_init_pdu(p), ok |-> TRUE]),
                            type), code), mid)

\* One call of coap_add_option for each.
WithOptions(b, opts) ==
  LET added[k \in 0..Len(opts)] ==
        IF k = 0 THEN b ELSE WithOption(added[k - 1], opts[k])
  IN  added[Len(opts)]

\* exo_build_msg_activate, _read, _observe and _write.
exo_build_msg(p, r, mid, token) ==
  WithPayload(WithOptions(WithToken(Header(p, CON, Code(r), mid), token, 2),
                          Options(r)), r)

exo_build_msg_ack(p, mid) == Header(p, ACK, 0, mid)

exo_build_msg_rst(p, mid, token, tkl) ==
  WithToken(Header(p, RST, 0, mid), token, tkl)

-----------------------------------------------------------------------------
(* One call of exo_operate.                                                 *)

Init ==
  /\ pdu \in {Fresh(MINIMUM_DATAGRAM_SIZE, fill) : fill \in Fills}
  /\ message_id_counter \in RandMids
  /\ cursor = -1
  /\ request = NoRequest
  /\ ok = TRUE
  /\ want = NoMessage

Sends(b, r, m) == /\ pdu' = b.pdu /\ ok' = b.ok
                  /\ request' = r /\ want' = m

\* A confirmable message of this length; what follows the header may be a
\* token, possibly cut short, options or a payload.
Datagram(fill, tkl, mid, len) ==
  [Fresh(MINIMUM_DATAGRAM_SIZE, fill)
     EXCEPT !.buf = memcpy(@, 0, <<64 + 16 * CON + tkl, 0, mid \div 256, mid % 256>>, 4),
            !.len = len]

\* Those that are valid to coap_validate_pkt.
Received ==
  {m \in {Datagram(fill, tkl, mid, len) :
            fill \in Fills, tkl \in 0..8, mid \in OpMids, len \in {4, 8, 12, 20}} :
     coap_validate_pkt(m) = "NONE"}

ReplyResetLate(m) ==
  LET p == coap_init_pdu(m)
  IN  exo_build_msg_rst(p, coap_get_mid(p), coap_get_token(p), coap_get_tkl(p))

\* "we don't recognize message, reply RST", in the buffer of the message.
ReplyReset(m) ==
  exo_build_msg_rst(m, coap_get_mid(m), coap_get_token(m), coap_get_tkl(m))

Unrecognised ==
  /\ cursor = -1 /\ want = NoMessage
  /\ \E m \in Received :
       Sends(ReplyReset(m), NoRequest,
             Message(RST, 0, coap_get_mid(m), coap_get_tkl(m), coap_get_token(m)))
  /\ UNCHANGED <<message_id_counter, cursor>>

\* exo_process_active_ops begins, with a buffer of its own.
Walk ==
  /\ cursor = -1
  /\ cursor' = 0
  /\ pdu' \in {Fresh(MINIMUM_DATAGRAM_SIZE, fill) : fill \in Fills}
  /\ request' = NoRequest /\ ok' = TRUE /\ want' = NoMessage
  /\ UNCHANGED message_id_counter

Visits == cursor \in 0..(Count - 1) /\ cursor' = cursor + 1

\* message_id_counter++ in the builders, on a uint16_t.
TakesMid == message_id_counter' = AsU16(message_id_counter + 1)

\* EXO_REQUEST_NEW.
SendRequest ==
  /\ Visits
  /\ \E r \in Requests, byte \in RandBytes :
       Sends(exo_build_msg(pdu, r, message_id_counter, Token(2, byte)), r,
             Asked(r, message_id_counter, 2, Token(2, byte)))
  /\ TakesMid

\* A message is given the id and the token of its operation, the latter with
\* the length 0 op.tkl always has.
Readdressed(b, mid, token) ==
  [pdu |-> coap_set_token(coap_set_mid(b.pdu, mid), token, 0), ok |-> b.ok]

\* The message is rebuilt under a new id and token first.
Repeat(p, r, mid, token, optoken) ==
  Readdressed(exo_build_msg(p, r, message_id_counter, token), mid, optoken)

\* EXO_REQUEST_PENDING of a read, a write or an activation, timed out.
Retransmit ==
  /\ Visits
  /\ \E r \in Requests, byte \in RandBytes, mid \in OpMids :
       /\ r.type # "SUBSCRIBE"
       /\ Sends(Repeat(pdu, r, mid, Token(2, byte), Token(2, byte)), r,
                Asked(r, mid, 0, Token(0, 0)))
  /\ TakesMid

\* EXO_REQUEST_SUB_ACK and SUB_ACK_NEW.
SendAck ==
  /\ Visits
  /\ \E mid \in OpMids :
       Sends(exo_build_msg_ack(pdu, mid), NoRequest,
             Message(ACK, 0, mid, 0, Token(0, 0)))
  /\ UNCHANGED message_id_counter

Next == Unrecognised \/ Walk \/ SendRequest \/ Retransmit \/ SendAck

Spec == Init /\ [][Next]_vars

-----------------------------------------------------------------------------
(* Correctness.  The engine sends whatever the builder leaves behind and    *)
(* does not look at what it returns.                                        *)

Sending == want # NoMessage

EmptyWrite == request.type = "WRITE" /\ request.value = <<>>

\* The error a builder returns, which exo_process_active_ops ignores, is
\* exact: there is none if and only if a receiver reads the whole request
\* out of the message, every option and the value included.  (There may be
\* no room left for the marker of an empty value, which is an error though
\* nothing is missing.)
BuilderTellsLoss ==
  Sending => /\ ok => ReadBack(pdu) = want
             /\ ReadBack(pdu) = want => ok \/ EmptyWrite

\* Sequence s is t without some of its elements.
PartOf(s, t) ==
  \E at \in [1..Len(s) -> 1..Len(t)] :
    /\ \A j, k \in 1..Len(s) : j < k => at[j] < at[k]
    /\ \A k \in 1..Len(s) : s[k] = t[at[k]]

\* The message got has the header that is wanted, and parts of the rest.
OnlyWanted(got) ==
  /\ [want EXCEPT !.opts = got.opts, !.payload = got.payload] = got
  /\ PartOf(got.opts, want.opts)
  /\ got.payload \in {<<>>, want.payload}

\* A request that does not fit is sent without some of its parts, but with
\* nothing that is not its own: the buffer held the previous operation's
\* message, and before that whatever was on the stack.
NothingForeign ==
  Sending => coap_validate_pkt(pdu) = "NONE" /\ OnlyWanted(ReadBack(pdu))

SaysTheSame(m, n) == m.opts = n.opts /\ m.payload = n.payload

\* A retransmission says what the first transmission said, whatever the
\* buffer holds and even if parts of it are missing: taking the token out
\* of the finished message moves the rest without loss.
RepeatSaysTheSame ==
  Sending /\ request # NoRequest =>
    SaysTheSame(ReadBack(pdu),
                ReadBack(exo_build_msg(Fresh(MINIMUM_DATAGRAM_SIZE, 0), request,
                                       0, Token(0, 0)).pdu))

\* "this can't fail": the reset carries the message id and the token of the
\* datagram it is built over, and nothing else of it.
ResetEchoes ==
  Sending /\ cursor = -1 => ok /\ ReadBack(pdu) = want /\ pdu.len = 4 + want.tkl

\* "Payload Marker, but No Payload" (coap.c) is no message: only writing the
\* empty string sends one.
MarkerHasPayload ==
  Sending =>
    LET end == LastDecoded(pdu)
    IN  end.err = "FOUND_PAYLOAD_MARKER" /\ end.ptr = pdu.len - 1
          => EmptyWrite
=============================================================================
