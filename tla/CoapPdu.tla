------------------------------ MODULE CoapPdu ------------------------------
(***************************************************************************)
(* A CoAP message under construction: calls of picocoap's setters as the    *)
(* library makes them (header and token at any time and again, options in   *)
(* ascending order, one payload that is not empty), failing ones included,  *)
(* and the message the caller means to build, which the buffer must         *)
(* represent after every call.                                              *)
(***************************************************************************)
EXTENDS CoapCodec, FiniteSets

CONSTANTS
  Max,        \* pdu->max
  Fills,      \* bytes a fresh buffer may hold
  Types,      \* message types the caller sets
  Codes,      \* message codes
  MidValues,  \* message ids
  Tkls,       \* token lengths
  OptNums,    \* option numbers
  OptLens,    \* lengths of option values
  PayloadLens,  \* lengths of payloads
  DataBytes,  \* bytes that values, payloads and tokens consist of
  MaxOpts     \* bound on the number of options

\* coap_init_pdu refuses a buffer that does not hold the fixed header.
ASSUME MaxAssumption == Max \in Nat /\ 4 <= Max /\ Max < BufAddr
ASSUME BytesAssumption == Fills \subseteq Byte /\ DataBytes \subseteq Byte
\* The iterator over the options ends with the number 0.
ASSUME FieldAssumption == /\ Types \subseteq 0..3 /\ Codes \subseteq Byte
                          /\ MidValues \subseteq U16 /\ OptNums \subseteq U16 \ {0}
ASSUME LengthAssumption == /\ Tkls \subseteq 0..15 /\ OptLens \subseteq U16
                           /\ PayloadLens \subseteq Nat /\ MaxOpts \in Nat

VARIABLES
  pdu,   \* the message buffer
  msg    \* the message the caller means it to hold

vars == <<pdu, msg>>

-----------------------------------------------------------------------------
(* The caller.                                                              *)

Init ==
  \E fill \in Fills :
    /\ pdu = coap_init_pdu(Fresh(Max, fill))
    /\ msg = Ping

\* A setter is called: the message is meant to become m unless it fails.
Call(p, m) == /\ pdu' = p
              /\ msg' = IF p.err = "NONE" THEN m ELSE msg

SetType == \E t \in Types :
             Call(coap_set_type(pdu, t), [msg EXCEPT !.type = t])

SetCode == \E c \in Codes :
             Call(coap_set_code(pdu, c), [msg EXCEPT !.code = c])

SetMid == \E mid \in MidValues :
            Call(coap_set_mid(pdu, mid), [msg EXCEPT !.mid = mid])

SetToken == \E tkl \in Tkls, byte \in DataBytes :
              Call(coap_set_token(pdu, Token(tkl, byte), tkl),
                   [msg EXCEPT !.tkl = tkl, !.token = Token(tkl, byte)])

\* "Options SHOULD be added in order" (coap.h), as the builders do; it may
\* be after the payload.
AddOption ==
  \E num \in OptNums, n \in OptLens, byte \in DataBytes :
    /\ Len(msg.opts) < MaxOpts
    /\ \A k \in 1..Len(msg.opts) : msg.opts[k].num <= num
    /\ Call(coap_add_option(pdu, num, Data(n, byte)),
            [msg EXCEPT !.opts = Append(@, [num |-> num, val |-> Data(n, byte)])])

\* Once, and not empty.
SetPayload ==
  \E n \in PayloadLens, byte \in DataBytes :
    /\ msg.payload = <<>> /\ n > 0
    /\ Call(coap_set_payload(pdu, Data(n, byte)),
            [msg EXCEPT !.payload = Data(n, byte)])

Next == SetType \/ SetCode \/ SetMid \/ SetToken \/ AddOption \/ SetPayload

Spec == Init /\ [][Next]_vars

-----------------------------------------------------------------------------
(* Correctness.                                                             *)

\* No call writes past the end of the buffer or makes the message longer
\* than it: every check of the room left counts the header, the marker and
\* the growth of the token.
WithinBuffer == /\ DOMAIN pdu.buf = 0..(pdu.max - 1)
                /\ 4 + coap_get_tkl(pdu) <= pdu.len /\ pdu.len <= pdu.max

\* After any such calls, with options ascending and one payload, failing
\* ones included, the getters read back what the setters were given: in
\* particular changing the token of a finished message, as a retransmission
\* does, moves the options and the payload without loss, and no byte of a
\* value is taken for the payload marker or an option header.
RoundTrip == ReadBack(pdu) = msg /\ coap_validate_pkt(pdu) = "NONE"

\* An option that is in the message is found by its number, each of several
\* with the same number at its place among them, as long as the uint8_t that
\* counts them does not wrap around.
FindsOption ==
  \A k \in 1..Len(msg.opts) :
    LET num == msg.opts[k].num
        occ == Cardinality({j \in 1..(k - 1) : msg.opts[j].num = num})
        option == coap_get_option_by_num(pdu, num, occ)
    IN  occ < 255 => /\ option.num = num
                     /\ Bytes(pdu, option.val, option.len) = msg.opts[k].val
=============================================================================
