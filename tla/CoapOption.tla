----------------------------- MODULE CoapOption -----------------------------
(***************************************************************************)
(* The header of one CoAP option in picocoap (picocoap/src/coap.c): how it  *)
(* is sized, written into the message buffer and read back.                 *)
(*                                                                          *)
(* A buffer is a C array: a function from 0..max-1 to bytes, and a pointer  *)
(* into it is its offset.  An option header is one byte holding a base for  *)
(* the option number's delta and a base for the value's length; a base of   *)
(* 13 or 14 announces one or two more bytes.                                *)
(***************************************************************************)
EXTENDS Integers

Byte == 0..255
U16 == {n \in Nat : n < 65536}
AsByte(x) == x % 256
AsU16(x) == x % 65536

PayloadMarker == 255

\* How many bytes beyond the first a delta or a length takes.
ExtraLen(x) == IF x < 13 THEN 0 ELSE IF x < 269 THEN 1 ELSE 2

coap_compute_option_header_len(delta, len) == 1 + ExtraLen(delta) + ExtraLen(len)

Base(x) == IF x < 13 THEN x ELSE IF x < 269 THEN 13 ELSE 14

\* The k-th of the extra bytes of x, the first one being number 1.
Extra(x, k) ==
  IF x < 269 THEN AsByte(x - 13)
  ELSE IF k = 1 THEN AsByte((x - 269) \div 256) ELSE AsByte(x - 269)

\* The buffer with a header written at offset ptr.  Its callers have made
\* coap_compute_option_header_len bytes of room, so that none of the checks
\* of max_len fails.
coap_build_option_header(buf, ptr, delta, len) ==
  LET dx == ExtraLen(delta)
  IN  [k \in DOMAIN buf |->
         CASE k = ptr -> 16 * Base(delta) + Base(len)
           [] ptr < k /\ k <= ptr + dx -> Extra(delta, k - ptr)
           [] ptr + dx < k /\ k <= ptr + dx + ExtraLen(len) ->
                Extra(len, k - ptr - dx)
           [] OTHER -> buf[k]]

\* Reading a base back: how many bytes it announces, and what they say.
Announced(base) == IF base < 13 THEN 0 ELSE base - 12

ValueAt(base, buf, ptr) ==
  IF base < 13 THEN base
  ELSE IF base = 13 THEN buf[ptr] + 13
  ELSE AsU16(256 * buf[ptr] + buf[ptr + 1] + 269)

\* coap_decode_option, with the delta it adds to *option_number; on an error
\* it touches none of its outputs.
Decoded(err) == [err |-> err, delta |-> 0, len |-> 0, val |-> 0]

coap_decode_option(buf, ptr, pkt_len) ==
  LET delta == buf[ptr] \div 16
      len == buf[ptr] % 16
      after == ptr + 1 + Announced(delta)
  IN  IF pkt_len = 0 THEN Decoded("END_OF_PACKET")
      ELSE IF buf[ptr] = PayloadMarker THEN Decoded("FOUND_PAYLOAD_MARKER")
      ELSE IF delta = 15 \/ len = 15 THEN Decoded("INVALID_PACKET")
      ELSE [err |-> "NONE",
            delta |-> ValueAt(delta, buf, ptr + 1),
            len |-> ValueAt(len, buf, after),
            val |-> after + Announced(len)]
=============================================================================
