----------------------------- MODULE CoapCodec -----------------------------
(***************************************************************************)
(* The functions of picocoap (picocoap/src/coap.c) on a message buffer: the *)
(* getters read a message, the setters write one into the caller's buffer.  *)
(*                                                                          *)
(* A coap_pdu is its buffer, the length of the message in it, the size of   *)
(* the buffer and the error the last call returned.  A pointer is an offset *)
(* into the buffer; NULL is the offset at which address 0 lies.             *)
(***************************************************************************)
EXTENDS CoapOption, Sequences

CONSTANT BufAddr  \* address of the buffer

ASSUME AddressAssumption == BufAddr \in Nat \ {0}

NULL == -BufAddr

\* A value of n bytes: its content matters only where a byte of it could be
\* taken for something else, so one byte is repeated.
Data(n, byte) == [k \in 1..n |-> byte]

\* A buffer whose memory nobody has written yet.
Fresh(max, fill) == [buf |-> [k \in 0..(max - 1) |-> fill],
                     len |-> 0, max |-> max, err |-> "NONE"]

\* A uint64_t token, byte by byte, least significant first.
Token(tkl, byte) == [k \in 0..7 |-> IF k < tkl THEN byte ELSE 0]

\* memcpy of n bytes of val to offset to, and memmove within the buffer.  A
\* write past the end of the buffer would show as an offset it has not.
memcpy(buf, to, val, n) ==
  [k \in DOMAIN buf \cup to..(to + n - 1) |->
     IF to <= k /\ k < to + n THEN val[k - to + 1] ELSE buf[k]]

memmove(buf, to, from, n) == memcpy(buf, to, [k \in 1..n |-> buf[from + k - 1]], n)

\* Where a loop that goes from a state s to next[s] comes to rest.
Loop(next, start) ==
  LET run[s \in DOMAIN next] ==
        LET t == next[s] IN IF t = s THEN s ELSE run[t]
  IN  run[start]

-----------------------------------------------------------------------------
(* Getters.  A loop over options is followed as long as they lie in the     *)
(* buffer, one behind the other.                                            *)

coap_get_version(p) == p.buf[0] \div 64
coap_get_type(p) == (p.buf[0] \div 16) % 4
coap_get_tkl(p) == p.buf[0] % 16
coap_get_code(p) == p.buf[1]
coap_get_mid(p) == 256 * p.buf[2] + p.buf[3]

coap_get_token(p) ==
  [k \in 0..7 |-> IF p.len >= 4 + coap_get_tkl(p) /\ k < coap_get_tkl(p)
                  THEN p.buf[4 + k] ELSE 0]

\* One step of the iterator.  Behind the last option it yields number 0 with
\* the payload when there were no options, and otherwise with the length
\* that comes of treating NULL as a pointer into the buffer.
coap_get_option(p, last) ==
  LET first == 4 + coap_get_tkl(p)
      next == IF last.num # 0 THEN last.val + last.len ELSE first
      ptr == IF next > p.len \/ next <= 0 THEN first ELSE next
      d == coap_decode_option(p.buf, ptr, p.len - ptr)
  IN  CASE d.err = "NONE" ->
             [num |-> AsU16(last.num + d.delta), len |-> d.len, val |-> d.val]
        [] d.err = "FOUND_PAYLOAD_MARKER" /\ last.num = 0 ->
             [num |-> 0, len |-> p.len - ptr - 1, val |-> ptr + 1]
        [] d.err = "FOUND_PAYLOAD_MARKER" /\ last.num # 0 ->
             [num |-> 0, len |-> p.len - NULL, val |-> NULL]
        [] OTHER -> [num |-> 0, len |-> 0, val |-> NULL]

NoOption == [num |-> 0, len |-> 0, val |-> NULL]

Option == [num : U16, len : Nat, val : Int]

\* How far the iterator has come with an option; it ends with number 0.
Reached(p, option) == IF option.num = 0 THEN p.max + 1 ELSE option.val + option.len

Ahead(p, last, option) ==
  /\ option \in Option
  /\ Reached(p, option) \in 1..(p.max + 1)
  /\ last.num # 0 => Reached(p, last) < Reached(p, option)

\* One round of the loop, in which i counts the options found.  The number
\* looked for is not 0.
LookedUp(p, num, s) ==
  LET option == coap_get_option(p, s.option)
  IN  [i |-> IF option.num = num THEN AsByte(s.i + 1) ELSE s.i, option |-> option]

coap_get_option_by_num_first(p, num, occ) ==
  LookedUp(p, num, [i |-> 0, option |-> NoOption]).option

coap_get_option_by_num(p, num, occ) ==
  LET next == [s \in [i : Byte, option : Option] |->
                 IF /\ s.option.num \in 1..num /\ s.i <= occ
                    /\ Ahead(p, s.option, LookedUp(p, num, s).option)
                 THEN LookedUp(p, num, s) ELSE s]
      option == Loop(next, LookedUp(p, num, [i |-> 0, option |-> NoOption])).option
  IN  IF option.num > num THEN NoOption ELSE option

\* The offset behind the option at ptr.
Behind(p, ptr) ==
  LET d == coap_decode_option(p.buf, ptr, p.len - ptr)
  IN  IF d.err = "NONE" /\ d.val + d.len \in (ptr + 1)..p.max
      THEN d.val + d.len ELSE ptr

\* Where a loop over the options has stopped, and why.
Stopped(p, ptr) ==
  [err |-> coap_decode_option(p.buf, ptr, p.len - ptr).err, ptr |-> ptr]

LastDecoded(p) ==
  Stopped(p, Loop([ptr \in 0..p.max |-> Behind(p, ptr)], 4 + coap_get_tkl(p)))

coap_get_payload(p) ==
  LET end == LastDecoded(p)
  IN  IF end.err = "FOUND_PAYLOAD_MARKER"
      THEN [len |-> p.len - end.ptr - 1, val |-> end.ptr + 1]
      ELSE [len |-> 0, val |-> NULL]

\* The loop of coap_validate_pkt runs while decoding does not return 0,
\* which is CE_NONE: it ends at the first option that decodes.
coap_validate_pkt(p) ==
  LET ptr == 4 + coap_get_tkl(p)
      d == coap_decode_option(p.buf, ptr, p.len - ptr)
  IN  IF \/ p.len > p.max \/ p.len < 4
         \/ coap_get_version(p) # 1 \/ coap_get_tkl(p) > 8
      THEN "INVALID_PACKET"
      ELSE CASE d.err \in {"NONE", "END_OF_PACKET"} -> "NONE"
             [] d.err = "FOUND_PAYLOAD_MARKER" ->
                  IF p.len = ptr THEN "INVALID_PACKET" ELSE "NONE"
             [] OTHER -> d.err

-----------------------------------------------------------------------------
(* Setters.  Each returns the pdu it leaves behind.                         *)

Failed(p, err) == [p EXCEPT !.err = err]

\* Header byte k becomes v, and the message is at least n bytes long.
Stored(p, k, v, n) ==
  IF p.max < n THEN Failed(p, "INSUFFICIENT_BUFFER")
  ELSE [p EXCEPT !.buf[k] = v,
                 !.len = IF @ < n THEN n ELSE @, !.err = "NONE"]

coap_set_version(p, ver) == Stored(p, 0, 64 * ver + (p.buf[0] % 64), 1)

coap_set_type(p, mtype) ==
  Stored(p, 0, 64 * (p.buf[0] \div 64) + 16 * mtype + (p.buf[0] % 16), 1)

coap_set_code(p, code) == Stored(p, 1, code, 2)

coap_set_mid(p, mid) == Stored(Stored(p, 2, mid \div 256, 4), 3, mid % 256, 4)

\* The tkl bytes of a token, behind the fixed header.
TokenWritten(buf, token, tkl) ==
  [memcpy(buf, 4, [k \in 1..tkl |-> token[k - 1]], tkl)
     EXCEPT ![0] = tkl + 16 * (buf[0] \div 16)]

\* The tail of the message stays where it is.
coap_set_token_unmoved(p, token, tkl) ==
  IF p.max < 4 + tkl THEN Failed(p, "INSUFFICIENT_BUFFER")
  ELSE IF tkl > 8 THEN Failed(p, "INVALID_PACKET")
  ELSE [p EXCEPT !.buf = TokenWritten(@, token, tkl),
                 !.len = @ + tkl - coap_get_tkl(p), !.err = "NONE"]

\* The rest of the message moves to make or take room for the token.
coap_set_token(p, token, tkl) ==
  LET rest == 4 + coap_get_tkl(p)
      shift == tkl - coap_get_tkl(p)
      moved == IF p.len > 4 THEN memmove(p.buf, 4 + tkl, rest, p.len - rest) ELSE p.buf
  IN  IF p.max < 4 + tkl THEN Failed(p, "INSUFFICIENT_BUFFER")
      ELSE IF tkl > 8 THEN Failed(p, "INVALID_PACKET")
      ELSE IF p.len > 4 /\ p.max < p.len + shift THEN Failed(p, "INSUFFICIENT_BUFFER")
      ELSE [p EXCEPT !.buf = TokenWritten(moved, token, tkl),
                     !.len = @ + shift, !.err = "NONE"]

\* coap_init_pdu: an empty reset, built with the setters.
coap_init_pdu(p) ==
  LET blank == [p EXCEPT !.len = 0, !.buf = memcpy(@, 0, Data(4, 0), 4)]
      typed == coap_set_type(coap_set_version(blank, 1), 3)
  IN  IF p.max < 4 THEN Failed(p, "INSUFFICIENT_BUFFER")
      ELSE coap_set_mid(coap_set_code(coap_set_token(typed, Token(0, 0), 0), 0), 0)

\* The message coap_init_pdu stands for.
Ping == [type |-> 3, code |-> 0, mid |-> 0, tkl |-> 0, token |-> Token(0, 0),
         opts |-> <<>>, payload |-> <<>>]

\* Where an option with this number goes, and the number before it.
InsertionPoint(p, num) ==
  LET next == [s \in [ptr : 0..p.max, lopt_num : 0..num] |->
                 LET d == coap_decode_option(p.buf, s.ptr, p.len - s.ptr)
                     fopt_num == AsU16(s.lopt_num + d.delta)
                 IN  IF /\ d.err = "NONE" /\ fopt_num \in 0..num
                        /\ s.ptr + d.len < p.len /\ Behind(p, s.ptr) # s.ptr
                     THEN [ptr |-> Behind(p, s.ptr), lopt_num |-> fopt_num] ELSE s]
  IN  Loop(next, [ptr |-> 4 + coap_get_tkl(p), lopt_num |-> 0])

\* The options of opts_len bytes that begin at opts_start: each header is
\* rewritten with the number the option has so far, plus the offset, as its
\* delta.
coap_adjust_option_deltas(buffer, opts_start, length, max_len, offset) ==
  LET Walk == [buf : [DOMAIN buffer -> Int], opts_len : Int, num : U16,
               ptr : 0..(opts_start + max_len)]
      next == [s \in Walk |->
        LET d == coap_decode_option(s.buf, s.ptr, s.opts_len - (s.ptr - opts_start))
            fopt_num == AsU16(s.num + d.delta)
            nopt_num == AsU16(fopt_num + offset)
            grown == coap_compute_option_header_len(nopt_num, d.len) - (d.val - s.ptr)
            t == [buf |-> coap_build_option_header(
                            memmove(s.buf, d.val + grown, d.val, d.len),
                            s.ptr, nopt_num, d.len),
                  opts_len |-> s.opts_len + grown, num |-> fopt_num,
                  ptr |-> d.val + d.len]
        IN  IF /\ s.ptr - opts_start <= s.opts_len /\ d.err = "NONE"
               /\ grown # 0 => s.opts_len + grown <= max_len
               /\ s.ptr < t.ptr /\ t \in Walk
            THEN t ELSE s]
  IN  Loop(next, [buf |-> buffer, opts_len |-> length, num |-> 0, ptr |-> opts_start])

\* Room is checked for the value, but not for the header.
coap_add_option_headless(p, num, val) ==
  LET at == InsertionPoint(p, num)
      hdr_len == coap_compute_option_header_len(num - at.lopt_num, Len(val))
      new_len == hdr_len + Len(val)
  IN  IF p.max < p.len + Len(val) THEN Failed(p, "INSUFFICIENT_BUFFER")
      ELSE [p EXCEPT
              !.buf = memcpy(coap_build_option_header(
                               memmove(@, at.ptr + new_len, at.ptr, p.len - at.ptr),
                               at.ptr, num - at.lopt_num, Len(val)),
                             at.ptr + hdr_len, val, Len(val)),
              !.len = @ + new_len, !.err = "NONE"]

\* The option is written at this place; what is behind it moves and is told
\* the new delta.
Inserted(p, num, val, at) ==
  LET err == Stopped(p, at.ptr).err
      delta == num - at.lopt_num
      hdr_len == coap_compute_option_header_len(delta, Len(val))
      new_len == hdr_len + Len(val)
      slid == memmove(p.buf, at.ptr + new_len, at.ptr, p.len - at.ptr)
      tail == IF p.len = at.ptr
              THEN [buf |-> p.buf, opts_len |-> new_len]
              ELSE coap_adjust_option_deltas(
                     slid, at.ptr + new_len, p.len + new_len - at.ptr,
                     p.max - at.ptr, -delta)
  IN  IF err \notin {"NONE", "END_OF_PACKET", "FOUND_PAYLOAD_MARKER"}
      THEN Failed(p, err)
      ELSE IF p.max < p.len + new_len THEN Failed(p, "INSUFFICIENT_BUFFER")
      ELSE [p EXCEPT
              !.buf = memcpy(coap_build_option_header(tail.buf, at.ptr, delta, Len(val)),
                             at.ptr + hdr_len, val, Len(val)),
              !.len = at.ptr + tail.opts_len, !.err = "NONE"]

coap_add_option(p, num, val) == Inserted(p, num, val, InsertionPoint(p, num))

\* Where the options end: the loop also stops when an option would reach
\* the end of the message.
EndOfOptions(p) ==
  LET next == [ptr \in 0..p.max |->
                 LET d == coap_decode_option(p.buf, ptr, p.len - ptr)
                 IN  IF ptr + d.len < p.len THEN Behind(p, ptr) ELSE ptr]
  IN  Stopped(p, Loop(next, 4 + coap_get_tkl(p)))

\* The marker is written before there is known to be room for the payload.
coap_set_payload_marker_first(p, payload) ==
  LET end == EndOfOptions(p)
      n == Len(payload)
      marked == [p.buf EXCEPT ![end.ptr] = PayloadMarker]
  IN  IF p.max < p.len + 1 THEN Failed(p, "INSUFFICIENT_BUFFER")
      ELSE IF p.max < p.len + n + 1
      THEN [p EXCEPT !.buf = marked, !.len = @ + 1, !.err = "INSUFFICIENT_BUFFER"]
      ELSE [p EXCEPT !.buf = memcpy(marked, end.ptr + 1, payload, n),
                     !.len = end.ptr + 1 + n, !.err = "NONE"]

\* A payload that is already there is overwritten from its marker on.
coap_set_payload(p, payload) ==
  LET end == EndOfOptions(p)
      n == Len(payload)
      marked == [p.buf EXCEPT ![end.ptr] = PayloadMarker]
      Ends(buf, ptr) == [p EXCEPT !.buf = memcpy(buf, ptr, payload, n),
                                  !.len = ptr + n, !.err = "NONE"]
  IN  CASE end.err = "END_OF_PACKET" ->
             IF p.max < p.len + n + 1 THEN Failed(p, "INSUFFICIENT_BUFFER")
             ELSE Ends(marked, end.ptr + 1)
        [] end.err = "FOUND_PAYLOAD_MARKER" ->
             IF p.max < p.len + n THEN Failed(p, "INSUFFICIENT_BUFFER")
             ELSE Ends(p.buf, end.ptr)
        [] end.err = "NONE" -> Ends(p.buf, end.ptr)
        [] OTHER -> Failed(p, end.err)

-----------------------------------------------------------------------------
(* A whole message, as its receiver reads it.                               *)

Bytes(p, at, n) == [k \in 1..n |-> p.buf[at + k - 1]]

\* The options in the order in which the iterator yields them.
Iterated(p) ==
  LET next == [opts \in Seq(Option) |->
                 LET last == IF opts = <<>> THEN NoOption ELSE opts[Len(opts)]
                     option == coap_get_option(p, last)
                 IN  IF option.num # 0 /\ Ahead(p, last, option)
                     THEN Append(opts, option) ELSE opts]
  IN  Loop(next, <<>>)

Values(p, opts) == [k \in 1..Len(opts) |->
                      [num |-> opts[k].num, val |-> Bytes(p, opts[k].val, opts[k].len)]]

OptionsOf(p) == Values(p, Iterated(p))

ReadBack(p) ==
  LET payload == coap_get_payload(p)
  IN  [type |-> coap_get_type(p), code |-> coap_get_code(p),
       mid |-> coap_get_mid(p), tkl |-> coap_get_tkl(p),
       token |-> coap_get_token(p), opts |-> OptionsOf(p),
       payload |-> Bytes(p, payload.val, payload.len)]
=============================================================================
