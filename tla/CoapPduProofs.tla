--------------------------- MODULE CoapPduProofs ---------------------------
(***************************************************************************)
(* As long as options are added in ascending order and one payload is set,  *)
(* the buffer represents the message the caller means to build, whatever    *)
(* calls are made between, repeated or fail: for every size of the buffer,  *)
(* whatever it held before, and for all values.                             *)
(***************************************************************************)
EXTENDS CoapPdu, CoapCodecProofs

\* The buffer represents the message, with a marker in front of a payload
\* that is not empty.
PInv == /\ pdu.max = Max
        /\ \E at : Represents(pdu, msg, at, msg.payload # <<>>)

-----------------------------------------------------------------------------

\* A setter that leaves the message the caller means, or the one there was.
LEMMA CallKeeps ==
  ASSUME NEW q, NEW w, Call(q, w), pdu.max = Max,
         Leaves(q, pdu.max, msg, w, msg.payload # <<>>, w.payload # <<>>)
  PROVE  PInv'
<1>1. pdu' = q /\ q.max = Max
  BY DEF Call, Leaves
<1>2. CASE q.err = "NONE"
  <2>1. msg' = w /\ \E to : Represents(q, w, to, w.payload # <<>>)
    BY <1>2 DEF Call, Leaves
  <2> QED  BY <1>1, <2>1 DEF PInv
<1>3. CASE q.err # "NONE"
  <2>1. msg' = msg /\ \E to : Represents(q, msg, to, msg.payload # <<>>)
    BY <1>3 DEF Call, Leaves
  <2> QED  BY <1>1, <2>1 DEF PInv
<1> QED  BY <1>2, <1>3

\* A message of the caller, with one of its fields changed.
LEMMA MsgChanged ==
  ASSUME msg \in Msg, NEW v, NEW u
  PROVE  /\ [msg EXCEPT !.type = v].payload = msg.payload
         /\ [msg EXCEPT !.code = v].payload = msg.payload
         /\ [msg EXCEPT !.mid = v].payload = msg.payload
         /\ [msg EXCEPT !.tkl = v, !.token = u].payload = msg.payload
         /\ [msg EXCEPT !.opts = v].payload = msg.payload
         /\ [msg EXCEPT !.payload = v].payload = v
<1> USE DEF Msg
<1>1. [msg EXCEPT !.type = v].payload = msg.payload
  OBVIOUS
<1>2. [msg EXCEPT !.code = v].payload = msg.payload
  OBVIOUS
<1>3. [msg EXCEPT !.mid = v].payload = msg.payload
  OBVIOUS
<1>4. [msg EXCEPT !.tkl = v, !.token = u].payload = msg.payload
  OBVIOUS
<1>5. [msg EXCEPT !.opts = v].payload = msg.payload
  OBVIOUS
<1>6. [msg EXCEPT !.payload = v].payload = v
  OBVIOUS
<1> QED  BY <1>1, <1>2, <1>3, <1>4, <1>5, <1>6

\* coap_init_pdu represents the empty reset in whatever buffer it is given.
LEMMA InitRepresents == Init => PInv
<1> SUFFICES ASSUME Init PROVE PInv
  OBVIOUS
<1>1. PICK fill \in Fills : pdu = coap_init_pdu(Fresh(Max, fill)) /\ msg = Ping
  BY DEF Init
<1>2. Max \in Nat /\ 4 <= Max /\ fill \in Byte
  BY MaxAssumption, BytesAssumption
<1>3. Fresh(Max, fill) \in Pdu(Max)
  <2>1. "NONE" \in Errors /\ 0 \in 0..Max
    BY <1>2 DEF Errors
  <2> QED  BY <1>2, <2>1 DEF Fresh, Pdu
<1>4. pdu.max = Max /\ \E at : Represents(pdu, msg, at, FALSE)
  <2> DEFINE p == Fresh(Max, fill)
  <2> HIDE DEF p
  <2>1. Max \in Nat /\ 4 <= Max /\ p \in Pdu(Max) /\ pdu = coap_init_pdu(p) /\ msg = Ping
    BY <1>1, <1>2, <1>3 DEF p
  <2> QED  BY ONLY <2>1, InitsPdu
<1>5. (msg.payload # <<>>) = FALSE
  BY <1>1 DEF Ping
<1> QED  BY <1>4, <1>5 DEF PInv

\* A setter that only stores a field of the fixed header always succeeds.
LEMMA NextRepresents == PInv /\ [Next]_vars => PInv'
<1> SUFFICES ASSUME PInv, [Next]_vars PROVE PInv'
  OBVIOUS
<1> DEFINE marked == msg.payload # <<>>
<1>1. PICK at : Represents(pdu, msg, at, marked)
  BY DEF PInv
<1>2. pdu.max = Max /\ msg \in Msg /\ InOrder(msg.opts)
  BY <1>1 DEF PInv, Represents
<1> HIDE DEF marked
<1>3. ASSUME NEW t \in Types, Call(coap_set_type(pdu, t), [msg EXCEPT !.type = t])
      PROVE  PInv'
  <2> DEFINE q == coap_set_type(pdu, t)
             w == [msg EXCEPT !.type = t]
  <2>1. t \in 0..3
    BY FieldAssumption
  <2>2. w.payload = msg.payload
    BY <1>2, MsgChanged
  <2>3. q.err = "NONE" /\ q.max = pdu.max /\ \E to : Represents(q, w, to, marked)
    BY <1>1, <2>1, SetsType
  <2>4. Call(q, w)
    BY <1>3
  <2> HIDE DEF q, w
  <2>5. Leaves(q, pdu.max, msg, w, msg.payload # <<>>, w.payload # <<>>)
    BY <2>2, <2>3 DEF Leaves, marked
  <2> QED  BY <1>2, <2>4, <2>5, CallKeeps
<1>4. ASSUME NEW c \in Codes, Call(coap_set_code(pdu, c), [msg EXCEPT !.code = c])
      PROVE  PInv'
  <2> DEFINE q == coap_set_code(pdu, c)
             w == [msg EXCEPT !.code = c]
  <2>1. c \in Byte
    BY FieldAssumption
  <2>2. w.payload = msg.payload
    BY <1>2, MsgChanged
  <2>3. q.err = "NONE" /\ q.max = pdu.max /\ \E to : Represents(q, w, to, marked)
    BY <1>1, <2>1, SetsCode
  <2>4. Call(q, w)
    BY <1>4
  <2> HIDE DEF q, w
  <2>5. Leaves(q, pdu.max, msg, w, msg.payload # <<>>, w.payload # <<>>)
    BY <2>2, <2>3 DEF Leaves, marked
  <2> QED  BY <1>2, <2>4, <2>5, CallKeeps
<1>5. ASSUME NEW mid \in MidValues, Call(coap_set_mid(pdu, mid), [msg EXCEPT !.mid = mid])
      PROVE  PInv'
  <2> DEFINE q == coap_set_mid(pdu, mid)
             w == [msg EXCEPT !.mid = mid]
  <2>1. mid \in U16
    BY FieldAssumption
  <2>2. w.payload = msg.payload
    BY <1>2, MsgChanged
  <2>3. q.err = "NONE" /\ q.max = pdu.max /\ \E to : Represents(q, w, to, marked)
    BY <1>1, <2>1, SetsMid
  <2>4. Call(q, w)
    BY <1>5
  <2> HIDE DEF q, w
  <2>5. Leaves(q, pdu.max, msg, w, msg.payload # <<>>, w.payload # <<>>)
    BY <2>2, <2>3 DEF Leaves, marked
  <2> QED  BY <1>2, <2>4, <2>5, CallKeeps
<1>6. ASSUME NEW tkl \in Tkls, NEW byte \in DataBytes,
             Call(coap_set_token(pdu, Token(tkl, byte), tkl),
                  [msg EXCEPT !.tkl = tkl, !.token = Token(tkl, byte)])
      PROVE  PInv'
  <2> DEFINE token == Token(tkl, byte)
             q == coap_set_token(pdu, token, tkl)
             w == [msg EXCEPT !.tkl = tkl, !.token = token]
  <2>1. tkl \in 0..15 /\ byte \in Byte
    BY LengthAssumption, BytesAssumption
  <2>2. token \in [0..7 -> Byte] /\ \A k \in 0..7 : k >= tkl => token[k] = 0
    BY <2>1, TokenTyped
  <2>3. Call(q, w)
    BY <1>6
  <2> HIDE DEF token
  <2>4. w.payload = msg.payload
    BY <1>2, MsgChanged
  <2>5. Leaves(q, pdu.max, msg, w, marked, marked)
    BY ONLY <1>1, <2>1, <2>2, SetsToken
  <2> HIDE DEF q, w
  <2>6. Leaves(q, pdu.max, msg, w, msg.payload # <<>>, w.payload # <<>>)
    BY <2>4, <2>5 DEF marked
  <2> QED  BY <1>2, <2>3, <2>6, CallKeeps
<1>7. ASSUME NEW num \in OptNums, NEW n \in OptLens, NEW byte \in DataBytes,
             \A k \in 1..Len(msg.opts) : msg.opts[k].num <= num,
             Call(coap_add_option(pdu, num, Data(n, byte)),
                  [msg EXCEPT !.opts = Append(@, [num |-> num, val |-> Data(n, byte)])])
      PROVE  PInv'
  <2> DEFINE val == Data(n, byte)
             o == [num |-> num, val |-> val]
             q == coap_add_option(pdu, num, val)
             w == [msg EXCEPT !.opts = Append(@, o)]
  <2>1. num \in U16 \ {0} /\ n \in U16 /\ n \in Nat /\ byte \in Byte
    BY FieldAssumption, LengthAssumption, BytesAssumption DEF U16
  <2>2. val \in Seq(Byte) /\ Len(val) = n
    BY <2>1, DataTyped
  <2>3. Call(q, w)
    BY <1>7
  <2> HIDE DEF val
  <2>4. o \in Opt /\ o.num = num
    BY <2>1, <2>2 DEF Opt
  <2>5. Follows(msg.opts, o)
    BY <1>2, <1>7, <2>4 DEF Follows
  <2>6. w.payload = msg.payload
    BY <1>2, MsgChanged
  <2>7. Leaves(q, pdu.max, msg, w, marked, marked)
    BY ONLY <1>1, <2>5, AddsOption
  <2> HIDE DEF q, w
  <2>8. Leaves(q, pdu.max, msg, w, msg.payload # <<>>, w.payload # <<>>)
    BY <2>6, <2>7 DEF marked
  <2> QED  BY <1>2, <2>3, <2>8, CallKeeps
<1>8. ASSUME NEW n \in PayloadLens, NEW byte \in DataBytes, msg.payload = <<>>, n > 0,
             Call(coap_set_payload(pdu, Data(n, byte)),
                  [msg EXCEPT !.payload = Data(n, byte)])
      PROVE  PInv'
  <2> DEFINE val == Data(n, byte)
             q == coap_set_payload(pdu, val)
             w == [msg EXCEPT !.payload = val]
  <2>1. n \in Nat /\ byte \in Byte
    BY LengthAssumption, BytesAssumption
  <2>2. val \in Seq(Byte) /\ Len(val) = n
    BY <2>1, DataTyped
  <2>3. Call(q, w)
    BY <1>8
  <2> HIDE DEF val
  <2>4. w.payload = val
    BY <1>2, MsgChanged
  <2>5. marked = FALSE /\ Represents(pdu, msg, at, FALSE)
    <3>1. marked = FALSE
      BY <1>8 DEF marked
    <3> QED  BY <1>1, <3>1
  <2>6. (val # <<>>) = TRUE
    <3>1. val = <<>> => Len(val) = 0
      OBVIOUS
    <3> QED  BY <1>8, <2>1, <2>2, <3>1
  <2>7. Leaves(q, pdu.max, msg, w, FALSE, TRUE)
    BY ONLY <2>2, <2>5, SetsPayload
  <2> HIDE DEF q, w
  <2>8. Leaves(q, pdu.max, msg, w, msg.payload # <<>>, w.payload # <<>>)
    BY <2>4, <2>5, <2>6, <2>7 DEF marked
  <2> QED  BY <1>2, <2>3, <2>8, CallKeeps
<1>9. CASE UNCHANGED vars
  BY <1>9 DEF PInv, vars
<1> QED
  BY <1>3, <1>4, <1>5, <1>6, <1>7, <1>8, <1>9
  DEF Next, SetType, SetCode, SetMid, SetToken, AddOption, SetPayload

\* After any calls of the setters, options ascending and one payload, the
\* buffer represents the message meant.
THEOREM BufferRepresents == Spec => []PInv
<1> QED  BY InitRepresents, NextRepresents, PTL DEF Spec

-----------------------------------------------------------------------------
(* What follows for the message that is sent.                               *)

\* No call writes outside the buffer: its offsets are still those it was
\* given with, and the message ends in it.
THEOREM StaysWithinBuffer == Spec => []WithinBuffer
<1>1. PInv => WithinBuffer
  <2> SUFFICES ASSUME PInv PROVE WithinBuffer
    OBVIOUS
  <2>1. PICK at : Represents(pdu, msg, at, msg.payload # <<>>)
    BY DEF PInv
  <2>2. /\ pdu.buf \in [0..(pdu.max - 1) -> Byte] /\ 4 + msg.tkl <= pdu.len
        /\ pdu.len <= pdu.max
    BY <2>1, Parts
  <2>3. coap_get_tkl(pdu) = msg.tkl
    BY <2>1, HeaderReads
  <2> QED  BY <2>2, <2>3 DEF WithinBuffer
<1> QED  BY <1>1, BufferRepresents, PTL

\* The getters read back what the setters were given, and the validator
\* accepts the message.
THEOREM ReadsWhatWasSet == Spec => []RoundTrip
<1>1. PInv => RoundTrip
  BY ReadsBack, Validates DEF PInv, RoundTrip
<1> QED  BY <1>1, BufferRepresents, PTL

\* An option of the message is found by its number and its place among those
\* with the same number, with its value.
THEOREM FindsWhatWasAdded == Spec => []FindsOption
<1>1. PInv => FindsOption
  <2> SUFFICES ASSUME PInv, NEW k \in 1..Len(msg.opts), NEW num, num = msg.opts[k].num,
                      NEW occ, occ = Cardinality({j \in 1..(k - 1) : msg.opts[j].num = num}),
                      occ < 255,
                      NEW option, option = coap_get_option_by_num(pdu, num, occ)
               PROVE  /\ option.num = num
                      /\ Bytes(pdu, option.val, option.len) = msg.opts[k].val
    BY DEF FindsOption
  <2>1. PICK at : Represents(pdu, msg, at, msg.payload # <<>>)
    BY DEF PInv
  <2>2. option = Located(msg.opts, at, k)
    <3>1. occ = CountOf(msg.opts, num, k - 1)
      BY DEF CountOf
    <3>2. coap_get_option_by_num(pdu, num, occ) = Located(msg.opts, at, k)
      BY <2>1, <3>1, FindsByNum
    <3> QED  BY <3>2
  <2>3. /\ option.num = num /\ option.len = ValLen(msg.opts, k)
        /\ option.val = at[k] + HdrLen(msg.opts, k)
    <3>1. num = msg.opts[k].num
      OBVIOUS
    <3> QED  BY ONLY <2>2, <3>1 DEF Located
  <2>4. Bytes(pdu, at[k] + HdrLen(msg.opts, k), ValLen(msg.opts, k)) = msg.opts[k].val
    BY <2>1, LocatedBytes
  <2> QED  BY ONLY <2>3, <2>4
<1> QED  BY <1>1, BufferRepresents, PTL
=============================================================================
