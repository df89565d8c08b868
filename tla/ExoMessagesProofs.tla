------------------------- MODULE ExoMessagesProofs -------------------------
(***************************************************************************)
(* Theorems about the messages the library sends, for every size of the     *)
(* datagram buffer that holds a header, whatever the buffer held, for       *)
(* values of any length and for aliases, vendor, model and serial numbers   *)
(* of any length below 65536 bytes, which is what coap_add_option can take. *)
(***************************************************************************)
EXTENDS ExoMessages, CoapCodecProofs

-----------------------------------------------------------------------------
(* Parts of a sequence.                                                     *)

\* Sequence s consists of some of the first n elements of t, in their order.
Kept(s, t, n) ==
  \E at \in [1..Len(s) -> 1..n] :
    /\ \A j, k \in 1..Len(s) : j < k => at[j] < at[k]
    /\ \A k \in 1..Len(s) : s[k] = t[at[k]]

\* The next element may be left out.
LEMMA KeptSkip ==
  ASSUME NEW s, NEW t, NEW n \in Nat, Kept(s, t, n), Len(s) \in Nat
  PROVE  Kept(s, t, n + 1)
<1>1. PICK at \in [1..Len(s) -> 1..n] :
        /\ \A j, k \in 1..Len(s) : j < k => at[j] < at[k]
        /\ \A k \in 1..Len(s) : s[k] = t[at[k]]
  BY DEF Kept
<1>2. at \in [1..Len(s) -> 1..(n + 1)]
  OBVIOUS
<1> QED  BY <1>1, <1>2 DEF Kept

\* Or it may be taken.
LEMMA KeptTake ==
  ASSUME NEW S, NEW s \in Seq(S), NEW t, NEW n \in Nat, Kept(s, t, n), t[n + 1] \in S
  PROVE  Kept(Append(s, t[n + 1]), t, n + 1)
<1> DEFINE l == Len(s)
           w == Append(s, t[n + 1])
<1>1. PICK at \in [1..l -> 1..n] :
        /\ \A j, k \in 1..l : j < k => at[j] < at[k]
        /\ \A k \in 1..l : s[k] = t[at[k]]
  BY DEF Kept
<1>2. l \in Nat /\ Len(w) = l + 1 /\ w[l + 1] = t[n + 1] /\ \A k \in 1..l : w[k] = s[k]
  OBVIOUS
<1> DEFINE to == [k \in 1..(l + 1) |-> IF k = l + 1 THEN n + 1 ELSE at[k]]
<1> HIDE DEF l, w
<1>3. to \in [1..(l + 1) -> 1..(n + 1)]
  BY <1>2
<1>4. ASSUME NEW j \in 1..(l + 1), NEW k \in 1..(l + 1), j < k PROVE to[j] < to[k]
  <2>1. j \in 1..l /\ j # l + 1 /\ to[j] = at[j] /\ at[j] \in 1..n
    BY <1>2, <1>4
  <2>2. CASE k = l + 1
    BY <2>1, <2>2
  <2>3. CASE k # l + 1
    <3>1. k \in 1..l /\ to[k] = at[k]
      BY <1>2, <2>3
    <3> QED  BY <1>1, <1>4, <2>1, <3>1
  <2> QED  BY <2>2, <2>3
<1>5. ASSUME NEW k \in 1..(l + 1) PROVE w[k] = t[to[k]]
  <2>1. CASE k = l + 1
    BY <1>2, <2>1
  <2>2. CASE k # l + 1
    <3>1. k \in 1..l /\ to[k] = at[k]
      BY <1>2, <2>2
    <3> QED  BY <1>1, <1>2, <3>1
  <2> QED  BY <2>1, <2>2
<1> HIDE DEF to
<1> QED  BY <1>2, <1>3, <1>4, <1>5 DEF Kept, w

-----------------------------------------------------------------------------
(* What the builders begin with.                                            *)

\* A message without options and payload.
Fields(type, code, mid, tkl, token) ==
  /\ type \in 0..3 /\ code \in Byte /\ mid \in U16 /\ tkl \in 0..8
  /\ token \in [0..7 -> Byte]

\* Such a message, field by field.
LEMMA MessageFields ==
  ASSUME NEW type, NEW code, NEW mid, NEW tkl, NEW token,
         Fields(type, code, mid, tkl, token),
         NEW m, m = Message(type, code, mid, tkl, token)
  PROVE  /\ m \in Msg /\ m.type = type /\ m.code = code /\ m.mid = mid /\ m.tkl = tkl
         /\ m.token = token /\ m.opts = <<>> /\ m.payload = <<>>
<1>1. <<>> \in Seq(Opt) /\ <<>> \in Seq(Byte)
  OBVIOUS
<1>2. m = [type |-> type, code |-> code, mid |-> mid, tkl |-> tkl, token |-> token,
           opts |-> <<>>, payload |-> <<>>]
  BY DEF Message
<1>3. m \in Msg
  BY <1>1, <1>2 DEF Msg, Fields
<1> QED  BY <1>2, <1>3

\* Eight bytes of which none is used.
LEMMA NoToken == Token(0, 0) \in [0..7 -> Byte] /\ \A k \in 0..7 : Token(0, 0)[k] = 0
<1>1. 0 \in Byte
  BY DEF Byte
<1> QED  BY <1>1 DEF Token

\* A builder that has no error to report has left this message.
Fine(b, m) == /\ b.ok = TRUE /\ b.pdu.max = MINIMUM_DATAGRAM_SIZE
              /\ \E at : Represents(b.pdu, m, at, FALSE)

\* One more call that does not fail.
LEMMA FineThen ==
  ASSUME NEW b, b.ok = TRUE, NEW q, q.err = "NONE", q.max = MINIMUM_DATAGRAM_SIZE,
         NEW m, \E at : Represents(q, m, at, FALSE)
  PROVE  Fine(Then(b, q), m)
<1>1. Then(b, q).pdu = q /\ Then(b, q).ok = TRUE
  BY DEF Then
<1> HIDE DEF Then
<1> QED  BY <1>1 DEF Fine

\* Header leaves an empty message with the type, code and id, whatever the
\* buffer held.
LEMMA HeaderBuilds ==
  ASSUME NEW p \in Pdu(MINIMUM_DATAGRAM_SIZE), NEW type \in 0..3, NEW code \in Byte,
         NEW mid \in U16
  PROVE  Fine(Header(p, type, code, mid), Message(type, code, mid, 0, Token(0, 0)))
<1> DEFINE max == MINIMUM_DATAGRAM_SIZE
           b0 == [pdu |-> coap_init_pdu(p), ok |-> TRUE]
           b1 == WithVersion(b0)
           b2 == WithType(b1, type)
           b3 == WithCode(b2, code)
           b4 == WithMid(b3, mid)
           M(t, c, i) == Message(t, c, i, 0, Token(0, 0))
<1>1. max \in Nat /\ 4 <= max
  BY SizeAssumption
<1>2. Ping = M(3, 0, 0)
  BY DEF Ping, Message
<1>3. Fine(b0, M(3, 0, 0))
  <2>1. /\ coap_init_pdu(p).max = max
        /\ \E at : Represents(coap_init_pdu(p), Ping, at, FALSE)
    BY <1>1, InitsPdu
  <2>2. b0.ok = TRUE /\ b0.pdu = coap_init_pdu(p)
    OBVIOUS
  <2> HIDE DEF b0
  <2> QED  BY <1>2, <2>1, <2>2 DEF Fine
<1> HIDE DEF b0
<1>4. Fine(b1, M(3, 0, 0))
  <2> DEFINE q == coap_set_version(b0.pdu, 1)
  <2>1. q.err = "NONE" /\ q.max = max /\ \E at : Represents(q, M(3, 0, 0), at, FALSE)
    BY <1>3, SetsVersion DEF Fine
  <2>2. b0.ok = TRUE
    BY <1>3 DEF Fine
  <2> HIDE DEF q, M, max
  <2> QED  BY <2>1, <2>2, FineThen DEF WithVersion, q, max
<1> HIDE DEF b1
<1>5. Fine(b2, M(type, 0, 0))
  <2> DEFINE q == coap_set_type(b1.pdu, type)
  <2>1. [M(3, 0, 0) EXCEPT !.type = type] = M(type, 0, 0)
    BY DEF Message
  <2>2. /\ q.err = "NONE" /\ q.max = max
        /\ \E at : Represents(q, [M(3, 0, 0) EXCEPT !.type = type], at, FALSE)
    BY <1>4, SetsType DEF Fine
  <2>3. b1.ok = TRUE
    BY <1>4 DEF Fine
  <2> HIDE DEF q, M, max
  <2> QED  BY <2>1, <2>2, <2>3, FineThen DEF WithType, q, max
<1> HIDE DEF b2
<1>6. Fine(b3, M(type, code, 0))
  <2> DEFINE q == coap_set_code(b2.pdu, code)
  <2>1. [M(type, 0, 0) EXCEPT !.code = code] = M(type, code, 0)
    BY DEF Message
  <2>2. /\ q.err = "NONE" /\ q.max = max
        /\ \E at : Represents(q, [M(type, 0, 0) EXCEPT !.code = code], at, FALSE)
    BY <1>5, SetsCode DEF Fine
  <2>3. b2.ok = TRUE
    BY <1>5 DEF Fine
  <2> HIDE DEF q, M, max
  <2> QED  BY <2>1, <2>2, <2>3, FineThen DEF WithCode, q, max
<1> HIDE DEF b3
<1>7. Fine(b4, M(type, code, mid))
  <2> DEFINE q == coap_set_mid(b3.pdu, mid)
  <2>1. [M(type, code, 0) EXCEPT !.mid = mid] = M(type, code, mid)
    BY DEF Message
  <2>2. /\ q.err = "NONE" /\ q.max = max
        /\ \E at : Represents(q, [M(type, code, 0) EXCEPT !.mid = mid], at, FALSE)
    BY <1>6, SetsMid DEF Fine
  <2>3. b3.ok = TRUE
    BY <1>6 DEF Fine
  <2> HIDE DEF q, M, max
  <2> QED  BY <2>1, <2>2, <2>3, FineThen DEF WithMid, q, max
<1>8. Header(p, type, code, mid) = b4
  BY DEF Header, b0, b1, b2, b3
<1> HIDE DEF b4
<1> QED  BY <1>7, <1>8

\* A message without options and payload is as long as its header.
LEMMA BareLength ==
  ASSUME NEW p, NEW m, NEW at, Represents(p, m, at, FALSE), m.opts = <<>>
  PROVE  p.len = 4 + m.tkl
<1>1. at[1] = 4 + m.tkl /\ p.len = at[Len(m.opts) + 1]
  BY DEF Represents, Ends
<1>2. Len(m.opts) + 1 = 1
  OBVIOUS
<1> QED  BY <1>1, <1>2

\* The token always fits behind the header.
LEMMA TokenBuilds ==
  ASSUME NEW type \in 0..3, NEW code \in Byte, NEW mid \in U16, NEW b,
         Fine(b, Message(type, code, mid, 0, Token(0, 0))),
         NEW tkl \in 0..8, NEW token \in [0..7 -> Byte],
         \A k \in 0..7 : k >= tkl => token[k] = 0
  PROVE  /\ Fine(WithToken(b, token, tkl), Message(type, code, mid, tkl, token))
         /\ WithToken(b, token, tkl).pdu.len = 4 + tkl
<1> DEFINE m == Message(type, code, mid, 0, Token(0, 0))
           w == Message(type, code, mid, tkl, token)
           q == coap_set_token(b.pdu, token, tkl)
<1>1. /\ m \in Msg /\ m.type = type /\ m.code = code /\ m.mid = mid /\ m.tkl = 0
      /\ m.opts = <<>> /\ m.payload = <<>> /\ w.opts = <<>> /\ w.tkl = tkl
  <2>1. /\ Fields(type, code, mid, 0, Token(0, 0))
        /\ Fields(type, code, mid, tkl, token)
    BY NoToken DEF Fields
  <2>2. /\ m = Message(type, code, mid, 0, Token(0, 0))
        /\ w = Message(type, code, mid, tkl, token)
    OBVIOUS
  <2> HIDE DEF m, w
  <2>3. /\ m \in Msg /\ m.type = type /\ m.code = code /\ m.mid = mid /\ m.tkl = 0
        /\ m.opts = <<>> /\ m.payload = <<>>
    BY <2>1, <2>2, MessageFields
  <2>4. /\ w.opts = <<>> /\ w.tkl = tkl
    BY <2>1, <2>2, MessageFields
  <2> QED  BY <2>3, <2>4
<1>2. [m EXCEPT !.tkl = tkl, !.token = token] = w
  <2> DEFINE x == [m EXCEPT !.tkl = tkl, !.token = token]
  <2>1. /\ x \in Msg /\ x.type = m.type /\ x.code = m.code /\ x.mid = m.mid
        /\ x.tkl = tkl /\ x.token = token /\ x.opts = m.opts /\ x.payload = m.payload
    <3> HIDE DEF m
    <3> QED  BY <1>1 DEF Msg
  <2> HIDE DEF x, m
  <2>2. x = [type |-> x.type, code |-> x.code, mid |-> x.mid, tkl |-> x.tkl,
             token |-> x.token, opts |-> x.opts, payload |-> x.payload]
    BY <2>1 DEF Msg
  <2>3. x = Message(type, code, mid, tkl, token)
    BY <1>1, <2>1, <2>2 DEF Message
  <2> QED  BY <2>3 DEF x
<1>3. PICK at : Represents(b.pdu, m, at, FALSE)
  BY DEF Fine
<1>4. b.ok = TRUE /\ b.pdu.max = MINIMUM_DATAGRAM_SIZE
  BY DEF Fine
<1> HIDE DEF m, w
<1>5. b.pdu.len = 4
  <2>1. b.pdu.len = 4 + m.tkl
    BY ONLY <1>1, <1>3, BareLength
  <2> QED  BY <1>1, <2>1
<1>6. /\ Leaves(q, b.pdu.max, m, [m EXCEPT !.tkl = tkl, !.token = token], FALSE, FALSE)
      /\ Grows(q, b.pdu, tkl - m.tkl)
  <2>1. tkl \in 0..15 /\ tkl <= 8
    OBVIOUS
  <2>2. /\ tkl \in 0..15 /\ token \in [0..7 -> Byte]
        /\ \A k \in 0..7 : k >= tkl => token[k] = 0
    BY <2>1
  <2> QED  BY ONLY <1>3, <2>1, <2>2, SetsToken
<1> HIDE DEF q
<1>7. q.err = "NONE" /\ q.max = MINIMUM_DATAGRAM_SIZE
  <2>1. b.pdu.len + (tkl - m.tkl) <= b.pdu.max
    BY <1>1, <1>4, <1>5, SizeAssumption
  <2> QED  BY <1>4, <1>6, <2>1 DEF Grows, Leaves
<1>8. \E to : Represents(q, w, to, FALSE)
  BY <1>2, <1>6, <1>7 DEF Leaves
<1>9. Fine(Then(b, q), w)
  BY <1>4, <1>7, <1>8, FineThen
<1>10. q.len = 4 + tkl
  BY <1>1, <1>8, BareLength
<1>11. Then(b, q).pdu = q /\ WithToken(b, token, tkl) = Then(b, q)
  BY DEF Then, WithToken, q
<1> HIDE DEF Then
<1> QED  BY <1>9, <1>10, <1>11 DEF w

-----------------------------------------------------------------------------
(* One option after the other.                                              *)

\* Header h and those of the first n options that found room; ok is exact.
Built(b, h, opts, n, m) ==
  /\ b.pdu.max = MINIMUM_DATAGRAM_SIZE /\ b.ok \in BOOLEAN
  /\ \E at : Represents(b.pdu, m, at, FALSE)
  /\ m = [h EXCEPT !.opts = m.opts]
  /\ Kept(m.opts, opts, n) /\ Len(m.opts) <= n
  /\ b.ok => Len(m.opts) = n /\ \A j \in 1..n : m.opts[j] = opts[j]
  /\ ~b.ok => Len(m.opts) < n

\* The message and its length after one more option, if it fits.
SizeOf(m, o) == Size(Append(m.opts, o), Len(m.opts) + 1)
Fits(m, len, o) == len + SizeOf(m, o) <= MINIMUM_DATAGRAM_SIZE
MsgWith(m, len, o) == IF Fits(m, len, o) THEN [m EXCEPT !.opts = Append(@, o)] ELSE m
LenWith(m, len, o) == IF Fits(m, len, o) THEN len + SizeOf(m, o) ELSE len

\* An option that was asked for does not come before one already there.
LEMMA NextFollows ==
  ASSUME NEW opts, InOrder(opts), NEW n \in Nat, n < Len(opts),
         NEW s, InOrder(s), Kept(s, opts, n)
  PROVE  Follows(s, opts[n + 1])
<1>1. PICK at \in [1..Len(s) -> 1..n] : \A k \in 1..Len(s) : s[k] = opts[at[k]]
  BY DEF Kept
<1>2. n + 1 \in 1..Len(opts) /\ opts[n + 1] \in Opt
  BY DEF InOrder
<1>3. ASSUME NEW k \in 1..Len(s) PROVE s[k].num <= opts[n + 1].num
  <2>1. at[k] \in 1..Len(opts) /\ at[k] <= n + 1
    BY <1>2
  <2>2. opts[at[k]].num <= opts[n + 1].num
    BY <1>2, <2>1 DEF InOrder
  <2> QED  BY <1>1, <2>2
<1> QED  BY <1>2, <1>3 DEF Follows

\* One call of coap_add_option: the option is there afterwards exactly if
\* it fits, and ok says whether all are.
LEMMA OptionStep ==
  ASSUME NEW opts, InOrder(opts), NEW n \in Nat, n < Len(opts), NEW o, o = opts[n + 1],
         NEW h \in Msg, NEW b, NEW m, Built(b, h, opts, n, m)
  PROVE  /\ Built(WithOption(b, o), h, opts, n + 1, MsgWith(m, b.pdu.len, o))
         /\ WithOption(b, o).pdu.len = LenWith(m, b.pdu.len, o)
<1> DEFINE p == b.pdu
           q == coap_add_option(p, o.num, o.val)
           c == WithOption(b, o)
           w == [m EXCEPT !.opts = Append(@, o)]
<1>1. /\ p.max = MINIMUM_DATAGRAM_SIZE /\ b.ok \in BOOLEAN
      /\ m = [h EXCEPT !.opts = m.opts]
      /\ Kept(m.opts, opts, n) /\ Len(m.opts) <= n
      /\ b.ok => Len(m.opts) = n /\ \A j \in 1..n : m.opts[j] = opts[j]
      /\ ~b.ok => Len(m.opts) < n
  BY DEF Built
<1>2. PICK at : Represents(p, m, at, FALSE)
  BY DEF Built
<1>3. m \in Msg /\ InOrder(m.opts) /\ m.opts \in Seq(Opt) /\ Len(m.opts) \in Nat
  BY <1>2 DEF Represents, InOrder
<1>4. Follows(m.opts, o)
  BY <1>1, <1>3, NextFollows
<1>5. o \in Opt /\ o = [num |-> o.num, val |-> o.val]
  BY <1>4 DEF Follows, Opt
<1>6. Leaves(q, p.max, m, w, FALSE, FALSE) /\ Grows(q, p, SizeOf(m, o))
  <2>1. /\ Leaves(q, p.max, m, w, FALSE, FALSE)
        /\ Grows(q, p, Size(Append(m.opts, o), Len(m.opts) + 1))
    BY ONLY <1>2, <1>4, <1>5, AddsOption
  <2> HIDE DEF q, w
  <2> QED  BY <2>1 DEF SizeOf
<1> HIDE DEF q
<1>7. c = [pdu |-> q, ok |-> b.ok /\ q.err = "NONE"]
  <2>1. Passed(o.val) = o.val
    <3>1. o.val \in Seq(Byte) /\ Len(o.val) \in U16
      BY <1>5 DEF Opt
    <3>2. AsU16(Len(o.val)) = Len(o.val)
      <4>1. \A x \in U16 : AsU16(x) = x
        BY DEF AsU16, U16
      <4> QED  BY <3>1, <4>1
    <3>3. SubSeq(o.val, 1, Len(o.val)) = o.val
      BY <3>1
    <3> QED  BY <3>2, <3>3 DEF Passed
  <2> QED  BY <2>1 DEF WithOption, Then, q
<1>8. c.pdu = q /\ c.ok = (b.ok /\ q.err = "NONE") /\ c.ok \in BOOLEAN
  BY <1>7
<1> HIDE DEF c, p
<1>9. q.max = MINIMUM_DATAGRAM_SIZE /\ (q.err = "NONE" <=> Fits(m, p.len, o))
      /\ q.len = IF q.err = "NONE" THEN p.len + SizeOf(m, o) ELSE p.len
  BY <1>1, <1>6 DEF Leaves, Grows, Fits
<1>10. q.len = LenWith(m, p.len, o)
  BY <1>9 DEF LenWith
<1>11. CASE Fits(m, p.len, o)
  <2>1. MsgWith(m, p.len, o) = w
    BY <1>11 DEF MsgWith
  <2>2. w.opts = Append(m.opts, o)
    BY <1>3 DEF Msg
  <2>3. w = [h EXCEPT !.opts = w.opts]
    <3>1. m.opts = m.opts /\ h \in Msg /\ m = [h EXCEPT !.opts = m.opts]
      BY <1>1
    <3>2. \A x, y : [[h EXCEPT !.opts = x] EXCEPT !.opts = y] = [h EXCEPT !.opts = y]
      BY DEF Msg
    <3>3. w = [m EXCEPT !.opts = Append(m.opts, o)]
      BY <1>3 DEF Msg
    <3> HIDE DEF w
    <3> QED  BY <2>2, <3>1, <3>2, <3>3
  <2>4. \E to : Represents(q, w, to, FALSE)
    BY <1>6, <1>9, <1>11 DEF Leaves
  <2>5. /\ Len(w.opts) = Len(m.opts) + 1 /\ w.opts[Len(m.opts) + 1] = o
        /\ \A j \in 1..Len(m.opts) : w.opts[j] = m.opts[j]
    BY <1>3, <1>5, <2>2
  <2>6. Kept(w.opts, opts, n + 1)
    BY <1>1, <1>3, <1>5, <2>2, KeptTake
  <2> HIDE DEF w
  <2>7. c.ok = b.ok
    BY <1>1, <1>8, <1>9, <1>11
  <2>8. Len(w.opts) <= n + 1 /\ (~c.ok => Len(w.opts) < n + 1)
    BY <1>1, <1>3, <2>5, <2>7
  <2>9. ASSUME c.ok PROVE Len(w.opts) = n + 1 /\ \A j \in 1..(n + 1) : w.opts[j] = opts[j]
    <3>1. Len(m.opts) = n /\ \A j \in 1..n : m.opts[j] = opts[j]
      BY <1>1, <2>7, <2>9
    <3>2. ASSUME NEW j \in 1..(n + 1) PROVE w.opts[j] = opts[j]
      <4>1. CASE j = n + 1
        BY <2>5, <3>1, <4>1
      <4>2. CASE j # n + 1
        <5>1. j \in 1..n
          BY <4>2
        <5> QED  BY <2>5, <3>1, <5>1
      <4> QED  BY <4>1, <4>2
    <3> QED  BY <2>5, <3>1, <3>2
  <2>10. c.ok => Len(w.opts) = n + 1 /\ \A j \in 1..(n + 1) : w.opts[j] = opts[j]
    BY <2>9
  <2>11. Built(c, h, opts, n + 1, w)
    BY ONLY <1>8, <1>9, <2>3, <2>4, <2>6, <2>8, <2>10 DEF Built
  <2> QED  BY <1>8, <1>10, <2>1, <2>11 DEF c, p
<1>12. CASE ~Fits(m, p.len, o)
  <2>1. MsgWith(m, p.len, o) = m
    BY <1>12 DEF MsgWith
  <2>2. \E to : Represents(q, m, to, FALSE)
    BY <1>6, <1>9, <1>12 DEF Leaves
  <2>3. Kept(m.opts, opts, n + 1)
    BY <1>1, <1>3, KeptSkip
  <2>4. c.ok = FALSE /\ Len(m.opts) < n + 1 /\ Len(m.opts) <= n + 1
    <3>1. q.err # "NONE"
      BY <1>9, <1>12
    <3>2. c.ok = FALSE
      BY <1>8, <3>1
    <3>3. Len(m.opts) < n + 1 /\ Len(m.opts) <= n + 1
      BY <1>1, <1>3
    <3> QED  BY <3>2, <3>3
  <2>5. c.ok => Len(m.opts) = n + 1 /\ \A j \in 1..(n + 1) : m.opts[j] = opts[j]
    BY <2>4
  <2>6. m = [h EXCEPT !.opts = m.opts]
    BY <1>1
  <2>7. Built(c, h, opts, n + 1, m)
    BY ONLY <1>8, <1>9, <2>2, <2>3, <2>4, <2>5, <2>6 DEF Built
  <2> QED  BY <1>8, <1>10, <2>1, <2>7 DEF c, p
<1> QED  BY <1>11, <1>12

\* The loop over the options adds one after the other.
Adds(f, b, opts) ==
  /\ f[0] = b
  /\ \A k \in 1..Len(opts) : f[k] = WithOption(f[k - 1], opts[k])

\* What WithOptions yields is the end of such a sequence of calls.
LEMMA OptionsAdded ==
  ASSUME NEW b, NEW opts, Len(opts) \in Nat
  PROVE  \E f : Adds(f, b, opts) /\ WithOptions(b, opts) = f[Len(opts)]
<1> DEFINE n == Len(opts)
           Step(f, k) == IF k = 0 THEN b ELSE WithOption(f[k - 1], opts[k])
           Good(m) == \E f : f = [k \in 0..m |-> Step(f, k)]
           Bad == {m \in 0..n : ~Good(m)}
<1> HIDE DEF n
<1>0. n \in Nat
  BY DEF n
<1>1. Good(0)
  <2> DEFINE f == [k \in 0..0 |-> b]
  <2>1. f = [k \in 0..0 |-> Step(f, k)]
    OBVIOUS
  <2> QED  BY <2>1
<1>2. ASSUME NEW m \in 0..n, m # 0, Good(m - 1) PROVE Good(m)
  <2>1. PICK f : f = [k \in 0..(m - 1) |-> Step(f, k)]
    BY <1>2
  <2> DEFINE g == [k \in 0..m |-> IF k = m THEN WithOption(f[m - 1], opts[m]) ELSE f[k]]
  <2>2. \A k \in 0..(m - 1) : g[k] = f[k]
    BY <1>0
  <2>3. ASSUME NEW k \in 0..m PROVE g[k] = Step(g, k)
    <3>1. CASE k = m
      <4>1. m - 1 \in 0..(m - 1)
        BY <1>0, <1>2
      <4>2. g[m - 1] = f[m - 1] /\ g[m] = WithOption(f[m - 1], opts[m])
        BY <1>0, <2>2, <4>1
      <4> HIDE DEF g
      <4> QED  BY <1>2, <3>1, <4>2
    <3>2. CASE k # m
      <4>1. k \in 0..(m - 1) /\ (k # 0 => k - 1 \in 0..(m - 1))
        BY <1>0, <3>2
      <4>2. g[k] = f[k] /\ (k # 0 => g[k - 1] = f[k - 1])
        BY <2>2, <4>1
      <4>3. f[k] = Step(f, k)
        BY <2>1, <4>1
      <4> HIDE DEF g
      <4> QED  BY <4>2, <4>3
    <3> QED  BY <3>1, <3>2
  <2>4. g = [k \in 0..m |-> g[k]]
    OBVIOUS
  <2> HIDE DEF g, Step
  <2>5. g = [k \in 0..m |-> Step(g, k)]
    BY <2>3, <2>4
  <2> QED  BY <2>5
<1>3. Bad = {}
  <2> SUFFICES ASSUME Bad # {} PROVE FALSE
    OBVIOUS
  <2> HIDE DEF Good
  <2>1. Bad \subseteq Nat
    BY <1>0
  <2>2. \E m \in Bad : \A k \in Bad : m <= k
    <3> HIDE DEF Bad
    <3> QED  BY <2>1, LeastNumber
  <2>3. PICK m \in Bad : \A k \in Bad : m <= k
    BY <2>2
  <2>4. m # 0
    BY <2>3, <1>1
  <2>5. m - 1 \in 0..n /\ m - 1 \notin Bad
    BY <1>0, <2>3, <2>4
  <2>6. Good(m - 1)
    BY <2>5
  <2> QED  BY <1>0, <1>2, <2>3, <2>4, <2>6
<1>4. \E f : f = [k \in 0..n |-> Step(f, k)]
  <2>1. n \in 0..n /\ n \notin Bad
    BY <1>0, <1>3
  <2> HIDE DEF Step
  <2> QED  BY <2>1
<1> DEFINE added == CHOOSE f : f = [k \in 0..n |-> Step(f, k)]
<1>5. added = [k \in 0..n |-> Step(added, k)]
  <2> HIDE DEF Step
  <2> QED  BY <1>4, Zenon
<1>6. WithOptions(b, opts) = added[n]
  BY DEF WithOptions, n
<1> HIDE DEF added
<1>7. added[0] = b
  BY <1>0, <1>5
<1>8. ASSUME NEW k \in 1..n PROVE added[k] = WithOption(added[k - 1], opts[k])
  <2>1. k \in 0..n /\ k # 0
    BY <1>0
  <2>2. added[k] = Step(added, k)
    BY <1>5, <2>1
  <2> QED  BY <2>1, <2>2
<1>9. Adds(added, b, opts)
  BY <1>7, <1>8 DEF Adds, n
<1> QED  BY <1>6, <1>9 DEF n

\* Two messages under construction with the same options in the same room.
Twins(b, c, m, n) == m.opts = n.opts /\ b.pdu.len = c.pdu.len

\* Whatever is in their headers, the same options find room in both.
LEMMA OptionsBuild ==
  ASSUME NEW opts, InOrder(opts), NEW h \in Msg, NEW g \in Msg,
         NEW b, NEW c, NEW m0, NEW n0,
         Built(b, h, opts, 0, m0), Built(c, g, opts, 0, n0), Twins(b, c, m0, n0)
  PROVE  \E m, n : /\ Built(WithOptions(b, opts), h, opts, Len(opts), m)
                   /\ Built(WithOptions(c, opts), g, opts, Len(opts), n)
                   /\ Twins(WithOptions(b, opts), WithOptions(c, opts), m, n)
<1>0. Len(opts) \in Nat
  BY DEF InOrder
<1>1. PICK f : Adds(f, b, opts) /\ WithOptions(b, opts) = f[Len(opts)]
  BY <1>0, OptionsAdded
<1>2. PICK e : Adds(e, c, opts) /\ WithOptions(c, opts) = e[Len(opts)]
  BY <1>0, OptionsAdded
<1> DEFINE Good(k) == \E m, n : /\ Built(f[k], h, opts, k, m) /\ Built(e[k], g, opts, k, n)
                                /\ Twins(f[k], e[k], m, n)
           Bad == {k \in 0..Len(opts) : ~Good(k)}
<1>3. Good(0)
  BY <1>1, <1>2 DEF Adds
<1>4. ASSUME NEW k \in 1..Len(opts), Good(k - 1) PROVE Good(k)
  <2>1. PICK m, n : /\ Built(f[k - 1], h, opts, k - 1, m) /\ Built(e[k - 1], g, opts, k - 1, n)
                    /\ Twins(f[k - 1], e[k - 1], m, n)
    BY <1>4
  <2> DEFINE o == opts[k]
             x == f[k - 1]
             y == e[k - 1]
  <2>2. f[k] = WithOption(x, o) /\ e[k] = WithOption(y, o)
    BY <1>1, <1>2 DEF Adds
  <2>3. k - 1 \in Nat /\ k - 1 < Len(opts) /\ (k - 1) + 1 = k
    BY <1>0
  <2> HIDE DEF o, x, y
  <2>4. /\ Built(WithOption(x, o), h, opts, k, MsgWith(m, x.pdu.len, o))
        /\ WithOption(x, o).pdu.len = LenWith(m, x.pdu.len, o)
    BY <2>1, <2>3, OptionStep DEF o, x
  <2>5. /\ Built(WithOption(y, o), g, opts, k, MsgWith(n, y.pdu.len, o))
        /\ WithOption(y, o).pdu.len = LenWith(n, y.pdu.len, o)
    BY <2>1, <2>3, OptionStep DEF o, y
  <2>6. m.opts = n.opts /\ x.pdu.len = y.pdu.len
    BY <2>1 DEF Twins, x, y
  <2>7. SizeOf(m, o) = SizeOf(n, o)
    BY <2>6 DEF SizeOf
  <2>8. Fits(m, x.pdu.len, o) = Fits(n, y.pdu.len, o)
    BY <2>6, <2>7 DEF Fits
  <2>9. LenWith(m, x.pdu.len, o) = LenWith(n, y.pdu.len, o)
    BY <2>6, <2>7, <2>8 DEF LenWith
  <2>10. m \in Msg /\ n \in Msg
    BY <2>1 DEF Built, Represents
  <2>11. MsgWith(m, x.pdu.len, o).opts = MsgWith(n, y.pdu.len, o).opts
    BY <2>6, <2>8, <2>10 DEF MsgWith, Msg
  <2>12. Twins(WithOption(x, o), WithOption(y, o),
               MsgWith(m, x.pdu.len, o), MsgWith(n, y.pdu.len, o))
    BY <2>4, <2>5, <2>9, <2>11 DEF Twins
  <2> QED  BY <2>2, <2>4, <2>5, <2>12
<1>5. Bad = {}
  <2> SUFFICES ASSUME Bad # {} PROVE FALSE
    OBVIOUS
  <2> HIDE DEF Good
  <2>1. Bad \subseteq Nat
    BY <1>0
  <2>2. \E k \in Bad : \A j \in Bad : k <= j
    <3> HIDE DEF Bad
    <3> QED  BY <2>1, LeastNumber
  <2>3. PICK k \in Bad : \A j \in Bad : k <= j
    BY <2>2
  <2>4. k # 0
    BY <2>3, <1>3
  <2>5. k \in 1..Len(opts) /\ k - 1 \in 0..Len(opts) /\ k - 1 \notin Bad
    BY <1>0, <2>3, <2>4
  <2>6. Good(k - 1)
    BY <2>5
  <2> QED  BY <1>4, <2>3, <2>5, <2>6
<1>6. Good(Len(opts))
  <2>1. Len(opts) \in 0..Len(opts) /\ Len(opts) \notin Bad
    BY <1>0, <1>5
  <2> HIDE DEF Good
  <2> QED  BY <2>1
<1> QED  BY <1>1, <1>2, <1>6

-----------------------------------------------------------------------------
(* What a request asks for.                                                 *)

Text == {v \in Seq(Byte) : Len(v) \in U16}

\* A value whose length fits a uint16_t.
LEMMA TextOf ==
  ASSUME NEW n \in U16, NEW byte \in Byte
  PROVE  Data(n, byte) \in Text
<1>1. n \in Nat
  BY DEF U16
<1> QED  BY <1>1, DataTyped DEF Text

\* The application's strings are such values.
LEMMA StringsTyped ==
  ASSUME NEW lens, lens \subseteq U16, NEW v \in Strings(lens)
  PROVE  v \in Text
<1>1. PICK n \in lens : v = Data(n, TextByte)
  BY DEF Strings
<1> QED  BY <1>1, TextOf, MemoryAssumption

\* A segment of the path is an option.
LEMMA PathTyped ==
  ASSUME NEW v \in Text
  PROVE  Path(v) \in Opt /\ Path(v).num = 11
<1>1. 11 \in U16 \ {0}
  BY DEF U16
<1> QED  BY <1>1 DEF Path, URI_PATH, Opt, Text

\* The options of an activation.
LEMMA ActivateOrder ==
  ASSUME NEW a \in Opt, NEW b \in Opt, NEW c \in Opt, NEW d \in Opt, NEW e \in Opt,
         a.num = 11, b.num = 11, c.num = 11, d.num = 11, e.num = 11
  PROVE  InOrder(<<a, b, c, d, e>>)
<1> DEFINE s == <<a, b, c, d, e>>
<1>1. s \in Seq(Opt) /\ Len(s) = 5
  OBVIOUS
<1>2. \A j \in 1..5 : s[j].num = 11
  OBVIOUS
<1> HIDE DEF s
<1>3. InOrder(s)
  BY <1>1, <1>2 DEF InOrder
<1> QED  BY <1>3 DEF s

\* The options of a read or a write.
LEMMA DataportOrder ==
  ASSUME NEW a \in Opt, NEW b \in Opt, NEW c \in Opt,
         a.num = 11, b.num = 11, c.num = 15
  PROVE  InOrder(<<a, b, c>>)
<1> DEFINE s == <<a, b, c>>
<1>1. s \in Seq(Opt) /\ Len(s) = 3
  OBVIOUS
<1>2. \A j \in 1..3 : s[j].num = IF j < 3 THEN 11 ELSE 15
  OBVIOUS
<1> HIDE DEF s
<1>3. InOrder(s)
  BY <1>1, <1>2 DEF InOrder
<1> QED  BY <1>3 DEF s

\* The options of a subscription, which begin with Observe.
LEMMA SubscribeOrder ==
  ASSUME NEW o \in Opt, NEW a \in Opt, NEW b \in Opt, NEW c \in Opt,
         o.num = 6, a.num = 11, b.num = 11, c.num = 15
  PROVE  InOrder(<<o>> \o <<a, b, c>>)
<1> DEFINE s == <<o>> \o <<a, b, c>>
<1>1. s \in Seq(Opt) /\ Len(s) = 4
  OBVIOUS
<1>2. \A j \in 1..4 : s[j].num = IF j = 1 THEN 6 ELSE IF j < 4 THEN 11 ELSE 15
  OBVIOUS
<1> HIDE DEF s
<1>3. InOrder(s)
  BY <1>1, <1>2 DEF InOrder
<1> QED  BY <1>3 DEF s

\* Whatever the strings, the builders add the options in the order of their
\* numbers.
LEMMA RequestTyped ==
  ASSUME NEW r \in Requests
  PROVE  /\ InOrder(Options(r)) /\ Payload(r) \in Seq(Byte) /\ Code(r) \in Byte
         /\ r.type = "WRITE" => r.value = Payload(r)
         /\ r.type # "WRITE" => Payload(r) = <<>>
         /\ r.type # "NONE"
<1> DEFINE cik == [num |-> URI_QUERY, val |-> Data(40, CikByte)]
           obs == [num |-> OBSERVE, val |-> <<0>>]
<1>1. /\ Data(2, TextByte) \in Text /\ Data(9, TextByte) \in Text
      /\ Data(8, TextByte) \in Text /\ Data(40, CikByte) \in Text
  <2>1. 2 \in U16 /\ 9 \in U16 /\ 8 \in U16 /\ 40 \in U16
    BY DEF U16
  <2> QED  BY <2>1, TextOf, MemoryAssumption
<1>2. cik \in Opt /\ cik.num = 15
  <2>1. 15 \in U16 \ {0}
    BY DEF U16
  <2> QED  BY <1>1, <2>1 DEF URI_QUERY, Opt, Text
<1>3. obs \in Opt /\ obs.num = 6
  <2>1. 6 \in U16 \ {0} /\ 1 \in U16 /\ 0 \in Byte
    BY DEF U16, Byte
  <2>2. <<0>> \in Seq(Byte) /\ Len(<<0>>) = 1
    BY <2>1
  <2> QED  BY <2>1, <2>2 DEF OBSERVE, Opt
<1>4. Code(r) \in Byte
  BY DEF Code, POST, GET, Byte
<1>5. CASE r \in [type : {"READ", "SUBSCRIBE"}, alias : Strings(AliasLens)]
  <2>1. r.type \in {"READ", "SUBSCRIBE"} /\ r.alias \in Text
    BY <1>5, StringsTyped, StringAssumption
  <2>2. Path(Data(2, TextByte)) \in Opt /\ Path(Data(2, TextByte)).num = 11
    BY <1>1, PathTyped
  <2>3. Path(r.alias) \in Opt /\ Path(r.alias).num = 11
    BY <2>1, PathTyped
  <2>4. CASE r.type = "READ"
    <3>1. Options(r) = <<Path(Data(2, TextByte)), Path(r.alias), cik>>
      BY <2>4 DEF Options
    <3> HIDE DEF cik
    <3>2. InOrder(Options(r))
      BY <1>2, <2>2, <2>3, <3>1, DataportOrder
    <3>3. Payload(r) = <<>> /\ <<>> \in Seq(Byte)
      BY <2>4 DEF Payload
    <3> QED  BY <1>4, <2>4, <3>2, <3>3
  <2>5. CASE r.type = "SUBSCRIBE"
    <3>1. Options(r) = <<obs>> \o <<Path(Data(2, TextByte)), Path(r.alias), cik>>
      BY <2>5 DEF Options
    <3> HIDE DEF cik, obs
    <3>2. InOrder(Options(r))
      BY <1>2, <1>3, <2>2, <2>3, <3>1, SubscribeOrder
    <3>3. Payload(r) = <<>> /\ <<>> \in Seq(Byte)
      BY <2>5 DEF Payload
    <3> QED  BY <1>4, <2>5, <3>2, <3>3
  <2> QED  BY <2>1, <2>4, <2>5
<1>6. CASE r \in [type : {"WRITE"}, alias : Strings(AliasLens), value : Strings(ValueLens)]
  <2>1. r.type = "WRITE" /\ r.alias \in Text /\ r.value \in Strings(ValueLens)
    BY <1>6, StringsTyped, StringAssumption
  <2>2. Path(Data(2, TextByte)) \in Opt /\ Path(Data(2, TextByte)).num = 11
    BY <1>1, PathTyped
  <2>3. Path(r.alias) \in Opt /\ Path(r.alias).num = 11
    BY <2>1, PathTyped
  <2>4. Options(r) = <<Path(Data(2, TextByte)), Path(r.alias), cik>>
    BY <2>1 DEF Options
  <2> HIDE DEF cik
  <2>5. InOrder(Options(r))
    BY <1>2, <2>2, <2>3, <2>4, DataportOrder
  <2>6. PICK n \in ValueLens : r.value = Data(n, TextByte)
    BY <2>1 DEF Strings
  <2>7. r.value \in Seq(Byte)
    <3>1. n \in Nat /\ TextByte \in Byte
      BY StringAssumption, MemoryAssumption
    <3> QED  BY <2>6, <3>1, DataTyped
  <2>8. Payload(r) = r.value
    BY <2>1 DEF Payload
  <2> QED  BY <1>4, <2>1, <2>5, <2>7, <2>8
<1>7. CASE r \in [type : {"ACTIVATE"}, vendor : Strings(NameLens), model : Strings(NameLens),
                  serial : Strings(NameLens)]
  <2>1. r.type = "ACTIVATE" /\ r.vendor \in Text /\ r.model \in Text /\ r.serial \in Text
    BY <1>7, StringsTyped, StringAssumption
  <2>2. \A v \in Text : Path(v) \in Opt /\ Path(v).num = 11
    BY PathTyped
  <2>3. Options(r) = <<Path(Data(9, TextByte)), Path(Data(8, TextByte)),
                       Path(r.vendor), Path(r.model), Path(r.serial)>>
    BY <2>1 DEF Options
  <2>4. InOrder(Options(r))
    BY <1>1, <2>1, <2>2, <2>3, ActivateOrder
  <2>5. Payload(r) = <<>> /\ <<>> \in Seq(Byte)
    BY <2>1 DEF Payload
  <2> QED  BY <1>4, <2>1, <2>4, <2>5
<1> QED  BY <1>5, <1>6, <1>7 DEF Requests

-----------------------------------------------------------------------------
(* A whole request.                                                         *)

IsEmptyWrite(r) == r.type = "WRITE" /\ r.value = <<>>

\* Under header h the buffer holds those parts of request r that found room,
\* and ok is exact.
Sent(b, h, r, m, marked) ==
  /\ b.pdu.max = MINIMUM_DATAGRAM_SIZE /\ b.ok \in BOOLEAN
  /\ \E at : Represents(b.pdu, m, at, marked)
  /\ m = [h EXCEPT !.opts = m.opts, !.payload = m.payload]
  /\ Kept(m.opts, Options(r), Len(Options(r)))
  /\ m.payload \in {<<>>, Payload(r)}
  /\ b.ok => m.opts = Options(r) /\ m.payload = Payload(r)
  /\ m.opts = Options(r) /\ m.payload = Payload(r) => b.ok \/ IsEmptyWrite(r)
  /\ marked /\ m.payload = <<>> => IsEmptyWrite(r)

\* Is there room for the value to write?
Room(len, r) == r.type = "WRITE" /\ len + (Len(r.value) + 1) <= MINIMUM_DATAGRAM_SIZE

Valued(m, len, r) == IF Room(len, r) THEN [m EXCEPT !.payload = r.value] ELSE m

\* Sequences with the same elements are equal.
LEMMA SameSeq ==
  ASSUME NEW S, NEW s \in Seq(S), NEW t \in Seq(S), Len(s) = Len(t),
         \A j \in 1..Len(t) : s[j] = t[j]
  PROVE  s = t
OBVIOUS

\* The value is the last part of a request.
LEMMA PayloadStep ==
  ASSUME NEW r \in Requests, NEW h \in Msg, h.payload = <<>>, NEW b, NEW m,
         Built(b, h, Options(r), Len(Options(r)), m)
  PROVE  Sent(WithPayload(b, r), h, r, Valued(m, b.pdu.len, r), Room(b.pdu.len, r))
<1> DEFINE p == b.pdu
           opts == Options(r)
           q == coap_set_payload(p, r.value)
           c == WithPayload(b, r)
           w == [m EXCEPT !.payload = r.value]
<1>1. /\ p.max = MINIMUM_DATAGRAM_SIZE /\ b.ok \in BOOLEAN
      /\ m = [h EXCEPT !.opts = m.opts]
      /\ Kept(m.opts, opts, Len(opts))
      /\ b.ok => Len(m.opts) = Len(opts) /\ \A j \in 1..Len(opts) : m.opts[j] = opts[j]
      /\ ~b.ok => Len(m.opts) < Len(opts)
  BY DEF Built
<1>2. PICK at : Represents(p, m, at, FALSE)
  BY DEF Built
<1>3. /\ m \in Msg /\ m.opts \in Seq(Opt) /\ Len(m.opts) \in Nat
      /\ opts \in Seq(Opt) /\ Len(opts) \in Nat
  <2>1. InOrder(opts)
    BY RequestTyped
  <2> QED  BY <1>2, <2>1 DEF Represents, InOrder
<1>4. /\ Payload(r) \in Seq(Byte)
      /\ r.type = "WRITE" => r.value = Payload(r)
      /\ r.type # "WRITE" => Payload(r) = <<>>
  BY RequestTyped
<1>5. m.payload = <<>> /\ m = [h EXCEPT !.opts = m.opts, !.payload = m.payload]
  <2>1. \A x : /\ [h EXCEPT !.opts = x].payload = h.payload
               /\ [h EXCEPT !.opts = x, !.payload = h.payload] = [h EXCEPT !.opts = x]
    BY DEF Msg
  <2>2. m.payload = h.payload
    BY <1>1, <2>1
  <2> QED  BY <1>1, <2>1, <2>2
<1>6. b.ok => m.opts = opts
  BY ONLY <1>1, <1>3, SameSeq
<1>7. m.opts = opts => b.ok
  BY <1>1, <1>3
<1> HIDE DEF opts
<1>8. CASE r.type # "WRITE"
  <2>1. ~Room(p.len, r) /\ c = b
    BY <1>8 DEF Room, WithPayload
  <2>2. Valued(m, p.len, r) = m
    BY <2>1 DEF Valued
  <2>3. Sent(b, h, r, m, FALSE)
    BY ONLY <1>1, <1>2, <1>4, <1>5, <1>6, <1>7, <1>8 DEF Sent, opts, p
  <2>4. Room(p.len, r) = FALSE
    BY <2>1 DEF Room
  <2> HIDE DEF c
  <2> QED  BY <2>1, <2>2, <2>3, <2>4 DEF c, p
<1>9. CASE r.type = "WRITE"
  <2>1. r.value \in Seq(Byte) /\ r.value = Payload(r) /\ Len(r.value) \in Nat
    BY <1>4, <1>9
  <2>2. Leaves(q, p.max, m, w, FALSE, TRUE) /\ Grows(q, p, Len(r.value) + 1)
    BY ONLY <1>2, <2>1, SetsPayload
  <2>3. c = [pdu |-> q, ok |-> b.ok /\ q.err = "NONE"]
    BY <1>9 DEF WithPayload, Then
  <2>4. c.pdu = q /\ c.ok = (b.ok /\ q.err = "NONE") /\ c.ok \in BOOLEAN
    BY <2>3
  <2> HIDE DEF c, q, p
  <2>5. q.max = MINIMUM_DATAGRAM_SIZE /\ (q.err = "NONE" <=> Room(p.len, r))
    BY <1>1, <1>9, <2>2 DEF Leaves, Grows, Room
  <2>6. w.opts = m.opts /\ w.payload = r.value
    BY <1>3 DEF Msg
  <2>7. CASE Room(p.len, r)
    <3>1. Valued(m, p.len, r) = w /\ Room(p.len, r) = TRUE
      <4>1. Valued(m, p.len, r) = w
        BY <2>7 DEF Valued
      <4>2. Room(p.len, r) = TRUE
        BY <2>7 DEF Room
      <4> QED  BY <4>1, <4>2
    <3>2. \E to : Represents(q, w, to, TRUE)
      BY <2>2, <2>5, <2>7 DEF Leaves
    <3>3. w = [h EXCEPT !.opts = w.opts, !.payload = w.payload]
      <4>1. \A x, y, z : [[h EXCEPT !.opts = x, !.payload = y] EXCEPT !.payload = z]
                           = [h EXCEPT !.opts = x, !.payload = z]
        BY DEF Msg
      <4>2. w = [[h EXCEPT !.opts = m.opts, !.payload = m.payload] EXCEPT !.payload = r.value]
        BY <1>5
      <4> HIDE DEF w
      <4> QED  BY <2>6, <4>1, <4>2
    <3> HIDE DEF w
    <3>4. c.ok = b.ok
      <4>1. q.err = "NONE"
        BY <2>5, <2>7
      <4> QED  BY <1>1, <2>4, <4>1
    <3>5. c.ok => w.opts = opts /\ w.payload = Payload(r)
      BY <1>6, <2>1, <2>6, <3>4
    <3>6. w.opts = opts => c.ok
      BY <1>7, <2>6, <3>4
    <3>7. w.payload = <<>> => IsEmptyWrite(r)
      BY <1>9, <2>6 DEF IsEmptyWrite
    <3>8. Kept(w.opts, opts, Len(opts)) /\ w.payload \in {<<>>, Payload(r)}
      BY <1>1, <2>1, <2>6
    <3>9. Sent(c, h, r, w, TRUE)
      BY ONLY <2>4, <2>5, <3>2, <3>3, <3>5, <3>6, <3>7, <3>8 DEF Sent, opts
    <3> QED  BY <3>1, <3>9 DEF c, p
  <2>8. CASE ~Room(p.len, r)
    <3>1. Valued(m, p.len, r) = m /\ Room(p.len, r) = FALSE
      <4>1. Valued(m, p.len, r) = m
        BY <2>8 DEF Valued
      <4>2. Room(p.len, r) = FALSE
        BY <2>8 DEF Room
      <4> QED  BY <4>1, <4>2
    <3>2. \E to : Represents(q, m, to, FALSE)
      BY <2>2, <2>5, <2>8 DEF Leaves
    <3>3. c.ok = FALSE
      <4>1. q.err # "NONE"
        BY <2>5, <2>8
      <4> QED  BY <2>4, <4>1
    <3>4. m.payload = Payload(r) => IsEmptyWrite(r)
      BY <1>5, <1>9, <2>1 DEF IsEmptyWrite
    <3>5. Kept(m.opts, opts, Len(opts)) /\ m.payload \in {<<>>, Payload(r)}
      BY <1>1, <1>5
    <3>6. m = [h EXCEPT !.opts = m.opts, !.payload = m.payload]
      BY <1>5
    <3>7. Sent(c, h, r, m, FALSE)
      BY ONLY <2>4, <2>5, <3>2, <3>3, <3>4, <3>5, <3>6 DEF Sent, opts
    <3> QED  BY <3>1, <3>7 DEF c, p
  <2> QED  BY <2>7, <2>8
<1> QED  BY <1>8, <1>9

\* The header of a request.
Lead(r, mid, tkl, token) == Message(CON, Code(r), mid, tkl, token)

\* The header of a request, field by field.
LEMMA LeadTyped ==
  ASSUME NEW r \in Requests, NEW mid \in U16, NEW tkl \in 0..8,
         NEW token \in [0..7 -> Byte]
  PROVE  /\ Lead(r, mid, tkl, token) \in Msg
         /\ Lead(r, mid, tkl, token).type = CON /\ Lead(r, mid, tkl, token).code = Code(r)
         /\ Lead(r, mid, tkl, token).mid = mid /\ Lead(r, mid, tkl, token).tkl = tkl
         /\ Lead(r, mid, tkl, token).token = token
         /\ Lead(r, mid, tkl, token).opts = <<>> /\ Lead(r, mid, tkl, token).payload = <<>>
<1>1. Fields(CON, Code(r), mid, tkl, token)
  BY RequestTyped DEF Fields, CON
<1> DEFINE h == Lead(r, mid, tkl, token)
<1>2. h = Message(CON, Code(r), mid, tkl, token)
  BY DEF Lead
<1> HIDE DEF h
<1>3. /\ h \in Msg /\ h.type = CON /\ h.code = Code(r) /\ h.mid = mid /\ h.tkl = tkl
      /\ h.token = token /\ h.opts = <<>> /\ h.payload = <<>>
  BY <1>1, <1>2, MessageFields
<1> QED  BY <1>3 DEF h

\* A token of two bytes.
Short(token) == token \in [0..7 -> Byte] /\ \A k \in 0..7 : k >= 2 => token[k] = 0

\* Before the first option.
LEMMA LeadBuilds ==
  ASSUME NEW r \in Requests, NEW p \in Pdu(MINIMUM_DATAGRAM_SIZE), NEW mid \in U16,
         NEW token, Short(token),
         NEW b, b = WithToken(Header(p, CON, Code(r), mid), token, 2),
         NEW h, h = Lead(r, mid, 2, token)
  PROVE  h \in Msg /\ h.payload = <<>> /\ Built(b, h, Options(r), 0, h)
         /\ h.opts = <<>> /\ b.pdu.len = 6
<1>1. CON \in 0..3 /\ Code(r) \in Byte
  BY RequestTyped DEF CON
<1>2. Fine(Header(p, CON, Code(r), mid), Message(CON, Code(r), mid, 0, Token(0, 0)))
  BY <1>1, HeaderBuilds
<1>3. 2 \in 0..8 /\ token \in [0..7 -> Byte] /\ \A k \in 0..7 : k >= 2 => token[k] = 0
  BY DEF Short
<1>4. Fine(b, h) /\ b.pdu.len = 6
  <2>1. /\ Fine(WithToken(Header(p, CON, Code(r), mid), token, 2),
                Message(CON, Code(r), mid, 2, token))
        /\ WithToken(Header(p, CON, Code(r), mid), token, 2).pdu.len = 4 + 2
    BY ONLY <1>1, <1>2, <1>3, TokenBuilds, mid \in U16
  <2> QED  BY <2>1 DEF Lead
<1>5. h \in Msg /\ h.opts = <<>> /\ h.payload = <<>>
  BY <1>3, LeadTyped
<1>6. Kept(<<>>, Options(r), 0)
  <2> DEFINE at == [k \in 1..0 |-> k]
  <2>1. at \in [1..Len(<<>>) -> 1..0]
    OBVIOUS
  <2>2. \A k \in 1..Len(<<>>) : FALSE
    OBVIOUS
  <2> HIDE DEF at
  <2> QED  BY <2>1, <2>2 DEF Kept
<1>7. Len(h.opts) = 0
  BY <1>5
<1>8. h = [h EXCEPT !.opts = h.opts]
  BY <1>5 DEF Msg
<1>9. b.ok = TRUE /\ b.pdu.max = MINIMUM_DATAGRAM_SIZE /\ \E at : Represents(b.pdu, h, at, FALSE)
  BY <1>4 DEF Fine
<1>10. /\ b.ok => Len(h.opts) = 0 /\ \A j \in 1..0 : h.opts[j] = Options(r)[j]
       /\ Len(h.opts) <= 0
  BY <1>7
<1>11. Kept(h.opts, Options(r), 0)
  BY <1>5, <1>6
<1>12. Built(b, h, Options(r), 0, h)
  <2>1. b.ok \in BOOLEAN /\ (~b.ok => Len(h.opts) < 0)
    BY <1>9
  <2> QED  BY ONLY <1>8, <1>9, <1>10, <1>11, <2>1 DEF Built
<1> QED  BY <1>4, <1>5, <1>12

\* One request built twice, in two buffers and under two headers: the same
\* parts of it find room.
LEMMA RequestBuilds ==
  ASSUME NEW r \in Requests,
         NEW p \in Pdu(MINIMUM_DATAGRAM_SIZE), NEW mid \in U16, NEW token, Short(token),
         NEW q \in Pdu(MINIMUM_DATAGRAM_SIZE), NEW nid \in U16, NEW other, Short(other)
  PROVE  \E m, n, marked :
           /\ Sent(exo_build_msg(p, r, mid, token), Lead(r, mid, 2, token), r, m, marked)
           /\ Sent(exo_build_msg(q, r, nid, other), Lead(r, nid, 2, other), r, n, marked)
           /\ SaysTheSame(m, n)
<1> DEFINE opts == Options(r)
           h == Lead(r, mid, 2, token)
           g == Lead(r, nid, 2, other)
           b == WithToken(Header(p, CON, Code(r), mid), token, 2)
           c == WithToken(Header(q, CON, Code(r), nid), other, 2)
           x == WithOptions(b, opts)
           y == WithOptions(c, opts)
<1>1. h = Lead(r, mid, 2, token) /\ g = Lead(r, nid, 2, other)
  OBVIOUS
<1>2. /\ b = WithToken(Header(p, CON, Code(r), mid), token, 2)
      /\ c = WithToken(Header(q, CON, Code(r), nid), other, 2)
  OBVIOUS
<1>3. /\ exo_build_msg(p, r, mid, token) = WithPayload(x, r)
      /\ exo_build_msg(q, r, nid, other) = WithPayload(y, r)
  BY DEF exo_build_msg
<1> HIDE DEF h, g, b, c
<1>4. /\ h \in Msg /\ h.payload = <<>> /\ Built(b, h, opts, 0, h)
      /\ h.opts = <<>> /\ b.pdu.len = 6
  BY <1>1, <1>2, LeadBuilds
<1>5. /\ g \in Msg /\ g.payload = <<>> /\ Built(c, g, opts, 0, g)
      /\ g.opts = <<>> /\ c.pdu.len = 6
  BY <1>1, <1>2, LeadBuilds
<1>6. Twins(b, c, h, g) /\ InOrder(opts)
  BY <1>4, <1>5, RequestTyped DEF Twins
<1>7. PICK m, n : /\ Built(x, h, opts, Len(opts), m)
                  /\ Built(y, g, opts, Len(opts), n)
                  /\ Twins(x, y, m, n)
  BY ONLY <1>4, <1>5, <1>6, OptionsBuild
<1> HIDE DEF x, y
<1> DEFINE mm == Valued(m, x.pdu.len, r)
           nn == Valued(n, y.pdu.len, r)
           marked == Room(x.pdu.len, r)
<1>8. m.opts = n.opts /\ x.pdu.len = y.pdu.len
  BY <1>7 DEF Twins
<1>9. Sent(WithPayload(x, r), h, r, mm, marked)
  BY <1>4, <1>7, PayloadStep
<1>10. Sent(WithPayload(y, r), g, r, nn, marked)
  BY <1>5, <1>7, <1>8, PayloadStep
<1>11. SaysTheSame(mm, nn)
  <2>1. m \in Msg /\ n \in Msg
    BY <1>7 DEF Built, Represents
  <2>2. m.payload = <<>> /\ n.payload = <<>>
    <3>1. \A u : [h EXCEPT !.opts = u].payload = <<>> /\ [g EXCEPT !.opts = u].payload = <<>>
      BY <1>4, <1>5 DEF Msg
    <3> QED  BY <1>7, <3>1 DEF Built
  <2> QED  BY <1>8, <2>1, <2>2 DEF SaysTheSame, Valued, Msg
<1> HIDE DEF mm, nn, marked
<1> QED  BY <1>3, <1>9, <1>10, <1>11 DEF h, g

-----------------------------------------------------------------------------
(* The repetition of a request.                                             *)

\* Of a token of no bytes, none is used.
LEMMA TokenUnused ==
  ASSUME NEW p, NEW token, NEW other
  PROVE  coap_set_token(p, token, 0) = coap_set_token(p, other, 0)
<1>1. [k \in 1..0 |-> token[k - 1]] = [k \in 1..0 |-> other[k - 1]]
  OBVIOUS
<1> DEFINE tkl == 0
           rest == 4 + coap_get_tkl(p)
           moved == IF p.len > 4 THEN memmove(p.buf, 4 + tkl, rest, p.len - rest) ELSE p.buf
<1>2. TokenWritten(moved, token, tkl) = TokenWritten(moved, other, tkl)
  <2> HIDE DEF moved
  <2> QED  BY <1>1 DEF TokenWritten
<1> HIDE DEF tkl
<1>3. coap_set_token(p, token, tkl) = coap_set_token(p, other, tkl)
  BY <1>2, Zenon DEF coap_set_token
<1> QED  BY <1>3 DEF tkl

\* The id is overwritten and the token taken out; the rest stays.
LEMMA Readdresses ==
  ASSUME NEW r \in Requests, NEW i \in U16, NEW token, Short(token),
         NEW mid \in U16, NEW optoken, NEW b, NEW m, NEW marked,
         Sent(b, Lead(r, i, 2, token), r, m, marked)
  PROVE  \E n : /\ Sent(Readdressed(b, mid, optoken), Lead(r, mid, 0, Token(0, 0)),
                        r, n, marked)
                /\ SaysTheSame(n, m)
<1> DEFINE none == Token(0, 0)
           h == Lead(r, i, 2, token)
           g == Lead(r, mid, 0, none)
           p == b.pdu
           s == coap_set_mid(p, mid)
           q == coap_set_token(s, none, 0)
           c == Readdressed(b, mid, optoken)
           w == [m EXCEPT !.mid = mid]
           n == [w EXCEPT !.tkl = 0, !.token = none]
<1>1. none \in [0..7 -> Byte] /\ \A k \in 0..7 : k >= 0 => none[k] = 0
  BY NoToken
<1>2. /\ h \in Msg /\ h.type = CON /\ h.code = Code(r) /\ h.tkl = 2
  <2>1. token \in [0..7 -> Byte] /\ 2 \in 0..8
    BY DEF Short
  <2> QED  BY <2>1, LeadTyped
<1>3. /\ g \in Msg /\ g.type = CON /\ g.code = Code(r) /\ g.mid = mid /\ g.tkl = 0
      /\ g.token = none
  <2>1. 0 \in 0..8
    OBVIOUS
  <2> QED  BY <1>1, <2>1, LeadTyped
<1> HIDE DEF none, h, g
<1>4. /\ p.max = MINIMUM_DATAGRAM_SIZE /\ b.ok \in BOOLEAN
      /\ m = [h EXCEPT !.opts = m.opts, !.payload = m.payload]
      /\ Kept(m.opts, Options(r), Len(Options(r)))
      /\ m.payload \in {<<>>, Payload(r)}
      /\ b.ok => m.opts = Options(r) /\ m.payload = Payload(r)
      /\ m.opts = Options(r) /\ m.payload = Payload(r) => b.ok \/ IsEmptyWrite(r)
      /\ marked /\ m.payload = <<>> => IsEmptyWrite(r)
  BY DEF Sent, h
<1>5. PICK at : Represents(p, m, at, marked)
  BY DEF Sent
<1>6. m \in Msg /\ m.type = CON /\ m.code = Code(r) /\ m.tkl = 2
  <2>1. m \in Msg
    BY <1>5 DEF Represents
  <2>2. \A x, y : /\ [h EXCEPT !.opts = x, !.payload = y].type = h.type
                  /\ [h EXCEPT !.opts = x, !.payload = y].code = h.code
                  /\ [h EXCEPT !.opts = x, !.payload = y].tkl = h.tkl
    BY <1>2 DEF Msg
  <2>3. m = [h EXCEPT !.opts = m.opts, !.payload = m.payload]
    BY <1>4
  <2>4. m.type = h.type /\ m.code = h.code /\ m.tkl = h.tkl
    <3>1. PICK x, y : m = [h EXCEPT !.opts = x, !.payload = y]
      BY <2>3
    <3>2. [h EXCEPT !.opts = x, !.payload = y].type = h.type
          /\ [h EXCEPT !.opts = x, !.payload = y].code = h.code
          /\ [h EXCEPT !.opts = x, !.payload = y].tkl = h.tkl
      BY <2>2
    <3> QED  BY ONLY <3>1, <3>2
  <2> QED  BY ONLY <1>2, <2>1, <2>4
<1>7. /\ w \in Msg /\ w.type = CON /\ w.code = Code(r) /\ w.mid = mid /\ w.tkl = 2
      /\ w.opts = m.opts /\ w.payload = m.payload
  BY <1>6 DEF Msg
<1>8. s.max = p.max /\ \E to : Represents(s, w, to, marked)
  BY ONLY <1>5, SetsMid, mid \in U16
<1> HIDE DEF p, s, w
<1>9. PICK to : Represents(s, w, to, marked)
  BY <1>8
<1>10. /\ Leaves(q, s.max, w, n, marked, marked)
       /\ Grows(q, s, 0 - w.tkl)
  <2> DEFINE tkl == 0
  <2>1. tkl \in 0..15 /\ tkl <= 8
    OBVIOUS
  <2>2. none \in [0..7 -> Byte] /\ \A k \in 0..7 : k >= tkl => none[k] = 0
    BY <1>1
  <2> HIDE DEF tkl
  <2>3. /\ Leaves(coap_set_token(s, none, tkl), s.max, w,
                  [w EXCEPT !.tkl = tkl, !.token = none], marked, marked)
        /\ Grows(coap_set_token(s, none, tkl), s, tkl - w.tkl)
    BY ONLY <1>9, <2>1, <2>2, SetsToken
  <2> QED  BY <2>3 DEF tkl
<1>11. /\ n.type = CON /\ n.code = Code(r) /\ n.mid = mid /\ n.tkl = 0 /\ n.token = none
       /\ n.opts = m.opts /\ n.payload = m.payload
  BY <1>7 DEF Msg
<1>12. c.pdu = q /\ c.ok = b.ok
  BY TokenUnused DEF Readdressed, s, p
<1> HIDE DEF q, c, n
<1>13. q.err = "NONE"
  <2>1. s.len \in Nat /\ s.max \in Nat /\ s.len <= s.max
    BY <1>9 DEF Represents, Pdu
  <2>2. s.len + (0 - w.tkl) <= s.max
    BY <1>7, <2>1
  <2> QED  BY <1>10, <2>2 DEF Grows
<1>14. q.max = MINIMUM_DATAGRAM_SIZE /\ \E on : Represents(q, n, on, marked)
  BY <1>4, <1>8, <1>10, <1>13 DEF Leaves
<1>15. n = [g EXCEPT !.opts = n.opts, !.payload = n.payload]
  <2> DEFINE x == [g EXCEPT !.opts = n.opts, !.payload = n.payload]
  <2>1. n \in Msg
    BY <1>14 DEF Represents
  <2>2. /\ x \in Msg /\ x.type = g.type /\ x.code = g.code /\ x.mid = g.mid
        /\ x.tkl = g.tkl /\ x.token = g.token /\ x.opts = n.opts /\ x.payload = n.payload
    <3>1. n.opts \in Seq(Opt) /\ n.payload \in Seq(Byte)
      BY <2>1 DEF Msg
    <3> QED  BY <1>3, <3>1 DEF Msg
  <2> HIDE DEF x
  <2>3. \A y \in Msg : y = [type |-> y.type, code |-> y.code, mid |-> y.mid, tkl |-> y.tkl,
                            token |-> y.token, opts |-> y.opts, payload |-> y.payload]
    BY DEF Msg
  <2>4. n = x
    BY <1>3, <1>11, <2>1, <2>2, <2>3
  <2> QED  BY <2>4 DEF x
<1>16. SaysTheSame(n, m)
  BY <1>11 DEF SaysTheSame
<1>17. Sent(c, g, r, n, marked)
  <2>1. /\ c.pdu.max = MINIMUM_DATAGRAM_SIZE /\ c.ok \in BOOLEAN
        /\ \E on : Represents(c.pdu, n, on, marked)
    BY <1>4, <1>12, <1>14
  <2>2. /\ Kept(n.opts, Options(r), Len(Options(r)))
        /\ n.payload \in {<<>>, Payload(r)}
        /\ c.ok => n.opts = Options(r) /\ n.payload = Payload(r)
        /\ n.opts = Options(r) /\ n.payload = Payload(r) => c.ok \/ IsEmptyWrite(r)
        /\ marked /\ n.payload = <<>> => IsEmptyWrite(r)
    BY <1>4, <1>11, <1>12
  <2> QED  BY ONLY <1>15, <2>1, <2>2 DEF Sent
<1> QED  BY <1>16, <1>17 DEF c, g, none

-----------------------------------------------------------------------------
(* What is in the buffer when a message is sent.                            *)

\* The message of a request, parts of it possibly missing, and the same
\* parts as in any other message built for the request.
Delivers(p, o, r, w) ==
  \E b, mid, tkl, token, m, n, marked, remarked :
    /\ p = b.pdu /\ o = b.ok
    /\ mid \in U16 /\ tkl \in 0..8 /\ token \in [0..7 -> Byte]
    /\ w = Asked(r, mid, tkl, token)
    /\ Sent(b, Lead(r, mid, tkl, token), r, m, marked)
    /\ Sent(exo_build_msg(Fresh(MINIMUM_DATAGRAM_SIZE, 0), r, 0, Token(0, 0)),
            Lead(r, 0, 2, Token(0, 0)), r, n, remarked)
    /\ SaysTheSame(m, n)

\* An acknowledgement or a reset, nothing of which is missing.
Bare(p, o, w) ==
  /\ o = TRUE /\ p.max = MINIMUM_DATAGRAM_SIZE
  /\ w.opts = <<>> /\ \E at : Represents(p, w, at, FALSE)

\* Nothing but a marker behind the options.
LonelyMarker(p) ==
  LastDecoded(p).err = "FOUND_PAYLOAD_MARKER" /\ LastDecoded(p).ptr = p.len - 1

\* It is there only if the message was marked and has no payload.
LEMMA LonelyMarkerEnds ==
  ASSUME NEW p, NEW m, NEW at, NEW marked, Represents(p, m, at, marked), LonelyMarker(p)
  PROVE  marked /\ m.payload = <<>>
<1> DEFINE end == at[Len(m.opts) + 1]
<1>1. LastDecoded(p) = [err |-> IF marked THEN "FOUND_PAYLOAD_MARKER" ELSE "END_OF_PACKET",
                        ptr |-> end]
  BY LastDecodedEnd
<1>2. marked /\ end = p.len - 1
  BY <1>1 DEF LonelyMarker
<1>3. m.payload \in Seq(Byte) /\ p.len \in Nat /\ end \in Nat
  BY Parts
<1>4. p.len = end + 1 + Len(m.payload)
  BY <1>2 DEF Represents, Ends
<1> HIDE DEF end
<1>5. Len(m.payload) = 0
  BY <1>2, <1>3, <1>4
<1> QED  BY <1>2, <1>3, <1>5

\* What a receiver makes of the message of a request.
Conveys(p, o, r, w) ==
  /\ o => ReadBack(p) = w
  /\ ReadBack(p) = w => o \/ IsEmptyWrite(r)
  /\ coap_validate_pkt(p) = "NONE"
  /\ [w EXCEPT !.opts = ReadBack(p).opts, !.payload = ReadBack(p).payload] = ReadBack(p)
  /\ PartOf(ReadBack(p).opts, w.opts)
  /\ ReadBack(p).payload \in {<<>>, w.payload}
  /\ SaysTheSame(ReadBack(p),
                 ReadBack(exo_build_msg(Fresh(MINIMUM_DATAGRAM_SIZE, 0), r,
                                        0, Token(0, 0)).pdu))
  /\ LonelyMarker(p) => IsEmptyWrite(r)

\* The message of a request conveys it, as far as there was room.
LEMMA DeliversWanted ==
  ASSUME NEW r \in Requests, NEW p, NEW o, NEW w, Delivers(p, o, r, w)
  PROVE  Conveys(p, o, r, w)
<1> DEFINE e == exo_build_msg(Fresh(MINIMUM_DATAGRAM_SIZE, 0), r, 0, Token(0, 0))
           g == Lead(r, 0, 2, Token(0, 0))
<1> HIDE DEF e, g
<1>1. PICK b, mid, tkl, token, m, n, marked, remarked :
        /\ p = b.pdu /\ o = b.ok
        /\ mid \in U16 /\ tkl \in 0..8 /\ token \in [0..7 -> Byte]
        /\ w = Asked(r, mid, tkl, token)
        /\ Sent(b, Lead(r, mid, tkl, token), r, m, marked)
        /\ Sent(e, g, r, n, remarked)
        /\ SaysTheSame(m, n)
  BY DEF Delivers, e, g
<1> DEFINE h == Lead(r, mid, tkl, token)
<1>2. h \in Msg
  BY <1>1, LeadTyped
<1>3. w = [h EXCEPT !.opts = Options(r), !.payload = Payload(r)]
  BY <1>1 DEF Asked, Lead
<1>4. /\ m = [h EXCEPT !.opts = m.opts, !.payload = m.payload]
      /\ Kept(m.opts, Options(r), Len(Options(r)))
      /\ m.payload \in {<<>>, Payload(r)}
      /\ o => m.opts = Options(r) /\ m.payload = Payload(r)
      /\ m.opts = Options(r) /\ m.payload = Payload(r) => o \/ IsEmptyWrite(r)
      /\ marked /\ m.payload = <<>> => IsEmptyWrite(r)
  BY <1>1 DEF Sent
<1>5. PICK at : Represents(p, m, at, marked)
  BY <1>1 DEF Sent
<1>6. ReadBack(p) = m /\ coap_validate_pkt(p) = "NONE"
  BY <1>5, ReadsBack, Validates
<1>7. ReadBack(e.pdu) = n
  <2>1. PICK to : Represents(e.pdu, n, to, remarked)
    BY <1>1 DEF Sent
  <2> QED  BY <2>1, ReadsBack
<1> HIDE DEF h
<1>8. w.opts = Options(r) /\ w.payload = Payload(r)
  BY <1>2, <1>3 DEF Msg
<1>9. [w EXCEPT !.opts = m.opts, !.payload = m.payload] = m
  <2>1. \A s, t, x, y : [[h EXCEPT !.opts = s, !.payload = t] EXCEPT !.opts = x, !.payload = y]
                          = [h EXCEPT !.opts = x, !.payload = y]
    BY <1>2 DEF Msg
  <2>2. m = [h EXCEPT !.opts = m.opts, !.payload = m.payload]
    BY <1>4
  <2> QED  BY ONLY <1>3, <2>1, <2>2
<1>10. m.opts = Options(r) /\ m.payload = Payload(r) => m = w
  <2>1. m = [h EXCEPT !.opts = m.opts, !.payload = m.payload]
    BY <1>4
  <2> QED  BY ONLY <1>3, <2>1
<1>11. PartOf(m.opts, w.opts)
  BY <1>4, <1>8 DEF PartOf, Kept
<1>12. LonelyMarker(p) => IsEmptyWrite(r)
  BY <1>4, <1>5, LonelyMarkerEnds
<1>13. SaysTheSame(m, n)
  BY <1>1
<1>14. (o => m = w) /\ (m = w => o \/ IsEmptyWrite(r))
  BY <1>4, <1>8, <1>10
<1>15. m.payload \in {<<>>, w.payload}
  BY <1>4, <1>8
<1> QED  BY ONLY <1>6, <1>7, <1>9, <1>11, <1>12, <1>13, <1>14, <1>15 DEF e, Conveys

\* And of an acknowledgement or a reset.
Exact(p, o, w) ==
  /\ o = TRUE /\ ReadBack(p) = w /\ coap_validate_pkt(p) = "NONE"
  /\ [w EXCEPT !.opts = w.opts, !.payload = w.payload] = w
  /\ PartOf(w.opts, w.opts) /\ w.payload \in {<<>>, w.payload}
  /\ p.len = 4 + w.tkl /\ ~LonelyMarker(p)

\* An acknowledgement or a reset is conveyed exactly.
LEMMA BareWanted ==
  ASSUME NEW p, NEW o, NEW w, Bare(p, o, w)
  PROVE  Exact(p, o, w)
<1>1. PICK at : Represents(p, w, at, FALSE)
  BY DEF Bare
<1>2. ReadBack(p) = w /\ coap_validate_pkt(p) = "NONE"
  BY <1>1, ReadsBack, Validates
<1>3. o = TRUE /\ w.opts = <<>> /\ p.len = 4 + w.tkl
  BY <1>1, BareLength DEF Bare
<1>4. ~LonelyMarker(p)
  BY <1>1, LonelyMarkerEnds
<1>5. [w EXCEPT !.opts = w.opts, !.payload = w.payload] = w
  <2>1. w \in Msg
    BY <1>1 DEF Represents
  <2> QED  BY <2>1 DEF Msg
<1>6. PartOf(w.opts, w.opts)
  <2> DEFINE same == [k \in 1..Len(w.opts) |-> k]
  <2>1. same \in [1..Len(w.opts) -> 1..Len(w.opts)]
    OBVIOUS
  <2>2. \A k \in 1..Len(w.opts) : same[k] = k
    OBVIOUS
  <2> HIDE DEF same
  <2> QED  BY <2>1, <2>2 DEF PartOf
<1>7. w.payload \in {<<>>, w.payload}
  OBVIOUS
<1> QED  BY ONLY <1>2, <1>3, <1>4, <1>5, <1>6, <1>7 DEF Exact

-----------------------------------------------------------------------------
(* The buffers the messages are built in.                                   *)

\* A buffer nobody has written is one the setters work on.
LEMMA FreshTyped ==
  ASSUME NEW fill \in Byte
  PROVE  /\ Fresh(MINIMUM_DATAGRAM_SIZE, fill) \in Pdu(MINIMUM_DATAGRAM_SIZE)
         /\ Fresh(MINIMUM_DATAGRAM_SIZE, fill).max = MINIMUM_DATAGRAM_SIZE
<1>1. "NONE" \in Errors /\ MINIMUM_DATAGRAM_SIZE \in Nat /\ 0 \in 0..MINIMUM_DATAGRAM_SIZE
  BY SizeAssumption DEF Errors
<1> QED  BY <1>1 DEF Fresh, Pdu

\* A pdu that holds a message whose header has arrived.
Arrived(m) ==
  /\ m \in Pdu(MINIMUM_DATAGRAM_SIZE) /\ 4 <= m.len /\ m.buf[0] % 16 \in 0..8

\* A datagram that coap_validate_pkt let pass is such a pdu.
LEMMA ReceivedArrived ==
  ASSUME NEW m \in Received
  PROVE  Arrived(m)
<1> DEFINE max == MINIMUM_DATAGRAM_SIZE
<1>1. PICK fill \in Fills, tkl \in 0..8, mid \in OpMids, len \in {4, 8, 12, 20} :
        m = Datagram(fill, tkl, mid, len)
  BY DEF Received
<1>2. coap_validate_pkt(m) = "NONE"
  BY DEF Received
<1> DEFINE f == Fresh(max, fill)
           val == <<64 + 16 * CON + tkl, 0, mid \div 256, mid % 256>>
           buf == memcpy(f.buf, 0, val, 4)
<1>3. f \in Pdu(max) /\ f.max = max /\ max \in Nat /\ 4 <= max
  BY FreshTyped, MemoryAssumption, SizeAssumption
<1>4. val \in [1..4 -> Byte] /\ val[1] = 64 + tkl
  <2>1. mid \in Nat /\ mid < 65536
    BY MidsAssumption DEF U16
  <2>2. mid \div 256 \in Byte /\ mid % 256 \in Byte
    BY <2>1 DEF Byte
  <2>3. 64 + 16 * CON + tkl = 64 + tkl
    BY DEF CON
  <2>4. 64 + tkl \in Byte /\ 0 \in Byte
    BY DEF Byte
  <2> QED  BY <2>2, <2>3, <2>4
<1> HIDE DEF f, val, max
<1>5. m = [buf |-> buf, len |-> len, max |-> max, err |-> f.err] /\ f.err \in Errors
  <2>1. m = [f EXCEPT !.buf = buf, !.len = len]
    BY <1>1, <1>3 DEF Datagram, f, val, max, Pdu
  <2> HIDE DEF buf
  <2> QED  BY <1>3, <2>1 DEF Pdu
<1>6. Copied(buf, f.buf, max, 0, val, 4)
  <2>1. CopyFits(f.buf, max, 0, val, 4)
    BY <1>3, <1>4 DEF CopyFits, Buffer, Pdu
  <2> QED  BY <2>1, MemcpyBytes
<1> HIDE DEF buf
<1>7. buf \in [0..(max - 1) -> Byte] /\ buf[0] = 64 + tkl
  <2>1. buf \in [0..(max - 1) -> Byte]
    BY <1>6 DEF Copied, Buffer
  <2>2. 0 \in 0..(max - 1) /\ 0 <= 0 /\ 0 < 0 + 4 /\ 0 - 0 + 1 = 1
    BY <1>3
  <2>3. buf[0] = val[1]
    BY <1>6, <2>2 DEF Copied
  <2> QED  BY <1>4, <2>1, <2>3
<1>8. ~(m.len > m.max)
  BY <1>2 DEF coap_validate_pkt
<1>9. len \in 0..max /\ 4 <= len
  BY <1>3, <1>5, <1>8
<1>10. m \in Pdu(max)
  BY <1>5, <1>7, <1>9 DEF Pdu
<1>11. m.len = len /\ m.buf[0] % 16 = tkl
  BY <1>5, <1>7
<1> QED  BY <1>9, <1>10, <1>11 DEF Arrived, max

\* What is read out of it.
LEMMA ArrivedFields ==
  ASSUME NEW m, Arrived(m)
  PROVE  /\ coap_get_mid(m) \in U16 /\ coap_get_tkl(m) \in 0..8
         /\ coap_get_token(m) \in [0..7 -> Byte]
         /\ \A k \in 0..7 : k >= coap_get_tkl(m) => coap_get_token(m)[k] = 0
<1> DEFINE max == MINIMUM_DATAGRAM_SIZE
           tkl == coap_get_tkl(m)
<1>1. /\ m.buf \in [0..(max - 1) -> Byte] /\ m.len \in 0..max /\ max \in Nat /\ 4 <= max
      /\ 4 <= m.len
  BY SizeAssumption DEF Arrived, Pdu
<1>2. tkl \in 0..8
  BY DEF Arrived, coap_get_tkl
<1>3. coap_get_mid(m) \in U16
  <2>1. m.buf[2] \in Byte /\ m.buf[3] \in Byte
    BY <1>1
  <2>2. \A x, y \in Byte : 256 * x + y \in U16
    BY DEF U16, Byte
  <2> QED  BY ONLY <2>1, <2>2 DEF coap_get_mid
<1> HIDE DEF max, tkl
<1>4. ASSUME NEW k \in 0..7
      PROVE  /\ (IF m.len >= 4 + tkl /\ k < tkl THEN m.buf[4 + k] ELSE 0) \in Byte
             /\ k >= tkl => (IF m.len >= 4 + tkl /\ k < tkl THEN m.buf[4 + k] ELSE 0) = 0
  <2>1. CASE m.len >= 4 + tkl /\ k < tkl
    <3>1. 4 + k \in 0..(max - 1) /\ ~(k >= tkl)
      BY <1>1, <1>2, <2>1
    <3>2. m.buf[4 + k] \in Byte
      BY <1>1, <3>1
    <3> QED  BY <2>1, <3>1, <3>2
  <2>2. CASE ~(m.len >= 4 + tkl /\ k < tkl)
    BY <2>2 DEF Byte
  <2> QED  BY <2>1, <2>2
<1>5. coap_get_token(m)
        = [k \in 0..7 |-> IF m.len >= 4 + tkl /\ k < tkl THEN m.buf[4 + k] ELSE 0]
  BY DEF coap_get_token, tkl
<1>6. /\ coap_get_token(m) \in [0..7 -> Byte]
      /\ \A k \in 0..7 : k >= tkl => coap_get_token(m)[k] = 0
  BY <1>4, <1>5
<1> QED  BY <1>2, <1>3, <1>6 DEF tkl

\* The reset is built over the datagram it answers.
LEMMA ResetBuilds ==
  ASSUME NEW m, Arrived(m), NEW b, b = ReplyReset(m)
  PROVE  Bare(b.pdu, b.ok, Message(RST, 0, coap_get_mid(m), coap_get_tkl(m), coap_get_token(m)))
<1> DEFINE mid == coap_get_mid(m)
           tkl == coap_get_tkl(m)
           token == coap_get_token(m)
           w == Message(RST, 0, mid, tkl, token)
<1>1. /\ mid \in U16 /\ tkl \in 0..8 /\ token \in [0..7 -> Byte]
      /\ \A k \in 0..7 : k >= tkl => token[k] = 0
  BY ArrivedFields
<1>2. RST \in 0..3 /\ 0 \in Byte /\ m \in Pdu(MINIMUM_DATAGRAM_SIZE)
  BY DEF RST, Byte, Arrived
<1>3. b = WithToken(Header(m, RST, 0, mid), token, tkl)
  BY DEF ReplyReset, exo_build_msg_rst
<1> HIDE DEF mid, tkl, token
<1>4. Fine(Header(m, RST, 0, mid), Message(RST, 0, mid, 0, Token(0, 0)))
  BY <1>1, <1>2, HeaderBuilds
<1>5. Fine(b, w)
  <2>1. Fine(WithToken(Header(m, RST, 0, mid), token, tkl), Message(RST, 0, mid, tkl, token))
    BY ONLY <1>1, <1>2, <1>4, TokenBuilds
  <2> QED  BY <1>3, <2>1
<1>6. w.opts = <<>>
  BY DEF Message
<1> HIDE DEF w
<1>7. Bare(b.pdu, b.ok, w)
  BY <1>5, <1>6 DEF Fine, Bare
<1> QED  BY <1>7 DEF w, mid, tkl, token

\* An acknowledgement always fits.
LEMMA AckBuilds ==
  ASSUME NEW p \in Pdu(MINIMUM_DATAGRAM_SIZE), NEW mid \in U16,
         NEW b, b = exo_build_msg_ack(p, mid)
  PROVE  Bare(b.pdu, b.ok, Message(ACK, 0, mid, 0, Token(0, 0)))
<1> DEFINE w == Message(ACK, 0, mid, 0, Token(0, 0))
<1>1. ACK \in 0..3 /\ 0 \in Byte
  BY DEF ACK, Byte
<1>2. Fine(b, w)
  BY <1>1, HeaderBuilds DEF exo_build_msg_ack
<1>3. w.opts = <<>>
  BY DEF Message
<1> HIDE DEF w
<1>4. Bare(b.pdu, b.ok, w)
  BY <1>2, <1>3 DEF Fine, Bare
<1> QED  BY <1>4 DEF w

\* What a builder leaves is a buffer for the next one.
LEMMA LeftTyped ==
  ASSUME NEW p, NEW m, NEW at, NEW marked, Represents(p, m, at, marked),
         p.max = MINIMUM_DATAGRAM_SIZE
  PROVE  p \in Pdu(MINIMUM_DATAGRAM_SIZE)
BY DEF Represents

\* A request is built, and with it its repetition.
LEMMA RequestDelivers ==
  ASSUME NEW r \in Requests, NEW p \in Pdu(MINIMUM_DATAGRAM_SIZE), NEW mid \in U16,
         NEW byte \in Byte, NEW b, b = exo_build_msg(p, r, mid, Token(2, byte))
  PROVE  /\ Delivers(b.pdu, b.ok, r, Asked(r, mid, 2, Token(2, byte)))
         /\ b.pdu \in Pdu(MINIMUM_DATAGRAM_SIZE)
         /\ \A nid \in U16 : \A c, optoken :
              c = Readdressed(b, nid, optoken) =>
                /\ Delivers(c.pdu, c.ok, r, Asked(r, nid, 0, Token(0, 0)))
                /\ c.pdu \in Pdu(MINIMUM_DATAGRAM_SIZE)
<1> DEFINE fresh == Fresh(MINIMUM_DATAGRAM_SIZE, 0)
           none == Token(0, 0)
           token == Token(2, byte)
           e == exo_build_msg(fresh, r, 0, none)
           g == Lead(r, 0, 2, none)
<1>1. fresh \in Pdu(MINIMUM_DATAGRAM_SIZE) /\ 0 \in U16
  BY FreshTyped DEF Byte, U16
<1>2. Short(none) /\ none \in [0..7 -> Byte]
  BY NoToken DEF Short
<1>3. Short(token) /\ token \in [0..7 -> Byte]
  <2>1. 2 \in 0..15
    OBVIOUS
  <2> QED  BY <2>1, TokenTyped DEF Short
<1>4. b = exo_build_msg(p, r, mid, token) /\ 2 \in 0..8 /\ 0 \in 0..8
  OBVIOUS
<1> HIDE DEF fresh, none, token
<1>5. PICK m, n, marked : /\ Sent(b, Lead(r, mid, 2, token), r, m, marked)
                          /\ Sent(e, g, r, n, marked)
                          /\ SaysTheSame(m, n)
  BY <1>1, <1>2, <1>3, <1>4, RequestBuilds
<1> HIDE DEF e, g
<1>6. Delivers(b.pdu, b.ok, r, Asked(r, mid, 2, token))
  BY <1>3, <1>4, <1>5 DEF Delivers, e, g, fresh, none
<1>7. b.pdu \in Pdu(MINIMUM_DATAGRAM_SIZE)
  BY <1>5, LeftTyped DEF Sent
<1>8. ASSUME NEW nid \in U16, NEW c, NEW optoken, c = Readdressed(b, nid, optoken)
      PROVE  /\ Delivers(c.pdu, c.ok, r, Asked(r, nid, 0, none))
             /\ c.pdu \in Pdu(MINIMUM_DATAGRAM_SIZE)
  <2>1. PICK x : Sent(c, Lead(r, nid, 0, none), r, x, marked) /\ SaysTheSame(x, m)
    BY <1>3, <1>5, <1>8, Readdresses DEF none
  <2>2. SaysTheSame(x, n)
    BY <1>5, <2>1 DEF SaysTheSame
  <2>3. Delivers(c.pdu, c.ok, r, Asked(r, nid, 0, none))
    BY <1>2, <1>4, <1>5, <2>1, <2>2 DEF Delivers, e, g, fresh, none
  <2>4. c.pdu \in Pdu(MINIMUM_DATAGRAM_SIZE)
    BY <2>1, LeftTyped DEF Sent
  <2> QED  BY <2>3, <2>4
<1> QED  BY <1>6, <1>7, <1>8 DEF none, token

-----------------------------------------------------------------------------
(* The inductive invariant: between two calls the buffer is one a builder   *)
(* can work on, and after a call it holds what the caller means to send.    *)

MInv ==
  /\ pdu \in Pdu(MINIMUM_DATAGRAM_SIZE) /\ message_id_counter \in U16
  /\ Sending => \/ request \in Requests /\ cursor # -1 /\ Delivers(pdu, ok, request, want)
                \/ request = NoRequest /\ Bare(pdu, ok, want)

\* It holds when exo_operate begins.
LEMMA InitKeeps == Init => MInv
<1> SUFFICES ASSUME Init PROVE MInv
  OBVIOUS
<1>1. PICK fill \in Fills : pdu = Fresh(MINIMUM_DATAGRAM_SIZE, fill)
  BY DEF Init
<1>2. pdu \in Pdu(MINIMUM_DATAGRAM_SIZE)
  BY <1>1, FreshTyped, MemoryAssumption
<1>3. message_id_counter \in U16 /\ ~Sending
  BY MidsAssumption DEF Init, Sending
<1> QED  BY <1>2, <1>3 DEF MInv

\* A builder has left an acknowledgement or a reset.
LEMMA BareSent ==
  ASSUME NEW b, NEW w, Bare(b.pdu, b.ok, w), Sends(b, NoRequest, w),
         message_id_counter' \in U16
  PROVE  MInv'
<1>1. pdu' = b.pdu /\ ok' = b.ok /\ request' = NoRequest /\ want' = w
  BY DEF Sends
<1>2. b.pdu \in Pdu(MINIMUM_DATAGRAM_SIZE)
  BY LeftTyped DEF Bare
<1> QED  BY <1>1, <1>2 DEF MInv

\* A builder has left the message of a request.
LEMMA RequestSent ==
  ASSUME NEW r \in Requests, NEW b, NEW w, Delivers(b.pdu, b.ok, r, w),
         b.pdu \in Pdu(MINIMUM_DATAGRAM_SIZE), Sends(b, r, w), Visits,
         message_id_counter' \in U16
  PROVE  MInv'
<1>1. pdu' = b.pdu /\ ok' = b.ok /\ request' = r /\ want' = w
  BY DEF Sends
<1>2. cursor' # -1
  BY StringAssumption DEF Visits
<1> QED  BY <1>1, <1>2 DEF MInv

\* Every step of the two loops keeps it.
LEMMA NextKeeps == MInv /\ [Next]_vars => MInv'
<1> SUFFICES ASSUME MInv, [Next]_vars PROVE MInv'
  OBVIOUS
<1>1. pdu \in Pdu(MINIMUM_DATAGRAM_SIZE) /\ message_id_counter \in U16
  BY DEF MInv
<1>2. TakesMid => message_id_counter' \in U16
  <2>1. \A i \in U16 : AsU16(i + 1) \in U16
    BY DEF U16, AsU16
  <2> QED  BY <1>1, <2>1 DEF TakesMid
<1>3. CASE Unrecognised
  <2>1. PICK m \in Received :
          Sends(ReplyReset(m), NoRequest,
                Message(RST, 0, coap_get_mid(m), coap_get_tkl(m), coap_get_token(m)))
    BY <1>3 DEF Unrecognised
  <2> DEFINE b == ReplyReset(m)
             w == Message(RST, 0, coap_get_mid(m), coap_get_tkl(m), coap_get_token(m))
  <2>2. b = ReplyReset(m) /\ Sends(b, NoRequest, w)
    BY <2>1
  <2>3. Bare(b.pdu, b.ok, w)
    <3> HIDE DEF b
    <3> QED  BY <2>2, ReceivedArrived, ResetBuilds
  <2>4. message_id_counter' \in U16
    BY <1>1, <1>3 DEF Unrecognised
  <2> HIDE DEF b, w
  <2> QED  BY <2>2, <2>3, <2>4, BareSent
<1>4. CASE Walk
  <2>1. PICK fill \in Fills : pdu' = Fresh(MINIMUM_DATAGRAM_SIZE, fill)
    BY <1>4 DEF Walk
  <2>2. pdu' \in Pdu(MINIMUM_DATAGRAM_SIZE)
    BY <2>1, FreshTyped, MemoryAssumption
  <2>3. message_id_counter' \in U16 /\ ~Sending'
    BY <1>1, <1>4 DEF Walk, Sending
  <2> QED  BY <2>2, <2>3 DEF MInv
<1>5. CASE SendRequest
  <2>1. PICK r \in Requests, byte \in RandBytes :
          Sends(exo_build_msg(pdu, r, message_id_counter, Token(2, byte)), r,
                Asked(r, message_id_counter, 2, Token(2, byte)))
    BY <1>5 DEF SendRequest
  <2> DEFINE b == exo_build_msg(pdu, r, message_id_counter, Token(2, byte))
             w == Asked(r, message_id_counter, 2, Token(2, byte))
  <2>2. b = exo_build_msg(pdu, r, message_id_counter, Token(2, byte)) /\ Sends(b, r, w)
    BY <2>1
  <2>3. byte \in Byte
    BY MemoryAssumption
  <2>4. Delivers(b.pdu, b.ok, r, w) /\ b.pdu \in Pdu(MINIMUM_DATAGRAM_SIZE)
    <3> HIDE DEF b
    <3> QED  BY <1>1, <2>2, <2>3, RequestDelivers
  <2>5. Visits /\ message_id_counter' \in U16
    BY <1>2, <1>5 DEF SendRequest
  <2> HIDE DEF b, w
  <2> QED  BY <2>2, <2>4, <2>5, RequestSent
<1>6. CASE Retransmit
  <2>1. PICK r \in Requests, byte \in RandBytes, mid \in OpMids :
          Sends(Repeat(pdu, r, mid, Token(2, byte), Token(2, byte)), r,
                Asked(r, mid, 0, Token(0, 0)))
    BY <1>6 DEF Retransmit
  <2> DEFINE b == exo_build_msg(pdu, r, message_id_counter, Token(2, byte))
             c == Readdressed(b, mid, Token(2, byte))
             w == Asked(r, mid, 0, Token(0, 0))
  <2>2. b = exo_build_msg(pdu, r, message_id_counter, Token(2, byte))
        /\ c = Readdressed(b, mid, Token(2, byte)) /\ Sends(c, r, w)
    BY <2>1 DEF Repeat
  <2>3. byte \in Byte /\ mid \in U16
    BY MemoryAssumption, MidsAssumption
  <2> HIDE DEF b, c
  <2>4. \A nid \in U16 : \A x, optoken :
          x = Readdressed(b, nid, optoken) =>
            /\ Delivers(x.pdu, x.ok, r, Asked(r, nid, 0, Token(0, 0)))
            /\ x.pdu \in Pdu(MINIMUM_DATAGRAM_SIZE)
    BY <1>1, <2>2, <2>3, RequestDelivers
  <2>5. Delivers(c.pdu, c.ok, r, w) /\ c.pdu \in Pdu(MINIMUM_DATAGRAM_SIZE)
    BY <2>2, <2>3, <2>4
  <2>6. Visits /\ message_id_counter' \in U16
    BY <1>2, <1>6 DEF Retransmit
  <2> HIDE DEF w
  <2> QED  BY <2>2, <2>5, <2>6, RequestSent
<1>7. CASE SendAck
  <2>1. PICK mid \in OpMids :
          Sends(exo_build_msg_ack(pdu, mid), NoRequest,
                Message(ACK, 0, mid, 0, Token(0, 0)))
    BY <1>7 DEF SendAck
  <2> DEFINE b == exo_build_msg_ack(pdu, mid)
             w == Message(ACK, 0, mid, 0, Token(0, 0))
  <2>2. b = exo_build_msg_ack(pdu, mid) /\ Sends(b, NoRequest, w) /\ mid \in U16
    BY <2>1, MidsAssumption
  <2>3. Bare(b.pdu, b.ok, w)
    <3> HIDE DEF b
    <3> QED  BY <1>1, <2>2, AckBuilds
  <2>4. message_id_counter' \in U16
    BY <1>1, <1>7 DEF SendAck
  <2> HIDE DEF b, w
  <2> QED  BY <2>2, <2>3, <2>4, BareSent
<1>8. CASE UNCHANGED vars
  <2>1. /\ pdu' = pdu /\ message_id_counter' = message_id_counter /\ cursor' = cursor
        /\ request' = request /\ ok' = ok /\ want' = want
    BY <1>8 DEF vars
  <2> QED  BY <2>1 DEF MInv, Sending
<1> QED  BY <1>3, <1>4, <1>5, <1>6, <1>7, <1>8 DEF Next

\* Whatever operations one call of exo_operate meets and whatever was in its
\* buffers, each builder leaves the message it was asked for, as far as there
\* is room, and no call writes outside the buffer.  (Aliases and names have
\* less than 65536 bytes, the most a uint16_t opt_len can say.)
THEOREM BuildersDeliver == Spec => []MInv
<1> QED  BY InitKeeps, NextKeeps, PTL DEF Spec

\* What the two kinds of messages have in common.
LEMMA SentWanted ==
  ASSUME MInv, Sending
  PROVE  /\ ok => ReadBack(pdu) = want
         /\ ReadBack(pdu) = want => ok \/ EmptyWrite
         /\ coap_validate_pkt(pdu) = "NONE" /\ OnlyWanted(ReadBack(pdu))
         /\ LonelyMarker(pdu) => EmptyWrite
<1>1. CASE request \in Requests /\ Delivers(pdu, ok, request, want)
  <2>1. Conveys(pdu, ok, request, want)
    BY <1>1, DeliversWanted
  <2>2. IsEmptyWrite(request) = EmptyWrite
    BY DEF IsEmptyWrite, EmptyWrite
  <2> QED  BY <2>1, <2>2 DEF Conveys, OnlyWanted
<1>2. CASE Bare(pdu, ok, want)
  <2>1. Exact(pdu, ok, want)
    BY <1>2, BareWanted
  <2> QED  BY <2>1 DEF Exact, OnlyWanted
<1> QED  BY <1>1, <1>2 DEF MInv

\* The error a builder returns is exact: there is none if and only if a
\* receiver reads the whole request out of the message, but for the marker of
\* an empty value.
THEOREM ErrorIsExact == Spec => []BuilderTellsLoss
<1>1. MInv => BuilderTellsLoss
  BY SentWanted DEF BuilderTellsLoss
<1> QED  BY <1>1, BuildersDeliver, PTL

\* A message is valid and holds nothing but parts of what is to be sent,
\* whatever the buffer held before.
THEOREM SendsOnlyItsOwn == Spec => []NothingForeign
<1>1. MInv => NothingForeign
  BY SentWanted DEF NothingForeign
<1> QED  BY <1>1, BuildersDeliver, PTL

\* Only writing the empty string leaves a marker with no payload behind it.
THEOREM MarksOnlyPayload == Spec => []MarkerHasPayload
<1>1. MInv => MarkerHasPayload
  BY SentWanted DEF MarkerHasPayload, LonelyMarker
<1> QED  BY <1>1, BuildersDeliver, PTL

\* A message says what any other built for the same request says: the
\* retransmission what the first transmission said, though its token is cut.
THEOREM RepeatsFaithfully == Spec => []RepeatSaysTheSame
<1>1. MInv => RepeatSaysTheSame
  <2> SUFFICES ASSUME MInv, Sending, request # NoRequest
               PROVE  SaysTheSame(ReadBack(pdu),
                        ReadBack(exo_build_msg(Fresh(MINIMUM_DATAGRAM_SIZE, 0), request,
                                               0, Token(0, 0)).pdu))
    BY DEF RepeatSaysTheSame
  <2>1. request \in Requests /\ Delivers(pdu, ok, request, want)
    BY DEF MInv
  <2>2. Conveys(pdu, ok, request, want)
    BY <2>1, DeliversWanted
  <2> QED  BY <2>2 DEF Conveys
<1> QED  BY <1>1, BuildersDeliver, PTL

\* The reset carries the message id and the token of the datagram it is built
\* over, and nothing else of it: that builder cannot fail.
THEOREM ResetIsExact == Spec => []ResetEchoes
<1>1. MInv => ResetEchoes
  <2> SUFFICES ASSUME MInv, Sending, cursor = -1
               PROVE  ok /\ ReadBack(pdu) = want /\ pdu.len = 4 + want.tkl
    BY DEF ResetEchoes
  <2>1. Bare(pdu, ok, want)
    BY DEF MInv
  <2>2. Exact(pdu, ok, want)
    BY <2>1, BareWanted
  <2> QED  BY <2>2 DEF Exact
<1> QED  BY <1>1, BuildersDeliver, PTL
=============================================================================
