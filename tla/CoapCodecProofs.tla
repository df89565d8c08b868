-------------------------- MODULE CoapCodecProofs --------------------------
(***************************************************************************)
(* How a buffer represents a message, and what picocoap's functions make of *)
(* a buffer that does: the getters read the message, the setters leave a    *)
(* buffer that represents the message they were asked for.                  *)
(***************************************************************************)
EXTENDS CoapCodec, CoapOptionProofs, FiniteSetTheorems, SequenceTheorems,
        WellFoundedInduction

-----------------------------------------------------------------------------
(* Loops.                                                                   *)

\* Every step of the loop goes up, and not beyond n.
Climbs(next, rank, n) ==
  /\ n \in Nat /\ rank \in [DOMAIN next -> 0..n]
  /\ \A s \in DOMAIN next :
       next[s] # s => next[s] \in DOMAIN next /\ rank[s] < rank[next[s]]

\* A set of numbers has a least element.
LEMMA LeastNumber ==
  ASSUME NEW S, S \subseteq Nat, S # {}
  PROVE  \E m \in S : \A k \in S : m <= k
<1> DEFINE R == OpToRel(<, Nat)
<1>1. IsWellFoundedOn(R, Nat)
  BY NatLessThanWellFounded
<1>2. \A x, y \in Nat : <<y, x>> \in R <=> y < x
  BY DEF OpToRel
<1> HIDE DEF R
<1>3. \E x \in S : \A y \in S : ~(<<y, x>> \in R)
  BY <1>1, WFMin
<1>4. PICK x \in S : \A y \in S : ~(<<y, x>> \in R)
  BY <1>3
<1>5. ASSUME NEW k \in S PROVE x <= k
  <2>1. ~(<<k, x>> \in R)
    BY <1>4
  <2>2. ~(k < x)
    BY <1>2, <2>1
  <2> QED  BY <2>2
<1> QED  BY <1>5

\* A loop that climbs is defined on all its states.
LEMMA LoopDefined ==
  ASSUME NEW next, NEW rank, NEW n, Climbs(next, rank, n)
  PROVE  \E f : f = [s \in DOMAIN next |->
                       IF next[s] = s THEN s ELSE f[next[s]]]
<1> DEFINE D == DOMAIN next
           Above(m) == {s \in D : rank[s] + m >= n}
           Good(m) == \E f : f = [s \in Above(m) |->
                                    IF next[s] = s THEN s ELSE f[next[s]]]
           Bad == {m \in 0..n : ~Good(m)}
<1>0. /\ n \in Nat /\ rank \in [D -> 0..n]
      /\ \A s \in D : next[s] # s => next[s] \in D /\ rank[s] < rank[next[s]]
  BY DEF Climbs
<1>1. Good(0)
  <2> DEFINE f == [s \in Above(0) |-> s]
  <2>1. \A s \in Above(0) : next[s] = s
    BY <1>0
  <2>2. f = [s \in Above(0) |-> IF next[s] = s THEN s ELSE f[next[s]]]
    BY <2>1
  <2> QED  BY <2>2
<1>2. ASSUME NEW m \in 0..n, m > 0, Good(m - 1) PROVE Good(m)
  <2>1. PICK f : f = [s \in Above(m - 1) |-> IF next[s] = s THEN s ELSE f[next[s]]]
    BY <1>2
  <2> DEFINE g == [s \in Above(m) |-> IF next[s] = s THEN s ELSE f[next[s]]]
  <2>2. \A s \in Above(m - 1) : s \in Above(m) /\ g[s] = f[s]
    BY <1>0, <2>1
  <2>3. \A s \in Above(m) : next[s] # s => next[s] \in Above(m - 1)
    BY <1>0
  <2>4. \A s \in Above(m) : next[s] # s => f[next[s]] = g[next[s]]
    BY <2>2, <2>3
  <2> HIDE DEF Above
  <2>5. g = [s \in Above(m) |-> IF next[s] = s THEN s ELSE g[next[s]]]
    BY <2>4
  <2> QED  BY <2>5
<1>3. Bad = {}
  <2> SUFFICES ASSUME Bad # {} PROVE FALSE
    OBVIOUS
  <2> HIDE DEF Good
  <2>1. Bad \subseteq Nat
    BY <1>0
  <2>2. \E m \in Bad : \A k \in Bad : m <= k
    <3> HIDE DEF Bad
    <3> QED  BY <2>1, LeastNumber
  <2>3. PICK m \in Bad : \A k \in Bad : m <= k
    BY <2>2
  <2>4. m # 0
    BY <2>3, <1>1
  <2>5. m - 1 \in 0..n /\ m - 1 \notin Bad
    BY <1>0, <2>3, <2>4
  <2>6. Good(m - 1)
    BY <2>5
  <2> QED  BY <1>0, <1>2, <2>3, <2>4, <2>6
<1>4. Good(n)
  <2>1. n \in 0..n /\ n \notin Bad
    BY <1>0, <1>3
  <2> HIDE DEF Good
  <2> QED  BY <2>1
<1>5. Above(n) = D
  <2>1. \A s \in D : rank[s] \in Nat /\ rank[s] + n >= n
    BY <1>0
  <2> QED  BY <2>1
<1> QED  BY <1>4, <1>5

\* From a state and from the next one, a loop comes to rest in the same.
LEMMA LoopUnfolds ==
  ASSUME NEW next, NEW rank, NEW n, Climbs(next, rank, n), NEW s \in DOMAIN next
  PROVE  /\ Loop(next, s) = Loop(next, next[s])
         /\ next[s] = s => Loop(next, s) = s
<1> DEFINE run == CHOOSE f : f = [t \in DOMAIN next |->
                                    IF next[t] = t THEN t ELSE f[next[t]]]
<1>1. run = [t \in DOMAIN next |-> IF next[t] = t THEN t ELSE run[next[t]]]
  BY LoopDefined, Zenon
<1>2. \A t : Loop(next, t) = run[t]
  BY DEF Loop
<1> HIDE DEF run
<1>3. run[s] = IF next[s] = s THEN s ELSE run[next[s]]
  BY <1>1
<1> QED  BY <1>2, <1>3

\* The states st[1], ..., st[m] of a loop, which rests in the last one.
Trace(next, st, m) ==
  /\ m \in Nat /\ 1 <= m
  /\ \A k \in 1..m : st[k] \in DOMAIN next
  /\ \A k \in 1..m : k < m => next[st[k]] = st[k + 1]
  /\ next[st[m]] = st[m]

\* A loop that climbs comes to rest in the last state of its trace.
LEMMA LoopEnds ==
  ASSUME NEW next, NEW rank, NEW n, Climbs(next, rank, n),
         NEW st, NEW m, Trace(next, st, m)
  PROVE  Loop(next, st[1]) = st[m]
<1>0. /\ m \in Nat /\ 1 <= m
      /\ \A k \in 1..m : st[k] \in DOMAIN next
      /\ \A k \in 1..m : k < m => next[st[k]] = st[k + 1]
      /\ next[st[m]] = st[m]
  BY DEF Trace
<1> DEFINE Good(k) == Loop(next, st[1]) = Loop(next, st[k])
           Bad == {k \in 1..m : ~Good(k)}
<1>1. ASSUME NEW k \in 1..m, k < m PROVE Loop(next, st[k]) = Loop(next, st[k + 1])
  BY <1>0, <1>1, LoopUnfolds
<1>2. Bad = {}
  <2> SUFFICES ASSUME Bad # {} PROVE FALSE
    OBVIOUS
  <2>1. Bad \subseteq Nat
    BY <1>0
  <2>2. \E k \in Bad : \A j \in Bad : k <= j
    <3> HIDE DEF Bad
    <3> QED  BY <2>1, LeastNumber
  <2>3. PICK k \in Bad : \A j \in Bad : k <= j
    BY <2>2
  <2>4. k \in 1..m /\ k # 1
    BY <2>3
  <2>5. k - 1 \in 1..m /\ k - 1 < m /\ k - 1 + 1 = k /\ k - 1 \notin Bad
    BY <1>0, <2>3, <2>4
  <2>6. Good(k - 1)
    BY <2>5
  <2>7. Loop(next, st[k - 1]) = Loop(next, st[k])
    BY <1>1, <2>5
  <2> QED  BY <2>3, <2>6, <2>7
<1>3. Good(m)
  BY <1>0, <1>2
<1>4. Loop(next, st[m]) = st[m]
  BY <1>0, LoopUnfolds
<1> QED  BY <1>3, <1>4

-----------------------------------------------------------------------------
(* Representation.                                                          *)

Opt == [num : U16 \ {0}, val : {v \in Seq(Byte) : Len(v) \in U16}]

InOrder(opts) ==
  /\ opts \in Seq(Opt)
  /\ \A j, k \in 1..Len(opts) : j <= k => opts[j].num <= opts[k].num

\* What the header of the k-th option says, and the bytes the option takes.
NumBefore(opts, k) == IF k = 1 THEN 0 ELSE opts[k - 1].num
Delta(opts, k) == opts[k].num - NumBefore(opts, k)
ValLen(opts, k) == Len(opts[k].val)
HdrLen(opts, k) == coap_compute_option_header_len(Delta(opts, k), ValLen(opts, k))
Size(opts, k) == HdrLen(opts, k) + ValLen(opts, k)

\* The buffer holds the k-th option at ptr.
Holds(buf, ptr, opts, k) ==
  /\ HeaderAt(buf, ptr, Delta(opts, k), ValLen(opts, k))
  /\ \A j \in 1..ValLen(opts, k) :
       buf[ptr + HdrLen(opts, k) + j - 1] = opts[k].val[j]

\* The options lie one behind the other, the k-th at at[k]; the last element
\* of at is where they end.
Laid(buf, opts, at) ==
  /\ at \in [1..(Len(opts) + 1) -> Nat]
  /\ \A j, k \in 1..(Len(opts) + 1) : j < k => at[j] < at[k]
  /\ \A k \in 1..Len(opts) : /\ Holds(buf, at[k], opts, k)
                             /\ at[k + 1] = at[k] + Size(opts, k)

Errors == {"NONE", "INSUFFICIENT_BUFFER", "INVALID_PACKET"}

Pdu(max) == [buf : [0..(max - 1) -> Byte], len : 0..max, max : {max}, err : Errors]

Msg == [type : 0..3, code : Byte, mid : U16, tkl : 0..8, token : [0..7 -> Byte],
        opts : Seq(Opt), payload : Seq(Byte)]

HeaderOf(p, m) ==
  /\ p.buf[0] = 64 + 16 * m.type + m.tkl
  /\ p.buf[1] = m.code
  /\ p.buf[2] = m.mid \div 256 /\ p.buf[3] = m.mid % 256
  /\ \A k \in 0..7 : m.token[k] = IF k < m.tkl THEN p.buf[4 + k] ELSE 0

\* Behind the options there is nothing, or the marker and the payload.
Ends(p, end, payload, marked) ==
  /\ ~marked => payload = <<>> /\ p.len = end
  /\ marked => /\ p.buf[end] = PayloadMarker
               /\ p.len = end + 1 + Len(payload)
               /\ \A k \in 1..Len(payload) : p.buf[end + k] = payload[k]

Represents(p, m, at, marked) ==
  /\ p.max \in Nat /\ p \in Pdu(p.max) /\ m \in Msg /\ marked \in BOOLEAN
  /\ InOrder(m.opts)
  /\ HeaderOf(p, m)
  /\ at[1] = 4 + m.tkl
  /\ Laid(p.buf, m.opts, at)
  /\ Ends(p, at[Len(m.opts) + 1], m.payload, marked)

\* The numbers of an option's header.
LEMMA SizeTyped ==
  ASSUME NEW opts, InOrder(opts), NEW k \in 1..Len(opts)
  PROVE  /\ opts[k] \in Opt /\ opts[k].num \in U16 \ {0} /\ ValLen(opts, k) \in U16
         /\ ValLen(opts, k) \in Nat /\ opts[k].val \in Seq(Byte)
         /\ NumBefore(opts, k) \in U16 /\ Delta(opts, k) \in U16
         /\ NumBefore(opts, k) + Delta(opts, k) = opts[k].num
         /\ HdrLen(opts, k) \in 1..5 /\ Size(opts, k) \in Nat /\ Size(opts, k) > 0
<1>0. opts \in Seq(Opt) /\ Len(opts) \in Nat
  BY DEF InOrder
<1>1. \A j \in 1..Len(opts) : opts[j] \in Opt
  BY <1>0
<1>2. opts[k] \in Opt
  BY <1>1
<1>3. opts[k].num \in U16 \ {0} /\ ValLen(opts, k) \in U16 /\ opts[k].val \in Seq(Byte)
  BY <1>2 DEF Opt, ValLen
<1>n. ValLen(opts, k) \in Nat
  BY <1>3 DEF U16
<1>4. NumBefore(opts, k) \in U16 /\ NumBefore(opts, k) <= opts[k].num
  <2>1. CASE k = 1
    BY <1>3, <2>1 DEF NumBefore, U16
  <2>2. CASE k # 1
    <3>1. k - 1 \in 1..Len(opts)
      BY <1>0, <2>2
    <3>2. opts[k - 1].num <= opts[k].num
      BY <3>1 DEF InOrder
    <3>3. opts[k - 1].num \in U16
      BY <1>1, <3>1 DEF Opt
    <3> QED  BY <2>2, <3>2, <3>3 DEF NumBefore
  <2> QED  BY <2>1, <2>2
<1>5. Delta(opts, k) \in U16 /\ NumBefore(opts, k) + Delta(opts, k) = opts[k].num
  <2>1. \A x, y \in U16 : y <= x => x - y \in U16 /\ y + (x - y) = x
    BY DEF U16
  <2>2. opts[k].num \in U16
    BY <1>3
  <2>3. /\ opts[k].num - NumBefore(opts, k) \in U16
        /\ NumBefore(opts, k) + (opts[k].num - NumBefore(opts, k)) = opts[k].num
    BY <1>4, <2>1, <2>2
  <2> QED  BY <2>3 DEF Delta
<1>6. ExtraLen(Delta(opts, k)) \in 0..2 /\ ExtraLen(ValLen(opts, k)) \in 0..2
  BY <1>3, <1>5, BaseTyped
<1>7. HdrLen(opts, k) \in 1..5
  BY <1>6 DEF HdrLen, coap_compute_option_header_len
<1>8. Size(opts, k) \in Nat /\ Size(opts, k) > 0
  BY <1>7, <1>n DEF Size
<1> QED  BY <1>2, <1>3, <1>n, <1>4, <1>5, <1>7, <1>8

\* The parts of a buffer that represents a message.
LEMMA Parts ==
  ASSUME NEW p, NEW m, NEW at, NEW marked, Represents(p, m, at, marked)
  PROVE  /\ p.max \in Nat /\ p.len \in Nat /\ p.len <= p.max /\ 4 <= p.max
         /\ p.buf \in [0..(p.max - 1) -> Byte] /\ p.err \in Errors
         /\ m.opts \in Seq(Opt) /\ Len(m.opts) \in Nat
         /\ m.payload \in Seq(Byte) /\ Len(m.payload) \in Nat
         /\ m.tkl \in 0..8
         /\ at \in [1..(Len(m.opts) + 1) -> Nat]
         /\ \A k \in 1..(Len(m.opts) + 1) :
              at[k] \in Nat /\ 4 + m.tkl <= at[k] /\ at[k] <= p.len
         /\ at[1] = 4 + m.tkl /\ 4 + m.tkl <= p.len
<1>1. /\ p.max \in Nat /\ p.len \in Nat /\ p.len <= p.max
      /\ p.buf \in [0..(p.max - 1) -> Byte] /\ p.err \in Errors
  BY DEF Represents, Pdu
<1>2. /\ m.opts \in Seq(Opt) /\ m.payload \in Seq(Byte) /\ m.tkl \in 0..8
  BY DEF Represents, Msg
<1>3. Len(m.opts) \in Nat /\ Len(m.payload) \in Nat
  BY <1>2
<1>4. /\ at \in [1..(Len(m.opts) + 1) -> Nat] /\ at[1] = 4 + m.tkl
      /\ \A j, k \in 1..(Len(m.opts) + 1) : j < k => at[j] < at[k]
  BY DEF Represents, Laid
<1>5. at[Len(m.opts) + 1] \in Nat /\ at[Len(m.opts) + 1] <= p.len
  <2>1. at[Len(m.opts) + 1] \in Nat
    BY <1>3, <1>4
  <2>2. CASE marked
    BY <1>3, <2>1, <2>2 DEF Represents, Ends
  <2>3. CASE ~marked
    BY <2>1, <2>3 DEF Represents, Ends
  <2> QED  BY <2>1, <2>2, <2>3
<1>6. ASSUME NEW k \in 1..(Len(m.opts) + 1)
      PROVE  at[k] \in Nat /\ 4 + m.tkl <= at[k] /\ at[k] <= p.len
  <2>1. 1 \in 1..(Len(m.opts) + 1) /\ Len(m.opts) + 1 \in 1..(Len(m.opts) + 1)
    BY <1>3
  <2>2. k = 1 \/ at[1] < at[k]
    BY <1>4, <2>1
  <2>3. k = Len(m.opts) + 1 \/ at[k] < at[Len(m.opts) + 1]
    BY <1>3, <1>4, <2>1
  <2>4. at[k] \in Nat
    BY <1>4
  <2> QED  BY <1>1, <1>2, <1>4, <1>5, <2>2, <2>3, <2>4
<1>7. 4 + m.tkl <= p.len /\ 4 <= p.max
  <2>1. 1 \in 1..(Len(m.opts) + 1)
    BY <1>3
  <2>2. 4 + m.tkl <= p.len
    BY <1>4, <1>6, <2>1
  <2> QED  BY <1>1, <1>2, <2>2
<1> QED  BY <1>1, <1>2, <1>3, <1>4, <1>6, <1>7

\* coap_decode_option at the k-th option, and behind the last one.
LEMMA DecodesOption ==
  ASSUME NEW p, NEW m, NEW at, NEW marked, Represents(p, m, at, marked),
         NEW k \in 1..Len(m.opts)
  PROVE  /\ coap_decode_option(p.buf, at[k], p.len - at[k])
              = [err |-> "NONE", delta |-> Delta(m.opts, k),
                 len |-> ValLen(m.opts, k), val |-> at[k] + HdrLen(m.opts, k)]
         /\ at[k + 1] = at[k] + HdrLen(m.opts, k) + ValLen(m.opts, k)
         /\ k + 1 \in 1..(Len(m.opts) + 1) /\ at[k] < at[k + 1] /\ at[k + 1] <= p.len
<1>0. InOrder(m.opts) /\ Laid(p.buf, m.opts, at)
  BY DEF Represents
<1>1. Len(m.opts) \in Nat /\ p.len \in Nat /\ k + 1 \in 1..(Len(m.opts) + 1)
  BY Parts
<1>2. at[k] \in Nat /\ at[k + 1] \in Nat /\ at[k + 1] <= p.len
  BY <1>1, Parts
<1>3. /\ Delta(m.opts, k) \in U16 /\ ValLen(m.opts, k) \in U16
      /\ ValLen(m.opts, k) \in Nat
      /\ HdrLen(m.opts, k) \in 1..5 /\ Size(m.opts, k) \in Nat /\ Size(m.opts, k) > 0
  BY <1>0, SizeTyped
<1>4. /\ HeaderAt(p.buf, at[k], Delta(m.opts, k), ValLen(m.opts, k))
      /\ at[k + 1] = at[k] + Size(m.opts, k)
  BY <1>0 DEF Laid, Holds
<1>5. at[k] < at[k + 1] /\ p.len - at[k] # 0
  BY <1>1, <1>2, <1>3, <1>4
<1>6. at[k + 1] = at[k] + HdrLen(m.opts, k) + ValLen(m.opts, k)
  BY <1>2, <1>3, <1>4 DEF Size
<1>7. coap_decode_option(p.buf, at[k], p.len - at[k])
        = [err |-> "NONE", delta |-> Delta(m.opts, k),
           len |-> ValLen(m.opts, k), val |-> at[k] + HdrLen(m.opts, k)]
  BY <1>2, <1>3, <1>4, <1>5, HeaderDecodes DEF HdrLen
<1> QED  BY <1>1, <1>2, <1>5, <1>6, <1>7

\* Behind the options the decoder finds the marker or the end of the packet.
LEMMA DecodesEnd ==
  ASSUME NEW p, NEW m, NEW at, NEW marked, Represents(p, m, at, marked),
         NEW end, end = at[Len(m.opts) + 1]
  PROVE  coap_decode_option(p.buf, end, p.len - end)
           = Decoded(IF marked THEN "FOUND_PAYLOAD_MARKER" ELSE "END_OF_PACKET")
<1>1. Len(m.opts) \in Nat /\ p.len \in Nat /\ Len(m.payload) \in Nat
  BY Parts
<1>2. end \in Nat /\ end <= p.len
  BY <1>1, Parts
<1>3. CASE marked
  <2>1. p.buf[end] = PayloadMarker /\ p.len = end + 1 + Len(m.payload)
    BY <1>3 DEF Represents, Ends
  <2>2. p.len - end # 0
    BY <1>1, <1>2, <2>1
  <2> QED  BY <1>3, <2>1, <2>2 DEF coap_decode_option
<1>4. CASE ~marked
  <2>1. p.len = end
    BY <1>4 DEF Represents, Ends
  <2>2. p.len - end = 0
    BY <1>2, <2>1
  <2> QED  BY <1>4, <2>2 DEF coap_decode_option
<1> QED  BY <1>3, <1>4

-----------------------------------------------------------------------------
(* Reading.                                                                 *)

\* The getters of the fixed header and of the token.
LEMMA HeaderReads ==
  ASSUME NEW p, NEW m, NEW at, NEW marked, Represents(p, m, at, marked)
  PROVE  /\ coap_get_version(p) = 1 /\ coap_get_type(p) = m.type
         /\ coap_get_tkl(p) = m.tkl /\ coap_get_code(p) = m.code
         /\ coap_get_mid(p) = m.mid /\ coap_get_token(p) = m.token
<1>1. /\ m.type \in 0..3 /\ m.tkl \in 0..8 /\ m.mid \in U16
      /\ m.token \in [0..7 -> Byte]
  BY DEF Represents, Msg
<1>2. /\ p.buf[0] = 64 + 16 * m.type + m.tkl /\ p.buf[1] = m.code
      /\ p.buf[2] = m.mid \div 256 /\ p.buf[3] = m.mid % 256
      /\ \A k \in 0..7 : m.token[k] = IF k < m.tkl THEN p.buf[4 + k] ELSE 0
  BY DEF Represents, HeaderOf
<1>3. \A t \in 0..3, n \in 0..8 : /\ (64 + 16 * t + n) \div 64 = 1
                                  /\ ((64 + 16 * t + n) \div 16) % 4 = t
                                  /\ (64 + 16 * t + n) % 16 = n
  OBVIOUS
<1>4. /\ coap_get_version(p) = 1 /\ coap_get_type(p) = m.type
      /\ coap_get_tkl(p) = m.tkl /\ coap_get_code(p) = m.code
  BY <1>1, <1>2, <1>3
     DEF coap_get_version, coap_get_type, coap_get_tkl, coap_get_code
<1>5. coap_get_mid(p) = m.mid
  <2>1. \A n \in U16 : 256 * (n \div 256) + (n % 256) = n
    BY DEF U16
  <2> QED  BY <1>1, <1>2, <2>1 DEF coap_get_mid
<1>6. coap_get_token(p) = m.token
  <2>1. p.len >= 4 + m.tkl
    <3>1. at[1] = 4 + m.tkl /\ 1 \in 1..(Len(m.opts) + 1)
      BY Parts
    <3>2. at[1] <= p.len /\ p.len \in Nat
      BY <3>1, Parts
    <3> QED  BY <1>1, <3>1, <3>2
  <2>2. coap_get_token(p) = [k \in 0..7 |-> IF k < m.tkl THEN p.buf[4 + k] ELSE 0]
    BY <1>4, <2>1 DEF coap_get_token
  <2>3. m.token = [k \in 0..7 |-> m.token[k]]
    BY <1>1
  <2> QED  BY <1>2, <2>2, <2>3
<1> QED  BY <1>4, <1>5, <1>6

\* From one option to the next.
LEMMA BehindOption ==
  ASSUME NEW p, NEW m, NEW at, NEW marked, Represents(p, m, at, marked)
  PROVE  /\ \A k \in 1..Len(m.opts) : Behind(p, at[k]) = at[k + 1] /\ at[k + 1] # at[k]
         /\ Behind(p, at[Len(m.opts) + 1]) = at[Len(m.opts) + 1]
<1>1. ASSUME NEW k \in 1..Len(m.opts)
      PROVE  Behind(p, at[k]) = at[k + 1] /\ at[k + 1] # at[k]
  <2> DEFINE d == coap_decode_option(p.buf, at[k], p.len - at[k])
  <2>1. /\ d = [err |-> "NONE", delta |-> Delta(m.opts, k),
                len |-> ValLen(m.opts, k), val |-> at[k] + HdrLen(m.opts, k)]
        /\ at[k + 1] = at[k] + HdrLen(m.opts, k) + ValLen(m.opts, k)
        /\ k + 1 \in 1..(Len(m.opts) + 1) /\ at[k] < at[k + 1] /\ at[k + 1] <= p.len
    BY DecodesOption
  <2>2. /\ p.len \in Nat /\ p.max \in Nat /\ p.len <= p.max
        /\ at[k] \in Nat /\ at[k + 1] \in Nat
    BY <2>1, Parts
  <2>3. Behind(p, at[k]) = IF d.err = "NONE" /\ d.val + d.len \in (at[k] + 1)..p.max
                           THEN d.val + d.len ELSE at[k]
    BY DEF Behind
  <2> HIDE DEF d
  <2>4. d.err = "NONE" /\ d.val + d.len = at[k + 1]
    BY <2>1
  <2> QED  BY <2>1, <2>2, <2>3, <2>4
<1>2. Behind(p, at[Len(m.opts) + 1]) = at[Len(m.opts) + 1]
  <2> DEFINE end == at[Len(m.opts) + 1]
  <2>1. coap_decode_option(p.buf, end, p.len - end).err # "NONE"
    <3>1. coap_decode_option(p.buf, end, p.len - end)
            = Decoded(IF marked THEN "FOUND_PAYLOAD_MARKER" ELSE "END_OF_PACKET")
      BY DecodesEnd
    <3> QED  BY <3>1 DEF Decoded
  <2> QED  BY <2>1 DEF Behind
<1> QED  BY <1>1, <1>2

\* Following the options goes up in the buffer.
LEMMA OffsetsClimb ==
  ASSUME NEW p, p.max \in Nat, NEW next, DOMAIN next = 0..p.max,
         \A ptr \in 0..p.max : next[ptr] = ptr \/ next[ptr] = Behind(p, ptr)
  PROVE  Climbs(next, [ptr \in 0..p.max |-> ptr], p.max)
<1>1. \A ptr \in 0..p.max : Behind(p, ptr) = ptr \/ Behind(p, ptr) \in (ptr + 1)..p.max
  BY DEF Behind
<1>2. \A ptr \in 0..p.max : next[ptr] # ptr => next[ptr] \in 0..p.max /\ ptr < next[ptr]
  BY <1>1
<1> QED  BY <1>2 DEF Climbs

\* A loop over offsets that stays in the buffer and passes the n options.
Passes(p, next, at, n) ==
  /\ DOMAIN next = 0..p.max
  /\ \A ptr \in 0..p.max : next[ptr] = ptr \/ next[ptr] = Behind(p, ptr)
  /\ \A k \in 1..n : next[at[k]] = Behind(p, at[k])

\* A loop over the offsets of a represented message ends behind its options.
LEMMA OffsetsEnd ==
  ASSUME NEW p, NEW m, NEW at, NEW marked, Represents(p, m, at, marked),
         NEW next, Passes(p, next, at, Len(m.opts))
  PROVE  Loop(next, 4 + coap_get_tkl(p)) = at[Len(m.opts) + 1]
<1>0. /\ DOMAIN next = 0..p.max
      /\ \A ptr \in 0..p.max : next[ptr] = ptr \/ next[ptr] = Behind(p, ptr)
      /\ \A k \in 1..Len(m.opts) : next[at[k]] = Behind(p, at[k])
  BY DEF Passes
<1>1. Climbs(next, [ptr \in 0..p.max |-> ptr], p.max)
  <2>1. p.max \in Nat
    BY Parts
  <2> QED  BY <1>0, <2>1, OffsetsClimb
<1>2. Trace(next, at, Len(m.opts) + 1)
  <2>0. /\ Len(m.opts) \in Nat /\ p.max \in Nat /\ p.len \in Nat /\ p.len <= p.max
        /\ \A k \in 1..(Len(m.opts) + 1) : at[k] \in Nat /\ at[k] <= p.len
    BY Parts
  <2>1. \A k \in 1..(Len(m.opts) + 1) : at[k] \in DOMAIN next
    BY <1>0, <2>0
  <2>2. \A k \in 1..Len(m.opts) : next[at[k]] = at[k + 1]
    BY <1>0, BehindOption
  <2>3. next[at[Len(m.opts) + 1]] = at[Len(m.opts) + 1]
    BY <1>0, <2>0, <2>1, BehindOption
  <2> QED  BY <2>0, <2>1, <2>2, <2>3 DEF Trace
<1>3. Loop(next, at[1]) = at[Len(m.opts) + 1]
  BY <1>1, <1>2, LoopEnds
<1>4. at[1] = 4 + coap_get_tkl(p)
  BY HeaderReads, Parts
<1> QED  BY <1>3, <1>4

\* Where coap_get_payload finds the end of the options.
LEMMA LastDecodedEnd ==
  ASSUME NEW p, NEW m, NEW at, NEW marked, Represents(p, m, at, marked)
  PROVE  LastDecoded(p)
           = [err |-> IF marked THEN "FOUND_PAYLOAD_MARKER" ELSE "END_OF_PACKET",
              ptr |-> at[Len(m.opts) + 1]]
<1> DEFINE next == [ptr \in 0..p.max |-> Behind(p, ptr)]
           end == at[Len(m.opts) + 1]
<1>1. \A k \in 1..Len(m.opts) : at[k] \in 0..p.max
  <2> TAKE k \in 1..Len(m.opts)
  <2>1. /\ p.max \in Nat /\ p.len \in Nat /\ p.len <= p.max
        /\ Len(m.opts) \in Nat /\ k \in 1..(Len(m.opts) + 1)
    BY Parts
  <2>2. at[k] \in Nat /\ at[k] <= p.len
    BY <2>1, Parts
  <2> QED  BY <2>1, <2>2
<1>2. /\ DOMAIN next = 0..p.max
      /\ \A ptr \in 0..p.max : next[ptr] = Behind(p, ptr)
  OBVIOUS
<1>3. LastDecoded(p) = Stopped(p, Loop(next, 4 + coap_get_tkl(p)))
  BY DEF LastDecoded
<1> HIDE DEF next
<1>4. Loop(next, 4 + coap_get_tkl(p)) = end
  <2>1. Passes(p, next, at, Len(m.opts))
    BY <1>1, <1>2 DEF Passes
  <2> QED  BY <2>1, OffsetsEnd
<1>5. coap_decode_option(p.buf, end, p.len - end).err
        = IF marked THEN "FOUND_PAYLOAD_MARKER" ELSE "END_OF_PACKET"
  <2>1. coap_decode_option(p.buf, end, p.len - end)
          = Decoded(IF marked THEN "FOUND_PAYLOAD_MARKER" ELSE "END_OF_PACKET")
    BY DecodesEnd
  <2> QED  BY <2>1 DEF Decoded
<1> QED  BY <1>3, <1>4, <1>5 DEF Stopped

\* coap_set_payload stops there too.
LEMMA EndOfOptionsEnd ==
  ASSUME NEW p, NEW m, NEW at, NEW marked, Represents(p, m, at, marked)
  PROVE  EndOfOptions(p)
           = [err |-> IF marked THEN "FOUND_PAYLOAD_MARKER" ELSE "END_OF_PACKET",
              ptr |-> at[Len(m.opts) + 1]]
<1> DEFINE d(ptr) == coap_decode_option(p.buf, ptr, p.len - ptr)
           next == [ptr \in 0..p.max |->
                      IF ptr + d(ptr).len < p.len THEN Behind(p, ptr) ELSE ptr]
           end == at[Len(m.opts) + 1]
<1>1. \A k \in 1..Len(m.opts) : at[k] \in 0..p.max /\ at[k] + d(at[k]).len < p.len
  <2> TAKE k \in 1..Len(m.opts)
  <2>1. /\ p.max \in Nat /\ p.len \in Nat /\ p.len <= p.max
        /\ Len(m.opts) \in Nat /\ k \in 1..(Len(m.opts) + 1)
    BY Parts
  <2>2. at[k] \in Nat /\ at[k] <= p.len
    BY <2>1, Parts
  <2>3. InOrder(m.opts)
    BY DEF Represents
  <2>4. HdrLen(m.opts, k) \in 1..5 /\ ValLen(m.opts, k) \in Nat
    BY <2>3, SizeTyped
  <2>5. /\ d(at[k]) = [err |-> "NONE", delta |-> Delta(m.opts, k),
                       len |-> ValLen(m.opts, k), val |-> at[k] + HdrLen(m.opts, k)]
        /\ at[k + 1] = at[k] + HdrLen(m.opts, k) + ValLen(m.opts, k)
        /\ at[k + 1] <= p.len
    BY DecodesOption
  <2> HIDE DEF d
  <2>6. d(at[k]).len = ValLen(m.opts, k)
    BY <2>5
  <2> QED  BY <2>1, <2>2, <2>4, <2>5, <2>6
<1>2. /\ DOMAIN next = 0..p.max
      /\ \A ptr \in 0..p.max :
           next[ptr] = IF ptr + d(ptr).len < p.len THEN Behind(p, ptr) ELSE ptr
  OBVIOUS
<1>3. EndOfOptions(p) = Stopped(p, Loop(next, 4 + coap_get_tkl(p)))
  BY DEF EndOfOptions
<1> HIDE DEF next, d
<1>4. Loop(next, 4 + coap_get_tkl(p)) = end
  <2>1. \A k \in 1..Len(m.opts) : next[at[k]] = Behind(p, at[k])
    BY <1>1, <1>2
  <2>2. \A ptr \in 0..p.max : next[ptr] = ptr \/ next[ptr] = Behind(p, ptr)
    BY <1>2
  <2>3. DOMAIN next = 0..p.max
    BY <1>2
  <2>4. Passes(p, next, at, Len(m.opts))
    BY <2>1, <2>2, <2>3 DEF Passes
  <2> QED  BY <2>4, OffsetsEnd
<1>5. coap_decode_option(p.buf, end, p.len - end).err
        = IF marked THEN "FOUND_PAYLOAD_MARKER" ELSE "END_OF_PACKET"
  <2>1. coap_decode_option(p.buf, end, p.len - end)
          = Decoded(IF marked THEN "FOUND_PAYLOAD_MARKER" ELSE "END_OF_PACKET")
    BY DecodesEnd
  <2> QED  BY <2>1 DEF Decoded
<1> QED  BY <1>3, <1>4, <1>5 DEF Stopped

\* The number before the k-th option, or before the end.
LEMMA NumBeforeTyped ==
  ASSUME NEW opts, InOrder(opts), NEW k \in 1..(Len(opts) + 1)
  PROVE  NumBefore(opts, k) \in U16
<1>0. opts \in Seq(Opt) /\ Len(opts) \in Nat
  BY DEF InOrder
<1>1. CASE k = 1
  BY <1>1 DEF NumBefore, U16
<1>2. CASE k # 1
  <2>1. k - 1 \in 1..Len(opts)
    BY <1>0, <1>2
  <2>2. opts[k - 1].num \in U16
    BY <2>1, SizeTyped
  <2> QED  BY <1>2, <2>2 DEF NumBefore
<1> QED  BY <1>1, <1>2

\* The number before the next option is that of this one.
LEMMA NumBeforeNext ==
  ASSUME NEW opts, NEW k \in Nat, k > 0
  PROVE  NumBefore(opts, k + 1) = opts[k].num
<1>1. k + 1 # 1 /\ (k + 1) - 1 = k
  OBVIOUS
<1>2. NumBefore(opts, k + 1) = opts[(k + 1) - 1].num
  BY <1>1 DEF NumBefore
<1> QED  BY <1>1, <1>2

\* An option that comes last in order is inserted behind all others.
LEMMA InsertionPointEnd ==
  ASSUME NEW p, NEW m, NEW at, NEW marked, Represents(p, m, at, marked),
         NEW num \in U16, \A k \in 1..Len(m.opts) : m.opts[k].num <= num
  PROVE  InsertionPoint(p, num)
           = [ptr |-> at[Len(m.opts) + 1], lopt_num |-> NumBefore(m.opts, Len(m.opts) + 1)]
<1> DEFINE n == Len(m.opts)
           States == [ptr : 0..p.max, lopt_num : 0..num]
           d(s) == coap_decode_option(p.buf, s.ptr, p.len - s.ptr)
           f(s) == AsU16(s.lopt_num + d(s).delta)
           More(s) == /\ d(s).err = "NONE" /\ f(s) \in 0..num
                      /\ s.ptr + d(s).len < p.len /\ Behind(p, s.ptr) # s.ptr
           t(s) == [ptr |-> Behind(p, s.ptr), lopt_num |-> f(s)]
           next == [s \in States |-> IF More(s) THEN t(s) ELSE s]
           rank == [s \in States |-> s.ptr]
           st == [k \in 1..(n + 1) |-> [ptr |-> at[k], lopt_num |-> NumBefore(m.opts, k)]]
<1>0. /\ InOrder(m.opts) /\ n \in Nat /\ p.len \in Nat /\ p.max \in Nat /\ p.len <= p.max
      /\ \A k \in 1..(n + 1) : at[k] \in Nat /\ at[k] <= p.len
      /\ at[1] = 4 + m.tkl
  BY Parts DEF Represents
<1>1. ASSUME NEW k \in 1..(n + 1)
      PROVE  /\ st[k] \in States /\ st[k].ptr = at[k]
             /\ st[k].lopt_num = NumBefore(m.opts, k)
  <2>1. at[k] \in 0..p.max
    BY <1>0
  <2>2. NumBefore(m.opts, k) \in U16
    BY <1>0, NumBeforeTyped
  <2>3. NumBefore(m.opts, k) <= num
    <3>1. CASE k = 1
      BY <3>1 DEF NumBefore, U16
    <3>2. CASE k # 1
      <4>1. k - 1 \in 1..n
        BY <1>0, <3>2
      <4> QED  BY <3>2, <4>1 DEF NumBefore
    <3> QED  BY <3>1, <3>2
  <2>4. NumBefore(m.opts, k) \in 0..num
    BY <2>2, <2>3 DEF U16
  <2> QED  BY <2>1, <2>4
<1>2. Climbs(next, rank, p.max)
  <2>1. ASSUME NEW s \in States, next[s] # s
        PROVE  next[s] \in States /\ rank[s] < rank[next[s]]
    <3>1. next[s] = t(s) /\ More(s)
      <4>1. next[s] = IF More(s) THEN t(s) ELSE s
        OBVIOUS
      <4> HIDE DEF t, More, next
      <4> QED  BY <2>1, <4>1
    <3>2. s.ptr \in 0..p.max /\ f(s) \in 0..num /\ Behind(p, s.ptr) # s.ptr
      BY <3>1
    <3>3. Behind(p, s.ptr) \in (s.ptr + 1)..p.max
      BY <3>2 DEF Behind
    <3>4. t(s) \in States /\ t(s).ptr = Behind(p, s.ptr)
      <4> HIDE DEF f
      <4> QED  BY <1>0, <3>2, <3>3
    <3>5. rank[s] = s.ptr /\ rank[t(s)] = t(s).ptr
      BY <3>4
    <3> HIDE DEF rank, next, t, States
    <3> QED  BY <1>0, <3>1, <3>2, <3>3, <3>4, <3>5
  <2>2. rank \in [States -> 0..p.max] /\ DOMAIN next = States
    OBVIOUS
  <2> HIDE DEF rank, next, States
  <2> QED  BY <1>0, <2>1, <2>2 DEF Climbs
<1>3. ASSUME NEW k \in 1..n PROVE next[st[k]] = st[k + 1]
  <2>0. k \in 1..(n + 1) /\ k + 1 \in 1..(n + 1)
    BY <1>0
  <2>1. /\ st[k] \in States /\ st[k].ptr = at[k] /\ st[k].lopt_num = NumBefore(m.opts, k)
        /\ st[k + 1] = [ptr |-> at[k + 1], lopt_num |-> m.opts[k].num]
    <3>1. /\ st[k] \in States /\ st[k].ptr = at[k]
          /\ st[k].lopt_num = NumBefore(m.opts, k)
      BY <1>1, <2>0
    <3>2. st[k + 1] = [ptr |-> at[k + 1], lopt_num |-> NumBefore(m.opts, k + 1)]
      BY <2>0
    <3>4. NumBefore(m.opts, k + 1) = m.opts[k].num
      BY <1>0, NumBeforeNext
    <3> QED  BY <3>1, <3>2, <3>4
  <2>2. d(st[k]) = [err |-> "NONE", delta |-> Delta(m.opts, k),
                    len |-> ValLen(m.opts, k), val |-> at[k] + HdrLen(m.opts, k)]
    BY <2>1, DecodesOption
  <2>3. /\ at[k + 1] = at[k] + HdrLen(m.opts, k) + ValLen(m.opts, k)
        /\ at[k + 1] <= p.len
    BY DecodesOption
  <2>4. /\ HdrLen(m.opts, k) \in 1..5 /\ ValLen(m.opts, k) \in Nat
        /\ m.opts[k].num \in U16
        /\ NumBefore(m.opts, k) + Delta(m.opts, k) = m.opts[k].num
    BY <1>0, SizeTyped
  <2>5. at[k] + ValLen(m.opts, k) < p.len
    <3>1. at[k] \in Nat /\ p.len \in Nat
      BY <1>0, <2>0
    <3> QED  BY <2>3, <2>4, <3>1
  <2>6. AsU16(m.opts[k].num) = m.opts[k].num /\ m.opts[k].num \in 0..num
    <3>1. \A x, y \in U16 : AsU16(x) = x /\ (x <= y => x \in 0..y)
      BY DEF AsU16, U16
    <3>2. m.opts[k].num <= num /\ m.opts[k].num \in U16
      BY <2>4
    <3> QED  BY <3>1, <3>2
  <2>7. Behind(p, at[k]) = at[k + 1] /\ at[k + 1] # at[k]
    BY BehindOption
  <2>8. f(st[k]) = m.opts[k].num
    <3>1. d(st[k]).delta = Delta(m.opts, k)
      BY <2>2
    <3> HIDE DEF d, st
    <3> QED  BY <2>1, <2>4, <2>6, <3>1
  <2>9. More(st[k])
    <3>1. d(st[k]).err = "NONE" /\ d(st[k]).len = ValLen(m.opts, k)
      BY <2>2
    <3> HIDE DEF d, st, f
    <3> QED  BY <2>1, <2>5, <2>6, <2>7, <2>8, <3>1
  <2>10. t(st[k]) = st[k + 1]
    <3> HIDE DEF f, st
    <3> QED  BY <2>1, <2>7, <2>8
  <2>11. next[st[k]] = IF More(st[k]) THEN t(st[k]) ELSE st[k]
    <3> HIDE DEF st, More, t, States
    <3> QED  BY <2>1
  <2> HIDE DEF next, st, More, t
  <2> QED  BY <2>9, <2>10, <2>11
<1>4. next[st[n + 1]] = st[n + 1]
  <2>0. n + 1 \in 1..(n + 1)
    BY <1>0
  <2>1. st[n + 1] \in States /\ st[n + 1].ptr = at[n + 1]
    BY <1>1, <2>0
  <2>2. d(st[n + 1])
          = Decoded(IF marked THEN "FOUND_PAYLOAD_MARKER" ELSE "END_OF_PACKET")
    BY <2>1, DecodesEnd
  <2>3. d(st[n + 1]).err # "NONE"
    BY <2>2 DEF Decoded
  <2>4. ~More(st[n + 1])
    BY <2>3
  <2>5. next[st[n + 1]] = IF More(st[n + 1]) THEN t(st[n + 1]) ELSE st[n + 1]
    <3> HIDE DEF st, More, t, States
    <3> QED  BY <2>1
  <2> HIDE DEF next, st, More, t
  <2> QED  BY <2>4, <2>5
<1>5. Loop(next, st[1]) = st[n + 1]
  <2>1. DOMAIN next = States
    OBVIOUS
  <2> HIDE DEF next, rank, st, States, n
  <2>2. Trace(next, st, n + 1)
    <3>1. n \in Nat /\ n + 1 \in Nat /\ 1 <= n + 1
      BY <1>0
    <3>2. \A k \in 1..(n + 1) : st[k] \in DOMAIN next
      BY <1>1, <2>1
    <3>3. \A k \in 1..(n + 1) : k < n + 1 => next[st[k]] = st[k + 1]
      <4>1. \A k \in 1..(n + 1) : k < n + 1 => k \in 1..n
        BY <3>1
      <4> QED  BY <1>3, <4>1
    <3> QED  BY <1>4, <3>1, <3>2, <3>3 DEF Trace
  <2> QED  BY <1>2, <2>2, LoopEnds
<1>6. /\ st[1] = [ptr |-> 4 + coap_get_tkl(p), lopt_num |-> 0]
      /\ st[n + 1] = [ptr |-> at[n + 1], lopt_num |-> NumBefore(m.opts, n + 1)]
  BY <1>0, HeaderReads DEF NumBefore
<1>7. InsertionPoint(p, num) = Loop(next, [ptr |-> 4 + coap_get_tkl(p), lopt_num |-> 0])
  BY DEF InsertionPoint
<1> HIDE DEF next, st
<1> QED  BY <1>5, <1>6, <1>7

\* A sequence is the function of its elements, and conversely.
LEMMA SeqIsFcn ==
  ASSUME NEW S, NEW s \in Seq(S)
  PROVE  s = [k \in 1..Len(s) |-> s[k]]
  OBVIOUS

\* A function on 1..n is a sequence of length n.
LEMMA FcnIsSeq ==
  ASSUME NEW S, NEW n \in Nat, NEW f \in [1..n -> S]
  PROVE  f \in Seq(S) /\ Len(f) = n
<1>1. f \in Seq(S)
  BY DEF Seq
<1>2. DOMAIN f = 1..Len(f) /\ DOMAIN f = 1..n /\ Len(f) \in Nat
  BY <1>1
<1> QED  BY <1>1, <1>2

\* What coap_get_payload returns is the payload.
LEMMA PayloadReads ==
  ASSUME NEW p, NEW m, NEW at, NEW marked, Represents(p, m, at, marked)
  PROVE  Bytes(p, coap_get_payload(p).val, coap_get_payload(p).len) = m.payload
<1> DEFINE end == at[Len(m.opts) + 1]
           n == Len(m.payload)
<1>0. /\ m.payload \in Seq(Byte) /\ n \in Nat /\ p.len \in Nat /\ end \in Nat
  BY Parts
<1>1. m.payload = [k \in 1..n |-> m.payload[k]]
  BY <1>0, SeqIsFcn
<1>2. LastDecoded(p)
        = [err |-> IF marked THEN "FOUND_PAYLOAD_MARKER" ELSE "END_OF_PACKET", ptr |-> end]
  BY LastDecodedEnd
<1> HIDE DEF end, n
<1>3. CASE marked
  <2>1. /\ p.len = end + 1 + n
        /\ \A k \in 1..n : p.buf[end + k] = m.payload[k]
    BY <1>3 DEF Represents, Ends, end, n
  <2>2. coap_get_payload(p) = [len |-> p.len - end - 1, val |-> end + 1]
    BY <1>2, <1>3 DEF coap_get_payload
  <2>3. p.len - end - 1 = n
    BY <1>0, <2>1
  <2>4. Bytes(p, end + 1, n) = [k \in 1..n |-> p.buf[end + 1 + k - 1]]
    BY DEF Bytes
  <2>5. \A k \in 1..n : p.buf[end + 1 + k - 1] = m.payload[k]
    <3> TAKE k \in 1..n
    <3>1. end + 1 + k - 1 = end + k
      BY <1>0
    <3> QED  BY <2>1, <3>1
  <2>6. Bytes(p, end + 1, n) = [k \in 1..n |-> m.payload[k]]
    BY <2>4, <2>5
  <2>7. coap_get_payload(p).val = end + 1 /\ coap_get_payload(p).len = n
    BY <2>2, <2>3
  <2> QED  BY <1>1, <2>6, <2>7
<1>4. CASE ~marked
  <2>1. m.payload = << >>
    BY <1>4 DEF Represents, Ends
  <2>2. coap_get_payload(p).len = 0
    BY <1>2, <1>4 DEF coap_get_payload
  <2>3. Bytes(p, coap_get_payload(p).val, 0) = << >>
    BY DEF Bytes
  <2> QED  BY <2>1, <2>2, <2>3
<1> QED  BY <1>3, <1>4

\* The message is valid to coap_validate_pkt, even if its marker has no
\* payload.
LEMMA Validates ==
  ASSUME NEW p, NEW m, NEW at, NEW marked, Represents(p, m, at, marked)
  PROVE  coap_validate_pkt(p) = "NONE"
<1> DEFINE ptr == 4 + coap_get_tkl(p)
           d == coap_decode_option(p.buf, ptr, p.len - ptr)
<1>0. /\ m.tkl \in 0..8 /\ p.len \in Nat /\ p.max \in Nat /\ p.len <= p.max
      /\ Len(m.opts) \in Nat /\ Len(m.payload) \in Nat /\ at[1] = 4 + m.tkl
      /\ 4 + m.tkl <= at[1] /\ at[1] <= p.len
  BY Parts
<1>1. ptr = at[1] /\ coap_get_tkl(p) = m.tkl /\ coap_get_version(p) = 1
  BY <1>0, HeaderReads
<1>2. ~(\/ p.len > p.max \/ p.len < 4
         \/ coap_get_version(p) # 1 \/ coap_get_tkl(p) > 8)
  BY <1>0, <1>1
<1>3. coap_validate_pkt(p)
        = CASE d.err \in {"NONE", "END_OF_PACKET"} -> "NONE"
            [] d.err = "FOUND_PAYLOAD_MARKER" ->
                 IF p.len = ptr THEN "INVALID_PACKET" ELSE "NONE"
            [] OTHER -> d.err
  BY <1>2 DEF coap_validate_pkt
<1>4. \/ d.err \in {"NONE", "END_OF_PACKET"}
      \/ (d.err = "FOUND_PAYLOAD_MARKER" /\ p.len # ptr)
  <2>1. CASE Len(m.opts) = 0
    <3>1. at[Len(m.opts) + 1] = ptr
      BY <1>1, <2>1
    <3>2. d = Decoded(IF marked THEN "FOUND_PAYLOAD_MARKER" ELSE "END_OF_PACKET")
      BY <3>1, DecodesEnd
    <3>3. marked => p.len = ptr + 1 + Len(m.payload)
      BY <3>1 DEF Represents, Ends
    <3>4. d.err = IF marked THEN "FOUND_PAYLOAD_MARKER" ELSE "END_OF_PACKET"
      BY <3>2 DEF Decoded
    <3> HIDE DEF d, ptr
    <3> QED  BY <1>0, <1>1, <3>3, <3>4
  <2>2. CASE Len(m.opts) # 0
    <3>1. 1 \in 1..Len(m.opts)
      BY <1>0, <2>2
    <3>2. d.err = "NONE"
      <4>1. d = [err |-> "NONE", delta |-> Delta(m.opts, 1),
                 len |-> ValLen(m.opts, 1), val |-> at[1] + HdrLen(m.opts, 1)]
        BY <1>1, <3>1, DecodesOption
      <4> QED  BY <4>1
    <3> QED  BY <3>2
  <2> QED  BY <2>1, <2>2
<1> HIDE DEF d, ptr
<1> QED  BY <1>3, <1>4

\* The k-th option as the iterator returns it, and the one before it.
Located(opts, at, k) ==
  [num |-> opts[k].num, len |-> ValLen(opts, k), val |-> at[k] + HdrLen(opts, k)]

Previous(opts, at, k) == IF k = 1 THEN NoOption ELSE Located(opts, at, k - 1)

\* What the iterator yields for the k-th option, and how far it then is.
LEMMA LocatedTyped ==
  ASSUME NEW p, NEW m, NEW at, NEW marked, Represents(p, m, at, marked),
         NEW k \in 1..Len(m.opts)
  PROVE  /\ Located(m.opts, at, k) \in Option
         /\ Located(m.opts, at, k).num = m.opts[k].num
         /\ m.opts[k].num # 0
         /\ Reached(p, Located(m.opts, at, k)) = at[k + 1]
         /\ Located(m.opts, at, k).val + Located(m.opts, at, k).len = at[k + 1]
<1> DEFINE o == Located(m.opts, at, k)
<1>1. InOrder(m.opts)
  BY DEF Represents
<1>2. m.opts[k].num \in U16 /\ m.opts[k].num # 0 /\ ValLen(m.opts, k) \in Nat
      /\ HdrLen(m.opts, k) \in 1..5
  BY <1>1, SizeTyped
<1>3. at[k] \in Nat
  <2>1. k \in 1..(Len(m.opts) + 1)
    BY Parts
  <2> QED  BY <2>1, Parts
<1>4. at[k + 1] = at[k] + HdrLen(m.opts, k) + ValLen(m.opts, k)
  BY DecodesOption
<1>5. at[k] + HdrLen(m.opts, k) \in Int
  BY <1>2, <1>3
<1>6. /\ o.num = m.opts[k].num /\ o.len = ValLen(m.opts, k)
      /\ o.val = at[k] + HdrLen(m.opts, k)
  BY DEF Located
<1>7. o \in Option
  BY <1>2, <1>5 DEF Option, Located
<1> HIDE DEF o
<1>8. Reached(p, o) = at[k + 1] /\ o.val + o.len = at[k + 1]
  BY <1>2, <1>4, <1>6 DEF Reached
<1> QED  BY <1>2, <1>6, <1>7, <1>8 DEF o

\* The iterator goes from one option to the next and ends with number 0.
LEMMA IteratorStep ==
  ASSUME NEW p, NEW m, NEW at, NEW marked, Represents(p, m, at, marked),
         NEW k \in 1..(Len(m.opts) + 1)
  PROVE  /\ k <= Len(m.opts) =>
              /\ coap_get_option(p, Previous(m.opts, at, k)) = Located(m.opts, at, k)
              /\ Ahead(p, Previous(m.opts, at, k), Located(m.opts, at, k))
         /\ k = Len(m.opts) + 1 =>
              coap_get_option(p, Previous(m.opts, at, k)).num = 0
<1> DEFINE last == Previous(m.opts, at, k)
           first == 4 + coap_get_tkl(p)
           next == IF last.num # 0 THEN last.val + last.len ELSE first
           ptr == IF next > p.len \/ next <= 0 THEN first ELSE next
           d == coap_decode_option(p.buf, ptr, p.len - ptr)
<1>0. /\ InOrder(m.opts) /\ Len(m.opts) \in Nat /\ p.len \in Nat /\ p.max \in Nat
      /\ p.len <= p.max /\ at[k] \in Nat /\ 4 + m.tkl <= at[k] /\ at[k] <= p.len
      /\ m.tkl \in 0..8 /\ at[1] = 4 + m.tkl
  BY Parts DEF Represents
<1>1. first = at[1]
  BY <1>0, HeaderReads
<1>2. /\ last.num = NumBefore(m.opts, k)
      /\ last.num # 0 => /\ last.val + last.len = at[k]
                         /\ Reached(p, last) = at[k]
      /\ last.num = 0 => k = 1
  <2>1. CASE k = 1
    BY <2>1 DEF Previous, NoOption, NumBefore
  <2>2. CASE k # 1
    <3>1. k - 1 \in 1..Len(m.opts) /\ (k - 1) + 1 = k
      BY <1>0, <2>2
    <3>2. last = Located(m.opts, at, k - 1)
      BY <2>2 DEF Previous
    <3>3. NumBefore(m.opts, k) = m.opts[k - 1].num
      BY <2>2 DEF NumBefore
    <3> HIDE DEF last
    <3>4. /\ last.num = m.opts[k - 1].num /\ m.opts[k - 1].num # 0
          /\ Reached(p, last) = at[(k - 1) + 1]
          /\ last.val + last.len = at[(k - 1) + 1]
      BY <3>1, <3>2, LocatedTyped
    <3> QED  BY <3>1, <3>3, <3>4
  <2> QED  BY <2>1, <2>2
<1> HIDE DEF last, first
<1>3. next = at[k]
  BY <1>1, <1>2
<1>4. ptr = at[k]
  BY <1>0, <1>3
<1>5. coap_get_option(p, last)
        = CASE d.err = "NONE" ->
                 [num |-> AsU16(last.num + d.delta), len |-> d.len, val |-> d.val]
            [] d.err = "FOUND_PAYLOAD_MARKER" /\ last.num = 0 ->
                 [num |-> 0, len |-> p.len - ptr - 1, val |-> ptr + 1]
            [] d.err = "FOUND_PAYLOAD_MARKER" /\ last.num # 0 ->
                 [num |-> 0, len |-> p.len - NULL, val |-> NULL]
            [] OTHER -> [num |-> 0, len |-> 0, val |-> NULL]
  BY DEF coap_get_option, first
<1>6. ASSUME k <= Len(m.opts)
      PROVE  /\ coap_get_option(p, last) = Located(m.opts, at, k)
             /\ Ahead(p, last, Located(m.opts, at, k))
  <2>0. k \in 1..Len(m.opts)
    BY <1>0, <1>6
  <2>1. d = [err |-> "NONE", delta |-> Delta(m.opts, k),
             len |-> ValLen(m.opts, k), val |-> at[k] + HdrLen(m.opts, k)]
    BY <1>4, <2>0, DecodesOption
  <2> HIDE DEF d, ptr, next
  <2>2. d.err = "NONE" /\ d.delta = Delta(m.opts, k)
        /\ d.len = ValLen(m.opts, k) /\ d.val = at[k] + HdrLen(m.opts, k)
    BY <2>1
  <2>3. coap_get_option(p, last)
          = [num |-> AsU16(last.num + d.delta), len |-> d.len, val |-> d.val]
    BY <1>5, <2>2
  <2>4. AsU16(last.num + d.delta) = m.opts[k].num
    <3>1. \A x \in U16 : AsU16(x) = x
      BY DEF AsU16, U16
    <3>2. /\ m.opts[k].num \in U16
          /\ NumBefore(m.opts, k) + Delta(m.opts, k) = m.opts[k].num
      BY <1>0, <2>0, SizeTyped
    <3> QED  BY <1>2, <2>2, <3>1, <3>2
  <2>5. coap_get_option(p, last) = Located(m.opts, at, k)
    BY <2>2, <2>3, <2>4 DEF Located
  <2>6. /\ Located(m.opts, at, k) \in Option
        /\ Reached(p, Located(m.opts, at, k)) = at[k + 1]
    BY <2>0, LocatedTyped
  <2>7. at[k] < at[k + 1] /\ at[k + 1] <= p.len /\ at[k + 1] \in Nat
    <3>1. k + 1 \in 1..(Len(m.opts) + 1)
      BY <1>0, <2>0
    <3> QED  BY <2>0, <3>1, DecodesOption, Parts
  <2>8. Ahead(p, last, Located(m.opts, at, k))
    <3>1. at[k + 1] \in 1..(p.max + 1)
      BY <1>0, <2>7
    <3> QED  BY <1>2, <2>6, <2>7, <3>1 DEF Ahead
  <2> QED  BY <2>5, <2>8
<1>7. ASSUME k = Len(m.opts) + 1
      PROVE  coap_get_option(p, last).num = 0
  <2>1. d = Decoded(IF marked THEN "FOUND_PAYLOAD_MARKER" ELSE "END_OF_PACKET")
    BY <1>4, <1>7, DecodesEnd
  <2>2. d.err # "NONE"
    BY <2>1 DEF Decoded
  <2> HIDE DEF d, ptr, next
  <2> QED  BY <1>5, <2>2
<1> QED  BY <1>6, <1>7 DEF last

\* The iterator yields the options one after the other.
LEMMA IteratedAll ==
  ASSUME NEW p, NEW m, NEW at, NEW marked, Represents(p, m, at, marked)
  PROVE  Iterated(p) = [k \in 1..Len(m.opts) |-> Located(m.opts, at, k)]
<1> DEFINE n == Len(m.opts)
           L(k) == Located(m.opts, at, k)
           last(opts) == IF opts = << >> THEN NoOption ELSE opts[Len(opts)]
           o(opts) == coap_get_option(p, last(opts))
           More(opts) == o(opts).num # 0 /\ Ahead(p, last(opts), o(opts))
           next == [opts \in Seq(Option) |->
                      IF More(opts) THEN Append(opts, o(opts)) ELSE opts]
           r(opts) == IF last(opts).num # 0 /\ Reached(p, last(opts)) \in 0..(p.max + 1)
                      THEN Reached(p, last(opts)) ELSE 0
           rank == [opts \in Seq(Option) |-> r(opts)]
           st == [k \in 1..(n + 1) |-> [j \in 1..(k - 1) |-> L(j)]]
<1>0. n \in Nat /\ p.max \in Nat
  BY Parts
<1>1. Iterated(p) = Loop(next, << >>)
  BY DEF Iterated
<1>2. Climbs(next, rank, p.max + 1)
  <2>1. rank \in [Seq(Option) -> 0..(p.max + 1)] /\ DOMAIN next = Seq(Option)
    <3> HIDE DEF last
    <3>1. \A opts \in Seq(Option) : r(opts) \in 0..(p.max + 1)
      BY <1>0
    <3> QED  BY <3>1
  <2>2. ASSUME NEW opts \in Seq(Option), next[opts] # opts
        PROVE  next[opts] \in Seq(Option) /\ rank[opts] < rank[next[opts]]
    <3>1. next[opts] = Append(opts, o(opts)) /\ More(opts)
      <4>1. next[opts] = IF More(opts) THEN Append(opts, o(opts)) ELSE opts
        OBVIOUS
      <4> HIDE DEF next, More, o
      <4> QED  BY <2>2, <4>1
    <3> HIDE DEF next, last, o
    <3>2. /\ o(opts).num # 0 /\ o(opts) \in Option
          /\ Reached(p, o(opts)) \in 1..(p.max + 1)
          /\ last(opts).num # 0 => Reached(p, last(opts)) < Reached(p, o(opts))
      BY <3>1 DEF Ahead
    <3>3. Append(opts, o(opts)) \in Seq(Option)
      BY <3>2
    <3>4. last(Append(opts, o(opts))) = o(opts)
      <4>1. Append(opts, o(opts)) # << >>
        <5>1. Len(Append(opts, o(opts))) = Len(opts) + 1 /\ Len(opts) \in Nat
          BY <3>2
        <5>2. Len(Append(opts, o(opts))) # 0
          BY <5>1
        <5>3. Len(<< >>) = 0
          OBVIOUS
        <5> QED  BY <5>2, <5>3, Zenon
      <4>2. Append(opts, o(opts))[Len(Append(opts, o(opts)))] = o(opts)
        BY <3>2
      <4> QED  BY <4>1, <4>2 DEF last
    <3>5. r(Append(opts, o(opts))) = Reached(p, o(opts))
      BY <1>0, <3>2, <3>4
    <3>6. r(opts) < Reached(p, o(opts))
      BY <1>0, <3>2
    <3>7. rank[opts] = r(opts) /\ rank[Append(opts, o(opts))] = r(Append(opts, o(opts)))
      BY <3>3
    <3> QED  BY <3>1, <3>3, <3>5, <3>6, <3>7
  <2>3. p.max + 1 \in Nat
    BY <1>0
  <2> HIDE DEF next, rank
  <2> QED  BY <2>1, <2>2, <2>3 DEF Climbs
<1>3. ASSUME NEW k \in 1..(n + 1)
      PROVE  /\ st[k] \in Seq(Option) /\ Len(st[k]) = k - 1
             /\ last(st[k]) = Previous(m.opts, at, k)
             /\ st[k] = [j \in 1..(k - 1) |-> L(j)]
  <2>1. \A j \in 1..(k - 1) : L(j) \in Option
    <3>1. \A j \in 1..(k - 1) : j \in 1..n
      BY <1>0
    <3> QED  BY <3>1, LocatedTyped
  <2>2. k - 1 \in Nat
    OBVIOUS
  <2>3. st[k] = [j \in 1..(k - 1) |-> L(j)]
    OBVIOUS
  <2> HIDE DEF st, L
  <2>4. st[k] \in [1..(k - 1) -> Option]
    BY <2>1, <2>3
  <2>5. st[k] \in Seq(Option) /\ Len(st[k]) = k - 1
    BY <2>2, <2>4, FcnIsSeq
  <2>6. last(st[k]) = Previous(m.opts, at, k)
    <3>1. CASE k = 1
      <4>1. st[k] = << >>
        BY <2>5, <3>1
      <4> QED  BY <3>1, <4>1 DEF Previous
    <3>2. CASE k # 1
      <4>1. st[k] # << >>
        BY <2>2, <2>5, <3>2
      <4>2. k - 1 \in 1..(k - 1)
        BY <2>2, <3>2
      <4>3. st[k][k - 1] = L(k - 1)
        BY <2>3, <4>2
      <4> QED  BY <2>5, <3>2, <4>1, <4>3 DEF Previous, L
    <3> QED  BY <3>1, <3>2
  <2> QED  BY <2>3, <2>5, <2>6
<1>4. ASSUME NEW k \in 1..n PROVE next[st[k]] = st[k + 1]
  <2>0. k \in 1..(n + 1) /\ k + 1 \in 1..(n + 1) /\ k <= n /\ k + 1 - 1 = k
    BY <1>0
  <2>1. /\ st[k] \in Seq(Option) /\ Len(st[k]) = k - 1
        /\ st[k] = [j \in 1..(k - 1) |-> L(j)]
        /\ last(st[k]) = Previous(m.opts, at, k)
    BY <1>3, <2>0
  <2>2. st[k + 1] = [j \in 1..k |-> L(j)]
    BY <1>3, <2>0
  <2>3. next[st[k]] = IF More(st[k]) THEN Append(st[k], o(st[k])) ELSE st[k]
    <3> HIDE DEF st, More, o
    <3> QED  BY <2>1
  <2> HIDE DEF st, next, last
  <2>4. o(st[k]) = L(k) /\ Ahead(p, last(st[k]), L(k)) /\ L(k).num # 0 /\ L(k) \in Option
    BY <1>0, <2>0, <2>1, IteratorStep, LocatedTyped
  <2> HIDE DEF o, L
  <2>5. More(st[k])
    BY <2>4
  <2>6. Append(st[k], L(k)) = [j \in 1..k |-> L(j)]
    <3>1. Append(st[k], L(k)) \in Seq(Option) /\ Len(Append(st[k], L(k))) = k
      BY <2>0, <2>1, <2>4
    <3>2. \A j \in 1..k : Append(st[k], L(k))[j] = L(j)
      <4> TAKE j \in 1..k
      <4>1. CASE j = k
        BY <2>1, <2>4, <4>1
      <4>2. CASE j # k
        <5>1. j \in 1..(k - 1)
          BY <4>2
        <5>2. st[k][j] = L(j)
          BY <2>1, <5>1
        <5> QED  BY <2>1, <2>4, <5>1, <5>2
      <4> QED  BY <4>1, <4>2
    <3>3. Append(st[k], L(k)) = [j \in 1..k |-> Append(st[k], L(k))[j]]
      BY <3>1, SeqIsFcn
    <3> QED  BY <3>2, <3>3
  <2> HIDE DEF More
  <2> QED  BY <2>2, <2>3, <2>4, <2>5, <2>6
<1>5. next[st[n + 1]] = st[n + 1]
  <2>0. n + 1 \in 1..(n + 1)
    BY <1>0
  <2>1. st[n + 1] \in Seq(Option) /\ last(st[n + 1]) = Previous(m.opts, at, n + 1)
    BY <1>3, <2>0
  <2>2. o(st[n + 1]).num = 0
    BY <2>0, <2>1, IteratorStep
  <2>3. ~More(st[n + 1])
    BY <2>2
  <2>4. next[st[n + 1]] = IF More(st[n + 1]) THEN Append(st[n + 1], o(st[n + 1]))
                          ELSE st[n + 1]
    <3> HIDE DEF st, More, o
    <3> QED  BY <2>1
  <2> HIDE DEF st, next, More, o
  <2> QED  BY <2>3, <2>4
<1>6. Loop(next, st[1]) = st[n + 1]
  <2>1. DOMAIN next = Seq(Option)
    OBVIOUS
  <2> HIDE DEF next, rank, st, n
  <2>2. Trace(next, st, n + 1)
    <3>1. n \in Nat /\ n + 1 \in Nat /\ 1 <= n + 1
      BY <1>0
    <3>2. \A k \in 1..(n + 1) : st[k] \in DOMAIN next
      BY <1>3, <2>1
    <3>3. \A k \in 1..(n + 1) : k < n + 1 => next[st[k]] = st[k + 1]
      <4>1. \A k \in 1..(n + 1) : k < n + 1 => k \in 1..n
        BY <3>1
      <4> QED  BY <1>4, <4>1
    <3> QED  BY <1>5, <3>1, <3>2, <3>3 DEF Trace
  <2> QED  BY <1>2, <2>2, LoopEnds
<1>7. st[1] = << >> /\ st[n + 1] = [j \in 1..n |-> L(j)]
  <2>1. 1 \in 1..(n + 1) /\ n + 1 \in 1..(n + 1) /\ n + 1 - 1 = n
    BY <1>0
  <2>2. st[1] \in Seq(Option) /\ Len(st[1]) = 0
    BY <1>3, <2>1
  <2>3. st[n + 1] = [j \in 1..n |-> L(j)]
    BY <1>3, <2>1
  <2> HIDE DEF st
  <2> QED  BY <2>2, <2>3
<1> HIDE DEF next, st
<1> QED  BY <1>1, <1>6, <1>7

\* The bytes an option of the message points to are its value.
LEMMA LocatedBytes ==
  ASSUME NEW p, NEW m, NEW at, NEW marked, Represents(p, m, at, marked),
         NEW k \in 1..Len(m.opts)
  PROVE  Bytes(p, at[k] + HdrLen(m.opts, k), ValLen(m.opts, k)) = m.opts[k].val
<1>1. InOrder(m.opts) /\ Laid(p.buf, m.opts, at)
  BY DEF Represents
<1>2. m.opts[k].val \in Seq(Byte)
  BY <1>1, SizeTyped
<1>3. m.opts[k].val = [j \in 1..ValLen(m.opts, k) |-> m.opts[k].val[j]]
  BY <1>2, SeqIsFcn DEF ValLen
<1>4. \A j \in 1..ValLen(m.opts, k) :
        p.buf[at[k] + HdrLen(m.opts, k) + j - 1] = m.opts[k].val[j]
  BY <1>1 DEF Laid, Holds
<1> QED  BY <1>3, <1>4 DEF Bytes

\* The values are read from where the iterator finds them.
LEMMA OptionsRead ==
  ASSUME NEW p, NEW m, NEW at, NEW marked, Represents(p, m, at, marked)
  PROVE  OptionsOf(p) = m.opts
<1> DEFINE n == Len(m.opts)
           opts == Iterated(p)
<1>0. n \in Nat /\ m.opts \in Seq(Opt) /\ InOrder(m.opts) /\ Laid(p.buf, m.opts, at)
  BY Parts DEF Represents
<1>1. opts = [k \in 1..n |-> Located(m.opts, at, k)]
  BY IteratedAll
<1>2. Len(opts) = n
  <2>1. \A k \in 1..n : Located(m.opts, at, k) \in Option
    BY LocatedTyped
  <2>2. opts \in [1..n -> Option]
    BY <1>1, <2>1
  <2> HIDE DEF opts
  <2> QED  BY <1>0, <2>2, FcnIsSeq
<1>3. OptionsOf(p) = [k \in 1..n |-> [num |-> opts[k].num,
                                     val |-> Bytes(p, opts[k].val, opts[k].len)]]
  BY <1>2 DEF OptionsOf, Values
<1>4. ASSUME NEW k \in 1..n
      PROVE  [num |-> opts[k].num, val |-> Bytes(p, opts[k].val, opts[k].len)] = m.opts[k]
  <2>1. /\ opts[k].num = m.opts[k].num /\ opts[k].len = ValLen(m.opts, k)
        /\ opts[k].val = at[k] + HdrLen(m.opts, k)
    BY <1>1 DEF Located
  <2>2. /\ m.opts[k] \in Opt /\ m.opts[k].val \in Seq(Byte)
    BY <1>0, SizeTyped
  <2>5. Bytes(p, at[k] + HdrLen(m.opts, k), ValLen(m.opts, k)) = m.opts[k].val
    BY LocatedBytes
  <2>6. m.opts[k] = [num |-> m.opts[k].num, val |-> m.opts[k].val]
    BY <2>2 DEF Opt
  <2> HIDE DEF opts
  <2> QED  BY <2>1, <2>5, <2>6
<1>5. m.opts = [k \in 1..n |-> m.opts[k]]
  BY <1>0, SeqIsFcn
<1> HIDE DEF opts, n
<1> QED  BY <1>3, <1>4, <1>5

\* The getters read the message the buffer represents.
THEOREM ReadsBack ==
  ASSUME NEW p, NEW m, NEW at, NEW marked, Represents(p, m, at, marked)
  PROVE  ReadBack(p) = m
<1>1. m = [type |-> m.type, code |-> m.code, mid |-> m.mid, tkl |-> m.tkl,
           token |-> m.token, opts |-> m.opts, payload |-> m.payload]
  BY DEF Represents, Msg
<1>2. ReadBack(p) = [type |-> coap_get_type(p), code |-> coap_get_code(p),
                     mid |-> coap_get_mid(p), tkl |-> coap_get_tkl(p),
                     token |-> coap_get_token(p), opts |-> OptionsOf(p),
                     payload |-> Bytes(p, coap_get_payload(p).val, coap_get_payload(p).len)]
  BY DEF ReadBack
<1>3. /\ coap_get_type(p) = m.type /\ coap_get_tkl(p) = m.tkl
      /\ coap_get_code(p) = m.code /\ coap_get_mid(p) = m.mid
      /\ coap_get_token(p) = m.token
  BY HeaderReads
<1>4. OptionsOf(p) = m.opts
  BY OptionsRead
<1>5. Bytes(p, coap_get_payload(p).val, coap_get_payload(p).len) = m.payload
  BY PayloadReads
<1> QED  BY <1>1, <1>2, <1>3, <1>4, <1>5

\* How many of the first k options have this number.
CountOf(opts, num, k) == Cardinality({j \in 1..k : opts[j].num = num})

\* The options with a number are finitely many.
LEMMA CountTyped ==
  ASSUME NEW opts, NEW num, NEW k \in Nat
  PROVE  IsFiniteSet({j \in 1..k : opts[j].num = num}) /\ CountOf(opts, num, k) \in Nat
<1> DEFINE S == {j \in 1..k : opts[j].num = num}
<1>1. IsFiniteSet(1..k)
  BY FS_Interval
<1>2. S \subseteq 1..k
  OBVIOUS
<1> HIDE DEF S
<1>3. IsFiniteSet(S)
  BY <1>1, <1>2, FS_Subset
<1>4. Cardinality(S) \in Nat
  BY <1>3, FS_CardinalityType
<1> QED  BY <1>3, <1>4 DEF CountOf, S

\* The count goes up by one at an option with the number, and only there.
LEMMA CountStep ==
  ASSUME NEW opts, NEW num, NEW k \in Nat
  PROVE  CountOf(opts, num, k + 1)
           = IF opts[k + 1].num = num THEN CountOf(opts, num, k) + 1 ELSE CountOf(opts, num, k)
<1> DEFINE S == {j \in 1..k : opts[j].num = num}
           T == {j \in 1..(k + 1) : opts[j].num = num}
<1>1. IsFiniteSet(S)
  BY CountTyped
<1>2. T = IF opts[k + 1].num = num THEN S \cup {k + 1} ELSE S
  OBVIOUS
<1>3. k + 1 \notin S
  OBVIOUS
<1> HIDE DEF S, T
<1>4. Cardinality(S \cup {k + 1}) = Cardinality(S) + 1
  BY <1>1, <1>3, FS_AddElement
<1>5. Cardinality(T) = IF opts[k + 1].num = num THEN Cardinality(S) + 1 ELSE Cardinality(S)
  BY <1>2, <1>4
<1> QED  BY <1>5 DEF CountOf, S, T

\* It never goes down.
LEMMA CountGrows ==
  ASSUME NEW opts, NEW num, NEW j \in Nat, NEW k \in Nat, j <= k
  PROVE  CountOf(opts, num, j) <= CountOf(opts, num, k)
<1> DEFINE S == {i \in 1..j : opts[i].num = num}
           T == {i \in 1..k : opts[i].num = num}
<1>1. S \subseteq T
  OBVIOUS
<1>2. IsFiniteSet(T)
  BY CountTyped
<1> HIDE DEF S, T
<1>3. Cardinality(S) <= Cardinality(T)
  BY <1>1, <1>2, FS_Subset
<1> QED  BY <1>3 DEF CountOf, S, T

\* coap_get_option_by_num finds the option that has as many of the same
\* number before it as it is asked for.
THEOREM FindsByNum ==
  ASSUME NEW p, NEW m, NEW at, NEW marked, Represents(p, m, at, marked),
         NEW q \in 1..Len(m.opts), NEW num, num = m.opts[q].num,
         NEW occ, occ = CountOf(m.opts, num, q - 1), occ < 255
  PROVE  coap_get_option_by_num(p, num, occ) = Located(m.opts, at, q)
<1> DEFINE n == Len(m.opts)
           L(k) == Located(m.opts, at, k)
           C(k) == CountOf(m.opts, num, k)
           D == [i : Byte, option : Option]
           u(s) == LookedUp(p, num, s)
           More(s) == /\ s.option.num \in 1..num /\ s.i <= occ
                      /\ Ahead(p, s.option, u(s).option)
           next == [s \in D |-> IF More(s) THEN u(s) ELSE s]
           r(s) == IF Reached(p, s.option) \in 0..(p.max + 1)
                   THEN Reached(p, s.option) ELSE 0
           rank == [s \in D |-> r(s)]
           st == [k \in 1..q |-> [i |-> C(k), option |-> L(k)]]
           start == [i |-> 0, option |-> NoOption]
<1>0. /\ n \in Nat /\ p.max \in Nat /\ InOrder(m.opts) /\ q \in Nat /\ q - 1 \in Nat
      /\ (q - 1) + 1 = q /\ q <= n
  BY Parts DEF Represents
<1>1. /\ num \in U16 /\ num # 0 /\ occ \in Nat
      /\ \A k \in 1..q : m.opts[k].num \in 1..num
  <2>1. num \in U16 /\ num # 0
    BY <1>0, SizeTyped
  <2>2. occ \in Nat
    BY <1>0, CountTyped
  <2>3. ASSUME NEW k \in 1..q PROVE m.opts[k].num \in 1..num
    <3>1. k \in 1..n /\ k <= q
      BY <1>0
    <3>2. m.opts[k].num \in U16 /\ m.opts[k].num # 0
      BY <1>0, <3>1, SizeTyped
    <3>3. m.opts[k].num <= num
      BY <1>0, <3>1 DEF InOrder
    <3>4. \A x, y \in U16 : x # 0 /\ x <= y => x \in 1..y
      BY DEF U16
    <3> QED  BY <2>1, <3>2, <3>3, <3>4
  <2> QED  BY <2>1, <2>2, <2>3
<1>2. /\ C(q) = occ + 1
      /\ \A k \in 1..q : C(k) \in Nat /\ C(k) <= occ + 1
      /\ \A k \in 1..q : k < q => C(k) <= occ
      /\ C(0) = 0
  <2>1. C(q) = occ + 1
    BY <1>0, CountStep
  <2>2. ASSUME NEW k \in 1..q PROVE C(k) \in Nat /\ C(k) <= occ + 1
    <3>1. k \in Nat /\ k <= q
      BY <1>0
    <3>2. C(k) \in Nat
      BY <3>1, CountTyped
    <3>3. C(k) <= C(q)
      BY <1>0, <3>1, CountGrows
    <3> QED  BY <2>1, <3>2, <3>3
  <2>3. ASSUME NEW k \in 1..q, k < q PROVE C(k) <= occ
    <3>1. k \in Nat /\ k <= q - 1
      BY <1>0, <2>3
    <3> QED  BY <1>0, <3>1, CountGrows
  <2>4. C(0) = 0
    <3>1. {j \in 1..0 : m.opts[j].num = num} = {}
      OBVIOUS
    <3> QED  BY <3>1, FS_EmptySet DEF CountOf
  <2> QED  BY <2>1, <2>2, <2>3, <2>4
<1> HIDE DEF C
<1>3. Climbs(next, rank, p.max + 1)
  <2>1. rank \in [D -> 0..(p.max + 1)] /\ DOMAIN next = D
    <3> HIDE DEF D
    <3>1. \A s \in D : r(s) \in 0..(p.max + 1)
      BY <1>0
    <3> QED  BY <3>1
  <2>2. ASSUME NEW s \in D, next[s] # s
        PROVE  next[s] \in D /\ rank[s] < rank[next[s]]
    <3>1. next[s] = u(s) /\ More(s)
      <4>1. next[s] = IF More(s) THEN u(s) ELSE s
        OBVIOUS
      <4> HIDE DEF next, More, u
      <4> QED  BY <2>2, <4>1
    <3> HIDE DEF next
    <3>2. /\ u(s).option \in Option
          /\ Reached(p, u(s).option) \in 1..(p.max + 1)
          /\ s.option.num # 0
          /\ s.option.num # 0 => Reached(p, s.option) < Reached(p, u(s).option)
      <4>1. s.option.num \in 1..num /\ Ahead(p, s.option, u(s).option)
        BY <3>1
      <4>2. s.option.num # 0
        BY <1>1, <4>1
      <4> QED  BY <4>1, <4>2 DEF Ahead
    <3>3. u(s) \in D
      <4>1. s.i \in Byte
        OBVIOUS
      <4>2. AsByte(s.i + 1) \in Byte
        <5>1. \A x \in Byte : AsByte(x + 1) \in Byte
          BY DEF AsByte, Byte
        <5> QED  BY <4>1, <5>1
      <4> DEFINE o == coap_get_option(p, s.option)
                 c == IF o.num = num THEN AsByte(s.i + 1) ELSE s.i
      <4>3. u(s) = [i |-> c, option |-> o]
        BY DEF LookedUp
      <4> HIDE DEF u, o
      <4>4. c \in Byte
        BY <4>1, <4>2
      <4> HIDE DEF c
      <4>5. u(s).option = o
        BY <4>3
      <4> QED  BY <3>2, <4>3, <4>4, <4>5
    <3> HIDE DEF u
    <3>4. r(u(s)) = Reached(p, u(s).option) /\ r(s) < Reached(p, u(s).option)
      BY <1>0, <3>2
    <3>5. rank[s] = r(s) /\ rank[u(s)] = r(u(s))
      BY <3>3
    <3> HIDE DEF rank, r
    <3> QED  BY <3>1, <3>3, <3>4, <3>5
  <2>3. p.max + 1 \in Nat
    BY <1>0
  <2> HIDE DEF next, rank, D
  <2> QED  BY <2>1, <2>2, <2>3 DEF Climbs
<1>4. ASSUME NEW k \in 1..q
      PROVE  /\ st[k] \in D /\ st[k].i = C(k) /\ st[k].option = L(k)
             /\ L(k).num = m.opts[k].num
  <2>1. k \in 1..n
    BY <1>0
  <2>2. L(k) \in Option /\ L(k).num = m.opts[k].num
    BY <2>1, LocatedTyped
  <2>3. C(k) \in Byte
    <3>1. C(k) \in Nat /\ C(k) <= occ + 1
      BY <1>2
    <3>2. \A x, y \in Nat : x <= y + 1 /\ y < 255 => x \in Byte
      BY DEF Byte
    <3> QED  BY <1>1, <3>1, <3>2
  <2> HIDE DEF L
  <2> QED  BY <2>2, <2>3
<1>5. ASSUME NEW k \in 0..(q - 1), NEW s, s.i = C(k), s.option = Previous(m.opts, at, k + 1)
      PROVE  /\ u(s) = st[k + 1]
             /\ Ahead(p, s.option, u(s).option)
  <2>1. /\ k + 1 \in 1..q /\ k + 1 \in 1..(n + 1) /\ k + 1 <= n /\ k \in Nat
    BY <1>0
  <2>2. coap_get_option(p, s.option) = L(k + 1) /\ Ahead(p, s.option, L(k + 1))
    BY <1>5, <2>1, IteratorStep
  <2>3. L(k + 1).num = m.opts[k + 1].num
    BY <1>4, <2>1
  <2>4. C(k + 1) = IF m.opts[k + 1].num = num THEN C(k) + 1 ELSE C(k)
    BY <2>1, CountStep DEF C
  <2>5. m.opts[k + 1].num = num => AsByte(C(k) + 1) = C(k + 1)
    <3>0. C(k + 1) \in Nat /\ C(k + 1) <= occ + 1
      BY <1>2, <2>1
    <3>1. C(k + 1) \in 0..255
      <4>1. \A x, y \in Nat : x <= y + 1 /\ y < 255 => x \in 0..255
        OBVIOUS
      <4> QED  BY <1>1, <3>0, <4>1
    <3>2. \A x \in 0..255 : AsByte(x) = x
      BY DEF AsByte
    <3> QED  BY <2>4, <3>1, <3>2
  <2>6. u(s) = [i |-> IF L(k + 1).num = num THEN AsByte(C(k) + 1) ELSE C(k),
                option |-> L(k + 1)]
    BY <1>5, <2>2 DEF LookedUp
  <2>7. st[k + 1] = [i |-> C(k + 1), option |-> L(k + 1)]
    BY <2>1
  <2> HIDE DEF u, st, L
  <2>8. u(s) = st[k + 1]
    BY <2>3, <2>4, <2>5, <2>6, <2>7
  <2>9. u(s).option = L(k + 1)
    BY <2>6
  <2> QED  BY <2>2, <2>8, <2>9
<1>6. ASSUME NEW k \in 1..q, k < q PROVE next[st[k]] = st[k + 1]
  <2>0. k \in 0..(q - 1) /\ k \in Nat /\ k + 1 # 1 /\ (k + 1) - 1 = k
    BY <1>0, <1>6
  <2>1. st[k] \in D /\ st[k].i = C(k) /\ st[k].option = L(k) /\ L(k).num = m.opts[k].num
    BY <1>4
  <2>2. L(k) = Previous(m.opts, at, k + 1)
    <3>1. Previous(m.opts, at, k + 1) = Located(m.opts, at, (k + 1) - 1)
      BY <2>0 DEF Previous
    <3> QED  BY <2>0, <3>1
  <2> HIDE DEF st, L
  <2>3. u(st[k]) = st[k + 1] /\ Ahead(p, st[k].option, u(st[k]).option)
    BY <1>5, <2>0, <2>1, <2>2
  <2>4. More(st[k])
    <3>1. C(k) <= occ /\ L(k).num \in 1..num
      BY <1>1, <1>2, <1>6, <2>1
    <3> HIDE DEF u
    <3> QED  BY <2>1, <2>3, <3>1
  <2>5. next[st[k]] = IF More(st[k]) THEN u(st[k]) ELSE st[k]
    <3> HIDE DEF More, u, D
    <3> QED  BY <2>1
  <2> HIDE DEF next, More, u
  <2> QED  BY <2>3, <2>4, <2>5
<1>7. next[st[q]] = st[q]
  <2>0. q \in 1..q
    BY <1>0
  <2>1. st[q] \in D /\ st[q].i = occ + 1
    BY <1>2, <1>4, <2>0
  <2> HIDE DEF st
  <2>2. ~More(st[q])
    <3>1. ~(st[q].i <= occ)
      BY <1>1, <2>1
    <3> QED  BY <3>1
  <2>3. next[st[q]] = IF More(st[q]) THEN u(st[q]) ELSE st[q]
    <3> HIDE DEF More, u, D
    <3> QED  BY <2>1
  <2> HIDE DEF next, More, u
  <2> QED  BY <2>2, <2>3
<1>8. Loop(next, st[1]) = st[q]
  <2>1. DOMAIN next = D
    OBVIOUS
  <2> HIDE DEF next, rank, st, D
  <2>2. Trace(next, st, q)
    <3>1. q \in Nat /\ 1 <= q
      BY <1>0
    <3>2. \A k \in 1..q : st[k] \in DOMAIN next
      BY <1>4, <2>1
    <3> QED  BY <1>6, <1>7, <3>1, <3>2 DEF Trace
  <2> QED  BY <1>3, <2>2, LoopEnds
<1>9. u(start) = st[1]
  <2>1. 0 \in 0..(q - 1) /\ 0 + 1 = 1
    BY <1>0
  <2>2. start.i = C(0) /\ start.option = Previous(m.opts, at, 0 + 1)
    BY <1>2, <2>1 DEF Previous
  <2> HIDE DEF start, u, st
  <2>3. u(start) = st[0 + 1]
    BY <1>5, <2>1, <2>2
  <2> QED  BY <2>1, <2>3
<1>10. coap_get_option_by_num(p, num, occ)
         = LET option == Loop(next, u(start)).option
           IN  IF option.num > num THEN NoOption ELSE option
  BY DEF coap_get_option_by_num
<1>11. Loop(next, u(start)).option = L(q) /\ ~(L(q).num > num)
  <2>0. q \in 1..q
    BY <1>0
  <2>1. st[q].option = L(q) /\ L(q).num = num
    BY <1>4, <2>0
  <2>2. ~(num > num)
    BY <1>1 DEF U16
  <2> HIDE DEF next, u, start, st, L
  <2> QED  BY <1>8, <1>9, <2>1, <2>2
<1> HIDE DEF next, u, start, L
<1>12. coap_get_option_by_num(p, num, occ) = L(q)
  BY <1>10, <1>11
<1> QED  BY <1>12 DEF L

-----------------------------------------------------------------------------
(* Memory.                                                                  *)

Buffer(buf, max) == max \in Nat /\ buf \in [0..(max - 1) -> Byte]

\* A copy of n bytes of val to offset to: what it needs and what it yields.
CopyFits(buf, max, to, val, n) ==
  /\ Buffer(buf, max) /\ to \in Nat /\ n \in Nat /\ to + n <= max
  /\ val \in [1..n -> Byte]

Copied(b, buf, max, to, val, n) ==
  /\ Buffer(b, max)
  /\ \A k \in 0..(max - 1) :
       b[k] = IF to <= k /\ k < to + n THEN val[k - to + 1] ELSE buf[k]

\* memcpy within the bounds of the buffer.
LEMMA MemcpyBytes ==
  ASSUME NEW max, NEW buf, NEW to, NEW n, NEW val, CopyFits(buf, max, to, val, n)
  PROVE  Copied(memcpy(buf, to, val, n), buf, max, to, val, n)
<1> DEFINE f(k) == IF to <= k /\ k < to + n THEN val[k - to + 1] ELSE buf[k]
<1>0. /\ max \in Nat /\ buf \in [0..(max - 1) -> Byte] /\ to \in Nat /\ n \in Nat
      /\ to + n <= max /\ val \in [1..n -> Byte]
  BY DEF CopyFits, Buffer
<1>1. DOMAIN buf \cup to..(to + n - 1) = 0..(max - 1)
  BY <1>0
<1>2. memcpy(buf, to, val, n) = [k \in 0..(max - 1) |-> f(k)]
  BY <1>1 DEF memcpy
<1>3. ASSUME NEW k \in 0..(max - 1) PROVE f(k) \in Byte
  <2>1. CASE to <= k /\ k < to + n
    <3>1. k - to + 1 \in 1..n
      BY <1>0, <2>1
    <3> QED  BY <1>0, <2>1, <3>1
  <2>2. CASE ~(to <= k /\ k < to + n)
    <3>1. buf[k] \in Byte
      BY <1>0
    <3> QED  BY <2>2, <3>1
  <2> QED  BY <2>1, <2>2
<1> HIDE DEF f
<1>4. /\ memcpy(buf, to, val, n) \in [0..(max - 1) -> Byte]
      /\ \A k \in 0..(max - 1) : memcpy(buf, to, val, n)[k] = f(k)
  BY <1>2, <1>3
<1> QED  BY <1>0, <1>4 DEF f, Copied, Buffer

\* The same for a move of n bytes within the buffer.
MoveFits(buf, max, to, from, n) ==
  /\ Buffer(buf, max) /\ to \in Nat /\ from \in Nat /\ n \in Nat
  /\ to + n <= max /\ from + n <= max

Shifted(b, buf, max, to, from, n) ==
  /\ Buffer(b, max)
  /\ \A k \in 0..(max - 1) :
       b[k] = IF to <= k /\ k < to + n THEN buf[k - to + from] ELSE buf[k]

\* memmove within the bounds of the buffer.
LEMMA MemmoveBytes ==
  ASSUME NEW max, NEW buf, NEW to, NEW from, NEW n, MoveFits(buf, max, to, from, n)
  PROVE  Shifted(memmove(buf, to, from, n), buf, max, to, from, n)
<1> DEFINE val == [k \in 1..n |-> buf[from + k - 1]]
           b == memcpy(buf, to, val, n)
<1>0. /\ max \in Nat /\ buf \in [0..(max - 1) -> Byte] /\ Buffer(buf, max)
      /\ to \in Nat /\ from \in Nat /\ n \in Nat /\ to + n <= max /\ from + n <= max
  BY DEF MoveFits, Buffer
<1>1. \A k \in 1..n : val[k] = buf[from + k - 1] /\ from + k - 1 \in 0..(max - 1)
  BY <1>0
<1>2. val \in [1..n -> Byte]
  BY <1>0, <1>1
<1>3. memmove(buf, to, from, n) = b
  BY DEF memmove
<1> HIDE DEF val
<1>4. CopyFits(buf, max, to, val, n)
  BY <1>0, <1>2 DEF CopyFits
<1>5. Copied(b, buf, max, to, val, n)
  BY <1>4, MemcpyBytes
<1> HIDE DEF b
<1>6. ASSUME NEW k \in 0..(max - 1), to <= k, k < to + n
      PROVE  val[k - to + 1] = buf[k - to + from]
  <2>1. k - to + 1 \in 1..n /\ from + (k - to + 1) - 1 = k - to + from
    BY <1>0, <1>6
  <2> QED  BY <1>1, <2>1
<1>7. Shifted(b, buf, max, to, from, n)
  BY <1>5, <1>6 DEF Copied, Shifted
<1> QED  BY <1>3, <1>7

\* Writing a header leaves a buffer of bytes of the same size.
LEMMA HeaderTyped ==
  ASSUME NEW max \in Nat, NEW buf \in [0..(max - 1) -> Byte],
         NEW ptr \in Nat, NEW delta \in U16, NEW len \in U16
  PROVE  coap_build_option_header(buf, ptr, delta, len) \in [0..(max - 1) -> Byte]
<1> DEFINE dx == ExtraLen(delta)
           nx == ExtraLen(len)
           f(k) == CASE k = ptr -> 16 * Base(delta) + Base(len)
                     [] ptr < k /\ k <= ptr + dx -> Extra(delta, k - ptr)
                     [] ptr + dx < k /\ k <= ptr + dx + nx -> Extra(len, k - ptr - dx)
                     [] OTHER -> buf[k]
<1>1. coap_build_option_header(buf, ptr, delta, len) = [k \in 0..(max - 1) |-> f(k)]
  BY DEF coap_build_option_header
<1>2. ASSUME NEW k \in 0..(max - 1) PROVE f(k) \in Byte
  <2>1. 16 * Base(delta) + Base(len) \in Byte
    <3>1. Base(delta) \in 0..14 /\ Base(len) \in 0..14
      BY BaseTyped
    <3>2. \A x, y \in 0..14 : 16 * x + y \in Byte
      BY DEF Byte
    <3> QED  BY <3>1, <3>2
  <2>2. Extra(delta, k - ptr) \in Byte /\ Extra(len, k - ptr - dx) \in Byte
    BY ExtraTyped
  <2>3. buf[k] \in Byte
    OBVIOUS
  <2>4. dx \in 0..2 /\ nx \in 0..2
    BY BaseTyped
  <2> HIDE DEF dx, nx
  <2>5. CASE k = ptr
    <3>1. ~(ptr < k) /\ ~(ptr + dx < k)
      BY <2>4, <2>5
    <3>2. f(k) = 16 * Base(delta) + Base(len)
      BY <2>5, <3>1, Zenon
    <3> QED  BY <2>1, <3>2
  <2>6. CASE ptr < k /\ k <= ptr + dx
    <3>1. k # ptr
      BY <2>6
    <3>2. f(k) = Extra(delta, k - ptr)
      BY <2>4, <2>6, <3>1
    <3> QED  BY <2>2, <3>2
  <2>7. CASE ptr + dx < k /\ k <= ptr + dx + nx
    <3>1. k # ptr /\ ~(ptr < k /\ k <= ptr + dx)
      BY <2>4, <2>7
    <3>2. f(k) = Extra(len, k - ptr - dx)
      BY <2>7, <3>1
    <3> QED  BY <2>2, <3>2
  <2>8. CASE /\ k # ptr /\ ~(ptr < k /\ k <= ptr + dx)
             /\ ~(ptr + dx < k /\ k <= ptr + dx + nx)
    <3>1. f(k) = buf[k]
      BY <2>8
    <3> QED  BY <2>3, <3>1
  <2> QED  BY <2>5, <2>6, <2>7, <2>8
<1> HIDE DEF f
<1> QED  BY <1>1, <1>2

\* An option that has moved with all its bytes.
LEMMA HoldsMoved ==
  ASSUME NEW opts, InOrder(opts), NEW k \in 1..Len(opts),
         NEW buf, NEW moved, NEW ptr \in Nat, NEW shift \in Int,
         Holds(buf, ptr, opts, k),
         \A j \in Nat : ptr <= j /\ j < ptr + Size(opts, k) => moved[j + shift] = buf[j]
  PROVE  Holds(moved, ptr + shift, opts, k)
<1> DEFINE d == Delta(opts, k)
           n == ValLen(opts, k)
           dx == ExtraLen(d)
           nx == ExtraLen(n)
<1>1. d \in U16 /\ n \in U16 /\ n \in Nat
  BY SizeTyped
<1>2. dx \in 0..2 /\ nx \in 0..2
  BY <1>1, BaseTyped
<1>3. HdrLen(opts, k) = 1 + dx + nx /\ Size(opts, k) = 1 + dx + nx + n
  BY <1>1, <1>2 DEF Size, HdrLen, coap_compute_option_header_len
<1>4. /\ buf[ptr] = 16 * Base(d) + Base(n)
      /\ \A j \in 1..dx : buf[ptr + 1 + j - 1] = Extra(d, j)
      /\ \A j \in 1..nx : buf[ptr + 1 + dx + j - 1] = Extra(n, j)
      /\ \A j \in 1..n : buf[ptr + (1 + dx + nx) + j - 1] = opts[k].val[j]
  BY <1>3 DEF Holds, HeaderAt
<1> HIDE DEF d, n, dx, nx
<1>5. \A i \in 0..(dx + nx + n) : moved[ptr + shift + i] = buf[ptr + i]
  <2> TAKE i \in 0..(dx + nx + n)
  <2>1. /\ ptr + i \in Nat /\ ptr <= ptr + i /\ ptr + i < ptr + Size(opts, k)
        /\ (ptr + i) + shift = ptr + shift + i
    BY <1>1, <1>2, <1>3
  <2> QED  BY <2>1
<1>6. moved[ptr + shift] = 16 * Base(d) + Base(n)
  <2>1. 0 \in 0..(dx + nx + n) /\ ptr + shift + 0 = ptr + shift /\ ptr + 0 = ptr
    BY <1>1, <1>2
  <2>2. moved[ptr + shift + 0] = buf[ptr + 0]
    BY <1>5, <2>1
  <2> QED  BY <1>4, <2>1, <2>2
<1>7. ASSUME NEW j \in 1..dx PROVE moved[ptr + shift + 1 + j - 1] = Extra(d, j)
  <2>1. /\ j \in 0..(dx + nx + n) /\ ptr + shift + 1 + j - 1 = ptr + shift + j
        /\ ptr + 1 + j - 1 = ptr + j
    BY <1>1, <1>2
  <2> QED  BY <1>4, <1>5, <2>1
<1>8. ASSUME NEW j \in 1..nx PROVE moved[ptr + shift + 1 + dx + j - 1] = Extra(n, j)
  <2>1. /\ dx + j \in 0..(dx + nx + n)
        /\ ptr + shift + 1 + dx + j - 1 = ptr + shift + (dx + j)
        /\ ptr + 1 + dx + j - 1 = ptr + (dx + j)
    BY <1>1, <1>2
  <2>2. moved[ptr + shift + (dx + j)] = buf[ptr + (dx + j)]
    BY <1>5, <2>1
  <2> QED  BY <1>4, <2>1, <2>2
<1>9. ASSUME NEW j \in 1..n
      PROVE  moved[ptr + shift + (1 + dx + nx) + j - 1] = opts[k].val[j]
  <2>1. /\ dx + nx + j \in 0..(dx + nx + n)
        /\ ptr + shift + (1 + dx + nx) + j - 1 = ptr + shift + (dx + nx + j)
        /\ ptr + (1 + dx + nx) + j - 1 = ptr + (dx + nx + j)
    BY <1>1, <1>2
  <2>2. moved[ptr + shift + (dx + nx + j)] = buf[ptr + (dx + nx + j)]
    BY <1>5, <2>1
  <2> QED  BY <1>4, <2>1, <2>2
<1>10. HeaderAt(moved, ptr + shift, Delta(opts, k), ValLen(opts, k))
  BY <1>6, <1>7, <1>8 DEF HeaderAt, d, n, dx, nx
<1>11. \A j \in 1..ValLen(opts, k) :
         moved[ptr + shift + HdrLen(opts, k) + j - 1] = opts[k].val[j]
  BY <1>3, <1>9 DEF n
<1> QED  BY <1>10, <1>11 DEF Holds

\* Every byte from offset from up to end lies shift bytes further on.
Moved(buf, moved, from, end, shift) ==
  \A j \in Nat : from <= j /\ j < end => moved[j + shift] = buf[j]

\* Options that have moved with all their bytes.
LEMMA LaidMoved ==
  ASSUME NEW opts, InOrder(opts), NEW buf, NEW at, Laid(buf, opts, at),
         NEW moved, NEW shift \in Int, at[1] + shift >= 0,
         Moved(buf, moved, at[1], at[Len(opts) + 1], shift)
  PROVE  Laid(moved, opts, [k \in 1..(Len(opts) + 1) |-> at[k] + shift])
<1> DEFINE n == Len(opts)
           to == [k \in 1..(n + 1) |-> at[k] + shift]
<1>0. n \in Nat
  BY DEF InOrder
<1>1. /\ at \in [1..(n + 1) -> Nat]
      /\ \A j, k \in 1..(n + 1) : j < k => at[j] < at[k]
      /\ \A k \in 1..n : Holds(buf, at[k], opts, k) /\ at[k + 1] = at[k] + Size(opts, k)
  BY DEF Laid
<1> HIDE DEF n
<1>2. \A k \in 1..(n + 1) : at[k] \in Nat /\ at[1] <= at[k] /\ at[k] <= at[n + 1]
  <2> TAKE k \in 1..(n + 1)
  <2>1. 1 \in 1..(n + 1) /\ n + 1 \in 1..(n + 1) /\ (k = 1 \/ 1 < k) /\ (k = n + 1 \/ k < n + 1)
    BY <1>0
  <2>2. at[k] \in Nat /\ at[1] \in Nat /\ at[n + 1] \in Nat
    BY <1>1, <2>1
  <2>3. (k = 1 \/ at[1] < at[k]) /\ (k = n + 1 \/ at[k] < at[n + 1])
    BY <1>1, <2>1
  <2> QED  BY <2>2, <2>3
<1>3. \A k \in 1..(n + 1) : to[k] = at[k] + shift /\ to[k] \in Nat
  <2> TAKE k \in 1..(n + 1)
  <2>1. 1 \in 1..(n + 1)
    BY <1>0
  <2>2. at[k] \in Nat /\ at[1] \in Nat /\ at[1] <= at[k]
    BY <1>2, <2>1
  <2> QED  BY <2>2
<1>4. to \in [1..(n + 1) -> Nat]
  BY <1>3
<1>5. ASSUME NEW j \in 1..(n + 1), NEW k \in 1..(n + 1), j < k PROVE to[j] < to[k]
  <2>1. at[j] < at[k] /\ at[j] \in Nat /\ at[k] \in Nat
    BY <1>1, <1>2, <1>5
  <2> QED  BY <1>3, <2>1
<1>6. ASSUME NEW k \in 1..n
      PROVE  Holds(moved, to[k], opts, k) /\ to[k + 1] = to[k] + Size(opts, k)
  <2>0. k \in 1..(n + 1) /\ k + 1 \in 1..(n + 1) /\ k \in 1..Len(opts)
    BY <1>0 DEF n
  <2>1. /\ at[k] \in Nat /\ at[k + 1] \in Nat /\ at[1] \in Nat /\ at[n + 1] \in Nat
        /\ at[1] <= at[k] /\ at[k + 1] <= at[n + 1]
        /\ at[k + 1] = at[k] + Size(opts, k) /\ Holds(buf, at[k], opts, k)
    BY <1>0, <1>1, <1>2, <2>0
  <2>2. Size(opts, k) \in Nat
    BY <2>0, SizeTyped
  <2>3. \A j \in Nat : at[k] <= j /\ j < at[k] + Size(opts, k) => moved[j + shift] = buf[j]
    <3> TAKE j \in Nat
    <3>1. at[k] <= j /\ j < at[k] + Size(opts, k) => at[1] <= j /\ j < at[n + 1]
      BY <2>1, <2>2
    <3> QED  BY <3>1 DEF Moved, n
  <2>4. Holds(moved, at[k] + shift, opts, k)
    BY <2>0, <2>1, <2>3, HoldsMoved
  <2>5. to[k] = at[k] + shift /\ to[k + 1] = at[k + 1] + shift
    BY <1>3, <2>0
  <2> HIDE DEF to
  <2>6. to[k + 1] = to[k] + Size(opts, k)
    BY <2>1, <2>2, <2>5
  <2> QED  BY <2>4, <2>5, <2>6
<1> HIDE DEF to
<1> QED  BY <1>4, <1>5, <1>6 DEF Laid, to, n

\* The end of a message that has moved with all its bytes.
LEMMA EndsMoved ==
  ASSUME NEW p, NEW q, NEW end \in Nat, NEW payload, Len(payload) \in Nat, NEW marked,
         marked \in BOOLEAN, NEW shift \in Int, Ends(p, end, payload, marked),
         q.len = p.len + shift, Moved(p.buf, q.buf, end, p.len, shift)
  PROVE  Ends(q, end + shift, payload, marked)
<1>1. CASE ~marked
  BY <1>1 DEF Ends
<1>2. CASE marked
  <2> DEFINE n == Len(payload)
  <2>1. /\ p.buf[end] = PayloadMarker /\ p.len = end + 1 + n
        /\ \A k \in 1..n : p.buf[end + k] = payload[k]
    BY <1>2 DEF Ends
  <2>0. n \in Nat
    OBVIOUS
  <2> HIDE DEF n
  <2>2. \A k \in 0..n : q.buf[end + shift + k] = p.buf[end + k]
    <3> TAKE k \in 0..n
    <3>1. /\ end + k \in Nat /\ end <= end + k /\ end + k < end + 1 + n
          /\ (end + k) + shift = end + shift + k
      BY <2>0
    <3>2. Moved(p.buf, q.buf, end, end + 1 + n, shift)
      BY <2>1
    <3> QED  BY <3>1, <3>2 DEF Moved
  <2>3. q.buf[end + shift] = PayloadMarker
    <3>1. 0 \in 0..n /\ end + shift + 0 = end + shift /\ end + 0 = end
      BY <2>0
    <3>2. q.buf[end + shift + 0] = p.buf[end + 0]
      BY <2>2, <3>1
    <3> QED  BY <2>1, <3>1, <3>2
  <2>4. q.len = end + shift + 1 + n
    <3>1. (end + 1 + n) + shift = end + shift + 1 + n
      BY <2>0
    <3> QED  BY <2>1, <3>1
  <2>5. \A k \in 1..n : q.buf[end + shift + k] = payload[k]
    <3> TAKE k \in 1..n
    <3>1. k \in 0..n
      BY <2>0
    <3> QED  BY <2>1, <2>2, <3>1
  <2> QED  BY <1>2, <2>3, <2>4, <2>5 DEF Ends, n
<1> QED  BY <1>1, <1>2

\* A message whose header has been rewritten and whose options and payload
\* have moved by as much as the token has grown.
LEMMA BodyMoved ==
  ASSUME NEW p, NEW m, NEW at, NEW marked, Represents(p, m, at, marked),
         NEW q, NEW w, NEW shift \in Int,
         q \in Pdu(p.max), q.len = p.len + shift,
         Moved(p.buf, q.buf, 4 + m.tkl, p.len, shift),
         w \in Msg, w.opts = m.opts, w.payload = m.payload, w.tkl = m.tkl + shift,
         HeaderOf(q, w)
  PROVE  \E to : Represents(q, w, to, marked)
<1> DEFINE n == Len(m.opts)
           end == at[n + 1]
           to == [k \in 1..(n + 1) |-> at[k] + shift]
<1>1. /\ p.len \in Nat /\ n \in Nat /\ m.tkl \in 0..8 /\ p.max \in Nat
      /\ Len(m.payload) \in Nat
      /\ at[1] = 4 + m.tkl /\ end \in Nat /\ 4 + m.tkl <= end /\ end <= p.len
      /\ 1 \in 1..(n + 1) /\ n + 1 \in 1..(n + 1)
  BY Parts
<1>2. /\ InOrder(m.opts) /\ Laid(p.buf, m.opts, at) /\ marked \in BOOLEAN
      /\ Ends(p, end, m.payload, marked)
  BY DEF Represents
<1>3. w.tkl \in 0..8 /\ q.max = p.max
  BY DEF Msg, Pdu
<1>4. Moved(p.buf, q.buf, at[1], end, shift)
  <2> SUFFICES ASSUME NEW j \in Nat, at[1] <= j, j < end PROVE q.buf[j + shift] = p.buf[j]
    BY DEF Moved
  <2>1. 4 + m.tkl <= j /\ j < p.len
    BY <1>1
  <2> QED  BY <2>1 DEF Moved
<1>5. at[1] + shift = 4 + w.tkl /\ at[1] + shift >= 0
  <2>1. \A x, y \in 0..8, s \in Int : y = x + s => (4 + x) + s = 4 + y /\ 4 + y >= 0
    OBVIOUS
  <2>2. (4 + m.tkl) + shift = 4 + w.tkl /\ 4 + w.tkl >= 0
    BY <1>1, <1>3, <2>1
  <2> QED  BY <1>1, <2>2
<1>6. Laid(q.buf, m.opts, to)
  BY <1>2, <1>4, <1>5, LaidMoved
<1>7. to[1] = 4 + w.tkl /\ to[n + 1] = end + shift
  BY <1>1, <1>5
<1> HIDE DEF to, n
<1>8. Ends(q, end + shift, m.payload, marked)
  <2>1. Moved(p.buf, q.buf, end, p.len, shift)
    <3> SUFFICES ASSUME NEW j \in Nat, end <= j, j < p.len PROVE q.buf[j + shift] = p.buf[j]
      BY DEF Moved
    <3>1. 4 + m.tkl <= j
      <4>1. 4 + m.tkl \in Nat /\ 4 + m.tkl <= end /\ end \in Nat
        BY <1>1
      <4>2. \A x, y, z \in Nat : x <= y /\ y <= z => x <= z
        OBVIOUS
      <4> QED  BY <4>1, <4>2
    <3> QED  BY <3>1 DEF Moved
  <2>2. end \in Nat /\ Len(m.payload) \in Nat
    BY <1>1
  <2> HIDE DEF end
  <2> QED  BY <1>2, <2>1, <2>2, EndsMoved
<1>9. Represents(q, w, to, marked)
  BY <1>1, <1>2, <1>3, <1>6, <1>7, <1>8 DEF Represents, n
<1> QED  BY <1>9

-----------------------------------------------------------------------------
(* Writing.                                                                 *)

\* A message whose fixed header has been rewritten in place.
LEMMA HeaderSet ==
  ASSUME NEW p, NEW m, NEW at, NEW marked, Represents(p, m, at, marked),
         NEW q, NEW w, q \in Pdu(p.max), q.len = p.len,
         \A j \in 4..(p.max - 1) : q.buf[j] = p.buf[j],
         w \in Msg, w.opts = m.opts, w.payload = m.payload,
         w.tkl = m.tkl, w.token = m.token,
         q.buf[0] = 64 + 16 * w.type + m.tkl, q.buf[1] = w.code,
         q.buf[2] = w.mid \div 256, q.buf[3] = w.mid % 256
  PROVE  \E to : Represents(q, w, to, marked)
<1>1. /\ p.max \in Nat /\ p.len \in Nat /\ p.len <= p.max /\ m.tkl \in 0..8
      /\ at[1] = 4 + m.tkl /\ 4 + m.tkl <= p.len
  BY Parts
<1>2. Moved(p.buf, q.buf, 4 + m.tkl, p.len, 0)
  <2> SUFFICES ASSUME NEW j \in Nat, 4 + m.tkl <= j, j < p.len PROVE q.buf[j + 0] = p.buf[j]
    BY DEF Moved
  <2>1. j \in 4..(p.max - 1) /\ j + 0 = j
    BY <1>1
  <2> QED  BY <2>1
<1>3. ASSUME NEW k \in 0..7 PROVE w.token[k] = IF k < m.tkl THEN q.buf[4 + k] ELSE 0
  <2>1. m.token[k] = IF k < m.tkl THEN p.buf[4 + k] ELSE 0
    BY DEF Represents, HeaderOf
  <2>2. k < m.tkl => 4 + k \in 4..(p.max - 1)
    BY <1>1
  <2> QED  BY <2>1, <2>2
<1>4. HeaderOf(q, w)
  BY <1>3 DEF HeaderOf
<1>5. q.len = p.len + 0 /\ w.tkl = m.tkl + 0 /\ 0 \in Int
  BY <1>1
<1> QED  BY <1>2, <1>4, <1>5, BodyMoved

\* A failed call leaves the message alone.
LEMMA FailedKeeps ==
  ASSUME NEW p, NEW m, NEW at, NEW marked, Represents(p, m, at, marked),
         NEW err \in Errors
  PROVE  /\ Failed(p, err).err = err /\ Failed(p, err).max = p.max
         /\ Failed(p, err).len = p.len
         /\ \E to : Represents(Failed(p, err), m, to, marked)
<1> DEFINE q == Failed(p, err)
<1>1. p \in Pdu(p.max) /\ m \in Msg /\ HeaderOf(p, m)
  BY DEF Represents
<1>2. q \in Pdu(p.max) /\ q.len = p.len /\ q.buf = p.buf /\ q.err = err /\ q.max = p.max
  BY <1>1 DEF Failed, Pdu
<1> HIDE DEF q
<1>3. \E to : Represents(q, m, to, marked)
  BY <1>1, <1>2, HeaderSet DEF HeaderOf
<1> QED  BY <1>2, <1>3 DEF q

\* A pdu with another buffer and another length.
Updated(q, p, b, l) == q = [p EXCEPT !.buf = b, !.len = l, !.err = "NONE"]

\* Its fields, and that it is a pdu if the buffer and the length fit.
LEMMA PduUpdated ==
  ASSUME NEW max, NEW p, NEW b, NEW l, NEW q, Updated(q, p, b, l),
         p \in Pdu(max), Buffer(b, max), l \in 0..max
  PROVE  /\ q \in Pdu(max) /\ q.buf = b /\ q.len = l /\ q.err = "NONE" /\ q.max = max
<1>1. q = [p EXCEPT !.buf = b, !.len = l, !.err = "NONE"]
  BY DEF Updated
<1>3. q = [buf |-> b, len |-> l, max |-> max, err |-> "NONE"]
  <2> DEFINE x == p.buf
             y == p.len
             z == p.err
  <2>1. p = [buf |-> x, len |-> y, max |-> max, err |-> z]
    BY DEF Pdu
  <2> HIDE DEF x, y, z
  <2> QED  BY <1>1, <2>1
<1>4. b \in [0..(max - 1) -> Byte] /\ "NONE" \in Errors
  BY DEF Buffer, Errors
<1> QED  BY <1>3, <1>4 DEF Pdu

\* One byte of the header is written: what that needs and what it yields.
StoreFits(p, max, k, v, n) ==
  max \in Nat /\ 4 <= max /\ p \in Pdu(max) /\ k \in 0..3 /\ v \in Byte /\ n \in 1..4

IsStored(q, p, max, k, v, n) ==
  /\ q \in Pdu(max) /\ q.err = "NONE" /\ q.max = max
  /\ q.len = IF p.len < n THEN n ELSE p.len
  /\ \A j \in 0..(max - 1) : q.buf[j] = IF j = k THEN v ELSE p.buf[j]

\* Storing a byte of the header changes this byte and no other.
LEMMA StoredByte ==
  ASSUME NEW max, NEW p, NEW k, NEW v, NEW n, StoreFits(p, max, k, v, n)
  PROVE  IsStored(Stored(p, k, v, n), p, max, k, v, n)
<1> DEFINE q == Stored(p, k, v, n)
           b == [p.buf EXCEPT ![k] = v]
           l == IF p.len < n THEN n ELSE p.len
<1>0. /\ max \in Nat /\ 4 <= max /\ p \in Pdu(max) /\ k \in 0..3 /\ v \in Byte
      /\ n \in 1..4
  BY DEF StoreFits
<1>1. p.buf \in [0..(max - 1) -> Byte] /\ p.len \in 0..max /\ p.max = max
  BY <1>0 DEF Pdu
<1>2. Updated(q, p, b, l)
  <2>1. ~(p.max < n)
    BY <1>0, <1>1
  <2> QED  BY <2>1 DEF Stored, Updated
<1>3. Buffer(b, max) /\ \A j \in 0..(max - 1) : b[j] = IF j = k THEN v ELSE p.buf[j]
  <2>1. b \in [0..(max - 1) -> Byte]
    BY <1>0, <1>1
  <2>2. \A j \in 0..(max - 1) : b[j] = IF j = k THEN v ELSE p.buf[j]
    BY <1>1
  <2> QED  BY <1>0, <2>1, <2>2 DEF Buffer
<1>4. l \in 0..max
  BY <1>0, <1>1
<1> HIDE DEF q, b, l
<1>5. /\ q \in Pdu(max) /\ q.buf = b /\ q.len = l /\ q.err = "NONE" /\ q.max = max
  <2>1. p \in Pdu(max) /\ Buffer(b, max) /\ l \in 0..max
    BY <1>0, <1>3, <1>4
  <2> QED  BY <1>2, <2>1, PduUpdated
<1>6. IsStored(q, p, max, k, v, n)
  BY <1>3, <1>5 DEF IsStored, l
<1> QED  BY <1>6 DEF q

\* coap_set_type changes the type and nothing else.
LEMMA SetsType ==
  ASSUME NEW p, NEW m, NEW at, NEW marked, Represents(p, m, at, marked),
         NEW t \in 0..3
  PROVE  /\ coap_set_type(p, t).err = "NONE" /\ coap_set_type(p, t).max = p.max
         /\ \E to : Represents(coap_set_type(p, t), [m EXCEPT !.type = t], to, marked)
<1> DEFINE v == 64 * (p.buf[0] \div 64) + 16 * t + (p.buf[0] % 16)
           q == Stored(p, 0, v, 1)
           w == [m EXCEPT !.type = t]
<1>1. /\ p \in Pdu(p.max) /\ p.max \in Nat /\ 4 <= p.max /\ p.len \in Nat
      /\ m.tkl \in 0..8 /\ m.type \in 0..3 /\ m \in Msg
  BY Parts DEF Represents, Msg
<1>2. /\ p.buf[0] = 64 + 16 * m.type + m.tkl /\ p.buf[1] = m.code
      /\ p.buf[2] = m.mid \div 256 /\ p.buf[3] = m.mid % 256
  BY DEF Represents, HeaderOf
<1>3. v = 64 + 16 * t + m.tkl /\ v \in Byte
  <2>1. \A x, y \in 0..3, n \in 0..8 :
          /\ 64 * ((64 + 16 * x + n) \div 64) + 16 * y + ((64 + 16 * x + n) % 16)
               = 64 + 16 * y + n
          /\ 64 + 16 * y + n \in Byte
    BY DEF Byte
  <2> QED  BY <1>1, <1>2, <2>1
<1> HIDE DEF v
<1>4. /\ q \in Pdu(p.max) /\ q.err = "NONE" /\ q.len = IF p.len < 1 THEN 1 ELSE p.len
      /\ \A j \in 0..(p.max - 1) : q.buf[j] = IF j = 0 THEN v ELSE p.buf[j]
  <2>1. StoreFits(p, p.max, 0, v, 1)
    BY <1>1, <1>3 DEF StoreFits
  <2>2. IsStored(q, p, p.max, 0, v, 1)
    BY <2>1, StoredByte
  <2> HIDE DEF q
  <2> QED  BY <2>2 DEF IsStored
<1> HIDE DEF q
<1>5. q.len = p.len
  <2>1. 4 + m.tkl <= p.len
    BY Parts
  <2> QED  BY <1>1, <1>4, <2>1
<1>6. /\ q.buf[0] = v /\ q.buf[1] = p.buf[1] /\ q.buf[2] = p.buf[2] /\ q.buf[3] = p.buf[3]
      /\ \A j \in 4..(p.max - 1) : q.buf[j] = p.buf[j]
  BY <1>1, <1>4
<1>7. /\ w \in Msg /\ w.type = t /\ w.code = m.code /\ w.mid = m.mid /\ w.tkl = m.tkl
      /\ w.token = m.token /\ w.opts = m.opts /\ w.payload = m.payload
  BY <1>1 DEF Msg
<1> HIDE DEF w
<1>8. \E to : Represents(q, w, to, marked)
  BY <1>2, <1>3, <1>4, <1>5, <1>6, <1>7, HeaderSet
<1>9. q.max = p.max
  BY <1>4 DEF Pdu
<1> QED  BY <1>4, <1>8, <1>9 DEF coap_set_type, q, v, w

\* coap_set_version finds the version already there.
LEMMA SetsVersion ==
  ASSUME NEW p, NEW m, NEW at, NEW marked, Represents(p, m, at, marked)
  PROVE  /\ coap_set_version(p, 1).err = "NONE" /\ coap_set_version(p, 1).max = p.max
         /\ \E to : Represents(coap_set_version(p, 1), m, to, marked)
<1> DEFINE v == 64 * 1 + (p.buf[0] % 64)
           q == Stored(p, 0, v, 1)
<1>1. /\ p \in Pdu(p.max) /\ p.max \in Nat /\ 4 <= p.max /\ p.len \in Nat
      /\ m.tkl \in 0..8 /\ m.type \in 0..3 /\ m \in Msg
  BY Parts DEF Represents, Msg
<1>2. /\ p.buf[0] = 64 + 16 * m.type + m.tkl /\ p.buf[1] = m.code
      /\ p.buf[2] = m.mid \div 256 /\ p.buf[3] = m.mid % 256
  BY DEF Represents, HeaderOf
<1>3. v = 64 + 16 * m.type + m.tkl /\ v \in Byte
  <2>1. \A x \in 0..3, n \in 0..8 :
          /\ 64 * 1 + ((64 + 16 * x + n) % 64) = 64 + 16 * x + n
          /\ 64 + 16 * x + n \in Byte
    BY DEF Byte
  <2> QED  BY <1>1, <1>2, <2>1
<1> HIDE DEF v
<1>4. /\ q \in Pdu(p.max) /\ q.err = "NONE" /\ q.len = IF p.len < 1 THEN 1 ELSE p.len
      /\ \A j \in 0..(p.max - 1) : q.buf[j] = IF j = 0 THEN v ELSE p.buf[j]
  <2>1. StoreFits(p, p.max, 0, v, 1)
    BY <1>1, <1>3 DEF StoreFits
  <2>2. IsStored(q, p, p.max, 0, v, 1)
    BY <2>1, StoredByte
  <2> HIDE DEF q
  <2> QED  BY <2>2 DEF IsStored
<1> HIDE DEF q
<1>5. q.len = p.len
  <2>1. 4 + m.tkl <= p.len
    BY Parts
  <2> QED  BY <1>1, <1>4, <2>1
<1>6. /\ q.buf[0] = v /\ q.buf[1] = p.buf[1] /\ q.buf[2] = p.buf[2] /\ q.buf[3] = p.buf[3]
      /\ \A j \in 4..(p.max - 1) : q.buf[j] = p.buf[j]
  BY <1>1, <1>4
<1>8. \E to : Represents(q, m, to, marked)
  BY <1>1, <1>2, <1>3, <1>4, <1>5, <1>6, HeaderSet
<1>9. q.max = p.max
  BY <1>4 DEF Pdu
<1> QED  BY <1>4, <1>8, <1>9 DEF coap_set_version, q, v

\* coap_set_code changes the code and nothing else.
LEMMA SetsCode ==
  ASSUME NEW p, NEW m, NEW at, NEW marked, Represents(p, m, at, marked),
         NEW c \in Byte
  PROVE  /\ coap_set_code(p, c).err = "NONE" /\ coap_set_code(p, c).max = p.max
         /\ \E to : Represents(coap_set_code(p, c), [m EXCEPT !.code = c], to, marked)
<1> DEFINE q == coap_set_code(p, c)
           w == [m EXCEPT !.code = c]
<1>1. /\ p \in Pdu(p.max) /\ p.max \in Nat /\ 4 <= p.max /\ p.len \in Nat
      /\ m.tkl \in 0..8 /\ m \in Msg /\ 4 + m.tkl <= p.len
  BY Parts DEF Represents
<1>2. /\ p.buf[0] = 64 + 16 * m.type + m.tkl /\ p.buf[1] = m.code
      /\ p.buf[2] = m.mid \div 256 /\ p.buf[3] = m.mid % 256
  BY DEF Represents, HeaderOf
<1>3. /\ q \in Pdu(p.max) /\ q.err = "NONE" /\ q.len = IF p.len < 2 THEN 2 ELSE p.len
      /\ \A j \in 0..(p.max - 1) : q.buf[j] = IF j = 1 THEN c ELSE p.buf[j]
  <2>1. StoreFits(p, p.max, 1, c, 2)
    BY <1>1 DEF StoreFits
  <2>2. IsStored(q, p, p.max, 1, c, 2)
    BY <2>1, StoredByte DEF coap_set_code
  <2> HIDE DEF q
  <2> QED  BY <2>2 DEF IsStored
<1> HIDE DEF q
<1>4. q.len = p.len
  BY <1>1, <1>3
<1>5. /\ q.buf[0] = p.buf[0] /\ q.buf[1] = c /\ q.buf[2] = p.buf[2] /\ q.buf[3] = p.buf[3]
      /\ \A j \in 4..(p.max - 1) : q.buf[j] = p.buf[j]
  BY <1>1, <1>3
<1>6. /\ w \in Msg /\ w.type = m.type /\ w.code = c /\ w.mid = m.mid /\ w.tkl = m.tkl
      /\ w.token = m.token /\ w.opts = m.opts /\ w.payload = m.payload
  BY <1>1 DEF Msg
<1> HIDE DEF w
<1>7. \E to : Represents(q, w, to, marked)
  BY <1>2, <1>3, <1>4, <1>5, <1>6, HeaderSet
<1>8. q.max = p.max
  BY <1>3 DEF Pdu
<1> QED  BY <1>3, <1>7, <1>8 DEF q, w

\* coap_set_mid changes the message id and nothing else.
LEMMA SetsMid ==
  ASSUME NEW p, NEW m, NEW at, NEW marked, Represents(p, m, at, marked),
         NEW mid \in U16
  PROVE  /\ coap_set_mid(p, mid).err = "NONE" /\ coap_set_mid(p, mid).max = p.max
         /\ \E to : Represents(coap_set_mid(p, mid), [m EXCEPT !.mid = mid], to, marked)
<1> DEFINE hi == mid \div 256
           lo == mid % 256
           h == Stored(p, 2, hi, 4)
           q == Stored(h, 3, lo, 4)
           w == [m EXCEPT !.mid = mid]
<1>1. /\ p \in Pdu(p.max) /\ p.max \in Nat /\ 4 <= p.max /\ p.len \in Nat
      /\ m.tkl \in 0..8 /\ m \in Msg /\ 4 + m.tkl <= p.len
  BY Parts DEF Represents
<1>2. /\ p.buf[0] = 64 + 16 * m.type + m.tkl /\ p.buf[1] = m.code
  BY DEF Represents, HeaderOf
<1>3. hi \in Byte /\ lo \in Byte
  BY DEF U16, Byte
<1> HIDE DEF hi, lo
<1>4. /\ h \in Pdu(p.max) /\ h.len = IF p.len < 4 THEN 4 ELSE p.len
      /\ \A j \in 0..(p.max - 1) : h.buf[j] = IF j = 2 THEN hi ELSE p.buf[j]
  <2>1. StoreFits(p, p.max, 2, hi, 4)
    BY <1>1, <1>3 DEF StoreFits
  <2>2. IsStored(h, p, p.max, 2, hi, 4)
    BY <2>1, StoredByte
  <2> HIDE DEF h
  <2> QED  BY <2>2 DEF IsStored
<1> HIDE DEF h
<1>5. /\ q \in Pdu(p.max) /\ q.err = "NONE" /\ q.len = IF h.len < 4 THEN 4 ELSE h.len
      /\ \A j \in 0..(p.max - 1) : q.buf[j] = IF j = 3 THEN lo ELSE h.buf[j]
  <2>1. StoreFits(h, p.max, 3, lo, 4)
    BY <1>1, <1>3, <1>4 DEF StoreFits
  <2>2. IsStored(q, h, p.max, 3, lo, 4)
    BY <2>1, StoredByte
  <2> HIDE DEF q
  <2> QED  BY <2>2 DEF IsStored
<1> HIDE DEF q
<1>6. q.len = p.len
  BY <1>1, <1>4, <1>5
<1>7. /\ q.buf[0] = p.buf[0] /\ q.buf[1] = p.buf[1] /\ q.buf[2] = hi /\ q.buf[3] = lo
      /\ \A j \in 4..(p.max - 1) : q.buf[j] = p.buf[j]
  BY <1>1, <1>4, <1>5
<1>8. /\ w \in Msg /\ w.type = m.type /\ w.code = m.code /\ w.mid = mid /\ w.tkl = m.tkl
      /\ w.token = m.token /\ w.opts = m.opts /\ w.payload = m.payload
  BY <1>1 DEF Msg
<1> HIDE DEF w
<1>9. \E to : Represents(q, w, to, marked)
  BY <1>2, <1>5, <1>6, <1>7, <1>8, HeaderSet DEF hi, lo
<1>10. q.max = p.max
  BY <1>5 DEF Pdu
<1> QED  BY <1>5, <1>9, <1>10 DEF coap_set_mid, q, h, hi, lo, w

\* What a call leaves behind: the new message, or an error and the old one.
Leaves(q, max, m, w, marked, remarked) ==
  /\ q.max = max
  /\ q.err = "NONE" => \E to : Represents(q, w, to, remarked)
  /\ q.err # "NONE" => \E to : Represents(q, m, to, marked)

\* A setter that needs this many bytes more succeeds exactly when there is
\* room for them.
Grows(q, p, size) ==
  /\ q.err = "NONE" <=> p.len + size <= p.max
  /\ q.len = IF q.err = "NONE" THEN p.len + size ELSE p.len

\* What writing the token needs, and the buffer it leaves: the rest of the
\* message has moved behind the token.
TokenFits(buf, max, len, type, old, token, tkl) ==
  /\ Buffer(buf, max) /\ len \in Nat /\ len <= max /\ old \in 0..8 /\ tkl \in 0..8
  /\ 4 + old <= len /\ 4 + tkl <= max /\ len + (tkl - old) <= max
  /\ type \in 0..3 /\ buf[0] = 64 + 16 * type + old /\ token \in [0..7 -> Byte]

RestMoved(buf, len, old, tkl) ==
  IF len > 4 THEN memmove(buf, 4 + tkl, 4 + old, len - (4 + old)) ELSE buf

TokenStands(b, buf, max, len, type, old, token, tkl) ==
  /\ Buffer(b, max) /\ b[0] = 64 + 16 * type + tkl
  /\ \A k \in 1..3 : b[k] = buf[k]
  /\ \A k \in 0..(tkl - 1) : b[4 + k] = token[k]
  /\ Moved(buf, b, 4 + old, len, tkl - old)

\* Writing the token yields that buffer.
LEMMA TokenBytes ==
  ASSUME NEW buf, NEW max, NEW len, NEW type, NEW old, NEW token, NEW tkl,
         TokenFits(buf, max, len, type, old, token, tkl)
  PROVE  TokenStands(TokenWritten(RestMoved(buf, len, old, tkl), token, tkl),
                     buf, max, len, type, old, token, tkl)
<1> SUFFICES
      ASSUME max \in Nat, buf \in [0..(max - 1) -> Byte], len \in Nat, len <= max,
             old \in 0..8, tkl \in 0..8, 4 + old <= len, 4 + tkl <= max,
             len + (tkl - old) <= max, type \in 0..3, buf[0] = 64 + 16 * type + old,
             token \in [0..7 -> Byte],
             NEW moved, moved = RestMoved(buf, len, old, tkl),
             NEW b, b = TokenWritten(moved, token, tkl)
      PROVE  TokenStands(b, buf, max, len, type, old, token, tkl)
  BY DEF TokenFits, Buffer
<1> DEFINE to == 4 + tkl
           from == 4 + old
           n == len - from
           val == [k \in 1..tkl |-> token[k - 1]]
           c == memcpy(moved, 4, val, tkl)
<1>1. /\ to \in Nat /\ from \in Nat /\ n \in Nat /\ to + n <= max /\ from + n <= max
      /\ to + n = len + (tkl - old)
  OBVIOUS
<1>2. /\ moved \in [0..(max - 1) -> Byte]
      /\ \A k \in 0..3 : moved[k] = buf[k]
      /\ \A k \in Nat : from <= k /\ k < len => moved[k + (tkl - old)] = buf[k]
  <2>1. CASE len > 4
    <3>1. moved = memmove(buf, to, from, n)
      BY <2>1 DEF RestMoved
    <3> HIDE DEF to, from, n
    <3>2. /\ moved \in [0..(max - 1) -> Byte]
          /\ \A k \in 0..(max - 1) :
               moved[k] = IF to <= k /\ k < to + n THEN buf[k - to + from] ELSE buf[k]
      <4>1. MoveFits(buf, max, to, from, n)
        BY <1>1 DEF MoveFits, Buffer
      <4>2. Shifted(moved, buf, max, to, from, n)
        BY <3>1, <4>1, MemmoveBytes
      <4> QED  BY <4>2 DEF Shifted, Buffer
    <3>3. ASSUME NEW k \in 0..3 PROVE moved[k] = buf[k]
      <4>1. k \in 0..(max - 1) /\ ~(to <= k)
        BY <2>1 DEF to
      <4> QED  BY <3>2, <4>1
    <3>4. ASSUME NEW k \in Nat, from <= k, k < len PROVE moved[k + (tkl - old)] = buf[k]
      <4>1. /\ k + (tkl - old) \in 0..(max - 1) /\ to <= k + (tkl - old)
            /\ k + (tkl - old) < to + n /\ (k + (tkl - old)) - to + from = k
        BY <3>4 DEF to, from, n
      <4> QED  BY <3>2, <4>1
    <3> QED  BY <3>2, <3>3, <3>4
  <2>2. CASE ~(len > 4)
    <3>1. moved = buf /\ ~\E k \in Nat : from <= k /\ k < len
      BY <2>2 DEF RestMoved
    <3>2. \A k \in 0..3 : moved[k] = buf[k]
      BY <3>1
    <3> QED  BY <3>1, <3>2
  <2> QED  BY <2>1, <2>2
<1>3. /\ c \in [0..(max - 1) -> Byte]
      /\ \A k \in 0..(max - 1) :
           c[k] = IF 4 <= k /\ k < 4 + tkl THEN val[k - 4 + 1] ELSE moved[k]
  <2>1. val \in [1..tkl -> Byte]
    <3>1. \A k \in 1..tkl : k - 1 \in 0..7
      OBVIOUS
    <3> QED  BY <3>1
  <2> HIDE DEF val
  <2>2. CopyFits(moved, max, 4, val, tkl)
    BY <1>2, <2>1 DEF CopyFits, Buffer
  <2>3. Copied(c, moved, max, 4, val, tkl)
    BY <2>2, MemcpyBytes
  <2> HIDE DEF c
  <2> QED  BY <2>3 DEF Copied, Buffer
<1>4. /\ tkl + 16 * (moved[0] \div 16) = 64 + 16 * type + tkl
      /\ 64 + 16 * type + tkl \in Byte
  <2>1. \A x \in 0..3, z, y \in 0..8 :
          /\ y + 16 * ((64 + 16 * x + z) \div 16) = 64 + 16 * x + y
          /\ 64 + 16 * x + y \in Byte
    BY DEF Byte
  <2>2. moved[0] = 64 + 16 * type + old
    BY <1>2
  <2>3. /\ tkl + 16 * ((64 + 16 * type + old) \div 16) = 64 + 16 * type + tkl
        /\ 64 + 16 * type + tkl \in Byte
    BY <2>1
  <2> QED  BY <2>2, <2>3
<1>5. b = [c EXCEPT ![0] = 64 + 16 * type + tkl]
  BY <1>4 DEF TokenWritten
<1> HIDE DEF c
<1>6. /\ b \in [0..(max - 1) -> Byte] /\ b[0] = 64 + 16 * type + tkl
      /\ \A k \in 0..(max - 1) : k # 0 => b[k] = c[k]
  BY <1>3, <1>4, <1>5
<1>7. ASSUME NEW k \in 1..3 PROVE b[k] = buf[k]
  <2>1. k \in 0..(max - 1) /\ k # 0 /\ k \in 0..3 /\ ~(4 <= k)
    OBVIOUS
  <2> HIDE DEF val
  <2>2. c[k] = moved[k]
    BY <1>3, <2>1
  <2> QED  BY <1>2, <1>6, <2>1, <2>2
<1>8. ASSUME NEW k \in 0..(tkl - 1) PROVE b[4 + k] = token[k]
  <2>1. /\ 4 + k \in 0..(max - 1) /\ 4 + k # 0 /\ 4 <= 4 + k /\ 4 + k < 4 + tkl
        /\ (4 + k) - 4 + 1 = k + 1 /\ k + 1 \in 1..tkl /\ (k + 1) - 1 = k
    OBVIOUS
  <2>2. val[k + 1] = token[(k + 1) - 1]
    BY <2>1
  <2> HIDE DEF val
  <2>3. c[4 + k] = val[(4 + k) - 4 + 1]
    BY <1>3, <2>1
  <2> QED  BY <1>6, <2>1, <2>2, <2>3
<1>9. Moved(buf, b, 4 + old, len, tkl - old)
  <2> SUFFICES ASSUME NEW j \in Nat, 4 + old <= j, j < len
               PROVE  b[j + (tkl - old)] = buf[j]
    BY DEF Moved
  <2>1. /\ j + (tkl - old) \in 0..(max - 1) /\ j + (tkl - old) # 0
        /\ ~(j + (tkl - old) < 4 + tkl)
    OBVIOUS
  <2> HIDE DEF val
  <2>2. c[j + (tkl - old)] = moved[j + (tkl - old)]
    BY <1>3, <2>1
  <2>3. moved[j + (tkl - old)] = buf[j]
    BY <1>2
  <2> QED  BY <1>6, <2>1, <2>2, <2>3
<1> QED  BY <1>6, <1>7, <1>8, <1>9 DEF TokenStands, Buffer

\* coap_set_token moves the options and the payload to where they belong
\* behind the new token, or fails and leaves the message alone.
LEMMA SetsToken ==
  ASSUME NEW p, NEW m, NEW at, NEW marked, Represents(p, m, at, marked),
         NEW tkl \in 0..15, NEW token \in [0..7 -> Byte],
         \A k \in 0..7 : k >= tkl => token[k] = 0
  PROVE  /\ Leaves(coap_set_token(p, token, tkl), p.max, m,
                   [m EXCEPT !.tkl = tkl, !.token = token], marked, marked)
         /\ tkl <= 8 => Grows(coap_set_token(p, token, tkl), p, tkl - m.tkl)
<1> DEFINE q == coap_set_token(p, token, tkl)
           w == [m EXCEPT !.tkl = tkl, !.token = token]
           rest == 4 + m.tkl
           shift == tkl - m.tkl
           max == p.max
           moved == IF p.len > 4 THEN memmove(p.buf, 4 + tkl, rest, p.len - rest) ELSE p.buf
           Full == p.max < 4 + tkl \/ (p.len > 4 /\ p.max < p.len + shift)
           done == [p EXCEPT !.buf = TokenWritten(moved, token, tkl),
                             !.len = @ + shift, !.err = "NONE"]
<1>1. /\ p \in Pdu(p.max) /\ p.max \in Nat /\ 4 <= p.max /\ p.len \in Nat
      /\ p.len <= p.max /\ p.buf \in [0..(p.max - 1) -> Byte]
      /\ m.tkl \in 0..8 /\ m.type \in 0..3 /\ m \in Msg /\ 4 + m.tkl <= p.len
  BY Parts DEF Represents, Msg
<1>2. /\ p.buf[0] = 64 + 16 * m.type + m.tkl /\ p.buf[1] = m.code
      /\ p.buf[2] = m.mid \div 256 /\ p.buf[3] = m.mid % 256
  BY DEF Represents, HeaderOf
<1>3. coap_get_tkl(p) = m.tkl
  BY HeaderReads
<1>4. q = IF p.max < 4 + tkl THEN Failed(p, "INSUFFICIENT_BUFFER")
          ELSE IF tkl > 8 THEN Failed(p, "INVALID_PACKET")
          ELSE IF p.len > 4 /\ p.max < p.len + shift THEN Failed(p, "INSUFFICIENT_BUFFER")
          ELSE done
  BY <1>3 DEF coap_set_token
<1>5. CASE Full \/ tkl > 8
  <2>1. q = Failed(p, "INSUFFICIENT_BUFFER") \/ q = Failed(p, "INVALID_PACKET")
    <3> HIDE DEF q, done
    <3> QED  BY <1>4, <1>5
  <2>2. PICK err \in Errors \ {"NONE"} : q = Failed(p, err)
    BY <2>1 DEF Errors
  <2> HIDE DEF q
  <2>3. /\ q.err # "NONE" /\ q.max = p.max /\ q.len = p.len
        /\ \E to : Represents(q, m, to, marked)
    BY <2>2, FailedKeeps
  <2>4. tkl <= 8 => ~(p.len + (tkl - m.tkl) <= p.max)
    <3>1. \A x, y \in 0..8, n, z \in Nat :
            4 + x <= n /\ (z < 4 + y \/ (n > 4 /\ z < n + (y - x))) =>
              ~(n + (y - x) <= z)
      OBVIOUS
    <3>2. tkl <= 8 => tkl \in 0..8 /\ ~(tkl > 8)
      OBVIOUS
    <3> QED  BY <1>1, <1>5, <3>1, <3>2
  <2>5. tkl <= 8 => Grows(q, p, tkl - m.tkl)
    BY <2>3, <2>4 DEF Grows
  <2> QED  BY <2>3, <2>5 DEF Leaves, q
<1>6. CASE ~Full /\ ~(tkl > 8)
  <2> DEFINE b == TokenWritten(moved, token, tkl)
             l == p.len + shift
  <2>0. q = done
    <3> HIDE DEF q, done
    <3> QED  BY <1>4, <1>6
  <2>1. tkl \in 0..8 /\ 4 + tkl <= max /\ p.len + (tkl - m.tkl) <= max /\ l \in 0..max
    <3>1. \A x \in 0..8, y \in 0..15, n, z \in Nat :
            4 + x <= n /\ n <= z /\ ~(z < 4 + y \/ (n > 4 /\ z < n + (y - x))) =>
              4 + y <= z /\ n + (y - x) \in 0..z /\ n + (y - x) <= z
      OBVIOUS
    <3>2. tkl \in 0..8
      BY <1>6
    <3> QED  BY <1>1, <1>6, <3>1, <3>2
  <2> HIDE DEF b
  <2>2. /\ b \in [0..(max - 1) -> Byte] /\ b[0] = 64 + 16 * m.type + tkl
        /\ \A k \in 1..3 : b[k] = p.buf[k]
        /\ \A k \in 0..(tkl - 1) : b[4 + k] = token[k]
        /\ Moved(p.buf, b, 4 + m.tkl, p.len, tkl - m.tkl)
    <3>1. TokenFits(p.buf, p.max, p.len, m.type, m.tkl, token, tkl)
      BY <1>1, <1>2, <2>1 DEF TokenFits, Buffer
    <3>2. b = TokenWritten(RestMoved(p.buf, p.len, m.tkl, tkl), token, tkl)
      BY DEF b, RestMoved
    <3>3. TokenStands(b, p.buf, p.max, p.len, m.type, m.tkl, token, tkl)
      BY <3>1, <3>2, TokenBytes
    <3> QED  BY <3>3 DEF TokenStands, Buffer
  <2>3. Updated(q, p, b, l)
    BY <2>0 DEF Updated, b
  <2> HIDE DEF q, done
  <2>4. q \in Pdu(max) /\ q.buf = b /\ q.len = l /\ q.err = "NONE" /\ q.max = max
    <3>1. Buffer(b, p.max)
      BY <1>1, <2>2 DEF Buffer
    <3> HIDE DEF l
    <3> QED  BY <1>1, <2>1, <2>3, <3>1, PduUpdated
  <2> HIDE DEF max
  <2>5. ASSUME NEW k \in 0..7 PROVE token[k] = IF k < tkl THEN b[4 + k] ELSE 0
    <3>1. CASE k < tkl
      <4>1. k \in 0..(tkl - 1)
        BY <2>1, <3>1
      <4> QED  BY <2>2, <3>1, <4>1
    <3>2. CASE ~(k < tkl)
      <4>1. k >= tkl
        BY <2>1, <3>2
      <4> QED  BY <3>2, <4>1
    <3> QED  BY <3>1, <3>2
  <2>6. b[1] = p.buf[1] /\ b[2] = p.buf[2] /\ b[3] = p.buf[3]
    BY <2>2
  <2>7. /\ w \in Msg /\ w.type = m.type /\ w.code = m.code /\ w.mid = m.mid
        /\ w.tkl = tkl /\ w.token = token /\ w.opts = m.opts /\ w.payload = m.payload
    BY <1>1, <2>1 DEF Msg
  <2> HIDE DEF w
  <2>8. w.tkl = m.tkl + shift /\ shift \in Int
    <3>1. \A x, y \in 0..8 : y = x + (y - x) /\ y - x \in Int
      OBVIOUS
    <3> QED  BY <1>1, <2>1, <2>7, <3>1
  <2>9. HeaderOf(q, w)
    BY <1>2, <2>2, <2>4, <2>5, <2>6, <2>7 DEF HeaderOf
  <2>10. Moved(p.buf, q.buf, 4 + m.tkl, p.len, shift)
    BY <2>2, <2>4
  <2> HIDE DEF shift
  <2>11. \E to : Represents(q, w, to, marked)
    BY <2>4, <2>7, <2>8, <2>9, <2>10, BodyMoved DEF max
  <2>12. Grows(q, p, tkl - m.tkl)
    BY <2>1, <2>4 DEF Grows, max, shift
  <2> QED  BY <2>4, <2>11, <2>12 DEF Leaves, q, w, max
<1> HIDE DEF q, w
<1> QED  BY <1>5, <1>6 DEF q, w

\* The length 0 of a token, written behind a header that is being built.
LEMMA NoTokenYet ==
  ASSUME NEW p, NEW max, max \in Nat, 4 <= max, p \in Pdu(max), p.len = 1, p.buf[0] = 112
  PROVE  LET q == coap_set_token(p, Token(0, 0), 0)
         IN  /\ q \in Pdu(max) /\ q.len = 1 /\ q.buf[0] = 112
             /\ \A j \in 0..(max - 1) : q.buf[j] = p.buf[j]
<1> DEFINE q == coap_set_token(p, Token(0, 0), 0)
           val == [k \in 1..0 |-> Token(0, 0)[k - 1]]
           c == memcpy(p.buf, 4, val, 0)
           b == TokenWritten(p.buf, Token(0, 0), 0)
<1>1. p.max = max /\ Buffer(p.buf, max)
  BY DEF Pdu, Buffer
<1>2. coap_get_tkl(p) = 0
  BY DEF coap_get_tkl
<1>3. Updated(q, p, b, 1)
  <2>1. ~(p.max < 4 + 0) /\ ~(0 > 8) /\ ~(p.len > 4) /\ 0 - 0 = 0 /\ 1 + 0 = 1
    BY <1>1
  <2>2. q = [p EXCEPT !.buf = b, !.len = 1 + (0 - 0), !.err = "NONE"]
    BY <1>2, <2>1 DEF coap_set_token
  <2> HIDE DEF b, q
  <2> QED  BY <2>1, <2>2 DEF Updated
<1>4. Buffer(c, max) /\ \A k \in 0..(max - 1) : c[k] = p.buf[k]
  <2>1. val \in [1..0 -> Byte]
    OBVIOUS
  <2> HIDE DEF val
  <2>2. CopyFits(p.buf, max, 4, val, 0)
    BY <1>1, <2>1 DEF CopyFits
  <2>3. Copied(c, p.buf, max, 4, val, 0)
    BY <2>2, MemcpyBytes
  <2> HIDE DEF c
  <2>4. \A k \in 0..(max - 1) : ~(4 <= k /\ k < 4 + 0)
    OBVIOUS
  <2> QED  BY <2>3, <2>4 DEF Copied
<1>5. b = [c EXCEPT ![0] = 112]
  <2>1. 0 + 16 * (p.buf[0] \div 16) = 112
    OBVIOUS
  <2> QED  BY <2>1 DEF TokenWritten
<1>6. c \in [0..(max - 1) -> Byte] /\ 0 \in 0..(max - 1) /\ 112 \in Byte
  BY <1>4 DEF Buffer, Byte
<1> HIDE DEF b, c, q
<1>7. Buffer(b, max) /\ b[0] = 112 /\ \A k \in 0..(max - 1) : b[k] = p.buf[k]
  <2>1. b \in [0..(max - 1) -> Byte]
    BY <1>5, <1>6
  <2>2. b[0] = 112 /\ \A k \in 0..(max - 1) : b[k] = p.buf[k]
    BY <1>4, <1>5, <1>6
  <2> QED  BY <2>1, <2>2 DEF Buffer
<1>8. q \in Pdu(max) /\ q.buf = b /\ q.len = 1
  <2>1. p \in Pdu(max) /\ Buffer(b, max) /\ 1 \in 0..max
    BY <1>7
  <2> QED  BY <1>3, <2>1, PduUpdated
<1> QED  BY <1>7, <1>8 DEF q

\* coap_init_pdu leaves an empty reset, whatever the buffer held.
LEMMA InitsPdu ==
  ASSUME NEW max, NEW p, max \in Nat, 4 <= max, p \in Pdu(max)
  PROVE  /\ coap_init_pdu(p).err = "NONE" /\ coap_init_pdu(p).max = max
         /\ \E at : Represents(coap_init_pdu(p), Ping, at, FALSE)
<1> DEFINE z == memcpy(p.buf, 0, Data(4, 0), 4)
           blank == [p EXCEPT !.len = 0, !.buf = z]
           v == coap_set_version(blank, 1)
           t == coap_set_type(v, 3)
           k == coap_set_token(t, Token(0, 0), 0)
           c == coap_set_code(k, 0)
           h == Stored(c, 2, 0, 4)
           q == Stored(h, 3, 0, 4)
<1>1. p.max = max /\ Buffer(p.buf, max) /\ p.err \in Errors
  BY DEF Pdu, Buffer
<1>2. Buffer(z, max) /\ \A j \in 0..3 : z[j] = 0
  <2> DEFINE d == Data(4, 0)
  <2>1. d \in [1..4 -> Byte] /\ \A j \in 1..4 : d[j] = 0
    BY DEF Data, Byte
  <2> HIDE DEF d
  <2>2. CopyFits(p.buf, max, 0, d, 4)
    BY <1>1, <2>1 DEF CopyFits
  <2>3. Copied(memcpy(p.buf, 0, d, 4), p.buf, max, 0, d, 4)
    BY <2>2, MemcpyBytes
  <2>4. \A j \in 0..3 : /\ j \in 0..(max - 1) /\ 0 <= j /\ j < 0 + 4
                        /\ j - 0 + 1 \in 1..4
    OBVIOUS
  <2> QED  BY <2>1, <2>3, <2>4 DEF Copied, d
<1> HIDE DEF z
<1>3. blank \in Pdu(max) /\ blank.buf = z /\ blank.len = 0
  <2>1. z \in [0..(max - 1) -> Byte] /\ 0 \in 0..max
    BY <1>2 DEF Buffer
  <2> QED  BY <2>1 DEF Pdu
<1> HIDE DEF blank
<1>4. IsStored(v, blank, max, 0, 64, 1)
  <2>1. 64 * 1 + (blank.buf[0] % 64) = 64
    <3>1. blank.buf[0] = 0
      BY <1>2, <1>3
    <3> QED  BY <3>1
  <2>2. v = Stored(blank, 0, 64, 1)
    BY <2>1 DEF coap_set_version
  <2>3. StoreFits(blank, max, 0, 64, 1)
    BY <1>3 DEF StoreFits, Byte
  <2> QED  BY <2>2, <2>3, StoredByte
<1> HIDE DEF v
<1>5. v \in Pdu(max) /\ v.len = 1 /\ v.buf[0] = 64 /\ \A j \in 1..3 : v.buf[j] = 0
  BY <1>2, <1>3, <1>4 DEF IsStored
<1>6. IsStored(t, v, max, 0, 112, 1)
  <2>1. 64 * (v.buf[0] \div 64) + 16 * 3 + (v.buf[0] % 16) = 112
    BY <1>5
  <2>2. t = Stored(v, 0, 112, 1)
    BY <2>1 DEF coap_set_type
  <2>3. StoreFits(v, max, 0, 112, 1)
    BY <1>5 DEF StoreFits, Byte
  <2> QED  BY <2>2, <2>3, StoredByte
<1> HIDE DEF t
<1>7. t \in Pdu(max) /\ t.len = 1 /\ t.buf[0] = 112 /\ \A j \in 1..3 : t.buf[j] = 0
  BY <1>5, <1>6 DEF IsStored
<1>8. /\ k \in Pdu(max) /\ k.len = 1 /\ k.buf[0] = 112
      /\ \A j \in 0..(max - 1) : k.buf[j] = t.buf[j]
  BY <1>7, NoTokenYet
<1> HIDE DEF k
<1>9. k.buf[1] = 0 /\ k.buf[2] = 0 /\ k.buf[3] = 0
  BY <1>7, <1>8
<1>10. IsStored(c, k, max, 1, 0, 2)
  <2>1. StoreFits(k, max, 1, 0, 2)
    BY <1>8 DEF StoreFits, Byte
  <2> QED  BY <2>1, StoredByte DEF coap_set_code
<1> HIDE DEF c
<1>11. /\ c \in Pdu(max) /\ c.len = 2 /\ c.buf[0] = 112 /\ c.buf[1] = 0
  BY <1>8, <1>10 DEF IsStored
<1>12. IsStored(h, c, max, 2, 0, 4)
  <2>1. StoreFits(c, max, 2, 0, 4)
    BY <1>11 DEF StoreFits, Byte
  <2> QED  BY <2>1, StoredByte
<1> HIDE DEF h
<1>13. h \in Pdu(max) /\ h.len = 4 /\ h.buf[0] = 112 /\ h.buf[1] = 0 /\ h.buf[2] = 0
  BY <1>11, <1>12 DEF IsStored
<1>14. IsStored(q, h, max, 3, 0, 4)
  <2>1. StoreFits(h, max, 3, 0, 4)
    BY <1>13 DEF StoreFits, Byte
  <2> QED  BY <2>1, StoredByte
<1> HIDE DEF q
<1>15. /\ q \in Pdu(max) /\ q.len = 4 /\ q.buf[0] = 112 /\ q.buf[1] = 0 /\ q.buf[2] = 0
       /\ q.buf[3] = 0 /\ q.max = max /\ q.err = "NONE"
  BY <1>13, <1>14 DEF IsStored
<1>16. coap_init_pdu(p) = q
  <2>1. ~(p.max < 4) /\ 0 \div 256 = 0 /\ 0 % 256 = 0
    BY <1>1
  <2> QED  BY <2>1 DEF coap_init_pdu, coap_set_mid, q, h, c, k, t, v, blank, z
<1>17. Represents(q, Ping, [j \in 1..1 |-> 4], FALSE)
  <2> DEFINE at == [j \in 1..1 |-> 4]
  <2>1. Ping \in Msg
    <3>1. Token(0, 0) \in [0..7 -> Byte]
      BY DEF Token, Byte
    <3>2. <<>> \in Seq(Opt) /\ <<>> \in Seq(Byte)
      OBVIOUS
    <3> QED  BY <3>1, <3>2 DEF Ping, Msg, Byte, U16
  <2>2. /\ Ping.type = 3 /\ Ping.code = 0 /\ Ping.mid = 0 /\ Ping.tkl = 0
        /\ Ping.token = Token(0, 0) /\ Ping.opts = <<>> /\ Ping.payload = <<>>
    BY DEF Ping
  <2>3. HeaderOf(q, Ping)
    <3>1. \A j \in 0..7 : Token(0, 0)[j] = 0 /\ ~(j < 0)
      BY DEF Token
    <3>2. 64 + 16 * 3 + 0 = 112 /\ 0 \div 256 = 0 /\ 0 % 256 = 0
      OBVIOUS
    <3> QED  BY <1>15, <2>2, <3>1, <3>2 DEF HeaderOf
  <2>4. Len(Ping.opts) = 0
    BY <2>2
  <2>5. at \in [1..(0 + 1) -> Nat] /\ at[1] = 4 /\ at[0 + 1] = 4
    OBVIOUS
  <2>6. InOrder(Ping.opts)
    BY <2>2 DEF InOrder
  <2> HIDE DEF at
  <2>7. Laid(q.buf, Ping.opts, at)
    <3>1. \A i, j \in 1..(0 + 1) : ~(i < j)
      OBVIOUS
    <3>2. 1..0 = {}
      OBVIOUS
    <3> QED  BY <2>4, <2>5, <3>1, <3>2 DEF Laid
  <2>8. Ends(q, at[Len(Ping.opts) + 1], Ping.payload, FALSE)
    BY <1>15, <2>2, <2>4, <2>5 DEF Ends
  <2>9. Represents(q, Ping, at, FALSE)
    <3>1. at[1] = 4 + Ping.tkl
      <4>1. 4 + 0 = 4
        OBVIOUS
      <4> QED  BY <2>2, <2>5, <4>1
    <3>2. q.max \in Nat /\ q \in Pdu(q.max) /\ FALSE \in BOOLEAN
      BY <1>15
    <3> QED  BY <2>1, <2>3, <2>6, <2>7, <2>8, <3>1, <3>2 DEF Represents
  <2> QED  BY <2>9 DEF at
<1> QED  BY <1>15, <1>16, <1>17

\* The bytes of an option header stay a header.
LEMMA HeaderKept ==
  ASSUME NEW buf, NEW kept, NEW ptr \in Nat, NEW delta \in U16, NEW len \in U16,
         HeaderAt(buf, ptr, delta, len),
         \A j \in Nat : ptr <= j /\ j < ptr + coap_compute_option_header_len(delta, len)
                          => kept[j] = buf[j]
  PROVE  HeaderAt(kept, ptr, delta, len)
<1> DEFINE dx == ExtraLen(delta)
           nx == ExtraLen(len)
<1>1. dx \in 0..2 /\ nx \in 0..2
  BY BaseTyped
<1>2. coap_compute_option_header_len(delta, len) = 1 + dx + nx
  BY DEF coap_compute_option_header_len
<1>3. /\ buf[ptr] = 16 * Base(delta) + Base(len)
      /\ \A j \in 1..dx : buf[ptr + 1 + j - 1] = Extra(delta, j)
      /\ \A j \in 1..nx : buf[ptr + 1 + dx + j - 1] = Extra(len, j)
  BY DEF HeaderAt
<1> HIDE DEF dx, nx
<1>4. kept[ptr] = buf[ptr]
  BY <1>1, <1>2
<1>5. ASSUME NEW j \in 1..dx PROVE kept[ptr + 1 + j - 1] = Extra(delta, j)
  <2>1. ptr + 1 + j - 1 \in Nat /\ ptr <= ptr + 1 + j - 1 /\ ptr + 1 + j - 1 < ptr + (1 + dx + nx)
    BY <1>1
  <2> QED  BY <1>2, <1>3, <2>1
<1>6. ASSUME NEW j \in 1..nx PROVE kept[ptr + 1 + dx + j - 1] = Extra(len, j)
  <2>1. /\ ptr + 1 + dx + j - 1 \in Nat /\ ptr <= ptr + 1 + dx + j - 1
        /\ ptr + 1 + dx + j - 1 < ptr + (1 + dx + nx)
    BY <1>1
  <2> QED  BY <1>2, <1>3, <2>1
<1> QED  BY <1>3, <1>4, <1>5, <1>6 DEF HeaderAt, dx, nx

\* What writing an option needs, and the buffer it leaves.
OptionFits(buf, max, ptr, delta, val, n) ==
  /\ Buffer(buf, max) /\ ptr \in Nat /\ delta \in U16 /\ n \in U16 /\ val \in [1..n -> Byte]
  /\ ptr + coap_compute_option_header_len(delta, n) + n <= max

OptionStands(b, buf, max, ptr, delta, val, n) ==
  LET after == ptr + coap_compute_option_header_len(delta, n)
  IN  /\ Buffer(b, max) /\ HeaderAt(b, ptr, delta, n)
      /\ \A j \in 1..n : b[after + j - 1] = val[j]
      /\ \A k \in 0..(max - 1) : k < ptr \/ k >= after + n => b[k] = buf[k]

OptionWritten(buf, ptr, delta, val, n) ==
  memcpy(coap_build_option_header(buf, ptr, delta, n),
         ptr + coap_compute_option_header_len(delta, n), val, n)

\* Writing an option changes only the bytes it takes.
LEMMA OptionBytes ==
  ASSUME NEW buf, NEW max, NEW ptr, NEW delta, NEW val, NEW n,
         OptionFits(buf, max, ptr, delta, val, n)
  PROVE  OptionStands(OptionWritten(buf, ptr, delta, val, n), buf, max, ptr, delta, val, n)
<1> DEFINE hdr == coap_compute_option_header_len(delta, n)
           after == ptr + hdr
           g == coap_build_option_header(buf, ptr, delta, n)
           b == memcpy(g, after, val, n)
<1>1. /\ max \in Nat /\ buf \in [0..(max - 1) -> Byte] /\ DOMAIN buf = 0..(max - 1)
      /\ ptr \in Nat /\ delta \in U16 /\ n \in U16 /\ n \in Nat
      /\ val \in [1..n -> Byte] /\ ptr + hdr + n <= max
  BY DEF OptionFits, Buffer, U16
<1>2. hdr \in 1..5
  <2>1. ExtraLen(delta) \in 0..2 /\ ExtraLen(n) \in 0..2
    BY <1>1, BaseTyped
  <2> QED  BY <2>1 DEF coap_compute_option_header_len
<1>3. ptr + hdr <= max
  <2> HIDE DEF hdr
  <2> QED  BY <1>1, <1>2
<1>4. g \in [0..(max - 1) -> Byte]
  BY <1>1, HeaderTyped
<1>5. HeaderAt(g, ptr, delta, n)
  BY <1>1, <1>3, HeaderBytes
<1>6. ASSUME NEW k \in 0..(max - 1), k < ptr \/ k >= ptr + hdr PROVE g[k] = buf[k]
  <2>1. max \in Nat /\ DOMAIN buf = 0..(max - 1) /\ ptr \in Nat /\ delta \in U16 /\ n \in U16
    BY <1>1
  <2> QED  BY <1>6, <2>1, HeaderFrame
<1> HIDE DEF g, hdr
<1>7. CopyFits(g, max, after, val, n)
  <2>1. after \in Nat /\ after + n <= max
    BY <1>1, <1>2
  <2> HIDE DEF after
  <2> QED  BY <1>1, <1>4, <2>1 DEF CopyFits, Buffer
<1>8. Copied(b, g, max, after, val, n)
  <2> HIDE DEF after
  <2> QED  BY <1>7, MemcpyBytes
<1> HIDE DEF b
<1>9. /\ Buffer(b, max)
      /\ \A k \in 0..(max - 1) :
           b[k] = IF after <= k /\ k < after + n THEN val[k - after + 1] ELSE g[k]
  BY <1>8 DEF Copied
<1>10. HeaderAt(b, ptr, delta, n)
  <2>1. \A j \in Nat : ptr <= j /\ j < ptr + hdr => b[j] = g[j]
    <3> SUFFICES ASSUME NEW j \in Nat, ptr <= j, j < ptr + hdr PROVE b[j] = g[j]
      OBVIOUS
    <3>1. j \in 0..(max - 1) /\ ~(after <= j)
      BY <1>1, <1>2, <1>3
    <3> QED  BY <1>9, <3>1
  <2> QED  BY <1>1, <1>5, <2>1, HeaderKept DEF hdr
<1>11. ASSUME NEW j \in 1..n PROVE b[after + j - 1] = val[j]
  <2>1. /\ after + j - 1 \in 0..(max - 1) /\ after <= after + j - 1
        /\ after + j - 1 < after + n /\ (after + j - 1) - after + 1 = j
    BY <1>1, <1>2
  <2> HIDE DEF after
  <2>2. b[after + j - 1] = val[(after + j - 1) - after + 1]
    BY <1>9, <2>1
  <2> QED  BY <2>1, <2>2
<1>12. ASSUME NEW k \in 0..(max - 1), k < ptr \/ k >= after + n PROVE b[k] = buf[k]
  <2>1. ~(after <= k /\ k < after + n) /\ (k < ptr \/ k >= ptr + hdr)
    BY <1>1, <1>2, <1>12
  <2> QED  BY <1>6, <1>9, <2>1
<1>13. OptionStands(b, buf, max, ptr, delta, val, n)
  BY <1>9, <1>10, <1>11, <1>12 DEF OptionStands, hdr
<1> QED  BY <1>13 DEF OptionWritten, b, g, hdr

\* Behind the options there is nothing to adjust: the loop stops at the
\* payload marker.
LEMMA NothingToAdjust ==
  ASSUME NEW buf, NEW max, NEW start, NEW length, NEW room, NEW offset,
         Buffer(buf, max), start \in Nat, buf[start] = PayloadMarker,
         length \in Nat, length # 0, room \in Nat
  PROVE  LET s == coap_adjust_option_deltas(buf, start, length, room, offset)
         IN  s.buf = buf /\ s.opts_len = length
<1> DEFINE W == [buf : [DOMAIN buf -> Int], opts_len : Int, num : U16,
                 ptr : 0..(start + room)]
           d(s) == coap_decode_option(s.buf, s.ptr, s.opts_len - (s.ptr - start))
           fopt(s) == AsU16(s.num + d(s).delta)
           nopt(s) == AsU16(fopt(s) + offset)
           grown(s) == coap_compute_option_header_len(nopt(s), d(s).len) - (d(s).val - s.ptr)
           t(s) == [buf |-> coap_build_option_header(
                              memmove(s.buf, d(s).val + grown(s), d(s).val, d(s).len),
                              s.ptr, nopt(s), d(s).len),
                    opts_len |-> s.opts_len + grown(s), num |-> fopt(s),
                    ptr |-> d(s).val + d(s).len]
           More(s) == /\ s.ptr - start <= s.opts_len /\ d(s).err = "NONE"
                      /\ grown(s) # 0 => s.opts_len + grown(s) <= room
                      /\ s.ptr < t(s).ptr /\ t(s) \in W
           next == [s \in W |-> IF More(s) THEN t(s) ELSE s]
           rank == [s \in W |-> s.ptr]
           s0 == [buf |-> buf, opts_len |-> length, num |-> 0, ptr |-> start]
<1>1. coap_adjust_option_deltas(buf, start, length, room, offset) = Loop(next, s0)
  BY DEF coap_adjust_option_deltas
<1>2. s0 \in W
  <2>1. buf \in [DOMAIN buf -> Int]
    <3>1. buf \in [0..(max - 1) -> Byte] /\ Byte \subseteq Int
      BY DEF Buffer, Byte
    <3> QED  BY <3>1
  <2>2. length \in Int /\ 0 \in U16 /\ start \in 0..(start + room)
    BY DEF U16
  <2> QED  BY <2>1, <2>2
<1>3. ~More(s0)
  <2>1. s0.buf = buf /\ s0.ptr = start /\ s0.opts_len = length
    OBVIOUS
  <2>2. length - (start - start) # 0
    OBVIOUS
  <2>3. coap_decode_option(buf, start, length - (start - start)).err = "FOUND_PAYLOAD_MARKER"
    BY <2>2 DEF coap_decode_option, Decoded
  <2> HIDE DEF s0, t, grown
  <2>4. d(s0).err = "FOUND_PAYLOAD_MARKER"
    BY <2>1, <2>3
  <2> HIDE DEF d
  <2> QED  BY <2>4
<1>4. Climbs(next, rank, start + room)
  <2> HIDE DEF t
  <2>1. \A s \in W : rank[s] = s.ptr /\ s.ptr \in 0..(start + room)
    OBVIOUS
  <2>2. DOMAIN next = W /\ rank \in [W -> 0..(start + room)]
    OBVIOUS
  <2>3. ASSUME NEW s \in W, next[s] # s PROVE next[s] \in W /\ rank[s] < rank[next[s]]
    <3>1. next[s] = IF More(s) THEN t(s) ELSE s
      <4> HIDE DEF More, W
      <4> QED  OBVIOUS
    <3> HIDE DEF next
    <3>2. next[s] = t(s) /\ More(s)
      <4> HIDE DEF More
      <4> QED  BY <2>3, <3>1
    <3>3. s.ptr < t(s).ptr /\ t(s) \in W
      BY <3>2
    <3>4. rank[s] = s.ptr /\ rank[t(s)] = t(s).ptr
      BY <2>1, <3>3
    <3> HIDE DEF rank, W
    <3> QED  BY <3>2, <3>3, <3>4
  <2>4. start + room \in Nat
    OBVIOUS
  <2> HIDE DEF next, rank, W
  <2> QED  BY <2>2, <2>3, <2>4 DEF Climbs
<1>5. next[s0] = s0 /\ s0 \in DOMAIN next
  <2>1. next[s0] = IF More(s0) THEN t(s0) ELSE s0
    <3> HIDE DEF More, t, W, s0
    <3> QED  BY <1>2
  <2>2. s0 \in DOMAIN next
    <3> HIDE DEF More, t, W, s0
    <3> QED  BY <1>2
  <2> HIDE DEF More, t, s0, next
  <2> QED  BY <1>3, <2>1, <2>2
<1>6. s0.buf = buf /\ s0.opts_len = length
  OBVIOUS
<1> HIDE DEF next, rank, s0
<1>7. Loop(next, s0) = s0
  BY <1>4, <1>5, LoopUnfolds
<1> QED  BY <1>1, <1>6, <1>7

\* What may be added behind these options.
Follows(opts, o) ==
  InOrder(opts) /\ o \in Opt /\ \A k \in 1..Len(opts) : opts[k].num <= o.num

\* The first n options are the same in both.
Alike(opts, more, n) ==
  \A k \in 1..n : /\ Size(more, k) = Size(opts, k)
                  /\ \A buf, ptr : Holds(buf, ptr, opts, k) => Holds(buf, ptr, more, k)

\* One more option leaves those before it as they are.
LEMMA OptsAppended ==
  ASSUME NEW opts, NEW o, Follows(opts, o), NEW more, more = Append(opts, o)
  PROVE  /\ InOrder(more) /\ Len(opts) \in Nat /\ Len(more) = Len(opts) + 1
         /\ more[Len(opts) + 1] = o
         /\ NumBefore(more, Len(opts) + 1) = NumBefore(opts, Len(opts) + 1)
         /\ Alike(opts, more, Len(opts))
<1> DEFINE n == Len(opts)
<1>1. /\ opts \in Seq(Opt) /\ n \in Nat /\ o \in Opt
      /\ \A j, k \in 1..n : j <= k => opts[j].num <= opts[k].num
      /\ \A k \in 1..n : opts[k].num <= o.num
  BY DEF Follows, InOrder
<1>2. /\ more \in Seq(Opt) /\ Len(more) = n + 1 /\ more[n + 1] = o
      /\ \A k \in 1..n : more[k] = opts[k]
  BY <1>1
<1> HIDE DEF n
<1>3. ASSUME NEW k \in 1..n
      PROVE  /\ NumBefore(more, k) = NumBefore(opts, k) /\ Delta(more, k) = Delta(opts, k)
             /\ ValLen(more, k) = ValLen(opts, k) /\ HdrLen(more, k) = HdrLen(opts, k)
             /\ Size(more, k) = Size(opts, k) /\ more[k] = opts[k]
  <2>1. more[k] = opts[k]
    BY <1>2
  <2>2. NumBefore(more, k) = NumBefore(opts, k)
    <3>1. CASE k = 1
      BY <3>1 DEF NumBefore
    <3>2. CASE k # 1
      <4>1. k - 1 \in 1..n
        BY <1>1, <3>2
      <4>2. more[k - 1] = opts[k - 1]
        BY <1>2, <4>1
      <4> QED  BY <3>2, <4>2 DEF NumBefore
    <3> QED  BY <3>1, <3>2
  <2>3. Delta(more, k) = Delta(opts, k) /\ ValLen(more, k) = ValLen(opts, k)
    BY <2>1, <2>2 DEF Delta, ValLen
  <2>4. HdrLen(more, k) = HdrLen(opts, k)
    BY <2>3 DEF HdrLen
  <2> QED  BY <2>1, <2>2, <2>3, <2>4 DEF Size
<1>4. ASSUME NEW k \in 1..n, NEW buf, NEW ptr, Holds(buf, ptr, opts, k)
      PROVE  Holds(buf, ptr, more, k)
  BY <1>3, <1>4 DEF Holds
<1>5. NumBefore(more, n + 1) = NumBefore(opts, n + 1)
  <2>1. CASE n + 1 = 1
    BY <2>1 DEF NumBefore
  <2>2. CASE n + 1 # 1
    <3>1. (n + 1) - 1 \in 1..n
      BY <1>1, <2>2
    <3>2. more[(n + 1) - 1] = opts[(n + 1) - 1]
      BY <1>2, <3>1
    <3> QED  BY <2>2, <3>2 DEF NumBefore
  <2> QED  BY <2>1, <2>2
<1>6. InOrder(more)
  <2>1. ASSUME NEW j \in 1..(n + 1), NEW k \in 1..(n + 1), j <= k
        PROVE  more[j].num <= more[k].num
    <3>1. CASE k # n + 1
      <4>1. k \in 1..n /\ j \in 1..n
        BY <1>1, <2>1, <3>1
      <4> QED  BY <1>1, <1>2, <2>1, <4>1
    <3>2. CASE k = n + 1 /\ j # n + 1
      <4>1. j \in 1..n
        BY <1>1, <3>2
      <4> QED  BY <1>1, <1>2, <3>2, <4>1
    <3>3. CASE k = n + 1 /\ j = n + 1
      <4>1. o.num \in U16
        BY <1>1 DEF Opt
      <4>2. \A x \in U16 : x <= x
        BY DEF U16
      <4> QED  BY <1>2, <3>3, <4>1, <4>2
    <3> QED  BY <3>1, <3>2, <3>3
  <2> QED  BY <1>2, <2>1 DEF InOrder
<1> QED  BY <1>1, <1>2, <1>3, <1>4, <1>5, <1>6 DEF Alike, n

\* The buffer in which room has been made for an option of this size: what
\* that needs and what it yields.
RoomFits(buf, max, len, end, size) ==
  /\ Buffer(buf, max) /\ len \in Nat /\ end \in Nat /\ end <= len
  /\ size \in Nat /\ len + size <= max

RoomMade(b, buf, len, end, size) ==
  /\ \A k \in 0..(end - 1) : b[k] = buf[k]
  /\ Moved(buf, b, end, len, size)

\* As long as no byte before the end of the options changes, neither do the
\* header and the options.
LEMMA FrontKept ==
  ASSUME NEW p, NEW m, NEW at, NEW marked, Represents(p, m, at, marked),
         NEW end, end = at[Len(m.opts) + 1],
         NEW q, \A k \in 0..(end - 1) : q.buf[k] = p.buf[k]
  PROVE  HeaderOf(q, m) /\ Laid(q.buf, m.opts, at)
<1> DEFINE n == Len(m.opts)
<1>1. /\ n \in Nat /\ m.tkl \in 0..8 /\ n + 1 \in 1..(n + 1)
      /\ at \in [1..(n + 1) -> Nat] /\ at[1] = 4 + m.tkl
  BY Parts
<1>2. end \in Nat /\ 4 + m.tkl <= end
  BY <1>1, Parts
<1>3. InOrder(m.opts) /\ Laid(p.buf, m.opts, at) /\ HeaderOf(p, m)
  BY DEF Represents
<1> HIDE DEF n
<1>4. HeaderOf(q, m)
  <2>1. 0 \in 0..(end - 1) /\ 1 \in 0..(end - 1) /\ 2 \in 0..(end - 1) /\ 3 \in 0..(end - 1)
    <3>1. \A x \in 0..8, y \in Nat : 4 + x <= y =>
            0 \in 0..(y - 1) /\ 1 \in 0..(y - 1) /\ 2 \in 0..(y - 1) /\ 3 \in 0..(y - 1)
      OBVIOUS
    <3> QED  BY <1>1, <1>2, <3>1
  <2>2. ASSUME NEW k \in 0..7 PROVE m.token[k] = IF k < m.tkl THEN q.buf[4 + k] ELSE 0
    <3>1. m.token[k] = IF k < m.tkl THEN p.buf[4 + k] ELSE 0
      BY <1>3 DEF HeaderOf
    <3>2. k < m.tkl => 4 + k \in 0..(end - 1)
      <4>1. \A x \in 0..8, y \in Nat : 4 + x <= y /\ k < x => 4 + k \in 0..(y - 1)
        OBVIOUS
      <4> QED  BY <1>1, <1>2, <4>1
    <3> QED  BY <3>1, <3>2
  <2> QED  BY <1>3, <2>1, <2>2 DEF HeaderOf
<1>5. Laid(q.buf, m.opts, at)
  <2>1. Moved(p.buf, q.buf, at[1], end, 0)
    <3> SUFFICES ASSUME NEW j \in Nat, at[1] <= j, j < end PROVE q.buf[j + 0] = p.buf[j]
      BY DEF Moved
    <3>1. j \in 0..(end - 1) /\ j + 0 = j
      BY <1>2
    <3> QED  BY <3>1
  <2>2. at[1] + 0 >= 0 /\ 0 \in Int
    BY <1>1
  <2>3. Laid(q.buf, m.opts, [k \in 1..(n + 1) |-> at[k] + 0])
    BY <1>3, <2>1, <2>2, LaidMoved DEF n
  <2>4. [k \in 1..(n + 1) |-> at[k] + 0] = at
    <3>1. \A k \in 1..(n + 1) : at[k] + 0 = at[k]
      BY <1>1
    <3> QED  BY <1>1, <3>1
  <2> QED  BY <2>3, <2>4
<1> QED  BY <1>4, <1>5

\* A message with one more option behind the others.
LEMMA OptionAppended ==
  ASSUME NEW p, NEW m, NEW at, NEW marked, Represents(p, m, at, marked),
         NEW o, Follows(m.opts, o),
         NEW more, more = Append(m.opts, o), NEW n, n = Len(m.opts),
         NEW end, end = at[n + 1], NEW size, size = Size(more, n + 1),
         NEW q, q \in Pdu(p.max), q.len = p.len + size,
         RoomMade(q.buf, p.buf, p.len, end, size), Holds(q.buf, end, more, n + 1)
  PROVE  \E to : Represents(q, [m EXCEPT !.opts = Append(@, o)], to, marked)
<1> DEFINE w == [m EXCEPT !.opts = Append(@, o)]
           to == [k \in 1..(n + 2) |-> IF k = n + 2 THEN end + size ELSE at[k]]
<1>0. /\ \A k \in 0..(end - 1) : q.buf[k] = p.buf[k]
      /\ Moved(p.buf, q.buf, end, p.len, size)
  BY DEF RoomMade
<1>1. /\ n \in Nat /\ m.tkl \in 0..8 /\ p.max \in Nat /\ 4 <= p.max
      /\ at \in [1..(n + 1) -> Nat] /\ at[1] = 4 + m.tkl /\ n + 1 \in 1..(n + 1)
      /\ Len(m.payload) \in Nat /\ m \in Msg /\ marked \in BOOLEAN
      /\ m.opts \in Seq(Opt)
  BY Parts DEF Represents
<1>2. end \in Nat /\ 4 + m.tkl <= end /\ end <= p.len /\ p.len \in Nat /\ p.len <= p.max
  BY <1>1, Parts
<1>3. /\ InOrder(m.opts) /\ Laid(p.buf, m.opts, at) /\ HeaderOf(p, m)
      /\ Ends(p, end, m.payload, marked)
  BY DEF Represents
<1>4. /\ InOrder(more) /\ Len(more) = n + 1 /\ more[n + 1] = o
      /\ Alike(m.opts, more, n)
  <2>1. Follows(m.opts, o) /\ more = Append(m.opts, o)
    OBVIOUS
  <2>2. /\ InOrder(more) /\ Len(more) = Len(m.opts) + 1 /\ more[Len(m.opts) + 1] = o
        /\ Alike(m.opts, more, Len(m.opts))
    BY ONLY <2>1, OptsAppended
  <2> QED  BY <2>2
<1>5. size \in Nat /\ size > 0
  <2>1. n + 1 \in 1..Len(more)
    BY <1>1, <1>4
  <2> QED  BY <1>4, <2>1, SizeTyped
<1>6. /\ w \in Msg /\ w.type = m.type /\ w.code = m.code /\ w.mid = m.mid
      /\ w.tkl = m.tkl /\ w.token = m.token /\ w.opts = more /\ w.payload = m.payload
  <2>1. more \in Seq(Opt)
    BY <1>4 DEF InOrder
  <2>2. w = [m EXCEPT !.opts = more]
    OBVIOUS
  <2> HIDE DEF w
  <2> QED  BY <1>1, <2>1, <2>2 DEF Msg
<1> HIDE DEF w
<1>7. HeaderOf(q, m) /\ Laid(q.buf, m.opts, at)
  BY <1>0, FrontKept
<1>8. HeaderOf(q, w) /\ Laid(q.buf, m.opts, at)
  BY <1>6, <1>7 DEF HeaderOf
<1>9. /\ to \in [1..(n + 2) -> Nat] /\ to[n + 2] = end + size
      /\ \A k \in 1..(n + 1) : to[k] = at[k] /\ k \in 1..(n + 2) /\ at[k] \in Nat
  <2>1. \A k \in 1..(n + 1) : k # n + 2 /\ k \in 1..(n + 2) /\ at[k] \in Nat
    <3>1. \A k \in 1..(n + 1) : k # n + 2 /\ k \in 1..(n + 2)
      BY <1>1
    <3>2. \A k \in 1..(n + 1) : at[k] \in Nat
      BY <1>1
    <3> QED  BY <3>1, <3>2
  <2>2. \A k \in 1..(n + 2) : k # n + 2 => k \in 1..(n + 1)
    BY <1>1
  <2>3. n + 2 \in 1..(n + 2) /\ end + size \in Nat
    BY <1>1, <1>2, <1>5
  <2> QED  BY <2>1, <2>2, <2>3
<1> HIDE DEF to
<1>10. Laid(q.buf, more, to)
  <2>0. (n + 1) + 1 = n + 2
    BY <1>1
  <2>1. ASSUME NEW j \in 1..(n + 2), NEW k \in 1..(n + 2), j < k PROVE to[j] < to[k]
    <3>1. j \in 1..(n + 1) /\ to[j] = at[j]
      BY <1>1, <1>9, <2>1
    <3>2. CASE k # n + 2
      <4>1. k \in 1..(n + 1) /\ to[k] = at[k]
        BY <1>1, <1>9, <3>2
      <4> QED  BY <1>8, <2>1, <3>1, <4>1 DEF Laid
    <3>3. CASE k = n + 2
      <4>1. j = n + 1 \/ j < n + 1
        BY <1>1, <3>1
      <4>2. j < n + 1 => at[j] < end
        BY <1>1, <1>8, <3>1 DEF Laid
      <4>3. at[j] <= end
        BY <1>2, <1>9, <3>1, <4>1, <4>2
      <4>4. at[j] \in Nat
        BY <1>9, <3>1
      <4>5. at[j] < end + size
        BY <1>2, <1>5, <4>3, <4>4
      <4> QED  BY <1>9, <3>1, <3>3, <4>5
    <3> QED  BY <3>2, <3>3
  <2>2. ASSUME NEW k \in 1..(n + 1)
        PROVE  Holds(q.buf, to[k], more, k) /\ to[k + 1] = to[k] + Size(more, k)
    <3>1. CASE k # n + 1
      <4>1. k \in 1..n /\ k + 1 \in 1..(n + 1)
        BY <1>1, <3>1
      <4>2. Holds(q.buf, at[k], m.opts, k) /\ at[k + 1] = at[k] + Size(m.opts, k)
        BY <1>8, <4>1 DEF Laid
      <4>3. to[k] = at[k] /\ to[k + 1] = at[k + 1]
        BY <1>9, <4>1
      <4>4. Alike(m.opts, more, n)
        BY <1>4
      <4> QED  BY <4>1, <4>2, <4>3, <4>4 DEF Alike
    <3>2. CASE k = n + 1
      <4>1. to[k] = end /\ to[k + 1] = end + size
        BY <1>9, <2>0, <3>2
      <4> QED  BY <3>2, <4>1
    <3> QED  BY <3>1, <3>2
  <2> QED  BY <1>4, <1>9, <2>0, <2>1, <2>2 DEF Laid
<1>11. Ends(q, end + size, m.payload, marked)
  <2>1. size \in Int
    BY <1>5
  <2> QED  BY <1>0, <1>1, <1>2, <1>3, <2>1, EndsMoved
<1>12. /\ to[1] = 4 + w.tkl /\ to[Len(w.opts) + 1] = end + size
  <2>1. 1 \in 1..(n + 1) /\ (n + 1) + 1 = n + 2
    BY <1>1
  <2> QED  BY <1>1, <1>4, <1>6, <1>9, <2>1
<1>13. q.max = p.max
  BY DEF Pdu
<1>14. Represents(q, w, to, marked)
  BY <1>1, <1>4, <1>6, <1>8, <1>10, <1>11, <1>12, <1>13 DEF Represents
<1> QED  BY <1>14 DEF w

\* memmove makes the room.
LEMMA RoomBytes ==
  ASSUME NEW buf, NEW max, NEW len, NEW end, NEW size, RoomFits(buf, max, len, end, size),
         NEW b, b = memmove(buf, end + size, end, len - end)
  PROVE  Buffer(b, max) /\ RoomMade(b, buf, len, end, size)
<1> DEFINE to == end + size
           n == len - end
<1>1. /\ max \in Nat /\ len \in Nat /\ end \in Nat /\ end <= len /\ size \in Nat
      /\ len + size <= max /\ Buffer(buf, max)
  BY DEF RoomFits, Buffer
<1>2. to \in Nat /\ n \in Nat /\ to + n <= max /\ end + n <= max /\ to + n = len + size
  BY <1>1
<1> HIDE DEF to, n
<1>3. MoveFits(buf, max, to, end, n)
  BY <1>1, <1>2 DEF MoveFits
<1>4. Shifted(b, buf, max, to, end, n)
  BY <1>3, MemmoveBytes DEF to, n
<1>5. /\ Buffer(b, max)
      /\ \A k \in 0..(max - 1) :
           b[k] = IF to <= k /\ k < to + n THEN buf[k - to + end] ELSE buf[k]
  BY <1>4 DEF Shifted
<1>6. ASSUME NEW k \in 0..(end - 1) PROVE b[k] = buf[k]
  <2>1. k \in 0..(max - 1) /\ ~(to <= k)
    BY <1>1 DEF to
  <2> QED  BY <1>5, <2>1
<1>7. ASSUME NEW j \in Nat, end <= j, j < len PROVE b[j + size] = buf[j]
  <2>1. /\ j + size \in 0..(max - 1) /\ to <= j + size /\ j + size < to + n
        /\ (j + size) - to + end = j
    BY <1>1, <1>7 DEF to, n
  <2> QED  BY <1>5, <2>1
<1> QED  BY <1>5, <1>6, <1>7 DEF RoomMade, Moved

\* The option written into that room.
LEMMA OptionInRoom ==
  ASSUME NEW buf, NEW max, NEW len, NEW end, NEW size, RoomFits(buf, max, len, end, size),
         NEW base, Buffer(base, max), RoomMade(base, buf, len, end, size),
         NEW opts, InOrder(opts), NEW k \in 1..Len(opts), size = Size(opts, k),
         NEW b, b = OptionWritten(base, end, Delta(opts, k), opts[k].val, ValLen(opts, k))
  PROVE  /\ Buffer(b, max) /\ RoomMade(b, buf, len, end, size)
         /\ Holds(b, end, opts, k)
<1> DEFINE d == Delta(opts, k)
           n == ValLen(opts, k)
           val == opts[k].val
           hdr == HdrLen(opts, k)
<1>1. /\ max \in Nat /\ len \in Nat /\ end \in Nat /\ end <= len /\ size \in Nat
      /\ len + size <= max /\ Buffer(buf, max)
  BY DEF RoomFits, Buffer
<1>2. /\ d \in U16 /\ n \in U16 /\ n \in Nat /\ val \in Seq(Byte) /\ hdr \in 1..5
      /\ hdr = coap_compute_option_header_len(d, n) /\ size = hdr + n
  BY SizeTyped DEF Size, HdrLen
<1>3. val \in [1..n -> Byte]
  BY <1>2 DEF ValLen
<1> HIDE DEF d, n, val, hdr
<1>4. end + hdr + n <= max /\ end + hdr + n = end + size
  <2>1. \A x, y, z, u, v \in Nat : x <= u /\ u + (y + z) <= v =>
          x + y + z <= v /\ x + y + z = x + (y + z)
    OBVIOUS
  <2>2. /\ hdr \in 1..5 /\ n \in Nat /\ size = hdr + n /\ len + size <= max
        /\ end \in Nat /\ len \in Nat /\ max \in Nat /\ end <= len
    BY <1>1, <1>2
  <2>3. hdr \in Nat /\ len + (hdr + n) <= max
    BY ONLY <2>2
  <2> QED  BY ONLY <2>1, <2>2, <2>3
<1>5. OptionFits(base, max, end, d, val, n)
  BY <1>1, <1>2, <1>3, <1>4 DEF OptionFits
<1>6. OptionStands(b, base, max, end, d, val, n)
  BY <1>5, OptionBytes DEF d, n, val
<1>7. /\ Buffer(b, max) /\ HeaderAt(b, end, d, n)
      /\ \A j \in 1..n : b[end + hdr + j - 1] = val[j]
      /\ \A i \in 0..(max - 1) : i < end \/ i >= end + hdr + n => b[i] = base[i]
  BY <1>2, <1>6 DEF OptionStands
<1>8. Holds(b, end, opts, k)
  BY <1>7 DEF Holds, d, n, val, hdr
<1>9. ASSUME NEW i \in 0..(end - 1) PROVE b[i] = buf[i]
  <2>1. i \in 0..(max - 1) /\ i < end
    BY <1>1
  <2> QED  BY <1>7, <2>1 DEF RoomMade
<1>10. ASSUME NEW j \in Nat, end <= j, j < len PROVE b[j + size] = buf[j]
  <2>1. j + size \in 0..(max - 1) /\ j + size >= end + hdr + n
    BY <1>1, <1>4, <1>10
  <2>2. base[j + size] = buf[j]
    BY <1>10 DEF RoomMade, Moved
  <2> QED  BY <1>7, <2>1, <2>2
<1> QED  BY <1>7, <1>8, <1>9, <1>10 DEF RoomMade, Moved

\* coap_add_option adds the option behind the others, before the payload,
\* or fails and leaves the message alone.
LEMMA AddsOption ==
  ASSUME NEW p, NEW m, NEW at, NEW marked, Represents(p, m, at, marked),
         NEW num, NEW val, NEW o, o = [num |-> num, val |-> val], Follows(m.opts, o)
  PROVE  /\ Leaves(coap_add_option(p, num, val), p.max, m,
                   [m EXCEPT !.opts = Append(@, o)], marked, marked)
         /\ Grows(coap_add_option(p, num, val), p,
                  Size(Append(m.opts, o), Len(m.opts) + 1))
<1> DEFINE n == Len(m.opts)
           end == at[n + 1]
           more == Append(m.opts, o)
           delta == Delta(more, n + 1)
           hdr == HdrLen(more, n + 1)
           size == Size(more, n + 1)
           q == coap_add_option(p, num, val)
           slid == memmove(p.buf, end + size, end, p.len - end)
           tail == IF p.len = end THEN [buf |-> p.buf, opts_len |-> size]
                   ELSE coap_adjust_option_deltas(slid, end + size, p.len + size - end,
                                                  p.max - end, -delta)
           done == [p EXCEPT !.buf = OptionWritten(tail.buf, end, delta, val, Len(val)),
                             !.len = end + tail.opts_len, !.err = "NONE"]
<1>1. /\ n \in Nat /\ p.max \in Nat /\ 4 <= p.max /\ n + 1 \in 1..(n + 1)
      /\ p \in Pdu(p.max) /\ p.buf \in [0..(p.max - 1) -> Byte] /\ marked \in BOOLEAN
      /\ Len(m.payload) \in Nat
  BY Parts DEF Represents
<1>2. end \in Nat /\ end <= p.len /\ p.len \in Nat /\ p.len <= p.max
  BY <1>1, Parts
<1>3. /\ InOrder(m.opts) /\ num \in U16 /\ val \in Seq(Byte) /\ Len(val) \in U16
      /\ \A k \in 1..n : m.opts[k].num <= num
      /\ o.num = num /\ o.val = val
  BY DEF Follows, Opt
<1>4. /\ InOrder(more) /\ Len(more) = n + 1 /\ more[n + 1] = o
      /\ NumBefore(more, n + 1) = NumBefore(m.opts, n + 1)
  <2> HIDE DEF more
  <2>1. Follows(m.opts, o) /\ more = Append(m.opts, o)
    BY DEF more
  <2> QED  BY ONLY <2>1, OptsAppended
<1>5. InsertionPoint(p, num) = [ptr |-> end, lopt_num |-> NumBefore(m.opts, n + 1)]
  BY <1>3, InsertionPointEnd
<1>6. /\ num - NumBefore(m.opts, n + 1) = delta /\ ValLen(more, n + 1) = Len(val)
      /\ coap_compute_option_header_len(delta, Len(val)) = hdr /\ hdr + Len(val) = size
  <2> HIDE DEF more
  <2>1. delta = num - NumBefore(m.opts, n + 1)
    BY <1>3, <1>4 DEF Delta
  <2>2. ValLen(more, n + 1) = Len(val)
    BY <1>3, <1>4 DEF ValLen
  <2> QED  BY <2>1, <2>2 DEF HdrLen, Size
<1>7. Stopped(p, end).err = IF marked THEN "FOUND_PAYLOAD_MARKER" ELSE "END_OF_PACKET"
  <2>1. coap_decode_option(p.buf, end, p.len - end)
          = Decoded(IF marked THEN "FOUND_PAYLOAD_MARKER" ELSE "END_OF_PACKET")
    BY DecodesEnd
  <2> HIDE DEF end
  <2> QED  BY <2>1 DEF Stopped, Decoded
<1> HIDE DEF delta, hdr, size
<1>8. q = IF p.max < p.len + size THEN Failed(p, "INSUFFICIENT_BUFFER") ELSE done
  <2>1. Stopped(p, end).err \in {"NONE", "END_OF_PACKET", "FOUND_PAYLOAD_MARKER"}
    BY <1>7
  <2>2. /\ InsertionPoint(p, num).ptr = end
        /\ num - InsertionPoint(p, num).lopt_num = delta
    BY <1>5, <1>6
  <2> HIDE DEF end
  <2> QED  BY <1>6, <2>1, <2>2 DEF coap_add_option, Inserted, OptionWritten
<1> HIDE DEF end, more
<1>9. size \in Nat /\ size > 0
  <2>1. n + 1 \in 1..Len(more)
    BY <1>1, <1>4
  <2> QED  BY <1>4, <2>1, SizeTyped DEF size
<1>10. CASE p.max < p.len + size
  <2>1. q = Failed(p, "INSUFFICIENT_BUFFER") /\ "INSUFFICIENT_BUFFER" \in Errors
    <3> HIDE DEF q, done
    <3> QED  BY <1>8, <1>10 DEF Errors
  <2> HIDE DEF q
  <2>2. /\ q.err = "INSUFFICIENT_BUFFER" /\ q.max = p.max /\ q.len = p.len
        /\ \E to : Represents(q, m, to, marked)
    BY <2>1, FailedKeeps
  <2>3. ~(p.len + size <= p.max)
    BY <1>1, <1>2, <1>9, <1>10
  <2>4. Grows(q, p, size)
    BY <2>2, <2>3 DEF Grows
  <2> QED  BY <2>2, <2>4 DEF Leaves, q, size, more
<1>11. CASE ~(p.max < p.len + size)
  <2>1. RoomFits(p.buf, p.max, p.len, end, size)
    <3>1. p.len + size <= p.max
      BY <1>1, <1>2, <1>9, <1>11
    <3> QED  BY <1>1, <1>2, <1>9, <3>1 DEF RoomFits, Buffer
  <2>2. Buffer(slid, p.max) /\ RoomMade(slid, p.buf, p.len, end, size)
    <3> HIDE DEF slid
    <3>1. slid = memmove(p.buf, end + size, end, p.len - end)
      BY DEF slid
    <3> QED  BY ONLY <2>1, <3>1, RoomBytes
  <2>3. /\ Buffer(tail.buf, p.max) /\ RoomMade(tail.buf, p.buf, p.len, end, size)
        /\ end + tail.opts_len = p.len + size
    <3>1. CASE p.len = end
      <4>1. tail.buf = p.buf /\ tail.opts_len = size
        BY <3>1
      <4> HIDE DEF tail
      <4>2. Moved(p.buf, p.buf, end, p.len, size)
        BY <1>2, <3>1 DEF Moved
      <4>3. RoomMade(p.buf, p.buf, p.len, end, size)
        BY <4>2 DEF RoomMade
      <4> QED  BY <1>1, <3>1, <4>1, <4>3 DEF Buffer
    <3>2. CASE p.len # end
      <4> DEFINE start == end + size
                 length == p.len + size - end
                 room == p.max - end
      <4>1. marked
        BY <1>1, <3>2 DEF Represents, Ends, end
      <4>2. slid[start] = PayloadMarker
        <5>1. p.buf[end] = PayloadMarker
          BY <4>1 DEF Represents, Ends, end
        <5>2. end \in Nat /\ end <= end /\ end < p.len
          BY <1>2, <3>2
        <5> HIDE DEF slid
        <5>3. slid[end + size] = p.buf[end]
          BY <2>2, <5>2 DEF RoomMade, Moved
        <5> QED  BY <5>1, <5>3
      <4>3. /\ start \in Nat /\ length \in Nat /\ length # 0 /\ room \in Nat
            /\ end + length = p.len + size
        <5>1. \A x, y, z, u \in Nat :
                x <= y /\ x # y /\ y <= z => /\ x + u \in Nat /\ y + u - x \in Nat
                                             /\ y + u - x # 0 /\ z - x \in Nat
                                             /\ x + (y + u - x) = y + u
          OBVIOUS
        <5>2. end \in Nat /\ p.len \in Nat /\ p.max \in Nat /\ size \in Nat
              /\ end <= p.len /\ end # p.len /\ p.len <= p.max
          BY <1>1, <1>2, <1>9, <3>2
        <5> QED  BY ONLY <5>1, <5>2
      <4> HIDE DEF slid
      <4>4. tail = coap_adjust_option_deltas(slid, start, length, room, -delta)
        BY <3>2
      <4> HIDE DEF tail, start, length, room
      <4>5. tail.buf = slid /\ tail.opts_len = length
        BY <2>2, <4>2, <4>3, <4>4, NothingToAdjust
      <4> QED  BY <2>2, <4>3, <4>5
    <3> QED  BY <3>1, <3>2
  <2> DEFINE b == OptionWritten(tail.buf, end, delta, val, Len(val))
             l == end + tail.opts_len
  <2>4. q = done
    <3> HIDE DEF q, done
    <3> QED  BY <1>8, <1>11
  <2>5. Updated(q, p, b, l)
    BY <2>4 DEF Updated
  <2> HIDE DEF q, done, tail, slid
  <2>6. b = OptionWritten(tail.buf, end, Delta(more, n + 1), more[n + 1].val,
                          ValLen(more, n + 1))
    BY <1>3, <1>4, <1>6 DEF delta
  <2> HIDE DEF b, l
  <2>7. /\ Buffer(b, p.max) /\ RoomMade(b, p.buf, p.len, end, size)
        /\ Holds(b, end, more, n + 1)
    <3>1. n + 1 \in 1..Len(more) /\ size = Size(more, n + 1)
      BY <1>1, <1>4 DEF size
    <3> QED  BY <1>4, <2>1, <2>3, <2>6, <3>1, OptionInRoom
  <2>8. l = p.len + size /\ l \in 0..p.max
    <3>1. l = p.len + size
      BY <2>3 DEF l
    <3>2. p.len + size \in 0..p.max
      BY <1>1, <1>2, <1>9, <1>11
    <3> QED  BY <3>1, <3>2
  <2>9. q \in Pdu(p.max) /\ q.buf = b /\ q.len = l /\ q.err = "NONE" /\ q.max = p.max
    BY <1>1, <2>5, <2>7, <2>8, PduUpdated
  <2>10. \E to : Represents(q, [m EXCEPT !.opts = Append(@, o)], to, marked)
    <3>1. /\ Represents(p, m, at, marked) /\ Follows(m.opts, o)
          /\ more = Append(m.opts, o) /\ n = Len(m.opts) /\ end = at[n + 1]
          /\ size = Size(more, n + 1)
      BY DEF more, end, size
    <3>2. /\ q \in Pdu(p.max) /\ q.len = p.len + size
          /\ RoomMade(q.buf, p.buf, p.len, end, size)
          /\ Holds(q.buf, end, more, n + 1)
      BY <2>7, <2>8, <2>9
    <3> HIDE DEF n
    <3> QED  BY ONLY <3>1, <3>2, OptionAppended
  <2>11. Grows(q, p, size)
    <3>1. p.len + size <= p.max
      BY <1>1, <1>2, <1>9, <1>11
    <3> QED  BY <2>8, <2>9, <3>1 DEF Grows
  <2> QED  BY <2>9, <2>10, <2>11 DEF Leaves, q, size, more
<1> HIDE DEF q
<1> QED  BY <1>10, <1>11 DEF q

\* coap_set_payload writes the marker and the payload behind the options, or
\* fails and leaves the message alone.
LEMMA SetsPayload ==
  ASSUME NEW p, NEW m, NEW at, Represents(p, m, at, FALSE),
         NEW payload, payload \in Seq(Byte)
  PROVE  /\ Leaves(coap_set_payload(p, payload), p.max, m,
                   [m EXCEPT !.payload = payload], FALSE, TRUE)
         /\ Grows(coap_set_payload(p, payload), p, Len(payload) + 1)
<1> DEFINE end == at[Len(m.opts) + 1]
           n == Len(payload)
           q == coap_set_payload(p, payload)
           w == [m EXCEPT !.payload = payload]
           mark == [p.buf EXCEPT ![end] = PayloadMarker]
           b == memcpy(mark, end + 1, payload, n)
           done == [p EXCEPT !.buf = b, !.len = end + 1 + n, !.err = "NONE"]
<1>1. /\ p.max \in Nat /\ p \in Pdu(p.max) /\ p.buf \in [0..(p.max - 1) -> Byte]
      /\ p.len \in Nat /\ p.len <= p.max /\ m \in Msg /\ InOrder(m.opts)
      /\ at[1] = 4 + m.tkl /\ end \in Nat /\ n \in Nat
  <2>1. /\ p.max \in Nat /\ p \in Pdu(p.max) /\ m \in Msg /\ InOrder(m.opts)
        /\ at[1] = 4 + m.tkl
    BY DEF Represents
  <2>2. /\ p.buf \in [0..(p.max - 1) -> Byte] /\ p.len \in Nat /\ p.len <= p.max
        /\ Len(m.opts) \in Nat /\ at \in [1..(Len(m.opts) + 1) -> Nat]
    BY Parts
  <2>3. end \in Nat
    BY <2>2
  <2> QED  BY <2>1, <2>2, <2>3
<1>2. p.len = end
  BY DEF Represents, Ends
<1>3. EndOfOptions(p) = [err |-> "END_OF_PACKET", ptr |-> end]
  BY EndOfOptionsEnd
<1> HIDE DEF end
<1>4. q = IF p.max < p.len + n + 1 THEN Failed(p, "INSUFFICIENT_BUFFER") ELSE done
  <2>1. EndOfOptions(p).err = "END_OF_PACKET" /\ EndOfOptions(p).ptr = end
    BY <1>3
  <2> QED  BY <2>1 DEF coap_set_payload
<1>5. CASE p.max < p.len + n + 1
  <2>1. q = Failed(p, "INSUFFICIENT_BUFFER") /\ "INSUFFICIENT_BUFFER" \in Errors
    <3> HIDE DEF q, done
    <3> QED  BY <1>4, <1>5 DEF Errors
  <2> HIDE DEF q
  <2>2. /\ q.err = "INSUFFICIENT_BUFFER" /\ q.max = p.max /\ q.len = p.len
        /\ \E to : Represents(q, m, to, FALSE)
    BY <2>1, FailedKeeps
  <2>3. ~(p.len + (n + 1) <= p.max)
    <3>1. \A x, y, z \in Nat : z < x + y + 1 => ~(x + (y + 1) <= z)
      OBVIOUS
    <3> QED  BY <1>1, <1>5, <3>1
  <2>4. Grows(q, p, n + 1)
    BY <2>2, <2>3 DEF Grows
  <2> QED  BY <2>2, <2>4 DEF Leaves, q
<1>6. CASE ~(p.max < p.len + n + 1)
  <2>0. end + 1 + n <= p.max /\ end \in 0..(p.max - 1) /\ end + 1 + n \in 0..p.max
    <3>1. \A x, y, z \in Nat : ~(z < x + y + 1) =>
            x + 1 + y <= z /\ x \in 0..(z - 1) /\ x + 1 + y \in 0..z
      OBVIOUS
    <3> QED  BY <1>1, <1>2, <1>6, <3>1
  <2>1. /\ Buffer(mark, p.max) /\ mark[end] = PayloadMarker
        /\ \A k \in 0..(p.max - 1) : k # end => mark[k] = p.buf[k]
    <3>1. PayloadMarker \in Byte
      BY DEF PayloadMarker, Byte
    <3>2. mark \in [0..(p.max - 1) -> Byte]
      BY <1>1, <2>0, <3>1
    <3>3. mark[end] = PayloadMarker /\ \A k \in 0..(p.max - 1) : k # end => mark[k] = p.buf[k]
      BY <1>1, <2>0
    <3> QED  BY <1>1, <3>2, <3>3 DEF Buffer
  <2> DEFINE to == end + 1
  <2>2. Copied(b, mark, p.max, to, payload, n)
    <3>1. payload \in [1..n -> Byte] /\ to \in Nat
      BY <1>1
    <3> HIDE DEF mark, n
    <3>2. CopyFits(mark, p.max, to, payload, n)
      BY <1>1, <2>0, <2>1, <3>1 DEF CopyFits
    <3> HIDE DEF to
    <3>3. Copied(memcpy(mark, to, payload, n), mark, p.max, to, payload, n)
      BY <3>2, MemcpyBytes
    <3> QED  BY <3>3 DEF to
  <2>3. q = done
    <3> HIDE DEF q, done
    <3> QED  BY <1>4, <1>6
  <2>4. Updated(q, p, b, end + 1 + n)
    BY <2>3 DEF Updated
  <2> HIDE DEF q, b, done, mark
  <2>5. /\ Buffer(b, p.max) /\ \A k \in 0..(p.max - 1) :
             b[k] = IF to <= k /\ k < to + n THEN payload[k - to + 1] ELSE mark[k]
    BY <2>2 DEF Copied
  <2>6. /\ q \in Pdu(p.max) /\ q.buf = b /\ q.len = end + 1 + n /\ q.err = "NONE"
        /\ q.max = p.max
    <3> DEFINE l == end + 1 + n
    <3>1. l \in 0..p.max
      BY <2>0
    <3> HIDE DEF l
    <3>2. Updated(q, p, b, l) /\ p \in Pdu(p.max) /\ Buffer(b, p.max)
      BY <1>1, <2>4, <2>5 DEF l
    <3>3. /\ q \in Pdu(p.max) /\ q.buf = b /\ q.len = l /\ q.err = "NONE" /\ q.max = p.max
      BY ONLY <3>1, <3>2, PduUpdated
    <3> QED  BY <3>3 DEF l
  <2>7. ASSUME NEW k \in 0..(end - 1) PROVE q.buf[k] = p.buf[k]
    <3>1. k \in 0..(p.max - 1) /\ k # end /\ ~(to <= k)
      BY <1>1, <2>0
    <3> QED  BY <2>1, <2>5, <2>6, <3>1
  <2>8. HeaderOf(q, m) /\ Laid(q.buf, m.opts, at)
    BY <2>7, FrontKept DEF end
  <2>9. q.buf[end] = PayloadMarker
    <3>1. ~(to <= end)
      BY <1>1
    <3> QED  BY <2>0, <2>1, <2>5, <2>6, <3>1
  <2>10. ASSUME NEW k \in 1..n PROVE q.buf[end + k] = payload[k]
    <3>1. /\ end + k \in 0..(p.max - 1) /\ to <= end + k /\ end + k < to + n
          /\ (end + k) - to + 1 = k
      <4>1. \A x, y, z \in Nat : \A i \in 1..y : x + 1 + y <= z =>
              /\ x + i \in 0..(z - 1) /\ x + 1 <= x + i /\ x + i < (x + 1) + y
              /\ (x + i) - (x + 1) + 1 = i
        OBVIOUS
      <4> QED  BY <1>1, <2>0, <4>1
    <3> HIDE DEF to
    <3>2. b[end + k] = payload[(end + k) - to + 1]
      BY <2>5, <3>1
    <3> QED  BY <2>6, <3>1, <3>2
  <2>11. /\ w \in Msg /\ w.type = m.type /\ w.code = m.code /\ w.mid = m.mid
         /\ w.tkl = m.tkl /\ w.token = m.token /\ w.opts = m.opts /\ w.payload = payload
    BY <1>1 DEF Msg
  <2> HIDE DEF w
  <2>12. HeaderOf(q, w)
    BY <2>8, <2>11 DEF HeaderOf
  <2>13. Ends(q, end, payload, TRUE)
    BY <2>6, <2>9, <2>10 DEF Ends
  <2>14. Represents(q, w, at, TRUE)
    BY <1>1, <2>6, <2>8, <2>11, <2>12, <2>13 DEF Represents, end
  <2>15. Grows(q, p, n + 1)
    <3>1. \A x, y, z \in Nat : x + 1 + y <= z => x + (y + 1) <= z /\ x + 1 + y = x + (y + 1)
      OBVIOUS
    <3>2. p.len + (n + 1) <= p.max /\ q.len = p.len + (n + 1)
      BY <1>1, <1>2, <2>0, <2>6, <3>1
    <3> QED  BY <2>6, <3>2 DEF Grows
  <2> QED  BY <2>6, <2>14, <2>15 DEF Leaves, q, w
<1> HIDE DEF q, w
<1> QED  BY <1>5, <1>6 DEF q, w

-----------------------------------------------------------------------------
(* What the callers pass.                                                   *)

\* A value is a sequence of bytes, of the length asked for.
LEMMA DataTyped ==
  ASSUME NEW n \in Nat, NEW byte \in Byte
  PROVE  Data(n, byte) \in Seq(Byte) /\ Len(Data(n, byte)) = n
<1>1. Data(n, byte) \in [1..n -> Byte]
  BY DEF Data
<1> HIDE DEF Data
<1> QED  BY <1>1, FcnIsSeq

\* A token is eight bytes, and those beyond its length are 0.
LEMMA TokenTyped ==
  ASSUME NEW tkl \in 0..15, NEW byte \in Byte
  PROVE  /\ Token(tkl, byte) \in [0..7 -> Byte]
         /\ \A k \in 0..7 : k >= tkl => Token(tkl, byte)[k] = 0
<1>1. 0 \in Byte
  BY DEF Byte
<1> QED  BY <1>1 DEF Token
=============================================================================
