-------------------------- MODULE CoapOptionProofs --------------------------
(***************************************************************************)
(* What is written as an option header is read back as the same header, for *)
(* every delta and every length of 16 bits, at every offset of every buffer.*)
(***************************************************************************)
EXTENDS CoapOption, TLAPS

\* What base and extra bytes say about the number they stand for.
LEMMA BaseTyped ==
  ASSUME NEW x \in U16
  PROVE  Base(x) \in 0..14 /\ ExtraLen(x) \in 0..2 /\ Announced(Base(x)) = ExtraLen(x)
<1>1. CASE x < 13
  <2>1. Base(x) = x /\ ExtraLen(x) = 0 /\ Announced(x) = 0
    BY <1>1 DEF Base, ExtraLen, Announced
  <2>2. x \in 0..14
    BY <1>1 DEF U16
  <2> QED  BY <2>1, <2>2
<1>2. CASE 13 <= x /\ x < 269
  BY <1>2 DEF U16, Base, ExtraLen, Announced
<1>3. CASE 269 <= x
  BY <1>3 DEF U16, Base, ExtraLen, Announced
<1> QED  BY <1>1, <1>2, <1>3 DEF U16

\* The extra bytes of a number are bytes.
LEMMA ExtraTyped ==
  ASSUME NEW x \in U16, NEW k
  PROVE  Extra(x, k) \in Byte
  BY DEF U16, Extra, AsByte, Byte

\* The number is found again in a buffer that holds its extra bytes.
LEMMA ValueReadBack ==
  ASSUME NEW x \in U16, NEW buf, NEW ptr \in Nat,
         \A k \in 1..ExtraLen(x) : buf[ptr + k - 1] = Extra(x, k)
  PROVE  ValueAt(Base(x), buf, ptr) = x
<1>1. CASE x < 13
  BY <1>1 DEF Base, ValueAt, U16
<1>2. CASE 13 <= x /\ x < 269
  <2>1. ExtraLen(x) = 1 /\ Base(x) = 13 /\ Extra(x, 1) = x - 13
    BY <1>2 DEF ExtraLen, Base, Extra, AsByte, U16
  <2>2. buf[ptr] = x - 13
    BY <2>1
  <2>3. ValueAt(13, buf, ptr) = buf[ptr] + 13
    BY DEF ValueAt
  <2> QED  BY <2>1, <2>2, <2>3 DEF U16
<1>3. CASE 269 <= x
  <2>1. ExtraLen(x) = 2 /\ Base(x) = 14
    BY <1>3 DEF ExtraLen, Base, U16
  <2>2. buf[ptr] = Extra(x, 1) /\ buf[ptr + 1] = Extra(x, 2)
    BY <2>1
  <2>3. Extra(x, 1) = (x - 269) \div 256 /\ Extra(x, 2) = (x - 269) % 256
    BY <1>3 DEF Extra, AsByte, U16
  <2>4. 256 * ((x - 269) \div 256) + ((x - 269) % 256) = x - 269
    BY <1>3 DEF U16
  <2>5. 256 * buf[ptr] + buf[ptr + 1] + 269 = x
    BY <2>2, <2>3, <2>4 DEF U16
  <2>6. ValueAt(14, buf, ptr) = AsU16(256 * buf[ptr] + buf[ptr + 1] + 269)
    BY DEF ValueAt
  <2>7. AsU16(x) = x
    BY DEF AsU16, U16
  <2> QED  BY <2>1, <2>5, <2>6, <2>7
<1> QED  BY <1>1, <1>2, <1>3 DEF U16

\* Two bases packed into a byte come apart again.
LEMMA BasesApart ==
  ASSUME NEW d \in 0..14, NEW n \in 0..14
  PROVE  /\ (16 * d + n) \div 16 = d
         /\ (16 * d + n) % 16 = n
         /\ 16 * d + n # 255
  OBVIOUS

\* Buffer b holds the header of this delta and length at offset ptr.
HeaderAt(b, ptr, delta, len) ==
  /\ b[ptr] = 16 * Base(delta) + Base(len)
  /\ \A k \in 1..ExtraLen(delta) : b[ptr + 1 + k - 1] = Extra(delta, k)
  /\ \A k \in 1..ExtraLen(len) : b[ptr + 1 + ExtraLen(delta) + k - 1] = Extra(len, k)

\* The bytes of a header, once written.
LEMMA HeaderBytes ==
  ASSUME NEW max \in Nat, NEW buf, DOMAIN buf = 0..(max - 1),
         NEW ptr \in Nat, NEW delta \in U16, NEW len \in U16,
         ptr + coap_compute_option_header_len(delta, len) <= max
  PROVE  HeaderAt(coap_build_option_header(buf, ptr, delta, len), ptr, delta, len)
<1> DEFINE dx == ExtraLen(delta)
           nx == ExtraLen(len)
           f(k) == CASE k = ptr -> 16 * Base(delta) + Base(len)
                     [] ptr < k /\ k <= ptr + dx -> Extra(delta, k - ptr)
                     [] ptr + dx < k /\ k <= ptr + dx + nx -> Extra(len, k - ptr - dx)
                     [] OTHER -> buf[k]
           b == coap_build_option_header(buf, ptr, delta, len)
<1>1. dx \in 0..2 /\ nx \in 0..2 /\ ptr + 1 + dx + nx <= max
  BY BaseTyped DEF coap_compute_option_header_len
<1>2. b = [k \in 0..(max - 1) |-> f(k)]
  BY DEF coap_build_option_header
<1> HIDE DEF dx, nx, b
<1>3. b[ptr] = 16 * Base(delta) + Base(len)
  <2>1. ptr \in 0..(max - 1)
    BY <1>1
  <2>2. ~(ptr < ptr) /\ ~(ptr + dx < ptr)
    BY <1>1
  <2>3. f(ptr) = 16 * Base(delta) + Base(len)
    BY <2>2, Zenon
  <2>4. b[ptr] = f(ptr)
    BY <1>2, <2>1
  <2> QED  BY <2>3, <2>4
<1>4. ASSUME NEW k \in 1..dx PROVE b[ptr + 1 + k - 1] = Extra(delta, k)
  <2>1. /\ ptr + k \in 0..(max - 1) /\ ptr + k # ptr /\ ptr < ptr + k
        /\ ptr + k <= ptr + dx /\ ptr + k - ptr = k /\ ptr + 1 + k - 1 = ptr + k
        /\ ~(ptr + dx < ptr + k)
    BY <1>1
  <2>2. b[ptr + k] = f(ptr + k)
    BY <1>2, <2>1
  <2>3. f(ptr + k) = Extra(delta, ptr + k - ptr)
    BY <2>1
  <2> QED  BY <2>1, <2>2, <2>3
<1>5. ASSUME NEW k \in 1..nx PROVE b[ptr + 1 + dx + k - 1] = Extra(len, k)
  <2> DEFINE q == ptr + dx + k
  <2>1. /\ q \in 0..(max - 1) /\ q # ptr /\ ~(q <= ptr + dx)
        /\ ptr + dx < q /\ q <= ptr + dx + nx
        /\ q - ptr - dx = k /\ ptr + 1 + dx + k - 1 = q
    BY <1>1
  <2> HIDE DEF q
  <2>2. b[q] = f(q)
    BY <1>2, <2>1
  <2>3. f(q) = Extra(len, q - ptr - dx)
    BY <2>1
  <2> QED  BY <2>1, <2>2, <2>3
<1> QED  BY <1>3, <1>4, <1>5 DEF b, dx, nx, HeaderAt

\* What coap_decode_option makes of a header.
LEMMA HeaderDecodes ==
  ASSUME NEW b, NEW ptr \in Nat, NEW delta \in U16, NEW len \in U16,
         HeaderAt(b, ptr, delta, len), NEW pkt_len, pkt_len # 0
  PROVE  coap_decode_option(b, ptr, pkt_len)
           = [err |-> "NONE", delta |-> delta, len |-> len,
              val |-> ptr + coap_compute_option_header_len(delta, len)]
<1> DEFINE dx == ExtraLen(delta)
           nx == ExtraLen(len)
<1>1. /\ b[ptr] = 16 * Base(delta) + Base(len)
      /\ \A k \in 1..dx : b[ptr + 1 + k - 1] = Extra(delta, k)
      /\ \A k \in 1..nx : b[ptr + 1 + dx + k - 1] = Extra(len, k)
  BY DEF HeaderAt
<1>2. /\ Base(delta) \in 0..14 /\ Base(len) \in 0..14
      /\ dx \in 0..2 /\ nx \in 0..2
      /\ Announced(Base(delta)) = dx /\ Announced(Base(len)) = nx
  BY BaseTyped
<1> HIDE DEF dx, nx
<1>3. b[ptr] \div 16 = Base(delta) /\ b[ptr] % 16 = Base(len) /\ b[ptr] # 255
  <2>1. Base(delta) \in 0..14 /\ Base(len) \in 0..14
    BY <1>2
  <2>2. /\ (16 * Base(delta) + Base(len)) \div 16 = Base(delta)
        /\ (16 * Base(delta) + Base(len)) % 16 = Base(len)
        /\ 16 * Base(delta) + Base(len) # 255
    BY <2>1, BasesApart
  <2>3. b[ptr] = 16 * Base(delta) + Base(len)
    BY <1>1
  <2> QED  BY <2>2, <2>3, Zenon
<1>4. ValueAt(Base(delta), b, ptr + 1) = delta
  BY <1>1, ValueReadBack DEF dx
<1>5. ValueAt(Base(len), b, ptr + 1 + dx) = len
  <2>1. ptr + 1 + dx \in Nat
    BY <1>2
  <2> QED  BY <1>1, <2>1, ValueReadBack DEF nx
<1>6. coap_decode_option(b, ptr, pkt_len)
        = [err |-> "NONE", delta |-> ValueAt(Base(delta), b, ptr + 1),
           len |-> ValueAt(Base(len), b, ptr + 1 + dx), val |-> ptr + 1 + dx + nx]
  <2>1. Base(delta) # 15 /\ Base(len) # 15 /\ pkt_len # 0
    BY <1>2
  <2>2. Announced(Base(delta)) = dx /\ Announced(Base(len)) = nx
    BY <1>2
  <2> QED
    BY <1>3, <2>1, <2>2, Zenon DEF coap_decode_option, PayloadMarker
<1>7. ptr + 1 + dx + nx = ptr + coap_compute_option_header_len(delta, len)
  BY <1>2 DEF coap_compute_option_header_len, dx, nx
<1> QED  BY <1>4, <1>5, <1>6, <1>7

\* coap_decode_option reads back the delta and the length that
\* coap_build_option_header wrote, and finds the value right after the
\* header, whatever else the buffer holds; in particular no header is taken
\* for the payload marker.
THEOREM HeaderRoundTrip ==
  ASSUME NEW max \in Nat, NEW buf, DOMAIN buf = 0..(max - 1),
         NEW ptr \in Nat, NEW delta \in U16, NEW len \in U16,
         NEW pkt_len \in Nat \ {0},
         ptr + coap_compute_option_header_len(delta, len) <= max
  PROVE  coap_decode_option(coap_build_option_header(buf, ptr, delta, len),
                            ptr, pkt_len)
           = [err |-> "NONE", delta |-> delta, len |-> len,
              val |-> ptr + coap_compute_option_header_len(delta, len)]
<1> DEFINE b == coap_build_option_header(buf, ptr, delta, len)
<1>1. HeaderAt(b, ptr, delta, len)
  BY HeaderBytes
<1> HIDE DEF b
<1>2. coap_decode_option(b, ptr, pkt_len)
        = [err |-> "NONE", delta |-> delta, len |-> len,
           val |-> ptr + coap_compute_option_header_len(delta, len)]
  BY <1>1, HeaderDecodes
<1> QED  BY <1>2 DEF b

\* Writing a header leaves the rest of the buffer alone.
THEOREM HeaderFrame ==
  ASSUME NEW max \in Nat, NEW buf, DOMAIN buf = 0..(max - 1),
         NEW ptr \in Nat, NEW delta \in U16, NEW len \in U16,
         NEW k \in 0..(max - 1),
         k < ptr \/ k >= ptr + coap_compute_option_header_len(delta, len)
  PROVE  coap_build_option_header(buf, ptr, delta, len)[k] = buf[k]
<1> DEFINE dx == ExtraLen(delta)
           nx == ExtraLen(len)
<1>1. dx \in 0..2 /\ nx \in 0..2
  BY BaseTyped
<1>2. k < ptr \/ k > ptr + dx + nx
  BY <1>1 DEF coap_compute_option_header_len
<1> HIDE DEF dx, nx
<1>3. /\ k # ptr /\ ~(ptr < k /\ k <= ptr + dx)
      /\ ~(ptr + dx < k /\ k <= ptr + dx + nx)
  BY <1>1, <1>2
<1> QED
  BY <1>3 DEF coap_build_option_header, dx, nx
=============================================================================
