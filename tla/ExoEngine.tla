----------------------------- MODULE ExoEngine -----------------------------
(***************************************************************************)
(* The operation engine of libexositecoap (src/exosite.c): the array of     *)
(* exo_op records an application owns, the calls it makes on them between   *)
(* two calls of exo_operate, and exo_operate itself, which drains waiting   *)
(* datagrams, walks the array once to send, retransmit and acknowledge, and *)
(* returns.  The library is single threaded; the concurrency is between it, *)
(* the clock, the network and the server.                                   *)
(*                                                                          *)
(* The clock.  A timeout is only ever compared with "now", so op.timeout    *)
(* holds the outcome of that comparison: "ahead" (timeout > now), "due"     *)
(* (timeout = now) or "past" (timeout < now); the code tests < in one       *)
(* place and <= in another.                                                 *)
(*                                                                          *)
(* The network.  wire holds the requests whose answers may still arrive,    *)
(* watch the observe registrations of the server.  While the library is     *)
(* receiving, any datagram these allow may be the next one: answers are     *)
(* lost, late, repeated and reordered without an inbox.  A datagram that    *)
(* coap_validate_pkt refuses changes nothing and is a stuttering step.      *)
(***************************************************************************)
EXTENDS Integers, FiniteSets

CONSTANTS
  Count,                \* length of the op array passed to exo_operate
  AppSlots,             \* the indexes the application queues operations in
  AppTypes,             \* the operations it queues
  MidSpace,             \* message ids are 0..MidSpace-1 (2^16 in the code)
  RandMids,             \* what rand() may make the first message id
  Tokens,               \* what rand() may make a request token
  ObsBits,              \* bit positions of an observe sequence number
  COAP_MAX_RETRANSMIT,  \* coap.h
  ValueMax,             \* size of the application's value buffers
  CIK_LENGTH,           \* exosite.h
  PayloadLens,          \* lengths of the payloads the server sends
  Refusals,             \* codes outside class 2 the server answers with
  SrvMids,              \* message ids of the server's own messages
  ServerOptions,        \* option lists of the values the server sends
  BootFiles,            \* contents of the cik file on the first boot
  StoreResults,         \* contents of the cik file after exopal_store_cik
  InFlight,             \* bound on the requests that may still be answered
  Reboots               \* may the device lose power?

Slots == 0..(Count - 1)
Mids == 0..(MidSpace - 1)
NoToken == 0            \* coap_get_token of a message with TKL = 0
ObsSeq == SUBSET ObsBits  \* a sequence number, as the set of its one bits
CikFiles == {"nofile", "short", "full"}

ASSUME CountAssumption == Count \in Nat \ {0}
ASSUME AppSlotsAssumption == AppSlots \subseteq Slots
ASSUME AppTypesAssumption == AppTypes \subseteq {"READ", "WRITE", "SUBSCRIBE"}
ASSUME MidAssumption == /\ MidSpace \in Nat \ {0}
                        /\ RandMids \subseteq Mids
                        /\ SrvMids \subseteq Mids
ASSUME TokenAssumption == Tokens \subseteq Nat
ASSUME RetransmitAssumption == COAP_MAX_RETRANSMIT \in Nat
ASSUME PayloadAssumption == /\ PayloadLens \subseteq Nat
                            /\ ValueMax \in Nat
                            /\ CIK_LENGTH \in Nat
ASSUME ChoiceAssumption == InFlight \in Nat \ {0} /\ Reboots \in BOOLEAN
ASSUME FileAssumption == /\ BootFiles \subseteq CikFiles
                         /\ StoreResults \subseteq CikFiles

VARIABLES
  op,                  \* the application's exo_op array
  device_state,        \* static device_state
  message_id_counter,  \* static message_id_counter
  cik,                 \* static cik: "blank", "partial" or "full"
  file,                \* the file "cik" of the POSIX PAL
  pc,                  \* "app", or the half of exo_operate that is running
  cursor,              \* i of the loop of exo_process_active_ops
  wire,                \* requests that may still be answered
  watch,               \* the server's observe registrations
  sent,                \* history: message ids sent for the queued operation
  reused,              \* history: a message id was issued while an earlier
                       \* request under it was awaited or could be answered
  clash                \* history: two slots were given the same token

lib == <<device_state, message_id_counter, cik, file>>
net == <<wire, watch, sent, reused, clash>>
vars == <<op, lib, pc, cursor, net>>

-----------------------------------------------------------------------------
(* The exo_op record.                                                       *)

OpTypes == {"NULL", "WRITE", "READ", "SUBSCRIBE", "ACTIVATE"}
OpStates == {"NULL", "NEW", "PENDING", "SUBSCRIBED",
             "SUB_ACK", "SUB_ACK_NEW", "SUCCESS", "ERROR"}
Timers == {"ahead", "due", "past"}

\* The buffer op.value is {} when it holds the empty string and {v} when it
\* holds version v of the dataport; the server numbers versions as it
\* numbers notifications.
Op == [type : OpTypes, state : OpStates, value : SUBSET ObsSeq,
       mid : Mids, obs_seq : ObsSeq, tkl : {0}, token : Nat,
       timeout : Timers, retries : 0..COAP_MAX_RETRANSMIT]

exo_op_init == [type |-> "NULL", state |-> "NULL", value |-> {}, mid |-> 0,
                obs_seq |-> {}, tkl |-> 0, token |-> 0,
                timeout |-> "past", retries |-> 0]

\* exo_write, exo_read, exo_subscribe and exo_activate differ only in the
\* type; none of them touches retries, timeout, token or obs_seq.  The
\* buffer is a new one; that of a write is the application's and only read.
Queued(o, t) == [o EXCEPT !.type = t, !.state = "NEW", !.value = {}, !.mid = 0]

exo_activate(o) == Queued(o, "ACTIVATE")

exo_is_op_finished(o) == o.state \in {"SUCCESS", "ERROR"}

exo_op_done_clears(o) == exo_op_init

exo_op_done(o) ==
  IF o.type = "SUBSCRIBE" THEN [o EXCEPT !.state = "SUBSCRIBED"] ELSE exo_op_init

SingleShot == {"READ", "WRITE"}

\* What the application reads of an operation.
Result(o) == <<o.type, o.state, o.value>>

\* message_id_counter++ on a uint16_t.
NextMid(x) == IF x = MidSpace - 1 THEN 0 ELSE x + 1

-----------------------------------------------------------------------------
(* Datagrams.                                                               *)

Success == {"CHANGED", "CONTENT"}                        \* class 2
Failures == {"EMPTY", "UNAUTHORIZED", "NOT_FOUND", "OTHER"}  \* other classes

ASSUME RefusalAssumption == Refusals \subseteq Failures

\* A request.  Its slot is history: the one whose operation waits for this
\* answer, Past once another request has been sent there.
Past == -1

Request == [mid : Mids, kind : OpTypes \ {"NULL"}, slot : Slots \cup {Past},
            token : Nat]

Registration == [token : Nat, slot : Slots]

\* The options of a message, by what the lookup of Observe (6) meets: the
\* option, one above it, no option at all, or only options below it.
OptionLists == {"observe", "above", "none", "below"}

ASSUME OptionAssumption == ServerOptions \subseteq OptionLists

Message == [type : {"CON", "NON", "ACK", "RST"}, mid : Mids, token : Nat,
            code : Success \cup Failures, options : OptionLists,
            len : Nat, val : ObsSeq]

\* What the server, an intermediary or its stack answers to request r: a
\* piggybacked response, a refusal, an empty acknowledgement or a reset.
\* The library does not look at the token of an acknowledgement; it does at
\* that of a reset, which RFC 7252 wants empty.
Acks(r, codes, options, lens, vals) ==
  [type : {"ACK"}, mid : {r.mid}, token : {NoToken}, code : codes,
   options : options, len : lens, val : vals]

Resets(r) ==
  [type : {"RST"}, mid : {r.mid}, token : {NoToken, r.token}, code : {"EMPTY"},
   options : {"none"}, len : {0}, val : {{}}]

Answers(r) ==
  CASE r.kind = "WRITE" -> Acks(r, {"CHANGED"}, {"none"}, {0}, {{}})
    [] r.kind \in {"READ", "ACTIVATE"} ->
         Acks(r, {"CONTENT"}, {"none"}, PayloadLens, {{}})
    [] r.kind = "SUBSCRIBE" ->
         Acks(r, {"CONTENT"}, ServerOptions, PayloadLens, ObsSeq)

Replies(r) ==
  Answers(r) \cup Acks(r, Refusals, {"none"}, {0}, {{}}) \cup Resets(r)

\* What registration w makes the server send: a new value, an update
\* without content, or the end of the observation.
Notifications(w) ==
  [type : {"CON", "NON"}, mid : SrvMids, token : {w.token},
   code : {"CONTENT"}, options : ServerOptions, len : PayloadLens, val : ObsSeq]
  \cup
  [type : {"CON", "NON"}, mid : SrvMids, token : {w.token},
   code : {"CHANGED", "OTHER"}, options : {"none"}, len : {0}, val : {{}}]

\* Messages that belong to no exchange of this device (a CoAP ping).
Strangers ==
  [type : {"CON", "NON"}, mid : SrvMids, token : {NoToken},
   code : {"EMPTY"}, options : {"none"}, len : {0}, val : {{}}]

Datagrams ==
  (UNION {Replies(r) : r \in wire})
  \cup (UNION {Notifications(w) : w \in watch})
  \cup Strangers

\* The sequence number the library reads.  coap_get_option_by_num gives an
\* empty option when it stops at one above Observe, but the payload when
\* there is no option, and its bytes may make any number.
Sequence(m) == CASE m.options = "observe" -> {m.val}
                 [] m.options = "above" -> {{}}
                 [] OTHER -> ObsSeq

\* now + max_age * 1000000 + rand() % 1500000; Max-Age may be 0.
MaxAgeTimeout == {"ahead", "due"}

-----------------------------------------------------------------------------
(* Power-up.                                                                *)

Init ==
  /\ op = [i \in Slots |-> exo_op_init]
  /\ device_state = "UNINITIALIZED"
  /\ message_id_counter = 0
  /\ cik = "blank"
  /\ file \in BootFiles
  /\ pc = "app"
  /\ cursor = 0
  /\ wire = {}
  /\ watch = {}
  /\ sent = [i \in Slots |-> {}]
  /\ reused = FALSE
  /\ clash = FALSE

\* exopal_retrieve_cik: a short read has overwritten the buffer already.
Retrieved == CASE file = "full" -> "full"
               [] file = "short" -> "partial"
               [] file = "nofile" -> cik

retrieve_short_is_fatal == IF file = "full" THEN 0 ELSE 2

\* exopal_retrieve_cik: 0 when 40 characters were read, 1 when fewer, 2
\* when the file cannot be opened.
exopal_retrieve_cik == CASE file = "full" -> 0
                         [] file = "short" -> 1
                         [] file = "nofile" -> 2

\* exo_init succeeds: every PAL call did.
exo_init ==
  /\ pc = "app" /\ device_state = "UNINITIALIZED"
  /\ exopal_retrieve_cik <= 1
  /\ message_id_counter' \in RandMids
  /\ cik' = Retrieved
  /\ device_state' = "INITIALIZED"
  /\ UNCHANGED <<op, file, pc, cursor, net>>

\* exo_init fails: the cik file cannot be opened, or exopal_udp_sock fails
\* after the file was read (a name server that is not up yet).
exo_init_fails ==
  /\ pc = "app" /\ device_state = "UNINITIALIZED"
  /\ message_id_counter' \in RandMids
  /\ cik' = Retrieved
  /\ UNCHANGED <<op, device_state, file, pc, cursor, net>>

\* main() starts over with exo_init still to come and every op initialised.
\* The cik file, the datagrams in flight and the server's registrations
\* survive.
Restarted ==
  /\ op' = [i \in Slots |-> exo_op_init]
  /\ device_state' = "UNINITIALIZED"
  /\ cik' = "blank"
  /\ pc' = "app" /\ cursor' = 0
  /\ sent' = [i \in Slots |-> {}]
  /\ UNCHANGED <<message_id_counter, file, wire, watch, reused, clash>>

\* The device loses power anywhere.
Reboot == Reboots /\ Restarted

-----------------------------------------------------------------------------
(* The application, between two calls of exo_operate.                       *)

\* exo_write, exo_read or exo_subscribe on a slot that is free, or whose
\* operation has finished (the example queues its error counter without an
\* exo_op_done in between).
Queue(i, t) ==
  /\ pc = "app"
  /\ op[i].state = "NULL" \/ exo_is_op_finished(op[i])
  /\ op' = [op EXCEPT ![i] = Queued(@, t)]
  /\ sent' = [sent EXCEPT ![i] = {}]
  /\ UNCHANGED <<lib, pc, cursor, wire, watch, reused, clash>>

\* exo_op_done, once the application has looked at a finished operation.
Done(i) ==
  /\ pc = "app"
  /\ exo_is_op_finished(op[i])
  /\ op' = [op EXCEPT ![i] = exo_op_done(@)]
  /\ UNCHANGED <<lib, pc, cursor, net>>

\* exo_op_init on an operation in use: the only way to cancel one.
Cancel(i) ==
  /\ pc = "app"
  /\ op[i].state # "NULL"
  /\ op' = [op EXCEPT ![i] = exo_op_init]
  /\ UNCHANGED <<lib, pc, cursor, net>>

exo_operate_once ==
  /\ pc = "app"
  /\ device_state # "UNINITIALIZED"
  /\ op' = IF device_state = "INITIALIZED" /\ op[0].state = "NULL"
           THEN [op EXCEPT ![0] = exo_activate(@)]
           ELSE op
  /\ pc' = "recv"
  /\ UNCHANGED <<lib, cursor, net>>

\* Entry of exo_operate.  An uninitialised library returns EXO_ERROR and
\* changes nothing; until it has been activated slot 0 is (re)activated
\* whenever it is free or its timeout lies strictly in the past.
exo_operate ==
  /\ pc = "app"
  /\ device_state # "UNINITIALIZED"
  /\ op' = IF /\ device_state \in {"INITIALIZED", "BAD_CIK"}
              /\ op[0].state = "NULL" \/ op[0].timeout = "past"
           THEN [op EXCEPT ![0] = exo_activate(@)]
           ELSE op
  /\ pc' = "recv"
  /\ UNCHANGED <<lib, cursor, net>>

operate_result_unwaited ==
  IF \E i \in Slots : op[i].state = "NEW" THEN "BUSY" ELSE "IDLE"

\* What exo_operate returns once the array has been walked.
exo_operate_result ==
  CASE \E i \in Slots : op[i].state = "NEW" -> "BUSY"
    [] ~(\E i \in Slots : op[i].state = "NEW")
       /\ \E i \in Slots : op[i].state = "PENDING" -> "WAITING"
    [] OTHER -> "IDLE"

Return ==
  /\ pc = "active" /\ cursor = Count
  /\ pc' = "app" /\ cursor' = 0
  /\ UNCHANGED <<op, lib, net>>

-----------------------------------------------------------------------------
(* exo_process_waiting_datagrams: one datagram per step.                    *)

\* exopal_udp_recv has nothing: the active operations are next.
RecvNone ==
  /\ pc = "recv"
  /\ pc' = "active"
  /\ UNCHANGED <<op, lib, cursor, net>>

ClaimsByToken(o, m) ==
  \/ m.type \in {"CON", "NON"} /\ o.token = m.token
  \/ m.type = "ACK" /\ o.state = "PENDING" /\ o.mid = m.mid
  \/ m.type = "RST" /\ o.state = "PENDING" /\ o.mid = m.mid

ClaimsFinished(o, m) ==
  \/ /\ m.type \in {"CON", "NON"}
     /\ o.state \in {"SUBSCRIBED", "SUCCESS"} /\ o.token = m.token
  \/ m.type = "ACK" /\ o.state = "PENDING" /\ o.mid = m.mid
  \/ m.type = "RST" /\ o.state = "PENDING" /\ o.mid = m.mid

\* Does this operation recognise the message?
Claims(o, m) ==
  \/ /\ m.type \in {"CON", "NON"}
     /\ o.state = "SUBSCRIBED" /\ o.token = m.token
  \/ /\ m.type = "ACK"
     /\ o.state = "PENDING" /\ o.mid = m.mid
     /\ ~(o.type = "NULL" /\ m.code \in Success)
  \/ /\ m.type = "RST"
     /\ o.state \in {"PENDING", "SUBSCRIBED"}
     /\ o.mid = m.mid /\ o.token = m.token

\* Slot i is the first of the array that recognises m.
Takes(i, m) == /\ Claims(op[i], m)
               /\ \A j \in 0..(i - 1) : ~Claims(op[j], m)

\* No slot does: a CON is answered with a RST, best effort, and the loop is
\* left whatever else is waiting.
Unrecognised(m) ==
  /\ \A i \in Slots : ~Claims(op[i], m)
  /\ pc' = "active"
  /\ UNCHANGED <<op, lib, cursor, net>>

Becomes(i, o) ==
  /\ op' = [op EXCEPT ![i] = o]
  /\ UNCHANGED <<lib, pc, cursor, net>>

TooLong(m) == m.len + 1 > ValueMax

NotifyEmpty(i, m) ==
  /\ m.type \in {"CON", "NON"} /\ m.code = "CONTENT" /\ m.len = 0
  /\ Becomes(i, [op[i] EXCEPT !.value = {}])

\* Too long a value, or a response code outside class 2, ends it.
NotifyError(i, m) ==
  /\ m.type \in {"CON", "NON"}
  /\ \/ m.code = "CONTENT" /\ m.len # 0 /\ TooLong(m)
     \/ m.code \notin Success
  /\ Becomes(i, [op[i] EXCEPT !.state = "ERROR"])

NotifyValue(i, m) ==
  /\ m.type \in {"CON", "NON"} /\ m.code = "CONTENT" /\ m.len # 0 /\ ~TooLong(m)
  /\ \E new_seq \in Sequence(m), t \in MaxAgeTimeout :
       Becomes(i, [op[i] EXCEPT
                     !.value = {m.val}, !.mid = m.mid, !.obs_seq = new_seq,
                     !.state = IF op[i].obs_seq # new_seq
                               THEN "SUB_ACK_NEW" ELSE "SUB_ACK",
                     !.timeout = t])

NotifyIgnored(i, m) ==
  /\ m.type \in {"CON", "NON"} /\ m.code \in Success \ {"CONTENT"}
  /\ Becomes(i, op[i])

AckWrite(i, m) ==
  /\ m.type = "ACK" /\ m.code \in Success /\ op[i].type = "WRITE"
  /\ Becomes(i, [op[i] EXCEPT !.state = "SUCCESS"])

\* An empty value leaves a read or a subscription pending.
AckEmpty(i, m) ==
  /\ m.type = "ACK" /\ m.code \in Success
  /\ op[i].type \in {"READ", "SUBSCRIBE"} /\ m.len = 0
  /\ Becomes(i, [op[i] EXCEPT !.value = {}])

AckTooLong(i, m) ==
  /\ m.type = "ACK" /\ m.code \in Success
  /\ op[i].type \in {"READ", "SUBSCRIBE"} /\ m.len # 0 /\ TooLong(m)
  /\ Becomes(i, [op[i] EXCEPT !.state = "ERROR"])

AckRead(i, m) ==
  /\ m.type = "ACK" /\ m.code \in Success /\ op[i].type = "READ"
  /\ m.len # 0 /\ ~TooLong(m)
  /\ Becomes(i, [op[i] EXCEPT !.value = {m.val}, !.state = "SUCCESS"])

\* The loop folds the option into the number the op already holds: with
\* one option byte, a bitwise or; with an empty option, nothing.
Folded(o, m) == CASE m.options = "observe" -> {o.obs_seq \cup m.val}
                  [] m.options = "above" -> {o.obs_seq}
                  [] OTHER -> ObsSeq

AckSubscribe(i, m) ==
  /\ m.type = "ACK" /\ m.code \in Success /\ op[i].type = "SUBSCRIBE"
  /\ m.len # 0 /\ ~TooLong(m)
  /\ \E seq \in Folded(op[i], m), t \in MaxAgeTimeout :
       Becomes(i, [op[i] EXCEPT !.value = {m.val}, !.state = "SUCCESS",
                                !.obs_seq = seq, !.timeout = t])

AckActivatedStays(i, m) ==
  /\ m.type = "ACK" /\ m.code \in Success /\ op[i].type = "ACTIVATE"
  /\ m.len = CIK_LENGTH
  /\ cik' = "full"
  /\ file' \in StoreResults
  /\ device_state' = "GOOD"
  /\ op' = [op EXCEPT ![i].state = "SUCCESS"]
  /\ UNCHANGED <<message_id_counter, pc, cursor, net>>

\* A CIK: it is copied and stored, whatever exopal_store_cik returns.
AckActivated(i, m) ==
  /\ m.type = "ACK" /\ m.code \in Success /\ op[i].type = "ACTIVATE"
  /\ m.len = CIK_LENGTH
  /\ cik' = "full"
  /\ file' \in StoreResults
  /\ device_state' = "GOOD"
  /\ op' = [op EXCEPT ![i] = exo_op_init]
  /\ UNCHANGED <<message_id_counter, pc, cursor, net>>

AckNoCik(i, m) ==
  /\ m.type = "ACK" /\ m.code \in Success /\ op[i].type = "ACTIVATE"
  /\ m.len # CIK_LENGTH
  /\ Becomes(i, exo_op_init)

AckRefusedInPlace(i, m) ==
  /\ m.type = "ACK" /\ m.code \notin Success
  /\ op' = [op EXCEPT ![i] = IF m.code = "UNAUTHORIZED" THEN exo_activate(@)
                             ELSE [@ EXCEPT !.state = "ERROR"]]
  /\ device_state' = IF m.code = "NOT_FOUND" THEN "GOOD" ELSE device_state
  /\ UNCHANGED <<message_id_counter, cik, file, pc, cursor, net>>

\* Any other class fails the operation.  4.01 queues an activation in slot
\* 0 unless one is under way there; 4.04 is taken to mean "activated".
AckRefused(i, m) ==
  /\ m.type = "ACK" /\ m.code \notin Success
  /\ LET failed == [op EXCEPT ![i].state = "ERROR"]
     IN  op' = IF /\ m.code = "UNAUTHORIZED"
                  /\ failed[0].type = "NULL" \/ failed[0].timeout = "past"
               THEN [failed EXCEPT ![0] = exo_activate(@)]
               ELSE failed
  /\ device_state' = IF m.code = "NOT_FOUND" THEN "GOOD" ELSE device_state
  /\ UNCHANGED <<message_id_counter, cik, file, pc, cursor, net>>

Reset(i, m) ==
  /\ m.type = "RST"
  /\ Becomes(i, [op[i] EXCEPT !.state = "ERROR"])

Handle(i, m) ==
  \/ NotifyEmpty(i, m) \/ NotifyError(i, m) \/ NotifyValue(i, m)
  \/ NotifyIgnored(i, m)
  \/ AckWrite(i, m) \/ AckEmpty(i, m) \/ AckTooLong(i, m) \/ AckRead(i, m)
  \/ AckSubscribe(i, m) \/ AckActivated(i, m) \/ AckNoCik(i, m)
  \/ AckRefused(i, m) \/ Reset(i, m)

\* Behind options below Observe the lookup leaves a null pointer with a
\* length that is not zero, which the loops over the option's bytes read:
\* for a notification always, for an acknowledgement once the value is
\* copied.
ReadsNull(o, m) ==
  /\ m.options = "below" /\ m.len # 0
  /\ \/ m.type \in {"CON", "NON"} /\ m.code = "CONTENT"
     \/ /\ m.type = "ACK" /\ m.code \in Success
        /\ o.type = "SUBSCRIBE" /\ ~TooLong(m)

Receive(m) ==
  /\ pc = "recv"
  /\ \/ Unrecognised(m)
     \/ \E i \in Slots : Takes(i, m) /\ ~ReadsNull(op[i], m) /\ Handle(i, m)

\* The program dies of such a message, and is started again.
Crash(m) ==
  /\ pc = "recv"
  /\ \E i \in Slots : Takes(i, m) /\ ReadsNull(op[i], m)
  /\ Restarted

-----------------------------------------------------------------------------
(* exo_process_active_ops: one slot per step, in the order of the array.    *)
(* "now" is read once, before the loop, so the clock stands still here.     *)

Visits(i) == pc = "active" /\ cursor = i /\ cursor' = i + 1 /\ pc' = pc

Expired(o) == o.timeout \in {"due", "past"}

\* The requests that can still be answered when another one is sent: any of
\* them, also those under the same message id, may have outlived its
\* COAP_EXCHANGE_LIFETIME or not, since every start seeds the counter at
\* random and sends that fail spend ids as fast as exo_operate is called.
Survivors == {W \in SUBSET wire : Cardinality(W) < InFlight}

\* Slot i waits for no request of W any more.
Superseded(W, i) == {IF r.slot = i THEN [r EXCEPT !.slot = Past] ELSE r : r \in W}

\* Is an operation still waiting for the answer to message id x?
InUse(x) == \E j \in Slots : op[j].state = "PENDING" /\ op[j].mid = x

\* The operation once its request is out: mid and token are read back from
\* the message.
SentForgetsToken(o, mid, token) ==
  [o EXCEPT !.state = "PENDING", !.timeout = "ahead", !.mid = mid]

Sent(o, mid, token) ==
  [o EXCEPT !.state = "PENDING", !.timeout = "ahead", !.mid = mid,
            !.token = token]

\* NEW: build the request with the next message id and a random token, and
\* send it.
SendRequest(i, token) ==
  /\ Visits(i)
  /\ op[i].state = "NEW" /\ op[i].type # "NULL"
  /\ op' = [op EXCEPT ![i] = Sent(@, message_id_counter, token)]
  /\ message_id_counter' = NextMid(message_id_counter)
  /\ \E left \in Survivors :
       /\ wire' = Superseded(left, i)
                    \cup {[mid |-> message_id_counter, kind |-> op[i].type,
                           slot |-> i, token |-> token]}
       /\ reused' = (\/ reused \/ InUse(message_id_counter)
                     \/ \E r \in left : r.mid = message_id_counter)
  /\ watch' = IF op[i].type = "SUBSCRIBE"
              THEN watch \cup {[token |-> token, slot |-> i]} ELSE watch
  /\ sent' = IF op[i].type \in SingleShot
             THEN [sent EXCEPT ![i] = @ \cup {message_id_counter}] ELSE sent
  /\ clash' = (clash \/ \E w \in watch : w.token = token /\ w.slot # i)
  /\ UNCHANGED <<device_state, cik, file>>

\* exopal_udp_send fails: the operation stays NEW, the message id is spent.
SendRequestFails(i) ==
  /\ Visits(i)
  /\ op[i].state = "NEW" /\ op[i].type # "NULL"
  /\ message_id_counter' = NextMid(message_id_counter)
  /\ UNCHANGED <<op, device_state, cik, file, net>>

MayRetransmitOnceMore(o) ==
  /\ o.state \in {"PENDING", "SUBSCRIBED"} /\ Expired(o)
  /\ o.type \in SingleShot \cup {"ACTIVATE"}
  /\ o.retries <= COAP_MAX_RETRANSMIT

MayRetransmit(o) ==
  /\ o.state \in {"PENDING", "SUBSCRIBED"} /\ Expired(o)
  /\ o.type \in SingleShot \cup {"ACTIVATE"}
  /\ o.retries < COAP_MAX_RETRANSMIT

\* A retransmission is a rebuilt message, which takes a message id from the
\* counter; the id and the token of the operation are then put back, the
\* token with length op.tkl, which nothing ever sets: it is dropped.
RetransmitToken(o) == IF o.tkl = 0 THEN NoToken ELSE o.token

RetransmitNewMid(i) == message_id_counter

RetransmitMid(i) == op[i].mid

Retransmit(i) ==
  /\ Visits(i)
  /\ MayRetransmit(op[i])
  /\ op' = [op EXCEPT ![i].retries = @ + 1, ![i].timeout = "ahead"]
  /\ message_id_counter' = NextMid(message_id_counter)
  /\ wire' = wire \cup {[mid |-> RetransmitMid(i), kind |-> op[i].type,
                         slot |-> i, token |-> RetransmitToken(op[i])]}
  /\ sent' = IF op[i].type \in SingleShot
             THEN [sent EXCEPT ![i] = @ \cup {RetransmitMid(i)}] ELSE sent
  /\ UNCHANGED <<device_state, cik, file, watch, reused, clash>>

RetransmitFails(i) ==
  /\ Visits(i)
  /\ MayRetransmit(op[i])
  /\ message_id_counter' = NextMid(message_id_counter)
  /\ UNCHANGED <<op, device_state, cik, file, net>>

MayGiveUp(o) ==
  /\ o.state \in {"PENDING", "SUBSCRIBED"} /\ Expired(o)
  /\ o.type \in SingleShot \cup {"ACTIVATE"}
  /\ o.retries >= COAP_MAX_RETRANSMIT

GiveUpStaysPending(i) ==
  /\ Visits(i)
  /\ MayGiveUp(op[i])
  /\ UNCHANGED <<op, lib, net>>

GiveUp(i) ==
  /\ Visits(i)
  /\ MayGiveUp(op[i])
  /\ op' = [op EXCEPT ![i].state = "ERROR"]
  /\ UNCHANGED <<lib, net>>

\* A subscription that hears nothing is requested again.
MayRenew(o) ==
  /\ o.state \in {"PENDING", "SUBSCRIBED"} /\ Expired(o)
  /\ o.type = "SUBSCRIBE"

RenewForgotten(i) ==
  /\ Visits(i)
  /\ MayRenew(op[i])
  /\ UNCHANGED <<op, lib, net>>

Renew(i) ==
  /\ Visits(i)
  /\ MayRenew(op[i])
  /\ op' = [op EXCEPT ![i].state = "NEW"]
  /\ UNCHANGED <<lib, net>>

SendAckNeverShows(i) ==
  /\ Visits(i)
  /\ op[i].state \in {"SUB_ACK", "SUB_ACK_NEW"}
  /\ op' = [op EXCEPT ![i].state = "SUBSCRIBED"]
  /\ UNCHANGED <<lib, net>>

\* Acknowledge a notification; a new value is then shown to the
\* application, a repeated one is not.
SendAck(i) ==
  /\ Visits(i)
  /\ op[i].state \in {"SUB_ACK", "SUB_ACK_NEW"}
  /\ op' = [op EXCEPT ![i].state = IF @ = "SUB_ACK" THEN "SUBSCRIBED"
                                   ELSE "SUCCESS"]
  /\ UNCHANGED <<lib, net>>

SendAckFails(i) ==
  /\ Visits(i)
  /\ op[i].state \in {"SUB_ACK", "SUB_ACK_NEW"}
  /\ UNCHANGED <<op, lib, net>>

\* Nothing to do for slot i.
Skip(i) ==
  /\ Visits(i)
  /\ \/ op[i].state \in {"NULL", "SUCCESS", "ERROR"}
     \/ op[i].type = "NULL"
     \/ op[i].state \in {"PENDING", "SUBSCRIBED"} /\ ~Expired(op[i])
  /\ UNCHANGED <<op, lib, net>>

-----------------------------------------------------------------------------
(* The environment.                                                         *)

\* Time passes: any timeouts ahead become due, and one that was due is past.
\* Only that of slot 0 is ever compared with <, so only there are due and
\* past told apart.
Tick ==
  /\ pc # "active"
  /\ \E S \in SUBSET {i \in Slots : op[i].timeout = "ahead"} :
       op' = [i \in Slots |->
                IF i \in S THEN [op[i] EXCEPT !.timeout = "due"]
                ELSE IF i = 0 /\ op[i].timeout = "due"
                     THEN [op[i] EXCEPT !.timeout = "past"] ELSE op[i]]
  /\ op' # op
  /\ UNCHANGED <<lib, pc, cursor, net>>

-----------------------------------------------------------------------------
Application ==
  \E i \in AppSlots : Done(i) \/ Cancel(i) \/ \E t \in AppTypes : Queue(i, t)

Process(i) ==
  \/ \E token \in Tokens : SendRequest(i, token)
  \/ SendRequestFails(i) \/ Retransmit(i) \/ RetransmitFails(i)
  \/ GiveUp(i) \/ Renew(i) \/ SendAck(i) \/ SendAckFails(i) \/ Skip(i)

Next ==
  \/ exo_init \/ exo_init_fails \/ Reboot
  \/ Application
  \/ exo_operate
  \/ RecvNone
  \/ \E m \in Datagrams : Receive(m) \/ Crash(m)
  \/ \E i \in Slots : Process(i)
  \/ Return
  \/ Tick

Spec == Init /\ [][Next]_vars

-----------------------------------------------------------------------------
(* Correctness.                                                             *)

\* Every variable has its type: in particular the retry count never passes
\* COAP_MAX_RETRANSMIT and message ids stay in their 16-bit range.
TypeOK ==
  /\ op \in [Slots -> Op]
  /\ device_state \in {"UNINITIALIZED", "INITIALIZED", "GOOD", "BAD_CIK"}
  /\ message_id_counter \in Mids
  /\ cik \in {"blank", "partial", "full"}
  /\ file \in CikFiles
  /\ pc \in {"app", "recv", "active"}
  /\ cursor \in 0..Count
  /\ wire \subseteq Request
  /\ watch \subseteq Registration
  /\ sent \in [Slots -> SUBSET Mids]
  /\ reused \in BOOLEAN
  /\ clash \in BOOLEAN

\* "pending null request? shouldn't be possible": the type of an operation
\* and its state always agree, only a subscription is ever in a subscription
\* state, and the activation slot never holds an application's operation.
OpShape ==
  /\ \A i \in Slots :
       /\ op[i].type = "NULL" <=> op[i].state = "NULL"
       /\ op[i].state \in {"SUBSCRIBED", "SUB_ACK", "SUB_ACK_NEW"}
            => op[i].type = "SUBSCRIBE"
       /\ op[i].type = "ACTIVATE" => op[i].state \in {"NEW", "PENDING", "ERROR"}
       /\ i # 0 => op[i].type # "ACTIVATE"
  /\ 0 \notin AppSlots => op[0].type \in {"NULL", "ACTIVATE"}

\* An acknowledgement is matched by message id alone.  Unless an id was
\* issued while an earlier request under it was still awaited or could still
\* be answered, whatever arrives under the id of a pending operation answers
\* the request it waits for: not one of another slot, and not one of an
\* operation that was finished, cancelled or cut off by a restart here.
RequestOwn ==
  ~reused => \A i \in Slots, r \in wire :
               op[i].state = "PENDING" /\ op[i].mid = r.mid
                 => r.slot = i /\ r.kind = op[i].type

\* A notification is matched by token alone: unless rand() has given two
\* slots the same token, no subscription takes a notification of another.
NotificationOwn ==
  ~clash => \A i \in Slots, w \in watch :
              op[i].state = "SUBSCRIBED" /\ op[i].token = w.token => w.slot = i

\* A read or write reaches the server under one message id however often it
\* is retransmitted, so the server can tell a repeat from a second write.
OneMessageId ==
  \A i \in Slots : op[i].type \in SingleShot =>
    /\ op[i].state = "NEW" => sent[i] = {}
    /\ op[i].state # "NEW" => sent[i] = {op[i].mid}

\* README, EXO_IDLE: "all of the queued single-shot operations have succeeded
\* or failed", whichever states the answers, refusals and timeouts of this
\* call have left the array in.
IdleMeansFinished ==
  pc = "active" /\ cursor = Count /\ exo_operate_result = "IDLE" =>
    \A i \in AppSlots : op[i].type \in SingleShot => exo_is_op_finished(op[i])

\* The steps of exo_operate, its entry included, and what happens during it.
LibraryStep == (pc # "app" \/ pc' # "app") /\ ~Restarted

\* The library never drops an operation of the application or turns it into
\* another one, and never touches one that has finished: its result stays
\* as it is until the application has looked at it.
ApplicationOwns ==
  [][LibraryStep =>
       \A i \in AppSlots :
         /\ op[i].type \in AppTypes => op'[i].type = op[i].type
         /\ exo_is_op_finished(op[i]) => Result(op'[i]) = Result(op[i])]_vars

-----------------------------------------------------------------------------
(* Liveness.                                                                *)

\* Fairness.  The application keeps calling exo_operate (and exo_init until
\* it succeeds), which runs to completion: the network does not deliver
\* datagrams faster than they are drained for ever.  exopal_udp_send fails
\* now and then, not always.  Time passes.
Expires(i) == Tick /\ op[i].timeout = "ahead" /\ op'[i].timeout = "due"

Elapses == Tick /\ op[0].timeout = "due"

Fairness ==
  /\ WF_vars(exo_init) /\ WF_vars(exo_operate)
  /\ WF_vars(RecvNone) /\ WF_vars(Return)
  /\ \A i \in Slots :
       /\ WF_vars(Process(i))
       /\ SF_vars(\E token \in Tokens : SendRequest(i, token))
       /\ SF_vars(Retransmit(i))
       /\ SF_vars(SendAck(i))
       /\ SF_vars(Expires(i))
  /\ SF_vars(Elapses)

FairSpec == Spec /\ Fairness

\* A read or a write that was queued finishes, one way or the other, unless
\* the application takes it back: lost, empty and foreign answers, failing
\* sends and a re-used slot do not keep it pending for ever.
SingleShotFinishes ==
  \A i \in AppSlots :
    (op[i].type \in SingleShot /\ op[i].state \in {"NEW", "PENDING"})
      ~> (exo_is_op_finished(op[i]) \/ op[i].state = "NULL")

\* A subscription at rest does not stay at rest for ever: a notification
\* moves it, or silence makes the library ask again.
SubscriptionRefreshed ==
  \A i \in AppSlots :
    op[i].state = "SUBSCRIBED" ~> op[i].state # "SUBSCRIBED"

\* A notification accepted as new is shown to the application.
UpdateShown ==
  \A i \in AppSlots :
    op[i].state = "SUB_ACK_NEW" ~> op[i].state \in {"SUCCESS", "NULL"}

\* A device that has once stored a CIK comes up again, even if it lost power
\* or the write failed half way through exopal_store_cik.
ComesUp == device_state = "UNINITIALIZED" ~> device_state # "UNINITIALIZED"

\* Until it succeeds the library never stops trying to activate the device,
\* whatever the server answers and however often the retries run out.
ActivationPersists ==
  []<>(device_state # "INITIALIZED" \/ op[0].state = "PENDING")

-----------------------------------------------------------------------------
(* The engine implements the lifecycle its application relies on.           *)

KindOf(o) == CASE o.type = "NULL" -> "none"
               [] o.type = "SUBSCRIBE" -> "sustained"
               [] OTHER -> "single"

PhaseOf(o) == CASE o.state = "NULL" -> "free"
                [] o.state = "NEW" -> "queued"
                [] o.state = "PENDING" -> "inflight"
                [] o.state = "SUBSCRIBED" -> "watching"
                [] o.state = "SUB_ACK" -> "confirming"
                [] o.state = "SUB_ACK_NEW" -> "reporting"
                [] o.state = "SUCCESS" -> "succeeded"
                [] o.state = "ERROR" -> "failed"

Lifecycle == INSTANCE OpLifecycle
  WITH Ops <- AppSlots,
       Values <- SUBSET ObsSeq,
       kind <- [i \in AppSlots |-> KindOf(op[i])],
       phase <- [i \in AppSlots |-> PhaseOf(op[i])],
       value <- [i \in AppSlots |-> op[i].value]

\* Every step of the library, the network, the clock and the application is
\* a step of at most one operation's lifecycle, and an allowed one.
ImplementsLifecycle == Lifecycle!Spec
=============================================================================
