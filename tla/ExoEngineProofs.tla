-------------------------- MODULE ExoEngineProofs --------------------------
(***************************************************************************)
(* Theorems about ExoEngine, for every number of slots, every message id    *)
(* space, every set of tokens, payload lengths and server behaviours.       *)
(***************************************************************************)
EXTENDS ExoEngine, TLAPS

USE DEF Slots, Mids, ObsSeq, NoToken, CikFiles

-----------------------------------------------------------------------------
(* Type correctness.                                                        *)

\* 0 is a message id, a number of retries, a slot and a position.
LEMMA ZeroTyped == /\ 0 \in Mids /\ 0 \in 0..COAP_MAX_RETRANSMIT
                   /\ 0 \in Slots /\ 0 \in 0..Count
  BY CountAssumption, MidAssumption, RetransmitAssumption

\* The counter of message ids wraps around within them.
LEMMA NextMidTyped == \A x \in Mids : NextMid(x) \in Mids
  BY MidAssumption DEF NextMid

\* The operators on operations stay within the type of an operation.
LEMMA InitTyped == exo_op_init \in Op
  BY ZeroTyped DEF Op, OpTypes, OpStates, Timers, exo_op_init

\* A queued operation is an operation.
LEMMA QueuedTyped ==
  ASSUME NEW o \in Op, NEW t \in OpTypes
  PROVE  Queued(o, t) \in Op
  BY ZeroTyped DEF Op, OpStates, Queued

\* So is the activation in slot 0.
LEMMA ActivateTyped == \A o \in Op : exo_activate(o) \in Op
  BY QueuedTyped DEF exo_activate, OpTypes

\* So is one whose state changes.
LEMMA StateTyped ==
  ASSUME NEW o \in Op, NEW s \in OpStates
  PROVE  [o EXCEPT !.state = s] \in Op
  BY DEF Op

\* So is the one exo_op_done leaves.
LEMMA DoneTyped == \A o \in Op : exo_op_done(o) \in Op
  BY InitTyped, StateTyped DEF exo_op_done, OpStates

\* So is one whose request has been sent.
LEMMA SentTyped ==
  ASSUME NEW o \in Op, NEW mid \in Mids, NEW token \in Nat
  PROVE  Sent(o, mid, token) \in Op
  BY DEF Op, OpStates, Timers, Sent

\* A record with the fields of a message.
IsRecord(m) ==
  m = [type |-> m.type, mid |-> m.mid, token |-> m.token, code |-> m.code,
       options |-> m.options, len |-> m.len, val |-> m.val]

\* Such a record is a message.
LEMMA MessageTyped ==
  ASSUME NEW m, IsRecord(m),
         m.type \in {"CON", "NON", "ACK", "RST"}, m.mid \in Mids, m.token \in Nat,
         m.code \in Success \cup Failures, m.options \in OptionLists,
         m.len \in Nat, m.val \in ObsSeq
  PROVE  m \in Message
  BY DEF Message, IsRecord

\* An acknowledgement of the server is a message.
LEMMA AcksTyped ==
  ASSUME NEW r, r.mid \in Mids, NEW C, NEW O, NEW L, NEW V,
         C \subseteq Success \cup Failures, O \subseteq OptionLists, L \subseteq Nat,
         V \subseteq ObsSeq, NEW m \in Acks(r, C, O, L, V)
  PROVE  m \in Message
<1>1. /\ IsRecord(m) /\ m.type = "ACK" /\ m.mid = r.mid /\ m.token = 0
      /\ m.code \in C /\ m.len \in L /\ m.val \in V
  BY DEF Acks, IsRecord
<1>2. m.options \in O
  BY DEF Acks
<1>3. m.code \in Success \cup Failures /\ m.val \in ObsSeq
  BY <1>1
<1>4. m.options \in OptionLists
  BY <1>2
<1>5. m.len \in Nat
  BY <1>1, Zenon
<1>6. m.token \in Nat
  BY <1>1
<1> QED
  BY <1>1, <1>3, <1>4, <1>5, <1>6, MessageTyped

\* So is a reset of it.
LEMMA ResetsTyped ==
  ASSUME NEW r, r.mid \in Mids, r.token \in Nat, NEW m \in Resets(r)
  PROVE  m \in Message
<1>1. /\ IsRecord(m) /\ m.type = "RST" /\ m.mid = r.mid
      /\ m.code = "EMPTY" /\ m.len = 0 /\ m.val = {}
  BY DEF Resets, IsRecord
<1>2. m.token \in Nat
  BY DEF Resets
<1>3. m.options \in OptionLists
  BY DEF Resets, OptionLists
<1>4. m.code \in Success \cup Failures /\ m.val \in ObsSeq
  BY <1>1 DEF Failures
<1> QED
  BY <1>1, <1>2, <1>3, <1>4, MessageTyped

\* So is a notification.
LEMMA NotificationsTyped ==
  ASSUME NEW w, w.token \in Nat, NEW m \in Notifications(w)
  PROVE  m \in Message
<1>1. /\ IsRecord(m) /\ m.type \in {"CON", "NON"} /\ m.mid \in SrvMids
      /\ m.token = w.token /\ m.code \in {"CONTENT", "CHANGED", "OTHER"}
  BY DEF Notifications, IsRecord
<1>2. m.len \in PayloadLens \/ m.len = 0
  BY DEF Notifications
<1>3. m.options \in OptionLists
  <2>1. m.options \in ServerOptions \/ m.options = "none"
    BY DEF Notifications
  <2> QED  BY <2>1, OptionAssumption DEF OptionLists
<1>4. m.val \in ObsSeq
  BY DEF Notifications
<1>5. m.len \in Nat
  <2>1. CASE m.len \in PayloadLens
    BY <2>1, PayloadAssumption, Zenon
  <2>2. CASE m.len = 0
    BY <2>2
  <2> QED  BY <1>2, <2>1, <2>2
<1>6. m.code \in Success \cup Failures
  BY <1>1 DEF Success, Failures
<1>7. m.mid \in Mids /\ m.type \in {"CON", "NON", "ACK", "RST"}
  BY <1>1, MidAssumption
<1> QED
  BY <1>1, <1>3, <1>4, <1>5, <1>6, <1>7, MessageTyped

\* So is a message that belongs to no operation.
LEMMA StrangersTyped ==
  ASSUME NEW m \in Strangers
  PROVE  m \in Message
<1>1. /\ IsRecord(m) /\ m.type \in {"CON", "NON"} /\ m.mid \in SrvMids
      /\ m.token = 0 /\ m.code = "EMPTY" /\ m.len = 0 /\ m.val = {}
  BY DEF Strangers, IsRecord
<1>2. m.options \in OptionLists
  BY DEF Strangers, OptionLists
<1>3. m.code \in Success \cup Failures /\ m.val \in ObsSeq
  BY <1>1 DEF Failures
<1>4. m.mid \in Mids /\ m.type \in {"CON", "NON", "ACK", "RST"}
  BY <1>1, MidAssumption
<1>5. m.token \in Nat /\ m.len \in Nat
  BY <1>1
<1> QED
  BY <1>1, <1>2, <1>3, <1>4, <1>5, MessageTyped

\* Every datagram the network can deliver is a well-formed message.
LEMMA DatagramsTyped ==
  ASSUME TypeOK, NEW m \in Datagrams
  PROVE  m \in Message
<1>1. ASSUME NEW r \in wire, m \in Replies(r) PROVE m \in Message
  <2>1. /\ r.mid \in Mids /\ r.token \in Nat
        /\ r.kind \in {"WRITE", "READ", "SUBSCRIBE", "ACTIVATE"}
    BY DEF TypeOK, Request, OpTypes
  <2>2. /\ PayloadLens \subseteq Nat /\ {0} \subseteq Nat
        /\ {{}} \subseteq ObsSeq /\ ObsSeq \subseteq ObsSeq
    BY PayloadAssumption
  <2>3. {"none"} \subseteq OptionLists /\ ServerOptions \subseteq OptionLists
    BY OptionAssumption DEF OptionLists
  <2>4. /\ Refusals \subseteq Success \cup Failures
        /\ {"CHANGED"} \subseteq Success \cup Failures
        /\ {"CONTENT"} \subseteq Success \cup Failures
    BY RefusalAssumption DEF Success
  <2>5. CASE m \in Answers(r)
    <3>1. CASE r.kind = "WRITE"
      BY <2>5, <3>1, <2>1, <2>2, <2>3, <2>4, AcksTyped DEF Answers
    <3>2. CASE r.kind \in {"READ", "ACTIVATE"}
      BY <2>5, <3>2, <2>1, <2>2, <2>3, <2>4, AcksTyped DEF Answers
    <3>3. CASE r.kind = "SUBSCRIBE"
      BY <2>5, <3>3, <2>1, <2>2, <2>3, <2>4, AcksTyped DEF Answers
    <3> QED  BY <3>1, <3>2, <3>3, <2>1
  <2>6. CASE m \in Acks(r, Refusals, {"none"}, {0}, {{}})
    BY <2>6, <2>1, <2>2, <2>3, <2>4, AcksTyped
  <2>7. CASE m \in Resets(r)
    BY <2>7, <2>1, ResetsTyped
  <2> QED
    BY <1>1, <2>5, <2>6, <2>7 DEF Replies
<1>2. ASSUME NEW w \in watch, m \in Notifications(w) PROVE m \in Message
  <2>1. w.token \in Nat
    BY DEF TypeOK, Registration
  <2> QED  BY <1>2, <2>1, NotificationsTyped
<1> QED
  BY <1>1, <1>2, StrangersTyped DEF Datagrams

\* A step that changes one operation keeps the types.
LEMMA BecomesTyped ==
  ASSUME TypeOK, NEW i \in Slots, NEW o \in Op, Becomes(i, o)
  PROVE  TypeOK'
  BY DEF TypeOK, Becomes, lib, net

\* No handler of a datagram leaves the types.
LEMMA HandleTyped ==
  ASSUME TypeOK, NEW i \in Slots, NEW m \in Message, Handle(i, m)
  PROVE  TypeOK'
<1> op[i] \in Op
  BY DEF TypeOK
<1>1. CASE NotifyEmpty(i, m)
  <2>1. [op[i] EXCEPT !.value = {}] \in Op
    BY DEF Op
  <2> QED  BY <1>1, <2>1, BecomesTyped DEF NotifyEmpty
<1>2. CASE NotifyError(i, m)
  BY <1>2, BecomesTyped, StateTyped DEF NotifyError, OpStates
<1>3. CASE NotifyValue(i, m)
  <2>1. \A s \in Sequence(m) : s \in ObsSeq
    BY DEF Sequence, Message
  <2>2. \A s \in ObsSeq, t \in MaxAgeTimeout :
          [op[i] EXCEPT !.value = {m.val}, !.mid = m.mid, !.obs_seq = s,
                        !.state = IF op[i].obs_seq # s
                                  THEN "SUB_ACK_NEW" ELSE "SUB_ACK",
                        !.timeout = t] \in Op
    BY DEF Op, Message, OpStates, Timers, MaxAgeTimeout
  <2> QED  BY <1>3, <2>1, <2>2, BecomesTyped DEF NotifyValue
<1>4. CASE NotifyIgnored(i, m)
  BY <1>4, BecomesTyped DEF NotifyIgnored
<1>5. CASE AckWrite(i, m)
  BY <1>5, BecomesTyped, StateTyped DEF AckWrite, OpStates
<1>6. CASE AckEmpty(i, m)
  <2>1. [op[i] EXCEPT !.value = {}] \in Op
    BY DEF Op
  <2> QED  BY <1>6, <2>1, BecomesTyped DEF AckEmpty
<1>7. CASE AckTooLong(i, m)
  BY <1>7, BecomesTyped, StateTyped DEF AckTooLong, OpStates
<1>8. CASE AckRead(i, m)
  <2>1. [op[i] EXCEPT !.value = {m.val}, !.state = "SUCCESS"] \in Op
    BY DEF Op, Message, OpStates
  <2> QED  BY <1>8, <2>1, BecomesTyped DEF AckRead
<1>9. CASE AckSubscribe(i, m)
  <2>1. \A s \in Folded(op[i], m) : s \in ObsSeq
    BY DEF Folded, Message, Op
  <2>2. \A s \in ObsSeq, t \in MaxAgeTimeout :
          [op[i] EXCEPT !.value = {m.val}, !.state = "SUCCESS",
                        !.obs_seq = s, !.timeout = t] \in Op
    BY DEF Op, Message, OpStates, Timers, MaxAgeTimeout
  <2> QED  BY <1>9, <2>1, <2>2, BecomesTyped DEF AckSubscribe
<1>10. CASE AckActivated(i, m)
  BY <1>10, InitTyped, FileAssumption DEF AckActivated, TypeOK, net
<1>11. CASE AckNoCik(i, m)
  BY <1>11, BecomesTyped, InitTyped DEF AckNoCik
<1>12. CASE AckRefused(i, m)
  <2> DEFINE failed == [op EXCEPT ![i].state = "ERROR"]
  <2>1. failed \in [Slots -> Op]
    <3>1. failed = [op EXCEPT ![i] = [op[i] EXCEPT !.state = "ERROR"]]
      BY DEF TypeOK
    <3> QED  BY <3>1, StateTyped DEF TypeOK, OpStates
  <2>2. [failed EXCEPT ![0] = exo_activate(failed[0])] \in [Slots -> Op]
    BY <2>1, ActivateTyped, ZeroTyped
  <2>3. op' \in [Slots -> Op]
    BY <1>12, <2>1, <2>2 DEF AckRefused
  <2> QED  BY <1>12, <2>3 DEF AckRefused, TypeOK, net
<1>13. CASE Reset(i, m)
  BY <1>13, BecomesTyped, StateTyped DEF Reset, OpStates
<1> QED
  BY <1>1, <1>2, <1>3, <1>4, <1>5, <1>6, <1>7, <1>8, <1>9, <1>10, <1>11,
     <1>12, <1>13 DEF Handle

\* Visiting a slot in exo_process_active_ops moves the cursor by one.
LEMMA VisitsTyped ==
  ASSUME TypeOK, NEW i \in Slots, Visits(i)
  PROVE  cursor' \in 0..Count /\ pc' = pc
  BY CountAssumption DEF Visits

\* No visit of a slot leaves the types: in particular the retry count stays
\* below its bound because a retransmission is guarded by it.
LEMMA ProcessTyped ==
  ASSUME TypeOK, NEW i \in Slots, Process(i)
  PROVE  TypeOK'
<1> op[i] \in Op
  BY DEF TypeOK
<1> message_id_counter \in Mids /\ NextMid(message_id_counter) \in Mids
  BY NextMidTyped DEF TypeOK
<1>1. ASSUME NEW token \in Tokens, SendRequest(i, token) PROVE TypeOK'
  <2>1. Visits(i) /\ op[i].type \in OpTypes \ {"NULL"} /\ token \in Nat
    BY <1>1, TokenAssumption DEF SendRequest, Op
  <2>2. op' \in [Slots -> Op]
    BY <1>1, <2>1, SentTyped DEF SendRequest, TypeOK
  <2>3. [mid |-> message_id_counter, kind |-> op[i].type, slot |-> i,
         token |-> token] \in Request
    BY <2>1 DEF Request
  <2>4. wire' \subseteq Request
    <3>1. PICK left \in Survivors :
            wire' = Superseded(left, i) \cup
                      {[mid |-> message_id_counter, kind |-> op[i].type,
                        slot |-> i, token |-> token]}
      BY <1>1 DEF SendRequest
    <3>2. \A q \in Request : [q EXCEPT !.slot = Past] \in Request
      BY DEF Request
    <3>3. left \subseteq Request
      BY DEF Survivors, TypeOK
    <3>4. Superseded(left, i) \subseteq Request
      BY <3>2, <3>3 DEF Superseded
    <3> QED  BY <3>1, <3>4, <2>3
  <2>5. watch' \subseteq Registration
    BY <1>1, <2>1 DEF SendRequest, Registration, TypeOK
  <2>6. sent' \in [Slots -> SUBSET Mids]
    BY <1>1 DEF SendRequest, TypeOK
  <2>7. reused' \in BOOLEAN
    BY <1>1, Zenon DEF SendRequest
  <2>8. clash' \in BOOLEAN
    BY <1>1, Zenon DEF SendRequest
  <2> QED
    BY <1>1, <2>1, <2>2, <2>4, <2>5, <2>6, <2>7, <2>8, VisitsTyped
       DEF SendRequest, TypeOK
<1>2. CASE SendRequestFails(i)
  BY <1>2, VisitsTyped DEF SendRequestFails, TypeOK, net
<1>3. CASE Retransmit(i)
  <2>1. /\ Visits(i) /\ op[i].retries < COAP_MAX_RETRANSMIT
        /\ op[i].type \in OpTypes \ {"NULL"}
    BY <1>3 DEF Retransmit, MayRetransmit, SingleShot, OpTypes
  <2>2. [op[i] EXCEPT !.retries = @ + 1, !.timeout = "ahead"] \in Op
    <3>1. op[i].retries + 1 \in 0..COAP_MAX_RETRANSMIT
      BY <2>1, RetransmitAssumption DEF Op
    <3> QED  BY <3>1 DEF Op, Timers
  <2>3. op' = [op EXCEPT ![i] = [op[i] EXCEPT !.retries = @ + 1,
                                              !.timeout = "ahead"]]
    BY <1>3 DEF Retransmit, TypeOK
  <2>4. op' \in [Slots -> Op]
    BY <2>2, <2>3 DEF TypeOK
  <2>5. RetransmitMid(i) \in Mids /\ RetransmitToken(op[i]) \in Nat
    BY DEF RetransmitMid, RetransmitToken, Op
  <2>6. [mid |-> RetransmitMid(i), kind |-> op[i].type, slot |-> i,
         token |-> RetransmitToken(op[i])] \in Request
    BY <2>1, <2>5 DEF Request
  <2>7. wire' \subseteq Request
    BY <1>3, <2>6 DEF Retransmit, TypeOK
  <2>8. sent' \in [Slots -> SUBSET Mids]
    BY <1>3, <2>5 DEF Retransmit, TypeOK
  <2> QED
    BY <1>3, <2>1, <2>4, <2>7, <2>8, VisitsTyped DEF Retransmit, TypeOK
<1>4. CASE RetransmitFails(i)
  BY <1>4, VisitsTyped DEF RetransmitFails, TypeOK, net
<1>5. ASSUME NEW s \in OpStates, Visits(i), op' = [op EXCEPT ![i].state = s],
             UNCHANGED <<lib, net>>
      PROVE  TypeOK'
  <2>1. op' = [op EXCEPT ![i] = [op[i] EXCEPT !.state = s]]
    BY <1>5 DEF TypeOK
  <2>2. op' \in [Slots -> Op]
    BY <2>1, StateTyped DEF TypeOK
  <2> QED
    BY <1>5, <2>2, VisitsTyped DEF TypeOK, lib, net
<1>6. CASE GiveUp(i)
  BY <1>6, <1>5 DEF GiveUp, OpStates
<1>7. CASE Renew(i)
  BY <1>7, <1>5 DEF Renew, OpStates
<1>8. CASE SendAck(i)
  BY <1>8, <1>5 DEF SendAck, OpStates, TypeOK
<1>9. CASE SendAckFails(i)
  BY <1>9, VisitsTyped DEF SendAckFails, TypeOK, lib, net
<1>10. CASE Skip(i)
  BY <1>10, VisitsTyped DEF Skip, TypeOK, lib, net
<1> QED
  BY <1>1, <1>2, <1>3, <1>4, <1>6, <1>7, <1>8, <1>9, <1>10 DEF Process

\* The application's calls.
LEMMA ApplicationTyped ==
  ASSUME TypeOK, Application
  PROVE  TypeOK'
<1> PICK i \in AppSlots : Done(i) \/ Cancel(i) \/ \E t \in AppTypes : Queue(i, t)
  BY DEF Application
<1> i \in Slots /\ op[i] \in Op
  BY AppSlotsAssumption DEF TypeOK
<1>1. CASE Done(i)
  BY <1>1, DoneTyped DEF Done, TypeOK, lib, net
<1>2. CASE Cancel(i)
  BY <1>2, InitTyped DEF Cancel, TypeOK, lib, net
<1>3. ASSUME NEW t \in AppTypes, Queue(i, t) PROVE TypeOK'
  <2>1. t \in OpTypes
    BY AppTypesAssumption DEF OpTypes
  <2> QED  BY <1>3, <2>1, QueuedTyped DEF Queue, TypeOK, lib
<1> QED  BY <1>1, <1>2, <1>3

\* The passing of time keeps the types.
LEMMA TickTyped ==
  ASSUME TypeOK, Tick
  PROVE  TypeOK'
<1>1. \A o \in Op, t \in Timers : [o EXCEPT !.timeout = t] \in Op
  BY DEF Op
<1>2. \A i \in Slots : /\ [op[i] EXCEPT !.timeout = "due"] \in Op
                       /\ [op[i] EXCEPT !.timeout = "past"] \in Op
                       /\ op[i] \in Op
  BY <1>1 DEF TypeOK, Timers
<1>3. op' \in [Slots -> Op]
  BY <1>2, Zenon DEF Tick
<1> QED
  BY <1>3 DEF Tick, TypeOK, lib, net

\* Every step keeps the types.
LEMMA NextTyped ==
  ASSUME TypeOK, [Next]_vars
  PROVE  TypeOK'
<1>0. TypeOK => Retrieved \in {"blank", "partial", "full"}
  BY DEF TypeOK, Retrieved
<1>1. CASE exo_init
  BY <1>0, <1>1, MidAssumption DEF exo_init, TypeOK, net
<1>2. CASE exo_init_fails
  BY <1>0, <1>2, MidAssumption DEF exo_init_fails, TypeOK, net
<1>3. CASE Restarted
  BY <1>3, InitTyped, ZeroTyped DEF Restarted, TypeOK
<1>4. CASE Application
  BY <1>4, ApplicationTyped
<1>5. CASE exo_operate
  <2>1. op' \in [Slots -> Op]
    BY <1>5, ActivateTyped, ZeroTyped DEF exo_operate, TypeOK
  <2> QED  BY <1>5, <2>1 DEF exo_operate, TypeOK, lib, net
<1>6. CASE RecvNone
  BY <1>6 DEF RecvNone, TypeOK, lib, net
<1>7. ASSUME NEW m \in Datagrams, Receive(m) PROVE TypeOK'
  <2>1. CASE Unrecognised(m)
    BY <2>1 DEF Unrecognised, TypeOK, lib, net
  <2>2. ASSUME NEW i \in Slots, Handle(i, m) PROVE TypeOK'
    BY <2>2, DatagramsTyped, HandleTyped
  <2> QED  BY <1>7, <2>1, <2>2 DEF Receive
<1>8. ASSUME NEW i \in Slots, Process(i) PROVE TypeOK'
  BY <1>8, ProcessTyped
<1>9. CASE Return
  BY <1>9, ZeroTyped DEF Return, TypeOK, lib, net
<1>10. CASE Tick
  BY <1>10, TickTyped
<1>11. CASE UNCHANGED vars
  BY <1>11 DEF vars, lib, net, TypeOK
<1> QED
  BY <1>1, <1>2, <1>3, <1>4, <1>5, <1>6, <1>7, <1>8, <1>9, <1>10, <1>11
     DEF Next, Reboot, Crash

\* Every variable keeps its type, whatever the application, the network, the
\* clock and the server do: no operation is retransmitted more often than
\* COAP_MAX_RETRANSMIT, message ids and sequence numbers stay in range.
THEOREM TypeCorrect == Spec => []TypeOK
<1>1. Init => TypeOK
  BY InitTyped, ZeroTyped, FileAssumption DEF Init, TypeOK
<1>2. TypeOK /\ [Next]_vars => TypeOK'
  BY NextTyped
<1> QED
  BY <1>1, <1>2, PTL DEF Spec

-----------------------------------------------------------------------------
(* The safety invariants.  An operation changes in two kinds of step: those *)
(* that put a request on the wire or start an operation afresh (SendRequest,*)
(* Retransmit, Queue, Restarted), and the quiet ones, all others, which     *)
(* leave the network alone and keep the identity of every operation they touch.   *)

\* OpShape, for one slot.
Shaped(i, o) ==
  /\ o.type = "NULL" <=> o.state = "NULL"
  /\ o.state \in {"SUBSCRIBED", "SUB_ACK", "SUB_ACK_NEW"} => o.type = "SUBSCRIBE"
  /\ o.type = "ACTIVATE" => o.state \in {"NEW", "PENDING", "ERROR"}
  /\ i # 0 => o.type # "ACTIVATE"
  /\ i = 0 /\ 0 \notin AppSlots => o.type \in {"NULL", "ACTIVATE"}

\* Operation p follows o in a quiet step: it has been cleared or replaced by
\* an activation, or it is the same operation, and then it becomes neither
\* NEW (unless it renews a subscription) nor PENDING, and its message id
\* changes only if it is a subscription.
Quiet(o, p) ==
  \/ p = exo_op_init
  \/ p.type = "ACTIVATE" /\ p.state = "NEW"
  \/ /\ p.type = o.type /\ p.token = o.token
     /\ p.state = "PENDING" => o.state = "PENDING"
     /\ p.state = "NEW" => o.state = "NEW" \/ o.type = "SUBSCRIBE"
     /\ o.state = "NEW" => p.state = "NEW"
     /\ p.mid = o.mid \/ (o.type = "SUBSCRIBE" /\ p.state # "PENDING")

Follows(i, o, p) == Shaped(i, p) /\ Quiet(o, p)

\* The operation of a slot has its shape.
LEMMA ShapeOf == ASSUME OpShape, NEW i \in Slots PROVE Shaped(i, op[i])
  BY DEF OpShape, Shaped

\* An operation may stay as it is.
LEMMA StaysQuiet == ASSUME NEW i, NEW o, Shaped(i, o) PROVE Follows(i, o, o)
<1>1. Quiet(o, o)
  BY Zenon DEF Quiet
<1> QED  BY <1>1, Zenon DEF Follows

\* Clearing a slot is quiet.
LEMMA InitFollows == ASSUME NEW i, NEW o PROVE Follows(i, o, exo_op_init)
  BY DEF Follows, Quiet, Shaped, exo_op_init

\* So is queueing the activation.
LEMMA ActivateFollows ==
  ASSUME NEW o \in Op, NEW q PROVE Follows(0, q, exo_activate(o))
<1>1. exo_activate(o).type = "ACTIVATE" /\ exo_activate(o).state = "NEW"
  BY DEF exo_activate, Queued, Op
<1> QED  BY <1>1 DEF Follows, Quiet, Shaped

\* Only the state changes, from one a request has been sent in.
LEMMA StateFollows ==
  ASSUME NEW i, NEW o \in Op, Shaped(i, o), o.state \notin {"NULL", "NEW"},
         NEW s \in {"NEW", "SUBSCRIBED", "SUB_ACK", "SUB_ACK_NEW", "SUCCESS", "ERROR"},
         \/ s = "ERROR"
         \/ o.type = "SUBSCRIBE"
         \/ s = "SUCCESS" /\ o.type \in SingleShot
  PROVE  Follows(i, o, [o EXCEPT !.state = s])
<1> DEFINE p == [o EXCEPT !.state = s]
<1>1. p.type = o.type /\ p.token = o.token /\ p.mid = o.mid /\ p.state = s
  BY DEF Op
<1>2. Quiet(o, p)
  BY <1>1 DEF Quiet
<1>3. Shaped(i, p)
  BY <1>1 DEF Shaped, SingleShot
<1> QED  BY <1>2, <1>3 DEF Follows

\* So is failing an operation that waits for the server.
LEMMA ErrorFollows ==
  ASSUME NEW i, NEW o \in Op, Shaped(i, o), o.state \in {"PENDING", "SUBSCRIBED"}
  PROVE  Follows(i, o, [o EXCEPT !.state = "ERROR"])
<1>1. o.state \notin {"NULL", "NEW"}
  OBVIOUS
<1> QED  BY <1>1, StateFollows

\* A step in which slot i alone changes.
LEMMA OneFollows ==
  ASSUME TypeOK, OpShape, NEW i \in Slots, NEW p,
         Follows(i, op[i], p), op' = [op EXCEPT ![i] = p]
  PROVE  \A j \in Slots : Follows(j, op[j], op'[j])
<1> TAKE j \in Slots
<1>1. CASE j = i
  BY <1>1 DEF TypeOK
<1>2. CASE j # i
  BY <1>2, ShapeOf, StaysQuiet DEF TypeOK
<1> QED  BY <1>1, <1>2

\* Handling a datagram is a quiet step.
LEMMA HandleQuiet ==
  ASSUME TypeOK, OpShape, NEW i \in Slots, NEW m \in Message,
         Claims(op[i], m), Handle(i, m)
  PROVE  (\A j \in Slots : Follows(j, op[j], op'[j])) /\ UNCHANGED net
<1> op[i] \in Op /\ Shaped(i, op[i])
  BY ShapeOf DEF TypeOK
<1>0. ASSUME NEW p, Follows(i, op[i], p), Becomes(i, p)
      PROVE  (\A j \in Slots : Follows(j, op[j], op'[j])) /\ UNCHANGED net
  BY <1>0, OneFollows DEF Becomes, net
<1>a. m.type \in {"CON", "NON"} => op[i].state = "SUBSCRIBED" /\ op[i].type = "SUBSCRIBE"
  BY DEF Claims, Shaped
<1>b. m.type = "ACK" => op[i].state = "PENDING" /\ op[i].type # "NULL"
  BY DEF Claims, Shaped
<1>c. m.type = "RST" => op[i].state \in {"PENDING", "SUBSCRIBED"}
  BY DEF Claims
<1>d. Follows(i, op[i], [op[i] EXCEPT !.value = {}])
  <2> DEFINE p == [op[i] EXCEPT !.value = {}]
  <2>1. /\ p.type = op[i].type /\ p.token = op[i].token
        /\ p.mid = op[i].mid /\ p.state = op[i].state
    BY DEF Op
  <2>2. Follows(i, op[i], p)
    <3> HIDE DEF p
    <3> QED  BY <2>1 DEF Follows, Quiet, Shaped
  <2> QED  BY <2>2
<1>1. CASE NotifyEmpty(i, m)
  BY <1>0, <1>1, <1>d DEF NotifyEmpty
<1>2. CASE NotifyError(i, m)
  <2>1. Follows(i, op[i], [op[i] EXCEPT !.state = "ERROR"])
    BY <1>2, <1>a, ErrorFollows DEF NotifyError
  <2> QED  BY <1>0, <1>2, <2>1 DEF NotifyError
<1>3. CASE NotifyValue(i, m)
  <2> PICK s \in Sequence(m), t \in MaxAgeTimeout :
        Becomes(i, [op[i] EXCEPT
                      !.value = {m.val}, !.mid = m.mid, !.obs_seq = s,
                      !.state = IF op[i].obs_seq # s
                                THEN "SUB_ACK_NEW" ELSE "SUB_ACK",
                      !.timeout = t])
    BY <1>3 DEF NotifyValue
  <2> DEFINE p == [op[i] EXCEPT
                      !.value = {m.val}, !.mid = m.mid, !.obs_seq = s,
                      !.state = IF op[i].obs_seq # s
                                THEN "SUB_ACK_NEW" ELSE "SUB_ACK",
                      !.timeout = t]
  <2>1. /\ p.type = op[i].type /\ p.token = op[i].token
        /\ p.state \in {"SUB_ACK_NEW", "SUB_ACK"}
    BY DEF Op
  <2>2. op[i].type = "SUBSCRIBE" /\ op[i].state = "SUBSCRIBED"
    BY <1>3, <1>a DEF NotifyValue
  <2>3. Quiet(op[i], p)
    <3> HIDE DEF p
    <3> QED  BY <2>1, <2>2 DEF Quiet
  <2>4. Shaped(i, p)
    <3> HIDE DEF p
    <3> QED  BY <2>1, <2>2 DEF Shaped
  <2> QED  BY <1>0, <2>3, <2>4 DEF Follows
<1>4. CASE NotifyIgnored(i, m)
  BY <1>0, <1>4, StaysQuiet DEF NotifyIgnored
<1>5. CASE AckWrite(i, m)
  <2>1. Follows(i, op[i], [op[i] EXCEPT !.state = "SUCCESS"])
    BY <1>5, <1>b, StateFollows DEF AckWrite, SingleShot
  <2> QED  BY <1>0, <1>5, <2>1 DEF AckWrite
<1>6. CASE AckEmpty(i, m)
  BY <1>0, <1>6, <1>d DEF AckEmpty
<1>7. CASE AckTooLong(i, m)
  <2>1. Follows(i, op[i], [op[i] EXCEPT !.state = "ERROR"])
    BY <1>7, <1>b, ErrorFollows DEF AckTooLong
  <2> QED  BY <1>0, <1>7, <2>1 DEF AckTooLong
<1>8. CASE AckRead(i, m)
  <2> DEFINE p == [op[i] EXCEPT !.value = {m.val}, !.state = "SUCCESS"]
  <2>1. /\ p.type = op[i].type /\ p.token = op[i].token /\ p.mid = op[i].mid
        /\ p.state = "SUCCESS"
    BY DEF Op
  <2>2. op[i].type = "READ" /\ op[i].state = "PENDING" /\ Becomes(i, p)
    BY <1>8, <1>b DEF AckRead
  <2>3. Follows(i, op[i], p)
    <3> HIDE DEF p
    <3> QED  BY <2>1, <2>2 DEF Follows, Quiet, Shaped
  <2> QED  BY <1>0, <2>2, <2>3
<1>9. CASE AckSubscribe(i, m)
  <2> PICK s \in Folded(op[i], m), t \in MaxAgeTimeout :
        Becomes(i, [op[i] EXCEPT !.value = {m.val}, !.state = "SUCCESS",
                                 !.obs_seq = s, !.timeout = t])
    BY <1>9 DEF AckSubscribe
  <2> DEFINE p == [op[i] EXCEPT !.value = {m.val}, !.state = "SUCCESS",
                                !.obs_seq = s, !.timeout = t]
  <2>1. /\ p.type = op[i].type /\ p.token = op[i].token /\ p.mid = op[i].mid
        /\ p.state = "SUCCESS"
    BY DEF Op
  <2>2. op[i].type = "SUBSCRIBE" /\ op[i].state = "PENDING"
    BY <1>9, <1>b DEF AckSubscribe
  <2>3. Follows(i, op[i], p)
    <3> HIDE DEF p
    <3> QED  BY <2>1, <2>2 DEF Follows, Quiet, Shaped
  <2> QED  BY <1>0, <2>3
<1>10. CASE AckActivated(i, m)
  BY <1>10, InitFollows, OneFollows DEF AckActivated, net
<1>11. CASE AckNoCik(i, m)
  BY <1>0, <1>11, InitFollows DEF AckNoCik
<1>12. CASE AckRefused(i, m)
  <2> DEFINE failed == [op EXCEPT ![i].state = "ERROR"]
  <2>1. failed = [op EXCEPT ![i] = [op[i] EXCEPT !.state = "ERROR"]]
    BY DEF TypeOK
  <2>2. Follows(i, op[i], [op[i] EXCEPT !.state = "ERROR"])
    BY <1>12, <1>b, ErrorFollows DEF AckRefused
  <2>3. failed \in [Slots -> Op]
    BY <2>1, StateTyped DEF TypeOK, OpStates
  <2>4. \A j \in Slots : Follows(j, op[j], failed[j])
    BY <2>1, <2>2, ShapeOf, StaysQuiet DEF TypeOK
  <2>5. Follows(0, op[0], exo_activate(failed[0]))
    BY <2>3, ZeroTyped, ActivateFollows
  <2>6. op' = failed \/ op' = [failed EXCEPT ![0] = exo_activate(failed[0])]
    BY <1>12 DEF AckRefused
  <2>7. \A j \in Slots : Follows(j, op[j], op'[j])
    <3> HIDE DEF failed
    <3> QED  BY <2>3, <2>4, <2>5, <2>6
  <2> QED  BY <1>12, <2>7 DEF AckRefused, net
<1>13. CASE Reset(i, m)
  <2>1. Follows(i, op[i], [op[i] EXCEPT !.state = "ERROR"])
    BY <1>13, <1>c, ErrorFollows DEF Reset
  <2> QED  BY <1>0, <1>13, <2>1 DEF Reset
<1> QED
  BY <1>1, <1>2, <1>3, <1>4, <1>5, <1>6, <1>7, <1>8, <1>9, <1>10, <1>11,
     <1>12, <1>13 DEF Handle

\* The strengthening: no two pending operations share a message id unless the
\* counter ran into one in use; the token of every subscription that has been
\* requested is registered for its slot; no token is registered for two
\* slots unless rand() drew it twice.
PendingApart ==
  ~reused => \A i, j \in Slots :
               op[i].state = "PENDING" /\ op[j].state = "PENDING"
                 /\ op[i].mid = op[j].mid => i = j

Registered ==
  \A i \in Slots :
    op[i].type = "SUBSCRIBE" /\ op[i].state # "NEW"
      => [token |-> op[i].token, slot |-> i] \in watch

Unambiguous ==
  ~clash => \A v, w \in watch : v.token = w.token => v.slot = w.slot

IInv == /\ TypeOK /\ OpShape
        /\ RequestOwn /\ PendingApart
        /\ OneMessageId
        /\ Registered /\ Unambiguous

\* A quiet step preserves the invariant.
QuietStep == (\A i \in Slots : Follows(i, op[i], op'[i])) /\ UNCHANGED net

\* A step whose changes are quiet keeps the invariant.
LEMMA QuietPreserves ==
  ASSUME IInv, TypeOK', QuietStep
  PROVE  IInv'
<1> USE DEF QuietStep, Follows
<1>0. \A i \in Slots : Shaped(i, op[i])
  BY ShapeOf DEF IInv
<1>1. OpShape'
  BY ZeroTyped DEF OpShape, Shaped
<1>2. ASSUME NEW i \in Slots, op'[i].state = "PENDING"
      PROVE  /\ op[i].state = "PENDING" /\ op[i].mid = op'[i].mid
             /\ op[i].type = op'[i].type
  BY <1>2 DEF Quiet, exo_op_init
<1>3. RequestOwn'
  BY <1>2 DEF IInv, RequestOwn, net
<1>4. PendingApart'
  BY <1>2 DEF IInv, PendingApart, net
<1>5. OneMessageId'
  <2> SUFFICES ASSUME NEW i \in Slots, op'[i].type \in SingleShot
               PROVE  /\ op'[i].state = "NEW" => sent'[i] = {}
                      /\ op'[i].state # "NEW" => sent'[i] = {op'[i].mid}
    BY DEF OneMessageId
  <2>1. /\ op[i].type = op'[i].type /\ op'[i].mid = op[i].mid
        /\ op'[i].state = "NEW" <=> op[i].state = "NEW"
    BY DEF Quiet, exo_op_init, SingleShot
  <2> QED
    BY <2>1 DEF IInv, OneMessageId, net
<1>6. Registered'
  <2> SUFFICES ASSUME NEW i \in Slots, op'[i].type = "SUBSCRIBE", op'[i].state # "NEW"
               PROVE  [token |-> op'[i].token, slot |-> i] \in watch'
    BY DEF Registered
  <2>1. /\ op[i].type = "SUBSCRIBE" /\ op'[i].token = op[i].token
        /\ op[i].state # "NEW"
    BY DEF Quiet, exo_op_init
  <2> QED
    BY <2>1 DEF IInv, Registered, net
<1>7. Unambiguous'
  BY DEF IInv, Unambiguous, net
<1> QED
  BY <1>1, <1>3, <1>4, <1>5, <1>6, <1>7 DEF IInv

\* The steps that are not quiet, one by one.
LEMMA RestartPreserves ==
  ASSUME IInv, TypeOK', Restarted
  PROVE  IInv'
<1>1. \A i \in Slots : op'[i] = exo_op_init
  BY DEF Restarted
<1>2. \A i \in Slots : op'[i].type = "NULL" /\ op'[i].state = "NULL"
  BY <1>1 DEF exo_op_init
<1>3. OpShape'
  BY <1>2, ZeroTyped DEF OpShape
<1>4. RequestOwn' /\ PendingApart'
  BY <1>2 DEF RequestOwn, PendingApart
<1>5. OneMessageId'
  BY <1>2 DEF OneMessageId, SingleShot
<1>6. Registered'
  BY <1>2 DEF Registered
<1>7. Unambiguous'
  BY DEF IInv, Unambiguous, Restarted
<1> QED
  BY <1>3, <1>4, <1>5, <1>6, <1>7 DEF IInv

\* A new operation keeps it.
LEMMA QueuePreserves ==
  ASSUME IInv, TypeOK', NEW i \in AppSlots, NEW t \in AppTypes, Queue(i, t)
  PROVE  IInv'
<1> i \in Slots /\ op \in [Slots -> Op] /\ sent \in [Slots -> SUBSET Mids]
  BY AppSlotsAssumption DEF IInv, TypeOK
<1>1. op'[i].type = t /\ op'[i].state = "NEW" /\ sent'[i] = {}
  BY DEF Queue, Queued, Op
<1>2. \A j \in Slots \ {i} : op'[j] = op[j] /\ sent'[j] = sent[j]
  BY DEF Queue
<1>3. UNCHANGED <<wire, watch, reused, clash>>
  BY DEF Queue
<1>4. t \in {"READ", "WRITE", "SUBSCRIBE"}
  BY AppTypesAssumption
<1>5. OpShape'
  BY <1>1, <1>2, <1>4, ZeroTyped DEF IInv, OpShape
<1>6. RequestOwn'
  BY <1>1, <1>2, <1>3 DEF IInv, RequestOwn
<1>7. PendingApart'
  BY <1>1, <1>2, <1>3 DEF IInv, PendingApart
<1>8. OneMessageId'
  BY <1>1, <1>2 DEF IInv, OneMessageId
<1>9. Registered'
  BY <1>1, <1>2, <1>3 DEF IInv, Registered
<1>10. Unambiguous'
  BY <1>3 DEF IInv, Unambiguous
<1> QED
  BY <1>5, <1>6, <1>7, <1>8, <1>9, <1>10 DEF IInv

\* Sending a request under a fresh message id and token keeps it.
LEMMA SendRequestPreserves ==
  ASSUME IInv, TypeOK', NEW i \in Slots, NEW token \in Tokens, SendRequest(i, token)
  PROVE  IInv'
<1> DEFINE x == message_id_counter
           r == [mid |-> x, kind |-> op[i].type, slot |-> i, token |-> token]
<1> op \in [Slots -> Op] /\ sent \in [Slots -> SUBSET Mids]
  BY DEF IInv, TypeOK
<1>1. /\ op[i].state = "NEW" /\ op[i].type # "NULL"
      /\ op'[i].type = op[i].type /\ op'[i].state = "PENDING"
      /\ op'[i].mid = x /\ op'[i].token = token
  BY DEF SendRequest, Sent, Op
<1>2. \A j \in Slots \ {i} : op'[j] = op[j]
  BY DEF SendRequest
<1> PICK left \in Survivors :
      /\ wire' = Superseded(left, i) \cup {r}
      /\ reused' = (reused \/ InUse(x) \/ \E q \in left : q.mid = x)
  BY DEF SendRequest
<1>a. ~reused' => ~reused /\ ~InUse(x) /\ \A q \in left : q.mid # x
  BY Zenon
<1>b. left \subseteq wire /\ \A q \in left : q \in Request
  BY DEF Survivors, IInv, TypeOK
<1>3. ASSUME ~reused', NEW s \in wire', s # r
      PROVE  \E q \in wire : /\ q.mid # x /\ s.mid = q.mid /\ s.kind = q.kind
                             /\ s.slot = q.slot \/ q.slot = i
  <2>1. PICK q \in left : s = IF q.slot = i THEN [q EXCEPT !.slot = Past] ELSE q
    BY <1>3 DEF Superseded
  <2>2. q \in wire /\ q.mid # x /\ q \in Request
    BY <1>3, <1>a, <1>b
  <2>3. s.mid = q.mid /\ s.kind = q.kind /\ (s.slot = q.slot \/ q.slot = i)
    BY <2>1, <2>2 DEF Request
  <2> QED  BY <2>2, <2>3
<1>4. ~reused' => ~reused /\ \A j \in Slots : op[j].state = "PENDING" => op[j].mid # x
  BY <1>a DEF InUse
<1>5. OpShape'
  BY <1>1, <1>2, ZeroTyped DEF IInv, OpShape
<1>6. RequestOwn'
  <2> SUFFICES ASSUME ~reused', NEW j \in Slots, NEW s \in wire',
                      op'[j].state = "PENDING", op'[j].mid = s.mid
               PROVE  s.slot = j /\ s.kind = op'[j].type
    BY DEF RequestOwn
  <2>1. CASE j = i
    <3>1. s = r
      BY <1>1, <1>3, <2>1, Zenon
    <3> QED  BY <3>1, <2>1, <1>1
  <2>2. CASE j # i
    <3>1. op'[j] = op[j] /\ op[j].mid # x
      BY <1>2, <1>4, <2>2
    <3>2. PICK q \in wire : /\ s.mid = q.mid /\ s.kind = q.kind
                            /\ s.slot = q.slot \/ q.slot = i
      BY <1>3, <3>1
    <3>3. q.slot = j /\ q.kind = op[j].type
      BY <1>4, <3>1, <3>2 DEF IInv, RequestOwn
    <3> QED  BY <2>2, <3>1, <3>2, <3>3
  <2> QED  BY <2>1, <2>2
<1>7. PendingApart'
  BY <1>1, <1>2, <1>4 DEF IInv, PendingApart
<1>8. OneMessageId'
  <2> SUFFICES ASSUME NEW j \in Slots, op'[j].type \in SingleShot
               PROVE  /\ op'[j].state = "NEW" => sent'[j] = {}
                      /\ op'[j].state # "NEW" => sent'[j] = {op'[j].mid}
    BY DEF OneMessageId
  <2>1. CASE j = i
    <3>1. sent[i] = {}
      BY <1>1, <2>1 DEF IInv, OneMessageId
    <3>2. sent' = [sent EXCEPT ![i] = @ \cup {x}]
      BY <1>1, <2>1 DEF SendRequest
    <3>3. sent'[i] = {x}
      BY <3>1, <3>2
    <3> QED  BY <1>1, <2>1, <3>3
  <2>2. CASE j # i
    <3>1. sent'[j] = sent[j]
      BY <2>2 DEF SendRequest
    <3> QED  BY <1>2, <2>2, <3>1 DEF IInv, OneMessageId
  <2> QED  BY <2>1, <2>2
<1>9. watch \subseteq watch'
  BY DEF SendRequest
<1>10. Registered'
  <2> SUFFICES ASSUME NEW j \in Slots, op'[j].type = "SUBSCRIBE", op'[j].state # "NEW"
               PROVE  [token |-> op'[j].token, slot |-> j] \in watch'
    BY DEF Registered
  <2>1. CASE j = i
    BY <1>1, <2>1 DEF SendRequest
  <2>2. CASE j # i
    BY <1>2, <1>9, <2>2 DEF IInv, Registered
  <2> QED  BY <2>1, <2>2
<1>11. Unambiguous'
  <2> SUFFICES ASSUME ~clash', NEW v \in watch', NEW w \in watch', v.token = w.token
               PROVE  v.slot = w.slot
    BY DEF Unambiguous
  <2>1. ~clash /\ \A u \in watch : u.token = token => u.slot = i
    BY Zenon DEF SendRequest
  <2>2. \A u \in watch' : u \in watch \/ (u.token = token /\ u.slot = i)
    BY DEF SendRequest
  <2> QED
    BY <2>1, <2>2 DEF IInv, Unambiguous
<1> QED
  BY <1>5, <1>6, <1>7, <1>8, <1>10, <1>11 DEF IInv

\* Sending a request again keeps it.
LEMMA RetransmitPreserves ==
  ASSUME IInv, TypeOK', NEW i \in Slots, Retransmit(i)
  PROVE  IInv'
<1> op \in [Slots -> Op] /\ sent \in [Slots -> SUBSET Mids]
  BY DEF IInv, TypeOK
<1>1. op[i].state = "PENDING"
  BY DEF IInv, OpShape, Retransmit, MayRetransmit, SingleShot
<1>2. \A j \in Slots : /\ op'[j].type = op[j].type /\ op'[j].state = op[j].state
                       /\ op'[j].mid = op[j].mid /\ op'[j].token = op[j].token
  BY DEF Retransmit, Op
<1>3. UNCHANGED <<watch, reused, clash>>
  BY DEF Retransmit
<1>4. \A s \in wire' : \/ s \in wire
                       \/ s.mid = op[i].mid /\ s.slot = i /\ s.kind = op[i].type
  BY DEF Retransmit, RetransmitMid
<1>5. OpShape'
  BY <1>2, ZeroTyped DEF IInv, OpShape
<1>6. RequestOwn'
  <2> SUFFICES ASSUME ~reused, NEW j \in Slots, NEW s \in wire',
                      op[j].state = "PENDING", op[j].mid = s.mid
               PROVE  s.slot = j /\ s.kind = op[j].type
    BY <1>2, <1>3 DEF RequestOwn
  <2>1. CASE s \in wire
    BY <2>1 DEF IInv, RequestOwn
  <2>2. CASE s.mid = op[i].mid /\ s.slot = i /\ s.kind = op[i].type
    <3>1. i = j
      BY <1>1, <2>2 DEF IInv, PendingApart
    <3> QED  BY <2>2, <3>1
  <2> QED  BY <1>4, <2>1, <2>2
<1>7. PendingApart'
  BY <1>2, <1>3 DEF IInv, PendingApart
<1>8. OneMessageId'
  <2> SUFFICES ASSUME NEW j \in Slots, op[j].type \in SingleShot
               PROVE  /\ op[j].state = "NEW" => sent'[j] = {}
                      /\ op[j].state # "NEW" => sent'[j] = {op[j].mid}
    BY <1>2 DEF OneMessageId
  <2>1. CASE j = i
    <3>1. sent[i] = {op[i].mid}
      BY <1>1, <2>1 DEF IInv, OneMessageId
    <3>2. sent' = [sent EXCEPT ![i] = @ \cup {op[i].mid}]
      BY <2>1 DEF Retransmit, RetransmitMid
    <3>3. sent'[i] = {op[i].mid}
      BY <3>1, <3>2
    <3> QED  BY <1>1, <2>1, <3>3
  <2>2. CASE j # i
    <3>1. sent'[j] = sent[j]
      BY <2>2 DEF Retransmit
    <3> QED  BY <3>1 DEF IInv, OneMessageId
  <2> QED  BY <2>1, <2>2
<1>9. Registered'
  BY <1>2, <1>3 DEF IInv, Registered
<1>10. Unambiguous'
  BY <1>3 DEF IInv, Unambiguous
<1> QED
  BY <1>5, <1>6, <1>7, <1>8, <1>9, <1>10 DEF IInv

\* All other steps are quiet.
LEMMA ProcessQuiet ==
  ASSUME TypeOK, OpShape, NEW i \in Slots, Process(i),
         ~Retransmit(i), \A token \in Tokens : ~SendRequest(i, token)
  PROVE  QuietStep
<1> op[i] \in Op /\ Shaped(i, op[i])
  BY ShapeOf DEF TypeOK
<1>0. ASSUME UNCHANGED <<op, net>> PROVE QuietStep
  BY <1>0, ShapeOf, StaysQuiet DEF QuietStep, net
<1>1. ASSUME NEW s, Follows(i, op[i], [op[i] EXCEPT !.state = s]),
             op' = [op EXCEPT ![i].state = s], UNCHANGED net
      PROVE  QuietStep
  <2>1. op' = [op EXCEPT ![i] = [op[i] EXCEPT !.state = s]]
    BY <1>1 DEF TypeOK
  <2> QED  BY <1>1, <2>1, OneFollows DEF QuietStep, net
<1>2. CASE SendRequestFails(i)
  BY <1>0, <1>2 DEF SendRequestFails, net
<1>3. CASE RetransmitFails(i)
  BY <1>0, <1>3 DEF RetransmitFails, net
<1>4. CASE SendAckFails(i)
  BY <1>0, <1>4 DEF SendAckFails, net
<1>5. CASE Skip(i)
  BY <1>0, <1>5 DEF Skip, net
<1>6. CASE GiveUp(i)
  <2>1. Follows(i, op[i], [op[i] EXCEPT !.state = "ERROR"])
    BY <1>6, ErrorFollows DEF GiveUp, MayGiveUp
  <2> QED  BY <1>1, <1>6, <2>1 DEF GiveUp, net
<1>7. CASE Renew(i)
  <2>1. op[i].state \notin {"NULL", "NEW"} /\ op[i].type = "SUBSCRIBE"
    BY <1>7 DEF Renew, MayRenew
  <2>2. Follows(i, op[i], [op[i] EXCEPT !.state = "NEW"])
    BY <2>1, StateFollows
  <2> QED  BY <1>1, <1>7, <2>2 DEF Renew, net
<1>8. CASE SendAck(i)
  <2>1. op[i].state \notin {"NULL", "NEW"} /\ op[i].type = "SUBSCRIBE"
    BY <1>8 DEF SendAck, Shaped
  <2>2. PICK s \in {"SUBSCRIBED", "SUCCESS"} : op' = [op EXCEPT ![i].state = s]
    BY <1>8 DEF SendAck, TypeOK
  <2>3. Follows(i, op[i], [op[i] EXCEPT !.state = s])
    BY <2>1, StateFollows
  <2> QED  BY <1>1, <1>8, <2>2, <2>3 DEF SendAck, net
<1> QED
  BY <1>2, <1>3, <1>4, <1>5, <1>6, <1>7, <1>8 DEF Process

\* Every step of the engine keeps the invariant.
LEMMA NextPreserves ==
  ASSUME IInv, [Next]_vars
  PROVE  IInv'
<1>0. TypeOK /\ OpShape /\ TypeOK'
  BY NextTyped DEF IInv
<1> op \in [Slots -> Op] /\ \A i \in Slots : Shaped(i, op[i])
  BY <1>0, ShapeOf DEF TypeOK
<1>u. ASSUME UNCHANGED <<op, net>> PROVE QuietStep
  BY <1>u, <1>0, StaysQuiet DEF QuietStep, net
<1>1. CASE exo_init
  BY <1>0, <1>1, <1>u, QuietPreserves DEF exo_init, net
<1>2. CASE exo_init_fails
  BY <1>0, <1>2, <1>u, QuietPreserves DEF exo_init_fails, net
<1>3. CASE Restarted
  BY <1>0, <1>3, RestartPreserves
<1>4. ASSUME NEW i \in AppSlots, Done(i) PROVE IInv'
  <2>1. i \in Slots /\ op[i].state \notin {"NULL", "NEW"}
    BY <1>4, AppSlotsAssumption DEF Done, exo_is_op_finished
  <2>2. Follows(i, op[i], exo_op_done(op[i]))
    <3>1. CASE op[i].type = "SUBSCRIBE"
      BY <2>1, <3>1, StateFollows DEF exo_op_done
    <3>2. CASE op[i].type # "SUBSCRIBE"
      BY <3>2, InitFollows DEF exo_op_done
    <3> QED  BY <3>1, <3>2
  <2>3. QuietStep
    BY <1>0, <1>4, <2>1, <2>2, OneFollows DEF QuietStep, Done, net
  <2> QED  BY <1>0, <2>3, QuietPreserves
<1>5. ASSUME NEW i \in AppSlots, Cancel(i) PROVE IInv'
  <2>1. i \in Slots
    BY AppSlotsAssumption
  <2>2. QuietStep
    BY <1>0, <1>5, <2>1, InitFollows, OneFollows DEF QuietStep, Cancel, net
  <2> QED  BY <1>0, <2>2, QuietPreserves
<1>6. ASSUME NEW i \in AppSlots, NEW t \in AppTypes, Queue(i, t) PROVE IInv'
  BY <1>0, <1>6, QueuePreserves
<1>7. CASE exo_operate
  <2>1. CASE UNCHANGED op
    BY <1>0, <1>7, <1>u, <2>1, QuietPreserves DEF exo_operate, net
  <2>2. CASE op' = [op EXCEPT ![0] = exo_activate(op[0])]
    <3>1. Follows(0, op[0], exo_activate(op[0]))
      BY ActivateFollows, ZeroTyped
    <3>2. QuietStep
      BY <1>0, <1>7, <2>2, <3>1, OneFollows, ZeroTyped DEF QuietStep, exo_operate, net
    <3> QED  BY <1>0, <3>2, QuietPreserves
  <2> QED  BY <1>7, <2>1, <2>2 DEF exo_operate
<1>8. CASE RecvNone
  BY <1>0, <1>8, <1>u, QuietPreserves DEF RecvNone, net
<1>9. ASSUME NEW m \in Datagrams, Receive(m) PROVE IInv'
  <2>1. CASE Unrecognised(m)
    BY <1>0, <2>1, <1>u, QuietPreserves DEF Unrecognised, net
  <2>2. ASSUME NEW i \in Slots, Takes(i, m), Handle(i, m) PROVE IInv'
    <3>1. QuietStep
      BY <1>0, <2>2, DatagramsTyped, HandleQuiet DEF Takes, QuietStep, net
    <3> QED  BY <1>0, <3>1, QuietPreserves
  <2> QED  BY <1>9, <2>1, <2>2 DEF Receive
<1>10. ASSUME NEW i \in Slots, Process(i) PROVE IInv'
  <2>1. CASE Retransmit(i)
    BY <1>0, <2>1, RetransmitPreserves
  <2>2. CASE \E token \in Tokens : SendRequest(i, token)
    BY <1>0, <2>2, SendRequestPreserves
  <2>3. CASE ~Retransmit(i) /\ \A token \in Tokens : ~SendRequest(i, token)
    BY <1>0, <1>10, <2>3, ProcessQuiet, QuietPreserves
  <2> QED  BY <2>1, <2>2, <2>3
<1>11. CASE Return
  BY <1>0, <1>11, <1>u, QuietPreserves DEF Return, net
<1>12. CASE Tick
  <2>1. \A i \in Slots :
          /\ op'[i].type = op[i].type /\ op'[i].state = op[i].state
          /\ op'[i].mid = op[i].mid /\ op'[i].token = op[i].token
    BY <1>12 DEF Tick, Op
  <2>2. QuietStep
    BY <1>12, <2>1 DEF QuietStep, Follows, Quiet, Shaped, Tick, net
  <2> QED  BY <1>0, <2>2, QuietPreserves
<1>13. CASE UNCHANGED vars
  BY <1>0, <1>13, <1>u, QuietPreserves DEF vars, net
<1> QED
  BY <1>1, <1>2, <1>3, <1>4, <1>5, <1>6, <1>7, <1>8, <1>9, <1>10, <1>11,
     <1>12, <1>13 DEF Next, Application, Reboot, Crash

\* Power-up satisfies it.
LEMMA InitInvariant == ASSUME Init PROVE IInv
<1>1. TypeOK
  BY InitTyped, ZeroTyped, FileAssumption DEF Init, TypeOK
<1>2. \A i \in Slots : op[i].type = "NULL" /\ op[i].state = "NULL"
  BY DEF Init, exo_op_init
<1>3. OpShape
  BY <1>2, ZeroTyped DEF OpShape
<1>4. RequestOwn /\ PendingApart
  BY <1>2 DEF RequestOwn, PendingApart
<1>5. OneMessageId /\ Registered
  BY <1>2 DEF OneMessageId, Registered, SingleShot
<1>6. Unambiguous
  BY DEF Init, Unambiguous
<1> QED  BY <1>1, <1>3, <1>4, <1>5, <1>6 DEF IInv

\* The inductive invariant.
THEOREM Invariance == Spec => []IInv
<1>1. Init => IInv
  BY InitInvariant
<1>2. IInv /\ [Next]_vars => IInv'
  BY NextPreserves
<1> QED
  BY <1>1, <1>2, PTL DEF Spec

\* The type and the state of every operation agree, and no application
\* operation gets into the activation slot.
THEOREM ShapeHolds == Spec => []OpShape
<1>1. IInv => OpShape
  BY DEF IInv
<1> QED  BY <1>1, Invariance, PTL

\* What arrives under the message id of a pending operation answers the
\* request it waits for, however late: never one of another slot, of an
\* operation that has ended or of an earlier life of the device, unless an
\* id was issued again while a request under it could still be answered.
THEOREM RequestsApart == Spec => []RequestOwn
<1>1. IInv => RequestOwn
  BY DEF IInv
<1> QED  BY <1>1, Invariance, PTL

\* However often it is retransmitted, a read or write has one message id.
THEOREM OneIdPerRequest == Spec => []OneMessageId
<1>1. IInv => OneMessageId
  BY DEF IInv
<1> QED  BY <1>1, Invariance, PTL

\* No subscription takes a notification of another, unless rand() gave two
\* slots the same token.
THEOREM NotificationsApart == Spec => []NotificationOwn
<1>1. IInv => NotificationOwn
  <2> SUFFICES ASSUME IInv, ~clash, NEW i \in Slots, NEW w \in watch,
                      op[i].state = "SUBSCRIBED", op[i].token = w.token
               PROVE  w.slot = i
    BY DEF NotificationOwn
  <2>1. op[i].type = "SUBSCRIBE"
    BY DEF IInv, OpShape
  <2>2. [token |-> op[i].token, slot |-> i] \in watch
    BY <2>1 DEF IInv, Registered
  <2> QED
    BY <2>2 DEF IInv, Unambiguous
<1> QED  BY <1>1, Invariance, PTL

\* When exo_operate returns EXO_IDLE every read and write the application
\* queued has succeeded or failed.
THEOREM IdleFinishes == Spec => []IdleMeansFinished
<1>1. IInv => IdleMeansFinished
  <2> SUFFICES ASSUME IInv, exo_operate_result = "IDLE", NEW i \in AppSlots,
                      op[i].type \in SingleShot
               PROVE  exo_is_op_finished(op[i])
    BY DEF IdleMeansFinished
  <2>1. i \in Slots
    BY AppSlotsAssumption
  <2>2. op[i].state \in OpStates
    BY <2>1 DEF IInv, TypeOK, Op
  <2>3. op[i].state \notin {"NULL", "SUBSCRIBED", "SUB_ACK", "SUB_ACK_NEW"}
    BY <2>1 DEF IInv, OpShape, SingleShot
  <2>4. ~(\E j \in Slots : op[j].state = "NEW")
    BY DEF exo_operate_result
  <2>5. ~(\E j \in Slots : op[j].state = "PENDING")
    BY <2>4 DEF exo_operate_result
  <2> QED
    BY <2>1, <2>2, <2>3, <2>4, <2>5 DEF OpStates, exo_is_op_finished
<1> QED  BY <1>1, Invariance, PTL

-----------------------------------------------------------------------------
(* What the library may do to the operations of the application.            *)

\* The action of ApplicationOwns, for one slot.
Respects(i) ==
  /\ op[i].type \in AppTypes => op'[i].type = op[i].type
  /\ exo_is_op_finished(op[i]) => Result(op'[i]) = Result(op[i])

\* A handler touches the slot that recognises the datagram, and slot 0.
LEMMA HandleRespects ==
  ASSUME TypeOK, OpShape, NEW i \in Slots, NEW m \in Message,
         Claims(op[i], m), Handle(i, m), NEW j \in Slots, j # 0
  PROVE  Respects(j)
<1> op \in [Slots -> Op] /\ op[i] \in Op
  BY DEF TypeOK
<1>1. ~exo_is_op_finished(op[i])
  BY DEF Claims, exo_is_op_finished
<1>2. CASE j # i
  <2>1. op'[j] = op[j]
    BY <1>2 DEF Handle, NotifyEmpty, NotifyError, NotifyValue, NotifyIgnored,
       AckWrite, AckEmpty, AckTooLong, AckRead, AckSubscribe, AckActivated,
       AckNoCik, AckRefused, Reset, Becomes
  <2> QED  BY <2>1 DEF Respects, Result
<1>3. CASE j = i
  <2>1. op[i].type # "ACTIVATE"
    BY <1>3 DEF OpShape
  <2>2. CASE NotifyEmpty(i, m) \/ NotifyError(i, m) \/ NotifyIgnored(i, m)
    <3> op'[i].type = op[i].type
      BY <2>2 DEF NotifyEmpty, NotifyError, NotifyIgnored, Becomes, Op
    <3> QED  BY <1>1, <1>3 DEF Respects
  <2>3. CASE NotifyValue(i, m)
    <3> op'[i].type = op[i].type
      BY <2>3 DEF NotifyValue, Becomes, Op
    <3> QED  BY <1>1, <1>3 DEF Respects
  <2>4. CASE AckWrite(i, m) \/ AckEmpty(i, m) \/ AckTooLong(i, m)
    <3> op'[i].type = op[i].type
      BY <2>4 DEF AckWrite, AckEmpty, AckTooLong, Becomes, Op
    <3> QED  BY <1>1, <1>3 DEF Respects
  <2>5. CASE AckRead(i, m) \/ AckSubscribe(i, m)
    <3> op'[i].type = op[i].type
      BY <2>5 DEF AckRead, AckSubscribe, Becomes, Op
    <3> QED  BY <1>1, <1>3 DEF Respects
  <2>6. CASE AckActivated(i, m) \/ AckNoCik(i, m)
    BY <2>1, <2>6 DEF AckActivated, AckNoCik
  <2>7. CASE AckRefused(i, m)
    <3> op'[i].type = op[i].type
      BY <1>3, <2>7 DEF AckRefused, Op
    <3> QED  BY <1>1, <1>3 DEF Respects
  <2>8. CASE Reset(i, m)
    <3> op'[i].type = op[i].type
      BY <2>8 DEF Reset, Becomes, Op
    <3> QED  BY <1>1, <1>3 DEF Respects
  <2> QED  BY <2>2, <2>3, <2>4, <2>5, <2>6, <2>7, <2>8 DEF Handle
<1> QED  BY <1>2, <1>3

\* Visiting a slot touches only that slot, and not a finished operation.
LEMMA ProcessRespects ==
  ASSUME TypeOK, NEW i \in Slots, Process(i), NEW j \in Slots
  PROVE  Respects(j)
<1> op \in [Slots -> Op] /\ op[i] \in Op
  BY DEF TypeOK
<1>1. CASE op'[j] = op[j]
  BY <1>1 DEF Respects, Result
<1>2. CASE op'[j] # op[j]
  <2>1. j = i /\ ~exo_is_op_finished(op[i])
    BY <1>2 DEF Process, SendRequest, SendRequestFails, Retransmit, RetransmitFails,
       MayRetransmit, GiveUp, MayGiveUp, Renew, MayRenew, SendAck, SendAckFails,
       Skip, exo_is_op_finished
  <2>2. op'[i].type = op[i].type
    <3>1. ASSUME NEW token \in Tokens, SendRequest(i, token)
          PROVE  op'[i].type = op[i].type
      BY <3>1 DEF SendRequest, Sent, Op
    <3>2. CASE Retransmit(i)
      BY <3>2 DEF Retransmit, Op
    <3>3. CASE GiveUp(i) \/ Renew(i) \/ SendAck(i)
      BY <3>3 DEF GiveUp, Renew, SendAck, Op
    <3>4. CASE SendRequestFails(i) \/ RetransmitFails(i) \/ SendAckFails(i) \/ Skip(i)
      BY <3>4 DEF SendRequestFails, RetransmitFails, SendAckFails, Skip
    <3> QED  BY <3>1, <3>2, <3>3, <3>4 DEF Process
  <2> QED  BY <2>1, <2>2 DEF Respects
<1> QED  BY <1>1, <1>2

\* No step of the library does anything else.
LEMMA StepRespects ==
  ASSUME 0 \notin AppSlots, IInv, [Next]_vars, LibraryStep, NEW j \in AppSlots
  PROVE  Respects(j)
<1> TypeOK /\ OpShape /\ j \in Slots /\ j # 0
  BY AppSlotsAssumption DEF IInv
<1>0. ASSUME op'[j] = op[j] PROVE Respects(j)
  BY <1>0 DEF Respects, Result
<1>1. CASE pc = "app" /\ pc' = "app"
  BY <1>1 DEF LibraryStep
<1>2. CASE exo_operate
  BY <1>0, <1>2 DEF exo_operate, TypeOK
<1>3. CASE RecvNone \/ Return \/ UNCHANGED vars
  BY <1>0, <1>3 DEF RecvNone, Return, vars
<1>4. ASSUME NEW m \in Datagrams, Receive(m) PROVE Respects(j)
  <2>1. CASE Unrecognised(m)
    BY <1>0, <2>1 DEF Unrecognised
  <2>2. ASSUME NEW i \in Slots, Takes(i, m), Handle(i, m) PROVE Respects(j)
    BY <2>2, DatagramsTyped, HandleRespects DEF Takes
  <2> QED  BY <1>4, <2>1, <2>2 DEF Receive
<1>5. ASSUME NEW i \in Slots, Process(i) PROVE Respects(j)
  BY <1>5, ProcessRespects
<1>6. CASE Tick
  <2>1. Result(op'[j]) = Result(op[j]) /\ op'[j].type = op[j].type
    BY <1>6 DEF Tick, TypeOK, Op, Result
  <2> QED  BY <2>1 DEF Respects
<1>7. CASE exo_init \/ exo_init_fails \/ Application
  <2>1. pc = "app" /\ pc' = "app"
    BY <1>7 DEF exo_init, exo_init_fails, Application, Done, Cancel, Queue
  <2> QED  BY <1>1, <2>1
<1>8. ~Reboot /\ \A m \in Datagrams : ~Crash(m)
  BY DEF LibraryStep, Reboot, Crash
<1> QED
  BY <1>2, <1>3, <1>4, <1>5, <1>6, <1>7, <1>8 DEF Next

\* An application that leaves slot 0 to the library, as the example does,
\* keeps its operations: the library never drops one, never turns one into
\* another, and never touches the result of one that has finished.
THEOREM LibraryRespects ==
  ASSUME 0 \notin AppSlots
  PROVE  Spec => ApplicationOwns
<1>1. IInv /\ [Next]_vars =>
        [LibraryStep => \A j \in AppSlots : Respects(j)]_vars
  BY StepRespects
<1>2. [LibraryStep => \A j \in AppSlots : Respects(j)]_vars <=>
      [LibraryStep =>
         \A i \in AppSlots :
           /\ op[i].type \in AppTypes => op'[i].type = op[i].type
           /\ exo_is_op_finished(op[i]) => Result(op'[i]) = Result(op[i])]_vars
  BY DEF Respects
<1> QED
  BY <1>1, <1>2, Invariance, PTL DEF Spec, ApplicationOwns
=============================================================================
