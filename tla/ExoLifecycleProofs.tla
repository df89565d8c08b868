------------------------- MODULE ExoLifecycleProofs -------------------------
(***************************************************************************)
(* The engine implements the abstract lifecycle of operations, for every    *)
(* value of the constants of ExoEngine, if the application leaves slot 0 to *)
(* the library.                                                             *)
(***************************************************************************)
EXTENDS ExoEngineProofs

\* What the lifecycle sees of an operation.
SameSeen(o, q) ==
  KindOf(q) = KindOf(o) /\ PhaseOf(q) = PhaseOf(o) /\ q.value = o.value

KindBar == [j \in AppSlots |-> KindOf(op[j])]
PhaseBar == [j \in AppSlots |-> PhaseOf(op[j])]
ValueBar == [j \in AppSlots |-> op[j].value]

\* The steps the lifecycle allows a single operation, from record o to q.
Goes(o, q, From, p) ==
  PhaseOf(o) \in From /\ PhaseOf(q) = p /\ KindOf(q) = KindOf(o)

Allowed(o, q) ==
  \/ /\ PhaseOf(o) \in {"free", "succeeded", "failed"}
     /\ PhaseOf(q) = "queued" /\ KindOf(q) \in {"single", "sustained"}
  \/ Goes(o, q, {"queued"}, "inflight") /\ q.value = o.value
  \/ Goes(o, q, {"inflight", "watching"}, PhaseOf(o))
  \/ Goes(o, q, {"inflight"}, "succeeded")
  \/ Goes(o, q, {"inflight", "watching"}, "failed") /\ q.value = o.value
  \/ /\ KindOf(o) = "sustained"
     /\ Goes(o, q, {"inflight", "watching"}, "queued") /\ q.value = o.value
  \/ /\ KindOf(o) = "sustained"
     /\ Goes(o, q, {"watching"}, "confirming") \/ Goes(o, q, {"watching"}, "reporting")
  \/ Goes(o, q, {"confirming"}, "watching") /\ q.value = o.value
  \/ Goes(o, q, {"reporting"}, "succeeded") /\ q.value = o.value
  \/ /\ KindOf(o) = "sustained"
     /\ Goes(o, q, {"succeeded", "failed"}, "watching") /\ q.value = o.value
  \/ PhaseOf(q) = "free" /\ KindOf(q) = "none"

\* A step that changes nothing the lifecycle sees is a stuttering step of it.
LEMMA Stutters ==
  ASSUME \A j \in AppSlots : SameSeen(op[j], op'[j])
  PROVE  UNCHANGED Lifecycle!vars
  BY DEF SameSeen, Lifecycle!vars

\* A step of one operation the lifecycle allows, and of no other, is a step
\* of the lifecycle.
LEMMA Steps ==
  ASSUME NEW i \in AppSlots,
         \A j \in AppSlots \ {i} : SameSeen(op[j], op'[j]),
         op'[i].value \in SUBSET ObsSeq, Allowed(op[i], op'[i])
  PROVE  Lifecycle!Next
<1> DEFINE k == KindOf(op'[i])
           p == PhaseOf(op'[i])
           v == op'[i].value
<1>k. KindBar' = [KindBar EXCEPT ![i] = k]
  BY DEF KindBar, SameSeen
<1>p. PhaseBar' = [PhaseBar EXCEPT ![i] = p]
  BY DEF PhaseBar, SameSeen
<1>v. ValueBar' = [ValueBar EXCEPT ![i] = v]
  BY DEF ValueBar, SameSeen
<1>w. Lifecycle!MayWrite(i)
  BY <1>v DEF Lifecycle!MayWrite, ValueBar
<1>b. KindBar[i] = KindOf(op[i]) /\ PhaseBar[i] = PhaseOf(op[i]) /\ ValueBar[i] = op[i].value
  BY DEF KindBar, PhaseBar, ValueBar
<1>e. /\ k = KindOf(op[i]) => KindBar' = KindBar
      /\ v = op[i].value => ValueBar' = ValueBar
  BY <1>k, <1>v DEF KindBar, ValueBar
<1>m. ASSUME NEW From, Goes(op[i], op'[i], From, p)
      PROVE  Lifecycle!Move(i, From, p)
  BY <1>m, <1>p, <1>b, <1>e DEF Goes, Lifecycle!Move, KindBar, PhaseBar
<1>n. ASSUME v = op[i].value PROVE UNCHANGED ValueBar
  BY <1>n, <1>e
<1> HIDE DEF k, p, v
<1>1. CASE /\ PhaseOf(op[i]) \in {"free", "succeeded", "failed"}
           /\ p = "queued" /\ k \in {"single", "sustained"}
  <2> Lifecycle!Submit(i)
    BY <1>1, <1>k, <1>p, <1>b, <1>w
       DEF Lifecycle!Submit, Lifecycle!Kinds, KindBar, PhaseBar
  <2> QED  BY DEF Lifecycle!Next
<1>2. CASE Goes(op[i], op'[i], {"queued"}, "inflight") /\ v = op[i].value
  <2> Lifecycle!Transmit(i)
    BY <1>2, <1>m, <1>n DEF Lifecycle!Transmit, ValueBar, p, Goes
  <2> QED  BY DEF Lifecycle!Next
<1>3. CASE Goes(op[i], op'[i], {"inflight", "watching"}, PhaseOf(op[i]))
  <2> Lifecycle!Blank(i)
    BY <1>3, <1>m, <1>w, <1>b DEF Lifecycle!Blank, PhaseBar, p, Goes
  <2> QED  BY DEF Lifecycle!Next
<1>4. CASE Goes(op[i], op'[i], {"inflight"}, "succeeded")
  <2> Lifecycle!Succeed(i)
    BY <1>4, <1>m, <1>w DEF Lifecycle!Succeed, p, Goes
  <2> QED  BY DEF Lifecycle!Next
<1>5. CASE Goes(op[i], op'[i], {"inflight", "watching"}, "failed") /\ v = op[i].value
  <2> Lifecycle!Fail(i)
    BY <1>5, <1>m, <1>n DEF Lifecycle!Fail, ValueBar, p, Goes
  <2> QED  BY DEF Lifecycle!Next
<1>6. CASE /\ KindOf(op[i]) = "sustained" /\ v = op[i].value
           /\ Goes(op[i], op'[i], {"inflight", "watching"}, "queued")
  <2> Lifecycle!Renew(i)
    BY <1>6, <1>m, <1>n, <1>b DEF Lifecycle!Renew, KindBar, ValueBar, p, Goes
  <2> QED  BY DEF Lifecycle!Next
<1>7. CASE /\ KindOf(op[i]) = "sustained"
           /\ \/ Goes(op[i], op'[i], {"watching"}, "confirming")
              \/ Goes(op[i], op'[i], {"watching"}, "reporting")
  <2>1. p \in {"confirming", "reporting"} /\ Lifecycle!Move(i, {"watching"}, p)
    BY <1>7, <1>m DEF p, Goes
  <2> Lifecycle!Notify(i)
    BY <1>7, <2>1, <1>w, <1>b DEF Lifecycle!Notify, KindBar
  <2> QED  BY DEF Lifecycle!Next
<1>8. CASE Goes(op[i], op'[i], {"confirming"}, "watching") /\ v = op[i].value
  <2> Lifecycle!Confirm(i)
    BY <1>8, <1>m, <1>n DEF Lifecycle!Confirm, ValueBar, p, Goes
  <2> QED  BY DEF Lifecycle!Next
<1>9. CASE Goes(op[i], op'[i], {"reporting"}, "succeeded") /\ v = op[i].value
  <2> Lifecycle!Report(i)
    BY <1>9, <1>m, <1>n DEF Lifecycle!Report, ValueBar, p, Goes
  <2> QED  BY DEF Lifecycle!Next
<1>10. CASE /\ KindOf(op[i]) = "sustained" /\ v = op[i].value
            /\ Goes(op[i], op'[i], {"succeeded", "failed"}, "watching")
  <2> Lifecycle!Release(i)
    BY <1>10, <1>m, <1>n, <1>b DEF Lifecycle!Release, KindBar, ValueBar, p, Goes
  <2> QED  BY DEF Lifecycle!Next
<1>11. CASE p = "free" /\ k = "none"
  <2> Lifecycle!Cancel(i)
    BY <1>11, <1>k, <1>p, <1>w DEF Lifecycle!Cancel, KindBar, PhaseBar
  <2> QED  BY DEF Lifecycle!Next
<1> QED
  BY <1>1, <1>2, <1>3, <1>4, <1>5, <1>6, <1>7, <1>8, <1>9, <1>10, <1>11
     DEF Allowed, k, p, v

-----------------------------------------------------------------------------
(* The steps of the engine, as steps of the lifecycle.                      *)

LifeStep == Lifecycle!Next \/ UNCHANGED Lifecycle!vars

\* What a step leaves of slot i, and what it may do to it.
Lives(o, q) == SameSeen(o, q) \/ Allowed(o, q)

\* A step that changes the application's operations in one slot at most.
LEMMA OneLives ==
  ASSUME TypeOK', NEW i \in Slots,
         \A j \in AppSlots \ {i} : op'[j] = op[j],
         i \in AppSlots => Lives(op[i], op'[i])
  PROVE  LifeStep
<1>1. \A j \in AppSlots \ {i} : SameSeen(op[j], op'[j])
  BY DEF SameSeen
<1>2. CASE i \in AppSlots /\ Allowed(op[i], op'[i])
  <2>1. op'[i].value \in SUBSET ObsSeq
    BY DEF TypeOK, Op
  <2> QED  BY <1>1, <1>2, <2>1, Steps DEF LifeStep
<1>3. CASE i \notin AppSlots \/ SameSeen(op[i], op'[i])
  BY <1>1, <1>3, Stutters DEF LifeStep
<1> QED  BY <1>2, <1>3 DEF Lives

\* A change of state alone keeps the kind and the value.
LEMMA StateLives ==
  ASSUME NEW o \in Op, NEW s \in OpStates, NEW q, q = [o EXCEPT !.state = s]
  PROVE  q.state = s /\ q.type = o.type /\ KindOf(q) = KindOf(o) /\ q.value = o.value
  BY DEF Op, KindOf

\* An operation that is waiting for the server may fail.
LEMMA FailLives ==
  ASSUME NEW o \in Op, o.state \in {"PENDING", "SUBSCRIBED"},
         NEW q, q = [o EXCEPT !.state = "ERROR"]
  PROVE  Lives(o, q)
<1>1. q.state = "ERROR" /\ KindOf(q) = KindOf(o) /\ q.value = o.value
  BY StateLives DEF OpStates
<1>2. PhaseOf(q) = "failed" /\ PhaseOf(o) \in {"inflight", "watching"}
  BY <1>1 DEF PhaseOf
<1> QED  BY <1>1, <1>2 DEF Lives, Allowed, Goes

\* An empty value changes the buffer only.
LEMMA BlankLives ==
  ASSUME NEW o \in Op, o.state \in {"PENDING", "SUBSCRIBED"},
         NEW q, q = [o EXCEPT !.value = {}]
  PROVE  Lives(o, q)
<1>1. q.state = o.state /\ KindOf(q) = KindOf(o)
  BY DEF Op, KindOf
<1>2. PhaseOf(q) = PhaseOf(o) /\ PhaseOf(o) \in {"inflight", "watching"}
  BY <1>1 DEF PhaseOf
<1> QED  BY <1>1, <1>2 DEF Lives, Allowed, Goes

\* An answer with content ends the exchange.
LEMMA SucceedLives ==
  ASSUME NEW o, o.state = "PENDING", NEW q, q.state = "SUCCESS", q.type = o.type
  PROVE  Lives(o, q)
<1>1. PhaseOf(o) = "inflight" /\ PhaseOf(q) = "succeeded" /\ KindOf(q) = KindOf(o)
  BY DEF PhaseOf, KindOf
<1> QED  BY <1>1 DEF Lives, Allowed, Goes

\* A notification is stored and waits for its acknowledgement.
LEMMA NotifyLives ==
  ASSUME NEW o, o.state = "SUBSCRIBED", o.type = "SUBSCRIBE",
         NEW q, q.state \in {"SUB_ACK", "SUB_ACK_NEW"}, q.type = o.type
  PROVE  Lives(o, q)
<1>1. PhaseOf(o) = "watching" /\ KindOf(o) = "sustained" /\ KindOf(q) = KindOf(o)
  BY DEF PhaseOf, KindOf
<1>2. PhaseOf(q) \in {"confirming", "reporting"}
  BY DEF PhaseOf
<1> QED  BY <1>1, <1>2 DEF Lives, Allowed, Goes

\* exo_op_init ends any operation.
LEMMA InitLives == \A o : Lives(o, exo_op_init)
<1>1. PhaseOf(exo_op_init) = "free" /\ KindOf(exo_op_init) = "none"
  BY DEF PhaseOf, KindOf, exo_op_init
<1> QED  BY <1>1 DEF Lives, Allowed

\* A handler moves the slot that recognises the datagram along its lifecycle.
LEMMA HandleLives ==
  ASSUME TypeOK, OpShape, NEW i \in Slots, i # 0, NEW m \in Message,
         Claims(op[i], m), Handle(i, m)
  PROVE  Lives(op[i], op'[i])
<1> op \in [Slots -> Op] /\ op[i] \in Op
  BY DEF TypeOK
<1>0. op[i].state \in {"PENDING", "SUBSCRIBED"}
  BY DEF Claims
<1>a. m.type = "ACK" => op[i].state = "PENDING"
  BY DEF Claims
<1>t. op[i].type # "ACTIVATE"
  BY DEF OpShape
<1>1. CASE NotifyEmpty(i, m)
  <2>1. op'[i] = [op[i] EXCEPT !.value = {}]
    BY <1>1 DEF NotifyEmpty, Becomes
  <2> QED  BY <1>0, <2>1, BlankLives
<1>2. CASE NotifyError(i, m)
  <2>1. op'[i] = [op[i] EXCEPT !.state = "ERROR"]
    BY <1>2 DEF NotifyError, Becomes
  <2> QED  BY <1>0, <2>1, FailLives
<1>3. CASE NotifyValue(i, m)
  <2>1. op[i].state = "SUBSCRIBED"
    BY <1>3 DEF NotifyValue, Claims
  <2>2. op[i].type = "SUBSCRIBE"
    BY <2>1 DEF OpShape
  <2>3. op'[i].state \in {"SUB_ACK", "SUB_ACK_NEW"} /\ op'[i].type = op[i].type
    BY <1>3 DEF NotifyValue, Becomes, Op
  <2> QED  BY <2>1, <2>2, <2>3, NotifyLives
<1>4. CASE NotifyIgnored(i, m)
  <2>1. op'[i] = op[i]
    BY <1>4 DEF NotifyIgnored, Becomes
  <2> QED  BY <2>1 DEF Lives, SameSeen
<1>5. CASE AckWrite(i, m)
  <2>1. op[i].state = "PENDING" /\ op'[i].state = "SUCCESS" /\ op'[i].type = op[i].type
    BY <1>5, <1>a DEF AckWrite, Becomes, Op
  <2> QED  BY <2>1, SucceedLives
<1>6. CASE AckEmpty(i, m)
  <2>1. op'[i] = [op[i] EXCEPT !.value = {}]
    BY <1>6 DEF AckEmpty, Becomes
  <2> QED  BY <1>0, <2>1, BlankLives
<1>7. CASE AckTooLong(i, m)
  <2>1. op'[i] = [op[i] EXCEPT !.state = "ERROR"]
    BY <1>7 DEF AckTooLong, Becomes
  <2> QED  BY <1>0, <2>1, FailLives
<1>8. CASE AckRead(i, m)
  <2>1. op[i].state = "PENDING" /\ op'[i].state = "SUCCESS" /\ op'[i].type = op[i].type
    BY <1>8, <1>a DEF AckRead, Becomes, Op
  <2> QED  BY <2>1, SucceedLives
<1>9. CASE AckSubscribe(i, m)
  <2>1. op[i].state = "PENDING" /\ op'[i].state = "SUCCESS" /\ op'[i].type = op[i].type
    BY <1>9, <1>a DEF AckSubscribe, Becomes, Op
  <2> QED  BY <2>1, SucceedLives
<1>10. CASE AckActivated(i, m) \/ AckNoCik(i, m)
  BY <1>10, <1>t DEF AckActivated, AckNoCik
<1>11. CASE AckRefused(i, m)
  <2>1. op'[i] = [op[i] EXCEPT !.state = "ERROR"]
    BY <1>11 DEF AckRefused
  <2> QED  BY <1>0, <2>1, FailLives
<1>12. CASE Reset(i, m)
  <2>1. op'[i] = [op[i] EXCEPT !.state = "ERROR"]
    BY <1>12 DEF Reset, Becomes
  <2> QED  BY <1>0, <2>1, FailLives
<1> QED
  BY <1>1, <1>2, <1>3, <1>4, <1>5, <1>6, <1>7, <1>8, <1>9, <1>10, <1>11, <1>12
     DEF Handle

\* A handler touches no other slot than that one, slot 0 apart.
LEMMA HandleLocal ==
  ASSUME TypeOK, NEW i \in Slots, NEW m, Handle(i, m),
         NEW j \in Slots, j # i, j # 0
  PROVE  op'[j] = op[j]
<1> op \in [Slots -> Op]
  BY DEF TypeOK
<1>1. CASE AckRefused(i, m)
  BY <1>1 DEF AckRefused
<1>2. CASE AckActivated(i, m)
  BY <1>2 DEF AckActivated
<1>3. ASSUME NEW q, Becomes(i, q) PROVE op'[j] = op[j]
  BY <1>3 DEF Becomes
<1>4. CASE NotifyEmpty(i, m) \/ NotifyError(i, m) \/ NotifyIgnored(i, m)
  BY <1>3, <1>4 DEF NotifyEmpty, NotifyError, NotifyIgnored
<1>5. CASE NotifyValue(i, m) \/ AckSubscribe(i, m)
  BY <1>3, <1>5, Zenon DEF NotifyValue, AckSubscribe
<1>6. CASE AckWrite(i, m) \/ AckEmpty(i, m) \/ AckTooLong(i, m) \/ AckRead(i, m)
  BY <1>3, <1>6 DEF AckWrite, AckEmpty, AckTooLong, AckRead
<1>7. CASE AckNoCik(i, m) \/ Reset(i, m)
  BY <1>3, <1>7 DEF AckNoCik, Reset
<1> QED
  BY <1>1, <1>2, <1>4, <1>5, <1>6, <1>7 DEF Handle

\* Visiting a slot moves its operation along its lifecycle, and no other.
LEMMA ProcessLives ==
  ASSUME TypeOK, OpShape, NEW i \in Slots, Process(i)
  PROVE  /\ \A j \in Slots \ {i} : op'[j] = op[j]
         /\ Lives(op[i], op'[i])
<1> op \in [Slots -> Op] /\ op[i] \in Op
  BY DEF TypeOK
<1>0. ASSUME op' = op
      PROVE  (\A j \in Slots \ {i} : op'[j] = op[j]) /\ Lives(op[i], op'[i])
  BY <1>0 DEF Lives, SameSeen
<1>1. ASSUME NEW token \in Tokens, SendRequest(i, token)
      PROVE  (\A j \in Slots \ {i} : op'[j] = op[j]) /\ Lives(op[i], op'[i])
  <2>1. /\ op[i].state = "NEW" /\ op'[i].state = "PENDING"
        /\ op'[i].type = op[i].type /\ op'[i].value = op[i].value
    BY <1>1 DEF SendRequest, Sent, Op
  <2>2. PhaseOf(op[i]) = "queued" /\ PhaseOf(op'[i]) = "inflight"
    BY <2>1 DEF PhaseOf
  <2>3. KindOf(op'[i]) = KindOf(op[i])
    BY <2>1 DEF KindOf
  <2>4. Lives(op[i], op'[i])
    BY <2>1, <2>2, <2>3 DEF Lives, Allowed, Goes
  <2> QED  BY <1>1, <2>4 DEF SendRequest
<1>2. CASE Retransmit(i)
  <2>1. /\ op'[i].state = op[i].state /\ op'[i].type = op[i].type
        /\ op'[i].value = op[i].value
    BY <1>2 DEF Retransmit, Op
  <2>2. Lives(op[i], op'[i])
    BY <2>1 DEF Lives, SameSeen, PhaseOf, KindOf
  <2> QED  BY <1>2, <2>2 DEF Retransmit
<1>3. CASE GiveUp(i)
  <2>1. op[i].state \in {"PENDING", "SUBSCRIBED"} /\ op'[i] = [op[i] EXCEPT !.state = "ERROR"]
    BY <1>3 DEF GiveUp, MayGiveUp
  <2>2. Lives(op[i], op'[i])
    BY <2>1, FailLives
  <2> QED  BY <1>3, <2>2 DEF GiveUp
<1>4. CASE Renew(i)
  <2>1. /\ op[i].state \in {"PENDING", "SUBSCRIBED"} /\ op[i].type = "SUBSCRIBE"
        /\ op'[i] = [op[i] EXCEPT !.state = "NEW"]
    BY <1>4 DEF Renew, MayRenew
  <2>2. op'[i].state = "NEW" /\ KindOf(op'[i]) = KindOf(op[i]) /\ op'[i].value = op[i].value
    BY <2>1, StateLives DEF OpStates
  <2>3. PhaseOf(op[i]) \in {"inflight", "watching"} /\ PhaseOf(op'[i]) = "queued"
    BY <2>1, <2>2 DEF PhaseOf
  <2>4. KindOf(op[i]) = "sustained"
    BY <2>1 DEF KindOf
  <2>5. Lives(op[i], op'[i])
    BY <2>2, <2>3, <2>4 DEF Lives, Allowed, Goes
  <2> QED  BY <1>4, <2>5 DEF Renew
<1>5. CASE SendAck(i)
  <2>1. /\ op[i].state \in {"SUB_ACK", "SUB_ACK_NEW"}
        /\ op'[i] = [op[i] EXCEPT !.state = IF op[i].state = "SUB_ACK"
                                            THEN "SUBSCRIBED" ELSE "SUCCESS"]
    BY <1>5 DEF SendAck
  <2>2. /\ op'[i].state = IF op[i].state = "SUB_ACK" THEN "SUBSCRIBED" ELSE "SUCCESS"
        /\ KindOf(op'[i]) = KindOf(op[i]) /\ op'[i].value = op[i].value
    BY <2>1, StateLives DEF OpStates
  <2>3. \/ PhaseOf(op[i]) = "confirming" /\ PhaseOf(op'[i]) = "watching"
        \/ PhaseOf(op[i]) = "reporting" /\ PhaseOf(op'[i]) = "succeeded"
    BY <2>1, <2>2 DEF PhaseOf
  <2>4. Lives(op[i], op'[i])
    BY <2>2, <2>3 DEF Lives, Allowed, Goes
  <2> QED  BY <1>5, <2>4 DEF SendAck
<1>6. CASE SendRequestFails(i) \/ RetransmitFails(i) \/ SendAckFails(i) \/ Skip(i)
  BY <1>0, <1>6 DEF SendRequestFails, RetransmitFails, SendAckFails, Skip
<1> QED
  BY <1>1, <1>2, <1>3, <1>4, <1>5, <1>6 DEF Process

\* The application's calls on a slot.
LEMMA ApplicationLives ==
  ASSUME TypeOK, TypeOK', Application
  PROVE  LifeStep
<1> PICK i \in AppSlots : Done(i) \/ Cancel(i) \/ \E t \in AppTypes : Queue(i, t)
  BY DEF Application
<1> i \in Slots /\ op \in [Slots -> Op] /\ op[i] \in Op
  BY AppSlotsAssumption DEF TypeOK
<1>0. \A j \in AppSlots \ {i} : op'[j] = op[j]
  BY AppSlotsAssumption DEF Done, Cancel, Queue
<1>1. CASE Done(i)
  <2>1. op[i].state \in {"SUCCESS", "ERROR"} /\ op'[i] = exo_op_done(op[i])
    BY <1>1 DEF Done, exo_is_op_finished
  <2>2. CASE op[i].type # "SUBSCRIBE"
    BY <2>1, <2>2, <1>0, InitLives, OneLives DEF exo_op_done
  <2>3. CASE op[i].type = "SUBSCRIBE"
    <3>1. /\ op'[i].state = "SUBSCRIBED" /\ KindOf(op'[i]) = KindOf(op[i])
          /\ op'[i].value = op[i].value
      BY <2>1, <2>3, StateLives DEF exo_op_done, OpStates
    <3>2. PhaseOf(op[i]) \in {"succeeded", "failed"} /\ PhaseOf(op'[i]) = "watching"
      BY <2>1, <3>1 DEF PhaseOf
    <3>3. KindOf(op[i]) = "sustained"
      BY <2>3 DEF KindOf
    <3>4. Lives(op[i], op'[i])
      BY <3>1, <3>2, <3>3 DEF Lives, Allowed, Goes
    <3> QED  BY <1>0, <3>4, OneLives
  <2> QED  BY <2>2, <2>3
<1>2. CASE Cancel(i)
  <2>1. op'[i] = exo_op_init
    BY <1>2 DEF Cancel
  <2> QED  BY <1>0, <2>1, InitLives, OneLives
<1>3. ASSUME NEW t \in AppTypes, Queue(i, t) PROVE LifeStep
  <2>0. op[i].state \in {"NULL", "SUCCESS", "ERROR"}
    BY <1>3 DEF Queue, exo_is_op_finished
  <2>1. op'[i].state = "NEW" /\ op'[i].type = t
    <3>1. op'[i] = Queued(op[i], t)
      BY <1>3 DEF Queue
    <3> QED  BY <3>1 DEF Queued, Op
  <2>2. PhaseOf(op[i]) \in {"free", "succeeded", "failed"} /\ PhaseOf(op'[i]) = "queued"
    BY <2>0, <2>1 DEF PhaseOf
  <2>3. KindOf(op'[i]) \in {"single", "sustained"}
    BY <2>1, AppTypesAssumption DEF KindOf
  <2>4. Lives(op[i], op'[i])
    BY <2>2, <2>3 DEF Lives, Allowed
  <2> QED  BY <1>0, <2>4, OneLives
<1> QED  BY <1>1, <1>2, <1>3

\* An array of initialised operations is one of free operations.
LEMMA AllFree ==
  ASSUME NEW f, f = [i \in Slots |-> exo_op_init]
  PROVE  /\ [i \in AppSlots |-> KindOf(f[i])] = [i \in AppSlots |-> "none"]
         /\ [i \in AppSlots |-> PhaseOf(f[i])] = [i \in AppSlots |-> "free"]
         /\ [i \in AppSlots |-> f[i].value] \in [AppSlots -> SUBSET ObsSeq]
<1>1. \A i \in AppSlots : f[i] = exo_op_init
  BY AppSlotsAssumption
<1>2. /\ PhaseOf(exo_op_init) = "free" /\ KindOf(exo_op_init) = "none"
      /\ exo_op_init.value \in SUBSET ObsSeq
  BY DEF PhaseOf, KindOf, exo_op_init
<1> QED  BY <1>1, <1>2

\* A restart, after a power loss or a crash, frees every operation at once.
LEMMA RestartLives == ASSUME Restarted PROVE LifeStep
<1>1. Lifecycle!PowerLoss
  BY AllFree DEF Restarted, Lifecycle!PowerLoss
<1> QED  BY <1>1 DEF LifeStep, Lifecycle!Next

\* Every step of the engine is a step of the lifecycle or changes nothing
\* the lifecycle sees.
LEMMA NextLives ==
  ASSUME 0 \notin AppSlots, TypeOK, TypeOK', OpShape, [Next]_vars
  PROVE  LifeStep
<1> op \in [Slots -> Op] /\ AppSlots \subseteq Slots
  BY AppSlotsAssumption DEF TypeOK
<1>0. ASSUME \A j \in AppSlots : op'[j] = op[j] PROVE LifeStep
  BY <1>0, Stutters DEF SameSeen, LifeStep
<1>1. CASE exo_init \/ exo_init_fails \/ RecvNone \/ Return \/ UNCHANGED vars
  BY <1>0, <1>1 DEF exo_init, exo_init_fails, RecvNone, Return, vars
<1>2. CASE exo_operate
  BY <1>0, <1>2 DEF exo_operate
<1>3. CASE Tick
  <2>1. \A j \in AppSlots : /\ op'[j].type = op[j].type
                            /\ op'[j].state = op[j].state
                            /\ op'[j].value = op[j].value
    BY <1>3 DEF Tick, Op
  <2> QED  BY <2>1, Stutters DEF SameSeen, KindOf, PhaseOf, LifeStep
<1>4. ASSUME NEW m \in Datagrams, Receive(m) PROVE LifeStep
  <2>1. CASE Unrecognised(m)
    BY <1>0, <2>1 DEF Unrecognised
  <2>2. ASSUME NEW i \in Slots, Takes(i, m), Handle(i, m) PROVE LifeStep
    <3>1. \A j \in AppSlots \ {i} : op'[j] = op[j]
      BY <2>2, HandleLocal
    <3>2. i \in AppSlots => Lives(op[i], op'[i])
      BY <2>2, HandleLives, DatagramsTyped DEF Takes
    <3> QED  BY <3>1, <3>2, OneLives
  <2> QED  BY <1>4, <2>1, <2>2 DEF Receive
<1>5. ASSUME NEW i \in Slots, Process(i) PROVE LifeStep
  BY <1>5, ProcessLives, OneLives
<1> QED
  BY <1>1, <1>2, <1>3, <1>4, <1>5, RestartLives, ApplicationLives
     DEF Next, Reboot, Crash

\* For every number of slots, message id space, token set, payload length and
\* server behaviour, an application that leaves slot 0 to the library sees
\* its operations live as OpLifecycle promises: datagrams, timers, retries
\* and the activation of exosite.c move one operation at a time, and only
\* along its lifecycle.
THEOREM EngineImplements ==
  ASSUME 0 \notin AppSlots
  PROVE  Spec => ImplementsLifecycle
<1>1. Init => Lifecycle!Init
  BY AllFree DEF Init, Lifecycle!Init
<1>2. IInv /\ IInv' /\ [Next]_vars => [Lifecycle!Next]_(Lifecycle!vars)
  BY NextLives DEF IInv, LifeStep
<1> QED
  BY <1>1, <1>2, Invariance, PTL DEF Spec, ImplementsLifecycle, Lifecycle!Spec
=============================================================================
