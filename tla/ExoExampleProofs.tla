-------------------------- MODULE ExoExampleProofs --------------------------
(***************************************************************************)
(* Theorems about the example program and the engine together, for every    *)
(* number of rounds between two writes, every message id space, every set   *)
(* of tokens, payload lengths and server behaviours.                        *)
(***************************************************************************)
EXTENDS ExoExample, ExoEngineProofs

-----------------------------------------------------------------------------
(* The inductive invariant.                                                 *)

MainOK == main \in {"init", "setup", "top", "operate", "results"}

\* exo_operate runs only where the program calls it.
CalledFromLoop == main # "operate" => pc = "app"

\* Until the subscription has been queued, all operations are free.
NothingYet == main \in {"init", "setup"} => \A i \in 1..3 : op[i].type = "NULL"

\* The program's slots hold what it puts there, or nothing.
OwnSlots == \A i \in {2, 3} : op[i].type \in {"NULL", "WRITE"}

EInv == /\ IInv /\ MainOK /\ CalledFromLoop /\ NothingYet /\ OwnSlots
        /\ NoWriteOverwritten /\ SubscribedOnce

-----------------------------------------------------------------------------
(* Steps of the engine.                                                     *)

\* The slots of the program: the library's, the subscription, two writes.
LEMMA SlotsOfExample ==
  /\ 0 \notin AppSlots /\ AppSlots \subseteq Slots
  /\ 1 \in Slots /\ 2 \in Slots /\ 3 \in Slots
  /\ \A i \in Slots : i = 0 \/ i \in {1, 2, 3}
<1>1. Slots = 0..3
  BY ExampleAssumption DEF Slots
<1>2. AppSlots = {1, 2, 3}
  BY ExampleAssumption
<1>3. 0 \notin {1, 2, 3}
  OBVIOUS
<1> QED  BY <1>1, <1>2, <1>3, AppSlotsAssumption

\* Inside exo_operate an operation keeps its type or is cleared.
Keeps(j) == op'[j].type \in {op[j].type, "NULL"}

\* What the engine does to an operation inside exo_operate keeps its type or
\* clears it.
LEMMA FollowsKeeps ==
  ASSUME NEW j \in Slots, j # 0, Follows(j, op[j], op'[j])
  PROVE  Keeps(j)
<1>1. op'[j].type # "ACTIVATE"
  BY DEF Follows, Shaped
<1>2. exo_op_init.type = "NULL"
  BY DEF exo_op_init
<1> QED  BY <1>1, <1>2 DEF Follows, Quiet, Keeps

\* exo_process_active_ops does so.
LEMMA ProcessKeeps ==
  ASSUME TypeOK, OpShape, NEW i \in Slots, Process(i), NEW j \in Slots, j # 0
  PROVE  Keeps(j)
<1> op \in [Slots -> Op] /\ op[i] \in Op
  BY DEF TypeOK
<1>1. CASE Retransmit(i)
  <2>1. op'[j].type = op[j].type
    BY <1>1 DEF Retransmit, Op
  <2> QED  BY <2>1 DEF Keeps
<1>2. ASSUME NEW token \in Tokens, SendRequest(i, token) PROVE Keeps(j)
  <2>1. op'[j].type = op[j].type
    BY <1>2 DEF SendRequest, Sent, Op
  <2> QED  BY <2>1 DEF Keeps
<1>3. CASE ~Retransmit(i) /\ \A token \in Tokens : ~SendRequest(i, token)
  BY <1>3, ProcessQuiet, FollowsKeeps DEF QuietStep
<1> QED  BY <1>1, <1>2, <1>3

\* Time changes neither type nor state.
LEMMA TickKeeps ==
  ASSUME TypeOK, Tick, NEW j \in Slots
  PROVE  op'[j].type = op[j].type /\ op'[j].state = op[j].state
  BY DEF TypeOK, Tick, Op

\* The receive loop does so.
LEMMA ReceiveKeeps ==
  ASSUME TypeOK, OpShape, NEW m \in Datagrams, Receive(m), NEW j \in Slots, j # 0
  PROVE  Keeps(j)
<1>1. CASE Unrecognised(m)
  BY <1>1 DEF Unrecognised, Keeps
<1>2. ASSUME NEW i \in Slots, Takes(i, m), Handle(i, m) PROVE Keeps(j)
  BY <1>2, DatagramsTyped, HandleQuiet, FollowsKeeps DEF Takes
<1> QED  BY <1>1, <1>2 DEF Receive

\* The receive loop leaves the results of the application alone.
LEMMA ReceiveRespects ==
  ASSUME TypeOK, OpShape, NEW m \in Datagrams, Receive(m), NEW j \in Slots, j # 0
  PROVE  Respects(j)
<1>1. CASE Unrecognised(m)
  BY <1>1 DEF Unrecognised, Respects, Result
<1>2. ASSUME NEW i \in Slots, Takes(i, m), Handle(i, m) PROVE Respects(j)
  BY <1>2, DatagramsTyped, HandleRespects DEF Takes
<1> QED  BY <1>1, <1>2 DEF Receive

\* What a step of the engine while main() is in its loop leaves of EInv.
LEMMA EngineStepPreserves ==
  ASSUME EInv, EngineStep, IInv'
  PROVE  EInv'
<1> TypeOK /\ OpShape /\ op \in [Slots -> Op]
  BY DEF EInv, IInv, TypeOK
<1> UNCHANGED main
  BY DEF EngineStep, program
<1>1. CASE Tick
  <2>1. UNCHANGED pc
    BY <1>1 DEF Tick
  <2>2. \A j \in {1, 2, 3} : op'[j].type = op[j].type /\ op'[j].state = op[j].state
    BY <1>1, TickKeeps, SlotsOfExample
  <2>3. MainOK' /\ CalledFromLoop'
    BY <2>1 DEF EInv, MainOK, CalledFromLoop
  <2>4. NothingYet' /\ OwnSlots' /\ SubscribedOnce'
    BY <2>2 DEF EInv, NothingYet, OwnSlots, SubscribedOnce
  <2>5. NoWriteOverwritten'
    BY <2>2 DEF EInv, NoWriteOverwritten
  <2> QED  BY <2>3, <2>4, <2>5 DEF EInv
<1>2. CASE ~Tick
  <2>1. pc \in {"recv", "active"}
    BY <1>2 DEF EngineStep, RecvNone, Receive, Process, SendRequest, SendRequestFails,
       Retransmit, RetransmitFails, GiveUp, Renew, SendAck, SendAckFails, Skip, Visits
  <2>2. main = "operate" /\ main' = "operate"
    BY <2>1 DEF EInv, CalledFromLoop
  <2>3. \A j \in {1, 2, 3} : Keeps(j) /\ Respects(j)
    <3> SUFFICES ASSUME NEW j \in {1, 2, 3} PROVE Keeps(j) /\ Respects(j)
      OBVIOUS
    <3>0. j \in Slots /\ j # 0
      BY SlotsOfExample
    <3>1. CASE RecvNone
      BY <3>1 DEF RecvNone, Keeps, Respects, Result
    <3>2. ASSUME NEW m \in Datagrams, Receive(m) PROVE Keeps(j) /\ Respects(j)
      BY <3>0, <3>2, ReceiveKeeps, ReceiveRespects
    <3>3. ASSUME NEW i \in Slots, Process(i) PROVE Keeps(j) /\ Respects(j)
      BY <3>0, <3>3, ProcessKeeps, ProcessRespects
    <3> QED  BY <1>2, <3>1, <3>2, <3>3 DEF EngineStep
  <2>4. OwnSlots'
    BY <2>3 DEF EInv, OwnSlots, Keeps
  <2>5. SubscribedOnce'
    BY <2>2, <2>3, ExampleAssumption DEF EInv, SubscribedOnce, Respects
  <2>6. MainOK' /\ CalledFromLoop' /\ NothingYet' /\ NoWriteOverwritten'
    BY <2>2 DEF MainOK, CalledFromLoop, NothingYet, NoWriteOverwritten
  <2> QED  BY <2>4, <2>5, <2>6 DEF EInv
<1> QED  BY <1>1, <1>2

-----------------------------------------------------------------------------
(* Steps of the program.                                                    *)

\* exo_write on a slot of the program's own.
LEMMA WriteTyped ==
  ASSUME NEW ops \in [Slots -> Op], NEW i \in {2, 3}
  PROVE  /\ Write(ops, i) \in [Slots -> Op]
         /\ Write(ops, i)[i].type = "WRITE" /\ Write(ops, i)[i].state = "NEW"
         /\ \A j \in Slots \ {i} : Write(ops, i)[j] = ops[j]
<1>1. i \in Slots /\ ops[i] \in Op
  BY SlotsOfExample
<1>2. Queued(ops[i], "WRITE") \in Op
  BY <1>1, QueuedTyped DEF OpTypes
<1>3. Queued(ops[i], "WRITE").type = "WRITE" /\ Queued(ops[i], "WRITE").state = "NEW"
  BY <1>1 DEF Queued, Op
<1> QED  BY <1>1, <1>2, <1>3 DEF Write

\* A step of the program that changes operations and their history only:
\* those it changes are cleared, released, or queued afresh with nothing
\* sent yet.
Releases(j) ==
  /\ sent'[j] = sent[j]
  /\ op'[j] = op[j] \/ Follows(j, op[j], op'[j])

Requeues(j) ==
  op'[j].type = "WRITE" /\ op'[j].state = "NEW" /\ sent'[j] = {}

Clears(j) == op'[j] = exo_op_init

\* A step of the program between two calls of exo_operate keeps the engine's
\* invariant, if each operation goes on, is released, or is queued anew.
LEMMA ProgramPreserves ==
  ASSUME IInv, op' \in [Slots -> Op], sent' \in [Slots -> SUBSET Mids],
         UNCHANGED <<lib, pc, cursor, wire, watch, reused, clash>>,
         \A j \in Slots : \/ Releases(j) \/ Clears(j)
                          \/ (Requeues(j) /\ j \in {2, 3})
  PROVE  IInv'
<1> TypeOK /\ \A j \in Slots : Shaped(j, op[j])
  BY ShapeOf DEF IInv
<1>1. TypeOK'
  BY DEF TypeOK, lib
<1>2. \A j \in Slots :
        \/ (sent'[j] = sent[j] /\ Follows(j, op[j], op'[j]))
        \/ (op'[j].type = "NULL" /\ op'[j].state = "NULL")
        \/ (Requeues(j) /\ j \in {2, 3})
  <2> TAKE j \in Slots
  <2>1. op'[j] = op[j] => Follows(j, op[j], op'[j])
    BY StaysQuiet
  <2>2. Clears(j) => op'[j].type = "NULL" /\ op'[j].state = "NULL"
    BY DEF Clears, exo_op_init
  <2>3. Releases(j) => sent'[j] = sent[j] /\ Follows(j, op[j], op'[j])
    BY <2>1 DEF Releases
  <2> QED  BY <2>2, <2>3
<1>3. \A j \in Slots : Shaped(j, op'[j])
  BY <1>2 DEF Follows, Shaped, Requeues
<1>4. OpShape'
  BY <1>3, ZeroTyped DEF OpShape, Shaped
<1>5. ASSUME NEW i \in Slots, op'[i].state = "PENDING"
      PROVE  /\ op[i].state = "PENDING" /\ op[i].mid = op'[i].mid
             /\ op[i].type = op'[i].type
  BY <1>2, <1>5 DEF Follows, Quiet, exo_op_init, Requeues
<1>6. RequestOwn'
  BY <1>5 DEF IInv, RequestOwn
<1>7. PendingApart'
  BY <1>5 DEF IInv, PendingApart
<1>8. OneMessageId'
  <2> SUFFICES ASSUME NEW i \in Slots, op'[i].type \in SingleShot
               PROVE  /\ op'[i].state = "NEW" => sent'[i] = {}
                      /\ op'[i].state # "NEW" => sent'[i] = {op'[i].mid}
    BY DEF OneMessageId
  <2>1. CASE Requeues(i)
    BY <2>1 DEF Requeues
  <2>2. CASE sent'[i] = sent[i] /\ Follows(i, op[i], op'[i])
    <3>1. /\ op[i].type = op'[i].type /\ op'[i].mid = op[i].mid
          /\ op'[i].state = "NEW" <=> op[i].state = "NEW"
      BY <2>2 DEF Follows, Quiet, exo_op_init, SingleShot
    <3> QED  BY <2>2, <3>1 DEF IInv, OneMessageId
  <2>3. op'[i].type # "NULL"
    BY DEF SingleShot
  <2> QED  BY <1>2, <2>1, <2>2, <2>3
<1>9. Registered'
  <2> SUFFICES ASSUME NEW i \in Slots, op'[i].type = "SUBSCRIBE", op'[i].state # "NEW"
               PROVE  [token |-> op'[i].token, slot |-> i] \in watch'
    BY DEF Registered
  <2>1. Follows(i, op[i], op'[i])
    BY <1>2 DEF Requeues
  <2>2. /\ op[i].type = "SUBSCRIBE" /\ op'[i].token = op[i].token
        /\ op[i].state # "NEW"
    BY <2>1 DEF Follows, Quiet, exo_op_init
  <2> QED  BY <2>2 DEF IInv, Registered
<1>10. Unambiguous'
  BY DEF IInv, Unambiguous
<1> QED  BY <1>1, <1>4, <1>6, <1>7, <1>8, <1>9, <1>10 DEF IInv

\* What one round of the loop over the results does.
LEMMA LookedAt ==
  ASSUME NEW ops \in [Slots -> Op], NEW i \in {1, 2}
  PROVE  /\ Looked(ops, i) \in [Slots -> Op]
         /\ \A j \in Slots \ {i, 3} : Looked(ops, i)[j] = ops[j]
         /\ Looked(ops, i)[i] = IF exo_is_op_finished(ops[i])
                               THEN exo_op_done(ops[i]) ELSE ops[i]
         /\ ops[i].state # "ERROR" => Looked(ops, i)[3] = ops[3]
         /\ ops[i].state = "ERROR" => Looked(ops, i)[3].type = "WRITE"
                                      /\ Looked(ops, i)[3].state = "NEW"
<1>0. i \in Slots /\ 3 \in Slots /\ i # 3 /\ exo_op_done(ops[i]) \in Op
  BY SlotsOfExample, DoneTyped
<1>1. CASE ~exo_is_op_finished(ops[i])
  <2>1. Looked(ops, i) = ops
    BY <1>1 DEF Looked
  <2>2. ops[i].state # "ERROR"
    BY <1>1 DEF exo_is_op_finished
  <2> QED  BY <1>1, <2>1, <2>2
<1>2. CASE exo_is_op_finished(ops[i]) /\ ops[i].state = "SUCCESS"
  <2>1. Looked(ops, i) = [ops EXCEPT ![i] = exo_op_done(ops[i])]
    BY <1>2 DEF Looked
  <2> QED  BY <1>0, <1>2, <2>1
<1>3. CASE exo_is_op_finished(ops[i]) /\ ops[i].state = "ERROR"
  <2> DEFINE w == Write(ops, 3)
  <2>1. /\ w \in [Slots -> Op] /\ w[3].type = "WRITE" /\ w[3].state = "NEW"
        /\ \A j \in Slots \ {3} : w[j] = ops[j]
    BY WriteTyped
  <2>2. Looked(ops, i) = [w EXCEPT ![i] = exo_op_done(ops[i])]
    <3>1. Looked(ops, i) = [w EXCEPT ![i] = exo_op_done(w[i])]
      BY <1>3 DEF Looked
    <3> QED  BY <1>0, <2>1, <3>1
  <2> HIDE DEF w
  <2> QED  BY <1>0, <1>3, <2>1, <2>2
<1> QED  BY <1>1, <1>2, <1>3 DEF exo_is_op_finished

\* The last round: a write that has ended is cleared, even if it failed.
LEMMA LookedAtLast ==
  ASSUME NEW ops \in [Slots -> Op], ops[3].type # "SUBSCRIBE"
  PROVE  /\ Looked(ops, 3) \in [Slots -> Op]
         /\ \A j \in Slots \ {3} : Looked(ops, 3)[j] = ops[j]
         /\ Looked(ops, 3)[3] = IF exo_is_op_finished(ops[3])
                               THEN exo_op_init ELSE ops[3]
<1>0. 3 \in Slots /\ exo_op_init \in Op
  BY SlotsOfExample, InitTyped
<1>1. CASE ~exo_is_op_finished(ops[3])
  BY <1>1 DEF Looked
<1>2. CASE exo_is_op_finished(ops[3]) /\ ops[3].state = "SUCCESS"
  <2>1. Looked(ops, 3) = [ops EXCEPT ![3] = exo_op_init]
    BY <1>2 DEF Looked, exo_op_done
  <2> QED  BY <1>0, <1>2, <2>1
<1>3. CASE exo_is_op_finished(ops[3]) /\ ops[3].state = "ERROR"
  <2> DEFINE w == Write(ops, 3)
  <2>1. /\ w \in [Slots -> Op] /\ w[3].type = "WRITE"
        /\ \A j \in Slots \ {3} : w[j] = ops[j]
    BY WriteTyped
  <2>2. Looked(ops, 3) = [w EXCEPT ![3] = exo_op_init]
    <3>1. Looked(ops, 3) = [w EXCEPT ![3] = exo_op_done(w[3])]
      BY <1>3 DEF Looked
    <3>2. exo_op_done(w[3]) = exo_op_init
      BY <2>1 DEF exo_op_done
    <3> QED  BY <3>1, <3>2
  <2> HIDE DEF w
  <2> QED  BY <1>0, <1>3, <2>1, <2>2
<1> QED  BY <1>1, <1>2, <1>3 DEF exo_is_op_finished

\* After the loop over the results the subscription goes on, the write of
\* the uptime is over, and slot 3 is free or holds a new error count.
LEMMA ResultsOf ==
  ASSUME EInv, LookAtResults
  PROVE  /\ op' \in [Slots -> Op] /\ op'[0] = op[0]
         /\ op'[1] = IF exo_is_op_finished(op[1]) THEN exo_op_done(op[1]) ELSE op[1]
         /\ op'[2] = IF exo_is_op_finished(op[2]) THEN exo_op_init ELSE op[2]
         /\ (\E i \in {1, 2} : op[i].state = "ERROR")
              => op'[3].type = "WRITE" /\ op'[3].state = "NEW"
         /\ ~(\E i \in {1, 2} : op[i].state = "ERROR")
              => op'[3] = IF exo_is_op_finished(op[3]) THEN exo_op_init ELSE op[3]
<1> DEFINE a == Looked(op, 1)
           b == Looked(a, 2)
<1>0. /\ op \in [Slots -> Op] /\ op[2].type # "SUBSCRIBE" /\ op[3].type # "SUBSCRIBE"
      /\ op' = Looked(b, 3)
  BY DEF EInv, IInv, TypeOK, OwnSlots, LookAtResults
<1>s. 0 \in Slots /\ 1 \in Slots /\ 2 \in Slots /\ 3 \in Slots
  BY ZeroTyped, SlotsOfExample
<1>1. /\ a \in [Slots -> Op] /\ a[0] = op[0] /\ a[2] = op[2]
      /\ a[1] = IF exo_is_op_finished(op[1]) THEN exo_op_done(op[1]) ELSE op[1]
      /\ op[1].state # "ERROR" => a[3] = op[3]
      /\ op[1].state = "ERROR" => a[3].type = "WRITE" /\ a[3].state = "NEW"
  BY <1>0, <1>s, LookedAt
<1> HIDE DEF a
<1>2. /\ b \in [Slots -> Op] /\ b[0] = a[0] /\ b[1] = a[1]
      /\ b[2] = IF exo_is_op_finished(a[2]) THEN exo_op_done(a[2]) ELSE a[2]
      /\ a[2].state # "ERROR" => b[3] = a[3]
      /\ a[2].state = "ERROR" => b[3].type = "WRITE" /\ b[3].state = "NEW"
  BY <1>1, <1>s, LookedAt
<1> HIDE DEF b
<1>3. b[3].type # "SUBSCRIBE"
  BY <1>0, <1>1, <1>2
<1>4. /\ op' \in [Slots -> Op]
      /\ op'[0] = b[0] /\ op'[1] = b[1] /\ op'[2] = b[2]
      /\ op'[3] = IF exo_is_op_finished(b[3]) THEN exo_op_init ELSE b[3]
  BY <1>0, <1>2, <1>3, <1>s, LookedAtLast
<1>5. op'[2] = IF exo_is_op_finished(op[2]) THEN exo_op_init ELSE op[2]
  BY <1>0, <1>1, <1>2, <1>4 DEF exo_op_done
<1>6. ASSUME \E i \in {1, 2} : op[i].state = "ERROR"
      PROVE  op'[3].type = "WRITE" /\ op'[3].state = "NEW"
  <2>1. b[3].type = "WRITE" /\ b[3].state = "NEW"
    BY <1>1, <1>2, <1>6
  <2> QED  BY <1>4, <2>1 DEF exo_is_op_finished
<1>7. ASSUME ~(\E i \in {1, 2} : op[i].state = "ERROR")
      PROVE  op'[3] = IF exo_is_op_finished(op[3]) THEN exo_op_init ELSE op[3]
  <2>1. op[1].state # "ERROR" /\ op[2].state # "ERROR"
    BY <1>7
  <2> QED  BY <1>1, <1>2, <1>4, <2>1
<1> QED  BY <1>1, <1>2, <1>4, <1>5, <1>6, <1>7

\* The loop over the results keeps the invariant.
LEMMA LookAtResultsPreserves ==
  ASSUME EInv, LookAtResults
  PROVE  EInv'
<1>0. /\ op \in [Slots -> Op] /\ sent \in [Slots -> SUBSET Mids]
      /\ TypeOK /\ OpShape
  BY DEF EInv, IInv, TypeOK
<1>s. 0 \in Slots /\ 1 \in Slots /\ 2 \in Slots /\ 3 \in Slots
  BY ZeroTyped, SlotsOfExample
<1>m. main = "results" /\ main' = "top" /\ pc = "app" /\ pc' = pc
  BY DEF LookAtResults, EInv, CalledFromLoop
<1>1. op[1].type = "SUBSCRIBE"
  BY <1>m DEF EInv, SubscribedOnce
<1>2. \A j \in {2, 3} : /\ op[j].type \in {"NULL", "WRITE"}
                        /\ op[j].state \in {"NULL", "SUCCESS", "ERROR"}
  <2> TAKE j \in {2, 3}
  <2>1. op[j].type \in {"NULL", "WRITE"} /\ op[j].state \notin {"NEW", "PENDING"}
    BY <1>m DEF EInv, OwnSlots, NoWriteOverwritten
  <2>2. op[j].state \in OpStates
    BY <1>0, <1>s DEF Op
  <2>3. op[j].state \notin {"SUBSCRIBED", "SUB_ACK", "SUB_ACK_NEW"}
    BY <1>s, <2>1, <1>0 DEF OpShape
  <2> QED  BY <2>1, <2>2, <2>3 DEF OpStates
<1>3. Releases(0)
  <2>1. sent'[0] = sent[0]
    BY <1>0, <1>s DEF LookAtResults
  <2> QED  BY <2>1, ResultsOf DEF Releases
<1>4. Releases(1) /\ op'[1].type = "SUBSCRIBE"
  <2>1. sent'[1] = sent[1]
    BY <1>0, <1>s DEF LookAtResults
  <2>2. CASE ~exo_is_op_finished(op[1])
    BY <1>1, <2>1, <2>2, ResultsOf DEF Releases
  <2>3. CASE exo_is_op_finished(op[1])
    <3>1. op'[1] = [op[1] EXCEPT !.state = "SUBSCRIBED"] /\ op[1] \in Op
      BY <1>0, <1>s, <1>1, <2>3, ResultsOf DEF exo_op_done
    <3>2. op[1].state \notin {"NULL", "NEW"}
      BY <2>3 DEF exo_is_op_finished
    <3>a. Shaped(1, op[1])
      BY <1>0, <1>s, ShapeOf
    <3>b. Follows(1, op[1], [op[1] EXCEPT !.state = "SUBSCRIBED"])
      BY <1>1, <3>1, <3>2, <3>a, StateFollows
    <3>3. Follows(1, op[1], op'[1])
      BY <3>1, <3>b
    <3>4. op'[1].type = "SUBSCRIBE"
      BY <1>1, <3>1 DEF Op
    <3> QED  BY <2>1, <3>3, <3>4 DEF Releases
  <2> QED  BY <2>2, <2>3
<1>5. op'[2].type = "NULL" /\ op'[2].state = "NULL" /\ (Clears(2) \/ Releases(2))
  <2>1. sent'[2] = sent[2]
    BY <1>0, <1>s DEF LookAtResults
  <2>2. CASE exo_is_op_finished(op[2])
    BY <2>2, ResultsOf DEF Clears, exo_op_init
  <2>3. CASE ~exo_is_op_finished(op[2])
    <3>1. op'[2] = op[2] /\ op[2].state = "NULL"
      BY <1>2, <2>3, ResultsOf DEF exo_is_op_finished
    <3>2. op[2].type = "NULL"
      BY <1>0, <1>s, <3>1 DEF OpShape
    <3> QED  BY <2>1, <3>1, <3>2 DEF Releases
  <2> QED  BY <2>2, <2>3
<1>6. /\ op'[3].type \in {"NULL", "WRITE"} /\ op'[3].state \in {"NULL", "NEW"}
      /\ Clears(3) \/ Releases(3) \/ Requeues(3)
  <2>1. CASE \E i \in {1, 2} : op[i].state = "ERROR"
    <3>1. Failing
      BY <2>1 DEF Failing
    <3>2. sent'[3] = {}
      BY <1>0, <1>s, <3>1 DEF LookAtResults
    <3> QED  BY <2>1, <3>2, ResultsOf DEF Requeues
  <2>2. CASE ~(\E i \in {1, 2} : op[i].state = "ERROR") /\ exo_is_op_finished(op[3])
    BY <2>2, ResultsOf DEF Clears, exo_op_init
  <2>3. CASE ~(\E i \in {1, 2} : op[i].state = "ERROR") /\ ~exo_is_op_finished(op[3])
    <3>1. op'[3] = op[3] /\ op[3].state = "NULL"
      BY <1>2, <2>3, ResultsOf DEF exo_is_op_finished
    <3>2. ~Failing
      BY <2>3, <3>1 DEF Failing
    <3>3. sent'[3] = sent[3]
      BY <3>2 DEF LookAtResults
    <3> QED  BY <1>2, <3>1, <3>3 DEF Releases
  <2> QED  BY <2>1, <2>2, <2>3
<1>7. IInv'
  <2>1. op' \in [Slots -> Op]
    BY ResultsOf
  <2>2. sent' \in [Slots -> SUBSET Mids]
    BY <1>0 DEF LookAtResults
  <2>3. UNCHANGED <<lib, pc, cursor, wire, watch, reused, clash>>
    BY DEF LookAtResults
  <2>4. \A j \in Slots : \/ Releases(j) \/ Clears(j)
                          \/ (Requeues(j) /\ j \in {2, 3})
    <3> TAKE j \in Slots
    <3>1. j = 0 \/ j = 1 \/ j = 2 \/ j = 3
      BY SlotsOfExample
    <3> QED  BY <1>3, <1>4, <1>5, <1>6, <3>1
  <2>5. IInv
    BY DEF EInv
  <2> QED  BY <2>1, <2>2, <2>3, <2>4, <2>5, ProgramPreserves
<1>8. MainOK' /\ CalledFromLoop' /\ NothingYet'
  BY <1>m DEF MainOK, CalledFromLoop, NothingYet
<1>9. OwnSlots' /\ NoWriteOverwritten' /\ SubscribedOnce'
  BY <1>m, <1>4, <1>5, <1>6 DEF OwnSlots, NoWriteOverwritten, SubscribedOnce
<1> QED  BY <1>7, <1>8, <1>9 DEF EInv

\* Queueing a write of the uptime keeps the invariant.
LEMMA QueueUptimePreserves ==
  ASSUME EInv, QueueUptime
  PROVE  EInv'
<1>0. op \in [Slots -> Op] /\ sent \in [Slots -> SUBSET Mids] /\ IInv
  BY DEF EInv, IInv, TypeOK
<1>s. 1 \in Slots /\ 2 \in Slots /\ 3 \in Slots
  BY SlotsOfExample
<1>m. /\ main = "top" /\ main' = "operate" /\ op[1].type = "SUBSCRIBE"
      /\ op[2].type \in {"NULL", "WRITE"} /\ op[3].type \in {"NULL", "WRITE"}
  BY DEF QueueUptime, EInv, SubscribedOnce, OwnSlots
<1>1. /\ op' \in [Slots -> Op] /\ sent' \in [Slots -> SUBSET Mids]
      /\ \A j \in Slots \ {2} : op'[j] = op[j] /\ sent'[j] = sent[j]
      /\ (op'[2] = op[2] /\ sent'[2] = sent[2]) \/ Requeues(2)
  <2>1. CASE op' = Write(op, 2) /\ sent' = [sent EXCEPT ![2] = {}]
    BY <1>0, <1>s, <2>1, WriteTyped DEF Requeues
  <2>2. CASE UNCHANGED <<op, sent>>
    BY <1>0, <2>2
  <2> QED  BY <2>1, <2>2 DEF QueueUptime
<1>2. IInv'
  <2>1. \A j \in Slots : \/ Releases(j) \/ Clears(j)
                          \/ (Requeues(j) /\ j \in {2, 3})
    BY <1>1 DEF Releases
  <2>2. UNCHANGED <<lib, pc, cursor, wire, watch, reused, clash>>
    BY DEF QueueUptime
  <2> QED  BY <1>0, <1>1, <2>1, <2>2, ProgramPreserves
<1>3. OwnSlots' /\ SubscribedOnce'
  BY <1>m, <1>s, <1>1 DEF OwnSlots, SubscribedOnce, Requeues
<1>4. MainOK' /\ CalledFromLoop' /\ NothingYet' /\ NoWriteOverwritten'
  BY <1>m DEF MainOK, CalledFromLoop, NothingYet, NoWriteOverwritten
<1> QED  BY <1>2, <1>3, <1>4 DEF EInv

\* The steps of the program that are calls of the library.
LEMMA CallsPreserve ==
  ASSUME EInv, IInv', Start \/ Setup \/ CallOperate \/ OperateReturns \/ Restart
  PROVE  EInv'
<1>0. op \in [Slots -> Op] /\ TypeOK /\ OpShape
  BY DEF EInv, IInv, TypeOK
<1>s. 1 \in Slots /\ 2 \in Slots /\ 3 \in Slots
  BY SlotsOfExample
<1>1. CASE Start
  <2>1. main = "init" /\ main' = "setup" /\ UNCHANGED <<op, pc>>
    BY <1>1 DEF Start, exo_init, exo_init_fails
  <2> QED
    BY <2>1 DEF EInv, MainOK, CalledFromLoop, NothingYet, OwnSlots,
       NoWriteOverwritten, SubscribedOnce
<1>2. CASE Setup
  <2>1. main = "setup" /\ main' = "top" /\ UNCHANGED pc
    BY <1>2 DEF Setup, Queue
  <2>2. op'[1].type = "SUBSCRIBE" /\ op'[2] = op[2] /\ op'[3] = op[3]
    BY <1>0, <1>2, <1>s DEF Setup, Queue, Queued, Op
  <2>3. op[2].type = "NULL" /\ op[3].type = "NULL"
    BY <2>1 DEF EInv, NothingYet
  <2>4. op[2].state = "NULL" /\ op[3].state = "NULL"
    BY <1>0, <1>s, <2>3 DEF OpShape
  <2>5. MainOK' /\ CalledFromLoop' /\ NothingYet'
    BY <2>1 DEF EInv, MainOK, CalledFromLoop, NothingYet
  <2>6. OwnSlots' /\ NoWriteOverwritten' /\ SubscribedOnce'
    BY <2>1, <2>2, <2>3, <2>4 DEF OwnSlots, NoWriteOverwritten, SubscribedOnce
  <2> QED  BY <2>5, <2>6 DEF EInv
<1>3. CASE CallOperate
  <2>1. main = "operate" /\ main' = "operate"
    BY <1>3 DEF CallOperate, program
  <2>2. \A j \in {1, 2, 3} : op'[j] = op[j]
    BY <1>0, <1>3, <1>s DEF CallOperate, exo_operate
  <2>3. OwnSlots' /\ SubscribedOnce'
    BY <2>1, <2>2 DEF EInv, OwnSlots, SubscribedOnce
  <2>4. MainOK' /\ CalledFromLoop' /\ NothingYet' /\ NoWriteOverwritten'
    BY <2>1 DEF MainOK, CalledFromLoop, NothingYet, NoWriteOverwritten
  <2> QED  BY <2>3, <2>4 DEF EInv
<1>4. CASE OperateReturns
  <2>1. pc' = "app" /\ UNCHANGED op /\ main = "operate"
    BY <1>4 DEF OperateReturns, Return, EInv, CalledFromLoop
  <2>2. main' = IF exo_operate_result = "IDLE" THEN "results" ELSE "operate"
    BY <1>4 DEF OperateReturns
  <2>3. NoWriteOverwritten'
    <3>1. CASE exo_operate_result # "IDLE"
      BY <2>2, <3>1 DEF NoWriteOverwritten
    <3>2. CASE exo_operate_result = "IDLE"
      <4>1. ~(\E i \in Slots : op[i].state = "NEW")
        BY <3>2 DEF exo_operate_result
      <4>2. ~(\E i \in Slots : op[i].state = "PENDING")
        BY <3>2, <4>1 DEF exo_operate_result
      <4> QED  BY <1>s, <2>1, <2>2, <4>1, <4>2 DEF NoWriteOverwritten
    <3> QED  BY <3>1, <3>2
  <2>4. MainOK' /\ CalledFromLoop' /\ NothingYet'
    BY <2>1, <2>2 DEF MainOK, CalledFromLoop, NothingYet
  <2>5. OwnSlots' /\ SubscribedOnce'
    BY <2>1, <2>2 DEF EInv, OwnSlots, SubscribedOnce
  <2> QED  BY <2>3, <2>4, <2>5 DEF EInv
<1>5. CASE Restart
  <2>0. main' = "init" /\ Restarted
    BY <1>5 DEF Restart, Reboot, Crash
  <2>1. main' = "init" /\ pc' = "app"
    BY <2>0 DEF Restarted
  <2>2. \A j \in {1, 2, 3} : op'[j].type = "NULL" /\ op'[j].state = "NULL"
    BY <2>0, <1>s DEF Restarted, exo_op_init
  <2>3. MainOK' /\ CalledFromLoop' /\ NothingYet' /\ OwnSlots'
    BY <2>1, <2>2 DEF MainOK, CalledFromLoop, NothingYet, OwnSlots
  <2>4. NoWriteOverwritten' /\ SubscribedOnce'
    BY <2>1 DEF NoWriteOverwritten, SubscribedOnce
  <2> QED  BY <2>3, <2>4 DEF EInv
<1> QED  BY <1>1, <1>2, <1>3, <1>4, <1>5

\* A step of the engine is one, for the program too.
LEMMA CallsAreSteps ==
  ASSUME \/ Start \/ Setup \/ CallOperate \/ OperateReturns \/ Restart \/ EngineStep
  PROVE  Next
<1>1. 1 \in AppSlots /\ "SUBSCRIBE" \in AppTypes
  BY ExampleAssumption
<1>2. Setup => Application
  BY <1>1 DEF Setup, Application
<1> QED
  BY <1>2 DEF Start, CallOperate, OperateReturns, Restart, EngineStep, Next

\* Every step of the program with its engine keeps the invariant.
LEMMA ExampleInductive ==
  ASSUME EInv, [ExampleNext]_allvars
  PROVE  EInv'
<1>1. CASE Start \/ Setup \/ CallOperate \/ OperateReturns \/ Restart \/ EngineStep
  <2>1. IInv'
    BY <1>1, CallsAreSteps, NextPreserves DEF EInv
  <2> QED  BY <1>1, <2>1, CallsPreserve, EngineStepPreserves
<1>2. CASE UNCHANGED allvars \/ OperateRefuses
  <2>1. UNCHANGED vars /\ UNCHANGED main
    BY <1>2 DEF OperateRefuses, allvars, program
  <2>2. IInv'
    BY <2>1, NextPreserves DEF EInv
  <2>3. UNCHANGED <<op, pc, main>>
    BY <2>1 DEF vars
  <2> QED
    BY <2>2, <2>3 DEF EInv, MainOK, CalledFromLoop, NothingYet, OwnSlots,
       NoWriteOverwritten, SubscribedOnce
<1> QED
  BY <1>1, <1>2, QueueUptimePreserves, LookAtResultsPreserves DEF ExampleNext

\* EInv is an invariant of the program and the engine together; so the
\* engine's own invariants hold although the program writes over operations
\* that an arbitrary application of ExoEngine releases first.
THEOREM ExampleInvariance == ExampleSpec => []EInv
<1>1. ExampleInit => EInv
  <2> SUFFICES ASSUME ExampleInit PROVE EInv
    OBVIOUS
  <2>1. IInv
    BY InitInvariant DEF ExampleInit
  <2>2. main = "init" /\ pc = "app" /\ \A i \in 1..3 : op[i].type = "NULL"
    BY SlotsOfExample DEF ExampleInit, Init, exo_op_init
  <2> QED
    BY <2>1, <2>2 DEF EInv, MainOK, CalledFromLoop, NothingYet, OwnSlots,
       NoWriteOverwritten, SubscribedOnce
<1>2. EInv /\ [ExampleNext]_allvars => EInv'
  BY ExampleInductive
<1> QED  BY <1>1, <1>2, PTL DEF ExampleSpec

\* exo_write takes slots 2 and 3 only when no answer is awaited there.
THEOREM WritesKept == ExampleSpec => []NoWriteOverwritten
<1>1. EInv => NoWriteOverwritten
  BY DEF EInv
<1> QED  BY <1>1, ExampleInvariance, PTL

\* The subscription that is set up once never leaves its slot.
THEOREM SubscriptionStays == ExampleSpec => []SubscribedOnce
<1>1. EInv => SubscribedOnce
  BY DEF EInv
<1> QED  BY <1>1, ExampleInvariance, PTL

\* Type and state of every operation agree in the example program too.
THEOREM ExampleShape == ExampleSpec => []OpShape
<1>1. EInv => OpShape
  BY DEF EInv, IInv
<1> QED  BY <1>1, ExampleInvariance, PTL

\* A failure of the subscription or of the write of the uptime always leaves
\* a write of the error count in slot 3, even when the last one has just
\* ended.
THEOREM ErrorsCounted == ExampleSpec => ErrorCountQueued
<1>1. ASSUME EInv, [ExampleNext]_allvars, main = "results", main' = "top",
             \E i \in {1, 2} : op[i].state = "ERROR"
      PROVE  op'[3].type = "WRITE" /\ op'[3].state = "NEW"
  <2>1. LookAtResults
    BY <1>1 DEF ExampleNext, Start, Setup, QueueUptime, CallOperate, OperateRefuses,
       OperateReturns, Restart, EngineStep, allvars, program
  <2> QED  BY <1>1, <2>1, ResultsOf
<1>2. EInv /\ [ExampleNext]_allvars =>
        [main = "results" /\ main' = "top" /\ (\E i \in {1, 2} : op[i].state = "ERROR")
           => op'[3].type = "WRITE" /\ op'[3].state = "NEW"]_allvars
  BY <1>1
<1> QED  BY <1>2, ExampleInvariance, PTL DEF ExampleSpec, ErrorCountQueued

\* The library never drops an operation of the program, turns it into
\* another, or touches a result the program has not looked at.
THEOREM ExampleOwns == ExampleSpec => ApplicationOwns
<1>1. ASSUME EInv, [ExampleNext]_allvars, LibraryStep, NEW j \in AppSlots
      PROVE  Respects(j)
  <2>0. IInv /\ 0 \notin AppSlots
    BY <1>1, SlotsOfExample DEF EInv
  <2>1. CASE Start \/ Setup \/ CallOperate \/ OperateReturns \/ Restart \/ EngineStep
    BY <1>1, <2>0, <2>1, CallsAreSteps, StepRespects
  <2>2. CASE UNCHANGED allvars \/ OperateRefuses
    <3>1. UNCHANGED vars
      BY <2>2 DEF OperateRefuses, allvars
    <3> QED  BY <1>1, <2>0, <3>1, StepRespects
  <2>3. CASE QueueUptime \/ LookAtResults
    <3>1. pc = "app" /\ pc' = "app"
      BY <1>1, <2>3 DEF QueueUptime, LookAtResults, EInv, CalledFromLoop
    <3> QED  BY <1>1, <3>1 DEF LibraryStep
  <2> QED  BY <1>1, <2>1, <2>2, <2>3 DEF ExampleNext
<1>2. EInv /\ [ExampleNext]_allvars =>
        [LibraryStep =>
           \A i \in AppSlots :
             /\ op[i].type \in AppTypes => op'[i].type = op[i].type
             /\ exo_is_op_finished(op[i]) => Result(op'[i]) = Result(op[i])]_vars
  BY <1>1 DEF Respects
<1> QED  BY <1>2, ExampleInvariance, PTL DEF ExampleSpec, ApplicationOwns
=============================================================================
