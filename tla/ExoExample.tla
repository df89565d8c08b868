----------------------------- MODULE ExoExample -----------------------------
(***************************************************************************)
(* The example program (examples/subscribe.c) composed with the engine: one *)
(* subscription in slot 1, a write of its uptime in slot 2 every Period     *)
(* rounds, and a write of its error count in slot 3 after a failure.  A     *)
(* round calls exo_operate until it returns EXO_IDLE, looks at the results, *)
(* releases the operations that have finished and sleeps.                   *)
(*                                                                          *)
(* The steps of the engine, the network and the clock are those of          *)
(* ExoEngine; its free application is replaced by the program's loop.       *)
(***************************************************************************)
EXTENDS ExoEngine

CONSTANT Period  \* rounds between two writes of the uptime (100)

ASSUME PeriodAssumption == Period \in Nat \ {0}
ASSUME ExampleAssumption == /\ Count = 4 /\ AppSlots = {1, 2, 3}
                            /\ AppTypes = {"SUBSCRIBE", "WRITE"}

VARIABLES
  main,      \* where main() is
  loopcount  \* loopcount % Period

program == <<main, loopcount>>
allvars == <<vars, program>>

ExampleInit == Init /\ main = "init" /\ loopcount = 0

\* exo_init, whose result is not looked at.
Start ==
  /\ main = "init" /\ main' = "setup"
  /\ exo_init \/ exo_init_fails
  /\ UNCHANGED loopcount

\* Every op is initialised; "only need to setup subscribe once".
Setup ==
  /\ main = "setup" /\ main' = "top"
  /\ Queue(1, "SUBSCRIBE")
  /\ UNCHANGED loopcount

\* exo_write on slot i, whatever it holds.
Write(ops, i) == [ops EXCEPT ![i] = Queued(@, "WRITE")]

QueueUptime ==
  /\ main = "top" /\ main' = "operate"
  /\ IF loopcount % Period = 0
     THEN op' = Write(op, 2) /\ sent' = [sent EXCEPT ![2] = {}]
     ELSE UNCHANGED <<op, sent>>
  /\ UNCHANGED <<loopcount, lib, pc, cursor, wire, watch, reused, clash>>

\* while(exo_operate(ops, op_count) != EXO_IDLE);
CallOperate == main = "operate" /\ exo_operate /\ UNCHANGED program

OperateRefuses ==
  /\ main = "operate" /\ pc = "app" /\ device_state = "UNINITIALIZED"
  /\ UNCHANGED allvars

OperateReturns ==
  /\ Return
  /\ main' = IF exo_operate_result = "IDLE" THEN "results" ELSE "operate"
  /\ UNCHANGED loopcount

LookedDropsReport(ops, i) ==
  IF ~exo_is_op_finished(ops[i]) THEN ops
  ELSE [ops EXCEPT ![i] = exo_op_done(@), ![3] = exo_op_done(@)]

\* One round of the loop over the results: a failure queues a write of the
\* error count, and then the operation is released.
Looked(ops, i) ==
  IF ~exo_is_op_finished(ops[i]) THEN ops
  ELSE LET reported == IF ops[i].state = "SUCCESS" THEN ops ELSE Write(ops, 3)
       IN  [reported EXCEPT ![i] = exo_op_done(@)]

Failing == \E i \in 1..3 : op[i].state = "ERROR"

\* The loop over the results, the sleep and loopcount++.
LookAtResults ==
  /\ main = "results" /\ main' = "top"
  /\ op' = Looked(Looked(Looked(op, 1), 2), 3)
  /\ sent' = IF Failing THEN [sent EXCEPT ![3] = {}] ELSE sent
  /\ loopcount' = (loopcount + 1) % Period
  /\ UNCHANGED <<lib, pc, cursor, wire, watch, reused, clash>>

\* Power is lost, or the program dies inside exo_operate.
Restart ==
  /\ Reboot \/ \E m \in Datagrams : Crash(m)
  /\ main' = "init" /\ loopcount' = 0

\* Inside exo_operate, and the clock.
EngineStep ==
  /\ \/ RecvNone \/ \E m \in Datagrams : Receive(m)
     \/ \E i \in Slots : Process(i)
     \/ Tick
  /\ UNCHANGED program

ExampleNext ==
  \/ Start \/ Setup \/ QueueUptime
  \/ CallOperate \/ OperateRefuses \/ OperateReturns
  \/ LookAtResults \/ Restart \/ EngineStep

ExampleSpec == ExampleInit /\ [][ExampleNext]_allvars

-----------------------------------------------------------------------------
(* Correctness.                                                             *)

\* exo_write takes a slot whatever it holds, so the program may only call it
\* when no answer is awaited there: EXO_IDLE and the loop over the results
\* leave slot 2 free, and in slot 3 at most an error count not yet sent.
NoWriteOverwritten ==
  /\ main = "top" => op[2].state = "NULL" /\ op[3].state \in {"NULL", "NEW"}
  /\ main = "results" => \A i \in {2, 3} : op[i].state \notin {"NEW", "PENDING"}

\* "only need to setup subscribe once": refusals, resets, values that do not
\* fit and a lost CIK never take the subscription out of its slot.
SubscribedOnce == main \notin {"init", "setup"} => op[1].type = "SUBSCRIBE"

\* "queue a write to error count next time": when the subscription or the
\* write of the uptime has failed, a write of the error count is waiting in
\* slot 3 at the next round, even if the last one there has just ended.
ErrorCountQueued ==
  [][main = "results" /\ main' = "top" /\ (\E i \in {1, 2} : op[i].state = "ERROR")
       => op'[3].type = "WRITE" /\ op'[3].state = "NEW"]_allvars
=============================================================================
