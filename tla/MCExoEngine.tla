---------------------------- MODULE MCExoEngine ----------------------------
EXTENDS ExoEngine

\* The state in which a device that was activated before resumes: the
\* library is up, slot 0 is free and nothing is in flight.
ActivatedInit ==
  /\ op = [i \in Slots |-> exo_op_init]
  /\ device_state = "GOOD"
  /\ message_id_counter \in RandMids
  /\ cik = "full" /\ file = "full"
  /\ pc = "app" /\ cursor = 0
  /\ wire = {} /\ watch = {}
  /\ sent = [i \in Slots |-> {}]
  /\ reused = FALSE /\ clash = FALSE

ActivatedSpec == ActivatedInit /\ [][Next]_vars

ActivatedFairSpec == ActivatedSpec /\ Fairness
=============================================================================
