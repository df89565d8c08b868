----------------------------- MODULE ExoClaims -----------------------------
(***************************************************************************)
(* What comments and documentation of the repository say about the engine,  *)
(* stated as properties of ExoEngine.  Each one is refuted by a run: the    *)
(* code does something else, and the counterexample shows how.              *)
(***************************************************************************)
EXTENDS MCExoEngine

\* exosite.c, "reuse old mid and token": a retransmission repeats the token
\* of the request it repeats.
RetransmitSameToken ==
  \A r, s \in wire :
    r.slot # Past /\ r.slot = s.slot /\ r.mid = s.mid => r.token = s.token

\* exosite.c, exo_subscribe: the application is told "any time the value is
\* updated".  Once a subscription has a value, a notification that changes it
\* is never taken for a repeated one.
UpdateReported ==
  [][\A i \in AppSlots :
       op[i].state = "SUBSCRIBED" /\ op[i].value # {} /\ op'[i].state = "SUB_ACK"
         => op'[i].value = op[i].value]_vars

\* An application that takes no operation back, and releases every result
\* with exo_op_done before it queues an operation there again.
Releases ==
  \A i \in AppSlots :
    /\ \A t \in AppTypes : Queue(i, t) => op[i].state = "NULL"
    /\ op'[i].state = "NULL" => op[i].state = "NULL" \/ exo_is_op_finished(op[i])

ReleasingSpec == ActivatedInit /\ [][Next /\ Releases]_vars
=============================================================================
