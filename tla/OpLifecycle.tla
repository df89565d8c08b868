---------------------------- MODULE OpLifecycle ----------------------------
(***************************************************************************)
(* What the library promises about the operations of an application,        *)
(* without messages, timers, retries or the activation slot (repository     *)
(* README, "About"): a single-shot operation is processed until it succeeds *)
(* or fails; a sustained one is kept active, asked for again when it falls  *)
(* silent, and reports new values; operations do not disturb one another;   *)
(* and the value of a finished operation is left alone until the            *)
(* application has released it.                                             *)
(***************************************************************************)
CONSTANTS Ops,     \* the application's operations
          Values   \* what a value buffer may hold

VARIABLES kind, phase, value

vars == <<kind, phase, value>>

Kinds == {"none", "single", "sustained"}
Phases == {"free", "queued", "inflight", "watching",
           "confirming", "reporting", "succeeded", "failed"}

Init == /\ kind = [i \in Ops |-> "none"]
        /\ phase = [i \in Ops |-> "free"]
        /\ value \in [Ops -> Values]

\* Operation i moves from a phase in From to phase p, its kind unchanged.
Move(i, From, p) == /\ phase[i] \in From
                    /\ phase' = [phase EXCEPT ![i] = p]
                    /\ kind' = kind

\* The value buffer of operation i may be written; no other is.
MayWrite(i) == \E v \in Values : value' = [value EXCEPT ![i] = v]

Submit(i) ==
  /\ phase[i] \in {"free", "succeeded", "failed"}
  /\ phase' = [phase EXCEPT ![i] = "queued"]
  /\ \E k \in Kinds \ {"none"} : kind' = [kind EXCEPT ![i] = k]
  /\ MayWrite(i)

Transmit(i) == Move(i, {"queued"}, "inflight") /\ UNCHANGED value

\* A message that carries the empty value is not an answer, but is stored.
Blank(i) == Move(i, {"inflight", "watching"}, phase[i]) /\ MayWrite(i)

Succeed(i) == Move(i, {"inflight"}, "succeeded") /\ MayWrite(i)

Fail(i) == Move(i, {"inflight", "watching"}, "failed") /\ UNCHANGED value

Renew(i) == /\ kind[i] = "sustained"
            /\ Move(i, {"inflight", "watching"}, "queued")
            /\ UNCHANGED value

Notify(i) ==
  /\ kind[i] = "sustained"
  /\ \E p \in {"confirming", "reporting"} : Move(i, {"watching"}, p)
  /\ MayWrite(i)

Confirm(i) == Move(i, {"confirming"}, "watching") /\ UNCHANGED value

Report(i) == Move(i, {"reporting"}, "succeeded") /\ UNCHANGED value

\* The application has seen the result: a single-shot operation is over, a
\* sustained one goes on, after a failure too.
Release(i) ==
  \/ /\ kind[i] = "sustained"
     /\ Move(i, {"succeeded", "failed"}, "watching")
     /\ UNCHANGED value
  \/ /\ kind[i] = "single"
     /\ phase[i] \in {"succeeded", "failed"}
     /\ phase' = [phase EXCEPT ![i] = "free"]
     /\ kind' = [kind EXCEPT ![i] = "none"]
     /\ MayWrite(i)

Cancel(i) == /\ phase' = [phase EXCEPT ![i] = "free"]
             /\ kind' = [kind EXCEPT ![i] = "none"]
             /\ MayWrite(i)

PowerLoss == /\ kind' = [i \in Ops |-> "none"]
             /\ phase' = [i \in Ops |-> "free"]
             /\ value' \in [Ops -> Values]

Next ==
  \/ \E i \in Ops :
       \/ Submit(i) \/ Transmit(i) \/ Blank(i) \/ Succeed(i) \/ Fail(i)
       \/ Renew(i) \/ Notify(i) \/ Confirm(i) \/ Report(i) \/ Release(i)
       \/ Cancel(i)
  \/ PowerLoss

Spec == Init /\ [][Next]_vars
=============================================================================
