---------------------------- MODULE BackendContract ----------------------------
(***************************************************************************)
(* What a caller of Backend.read and Backend.write may rely on             *)
(* (otgate/backends/base.py and the module text of asyncua_backend.py):    *)
(* an operation is issued once, and once more if the first issue did not   *)
(* return; it returns only what the server answered to its last issue; a   *)
(* missing tag is reported after no effect at all; and it may raise at any *)
(* moment, which tells the caller nothing.  Gateway's steps Issue, Land,   *)
(* Retry, WriteReturns and WriteRaises follow this contract.               *)
(***************************************************************************)
EXTENDS Naturals

CONSTANT Ops

VARIABLES
  outcome,  \* none (not called), running, ok, missing or failed
  issue,    \* how often the operation was issued again
  ack,      \* the server carried out the last issue
  effects   \* how often the server carried the operation out

vars == <<outcome, issue, ack, effects>>

Init ==
  /\ outcome = [t \in Ops |-> "none"]
  /\ issue = [t \in Ops |-> 1]
  /\ ack = [t \in Ops |-> FALSE]
  /\ effects = [t \in Ops |-> 0]

Begin(t) ==
  /\ outcome[t] = "none"
  /\ outcome' = [outcome EXCEPT ![t] = "running"]
  /\ UNCHANGED <<issue, ack, effects>>

Land(t) ==
  /\ outcome[t] = "running" /\ ~ack[t]
  /\ ack' = [ack EXCEPT ![t] = TRUE]
  /\ effects' = [effects EXCEPT ![t] = @ + 1]
  /\ UNCHANGED <<outcome, issue>>

Retry(t) ==
  /\ outcome[t] = "running" /\ issue[t] = 1
  /\ issue' = [issue EXCEPT ![t] = 2]
  /\ ack' = [ack EXCEPT ![t] = FALSE]
  /\ UNCHANGED <<outcome, effects>>

End(t, result) ==
  /\ outcome[t] = "running"
  /\ outcome' = [outcome EXCEPT ![t] = result]
  /\ issue' = [issue EXCEPT ![t] = 1]
  /\ ack' = [ack EXCEPT ![t] = FALSE]
  /\ UNCHANGED effects

Return(t) == ack[t] /\ End(t, "ok")

Miss(t) == effects[t] = 0 /\ End(t, "missing")

Raise(t) == End(t, "failed")

Next == \E t \in Ops : Begin(t) \/ Land(t) \/ Retry(t) \/ Return(t) \/ Miss(t) \/ Raise(t)

Spec == Init /\ [][Next]_vars

-----------------------------------------------------------------------------
(* Properties *)

\* What the gateway concludes from an outcome is true: a returned write took effect,
\* a missing tag was not written, and no operation is carried out more than twice.
OutcomesTruthful ==
  \A t \in Ops :
    /\ outcome[t] = "ok" => effects[t] >= 1
    /\ outcome[t] \in {"none", "missing"} => effects[t] = 0
    /\ effects[t] <= 2
=============================================================================
