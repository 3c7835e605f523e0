-------------------------- MODULE ApprovalLifecycle --------------------------
(***************************************************************************)
(* What otgate promises about a parked write: the human decides once, a    *)
(* silent or negative answer means it never runs, an approved one runs     *)
(* exactly once.  The promise is that of ApprovalStatus and of the         *)
(* docstrings of approve and deny; Gateway implements it when a backend    *)
(* call never suspends its caller.                                         *)
(***************************************************************************)
EXTENDS Naturals, Sequences

CONSTANT Shadow  \* approved requests are not executed

VARIABLES status, runs
lifecycle == <<status, runs>>

Requests == DOMAIN status

Init == status = <<>> /\ runs = <<>>

\* An agent's write is parked.
Create ==
  /\ status' = Append(status, "PENDING")
  /\ runs' = Append(runs, 0)

\* The write of an open request takes effect.
Run(r) ==
  /\ status[r] = "PENDING" /\ runs[r] = 0 /\ ~Shadow
  /\ runs' = [runs EXCEPT ![r] = 1]
  /\ UNCHANGED status

\* A request that ran is approved.
Approve(r) ==
  /\ status[r] = "PENDING" /\ runs[r] = 1
  /\ status' = [status EXCEPT ![r] = "APPROVED"]
  /\ UNCHANGED runs

\* Statuses after a look at the store at which the requests in `late` expire.
Expire(late) == [r \in Requests |-> IF r \in late THEN "EXPIRED" ELSE status[r]]

\* One look at the store: open requests expire, and at most one other open request
\* is settled (refused by the operator or by the re-check; in shadow mode approved).
Look ==
  LET open == {r \in Requests : status[r] = "PENDING" /\ runs[r] = 0}
  IN  \E late \in SUBSET open :
        /\ \/ status' = Expire(late)
           \/ \E r \in open \ late :
                \E verdict \in {"DENIED"} \cup IF Shadow THEN {"APPROVED"} ELSE {} :
                  status' = [Expire(late) EXCEPT ![r] = verdict]
        /\ UNCHANGED runs

\* The gateway restarts and forgets every request.
Forget ==
  /\ status' = [r \in Requests |-> "GONE"]
  /\ UNCHANGED runs

Next ==
  \/ Create
  \/ \E r \in Requests : Run(r) \/ Approve(r)
  \/ Look
  \/ Forget

Spec == Init /\ [][Next]_lifecycle

\* What the promise amounts to: a request that was denied or that expired never
\* ran, before or after (ApprovalStatus: "TTL elapsed with no answer -> fail-safe no").
RefusedNeverRan ==
  \A r \in Requests : status[r] \in {"DENIED", "EXPIRED"} => runs[r] = 0
=============================================================================
