-------------------------- MODULE GatewayProperties --------------------------
(***************************************************************************)
(* What Gateway promises: the audit trail, the approvals, the interlocks   *)
(* and the limits on a series of writes, its liveness, and the abstract    *)
(* approval lifecycle it implements.                                       *)
(***************************************************************************)
EXTENDS Gateway

WriteTasks ==
  [pc : {"interlock", "write"}, g : Agents, tag : Tags, value : Scalar, agent : Agents,
   req : Nat, next : Nat, attempt : {1, 2}, ack : BOOLEAN,
   clear : SUBSET Interlocks(Tags)]
ReadTasks == [pc : {"read"}, agent : Agents, tag : Tags]
Requests ==
  [agent : Agents, tag : Tags, value : Scalar, created : Nat,
   status : {"PENDING", "APPROVED", "DENIED", "EXPIRED", "GONE"}]
Lines ==
  [action : {"read"}, agent : Agents, tag : Tags,
   decision : {"ALLOW", "DENY", "ERROR"}, executed : BOOLEAN]
  \cup
  [action : {"write"}, agent : Agents, tag : Tags, value : Scalar,
   decision : {"ALLOW", "DENY", "ASK", "ERROR"}, executed : BOOLEAN]
  \cup {NoLine}
Landings == [agent : Agents, tag : Tags, value : Scalar, req : Nat, ts : Nat]

\* A task evaluates a tag that has a rule, for a request that exists, and waits only
\* for an interlock that the rule has; n is the number of requests.
WellFormed(task, n) ==
  /\ task.tag \in DOMAIN Policy[task.g]
  /\ task.req \in 0..n
  /\ task.pc = "interlock" => task.next \in 1..Len(Policy[task.g][task.tag].interlocks)

\* Every variable has its type, and every write in progress is well formed.
TypeOK ==
  /\ clock \in Nat
  /\ tags \in [Tags -> Scalar]
  /\ up \in BOOLEAN
  /\ history \in [Stores -> [Tags -> Seq(Record)]]
  /\ requests \in Seq(Requests)
  /\ call \in [Calls -> {Idle} \cup ReadTasks \cup WriteTasks]
  /\ \A c \in Calls : call[c] \in WriteTasks => WellFormed(call[c], Len(requests))
  /\ audit \in Seq(Lines)
  /\ landed \in Seq(Landings)
  /\ restarts \in Nat

Writing(c) == call[c].pc = "write"
RunsOf(log, r) == Cardinality({i \in DOMAIN log : log[i].req = r})
ApprovalOf(c, r) == call[c] \in WriteTasks /\ call[c].req = r

-----------------------------------------------------------------------------
(* The audit trail (AuditLog and the executed flag of gateway.py) *)

\* Every write the audit calls executed did reach the backend: per agent, tag and
\* value there are at most as many executed lines as landings.
AuditTruthful ==
  \A line \in {audit[i] : i \in DOMAIN audit} :
    line.action = "write" /\ line.executed =>
      Cardinality({i \in DOMAIN audit : audit[i] = line})
        <= Cardinality({i \in DOMAIN landed : /\ landed[i].agent = line.agent
                                              /\ landed[i].tag = line.tag
                                              /\ landed[i].value = line.value})

\* Without outages and restarts the audit misses nothing but the lines that could not
\* be written: what landed is what the executed lines say, the writes whose reply is
\* still on its way, and at most one write for each missing line.
AuditComplete ==
  ~Outages /\ restarts = 0 =>
    LET told    == Cardinality({i \in DOMAIN audit : audit[i].action = "write" /\ audit[i].executed})
        pending == Cardinality({c \in Calls : Writing(c) /\ call[c].ack})
        missing == Cardinality({i \in DOMAIN audit : audit[i] = NoLine})
    IN  Len(landed) - told - pending \in 0..missing

\* A request is marked APPROVED only once the audit tells of it: per agent, tag and
\* value there are at least as many lines of allowed writes as approved requests, even
\* when lines fail to be written.
ApprovedAudited ==
  \A r \in DOMAIN requests :
    LET Same(x) == /\ x.agent = requests[r].agent
                   /\ x.tag = requests[r].tag
                   /\ x.value = requests[r].value
        approved == {q \in DOMAIN requests : requests[q].status = "APPROVED" /\ Same(requests[q])}
        told     == {i \in DOMAIN audit : /\ audit[i].action = "write" /\ audit[i].decision = "ALLOW"
                                          /\ Same(audit[i])}
    IN  Cardinality(approved) <= Cardinality(told)

\* A call that ends, however it ends, leaves exactly one line or the mark of one that
\* could not be written; only a restart ends calls without a trace.
OneLinePerCall ==
  [][restarts' = restarts =>
       Len(audit') >= Len(audit) + Cardinality({c \in Active : call'[c] = Idle})
       /\ Len(audit') <= Len(audit) + 1]_vars

-----------------------------------------------------------------------------
(* Approvals *)

\* Nothing reaches the backend unless the agent's own policy lets it write the tag
\* outright or the write is exactly one that was parked and then approved.
LandedWasAuthorised ==
  \A i \in DOMAIN landed :
    LET hit == landed[i]
    IN  IF hit.req = 0
        THEN hit.tag \in DOMAIN Policy[hit.agent] /\ Policy[hit.agent][hit.tag].access = "write"
        ELSE LET parked == requests[hit.req]
             IN <<parked.agent, parked.tag, parked.value>> = <<hit.agent, hit.tag, hit.value>>

\* An approval begins only on a request that is still open and younger than its
\* lifetime, whether or not anything expired it in the meantime.
StaleNeverStarts ==
  [][\A c \in Calls, r \in DOMAIN requests :
       ApprovalOf(c, r)' /\ ~ApprovalOf(c, r) =>
         requests[r].status = "PENDING" /\ clock - requests[r].created < Ttl]_vars

\* Once a request is settled and no approval of it is in flight, its status never
\* changes again (the store forgets it at a restart) and it never runs again.
SettledStays ==
  [][\A r \in DOMAIN requests :
       requests[r].status # "PENDING" /\ (\A c \in Calls : ~ApprovalOf(c, r)) =>
         /\ requests'[r].status \in {requests[r].status, "GONE"}
         /\ RunsOf(landed', r) = RunsOf(landed, r)]_vars

\* "Deny a parked write; it will never execute."
DeniedNeverRuns ==
  [][\A r \in DOMAIN requests :
       requests[r].status = "DENIED" => RunsOf(landed', r) = RunsOf(landed, r)]_vars

\* An approved request runs at most once.
RunsOnce == \A r \in DOMAIN requests : RunsOf(landed, r) <= 1

\* A request marked APPROVED did run (outside shadow mode).
ApprovedRan ==
  \A r \in DOMAIN requests :
    requests[r].status = "APPROVED" => Shadow \/ RunsOf(landed, r) >= 1

-----------------------------------------------------------------------------
(* Interlocks *)

\* No write is at the backend unless, for each interlock that the requesting
\* agent's policy puts on the tag, some read within this very call found the guard
\* tag readable and the condition off.
NeverUnverified ==
  \A c \in Calls : Writing(c) =>
    LET rule == Policy[call[c].agent][call[c].tag]
    IN  \A i \in 1..Len(rule.interlocks) : rule.interlocks[i] \in call[c].clear

-----------------------------------------------------------------------------
(* Limits on the series *)

\* A limit that every gateway on a history shares; other policies mix several.
MayWrite(g, tag) ==
  tag \in DOMAIN Policy[g] /\ Policy[g][tag].access \in {"write", "write_with_approval"}
Budget(s, tag, limit) ==
  \A g \in Agents : StoreOf(g) = s /\ MayWrite(g, tag) => limit \in Policy[g][tag].calls
Budgets(tag) == UNION {Policy[g][tag].calls : g \in {a \in Agents : MayWrite(a, tag)}}

\* The records of the closed window that starts at time w.
Between(recs, w, width) == {i \in DOMAIN recs : recs[i].ts >= w /\ recs[i].ts <= w + width}

\* max_calls is exceeded by at most the calls that were in flight together: every
\* window of calls_interval holds fewer than max_calls + |Calls| records.
BudgetHeld ==
  \A s \in Stores, tag \in Tags : \A limit \in Budgets(tag) :
    Budget(s, tag, limit) =>
      \A i \in DOMAIN history[s][tag] :
        Cardinality(Between(history[s][tag], history[s][tag][i].ts, limit.interval))
          < limit.max + Cardinality(Calls)

\* The budgets every writer of a tag is under, and a tag's landings in a window.
CommonBudgets(tag) ==
  {limit \in Budgets(tag) :
     \A g \in Agents : MayWrite(g, tag) => limit \in Policy[g][tag].calls}
LandedIn(tag, w, width) ==
  Cardinality({i \in DOMAIN landed :
                 landed[i].tag = tag /\ landed[i].ts \in w..(w + width)})

\* With one history for all agents and no outage or restart, the same bound holds
\* for what reached the backend, whichever agents sent it.
LandedWithinBudget ==
  ~Outages /\ restarts = 0 =>
    \A tag \in Tags : \A limit \in CommonBudgets(tag) : \A w \in 0..clock :
      LandedIn(tag, w, limit.interval) < limit.max + Cardinality(Calls)

\* In shadow mode nothing is ever sent to the backend or counted as executed.
ShadowTouchesNothing == Shadow => landed = <<>> /\ history = NoHistory

-----------------------------------------------------------------------------
(* Liveness *)

\* Every call ends.
CallsComplete == \A c \in Calls : call[c] # Idle ~> call[c] = Idle

\* A parked write that nobody answers does not stay open.
SilenceExpires ==
  \A r \in 1..MaxAudit :
    r \in DOMAIN requests /\ requests[r].created + Ttl <= MaxTime
      ~> r \in DOMAIN requests /\ requests[r].status # "PENDING"

-----------------------------------------------------------------------------
(* Refinement *)

Lifecycle ==
  INSTANCE ApprovalLifecycle WITH
    status <- [r \in DOMAIN requests |-> requests[r].status],
    runs   <- [r \in DOMAIN requests |-> RunsOf(landed, r)]

\* With a backend that never suspends its caller, the approval workflow is the
\* abstract one: settled once, never run unless approved, run at most once.
ApprovalsRefine == Lifecycle!Spec
=============================================================================
