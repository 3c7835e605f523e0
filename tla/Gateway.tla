------------------------------- MODULE Gateway -------------------------------
(***************************************************************************)
(* otgate's Gateway (otgate/gateway.py) with the parts it drives: the      *)
(* policy engine, the rate history, the approval store, the audit log and  *)
(* the backend.                                                            *)
(*                                                                         *)
(* Each tool call runs as one asyncio task.  A task gives up control only  *)
(* where it awaits the backend: at every interlock read, at the read of a  *)
(* read call and at the write.  An action is the code between two of these *)
(* points, so a handler with n awaits is n + 1 actions.  With AsyncuaBackend*)
(* (Yields) the tasks interleave there; FakeBackend never suspends, and    *)
(* then one call runs to its end before the next begins.                   *)
(***************************************************************************)
EXTENDS PolicyEngine

CONSTANTS
  Agents,        \* one gateway per agent; single-agent mode has one
  Operator,      \* the gateway the operator channel is built on
  Policy,        \* Policy[g] is the policy of gateway g
  Tags,          \* tags that clients, policies and interlocks name
  Present,       \* the tags that exist on the backend
  Initial,       \* Initial[t] is the value of tag t at start-up
  Reads,         \* the read calls clients may make: [agent, tag]
  Writes,        \* the write calls clients may make: [agent, tag, value]
  Moves,         \* the changes the process itself may make: [tag, value]
  Calls,         \* task slots: at most this many calls are in flight
  Ttl,           \* lifetime of a parked request
  Shadow,        \* the gateways run in shadow mode
  SharedHistory, \* one rate history for all gateways, or one each
  DurableHistory,\* the history is reloaded from its file at a restart
  Yields,        \* the backend suspends its caller and reconnects once
  Outages,       \* the connection to the backend may fail
  LogFaults,     \* writing an audit line may fail
  MaxTime,       \* bound: the last reading of the clock
  MaxAudit,      \* bound: how many audit lines are written
  MaxRestarts    \* bound: how often the gateway process restarts

ASSUME AgentsAssumption == Operator \in Agents
ASSUME PolicyAssumption == \A g \in Agents : IsPolicy(Policy[g], Tags)
ASSUME PlantAssumption  == Present \subseteq Tags /\ Initial \in [Tags -> Scalar]
ASSUME InputsAssumption ==
  /\ Reads \subseteq [agent : Agents, tag : Tags]
  /\ Writes \subseteq [agent : Agents, tag : Tags, value : Scalar]
  /\ Moves \subseteq [tag : Present, value : Scalar]
ASSUME CallsAssumption  == IsFiniteSet(Calls) /\ Calls # {}
ASSUME ModeAssumption   ==
  /\ {Shadow, SharedHistory, DurableHistory, Yields, Outages, LogFaults} \subseteq BOOLEAN
  /\ DurableHistory => SharedHistory
ASSUME BoundAssumption  ==
  Ttl \in Nat \ {0} /\ MaxTime \in Nat /\ MaxAudit \in Nat /\ MaxRestarts \in Nat

VARIABLES
  clock,     \* time.time(), in whole units
  tags,      \* the values on the backend
  up,        \* the backend can be reached
  history,   \* history[s][t]: the records of tag t in rate history s
  requests,  \* the approval requests ever parked; a request's id is its index
  call,      \* the task in each slot
  audit,     \* the audit file: its lines, and NoLine where a line is missing
  landed,    \* every write that reached the backend (observed, never read)
  restarts

vars == <<clock, tags, up, history, requests, call, audit, landed, restarts>>
plant == <<tags, up>>

-----------------------------------------------------------------------------
(* Tasks, audit lines and requests *)

\* Slip: every gateway keeps its own history even when one is configured.
StoreOfOwn(g) == g

StoreOf(g) == IF SharedHistory THEN Operator ELSE g
Stores == {StoreOf(g) : g \in Agents}

Idle == [pc |-> "idle"]

ReadTask(g, tag) == [pc |-> "read", agent |-> g, tag |-> tag]

\* A write in progress: evaluated by gateway g, attributed to agent, and req is
\* the approved request or 0.  `next` is the interlock about to be read; attempt
\* and ack say how often the backend write was issued and whether the last issue
\* took effect; `clear` collects the interlocks that the plant showed to be off
\* at the moment they were read (observed, never read).
WriteTask(g, tag, value, agent, req) ==
  [pc |-> "interlock", g |-> g, tag |-> tag, value |-> value, agent |-> agent,
   req |-> req, next |-> 1, attempt |-> 1, ack |-> FALSE, clear |-> {}]

ReadLine(agent, tag, decision, executed) ==
  [action |-> "read", agent |-> agent, tag |-> tag,
   decision |-> decision, executed |-> executed]

\* Slip: the executed flag is not set after the write was awaited.
WriteLineUnset(task, decision, executed) ==
  [action |-> "write", agent |-> task.agent, tag |-> task.tag, value |-> task.value,
   decision |-> decision, executed |-> FALSE]

WriteLine(task, decision, executed) ==
  [action |-> "write", agent |-> task.agent, tag |-> task.tag, value |-> task.value,
   decision |-> decision, executed |-> executed]

\* What stands for a line that could not be written (observed, never read).
NoLine == [action |-> "none"]

Active == {c \in Calls : call[c] # Idle}
Turn   == Yields \/ Active = {}
Room   == Len(audit) + Cardinality(Active) < MaxAudit

\* A call ends: its slot is free, and line is what the audit has of it.
End(c, line, reqs) ==
  /\ call' = [call EXCEPT ![c] = Idle]
  /\ audit' = Append(audit, line)
  /\ requests' = reqs

\* Slip: a request is settled before its line is written.
CloseSettled(c, line, after, before) ==
  \/ End(c, line, after)
  \/ LogFaults /\ End(c, NoLine, after)

\* A handler closes its call with the audit line.  If record raises, the call ends
\* with that exception and the store stays as it was before the line.
Close(c, line, after, before) ==
  \/ End(c, line, after)
  \/ LogFaults /\ End(c, NoLine, before)

\* Slip: overdue only after, not at, the end of the lifetime.
OverdueLate(request) == request.status = "PENDING" /\ clock - request.created > Ttl

\* Slip: the status is not looked at, so settled requests expire.
OverdueAny(request) == clock - request.created >= Ttl

\* _expire_due, which every look at the approval store applies first.
Overdue(request) == request.status = "PENDING" /\ clock - request.created >= Ttl
Expired(reqs) ==
  [r \in DOMAIN reqs |->
     IF Overdue(reqs[r]) THEN [reqs[r] EXCEPT !.status = "EXPIRED"] ELSE reqs[r]]

\* Slips: the status is read before overdue requests expire; a refusal does not
\* settle a request; the status is not checked.
OpenUnexpired(r) == requests[r].status = "PENDING"
OpenRefused(r) == Expired(requests)[r].status \in {"PENDING", "DENIED"}
OpenAlways(r) == TRUE

\* approve and deny go on only with a request that is still pending.
Open(r) == Expired(requests)[r].status = "PENDING"

\* Slip: the status is set on a copy of the request.
MarkedCopy(reqs, task, status) == reqs

\* mark: sets the status whatever it was.  A direct write has no request.
Marked(reqs, task, status) ==
  IF task.req = 0 THEN reqs ELSE [reqs EXCEPT ![task.req].status = status]

-----------------------------------------------------------------------------
(* The outcomes of an evaluated write, reqs being the approval store *)

\* DENY: nothing runs; an approval that fails its re-check denies the request, and
\* so does deny, before the line is written.
Refuse(c, task, reqs) ==
  LET settled == Marked(reqs, task, "DENIED")
  IN  Close(c, WriteLine(task, "DENY", FALSE), settled, settled)

\* ASK: the write is parked for the operator, before the line is written.
Park(c, task, reqs) ==
  LET parked == [agent |-> task.agent, tag |-> task.tag, value |-> task.value,
                 created |-> clock, status |-> "PENDING"]
  IN  Close(c, WriteLine(task, "ASK", FALSE), Append(reqs, parked), Append(reqs, parked))

\* ALLOW in shadow mode: audited, never sent.
Pretend(c, task, reqs) ==
  Close(c, WriteLine(task, "ALLOW", FALSE), Marked(reqs, task, "APPROVED"), reqs)

\* Slip: an approved request is marked before its write is awaited.
IssueMarked(c, task, reqs) ==
  /\ call' = [call EXCEPT ![c] = [task EXCEPT !.pc = "write"]]
  /\ requests' = Marked(reqs, task, "APPROVED")
  /\ UNCHANGED audit

\* ALLOW: the backend write is issued and the task waits for it.
Issue(c, task, reqs) ==
  /\ call' = [call EXCEPT ![c] = [task EXCEPT !.pc = "write"]]
  /\ requests' = reqs
  /\ UNCHANGED audit

\* Slip: shadow mode is forgotten on the approval path.
ExecuteApproved(c, task, reqs) ==
  \/ Shadow /\ task.req = 0 /\ Pretend(c, task, reqs)
  \/ (Shadow => task.req # 0) /\ Issue(c, task, reqs)

\* _execute_allowed_write up to its await.
Execute(c, task, reqs) ==
  \/ Shadow /\ Pretend(c, task, reqs)
  \/ ~Shadow /\ Issue(c, task, reqs)

\* Slip: the approval level is treated as plain write.
AsksNever(task) == FALSE

\* An approval satisfies the ASK that its re-check may give again.
Asks(task) == Policy[task.g][task.tag].access = "write_with_approval" /\ task.req = 0

\* The checks that follow the last interlock, and what the gateway does with the
\* verdict: one stretch of code without an await.
Decide(c, task, reqs) ==
  LET within == SeriesOk(Policy[task.g][task.tag], history[StoreOf(task.g)][task.tag],
                         task.value, clock)
  IN  \/ ~within /\ Refuse(c, task, reqs)
      \/ within /\ Asks(task) /\ Park(c, task, reqs)
      \/ within /\ ~Asks(task) /\ Execute(c, task, reqs)

\* _evaluate_write up to its first await.
Evaluate(c, task, reqs) ==
  LET policy == Policy[task.g]
      admits == Admits(policy, task.tag, task.value)
      locked == admits /\ policy[task.tag].interlocks # <<>>
  IN  \/ ~admits /\ Refuse(c, task, reqs)
      \/ admits /\ ~locked /\ Decide(c, task, reqs)
      \/ /\ locked
         /\ call' = [call EXCEPT ![c] = task]
         /\ requests' = reqs
         /\ UNCHANGED audit

-----------------------------------------------------------------------------
(* Calls that arrive *)

WriteTag(c, input) ==
  /\ Turn /\ Room
  /\ call[c] = Idle
  /\ Evaluate(c, WriteTask(input.agent, input.tag, input.value, input.agent, 0), requests)
  /\ UNCHANGED <<clock, plant, history, landed, restarts>>

ReadTag(c, input) ==
  /\ Turn /\ Room
  /\ call[c] = Idle
  /\ \/ /\ ReadAllowed(Policy[input.agent], input.tag)
        /\ call' = [call EXCEPT ![c] = ReadTask(input.agent, input.tag)]
        /\ UNCHANGED <<requests, audit>>
     \/ /\ ~ReadAllowed(Policy[input.agent], input.tag)
        /\ Close(c, ReadLine(input.agent, input.tag, "DENY", FALSE), requests, requests)
  /\ UNCHANGED <<clock, plant, history, landed, restarts>>

\* The re-check runs on the engine of the operator's gateway; the audit names
\* the agent that asked.
ApprovalTask(r) ==
  WriteTask(Operator, requests[r].tag, requests[r].value, requests[r].agent, r)

Approve(c, r) ==
  /\ Turn /\ Room
  /\ call[c] = Idle
  /\ Open(r)
  /\ Evaluate(c, ApprovalTask(r), Expired(requests))
  /\ UNCHANGED <<clock, plant, history, landed, restarts>>

\* deny has no await: it ends in the slot it began in.
Deny(c, r) ==
  /\ Turn /\ Room
  /\ call[c] = Idle
  /\ Open(r)
  /\ Refuse(c, ApprovalTask(r), Expired(requests))
  /\ UNCHANGED <<clock, plant, history, landed, restarts>>

\* list_pending, /health, and approve or deny of a request that is no longer
\* pending or not known: the only effect is the lazy expiry.
Inspect ==
  /\ Turn
  /\ requests' = Expired(requests)
  /\ UNCHANGED <<clock, plant, history, call, audit, landed, restarts>>

-----------------------------------------------------------------------------
(* Backend replies *)

Reachable(tag) == up /\ tag \in Present
IsOff(lock) == ~ConditionHolds(tags[lock.tag], lock.op, lock.threshold)

\* Slip: an interlock that cannot be read is skipped.
BlocksReadable(lock) == Reachable(lock.tag) /\ ~IsOff(lock)

\* An interlock that cannot be read denies as an active one does.
Blocks(lock) == ~Reachable(lock.tag) \/ ~IsOff(lock)

InterlockReply(c) ==
  LET task  == call[c]
      locks == Policy[task.g][task.tag].interlocks
      lock  == locks[task.next]
      shown == {l \in {lock} : Reachable(l.tag) /\ IsOff(l)}
      read  == [task EXCEPT !.next = @ + 1, !.clear = @ \cup shown]
  IN  /\ task.pc = "interlock"
      /\ \/ Blocks(lock) /\ Refuse(c, task, requests)
         \/ /\ ~Blocks(lock) /\ task.next < Len(locks)
            /\ call' = [call EXCEPT ![c] = read]
            /\ UNCHANGED <<requests, audit>>
         \/ ~Blocks(lock) /\ task.next = Len(locks) /\ Decide(c, read, requests)
      /\ UNCHANGED <<clock, plant, history, landed, restarts>>

ReadReply(c) ==
  LET task == call[c]
  IN  /\ task.pc = "read"
      /\ \/ /\ Reachable(task.tag)
            /\ Close(c, ReadLine(task.agent, task.tag, "ALLOW", TRUE), requests, requests)
         \/ /\ ~Reachable(task.tag)
            /\ Close(c, ReadLine(task.agent, task.tag, "ERROR", FALSE), requests, requests)
      /\ UNCHANGED <<clock, plant, history, landed, restarts>>

\* The backend carries the write out; the gateway does not know yet.
Land(c) ==
  LET task == call[c]
  IN  /\ task.pc = "write" /\ ~task.ack
      /\ Reachable(task.tag)
      /\ tags' = [tags EXCEPT ![task.tag] = task.value]
      /\ landed' = Append(landed, [agent |-> task.agent, tag |-> task.tag,
                                   value |-> task.value, req |-> task.req, ts |-> clock])
      /\ call' = [call EXCEPT ![c].ack = TRUE]
      /\ UNCHANGED <<clock, up, history, requests, audit, restarts>>

\* The write returns: it is recorded, audited and, if approved, marked, in one go.  A
\* put that raises leaves what a failing line does: the record is in memory already.
WriteReturns(c) ==
  LET task == call[c]
      s    == StoreOf(task.g)
  IN  /\ task.pc = "write" /\ task.ack /\ up
      /\ history' = [history EXCEPT ![s][task.tag] = Recorded(@, task.value, clock)]
      /\ Close(c, WriteLine(task, "ALLOW", TRUE), Marked(requests, task, "APPROVED"), requests)
      /\ UNCHANGED <<clock, plant, landed, restarts>>

\* Slip: the number of attempts is not bounded.
RetryForever(c) ==
  /\ Yields /\ Outages /\ up
  /\ call[c].pc = "write"
  /\ call' = [call EXCEPT ![c].attempt = @ + 1, ![c].ack = FALSE]
  /\ UNCHANGED <<clock, plant, history, requests, audit, landed, restarts>>

\* The connection breaks under the write, before or after it took effect, and
\* comes back at once: the write is issued a second time.
Retry(c) ==
  /\ Yields /\ Outages /\ up
  /\ call[c].pc = "write" /\ call[c].attempt = 1
  /\ call' = [call EXCEPT ![c].attempt = 2, ![c].ack = FALSE]
  /\ UNCHANGED <<clock, plant, history, requests, audit, landed, restarts>>

\* Slip: executed is set before the write is awaited.
WriteRaisesExecuted(c) ==
  /\ call[c].pc = "write" /\ ~Reachable(call[c].tag)
  /\ Close(c, WriteLine(call[c], "ERROR", TRUE), requests, requests)
  /\ UNCHANGED <<clock, plant, history, landed, restarts>>

\* Slip: the exception escapes before the audit line is written.
WriteRaisesSilently(c) ==
  /\ call[c].pc = "write" /\ ~Reachable(call[c].tag)
  /\ call' = [call EXCEPT ![c] = Idle]
  /\ UNCHANGED <<clock, plant, history, requests, audit, landed, restarts>>

\* Slip: the error is reported only after a second attempt.
WriteRaisesLate(c) ==
  /\ call[c].pc = "write" /\ ~Reachable(call[c].tag) /\ call[c].attempt = 2
  /\ Close(c, WriteLine(call[c], "ERROR", FALSE), requests, requests)
  /\ UNCHANGED <<clock, plant, history, landed, restarts>>

\* The write raises BackendError or KeyError.  An approved request stays PENDING.
WriteRaises(c) ==
  /\ call[c].pc = "write" /\ ~Reachable(call[c].tag)
  /\ Close(c, WriteLine(call[c], "ERROR", FALSE), requests, requests)
  /\ UNCHANGED <<clock, plant, history, landed, restarts>>

-----------------------------------------------------------------------------
(* The environment *)

Tick ==
  /\ clock < MaxTime
  /\ clock' = clock + 1
  /\ UNCHANGED <<plant, history, requests, call, audit, landed, restarts>>

PlantMoves(move) ==
  /\ Turn
  /\ tags' = [tags EXCEPT ![move.tag] = move.value]
  /\ UNCHANGED <<clock, up, history, requests, call, audit, landed, restarts>>

BackendFlips ==
  /\ Outages /\ Turn
  /\ up' = ~up
  /\ UNCHANGED <<clock, tags, history, requests, call, audit, landed, restarts>>

NoHistory == [s \in Stores |-> [tag \in Tags |-> <<>>]]

\* The process dies and is started again: tasks and parked requests are lost.
Restart ==
  /\ restarts < MaxRestarts
  /\ restarts' = restarts + 1
  /\ call' = [c \in Calls |-> Idle]
  /\ requests' = [r \in DOMAIN requests |-> [requests[r] EXCEPT !.status = "GONE"]]
  /\ history' = IF DurableHistory THEN history ELSE NoHistory
  /\ UNCHANGED <<clock, plant, audit, landed>>

-----------------------------------------------------------------------------
(* Specification *)

Init ==
  /\ clock = 0
  /\ tags = Initial
  /\ up = TRUE
  /\ history = NoHistory
  /\ requests = <<>>
  /\ call = [c \in Calls |-> Idle]
  /\ audit = <<>>
  /\ landed = <<>>
  /\ restarts = 0

\* The continuations of the task in slot c.
Progress(c) ==
  InterlockReply(c) \/ ReadReply(c) \/ Land(c) \/ WriteReturns(c) \/ Retry(c) \/ WriteRaises(c)

Next ==
  \/ \E c \in Calls :
       \/ \E input \in Writes : WriteTag(c, input)
       \/ \E input \in Reads : ReadTag(c, input)
       \/ \E r \in DOMAIN requests : Approve(c, r) \/ Deny(c, r)
       \/ Progress(c)
  \/ Inspect
  \/ Tick
  \/ \E move \in Moves : PlantMoves(move)
  \/ BackendFlips
  \/ Restart

Spec == Init /\ [][Next]_vars

\* Every backend operation ends (it answers or times out), time passes, and
\* somebody keeps polling list_pending or /health.
FairSpec ==
  Spec /\ (\A c \in Calls : WF_vars(Progress(c))) /\ WF_vars(Tick) /\ WF_vars(Inspect)
=============================================================================
