------------------------- MODULE AsyncuaBackendProofs -------------------------
(***************************************************************************)
(* The proof that the real backend keeps the contract of BackendContract,  *)
(* for any number of operations that share the client, any number of       *)
(* reconnect attempts and any pattern of faults; and that a backend which  *)
(* keeps the contract reports truthfully (the last section).               *)
(***************************************************************************)
EXTENDS AsyncuaBackend, FiniteSetTheorems, TLAPS

Active == {"opening", "op", "closing", "leaving"}

\* What the contract needs to know of an operation: a missing tag has no effect, a
\* reply is to an issue that took effect, an issue takes effect once, and an
\* operation that is not running starts afresh.
Sound(t, op) ==
  /\ op \in Tasks
  /\ op.pc \in {"op", "closing", "leaving"} => op.conn \in Connections
  /\ t \in Missing => op.effects = 0 /\ ~op.ack
  /\ op.pc \notin Active => op.issue = 1 /\ ~op.ack
  /\ op.pc \in {"none", "missing"} => op.effects = 0
  /\ op.pc = "ok" => op.effects >= 1
  /\ op.ack => op.effects >= 1 /\ op.effects <= op.issue
  /\ op.pc \in Active /\ ~op.ack => op.effects < op.issue
  /\ op.effects <= 2

IInv == TypeOK /\ \A t \in Ops : Sound(t, task[t])

\* How the contract sees an operation.
OutcomeOf(op) == IF op.pc \in Active THEN "running" ELSE op.pc
IssueOf(op) == op.issue
AckOf(op) == op.ack
EffectsOf(op) == op.effects
Outcome == [t \in Ops |-> OutcomeOf(task[t])]
Issue == [t \in Ops |-> IssueOf(task[t])]
Ack == [t \in Ops |-> AckOf(task[t])]
Effects == [t \in Ops |-> EffectsOf(task[t])]

LEMMA ConnectionsType == \A k \in Connections : k \in Nat /\ k # 0
  <1>1. Cardinality(Ops) \in Nat
    BY OpsAssumption, FS_CardinalityType
  <1>2. QED
    BY <1>1 DEF Connections

\* The parts of the world that a step of an operation may set.
WorldTyped ==
  /\ up \in BOOLEAN /\ stops \in Nat /\ breaks \in Nat
  /\ live \subseteq Connections
  /\ client \in {0} \cup Connections

\* A step that replaces one operation keeps the others, and the contract sees
\* exactly that.
LEMMA OneTask ==
  ASSUME IInv, NEW t \in Ops, NEW op, Sound(t, op), Becomes(t, op), WorldTyped'
  PROVE  /\ IInv'
         /\ Outcome' = [Outcome EXCEPT ![t] = OutcomeOf(op)]
         /\ Issue' = [Issue EXCEPT ![t] = IssueOf(op)]
         /\ Ack' = [Ack EXCEPT ![t] = AckOf(op)]
         /\ Effects' = [Effects EXCEPT ![t] = EffectsOf(op)]
  <1>1. \A u \in Ops : task'[u] = IF u = t THEN op ELSE task[u]
    BY DEF IInv, TypeOK, Becomes
  <1>2. task' \in [Ops -> Tasks]
    BY DEF IInv, TypeOK, Becomes, Sound
  <1>3. \A u \in Ops : Sound(u, task[u])'
    <2>1. \A u \in Ops : Sound(u, task'[u])
      BY <1>1 DEF IInv
    <2>2. QED
      BY <2>1 DEF Sound, Connections
  <1>4. IInv'
    BY <1>2, <1>3 DEF IInv, TypeOK, WorldTyped, Sound
  <1>5. QED
    BY <1>1, <1>4 DEF Outcome, Issue, Ack, Effects

\* A step that the contract allows.
Allowed == IInv' /\ [Contract!Next]_(Contract!vars)

\* A step that changes nothing the contract sees.
LEMMA Invisible ==
  ASSUME IInv, NEW t \in Ops, NEW op, Sound(t, op), Becomes(t, op), WorldTyped',
         OutcomeOf(op) = OutcomeOf(task[t]), IssueOf(op) = IssueOf(task[t]),
         AckOf(op) = AckOf(task[t]), EffectsOf(op) = EffectsOf(task[t])
  PROVE  Allowed
  <1>1. /\ IInv'
        /\ Outcome' = [Outcome EXCEPT ![t] = OutcomeOf(op)]
        /\ Issue' = [Issue EXCEPT ![t] = IssueOf(op)]
        /\ Ack' = [Ack EXCEPT ![t] = AckOf(op)]
        /\ Effects' = [Effects EXCEPT ![t] = EffectsOf(op)]
    BY OneTask
  <1>2. Outcome' = Outcome /\ Issue' = Issue /\ Ack' = Ack /\ Effects' = Effects
    BY <1>1 DEF Outcome, Issue, Ack, Effects
  <1>3. UNCHANGED Contract!vars
    BY <1>2
       DEF Contract!vars, Outcome, Issue, Ack, Effects, OutcomeOf, IssueOf, AckOf, EffectsOf, Active
  <1>4. QED
    BY <1>1, <1>3 DEF Allowed

\* An operation that ends with an outcome the contract allows.
LEMMA Ends ==
  ASSUME IInv, NEW t \in Ops, task[t].pc \in Active, NEW result \in Outcomes, WorldTyped',
         NEW op \in Tasks, EffectsOf(op) = EffectsOf(task[t]), Becomes(t, Ended(op, result)),
         \/ result = "ok" /\ AckOf(task[t])
         \/ result = "missing" /\ t \in Missing
         \/ result = "failed"
  PROVE  Allowed
  <1>. DEFINE end == Ended(op, result)
  <1>1. /\ end \in Tasks /\ end.pc = result /\ end.issue = 1 /\ end.ack = FALSE
        /\ end.effects = EffectsOf(task[t])
    <2>1. 0 \in 0..Attempts
      BY BoundAssumption
    <2>2. QED
      BY <2>1 DEF Ended, Tasks, Outcomes, EffectsOf
  <1>2. Becomes(t, end)
    OBVIOUS
  <1>. HIDE DEF end
  <1>3. EffectsOf(end) = EffectsOf(task[t]) /\ IssueOf(end) = 1 /\ AckOf(end) = FALSE
        /\ OutcomeOf(end) = result
    BY <1>1 DEF EffectsOf, IssueOf, AckOf, OutcomeOf, Outcomes, Active
  <1>4. Sound(t, end)
    BY <1>1 DEF IInv, Sound, AckOf, EffectsOf, Outcomes, Active
  <1>5. /\ IInv'
        /\ Outcome' = [Outcome EXCEPT ![t] = OutcomeOf(end)]
        /\ Issue' = [Issue EXCEPT ![t] = IssueOf(end)]
        /\ Ack' = [Ack EXCEPT ![t] = AckOf(end)]
        /\ Effects' = [Effects EXCEPT ![t] = EffectsOf(end)]
    BY <1>2, <1>4, OneTask
  <1>6. Effects' = Effects
    BY <1>3, <1>5 DEF Effects
  <1>7. Outcome[t] = "running" /\ Ack[t] = AckOf(task[t])
        /\ (t \in Missing => Effects[t] = 0)
    BY DEF Outcome, OutcomeOf, Ack, Effects, IInv, Sound, EffectsOf
  <1>8. Contract!End(t, result)
    BY <1>3, <1>5, <1>6, <1>7
       DEF Contract!End, Outcome, Issue, Ack, Effects, OutcomeOf, IssueOf, AckOf, EffectsOf, Active
  <1>9. Contract!Return(t) \/ Contract!Miss(t) \/ Contract!Raise(t)
    BY <1>7, <1>8
       DEF Contract!Return, Contract!Miss, Contract!Raise, Ack, Effects, AckOf, EffectsOf
  <1>10. QED
    BY <1>5, <1>9 DEF Allowed, Contract!Next

\* Opening leaves all of an operation but its progress as it is.
LEMMA OpeningType ==
  ASSUME NEW op \in Tasks
  PROVE  /\ Opening(op) \in Tasks /\ Opening(op).pc = "opening"
         /\ Opening(op).issue = op.issue /\ Opening(op).ack = op.ack
         /\ Opening(op).effects = op.effects
  <1>1. 0 \in 0..Attempts
    BY BoundAssumption
  <1>2. QED
    BY <1>1 DEF Opening, Tasks

\* _with_reconnect up to its first await begins the operation.
LEMMA CallAllowed ==
  ASSUME IInv, NEW t \in Ops, Call(t)
  PROVE  Allowed
  <1>1. PICK op \in {Opening(task[t]), [task[t] EXCEPT !.pc = "op", !.conn = client]} :
          /\ Becomes(t, op)
          /\ op # Opening(task[t]) => client # 0 /\ op = [task[t] EXCEPT !.pc = "op", !.conn = client]
    BY DEF Call
  <1>2. task[t] \in Tasks /\ task[t].pc = "none" /\ task[t].issue = 1 /\ task[t].ack = FALSE
        /\ task[t].effects = 0 /\ client \in {0} \cup Connections
    BY DEF IInv, TypeOK, Sound, Active, Call, Tasks
  <1>3. /\ op \in Tasks /\ op.pc \in {"opening", "op"} /\ op.issue = 1 /\ op.ack = FALSE
        /\ op.effects = 0 /\ (op.pc = "op" => op.conn \in Connections)
    <2>1. CASE op = Opening(task[t])
      BY <1>2, <2>1, OpeningType
    <2>2. CASE op # Opening(task[t])
      BY <1>1, <1>2, <2>2, ConnectionsType DEF Tasks
    <2>3. QED
      BY <2>1, <2>2
  <1>4. Sound(t, op)
    BY <1>3 DEF Sound, Active
  <1>5. WorldTyped'
    BY DEF Call, World, WorldTyped, IInv, TypeOK
  <1>6. /\ IInv'
        /\ Outcome' = [Outcome EXCEPT ![t] = OutcomeOf(op)]
        /\ Issue' = [Issue EXCEPT ![t] = IssueOf(op)]
        /\ Ack' = [Ack EXCEPT ![t] = AckOf(op)]
        /\ Effects' = [Effects EXCEPT ![t] = EffectsOf(op)]
    BY <1>1, <1>4, <1>5, OneTask
  <1>7. Outcome[t] = "none" /\ OutcomeOf(op) = "running"
        /\ IssueOf(op) = Issue[t] /\ AckOf(op) = Ack[t] /\ EffectsOf(op) = Effects[t]
    BY <1>2, <1>3
       DEF Outcome, OutcomeOf, Issue, IssueOf, Ack, AckOf, Effects, EffectsOf, Active
  <1>8. Issue' = Issue /\ Ack' = Ack /\ Effects' = Effects
    BY <1>6, <1>7 DEF Issue, Ack, Effects
  <1>9. Contract!Begin(t)
    BY <1>6, <1>7, <1>8
       DEF Contract!Begin, Outcome, Issue, Ack, Effects, OutcomeOf, IssueOf, AckOf, EffectsOf, Active
  <1>10. QED
    BY <1>6, <1>9 DEF Allowed, Contract!Next

\* A fresh connection is not visible.
LEMMA ConnectedAllowed ==
  ASSUME IInv, NEW t \in Ops, Connected(t)
  PROVE  Allowed
  <1>1. PICK k \in Connections :
          /\ live' = live \cup {k}
          /\ client' = k
          /\ Becomes(t, [task[t] EXCEPT !.pc = "op", !.tries = 0, !.conn = k])
    BY DEF Connected
  <1>. DEFINE op == [task[t] EXCEPT !.pc = "op", !.tries = 0, !.conn = k]
  <1>2. task[t] \in Tasks /\ task[t].pc = "opening"
    BY DEF IInv, TypeOK, Connected
  <1>3. /\ op \in Tasks /\ op.pc = "op" /\ op.issue = task[t].issue /\ op.ack = task[t].ack
        /\ op.effects = task[t].effects /\ op.conn = k
    <2>1. 0 \in 0..Attempts /\ k \in Nat
      BY BoundAssumption, ConnectionsType
    <2>2. QED
      BY <1>2, <2>1 DEF Tasks
  <1>4. Becomes(t, op)
    BY <1>1
  <1>. HIDE DEF op
  <1>5. Sound(t, op)
    BY <1>2, <1>3 DEF IInv, Sound, Active
  <1>6. WorldTyped'
    BY <1>1 DEF Connected, World, WorldTyped, IInv, TypeOK
  <1>7. QED
    BY <1>2, <1>3, <1>4, <1>5, <1>6, Invisible
       DEF OutcomeOf, IssueOf, AckOf, EffectsOf, Active

\* A failed attempt is not visible, the last one ends the operation.
LEMMA ConnectFailsAllowed ==
  ASSUME IInv, NEW t \in Ops, ConnectFails(t)
  PROVE  Allowed
  <1>1. task[t] \in Tasks /\ task[t].pc = "opening"
    BY DEF IInv, TypeOK, ConnectFails
  <1>2. WorldTyped'
    BY DEF ConnectFails, World, WorldTyped, IInv, TypeOK
  <1>3. ASSUME task[t].tries < Attempts, Becomes(t, [task[t] EXCEPT !.tries = @ + 1])
        PROVE  Allowed
    <2>. DEFINE op == [task[t] EXCEPT !.tries = @ + 1]
    <2>1. task[t].tries + 1 \in 0..Attempts
      BY <1>1, <1>3, BoundAssumption DEF Tasks
    <2>2. /\ op \in Tasks /\ op.pc = "opening" /\ op.issue = task[t].issue
          /\ op.ack = task[t].ack /\ op.effects = task[t].effects
      BY <1>1, <2>1 DEF Tasks
    <2>3. Becomes(t, op)
      BY <1>3
    <2>. HIDE DEF op
    <2>4. Sound(t, op)
      BY <1>1, <2>2 DEF IInv, Sound, Active
    <2>5. QED
      BY <1>1, <1>2, <2>2, <2>3, <2>4, Invisible DEF OutcomeOf, IssueOf, AckOf, EffectsOf
  <1>4. ASSUME Becomes(t, Ended(task[t], "failed"))
        PROVE  Allowed
    BY <1>1, <1>2, <1>4, Ends DEF Active, Outcomes, EffectsOf
  <1>5. QED
    BY <1>3, <1>4 DEF ConnectFails

\* The server carries an issue out once.
LEMMA TakesEffectAllowed ==
  ASSUME IInv, NEW t \in Ops, TakesEffect(t)
  PROVE  Allowed
  <1>. DEFINE op == [task[t] EXCEPT !.ack = TRUE, !.effects = @ + 1]
  <1>1. task[t] \in Tasks /\ task[t].pc = "op" /\ task[t].ack = FALSE /\ t \notin Missing
    BY DEF IInv, TypeOK, TakesEffect, Tasks
  <1>2. /\ op \in Tasks /\ op.pc = "op" /\ op.conn = task[t].conn /\ op.issue = task[t].issue
        /\ op.ack = TRUE /\ op.effects = task[t].effects + 1
    <2>1. task[t].effects + 1 \in Nat
      BY <1>1 DEF Tasks
    <2>2. op \in Tasks
      BY <1>1, <2>1 DEF Tasks
    <2>3. QED
      BY <1>1, <2>1, <2>2 DEF Tasks
  <1>3. Becomes(t, op)
    BY DEF TakesEffect
  <1>. HIDE DEF op
  <1>4. Sound(t, op)
    <2>1. task[t].effects \in Nat /\ task[t].issue \in {1, 2} /\ task[t].effects < task[t].issue
      BY <1>1 DEF IInv, Sound, Active, Tasks
    <2>2. task[t].conn \in Connections
      BY <1>1 DEF IInv, Sound
    <2>3. QED
      BY <1>1, <1>2, <2>1, <2>2 DEF Sound, Active
  <1>5. WorldTyped'
    BY DEF TakesEffect, World, WorldTyped, IInv, TypeOK
  <1>6. /\ IInv'
        /\ Outcome' = [Outcome EXCEPT ![t] = OutcomeOf(op)]
        /\ Issue' = [Issue EXCEPT ![t] = IssueOf(op)]
        /\ Ack' = [Ack EXCEPT ![t] = AckOf(op)]
        /\ Effects' = [Effects EXCEPT ![t] = EffectsOf(op)]
    BY <1>3, <1>4, <1>5, OneTask
  <1>7. /\ Outcome[t] = "running" /\ OutcomeOf(op) = "running" /\ ~Ack[t] /\ AckOf(op) = TRUE
        /\ IssueOf(op) = Issue[t] /\ EffectsOf(op) = Effects[t] + 1
    BY <1>1, <1>2
       DEF Outcome, OutcomeOf, Issue, IssueOf, Ack, AckOf, Effects, EffectsOf, Active
  <1>8. Outcome' = Outcome /\ Issue' = Issue
    BY <1>6, <1>7 DEF Outcome, Issue
  <1>9. Contract!Land(t)
    BY <1>6, <1>7, <1>8
       DEF Contract!Land, Outcome, Issue, Ack, Effects, OutcomeOf, IssueOf, AckOf, EffectsOf, Active
  <1>10. QED
    BY <1>6, <1>9 DEF Allowed, Contract!Next

\* A returned operation was acknowledged, a missing tag had no effect.
LEMMA OpEndsAllowed ==
  ASSUME IInv, NEW t \in Ops, OpReturns(t) \/ OpMissing(t)
  PROVE  Allowed
  <1>1. task[t] \in Tasks /\ task[t].pc \in Active
    BY DEF IInv, TypeOK, OpReturns, OpMissing, Active
  <1>2. WorldTyped'
    BY DEF OpReturns, OpMissing, World, WorldTyped, IInv, TypeOK
  <1>3. CASE OpReturns(t)
    BY <1>1, <1>2, <1>3, Ends DEF OpReturns, Outcomes, AckOf
  <1>4. CASE OpMissing(t)
    BY <1>1, <1>2, <1>4, Ends DEF OpMissing, Outcomes
  <1>5. QED
    BY <1>3, <1>4

\* A first failure is the contract's retry, whether or not there is still a client to
\* close.
LEMMA Retries ==
  ASSUME IInv, NEW t \in Ops, NEW op \in Tasks, Becomes(t, op), WorldTyped',
         task[t].pc = "op", task[t].issue = 1,
         op.pc \in {"opening", "closing"}, op.pc = "closing" => op.conn \in Connections,
         op.issue = 2, op.ack = FALSE, op.effects = task[t].effects
  PROVE  Allowed
  <1>1. Sound(t, op)
    <2>1. task[t].effects \in Nat /\ task[t].effects < 2 /\ (t \in Missing => task[t].effects = 0)
      BY DEF IInv, Sound, Active, Tasks
    <2>2. QED
      BY <2>1 DEF Sound, Active
  <1>2. /\ IInv'
        /\ Outcome' = [Outcome EXCEPT ![t] = OutcomeOf(op)]
        /\ Issue' = [Issue EXCEPT ![t] = IssueOf(op)]
        /\ Ack' = [Ack EXCEPT ![t] = AckOf(op)]
        /\ Effects' = [Effects EXCEPT ![t] = EffectsOf(op)]
    BY <1>1, OneTask
  <1>3. /\ Outcome[t] = "running" /\ OutcomeOf(op) = "running" /\ AckOf(op) = FALSE
        /\ Issue[t] = 1 /\ IssueOf(op) = 2 /\ EffectsOf(op) = Effects[t]
    BY DEF Outcome, OutcomeOf, Issue, IssueOf, AckOf, Effects, EffectsOf, Active
  <1>4. Outcome' = Outcome /\ Effects' = Effects
    <2>1. Outcome' = Outcome
      BY <1>2, <1>3 DEF Outcome
    <2>2. Effects' = Effects
      BY <1>2, <1>3 DEF Effects
    <2>3. QED
      BY <2>1, <2>2
  <1>5. Contract!Retry(t)
    BY <1>2, <1>3, <1>4
       DEF Contract!Retry, Outcome, Issue, Ack, Effects, OutcomeOf, IssueOf, AckOf, EffectsOf, Active
  <1>6. QED
    BY <1>2, <1>5 DEF Allowed, Contract!Next

\* The handler of a failed operation: retry, or close once more, or give up.
LEMMA OpFailsAllowed ==
  ASSUME IInv, NEW t \in Ops, OpFails(t)
  PROVE  Allowed
  <1>. DEFINE first == task[t].issue = 1
              op == [task[t] EXCEPT !.issue = 2, !.ack = ~first /\ @, !.conn = client]
              closing == [op EXCEPT !.pc = IF first THEN "closing" ELSE "leaving"]
  <1>1. task[t] \in Tasks /\ task[t].pc = "op" /\ client \in {0} \cup Connections /\ client \in Nat
    BY ConnectionsType DEF IInv, TypeOK, OpFails
  <1>2. WorldTyped'
    BY DEF OpFails, World, WorldTyped, IInv, TypeOK
  <1>3. \/ client # 0 /\ Becomes(t, closing)
        \/ client = 0 /\ first /\ Becomes(t, Opening(op))
        \/ client = 0 /\ ~first /\ Becomes(t, Ended(op, "failed"))
    BY DEF OpFails
  <1>4. /\ op \in Tasks /\ op.issue = 2 /\ op.conn = client /\ op.effects = task[t].effects
        /\ (first => op.ack = FALSE) /\ (~first => op.ack = task[t].ack)
    BY <1>1 DEF Tasks
  <1>5. /\ closing \in Tasks /\ closing.issue = 2 /\ closing.conn = client
        /\ closing.effects = op.effects /\ closing.ack = op.ack
        /\ closing.pc = IF first THEN "closing" ELSE "leaving"
    <2>. HIDE DEF op
    <2>1. QED
      BY <1>4 DEF Tasks
  <1>6. ~first => task[t].issue = 2
    BY <1>1 DEF Tasks
  <1>. HIDE DEF op, closing, first
  <1>7. CASE client # 0 /\ first /\ Becomes(t, closing)
    BY <1>1, <1>2, <1>4, <1>5, <1>7, Retries DEF first
  <1>8. CASE client # 0 /\ ~first /\ Becomes(t, closing)
    <2>1. Sound(t, closing)
      BY <1>1, <1>4, <1>5, <1>6, <1>8 DEF IInv, Sound, Active
    <2>2. QED
      BY <1>1, <1>2, <1>4, <1>5, <1>6, <1>8, <2>1, Invisible
         DEF OutcomeOf, IssueOf, AckOf, EffectsOf, Active
  <1>9. CASE client = 0 /\ first /\ Becomes(t, Opening(op))
    BY <1>1, <1>2, <1>4, <1>9, OpeningType, Retries DEF first
  <1>10. CASE client = 0 /\ ~first /\ Becomes(t, Ended(op, "failed"))
    BY <1>1, <1>2, <1>4, <1>10, Ends DEF Active, Outcomes, EffectsOf
  <1>11. QED
    BY <1>3, <1>7, <1>8, <1>9, <1>10

\* After the disconnect the operation connects again, or has failed.
LEMMA DisconnectedAllowed ==
  ASSUME IInv, NEW t \in Ops, Disconnected(t)
  PROVE  Allowed
  <1>1. task[t] \in Tasks /\ task[t].pc \in {"closing", "leaving"}
    BY DEF IInv, TypeOK, Disconnected
  <1>2. WorldTyped'
    BY DEF Disconnected, World, WorldTyped, IInv, TypeOK
  <1>3. CASE task[t].pc = "closing"
    <2>1. Becomes(t, Opening(task[t]))
      BY <1>3 DEF Disconnected
    <2>2. Sound(t, Opening(task[t]))
      BY <1>1, <1>3, OpeningType DEF IInv, Sound, Active
    <2>3. QED
      BY <1>1, <1>2, <1>3, <2>1, <2>2, OpeningType, Invisible
         DEF OutcomeOf, IssueOf, AckOf, EffectsOf, Active
  <1>4. CASE task[t].pc = "leaving"
    <2>1. Becomes(t, Ended(task[t], "failed"))
      BY <1>4 DEF Disconnected
    <2>2. QED
      BY <1>1, <1>2, <1>4, <2>1, Ends DEF Active, Outcomes, EffectsOf
  <1>5. QED
    BY <1>1, <1>3, <1>4

\* What the server and the network do is not visible.
LEMMA WorldAllowed ==
  ASSUME IInv, UNCHANGED task, WorldTyped'
  PROVE  Allowed
  <1>1. \A t \in Ops : Sound(t, task[t])'
    BY DEF IInv, Sound, Connections
  <1>2. IInv'
    BY <1>1 DEF IInv, TypeOK, WorldTyped
  <1>3. UNCHANGED Contract!vars
    BY DEF Contract!vars
  <1>4. QED
    BY <1>2, <1>3 DEF Allowed

\* Every step of the backend is a step of the contract or none at all.
LEMMA StepAllowed ==
  ASSUME IInv, [Next]_vars
  PROVE  Allowed
  <1>1. CASE UNCHANGED vars
    BY <1>1, WorldAllowed DEF vars, IInv, TypeOK, WorldTyped
  <1>2. ASSUME NEW t \in Ops, Call(t) \/ Progress(t)
        PROVE  Allowed
    BY <1>2, CallAllowed, ConnectedAllowed, ConnectFailsAllowed, TakesEffectAllowed,
       OpEndsAllowed, OpFailsAllowed, DisconnectedAllowed DEF Progress
  <1>3. ASSUME NEW k \in Connections, ConnectionBreaks(k)
        PROVE  Allowed
    BY <1>3, WorldAllowed DEF ConnectionBreaks, IInv, TypeOK, WorldTyped
  <1>4. CASE ServerStops \/ ServerStarts
    <2>1. /\ up' \in BOOLEAN /\ live' \subseteq live
          /\ UNCHANGED <<client, task, breaks>>
      BY <1>4 DEF ServerStops, ServerStarts
    <2>2. stops' \in Nat
      BY <1>4 DEF ServerStops, ServerStarts, IInv, TypeOK
    <2>3. WorldTyped'
      BY <2>1, <2>2 DEF WorldTyped, IInv, TypeOK, Connections
    <2>4. QED
      BY <2>1, <2>3, WorldAllowed
  <1>5. QED
    BY <1>1, <1>2, <1>3, <1>4 DEF Next

LEMMA InitAllowed == Init => IInv /\ Contract!Init
  <1>. SUFFICES ASSUME Init PROVE IInv /\ Contract!Init
    OBVIOUS
  <1>1. /\ NewTask \in Tasks /\ NewTask.pc = "none" /\ NewTask.issue = 1
        /\ NewTask.ack = FALSE /\ NewTask.effects = 0
    <2>1. 0 \in 0..Attempts
      BY BoundAssumption
    <2>2. QED
      BY <2>1 DEF NewTask, Tasks
  <1>2. \A t \in Ops : task[t] = NewTask
    BY DEF Init
  <1>3. \A t \in Ops : Sound(t, task[t])
    BY <1>1, <1>2 DEF Sound, Active
  <1>4. TypeOK
    BY <1>1, <1>2 DEF Init, TypeOK
  <1>5. \A t \in Ops : task[t].pc = "none" /\ task[t].issue = 1 /\ task[t].ack = FALSE
                      /\ task[t].effects = 0
    BY <1>1, <1>2
  <1>6. Contract!Init
    <2>1. Outcome = [t \in Ops |-> "none"]
      BY <1>5 DEF Outcome, OutcomeOf, Active
    <2>2. Issue = [t \in Ops |-> 1]
      BY <1>5 DEF Issue, IssueOf
    <2>3. Ack = [t \in Ops |-> FALSE]
      BY <1>5 DEF Ack, AckOf
    <2>4. Effects = [t \in Ops |-> 0]
      BY <1>5 DEF Effects, EffectsOf
    <2>5. QED
      BY <2>1, <2>2, <2>3, <2>4
         DEF Contract!Init, Outcome, Issue, Ack, Effects, OutcomeOf, IssueOf, AckOf, EffectsOf, Active
  <1>7. QED
    BY <1>3, <1>4, <1>6 DEF IInv

\* What is true of operations that are sound is what the gateway concludes from them.
LEMMA SoundTruthful == IInv => OutcomesTruthful
  <1>. SUFFICES ASSUME IInv, NEW t \in Ops
                PROVE  /\ Outcome[t] = "ok" => Effects[t] >= 1
                       /\ Outcome[t] \in {"none", "missing"} => Effects[t] = 0
                       /\ Effects[t] <= 2
    BY DEF OutcomesTruthful, Contract!OutcomesTruthful, Outcome, Effects, OutcomeOf,
           EffectsOf, Active
  <1>1. Sound(t, task[t])
    BY DEF IInv
  <1>2. Outcome[t] = OutcomeOf(task[t]) /\ Effects[t] = EffectsOf(task[t])
    BY DEF Outcome, Effects
  <1>3. QED
    BY <1>1, <1>2 DEF Sound, OutcomeOf, EffectsOf, Active

-----------------------------------------------------------------------------
(* Without faults *)

\* In a world without faults an operation is on its only issue, and that is on a
\* connection that works.
Faultless == stops = 0 /\ breaks = 0 /\ Rejected = {}
Steady(op, working) ==
  /\ op.issue = 1
  /\ op.pc \notin {"closing", "leaving", "failed"}
  /\ op.pc = "op" => op.conn \in working
Calm ==
  Faultless =>
    /\ up
    /\ client # 0 => client \in live
    /\ \A t \in Ops : Steady(task[t], live)

\* A fault that happened is not forgotten.
LEMMA FaultsStay ==
  ASSUME TypeOK, [Next]_vars, Faultless'
  PROVE  Faultless
  <1>1. CASE UNCHANGED vars
    BY <1>1 DEF vars, Faultless
  <1>2. ASSUME NEW t \in Ops, Call(t) \/ Progress(t)
        PROVE  Faultless
    BY <1>2 DEF Faultless, World, Call, Progress, Connected, ConnectFails, TakesEffect,
                OpReturns, OpMissing, OpFails, Disconnected
  <1>3. ASSUME NEW k \in Connections, ConnectionBreaks(k)
        PROVE  Faultless
    BY <1>3 DEF ConnectionBreaks, Faultless, TypeOK
  <1>4. CASE ServerStops \/ ServerStarts
    BY <1>4 DEF ServerStops, ServerStarts, Faultless, TypeOK
  <1>5. QED
    BY <1>1, <1>2, <1>3, <1>4 DEF Next

\* A step that replaces one operation by a steady one, on connections that only come,
\* keeps the calm.
LEMMA OneSteady ==
  ASSUME TypeOK, Calm, Faultless, NEW t \in Ops, NEW op, Becomes(t, op), Steady(op, live'),
         live \subseteq live', client' # 0 => client' \in live', up'
  PROVE  Calm'
  <1>1. \A u \in Ops : task'[u] = IF u = t THEN op ELSE task[u]
    BY DEF TypeOK, Becomes
  <1>2. \A u \in Ops : Steady(task'[u], live')
    BY <1>1 DEF Calm, Steady
  <1>3. QED
    BY <1>2 DEF Calm

\* No operation raises: its connection works and nobody is closing it.  So none closes
\* the client the others use.
LEMMA OperationCalm ==
  ASSUME TypeOK, Calm, Faultless, NEW t \in Ops, Call(t) \/ Progress(t)
  PROVE  Calm'
  <1>1. /\ task[t] \in Tasks /\ up /\ (client # 0 => client \in live)
        /\ \A u \in Ops : Steady(task[u], live)
    BY DEF TypeOK, Calm
  <1>2. ~OpFails(t) /\ ~ConnectFails(t) /\ ~Disconnected(t)
    BY <1>1 DEF OpFails, Raises, ConnectFails, Disconnected, Steady, Faultless
  <1>3. CASE Call(t)
    <2>. DEFINE op == IF client = 0 THEN Opening(task[t])
                      ELSE [task[t] EXCEPT !.pc = "op", !.conn = client]
    <2>1. Becomes(t, op) /\ UNCHANGED <<up, live, client>>
      BY <1>3 DEF Call, World
    <2>2. Steady(op, live)
      BY <1>1 DEF Steady, Opening, Tasks
    <2>. HIDE DEF op
    <2>3. QED
      BY <1>1, <2>1, <2>2, OneSteady
  <1>4. CASE Connected(t)
    <2>1. PICK k \in Connections :
            /\ live' = live \cup {k}
            /\ client' = k
            /\ Becomes(t, [task[t] EXCEPT !.pc = "op", !.tries = 0, !.conn = k])
      BY <1>4 DEF Connected
    <2>. DEFINE op == [task[t] EXCEPT !.pc = "op", !.tries = 0, !.conn = k]
    <2>2. Steady(op, live')
      BY <1>1, <2>1 DEF Steady, Tasks
    <2>3. Becomes(t, op) /\ up'
      BY <1>1, <1>4, <2>1 DEF Connected, World
    <2>. HIDE DEF op
    <2>4. QED
      BY <2>1, <2>2, <2>3, OneSteady
  <1>5. CASE TakesEffect(t)
    <2>. DEFINE op == [task[t] EXCEPT !.ack = TRUE, !.effects = @ + 1]
    <2>1. Becomes(t, op) /\ UNCHANGED <<up, live, client>>
      BY <1>5 DEF TakesEffect, World
    <2>2. Steady(op, live)
      BY <1>1 DEF Steady, Tasks
    <2>. HIDE DEF op
    <2>3. QED
      BY <1>1, <2>1, <2>2, OneSteady
  <1>6. CASE OpReturns(t) \/ OpMissing(t)
    <2>1. PICK result \in {"ok", "missing"} : Becomes(t, Ended(task[t], result))
      BY <1>6 DEF OpReturns, OpMissing
    <2>2. UNCHANGED <<up, live, client>>
      BY <1>6 DEF OpReturns, OpMissing, World
    <2>3. Steady(Ended(task[t], result), live)
      BY <1>1 DEF Steady, Ended, Tasks
    <2>4. QED
      BY <1>1, <2>1, <2>2, <2>3, OneSteady
  <1>7. QED
    BY <1>2, <1>3, <1>4, <1>5, <1>6 DEF Progress

\* Every step keeps the calm; one that breaks it is a fault and is counted.
LEMMA StepCalm ==
  ASSUME TypeOK, Calm, [Next]_vars
  PROVE  Calm'
  <1>. SUFFICES ASSUME Faultless' PROVE Calm'
    BY DEF Calm
  <1>1. Faultless
    BY FaultsStay
  <1>2. CASE UNCHANGED vars
    BY <1>2 DEF vars, Calm, Faultless
  <1>3. ASSUME NEW t \in Ops, Call(t) \/ Progress(t)
        PROVE  Calm'
    BY <1>1, <1>3, OperationCalm
  <1>4. ASSUME NEW k \in Connections, ConnectionBreaks(k)
        PROVE  Calm'
    BY <1>4 DEF ConnectionBreaks, Faultless, TypeOK
  <1>5. CASE ServerStops \/ ServerStarts
    BY <1>1, <1>5 DEF ServerStops, ServerStarts, Faultless, TypeOK, Calm
  <1>6. QED
    BY <1>2, <1>3, <1>4, <1>5 DEF Next

-----------------------------------------------------------------------------

\* Every reachable state is well typed: in particular a request and a disconnect are
\* always on a connection that exists, never on None, however the tasks that share
\* the client interleave (asyncua_backend.py, _with_reconnect and _close).
THEOREM TypeCorrect == Spec => []TypeOK
  <1>1. Init => IInv
    BY InitAllowed
  <1>2. IInv /\ [Next]_vars => IInv'
    BY StepAllowed DEF Allowed
  <1>3. IInv => TypeOK
    BY DEF IInv
  <1>4. QED
    BY <1>1, <1>2, <1>3, PTL DEF Spec

\* The backend implements the contract: whatever is done to the shared client, an
\* operation is issued at most twice, returns only what the server acknowledged to
\* its last issue, and reports a missing tag only if it had no effect.
THEOREM KeepsContract == Spec => ContractKept
  <1>1. Init => IInv /\ Contract!Init
    BY InitAllowed
  <1>2. IInv /\ [Next]_vars => IInv' /\ [Contract!Next]_(Contract!vars)
    BY StepAllowed DEF Allowed
  <1>3. QED
    BY <1>1, <1>2, PTL DEF Spec, ContractKept, Contract!Spec

\* What the gateway concludes from the outcome of an operation is true: a returned
\* write took effect, a missing tag was not written, and no operation is carried out
\* more than twice.
THEOREM Truthful == Spec => []OutcomesTruthful
  <1>1. Init => IInv
    BY InitAllowed
  <1>2. IInv /\ [Next]_vars => IInv'
    BY StepAllowed DEF Allowed
  <1>3. QED
    BY <1>1, <1>2, SoundTruthful, PTL DEF Spec

\* While nothing fails, tasks that share the client do each other no harm: however
\* they interleave, no operation is issued twice or raises BackendError.
THEOREM NoHarmAmongTasks == Spec => []QuietWithoutFaults
  <1>1. Init => Calm
    <2>1. Init => up /\ client = 0 /\ \A t \in Ops : task[t] = NewTask
      BY DEF Init
    <2>2. NewTask.issue = 1 /\ NewTask.pc = "none"
      BY DEF NewTask
    <2>3. QED
      BY <2>1, <2>2 DEF Calm, Steady
  <1>2. TypeOK /\ Calm /\ [Next]_vars => Calm'
    BY StepCalm
  <1>3. Calm => QuietWithoutFaults
    BY DEF Calm, Faultless, Steady, QuietWithoutFaults
  <1>4. QED
    BY <1>1, <1>2, <1>3, TypeCorrect, PTL DEF Spec

-----------------------------------------------------------------------------
(* The contract by itself, whatever backend keeps it *)

VARIABLES outcome, issue, ack, effects

Promise == INSTANCE BackendContract

\* The effects of an operation are accounted for by its issues: one per issue at
\* most, the last one included once it is acknowledged.
Accounted ==
  /\ outcome \in [Ops -> {"none", "running", "ok", "missing", "failed"}]
  /\ issue \in [Ops -> {1, 2}]
  /\ ack \in [Ops -> BOOLEAN]
  /\ effects \in [Ops -> Nat]
  /\ \A t \in Ops :
       /\ ack[t] => effects[t] \in 1..issue[t]
       /\ outcome[t] = "running" /\ ~ack[t] => effects[t] < issue[t]
       /\ outcome[t] = "none" => issue[t] = 1 /\ ~ack[t]
  /\ Promise!OutcomesTruthful

\* No step of an operation loses or invents an effect.
LEMMA AccountedStep ==
  ASSUME Accounted, [Promise!Next]_(Promise!vars)
  PROVE  Accounted'
  <1>. USE DEF Accounted, Promise!OutcomesTruthful
  <1>1. CASE UNCHANGED Promise!vars
    BY <1>1 DEF Promise!vars
  <1>2. ASSUME NEW t \in Ops, Promise!Begin(t) PROVE Accounted'
    BY <1>2 DEF Promise!Begin
  <1>3. ASSUME NEW t \in Ops, Promise!Land(t) PROVE Accounted'
    BY <1>3 DEF Promise!Land
  <1>4. ASSUME NEW t \in Ops, Promise!Retry(t) PROVE Accounted'
    BY <1>4 DEF Promise!Retry
  <1>5. ASSUME NEW t \in Ops, Promise!Return(t) PROVE Accounted'
    BY <1>5 DEF Promise!Return, Promise!End
  <1>6. ASSUME NEW t \in Ops, Promise!Miss(t) PROVE Accounted'
    BY <1>6 DEF Promise!Miss, Promise!End
  <1>7. ASSUME NEW t \in Ops, Promise!Raise(t) PROVE Accounted'
    BY <1>7 DEF Promise!Raise, Promise!End
  <1>8. QED
    BY <1>1, <1>2, <1>3, <1>4, <1>5, <1>6, <1>7 DEF Promise!Next

\* A returned write took effect, a missing tag was never written, and no operation
\* is carried out more than twice: what Gateway concludes from the outcome of
\* backend.write (gateway.py, _execute_allowed_write).
THEOREM ContractTruthful == Promise!Spec => []Promise!OutcomesTruthful
  <1>1. Promise!Init => Accounted
    BY DEF Promise!Init, Accounted, Promise!OutcomesTruthful
  <1>2. Accounted => Promise!OutcomesTruthful
    BY DEF Accounted
  <1>3. QED
    BY <1>1, <1>2, AccountedStep, PTL DEF Promise!Spec
=============================================================================
