---------------------------- MODULE GatewayProofs ----------------------------
(***************************************************************************)
(* Proofs about Gateway, for every set of agents, tags, calls and policies *)
(* and for every bound: its types, that nothing unauthorised reaches the   *)
(* backend, and nothing whose interlocks were not seen to be off.          *)
(***************************************************************************)
EXTENDS GatewayProperties, FiniteSetTheorems, SequenceTheorems, TLAPS

USE DEF Idle

Tasks == {Idle} \cup ReadTasks \cup WriteTasks

-----------------------------------------------------------------------------
(* Type correctness *)

\* The part of TypeOK that an evaluation changes.
CallsOK ==
  /\ requests \in Seq(Requests)
  /\ call \in [Calls -> Tasks]
  /\ \A c \in Calls : call[c] \in WriteTasks => WellFormed(call[c], Len(requests))
  /\ audit \in Seq(Lines)

\* A function on an initial segment is a sequence.
LEMMA FunctionSeq ==
  ASSUME NEW S, NEW n \in Nat, NEW f \in [1..n -> S]
  PROVE  f \in Seq(S) /\ Len(f) = n
  OBVIOUS

\* A change of status keeps the requests typed, and their number.
LEMMA StatusType ==
  ASSUME NEW reqs \in Seq(Requests), NEW new \in [DOMAIN reqs -> Requests]
  PROVE  new \in Seq(Requests) /\ Len(new) = Len(reqs)
  BY LenProperties, FunctionSeq

\* Expiring does.
LEMMA ExpiredType ==
  ASSUME NEW reqs \in Seq(Requests)
  PROVE  Expired(reqs) \in Seq(Requests) /\ Len(Expired(reqs)) = Len(reqs)
  <1>1. \A r \in DOMAIN reqs : reqs[r] \in Requests
    BY LenProperties, ElementOfSeq
  <1>2. \A req \in Requests : [req EXCEPT !.status = "EXPIRED"] \in Requests
    BY DEF Requests
  <1>3. Expired(reqs) \in [DOMAIN reqs -> Requests]
    BY <1>1, <1>2 DEF Expired
  <1>4. QED
    BY <1>3, StatusType

\* So does marking.
LEMMA MarkedType ==
  ASSUME NEW reqs \in Seq(Requests), NEW task \in WriteTasks, task.req \in 0..Len(reqs),
         NEW status \in {"PENDING", "APPROVED", "DENIED", "EXPIRED", "GONE"}
  PROVE  Marked(reqs, task, status) \in Seq(Requests) /\ Len(Marked(reqs, task, status)) = Len(reqs)
  <1>1. CASE task.req = 0
    BY <1>1 DEF Marked
  <1>2. CASE task.req # 0
    <2>1. task.req \in 1..Len(reqs)
      BY <1>2, LenProperties
    <2>2. reqs[task.req] \in Requests
      BY <2>1, ElementOfSeq
    <2>. DEFINE new == [reqs[task.req] EXCEPT !.status = status]
    <2>3. new \in Requests
      BY <2>2 DEF Requests
    <2>4. Marked(reqs, task, status) = [reqs EXCEPT ![task.req] = new]
      BY <1>2 DEF Marked
    <2>. HIDE DEF new
    <2>5. QED
      BY <2>1, <2>3, <2>4, ExceptSeq
  <1>3. QED
    BY <1>1, <1>2

\* A write's audit line is a line.
LEMMA WriteLineType ==
  ASSUME NEW task \in WriteTasks, NEW decision \in {"ALLOW", "DENY", "ASK", "ERROR"},
         NEW executed \in BOOLEAN
  PROVE  WriteLine(task, decision, executed) \in Lines
  BY DEF WriteLine, WriteTasks, Lines

\* A call that ends keeps the types if no request disappears.
LEMMA EndType ==
  ASSUME CallsOK, NEW c \in Calls, NEW line \in Lines, NEW reqs \in Seq(Requests),
         Len(reqs) >= Len(requests), End(c, line, reqs)
  PROVE  CallsOK'
  <1>1. Idle \notin WriteTasks
    BY DEF WriteTasks
  <1>2. call' \in [Calls -> Tasks]
    BY DEF CallsOK, End, Tasks
  <1>3. \A d \in Calls : call'[d] \in WriteTasks => WellFormed(call'[d], Len(requests'))
    BY <1>1 DEF CallsOK, End, WellFormed, Tasks, WriteTasks
  <1>4. QED
    BY <1>2, <1>3 DEF CallsOK, End

\* So does one that closes with its line or without.
LEMMA CloseType ==
  ASSUME CallsOK, NEW c \in Calls, NEW line \in Lines,
         NEW after \in Seq(Requests), Len(after) >= Len(requests),
         NEW before \in Seq(Requests), Len(before) >= Len(requests),
         Close(c, line, after, before)
  PROVE  CallsOK'
  <1>1. NoLine \in Lines
    BY DEF Lines
  <1>2. End(c, line, after) \/ End(c, NoLine, before)
    BY DEF Close
  <1>3. QED
    BY <1>1, <1>2, EndType

\* A task that goes on keeps them if it is well formed.
LEMMA ContinueType ==
  ASSUME CallsOK, NEW c \in Calls, NEW task \in WriteTasks, NEW reqs \in Seq(Requests),
         Len(reqs) = Len(requests), WellFormed(task, Len(reqs)),
         call' = [call EXCEPT ![c] = task], requests' = reqs, audit' = audit
  PROVE  CallsOK'
  BY DEF CallsOK, Tasks, WellFormed

\* A refused write is typed, and a request it settles stays typed.
LEMMA RefuseType ==
  ASSUME CallsOK, NEW c \in Calls, NEW task \in WriteTasks,
         NEW reqs \in Seq(Requests), Len(reqs) = Len(requests),
         task.req \in 0..Len(reqs), Refuse(c, task, reqs)
  PROVE  CallsOK'
  <1>. DEFINE line == WriteLine(task, "DENY", FALSE)
              new == Marked(reqs, task, "DENIED")
  <1>1. line \in Lines
    BY WriteLineType
  <1>2. new \in Seq(Requests) /\ Len(new) = Len(reqs)
    BY MarkedType
  <1>3. Close(c, line, new, new)
    BY DEF Refuse
  <1>4. Len(new) >= Len(requests)
    BY <1>2 DEF CallsOK
  <1>. HIDE DEF line, new
  <1>5. QED
    BY <1>1, <1>2, <1>3, <1>4, CloseType

\* So is one that shadow mode or the backend let end with ALLOW.
LEMMA AllowType ==
  ASSUME CallsOK, NEW c \in Calls, NEW task \in WriteTasks, NEW executed \in BOOLEAN,
         NEW reqs \in Seq(Requests), Len(reqs) = Len(requests), task.req \in 0..Len(reqs),
         Close(c, WriteLine(task, "ALLOW", executed), Marked(reqs, task, "APPROVED"), reqs)
  PROVE  CallsOK'
  <1>. DEFINE line == WriteLine(task, "ALLOW", executed)
              new == Marked(reqs, task, "APPROVED")
  <1>1. line \in Lines
    BY WriteLineType
  <1>2. new \in Seq(Requests) /\ Len(new) = Len(reqs)
    BY MarkedType
  <1>3. Close(c, line, new, reqs) /\ Len(new) >= Len(requests) /\ Len(reqs) >= Len(requests)
    BY <1>2 DEF CallsOK
  <1>. HIDE DEF line, new
  <1>4. QED
    BY <1>1, <1>2, <1>3, CloseType

\* So is one that is parked.
LEMMA ParkType ==
  ASSUME CallsOK, clock \in Nat, NEW c \in Calls, NEW task \in WriteTasks,
         NEW reqs \in Seq(Requests), Len(reqs) = Len(requests), Park(c, task, reqs)
  PROVE  CallsOK'
  <1>. DEFINE line == WriteLine(task, "ASK", FALSE)
              parked == [agent |-> task.agent, tag |-> task.tag, value |-> task.value,
                         created |-> clock, status |-> "PENDING"]
              new == Append(reqs, parked)
  <1>1. line \in Lines
    BY WriteLineType
  <1>2. parked \in Requests
    BY DEF Requests, WriteTasks
  <1>3. Close(c, line, new, new)
    BY DEF Park
  <1>. HIDE DEF line, parked
  <1>4. new \in Seq(Requests) /\ Len(new) >= Len(requests)
    BY <1>2, AppendProperties, LenProperties
  <1>. HIDE DEF new
  <1>5. QED
    BY <1>1, <1>3, <1>4, CloseType

\* So is one that is issued to the backend.
LEMMA IssueType ==
  ASSUME CallsOK, NEW c \in Calls, NEW task \in WriteTasks,
         NEW reqs \in Seq(Requests), Len(reqs) = Len(requests),
         task.req \in 0..Len(reqs), task.tag \in DOMAIN Policy[task.g], Issue(c, task, reqs)
  PROVE  CallsOK'
  <1>. DEFINE issued == [task EXCEPT !.pc = "write"]
  <1>1. issued \in WriteTasks /\ WellFormed(issued, Len(reqs))
    BY DEF WriteTasks, WellFormed
  <1>2. call' = [call EXCEPT ![c] = issued] /\ requests' = reqs /\ audit' = audit
    BY DEF Issue
  <1>. HIDE DEF issued
  <1>3. QED
    BY <1>1, <1>2, ContinueType

\* Whatever the series checks say, the outcome of an evaluation is typed.
LEMMA DecideType ==
  ASSUME CallsOK, clock \in Nat, NEW c \in Calls, NEW task \in WriteTasks,
         NEW reqs \in Seq(Requests), Len(reqs) = Len(requests),
         task.req \in 0..Len(reqs), task.tag \in DOMAIN Policy[task.g],
         Decide(c, task, reqs)
  PROVE  CallsOK'
  <1>1. \/ Refuse(c, task, reqs) \/ Park(c, task, reqs)
        \/ Pretend(c, task, reqs) \/ Issue(c, task, reqs)
    BY DEF Decide, Execute
  <1>2. QED
    BY <1>1, RefuseType, ParkType, AllowType, IssueType DEF Pretend

\* The same for an evaluation from its start.
LEMMA EvaluateType ==
  ASSUME CallsOK, clock \in Nat, NEW c \in Calls, NEW task \in WriteTasks,
         NEW reqs \in Seq(Requests), Len(reqs) = Len(requests),
         task.req \in 0..Len(reqs), task.next = 1, Evaluate(c, task, reqs)
  PROVE  CallsOK'
  <1>1. CASE ~Admits(Policy[task.g], task.tag, task.value) /\ Refuse(c, task, reqs)
    BY <1>1, RefuseType
  <1>2. CASE Admits(Policy[task.g], task.tag, task.value) /\ Decide(c, task, reqs)
    BY <1>2, DecideType DEF Admits
  <1>3. CASE /\ Admits(Policy[task.g], task.tag, task.value)
             /\ Policy[task.g][task.tag].interlocks # <<>>
             /\ call' = [call EXCEPT ![c] = task]
             /\ requests' = reqs
             /\ UNCHANGED audit
    <2>1. Policy[task.g][task.tag].interlocks \in Seq(Interlocks(Tags))
      BY <1>3, PolicyAssumption DEF IsPolicy, IsRule, Admits, WriteTasks
    <2>2. 1 \in 1..Len(Policy[task.g][task.tag].interlocks)
      BY <1>3, <2>1
    <2>3. WellFormed(task, Len(reqs))
      BY <1>3, <2>2 DEF WellFormed, Admits
    <2>4. QED
      BY <1>3, <2>3, ContinueType
  <1>4. QED
    BY <1>1, <1>2, <1>3 DEF Evaluate

-----------------------------------------------------------------------------
(* One lemma per action that moves a task on *)

\* A write starts as a task of the right type.
LEMMA WriteTaskType ==
  ASSUME NEW g \in Agents, NEW tag \in Tags, NEW value \in Scalar, NEW agent \in Agents,
         NEW req \in Nat
  PROVE  /\ WriteTask(g, tag, value, agent, req) \in WriteTasks
         /\ WriteTask(g, tag, value, agent, req).next = 1
         /\ WriteTask(g, tag, value, agent, req).req = req
  BY DEF WriteTask, WriteTasks

\* A write that arrives keeps the types.
LEMMA WriteTagType ==
  ASSUME TypeOK, NEW c \in Calls, NEW input \in Writes, WriteTag(c, input)
  PROVE  CallsOK'
  <1>. DEFINE task == WriteTask(input.agent, input.tag, input.value, input.agent, 0)
  <1>1. task \in WriteTasks /\ task.next = 1 /\ task.req = 0
    BY InputsAssumption, WriteTaskType
  <1>2. CallsOK /\ requests \in Seq(Requests) /\ clock \in Nat /\ 0 \in 0..Len(requests)
    BY LenProperties DEF TypeOK, CallsOK, Tasks
  <1>3. Evaluate(c, task, requests)
    BY DEF WriteTag
  <1>. HIDE DEF task
  <1>4. QED
    BY <1>1, <1>2, <1>3, EvaluateType

\* A read that arrives does.
LEMMA ReadTagType ==
  ASSUME TypeOK, NEW c \in Calls, NEW input \in Reads, ReadTag(c, input)
  PROVE  CallsOK'
  <1>. DEFINE task == ReadTask(input.agent, input.tag)
              line == ReadLine(input.agent, input.tag, "DENY", FALSE)
  <1>1. CallsOK /\ requests \in Seq(Requests)
    BY DEF TypeOK, CallsOK, Tasks
  <1>2. task \in Tasks /\ task \notin WriteTasks /\ line \in Lines
    BY InputsAssumption DEF ReadTask, ReadLine, ReadTasks, WriteTasks, Tasks, Lines
  <1>3. \/ call' = [call EXCEPT ![c] = task] /\ requests' = requests /\ audit' = audit
        \/ Close(c, line, requests, requests)
    BY DEF ReadTag
  <1>4. Len(requests) \in Nat
    BY <1>1, LenProperties
  <1>. HIDE DEF task, line
  <1>5. CASE call' = [call EXCEPT ![c] = task] /\ requests' = requests /\ audit' = audit
    BY <1>1, <1>2, <1>5 DEF CallsOK, WellFormed
  <1>6. CASE Close(c, line, requests, requests)
    BY <1>1, <1>2, <1>4, <1>6, CloseType
  <1>7. QED
    BY <1>3, <1>5, <1>6

\* The re-check of a parked request starts as a task of the right type.
LEMMA ApprovalTaskType ==
  ASSUME requests \in Seq(Requests), NEW r \in DOMAIN requests
  PROVE  /\ ApprovalTask(r) \in WriteTasks
         /\ ApprovalTask(r).next = 1
         /\ ApprovalTask(r).req = r
         /\ r \in 1..Len(requests)
  <1>1. r \in 1..Len(requests) /\ Len(requests) \in Nat
    BY LenProperties
  <1>2. requests[r] \in Requests
    BY <1>1, ElementOfSeq
  <1>3. /\ requests[r].agent \in Agents /\ requests[r].tag \in Tags
        /\ requests[r].value \in Scalar
    BY <1>2 DEF Requests
  <1>4. QED
    BY <1>1, <1>3, AgentsAssumption, WriteTaskType DEF ApprovalTask

\* Approve and deny do.
LEMMA ApproveType ==
  ASSUME TypeOK, NEW c \in Calls, NEW r \in DOMAIN requests, Approve(c, r) \/ Deny(c, r)
  PROVE  CallsOK'
  <1>. DEFINE task == ApprovalTask(r)
              reqs == Expired(requests)
  <1>1. CallsOK /\ requests \in Seq(Requests) /\ clock \in Nat
    BY DEF TypeOK, CallsOK, Tasks
  <1>2. task \in WriteTasks /\ task.next = 1 /\ task.req = r /\ r \in 1..Len(requests)
    BY <1>1, ApprovalTaskType
  <1>3. reqs \in Seq(Requests) /\ Len(reqs) = Len(requests)
    BY <1>1, ExpiredType
  <1>4. Evaluate(c, task, reqs) \/ Refuse(c, task, reqs)
    BY DEF Approve, Deny
  <1>5. task.req \in 0..Len(reqs)
    BY <1>2, <1>3
  <1>. HIDE DEF task, reqs
  <1>6. QED
    BY <1>1, <1>2, <1>3, <1>4, <1>5, EvaluateType, RefuseType

\* The pc of a task tells what kind of task it is.
LEMMA TaskAt ==
  ASSUME TypeOK, NEW c \in Calls
  PROVE  /\ call[c].pc = "read" => call[c] \in ReadTasks
         /\ call[c].pc \in {"interlock", "write"} =>
              /\ call[c] \in WriteTasks
              /\ WellFormed(call[c], Len(requests))
  <1>1. call[c] \in {Idle} \cup ReadTasks \cup WriteTasks
    BY DEF TypeOK
  <1>2. call[c] \in ReadTasks => call[c].pc = "read"
    BY DEF ReadTasks
  <1>3. call[c] \in WriteTasks => call[c].pc \in {"interlock", "write"}
    BY DEF WriteTasks
  <1>4. call[c] \in WriteTasks => WellFormed(call[c], Len(requests))
    BY DEF TypeOK
  <1>5. Idle.pc = "idle"
    OBVIOUS
  <1>6. QED
    BY <1>1, <1>2, <1>3, <1>4, <1>5

\* A task that has read one more interlock.
LEMMA NextInterlock ==
  ASSUME NEW task \in WriteTasks, NEW shown, shown \subseteq Interlocks(Tags)
  PROVE  LET read == [task EXCEPT !.next = @ + 1, !.clear = @ \cup shown]
         IN  /\ read \in WriteTasks /\ read.tag = task.tag /\ read.g = task.g
             /\ read.req = task.req /\ read.next = task.next + 1
  <1>. DEFINE n == task.next + 1
              k == task.clear \cup shown
  <1>1. n \in Nat /\ k \in SUBSET Interlocks(Tags)
    BY DEF WriteTasks
  <1>. HIDE DEF n, k
  <1>2. [task EXCEPT !.next = n, !.clear = k] \in WriteTasks
    BY <1>1 DEF WriteTasks
  <1>3. LET read == [task EXCEPT !.next = n, !.clear = k]
        IN  /\ read.tag = task.tag /\ read.g = task.g
            /\ read.req = task.req /\ read.next = n
    BY DEF WriteTasks
  <1>4. QED
    BY <1>2, <1>3 DEF n, k

\* A reply to an interlock read keeps the types, whatever it says.
LEMMA InterlockReplyType ==
  ASSUME TypeOK, NEW c \in Calls, InterlockReply(c)
  PROVE  CallsOK'
  <1>. DEFINE task  == call[c]
              locks == Policy[task.g][task.tag].interlocks
              lock  == locks[task.next]
              shown == {l \in {lock} : Reachable(l.tag) /\ IsOff(l)}
              read  == [task EXCEPT !.next = @ + 1, !.clear = @ \cup shown]
  <1>1. CallsOK /\ requests \in Seq(Requests) /\ clock \in Nat
    BY DEF TypeOK, CallsOK, Tasks
  <1>2. task \in WriteTasks /\ WellFormed(task, Len(requests)) /\ task.pc = "interlock"
    BY TaskAt DEF InterlockReply
  <1>3. task.tag \in DOMAIN Policy[task.g] /\ task.req \in 0..Len(requests)
        /\ task.next \in 1..Len(locks)
    BY <1>2 DEF WellFormed
  <1>4. locks \in Seq(Interlocks(Tags))
    BY <1>2, <1>3, PolicyAssumption DEF WriteTasks, IsPolicy, IsRule
  <1>5. lock \in Interlocks(Tags)
    BY <1>3, <1>4, ElementOfSeq
  <1>6. /\ read \in WriteTasks /\ read.tag = task.tag /\ read.g = task.g
        /\ read.req = task.req /\ read.next = task.next + 1
    <2>1. shown \subseteq Interlocks(Tags)
      BY <1>5
    <2>. HIDE DEF task, shown
    <2>2. QED
      BY <1>2, <2>1, NextInterlock
  <1>7. \/ Refuse(c, task, requests)
        \/ /\ task.next < Len(locks)
           /\ call' = [call EXCEPT ![c] = read] /\ requests' = requests /\ audit' = audit
        \/ Decide(c, read, requests)
    BY DEF InterlockReply
  <1>8. CASE Refuse(c, task, requests)
    <2>. HIDE DEF task
    <2>1. QED
      BY <1>1, <1>2, <1>3, <1>8, RefuseType
  <1>9. CASE /\ task.next < Len(locks)
             /\ call' = [call EXCEPT ![c] = read] /\ requests' = requests /\ audit' = audit
    <2>1. Len(locks) \in Nat
      BY <1>4, LenProperties
    <2>2. read.next \in 1..Len(locks)
      BY <1>3, <1>6, <1>9, <2>1
    <2>3. WellFormed(read, Len(requests))
      BY <1>3, <1>6, <2>2 DEF WellFormed
    <2>. HIDE DEF read, task
    <2>4. QED
      BY <1>1, <1>6, <1>9, <2>3, ContinueType
  <1>10. CASE Decide(c, read, requests)
    <2>1. read.req \in 0..Len(requests) /\ read.tag \in DOMAIN Policy[read.g]
      BY <1>3, <1>6
    <2>. HIDE DEF read, task
    <2>2. QED
      BY <1>1, <1>6, <1>10, <2>1, DecideType
  <1>11. QED
    BY <1>7, <1>8, <1>9, <1>10

\* A read reply ends the read.
LEMMA ReadReplyType ==
  ASSUME TypeOK, NEW c \in Calls, ReadReply(c)
  PROVE  CallsOK'
  <1>1. CallsOK /\ requests \in Seq(Requests) /\ Len(requests) \in Nat
    BY LenProperties DEF TypeOK, CallsOK, Tasks
  <1>2. call[c] \in ReadTasks
    BY TaskAt DEF ReadReply
  <1>3. /\ ReadLine(call[c].agent, call[c].tag, "ALLOW", TRUE) \in Lines
        /\ ReadLine(call[c].agent, call[c].tag, "ERROR", FALSE) \in Lines
    BY <1>2 DEF ReadTasks, ReadLine, Lines
  <1>4. \E line \in Lines : Close(c, line, requests, requests)
    BY <1>3 DEF ReadReply
  <1>5. QED
    BY <1>1, <1>4, CloseType

\* A write that lands or is issued again only changes its own bookkeeping.
LEMMA AckType ==
  ASSUME TypeOK, NEW c \in Calls, call[c].pc = "write", NEW ack \in BOOLEAN, NEW n \in {1, 2},
         call' = [call EXCEPT ![c] = [call[c] EXCEPT !.attempt = n, !.ack = ack]],
         requests' = requests, audit' = audit
  PROVE  CallsOK'
  <1>. DEFINE task == [call[c] EXCEPT !.attempt = n, !.ack = ack]
  <1>1. CallsOK /\ requests \in Seq(Requests)
    BY DEF TypeOK, CallsOK, Tasks
  <1>2. call[c] \in WriteTasks /\ WellFormed(call[c], Len(requests))
    BY TaskAt
  <1>3. task \in WriteTasks /\ WellFormed(task, Len(requests))
    BY <1>2 DEF WriteTasks, WellFormed
  <1>4. call' = [call EXCEPT ![c] = task]
    OBVIOUS
  <1>. HIDE DEF task
  <1>5. QED
    BY <1>1, <1>3, <1>4, ContinueType

\* A write whose effect is known ends, and so does one that raises.
LEMMA WriteEndsType ==
  ASSUME TypeOK, NEW c \in Calls, WriteReturns(c) \/ WriteRaises(c)
  PROVE  CallsOK'
  <1>. DEFINE task == call[c]
  <1>1. CallsOK /\ requests \in Seq(Requests) /\ Len(requests) \in Nat
    BY LenProperties DEF TypeOK, CallsOK, Tasks
  <1>2. task \in WriteTasks /\ task.req \in 0..Len(requests)
    BY TaskAt DEF WriteReturns, WriteRaises, WellFormed
  <1>3. \/ Close(c, WriteLine(task, "ALLOW", TRUE), Marked(requests, task, "APPROVED"), requests)
        \/ Close(c, WriteLine(task, "ERROR", FALSE), requests, requests)
    BY DEF WriteReturns, WriteRaises
  <1>4. WriteLine(task, "ERROR", FALSE) \in Lines
    BY <1>2, WriteLineType
  <1>. HIDE DEF task
  <1>5. CASE Close(c, WriteLine(task, "ALLOW", TRUE), Marked(requests, task, "APPROVED"), requests)
    BY <1>1, <1>2, <1>5, AllowType
  <1>6. CASE Close(c, WriteLine(task, "ERROR", FALSE), requests, requests)
    <2>. DEFINE line == WriteLine(task, "ERROR", FALSE)
    <2>1. line \in Lines /\ Close(c, line, requests, requests)
      BY <1>4, <1>6
    <2>. HIDE DEF line
    <2>2. QED
      BY <1>1, <2>1, CloseType
  <1>7. QED
    BY <1>3, <1>5, <1>6

\* What landed, and what is recorded of it, has its type.
LEMMA LandType ==
  ASSUME TypeOK, NEW c \in Calls, Land(c)
  PROVE  TypeOK'
  <1>1. call[c] \in WriteTasks
    BY TaskAt DEF Land
  <1>2. call[c].attempt \in {1, 2}
    BY <1>1 DEF WriteTasks
  <1>3. call' = [call EXCEPT ![c] = [call[c] EXCEPT !.attempt = call[c].attempt, !.ack = TRUE]]
    BY <1>1 DEF Land, WriteTasks
  <1>4. CallsOK'
    BY <1>2, <1>3, AckType DEF Land
  <1>5. tags' \in [Tags -> Scalar]
    BY <1>1 DEF TypeOK, Land, WriteTasks
  <1>. DEFINE hit == [agent |-> call[c].agent, tag |-> call[c].tag,
                      value |-> call[c].value, req |-> call[c].req, ts |-> clock]
  <1>6. hit \in Landings
    BY <1>1 DEF TypeOK, Landings, WriteTasks
  <1>7. landed' = Append(landed, hit)
    BY DEF Land
  <1>. HIDE DEF hit
  <1>8. landed' \in Seq(Landings)
    BY <1>6, <1>7, AppendProperties DEF TypeOK
  <1>9. QED
    BY <1>4, <1>5, <1>8 DEF TypeOK, CallsOK, Tasks, Land

\* The record of a write that returned has its type.
LEMMA RecordedType ==
  ASSUME NEW recs \in Seq(Record), NEW value \in Scalar, NEW now \in Int
  PROVE  Recorded(recs, value, now) \in Seq(Record)
  <1>1. value.n \in Int
    <2>1. CASE value \in [bool : {FALSE}, n : Int]
      BY <2>1
    <2>2. CASE value \in [bool : {TRUE}, n : {0, 1}]
      BY <2>2
    <2>3. QED
      BY <2>1, <2>2 DEF Scalar
  <1>. DEFINE rec == [ts |-> now, value |-> value.n]
  <1>2. rec \in Record
    BY <1>1 DEF Record
  <1>3. \/ Recorded(recs, value, now) = recs
        \/ Recorded(recs, value, now) = Append(recs, rec)
    BY DEF Recorded
  <1>. HIDE DEF rec
  <1>4. Append(recs, rec) \in Seq(Record)
    BY <1>2, AppendProperties
  <1>5. QED
    BY <1>3, <1>4

\* A write that returns keeps every type.
LEMMA WriteReturnsType ==
  ASSUME TypeOK, NEW c \in Calls, WriteReturns(c)
  PROVE  TypeOK'
  <1>1. CallsOK'
    BY WriteEndsType
  <1>2. call[c] \in WriteTasks
    BY TaskAt DEF WriteReturns
  <1>3. call[c].g \in Agents /\ call[c].tag \in Tags /\ call[c].value \in Scalar
    BY <1>2 DEF WriteTasks
  <1>. DEFINE s == StoreOf(call[c].g)
              tag == call[c].tag
              recs == Recorded(history[s][tag], call[c].value, clock)
  <1>4. s \in Stores
    BY <1>3 DEF Stores
  <1>5. recs \in Seq(Record)
    <2>1. history[s][tag] \in Seq(Record) /\ clock \in Int
      BY <1>3, <1>4 DEF TypeOK
    <2>. HIDE DEF s, tag
    <2>2. QED
      BY <1>3, <2>1, RecordedType DEF tag
  <1>6. history' = [history EXCEPT ![s][tag] = recs]
    BY DEF WriteReturns
  <1>. HIDE DEF s, recs
  <1>7. history' \in [Stores -> [Tags -> Seq(Record)]]
    BY <1>3, <1>4, <1>5, <1>6 DEF TypeOK
  <1>8. QED
    BY <1>1, <1>7 DEF TypeOK, CallsOK, Tasks, WriteReturns, plant

\* A restart leaves idle slots and requests that are gone.
LEMMA RestartType ==
  ASSUME TypeOK, Restart
  PROVE  TypeOK'
  <1>1. NoHistory \in [Stores -> [Tags -> Seq(Record)]]
    BY EmptySeq DEF NoHistory
  <1>2. history' \in [Stores -> [Tags -> Seq(Record)]]
    BY <1>1 DEF TypeOK, Restart
  <1>3. \A r \in DOMAIN requests : [requests[r] EXCEPT !.status = "GONE"] \in Requests
    <2>1. \A r \in DOMAIN requests : requests[r] \in Requests
      BY LenProperties, ElementOfSeq DEF TypeOK
    <2>2. QED
      BY <2>1 DEF Requests
  <1>4. requests' \in [DOMAIN requests -> Requests]
    BY <1>3 DEF Restart
  <1>5. requests' \in Seq(Requests)
    BY <1>4, StatusType DEF TypeOK
  <1>6. Idle \notin WriteTasks
    BY DEF WriteTasks
  <1>7. QED
    BY <1>2, <1>5, <1>6 DEF TypeOK, Restart, plant

\* TypeOK holds at the start.
LEMMA TypeInit == Init => TypeOK
  <1>. SUFFICES ASSUME Init PROVE TypeOK
    OBVIOUS
  <1>1. /\ requests \in Seq(Requests) /\ audit \in Seq(Lines) /\ landed \in Seq(Landings)
    BY EmptySeq DEF Init
  <1>2. history \in [Stores -> [Tags -> Seq(Record)]]
    BY EmptySeq DEF Init, NoHistory
  <1>3. Idle \notin WriteTasks
    BY DEF WriteTasks
  <1>4. QED
    BY <1>1, <1>2, <1>3, PlantAssumption DEF Init, TypeOK

\* Every step keeps TypeOK.
LEMMA TypeStep ==
  ASSUME TypeOK, [Next]_vars
  PROVE  TypeOK'
  <1>1. ASSUME NEW c \in Calls, NEW input \in Writes, WriteTag(c, input)
        PROVE  TypeOK'
    BY <1>1, WriteTagType DEF TypeOK, CallsOK, Tasks, WriteTag, plant
  <1>2. ASSUME NEW c \in Calls, NEW input \in Reads, ReadTag(c, input)
        PROVE  TypeOK'
    BY <1>2, ReadTagType DEF TypeOK, CallsOK, Tasks, ReadTag, plant
  <1>3. ASSUME NEW c \in Calls, NEW r \in DOMAIN requests, Approve(c, r) \/ Deny(c, r)
        PROVE  TypeOK'
    <2>1. CallsOK'
      BY <1>3, ApproveType
    <2>2. UNCHANGED <<clock, plant, history, landed, restarts>>
      BY <1>3 DEF Approve, Deny
    <2>3. QED
      BY <2>1, <2>2 DEF TypeOK, CallsOK, Tasks, plant
  <1>4. ASSUME NEW c \in Calls, InterlockReply(c)
        PROVE  TypeOK'
    <2>1. CallsOK'
      BY <1>4, InterlockReplyType
    <2>2. UNCHANGED <<clock, plant, history, landed, restarts>>
      BY <1>4 DEF InterlockReply
    <2>3. QED
      BY <2>1, <2>2 DEF TypeOK, CallsOK, Tasks, plant
  <1>5. ASSUME NEW c \in Calls, ReadReply(c)
        PROVE  TypeOK'
    BY <1>5, ReadReplyType DEF TypeOK, CallsOK, Tasks, ReadReply, plant
  <1>6. ASSUME NEW c \in Calls, Land(c)
        PROVE  TypeOK'
    BY <1>6, LandType
  <1>7. ASSUME NEW c \in Calls, WriteReturns(c)
        PROVE  TypeOK'
    BY <1>7, WriteReturnsType
  <1>8. ASSUME NEW c \in Calls, Retry(c)
        PROVE  TypeOK'
    <2>1. call' = [call EXCEPT ![c] = [call[c] EXCEPT !.attempt = 2, !.ack = FALSE]]
      BY <1>8 DEF Retry
    <2>2. call[c].pc = "write" /\ requests' = requests /\ audit' = audit
      BY <1>8 DEF Retry
    <2>3. CallsOK'
      BY <2>1, <2>2, AckType
    <2>4. UNCHANGED <<clock, plant, history, landed, restarts>>
      BY <1>8 DEF Retry
    <2>5. QED
      BY <2>3, <2>4 DEF TypeOK, CallsOK, Tasks, plant
  <1>9. ASSUME NEW c \in Calls, WriteRaises(c)
        PROVE  TypeOK'
    BY <1>9, WriteEndsType DEF TypeOK, CallsOK, Tasks, WriteRaises, plant
  <1>10. CASE Inspect
    <2>1. requests' \in Seq(Requests) /\ Len(requests') = Len(requests)
      BY <1>10, ExpiredType DEF TypeOK, Inspect
    <2>2. QED
      BY <1>10, <2>1 DEF TypeOK, Inspect, plant, WellFormed
  <1>11. CASE Tick
    BY <1>11 DEF TypeOK, Tick, plant, WellFormed
  <1>12. ASSUME NEW move \in Moves, PlantMoves(move)
         PROVE  TypeOK'
    <2>1. tags' \in [Tags -> Scalar]
      BY <1>12, InputsAssumption DEF TypeOK, PlantMoves
    <2>2. QED
      BY <1>12, <2>1 DEF TypeOK, PlantMoves, WellFormed
  <1>13. CASE BackendFlips
    BY <1>13 DEF TypeOK, BackendFlips, WellFormed
  <1>14. CASE Restart
    BY <1>14, RestartType
  <1>15. CASE UNCHANGED vars
    BY <1>15 DEF TypeOK, vars, WellFormed
  <1>16. QED
    BY <1>1, <1>2, <1>3, <1>4, <1>5, <1>6, <1>7, <1>8, <1>9, <1>10, <1>11, <1>12, <1>13,
       <1>14, <1>15 DEF Next, Progress

\* Every reachable state is well typed, for any policies, agents, tags, inputs and
\* bounds: a task in flight always has a rule, an existing request and, while it waits
\* for an interlock, one that its rule lists.
THEOREM TypeCorrect == Spec => []TypeOK
  <1>1. Init => TypeOK
    BY TypeInit
  <1>2. TypeOK /\ [Next]_vars => TypeOK'
    BY TypeStep
  <1>3. QED
    BY <1>1, <1>2, PTL DEF Spec

-----------------------------------------------------------------------------
(* Authorised writes and interlocks.  LandedWasAuthorised and NeverUnverified *)
(* are not inductive: they are about a write at the backend, and what makes   *)
(* them true was established awaits earlier.  The strengthening says of every *)
(* write in progress whose policy it was evaluated under, which request it    *)
(* carries out, and that the interlocks before the next one were seen off.    *)

LocksOf(task) == Policy[task.g][task.tag].interlocks

\* How many of its interlocks a task has behind it.
Passed(task) == IF task.pc = "write" THEN Len(LocksOf(task)) ELSE task.next - 1

\* A write in progress is evaluated under its own agent's policy, or carries out a
\* request as parked; its access level lets it go on; what it has passed is clear.
Held(task, reqs) ==
  /\ task.req = 0 => task.g = task.agent
  /\ task.req # 0 =>
       <<reqs[task.req].agent, reqs[task.req].tag, reqs[task.req].value>>
         = <<task.agent, task.tag, task.value>>
  /\ Policy[task.g][task.tag].access \in {"write", "write_with_approval"}
  /\ task.pc = "write" => ~Asks(task)
  /\ \A i \in 1..Passed(task) : LocksOf(task)[i] \in task.clear

AllHeld == \A c \in Calls : call[c] \in WriteTasks => Held(call[c], requests)

\* One landing is authorised by the policy, or by the request it names.
Authorised(hit, reqs) ==
  /\ hit.req \in 0..Len(reqs)
  /\ hit.req = 0 =>
       hit.tag \in DOMAIN Policy[hit.agent] /\ Policy[hit.agent][hit.tag].access = "write"
  /\ hit.req # 0 =>
       <<reqs[hit.req].agent, reqs[hit.req].tag, reqs[hit.req].value>>
         = <<hit.agent, hit.tag, hit.value>>

AllAuthorised == \A i \in DOMAIN landed : Authorised(landed[i], requests)

Strong == TypeOK /\ AllHeld /\ AllAuthorised

-----------------------------------------------------------------------------
(* Requests are settled and added, never rewritten *)

Keeps(old, new) ==
  /\ Len(old) <= Len(new)
  /\ \A r \in 1..Len(old) :
       <<new[r].agent, new[r].tag, new[r].value>> = <<old[r].agent, old[r].tag, old[r].value>>

\* Expiring changes no more than statuses.
LEMMA ExpiredKeeps ==
  ASSUME NEW reqs \in Seq(Requests)
  PROVE  Keeps(reqs, Expired(reqs))
  <1>1. Len(Expired(reqs)) = Len(reqs) /\ Len(reqs) \in Nat
    BY ExpiredType, LenProperties
  <1>2. \A r \in 1..Len(reqs) : reqs[r] \in Requests
    BY ElementOfSeq
  <1>3. \A r \in 1..Len(reqs) :
          Expired(reqs)[r] \in {reqs[r], [reqs[r] EXCEPT !.status = "EXPIRED"]}
    BY LenProperties DEF Expired
  <1>4. \A r \in 1..Len(reqs) :
          /\ Expired(reqs)[r].agent = reqs[r].agent
          /\ Expired(reqs)[r].tag = reqs[r].tag
          /\ Expired(reqs)[r].value = reqs[r].value
    BY <1>2, <1>3 DEF Requests
  <1>5. QED
    BY <1>1, <1>4 DEF Keeps

\* So does marking.
LEMMA MarkedKeeps ==
  ASSUME NEW reqs \in Seq(Requests), NEW task \in WriteTasks, task.req \in 0..Len(reqs),
         NEW status \in {"PENDING", "APPROVED", "DENIED", "EXPIRED", "GONE"}
  PROVE  Keeps(reqs, Marked(reqs, task, status))
  <1>1. Len(Marked(reqs, task, status)) = Len(reqs) /\ Len(reqs) \in Nat
    BY MarkedType, LenProperties
  <1>2. \A r \in 1..Len(reqs) : reqs[r] \in Requests
    BY ElementOfSeq
  <1>3. \A r \in 1..Len(reqs) :
          Marked(reqs, task, status)[r] \in {reqs[r], [reqs[r] EXCEPT !.status = status]}
    BY LenProperties DEF Marked
  <1>4. \A r \in 1..Len(reqs) :
          /\ Marked(reqs, task, status)[r].agent = reqs[r].agent
          /\ Marked(reqs, task, status)[r].tag = reqs[r].tag
          /\ Marked(reqs, task, status)[r].value = reqs[r].value
    BY <1>2, <1>3 DEF Requests
  <1>5. QED
    BY <1>1, <1>4 DEF Keeps

\* A request that is added leaves the others alone.
LEMMA AppendKeeps ==
  ASSUME NEW reqs \in Seq(Requests), NEW new \in Requests
  PROVE  Keeps(reqs, Append(reqs, new))
  BY AppendProperties, LenProperties DEF Keeps

\* Two changes in a row are one.
LEMMA KeepsTransitive ==
  ASSUME NEW a \in Seq(Requests), NEW b \in Seq(Requests), NEW d \in Seq(Requests),
         Keeps(a, b), Keeps(b, d)
  PROVE  Keeps(a, d)
  <1>1. Len(a) \in Nat /\ Len(b) \in Nat /\ Len(d) \in Nat
    BY LenProperties
  <1>2. QED
    BY <1>1 DEF Keeps

\* A task that is held stays held.
LEMMA HeldKeeps ==
  ASSUME NEW old \in Seq(Requests), NEW new, Keeps(old, new),
         NEW task, task.req \in 0..Len(old), Held(task, old)
  PROVE  Held(task, new)
  <1>1. Len(old) \in Nat
    BY LenProperties
  <1>2. task.req # 0 => task.req \in 1..Len(old)
    BY <1>1
  <1>3. QED
    BY <1>2 DEF Keeps, Held

\* A landing that was authorised stays authorised.
LEMMA AuthorisedKeeps ==
  ASSUME NEW old \in Seq(Requests), NEW new \in Seq(Requests), Keeps(old, new),
         NEW hit, Authorised(hit, old)
  PROVE  Authorised(hit, new)
  <1>1. Len(old) \in Nat /\ Len(new) \in Nat
    BY LenProperties
  <1>2. hit.req # 0 => hit.req \in 1..Len(old)
    BY <1>1 DEF Authorised
  <1>3. hit.req \in 0..Len(new)
    BY <1>1 DEF Keeps, Authorised
  <1>4. QED
    BY <1>2, <1>3 DEF Keeps, Authorised

-----------------------------------------------------------------------------
(* What the outcomes of an evaluation do to the tasks *)

\* The requests are only settled or added to, and every task stays held.
Good == AllHeld' /\ Keeps(requests, requests')

\* What every evaluation starts from.
Fit(c, task, reqs) ==
  /\ TypeOK /\ AllHeld
  /\ c \in Calls
  /\ task \in WriteTasks
  /\ task.req \in 0..Len(reqs)
  /\ reqs \in Seq(Requests)
  /\ Keeps(requests, reqs)

\* A change that leaves every other task alone and keeps this one held is good.
LEMMA OthersHeld ==
  ASSUME TypeOK, AllHeld, NEW c \in Calls, NEW task, call' = [call EXCEPT ![c] = task],
         Keeps(requests, requests'), task \in WriteTasks => Held(task, requests')
  PROVE  Good
  <1>1. \A d \in Calls : call[d] \in WriteTasks => Held(call[d], requests')
    <2>. SUFFICES ASSUME NEW d \in Calls, call[d] \in WriteTasks
                  PROVE  Held(call[d], requests')
      OBVIOUS
    <2>1. Held(call[d], requests) /\ requests \in Seq(Requests)
      BY DEF TypeOK, AllHeld
    <2>2. call[d].req \in 0..Len(requests)
      BY DEF TypeOK, WellFormed
    <2>3. QED
      BY <2>1, <2>2, HeldKeeps
  <1>2. \A d \in Calls : call'[d] = IF d = c THEN task ELSE call[d]
    BY DEF TypeOK
  <1>3. QED
    BY <1>1, <1>2 DEF Good, AllHeld

\* A call that ends is good.
LEMMA EndGood ==
  ASSUME TypeOK, AllHeld, NEW c \in Calls, NEW line, NEW reqs, Keeps(requests, reqs),
         End(c, line, reqs)
  PROVE  Good
  <1>1. Idle \notin WriteTasks
    BY DEF WriteTasks, Idle
  <1>2. call' = [call EXCEPT ![c] = Idle] /\ requests' = reqs
    BY DEF End
  <1>3. QED
    BY <1>1, <1>2, OthersHeld

\* So is one that closes, with its line or without.
LEMMA CloseGood ==
  ASSUME TypeOK, AllHeld, NEW c \in Calls, NEW line, NEW after, Keeps(requests, after),
         NEW before, Keeps(requests, before), Close(c, line, after, before)
  PROVE  Good
  BY EndGood DEF Close

\* So is one that closes and settles its request.
LEMMA SettleGood ==
  ASSUME NEW c, NEW task, NEW reqs, Fit(c, task, reqs), NEW line,
         NEW status \in {"PENDING", "APPROVED", "DENIED", "EXPIRED", "GONE"},
         NEW before \in {reqs, Marked(reqs, task, status)},
         Close(c, line, Marked(reqs, task, status), before)
  PROVE  Good
  <1>. DEFINE new == Marked(reqs, task, status)
  <1>1. Keeps(reqs, new) /\ new \in Seq(Requests)
    BY MarkedKeeps, MarkedType DEF Fit
  <1>2. Close(c, line, new, before) /\ before \in {reqs, new}
    OBVIOUS
  <1>. HIDE DEF new
  <1>3. Keeps(requests, new)
    BY <1>1, KeepsTransitive DEF Fit, TypeOK
  <1>4. Keeps(requests, before)
    BY <1>2, <1>3 DEF Fit
  <1>5. QED
    BY <1>2, <1>3, <1>4, CloseGood DEF Fit

LEMMA RefuseGood ==
  ASSUME NEW c, NEW task, NEW reqs, Fit(c, task, reqs), Refuse(c, task, reqs)
  PROVE  Good
  <1>. DEFINE line == WriteLine(task, "DENY", FALSE)
  <1>1. Close(c, line, Marked(reqs, task, "DENIED"), Marked(reqs, task, "DENIED"))
    BY DEF Refuse
  <1>. HIDE DEF line
  <1>2. QED
    BY <1>1, SettleGood

LEMMA PretendGood ==
  ASSUME NEW c, NEW task, NEW reqs, Fit(c, task, reqs), Pretend(c, task, reqs)
  PROVE  Good
  <1>. DEFINE line == WriteLine(task, "ALLOW", FALSE)
  <1>1. Close(c, line, Marked(reqs, task, "APPROVED"), reqs)
    BY DEF Pretend
  <1>. HIDE DEF line
  <1>2. QED
    BY <1>1, SettleGood

LEMMA ParkGood ==
  ASSUME NEW c, NEW task, NEW reqs, Fit(c, task, reqs), Park(c, task, reqs)
  PROVE  Good
  <1>. DEFINE line == WriteLine(task, "ASK", FALSE)
              parked == [agent |-> task.agent, tag |-> task.tag, value |-> task.value,
                         created |-> clock, status |-> "PENDING"]
              new == Append(reqs, parked)
  <1>1. parked \in Requests
    BY DEF Fit, TypeOK, WriteTasks, Requests
  <1>2. Close(c, line, new, new)
    BY DEF Park
  <1>. HIDE DEF line, parked
  <1>3. Keeps(reqs, new) /\ new \in Seq(Requests)
    BY <1>1, AppendKeeps, AppendProperties DEF Fit
  <1>. HIDE DEF new
  <1>4. Keeps(requests, new)
    BY <1>3, KeepsTransitive DEF Fit, TypeOK
  <1>5. QED
    BY <1>2, <1>4, CloseGood DEF Fit

\* A write that is issued has all its interlocks behind it.
LEMMA IssueGood ==
  ASSUME NEW c, NEW task, NEW reqs, Fit(c, task, reqs), Held(task, reqs), ~Asks(task),
         \A i \in 1..Len(LocksOf(task)) : LocksOf(task)[i] \in task.clear,
         Issue(c, task, reqs)
  PROVE  Good
  <1>. DEFINE issued == [task EXCEPT !.pc = "write"]
  <1>1. /\ issued.pc = "write" /\ issued.g = task.g /\ issued.agent = task.agent
        /\ issued.tag = task.tag /\ issued.value = task.value /\ issued.req = task.req
        /\ issued.clear = task.clear
    BY DEF Fit, WriteTasks
  <1>2. call' = [call EXCEPT ![c] = issued] /\ requests' = reqs
    BY DEF Issue
  <1>. HIDE DEF issued
  <1>3. Held(issued, reqs)
    BY <1>1 DEF Held, Asks, LocksOf, Passed
  <1>4. QED
    BY <1>2, <1>3, OthersHeld DEF Fit

\* Decide runs once every interlock of the rule has been seen to be off.
LEMMA DecideGood ==
  ASSUME NEW c, NEW task, NEW reqs, Fit(c, task, reqs), Held(task, reqs),
         \A i \in 1..Len(LocksOf(task)) : LocksOf(task)[i] \in task.clear,
         Decide(c, task, reqs)
  PROVE  Good
  <1>1. \/ Refuse(c, task, reqs)
        \/ Park(c, task, reqs)
        \/ ~Asks(task) /\ (Pretend(c, task, reqs) \/ Issue(c, task, reqs))
    BY DEF Decide, Execute
  <1>2. QED
    BY <1>1, RefuseGood, ParkGood, PretendGood, IssueGood

\* An evaluation starts with nothing behind it.
LEMMA EvaluateGood ==
  ASSUME NEW c, NEW task, NEW reqs, Fit(c, task, reqs),
         task.pc = "interlock", task.next = 1,
         task.req = 0 => task.g = task.agent,
         task.req # 0 =>
           <<reqs[task.req].agent, reqs[task.req].tag, reqs[task.req].value>>
             = <<task.agent, task.tag, task.value>>,
         Evaluate(c, task, reqs)
  PROVE  Good
  <1>1. CASE Refuse(c, task, reqs)
    BY <1>1, RefuseGood
  <1>2. ASSUME Admits(Policy[task.g], task.tag, task.value)
        PROVE  Held(task, reqs)
    BY <1>2 DEF Held, Admits, Passed
  <1>3. CASE /\ Admits(Policy[task.g], task.tag, task.value)
             /\ LocksOf(task) = <<>>
             /\ Decide(c, task, reqs)
    BY <1>2, <1>3, DecideGood
  <1>4. CASE /\ Admits(Policy[task.g], task.tag, task.value)
             /\ call' = [call EXCEPT ![c] = task]
             /\ requests' = reqs
    BY <1>2, <1>4, OthersHeld DEF Fit
  <1>5. QED
    BY <1>1, <1>3, <1>4 DEF Evaluate, LocksOf

-----------------------------------------------------------------------------
(* The actions *)

\* A write that arrives is good.
LEMMA WriteTagGood ==
  ASSUME TypeOK, AllHeld, NEW c \in Calls, NEW input \in Writes, WriteTag(c, input)
  PROVE  Good
  <1>. DEFINE task == WriteTask(input.agent, input.tag, input.value, input.agent, 0)
  <1>1. task \in WriteTasks /\ task.next = 1 /\ task.req = 0
    BY InputsAssumption, WriteTaskType
  <1>2. task.pc = "interlock" /\ task.g = task.agent
    BY DEF WriteTask
  <1>3. requests \in Seq(Requests) /\ Len(requests) \in Nat
    BY LenProperties DEF TypeOK
  <1>4. Evaluate(c, task, requests)
    BY DEF WriteTag
  <1>. HIDE DEF task
  <1>5. Fit(c, task, requests)
    BY <1>1, <1>3 DEF Fit, Keeps
  <1>6. QED
    BY <1>1, <1>2, <1>4, <1>5, EvaluateGood

\* Approve and deny are: the task they start is the request as it was parked.
LEMMA ApproveGood ==
  ASSUME TypeOK, AllHeld, NEW c \in Calls, NEW r \in DOMAIN requests,
         Approve(c, r) \/ Deny(c, r)
  PROVE  Good
  <1>. DEFINE task == ApprovalTask(r)
              reqs == Expired(requests)
  <1>1. requests \in Seq(Requests) /\ Len(requests) \in Nat
    BY LenProperties DEF TypeOK
  <1>2. task \in WriteTasks /\ task.next = 1 /\ task.req = r /\ r \in 1..Len(requests)
    BY <1>1, ApprovalTaskType
  <1>3. /\ task.pc = "interlock" /\ task.agent = requests[r].agent
        /\ task.tag = requests[r].tag /\ task.value = requests[r].value
    BY DEF ApprovalTask, WriteTask
  <1>4. /\ reqs \in Seq(Requests) /\ Len(reqs) = Len(requests) /\ Keeps(requests, reqs)
    BY <1>1, ExpiredType, ExpiredKeeps
  <1>5. Evaluate(c, task, reqs) \/ Refuse(c, task, reqs)
    BY DEF Approve, Deny
  <1>. HIDE DEF task, reqs
  <1>6. Fit(c, task, reqs)
    BY <1>1, <1>2, <1>4 DEF Fit
  <1>7. <<reqs[task.req].agent, reqs[task.req].tag, reqs[task.req].value>>
          = <<task.agent, task.tag, task.value>>
    BY <1>2, <1>3, <1>4 DEF Keeps
  <1>8. task.req # 0
    BY <1>1, <1>2
  <1>9. QED
    BY <1>2, <1>3, <1>5, <1>6, <1>7, <1>8, EvaluateGood, RefuseGood

\* A reply to an interlock read is: a lock that does not block was seen to be off.
LEMMA InterlockReplyGood ==
  ASSUME TypeOK, AllHeld, NEW c \in Calls, InterlockReply(c)
  PROVE  Good
  <1>. DEFINE task  == call[c]
              locks == LocksOf(task)
              lock  == locks[task.next]
              shown == {l \in {lock} : Reachable(l.tag) /\ IsOff(l)}
              read  == [task EXCEPT !.next = @ + 1, !.clear = @ \cup shown]
  <1>1. requests \in Seq(Requests) /\ Len(requests) \in Nat
    BY LenProperties DEF TypeOK
  <1>2. task \in WriteTasks /\ WellFormed(task, Len(requests)) /\ task.pc = "interlock"
    BY TaskAt DEF InterlockReply
  <1>3. task.tag \in DOMAIN Policy[task.g] /\ task.req \in 0..Len(requests)
        /\ task.next \in 1..Len(locks)
    BY <1>2 DEF WellFormed, LocksOf
  <1>4. locks \in Seq(Interlocks(Tags))
    BY <1>2, <1>3, PolicyAssumption DEF WriteTasks, IsPolicy, IsRule, LocksOf
  <1>5. lock \in Interlocks(Tags) /\ Len(locks) \in Nat
    BY <1>3, <1>4, ElementOfSeq, LenProperties
  <1>6. Held(task, requests) /\ Keeps(requests, requests)
    BY <1>1, <1>2 DEF AllHeld, Keeps
  <1>7. /\ read \in WriteTasks /\ read.tag = task.tag /\ read.g = task.g
        /\ read.req = task.req /\ read.next = task.next + 1
    <2>1. shown \subseteq Interlocks(Tags)
      BY <1>5
    <2>. HIDE DEF task, shown
    <2>2. QED
      BY <1>2, <2>1, NextInterlock
  <1>8. /\ read.pc = "interlock" /\ read.agent = task.agent /\ read.value = task.value
        /\ read.clear = task.clear \cup shown
    BY <1>2 DEF WriteTasks
  <1>9. CASE Refuse(c, task, requests)
    <2>1. Fit(c, task, requests)
      BY <1>1, <1>2, <1>3, <1>6 DEF Fit
    <2>. HIDE DEF task
    <2>2. QED
      BY <1>9, <2>1, RefuseGood
  <1>10. CASE /\ ~Blocks(lock)
              /\ \/ /\ call' = [call EXCEPT ![c] = read]
                    /\ requests' = requests
                 \/ task.next = Len(locks) /\ Decide(c, read, requests)
    <2>1. lock \in shown
      BY <1>10 DEF Blocks
    <2>2. \A i \in 1..task.next : locks[i] \in read.clear
      BY <1>2, <1>3, <1>5, <1>6, <1>8, <2>1 DEF Held, Passed
    <2>3. LocksOf(read) = locks
      BY <1>7 DEF LocksOf
    <2>4. Passed(read) = task.next
      BY <1>3, <1>5, <1>7, <1>8 DEF Passed
    <2>. HIDE DEF read
    <2>5. Held(read, requests)
      BY <1>6, <1>7, <1>8, <2>2, <2>3, <2>4 DEF Held
    <2>6. Fit(c, read, requests)
      BY <1>1, <1>3, <1>6, <1>7 DEF Fit
    <2>7. CASE call' = [call EXCEPT ![c] = read] /\ requests' = requests
      BY <1>6, <2>5, <2>7, OthersHeld
    <2>8. CASE task.next = Len(locks) /\ Decide(c, read, requests)
      <3>1. \A i \in 1..Len(LocksOf(read)) : LocksOf(read)[i] \in read.clear
        BY <2>2, <2>3, <2>8
      <3>2. QED
        BY <2>5, <2>6, <2>8, <3>1, DecideGood
    <2>9. QED
      BY <1>10, <2>7, <2>8
  <1>11. QED
    BY <1>9, <1>10 DEF InterlockReply, LocksOf

\* A write that lands or is issued again is the same write.
LEMMA AckGood ==
  ASSUME TypeOK, AllHeld, NEW c \in Calls, Land(c) \/ Retry(c)
  PROVE  Good
  <1>1. call[c] \in WriteTasks /\ Held(call[c], requests) /\ requests \in Seq(Requests)
    BY TaskAt DEF Land, Retry, AllHeld, TypeOK
  <1>2. \E task \in {[call[c] EXCEPT !.ack = TRUE],
                     [call[c] EXCEPT !.attempt = 2, !.ack = FALSE]} :
          call' = [call EXCEPT ![c] = task]
    BY <1>1 DEF Land, Retry, WriteTasks
  <1>3. PICK task \in {[call[c] EXCEPT !.ack = TRUE],
                       [call[c] EXCEPT !.attempt = 2, !.ack = FALSE]} :
          call' = [call EXCEPT ![c] = task]
    BY <1>2
  <1>4. /\ task.pc = call[c].pc /\ task.g = call[c].g /\ task.agent = call[c].agent
        /\ task.tag = call[c].tag /\ task.value = call[c].value /\ task.req = call[c].req
        /\ task.clear = call[c].clear /\ task.next = call[c].next
    BY <1>1 DEF WriteTasks
  <1>5. requests' = requests
    BY DEF Land, Retry
  <1>6. Held(task, requests') /\ Keeps(requests, requests')
    BY <1>1, <1>4, <1>5, LenProperties DEF Held, LocksOf, Passed, Asks, Keeps
  <1>7. QED
    BY <1>3, <1>6, OthersHeld

\* A write that ends is good, and so is one that raises.
LEMMA WriteEndsGood ==
  ASSUME TypeOK, AllHeld, NEW c \in Calls, WriteReturns(c) \/ WriteRaises(c)
  PROVE  Good
  <1>. DEFINE task == call[c]
              allow == WriteLine(task, "ALLOW", TRUE)
              error == WriteLine(task, "ERROR", FALSE)
  <1>1. requests \in Seq(Requests) /\ Keeps(requests, requests)
    BY LenProperties DEF TypeOK, Keeps
  <1>2. task \in WriteTasks /\ task.req \in 0..Len(requests)
    BY TaskAt DEF WriteReturns, WriteRaises, WellFormed
  <1>3. \/ Close(c, allow, Marked(requests, task, "APPROVED"), requests)
        \/ Close(c, error, requests, requests)
    BY DEF WriteReturns, WriteRaises
  <1>4. Fit(c, task, requests)
    BY <1>1, <1>2 DEF Fit
  <1>. HIDE DEF task, allow, error
  <1>5. QED
    BY <1>1, <1>3, <1>4, SettleGood, CloseGood

\* A restart forgets the tasks and keeps what was parked.
LEMMA RestartGood ==
  ASSUME TypeOK, AllHeld, Restart
  PROVE  Good
  <1>1. Idle \notin WriteTasks
    BY DEF WriteTasks, Idle
  <1>2. \A r \in 1..Len(requests) : requests[r] \in Requests
    BY ElementOfSeq DEF TypeOK
  <1>3. \A r \in 1..Len(requests) : requests'[r] = [requests[r] EXCEPT !.status = "GONE"]
    BY LenProperties DEF TypeOK, Restart
  <1>4. Len(requests') = Len(requests) /\ Len(requests) \in Nat
    <2>1. \A r \in DOMAIN requests : requests[r] \in Requests
      BY <1>2, LenProperties DEF TypeOK
    <2>2. \A r \in DOMAIN requests : [requests[r] EXCEPT !.status = "GONE"] \in Requests
      BY <2>1 DEF Requests
    <2>3. requests' \in [DOMAIN requests -> Requests]
      BY <2>2 DEF Restart
    <2>4. QED
      BY <2>3, StatusType, LenProperties DEF TypeOK
  <1>5. Keeps(requests, requests')
    <2>1. \A r \in 1..Len(requests) :
            /\ requests'[r].agent = requests[r].agent
            /\ requests'[r].tag = requests[r].tag
            /\ requests'[r].value = requests[r].value
      BY <1>2, <1>3 DEF Requests
    <2>2. QED
      BY <1>4, <2>1 DEF Keeps
  <1>6. QED
    BY <1>1, <1>5 DEF Good, AllHeld, Restart

-----------------------------------------------------------------------------
(* The invariant and what follows from it *)

\* It holds at the start.
LEMMA StrongInit == Init => Strong
  <1>1. Idle \notin WriteTasks
    BY DEF WriteTasks, Idle
  <1>2. QED
    BY <1>1, TypeInit DEF Strong, AllHeld, AllAuthorised, Init

\* Every step is good: it holds the tasks and keeps the requests.
LEMMA StepGood ==
  ASSUME TypeOK, AllHeld, [Next]_vars
  PROVE  Good
  <1>1. Keeps(requests, requests)
    BY LenProperties DEF TypeOK, Keeps
  <1>2. ASSUME NEW c \in Calls, NEW input \in Reads, ReadTag(c, input)
        PROVE  Good
    <2>. DEFINE task == ReadTask(input.agent, input.tag)
                line == ReadLine(input.agent, input.tag, "DENY", FALSE)
    <2>1. task \notin WriteTasks
      BY DEF ReadTask, WriteTasks
    <2>2. \/ call' = [call EXCEPT ![c] = task] /\ requests' = requests
          \/ Close(c, line, requests, requests)
      BY <1>2 DEF ReadTag
    <2>. HIDE DEF task, line
    <2>3. QED
      BY <1>1, <2>1, <2>2, OthersHeld, CloseGood
  <1>3. ASSUME NEW c \in Calls, ReadReply(c)
        PROVE  Good
    <2>1. \E line : Close(c, line, requests, requests)
      BY <1>3 DEF ReadReply
    <2>2. QED
      BY <1>1, <2>1, CloseGood
  <1>4. CASE call' = call /\ Keeps(requests, requests')
    BY <1>4, HeldKeeps DEF Good, AllHeld, TypeOK, WellFormed
  <1>5. CASE Inspect
    BY <1>4, <1>5, ExpiredKeeps DEF Inspect, TypeOK
  <1>6. CASE Tick \/ BackendFlips \/ UNCHANGED vars \/ \E move \in Moves : PlantMoves(move)
    BY <1>1, <1>4, <1>6 DEF Tick, BackendFlips, vars, PlantMoves
  <1>7. QED
    BY <1>2, <1>3, <1>5, <1>6, WriteTagGood, ApproveGood, InterlockReplyGood, AckGood,
       WriteEndsGood, RestartGood DEF Next, Progress

\* What lands is authorised: the task that sends it is held.
LEMMA LandAuthorised ==
  ASSUME TypeOK, AllHeld, AllAuthorised, NEW c \in Calls, Land(c)
  PROVE  AllAuthorised'
  <1>. DEFINE task == call[c]
              hit == [agent |-> task.agent, tag |-> task.tag, value |-> task.value,
                      req |-> task.req, ts |-> clock]
  <1>1. task \in WriteTasks /\ Held(task, requests) /\ WellFormed(task, Len(requests))
    BY TaskAt DEF Land, AllHeld
  <1>2. Authorised(hit, requests)
    BY <1>1 DEF Authorised, Held, WellFormed, Land, Asks
  <1>3. hit \in Landings
    BY <1>1 DEF TypeOK, Landings, WriteTasks
  <1>4. landed' = Append(landed, hit) /\ requests' = requests
    BY DEF Land
  <1>. HIDE DEF hit
  <1>5. \A i \in DOMAIN landed' :
          \/ landed'[i] = hit
          \/ i \in DOMAIN landed /\ landed'[i] = landed[i]
    <2>1. landed \in Seq(Landings)
      BY DEF TypeOK
    <2>2. /\ DOMAIN landed' = 1..(Len(landed) + 1) /\ DOMAIN landed = 1..Len(landed)
          /\ Len(landed) \in Nat
          /\ \A i \in 1..Len(landed) : landed'[i] = landed[i]
          /\ landed'[Len(landed) + 1] = hit
      BY <1>3, <1>4, <2>1
    <2>3. \A n \in Nat : \A i \in 1..(n + 1) : i \in 1..n \/ i = n + 1
      OBVIOUS
    <2>4. \A i \in DOMAIN landed' : i \in DOMAIN landed \/ i = Len(landed) + 1
      BY <2>2, <2>3
    <2>5. QED
      BY <2>2, <2>4
  <1>6. QED
    BY <1>2, <1>4, <1>5 DEF AllAuthorised

\* Every step keeps the invariant.
LEMMA StrongStep ==
  ASSUME Strong, [Next]_vars
  PROVE  Strong'
  <1>1. TypeOK' /\ AllHeld' /\ Keeps(requests, requests')
    BY TypeStep, StepGood DEF Strong, Good
  <1>2. CASE \E c \in Calls : Land(c)
    BY <1>1, <1>2, LandAuthorised DEF Strong
  <1>3. CASE UNCHANGED landed
    BY <1>1, <1>3, AuthorisedKeeps DEF Strong, TypeOK, AllAuthorised
  <1>4. (\E c \in Calls : Land(c)) \/ UNCHANGED landed
    BY DEF Strong, Next, Progress, WriteTag, ReadTag, Approve, Deny, InterlockReply, ReadReply,
       WriteReturns, Retry, WriteRaises, Inspect, Tick, PlantMoves, BackendFlips, Restart, vars
  <1>5. QED
    BY <1>1, <1>2, <1>3, <1>4 DEF Strong

\* The invariant holds in every reachable state.
THEOREM StrongCorrect == Spec => []Strong
  <1>1. Strong /\ [Next]_vars => Strong'
    BY StrongStep
  <1>2. QED
    BY StrongInit, <1>1, PTL DEF Spec

\* Whatever reaches the backend is either allowed outright by the policy of the agent
\* it is attributed to, or is exactly what was parked for the operator: no interleaving,
\* outage, retry or restart lets an unapproved write of an approval tag through.
THEOREM OnlyAuthorisedLands == Spec => []LandedWasAuthorised
  <1>1. Strong => LandedWasAuthorised
    BY DEF Strong, AllAuthorised, Authorised, LandedWasAuthorised
  <1>2. QED
    BY <1>1, StrongCorrect, PTL

\* If all agents have one policy, in particular with a single agent, no write is at the
\* backend unless each interlock of the requesting agent was seen to be off within the
\* call.  Without the premise this fails: see the run operator_policy.
THEOREM InterlocksSeen ==
  ASSUME \A g \in Agents : Policy[g] = Policy[Operator]
  PROVE  Spec => []NeverUnverified
  <1>1. Strong => NeverUnverified
    <2>. SUFFICES ASSUME Strong, NEW c \in Calls, Writing(c)
                  PROVE  \A i \in 1..Len(Policy[call[c].agent][call[c].tag].interlocks) :
                           Policy[call[c].agent][call[c].tag].interlocks[i] \in call[c].clear
      BY DEF NeverUnverified
    <2>1. call[c] \in WriteTasks /\ Held(call[c], requests) /\ call[c].pc = "write"
      BY TaskAt DEF Writing, Strong, AllHeld
    <2>2. Policy[call[c].agent] = Policy[call[c].g]
      BY <2>1 DEF WriteTasks
    <2>3. QED
      BY <2>1, <2>2 DEF Held, Passed, LocksOf
  <1>2. QED
    BY <1>1, StrongCorrect, PTL
=============================================================================
