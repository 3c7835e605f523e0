------------------------- MODULE GatewayRequestProofs -------------------------
(***************************************************************************)
(* Proofs about what becomes of a request, of what the audit says and of   *)
(* the call budget, for every instance of Gateway.                         *)
(*                                                                         *)
(* They all rest on one lemma, StepShape: whatever the interleaving, a     *)
(* step starts a call, carries one on, lets a write land, forgets all of   *)
(* them or leaves calls and audit alone, and settles at most the request   *)
(* it is about.                                                            *)
(***************************************************************************)
EXTENDS GatewayProofs

(* The shapes of a step *)

Ends(c, line) == call' = [call EXCEPT ![c] = Idle] /\ audit' = Append(audit, line)

\* A line that counts no write as executed.
Plain(line) == line.action # "write" \/ line.executed = FALSE

Told(task) == WriteLine(task, "ALLOW", TRUE)

\* The same write: by the same agent, of the same value, to the same tag.
Like(x, y) == x.agent = y.agent /\ x.tag = y.tag /\ x.value = y.value

\* How a call that ends leaves the approval store; it approves only what it tells of.
Settles(line, task, reqs) ==
  \/ requests' = reqs
  \/ requests' = Marked(reqs, task, "DENIED")
  \/ /\ task.req = 0
     /\ \E new \in Requests : /\ new.status = "PENDING" /\ Like(new, task)
                             /\ requests' = Append(reqs, new)
  \/ /\ Shadow \/ task.ack
     /\ \E executed \in BOOLEAN : line = WriteLine(task, "ALLOW", executed)
     /\ requests' = Marked(reqs, task, "APPROVED")

SameWrite(next, task) ==
  /\ next \in WriteTasks
  /\ next.req = task.req /\ next.agent = task.agent
  /\ next.tag = task.tag /\ next.value = task.value

\* What the code of a write does between two awaits.
Handled(c, task, reqs) ==
  \/ \E line \in Lines : /\ Ends(c, line)
                         /\ Plain(line) \/ (task.ack /\ line = Told(task))
                         /\ Settles(line, task, reqs)
  \/ \E next : /\ SameWrite(next, task) /\ (next.ack => task.ack)
               /\ call' = [call EXCEPT ![c] = next]
               /\ audit' = audit /\ requests' = reqs

Starts(c) ==
  /\ call[c] = Idle /\ landed' = landed
  /\ \E task \in WriteTasks :
       /\ ~task.ack
       /\ \/ /\ task.req = 0 /\ \E input \in Writes : Like(task, input)
             /\ Handled(c, task, requests)
          \/ /\ task.req \in DOMAIN requests /\ Open(task.req)
             /\ <<requests[task.req].agent, requests[task.req].tag, requests[task.req].value>>
                  = <<task.agent, task.tag, task.value>>
             /\ Handled(c, task, Expired(requests))

Goes(c) == call[c] \in WriteTasks /\ landed' = landed /\ Handled(c, call[c], requests)

ReadsOn(c) ==
  /\ call[c] \notin WriteTasks
  /\ landed' = landed /\ requests' = requests
  /\ \/ \E line \in Lines : Ends(c, line) /\ line.action # "write"
     \/ /\ call[c] = Idle /\ audit' = audit
        /\ \E task \in ReadTasks : call' = [call EXCEPT ![c] = task]

LandingOf(task) ==
  [agent |-> task.agent, tag |-> task.tag, value |-> task.value, req |-> task.req, ts |-> clock]

Lands(c) ==
  /\ call[c] \in WriteTasks /\ ~call[c].ack
  /\ call' = [call EXCEPT ![c] = [call[c] EXCEPT !.ack = TRUE]]
  /\ landed' = Append(landed, LandingOf(call[c]))
  /\ requests' = requests /\ audit' = audit

Rests ==
  /\ call' = call /\ audit' = audit /\ landed' = landed
  /\ requests' \in {requests, Expired(requests)}

Shape ==
  Rests \/ Restart \/ \E c \in Calls : Starts(c) \/ Goes(c) \/ ReadsOn(c) \/ Lands(c)

-----------------------------------------------------------------------------
(* Every step has one of the shapes *)

\* A line that cannot be written leaves its mark, which counts nothing as executed.
LEMMA NoLinePlain == NoLine \in Lines /\ NoLine.action # "write" /\ Plain(NoLine)
  BY DEF NoLine, Lines, Plain

\* A line of a write that did not run counts nothing as executed.
LEMMA WriteLinePlain ==
  ASSUME NEW task \in WriteTasks, NEW decision \in {"ALLOW", "DENY", "ASK", "ERROR"}
  PROVE  WriteLine(task, decision, FALSE) \in Lines /\ Plain(WriteLine(task, decision, FALSE))
  <1>1. WriteLine(task, decision, FALSE) \in Lines
    BY WriteLineType
  <1>2. QED
    BY <1>1 DEF Plain, WriteLine

\* A refusal ends the call with a plain line and at most denies its request.
LEMMA RefuseHandled ==
  ASSUME NEW c, NEW task \in WriteTasks, NEW reqs, Refuse(c, task, reqs)
  PROVE  Handled(c, task, reqs)
  <1>. DEFINE line == WriteLine(task, "DENY", FALSE)
              new == Marked(reqs, task, "DENIED")
  <1>1. line \in Lines /\ Plain(line)
    BY WriteLinePlain
  <1>2. \E l \in {line, NoLine} : Ends(c, l) /\ requests' = new
    BY DEF Refuse, Close, End, Ends
  <1>. HIDE DEF line
  <1>3. QED
    BY <1>1, <1>2, NoLinePlain DEF Handled, Settles

\* In shadow mode a call ends with a plain line and may approve its request.
LEMMA PretendHandled ==
  ASSUME NEW c, NEW task \in WriteTasks, NEW reqs, Shadow, Pretend(c, task, reqs)
  PROVE  Handled(c, task, reqs)
  <1>. DEFINE line == WriteLine(task, "ALLOW", FALSE)
              new == Marked(reqs, task, "APPROVED")
  <1>1. line \in Lines /\ Plain(line)
    BY WriteLinePlain
  <1>2. \E executed \in BOOLEAN : line = WriteLine(task, "ALLOW", executed)
    OBVIOUS
  <1>3. (Ends(c, line) /\ requests' = new) \/ (Ends(c, NoLine) /\ requests' = reqs)
    BY DEF Pretend, Close, End, Ends
  <1>. HIDE DEF line
  <1>4. QED
    BY <1>1, <1>2, <1>3, NoLinePlain DEF Handled, Settles

\* Parking a direct write ends the call with a plain line and adds one open request.
LEMMA ParkHandled ==
  ASSUME TypeOK, NEW c, NEW task \in WriteTasks, task.req = 0, NEW reqs, Park(c, task, reqs)
  PROVE  Handled(c, task, reqs)
  <1>. DEFINE line == WriteLine(task, "ASK", FALSE)
              parked == [agent |-> task.agent, tag |-> task.tag, value |-> task.value,
                         created |-> clock, status |-> "PENDING"]
  <1>1. line \in Lines /\ Plain(line)
    BY WriteLinePlain
  <1>2. parked \in Requests /\ parked.status = "PENDING" /\ Like(parked, task)
    BY DEF TypeOK, WriteTasks, Requests, Like
  <1>3. \E l \in {line, NoLine} : Ends(c, l) /\ requests' = Append(reqs, parked)
    BY DEF Park, Close, End, Ends
  <1>. HIDE DEF line, parked
  <1>4. QED
    BY <1>1, <1>2, <1>3, NoLinePlain DEF Handled, Settles

\* Issuing the write carries the call on and touches neither request nor audit.
LEMMA IssueHandled ==
  ASSUME NEW c, NEW task \in WriteTasks, NEW reqs, Issue(c, task, reqs)
  PROVE  Handled(c, task, reqs)
  <1>. DEFINE next == [task EXCEPT !.pc = "write"]
  <1>1. SameWrite(next, task) /\ (next.ack => task.ack)
    BY DEF WriteTasks, SameWrite
  <1>2. call' = [call EXCEPT ![c] = next] /\ audit' = audit /\ requests' = reqs
    BY DEF Issue
  <1>. HIDE DEF next
  <1>3. QED
    BY <1>1, <1>2 DEF Handled

\* Whatever follows the last interlock is handled: refused, parked, pretended or issued.
LEMMA DecideHandled ==
  ASSUME TypeOK, NEW c, NEW task \in WriteTasks, NEW reqs, Decide(c, task, reqs)
  PROVE  Handled(c, task, reqs)
  <1>1. \/ Refuse(c, task, reqs)
        \/ task.req = 0 /\ Park(c, task, reqs)
        \/ Shadow /\ Pretend(c, task, reqs)
        \/ Issue(c, task, reqs)
    BY DEF Decide, Execute, Asks
  <1>2. QED
    BY <1>1, RefuseHandled, ParkHandled, PretendHandled, IssueHandled

\* An evaluation up to its first await is handled, whichever await that is.
LEMMA EvaluateHandled ==
  ASSUME TypeOK, NEW c, NEW task \in WriteTasks, NEW reqs, Evaluate(c, task, reqs)
  PROVE  Handled(c, task, reqs)
  <1>1. SameWrite(task, task)
    BY DEF SameWrite
  <1>2. \/ Refuse(c, task, reqs) \/ Decide(c, task, reqs)
        \/ call' = [call EXCEPT ![c] = task] /\ requests' = reqs /\ audit' = audit
    BY DEF Evaluate
  <1>3. QED
    BY <1>1, <1>2, RefuseHandled, DecideHandled DEF Handled

\* A task that differs from another only in what it has behind it does no more.
LEMMA HandledSame ==
  ASSUME NEW c, NEW task \in WriteTasks, NEW read, SameWrite(read, task), read.ack = task.ack,
         NEW reqs, Handled(c, read, reqs)
  PROVE  Handled(c, task, reqs)
  <1>1. \A decision, executed : WriteLine(read, decision, executed) = WriteLine(task, decision, executed)
    BY DEF SameWrite, WriteLine
  <1>2. \A status : Marked(reqs, read, status) = Marked(reqs, task, status)
    BY DEF SameWrite, Marked
  <1>3. Told(read) = Told(task)
    BY <1>1 DEF Told
  <1>4. \A line : Settles(line, read, reqs) => Settles(line, task, reqs)
    BY <1>1, <1>2 DEF Settles, SameWrite, Like
  <1>5. \A next : SameWrite(next, read) => SameWrite(next, task)
    BY DEF SameWrite
  <1>6. QED
    BY <1>3, <1>4, <1>5 DEF Handled

\* A direct write starts a call that carries out no request.
LEMMA WriteTagShape ==
  ASSUME TypeOK, NEW c \in Calls, NEW input \in Writes, WriteTag(c, input)
  PROVE  Starts(c)
  <1>. DEFINE task == WriteTask(input.agent, input.tag, input.value, input.agent, 0)
  <1>1. task \in WriteTasks /\ task.req = 0
    BY InputsAssumption, WriteTaskType
  <1>2. ~task.ack /\ Like(task, input)
    BY DEF WriteTask, Like
  <1>3. Evaluate(c, task, requests) /\ call[c] = Idle /\ landed' = landed
    BY DEF WriteTag
  <1>. HIDE DEF task
  <1>4. QED
    BY <1>1, <1>2, <1>3, EvaluateHandled DEF Starts

\* An approval or a denial starts a call on an open request, for exactly what was parked.
LEMMA ApproveShape ==
  ASSUME TypeOK, NEW c \in Calls, NEW r \in DOMAIN requests, Approve(c, r) \/ Deny(c, r)
  PROVE  Starts(c)
  <1>. DEFINE task == ApprovalTask(r)
              reqs == Expired(requests)
  <1>1. task \in WriteTasks /\ task.req = r
    BY ApprovalTaskType DEF TypeOK
  <1>2. /\ ~task.ack
        /\ task.agent = requests[r].agent /\ task.tag = requests[r].tag
        /\ task.value = requests[r].value
    BY DEF ApprovalTask, WriteTask
  <1>3. /\ Evaluate(c, task, reqs) \/ Refuse(c, task, reqs)
        /\ Open(r) /\ call[c] = Idle /\ landed' = landed
    BY DEF Approve, Deny
  <1>. HIDE DEF task, reqs
  <1>4. Handled(c, task, reqs)
    BY <1>1, <1>3, EvaluateHandled, RefuseHandled
  <1>5. QED
    BY <1>1, <1>2, <1>3, <1>4 DEF Starts, reqs

\* An interlock reply carries a write on, or ends it as an evaluation may.
LEMMA InterlockReplyShape ==
  ASSUME TypeOK, NEW c \in Calls, InterlockReply(c)
  PROVE  Goes(c)
  <1>. DEFINE task  == call[c]
              locks == LocksOf(task)
              lock  == locks[task.next]
              shown == {l \in {lock} : Reachable(l.tag) /\ IsOff(l)}
              read  == [task EXCEPT !.next = @ + 1, !.clear = @ \cup shown]
  <1>1. task \in WriteTasks /\ WellFormed(task, Len(requests)) /\ task.pc = "interlock"
    BY TaskAt DEF InterlockReply
  <1>2. task.tag \in DOMAIN Policy[task.g] /\ task.next \in 1..Len(locks)
    BY <1>1 DEF WellFormed, LocksOf
  <1>3. locks \in Seq(Interlocks(Tags))
    BY <1>1, <1>2, PolicyAssumption DEF WriteTasks, IsPolicy, IsRule, LocksOf
  <1>4. shown \subseteq Interlocks(Tags)
    BY <1>2, <1>3, ElementOfSeq
  <1>5. landed' = landed
    BY DEF InterlockReply
  <1>6. \/ Refuse(c, task, requests)
        \/ call' = [call EXCEPT ![c] = read] /\ requests' = requests /\ audit' = audit
        \/ Decide(c, read, requests)
    BY DEF InterlockReply, LocksOf
  <1>7. SameWrite(read, task) /\ read.ack = task.ack
    <2>1. read \in WriteTasks
      <3>. HIDE DEF task, shown
      <3>1. QED
        BY <1>1, <1>4, NextInterlock
    <2>2. /\ read.req = task.req /\ read.agent = task.agent /\ read.tag = task.tag
          /\ read.value = task.value /\ read.ack = task.ack
      BY <1>1 DEF WriteTasks
    <2>3. QED
      BY <2>1, <2>2 DEF SameWrite
  <1>. HIDE DEF task, read
  <1>8. Handled(c, task, requests)
    <2>1. CASE Refuse(c, task, requests)
      BY <1>1, <2>1, RefuseHandled
    <2>2. CASE call' = [call EXCEPT ![c] = read] /\ requests' = requests /\ audit' = audit
      BY <1>7, <2>2 DEF Handled
    <2>3. CASE Decide(c, read, requests)
      <3>1. read \in WriteTasks
        BY <1>7 DEF SameWrite
      <3>2. Handled(c, read, requests)
        BY <2>3, <3>1, DecideHandled
      <3>3. QED
        BY <1>1, <1>7, <3>2, HandledSame
    <2>4. QED
      BY <1>6, <2>1, <2>2, <2>3
  <1>9. QED
    BY <1>1, <1>5, <1>8 DEF Goes, task

\* A second issue carries the call on and forgets that the first one landed.
LEMMA RetryShape ==
  ASSUME TypeOK, NEW c \in Calls, Retry(c)
  PROVE  Goes(c)
  <1>. DEFINE next == [call[c] EXCEPT !.attempt = 2, !.ack = FALSE]
  <1>1. call[c] \in WriteTasks
    BY TaskAt DEF Retry
  <1>2. SameWrite(next, call[c]) /\ ~next.ack
    BY <1>1 DEF WriteTasks, SameWrite
  <1>3. /\ call' = [call EXCEPT ![c] = next]
        /\ audit' = audit /\ requests' = requests /\ landed' = landed
    BY <1>1 DEF Retry, WriteTasks
  <1>. HIDE DEF next
  <1>4. QED
    BY <1>1, <1>2, <1>3 DEF Goes, Handled

\* A write that comes back ends its call, with an executed line only if it landed.
LEMMA WriteEndsShape ==
  ASSUME TypeOK, NEW c \in Calls, WriteReturns(c) \/ WriteRaises(c)
  PROVE  Goes(c)
  <1>. DEFINE told == WriteLine(call[c], "ALLOW", TRUE)
              error == WriteLine(call[c], "ERROR", FALSE)
              new == Marked(requests, call[c], "APPROVED")
  <1>1. call[c] \in WriteTasks
    BY TaskAt DEF WriteReturns, WriteRaises
  <1>2. told \in Lines /\ error \in Lines /\ Plain(error) /\ told = Told(call[c])
    BY <1>1, WriteLineType, WriteLinePlain DEF Told
  <1>3. \E executed \in BOOLEAN : told = WriteLine(call[c], "ALLOW", executed)
    OBVIOUS
  <1>4. landed' = landed
    BY DEF WriteReturns, WriteRaises
  <1>5. \/ call[c].ack /\ Ends(c, told) /\ requests' = new
        \/ Ends(c, error) /\ requests' = requests
        \/ Ends(c, NoLine) /\ requests' = requests
    BY DEF WriteReturns, WriteRaises, Close, End, Ends
  <1>. HIDE DEF told, error
  <1>6. QED
    BY <1>1, <1>2, <1>3, <1>4, <1>5, NoLinePlain DEF Goes, Handled, Settles

\* A read touches no request and leaves no line of a write.
LEMMA ReadShape ==
  ASSUME TypeOK, NEW c \in Calls,
         (\E input \in Reads : ReadTag(c, input)) \/ ReadReply(c)
  PROVE  ReadsOn(c)
  <1>1. \A agent \in Agents, tag \in Tags :
          /\ ReadTask(agent, tag) \in ReadTasks
          /\ \A decision \in {"ALLOW", "DENY", "ERROR"}, executed \in BOOLEAN :
               LET line == ReadLine(agent, tag, decision, executed)
               IN  line \in Lines /\ line.action # "write"
    BY DEF ReadTask, ReadTasks, ReadLine, Lines
  <1>2. ASSUME NEW input \in Reads, ReadTag(c, input)
        PROVE  ReadsOn(c)
    <2>1. input.agent \in Agents /\ input.tag \in Tags
      BY InputsAssumption
    <2>. DEFINE line == ReadLine(input.agent, input.tag, "DENY", FALSE)
                task == ReadTask(input.agent, input.tag)
    <2>2. line \in Lines /\ line.action # "write" /\ task \in ReadTasks /\ Idle \notin WriteTasks
      BY <1>1, <2>1 DEF Idle, WriteTasks
    <2>3. /\ landed' = landed /\ requests' = requests /\ call[c] = Idle
          /\ \/ Ends(c, line) \/ Ends(c, NoLine)
             \/ call' = [call EXCEPT ![c] = task] /\ audit' = audit
      BY <1>2 DEF ReadTag, Close, End, Ends
    <2>. HIDE DEF line, task
    <2>4. QED
      BY <2>2, <2>3, NoLinePlain DEF ReadsOn
  <1>3. CASE ReadReply(c)
    <2>1. call[c].agent \in Agents /\ call[c].tag \in Tags /\ call[c] \notin WriteTasks
      BY <1>3, TaskAt DEF ReadReply, ReadTasks, WriteTasks
    <2>. DEFINE read == ReadLine(call[c].agent, call[c].tag, "ALLOW", TRUE)
                error == ReadLine(call[c].agent, call[c].tag, "ERROR", FALSE)
    <2>2. read \in Lines /\ read.action # "write" /\ error \in Lines /\ error.action # "write"
      BY <1>1, <2>1
    <2>3. /\ landed' = landed /\ requests' = requests
          /\ Ends(c, read) \/ Ends(c, error) \/ Ends(c, NoLine)
      BY <1>3 DEF ReadReply, Close, End, Ends
    <2>. HIDE DEF read, error
    <2>4. QED
      BY <2>1, <2>2, <2>3, NoLinePlain DEF ReadsOn
  <1>4. QED
    BY <1>2, <1>3

\* A landing is recorded for the write it is of, which now has an answer on its way.
LEMMA LandShape ==
  ASSUME TypeOK, NEW c \in Calls, Land(c)
  PROVE  Lands(c)
  <1>1. call[c] \in WriteTasks
    BY TaskAt DEF Land
  <1>2. call' = [call EXCEPT ![c] = [call[c] EXCEPT !.ack = TRUE]]
    BY <1>1 DEF Land, WriteTasks
  <1>3. QED
    BY <1>1, <1>2 DEF Land, Lands, LandingOf

\* Every step of the gateway, under any interleaving, has one of the shapes.
LEMMA StepShape ==
  ASSUME TypeOK, [Next]_vars
  PROVE  Shape
  <1>1. Inspect \/ Tick \/ BackendFlips \/ UNCHANGED vars \/ (\E move \in Moves : PlantMoves(move))
          => Rests
    BY DEF Inspect, Tick, BackendFlips, PlantMoves, vars, Rests
  <1>2. QED
    BY <1>1, WriteTagShape, ApproveShape, InterlockReplyShape, RetryShape, WriteEndsShape,
       ReadShape, LandShape DEF Next, Progress, Shape

-----------------------------------------------------------------------------
(* What becomes of a request *)

\* The step writes the line of an allowed write.
TellsOf(task) ==
  \E c \in Calls, executed \in BOOLEAN : Ends(c, WriteLine(task, "ALLOW", executed))

\* What a step may do to the status of request r, task being the write it is about.
Fate(r, task) ==
  \/ r \in 1..Len(requests) /\ requests'[r].status = requests[r].status
  \/ r \in 1..Len(requests) /\ requests[r].status = "PENDING" /\ requests'[r].status = "EXPIRED"
  \/ r \notin 1..Len(requests) /\ requests'[r].status = "PENDING"
  \/ task.req = r /\ requests'[r].status = "DENIED"
  \/ /\ task.req = r /\ requests'[r].status = "APPROVED"
     /\ Shadow \/ task.ack
     /\ TellsOf(task)

\* Expiring settles open requests only.
LEMMA ExpiredFate ==
  ASSUME NEW reqs \in Seq(Requests), NEW r \in 1..Len(reqs)
  PROVE  \/ Expired(reqs)[r].status = reqs[r].status
         \/ reqs[r].status = "PENDING" /\ Expired(reqs)[r].status = "EXPIRED"
  <1>1. reqs[r] \in Requests /\ r \in DOMAIN reqs
    BY ElementOfSeq, LenProperties
  <1>2. \A req \in Requests : [req EXCEPT !.status = "EXPIRED"].status = "EXPIRED"
    BY DEF Requests
  <1>3. QED
    BY <1>1, <1>2 DEF Expired, Overdue

\* What approve and deny go on with was open, and younger than its lifetime.
LEMMA OpenFresh ==
  ASSUME TypeOK, NEW r \in DOMAIN requests, Open(r)
  PROVE  requests[r].status = "PENDING" /\ clock - requests[r].created < Ttl
  <1>1. requests \in Seq(Requests) /\ clock \in Nat /\ Ttl \in Nat
    BY BoundAssumption DEF TypeOK
  <1>2. r \in 1..Len(requests) /\ requests[r] \in Requests
    BY <1>1, LenProperties, ElementOfSeq
  <1>3. requests[r].created \in Nat
    BY <1>2 DEF Requests
  <1>4. requests[r].status = "PENDING" /\ Expired(requests)[r].status = "PENDING"
    BY <1>1, <1>2, ExpiredFate DEF Open
  <1>5. ~Overdue(requests[r])
    <2>1. Overdue(requests[r]) => Expired(requests)[r] = [requests[r] EXCEPT !.status = "EXPIRED"]
      BY DEF Expired
    <2>2. [requests[r] EXCEPT !.status = "EXPIRED"].status = "EXPIRED"
      BY <1>2 DEF Requests
    <2>3. QED
      BY <1>4, <2>1, <2>2
  <1>6. QED
    BY <1>1, <1>3, <1>4, <1>5 DEF Overdue

\* Marking sets the status of one request.
LEMMA MarkedFate ==
  ASSUME NEW reqs \in Seq(Requests), NEW task, task.req \in 0..Len(reqs), NEW status,
         NEW r \in 1..Len(reqs)
  PROVE  Marked(reqs, task, status)[r].status = IF r = task.req THEN status ELSE reqs[r].status
  <1>1. reqs[r] \in Requests /\ r \in DOMAIN reqs /\ r # 0 /\ Len(reqs) \in Nat
    BY ElementOfSeq, LenProperties
  <1>2. [reqs[r] EXCEPT !.status = status].status = status
    BY <1>1 DEF Requests
  <1>3. CASE r = task.req
    <2>1. Marked(reqs, task, status)[r] = [reqs[r] EXCEPT !.status = status]
      BY <1>1, <1>3 DEF Marked
    <2>2. QED
      BY <1>2, <1>3, <2>1
  <1>4. CASE r # task.req
    BY <1>1, <1>4 DEF Marked
  <1>5. QED
    BY <1>3, <1>4

\* The code of a write settles no request but its own, and approves it only in shadow
\* mode or once the backend has carried it out, and with a line that tells of it.
LEMMA HandledFate ==
  ASSUME TypeOK, NEW c \in Calls, NEW task \in WriteTasks, task.req \in 0..Len(requests),
         NEW reqs \in {requests, Expired(requests)}, Handled(c, task, reqs),
         NEW r \in 1..Len(requests')
  PROVE  Fate(r, task)
  <1>1. /\ requests \in Seq(Requests) /\ reqs \in Seq(Requests)
        /\ Len(reqs) = Len(requests) /\ Len(requests) \in Nat
    BY ExpiredType, LenProperties DEF TypeOK
  <1>2. r \in 1..Len(requests) =>
          \/ reqs[r].status = requests[r].status
          \/ requests[r].status = "PENDING" /\ reqs[r].status = "EXPIRED"
    BY <1>1, ExpiredFate
  <1>3. CASE requests' = reqs
    BY <1>1, <1>2, <1>3 DEF Fate
  <1>4. ASSUME NEW status \in {"DENIED", "APPROVED"}, requests' = Marked(reqs, task, status),
               status = "APPROVED" => (Shadow \/ task.ack) /\ TellsOf(task)
        PROVE  Fate(r, task)
    <2>1. Len(requests') = Len(reqs)
      BY <1>1, <1>4, MarkedType
    <2>2. requests'[r].status = IF r = task.req THEN status ELSE reqs[r].status
      BY <1>1, <1>4, <2>1, MarkedFate
    <2>3. QED
      BY <1>1, <1>2, <1>4, <2>1, <2>2 DEF Fate
  <1>5. ASSUME NEW new \in Requests, new.status = "PENDING", requests' = Append(reqs, new)
        PROVE  Fate(r, task)
    <2>1. /\ Len(requests') = Len(reqs) + 1
          /\ \A k \in 1..Len(reqs) : requests'[k] = reqs[k]
          /\ requests'[Len(reqs) + 1] = new
      BY <1>1, <1>5, AppendProperties
    <2>2. CASE r \in 1..Len(requests)
      BY <1>1, <1>2, <2>1, <2>2 DEF Fate
    <2>3. CASE r \notin 1..Len(requests)
      <3>1. r = Len(reqs) + 1
        BY <1>1, <2>1, <2>3
      <3>2. QED
        BY <1>5, <2>1, <2>3, <3>1 DEF Fate
    <2>4. QED
      BY <2>2, <2>3
  <1>6. QED
    BY <1>3, <1>4, <1>5 DEF Handled, Settles, TellsOf

\* The write that the call in slot c is about: the one it starts or the one it carries on.
About(c, task) ==
  /\ task \in WriteTasks
  /\ task.req \in 0..Len(requests)
  /\ \/ call[c] \in WriteTasks /\ task = call[c]
     \/ /\ call[c] = Idle /\ ~task.ack
        /\ task.req # 0 =>
             /\ Open(task.req)
             /\ <<requests[task.req].agent, requests[task.req].tag, requests[task.req].value>>
                  = <<task.agent, task.tag, task.value>>

\* Every step but a restart settles at most the request some call is about.
LEMMA StepFate ==
  ASSUME TypeOK, Shape, ~Restart
  PROVE  \/ \A task : \A r \in 1..Len(requests') : Fate(r, task)
         \/ \E c \in Calls : \E task : About(c, task) /\ \A r \in 1..Len(requests') : Fate(r, task)
  <1>1. /\ requests \in Seq(Requests) /\ Len(requests) \in Nat
        /\ Len(Expired(requests)) = Len(requests) /\ DOMAIN requests = 1..Len(requests)
    BY ExpiredType, LenProperties DEF TypeOK
  <1>2. CASE requests' \in {requests, Expired(requests)}
    BY <1>1, <1>2, ExpiredFate DEF Fate
  <1>3. ASSUME NEW c \in Calls, Starts(c)
        PROVE  \E task : About(c, task) /\ \A r \in 1..Len(requests') : Fate(r, task)
    <2>1. PICK task \in WriteTasks, reqs \in {requests, Expired(requests)} :
            /\ Handled(c, task, reqs) /\ ~task.ack /\ call[c] = Idle
            /\ \/ task.req = 0
               \/ /\ task.req \in DOMAIN requests /\ Open(task.req)
                  /\ <<requests[task.req].agent, requests[task.req].tag, requests[task.req].value>>
                       = <<task.agent, task.tag, task.value>>
      BY <1>3 DEF Starts
    <2>2. task.req \in 0..Len(requests)
      BY <1>1, <2>1
    <2>3. \A r \in 1..Len(requests') : Fate(r, task)
      BY <2>1, <2>2, HandledFate
    <2>4. QED
      BY <2>1, <2>2, <2>3 DEF About
  <1>4. ASSUME NEW c \in Calls, Goes(c)
        PROVE  \E task : About(c, task) /\ \A r \in 1..Len(requests') : Fate(r, task)
    <2>1. call[c] \in WriteTasks /\ Handled(c, call[c], requests)
      BY <1>4 DEF Goes
    <2>2. call[c].req \in 0..Len(requests)
      BY <2>1 DEF TypeOK, WellFormed
    <2>3. \A r \in 1..Len(requests') : Fate(r, call[c])
      BY <2>1, <2>2, HandledFate
    <2>4. QED
      BY <2>1, <2>2, <2>3 DEF About
  <1>5. ASSUME NEW c \in Calls, ReadsOn(c) \/ Lands(c)
        PROVE  requests' = requests
    BY <1>5 DEF ReadsOn, Lands
  <1>6. Rests => requests' \in {requests, Expired(requests)}
    BY DEF Rests
  <1>7. QED
    BY <1>2, <1>3, <1>4, <1>5, <1>6 DEF Shape

\* A write in progress after a step was in progress before it, or was started by it, and
\* then for no request or for an open one.
LEMMA StepTask ==
  ASSUME TypeOK, Shape, NEW d \in Calls, call'[d] \in WriteTasks
  PROVE  \/ /\ call[d] \in WriteTasks /\ SameWrite(call'[d], call[d])
            /\ call'[d].ack => call[d].ack \/ Lands(d)
         \/ /\ ~call'[d].ack
            /\ call'[d].req = 0 \/ (call'[d].req \in DOMAIN requests /\ Open(call'[d].req))
  <1>. DEFINE Goal == \/ /\ call[d] \in WriteTasks /\ SameWrite(call'[d], call[d])
                         /\ call'[d].ack => call[d].ack \/ Lands(d)
                      \/ /\ ~call'[d].ack
                         /\ \/ call'[d].req = 0
                            \/ call'[d].req \in DOMAIN requests /\ Open(call'[d].req)
  <1>1. Idle \notin WriteTasks /\ \A task \in ReadTasks : task \notin WriteTasks
    BY DEF Idle, ReadTasks, WriteTasks
  <1>2. \A c \in Calls : \A t : call' = [call EXCEPT ![c] = t] =>
          call'[d] = IF c = d THEN t ELSE call[d]
    BY DEF TypeOK
  <1>3. CASE call'[d] = call[d]
    BY <1>3 DEF SameWrite
  <1>4. ASSUME NEW c \in Calls, NEW task \in WriteTasks, NEW reqs, Handled(c, task, reqs)
        PROVE  call'[d] = call[d] \/ (c = d /\ SameWrite(call'[d], task) /\ (call'[d].ack => task.ack))
    BY <1>1, <1>2, <1>4 DEF Handled, Ends
  <1>5. ASSUME NEW c \in Calls, Starts(c)
        PROVE  Goal
    <2>1. PICK task \in WriteTasks :
            /\ \E reqs : Handled(c, task, reqs)
            /\ ~task.ack
            /\ task.req = 0 \/ (task.req \in DOMAIN requests /\ Open(task.req))
      BY <1>5 DEF Starts
    <2>2. PICK reqs : Handled(c, task, reqs)
      BY <2>1
    <2>3. QED
      BY <1>3, <1>4, <2>1, <2>2 DEF SameWrite
  <1>6. ASSUME NEW c \in Calls, Goes(c)
        PROVE  Goal
    BY <1>3, <1>4, <1>6 DEF Goes
  <1>7. ASSUME NEW c \in Calls, ReadsOn(c)
        PROVE  Goal
    BY <1>1, <1>2, <1>3, <1>7 DEF ReadsOn, Ends
  <1>8. ASSUME NEW c \in Calls, Lands(c)
        PROVE  Goal
    <2>1. SameWrite([call[c] EXCEPT !.ack = TRUE], call[c]) /\ call[c] \in WriteTasks
      BY <1>8 DEF Lands, WriteTasks, SameWrite
    <2>2. call'[d] = IF c = d THEN [call[c] EXCEPT !.ack = TRUE] ELSE call[d]
      BY <1>2, <1>8 DEF Lands
    <2>3. QED
      BY <1>3, <1>8, <2>1, <2>2
  <1>9. Rests \/ Restart => call'[d] = call[d] \/ call'[d] = Idle
    BY DEF Rests, Restart
  <1>10. QED
    BY <1>1, <1>3, <1>5, <1>6, <1>7, <1>8, <1>9 DEF Shape

\* A write that lands is appended to what landed.
LEMMA LandsAppends ==
  ASSUME TypeOK, NEW c \in Calls, Lands(c)
  PROVE  /\ DOMAIN landed' = 1..(Len(landed) + 1)
         /\ landed'[Len(landed) + 1] = LandingOf(call[c])
         /\ \A i \in 1..Len(landed) : landed'[i] = landed[i]
  <1>. DEFINE hit == LandingOf(call[c])
  <1>1. hit \in Landings
    BY DEF Lands, LandingOf, TypeOK, Landings, WriteTasks
  <1>2. landed' = Append(landed, hit) /\ landed \in Seq(Landings)
    BY DEF Lands, TypeOK
  <1>. HIDE DEF hit
  <1>3. Len(landed') = Len(landed) + 1 /\ landed' \in Seq(Landings)
    BY <1>1, <1>2, AppendProperties
  <1>4. DOMAIN landed' = 1..(Len(landed) + 1)
    BY <1>3, LenProperties
  <1>5. landed'[Len(landed) + 1] = hit /\ \A i \in 1..Len(landed) : landed'[i] = landed[i]
    BY <1>1, <1>2, AppendProperties
  <1>6. QED
    BY <1>4, <1>5 DEF hit

\* Only a write that lands changes what landed.
LEMMA OthersLandNothing ==
  ASSUME Shape
  PROVE  landed' = landed \/ \E c \in Calls : Lands(c)
  BY DEF Shape, Rests, Restart, Starts, Goes, ReadsOn

\* A restart forgets every request.
LEMMA RestartFate ==
  ASSUME TypeOK, Restart
  PROVE  /\ Len(requests') = Len(requests)
         /\ \A r \in 1..Len(requests) : requests'[r].status = "GONE"
  <1>1. requests \in Seq(Requests) /\ DOMAIN requests = 1..Len(requests) /\ Len(requests) \in Nat
    BY LenProperties DEF TypeOK
  <1>2. \A r \in 1..Len(requests) : requests[r] \in Requests
    BY <1>1, ElementOfSeq
  <1>3. \A r \in 1..Len(requests) :
          /\ [requests[r] EXCEPT !.status = "GONE"] \in Requests
          /\ [requests[r] EXCEPT !.status = "GONE"].status = "GONE"
    BY <1>2 DEF Requests
  <1>4. requests' \in [DOMAIN requests -> Requests]
    BY <1>1, <1>3 DEF Restart
  <1>5. Len(requests') = Len(requests)
    BY <1>1, <1>4, StatusType
  <1>6. QED
    BY <1>1, <1>3, <1>5 DEF Restart

-----------------------------------------------------------------------------
(* Approvals *)

\* An approval never starts on a request that is settled or past its lifetime, whatever
\* was done to the store since anybody looked at it.
THEOREM NothingStaleStarts == Spec => StaleNeverStarts
  <1>1. TypeOK /\ [Next]_vars =>
          \A c \in Calls, r \in DOMAIN requests :
            ApprovalOf(c, r)' /\ ~ApprovalOf(c, r) =>
              requests[r].status = "PENDING" /\ clock - requests[r].created < Ttl
    <2>. SUFFICES ASSUME TypeOK, [Next]_vars, NEW c \in Calls, NEW r \in DOMAIN requests,
                         ApprovalOf(c, r)', ~ApprovalOf(c, r)
                  PROVE  requests[r].status = "PENDING" /\ clock - requests[r].created < Ttl
      OBVIOUS
    <2>1. call'[c] \in WriteTasks /\ call'[c].req = r
      BY DEF ApprovalOf
    <2>2. r # 0
      BY LenProperties DEF TypeOK
    <2>3. ~(call[c] \in WriteTasks /\ SameWrite(call'[c], call[c]))
      BY <2>1 DEF ApprovalOf, SameWrite
    <2>4. Open(r)
      BY <2>1, <2>2, <2>3, StepShape, StepTask
    <2>5. QED
      BY <2>4, OpenFresh
  <1>2. QED
    BY <1>1, TypeCorrect, PTL DEF Spec, StaleNeverStarts

\* A settled request that no approval is carrying out keeps its status until a restart
\* forgets it, and never runs again.
THEOREM SettledForGood == Spec => SettledStays
  <1>1. Strong /\ [Next]_vars =>
          \A r \in DOMAIN requests :
            requests[r].status # "PENDING" /\ (\A c \in Calls : ~ApprovalOf(c, r)) =>
              /\ requests'[r].status \in {requests[r].status, "GONE"}
              /\ RunsOf(landed', r) = RunsOf(landed, r)
    <2>. SUFFICES ASSUME Strong, [Next]_vars, NEW r \in DOMAIN requests,
                         requests[r].status # "PENDING", \A c \in Calls : ~ApprovalOf(c, r)
                  PROVE  /\ requests'[r].status \in {requests[r].status, "GONE"}
                         /\ RunsOf(landed', r) = RunsOf(landed, r)
      OBVIOUS
    <2>1. TypeOK /\ Shape /\ TypeOK' /\ Len(requests) <= Len(requests')
      BY StepShape, TypeStep, StepGood DEF Strong, Good, Keeps
    <2>2. /\ r \in 1..Len(requests) /\ r # 0
          /\ Len(requests) \in Nat /\ Len(requests') \in Nat
      BY <2>1, LenProperties DEF TypeOK
    <2>4. requests'[r].status \in {requests[r].status, "GONE"}
      <3>1. CASE Restart
        BY <2>1, <2>2, <3>1, RestartFate
      <3>2. CASE ~Restart
        <4>1. r \in 1..Len(requests')
          BY <2>1, <2>2
        <4>2. ASSUME NEW c \in Calls, NEW task, About(c, task), task.req = r
              PROVE  FALSE
          BY <2>1, <2>2, <4>2, OpenFresh DEF About, ApprovalOf
        <4>3. \/ \A task : Fate(r, task)
              \/ \E task : task.req # r /\ Fate(r, task)
          BY <2>1, <3>2, <4>1, <4>2, StepFate
        <4>4. Fate(r, [req |-> 0]) \/ \E task : task.req # r /\ Fate(r, task)
          BY <4>3
        <4>5. \E task : task.req # r /\ Fate(r, task)
          BY <2>2, <4>4
        <4>6. QED
          BY <2>2, <4>5 DEF Fate
      <3>3. QED
        BY <3>1, <3>2
    <2>5. {i \in DOMAIN landed' : landed'[i].req = r} = {i \in DOMAIN landed : landed[i].req = r}
      <3>1. CASE landed' = landed
        BY <3>1
      <3>2. ASSUME NEW c \in Calls, Lands(c)
            PROVE  {i \in DOMAIN landed' : landed'[i].req = r} = {i \in DOMAIN landed : landed[i].req = r}
        <4>1. landed'[Len(landed) + 1].req # r
          BY <2>1, <3>2, LandsAppends DEF Lands, LandingOf, ApprovalOf
        <4>2. DOMAIN landed = 1..Len(landed) /\ Len(landed) \in Nat
          BY <2>1, LenProperties DEF TypeOK
        <4>3. QED
          BY <2>1, <3>2, <4>1, <4>2, LandsAppends
      <3>3. QED
        BY <2>1, <3>1, <3>2, OthersLandNothing
    <2>6. QED
      BY <2>4, <2>5 DEF RunsOf
  <1>2. QED
    BY <1>1, StrongCorrect, PTL DEF Spec, SettledStays

HasRun(r) == \E i \in DOMAIN landed : landed[i].req = r

\* A write the backend has answered for and a request that is approved did run.
Ran ==
  /\ \A c \in Calls : call[c] \in WriteTasks /\ call[c].ack => HasRun(call[c].req)
  /\ \A r \in DOMAIN requests : requests[r].status = "APPROVED" => Shadow \/ HasRun(r)

\* A step leaves no answered write and no approved request without a landing.
LEMMA RanStep ==
  ASSUME TypeOK, Ran, [Next]_vars
  PROVE  Ran'
  <1>1. /\ Shape /\ TypeOK' /\ DOMAIN landed = 1..Len(landed) /\ Len(landed) \in Nat
        /\ DOMAIN requests = 1..Len(requests) /\ DOMAIN requests' = 1..Len(requests')
    BY StepShape, TypeStep, LenProperties DEF TypeOK
  <1>2. ASSUME NEW r, HasRun(r)
        PROVE  HasRun(r)'
    <2>1. PICK i \in 1..Len(landed) : landed[i].req = r
      BY <1>1, <1>2 DEF HasRun
    <2>2. i \in DOMAIN landed' /\ landed'[i] = landed[i]
      <3>1. CASE landed' = landed
        BY <1>1, <3>1
      <3>2. ASSUME NEW c \in Calls, Lands(c)
            PROVE  i \in DOMAIN landed' /\ landed'[i] = landed[i]
        <4>1. i \in 1..(Len(landed) + 1)
          BY <1>1
        <4>2. QED
          BY <3>2, <4>1, LandsAppends
      <3>3. QED
        BY <1>1, <3>1, <3>2, OthersLandNothing
    <2>3. QED
      BY <2>1, <2>2 DEF HasRun
  <1>3. ASSUME NEW c \in Calls, Lands(c), NEW r, r = call[c].req
        PROVE  HasRun(r)'
    <2>1. Len(landed) + 1 \in 1..(Len(landed) + 1)
      BY <1>1
    <2>2. Len(landed) + 1 \in DOMAIN landed' /\ landed'[Len(landed) + 1] = LandingOf(call[c])
      BY <1>3, <2>1, LandsAppends
    <2>3. LandingOf(call[c]).req = r
      BY <1>3 DEF LandingOf
    <2>4. QED
      BY <2>2, <2>3 DEF HasRun
  <1>4. ASSUME NEW c \in Calls, call'[c] \in WriteTasks, call'[c].ack, NEW r, r = call'[c].req
        PROVE  HasRun(r)'
    <2>1. call[c] \in WriteTasks /\ call[c].req = r /\ (call[c].ack \/ Lands(c))
      BY <1>1, <1>4, StepTask DEF SameWrite
    <2>2. QED
      BY <1>2, <1>3, <2>1 DEF Ran
  <1>5. ASSUME NEW r \in DOMAIN requests', requests'[r].status = "APPROVED"
        PROVE  Shadow \/ HasRun(r)'
    <2>1. CASE Restart
      BY <1>1, <1>5, <2>1, RestartFate
    <2>2. ASSUME NEW task, task.ack => HasRun(task.req), Fate(r, task)
          PROVE  Shadow \/ HasRun(r)'
      BY <1>1, <1>2, <1>5, <2>2 DEF Fate, Ran
    <2>3. ASSUME NEW c \in Calls, NEW task, About(c, task)
          PROVE  task.ack => HasRun(task.req)
      BY <2>3 DEF About, Ran
    <2>4. CASE ~Restart
      <3>1. r \in 1..Len(requests')
        BY <1>1, <1>5
      <3>2. [ack |-> FALSE].ack = FALSE
        OBVIOUS
      <3>3. \E task : (task.ack => HasRun(task.req)) /\ Fate(r, task)
        BY <1>1, <2>3, <2>4, <3>1, <3>2, StepFate
      <3>4. QED
        BY <2>2, <3>3
    <2>5. QED
      BY <2>1, <2>4
  <1>6. QED
    BY <1>4, <1>5 DEF Ran

\* A request marked APPROVED did run (outside shadow mode), whatever lines could not be
\* written, whoever denied it meanwhile and however often the connection broke.
THEOREM ApprovedDidRun == Spec => []ApprovedRan
  <1>1. Init => Ran
    BY DEF Init, Ran, Idle, WriteTasks
  <1>2. TypeOK /\ Ran /\ [Next]_vars => Ran'
    BY RanStep
  <1>3. TypeOK /\ Ran => ApprovedRan
    <2>. SUFFICES ASSUME TypeOK, NEW r, HasRun(r)
                  PROVE  RunsOf(landed, r) >= 1
      BY DEF Ran, ApprovedRan
    <2>. DEFINE hits == {i \in DOMAIN landed : landed[i].req = r}
    <2>1. DOMAIN landed = 1..Len(landed) /\ Len(landed) \in Nat
      BY LenProperties DEF TypeOK
    <2>2. IsFiniteSet(DOMAIN landed)
      BY <2>1, FS_Interval
    <2>3. IsFiniteSet(hits) /\ hits # {}
      BY <2>2, FS_Subset DEF HasRun
    <2>4. Cardinality(hits) \in Nat /\ Cardinality(hits) # 0
      BY <2>3, FS_CardinalityType, FS_EmptySet
    <2>5. QED
      BY <2>4 DEF RunsOf
  <1>4. QED
    BY <1>1, <1>2, <1>3, TypeCorrect, PTL DEF Spec

-----------------------------------------------------------------------------
(* The audit trail *)

\* A call that ends appends one line.
LEMMA EndsAppends ==
  ASSUME TypeOK, NEW c \in Calls, NEW line \in Lines, Ends(c, line)
  PROVE  /\ Len(audit) \in Nat /\ Len(audit') = Len(audit) + 1
         /\ DOMAIN audit = 1..Len(audit) /\ DOMAIN audit' = 1..(Len(audit) + 1)
         /\ audit'[Len(audit) + 1] = line
         /\ \A i \in 1..Len(audit) : audit'[i] = audit[i]
  <1>1. audit' = Append(audit, line) /\ audit \in Seq(Lines)
    BY DEF Ends, TypeOK
  <1>2. Len(audit') = Len(audit) + 1 /\ audit' \in Seq(Lines)
    BY <1>1, AppendProperties
  <1>3. QED
    BY <1>1, <1>2, LenProperties, AppendProperties

\* A step that writes no line ends no call, a restart apart.
LEMMA StepLines ==
  ASSUME TypeOK, Shape, ~Restart
  PROVE  \/ \E c \in Calls, line \in Lines : Ends(c, line)
         \/ audit' = audit /\ \A d \in Calls : call'[d] = Idle => call[d] = Idle
  <1>1. \A task \in WriteTasks \cup ReadTasks : task # Idle
    BY DEF Idle, ReadTasks, WriteTasks
  <1>2. \A c \in Calls : \A t : call' = [call EXCEPT ![c] = t] =>
          \A d \in Calls : call'[d] = IF c = d THEN t ELSE call[d]
    BY DEF TypeOK
  <1>3. ASSUME NEW c \in Calls, NEW task, NEW reqs, Handled(c, task, reqs)
        PROVE  \/ \E line \in Lines : Ends(c, line)
               \/ audit' = audit /\ \A d \in Calls : call'[d] = Idle => call[d] = Idle
    BY <1>1, <1>2, <1>3 DEF Handled, SameWrite
  <1>4. ASSUME NEW c \in Calls, Starts(c) \/ Goes(c)
        PROVE  \/ \E line \in Lines : Ends(c, line)
               \/ audit' = audit /\ \A d \in Calls : call'[d] = Idle => call[d] = Idle
    BY <1>3, <1>4 DEF Starts, Goes
  <1>5. ASSUME NEW c \in Calls, ReadsOn(c)
        PROVE  \/ \E line \in Lines : Ends(c, line)
               \/ audit' = audit /\ \A d \in Calls : call'[d] = Idle => call[d] = Idle
    BY <1>1, <1>2, <1>5 DEF ReadsOn
  <1>6. ASSUME NEW c \in Calls, Lands(c)
        PROVE  audit' = audit /\ \A d \in Calls : call'[d] = Idle => call[d] = Idle
    <2>. DEFINE next == [call[c] EXCEPT !.ack = TRUE]
    <2>1. next # Idle
      BY <1>1, <1>6 DEF Lands, WriteTasks
    <2>2. audit' = audit /\ call' = [call EXCEPT ![c] = next]
      BY <1>6 DEF Lands
    <2>. HIDE DEF next
    <2>3. QED
      BY <1>2, <2>1, <2>2
  <1>7. QED
    BY <1>4, <1>5, <1>6 DEF Shape, Rests

\* Each call that ends, however it ends, leaves exactly one line or the mark of one that
\* could not be written; only a restart ends calls without a trace.
THEOREM EveryCallTold == Spec => OneLinePerCall
  <1>1. TypeOK /\ [Next]_vars =>
          (restarts' = restarts =>
             Len(audit') >= Len(audit) + Cardinality({c \in Active : call'[c] = Idle})
             /\ Len(audit') <= Len(audit) + 1)
    <2>. SUFFICES ASSUME TypeOK, [Next]_vars, restarts' = restarts
                  PROVE  Len(audit') >= Len(audit) + Cardinality({c \in Active : call'[c] = Idle})
                         /\ Len(audit') <= Len(audit) + 1
      OBVIOUS
    <2>. DEFINE ended == {c \in Active : call'[c] = Idle}
    <2>1. Shape /\ ~Restart
      <3>1. Shape
        BY StepShape
      <3>2. restarts' # restarts + 1
        BY DEF TypeOK
      <3>3. QED
        BY <3>1, <3>2 DEF Restart
    <2>2. Len(audit) \in Nat
      BY LenProperties DEF TypeOK
    <2>3. CASE audit' = audit /\ \A d \in Calls : call'[d] = Idle => call[d] = Idle
      <3>1. ended = {}
        BY <2>3 DEF Active
      <3>2. Cardinality(ended) = 0
        BY <3>1, FS_EmptySet
      <3>. HIDE DEF ended
      <3>3. QED
        BY <2>2, <2>3, <3>2 DEF ended
    <2>4. ASSUME NEW c \in Calls, NEW line \in Lines, Ends(c, line)
          PROVE  Len(audit') >= Len(audit) + Cardinality(ended) /\ Len(audit') <= Len(audit) + 1
      <3>1. \A d \in Calls : call'[d] = IF c = d THEN Idle ELSE call[d]
        BY <2>4 DEF TypeOK, Ends
      <3>2. ended \in SUBSET {c}
        BY <3>1 DEF Active
      <3>. HIDE DEF ended
      <3>3. Cardinality(ended) \in Nat /\ Cardinality(ended) <= 1
        <4>1. IsFiniteSet({c}) /\ Cardinality({c}) = 1
          BY FS_Singleton
        <4>2. IsFiniteSet(ended) /\ Cardinality(ended) <= 1
          BY <3>2, <4>1, FS_Subset
        <4>3. QED
          BY <4>2, FS_CardinalityType
      <3>4. Len(audit') = Len(audit) + 1
        BY <2>4, EndsAppends
      <3>5. QED
        BY <2>2, <3>3, <3>4
    <2>5. QED
      BY <2>1, <2>3, <2>4, StepLines
  <1>2. QED
    BY <1>1, TypeCorrect, PTL DEF Spec, OneLinePerCall

\* For one line: the executed lines like it, the writes like it that the backend has
\* answered for, and the landings like it.
ToldBy(line) == {i \in DOMAIN audit : audit[i] = line}
Acked(line) == {c \in Calls : call[c] \in WriteTasks /\ call[c].ack /\ Told(call[c]) = line}
HitsOf(line) ==
  {i \in DOMAIN landed : /\ landed[i].agent = line.agent
                         /\ landed[i].tag = line.tag
                         /\ landed[i].value = line.value}

ExecutedLines == {line \in Lines : line.action = "write" /\ line.executed}

\* What is told and what is still to be told of has landed.
Balanced(line) == Cardinality(ToldBy(line)) + Cardinality(Acked(line)) <= Cardinality(HitsOf(line))
Tally == \A line \in ExecutedLines : Balanced(line)

\* What a line is counted by is finite, so that the counts are numbers.
LEMMA TallyFinite ==
  ASSUME TypeOK, NEW line
  PROVE  /\ IsFiniteSet(ToldBy(line)) /\ Cardinality(ToldBy(line)) \in Nat
         /\ IsFiniteSet(Acked(line)) /\ Cardinality(Acked(line)) \in Nat
         /\ IsFiniteSet(HitsOf(line)) /\ Cardinality(HitsOf(line)) \in Nat
  <1>1. IsFiniteSet(DOMAIN audit) /\ IsFiniteSet(DOMAIN landed)
    BY LenProperties, FS_Interval DEF TypeOK
  <1>2. /\ ToldBy(line) \in SUBSET DOMAIN audit
        /\ Acked(line) \in SUBSET Calls
        /\ HitsOf(line) \in SUBSET DOMAIN landed
    BY DEF ToldBy, Acked, HitsOf
  <1>3. QED
    BY <1>1, <1>2, CallsAssumption, FS_Subset, FS_CardinalityType

\* The same after a step.
LEMMA TallyFiniteNext ==
  ASSUME TypeOK', NEW line
  PROVE  /\ Cardinality(ToldBy(line)') \in Nat
         /\ Cardinality(Acked(line)') \in Nat
         /\ IsFiniteSet(HitsOf(line)') /\ Cardinality(HitsOf(line)') \in Nat
  <1>1. IsFiniteSet(DOMAIN audit') /\ IsFiniteSet(DOMAIN landed')
    BY LenProperties, FS_Interval DEF TypeOK
  <1>2. /\ ToldBy(line)' \in SUBSET DOMAIN audit'
        /\ Acked(line)' \in SUBSET Calls
        /\ HitsOf(line)' \in SUBSET DOMAIN landed'
    BY DEF ToldBy, Acked, HitsOf
  <1>3. QED
    BY <1>1, <1>2, CallsAssumption, FS_Subset, FS_CardinalityType

\* A line of another kind changes nothing that is told; the line itself adds one.
LEMMA ToldGrows ==
  ASSUME TypeOK, NEW c \in Calls, NEW new \in Lines, Ends(c, new), NEW line
  PROVE  /\ new # line => ToldBy(line)' = ToldBy(line)
         /\ new = line => /\ ToldBy(line)' = ToldBy(line) \cup {Len(audit) + 1}
                          /\ Len(audit) + 1 \notin ToldBy(line)
  <1>1. /\ Len(audit) \in Nat
        /\ DOMAIN audit = 1..Len(audit) /\ DOMAIN audit' = 1..(Len(audit) + 1)
        /\ audit'[Len(audit) + 1] = new
        /\ \A i \in 1..Len(audit) : audit'[i] = audit[i]
    BY EndsAppends
  <1>2. DOMAIN audit' = DOMAIN audit \cup {Len(audit) + 1} /\ Len(audit) + 1 \notin DOMAIN audit
    BY <1>1
  <1>3. QED
    BY <1>1, <1>2 DEF ToldBy

\* The code of a write adds no answered write, and takes its own away when it ends.
LEMMA AckedShrinks ==
  ASSUME TypeOK, NEW c \in Calls, NEW task \in WriteTasks, NEW reqs, Handled(c, task, reqs),
         task = call[c] \/ ~task.ack, NEW line
  PROVE  /\ Acked(line)' \subseteq Acked(line)
         /\ call'[c] = Idle => c \notin Acked(line)'
  <1>1. Idle \notin WriteTasks
    BY DEF Idle, WriteTasks
  <1>2. \A t : call' = [call EXCEPT ![c] = t] => \A d \in Calls : call'[d] = IF d = c THEN t ELSE call[d]
    BY DEF TypeOK
  <1>3. \A d \in Calls : d # c => call'[d] = call[d]
    BY <1>2 DEF Handled, Ends
  <1>4. call'[c] = Idle \/ (SameWrite(call'[c], task) /\ (call'[c].ack => task.ack))
    BY <1>2 DEF Handled, Ends
  <1>5. SameWrite(call'[c], task) => Told(call'[c]) = Told(task)
    BY DEF SameWrite, Told, WriteLine
  <1>6. c \in Acked(line)' => c \in Acked(line)
    BY <1>1, <1>4, <1>5 DEF Acked
  <1>7. \A d \in Calls : d # c /\ d \in Acked(line)' => d \in Acked(line)
    BY <1>3 DEF Acked
  <1>8. Acked(line)' \subseteq Calls
    BY DEF Acked
  <1>9. QED
    BY <1>1, <1>6, <1>7, <1>8 DEF Acked

\* Told lines and landings that only grow together keep the balance.
LEMMA BalanceKept ==
  ASSUME TypeOK, TypeOK', NEW line, Balanced(line), Acked(line)' \subseteq Acked(line),
         ToldBy(line)' = ToldBy(line), HitsOf(line) \subseteq HitsOf(line)'
  PROVE  Balanced(line)'
  <1>1. /\ Cardinality(ToldBy(line)) \in Nat
        /\ IsFiniteSet(Acked(line)) /\ Cardinality(Acked(line)) \in Nat
        /\ Cardinality(HitsOf(line)) \in Nat
    BY TallyFinite
  <1>2. /\ Cardinality(Acked(line)') \in Nat
        /\ IsFiniteSet(HitsOf(line)') /\ Cardinality(HitsOf(line)') \in Nat
    BY TallyFiniteNext
  <1>3. Cardinality(Acked(line)') <= Cardinality(Acked(line))
    BY <1>1, FS_Subset
  <1>4. Cardinality(HitsOf(line)) <= Cardinality(HitsOf(line)')
    BY <1>2, FS_Subset
  <1>5. Cardinality(ToldBy(line)') = Cardinality(ToldBy(line))
    OBVIOUS
  <1>6. QED
    BY <1>1, <1>2, <1>3, <1>4, <1>5 DEF Balanced

\* The code of a write tells only of what the backend has answered for.
LEMMA HandledBalanced ==
  ASSUME TypeOK, TypeOK', NEW c \in Calls, NEW task \in WriteTasks, NEW reqs,
         Handled(c, task, reqs), task = call[c] \/ ~task.ack, landed' = landed,
         NEW line \in ExecutedLines, Balanced(line)
  PROVE  Balanced(line)'
  <1>1. HitsOf(line)' = HitsOf(line)
    BY DEF HitsOf
  <1>2. Acked(line)' \subseteq Acked(line) /\ (call'[c] = Idle => c \notin Acked(line)')
    BY AckedShrinks
  <1>3. CASE ToldBy(line)' = ToldBy(line)
    BY <1>1, <1>2, <1>3, BalanceKept
  <1>4. ASSUME NEW new \in Lines, Ends(c, new), Plain(new)
        PROVE  ToldBy(line)' = ToldBy(line)
    <2>1. new # line
      BY <1>4 DEF Plain, ExecutedLines
    <2>2. QED
      BY <1>4, <2>1, ToldGrows
  <1>5. ASSUME Ends(c, Told(task)), Told(task) \in Lines, task.ack, Told(task) = line
        PROVE  Balanced(line)'
    <2>1. /\ ToldBy(line)' = ToldBy(line) \cup {Len(audit) + 1}
          /\ Len(audit) + 1 \notin ToldBy(line)
      BY <1>5, ToldGrows
    <2>2. c \in Acked(line) /\ call'[c] = Idle
      BY <1>5 DEF Acked, Ends, TypeOK
    <2>3. Acked(line)' \in SUBSET (Acked(line) \ {c})
      BY <1>2, <2>2
    <2>4. /\ IsFiniteSet(ToldBy(line)) /\ Cardinality(ToldBy(line)) \in Nat
          /\ IsFiniteSet(Acked(line)) /\ Cardinality(Acked(line)) \in Nat
          /\ Cardinality(HitsOf(line)) \in Nat /\ Cardinality(Acked(line)') \in Nat
      BY TallyFinite, TallyFiniteNext
    <2>5. Cardinality(ToldBy(line)') = Cardinality(ToldBy(line)) + 1
      BY <2>1, <2>4, FS_AddElement
    <2>6. /\ IsFiniteSet(Acked(line) \ {c})
          /\ Cardinality(Acked(line) \ {c}) = Cardinality(Acked(line)) - 1
      BY <2>2, <2>4, FS_RemoveElement
    <2>7. Cardinality(Acked(line)') <= Cardinality(Acked(line)) - 1
      BY <2>3, <2>6, FS_Subset
    <2>8. Cardinality(HitsOf(line)') = Cardinality(HitsOf(line))
      BY <1>1
    <2>9. QED
      BY <2>4, <2>5, <2>7, <2>8 DEF Balanced
  <1>6. ASSUME NEW new \in Lines, Ends(c, new), new # line
        PROVE  ToldBy(line)' = ToldBy(line)
    BY <1>6, ToldGrows
  <1>7. audit' = audit => ToldBy(line)' = ToldBy(line)
    BY DEF ToldBy
  <1>8. QED
    BY <1>3, <1>4, <1>5, <1>6, <1>7 DEF Handled

\* A write that lands is answered for once.
LEMMA LandsBalanced ==
  ASSUME TypeOK, TypeOK', NEW c \in Calls, Lands(c), NEW line \in ExecutedLines, Balanced(line)
  PROVE  Balanced(line)'
  <1>. DEFINE next == [call[c] EXCEPT !.ack = TRUE]
              n == Len(landed) + 1
  <1>1. ToldBy(line)' = ToldBy(line)
    BY DEF ToldBy, Lands
  <1>2. /\ call[c] \in WriteTasks /\ ~call[c].ack
        /\ next \in WriteTasks /\ next.ack /\ Told(next) = Told(call[c])
    BY DEF Lands, WriteTasks, Told, WriteLine
  <1>3. \A d \in Calls : call'[d] = IF d = c THEN next ELSE call[d]
    BY DEF TypeOK, Lands
  <1>4. Told(call[c]).agent = call[c].agent /\ Told(call[c]).tag = call[c].tag
        /\ Told(call[c]).value = call[c].value
    BY DEF Told, WriteLine
  <1>5. /\ LandingOf(call[c]).agent = call[c].agent /\ LandingOf(call[c]).tag = call[c].tag
        /\ LandingOf(call[c]).value = call[c].value
    BY DEF LandingOf
  <1>6. /\ landed'[n] = LandingOf(call[c]) /\ \A i \in DOMAIN landed : landed'[i] = landed[i]
        /\ DOMAIN landed' = DOMAIN landed \cup {n} /\ n \notin DOMAIN landed
    <2>1. DOMAIN landed = 1..Len(landed) /\ Len(landed) \in Nat
      BY LenProperties DEF TypeOK
    <2>2. 1..n = 1..Len(landed) \cup {n} /\ n \notin 1..Len(landed)
      BY <2>1
    <2>3. QED
      BY <2>1, <2>2, LandsAppends
  <1>. HIDE DEF next, n
  <1>7. HitsOf(line) \subseteq HitsOf(line)'
    BY <1>6 DEF HitsOf
  <1>8. CASE Told(call[c]) # line
    <2>1. Acked(line)' \subseteq Acked(line)
      BY <1>2, <1>3, <1>8 DEF Acked
    <2>2. QED
      BY <1>1, <1>7, <2>1, BalanceKept
  <1>9. CASE Told(call[c]) = line
    <2>1. Acked(line)' = Acked(line) \cup {c} /\ c \notin Acked(line)
      BY <1>2, <1>3, <1>9 DEF Acked
    <2>2. HitsOf(line)' = HitsOf(line) \cup {n} /\ n \notin HitsOf(line)
      BY <1>4, <1>5, <1>6, <1>9 DEF HitsOf
    <2>3. /\ IsFiniteSet(Acked(line)) /\ Cardinality(Acked(line)) \in Nat
          /\ IsFiniteSet(HitsOf(line)) /\ Cardinality(HitsOf(line)) \in Nat
          /\ Cardinality(ToldBy(line)) \in Nat
      BY TallyFinite
    <2>4. Cardinality(Acked(line)') = Cardinality(Acked(line)) + 1
      BY <2>1, <2>3, FS_AddElement
    <2>5. Cardinality(HitsOf(line)') = Cardinality(HitsOf(line)) + 1
      BY <2>2, <2>3, FS_AddElement
    <2>6. Cardinality(ToldBy(line)') = Cardinality(ToldBy(line))
      BY <1>1
    <2>7. QED
      BY <2>3, <2>4, <2>5, <2>6 DEF Balanced
  <1>10. QED
    BY <1>8, <1>9

\* A step keeps the executed lines and answers on their way within the landings.
LEMMA TallyStep ==
  ASSUME TypeOK, Tally, [Next]_vars
  PROVE  Tally'
  <1>. SUFFICES ASSUME NEW line \in ExecutedLines
                PROVE  Balanced(line)'
    BY DEF Tally, ExecutedLines
  <1>1. Shape /\ TypeOK' /\ Balanced(line)
    BY StepShape, TypeStep DEF Tally
  <1>2. ASSUME NEW c \in Calls, Starts(c) \/ Goes(c)
        PROVE  Balanced(line)'
    <2>1. PICK task \in WriteTasks :
            /\ \E reqs : Handled(c, task, reqs)
            /\ task = call[c] \/ ~task.ack
            /\ landed' = landed
      BY <1>2 DEF Starts, Goes
    <2>2. PICK reqs : Handled(c, task, reqs)
      BY <2>1
    <2>3. QED
      BY <1>1, <2>1, <2>2, HandledBalanced
  <1>3. ASSUME NEW c \in Calls, Lands(c)
        PROVE  Balanced(line)'
    BY <1>1, <1>3, LandsBalanced
  <1>4. ASSUME NEW c \in Calls, ReadsOn(c)
        PROVE  Balanced(line)'
    <2>1. \A task \in ReadTasks \cup {Idle} : task \notin WriteTasks
      BY DEF Idle, ReadTasks, WriteTasks
    <2>2. \E t \in ReadTasks \cup {Idle} : call' = [call EXCEPT ![c] = t]
      BY <1>4 DEF ReadsOn, Ends
    <2>3. \A d \in Calls : call'[d] = call[d] \/ call'[d] \notin WriteTasks
      BY <2>1, <2>2 DEF TypeOK
    <2>4. Acked(line)' \subseteq Acked(line)
      BY <2>3 DEF Acked
    <2>5. ToldBy(line)' = ToldBy(line)
      <3>1. ASSUME NEW new \in Lines, Ends(c, new), new.action # "write"
            PROVE  ToldBy(line)' = ToldBy(line)
        BY <3>1, ToldGrows DEF ExecutedLines
      <3>2. audit' = audit => ToldBy(line)' = ToldBy(line)
        BY DEF ToldBy
      <3>3. QED
        BY <1>4, <3>1, <3>2 DEF ReadsOn
    <2>6. HitsOf(line)' = HitsOf(line)
      BY <1>4 DEF ReadsOn, HitsOf
    <2>7. QED
      BY <1>1, <2>4, <2>5, <2>6, BalanceKept
  <1>5. CASE Rests \/ Restart
    <2>1. \A d \in Calls : call'[d] = call[d] \/ call'[d] \notin WriteTasks
      BY <1>5 DEF Rests, Restart, Idle, WriteTasks
    <2>2. Acked(line)' \subseteq Acked(line)
      BY <2>1 DEF Acked
    <2>3. ToldBy(line)' = ToldBy(line) /\ HitsOf(line)' = HitsOf(line)
      BY <1>5 DEF Rests, Restart, ToldBy, HitsOf
    <2>4. QED
      BY <1>1, <2>2, <2>3, BalanceKept
  <1>6. QED
    BY <1>1, <1>2, <1>3, <1>4, <1>5 DEF Shape

\* The audit never claims more than happened: per agent, tag and value it has at most as
\* many executed lines as writes that reached the backend, through lost replies, second
\* issues, missing lines and restarts.
THEOREM AuditNeverLies == Spec => []AuditTruthful
  <1>1. Init => Tally
    <2>. SUFFICES ASSUME Init, NEW line \in ExecutedLines
                  PROVE  Balanced(line)
      BY DEF Tally
    <2>1. ToldBy(line) = {} /\ HitsOf(line) = {} /\ Acked(line) = {}
      BY DEF Init, ToldBy, HitsOf, Acked, Idle, WriteTasks
    <2>2. QED
      BY <2>1, FS_EmptySet DEF Balanced
  <1>2. TypeOK /\ Tally /\ [Next]_vars => Tally'
    BY TallyStep
  <1>3. TypeOK /\ Tally => AuditTruthful
    <2>. SUFFICES ASSUME TypeOK, Tally, NEW k \in DOMAIN audit,
                         audit[k].action = "write", audit[k].executed
                  PROVE  Cardinality(ToldBy(audit[k])) <= Cardinality(HitsOf(audit[k]))
      BY DEF AuditTruthful, ToldBy, HitsOf
    <2>1. audit[k] \in ExecutedLines
      BY LenProperties, ElementOfSeq DEF TypeOK, ExecutedLines
    <2>2. QED
      BY <2>1, TallyFinite DEF Tally, Balanced
  <1>4. QED
    BY <1>1, <1>2, <1>3, TypeCorrect, PTL DEF Spec

\* For one write: the approved requests for it, and the lines that allow it.
ApprovedLike(key) ==
  {q \in DOMAIN requests : requests[q].status = "APPROVED" /\ Like(requests[q], key)}
AllowedLike(key) ==
  {i \in DOMAIN audit : /\ audit[i].action = "write" /\ audit[i].decision = "ALLOW"
                        /\ Like(audit[i], key)}
Covered(key) == Cardinality(ApprovedLike(key)) <= Cardinality(AllowedLike(key))

\* Approved requests and allowing lines of a write are finite, so that the counts are numbers.
LEMMA LikeFinite ==
  ASSUME TypeOK, NEW key
  PROVE  /\ IsFiniteSet(ApprovedLike(key)) /\ Cardinality(ApprovedLike(key)) \in Nat
         /\ IsFiniteSet(AllowedLike(key)) /\ Cardinality(AllowedLike(key)) \in Nat
  <1>1. IsFiniteSet(DOMAIN requests) /\ IsFiniteSet(DOMAIN audit)
    BY LenProperties, FS_Interval DEF TypeOK
  <1>2. ApprovedLike(key) \in SUBSET DOMAIN requests /\ AllowedLike(key) \in SUBSET DOMAIN audit
    BY DEF ApprovedLike, AllowedLike
  <1>3. QED
    BY <1>1, <1>2, FS_Subset, FS_CardinalityType

\* The same after a step.
LEMMA LikeFiniteNext ==
  ASSUME TypeOK', NEW key
  PROVE  /\ IsFiniteSet(ApprovedLike(key)') /\ Cardinality(ApprovedLike(key)') \in Nat
         /\ IsFiniteSet(AllowedLike(key)') /\ Cardinality(AllowedLike(key)') \in Nat
  <1>1. IsFiniteSet(DOMAIN requests') /\ IsFiniteSet(DOMAIN audit')
    BY LenProperties, FS_Interval DEF TypeOK
  <1>2. ApprovedLike(key)' \in SUBSET DOMAIN requests' /\ AllowedLike(key)' \in SUBSET DOMAIN audit'
    BY DEF ApprovedLike, AllowedLike
  <1>3. QED
    BY <1>1, <1>2, FS_Subset, FS_CardinalityType

\* Lines are never taken back.
LEMMA AllowedGrows ==
  ASSUME TypeOK, Shape, NEW key
  PROVE  AllowedLike(key) \subseteq AllowedLike(key)'
  <1>1. ASSUME NEW c \in Calls, NEW line \in Lines, Ends(c, line)
        PROVE  AllowedLike(key) \subseteq AllowedLike(key)'
    <2>1. /\ Len(audit) \in Nat
          /\ DOMAIN audit = 1..Len(audit) /\ DOMAIN audit' = 1..(Len(audit) + 1)
          /\ \A i \in 1..Len(audit) : audit'[i] = audit[i]
      BY <1>1, EndsAppends
    <2>2. DOMAIN audit \subseteq DOMAIN audit'
      BY <2>1
    <2>3. QED
      BY <2>1, <2>2 DEF AllowedLike
  <1>2. audit' = audit => AllowedLike(key) \subseteq AllowedLike(key)'
    BY DEF AllowedLike
  <1>3. Restart => audit' = audit
    BY DEF Restart
  <1>4. QED
    BY <1>1, <1>2, <1>3, StepLines

\* A line that allows a write adds one to the lines that do.
LEMMA TellingGrows ==
  ASSUME TypeOK, NEW task \in WriteTasks, TellsOf(task), NEW key, Like(task, key)
  PROVE  \E n : n \notin AllowedLike(key) /\ AllowedLike(key) \cup {n} \subseteq AllowedLike(key)'
  <1>1. PICK c \in Calls, executed \in BOOLEAN : Ends(c, WriteLine(task, "ALLOW", executed))
    BY DEF TellsOf
  <1>. DEFINE line == WriteLine(task, "ALLOW", executed)
              n == Len(audit) + 1
  <1>2. /\ line \in Lines /\ line.action = "write" /\ line.decision = "ALLOW"
        /\ Like(line, key)
    BY WriteLineType DEF WriteLine, Like
  <1>3. Ends(c, line)
    BY <1>1
  <1>. HIDE DEF line
  <1>4. /\ Len(audit) \in Nat
        /\ DOMAIN audit = 1..Len(audit) /\ DOMAIN audit' = 1..n
        /\ audit'[n] = line
        /\ \A i \in 1..Len(audit) : audit'[i] = audit[i]
    BY <1>2, <1>3, EndsAppends
  <1>5. n \notin DOMAIN audit /\ DOMAIN audit' = DOMAIN audit \cup {n}
    BY <1>4
  <1>. HIDE DEF n
  <1>6. QED
    BY <1>2, <1>4, <1>5 DEF AllowedLike

\* A step approves no request, or one whose line it writes.
LEMMA StepApproves ==
  ASSUME Strong, [Next]_vars, NEW key
  PROVE  \/ ApprovedLike(key)' \subseteq ApprovedLike(key)
         \/ \E task \in WriteTasks :
              /\ TellsOf(task) /\ Like(task, key)
              /\ ApprovedLike(key)' \subseteq ApprovedLike(key) \cup {task.req}
  <1>1. /\ TypeOK /\ TypeOK' /\ Shape /\ AllHeld /\ Keeps(requests, requests')
        /\ DOMAIN requests = 1..Len(requests) /\ Len(requests) \in Nat
        /\ DOMAIN requests' = 1..Len(requests') /\ Len(requests') \in Nat
    BY StepShape, StepGood, TypeStep, LenProperties DEF Strong, Good, TypeOK
  <1>2. \A q \in 1..Len(requests) : Like(requests'[q], key) <=> Like(requests[q], key)
    BY <1>1 DEF Keeps, Like
  <1>3. ASSUME NEW task, \A r \in 1..Len(requests') : Fate(r, task)
        PROVE  \A q \in ApprovedLike(key)' :
                 \/ q \in ApprovedLike(key)
                 \/ q = task.req /\ TellsOf(task) /\ Like(requests'[q], key)
    <2>. SUFFICES ASSUME NEW q \in 1..Len(requests'), requests'[q].status = "APPROVED",
                         Like(requests'[q], key)
                  PROVE  \/ q \in ApprovedLike(key)
                         \/ q = task.req /\ TellsOf(task) /\ Like(requests'[q], key)
      BY <1>1 DEF ApprovedLike
    <2>1. Fate(q, task)
      BY <1>3
    <2>2. CASE q \in 1..Len(requests) /\ requests[q].status = "APPROVED"
      BY <1>1, <1>2, <2>2 DEF ApprovedLike
    <2>3. QED
      BY <2>1, <2>2 DEF Fate
  <1>4. CASE Restart
    BY <1>1, <1>4, RestartFate DEF ApprovedLike
  <1>5. CASE \A task : \A r \in 1..Len(requests') : Fate(r, task)
    <2>1. \A q \in 1..Len(requests') : Fate(q, [req |-> 0])
      BY <1>5
    <2>2. \A q \in ApprovedLike(key)' : q # 0
      BY <1>1 DEF ApprovedLike
    <2>3. QED
      BY <1>3, <2>1, <2>2
  <1>6. ASSUME NEW c \in Calls, NEW task, About(c, task),
               \A r \in 1..Len(requests') : Fate(r, task)
        PROVE  \/ ApprovedLike(key)' \subseteq ApprovedLike(key)
               \/ /\ TellsOf(task) /\ Like(task, key)
                  /\ ApprovedLike(key)' \subseteq ApprovedLike(key) \cup {task.req}
    <2>. SUFFICES ASSUME NEW q \in ApprovedLike(key)', q \notin ApprovedLike(key)
                  PROVE  /\ TellsOf(task) /\ Like(task, key)
                         /\ ApprovedLike(key)' \subseteq ApprovedLike(key) \cup {task.req}
      OBVIOUS
    <2>1. q = task.req /\ TellsOf(task) /\ Like(requests'[q], key)
      BY <1>3, <1>6
    <2>2. ApprovedLike(key)' \subseteq ApprovedLike(key) \cup {task.req}
      BY <1>3, <1>6
    <2>3. q # 0 /\ q \in 1..Len(requests)
      BY <1>1, <1>6, <2>1 DEF About, ApprovedLike
    <2>4. <<requests[q].agent, requests[q].tag, requests[q].value>>
            = <<task.agent, task.tag, task.value>>
      BY <1>1, <1>6, <2>1, <2>3 DEF About, AllHeld, Held
    <2>5. Like(task, key)
      BY <1>2, <2>1, <2>3, <2>4 DEF Like
    <2>6. QED
      BY <2>1, <2>2, <2>5
  <1>7. QED
    BY <1>1, <1>4, <1>5, <1>6, StepFate DEF About

\* A step that approves a request writes the line for it, so the count of lines keeps up.
LEMMA CoveredStep ==
  ASSUME Strong, [Next]_vars, NEW key, Covered(key)
  PROVE  Covered(key)'
  <1>. DEFINE old == ApprovedLike(key)
              lines == AllowedLike(key)
  <1>1. TypeOK /\ TypeOK' /\ Shape
    BY StepShape, TypeStep DEF Strong
  <1>2. /\ IsFiniteSet(old) /\ Cardinality(old) \in Nat
        /\ IsFiniteSet(lines) /\ Cardinality(lines) \in Nat
        /\ Cardinality(old) <= Cardinality(lines)
    BY <1>1, LikeFinite DEF Covered
  <1>3. /\ IsFiniteSet(old') /\ Cardinality(old') \in Nat
        /\ IsFiniteSet(lines') /\ Cardinality(lines') \in Nat
    BY <1>1, LikeFiniteNext
  <1>4. CASE old' \subseteq old
    <2>1. old' \in SUBSET old /\ lines \in SUBSET lines'
      BY <1>1, <1>4, AllowedGrows
    <2>2. Cardinality(old') <= Cardinality(old)
      BY <1>2, <2>1, FS_Subset
    <2>3. Cardinality(lines) <= Cardinality(lines')
      BY <1>3, <2>1, FS_Subset
    <2>4. QED
      BY <1>2, <1>3, <2>2, <2>3 DEF Covered
  <1>5. ASSUME NEW task \in WriteTasks, TellsOf(task), Like(task, key),
               old' \subseteq old \cup {task.req}
        PROVE  Covered(key)'
    <2>1. PICK n : n \notin lines /\ lines \cup {n} \subseteq lines'
      BY <1>1, <1>5, TellingGrows
    <2>2. /\ IsFiniteSet(old \cup {task.req})
          /\ Cardinality(old \cup {task.req}) \in {Cardinality(old), Cardinality(old) + 1}
      BY <1>2, FS_AddElement
    <2>3. Cardinality(old') <= Cardinality(old \cup {task.req})
      BY <1>5, <2>2, FS_Subset
    <2>4. Cardinality(lines \cup {n}) = Cardinality(lines) + 1
      BY <1>2, <2>1, FS_AddElement
    <2>5. Cardinality(lines \cup {n}) <= Cardinality(lines')
      BY <1>3, <2>1, FS_Subset
    <2>6. QED
      BY <1>2, <1>3, <2>2, <2>3, <2>4, <2>5 DEF Covered
  <1>6. QED
    BY <1>4, <1>5, StepApproves

\* A request is approved only with a line that tells of it, even when lines cannot be
\* written: an operator who reads the audit sees every approval that was carried out.
THEOREM ApprovalsAreTold == Spec => []ApprovedAudited
  <1>. DEFINE AllCovered == \A key \in [agent : Agents, tag : Tags, value : Scalar] : Covered(key)
  <1>1. Init => AllCovered
    <2>. SUFFICES ASSUME Init, NEW key
                  PROVE  Covered(key)
      OBVIOUS
    <2>1. ApprovedLike(key) = {} /\ AllowedLike(key) = {}
      BY DEF Init, ApprovedLike, AllowedLike
    <2>2. QED
      BY <2>1, FS_EmptySet DEF Covered
  <1>2. Strong /\ AllCovered /\ [Next]_vars => AllCovered'
    BY CoveredStep
  <1>3. Strong /\ AllCovered => ApprovedAudited
    <2>. SUFFICES ASSUME Strong, AllCovered, NEW r \in DOMAIN requests
                  PROVE  Cardinality({q \in DOMAIN requests :
                                        /\ requests[q].status = "APPROVED"
                                        /\ Like(requests[q], requests[r])})
                           <= Cardinality({i \in DOMAIN audit :
                                        /\ audit[i].action = "write"
                                        /\ audit[i].decision = "ALLOW"
                                        /\ Like(audit[i], requests[r])})
      BY DEF ApprovedAudited, Like
    <2>. DEFINE key == [agent |-> requests[r].agent, tag |-> requests[r].tag,
                        value |-> requests[r].value]
    <2>1. requests[r] \in Requests
      BY LenProperties, ElementOfSeq DEF Strong, TypeOK
    <2>2. key \in [agent : Agents, tag : Tags, value : Scalar]
      BY <2>1 DEF Requests
    <2>3. \A x : Like(x, key) <=> Like(x, requests[r])
      BY DEF Like
    <2>. HIDE DEF key
    <2>4. QED
      BY <2>2, <2>3 DEF Covered, ApprovedLike, AllowedLike
  <1>4. QED
    BY <1>1, <1>2, <1>3, StrongCorrect, PTL DEF Spec

-----------------------------------------------------------------------------
(***************************************************************************)
(* The audit misses no executed write, and max_calls is exceeded by at     *)
(* most the calls in flight together.                                      *)
(*                                                                         *)
(* The budget is checked before the await of the backend write and the     *)
(* record is made after it.  What keeps the excess bounded is a sum that   *)
(* no interleaving can raise past the check: the records of a window and   *)
(* the writes that may still add one to it.                                *)
(***************************************************************************)
(* What a step does to the writes at the backend *)

\* The step ends or begins no write at the backend, and tells of none.
Spares ==
  /\ history' = history /\ landed' = landed /\ restarts' = restarts
  /\ clock' \in Nat /\ clock <= clock'
  /\ \A d \in Calls :
       \/ call'[d] = call[d]
       \/ /\ ~Writing(d) /\ call'[d].pc # "write"
          /\ call'[d] \in WriteTasks => ~call'[d].ack
  /\ audit' = audit \/ \E line \in Lines : Plain(line) /\ audit' = Append(audit, line)

\* The write in slot c is issued, and the limits on the series have just let it pass.
Issues(c) ==
  /\ ~Writing(c)
  /\ \E task \in WriteTasks :
       /\ task.pc = "write" /\ ~task.ack
       /\ call' = [call EXCEPT ![c] = task]
       /\ SeriesOk(Policy[task.g][task.tag], history[StoreOf(task.g)][task.tag],
                   task.value, clock)
  /\ UNCHANGED <<clock, history, audit, landed, restarts>>

BackendStep ==
  \/ Restart \/ Spares
  \/ \E c \in Calls :
       Issues(c) \/ Land(c) \/ WriteReturns(c) \/ Retry(c) \/ WriteRaises(c)

\* A call that ends without having been issued spares the writes at the backend.
LEMMA EndSpares ==
  ASSUME TypeOK, NEW c \in Calls, ~Writing(c), NEW line \in Lines, Plain(line),
         NEW after, NEW before, Close(c, line, after, before),
         UNCHANGED <<clock, history, landed, restarts>>
  PROVE  Spares
  <1>1. \E l \in Lines : Plain(l) /\ Ends(c, l)
    BY NoLinePlain DEF Close, End, Ends
  <1>2. \A d \in Calls : call'[d] = call[d] \/ (d = c /\ call'[d] = Idle)
    BY <1>1 DEF Ends, TypeOK
  <1>3. Idle.pc # "write" /\ Idle \notin WriteTasks
    BY DEF Idle, WriteTasks
  <1>4. clock \in Nat /\ clock' = clock
    BY DEF TypeOK
  <1>5. QED
    BY <1>1, <1>2, <1>3, <1>4 DEF Ends, Spares

\* What follows the last interlock issues the write or spares the others.
LEMMA DecideIssues ==
  ASSUME TypeOK, NEW c \in Calls, ~Writing(c), NEW task \in WriteTasks, ~task.ack, NEW reqs,
         Decide(c, task, reqs), UNCHANGED <<clock, history, landed, restarts>>
  PROVE  Spares \/ Issues(c)
  <1>. DEFINE rule == Policy[task.g][task.tag]
              recs == history[StoreOf(task.g)][task.tag]
  <1>1. \/ Refuse(c, task, reqs) \/ Park(c, task, reqs) \/ Pretend(c, task, reqs)
        \/ SeriesOk(rule, recs, task.value, clock) /\ Issue(c, task, reqs)
    BY DEF Decide, Execute
  <1>2. \A decision \in {"ALLOW", "DENY", "ASK"} :
          WriteLine(task, decision, FALSE) \in Lines /\ Plain(WriteLine(task, decision, FALSE))
    BY WriteLinePlain
  <1>3. CASE Refuse(c, task, reqs) \/ Park(c, task, reqs) \/ Pretend(c, task, reqs)
    <2>1. \E decision \in {"ALLOW", "DENY", "ASK"} : \E after, before :
            Close(c, WriteLine(task, decision, FALSE), after, before)
      BY <1>3 DEF Refuse, Park, Pretend
    <2>2. QED
      BY <1>2, <2>1, EndSpares
  <1>4. CASE SeriesOk(rule, recs, task.value, clock) /\ Issue(c, task, reqs)
    <2>. DEFINE issued == [task EXCEPT !.pc = "write"]
    <2>1. /\ issued \in WriteTasks /\ issued.pc = "write" /\ ~issued.ack
          /\ issued.g = task.g /\ issued.tag = task.tag /\ issued.value = task.value
      BY DEF WriteTasks
    <2>2. call' = [call EXCEPT ![c] = issued] /\ audit' = audit
      BY <1>4 DEF Issue
    <2>. HIDE DEF issued
    <2>3. SeriesOk(Policy[issued.g][issued.tag], history[StoreOf(issued.g)][issued.tag],
                   issued.value, clock)
      BY <1>4, <2>1
    <2>4. QED
      BY <2>1, <2>2, <2>3 DEF Issues
  <1>5. QED
    BY <1>1, <1>3, <1>4

\* So does an evaluation up to its first await.
LEMMA EvaluateIssues ==
  ASSUME TypeOK, NEW c \in Calls, ~Writing(c),
         NEW task \in WriteTasks, ~task.ack, task.pc = "interlock", NEW reqs,
         Evaluate(c, task, reqs), UNCHANGED <<clock, history, landed, restarts>>
  PROVE  Spares \/ Issues(c)
  <1>1. CASE Refuse(c, task, reqs)
    <2>1. /\ WriteLine(task, "DENY", FALSE) \in Lines /\ Plain(WriteLine(task, "DENY", FALSE))
          /\ \E after : Close(c, WriteLine(task, "DENY", FALSE), after, after)
      BY <1>1, WriteLinePlain DEF Refuse
    <2>2. QED
      BY <2>1, EndSpares
  <1>2. CASE call' = [call EXCEPT ![c] = task] /\ audit' = audit
    <2>1. \A d \in Calls : call'[d] = call[d] \/ (d = c /\ call'[d] = task)
      BY <1>2 DEF TypeOK
    <2>2. clock \in Nat /\ clock' = clock
      BY DEF TypeOK
    <2>3. QED
      BY <1>2, <2>1, <2>2 DEF Spares
  <1>3. QED
    BY <1>1, <1>2, DecideIssues DEF Evaluate

\* A write that begins is issued at once or spares the others.
LEMMA WriteTagIssues ==
  ASSUME TypeOK, NEW c \in Calls, NEW input \in Writes, WriteTag(c, input)
  PROVE  Spares \/ Issues(c)
  <1>. DEFINE task == WriteTask(input.agent, input.tag, input.value, input.agent, 0)
  <1>1. task \in WriteTasks
    BY InputsAssumption, WriteTaskType
  <1>2. ~task.ack /\ task.pc = "interlock"
    BY DEF WriteTask
  <1>3. ~Writing(c) /\ Evaluate(c, task, requests) /\ UNCHANGED <<clock, history, landed, restarts>>
    BY DEF WriteTag, Writing, Idle
  <1>. HIDE DEF task
  <1>4. QED
    BY <1>1, <1>2, <1>3, EvaluateIssues

\* So is an approval; a denial issues nothing.
LEMMA ApproveIssues ==
  ASSUME TypeOK, NEW c \in Calls, NEW r \in DOMAIN requests, Approve(c, r) \/ Deny(c, r)
  PROVE  Spares \/ Issues(c)
  <1>. DEFINE task == ApprovalTask(r)
              reqs == Expired(requests)
  <1>1. task \in WriteTasks
    BY ApprovalTaskType DEF TypeOK
  <1>2. ~task.ack /\ task.pc = "interlock"
    BY DEF ApprovalTask, WriteTask
  <1>3. /\ ~Writing(c) /\ UNCHANGED <<clock, history, landed, restarts>>
        /\ Evaluate(c, task, reqs) \/ Refuse(c, task, reqs)
    BY DEF Approve, Deny, Writing, Idle
  <1>. HIDE DEF task, reqs
  <1>4. CASE Refuse(c, task, reqs)
    <2>1. /\ WriteLine(task, "DENY", FALSE) \in Lines /\ Plain(WriteLine(task, "DENY", FALSE))
          /\ \E after : Close(c, WriteLine(task, "DENY", FALSE), after, after)
      BY <1>1, <1>4, WriteLinePlain DEF Refuse
    <2>2. QED
      BY <1>3, <2>1, EndSpares
  <1>5. QED
    BY <1>1, <1>2, <1>3, <1>4, EvaluateIssues

\* A write whose answer is on its way has been issued, to a tag that exists, and without
\* outages the answer arrives.
Reached ==
  /\ ~Outages => up
  /\ \A c \in Calls : call[c] \in WriteTasks /\ call[c].ack => Writing(c) /\ call[c].tag \in Present

\* An interlock reply issues the write or spares the others.
LEMMA InterlockIssues ==
  ASSUME TypeOK, Reached, NEW c \in Calls, InterlockReply(c)
  PROVE  Spares \/ Issues(c)
  <1>. DEFINE task  == call[c]
              locks == LocksOf(task)
              lock  == locks[task.next]
              shown == {l \in {lock} : Reachable(l.tag) /\ IsOff(l)}
              read  == [task EXCEPT !.next = @ + 1, !.clear = @ \cup shown]
  <1>1. /\ task \in WriteTasks /\ WellFormed(task, Len(requests)) /\ task.pc = "interlock"
        /\ ~Writing(c)
    BY TaskAt DEF InterlockReply, Writing
  <1>2. task.tag \in DOMAIN Policy[task.g] /\ task.next \in 1..Len(locks) /\ ~task.ack
    BY <1>1 DEF WellFormed, LocksOf, Reached
  <1>3. locks \in Seq(Interlocks(Tags))
    BY <1>1, <1>2, PolicyAssumption DEF WriteTasks, IsPolicy, IsRule, LocksOf
  <1>4. shown \subseteq Interlocks(Tags)
    BY <1>2, <1>3, ElementOfSeq
  <1>5. UNCHANGED <<clock, history, landed, restarts>>
    BY DEF InterlockReply
  <1>6. \/ Refuse(c, task, requests)
        \/ call' = [call EXCEPT ![c] = read] /\ audit' = audit
        \/ Decide(c, read, requests)
    BY DEF InterlockReply, LocksOf
  <1>7. read \in WriteTasks
    <2>. HIDE DEF task, shown
    <2>1. QED
      BY <1>1, <1>4, NextInterlock
  <1>8. ~read.ack /\ read.pc = "interlock"
    BY <1>1, <1>2 DEF WriteTasks
  <1>. HIDE DEF task, read
  <1>9. CASE Refuse(c, task, requests)
    <2>1. /\ WriteLine(task, "DENY", FALSE) \in Lines /\ Plain(WriteLine(task, "DENY", FALSE))
          /\ \E after : Close(c, WriteLine(task, "DENY", FALSE), after, after)
      BY <1>1, <1>9, WriteLinePlain DEF Refuse
    <2>2. QED
      BY <1>1, <1>5, <2>1, EndSpares
  <1>10. CASE call' = [call EXCEPT ![c] = read] /\ audit' = audit
    <2>1. \A d \in Calls : call'[d] = call[d] \/ (d = c /\ call'[d] = read)
      BY <1>10 DEF TypeOK
    <2>2. clock \in Nat /\ clock' = clock
      BY <1>5 DEF TypeOK
    <2>3. QED
      BY <1>1, <1>5, <1>8, <1>10, <2>1, <2>2 DEF Spares
  <1>11. CASE Decide(c, read, requests)
    BY <1>1, <1>5, <1>7, <1>8, <1>11, DecideIssues
  <1>12. QED
    BY <1>6, <1>9, <1>10, <1>11

\* A read spares the writes.
LEMMA ReadSpares ==
  ASSUME TypeOK, NEW c \in Calls,
         (\E input \in Reads : ReadTag(c, input)) \/ ReadReply(c)
  PROVE  Spares
  <1>1. ReadsOn(c) /\ UNCHANGED <<clock, history, landed, restarts>>
    BY ReadShape DEF ReadTag, ReadReply
  <1>2. clock \in Nat /\ clock' = clock
    BY <1>1 DEF TypeOK
  <1>3. ~Writing(c)
    BY <1>1, TaskAt DEF Writing, ReadsOn
  <1>4. \A t \in ReadTasks \cup {Idle} : t.pc # "write" /\ t \notin WriteTasks
    BY DEF ReadTasks, WriteTasks, Idle
  <1>5. \E t \in ReadTasks \cup {Idle} : call' = [call EXCEPT ![c] = t]
    BY <1>1 DEF ReadsOn, Ends
  <1>6. \A d \in Calls :
          \/ call'[d] = call[d]
          \/ d = c /\ call'[d].pc # "write" /\ call'[d] \notin WriteTasks
    BY <1>4, <1>5 DEF TypeOK
  <1>7. audit' = audit \/ \E line \in Lines : Plain(line) /\ audit' = Append(audit, line)
    BY <1>1 DEF ReadsOn, Ends, Plain
  <1>8. QED
    BY <1>1, <1>2, <1>3, <1>6, <1>7 DEF Spares

\* What the environment does spares the writes; time only goes forward.
LEMMA RestSpares ==
  ASSUME TypeOK, \/ Inspect \/ Tick \/ BackendFlips \/ UNCHANGED vars
                 \/ \E move \in Moves : PlantMoves(move)
  PROVE  Spares
  <1>1. call' = call /\ audit' = audit /\ UNCHANGED <<history, landed, restarts>>
    BY DEF Inspect, Tick, BackendFlips, PlantMoves, vars
  <1>2. clock \in Nat /\ clock' \in {clock, clock + 1}
    BY DEF Inspect, Tick, BackendFlips, PlantMoves, vars, TypeOK
  <1>3. QED
    BY <1>1, <1>2 DEF Spares

\* Every step issues one write, ends one, lets one land, forgets all or spares them.
LEMMA StepAtBackend ==
  ASSUME TypeOK, Reached, [Next]_vars
  PROVE  BackendStep
  BY WriteTagIssues, ApproveIssues, InterlockIssues, ReadSpares, RestSpares
     DEF Next, Progress, BackendStep

\* The slots after a step that changes one of them.
LEMMA SlotAfter ==
  ASSUME TypeOK, NEW c \in Calls, NEW t, call' = [call EXCEPT ![c] = t]
  PROVE  \A d \in Calls : call'[d] = IF d = c THEN t ELSE call[d]
  BY DEF TypeOK

\* How the steps at the backend change the slot of their write.
LEMMA BackendSlot ==
  ASSUME TypeOK, NEW c \in Calls
  PROVE  /\ Land(c) =>
              /\ call[c] \in WriteTasks /\ Writing(c)
              /\ SameWrite(call'[c], call[c]) /\ call'[c].g = call[c].g
              /\ call'[c].pc = "write" /\ call'[c].ack
         /\ Retry(c) =>
              /\ call[c] \in WriteTasks /\ Writing(c)
              /\ SameWrite(call'[c], call[c]) /\ call'[c].g = call[c].g
              /\ call'[c].pc = "write" /\ ~call'[c].ack
         /\ WriteReturns(c) \/ WriteRaises(c) =>
              /\ call[c] \in WriteTasks /\ Writing(c)
              /\ call'[c] = Idle
         /\ Land(c) \/ Retry(c) \/ WriteReturns(c) \/ WriteRaises(c) =>
              \A d \in Calls : d # c => call'[d] = call[d]
  <1>1. Land(c) \/ Retry(c) \/ WriteReturns(c) \/ WriteRaises(c) => call[c] \in WriteTasks /\ Writing(c)
    BY TaskAt DEF Land, Retry, WriteReturns, WriteRaises, Writing
  <1>2. ASSUME WriteReturns(c) \/ WriteRaises(c)
        PROVE  call'[c] = Idle /\ \A d \in Calls : d # c => call'[d] = call[d]
    BY <1>2 DEF WriteReturns, WriteRaises, Close, End, TypeOK
  <1>3. ASSUME NEW new, call' = [call EXCEPT ![c] = new]
        PROVE  call'[c] = new /\ \A d \in Calls : d # c => call'[d] = call[d]
    BY <1>3 DEF TypeOK
  <1>4. ASSUME Land(c)
        PROVE  /\ SameWrite(call'[c], call[c]) /\ call'[c].g = call[c].g
               /\ call'[c].pc = "write" /\ call'[c].ack
               /\ \A d \in Calls : d # c => call'[d] = call[d]
    <2>. DEFINE new == [call[c] EXCEPT !.ack = TRUE]
    <2>1. SameWrite(new, call[c]) /\ new.g = call[c].g /\ new.pc = "write" /\ new.ack
      BY <1>1, <1>4 DEF WriteTasks, SameWrite, Writing
    <2>2. call' = [call EXCEPT ![c] = new]
      BY <1>1, <1>4 DEF Land, WriteTasks
    <2>. HIDE DEF new
    <2>3. QED
      BY <1>3, <2>1, <2>2
  <1>5. ASSUME Retry(c)
        PROVE  /\ SameWrite(call'[c], call[c]) /\ call'[c].g = call[c].g
               /\ call'[c].pc = "write" /\ ~call'[c].ack
               /\ \A d \in Calls : d # c => call'[d] = call[d]
    <2>. DEFINE new == [call[c] EXCEPT !.attempt = 2, !.ack = FALSE]
    <2>1. SameWrite(new, call[c]) /\ new.g = call[c].g /\ new.pc = "write" /\ ~new.ack
      BY <1>1, <1>5 DEF WriteTasks, SameWrite, Writing
    <2>2. call' = [call EXCEPT ![c] = new]
      BY <1>1, <1>5 DEF Retry, WriteTasks
    <2>. HIDE DEF new
    <2>3. QED
      BY <1>3, <2>1, <2>2
  <1>6. QED
    BY <1>1, <1>2, <1>4, <1>5

\* Every step keeps Reached.
LEMMA ReachedStep ==
  ASSUME TypeOK, Reached, [Next]_vars
  PROVE  Reached'
  <1>1. BackendStep
    BY StepAtBackend
  <1>2. ~Outages => up'
    <2>1. up' = up \/ BackendFlips
      BY DEF Next, Progress, vars, plant, WriteTag, ReadTag, Approve, Deny, Inspect, InterlockReply,
         ReadReply, Land, WriteReturns, Retry, WriteRaises, Tick, PlantMoves, Restart
    <2>2. QED
      BY <2>1 DEF Reached, BackendFlips
  <1>3. ASSUME NEW d \in Calls, call'[d] \in WriteTasks, call'[d].ack
        PROVE  call'[d].pc = "write" /\ call'[d].tag \in Present
    <2>1. call[d] \in WriteTasks /\ call[d].ack => call[d].pc = "write" /\ call[d].tag \in Present
      BY DEF Reached, Writing
    <2>2. CASE Restart
      BY <1>3, <2>2 DEF Restart, Idle, WriteTasks
    <2>3. CASE Spares
      BY <1>3, <2>1, <2>3 DEF Spares
    <2>4. ASSUME NEW c \in Calls, Issues(c)
          PROVE  call'[d].pc = "write" /\ call'[d].tag \in Present
      BY <1>3, <2>1, <2>4, SlotAfter DEF Issues
    <2>5. ASSUME NEW c \in Calls, Land(c)
          PROVE  call'[d].pc = "write" /\ call'[d].tag \in Present
      <3>1. call'[c].tag \in Present /\ call'[c].pc = "write"
        BY <2>5, BackendSlot DEF Land, Reachable, SameWrite
      <3>2. QED
        BY <1>3, <2>1, <2>5, <3>1, BackendSlot
    <2>6. ASSUME NEW c \in Calls, Retry(c)
          PROVE  call'[d].pc = "write" /\ call'[d].tag \in Present
      BY <1>3, <2>1, <2>6, BackendSlot
    <2>7. ASSUME NEW c \in Calls, WriteReturns(c) \/ WriteRaises(c)
          PROVE  call'[d].pc = "write" /\ call'[d].tag \in Present
      <3>1. Idle \notin WriteTasks
        BY DEF Idle, WriteTasks
      <3>2. QED
        BY <1>3, <2>1, <2>7, <3>1, BackendSlot
    <2>8. QED
      BY <1>1, <2>2, <2>3, <2>4, <2>5, <2>6, <2>7 DEF BackendStep
  <1>4. QED
    BY <1>2, <1>3 DEF Reached, Writing

\* So it holds throughout.
LEMMA ReachedKept == Spec => []Reached
  <1>1. Init => Reached
    BY DEF Init, Reached, Idle, WriteTasks
  <1>2. QED
    BY <1>1, ReachedStep, TypeCorrect, PTL DEF Spec

-----------------------------------------------------------------------------
(* The audit misses no executed write *)

Calm == ~Outages /\ restarts = 0

\* The lines that tell of an executed write, those that could not be written, and the
\* writes whose answer is on its way.
ToldLines == {i \in DOMAIN audit : audit[i].action = "write" /\ audit[i].executed}
MissingLines == {i \in DOMAIN audit : audit[i] = NoLine}
Answering == {c \in Calls : Writing(c) /\ call[c].ack}

\* The three are finite, so that their counts are numbers.
LEMMA BooksFinite ==
  ASSUME TypeOK
  PROVE  /\ IsFiniteSet(ToldLines) /\ Cardinality(ToldLines) \in Nat
         /\ IsFiniteSet(MissingLines) /\ Cardinality(MissingLines) \in Nat
         /\ IsFiniteSet(Answering) /\ Cardinality(Answering) \in Nat
         /\ Len(landed) \in Nat
  <1>1. IsFiniteSet(DOMAIN audit) /\ IsFiniteSet(Calls) /\ Len(landed) \in Nat
    BY LenProperties, FS_Interval, CallsAssumption DEF TypeOK
  <1>2. /\ ToldLines \in SUBSET DOMAIN audit /\ MissingLines \in SUBSET DOMAIN audit
        /\ Answering \in SUBSET Calls
    BY DEF ToldLines, MissingLines, Answering
  <1>3. IsFiniteSet(ToldLines) /\ IsFiniteSet(MissingLines) /\ IsFiniteSet(Answering)
    BY <1>1, <1>2, FS_Subset
  <1>4. QED
    BY <1>1, <1>3, FS_CardinalityType

\* A new line adds one to the lines that tell, or to the missing ones, or to neither.
LEMMA BooksGrow ==
  ASSUME TypeOK, NEW line \in Lines, audit' = Append(audit, line)
  PROVE  /\ line = NoLine =>
              /\ Cardinality(ToldLines') = Cardinality(ToldLines)
              /\ Cardinality(MissingLines') = Cardinality(MissingLines) + 1
         /\ line # NoLine =>
              /\ Cardinality(MissingLines') = Cardinality(MissingLines)
              /\ Cardinality(ToldLines') =
                   IF Plain(line) THEN Cardinality(ToldLines) ELSE Cardinality(ToldLines) + 1
  <1>. DEFINE n == Len(audit) + 1
  <1>1. /\ Len(audit) \in Nat /\ DOMAIN audit = 1..Len(audit) /\ DOMAIN audit' = 1..n
        /\ audit'[n] = line /\ \A i \in 1..Len(audit) : audit'[i] = audit[i]
    BY AppendProperties, LenProperties DEF TypeOK
  <1>2. DOMAIN audit' = DOMAIN audit \cup {n} /\ n \notin DOMAIN audit
    BY <1>1
  <1>3. line.action = "write" /\ line.executed <=> ~Plain(line)
    BY DEF Plain, Lines, NoLine
  <1>4. Plain(NoLine)
    BY NoLinePlain
  <1>. HIDE DEF n
  <1>5. /\ Plain(line) => ToldLines' = ToldLines
        /\ ~Plain(line) => ToldLines' = ToldLines \cup {n}
        /\ line # NoLine => MissingLines' = MissingLines
        /\ line = NoLine => MissingLines' = MissingLines \cup {n}
        /\ n \notin ToldLines /\ n \notin MissingLines
    BY <1>1, <1>2, <1>3 DEF ToldLines, MissingLines
  <1>6. /\ Cardinality(ToldLines \cup {n}) = Cardinality(ToldLines) + 1
        /\ Cardinality(MissingLines \cup {n}) = Cardinality(MissingLines) + 1
    BY <1>5, BooksFinite, FS_AddElement
  <1>7. QED
    BY <1>4, <1>5, <1>6

\* A line of a write that did not run leaves the lines that tell as they are.
LEMMA PlainBooks ==
  ASSUME TypeOK, audit' = audit \/ \E line \in Lines : Plain(line) /\ audit' = Append(audit, line)
  PROVE  /\ Cardinality(ToldLines') = Cardinality(ToldLines)
         /\ Cardinality(MissingLines') \in
              {Cardinality(MissingLines), Cardinality(MissingLines) + 1}
  <1>1. audit' = audit => ToldLines' = ToldLines /\ MissingLines' = MissingLines
    BY DEF ToldLines, MissingLines
  <1>2. QED
    BY <1>1, BooksGrow

\* Every step keeps the account: what landed is told, on its way to be, or missing.
LEMMA CompleteStep ==
  ASSUME TypeOK, Reached, AuditComplete, [Next]_vars
  PROVE  AuditComplete'
  <1>. DEFINE told == Cardinality(ToldLines)
              missing == Cardinality(MissingLines)
              pending == Cardinality(Answering)
  <1>1. BackendStep /\ Outages' = Outages
    BY StepAtBackend
  <1>2. /\ told \in Nat /\ missing \in Nat /\ pending \in Nat /\ Len(landed) \in Nat
        /\ IsFiniteSet(Answering) /\ restarts \in Nat
    BY BooksFinite DEF TypeOK
  <1>3. AuditComplete <=> (Calm => Len(landed) - told - pending \in 0..missing)
    BY DEF AuditComplete, Calm, ToldLines, MissingLines, Answering
  <1>4. AuditComplete' <=> (Calm' => Len(landed') - told' - pending' \in 0..missing')
    BY DEF AuditComplete, Calm, ToldLines, MissingLines, Answering
  <1>. HIDE DEF told, missing, pending
  <1>5. CASE Restart \/ Outages \/ restarts' # 0
    BY <1>2, <1>4, <1>5 DEF Restart, Calm
  <1>6. ASSUME ~Outages, restarts' = restarts, landed' = landed, Answering' = Answering,
               audit' = audit \/ \E line \in Lines : Plain(line) /\ audit' = Append(audit, line)
        PROVE  AuditComplete'
    <2>1. told' = told /\ missing' \in {missing, missing + 1} /\ pending' = pending
      BY <1>6, PlainBooks DEF told, missing, pending
    <2>2. QED
      BY <1>2, <1>3, <1>4, <1>6, <2>1 DEF Calm
  <1>7. CASE Spares /\ ~Outages
    <2>1. Answering' = Answering
      BY <1>7 DEF Spares, Answering, Writing
    <2>2. QED
      BY <1>6, <1>7, <2>1 DEF Spares
  <1>8. ASSUME NEW c \in Calls, Issues(c), ~Outages
        PROVE  AuditComplete'
    <2>1. Answering' = Answering
      BY <1>8, SlotAfter DEF Issues, Answering, Writing
    <2>2. QED
      BY <1>6, <1>8, <2>1 DEF Issues
  <1>9. ASSUME NEW c \in Calls, Land(c), ~Outages
        PROVE  AuditComplete'
    <2>1. Answering' = Answering \cup {c} /\ c \notin Answering
      BY <1>9, BackendSlot DEF Land, Answering, Writing
    <2>2. pending' = pending + 1
      BY <1>2, <2>1, FS_AddElement DEF pending
    <2>3. Len(landed') = Len(landed) + 1 /\ restarts' = restarts /\ audit' = audit
      BY <1>9, AppendProperties, LandType DEF Land, TypeOK
    <2>4. told' = told /\ missing' = missing
      BY <2>3 DEF told, missing, ToldLines, MissingLines
    <2>5. QED
      BY <1>2, <1>3, <1>4, <2>2, <2>3, <2>4 DEF Calm
  <1>10. ASSUME NEW c \in Calls, WriteReturns(c), ~Outages
         PROVE  AuditComplete'
    <2>1. Answering' = Answering \ {c} /\ c \in Answering
      <3>1. call'[c].pc # "write" /\ \A d \in Calls : d # c => call'[d] = call[d]
        BY <1>10, BackendSlot DEF Idle
      <3>2. call[c].pc = "write" /\ call[c].ack
        BY <1>10 DEF WriteReturns
      <3>3. QED
        BY <3>1, <3>2 DEF Answering, Writing
    <2>2. pending' = pending - 1
      BY <1>2, <2>1, FS_RemoveElement DEF pending
    <2>. DEFINE line == WriteLine(call[c], "ALLOW", TRUE)
    <2>3. call[c] \in WriteTasks
      BY <1>10, BackendSlot
    <2>4. line \in Lines
      BY <2>3, WriteLineType
    <2>5. ~Plain(line) /\ line # NoLine
      BY DEF Plain, WriteLine, NoLine
    <2>6. audit' = Append(audit, line) \/ audit' = Append(audit, NoLine)
      BY <1>10 DEF WriteReturns, Close, End
    <2>. HIDE DEF line
    <2>7. \/ told' = told + 1 /\ missing' = missing
          \/ told' = told /\ missing' = missing + 1
      BY <2>4, <2>5, <2>6, NoLinePlain, BooksGrow DEF told, missing
    <2>8. landed' = landed /\ restarts' = restarts
      BY <1>10 DEF WriteReturns
    <2>9. QED
      BY <1>2, <1>3, <1>4, <2>2, <2>7, <2>8 DEF Calm
  <1>11. ASSUME NEW c \in Calls, WriteRaises(c), ~Outages
         PROVE  AuditComplete'
    <2>1. call[c] \in WriteTasks /\ ~call[c].ack
      BY <1>11, BackendSlot DEF WriteRaises, Reachable, Reached
    <2>2. Answering' = Answering
      BY <1>11, <2>1, BackendSlot DEF Answering, Writing, Idle
    <2>. DEFINE line == WriteLine(call[c], "ERROR", FALSE)
    <2>3. line \in Lines /\ Plain(line)
      BY <2>1, WriteLinePlain
    <2>4. audit' = Append(audit, line) \/ audit' = Append(audit, NoLine)
      BY <1>11 DEF WriteRaises, Close, End
    <2>. HIDE DEF line
    <2>5. \E l \in Lines : Plain(l) /\ audit' = Append(audit, l)
      BY <2>3, <2>4, NoLinePlain
    <2>6. QED
      BY <1>6, <1>11, <2>2, <2>5 DEF WriteRaises
  <1>12. ASSUME NEW c \in Calls, Retry(c)
         PROVE  Outages
    BY <1>12 DEF Retry
  <1>13. QED
    BY <1>1, <1>5, <1>7, <1>8, <1>9, <1>10, <1>11, <1>12, ModeAssumption DEF BackendStep

\* While the backend answers and the process lives, the audit misses no executed write
\* but those whose line could not be written, one write for each: however the calls
\* interleave, every landing is told of, on its way to be told, or has its mark.
THEOREM AuditMissesNothing == Spec => []AuditComplete
  <1>1. Init => AuditComplete
    <2>. SUFFICES ASSUME Init
                  PROVE  AuditComplete
      OBVIOUS
    <2>1. /\ ToldLines = {} /\ MissingLines = {} /\ Answering = {} /\ Len(landed) = 0
      BY DEF Init, ToldLines, MissingLines, Answering, Writing, Idle
    <2>2. Cardinality(ToldLines) = 0 /\ Cardinality(MissingLines) = 0 /\ Cardinality(Answering) = 0
      BY <2>1, FS_EmptySet
    <2>3. QED
      BY <2>1, <2>2 DEF AuditComplete, ToldLines, MissingLines, Answering
  <1>2. TypeOK /\ Reached /\ AuditComplete /\ [Next]_vars => AuditComplete'
    BY CompleteStep
  <1>3. QED
    BY <1>1, <1>2, TypeCorrect, ReachedKept, PTL DEF Spec

-----------------------------------------------------------------------------
(* Records in a window *)

\* The records of a window are finitely many.
LEMMA BetweenFinite ==
  ASSUME NEW recs \in Seq(Record), NEW w \in Int, NEW width \in Nat
  PROVE  /\ IsFiniteSet(Between(recs, w, width)) /\ Cardinality(Between(recs, w, width)) \in Nat
         /\ IsFiniteSet(Window(recs, w)) /\ Cardinality(Window(recs, w)) \in Nat
  <1>1. IsFiniteSet(DOMAIN recs)
    BY LenProperties, FS_Interval
  <1>2. Between(recs, w, width) \in SUBSET DOMAIN recs /\ Window(recs, w) \in SUBSET DOMAIN recs
    BY DEF Between, Window
  <1>3. IsFiniteSet(Between(recs, w, width)) /\ IsFiniteSet(Window(recs, w))
    BY <1>1, <1>2, FS_Subset
  <1>4. QED
    BY <1>3, FS_CardinalityType

\* A window that has not closed yet holds no more than the engine counts.
LEMMA BetweenWindow ==
  ASSUME NEW recs \in Seq(Record), NEW w \in Int, NEW width \in Nat, NEW now \in Int,
         now <= w + width
  PROVE  Cardinality(Between(recs, w, width)) <= Cardinality(Window(recs, now - width))
  <1>1. \A i \in DOMAIN recs : recs[i].ts \in Int
    <2>1. \A i \in DOMAIN recs : recs[i] \in Record
      BY LenProperties, ElementOfSeq
    <2>2. QED
      BY <2>1 DEF Record
  <1>2. Between(recs, w, width) \in SUBSET Window(recs, now - width)
    BY <1>1 DEF Between, Window
  <1>3. now - width \in Int
    OBVIOUS
  <1>4. IsFiniteSet(Window(recs, now - width))
    BY <1>3, BetweenFinite
  <1>5. QED
    BY <1>2, <1>4, FS_Subset

\* The record of a write adds one to the windows that it falls into, and to no other.
LEMMA RecordedCounts ==
  ASSUME NEW recs \in Seq(Record), NEW value \in Scalar, NEW now \in Int,
         NEW w \in Int, NEW width \in Nat
  PROVE  LET new == Recorded(recs, value, now)
         IN  /\ Cardinality(Between(new, w, width)) \in
                  {Cardinality(Between(recs, w, width)), Cardinality(Between(recs, w, width)) + 1}
             /\ now > w + width =>
                  Cardinality(Between(new, w, width)) = Cardinality(Between(recs, w, width))
             /\ ~value.bool => Cardinality(Window(new, w)) =
                  IF now >= w THEN Cardinality(Window(recs, w)) + 1 ELSE Cardinality(Window(recs, w))
  <1>. DEFINE rec == [ts |-> now, value |-> value.n]
              new == Recorded(recs, value, now)
              n == Len(recs) + 1
  <1>1. CASE value.bool
    <2>1. new = recs
      BY <1>1 DEF Recorded
    <2>2. Cardinality(Between(recs, w, width)) \in Nat
      BY BetweenFinite
    <2>3. QED
      BY <1>1, <2>1, <2>2
  <1>2. CASE ~value.bool
    <2>1. new = Append(recs, rec) /\ rec.ts = now
      BY <1>2 DEF Recorded
    <2>. HIDE DEF rec, new
    <2>2. /\ Len(recs) \in Nat /\ DOMAIN recs = 1..Len(recs) /\ DOMAIN new = 1..n
          /\ new[n] = rec /\ \A i \in 1..Len(recs) : new[i] = recs[i]
      BY <2>1, LenProperties
    <2>3. DOMAIN new = DOMAIN recs \cup {n} /\ n \notin DOMAIN recs
      BY <2>2
    <2>. HIDE DEF n
    <2>4. /\ n \notin Between(recs, w, width) /\ n \notin Window(recs, w)
          /\ Between(new, w, width) = IF now >= w /\ now <= w + width
                                      THEN Between(recs, w, width) \cup {n}
                                      ELSE Between(recs, w, width)
          /\ Window(new, w) = IF now >= w THEN Window(recs, w) \cup {n} ELSE Window(recs, w)
      BY <2>1, <2>2, <2>3 DEF Between, Window
    <2>5. /\ IsFiniteSet(Between(recs, w, width)) /\ Cardinality(Between(recs, w, width)) \in Nat
          /\ IsFiniteSet(Window(recs, w)) /\ Cardinality(Window(recs, w)) \in Nat
      BY BetweenFinite
    <2>6. /\ Cardinality(Between(recs, w, width) \cup {n}) = Cardinality(Between(recs, w, width)) + 1
          /\ Cardinality(Window(recs, w) \cup {n}) = Cardinality(Window(recs, w)) + 1
      BY <2>4, <2>5, FS_AddElement
    <2>7. QED
      BY <2>4, <2>5, <2>6 DEF new
  <1>3. QED
    BY <1>1, <1>2

-----------------------------------------------------------------------------
(* The ceiling on recorded writes *)

\* The writes at the backend that will be counted for the tag in store s.
InFlight(s, tag) == {c \in Calls : Writing(c) /\ StoreOf(call[c].g) = s /\ call[c].tag = tag}

\* What a window holds, and may still come to hold if it has not closed.
Fits(s, tag, limit) ==
  \A w \in Int :
    Cardinality(Between(history[s][tag], w, limit.interval))
      + (IF clock <= w + limit.interval THEN Cardinality(InFlight(s, tag)) ELSE 0)
        < limit.max + Cardinality(Calls)

AllFit ==
  \A s \in Stores, tag \in Tags : \A limit \in Budgets(tag) :
    Budget(s, tag, limit) => Fits(s, tag, limit)

\* A budget is a positive number of writes in a positive interval.
LEMMA BudgetType ==
  ASSUME NEW tag, NEW limit \in Budgets(tag)
  PROVE  limit.max \in Nat \ {0} /\ limit.interval \in Nat \ {0}
  <1>1. PICK g \in Agents : MayWrite(g, tag) /\ limit \in Policy[g][tag].calls
    BY DEF Budgets
  <1>2. limit \in CallBudgets
    BY <1>1, PolicyAssumption DEF MayWrite, IsPolicy, IsRule
  <1>3. QED
    BY <1>2 DEF CallBudgets

\* The writes in flight are at most the calls in flight.
LEMMA InFlightFinite ==
  /\ IsFiniteSet(Calls) /\ Cardinality(Calls) \in Nat
  /\ \A set \in SUBSET Calls :
       /\ IsFiniteSet(set) /\ Cardinality(set) \in Nat
       /\ Cardinality(set) <= Cardinality(Calls)
  <1>1. IsFiniteSet(Calls) /\ Cardinality(Calls) \in Nat
    BY CallsAssumption, FS_CardinalityType
  <1>2. \A set \in SUBSET Calls : IsFiniteSet(set) /\ Cardinality(set) <= Cardinality(Calls)
    BY <1>1, FS_Subset
  <1>3. QED
    BY <1>1, <1>2, FS_CardinalityType

\* A write that is issued has just been found within the budgets its tag has.
LEMMA IssuedWithin ==
  ASSUME Strong, [Next]_vars, NEW c \in Calls, NEW task \in WriteTasks,
         call' = [call EXCEPT ![c] = task],
         SeriesOk(Policy[task.g][task.tag], history[StoreOf(task.g)][task.tag], task.value, clock),
         NEW limit, Budget(StoreOf(task.g), task.tag, limit)
  PROVE  /\ MayWrite(task.g, task.tag)
         /\ Cardinality(Window(history[StoreOf(task.g)][task.tag], clock - limit.interval)) < limit.max
  <1>1. Strong'
    BY StrongStep
  <1>2. call'[c] = task
    BY DEF Strong, TypeOK
  <1>3. WellFormed(task, Len(requests')) /\ Held(task, requests')
    BY <1>1, <1>2 DEF Strong, TypeOK, AllHeld
  <1>4. task.g \in Agents /\ MayWrite(task.g, task.tag)
    BY <1>3 DEF WellFormed, Held, MayWrite, WriteTasks
  <1>5. limit \in Policy[task.g][task.tag].calls
    BY <1>4 DEF Budget
  <1>6. QED
    BY <1>4, <1>5 DEF SeriesOk, BudgetOk

\* Every step keeps the sum of a window below the ceiling and the calls in flight: a write
\* that is issued finds the window below the ceiling, one that returns turns from a write
\* in flight into a record, and time only closes windows.
LEMMA FitsStep ==
  ASSUME Strong, Reached, [Next]_vars, NEW s \in Stores, NEW tag \in Tags,
         NEW limit \in Budgets(tag), Budget(s, tag, limit), Fits(s, tag, limit)
  PROVE  Fits(s, tag, limit)'
  <1>. DEFINE recs == history[s][tag]
              flying == InFlight(s, tag)
              N == Cardinality(Calls)
  <1>1. /\ TypeOK /\ TypeOK' /\ BackendStep /\ clock \in Int /\ clock' \in Int
        /\ recs \in Seq(Record) /\ recs' \in Seq(Record)
    BY StepAtBackend, TypeStep DEF Strong, TypeOK
  <1>2. limit.max \in Nat \ {0} /\ limit.interval \in Nat
    BY BudgetType
  <1>3. /\ flying \in SUBSET Calls /\ flying' \in SUBSET Calls
        /\ IsFiniteSet(flying) /\ Cardinality(flying) \in Nat
        /\ Cardinality(flying') \in Nat /\ Cardinality(flying') <= N /\ N \in Nat
    BY InFlightFinite DEF InFlight
  <1>. SUFFICES ASSUME NEW w \in Int
                PROVE  Cardinality(Between(recs', w, limit.interval))
                         + (IF clock' <= w + limit.interval THEN Cardinality(flying') ELSE 0)
                           < limit.max + N
    BY DEF Fits
  <1>. DEFINE n == Cardinality(Between(recs, w, limit.interval))
              m == Cardinality(Between(recs', w, limit.interval))
              k == Cardinality(flying)
              j == Cardinality(flying')
              open == clock <= w + limit.interval
  <1>4. n + (IF open THEN k ELSE 0) < limit.max + N
    BY DEF Fits
  <1>5. n \in Nat /\ m \in Nat
    BY <1>1, <1>2, BetweenFinite
  <1>6. k \in Nat /\ j \in Nat /\ j <= N /\ N \in Nat
    BY <1>3
  <1>7. ASSUME recs' = recs, flying' \in SUBSET flying, clock <= clock'
        PROVE  m + (IF clock' <= w + limit.interval THEN j ELSE 0) < limit.max + N
    <2>1. m = n
      BY <1>7
    <2>2. j <= k
      BY <1>3, <1>7, FS_Subset
    <2>. HIDE DEF recs, flying, n, m, k, j, N
    <2>3. QED
      BY <1>1, <1>2, <1>4, <1>5, <1>6, <1>7, <2>1, <2>2
  <1>8. CASE Spares
    <2>1. flying' = flying /\ recs' = recs /\ clock <= clock'
      BY <1>8 DEF Spares, InFlight, Writing
    <2>2. QED
      BY <1>7, <2>1
  <1>9. ASSUME NEW c \in Calls, Land(c) \/ Retry(c)
        PROVE  m + (IF clock' <= w + limit.interval THEN j ELSE 0) < limit.max + N
    <2>1. flying' = flying
      BY <1>1, <1>9, BackendSlot DEF InFlight, Writing, SameWrite
    <2>2. history' = history /\ clock' = clock
      BY <1>9 DEF Land, Retry
    <2>3. QED
      BY <1>1, <1>7, <2>1, <2>2
  <1>10. ASSUME NEW c \in Calls, WriteReturns(c) \/ WriteRaises(c)
         PROVE  /\ flying' = flying \ {c} /\ clock' = clock
                /\ Writing(c) /\ call[c] \in WriteTasks
    <2>1. /\ call'[c].pc # "write" /\ Writing(c) /\ call[c] \in WriteTasks
          /\ \A d \in Calls : d # c => call'[d] = call[d]
      BY <1>1, <1>10, BackendSlot DEF Idle
    <2>2. clock' = clock
      BY <1>10 DEF WriteReturns, WriteRaises
    <2>3. QED
      BY <2>1, <2>2 DEF InFlight, Writing
  <1>11. ASSUME NEW c \in Calls, WriteRaises(c)
         PROVE  m + (IF clock' <= w + limit.interval THEN j ELSE 0) < limit.max + N
    <2>1. flying' \in SUBSET flying /\ clock' = clock
      BY <1>10, <1>11
    <2>2. history' = history
      BY <1>11 DEF WriteRaises
    <2>3. QED
      BY <1>1, <1>7, <2>1, <2>2
  <1>12. ASSUME NEW c \in Calls, WriteReturns(c)
         PROVE  m + (IF clock' <= w + limit.interval THEN j ELSE 0) < limit.max + N
    <2>. DEFINE task == call[c]
                new == Recorded(history[StoreOf(task.g)][task.tag], task.value, clock)
    <2>1. flying' = flying \ {c} /\ clock' = clock /\ Writing(c) /\ task \in WriteTasks
      BY <1>10, <1>12
    <2>2. history' = [history EXCEPT ![StoreOf(task.g)][task.tag] = new]
      BY <1>12 DEF WriteReturns
    <2>3. task.tag \in Tags /\ StoreOf(task.g) \in Stores /\ task.value \in Scalar
      BY <2>1 DEF WriteTasks, Stores
    <2>. HIDE DEF new
    <2>4. CASE StoreOf(task.g) = s /\ task.tag = tag
      <3>1. recs' = new
        BY <1>1, <2>2, <2>3, <2>4 DEF TypeOK
      <3>2. c \in flying
        BY <2>1, <2>4 DEF InFlight
      <3>3. j = k - 1
        BY <1>3, <2>1, <3>2, FS_RemoveElement
      <3>4. new = Recorded(recs, task.value, clock)
        BY <2>4 DEF new
      <3>5. m \in {n, n + 1} /\ (clock > w + limit.interval => m = n)
        <4>. HIDE DEF recs
        <4>1. QED
          BY <1>1, <1>2, <2>3, <3>1, <3>4, RecordedCounts
      <3>. HIDE DEF recs, flying, n, m, k, j, N
      <3>6. QED
        BY <1>1, <1>2, <1>4, <1>5, <1>6, <2>1, <3>3, <3>5
    <2>5. CASE ~(StoreOf(task.g) = s /\ task.tag = tag)
      <3>1. recs' = recs
        BY <1>1, <2>2, <2>3, <2>5 DEF TypeOK
      <3>2. QED
        BY <1>1, <1>7, <2>1, <3>1
    <2>6. QED
      BY <2>4, <2>5
  <1>13. ASSUME NEW c \in Calls, Issues(c)
         PROVE  m + (IF clock' <= w + limit.interval THEN j ELSE 0) < limit.max + N
    <2>1. PICK task \in WriteTasks :
            /\ call' = [call EXCEPT ![c] = task] /\ task.pc = "write" /\ ~Writing(c)
            /\ SeriesOk(Policy[task.g][task.tag], history[StoreOf(task.g)][task.tag],
                        task.value, clock)
      BY <1>13 DEF Issues
    <2>2. recs' = recs /\ clock' = clock
      BY <1>13 DEF Issues
    <2>3. CASE StoreOf(task.g) = s /\ task.tag = tag
      <3>1. Cardinality(Window(recs, clock - limit.interval)) < limit.max
        BY <2>1, <2>3, IssuedWithin
      <3>2. open => n < limit.max
        <4>1. Cardinality(Window(recs, clock - limit.interval)) \in Nat
          <5>1. clock - limit.interval \in Int
            BY <1>1, <1>2
          <5>2. QED
            BY <1>1, <1>2, <5>1, BetweenFinite
        <4>2. open => n <= Cardinality(Window(recs, clock - limit.interval))
          BY <1>1, <1>2, BetweenWindow
        <4>3. QED
          BY <1>2, <1>5, <3>1, <4>1, <4>2
      <3>3. m = n
        BY <2>2
      <3>. HIDE DEF recs, flying, n, m, k, j, N
      <3>4. QED
        BY <1>1, <1>2, <1>4, <1>5, <1>6, <2>2, <3>2, <3>3
    <2>4. CASE ~(StoreOf(task.g) = s /\ task.tag = tag)
      <3>1. flying' = flying
        BY <1>1, <2>1, <2>4, SlotAfter DEF InFlight, Writing
      <3>2. QED
        BY <1>1, <1>7, <2>2, <3>1
    <2>5. QED
      BY <2>3, <2>4
  <1>14. ASSUME Restart
         PROVE  m + (IF clock' <= w + limit.interval THEN j ELSE 0) < limit.max + N
    <2>1. flying' = {}
      BY <1>14 DEF Restart, InFlight, Writing, Idle
    <2>2. j = 0
      BY <2>1, FS_EmptySet
    <2>3. recs' = recs \/ recs' = <<>>
      BY <1>14 DEF Restart, NoHistory
    <2>4. m \in {n, 0}
      <3>1. Between(<<>>, w, limit.interval) = {}
        BY DEF Between
      <3>2. QED
        BY <2>3, <3>1, FS_EmptySet
    <2>. HIDE DEF recs, flying, n, m, k, j, N
    <2>5. QED
      BY <1>2, <1>4, <1>5, <1>6, <2>2, <2>4
  <1>15. QED
    BY <1>1, <1>8, <1>9, <1>11, <1>12, <1>13, <1>14 DEF BackendStep

\* max_calls is exceeded by at most the calls that were in flight together, on every
\* history, through outages, second issues, failing lines and restarts: each window of
\* calls_interval holds fewer than max_calls + |Calls| records.
THEOREM CeilingNearlyHeld == Spec => []BudgetHeld
  <1>1. Init => AllFit
    <2>. SUFFICES ASSUME Init, NEW s \in Stores, NEW tag \in Tags,
                         NEW limit \in Budgets(tag), NEW w \in Int
                  PROVE  Cardinality(Between(history[s][tag], w, limit.interval))
                           + (IF clock <= w + limit.interval
                              THEN Cardinality(InFlight(s, tag)) ELSE 0)
                             < limit.max + Cardinality(Calls)
      BY DEF AllFit, Fits
    <2>1. Between(history[s][tag], w, limit.interval) = {} /\ InFlight(s, tag) = {}
      BY DEF Init, NoHistory, Between, InFlight, Writing, Idle
    <2>2. Cardinality({}) = 0
      BY FS_EmptySet
    <2>3. limit.max \in Nat \ {0}
      BY BudgetType
    <2>4. Cardinality(Calls) \in Nat
      BY InFlightFinite
    <2>5. QED
      BY <2>1, <2>2, <2>3, <2>4
  <1>2. Strong /\ Reached /\ AllFit /\ [Next]_vars => AllFit'
    <2>. SUFFICES ASSUME Strong, Reached, AllFit, [Next]_vars, NEW s \in Stores, NEW tag \in Tags,
                         NEW limit \in Budgets(tag), Budget(s, tag, limit)
                  PROVE  Fits(s, tag, limit)'
      BY DEF AllFit
    <2>1. Fits(s, tag, limit)
      BY DEF AllFit
    <2>2. QED
      BY <2>1, FitsStep
  <1>3. TypeOK /\ AllFit => BudgetHeld
    <2>. SUFFICES ASSUME TypeOK, AllFit, NEW s \in Stores, NEW tag \in Tags,
                         NEW limit \in Budgets(tag), Budget(s, tag, limit),
                         NEW i \in DOMAIN history[s][tag]
                  PROVE  Cardinality(Between(history[s][tag], history[s][tag][i].ts, limit.interval))
                           < limit.max + Cardinality(Calls)
      BY DEF BudgetHeld
    <2>. DEFINE recs == history[s][tag]
                w == recs[i].ts
    <2>1. recs \in Seq(Record) /\ recs[i] \in Record
      BY LenProperties, ElementOfSeq DEF TypeOK
    <2>2. w \in Int /\ limit.max \in Nat /\ limit.interval \in Nat
      BY <2>1, BudgetType DEF Record
    <2>. HIDE DEF w
    <2>3. Cardinality(Between(recs, w, limit.interval)) \in Nat
      BY <2>1, <2>2, BetweenFinite
    <2>4. Fits(s, tag, limit)
      BY DEF AllFit
    <2>5. Cardinality(InFlight(s, tag)) \in Nat /\ Cardinality(Calls) \in Nat
      BY InFlightFinite DEF InFlight
    <2>6. QED
      BY <2>2, <2>3, <2>4, <2>5 DEF Fits, w
  <1>4. QED
    BY <1>1, <1>2, <1>3, StrongCorrect, TypeCorrect, ReachedKept, PTL DEF Spec

-----------------------------------------------------------------------------
(* What is never counted is not written: the values of budgeted tags are numbers *)

\* record_write skips booleans, so a budget bounds a tag only if it is given numbers.
Countable(x) == CommonBudgets(x.tag) # {} => ~x.value.bool
NumbersWritten == \A input \in Writes : Countable(input)

AllCountable ==
  /\ \A c \in Calls : call[c] \in WriteTasks => Countable(call[c])
  /\ \A r \in 1..Len(requests) : Countable(requests[r])

\* Like writes are countable alike.
LEMMA CountableLike ==
  ASSUME NEW x, NEW y, Like(x, y), Countable(y)
  PROVE  Countable(x)
  BY DEF Like, Countable

\* A call on a countable write leaves a countable write and countable requests.
LEMMA HandledCountable ==
  ASSUME Strong, AllCountable, Keeps(requests, requests'), NEW c \in Calls,
         NEW task \in WriteTasks, task.req \in 0..Len(requests), Countable(task),
         NEW reqs \in {requests, Expired(requests)}, Handled(c, task, reqs)
  PROVE  AllCountable'
  <1>1. /\ TypeOK /\ requests \in Seq(Requests) /\ reqs \in Seq(Requests)
        /\ Len(reqs) = Len(requests) /\ Len(requests) \in Nat
    BY ExpiredType, LenProperties DEF Strong, TypeOK
  <1>2. ASSUME NEW d \in Calls, call'[d] \in WriteTasks
        PROVE  Countable(call'[d])
    <2>1. \/ call'[d] = call[d]
          \/ call'[d] = Idle
          \/ SameWrite(call'[d], task)
      BY <1>1 DEF Handled, Ends, TypeOK
    <2>2. CASE call'[d] = call[d]
      BY <1>2, <2>2 DEF AllCountable
    <2>3. CASE call'[d] = Idle
      BY <1>2, <2>3 DEF Idle, WriteTasks
    <2>4. CASE SameWrite(call'[d], task)
      BY <2>4, CountableLike DEF SameWrite, Like
    <2>5. QED
      BY <2>1, <2>2, <2>3, <2>4
  <1>3. ASSUME NEW r \in 1..Len(requests')
        PROVE  Countable(requests'[r])
    <2>1. CASE r \in 1..Len(requests)
      <3>1. Like(requests'[r], requests[r]) /\ Countable(requests[r])
        BY <2>1 DEF Keeps, Like, AllCountable
      <3>2. QED
        BY <3>1, CountableLike
    <2>2. CASE r \notin 1..Len(requests)
      <3>1. \/ Len(requests') = Len(requests)
            \/ \E new \in Requests : Like(new, task) /\ requests' = Append(reqs, new)
        <4>1. ASSUME NEW status \in {"DENIED", "APPROVED"}
              PROVE  Len(Marked(reqs, task, status)) = Len(requests)
          <5>1. task.req \in 0..Len(reqs)
            BY <1>1
          <5>2. status \in {"PENDING", "APPROVED", "DENIED", "EXPIRED", "GONE"}
            OBVIOUS
          <5>3. Len(Marked(reqs, task, status)) = Len(reqs)
            BY <1>1, <5>1, <5>2, MarkedType
          <5>4. QED
            BY <1>1, <5>3
        <4>2. \/ requests' = reqs
              \/ \E status \in {"DENIED", "APPROVED"} : requests' = Marked(reqs, task, status)
              \/ \E new \in Requests : Like(new, task) /\ requests' = Append(reqs, new)
          BY DEF Handled, Settles
        <4>3. QED
          BY <1>1, <4>1, <4>2
      <3>2. PICK new \in Requests : Like(new, task) /\ requests' = Append(reqs, new)
        BY <2>2, <3>1
      <3>3. Len(requests') = Len(requests) + 1 /\ requests'[Len(requests) + 1] = new
        BY <1>1, <3>2, AppendProperties
      <3>4. r = Len(requests) + 1
        BY <1>1, <2>2, <3>3
      <3>5. QED
        BY <3>2, <3>3, <3>4, CountableLike
    <2>3. QED
      BY <2>1, <2>2
  <1>4. QED
    BY <1>2, <1>3 DEF AllCountable

\* Every step keeps what is in flight and what is parked countable.
LEMMA CountableStep ==
  ASSUME NumbersWritten, Strong, AllCountable, [Next]_vars
  PROVE  AllCountable'
  <1>1. /\ Shape /\ Keeps(requests, requests') /\ TypeOK
        /\ DOMAIN requests = 1..Len(requests) /\ Len(requests) \in Nat
    BY StepShape, StepGood, LenProperties DEF Strong, Good, TypeOK
  <1>2. ASSUME NEW c \in Calls, Starts(c)
        PROVE  AllCountable'
    <2>1. PICK task \in WriteTasks, reqs \in {requests, Expired(requests)} :
            /\ Handled(c, task, reqs)
            /\ \/ task.req = 0 /\ \E input \in Writes : Like(task, input)
               \/ task.req \in DOMAIN requests /\ Like(task, requests[task.req])
      BY <1>2 DEF Starts, Like
    <2>2. Countable(task)
      BY <1>1, <2>1, CountableLike DEF NumbersWritten, AllCountable
    <2>3. task.req \in 0..Len(requests)
      BY <1>1, <2>1
    <2>4. QED
      BY <1>1, <2>1, <2>2, <2>3, HandledCountable
  <1>3. ASSUME NEW c \in Calls, Goes(c)
        PROVE  AllCountable'
    <2>1. /\ call[c] \in WriteTasks /\ Handled(c, call[c], requests)
          /\ call[c].req \in 0..Len(requests) /\ Countable(call[c])
      BY <1>1, <1>3 DEF Goes, TypeOK, WellFormed, AllCountable
    <2>2. QED
      BY <1>1, <2>1, HandledCountable
  <1>4. ASSUME Len(requests') = Len(requests),
               \A d \in Calls : call'[d] \in WriteTasks =>
                 call[d] \in WriteTasks /\ Like(call'[d], call[d])
        PROVE  AllCountable'
    <2>1. \A r \in 1..Len(requests) : Like(requests'[r], requests[r])
      BY <1>1 DEF Keeps, Like
    <2>2. QED
      BY <1>4, <2>1, CountableLike DEF AllCountable
  <1>5. ASSUME NEW c \in Calls, ReadsOn(c)
        PROVE  AllCountable'
    <2>1. \E t \in ReadTasks \cup {Idle} : call' = [call EXCEPT ![c] = t]
      BY <1>5 DEF ReadsOn, Ends
    <2>2. \A t \in ReadTasks \cup {Idle} : t \notin WriteTasks
      BY DEF ReadTasks, Idle, WriteTasks
    <2>3. \A d \in Calls : call'[d] \in WriteTasks => call'[d] = call[d]
      BY <1>1, <2>1, <2>2 DEF TypeOK
    <2>4. QED
      BY <1>4, <1>5, <2>3 DEF ReadsOn, Like
  <1>6. ASSUME NEW c \in Calls, Lands(c)
        PROVE  AllCountable'
    <2>. DEFINE next == [call[c] EXCEPT !.ack = TRUE]
    <2>1. call[c] \in WriteTasks /\ Like(next, call[c]) /\ call' = [call EXCEPT ![c] = next]
      BY <1>6 DEF Lands, WriteTasks, Like
    <2>. HIDE DEF next
    <2>2. \A d \in Calls : call'[d] \in WriteTasks =>
            call[d] \in WriteTasks /\ Like(call'[d], call[d])
      BY <1>1, <2>1 DEF TypeOK, Like
    <2>3. QED
      BY <1>4, <1>6, <2>2 DEF Lands
  <1>7. CASE Rests \/ Restart
    <2>1. \A d \in Calls : call'[d] \in WriteTasks => call'[d] = call[d]
      BY <1>7 DEF Rests, Restart, Idle, WriteTasks
    <2>2. Len(requests') = Len(requests)
      BY <1>1, <1>7, ExpiredType, LenProperties DEF Rests, Restart, TypeOK
    <2>3. QED
      BY <1>4, <2>1, <2>2 DEF Like
  <1>8. QED
    BY <1>1, <1>2, <1>3, <1>5, <1>6, <1>7 DEF Shape

\* So they are throughout.
LEMMA CountableKept == ASSUME NumbersWritten PROVE Spec => []AllCountable
  <1>1. Init => AllCountable
    <2>1. Idle \notin WriteTasks
      BY DEF Idle, WriteTasks
    <2>2. QED
      BY <2>1 DEF Init, AllCountable
  <1>2. Strong /\ AllCountable /\ [Next]_vars => AllCountable'
    BY CountableStep
  <1>3. QED
    BY <1>1, <1>2, StrongCorrect, PTL DEF Spec

-----------------------------------------------------------------------------
(* The ceiling on writes that reached the backend *)

\* The landings of a tag since a moment, and in a window.
LandedSince(log, tag, w) == {i \in DOMAIN log : log[i].tag = tag /\ log[i].ts >= w}
LandedWithin(log, tag, w, width) ==
  {i \in DOMAIN log : log[i].tag = tag /\ log[i].ts \in w..(w + width)}

\* The writes of a tag at the backend, with and without an answer on its way.
Answered(tag) == {c \in Calls : Writing(c) /\ call[c].ack /\ call[c].tag = tag}
Unanswered(tag) == {c \in Calls : Writing(c) /\ ~call[c].ack /\ call[c].tag = tag}

Past == \A i \in DOMAIN landed : landed[i].ts <= clock

\* What landed since any moment is recorded, or the answer is still on its way.
Counted(tag) ==
  \A w \in Int :
    Cardinality(LandedSince(landed, tag, w))
      <= Cardinality(Window(history[Operator][tag], w)) + Cardinality(Answered(tag))

\* What landed in a window, and may still land if it has not closed.
LandedFits(tag, limit) ==
  \A w \in Int :
    Cardinality(LandedWithin(landed, tag, w, limit.interval))
      + (IF clock <= w + limit.interval THEN Cardinality(Unanswered(tag)) ELSE 0)
        < limit.max + Cardinality(Calls)

AllCounted ==
  Calm => \A tag \in Tags : CommonBudgets(tag) # {} =>
            Counted(tag) /\ \A limit \in CommonBudgets(tag) : LandedFits(tag, limit)

\* The landings of a tag are finitely many.
LEMMA LandedFinite ==
  ASSUME NEW log \in Seq(Landings), NEW tag, NEW w \in Int, NEW width \in Nat
  PROVE  /\ IsFiniteSet(LandedSince(log, tag, w)) /\ Cardinality(LandedSince(log, tag, w)) \in Nat
         /\ IsFiniteSet(LandedWithin(log, tag, w, width))
         /\ Cardinality(LandedWithin(log, tag, w, width)) \in Nat
  <1>1. IsFiniteSet(DOMAIN log)
    BY LenProperties, FS_Interval
  <1>2. /\ LandedSince(log, tag, w) \in SUBSET DOMAIN log
        /\ LandedWithin(log, tag, w, width) \in SUBSET DOMAIN log
    BY DEF LandedSince, LandedWithin
  <1>3. IsFiniteSet(LandedSince(log, tag, w)) /\ IsFiniteSet(LandedWithin(log, tag, w, width))
    BY <1>1, <1>2, FS_Subset
  <1>4. QED
    BY <1>3, FS_CardinalityType

\* A landing adds at most one to the windows of its tag that are open, and to no other.
LEMMA LandingCounts ==
  ASSUME NEW log \in Seq(Landings), NEW hit \in Landings, NEW tag, NEW w \in Int, NEW width \in Nat
  PROVE  LET new == Append(log, hit)
         IN  /\ Cardinality(LandedSince(new, tag, w)) \in
                  {Cardinality(LandedSince(log, tag, w)), Cardinality(LandedSince(log, tag, w)) + 1}
             /\ Cardinality(LandedWithin(new, tag, w, width)) \in
                  {Cardinality(LandedWithin(log, tag, w, width)),
                   Cardinality(LandedWithin(log, tag, w, width)) + 1}
             /\ hit.tag # tag =>
                  Cardinality(LandedSince(new, tag, w)) = Cardinality(LandedSince(log, tag, w))
             /\ hit.tag # tag \/ hit.ts > w + width =>
                  Cardinality(LandedWithin(new, tag, w, width))
                    = Cardinality(LandedWithin(log, tag, w, width))
  <1>. DEFINE new == Append(log, hit)
              n == Len(log) + 1
  <1>1. /\ Len(log) \in Nat /\ DOMAIN log = 1..Len(log) /\ DOMAIN new = 1..n
        /\ new[n] = hit /\ \A i \in 1..Len(log) : new[i] = log[i]
    BY LenProperties, AppendProperties
  <1>2. DOMAIN new = DOMAIN log \cup {n} /\ n \notin DOMAIN log
    BY <1>1
  <1>3. hit.ts \in Nat
    BY DEF Landings
  <1>. HIDE DEF new, n
  <1>4. /\ n \notin LandedSince(log, tag, w) /\ n \notin LandedWithin(log, tag, w, width)
        /\ LandedSince(new, tag, w) = IF hit.tag = tag /\ hit.ts >= w
                                      THEN LandedSince(log, tag, w) \cup {n}
                                      ELSE LandedSince(log, tag, w)
        /\ LandedWithin(new, tag, w, width) = IF hit.tag = tag /\ hit.ts \in w..(w + width)
                                              THEN LandedWithin(log, tag, w, width) \cup {n}
                                              ELSE LandedWithin(log, tag, w, width)
    BY <1>1, <1>2 DEF LandedSince, LandedWithin
  <1>5. /\ Cardinality(LandedSince(log, tag, w) \cup {n})
             = Cardinality(LandedSince(log, tag, w)) + 1
        /\ Cardinality(LandedWithin(log, tag, w, width) \cup {n})
             = Cardinality(LandedWithin(log, tag, w, width)) + 1
    BY <1>4, LandedFinite, FS_AddElement
  <1>6. hit.ts > w + width => hit.ts \notin w..(w + width)
    BY <1>3
  <1>7. QED
    BY <1>4, <1>5, <1>6 DEF new

\* How a step moves the writes of a tag while the backend answers.
LEMMA FlightAfter ==
  ASSUME TypeOK, Reached, ~Outages, NEW tag
  PROVE  /\ Spares => Answered(tag)' = Answered(tag) /\ Unanswered(tag)' = Unanswered(tag)
         /\ \A c \in Calls :
              /\ Issues(c) =>
                   /\ Answered(tag)' = Answered(tag)
                   /\ call'[c].tag # tag => Unanswered(tag)' = Unanswered(tag)
              /\ Land(c) =>
                   IF call[c].tag = tag
                   THEN /\ Answered(tag)' = Answered(tag) \cup {c} /\ c \notin Answered(tag)
                        /\ Unanswered(tag)' = Unanswered(tag) \ {c} /\ c \in Unanswered(tag)
                   ELSE Answered(tag)' = Answered(tag) /\ Unanswered(tag)' = Unanswered(tag)
              /\ WriteReturns(c) =>
                   /\ Unanswered(tag)' = Unanswered(tag)
                   /\ IF call[c].tag = tag
                      THEN Answered(tag)' = Answered(tag) \ {c} /\ c \in Answered(tag)
                      ELSE Answered(tag)' = Answered(tag)
              /\ WriteRaises(c) =>
                   /\ Answered(tag)' = Answered(tag)
                   /\ Unanswered(tag)' \in SUBSET Unanswered(tag)
  <1>1. Spares => Answered(tag)' = Answered(tag) /\ Unanswered(tag)' = Unanswered(tag)
    BY DEF Spares, Answered, Unanswered, Writing
  <1>2. ASSUME NEW c \in Calls, Issues(c)
        PROVE  /\ Answered(tag)' = Answered(tag)
               /\ call'[c].tag # tag => Unanswered(tag)' = Unanswered(tag)
    BY <1>2, SlotAfter DEF Issues, Answered, Unanswered, Writing
  <1>3. ASSUME NEW c \in Calls, Land(c)
        PROVE  IF call[c].tag = tag
               THEN /\ Answered(tag)' = Answered(tag) \cup {c} /\ c \notin Answered(tag)
                    /\ Unanswered(tag)' = Unanswered(tag) \ {c} /\ c \in Unanswered(tag)
               ELSE Answered(tag)' = Answered(tag) /\ Unanswered(tag)' = Unanswered(tag)
    <2>1. /\ call'[c].pc = "write" /\ call'[c].ack /\ call'[c].tag = call[c].tag
          /\ call[c].pc = "write" /\ ~call[c].ack
          /\ \A d \in Calls : d # c => call'[d] = call[d]
      BY <1>3, BackendSlot DEF Land, SameWrite
    <2>2. QED
      BY <2>1 DEF Answered, Unanswered, Writing
  <1>4. ASSUME NEW c \in Calls, WriteReturns(c) \/ WriteRaises(c)
        PROVE  /\ call'[c].pc # "write" /\ call[c].pc = "write"
               /\ WriteReturns(c) => call[c].ack
               /\ WriteRaises(c) => ~call[c].ack
               /\ \A d \in Calls : d # c => call'[d] = call[d]
    <2>1. WriteRaises(c) => ~call[c].ack
      <3>1. WriteRaises(c) => call[c] \in WriteTasks /\ ~Reachable(call[c].tag)
        BY BackendSlot DEF WriteRaises
      <3>2. QED
        BY <3>1 DEF Reachable, Reached
    <2>2. WriteReturns(c) => call[c].ack
      BY DEF WriteReturns
    <2>3. QED
      BY <1>4, <2>1, <2>2, BackendSlot DEF Writing, Idle
  <1>5. ASSUME NEW c \in Calls, WriteReturns(c)
        PROVE  /\ Unanswered(tag)' = Unanswered(tag)
               /\ IF call[c].tag = tag
                  THEN Answered(tag)' = Answered(tag) \ {c} /\ c \in Answered(tag)
                  ELSE Answered(tag)' = Answered(tag)
    BY <1>4, <1>5 DEF Answered, Unanswered, Writing
  <1>6. ASSUME NEW c \in Calls, WriteRaises(c)
        PROVE  /\ Answered(tag)' = Answered(tag)
               /\ Unanswered(tag)' \in SUBSET Unanswered(tag)
    BY <1>4, <1>6 DEF Answered, Unanswered, Writing
  <1>7. QED
    BY <1>1, <1>2, <1>3, <1>5, <1>6

\* The state from which a step is taken: one history, numbers only, and no outage.
Counting ==
  /\ SharedHistory /\ ~Outages
  /\ Strong /\ Reached /\ AllCountable /\ Past

\* The landings of a step while the backend answers.
LEMMA LandedAfter ==
  ASSUME Strong, [Next]_vars, BackendStep, NEW tag, NEW w \in Int, NEW width \in Nat
  PROVE  /\ landed' = landed \/ \E c \in Calls : Land(c)
         /\ \A c \in Calls : Land(c) =>
              /\ Cardinality(LandedSince(landed', tag, w)) \in
                   {Cardinality(LandedSince(landed, tag, w)),
                    Cardinality(LandedSince(landed, tag, w)) + 1}
              /\ Cardinality(LandedWithin(landed', tag, w, width)) \in
                   {Cardinality(LandedWithin(landed, tag, w, width)),
                    Cardinality(LandedWithin(landed, tag, w, width)) + 1}
              /\ call[c].tag # tag =>
                   Cardinality(LandedSince(landed', tag, w)) = Cardinality(LandedSince(landed, tag, w))
              /\ call[c].tag # tag \/ clock > w + width =>
                   Cardinality(LandedWithin(landed', tag, w, width))
                     = Cardinality(LandedWithin(landed, tag, w, width))
  <1>1. landed' = landed \/ \E c \in Calls : Land(c)
    BY DEF BackendStep, Restart, Spares, Issues, WriteReturns, Retry, WriteRaises
  <1>2. ASSUME NEW c \in Calls, Land(c)
        PROVE  \E hit \in Landings : /\ hit.tag = call[c].tag /\ hit.ts = clock
                                     /\ landed' = Append(landed, hit)
    <2>1. LandingOf(call[c]) \in Landings
      BY <1>2, BackendSlot DEF Strong, TypeOK, LandingOf, Landings, WriteTasks
    <2>2. LandingOf(call[c]).tag = call[c].tag /\ LandingOf(call[c]).ts = clock
      BY DEF LandingOf
    <2>3. landed' = Append(landed, LandingOf(call[c]))
      BY <1>2 DEF Land, LandingOf
    <2>4. QED
      BY <2>1, <2>2, <2>3
  <1>3. landed \in Seq(Landings)
    BY DEF Strong, TypeOK
  <1>4. ASSUME NEW c \in Calls, Land(c)
        PROVE  /\ Cardinality(LandedSince(landed', tag, w)) \in
                   {Cardinality(LandedSince(landed, tag, w)),
                    Cardinality(LandedSince(landed, tag, w)) + 1}
               /\ Cardinality(LandedWithin(landed', tag, w, width)) \in
                   {Cardinality(LandedWithin(landed, tag, w, width)),
                    Cardinality(LandedWithin(landed, tag, w, width)) + 1}
               /\ call[c].tag # tag =>
                   Cardinality(LandedSince(landed', tag, w)) = Cardinality(LandedSince(landed, tag, w))
               /\ call[c].tag # tag \/ clock > w + width =>
                   Cardinality(LandedWithin(landed', tag, w, width))
                     = Cardinality(LandedWithin(landed, tag, w, width))
    <2>1. PICK hit \in Landings : /\ hit.tag = call[c].tag /\ hit.ts = clock
                                 /\ landed' = Append(landed, hit)
      BY <1>2, <1>4
    <2>2. QED
      BY <1>3, <2>1, LandingCounts
  <1>5. QED
    BY <1>1, <1>4

\* Landings stay in the past.
LEMMA PastStep ==
  ASSUME Strong, Reached, Past, [Next]_vars
  PROVE  Past'
  <1>1. BackendStep /\ clock \in Nat /\ landed \in Seq(Landings)
    BY StepAtBackend DEF Strong, TypeOK
  <1>2. clock' \in Nat /\ clock <= clock'
    <2>1. Spares \/ clock' = clock
      BY <1>1 DEF BackendStep, Restart, Issues, Land, WriteReturns, Retry, WriteRaises
    <2>2. QED
      BY <1>1, <2>1 DEF Spares
  <1>3. \A i \in 1..Len(landed) : landed[i].ts \in Nat /\ landed[i].ts <= clock
    <2>1. \A i \in 1..Len(landed) : landed[i] \in Landings
      BY <1>1, ElementOfSeq
    <2>2. QED
      BY <1>1, <2>1, LenProperties DEF Past, Landings
  <1>4. CASE landed' = landed
    BY <1>1, <1>2, <1>3, <1>4, LenProperties DEF Past
  <1>5. ASSUME NEW c \in Calls, Land(c)
        PROVE  Past'
    <2>. DEFINE hit == LandingOf(call[c])
    <2>1. landed' = Append(landed, hit) /\ hit.ts = clock
      BY <1>5 DEF Land, LandingOf
    <2>. HIDE DEF hit
    <2>2. /\ DOMAIN landed' = 1..(Len(landed) + 1) /\ landed'[Len(landed) + 1] = hit
          /\ \A i \in 1..Len(landed) : landed'[i] = landed[i]
          /\ Len(landed) \in Nat
      BY <1>1, <2>1, AppendProperties, LenProperties
    <2>3. \A i \in DOMAIN landed' : i \in 1..Len(landed) \/ i = Len(landed) + 1
      BY <2>2
    <2>4. \A i \in DOMAIN landed' : landed'[i].ts \in Nat /\ landed'[i].ts <= clock
      BY <1>1, <1>3, <2>1, <2>2, <2>3
    <2>5. QED
      BY <1>1, <1>2, <2>4 DEF Past
  <1>6. QED
    BY <1>1, <1>4, <1>5
       DEF BackendStep, Restart, Spares, Issues, WriteReturns, Retry, WriteRaises

\* With one history, what a write that returns records is where every gateway looks.
LEMMA SharedRecord ==
  ASSUME Counting, NEW tag \in Tags, CommonBudgets(tag) # {}, NEW c \in Calls, WriteReturns(c)
  PROVE  /\ call[c].tag # tag => history'[Operator][tag] = history[Operator][tag]
         /\ call[c].tag = tag => ~call[c].value.bool
         /\ call[c].tag = tag =>
              history'[Operator][tag] = Recorded(history[Operator][tag], call[c].value, clock)
         /\ call[c].value \in Scalar
  <1>. DEFINE task == call[c]
              new == Recorded(history[Operator][task.tag], task.value, clock)
  <1>1. TypeOK /\ SharedHistory /\ task \in WriteTasks
    BY BackendSlot DEF Counting, Strong
  <1>2. StoreOf(task.g) = Operator /\ Operator \in Stores
    BY <1>1, AgentsAssumption DEF StoreOf, Stores
  <1>3. history' = [history EXCEPT ![Operator][task.tag] = new]
    BY <1>2 DEF WriteReturns
  <1>4. task.tag \in Tags /\ task.value \in Scalar
    BY <1>1 DEF WriteTasks
  <1>5. task.tag = tag => ~task.value.bool
    BY <1>1 DEF Counting, AllCountable, Countable
  <1>. HIDE DEF new
  <1>6. history'[Operator][tag] = IF task.tag = tag THEN new ELSE history[Operator][tag]
    BY <1>1, <1>2, <1>3, <1>4 DEF TypeOK
  <1>7. QED
    BY <1>4, <1>5, <1>6 DEF new

\* A step keeps every landing recorded or on its way to be.
LEMMA CountedStep ==
  ASSUME Counting, ~Restart, [Next]_vars, NEW tag \in Tags, CommonBudgets(tag) # {}, Counted(tag)
  PROVE  Counted(tag)'
  <1>. DEFINE recs == history[Operator][tag]
  <1>1. /\ TypeOK /\ TypeOK' /\ BackendStep /\ ~Outages /\ Strong /\ Reached
        /\ clock \in Int
    BY StepAtBackend, TypeStep DEF Counting, Strong, TypeOK
  <1>2. recs \in Seq(Record) /\ recs' \in Seq(Record)
    <2>1. Operator \in Stores
      BY AgentsAssumption DEF Counting, StoreOf, Stores
    <2>2. QED
      BY <1>1, <2>1 DEF TypeOK
  <1>3. /\ IsFiniteSet(Answered(tag)) /\ Cardinality(Answered(tag)) \in Nat
        /\ Cardinality(Answered(tag)') \in Nat
    BY InFlightFinite DEF Answered
  <1>. SUFFICES ASSUME NEW w \in Int
                PROVE  Cardinality(LandedSince(landed', tag, w))
                         <= Cardinality(Window(recs', w)) + Cardinality(Answered(tag)')
    BY DEF Counted
  <1>. DEFINE L == Cardinality(LandedSince(landed, tag, w))
              M == Cardinality(LandedSince(landed', tag, w))
              R == Cardinality(Window(recs, w))
              Q == Cardinality(Window(recs', w))
              A == Cardinality(Answered(tag))
              B == Cardinality(Answered(tag)')
  <1>4. /\ L \in Nat /\ M \in Nat /\ R \in Nat /\ Q \in Nat /\ A \in Nat /\ B \in Nat
        /\ L <= R + A
    <2>1. L \in Nat /\ M \in Nat
      BY <1>1, LandedFinite DEF TypeOK
    <2>2. R \in Nat /\ Q \in Nat
      BY <1>2, BetweenFinite
    <2>3. QED
      BY <1>3, <2>1, <2>2 DEF Counted
  <1>5. ASSUME landed' = landed, recs' = recs, Answered(tag)' = Answered(tag)
        PROVE  M <= Q + B
    BY <1>4, <1>5
  <1>6. ASSUME Spares
        PROVE  M <= Q + B
    BY <1>1, <1>5, <1>6, FlightAfter DEF Spares
  <1>7. ASSUME NEW c \in Calls, Issues(c) \/ WriteRaises(c)
        PROVE  M <= Q + B
    <2>1. Answered(tag)' = Answered(tag)
      BY <1>1, <1>7, FlightAfter
    <2>2. history' = history /\ landed' = landed
      BY <1>7 DEF Issues, WriteRaises
    <2>3. QED
      BY <1>5, <2>1, <2>2
  <1>8. ASSUME NEW c \in Calls, Land(c)
        PROVE  M <= Q + B
    <2>1. Q = R
      BY <1>8 DEF Land
    <2>2. M \in {L, L + 1} /\ (call[c].tag # tag => M = L)
      <3>1. 0 \in Nat
        OBVIOUS
      <3>2. QED
        BY <1>1, <1>8, <3>1, LandedAfter
    <2>3. CASE call[c].tag = tag
      <3>1. Answered(tag)' = Answered(tag) \cup {c} /\ c \notin Answered(tag)
        BY <1>1, <1>8, <2>3, FlightAfter
      <3>2. B = A + 1
        BY <1>3, <3>1, FS_AddElement
      <3>. HIDE DEF L, M, R, Q, A, B
      <3>3. QED
        BY <1>4, <2>1, <2>2, <3>2
    <2>4. CASE call[c].tag # tag
      <3>1. B = A
        BY <1>1, <1>8, <2>4, FlightAfter
      <3>. HIDE DEF L, M, R, Q, A, B
      <3>2. QED
        BY <1>4, <2>1, <2>2, <2>4, <3>1
    <2>5. QED
      BY <2>3, <2>4
  <1>9. ASSUME NEW c \in Calls, WriteReturns(c)
        PROVE  M <= Q + B
    <2>1. landed' = landed
      BY <1>9 DEF WriteReturns
    <2>2. CASE call[c].tag = tag
      <3>1. /\ ~call[c].value.bool /\ call[c].value \in Scalar
            /\ recs' = Recorded(recs, call[c].value, clock)
        BY <1>9, <2>2, SharedRecord
      <3>2. Q = IF clock >= w THEN R + 1 ELSE R
        <4>. HIDE DEF recs
        <4>1. 0 \in Nat
          OBVIOUS
        <4>2. QED
          BY <1>1, <1>2, <3>1, <4>1, RecordedCounts
      <3>3. Answered(tag)' = Answered(tag) \ {c} /\ c \in Answered(tag)
        BY <1>1, <1>9, <2>2, FlightAfter
      <3>4. B = A - 1
        BY <1>3, <3>3, FS_RemoveElement
      <3>5. clock < w => L = 0
        <4>1. \A i \in DOMAIN landed : landed[i] \in Landings /\ landed[i].ts <= clock
          BY <1>1, LenProperties, ElementOfSeq DEF Counting, Past, TypeOK
        <4>2. \A i \in DOMAIN landed : landed[i].ts \in Int
          BY <4>1 DEF Landings
        <4>3. clock < w => LandedSince(landed, tag, w) = {}
          BY <1>1, <4>1, <4>2 DEF LandedSince
        <4>4. QED
          BY <4>3, FS_EmptySet
      <3>6. M = L
        BY <2>1
      <3>. HIDE DEF L, M, R, Q, A, B
      <3>7. QED
        BY <1>1, <1>4, <3>2, <3>4, <3>5, <3>6
    <2>3. CASE call[c].tag # tag
      <3>1. Answered(tag)' = Answered(tag) /\ recs' = recs
        BY <1>1, <1>9, <2>3, FlightAfter, SharedRecord
      <3>2. QED
        BY <1>5, <2>1, <3>1
    <2>4. QED
      BY <2>2, <2>3
  <1>10. ASSUME NEW c \in Calls, Retry(c)
         PROVE  FALSE
    BY <1>1, <1>10 DEF Retry
  <1>11. QED
    BY <1>1, <1>6, <1>7, <1>8, <1>9, <1>10 DEF BackendStep

\* A step keeps what landed in a window, and may still land in it, below the ceiling and
\* the calls in flight: the write that is issued was checked against every landing but
\* those whose answers are on their way.
LEMMA LandedFitsStep ==
  ASSUME Counting, ~Restart, [Next]_vars, NEW tag \in Tags, NEW limit \in CommonBudgets(tag),
         Counted(tag), LandedFits(tag, limit)
  PROVE  LandedFits(tag, limit)'
  <1>. DEFINE recs == history[Operator][tag]
  <1>1. /\ TypeOK /\ TypeOK' /\ BackendStep /\ ~Outages /\ Strong /\ Reached /\ SharedHistory
        /\ clock \in Int /\ clock' \in Int
    BY StepAtBackend, TypeStep DEF Counting, Strong, TypeOK
  <1>2. recs \in Seq(Record)
    <2>1. Operator \in Stores
      BY AgentsAssumption DEF Counting, StoreOf, Stores
    <2>2. QED
      BY <1>1, <2>1 DEF TypeOK
  <1>3. limit \in Budgets(tag) /\ limit.max \in Nat \ {0} /\ limit.interval \in Nat
    BY BudgetType DEF CommonBudgets
  <1>4. /\ IsFiniteSet(Unanswered(tag)) /\ Cardinality(Unanswered(tag)) \in Nat
        /\ IsFiniteSet(Answered(tag)) /\ Cardinality(Answered(tag)) \in Nat
        /\ Cardinality(Unanswered(tag)') \in Nat /\ Cardinality(Calls) \in Nat
    BY InFlightFinite DEF Answered, Unanswered
  <1>. SUFFICES ASSUME NEW w \in Int
                PROVE  Cardinality(LandedWithin(landed', tag, w, limit.interval))
                         + (IF clock' <= w + limit.interval
                            THEN Cardinality(Unanswered(tag)') ELSE 0)
                           < limit.max + Cardinality(Calls)
    BY DEF LandedFits
  <1>. DEFINE N == Cardinality(Calls)
              L == Cardinality(LandedWithin(landed, tag, w, limit.interval))
              M == Cardinality(LandedWithin(landed', tag, w, limit.interval))
              U == Cardinality(Unanswered(tag))
              V == Cardinality(Unanswered(tag)')
              last == w + limit.interval
  <1>5. /\ L \in Nat /\ M \in Nat /\ U \in Nat /\ V \in Nat /\ N \in Nat
        /\ L + (IF clock <= last THEN U ELSE 0) < limit.max + N
    <2>1. L \in Nat /\ M \in Nat
      BY <1>1, <1>3, LandedFinite DEF TypeOK
    <2>2. QED
      BY <1>4, <2>1 DEF LandedFits
  <1>6. ASSUME landed' = landed, Unanswered(tag)' \in SUBSET Unanswered(tag), clock <= clock'
        PROVE  M + (IF clock' <= last THEN V ELSE 0) < limit.max + N
    <2>1. M = L
      BY <1>6
    <2>2. V <= U
      BY <1>4, <1>6, FS_Subset
    <2>. HIDE DEF L, M, U, V, N
    <2>3. QED
      BY <1>1, <1>3, <1>5, <1>6, <2>1, <2>2
  <1>7. ASSUME Spares
        PROVE  M + (IF clock' <= last THEN V ELSE 0) < limit.max + N
    <2>1. Unanswered(tag)' = Unanswered(tag) /\ landed' = landed /\ clock <= clock'
      BY <1>1, <1>7, FlightAfter DEF Spares
    <2>2. QED
      BY <1>6, <2>1
  <1>8. ASSUME NEW c \in Calls, WriteReturns(c) \/ WriteRaises(c)
        PROVE  M + (IF clock' <= last THEN V ELSE 0) < limit.max + N
    <2>1. Unanswered(tag)' \in SUBSET Unanswered(tag)
      BY <1>1, <1>8, FlightAfter
    <2>2. landed' = landed /\ clock' = clock
      BY <1>8 DEF WriteReturns, WriteRaises
    <2>3. QED
      BY <1>1, <1>6, <2>1, <2>2
  <1>9. ASSUME NEW c \in Calls, Land(c)
        PROVE  M + (IF clock' <= last THEN V ELSE 0) < limit.max + N
    <2>1. /\ M \in {L, L + 1}
          /\ call[c].tag # tag \/ clock > last => M = L
      BY <1>1, <1>3, <1>9, LandedAfter
    <2>2. clock' = clock
      BY <1>9 DEF Land
    <2>3. CASE call[c].tag = tag
      <3>1. Unanswered(tag)' = Unanswered(tag) \ {c} /\ c \in Unanswered(tag)
        BY <1>1, <1>9, <2>3, FlightAfter
      <3>2. V = U - 1
        BY <1>4, <3>1, FS_RemoveElement
      <3>. HIDE DEF L, M, U, V, N
      <3>3. QED
        BY <1>1, <1>3, <1>5, <2>1, <2>2, <3>2
    <2>4. CASE call[c].tag # tag
      <3>1. V = U
        BY <1>1, <1>9, <2>4, FlightAfter
      <3>. HIDE DEF L, M, U, V, N
      <3>2. QED
        BY <1>5, <2>1, <2>2, <2>4, <3>1
    <2>5. QED
      BY <2>3, <2>4
  <1>10. ASSUME NEW c \in Calls, Issues(c)
         PROVE  M + (IF clock' <= last THEN V ELSE 0) < limit.max + N
    <2>1. PICK task \in WriteTasks :
            /\ call' = [call EXCEPT ![c] = task] /\ task.pc = "write" /\ ~Writing(c)
            /\ SeriesOk(Policy[task.g][task.tag], history[StoreOf(task.g)][task.tag],
                        task.value, clock)
      BY <1>10 DEF Issues
    <2>2. landed' = landed /\ clock' = clock /\ call'[c] = task
      BY <1>1, <1>10, <2>1 DEF Issues, TypeOK
    <2>3. CASE task.tag = tag
      <3>. DEFINE since == clock - limit.interval
                  R == Cardinality(Window(recs, since))
                  S == Cardinality(LandedSince(landed, tag, since))
                  A == Cardinality(Answered(tag))
      <3>1. since \in Int
        BY <1>1, <1>3
      <3>2. R < limit.max
        <4>1. StoreOf(task.g) = Operator /\ Budget(Operator, tag, limit)
          BY <1>1 DEF StoreOf, Budget, CommonBudgets
        <4>2. Budget(StoreOf(task.g), task.tag, limit)
          BY <2>3, <4>1
        <4>3. QED
          BY <1>1, <2>1, <2>3, <4>1, <4>2, IssuedWithin
      <3>3. S <= R + A
        <4>. HIDE DEF since
        <4>1. QED
          BY <3>1 DEF Counted
      <3>4. clock <= last => L <= S
        <4>1. \A i \in DOMAIN landed : landed[i] \in Landings
          BY <1>1, LenProperties, ElementOfSeq DEF TypeOK
        <4>2. \A i \in DOMAIN landed : landed[i].ts \in Int
          BY <4>1 DEF Landings
        <4>3. clock <= last =>
                LandedWithin(landed, tag, w, limit.interval) \in SUBSET LandedSince(landed, tag, since)
          BY <1>1, <1>3, <4>2 DEF LandedWithin, LandedSince
        <4>. HIDE DEF since
        <4>4. IsFiniteSet(LandedSince(landed, tag, since))
          BY <1>1, <1>3, <3>1, LandedFinite DEF TypeOK
        <4>5. QED
          BY <4>3, <4>4, FS_Subset
      <3>5. A + V <= N
        <4>. DEFINE both == Answered(tag) \cup Unanswered(tag)'
        <4>1. Answered(tag)' = Answered(tag)
          BY <1>1, <1>10, FlightAfter
        <4>2. Answered(tag)' \cap Unanswered(tag)' = {}
          BY DEF Answered, Unanswered
        <4>3. IsFiniteSet(Unanswered(tag)') /\ Unanswered(tag)' \in SUBSET Calls
          BY InFlightFinite DEF Unanswered
        <4>4. Cardinality(both) = A + V
          <5>1. Cardinality(both) = A + V - Cardinality(Answered(tag) \cap Unanswered(tag)')
            BY <1>4, <4>3, FS_Union
          <5>2. Cardinality(Answered(tag) \cap Unanswered(tag)') = 0
            BY <4>1, <4>2, FS_EmptySet
          <5>3. QED
            BY <1>4, <5>1, <5>2
        <4>5. both \in SUBSET Calls
          BY <4>3 DEF Answered
        <4>6. Cardinality(both) <= N
          BY <4>5, InFlightFinite
        <4>7. QED
          BY <4>4, <4>6
      <3>6. R \in Nat /\ S \in Nat /\ A \in Nat
        <4>. HIDE DEF since
        <4>1. S \in Nat
          BY <1>1, <1>3, <3>1, LandedFinite DEF TypeOK
        <4>2. R \in Nat
          BY <1>2, <1>3, <3>1, BetweenFinite
        <4>3. QED
          BY <1>4, <4>1, <4>2
      <3>7. M = L
        BY <2>2
      <3>. HIDE DEF L, M, U, V, N, R, S, A
      <3>8. QED
        BY <1>1, <1>3, <1>5, <2>2, <3>2, <3>3, <3>4, <3>5, <3>6, <3>7
    <2>4. CASE task.tag # tag
      <3>1. Unanswered(tag)' = Unanswered(tag)
        BY <1>1, <1>10, <2>2, <2>4, FlightAfter
      <3>2. QED
        BY <1>1, <1>6, <2>2, <3>1
    <2>5. QED
      BY <2>3, <2>4
  <1>11. ASSUME NEW c \in Calls, Retry(c)
         PROVE  FALSE
    BY <1>1, <1>11 DEF Retry
  <1>12. QED
    BY <1>1, <1>7, <1>8, <1>9, <1>10, <1>11 DEF BackendStep

\* With one history for all agents, numbers to write, and no outage or restart, max_calls
\* bounds what reached the backend, whichever agents sent it: each window of
\* calls_interval holds fewer than max_calls + |Calls| landings.
THEOREM CeilingOnLandings ==
  ASSUME SharedHistory, NumbersWritten
  PROVE  Spec => []LandedWithinBudget
  <1>1. Init => Past /\ AllCounted
    <2>. SUFFICES ASSUME Init
                  PROVE  Past /\ AllCounted
      OBVIOUS
    <2>1. landed = <<>> /\ DOMAIN landed = {}
      BY DEF Init
    <2>2. \A tag : Unanswered(tag) = {} /\ Answered(tag) = {}
      BY DEF Init, Unanswered, Answered, Writing, Idle
    <2>3. \A tag, w, width : LandedSince(landed, tag, w) = {} /\ LandedWithin(landed, tag, w, width) = {}
      BY <2>1 DEF LandedSince, LandedWithin
    <2>4. Cardinality({}) = 0
      BY FS_EmptySet
    <2>5. ASSUME NEW tag \in Tags
          PROVE  Counted(tag)
      <3>1. history[Operator][tag] \in Seq(Record)
        <4>1. Operator \in Stores
          BY AgentsAssumption DEF StoreOf, Stores
        <4>2. QED
          BY <4>1, TypeInit DEF TypeOK
      <3>2. \A w \in Int : Cardinality(Window(history[Operator][tag], w)) \in Nat
        <4>1. 0 \in Nat
          OBVIOUS
        <4>2. QED
          BY <3>1, <4>1, BetweenFinite
      <3>3. QED
        BY <2>2, <2>3, <2>4, <3>2 DEF Counted
    <2>6. ASSUME NEW tag \in Tags, NEW limit \in CommonBudgets(tag)
          PROVE  LandedFits(tag, limit)
      <3>1. limit.max \in Nat \ {0} /\ Cardinality(Calls) \in Nat
        BY BudgetType, InFlightFinite DEF CommonBudgets
      <3>2. QED
        BY <2>2, <2>3, <2>4, <3>1 DEF LandedFits
    <2>7. QED
      BY <2>1, <2>5, <2>6 DEF Past, AllCounted
  <1>2. Strong /\ Reached /\ Past /\ [Next]_vars => Past'
    BY PastStep
  <1>3. Strong /\ Reached /\ AllCountable /\ Past /\ AllCounted /\ [Next]_vars => AllCounted'
    <2>. SUFFICES ASSUME Strong, Reached, AllCountable, Past, AllCounted, [Next]_vars, Calm',
                         NEW tag \in Tags, CommonBudgets(tag) # {}
                  PROVE  Counted(tag)' /\ \A limit \in CommonBudgets(tag) : LandedFits(tag, limit)'
      BY DEF AllCounted
    <2>1. restarts \in Nat /\ restarts' = 0 /\ BackendStep /\ ~Outages
      BY StepAtBackend, ModeAssumption DEF Strong, TypeOK, Calm
    <2>2. ~Restart
      BY <2>1 DEF Restart
    <2>3. restarts' = restarts
      BY <2>1, <2>2 DEF BackendStep, Spares, Issues, Land, WriteReturns, Retry, WriteRaises
    <2>4. Counting /\ Counted(tag) /\ \A limit \in CommonBudgets(tag) : LandedFits(tag, limit)
      BY <2>1, <2>3 DEF Counting, AllCounted, Calm
    <2>5. QED
      BY <2>2, <2>4, CountedStep, LandedFitsStep
  <1>4. TypeOK /\ AllCounted => LandedWithinBudget
    <2>. SUFFICES ASSUME TypeOK, AllCounted, Calm, NEW tag \in Tags,
                         NEW limit \in CommonBudgets(tag), NEW w \in 0..clock
                  PROVE  LandedIn(tag, w, limit.interval) < limit.max + Cardinality(Calls)
      BY DEF LandedWithinBudget, Calm
    <2>1. w \in Int /\ LandedFits(tag, limit)
      BY DEF AllCounted
    <2>2. LandedIn(tag, w, limit.interval) = Cardinality(LandedWithin(landed, tag, w, limit.interval))
      BY DEF LandedIn, LandedWithin
    <2>3. limit.max \in Nat /\ limit.interval \in Nat
      BY BudgetType DEF CommonBudgets
    <2>4. LandedIn(tag, w, limit.interval) \in Nat
      BY <2>1, <2>2, <2>3, LandedFinite DEF TypeOK
    <2>5. Cardinality(Unanswered(tag)) \in Nat /\ Cardinality(Calls) \in Nat
      BY InFlightFinite DEF Unanswered
    <2>6. QED
      BY <2>1, <2>2, <2>3, <2>4, <2>5 DEF LandedFits
  <1>5. QED
    BY <1>1, <1>2, <1>3, <1>4, StrongCorrect, TypeCorrect, ReachedKept, CountableKept, PTL DEF Spec
=============================================================================
