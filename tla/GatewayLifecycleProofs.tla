------------------------- MODULE GatewayLifecycleProofs -------------------------
(***************************************************************************)
(* Proofs about the instances of Gateway in which calls take turns, or     *)
(* send nothing: shadow mode is an observer, and with a backend that never *)
(* suspends its caller a denied request never runs and the approval        *)
(* workflow is the abstract one of ApprovalLifecycle, which keeps what it  *)
(* promises (the last section).                                            *)
(*                                                                         *)
(* Run and approved are two steps of the code, and between them the store  *)
(* calls a request open that has run.  What makes this invisible is that   *)
(* nothing else can be done meanwhile: the invariant says that at most one *)
(* call is in progress, that its request is open, and that a request which *)
(* is open has run only if that call has the answer on its way.            *)
(***************************************************************************)
EXTENDS GatewayRequestProofs

(* Shadow mode *)

\* What makes shadow mode quiet: no task ever waits for a backend write.
Quiet == Shadow => landed = <<>> /\ history = NoHistory /\ \A c \in Calls : call[c].pc # "write"

\* Nothing an evaluation does in shadow mode starts a backend write.
LEMMA DecideQuiet ==
  ASSUME TypeOK, Shadow, NEW c \in Calls, NEW task, NEW reqs, Decide(c, task, reqs)
  PROVE  call' = [call EXCEPT ![c] = Idle]
  BY DEF Decide, Refuse, Park, Execute, Pretend, Close, End

\* An action that sets at most one slot, to a task that does not write, stays quiet.
LEMMA SlotQuiet ==
  ASSUME TypeOK, Quiet, Shadow, UNCHANGED <<landed, history>>, NEW c \in Calls,
         NEW task, task.pc # "write", call' = [call EXCEPT ![c] = task]
  PROVE  Quiet'
  <1>1. \A d \in Calls : call'[d] = IF d = c THEN task ELSE call[d]
    BY DEF TypeOK
  <1>2. QED
    BY <1>1 DEF Quiet

\* Every step stays quiet.
LEMMA QuietStep ==
  ASSUME TypeOK, Quiet, [Next]_vars
  PROVE  Quiet'
  <1>. SUFFICES ASSUME Shadow PROVE Quiet'
    BY DEF Quiet
  <1>1. Idle.pc # "write"
    BY DEF Idle
  <1>2. ASSUME NEW c \in Calls, NEW task, NEW reqs, task.pc = "interlock",
               Evaluate(c, task, reqs), UNCHANGED <<landed, history>>
        PROVE  Quiet'
    <2>1. call' \in {[call EXCEPT ![c] = Idle], [call EXCEPT ![c] = task]}
      BY <1>2, DecideQuiet DEF Evaluate, Refuse, Close, End
    <2>2. QED
      BY <1>1, <1>2, <2>1, SlotQuiet
  <1>3. ASSUME NEW c \in Calls, NEW input \in Writes, WriteTag(c, input)
        PROVE  Quiet'
    <2>. DEFINE task == WriteTask(input.agent, input.tag, input.value, input.agent, 0)
    <2>1. task.pc = "interlock" /\ Evaluate(c, task, requests)
          /\ UNCHANGED <<landed, history>>
      BY <1>3 DEF WriteTag, WriteTask
    <2>. HIDE DEF task
    <2>2. QED
      BY <1>2, <2>1
  <1>4. ASSUME NEW c \in Calls, NEW r \in DOMAIN requests, Approve(c, r)
        PROVE  Quiet'
    <2>. DEFINE task == ApprovalTask(r)
    <2>1. task.pc = "interlock" /\ Evaluate(c, task, Expired(requests))
          /\ UNCHANGED <<landed, history>>
      BY <1>4 DEF Approve, ApprovalTask, WriteTask
    <2>. HIDE DEF task
    <2>2. QED
      BY <1>2, <2>1
  <1>5. ASSUME NEW c \in Calls, call' = [call EXCEPT ![c] = Idle],
               UNCHANGED <<landed, history>>
        PROVE  Quiet'
    BY <1>1, <1>5, SlotQuiet
  <1>6. ASSUME NEW c \in Calls, NEW input \in Reads, ReadTag(c, input)
        PROVE  Quiet'
    <2>. DEFINE task == ReadTask(input.agent, input.tag)
    <2>1. task.pc # "write"
      BY DEF ReadTask
    <2>2. /\ call' \in {[call EXCEPT ![c] = Idle], [call EXCEPT ![c] = task]}
          /\ UNCHANGED <<landed, history>>
      BY <1>6 DEF ReadTag, Close, End
    <2>. HIDE DEF task
    <2>3. QED
      BY <1>5, <2>1, <2>2, SlotQuiet
  <1>7. ASSUME NEW c \in Calls, NEW r \in DOMAIN requests, Deny(c, r)
        PROVE  Quiet'
    BY <1>5, <1>7 DEF Deny, Refuse, Close, End
  <1>8. ASSUME NEW c \in Calls, InterlockReply(c)
        PROVE  Quiet'
    <2>1. call[c].pc = "interlock" /\ call[c] \in WriteTasks
      BY <1>8, TaskAt DEF InterlockReply
    <2>2. \E next, clear :
            call' \in {[call EXCEPT ![c] = Idle],
                       [call EXCEPT ![c] = [call[c] EXCEPT !.next = next, !.clear = clear]]}
      BY <1>8, DecideQuiet, <2>1 DEF InterlockReply, Refuse, Close, End, WriteTasks
    <2>3. PICK next, clear :
            call' \in {[call EXCEPT ![c] = Idle],
                       [call EXCEPT ![c] = [call[c] EXCEPT !.next = next, !.clear = clear]]}
      BY <2>2
    <2>. DEFINE task == [call[c] EXCEPT !.next = next, !.clear = clear]
    <2>4. task.pc # "write"
      BY <2>1 DEF WriteTasks
    <2>5. call' \in {[call EXCEPT ![c] = Idle], [call EXCEPT ![c] = task]}
      BY <2>3
    <2>. HIDE DEF task
    <2>6. UNCHANGED <<landed, history>>
      BY <1>8 DEF InterlockReply
    <2>7. QED
      BY <1>5, <2>4, <2>5, <2>6, SlotQuiet
  <1>9. ASSUME NEW c \in Calls, ReadReply(c)
        PROVE  Quiet'
    BY <1>5, <1>9 DEF ReadReply, Close, End
  <1>10. ASSUME NEW c \in Calls
         PROVE  ~(Land(c) \/ WriteReturns(c) \/ Retry(c) \/ WriteRaises(c))
    BY <1>10 DEF Quiet, Land, WriteReturns, Retry, WriteRaises
  <1>11. CASE Restart
    BY <1>1, <1>11 DEF Quiet, Restart
  <1>12. CASE UNCHANGED <<landed, history, call>>
    BY <1>12 DEF Quiet
  <1>13. Inspect \/ Tick \/ BackendFlips \/ UNCHANGED vars \/ (\E move \in Moves : PlantMoves(move))
           => UNCHANGED <<landed, history, call>>
    BY DEF Inspect, Tick, BackendFlips, PlantMoves, vars
  <1>14. QED
    BY <1>3, <1>4, <1>6, <1>7, <1>8, <1>9, <1>10, <1>11, <1>12, <1>13 DEF Next, Progress

\* Shadow mode stays quiet.
LEMMA QuietKept == Spec => []Quiet
  <1>1. Init => Quiet
    BY DEF Init, Quiet, Idle
  <1>2. TypeOK /\ Quiet /\ [Next]_vars => Quiet'
    BY QuietStep
  <1>3. QED
    BY <1>1, <1>2, TypeCorrect, PTL DEF Spec

\* In shadow mode nothing is sent to the backend and nothing is counted as executed,
\* on the direct path and on the approval path, whatever the policies say.
THEOREM ShadowQuiet == Spec => []ShadowTouchesNothing
  <1>1. Quiet => ShadowTouchesNothing
    BY DEF Quiet, ShadowTouchesNothing
  <1>2. QED
    BY <1>1, QuietKept, PTL

-----------------------------------------------------------------------------
(* Calls that take turns *)

Alone == \A c, d \in Calls : call[c] # Idle /\ call[d] # Idle => c = d

\* The call in progress carries out an open request, and has an answer on its way only
\* from a backend that still can be reached.
Turns ==
  /\ Alone
  /\ \A c \in Calls : call[c] \in WriteTasks =>
       /\ call[c].req # 0 => requests[call[c].req].status = "PENDING"
       /\ call[c].ack => call[c].pc = "write" /\ Reachable(call[c].tag)

\* The step is one of the call in slot c, and no other call is in progress.
Acts(c) ==
  /\ up' = up
  /\ \A d \in Calls \ {c} : call[d] = Idle
  /\ \/ Starts(c) \/ ReadsOn(c) \/ Land(c) \/ WriteReturns(c)
     \/ Goes(c) /\ ~call[c].ack

\* Nothing begins and nothing expires while a call is in progress.
LEMMA TurnShape ==
  ASSUME TypeOK, ~Yields, Turns, [Next]_vars
  PROVE  \/ Restart
         \/ Rests /\ (Active = {} \/ (requests' = requests /\ up' = up))
         \/ \E c \in Calls : Acts(c)
  <1>1. Active = {} => \A d \in Calls : call[d] = Idle
    BY DEF Active
  <1>2. ASSUME NEW c \in Calls,
               \/ \E input \in Writes : WriteTag(c, input)
               \/ \E input \in Reads : ReadTag(c, input)
               \/ \E r \in DOMAIN requests : Approve(c, r) \/ Deny(c, r)
        PROVE  Acts(c)
    <2>1. Active = {} /\ up' = up
      BY <1>2 DEF WriteTag, ReadTag, Approve, Deny, Turn, plant
    <2>2. Starts(c) \/ ReadsOn(c)
      BY <1>2, WriteTagShape, ApproveShape, ReadShape
    <2>3. QED
      BY <1>1, <2>1, <2>2 DEF Acts
  <1>3. ASSUME NEW c \in Calls, Progress(c)
        PROVE  Acts(c)
    <2>1. ~Retry(c)
      BY DEF Retry
    <2>2. call[c].pc \in {"read", "interlock", "write"} /\ up' = up
      BY <1>3, <2>1 DEF Progress, InterlockReply, ReadReply, Land, WriteReturns, WriteRaises, plant
    <2>3. call[c] # Idle
      BY <2>2 DEF Idle
    <2>4. \A d \in Calls \ {c} : call[d] = Idle
      BY <2>3 DEF Turns, Alone
    <2>5. CASE InterlockReply(c)
      <3>1. call[c] \in WriteTasks /\ call[c].pc = "interlock"
        BY <2>5, TaskAt DEF InterlockReply
      <3>2. Goes(c) /\ ~call[c].ack
        BY <2>5, <3>1, InterlockReplyShape DEF Turns
      <3>3. QED
        BY <2>2, <2>4, <3>2 DEF Acts
    <2>6. CASE WriteRaises(c)
      <3>1. call[c] \in WriteTasks /\ ~Reachable(call[c].tag)
        BY <2>6, TaskAt DEF WriteRaises
      <3>2. Goes(c) /\ ~call[c].ack
        BY <2>6, <3>1, WriteEndsShape DEF Turns
      <3>3. QED
        BY <2>2, <2>4, <3>2 DEF Acts
    <2>7. QED
      BY <1>3, <2>1, <2>2, <2>4, <2>5, <2>6, ReadShape DEF Progress, Acts
  <1>4. Inspect \/ BackendFlips \/ (\E move \in Moves : PlantMoves(move)) => Rests /\ Active = {}
    BY DEF Inspect, BackendFlips, PlantMoves, Rests, Turn
  <1>5. Tick \/ UNCHANGED vars => Rests /\ requests' = requests /\ up' = up
    BY DEF Tick, vars, Rests, plant
  <1>6. QED
    BY <1>2, <1>3, <1>4, <1>5 DEF Next

\* Every step keeps the turns.
LEMMA TurnsStep ==
  ASSUME TypeOK, ~Yields, Turns, [Next]_vars
  PROVE  Turns'
  <1>1. Idle \notin WriteTasks /\ \A task \in ReadTasks : task \notin WriteTasks
    BY DEF Idle, ReadTasks, WriteTasks
  <1>2. CASE Restart
    BY <1>1, <1>2 DEF Restart, Turns, Alone
  <1>3. CASE Rests /\ (Active = {} \/ (requests' = requests /\ up' = up))
    <2>1. CASE Active = {}
      BY <1>1, <1>3, <2>1 DEF Active, Rests, Turns, Alone
    <2>2. CASE requests' = requests /\ up' = up
      BY <1>3, <2>2 DEF Rests, Turns, Alone, Reachable
    <2>3. QED
      BY <1>3, <2>1, <2>2
  <1>4. ASSUME NEW c \in Calls, \A d \in Calls \ {c} : call[d] = Idle,
               NEW task, call' = [call EXCEPT ![c] = task],
               task \in WriteTasks =>
                 /\ task.req # 0 => requests'[task.req].status = "PENDING"
                 /\ task.ack => task.pc = "write" /\ up' /\ task.tag \in Present
        PROVE  Turns'
    <2>1. \A d \in Calls : call'[d] = IF d = c THEN task ELSE call[d]
      BY <1>4 DEF TypeOK
    <2>2. Alone'
      BY <1>4, <2>1 DEF Alone
    <2>3. QED
      BY <1>1, <1>4, <2>1, <2>2 DEF Turns, Reachable
  <1>5. ASSUME NEW c \in Calls, Acts(c)
        PROVE  Turns'
    <2>1. ASSUME NEW task \in WriteTasks, ~task.ack, NEW reqs,
                 task.req # 0 => reqs[task.req].status = "PENDING", Handled(c, task, reqs)
          PROVE  Turns'
      <3>1. CASE call' = [call EXCEPT ![c] = Idle]
        BY <1>1, <1>4, <1>5, <3>1 DEF Acts
      <3>2. CASE call' # [call EXCEPT ![c] = Idle]
        <4>1. PICK next : /\ SameWrite(next, task) /\ ~next.ack
                          /\ call' = [call EXCEPT ![c] = next] /\ requests' = reqs
          BY <2>1, <3>2 DEF Handled, Ends
        <4>2. QED
          BY <1>4, <1>5, <2>1, <4>1 DEF Acts, SameWrite
      <3>3. QED
        BY <3>1, <3>2
    <2>2. CASE Starts(c)
      BY <2>1, <2>2 DEF Starts, Open
    <2>3. CASE Goes(c) /\ ~call[c].ack
      BY <2>1, <2>3 DEF Goes, Turns
    <2>4. CASE ReadsOn(c)
      BY <1>1, <1>4, <1>5, <2>4 DEF ReadsOn, Ends, Acts
    <2>5. CASE WriteReturns(c)
      BY <1>1, <1>4, <1>5, <2>5 DEF WriteReturns, Close, End, Acts
    <2>6. CASE Land(c)
      <3>. DEFINE next == [call[c] EXCEPT !.ack = TRUE]
      <3>1. /\ call[c] \in WriteTasks /\ call[c].pc = "write" /\ Reachable(call[c].tag)
            /\ requests' = requests
        BY <2>6, TaskAt DEF Land
      <3>2. next.pc = "write" /\ next.req = call[c].req /\ next.tag = call[c].tag
        BY <3>1 DEF WriteTasks
      <3>3. call' = [call EXCEPT ![c] = next]
        BY <2>6, LandShape DEF Lands
      <3>4. up' /\ next.tag \in Present
        BY <1>5, <3>1, <3>2 DEF Reachable, Acts
      <3>. HIDE DEF next
      <3>5. QED
        BY <1>4, <1>5, <3>1, <3>2, <3>3, <3>4 DEF Acts, Turns
    <2>7. QED
      BY <1>5, <2>2, <2>3, <2>4, <2>5, <2>6 DEF Acts
  <1>6. QED
    BY <1>2, <1>3, <1>5, TurnShape

\* With a backend that never suspends its caller, calls take turns.
LEMMA TurnsKept ==
  ASSUME ~Yields
  PROVE  Spec => []Turns
  <1>1. Init => Turns
    BY DEF Init, Turns, Alone, Idle, WriteTasks
  <1>2. TypeOK /\ Turns /\ [Next]_vars => Turns'
    BY TurnsStep
  <1>3. QED
    BY <1>1, <1>2, TypeCorrect, PTL DEF Spec

-----------------------------------------------------------------------------
(* How often a request has run *)

RunsAt(r) == {i \in DOMAIN landed : landed[i].req = r}

\* What landed is finite, so the runs of a request can be counted.
LEMMA RunsCount ==
  ASSUME TypeOK, NEW r
  PROVE  /\ IsFiniteSet(RunsAt(r)) /\ RunsOf(landed, r) \in Nat
         /\ RunsOf(landed, r) = Cardinality(RunsAt(r))
  <1>1. DOMAIN landed = 1..Len(landed) /\ Len(landed) \in Nat
    BY LenProperties DEF TypeOK
  <1>2. IsFiniteSet(DOMAIN landed) /\ RunsAt(r) \in SUBSET DOMAIN landed
    BY <1>1, FS_Interval DEF RunsAt
  <1>3. IsFiniteSet(RunsAt(r))
    BY <1>2, FS_Subset
  <1>4. RunsOf(landed, r) = Cardinality(RunsAt(r))
    BY DEF RunsAt, RunsOf
  <1>5. QED
    BY <1>3, <1>4, FS_CardinalityType

\* A write that lands adds one run to the request it carries out and none to others.
LEMMA LandsRuns ==
  ASSUME TypeOK, NEW c \in Calls, Lands(c), NEW r
  PROVE  RunsOf(landed', r) = RunsOf(landed, r) + (IF call[c].req = r THEN 1 ELSE 0)
  <1>1. DOMAIN landed = 1..Len(landed) /\ Len(landed) \in Nat
    BY LenProperties DEF TypeOK
  <1>2. landed'[Len(landed) + 1].req = call[c].req
    <2>1. landed'[Len(landed) + 1] = LandingOf(call[c])
      BY LandsAppends
    <2>2. LandingOf(call[c]).req = call[c].req
      BY DEF LandingOf
    <2>3. QED
      BY <2>1, <2>2
  <1>3. Len(landed) + 1 \notin RunsAt(r)
    BY <1>1 DEF RunsAt
  <1>4. {i \in DOMAIN landed' : landed'[i].req = r} =
          IF call[c].req = r THEN RunsAt(r) \cup {Len(landed) + 1} ELSE RunsAt(r)
    BY <1>1, <1>2, LandsAppends DEF RunsAt
  <1>5. RunsOf(landed', r) =
          IF call[c].req = r THEN Cardinality(RunsAt(r) \cup {Len(landed) + 1}) ELSE RunsOf(landed, r)
    BY <1>4, RunsCount DEF RunsOf
  <1>6. Cardinality(RunsAt(r) \cup {Len(landed) + 1}) = Cardinality(RunsAt(r)) + 1
    BY <1>3, RunsCount, FS_AddElement
  <1>7. QED
    BY <1>5, <1>6, RunsCount

\* A request that no landing names has not run.
LEMMA NeverRan ==
  ASSUME NEW r, \A i \in DOMAIN landed : landed[i].req # r
  PROVE  RunsOf(landed, r) = 0
  <1>1. {i \in DOMAIN landed : landed[i].req = r} = {}
    OBVIOUS
  <1>2. QED
    BY <1>1, FS_EmptySet DEF RunsOf

\* With a backend that never suspends its caller, a request that was denied never runs
\* again, whatever else happens: a deny cannot get between an approval and its write.
THEOREM DenialIsFinal ==
  ASSUME ~Yields
  PROVE  Spec => DeniedNeverRuns
  <1>1. Spec => []Turns
    BY TurnsKept
  <1>2. TypeOK /\ Turns /\ [Next]_vars =>
          \A r \in DOMAIN requests :
            requests[r].status = "DENIED" => RunsOf(landed', r) = RunsOf(landed, r)
    <2>. SUFFICES ASSUME TypeOK, Turns, [Next]_vars, NEW r \in DOMAIN requests,
                         requests[r].status = "DENIED"
                  PROVE  RunsOf(landed', r) = RunsOf(landed, r)
      OBVIOUS
    <2>1. CASE landed' = landed
      BY <2>1
    <2>2. ASSUME NEW c \in Calls, Lands(c)
          PROVE  RunsOf(landed', r) = RunsOf(landed, r)
      <3>1. r # 0
        BY LenProperties DEF TypeOK
      <3>2. call[c].req # r
        BY <2>2, <3>1 DEF Lands, Turns
      <3>3. QED
        BY <2>2, <3>2, LandsRuns, RunsCount
    <2>3. QED
      BY <2>1, <2>2, StepShape, OthersLandNothing
  <1>3. QED
    BY <1>1, <1>2, TypeCorrect, PTL DEF Spec, DeniedNeverRuns

-----------------------------------------------------------------------------
(* Every request runs at most once *)

\* A request that is open has run exactly if the call that carries it out has its answer
\* on the way.
Once ==
  \A r \in DOMAIN requests :
    /\ RunsOf(landed, r) \in {0, 1}
    /\ requests[r].status = "PENDING" =>
         (RunsOf(landed, r) = 1 <=> \E c \in Calls : ApprovalOf(c, r) /\ call[c].ack)

AckedFor(r) == \E d \in Calls : ApprovalOf(d, r) /\ call[d].ack

\* A step in which nothing lands keeps it, if what is open afterwards is a request that
\* was open before, with the same answer on the way, or a new one.
LEMMA OnceSettles ==
  ASSUME Strong, TypeOK', Once, landed' = landed, Len(requests) <= Len(requests'),
         \A r \in DOMAIN requests' : requests'[r].status = "PENDING" =>
           IF r \in DOMAIN requests
           THEN requests[r].status = "PENDING" /\ (AckedFor(r)' <=> AckedFor(r))
           ELSE ~AckedFor(r)'
  PROVE  Once'
  <1>1. /\ DOMAIN requests = 1..Len(requests) /\ Len(requests) \in Nat
        /\ DOMAIN requests' = 1..Len(requests') /\ Len(requests') \in Nat
    BY LenProperties DEF Strong, TypeOK
  <1>2. SUFFICES ASSUME NEW r \in DOMAIN requests'
                 PROVE  /\ RunsOf(landed, r) \in {0, 1}
                        /\ requests'[r].status = "PENDING" => (RunsOf(landed, r) = 1 <=> AckedFor(r)')
    BY DEF Once, AckedFor, ApprovalOf
  <1>3. CASE r \in DOMAIN requests
    BY <1>3 DEF Once, AckedFor
  <1>4. CASE r \notin DOMAIN requests
    <2>1. \A i \in DOMAIN landed : landed[i].req # r
      BY <1>1, <1>4 DEF Strong, AllAuthorised, Authorised
    <2>2. RunsOf(landed, r) = 0
      BY <2>1, NeverRan
    <2>3. QED
      BY <1>4, <2>2
  <1>5. QED
    BY <1>3, <1>4

\* The code of a write that has no answer yet keeps it.
LEMMA OnceHandled ==
  ASSUME Strong, TypeOK', Once, NEW c \in Calls, \A d \in Calls \ {c} : call[d] = Idle,
         call[c] \in WriteTasks => ~call[c].ack,
         NEW task \in WriteTasks, ~task.ack, task.req \in 0..Len(requests),
         NEW reqs \in {requests, Expired(requests)}, Handled(c, task, reqs),
         landed' = landed, Len(requests) <= Len(requests')
  PROVE  Once'
  <1>1. /\ DOMAIN requests = 1..Len(requests) /\ Len(requests) \in Nat
        /\ DOMAIN requests' = 1..Len(requests') /\ Len(requests') \in Nat
    BY LenProperties DEF Strong, TypeOK
  <1>2. Idle \notin WriteTasks
    BY DEF Idle, WriteTasks
  <1>3. \A d \in Calls : call'[d] \in WriteTasks => ~call'[d].ack
    <2>1. PICK t : call' = [call EXCEPT ![c] = t] /\ (t = Idle \/ (t \in WriteTasks /\ ~t.ack))
      BY DEF Handled, Ends, SameWrite
    <2>2. \A d \in Calls : call'[d] = IF d = c THEN t ELSE call[d]
      BY <2>1 DEF Strong, TypeOK
    <2>3. QED
      BY <1>2, <2>1, <2>2
  <1>4. \A r : ~AckedFor(r) /\ ~AckedFor(r)'
    BY <1>2, <1>3 DEF AckedFor, ApprovalOf
  <1>5. ASSUME NEW r \in DOMAIN requests', requests'[r].status = "PENDING", r \in DOMAIN requests
        PROVE  requests[r].status = "PENDING"
    <2>1. Fate(r, task)
      BY <1>1, HandledFate DEF Strong
    <2>2. QED
      BY <1>1, <1>5, <2>1 DEF Fate
  <1>6. QED
    BY <1>4, <1>5, OnceSettles

\* Every step keeps it, if the line of a write that was sent can always be written.
LEMMA OnceStep ==
  ASSUME ~Yields, LogFaults => Shadow, Strong, Quiet, Turns, Once, [Next]_vars
  PROVE  Once'
  <1>1. /\ TypeOK /\ TypeOK' /\ Len(requests) <= Len(requests') /\ Shape
        /\ DOMAIN requests = 1..Len(requests) /\ Len(requests) \in Nat
        /\ DOMAIN requests' = 1..Len(requests') /\ Len(requests') \in Nat
        /\ requests \in Seq(Requests)
    BY StepShape, TypeStep, StepGood, LenProperties DEF Strong, Good, Keeps, TypeOK
  <1>2. Idle \notin WriteTasks /\ \A task \in ReadTasks : task \notin WriteTasks
    BY DEF Idle, ReadTasks, WriteTasks
  <1>3. CASE Restart
    <2>1. \A r \in DOMAIN requests' : requests'[r].status = "GONE"
      BY <1>1, <1>3, RestartFate
    <2>2. landed' = landed
      BY <1>3 DEF Restart
    <2>3. QED
      BY <1>1, <2>1, <2>2, OnceSettles
  <1>4. CASE Rests
    <2>1. landed' = landed /\ call' = call /\ Len(requests') = Len(requests)
      BY <1>1, <1>4, ExpiredType DEF Rests
    <2>2. \A r \in DOMAIN requests : requests'[r].status = "PENDING" => requests[r].status = "PENDING"
      BY <1>1, <1>4, ExpiredFate DEF Rests
    <2>3. \A r : AckedFor(r)' <=> AckedFor(r)
      BY <2>1 DEF AckedFor, ApprovalOf
    <2>4. QED
      BY <1>1, <2>1, <2>2, <2>3, OnceSettles
  <1>5. ASSUME NEW c \in Calls, Acts(c)
        PROVE  Once'
    <2>1. \A d \in Calls \ {c} : call[d] = Idle
      BY <1>5 DEF Acts
    <2>2. CASE Starts(c)
      <3>1. PICK task \in WriteTasks, reqs \in {requests, Expired(requests)} :
              /\ Handled(c, task, reqs) /\ ~task.ack /\ call[c] = Idle /\ landed' = landed
              /\ task.req = 0 \/ task.req \in DOMAIN requests
        BY <2>2 DEF Starts
      <3>2. QED
        BY <1>1, <1>2, <2>1, <3>1, OnceHandled
    <2>3. CASE Goes(c) /\ ~call[c].ack
      <3>1. call[c] \in WriteTasks /\ Handled(c, call[c], requests) /\ landed' = landed
        BY <2>3 DEF Goes
      <3>2. call[c].req \in 0..Len(requests)
        BY <1>1, <3>1 DEF TypeOK, WellFormed
      <3>3. QED
        BY <1>1, <2>1, <2>3, <3>1, <3>2, OnceHandled
    <2>4. CASE ReadsOn(c)
      <3>1. landed' = landed /\ requests' = requests /\ call[c] \notin WriteTasks
        BY <2>4 DEF ReadsOn
      <3>2. \A d \in Calls : call[d] \notin WriteTasks
        BY <1>2, <2>1, <3>1
      <3>3. PICK task : call' = [call EXCEPT ![c] = task] /\ task \notin WriteTasks
        BY <1>2, <2>4 DEF ReadsOn, Ends
      <3>4. \A d \in Calls : call'[d] \notin WriteTasks
        BY <1>1, <3>2, <3>3 DEF TypeOK
      <3>5. \A r : ~AckedFor(r) /\ ~AckedFor(r)'
        BY <3>2, <3>4 DEF AckedFor, ApprovalOf
      <3>6. QED
        BY <1>1, <3>1, <3>5, OnceSettles
    <2>5. CASE WriteReturns(c)
      <3>1. /\ call[c] \in WriteTasks /\ call[c].pc = "write" /\ call[c].ack
            /\ WellFormed(call[c], Len(requests))
        BY <1>1, <2>5, TaskAt DEF WriteReturns
      <3>2. ~LogFaults
        BY <3>1 DEF Quiet
      <3>3. /\ call' = [call EXCEPT ![c] = Idle] /\ landed' = landed
            /\ requests' = Marked(requests, call[c], "APPROVED")
        BY <2>5, <3>2 DEF WriteReturns, Close, End
      <3>4. \A d \in Calls : call'[d] = Idle
        BY <1>1, <2>1, <3>3 DEF TypeOK
      <3>5. call[c].req \in 0..Len(requests)
        BY <3>1 DEF WellFormed
      <3>6. Len(requests') = Len(requests)
        BY <1>1, <3>1, <3>3, <3>5, MarkedType
      <3>7. \A r \in 1..Len(requests) :
              requests'[r].status = IF r = call[c].req THEN "APPROVED" ELSE requests[r].status
        BY <1>1, <3>3, <3>5, MarkedFate
      <3>8. \A r : ~AckedFor(r)' /\ (AckedFor(r) <=> r = call[c].req)
        BY <1>2, <2>1, <3>1, <3>4 DEF AckedFor, ApprovalOf
      <3>9. QED
        BY <1>1, <3>3, <3>6, <3>7, <3>8, OnceSettles
    <2>6. CASE Land(c)
      <3>. DEFINE task == [call[c] EXCEPT !.ack = TRUE]
      <3>1. Lands(c) /\ call[c] \in WriteTasks /\ ~call[c].ack /\ requests' = requests
        BY <1>1, <2>6, LandShape DEF Lands
      <3>2. task \in WriteTasks /\ task.ack /\ task.req = call[c].req
        BY <3>1 DEF WriteTasks
      <3>3. call' = [call EXCEPT ![c] = task]
        BY <3>1 DEF Lands
      <3>. HIDE DEF task
      <3>4. \A d \in Calls : call'[d] = IF d = c THEN task ELSE Idle
        BY <1>1, <2>1, <3>3 DEF TypeOK
      <3>5. \A r : ~AckedFor(r)
        BY <1>2, <2>1, <3>1 DEF AckedFor, ApprovalOf
      <3>6. \A r : AckedFor(r)' <=> r = call[c].req
        BY <1>2, <3>2, <3>4 DEF AckedFor, ApprovalOf
      <3>7. \A r \in DOMAIN requests :
              /\ RunsOf(landed', r) = RunsOf(landed, r) + (IF call[c].req = r THEN 1 ELSE 0)
              /\ RunsOf(landed, r) \in {0, 1}
        BY <1>1, <3>1, LandsRuns DEF Once
      <3>8. \A r \in DOMAIN requests : requests[r].status = "PENDING" => RunsOf(landed, r) = 0
        BY <3>5, <3>7 DEF Once, AckedFor
      <3>9. call[c].req \in DOMAIN requests => requests[call[c].req].status = "PENDING"
        BY <1>1, <3>1 DEF Turns
      <3>10. \A r \in DOMAIN requests :
               /\ RunsOf(landed', r) \in {0, 1}
               /\ requests[r].status = "PENDING" => (RunsOf(landed', r) = 1 <=> AckedFor(r)')
        BY <3>6, <3>7, <3>8, <3>9
      <3>11. QED
        BY <3>1, <3>10 DEF Once, AckedFor
    <2>7. QED
      BY <1>5, <2>2, <2>3, <2>4, <2>5, <2>6 DEF Acts
  <1>6. QED
    BY <1>1, <1>3, <1>4, <1>5, TurnShape

\* All of it is invariant.
LEMMA OnceKept ==
  ASSUME ~Yields, LogFaults => Shadow
  PROVE  Spec => [](Strong /\ Quiet /\ Turns /\ Once)
  <1>1. Init => Once
    BY DEF Init, Once
  <1>2. Strong /\ Quiet /\ Turns /\ Once /\ [Next]_vars => Once'
    BY OnceStep
  <1>3. Spec => []Turns
    BY TurnsKept
  <1>4. QED
    BY <1>1, <1>2, <1>3, QuietKept, StrongCorrect, PTL DEF Spec

\* With a backend that never suspends its caller and an audit file that can be written,
\* an approved request runs at most once, through any outage and restart.
THEOREM ApprovedRunsOnce ==
  ASSUME ~Yields, LogFaults => Shadow
  PROVE  Spec => []RunsOnce
  <1>1. Spec => [](Strong /\ Quiet /\ Turns /\ Once)
    BY OnceKept
  <1>2. Once => RunsOnce
    BY DEF Once, RunsOnce
  <1>3. QED
    BY <1>1, <1>2, PTL

-----------------------------------------------------------------------------
(* Every step is one of the abstract lifecycle, or none *)

Statuses == {"PENDING", "APPROVED", "DENIED", "EXPIRED", "GONE"}

\* A step that leaves the statuses and what landed alone.
LEMMA StutterMaps ==
  ASSUME landed' = landed, DOMAIN requests' = DOMAIN requests,
         \A r \in DOMAIN requests : requests'[r].status = requests[r].status
  PROVE  UNCHANGED Lifecycle!lifecycle
  BY DEF Lifecycle!lifecycle

\* The step is a look at the store at which the requests in late expire and request q,
\* if it is not 0, is settled with the verdict.
Looks(late, q, verdict) ==
  /\ landed' = landed /\ DOMAIN requests' = DOMAIN requests
  /\ 0 \notin DOMAIN requests /\ q \notin late
  /\ verdict = "DENIED" \/ (Shadow /\ verdict = "APPROVED")
  /\ \A r : r \in late \/ (r = q /\ q # 0) =>
       r \in DOMAIN requests /\ requests[r].status = "PENDING" /\ RunsOf(landed, r) = 0
  /\ \A r \in DOMAIN requests :
       requests'[r].status = IF r = q THEN verdict
                             ELSE IF r \in late THEN "EXPIRED" ELSE requests[r].status

\* It is one of the lifecycle.
LEMMA LookMaps ==
  ASSUME NEW late, NEW q, NEW verdict, Looks(late, q, verdict)
  PROVE  Lifecycle!Look
  <1>. DEFINE status == [r \in DOMAIN requests |-> requests[r].status]
              runs == [r \in DOMAIN requests |-> RunsOf(landed, r)]
              open == {r \in DOMAIN status : status[r] = "PENDING" /\ runs[r] = 0}
              expired == [r \in DOMAIN status |-> IF r \in late THEN "EXPIRED" ELSE status[r]]
              next == [r \in DOMAIN requests' |-> requests'[r].status]
  <1>1. late \in SUBSET open
    BY DEF Looks
  <1>2. CASE q = 0
    <2>1. next = expired
      BY <1>2 DEF Looks
    <2>2. UNCHANGED runs
      BY DEF Looks
    <2>3. QED
      BY <1>1, <2>1, <2>2 DEF Lifecycle!Look, Lifecycle!Expire, Lifecycle!Requests
  <1>3. CASE q # 0
    <2>1. q \in open \ late
      BY <1>3 DEF Looks
    <2>2. verdict \in {"DENIED"} \cup IF Shadow THEN {"APPROVED"} ELSE {}
      BY DEF Looks
    <2>3. next = [expired EXCEPT ![q] = verdict]
      BY <1>3 DEF Looks
    <2>4. \E l \in SUBSET open : \E r \in open \ l :
            \E v \in {"DENIED"} \cup IF Shadow THEN {"APPROVED"} ELSE {} :
              next = [[r2 \in DOMAIN status |-> IF r2 \in l THEN "EXPIRED" ELSE status[r2]]
                        EXCEPT ![r] = v]
      <3>. HIDE DEF open, next, status
      <3>1. QED
        BY <1>1, <2>1, <2>2, <2>3
    <2>5. UNCHANGED runs
      BY DEF Looks
    <2>6. QED
      BY <2>4, <2>5 DEF Lifecycle!Look, Lifecycle!Expire, Lifecycle!Requests
  <1>4. QED
    BY <1>2, <1>3

\* A step that parks a write.
LEMMA CreateMaps ==
  ASSUME Strong, landed' = landed, NEW new \in Requests, new.status = "PENDING",
         requests' = Append(requests, new)
  PROVE  Lifecycle!Create
  <1>. DEFINE status == [r \in DOMAIN requests |-> requests[r].status]
              runs == [r \in DOMAIN requests |-> RunsOf(landed, r)]
              statusNext == [r \in DOMAIN requests' |-> requests'[r].status]
              runsNext == [r \in DOMAIN requests' |-> RunsOf(landed', r)]
              n == Len(requests)
  <1>1. /\ DOMAIN requests = 1..n /\ n \in Nat /\ requests \in Seq(Requests) /\ TypeOK
        /\ \A r \in 1..n : requests[r] \in Requests
    BY LenProperties, ElementOfSeq DEF Strong, TypeOK
  <1>2. /\ DOMAIN requests' = 1..(n + 1)
        /\ requests'[n + 1] = new
        /\ \A r \in 1..n : requests'[r] = requests[r]
    BY <1>1, AppendProperties, LenProperties
  <1>3. RunsOf(landed, n + 1) = 0
    <2>1. \A i \in DOMAIN landed : landed[i].req # n + 1
      BY <1>1 DEF Strong, AllAuthorised, Authorised
    <2>2. QED
      BY <2>1, NeverRan
  <1>4. status \in [1..n -> Statuses] /\ runs \in [1..n -> Nat]
    BY <1>1, RunsCount DEF Requests, Statuses
  <1>5. status \in Seq(Statuses) /\ Len(status) = n /\ runs \in Seq(Nat) /\ Len(runs) = n
    BY <1>1, <1>4, FunctionSeq
  <1>6. /\ DOMAIN Append(status, "PENDING") = 1..(n + 1)
        /\ Append(status, "PENDING")[n + 1] = "PENDING"
        /\ \A r \in 1..n : Append(status, "PENDING")[r] = status[r]
    BY <1>5, AppendProperties, LenProperties DEF Statuses
  <1>7. /\ DOMAIN Append(runs, 0) = 1..(n + 1)
        /\ Append(runs, 0)[n + 1] = 0
        /\ \A r \in 1..n : Append(runs, 0)[r] = runs[r]
    BY <1>5, AppendProperties, LenProperties
  <1>8. \A r \in 1..(n + 1) : r \in 1..n \/ r = n + 1
    BY <1>1
  <1>9. statusNext = Append(status, "PENDING")
    <2>1. Append(status, "PENDING") \in Seq(Statuses)
      BY <1>5, AppendProperties DEF Statuses
    <2>2. Append(status, "PENDING") = [r \in 1..(n + 1) |-> Append(status, "PENDING")[r]]
      BY <1>6, <2>1
    <2>3. \A r \in 1..(n + 1) : statusNext[r] = Append(status, "PENDING")[r]
      BY <1>2, <1>6, <1>8
    <2>4. statusNext = [r \in 1..(n + 1) |-> statusNext[r]]
      BY <1>2
    <2>. HIDE DEF status, statusNext
    <2>5. QED
      BY <2>2, <2>3, <2>4
  <1>10. runsNext = Append(runs, 0)
    <2>1. Append(runs, 0) \in Seq(Nat)
      BY <1>5, AppendProperties
    <2>2. Append(runs, 0) = [r \in 1..(n + 1) |-> Append(runs, 0)[r]]
      BY <1>7, <2>1
    <2>3. \A r \in 1..(n + 1) : runsNext[r] = Append(runs, 0)[r]
      BY <1>2, <1>3, <1>7, <1>8
    <2>4. runsNext = [r \in 1..(n + 1) |-> runsNext[r]]
      BY <1>2
    <2>. HIDE DEF runs, runsNext
    <2>5. QED
      BY <2>2, <2>3, <2>4
  <1>11. QED
    BY <1>9, <1>10 DEF Lifecycle!Create

\* A write of an open request that lands is its run; a direct write is none.
LEMMA LandMaps ==
  ASSUME ~Shadow, TypeOK, NEW c \in Calls, Lands(c), call[c].req \in 0..Len(requests),
         call[c].req # 0 =>
           requests[call[c].req].status = "PENDING" /\ RunsOf(landed, call[c].req) = 0
  PROVE  [Lifecycle!Next]_(Lifecycle!lifecycle)
  <1>. DEFINE req == call[c].req
              status == [r \in DOMAIN requests |-> requests[r].status]
              runs == [r \in DOMAIN requests |-> RunsOf(landed, r)]
              runsNext == [r \in DOMAIN requests' |-> RunsOf(landed', r)]
  <1>1. DOMAIN requests = 1..Len(requests) /\ Len(requests) \in Nat /\ requests' = requests
    BY LenProperties DEF TypeOK, Lands
  <1>2. \A r : /\ RunsOf(landed', r) = RunsOf(landed, r) + (IF req = r THEN 1 ELSE 0)
               /\ RunsOf(landed, r) \in Nat
    BY LandsRuns, RunsCount
  <1>3. CASE req = 0
    <2>1. runsNext = runs
      BY <1>1, <1>2, <1>3
    <2>2. QED
      BY <1>1, <2>1 DEF Lifecycle!lifecycle
  <1>4. CASE req # 0
    <2>1. req \in DOMAIN requests /\ status[req] = "PENDING" /\ runs[req] = 0
      BY <1>1, <1>4
    <2>2. runsNext = [runs EXCEPT ![req] = 1]
      BY <1>1, <1>2, <2>1
    <2>3. Lifecycle!Run(req)
      BY <1>1, <2>1, <2>2 DEF Lifecycle!Run
    <2>4. QED
      BY <2>1, <2>3 DEF Lifecycle!Next, Lifecycle!Requests
  <1>5. QED
    BY <1>3, <1>4

\* Marking an open request that has run is its approval; a direct write has none.
LEMMA MarkMaps ==
  ASSUME TypeOK, NEW task \in WriteTasks, task.req \in 0..Len(requests), landed' = landed,
         requests' = Marked(requests, task, "APPROVED"),
         task.req # 0 =>
           requests[task.req].status = "PENDING" /\ RunsOf(landed, task.req) = 1
  PROVE  [Lifecycle!Next]_(Lifecycle!lifecycle)
  <1>. DEFINE req == task.req
              status == [r \in DOMAIN requests |-> requests[r].status]
              runs == [r \in DOMAIN requests |-> RunsOf(landed, r)]
              statusNext == [r \in DOMAIN requests' |-> requests'[r].status]
              runsNext == [r \in DOMAIN requests' |-> RunsOf(landed', r)]
  <1>1. /\ DOMAIN requests = 1..Len(requests) /\ Len(requests) \in Nat
        /\ requests \in Seq(Requests)
    BY LenProperties DEF TypeOK
  <1>2. DOMAIN requests' = DOMAIN requests
    BY <1>1, MarkedType, LenProperties
  <1>3. \A r \in 1..Len(requests) :
          requests'[r].status = IF r = req THEN "APPROVED" ELSE requests[r].status
    BY <1>1, MarkedFate
  <1>4. CASE req = 0
    BY <1>1, <1>2, <1>3, <1>4, StutterMaps
  <1>5. CASE req # 0
    <2>1. req \in DOMAIN requests /\ status[req] = "PENDING" /\ runs[req] = 1
      BY <1>1, <1>5
    <2>2. statusNext = [status EXCEPT ![req] = "APPROVED"]
      BY <1>1, <1>2, <1>3, <2>1
    <2>3. runsNext = runs
      BY <1>2
    <2>4. Lifecycle!Approve(req)
      BY <2>1, <2>2, <2>3 DEF Lifecycle!Approve
    <2>5. QED
      BY <2>1, <2>4 DEF Lifecycle!Next, Lifecycle!Requests
  <1>6. QED
    BY <1>4, <1>5

\* A restart forgets every request.
LEMMA RestartMaps ==
  ASSUME TypeOK, Restart
  PROVE  Lifecycle!Forget
  <1>1. DOMAIN requests' = DOMAIN requests /\ landed' = landed
    BY DEF Restart
  <1>2. \A r \in DOMAIN requests : requests'[r].status = "GONE"
    BY RestartFate, LenProperties DEF TypeOK
  <1>3. QED
    BY <1>1, <1>2 DEF Lifecycle!Forget, Lifecycle!Requests

\* The code of a write that has no answer yet looks at the store, parks the write, or
\* settles its own open request.
LEMMA HandledMaps ==
  ASSUME Strong, NEW c \in Calls, NEW task \in WriteTasks, ~task.ack, landed' = landed,
         NEW reqs \in {requests, Expired(requests)}, Handled(c, task, reqs),
         task.req \in 0..Len(requests), task.req # 0 => reqs[task.req].status = "PENDING",
         task.req = 0 => reqs = requests,
         \A r \in DOMAIN requests :
           requests[r].status = "PENDING" /\ (r = task.req \/ reqs = Expired(requests)) =>
             RunsOf(landed, r) = 0
  PROVE  [Lifecycle!Next]_(Lifecycle!lifecycle)
  <1>. DEFINE late == {r \in DOMAIN requests : reqs[r].status # requests[r].status}
  <1>1. /\ DOMAIN requests = 1..Len(requests) /\ Len(requests) \in Nat /\ TypeOK
        /\ requests \in Seq(Requests)
    BY LenProperties DEF Strong, TypeOK
  <1>2. /\ reqs \in Seq(Requests) /\ Len(reqs) = Len(requests)
        /\ DOMAIN reqs = DOMAIN requests
    BY <1>1, ExpiredType, LenProperties
  <1>3. \A r \in DOMAIN requests :
          reqs[r].status # requests[r].status =>
            /\ requests[r].status = "PENDING" /\ reqs[r].status = "EXPIRED"
            /\ reqs = Expired(requests)
    BY <1>1, ExpiredFate
  <1>4. \A r \in late : /\ r \in DOMAIN requests /\ requests[r].status = "PENDING"
                        /\ reqs[r].status = "EXPIRED" /\ RunsOf(landed, r) = 0
    BY <1>3
  <1>5. \A r \in DOMAIN requests \ late : reqs[r].status = requests[r].status
    OBVIOUS
  <1>6. task.req # 0 => /\ task.req \in DOMAIN requests /\ task.req \notin late
                        /\ requests[task.req].status = "PENDING"
                        /\ RunsOf(landed, task.req) = 0
    BY <1>1, <1>4, <1>5
  <1>. HIDE DEF late
  <1>7. ASSUME NEW verdict \in {"DENIED", "APPROVED"}, verdict = "APPROVED" => Shadow,
               requests' = Marked(reqs, task, verdict)
        PROVE  Lifecycle!Look
    <2>1. DOMAIN requests' = DOMAIN requests
      BY <1>1, <1>2, <1>7, MarkedType, LenProperties
    <2>2. \A r \in DOMAIN requests :
            requests'[r].status = IF r = task.req THEN verdict ELSE reqs[r].status
      BY <1>1, <1>2, <1>7, MarkedFate
    <2>3. Looks(late, task.req, verdict)
      BY <1>1, <1>4, <1>5, <1>6, <1>7, <2>1, <2>2 DEF Looks
    <2>4. QED
      BY <2>3, LookMaps
  <1>8. CASE requests' = reqs
    <2>1. \A r \in DOMAIN requests :
            requests'[r].status = IF r = 0 THEN "DENIED"
                                  ELSE IF r \in late THEN "EXPIRED" ELSE requests[r].status
      BY <1>1, <1>4, <1>5, <1>8
    <2>2. 0 \notin DOMAIN requests /\ 0 \notin late /\ DOMAIN requests' = DOMAIN requests
      BY <1>1, <1>2, <1>4, <1>8
    <2>3. Lifecycle!Look
      <3>1. Looks(late, 0, "DENIED")
        BY <1>4, <2>1, <2>2 DEF Looks
      <3>2. QED
        BY <3>1, LookMaps
    <2>4. QED
      BY <2>3 DEF Lifecycle!Next
  <1>9. CASE task.req = 0 /\ \E new \in Requests : new.status = "PENDING" /\ requests' = Append(reqs, new)
    BY <1>9, CreateMaps DEF Lifecycle!Next
  <1>10. \/ requests' = reqs
         \/ requests' = Marked(reqs, task, "DENIED")
         \/ Shadow /\ requests' = Marked(reqs, task, "APPROVED")
         \/ task.req = 0 /\ \E new \in Requests : new.status = "PENDING" /\ requests' = Append(reqs, new)
    BY DEF Handled, Settles
  <1>11. QED
    BY <1>7, <1>8, <1>9, <1>10 DEF Lifecycle!Next

\* Every step is one of the lifecycle or leaves it alone.
LEMMA StepMaps ==
  ASSUME ~Yields, LogFaults => Shadow, Strong, Quiet, Turns, Once, [Next]_vars
  PROVE  [Lifecycle!Next]_(Lifecycle!lifecycle)
  <1>1. /\ TypeOK /\ DOMAIN requests = 1..Len(requests) /\ Len(requests) \in Nat
        /\ requests \in Seq(Requests)
    BY LenProperties DEF Strong, TypeOK
  <1>2. Idle \notin WriteTasks
    BY DEF Idle, WriteTasks
  <1>3. CASE Restart
    BY <1>1, <1>3, RestartMaps DEF Lifecycle!Next
  <1>4. ASSUME Rests, requests' = requests
        PROVE  UNCHANGED Lifecycle!lifecycle
    BY <1>4, StutterMaps DEF Rests
  <1>5. ASSUME \A d \in Calls : call[d] \notin WriteTasks \/ ~call[d].ack
        PROVE  \A r \in DOMAIN requests : requests[r].status = "PENDING" => RunsOf(landed, r) = 0
    BY <1>5 DEF Once, ApprovalOf
  <1>6. ASSUME Rests, requests' = Expired(requests), Active = {}
        PROVE  Lifecycle!Look
    <2>. DEFINE late == {r \in DOMAIN requests : requests'[r].status # requests[r].status}
    <2>1. \A r \in DOMAIN requests : requests[r].status = "PENDING" => RunsOf(landed, r) = 0
      BY <1>2, <1>5, <1>6 DEF Active
    <2>2. DOMAIN requests' = DOMAIN requests /\ landed' = landed
      BY <1>1, <1>6, ExpiredType, LenProperties DEF Rests
    <2>3. \A r \in late : /\ r \in DOMAIN requests /\ requests[r].status = "PENDING"
                          /\ requests'[r].status = "EXPIRED" /\ RunsOf(landed, r) = 0
      BY <1>1, <1>6, <2>1, ExpiredFate
    <2>4. 0 \notin DOMAIN requests /\ 0 \notin late
      BY <1>1
    <2>5. \A r \in DOMAIN requests :
            requests'[r].status = IF r = 0 THEN "DENIED"
                                  ELSE IF r \in late THEN "EXPIRED" ELSE requests[r].status
      BY <2>3, <2>4
    <2>. HIDE DEF late
    <2>6. Looks(late, 0, "DENIED")
      BY <2>2, <2>3, <2>4, <2>5 DEF Looks
    <2>7. QED
      BY <2>6, LookMaps
  <1>7. ASSUME NEW c \in Calls, Acts(c)
        PROVE  [Lifecycle!Next]_(Lifecycle!lifecycle)
    <2>1. \A d \in Calls \ {c} : call[d] = Idle
      BY <1>7 DEF Acts
    <2>2. call[c] \in WriteTasks =>
            /\ call[c].req \in 0..Len(requests)
            /\ call[c].req # 0 => requests[call[c].req].status = "PENDING"
      BY <1>1 DEF Turns, TypeOK, WellFormed
    <2>3. CASE Starts(c)
      <3>1. PICK task \in WriteTasks, reqs \in {requests, Expired(requests)} :
              /\ Handled(c, task, reqs) /\ ~task.ack /\ call[c] = Idle /\ landed' = landed
              /\ \/ task.req = 0 /\ reqs = requests
                 \/ task.req \in DOMAIN requests /\ reqs[task.req].status = "PENDING"
        BY <2>3 DEF Starts, Open
      <3>2. \A r \in DOMAIN requests : requests[r].status = "PENDING" => RunsOf(landed, r) = 0
        BY <1>2, <1>5, <2>1, <3>1
      <3>3. task.req \in 0..Len(requests)
        BY <1>1, <3>1
      <3>4. (task.req # 0 => reqs[task.req].status = "PENDING") /\ (task.req = 0 => reqs = requests)
        BY <1>1, <3>1
      <3>5. QED
        BY <3>1, <3>2, <3>3, <3>4, HandledMaps
    <2>4. CASE Goes(c) /\ ~call[c].ack
      <3>1. call[c] \in WriteTasks /\ Handled(c, call[c], requests) /\ landed' = landed
        BY <2>4 DEF Goes
      <3>2. \A r \in DOMAIN requests : requests[r].status = "PENDING" => RunsOf(landed, r) = 0
        BY <1>2, <1>5, <2>1, <2>4
      <3>3. QED
        BY <2>2, <2>4, <3>1, <3>2, HandledMaps
    <2>5. CASE ReadsOn(c)
      BY <2>5, StutterMaps DEF ReadsOn
    <2>6. CASE Land(c)
      <3>1. Lands(c) /\ call[c] \in WriteTasks /\ ~call[c].ack
        BY <1>1, <2>6, LandShape DEF Lands
      <3>2. ~Shadow
        BY <2>6 DEF Quiet, Land
      <3>3. \A r \in DOMAIN requests : requests[r].status = "PENDING" => RunsOf(landed, r) = 0
        BY <1>2, <1>5, <2>1, <3>1
      <3>4. QED
        BY <1>1, <2>2, <3>1, <3>2, <3>3, LandMaps
    <2>7. CASE WriteReturns(c)
      <3>1. call[c] \in WriteTasks /\ call[c].pc = "write" /\ call[c].ack
        BY <1>1, <2>7, TaskAt DEF WriteReturns
      <3>2. landed' = landed /\ requests' = Marked(requests, call[c], "APPROVED")
        BY <2>7, <3>1 DEF Quiet, WriteReturns, Close, End
      <3>3. call[c].req # 0 => RunsOf(landed, call[c].req) = 1
        BY <1>1, <2>2, <3>1 DEF Once, ApprovalOf
      <3>4. QED
        BY <1>1, <2>2, <3>1, <3>2, <3>3, MarkMaps
    <2>8. QED
      BY <1>7, <2>3, <2>4, <2>5, <2>6, <2>7 DEF Acts
  <1>8. QED
    BY <1>1, <1>3, <1>4, <1>6, <1>7, TurnShape DEF Lifecycle!Next, Rests

\* With a backend that never suspends its caller and an audit file that can be written,
\* the gateway implements the abstract approval workflow: a parked write is settled once,
\* by the human, the re-check or the clock, never runs unless it is still open, runs at
\* most once, and is approved only after it ran.
THEOREM ApprovalsImplemented ==
  ASSUME ~Yields, LogFaults => Shadow
  PROVE  Spec => ApprovalsRefine
  <1>1. Init => Lifecycle!Init
    BY DEF Init, Lifecycle!Init
  <1>2. Strong /\ Quiet /\ Turns /\ Once /\ [Next]_vars => [Lifecycle!Next]_(Lifecycle!lifecycle)
    BY StepMaps
  <1>3. Spec => [](Strong /\ Quiet /\ Turns /\ Once)
    BY OnceKept
  <1>4. QED
    BY <1>1, <1>2, <1>3, PTL DEF Spec, ApprovalsRefine, Lifecycle!Spec

-----------------------------------------------------------------------------
(* The lifecycle by itself, whatever implements it *)

VARIABLES status, runs

Promise == INSTANCE ApprovalLifecycle

\* Statuses and runs have one entry per request, and only a request that ran is approved
\* (unless approved ones are never executed); a refused one did not run.
Sound ==
  /\ status \in Seq(Statuses)
  /\ runs \in Seq({0, 1})
  /\ Len(runs) = Len(status)
  /\ \A r \in 1..Len(status) :
       /\ status[r] \in {"DENIED", "EXPIRED"} => runs[r] = 0
       /\ status[r] = "APPROVED" => runs[r] = 1 \/ Shadow

\* Changing the statuses of open requests that have not run, to a refusal, keeps it.
LEMMA SettleSound ==
  ASSUME Sound, runs' = runs, NEW new \in [1..Len(status) -> Statuses], status' = new,
         \A r \in 1..Len(status) :
           \/ new[r] = status[r]
           \/ new[r] = "GONE"
           \/ runs[r] = 0 /\ new[r] \in {"DENIED", "EXPIRED"}
           \/ Shadow /\ new[r] = "APPROVED"
           \/ runs[r] = 1 /\ new[r] = "APPROVED"
  PROVE  Sound'
  <1>1. Len(status) \in Nat
    BY LenProperties DEF Sound
  <1>2. new \in Seq(Statuses) /\ Len(new) = Len(status)
    BY <1>1
  <1>3. QED
    BY <1>1, <1>2 DEF Sound

\* Every step keeps it.
LEMMA SoundStep ==
  ASSUME Sound, [Promise!Next]_(Promise!lifecycle)
  PROVE  Sound'
  <1>1. Len(status) \in Nat /\ DOMAIN status = 1..Len(status) /\ DOMAIN runs = 1..Len(status)
    BY LenProperties DEF Sound
  <1>2. \A r \in 1..Len(status) : status[r] \in Statuses /\ runs[r] \in {0, 1}
    BY ElementOfSeq DEF Sound
  <1>3. CASE Promise!Create
    <2>1. /\ status' \in Seq(Statuses) /\ runs' \in Seq({0, 1})
          /\ Len(status') = Len(status) + 1 /\ Len(runs') = Len(status')
          /\ status'[Len(status) + 1] = "PENDING"
          /\ \A r \in 1..Len(status) : status'[r] = status[r] /\ runs'[r] = runs[r]
      BY <1>3, AppendProperties DEF Promise!Create, Sound, Statuses
    <2>2. \A r \in 1..(Len(status) + 1) : r \in 1..Len(status) \/ r = Len(status) + 1
      BY <1>1
    <2>3. QED
      BY <2>1, <2>2 DEF Sound
  <1>4. ASSUME NEW r \in Promise!Requests, Promise!Run(r)
        PROVE  Sound'
    <2>1. runs' = [runs EXCEPT ![r] = 1] /\ status' = status /\ status[r] = "PENDING"
      BY <1>4 DEF Promise!Run
    <2>2. runs' \in Seq({0, 1}) /\ Len(runs') = Len(runs)
      BY <1>1, <2>1, ExceptSeq DEF Sound, Promise!Requests
    <2>3. \A q \in 1..Len(status) : q # r => runs'[q] = runs[q]
      BY <1>1, <2>1
    <2>4. QED
      BY <2>1, <2>2, <2>3 DEF Sound
  <1>5. ASSUME NEW r \in Promise!Requests, Promise!Approve(r)
        PROVE  Sound'
    <2>. DEFINE new == [status EXCEPT ![r] = "APPROVED"]
    <2>1. new \in [1..Len(status) -> Statuses]
      BY <1>1, <1>2 DEF Statuses
    <2>2. \A q \in 1..Len(status) :
            \/ new[q] = status[q]
            \/ runs[q] = 1 /\ new[q] = "APPROVED"
      BY <1>1, <1>5 DEF Promise!Approve
    <2>3. QED
      BY <1>5, <2>1, <2>2, SettleSound DEF Promise!Approve
  <1>6. ASSUME NEW late \in SUBSET {r \in Promise!Requests : status[r] = "PENDING" /\ runs[r] = 0}
        PROVE  /\ Promise!Expire(late) \in [1..Len(status) -> Statuses]
               /\ \A q \in 1..Len(status) :
                    \/ Promise!Expire(late)[q] = status[q]
                    \/ runs[q] = 0 /\ Promise!Expire(late)[q] = "EXPIRED"
    BY <1>1, <1>2, <1>6 DEF Promise!Expire, Promise!Requests, Statuses
  <1>7. CASE Promise!Look
    <2>1. PICK late \in SUBSET {r \in Promise!Requests : status[r] = "PENDING" /\ runs[r] = 0} :
            \/ status' = Promise!Expire(late)
            \/ \E r \in {r \in Promise!Requests : status[r] = "PENDING" /\ runs[r] = 0} \ late :
                 \E verdict \in {"DENIED"} \cup IF Shadow THEN {"APPROVED"} ELSE {} :
                   status' = [Promise!Expire(late) EXCEPT ![r] = verdict]
      BY <1>7 DEF Promise!Look
    <2>2. CASE status' = Promise!Expire(late)
      BY <1>6, <1>7, <2>2, SettleSound DEF Promise!Look
    <2>3. ASSUME NEW r \in Promise!Requests, runs[r] = 0,
                 NEW verdict \in {"DENIED"} \cup IF Shadow THEN {"APPROVED"} ELSE {},
                 status' = [Promise!Expire(late) EXCEPT ![r] = verdict]
          PROVE  Sound'
      <3>. DEFINE new == [Promise!Expire(late) EXCEPT ![r] = verdict]
      <3>1. \/ verdict = "DENIED"
            \/ Shadow /\ verdict = "APPROVED"
        BY <2>3
      <3>2. new \in [1..Len(status) -> Statuses]
        BY <1>6, <3>1 DEF Statuses
      <3>3. \A q \in 1..Len(status) : new[q] = IF q = r THEN verdict ELSE Promise!Expire(late)[q]
        BY <1>6
      <3>4. \A q \in 1..Len(status) :
              \/ new[q] = status[q]
              \/ runs[q] = 0 /\ new[q] \in {"DENIED", "EXPIRED"}
              \/ Shadow /\ new[q] = "APPROVED"
        BY <1>6, <2>3, <3>1, <3>3
      <3>. HIDE DEF new
      <3>5. QED
        BY <1>7, <2>3, <3>2, <3>4, SettleSound DEF new, Promise!Look
    <2>4. QED
      BY <2>1, <2>2, <2>3
  <1>8. CASE Promise!Forget
    <2>. DEFINE new == [r \in Promise!Requests |-> "GONE"]
    <2>1. new \in [1..Len(status) -> Statuses] /\ \A q \in 1..Len(status) : new[q] = "GONE"
      BY <1>1 DEF Promise!Requests, Statuses
    <2>2. QED
      BY <1>8, <2>1, SettleSound DEF Promise!Forget
  <1>9. CASE UNCHANGED Promise!lifecycle
    BY <1>9 DEF Promise!lifecycle, Sound
  <1>10. QED
    BY <1>3, <1>4, <1>5, <1>7, <1>8, <1>9 DEF Promise!Next

\* A denied or expired request never ran: every specification that implements the
\* lifecycle, as Gateway does while a backend call never suspends its caller, keeps the
\* promise that silence and refusal mean no.
THEOREM RefusalsKept == Promise!Spec => []Promise!RefusedNeverRan
  <1>1. Promise!Init => Sound
    BY EmptySeq DEF Promise!Init, Sound
  <1>2. Sound /\ [Promise!Next]_(Promise!lifecycle) => Sound'
    BY SoundStep
  <1>3. Sound => Promise!RefusedNeverRan
    BY LenProperties DEF Sound, Promise!RefusedNeverRan, Promise!Requests
  <1>4. QED
    BY <1>1, <1>2, <1>3, PTL DEF Promise!Spec
=============================================================================
