---------------------------- MODULE AsyncuaBackend ----------------------------
(***************************************************************************)
(* The real backend (otgate/backends/asyncua_backend.py): operations of    *)
(* several asyncio tasks share one client.  A task gives up control while  *)
(* it connects, while its request is at the server and while it closes a   *)
(* connection; in between, another task may replace, close or clear the    *)
(* client both use.                                                        *)
(*                                                                         *)
(* The asyncua library and the server are external: a request on a lost    *)
(* connection raises and is not carried out later.                         *)
(***************************************************************************)
EXTENDS Naturals, FiniteSets

CONSTANTS
  Ops,        \* the operations; each is called at most once
  Missing,    \* those on a tag the server does not have (KeyError)
  Rejected,   \* those the server answers with any other error
  Attempts,   \* reconnect_attempts
  MaxStops,   \* bound: how often the server stops
  MaxBreaks   \* bound: how many connections break by themselves

ASSUME OpsAssumption == IsFiniteSet(Ops) /\ Missing \cup Rejected \subseteq Ops
ASSUME KindsAssumption == Missing \cap Rejected = {}
ASSUME BoundAssumption == {Attempts, MaxStops, MaxBreaks} \subseteq Nat

VARIABLES
  up,       \* the server accepts connections
  live,     \* the connections that work
  client,   \* the connection _client holds, or 0 for None
  task,     \* the operations
  stops,    \* how often the server stopped
  breaks    \* how many connections broke by themselves

vars == <<up, live, client, task, stops, breaks>>

-----------------------------------------------------------------------------

\* An operation: conn is the connection its request or its disconnect is on, tries
\* the connection attempts made so far, issue and ack as in BackendContract.
NewTask ==
  [pc |-> "none", conn |-> 0, tries |-> 0, issue |-> 1, ack |-> FALSE, effects |-> 0]

Opening(op) == [op EXCEPT !.pc = "opening", !.tries = 0, !.conn = 0]
Ended(op, outcome) ==
  [op EXCEPT !.pc = outcome, !.conn = 0, !.tries = 0, !.issue = 1, !.ack = FALSE]

Becomes(t, op) == task' = [task EXCEPT ![t] = op]
World == <<up, stops, breaks>>

\* An operation connects at most twice.  A new connection has the smallest number
\* that nobody refers to.
Connections == 1..(2 * Cardinality(Ops))
Taken(k) == k \in live \/ k = client \/ \E t \in Ops : task[t].conn = k
Fresh(k) == ~Taken(k) /\ \A j \in 1..(k - 1) : Taken(j)

\* Slip: the client is used without looking whether there is one.
CallUnchecked(t) ==
  /\ task[t].pc = "none"
  /\ Becomes(t, [task[t] EXCEPT !.pc = "op", !.conn = client])
  /\ UNCHANGED <<World, live, client>>

\* _with_reconnect up to its first await.
Call(t) ==
  /\ task[t].pc = "none"
  /\ \/ client = 0 /\ Becomes(t, Opening(task[t]))
     \/ client # 0 /\ Becomes(t, [task[t] EXCEPT !.pc = "op", !.conn = client])
  /\ UNCHANGED <<World, live, client>>

\* Slip: a client that is replaced is closed, whoever is using it.
ConnectedClosing(t) ==
  /\ task[t].pc = "opening" /\ up
  /\ \E k \in {j \in Connections : Fresh(j)} :
       /\ live' = (live \ {client}) \cup {k}
       /\ client' = k
       /\ Becomes(t, [task[t] EXCEPT !.pc = "op", !.tries = 0, !.conn = k])
  /\ UNCHANGED World

\* _open succeeds and the request is issued on the fresh connection at once.
Connected(t) ==
  /\ task[t].pc = "opening" /\ up
  /\ \E k \in {j \in Connections : Fresh(j)} :
       /\ live' = live \cup {k}
       /\ client' = k
       /\ Becomes(t, [task[t] EXCEPT !.pc = "op", !.tries = 0, !.conn = k])
  /\ UNCHANGED World

\* Slip: the attempts are not counted.
ConnectFailsForever(t) ==
  /\ task[t].pc = "opening" /\ ~up
  /\ UNCHANGED vars

\* _open fails: reconnect_attempts times with a pause, then once more.
ConnectFails(t) ==
  /\ task[t].pc = "opening" /\ ~up
  /\ \/ task[t].tries < Attempts /\ Becomes(t, [task[t] EXCEPT !.tries = @ + 1])
     \/ task[t].tries = Attempts /\ Becomes(t, Ended(task[t], "failed"))
  /\ UNCHANGED <<World, live, client>>

\* The server carries the request out; the reply is on its way.
TakesEffect(t) ==
  /\ task[t].pc = "op" /\ ~task[t].ack
  /\ t \notin Missing \cup Rejected
  /\ task[t].conn \in live
  /\ Becomes(t, [task[t] EXCEPT !.ack = TRUE, !.effects = @ + 1])
  /\ UNCHANGED <<World, live, client>>

OpReturns(t) ==
  /\ task[t].pc = "op" /\ task[t].ack
  /\ task[t].conn \in live
  /\ Becomes(t, Ended(task[t], "ok"))
  /\ UNCHANGED <<World, live, client>>

\* KeyError: passed on, the connection is kept.
OpMissing(t) ==
  /\ task[t].pc = "op" /\ t \in Missing
  /\ task[t].conn \in live
  /\ Becomes(t, Ended(task[t], "missing"))
  /\ UNCHANGED <<World, live, client>>

\* A request on a lost connection raises, one on a connection that a task is
\* closing may.
Raises(t) ==
  \/ t \in Rejected
  \/ task[t].conn \notin live
  \/ \E u \in Ops : task[u].pc \in {"closing", "leaving"} /\ task[u].conn = task[t].conn

\* Any other exception: _close begins on whatever connection _client holds now.
OpFails(t) ==
  LET first == task[t].issue = 1
      op    == [task[t] EXCEPT !.issue = 2, !.ack = ~first /\ @, !.conn = client]
  IN  /\ task[t].pc = "op" /\ Raises(t)
      /\ \/ /\ client # 0
            /\ Becomes(t, [op EXCEPT !.pc = IF first THEN "closing" ELSE "leaving"])
         \/ /\ client = 0
            /\ Becomes(t, IF first THEN Opening(op) ELSE Ended(op, "failed"))
      /\ UNCHANGED <<World, live, client>>

\* Slip: after the second failure the exception is not raised again.
DisconnectedSilently(t) ==
  /\ task[t].pc \in {"closing", "leaving"}
  /\ live' = live \ {task[t].conn}
  /\ client' = 0
  /\ Becomes(t, IF task[t].pc = "closing" THEN Opening(task[t]) ELSE Ended(task[t], "ok"))
  /\ UNCHANGED World

\* The disconnect is over: _client becomes None whatever it is by now.
Disconnected(t) ==
  /\ task[t].pc \in {"closing", "leaving"}
  /\ live' = live \ {task[t].conn}
  /\ client' = 0
  /\ Becomes(t, IF task[t].pc = "closing" THEN Opening(task[t]) ELSE Ended(task[t], "failed"))
  /\ UNCHANGED World

-----------------------------------------------------------------------------
(* The server and the network *)

ConnectionBreaks(k) ==
  /\ breaks < MaxBreaks
  /\ k \in live
  /\ live' = live \ {k}
  /\ breaks' = breaks + 1
  /\ UNCHANGED <<up, client, task, stops>>

ServerStops ==
  /\ stops < MaxStops
  /\ up
  /\ up' = FALSE
  /\ live' = {}
  /\ stops' = stops + 1
  /\ UNCHANGED <<client, task, breaks>>

ServerStarts ==
  /\ ~up
  /\ up' = TRUE
  /\ UNCHANGED <<live, client, task, stops, breaks>>

Init ==
  /\ up = TRUE
  /\ live = {}
  /\ client = 0
  /\ task = [t \in Ops |-> NewTask]
  /\ stops = 0
  /\ breaks = 0

\* The continuations of an operation.
Progress(t) ==
  \/ Connected(t) \/ ConnectFails(t)
  \/ TakesEffect(t) \/ OpReturns(t) \/ OpMissing(t) \/ OpFails(t)
  \/ Disconnected(t)

Next ==
  \/ \E t \in Ops : Call(t) \/ Progress(t)
  \/ \E k \in Connections : ConnectionBreaks(k)
  \/ ServerStops \/ ServerStarts

Spec == Init /\ [][Next]_vars

\* While awaits of the library are under way, one of them ends, by an answer or by its
\* timeout; which one is left open.
FairSpec == Spec /\ WF_vars(\E t \in Ops : Progress(t))

-----------------------------------------------------------------------------
(* Properties *)

Outcomes == {"ok", "missing", "failed"}
Tasks ==
  [pc : {"none", "opening", "op", "closing", "leaving"} \cup Outcomes,
   conn : Nat, tries : 0..Attempts, issue : {1, 2}, ack : BOOLEAN, effects : Nat]

\* Every variable has its type; a request and a disconnect are always on a connection
\* that exists, never on None.
TypeOK ==
  /\ up \in BOOLEAN /\ stops \in Nat /\ breaks \in Nat
  /\ live \subseteq Connections
  /\ client \in {0} \cup Connections
  /\ task \in [Ops -> Tasks]
  /\ \A t \in Ops :
       task[t].pc \in {"op", "closing", "leaving"} => task[t].conn \in Connections

\* Tasks that share the client do each other no harm while nothing fails: no
\* operation is issued twice or raises BackendError, though the first ones may each
\* open a connection of their own.
QuietWithoutFaults ==
  stops = 0 /\ breaks = 0 /\ Rejected = {} =>
    \A t \in Ops : task[t].issue = 1 /\ task[t].pc # "failed"

\* Every operation ends, whatever the server does and whatever the tasks do to the
\* client they share: what Gateway's fairness rests on.
OpsEnd == \A t \in Ops : task[t].pc # "none" ~> task[t].pc \in Outcomes

\* "If the backend still cannot be reached the operation raises BackendError": while
\* the server is up all the time and one connection at most broke, none does.
ServedWhenReachable ==
  stops = 0 /\ breaks <= 1 => \A t \in Ops \ Rejected : task[t].pc # "failed"

Contract ==
  INSTANCE BackendContract WITH
    outcome <- [t \in Ops |-> IF task[t].pc \in {"opening", "op", "closing", "leaving"}
                              THEN "running" ELSE task[t].pc],
    issue   <- [t \in Ops |-> task[t].issue],
    ack     <- [t \in Ops |-> task[t].ack],
    effects <- [t \in Ops |-> task[t].effects]

\* The backend keeps the contract its callers rely on.
ContractKept == Contract!Spec

\* What the gateway concludes from an outcome is true.
OutcomesTruthful == Contract!OutcomesTruthful
=============================================================================
