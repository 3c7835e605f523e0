---------------------------- MODULE DurableLimits ----------------------------
(***************************************************************************)
(* The limits on a series of writes over the durable history: the checks   *)
(* of PolicyEngine read the memory of JsonlRateHistory, and every write    *)
(* they admit is put into it once the backend has executed it.  One call   *)
(* at a time; time passes, the clock is set back, appends fail and the     *)
(* process dies between any two of these steps.                            *)
(***************************************************************************)
EXTENDS JsonlRateHistory

Engine == INSTANCE PolicyEngine

CONSTANT Rules  \* the rules that the policy may give the tags

ASSUME RulesAssumption ==
  \A rule \in Rules :
    /\ Engine!IsRule(rule, Tags)
    /\ \A limit \in rule.cumulative \cup rule.calls : limit.interval <= Retention

VARIABLES
  rule,     \* the rule in force
  pending,  \* the write that is admitted and at the backend, a set of at most one
  landed,   \* the writes the backend executed (observed, never read)
  steady    \* the clock was never set back (observed, never read)

limitVars == <<rule, pending, landed, steady>>

-----------------------------------------------------------------------------
(* A write: admitted, executed by the backend, recorded *)

\* evaluate: the checks see what is in memory now.
Admit(tag, value) ==
  /\ pending = {} /\ Len(landed) < MaxPuts
  /\ Engine!RangeOk(rule, Engine!Number(value))
  /\ Engine!SeriesOk(rule, memory[tag], Engine!Number(value), clock)
  /\ pending' = {[tag |-> tag, value |-> value]}
  /\ UNCHANGED <<vars, rule, landed, steady>>

Executed(write) == Append(landed, Line(write.tag, write.value))

\* record_write: the backend has executed the write, and it is put.
Record(write) ==
  /\ \/ Put(write.tag, write.value)
     \/ PutRaises(write.tag, write.value)
     \/ DieInPut(write.tag, write.value)
  /\ pending' = {}
  /\ landed' = Executed(write)
  /\ UNCHANGED <<rule, steady>>

\* The backend refuses the write: nothing is recorded.
Refused(write) ==
  /\ pending' = {}
  /\ UNCHANGED <<vars, rule, landed, steady>>

\* The process dies after the backend executed the write and before the put.
DieBeforePut(write) ==
  /\ Faults
  /\ Restart
  /\ pending' = {}
  /\ landed' = Executed(write)
  /\ UNCHANGED <<rule, steady>>

-----------------------------------------------------------------------------
(* Specification *)

LimitInit ==
  /\ Init
  /\ rule \in Rules
  /\ pending = {}
  /\ landed = <<>>
  /\ steady = TRUE

LimitNext ==
  \/ \E tag \in Tags, value \in Values : Admit(tag, value)
  \/ \E write \in pending : Record(write) \/ Refused(write) \/ DieBeforePut(write)
  \/ Restart /\ pending' = {} /\ UNCHANGED <<rule, landed, steady>>
  \/ Tick /\ UNCHANGED limitVars
  \/ ClockSetBack /\ steady' = FALSE /\ UNCHANGED <<rule, pending, landed>>

LimitSpec == LimitInit /\ [][LimitNext]_<<vars, limitVars>>

-----------------------------------------------------------------------------
(* Properties: what the rule promises about the writes that were executed *)

Executions(tag) == OfTag(landed, tag)

\* Writes that were executed and whose put did not return.
Missed == Len(landed) - Len(written)

\* No window of calls_interval holds more executed writes than max_calls, whatever
\* restarts lie in it.  Every write that was executed but not recorded may add one,
\* and so may every line that an append left torn.
CeilingDurable ==
  steady => \A tag \in Tags, limit \in rule.calls :
    \A i \in DOMAIN Executions(tag) :
      Cardinality({j \in DOMAIN Executions(tag) :
                     Executions(tag)[j].ts - Executions(tag)[i].ts \in 0..limit.interval})
        <= limit.max + Missed + tears

\* From one executed write to the next the value moves at most as far as max_rate
\* allows for the time between them, restarts or not, as long as no put has failed.
RateDurable ==
  steady /\ Missed = 0 => \A tag \in Tags, limit \in rule.rate :
    LET recs == Executions(tag)
    IN  \A i \in 1..(Len(recs) - 1) :
          LET elapsed == Engine!Min({recs[i + 1].ts - recs[i].ts, limit.interval})
          IN  Engine!Magnitude(recs[i + 1].value - recs[i].value) * limit.interval
                <= limit.max * elapsed

\* Every write after the first stays within cumulative_range of the oldest write in
\* the window that ended at some moment between it and its predecessor (of its
\* predecessor if that window is empty): a restart does not move the baseline.
DriftDurable ==
  steady /\ Missed = 0 => \A tag \in Tags, limit \in rule.cumulative :
    LET recs == Executions(tag)
    IN  \A k \in 2..Len(recs) : \E t \in recs[k - 1].ts..recs[k].ts, b \in 1..(k - 1) :
          /\ \A j \in 1..(b - 1) : recs[j].ts < t - limit.interval
          /\ recs[b].ts >= t - limit.interval \/ b = k - 1
          /\ recs[k].value - recs[b].value \in limit.lo..limit.hi
=============================================================================
