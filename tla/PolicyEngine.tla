---------------------------- MODULE PolicyEngine ----------------------------
(***************************************************************************)
(* The decisions of otgate/engine.py as pure operators, over the rules     *)
(* otgate/policy.py accepts.  Nothing here has state: the caller supplies  *)
(* the records of the rate history and the time `now` at which the code    *)
(* reads its clock.                                                        *)
(*                                                                         *)
(* Numbers are integers.  The engine's floats are compared, subtracted and *)
(* scaled, never rounded on purpose, so the integers keep every comparison *)
(* the code makes; NaN and non-numeric readings are outside this module.   *)
(***************************************************************************)
EXTENDS Integers, Sequences, FiniteSets, FiniteSetsExt

-----------------------------------------------------------------------------
(* Values and rules *)

\* A Python bool or number.  `n` is float(value), so True is 1 and False is 0.
Number(n) == [bool |-> FALSE, n |-> n]
Boolean(b) == [bool |-> TRUE, n |-> IF b THEN 1 ELSE 0]
Scalar == [bool : {FALSE}, n : Int] \cup [bool : {TRUE}, n : {0, 1}]

Access == {"read", "write", "write_with_approval", "deny"}
Comparison == {"==", "!=", ">", ">=", "<", "<="}

\* One executed write of a tag, as the rate history keeps it.
Record == [ts : Int, value : Int]

\* What the parser accepts for each limit.  A limit that the rule does not set
\* is an empty set and one that it sets a singleton, so a check is a quantifier.
ValueRanges == {r \in [lo : Int, hi : Int] : r.lo <= r.hi}
RateLimits  == [max : Nat \ {0}, interval : Nat \ {0}]
DriftLimits == {r \in [lo : Int, hi : Int, interval : Nat \ {0}] :
                  r.lo <= 0 /\ 0 <= r.hi}
CallBudgets == [max : Nat \ {0}, interval : Nat \ {0}]

Interlocks(tags) == [tag : tags, op : Comparison, threshold : Scalar]

IsRule(rule, tags) ==
  /\ rule.access \in Access
  /\ rule.value_range \subseteq ValueRanges /\ Cardinality(rule.value_range) <= 1
  /\ rule.rate \subseteq RateLimits         /\ Cardinality(rule.rate) <= 1
  /\ rule.cumulative \subseteq DriftLimits  /\ Cardinality(rule.cumulative) <= 1
  /\ rule.calls \subseteq CallBudgets       /\ Cardinality(rule.calls) <= 1
  /\ rule.interlocks \in Seq(Interlocks(tags))

\* A policy is a partial function from tags to rules: a tag outside its domain
\* has no rule and is denied.
IsPolicy(policy, tags) ==
  DOMAIN policy \subseteq tags /\ \A tag \in DOMAIN policy : IsRule(policy[tag], tags)

-----------------------------------------------------------------------------
(* Interlock conditions *)

\* If either side is a bool the two truth values are compared.
SameScalar(a, b) ==
  IF a.bool \/ b.bool THEN (a.n # 0) = (b.n # 0) ELSE a.n = b.n

ConditionHolds(current, op, threshold) ==
  \/ op = "==" /\ SameScalar(current, threshold)
  \/ op = "!=" /\ ~SameScalar(current, threshold)
  \/ op = ">"  /\ current.n > threshold.n
  \/ op = ">=" /\ current.n >= threshold.n
  \/ op = "<"  /\ current.n < threshold.n
  \/ op = "<=" /\ current.n <= threshold.n

-----------------------------------------------------------------------------
(* Checks on one write *)

RangeOk(rule, value) ==
  \A range \in rule.value_range : ~value.bool /\ value.n \in range.lo..range.hi

\* Everything the engine decides about a write before it reads an interlock.
Admits(policy, tag, value) ==
  /\ tag \in DOMAIN policy
  /\ policy[tag].access \in {"write", "write_with_approval"}
  /\ RangeOk(policy[tag], value)

ReadAllowed(policy, tag) == tag \in DOMAIN policy /\ policy[tag].access # "deny"

-----------------------------------------------------------------------------
(* Checks on the series: recs is the tag's history, oldest first *)

Magnitude(n) == IF n < 0 THEN -n ELSE n

\* Slip: the window leaves out its oldest moment.
WindowOpen(recs, since) == {i \in DOMAIN recs : recs[i].ts > since}

\* The positions of the records at or after `since`.
Window(recs, since) == {i \in DOMAIN recs : recs[i].ts >= since}

\* Slip: the allowance is not scaled by the elapsed time.
RateUnscaled(rule, recs, value, now) ==
  \A limit \in rule.rate :
    ~value.bool /\ recs # <<>> =>
      Magnitude(value.n - recs[Len(recs)].value) <= limit.max

\* |value - last| <= max * (elapsed / interval), the elapsed time capped at one
\* interval and never negative; multiplied out, so that no division is needed.
RateOk(rule, recs, value, now) ==
  \A limit \in rule.rate :
    ~value.bool /\ recs # <<>> =>
      LET last    == recs[Len(recs)]
          elapsed == Min({Max({now - last.ts, 0}), limit.interval})
      IN  Magnitude(value.n - last.value) * limit.interval <= limit.max * elapsed

\* Slip: drift is measured from the previous write, as the rate is.
BaselineLast(recs, since) == recs[Len(recs)].value

\* The oldest value inside the window, or the last one if the window is empty.
Baseline(recs, since) ==
  LET inside == Window(recs, since)
  IN  IF inside = {} THEN recs[Len(recs)].value ELSE recs[Min(inside)].value

CumulativeOk(rule, recs, value, now) ==
  \A limit \in rule.cumulative :
    ~value.bool /\ recs # <<>> =>
      value.n - Baseline(recs, now - limit.interval) \in limit.lo..limit.hi

\* Slip: the write that uses the budget up is let through once more.
BudgetInclusive(rule, recs, now) ==
  \A limit \in rule.calls : Cardinality(Window(recs, now - limit.interval)) <= limit.max

BudgetOk(rule, recs, now) ==
  \A limit \in rule.calls : Cardinality(Window(recs, now - limit.interval)) < limit.max

SeriesOk(rule, recs, value, now) ==
  /\ RateOk(rule, recs, value, now)
  /\ CumulativeOk(rule, recs, value, now)
  /\ BudgetOk(rule, recs, now)

\* record_write: a boolean is never recorded.
Recorded(recs, value, now) ==
  IF value.bool THEN recs ELSE Append(recs, [ts |-> now, value |-> value.n])
=============================================================================
