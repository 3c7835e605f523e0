--------------------------- MODULE MCDurableLimits ---------------------------
(***************************************************************************)
(* Small instances of DurableLimits: one tag under no limit, a rate limit, *)
(* a drift limit and a call budget, each in behaviours of its own.         *)
(***************************************************************************)
EXTENDS DurableLimits

CONSTANT t1

Rule(top) ==
  [access |-> "write", value_range |-> {[lo |-> 0, hi |-> top]}, rate |-> {},
   cumulative |-> {}, calls |-> {}, interlocks |-> <<>>]

SomeRules ==
  {Rule(1),
   [Rule(1) EXCEPT !.rate = {[max |-> 1, interval |-> 2]}],
   [Rule(2) EXCEPT !.cumulative = {[lo |-> -1, hi |-> 1, interval |-> 1]}],
   [Rule(0) EXCEPT !.calls = {[max |-> 1, interval |-> 1]}],
   [Rule(0) EXCEPT !.calls = {[max |-> 2, interval |-> 1]}]}
=============================================================================
