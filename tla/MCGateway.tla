------------------------------ MODULE MCGateway ------------------------------
(***************************************************************************)
(* Small instances of Gateway: the policies, inputs and plants of the runs *)
(***************************************************************************)
EXTENDS GatewayProperties, TLC

CONSTANTS diagnostics, optimizer, SP, PV, ESD, c1, c2

On  == Boolean(TRUE)
Off == Boolean(FALSE)

Rule(access) ==
  [access |-> access, value_range |-> {}, rate |-> {}, cumulative |-> {},
   calls |-> {}, interlocks |-> <<>>]
Tripped == [tag |-> ESD, op |-> "==", threshold |-> On]
Hot     == [tag |-> PV, op |-> ">=", threshold |-> Number(2)]

AtRest == (SP :> Number(0)) @@ (PV :> Number(1)) @@ (ESD :> Off)
AllTags == {SP, PV, ESD}
None == {}

Write(g, tag, n) == [agent |-> g, tag |-> tag, value |-> Number(n)]

\* The shipped optimizer policy in small: the setpoint needs approval and the
\* emergency shutdown to be off.
ApprovalPolicy ==
  optimizer :> ((SP :> [Rule("write_with_approval") EXCEPT !.interlocks = <<Tripped>>])
                @@ (ESD :> Rule("read")))
SetpointWrites == {Write(optimizer, SP, 1)}
Trips == {[tag |-> ESD, value |-> On], [tag |-> ESD, value |-> Off]}

\* SP can be read, ESD is in no policy.
SomeReads == {[agent |-> optimizer, tag |-> SP], [agent |-> optimizer, tag |-> ESD]}

\* Two agents that may both write SP under one budget of one write per time unit.
TwoAgentPolicy ==
  LET budget == [Rule("write") EXCEPT !.calls = {[max |-> 1, interval |-> 1]}]
  IN  (diagnostics :> (SP :> budget)) @@ (optimizer :> (SP :> budget))
TwoAgentWrites == {Write(diagnostics, SP, 1), Write(optimizer, SP, 1)}

\* Both agents may have SP written with approval; only the optimizer's policy, whose
\* agent asks, puts the emergency shutdown on it.
UnevenPolicy ==
  (diagnostics :> (SP :> Rule("write_with_approval"))) @@ ApprovalPolicy

\* One tag written outright, one with approval.
ShadowPolicy ==
  optimizer :> ((SP :> [Rule("write_with_approval") EXCEPT !.interlocks = <<Tripped, Hot>>])
                @@ (PV :> Rule("write")))
ShadowWrites == {Write(optimizer, SP, 1), Write(optimizer, PV, 0)}

Symmetry == Permutations(Calls)
=============================================================================
