----------------------------- MODULE StartupProofs -----------------------------
(***************************************************************************)
(* The proof that what a start-up serves keeps its channels apart, for any *)
(* number of agents, any agents.yaml and any number of edits to it.        *)
(***************************************************************************)
EXTENDS Startup, SequenceTheorems, TLAPS

IsSeq(s) == s \in Seq(Range(s))

\* A sequence is known by its length and its elements.
LEMMA SeqFacts ==
  ASSUME NEW s, IsSeq(s)
  PROVE  Len(s) \in Nat /\ DOMAIN s = 1..Len(s) /\ (s # <<>> => Len(s) >= 1)
  BY LenProperties, EmptySeq DEF IsSeq

\* A function on 1..n with one element put after it.
LEMMA AppendFacts ==
  ASSUME NEW n \in Nat, NEW f, f = [k \in 1..n |-> f[k]], NEW e
  PROVE  /\ IsSeq(Append(f, e))
         /\ Len(Append(f, e)) = n + 1
         /\ DOMAIN Append(f, e) = 1..(n + 1)
         /\ \A k \in 1..n : Append(f, e)[k] = f[k]
         /\ Append(f, e)[n + 1] = e
  <1>. DEFINE S == {f[k] : k \in 1..n} \cup {e}
              g == Append(f, e)
  <1>1. f \in Seq(S) /\ Len(f) = n
    <2>1. f \in [1..n -> S]
      OBVIOUS
    <2>2. QED
      BY <2>1
  <1>2. /\ g \in Seq(S) /\ Len(g) = n + 1 /\ (\A k \in 1..n : g[k] = f[k]) /\ g[n + 1] = e
    BY <1>1
  <1>3. DOMAIN g = 1..(n + 1) /\ g \in [1..(n + 1) -> S]
    BY <1>2, LenProperties
  <1>4. g \in [1..(n + 1) -> Range(g)]
    BY <1>3 DEF Range
  <1>5. IsSeq(g)
    <2>. HIDE DEF g
    <2>1. Range(g) = Range(g)
      OBVIOUS
    <2>2. QED
      BY <1>4 DEF IsSeq
  <1>6. QED
    BY <1>2, <1>3, <1>5

-----------------------------------------------------------------------------

\* What the first reading left behind.
Built ==
  /\ setting.mode = "multi" /\ setting.operator # Unset
  /\ FileOk(versions[1])
  /\ gateways = [k \in DOMAIN versions[1] |->
                   [id |-> versions[1][k].id, policy |-> versions[1][k].policy]]

\* What is promised of the channels that listen, said of all that are going to.
TokensApart == \A k, l \in DOMAIN servers : servers[k].token = servers[l].token => k = l
TokensSet == \A k \in DOMAIN servers : servers[k].token # Unset
HasRights(server) ==
  \E m, n \in DOMAIN versions :
    /\ \E k \in DOMAIN versions[m] :
         versions[m][k].id = server.id /\ versions[m][k].policy = server.policy
    /\ \E k \in DOMAIN versions[n] :
         versions[n][k].id = server.id /\ versions[n][k].token = server.token
Rights ==
  setting.mode = "multi" =>
    \A k \in DOMAIN servers : servers[k].tools = AgentTools => HasRights(servers[k])
Sound == IsSeq(servers) /\ TokensApart /\ TokensSet /\ PortsApart /\ Rights

IInv ==
  /\ setting \in Settings /\ file \in Files
  /\ versions \in Seq(Files) /\ versions # <<>> /\ file = versions[Len(versions)]
  /\ bound \in Nat /\ bound <= Len(servers)
  /\ pc = "binding" => bound < Len(servers)
  /\ pc \in {"gateways", "tokens", "refused"} => servers = <<>>
  /\ pc = "gateways" => versions[1] = file
  /\ pc = "tokens" => Built
  /\ Sound

\* Before the servers are made there is nothing to keep apart.
LEMMA NothingServed ==
  ASSUME servers = <<>>
  PROVE  Sound
  <1>1. servers \in Seq({}) /\ DOMAIN servers = {}
    BY DEF Sound
  <1>2. Range(servers) = {}
    BY <1>1 DEF Range
  <1>3. QED
    BY <1>1, <1>2 DEF Sound, IsSeq, TokensApart, TokensSet, PortsApart, Rights

\* In single-agent mode two tokens that are set and differ are enough.
LEMMA SingleStep ==
  ASSUME IInv, RunSingleAgent
  PROVE  IInv'
  <1>1. CASE Refuse
    BY <1>1 DEF Refuse, RunSingleAgent, IInv, Sound, IsSeq, TokensApart, TokensSet,
                PortsApart, Rights, HasRights
  <1>2. CASE ~Refuse
    <2>. DEFINE gateway == [id |-> "agent", policy |-> setting.policy]
                a == AgentServer(gateway, setting.agent, setting.agentPort)
                o == OperatorServer(gateway)
    <2>1. /\ SingleSound /\ servers' = <<a, o>> /\ pc' = "binding" /\ setting.mode = "single"
          /\ pc = "gateways" /\ UNCHANGED <<setting, file, bound, versions>>
      BY <1>2 DEF RunSingleAgent
    <2>2. a.token = setting.agent /\ o.token = setting.operator
      BY DEF AgentServer, OperatorServer
    <2>. HIDE DEF a, o
    <2>3. servers' \in Seq({a, o}) /\ Len(servers') = 2 /\ servers'[1] = a /\ servers'[2] = o
      BY <2>1
    <2>4. DOMAIN servers' = 1..2
      BY <2>3, LenProperties
    <2>5. IsSeq(servers')
      <3>1. Range(servers') = {a, o}
        BY <2>3, <2>4 DEF Range
      <3>2. QED
        BY <2>3, <3>1 DEF IsSeq
    <2>6. TokensApart' /\ TokensSet'
      BY <2>1, <2>2, <2>3, <2>4 DEF TokensApart, TokensSet, SingleSound
    <2>7. PortsApart' /\ Rights'
      BY <2>1 DEF PortsApart, Rights
    <2>8. Sound'
      BY <2>5, <2>6, <2>7 DEF Sound, IsSeq
    <2>9. bound = 0
      BY <2>1, EmptySeq DEF IInv
    <2>10. QED
      BY <2>1, <2>3, <2>8, <2>9 DEF IInv
  <1>3. QED
    BY <1>1, <1>2

\* The first reading.
LEMMA BuildStep ==
  ASSUME IInv, BuildGateways
  PROVE  IInv'
  <1>1. CASE Refuse
    BY <1>1 DEF Refuse, BuildGateways, IInv, Sound, IsSeq, TokensApart, TokensSet,
                PortsApart, Rights, HasRights
  <1>2. CASE ~Refuse
    <2>1. /\ setting.operator # Unset /\ FileOk(file) /\ pc' = "tokens" /\ pc = "gateways"
          /\ setting.mode = "multi"
          /\ gateways' = [k \in DOMAIN file |-> [id |-> file[k].id, policy |-> file[k].policy]]
          /\ UNCHANGED <<setting, file, servers, bound, versions>>
      BY <1>2 DEF BuildGateways
    <2>2. Built'
      <3>1. versions'[1] = file
        BY <2>1 DEF IInv
      <3>2. FileOk(versions'[1])
        BY <2>1, <3>1
      <3>3. gateways' = [k \in DOMAIN versions'[1] |->
                           [id |-> versions'[1][k].id, policy |-> versions'[1][k].policy]]
        BY <2>1, <3>1
      <3>4. QED
        BY <2>1, <3>2, <3>3 DEF Built, FileOk
    <2>3. Sound'
      BY <2>1 DEF IInv, Sound, IsSeq, TokensApart, TokensSet, PortsApart, Rights, HasRights
    <2>4. QED
      BY <2>1, <2>2, <2>3 DEF IInv
  <1>3. QED
    BY <1>1, <1>2

\* The second reading: tokens by id, the operator's apart from all of them, ports one
\* after the other.
LEMMA CollectStep ==
  ASSUME IInv, CollectTokens
  PROVE  IInv'
  <1>1. CASE Refuse
    BY <1>1 DEF Refuse, CollectTokens, IInv, Sound, IsSeq, TokensApart, TokensSet,
                PortsApart, Rights, HasRights
  <1>2. CASE ~Refuse
    <2>. DEFINE n == Len(gateways)
                f == [k \in DOMAIN gateways |->
                        AgentServer(gateways[k], TokenOf(k), setting.agentPort + k - 1)]
                o == OperatorServer(gateways[1])
                l(k) == CHOOSE j \in DOMAIN file : file[j].id = gateways[k].id
                first == versions[1]
    <2>1. /\ FileOk(file) /\ OperatorDistinct /\ PortsFree /\ Known
          /\ pc = "tokens" /\ pc' = "binding" /\ servers' = Append(f, o)
          /\ UNCHANGED <<setting, file, gateways, bound, versions>>
      BY <1>2 DEF CollectTokens
    <2>2. /\ Len(versions) \in Nat /\ Len(versions) >= 1 /\ DOMAIN versions = 1..Len(versions)
          /\ first \in Files /\ file \in Files /\ file = versions[Len(versions)]
      BY LenProperties, EmptySeq, ElementOfSeq DEF IInv
    <2>3. IsSeq(first) /\ Len(first) \in Nat /\ DOMAIN first = 1..Len(first)
      BY <2>2, FilesAssumption, SeqFacts DEF IsFile, IsSeq
    <2>4. Len(first) >= 1
      BY <2>1, <2>2, <2>3, SeqFacts DEF IInv, Built, FileOk
    <2>5. /\ gateways = [k \in 1..Len(first) |-> [id |-> first[k].id, policy |-> first[k].policy]]
          /\ FileOk(first)
      BY <2>1, <2>3 DEF IInv, Built
    <2>6. n = Len(first) /\ DOMAIN gateways = 1..n /\ n \in Nat /\ n >= 1
      <3>. DEFINE S == {gateways[k] : k \in 1..Len(first)}
      <3>1. gateways \in [1..Len(first) -> S]
        BY <2>5
      <3>2. gateways \in Seq(S) /\ Len(gateways) = Len(first)
        BY <2>3, <3>1
      <3>3. QED
        BY <2>3, <2>4, <2>5, <3>2
    <2>. HIDE DEF n, first
    <2>7. f = [k \in 1..n |-> f[k]]
      BY <2>6
    <2>8. \A k \in 1..n : /\ f[k].token = file[l(k)].token /\ f[k].port = setting.agentPort + k - 1
                          /\ f[k].id = gateways[k].id /\ f[k].policy = gateways[k].policy
      BY <2>6 DEF AgentServer, TokenOf
    <2>9. o.token = setting.operator /\ o.port = setting.operatorPort /\ o.tools = OperatorTools
      BY DEF OperatorServer
    <2>10. \A k \in 1..n : l(k) \in DOMAIN file /\ file[l(k)].id = gateways[k].id
      BY <2>1, <2>6 DEF Known
    <2>. HIDE DEF f, o, l
    <2>11. /\ IsSeq(servers') /\ Len(servers') = n + 1 /\ DOMAIN servers' = 1..(n + 1)
           /\ (\A k \in 1..n : servers'[k] = f[k]) /\ servers'[n + 1] = o
      BY <2>1, <2>6, <2>7, AppendFacts
    <2>12. \A k, m \in 1..n : f[k].token = f[m].token => k = m
      <3>1. \A k, m \in 1..n : k # m => gateways[k].id # gateways[m].id
        BY <2>3, <2>5, <2>6 DEF FileOk
      <3>2. \A k, m \in 1..n : k # m => l(k) # l(m)
        BY <2>10, <3>1
      <3>3. QED
        BY <2>1, <2>8, <2>10, <3>2 DEF FileOk
    <2>13. \A k \in 1..n : f[k].token # setting.operator /\ f[k].token # Unset
      <3>1. Unset.text = ""
        BY DEF Unset
      <3>2. \A j \in DOMAIN file : file[j].token.text # ""
        BY <2>1 DEF FileOk, EntryOk
      <3>3. \A j \in DOMAIN file : file[j].token # Unset
        BY <3>1, <3>2
      <3>4. \A j \in DOMAIN file : file[j].token # setting.operator
        BY <2>1 DEF OperatorDistinct
      <3>5. QED
        BY <2>8, <2>10, <3>3, <3>4
    <2>14. TokensApart' /\ TokensSet'
      BY <2>1, <2>6, <2>9, <2>11, <2>12, <2>13 DEF TokensApart, TokensSet, IInv, Built
    <2>15. PortsApart'
      <3>1. setting.agentPort \in Nat /\ setting.operatorPort \in Nat
        BY SettingsAssumption DEF IInv, IsSetting
      <3>2. setting.operatorPort \notin setting.agentPort..(setting.agentPort + n - 1)
        BY <2>1 DEF PortsFree, n
      <3>3. \A k \in 1..n : f[k].port # o.port
        BY <2>6, <2>8, <2>9, <3>1, <3>2
      <3>4. \A k, m \in 1..n : f[k].port = f[m].port => k = m
        BY <2>6, <2>8, <3>1
      <3>5. QED
        BY <2>6, <2>11, <3>3, <3>4 DEF PortsApart
    <2>16. \A k \in 1..n : HasRights(f[k])
      <3>1. \A k \in 1..n : first[k].id = f[k].id /\ first[k].policy = f[k].policy
        BY <2>5, <2>6, <2>8
      <3>2. \A k \in 1..n : file[l(k)].id = f[k].id /\ file[l(k)].token = f[k].token
        BY <2>8, <2>10
      <3>3. 1 \in DOMAIN versions /\ Len(versions) \in DOMAIN versions
        BY <2>2
      <3>4. QED
        <4>. SUFFICES ASSUME NEW k \in 1..n PROVE HasRights(f[k])
          OBVIOUS
        <4>1. k \in DOMAIN versions[1] /\ versions[1][k].id = f[k].id
              /\ versions[1][k].policy = f[k].policy
          BY <2>3, <2>6, <3>1 DEF first
        <4>2. l(k) \in DOMAIN versions[Len(versions)]
              /\ versions[Len(versions)][l(k)].id = f[k].id
              /\ versions[Len(versions)][l(k)].token = f[k].token
          BY <2>2, <2>10, <3>2
        <4>3. QED
          BY <3>3, <4>1, <4>2 DEF HasRights
    <2>17. Rights'
      <3>1. o.tools # AgentTools
        BY <2>9 DEF OperatorTools, AgentTools
      <3>2. \A k \in DOMAIN servers' : servers'[k].tools = AgentTools => HasRights(servers'[k])
        BY <2>6, <2>11, <2>16, <3>1
      <3>3. QED
        BY <2>1, <3>2 DEF Rights, HasRights
    <2>18. Sound'
      BY <2>11, <2>14, <2>15, <2>17 DEF Sound, IsSeq
    <2>19. bound = 0
      BY <2>1, EmptySeq DEF IInv
    <2>20. QED
      BY <2>1, <2>6, <2>11, <2>18, <2>19 DEF IInv
  <1>3. QED
    BY <1>1, <1>2

\* Binding changes only how many channels listen.
LEMMA BindStep ==
  ASSUME IInv, Bind
  PROVE  IInv'
  <1>1. /\ pc = "binding" /\ UNCHANGED <<setting, file, gateways, servers, versions>>
        /\ \/ bound' = bound + 1
              /\ pc' = IF bound + 1 = Len(servers) THEN "serving" ELSE "binding"
           \/ bound' = 0 /\ pc' = "exited"
    BY DEF Bind
  <1>2. Len(servers) \in Nat
    BY SeqFacts DEF IInv, Sound
  <1>3. /\ bound' \in Nat /\ bound' <= Len(servers)
        /\ pc' = "binding" => bound' < Len(servers)
    BY <1>1, <1>2 DEF IInv
  <1>4. Sound'
    BY <1>1 DEF IInv, Sound, IsSeq, TokensApart, TokensSet, PortsApart, Rights, HasRights
  <1>5. pc' \notin {"gateways", "tokens", "refused"}
    BY <1>1
  <1>6. QED
    BY <1>1, <1>3, <1>4, <1>5 DEF IInv

\* An edit comes between the two readings, before anything is served, and leaves the
\* first content where it is.
LEMMA EditStep ==
  ASSUME IInv, NEW f \in Files, Edit(f)
  PROVE  IInv'
  <1>1. /\ pc = "tokens" /\ file' = f /\ versions' = Append(versions, f)
        /\ UNCHANGED <<pc, setting, gateways, servers, bound>>
    BY DEF Edit
  <1>2. /\ versions' \in Seq(Files) /\ versions' # <<>> /\ versions'[1] = versions[1]
        /\ f = versions'[Len(versions')]
    <2>1. versions \in Seq(Files) /\ Len(versions) \in Nat /\ Len(versions) >= 1
      BY LenProperties, EmptySeq DEF IInv
    <2>2. QED
      BY <1>1, <2>1
  <1>3. servers = <<>> /\ Built
    BY <1>1 DEF IInv
  <1>4. Built'
    BY <1>1, <1>2, <1>3 DEF Built, FileOk
  <1>5. Sound'
    <2>1. Sound /\ servers' = servers /\ DOMAIN servers = {}
      BY <1>1, <1>3, SeqFacts, EmptySeq DEF IInv, Sound
    <2>2. QED
      BY <2>1 DEF Sound, IsSeq, TokensApart, TokensSet, PortsApart, Rights
  <1>6. QED
    BY <1>1, <1>2, <1>3, <1>4, <1>5 DEF IInv

LEMMA InitSound == Init => IInv
  <1>. SUFFICES ASSUME Init PROVE IInv
    OBVIOUS
  <1>1. versions \in Seq(Files) /\ versions # <<>> /\ versions[1] = file /\ Len(versions) = 1
    BY DEF Init
  <1>2. servers = <<>> /\ Len(servers) = 0
    BY EmptySeq DEF Init
  <1>3. QED
    BY <1>1, <1>2, NothingServed DEF Init, IInv

LEMMA StepSound == IInv /\ [Next]_vars => IInv'
  <1>. SUFFICES ASSUME IInv, [Next]_vars PROVE IInv'
    OBVIOUS
  <1>1. CASE UNCHANGED vars
    BY <1>1 DEF vars, IInv, Built, FileOk, Sound, IsSeq, TokensApart, TokensSet, PortsApart,
                Rights, HasRights
  <1>2. QED
    BY <1>1, SingleStep, BuildStep, CollectStep, BindStep, EditStep DEF Next

\* The channels that listen are among those that were made.
LEMMA Among ==
  ASSUME IInv
  PROVE  \A k \in 1..bound : k \in DOMAIN servers
  BY SeqFacts DEF IInv, Sound

-----------------------------------------------------------------------------
(* Types *)

GatewayOf(entry) == [id |-> entry.id, policy |-> entry.policy]
SingleGateway == [id |-> "agent", policy |-> setting.policy]
NamedIn(g, contents) ==
  g.id # "" /\ \E n \in DOMAIN contents : \E k \in DOMAIN contents[n] :
                  g = GatewayOf(contents[n][k])

\* The gateways named in some contents of agents.yaml, as Gateways writes them.
LEMMA NamedGateways ==
  ASSUME NEW contents, NEW g
  PROVE  NamedIn(g, contents) <=>
           g \in {h \in UNION {{[id |-> v[k].id, policy |-> v[k].policy] : k \in DOMAIN v} :
                                v \in {contents[n] : n \in DOMAIN contents}} : h.id # ""}
  <1>. DEFINE E(v) == {[id |-> v[k].id, policy |-> v[k].policy] : k \in DOMAIN v}
  <1>1. \A v : g \in E(v) <=> \E k \in DOMAIN v : g = GatewayOf(v[k])
    BY DEF GatewayOf
  <1>. HIDE DEF E
  <1>2. g \in UNION {E(v) : v \in {contents[n] : n \in DOMAIN contents}}
          <=> \E n \in DOMAIN contents : g \in E(contents[n])
    OBVIOUS
  <1>3. NamedIn(g, contents)
          <=> g \in {h \in UNION {E(v) : v \in {contents[n] : n \in DOMAIN contents}} : h.id # ""}
    BY <1>1, <1>2 DEF NamedIn
  <1>4. QED
    BY <1>3 DEF E

\* A gateway is built for an entry of some content of agents.yaml, or is the one of
\* single-agent mode.
LEMMA GatewaysAre ==
  \A g : g \in Gateways <=> g = SingleGateway \/ NamedIn(g, versions)
  BY NamedGateways DEF Gateways, SingleGateway

\* The same of the state after a step.
LEMMA GatewaysWillBe ==
  \A g : g \in Gateways' <=> g = SingleGateway' \/ NamedIn(g, versions')
  BY NamedGateways DEF Gateways, SingleGateway

\* What a channel serves is a gateway that was built, under a token and on a port.
ServerTyped(server, known) ==
  /\ [id |-> server.id, policy |-> server.policy] \in known
  /\ server.tools \in {AgentTools, OperatorTools}
  /\ server.token \in Tokens /\ server.port \in Nat
Typed ==
  /\ pc \in {"gateways", "tokens", "binding", "serving", "refused", "exited"}
  /\ gateways \in Seq(Gateways)
  /\ \A k \in DOMAIN servers : ServerTyped(servers[k], Gateways)

\* The contents agents.yaml had are kept, so no gateway ceases to be one.
LEMMA GatewaysGrow ==
  ASSUME IInv, [Next]_vars
  PROVE  Gateways \subseteq Gateways'
  <1>1. setting' = setting
    BY DEF Next, vars, RunSingleAgent, BuildGateways, CollectTokens, Bind, Edit, Refuse
  <1>2. \A n \in DOMAIN versions : n \in DOMAIN versions' /\ versions'[n] = versions[n]
    <2>1. CASE versions' = versions
      BY <2>1
    <2>2. ASSUME NEW f \in Files, Edit(f)
          PROVE  \A n \in DOMAIN versions : n \in DOMAIN versions' /\ versions'[n] = versions[n]
      <3>1. versions \in Seq(Files) /\ versions' = Append(versions, f)
        BY <2>2 DEF Edit, IInv
      <3>2. QED
        BY <3>1
    <2>3. QED
      BY <2>1, <2>2 DEF Next, vars, RunSingleAgent, BuildGateways, CollectTokens, Bind, Refuse
  <1>3. ASSUME NEW g \in Gateways
        PROVE  g \in Gateways'
    <2>1. g = SingleGateway \/ NamedIn(g, versions)
      BY GatewaysAre
    <2>2. NamedIn(g, versions) => NamedIn(g, versions')
      BY <1>2 DEF NamedIn
    <2>3. QED
      BY <1>1, <2>1, <2>2, GatewaysWillBe DEF SingleGateway
  <1>4. QED
    BY <1>3

\* What was typed stays so while gateways and servers are left alone.
LEMMA TypedKept ==
  ASSUME IInv, Typed, [Next]_vars, UNCHANGED <<gateways, servers>>,
         pc' \in {"gateways", "tokens", "binding", "serving", "refused", "exited"}
  PROVE  Typed'
  <1>1. Gateways \subseteq Gateways'
    BY GatewaysGrow
  <1>2. gateways \in Seq(Gateways')
    BY <1>1 DEF Typed
  <1>3. QED
    BY <1>1, <1>2 DEF Typed, ServerTyped

\* The one gateway and the two channels of single-agent mode.
LEMMA SingleTyped ==
  ASSUME IInv, RunSingleAgent, ~Refuse
  PROVE  Typed'
  <1>. DEFINE gateway == [id |-> "agent", policy |-> setting.policy]
              a == AgentServer(gateway, setting.agent, setting.agentPort)
              o == OperatorServer(gateway)
  <1>1. /\ gateways' = <<gateway>> /\ servers' = <<a, o>> /\ pc' = "binding"
        /\ UNCHANGED <<setting, versions>>
    BY DEF RunSingleAgent
  <1>2. IsSetting(setting)
    BY SettingsAssumption DEF IInv
  <1>3. gateway \in Gateways'
    BY <1>1 DEF Gateways
  <1>4. ServerTyped(a, Gateways') /\ ServerTyped(o, Gateways')
    BY <1>1, <1>2, <1>3
       DEF ServerTyped, AgentServer, OperatorServer, IsSetting, AgentTools, OperatorTools
  <1>. HIDE DEF a, o, gateway
  <1>5. gateways' \in Seq(Gateways')
    BY <1>1, <1>3
  <1>6. DOMAIN servers' = 1..2 /\ servers'[1] = a /\ servers'[2] = o
    BY <1>1
  <1>7. \A k \in DOMAIN servers' : ServerTyped(servers'[k], Gateways')
    <2>1. \A k \in 1..2 : k = 1 \/ k = 2
      OBVIOUS
    <2>2. QED
      BY <1>4, <1>6, <2>1
  <1>8. QED
    BY <1>1, <1>5, <1>7 DEF Typed, ServerTyped

\* The gateways of the first reading.
LEMMA BuildTyped ==
  ASSUME IInv, BuildGateways, ~Refuse
  PROVE  Typed'
  <1>1. /\ FileOk(file) /\ pc' = "tokens" /\ pc = "gateways"
        /\ gateways' = [k \in DOMAIN file |-> GatewayOf(file[k])]
        /\ UNCHANGED <<setting, file, servers, versions>>
    BY DEF BuildGateways, GatewayOf
  <1>2. file \in Files /\ versions[1] = file /\ 1 \in DOMAIN versions /\ servers = <<>>
    BY <1>1, LenProperties, EmptySeq DEF IInv
  <1>3. Len(file) \in Nat /\ DOMAIN file = 1..Len(file)
    BY <1>2, FilesAssumption, SeqFacts DEF IsFile, IsSeq
  <1>4. \A k \in DOMAIN file : GatewayOf(file[k]) \in Gateways
    <2>. SUFFICES ASSUME NEW k \in DOMAIN file PROVE GatewayOf(file[k]) \in Gateways
      OBVIOUS
    <2>1. GatewayOf(file[k]).id # ""
      BY <1>1 DEF FileOk, EntryOk, GatewayOf
    <2>2. QED
      BY <1>2, <2>1, GatewaysAre DEF NamedIn
  <1>5. Gateways' = Gateways
    BY <1>1 DEF Gateways
  <1>6. gateways' \in Seq(Gateways)
    BY <1>1, <1>3, <1>4
  <1>7. DOMAIN servers' = {}
    BY <1>1, <1>2
  <1>8. QED
    BY <1>1, <1>5, <1>6, <1>7 DEF Typed

\* The channels of the second reading.
LEMMA CollectTyped ==
  ASSUME IInv, Typed, CollectTokens, ~Refuse
  PROVE  Typed'
  <1>. DEFINE n == Len(gateways)
              f == [k \in DOMAIN gateways |->
                      AgentServer(gateways[k], TokenOf(k), setting.agentPort + k - 1)]
              o == OperatorServer(gateways[1])
  <1>1. /\ FileOk(file) /\ Known /\ pc = "tokens" /\ pc' = "binding" /\ servers' = Append(f, o)
        /\ UNCHANGED <<setting, file, gateways, versions>>
    BY DEF CollectTokens
  <1>2. n \in Nat /\ DOMAIN gateways = 1..n /\ \A k \in 1..n : gateways[k] \in Gateways
    BY LenProperties, ElementOfSeq DEF Typed
  <1>3. n >= 1
    <2>1. versions # <<>> /\ versions \in Seq(Files) /\ Built
      BY <1>1 DEF IInv
    <2>2. versions[1] \in Files
      BY <2>1, EmptySeq, LenProperties, ElementOfSeq
    <2>3. versions[1] # <<>> /\ IsSeq(versions[1])
      BY <2>1, <2>2, FilesAssumption DEF Built, FileOk, IsFile, IsSeq
    <2>4. 1 \in DOMAIN versions[1]
      BY <2>3, SeqFacts
    <2>5. 1 \in DOMAIN gateways
      BY <2>1, <2>4 DEF Built
    <2>6. QED
      BY <1>2, <2>5
  <1>4. IsSetting(setting) /\ file \in Files /\ Gateways' = Gateways
    BY <1>1, SettingsAssumption DEF IInv, Gateways
  <1>5. \A k \in 1..n : TokenOf(k) \in Tokens
    <2>. SUFFICES ASSUME NEW k \in 1..n PROVE TokenOf(k) \in Tokens
      OBVIOUS
    <2>1. \E l \in DOMAIN file : file[l].id = gateways[k].id
      BY <1>1, <1>2 DEF Known
    <2>2. IsFile(file)
      BY <1>4, FilesAssumption
    <2>3. QED
      BY <2>1, <2>2 DEF TokenOf, IsFile
  <1>6. \A g \in Gateways : [id |-> g.id, policy |-> g.policy] = g
    <2>1. \A g \in Gateways : \E i, p : g = [id |-> i, policy |-> p]
      BY GatewaysAre DEF NamedIn, GatewayOf, SingleGateway
    <2>2. \A i, p : LET g == [id |-> i, policy |-> p] IN [id |-> g.id, policy |-> g.policy] = g
      OBVIOUS
    <2>3. QED
      BY <2>1, <2>2
  <1>7. \A k \in 1..n : ServerTyped(f[k], Gateways)
    <2>. SUFFICES ASSUME NEW k \in 1..n PROVE ServerTyped(f[k], Gateways)
      OBVIOUS
    <2>1. setting.agentPort + k - 1 \in Nat
      BY <1>2, <1>4 DEF IsSetting
    <2>2. f[k] = AgentServer(gateways[k], TokenOf(k), setting.agentPort + k - 1)
      BY <1>2
    <2>. HIDE DEF f
    <2>3. QED
      BY <1>2, <1>5, <1>6, <2>1, <2>2 DEF ServerTyped, AgentServer
  <1>8. ServerTyped(o, Gateways)
    <2>1. gateways[1] \in Gateways
      BY <1>2, <1>3
    <2>2. QED
      BY <1>4, <1>6, <2>1 DEF ServerTyped, OperatorServer, IsSetting
  <1>9. f = [k \in 1..n |-> f[k]]
    BY <1>2
  <1>. HIDE DEF n, f, o
  <1>10. \A k \in DOMAIN servers' : ServerTyped(servers'[k], Gateways)
    <2>1. /\ DOMAIN servers' = 1..(n + 1) /\ servers'[n + 1] = o
          /\ \A k \in 1..n : servers'[k] = f[k]
      BY <1>1, <1>2, <1>9, AppendFacts
    <2>2. \A k \in 1..(n + 1) : k \in 1..n \/ k = n + 1
      BY <1>2
    <2>3. QED
      BY <1>7, <1>8, <2>1, <2>2
  <1>11. QED
    BY <1>1, <1>4, <1>10 DEF Typed, ServerTyped

\* Every step leaves every variable with its type.
LEMMA StepTyped ==
  ASSUME IInv, Typed, [Next]_vars
  PROVE  Typed'
  <1>1. CASE UNCHANGED vars
    BY <1>1, TypedKept DEF vars, Typed
  <1>2. CASE (RunSingleAgent \/ BuildGateways \/ CollectTokens) /\ Refuse
    BY <1>2, TypedKept DEF Refuse
  <1>3. CASE Bind
    BY <1>3, TypedKept DEF Bind
  <1>4. ASSUME NEW f \in Files, Edit(f)
        PROVE  Typed'
    BY <1>4, TypedKept DEF Edit
  <1>5. QED
    BY <1>1, <1>2, <1>3, <1>4, SingleTyped, BuildTyped, CollectTyped DEF Next

-----------------------------------------------------------------------------

\* Whatever token a client presents, at most one channel admits it: an agent's token
\* never opens the operator's channel (server.py, _run_multiagent and
\* _run_single_agent; agents.py, load_agents; auth.py, _authorized).
THEOREM OneTokenOneChannel == Spec => []TokenOpensOne
  <1>1. IInv => TokenOpensOne
    BY Among DEF IInv, Sound, TokensApart, TokenOpensOne, Admits
  <1>2. QED
    BY <1>1, InitSound, StepSound, PTL DEF Spec

\* No channel admits a client that presents no token.
THEOREM NobodyUnnamed == Spec => []NeverOpenToAll
  <1>1. Unset = [Unset EXCEPT !.padded = FALSE]
    <2>1. Unset \in [text : {""}, padded : BOOLEAN] /\ Unset.padded = FALSE
      BY DEF Unset
    <2>2. QED
      BY <2>1
  <1>2. IInv => NeverOpenToAll
    BY <1>1, Among DEF IInv, Sound, TokensSet, NeverOpenToAll, Admits, Listening
  <1>3. QED
    BY <1>2, InitSound, StepSound, PTL DEF Spec

\* An agent channel has the policy and the token that agents.yaml gave to its id,
\* though possibly not in the same version of the file.
THEOREM RightsAreOwn == Spec => []OwnRights
  <1>1. IInv => OwnRights
    BY Among DEF IInv, Sound, Rights, HasRights, OwnRights, Listening
  <1>2. QED
    BY <1>1, InitSound, StepSound, PTL DEF Spec

\* No two channels of a multi-agent server are given one port, for any number of
\* agents.
THEOREM PortsDiffer == Spec => []PortsApart
  <1>1. IInv => PortsApart
    BY DEF IInv, Sound
  <1>2. QED
    BY <1>1, InitSound, StepSound, PTL DEF Spec

\* Every reachable state is well typed: in particular only gateways that were built
\* from a content agents.yaml had are served, under tokens that are set.
THEOREM StartTyped == Spec => []TypeOK
  <1>1. Init => Typed
    <2>. SUFFICES ASSUME Init PROVE Typed
      OBVIOUS
    <2>1. gateways = <<>> /\ servers = <<>> /\ pc = "gateways"
      BY DEF Init
    <2>2. DOMAIN servers = {} /\ gateways \in Seq(Gateways)
      BY <2>1
    <2>3. QED
      BY <2>1, <2>2 DEF Typed
  <1>2. IInv /\ Typed => TypeOK
    <2>. SUFFICES ASSUME IInv, Typed PROVE TypeOK
      OBVIOUS
    <2>1. Len(servers) \in Nat
      BY SeqFacts DEF IInv, Sound
    <2>2. bound \in 0..Len(servers)
      BY <2>1 DEF IInv
    <2>3. QED
      BY <2>2 DEF IInv, Typed, ServerTyped, Sound, TokensSet, TypeOK
  <1>3. IInv /\ Typed /\ [Next]_vars => Typed'
    BY StepTyped
  <1>4. QED
    BY <1>1, <1>2, <1>3, InitSound, StepSound, PTL DEF Spec
=============================================================================
