-------------------------------- MODULE Startup --------------------------------
(***************************************************************************)
(* How otgate-http comes up (otgate/server.py, otgate/agents.py) and whom  *)
(* its channels admit (otgate/auth.py).  In multi-agent mode agents.yaml   *)
(* is read twice, once for the policies of the gateways and once for the   *)
(* tokens of the channels; the administrator may edit it in between.       *)
(***************************************************************************)
EXTENDS Integers, Sequences, Functions

CONSTANTS
  Secrets,   \* the texts tokens are made of, without surrounding blanks
  Loadable,  \* the policies that load_policy accepts
  Files,     \* the contents agents.yaml may have
  Settings,  \* the environments the process may be started in
  Busy,      \* ports other processes listen on
  MaxEdits   \* bound: how often agents.yaml is edited

\* A token is its text and whether blanks surround it; "" is no text at all.
Tokens == [text : Secrets \cup {""}, padded : BOOLEAN]
Unset == [text |-> "", padded |-> FALSE]

\* agents.yaml is a list of entries; any malformed one is represented by the id "".
IsFile(f) ==
  /\ f \in Seq(Range(f))
  /\ \A k \in DOMAIN f : DOMAIN f[k] = {"id", "token", "policy"} /\ f[k].token \in Tokens
IsSetting(s) ==
  /\ DOMAIN s = {"mode", "operator", "agent", "policy", "agentPort", "operatorPort"}
  /\ s.mode \in {"single", "multi"}
  /\ {s.operator, s.agent} \subseteq Tokens
  /\ {s.agentPort, s.operatorPort} \subseteq Nat

ASSUME FilesAssumption == \A f \in Files : IsFile(f)
ASSUME SettingsAssumption == \A s \in Settings : IsSetting(s)
ASSUME BoundAssumption == MaxEdits \in Nat /\ Busy \subseteq Nat /\ "" \notin Secrets

VARIABLES
  pc,        \* gateways, tokens, binding, serving, refused or exited
  setting,   \* the environment of this start
  file,      \* agents.yaml
  gateways,  \* the agents of the gateways built: [id, policy]
  servers,   \* the HTTP servers to run, in the order they are started
  bound,     \* how many of them listen
  versions   \* every content agents.yaml had, oldest first (observed)

vars == <<pc, setting, file, gateways, servers, bound, versions>>

-----------------------------------------------------------------------------
(* Reading agents.yaml *)

\* _parse_agent
EntryOk(entry) ==
  entry.id # "" /\ entry.token.text # "" /\ entry.policy \in Loadable

\* load_agents: not empty, every entry valid, no id and no token twice.
FileOk(f) ==
  /\ f # <<>>
  /\ \A k \in DOMAIN f : EntryOk(f[k])
  /\ \A k, l \in DOMAIN f : k # l => f[k].id # f[l].id /\ f[k].token # f[l].token

-----------------------------------------------------------------------------
(* Channels *)

AgentTools == {"read_tag", "write_tag", "browse"}
OperatorTools == {"get_audit_log", "list_pending", "approve", "deny"}

AgentServer(gateway, token, port) ==
  [tools |-> AgentTools, id |-> gateway.id, policy |-> gateway.policy,
   token |-> token, port |-> port]
OperatorServer(gateway) ==
  [tools |-> OperatorTools, id |-> gateway.id, policy |-> gateway.policy,
   token |-> setting.operator, port |-> setting.operatorPort]

\* Slip: blanks are taken off both tokens.
AdmitsStripped(server, presented) == presented.text = server.token.text

\* _authorized: blanks around the presented token are dropped, those around the
\* configured one are not.
Admits(server, presented) == [presented EXCEPT !.padded = FALSE] = server.token

-----------------------------------------------------------------------------
(* Starting *)

Refuse == pc' = "refused" /\ UNCHANGED <<setting, file, gateways, servers, bound, versions>>

\* Slip: only equal tokens are refused.
SingleSoundUnset == setting.agent # setting.operator /\ setting.policy \in Loadable

SingleSound ==
  /\ setting.operator # Unset /\ setting.agent # Unset
  /\ setting.agent # setting.operator
  /\ setting.policy \in Loadable

\* _run_single_agent up to the servers.
RunSingleAgent ==
  LET gateway == [id |-> "agent", policy |-> setting.policy]
  IN  /\ pc = "gateways" /\ setting.mode = "single"
      /\ \/ ~SingleSound /\ Refuse
         \/ /\ SingleSound
            /\ gateways' = <<gateway>>
            /\ servers' = <<AgentServer(gateway, setting.agent, setting.agentPort),
                            OperatorServer(gateway)>>
            /\ pc' = "binding"
            /\ UNCHANGED <<setting, file, bound, versions>>

\* _build_agent_gateways_from_env: the first reading gives ids and policies.
BuildGateways ==
  /\ pc = "gateways" /\ setting.mode = "multi"
  /\ \/ (setting.operator = Unset \/ ~FileOk(file)) /\ Refuse
     \/ /\ setting.operator # Unset /\ FileOk(file)
        /\ gateways' = [k \in DOMAIN file |-> [id |-> file[k].id, policy |-> file[k].policy]]
        /\ pc' = "tokens"
        /\ UNCHANGED <<setting, file, servers, bound, versions>>

\* Slip: the tokens are taken by position.
TokenByPosition(k) == file[k].token

\* The token of the k-th gateway: agent_tokens[agent_id], from the second reading.
TokenOf(k) == file[CHOOSE l \in DOMAIN file : file[l].id = gateways[k].id].token

Known == \A k \in DOMAIN gateways : \E l \in DOMAIN file : file[l].id = gateways[k].id

\* Slip: the operator's token is compared with those of the first reading.
OperatorDistinctAtFirst ==
  \A v \in {versions[1]} : \A l \in DOMAIN v : v[l].token # setting.operator

OperatorDistinct == \A l \in DOMAIN file : file[l].token # setting.operator

\* Slip: the range ends one port early.
PortsFreeShort ==
  setting.operatorPort \notin setting.agentPort..(setting.agentPort + Len(gateways) - 2)

PortsFree ==
  setting.operatorPort \notin setting.agentPort..(setting.agentPort + Len(gateways) - 1)

\* _run_multiagent from the second reading to the servers.  The operator channel
\* gets the gateway of the first agent.
CollectTokens ==
  LET sound == FileOk(file) /\ OperatorDistinct /\ PortsFree /\ Known
  IN  /\ pc = "tokens"
      /\ \/ ~sound /\ Refuse
         \/ /\ sound
            /\ servers' = Append(
                 [k \in DOMAIN gateways |->
                    AgentServer(gateways[k], TokenOf(k), setting.agentPort + k - 1)],
                 OperatorServer(gateways[1]))
            /\ pc' = "binding"
            /\ UNCHANGED <<setting, file, gateways, bound, versions>>

\* uvicorn binds the next server; a port that is taken ends the whole process.
Taken(port) == port \in Busy \/ \E k \in 1..bound : servers[k].port = port
Bind ==
  LET free == ~Taken(servers[bound + 1].port)
  IN  /\ pc = "binding"
      /\ \/ /\ free
            /\ bound' = bound + 1
            /\ pc' = IF bound + 1 = Len(servers) THEN "serving" ELSE "binding"
         \/ ~free /\ bound' = 0 /\ pc' = "exited"
      /\ UNCHANGED <<setting, file, gateways, servers, versions>>

\* The administrator saves another agents.yaml between the two readings; an edit
\* before the first is another initial content, one after the second is not seen.
Edit(f) ==
  /\ Len(versions) <= MaxEdits
  /\ pc = "tokens" /\ f # file
  /\ file' = f
  /\ versions' = Append(versions, f)
  /\ UNCHANGED <<pc, setting, gateways, servers, bound>>

Init ==
  /\ pc = "gateways"
  /\ setting \in Settings
  /\ file \in Files
  /\ gateways = <<>>
  /\ servers = <<>>
  /\ bound = 0
  /\ versions = <<file>>

Next ==
  \/ RunSingleAgent \/ BuildGateways \/ CollectTokens \/ Bind
  \/ \E f \in Files : Edit(f)

Spec == Init /\ [][Next]_vars

-----------------------------------------------------------------------------
(* Properties *)

Gateways == {g \in UNION {{[id |-> v[k].id, policy |-> v[k].policy] : k \in DOMAIN v} :
                            v \in {versions[n] : n \in DOMAIN versions}} : g.id # ""}
            \cup {[id |-> "agent", policy |-> setting.policy]}

\* Every variable has its type; what is served are gateways that were built, with
\* tokens that have a text or, in single-agent mode, at least a blank.
TypeOK ==
  /\ pc \in {"gateways", "tokens", "binding", "serving", "refused", "exited"}
  /\ setting \in Settings /\ file \in Files /\ versions \in Seq(Files)
  /\ gateways \in Seq(Gateways)
  /\ bound \in 0..Len(servers)
  /\ \A k \in DOMAIN servers :
       /\ [id |-> servers[k].id, policy |-> servers[k].policy] \in Gateways
       /\ servers[k].tools \in {AgentTools, OperatorTools}
       /\ servers[k].token \in Tokens \ {Unset} /\ servers[k].port \in Nat

Listening == {servers[k] : k \in 1..bound}

\* "an agent must never be able to approve its own writes": whatever token a client
\* presents, at most one channel admits it, though agents.yaml changes while the
\* process starts.
TokenOpensOne ==
  \A presented \in Tokens : \A k, l \in 1..bound :
    Admits(servers[k], presented) /\ Admits(servers[l], presented) => k = l

\* No channel, however its token is padded, admits a client that presents none.
NeverOpenToAll == \A server \in Listening : ~Admits(server, Unset)

\* "each agent ... is bound to its own policy file": the token and the policy of an
\* agent channel both are ones that some content of agents.yaml gave to its id; if
\* the file was not edited, both come from one entry.
OwnRights ==
  setting.mode = "multi" =>
    \A server \in {s \in Listening : s.tools = AgentTools} :
      \E m, n \in DOMAIN versions :
        /\ \E k \in DOMAIN versions[m] :
             versions[m][k].id = server.id /\ versions[m][k].policy = server.policy
        /\ \E k \in DOMAIN versions[n] :
             versions[n][k].id = server.id /\ versions[n][k].token = server.token

\* In multi-agent mode no two channels are given one port: only another process can
\* make the start fail after a channel was opened.
PortsApart ==
  setting.mode = "multi" =>
    \A k, l \in DOMAIN servers : servers[k].port = servers[l].port => k = l
=============================================================================
