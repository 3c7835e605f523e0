# A TLA+ model of otgate

otgate is an authorization gateway between LLM agents and an industrial OPC UA
server. Every read and write an agent asks for passes a policy engine (access
level, value range, interlocks, rate, drift, call budget), may be parked for a
human to approve, is executed on a backend, and is audited.

This directory models the program's own logic in TLA+, model-checks it with TLC
on small instances and proves many of its properties with TLAPS for all
instances. Paths below are relative to the repository (`src/` here).

## 1. Inventory

| Component | Code | State | Operations | Interacts with |
| --- | --- | --- | --- | --- |
| policy engine | `otgate/engine.py`, `otgate/models.py` | none of its own; a rate history | `evaluate`, `record_write` | awaits the backend for each interlock; reads the rate history and the clock |
| policy loading | `otgate/policy.py` | none | `load_policy`, `parse_policy` | produces the rules the engine evaluates |
| gateway | `otgate/gateway.py` | none of its own | `read`, `write`, `approve`, `deny`, `pending_approvals`, `health`, `browse`, `audit_tail` | calls all the others; one per agent |
| approval store | `otgate/approval.py` | the parked requests and their status | `create`, `get`, `pending`, `all`, `mark`, lazy expiry | shared by all gateways |
| rate history | `otgate/rate_history.py` | records per tag, a JSONL file if durable | `get`, `put`, `window`, replay at start-up | shared by all gateways only if it is durable |
| audit log | `otgate/audit.py` | an append-only file, the buffer of its handle, a memory mirror | `record`, `tail`, `close` | shared by all gateways; a file may be shared by processes |
| backends | `otgate/backends/` | `FakeBackend`: the tags; `AsyncuaBackend`: the client connection | `read`, `write`, `health`, reconnect | awaited by engine and gateway |
| server wiring | `otgate/server.py` | the set of gateways and HTTP channels | start-up, tool registration | decides what gateways share and which one serves the operator |
| agents configuration | `otgate/agents.py` | none | `load_agents` | start-up only; read twice, for policies and for tokens |
| channel authentication | `otgate/auth.py` | a token | one comparison per request | in front of each HTTP channel |

What is hard about it:

- **Interleaving.** All calls are asyncio tasks of one process. A task gives up
  control only where it awaits the backend: once per interlock, and once for the
  read or write itself. What it read before (a request's status, the history)
  may be stale when it goes on. `FakeBackend` never suspends, so the tests, which
  use it, see none of this.
- **Failure.** The connection fails before or after a write took effect;
  `AsyncuaBackend` reconnects and issues the operation a second time; the process
  dies between a write and its record; a line of a file is torn, or stays in a
  buffer after its writer was told that it failed.
- **Time.** Requests expire lazily, at their lifetime; windows are inclusive at
  their older end; the wall clock may be set back.
- **Sharing.** In multi-agent mode several engines with different policies work on
  one backend, approval store and audit log, and on one or several histories. All
  tasks of a process share one OPC UA client, which each of them may close.
- **Configuration.** `agents.yaml` is read twice during a start and may change in
  between; tokens with blanks mean one thing to the loader, another to a request.

What makes each component correct is the list of properties in section 4; the
hazards they answer, each at its line, are in `PROJECT.json`.

## 2. Modules

| Module | Models |
| --- | --- |
| `PolicyEngine` | the checks of `engine.py` as pure operators, and as sets the rules `policy.py` accepts |
| `Gateway` | the state machine: gateways, engine, approval store, rate history, audit log and backend together |
| `GatewayProperties` | types, invariants, action properties, liveness, and the refinement mapping to `ApprovalLifecycle` |
| `ApprovalLifecycle` | the abstract specification of a parked write: settled once, refused means never run, approved means run once |
| `JsonlRateHistory` | the durable rate history: memory, file, pruning, replay, torn lines, clock steps |
| `DurableLimits` | the composition of `PolicyEngine`'s limits with `JsonlRateHistory`: admit, execute, record, and the faults between them |
| `AuditLog` | several `AuditLog` objects on one file: buffer, flush, mirror, `tail`, failed and torn writes, crashes |
| `BackendContract` | the abstract specification of a backend operation: what its outcome tells the caller |
| `AsyncuaBackend` | the client several tasks share: connect, request, close, reconnect, second issue; implements `BackendContract` |
| `Startup` | `otgate-http` from the environment to its open channels, in both modes, and whom they admit |
| `MCGateway`, `MCDurableLimits`, `MCAuditLog`, `MCAsyncuaBackend`, `MCStartup` | the instances TLC checks; each `.cfg` is one run |
| `Selections` | what a list comprehension with a condition keeps of a list, for the two modules that keep files |
| `GatewayProofs` | type correctness of `Gateway`; only authorised writes land; interlocks are seen before a write |
| `GatewayRequestProofs` | what becomes of a request, what the audit says of it, and the call budget |
| `GatewayLifecycleProofs` | shadow mode touches nothing; without yields the gateway implements `ApprovalLifecycle`, and what that promises |
| `AsyncuaBackendProofs` | outcomes are truthful; the real backend implements the contract; tasks do each other no harm |
| `SelectionProofs` | what `Selections` computes, for every list |
| `DurableLimitsProofs` | the durable history, and the limits over it through faults and restarts |
| `AuditLogProofs` | the audit file shared by processes: order, loss, and every tail |
| `StartupProofs` | who is admitted where, and with which policy |

`Gateway` EXTENDS `PolicyEngine`; `GatewayProperties` EXTENDS `Gateway` and
INSTANCEs `ApprovalLifecycle`; `DurableLimits` EXTENDS `JsonlRateHistory` and
INSTANCEs `PolicyEngine`; `AsyncuaBackend` INSTANCEs `BackendContract`;
`JsonlRateHistory` EXTENDS `Selections`. Definitions
marked *Slip* are plausible mistakes in the definition below them. The
specification does not use them; each is the variant for which one property must
fail, which shows that the property bites.

### How they fit together

`Gateway` is the whole program with three components in their simplest form. What
it assumes of each is the subject of a module of its own:

- a backend operation returns only if it took effect, is issued at most twice, and
  may raise at any moment: `BackendContract`, implemented by `AsyncuaBackend`;
- a durable history survives a restart: `JsonlRateHistory`, and `DurableLimits` for
  what the limits are worth when it does so imperfectly;
- an audit line is in the file once its `record` returned: `AuditLog`.

### Gateway

| Variable | Code |
| --- | --- |
| `clock` | `time.time()` of `engine.py:67` and `approval.py:98`, in whole units |
| `tags`, `up` | the values on the backend, and whether it can be reached |
| `history[s][tag]` | `RateHistory._records` of history `s`: `StoreOf(g)` is the gateway's own history or the shared one (`server.py:78`, `engine.py:73`) |
| `requests` | `ApprovalStore._requests`; an id is an index; `GONE` marks requests a restart forgot |
| `call[c]` | one task: where it waits (`interlock`, `read`, `write`) and its locals |
| `audit` | the lines of the audit file: action, agent, tag, value, decision, executed; `NoLine` where `record` raised |
| `landed`, `clear` | observations, never read by an action: the writes that reached the backend, the interlocks seen to be off |

An action is the code between two awaits. `gateway.write` is `WriteTag` (up to
the first await), one `InterlockReply` per interlock, `Land` (the backend carries
the write out), then `WriteReturns`, `Retry` or `WriteRaises`. The last
`InterlockReply` includes everything up to the next await: rate, drift and budget
checks, parking, auditing, marking. `approve` is the same with the request's
status checked first, in `Approve`; `deny` has no await and is one action.
`Inspect` is every operation whose only effect is the lazy expiry
(`list_pending`, `/health`, `approve` or `deny` of a settled or unknown request).
`Tick`, `PlantMoves`, `BackendFlips` and `Restart` are the environment.

Every handler ends in `Close`: the audit line, then what the handler does to the
request. With `LogFaults` writing that line may raise; the call then ends with the
exception, `mark` is never reached, and an approved request that ran is still open.
A `put` of a durable history that raises before the line has the same effect on
the request; what it does to the history is in `DurableLimits`.

`Yields` selects the backend: with `AsyncuaBackend` calls interleave at each
await and one reconnect is possible; with `FakeBackend` (`Yields = FALSE`) a call
runs to its end before anything else of the process moves (`Turn`). `Shadow`,
`SharedHistory`, `DurableHistory` and `Operator` (the gateway behind the operator
channel, `server.py:364`) are the deployment.

Abstractions: numbers are integers (the rate check is multiplied out, so it
divides nothing); reasons, ids, timestamps of audit lines and texts are left out.
A backend that can be reached knows exactly the tags in `Present`.

### JsonlRateHistory and DurableLimits

A bucket per tag (`memory`), the lines of the `file`, whether the last line `ended`
in a newline, and three observations: the records whose put returned (`written`), how
often an append was cut short (`tears`), and whether nothing has gone wrong so far
(`intact`). `Put` is memory, prune, file, as in `rate_history.py:114-118`;
`PutRaises` is an append that fails after memory changed; `DieInPut` is a crash in
the append. `DurableLimits` puts the engine in front: `Admit` is `evaluate` on what
memory holds now, then the backend executes the write and it is put (`Record`),
refuses it (`Refused`), or the process dies in between (`DieBeforePut`). `rule` is
the one rule in force, `landed` what was executed.

### AuditLog

| Variable | Code |
| --- | --- |
| `file` | the JSONL file: each line is two halves and a newline, so that half a line can be on disk |
| `open[i]`, `pending[i]` | `_fh` of instance `i` and the unwritten part of its buffer |
| `mirror[i]` | `_buffer`, the entries `i` itself recorded |
| `issued`, `returned`, `tears`, `faults` | observations and bounds |

`Splits` are the entries whose text (a node id, a value) holds a line separator other than
the newline: U+0085, U+2028 or U+2029, which `json.dumps(ensure_ascii=False)` writes as
they are. The code has two notions of a line. `LineCount` is `_line_count`, which iterates
the file and knows only newlines. `Readable` is `_read_file_tail`, whose `str.splitlines`
breaks such an entry into pieces that are no JSON. `OnDisk` lists the entries that have a
line of their own between newlines, whoever can read them; the properties about loss and
order speak of it.

`Record`, `RecordRaises`, `OpenRaises`, `Close`, `CloseRaises` are `record` and `close`
with the flush succeeding or not. A flush that fails has written any prefix; the rest
stays in the buffer and goes out first with the next flush. `Die` drops handle, buffer
and mirror. `TailOf` is `tail`; it changes nothing and is a state function.

### AsyncuaBackend and BackendContract

| Variable | Code |
| --- | --- |
| `up`, `live` | the server accepts connections; the connections that work |
| `client` | the connection `_client` holds, or 0 for `None` |
| `task[t]` | one operation: `opening` (awaits `_open`), `op` (its request is at the server), `closing` / `leaving` (awaits the disconnect, before the second issue or before raising), or its outcome |

`_with_reconnect` is `Call`, `OpReturns`, `OpMissing`, `OpFails`, `Disconnected`,
`Connected` and `ConnectFails` (`_try_reconnect`); the actions are again the code
between two awaits, and `Disconnected` clears `client` whatever it is by then.
`BackendContract` knows of an operation only its outcome, its issue and its effects.
In `Gateway`, `Issue` is its `Begin`, `Land` and `Retry` have the same names,
`WriteReturns` is `Return`, `WriteRaises` is `Miss` or `Raise`.

### Startup

`pc` runs from `gateways` (the first reading of `agents.yaml`) over `tokens` (the
second) to `binding` and `serving`, or to `refused` or `exited`. `RunSingleAgent`,
`BuildGateways`, `CollectTokens` and `Bind` are `_run_single_agent`,
`_build_agent_gateways_from_env`, `_run_multiagent` and `_serve`; `Edit` is the
administrator between the two readings. A token is its text and whether blanks
surround it, since `load_agents` compares tokens as they stand and `_authorized`
strips the presented one. `Admits` is `_authorized`.

## 3. Assumptions

- Policies are what `parse_policy` accepts (`PolicyAssumption`): at most one limit
  of each kind, positive intervals, drift ranges that contain zero. `DurableLimits`
  further assumes intervals up to the retention time (`RulesAssumption`), as
  `rate_history.py:93-95` asks of the user; no code checks it.
- External code. A request on a lost connection raises and is not carried out later
  by the server. A port that cannot be bound ends the process (`uvicorn`). A failed
  write of a file leaves a prefix of it on disk.
- A missing tag is the `KeyError` of `asyncua_backend.py:113`, as the code, its
  documentation and its tests have it. The library itself reports an unknown node as a UA
  status error, which takes the other branch: such an operation is in `Rejected`, not in
  `Missing`, and the proofs cover both.
- Cuts. A cut falls between characters, never inside the bytes of one, so that a torn line
  is text and is skipped (section 4 says what happens otherwise). It does not fall right
  before or after a line separator in the text either: a whole entry with no newline of its
  own yet, or a torn one, would then be divided from its neighbour by that separator
  instead. Text between two separators is not a JSON value by itself.
- Tag names are free of U+0085, U+2028 and U+2029 (`JsonlRateHistory`).
- Fairness of `Gateway` (`FairSpec`): every backend operation ends, so each task in
  flight goes on; the clock advances; somebody looks at the approval store again and
  again (the README tells operators to poll `/health`, which counts the pending
  requests). Expiry is lazy: without the third the code would not expire anything. No
  fairness is assumed of calls, answers, outages, audit faults or recoveries. That
  every backend operation ends is not taken on trust: it is `OpsEnd`.
- Fairness of `AsyncuaBackend` (`FairSpec`): while awaits of the library are under way,
  one of them ends, by an answer or by its timeout. Which one is left open, so it is
  one weak fairness for all operations together. Reconnects are bounded
  (`asyncua_backend.py:132-146`).
- Bounds, which are constants: `MaxTime`, `MaxAudit` (audit lines; with it requests
  and calls, see `Room`), `MaxRestarts` and the number of `Calls` in flight;
  `MaxTime` and `MaxPuts` for the history; `MaxRecords` and `MaxFaults` for the audit
  file; `MaxStops` and `MaxBreaks` for the server and the network; `MaxEdits` for
  `agents.yaml`.

## 4. Runs

Passing runs (distinct states in parentheses). A dagger marks what is also proved for
all instances (section 5).

- **approvals** (101 000). One approval tag with one interlock that trips and clears,
  two calls in flight, outages, reconnects, failing audit writes, one restart.
  `AuditTruthful`†: an executed line has a landing. `ApprovedAudited`†: there is a line
  for every approved request. `LandedWasAuthorised`†: nothing lands that was neither
  allowed outright nor parked as such. `ApprovedRan`†: APPROVED means it ran.
  `NeverUnverified`†: each interlock was seen off within the call. `OneLinePerCall`†:
  each call that ends leaves one audit line, or the mark of a missing one.
  `StaleNeverStarts`†: an approval starts only on a request that is open and younger
  than its lifetime. `SettledStays`†: a settled request with no approval in flight
  stays settled and never runs. `TypeOK`†. Under `FairSpec`, `CallsComplete`: every
  call ends through any pattern of outages; `SilenceExpires`: a request nobody answers
  does not stay open.
- **budgets** (367 000). Two agents with one budget on a shared tag, two calls in
  flight, a durable history, failing audit writes, one restart. `BudgetHeld`†: no window
  holds `max_calls + |Calls|` records or more. `LandedWithinBudget`†: the same of what
  landed, whichever agent sent it. `AuditComplete`†: what landed is what the audit says,
  the replies on their way, and at most one write for each missing line.
- **fake** (37 000). `FakeBackend`: `RunsOnce`†, `DeniedNeverRuns`†, and `ApprovalsRefine`†
  (the gateway implements `ApprovalLifecycle`), with outages and a restart.
- **shadow** (258 000). Shadow mode, one tag written outright and one with approval and
  two interlocks, reads, failing audit writes: `ShadowTouchesNothing`†, and the
  lifecycle again.
- **limits** (907 000). One tag under no limit, a rate limit, a drift limit or a budget,
  with torn and failing appends, crashes before and in the put, restarts, and a clock
  that is set back. `HistoryExact`†: until something goes wrong, the last write and every
  window within the retention time are exact. `MemoryBounded`†; `LossBounded`†: a torn
  line costs at most one record whose put returned. While the clock is not set back:
  `CeilingDurable`† (`max_calls` is exceeded by at most the writes that were executed but
  not put, plus the torn lines), and, if no put failed, `RateDurable`† and `DriftDurable`†
  (the rate and the drift limit hold between executed writes across restarts).
- **auditlog** (175 000). Two processes on one file, five records, the second and third
  with a line separator in their text, three faults. `TailNeverBehind`†: no tail leaves out
  an entry that can be read on disk, or shows the entries in another order than the file.
  `TailExact`†: as long as no line is torn, every instance shows the end of what can be
  read, for every limit; only an instance whose mirror is exactly what is on disk may show
  the end of that instead. `InOrder`†: no entry is on disk twice, and those of returned
  records are in the order of their calls. `LossBounded`†: a torn line costs at most one
  returned record. `TypeOK`†.
- **asyncua** (406 000). Three operations on one client, one on a missing tag; the server
  stops once, a connection breaks once. `ContractKept`†: the backend implements
  `BackendContract`. `OpsEnd`: every operation ends. `QuietWithoutFaults`†: without
  faults the tasks do not disturb each other. `TypeOK`†: no request is on `None`.
- **startup** (122 000). Every start over files of up to two entries with valid and
  invalid ids, tokens and policies, both modes, equal, padded and missing tokens,
  colliding ports, and an edit between the two readings. `TokenOpensOne`†: a token opens
  at most one channel. `NeverOpenToAll`†: no channel admits a client without a token.
  `OwnRights`†: the policy and the token of a channel were both given to its id.
  `PortsApart`†: no two channels of a multi-agent server have one port.

Why the bounds are enough: the races on a request need two calls on one request;
an overshoot of a budget of one needs two calls in flight; a window's edge needs
an interval and one unit more; every order of expiry, answer and reply occurs
within a lifetime of one or two units. A second instance is any other process on the
audit file; a buffer that is completed late needs a fault, a close and a record, and a
line that swallows another needs one record more. The hazard of the client needs two
tasks; the third is one that shares a connection without failing. Two entries and one
edit can swap everything two readings can mix up.

Runs that must find a counterexample: what a comment, a test or a document says
and the code does not do.

- **deny_race** violates `DeniedNeverRuns`. `deny` promises that the write "will
  never execute" (`gateway.py:235`). `approve` checks the status, then awaits the
  interlocks and the write. A `deny` in between returns DENIED; the write runs
  and `mark` overwrites the status with APPROVED. By the same gap two overlapping
  approves of one request both execute, where `tests/test_approval.py:126-132` wants the
  second rejected.
- **operator_policy** violates `NeverUnverified`. The operator channel uses the first
  agent's gateway, "any gateway works" (`server.py:362`), so the re-check evaluates
  that agent's policy, not the requesting agent's, and may skip its interlock.
  With the shipped `examples/agents.yaml` the first agent is the read-only
  diagnostics one, and every approval is refused.
- **shared_client** violates `ServedWhenReachable`. "If the backend still cannot be
  reached the operation raises" (`asyncua_backend.py:13-16`). One broken connection and
  two tasks are enough: the first task's `_close` awaits, the second has reconnected
  meanwhile, the first then clears or closes the new connection
  (`asyncua_backend.py:95`), and an operation that has used up its one retry raises
  although the server was up all the time.
- **split_tails** violates `TailsAgree`. "The in-memory fast path and a fresh file read must
  agree" (`tests/test_audit.py:97`), and `tail` reads the file "so nothing is missed"
  (`audit.py:109`). An entry with a line separator in its node id is one line for the check
  that the mirror is up to date (`audit.py:167`) and two malformed ones for the read
  (`audit.py:170`): the instance that recorded it shows it, every other one does not, and
  neither does that instance after a restart. No write was cut off. The two readings need
  one notion of a line: `split("\n")` in the read, or ASCII in the dump.

Met while modelling, without a run of their own:

- "All agents share ... one rate-history" (`README.md:263`, `server.py:67-70`) holds only
  with `OTGATE_RATE_HISTORY`. Without it each engine makes its own (`engine.py:73`), and
  each agent spends the whole budget of a shared tag; the mutant `StoreOfOwn` of
  `LandedWithinBudget` is that deployment.
- A line torn inside a multi-byte character is not skipped, as `rate_history.py:150` wants
  ("A corrupt line must not crash startup; skip it"): `read_text` raises
  `UnicodeDecodeError` outside the `try` (`rate_history.py:139`), and so does `tail`.
- `_load` reads with `splitlines` too: the records of a tag whose name holds one of the line
  separators of `split_tails` do not survive a restart.
- A boolean write is never recorded (`engine.py:88`), so `max_calls` of a boolean tag
  never binds.
- `max_calls` is exceeded by writes in flight together; `BudgetHeld` bounds by how many.
- The documents measure drift from "where it was cumulative_interval seconds ago"
  (`models.py:89-91`, `docs/threat-model.md:39`); the code measures from the oldest write
  inside the window (`engine.py:251-255`), which `DriftDurable` states.
- After the clock is set back, replay sorts the records by time, in another order than
  memory had them. A record appended to a torn line is lost with it.
- A file error after a write landed (`gateway.py:309`, `gateway.py:315`) leaves the write
  without its line and an approved request open, so it can be approved, and run, again.
- Two tasks that find no client both connect, and the first connection is never closed
  (`asyncua_backend.py:90`).
- The retention of the durable history is a constant of the deployment, not tied to the
  intervals of the policies (`server.py:78`).

## 5. Proofs

Proved with TLAPS for every set of agents, tags, calls, operations and inputs, every
policy the loader accepts, every content of `agents.yaml`, every number of processes on a
file, and whatever the bounds are. Every safety property and both refinements that the
passing runs check are theorems. What the runs add is that the situations the properties
speak of occur, that each property bites, and liveness.

**Gateway.**

- `TypeCorrect`: `Spec => []TypeOK`. `TypeOK` is inductive as it stands because it
  says, beyond types, that every write in flight is well formed: its tag has a rule,
  its request exists, the interlock it waits for is one the rule lists. One lemma
  per outcome of an evaluation (`RefuseType`, `ParkType`, `IssueType`, ...) and per
  action, then `TypeStep`.
- `OnlyAuthorisedLands`: `Spec => []LandedWasAuthorised`, and `InterlocksSeen`:
  `Spec => []NeverUnverified` if all agents have one policy. Neither is inductive: a
  write at the backend is lawful because of what happened awaits earlier. The
  inductive `Strong` (`StrongCorrect`) adds `Held`: each write in flight is evaluated
  under its own agent's policy or carries out a request exactly as parked, its access
  level lets it go on, and each interlock it has behind it was seen to be off. That
  requests are settled and added but never rewritten (`Keeps`) carries it across the
  steps of other calls. The premise of `InterlocksSeen` is needed: `operator_policy`
  is the counterexample without it.
- What becomes of a request, and what is told of it, rests on one lemma, `StepShape`:
  whatever the interleaving, a step starts a call, carries one on, lets a write land,
  forgets all of them, or leaves calls and audit alone. From it follow `StepFate` (a step
  settles at most the request that its call is about, and approves it only when the
  backend has answered, with a line that tells of it), `StepTask` (a write in progress
  keeps what it is about) and then:
  `NothingStaleStarts` (`StaleNeverStarts`), `SettledForGood` (`SettledStays`, over
  `Strong`, since a call in flight that is about a settled request must be known to be
  about exactly that write), `EveryCallTold` (`OneLinePerCall`), `ApprovedDidRun`
  (`ApprovedRan`, by `Ran`: what is approved and what waits with an answer both have a
  landing), `AuditNeverLies` (`AuditTruthful`, by `Tally`: executed lines and answers not
  yet told are together no more than landings; the first alone is not inductive, as the
  landing is some steps before its line) and `ApprovalsAreTold` (`ApprovedAudited`, by
  `Covered`, said for every agent, tag and value rather than for those of a request).
- `AuditMissesNothing` (`AuditComplete`, by `Reached`) is the other half of
  `AuditNeverLies`: while the backend answers and the process lives, a landing is told
  of, has its answer on its way, or has the mark of a line that could not be written. The
  three are disjoint, so a step moves a landing from one to the next and none is lost.
- `CeilingNearlyHeld` (`BudgetHeld`): the budget is checked before the await and the
  record is made after it, so records alone are not inductive. `AllFit` counts a window's
  records together with the writes in flight that will be recorded in it: together they
  stay below `max_calls + |Calls|`. `CeilingOnLandings` (`LandedWithinBudget`) says it of
  what reached the backend. Its hypotheses are `SharedHistory`, since agents
  with histories of their own each spend the whole budget, and `NumbersWritten`: no boolean is
  written to a tag with a budget, since booleans are never counted. Its invariant
  `AllCounted` relates each window's landings to its records and the writes in flight,
  answered or not, and `Past` says that no landing is later than now.
- `ShadowQuiet`: `Spec => []ShadowTouchesNothing`, by the invariant that in shadow mode
  no task waits for a backend write (`Quiet`).
- Without yields (`~Yields`, the `FakeBackend`): `DenialIsFinal` (`DeniedNeverRuns`), and,
  unless audit lines fail outside shadow mode (`LogFaults => Shadow`), `ApprovedRunsOnce`
  (`RunsOnce`) and `ApprovalsImplemented`: the gateway implements `ApprovalLifecycle`. Run
  and approved are two steps of the code; what makes this invisible is that nothing else
  is done in between. The invariant is `Turns` (at most one call is in progress, and its
  request is open) with `Once` (a request has run at most once, and one that is open has
  run only if that call has its answer on the way). Both premises are needed: `deny_race`
  is the counterexample without the first, and a line that cannot be written leaves a
  request open that has run.
- `RefusalsKept`: in `ApprovalLifecycle` a denied or expired request never ran, by the
  invariant `Sound`. Through `ApprovalsImplemented` it holds of `Gateway` without yields.

**Backend.** `KeepsContract`: `AsyncuaBackend`'s `Spec => ContractKept`, the initial state
maps to an initial state and every step to a step of `BackendContract` or to a stutter.
It needs the invariant `IInv` = `TypeOK` and `Sound`: an operation on a missing tag has no
effect, each issue takes effect at most once, and a reply belongs to one that did.
`TypeCorrect` is its first half. `ContractTruthful` (of `BackendContract`, by
`Accounted`) and `Truthful` (the same of the real backend, through the refinement): a
returned write took effect, a missing tag was not written, nothing is carried out more
than twice. Errors the server answers with (`Rejected`) are included, which the run has
none of. `NoHarmAmongTasks` (`QuietWithoutFaults`, by `Calm`): while nothing fails, a task
that waits at the server waits on a connection that works, whichever connection that is,
so no operation is issued twice or raises.

**Durable history and limits.** `DurableLimitsProofs`, for any tags, values and retention
time and any pattern of torn appends, crashes, restarts and clock steps.

- `HistoryTyped` and `MemoryIsBounded`, by `Sane`: every bucket is typed and no older than
  the retention time, measured from its last record. A put and a replay both end in the
  same pruning.
- `LossIsBounded`, by `Slack`: as many records are readable as were put, less one per torn
  line. That is not inductive: a line whose bytes are all there but its newline is read
  now and is spoiled by the next append. So a tear is paid for when it happens, and while
  the last line has no newline one record is in reserve. It is stated for the records of
  any kind, not only for all, because the limits need it for those of a window.
- `HistoryIsExact`, by `Exact`: while nothing has failed, the file is what was put, in the
  order of time, and memory is the replay of the file. That a put leaves memory such a
  replay is `PrunedAgain`: pruning a pruned bucket is pruning all that was ever put,
  because the clock has only moved on. `WindowKept` gives the windows.
- `LimitsUseTheHistory`: every behaviour of `LimitSpec` is one of `Spec`, so all of this
  holds under the limits.
- `CeilingOverRestarts` (`CeilingDurable`). `Booked`: of any kind of records, at most as
  many executed writes are missing from what was put as are missing at all. With `Slack`
  it gives `Covered`: from any moment within the retention time on, memory holds as many
  records of a tag as writes were executed, up to the writes that were not put and the torn
  lines. So a write that is admitted found room among the executed ones, not only among
  the remembered ones (`Budgeted`, kept while it is at the backend), and after it lands
  every window, wherever it begins, keeps the bound (`Ceiling`).
- `RateOverRestarts` and `DriftOverRestarts` (`RateDurable`, `DriftDurable`). While nothing
  is missed, memory is the replay of all that was executed, its last record is the true
  last one, and the oldest record of a window in memory is the oldest of that window ever
  executed (`BaselineIs`; it needs intervals within the retention time). `Vetted` says of
  the write at the backend that it may follow now: the time that passes until it lands
  only widens what it is allowed (`FollowsLater`).

**Audit log.** `AuditLogProofs`, for any number of processes and entries and any pattern of
failed and torn writes and of crashes. Every operation is one `Push`: some chunks of an
instance go to the end of the file, the rest stays in its buffer or is lost. `IInv` says
that no chunk is ever in two places (`WrittenOnce`), that what is held back and what hangs
at the end of the file without a newline belongs to no entry that returned (`Unreturned`),
that returned entries lie in the file in the order of their calls (`Ordered`), each with
its newline (`Landed`), that at most one of them per torn line has no line of its own, one fewer
while a torn line is still open to swallow the next (`Covered`), and that a mirror is in
order (`Mirrored`). From it: `LogTyped`, `EntriesInOrder` (`InOrder`), `LossIsBounded`
(`LossBounded`), `TailMissesNothing` (`TailNeverBehind`) and `TailIsExact` (`TailExact`):
`tail` answers from the mirror only if the file has no more lines than that has entries;
each entry of the mirror is at the end of a line of its own, torn or not (`HangsOn`), so by
the pigeonhole principle there is no line that the mirror does not know. Order and loss
are proved of any selection of the whole lines (`EntriesFacts`), and so of what is on disk
as of what can be read. `TailsAgreeUnlessSplit`: if no text holds a line separator, all
tails are the same, so that the separator is the only cause of `split_tails`.

**Startup.** `OneTokenOneChannel`, `NobodyUnnamed`, `RightsAreOwn`, `PortsDiffer`. The
properties speak of the channels that listen; the invariant `IInv` says the same of all
that are going to (`Sound`), and that while the second reading is due the gateways are
those of the first (`Built`). `StartTyped` is
its types, over the same invariant.

**Operators.** What a list keeps under a filter is said once, for all lists: `SelectedIs`,
`SelectedTwice` (a selection of a selection), `SelectedAppend`. The modules of files write a
filter as `Selected(list, positions)`, because `SelectSeq` of the standard library has no
definition that a prover sees. Induction is by the least number principle over a set
(`LeastNat`, `InductionNat`), since the provers cannot use an induction theorem that takes
an operator. `PlaceTaken` and `SortedIs` say that sorting by time loses nothing and leaves
a sorted bucket alone.

The proofs use the named assumptions on the constants, which TLC evaluates on every
run. Only model-checked: liveness (`CallsComplete`, `SilenceExpires`, `OpsEnd`), which is
out of the prover's reach.

## 6. Not modelled, and the plan

Done: the engine, the gateway with everything it drives and failing audit writes, the
durable history and the limits over it, the audit file, the shared client and its
contract, the start of the HTTP server, and the proofs above. Next: `Conditions`, the
interlock readings that are neither numbers nor booleans, and NaN (`engine.py:306`).

Left out for good: the YAML syntax and messages of the loaders, HTTP and MCP
transport, the stdio server (one gateway, no channels), the body of `/health`, a token
that is not ASCII (`auth.py:80`: every request fails), texts of reasons, rotation of
files, the demonstrations under `examples/` and `assets/`. Cancellation of a call in
flight by its client depends on the MCP library and is not modelled.
