# A TLA+ verification project for Y\*gov

Y\*gov (`ystar/`) is a runtime governance layer for agents: every tool call passes a
hook that checks it against a contract, feeds the events to an engine that watches
for what was *not* done, restricts the actors that owe something, and writes an audit
trail. This project models its stateful core in TLA+, checks it with TLC on small
instances and proves its central invariants with TLAPS for every value of the
parameters. Names of definitions follow the Python code; `PROJECT.json` maps each one
to its source lines.

## 1. Inventory of the system

| Component (source) | State it keeps | Operations | What makes it correct |
|---|---|---|---|
| Omission engine (`governance/omission_engine.py`, `omission_models.py`, `omission_rules.py`, `obligation_triggers.py`) | nothing of its own; all in the store | `ingest_event`, `scan`, `restore_obligation`, `cancel_obligation`, `close_obligation` and their bulk forms, entity registration | an obligation climbs PENDING → SOFT_OVERDUE → HARD_OVERDUE → ESCALATED only when its policy says so, reports each stage once, and stays settled when settled |
| Omission store (`governance/omission_store.py`) | tables of entities, obligations, events and violations: SQLite file shared by processes, or a dictionary | one transaction per call; whole-record updates | the only protection between concurrent engine operations |
| Scanner and scheduler (`governance/omission_scanner.py`, `omission_scheduler.py`) | a daemon thread; a time stamp | call `scan` every interval, or at most once per interval on a tool call | scans go on for ever, also after one failed |
| Intervention engine (`governance/intervention_engine.py`) | pulses, restrictions, circuit breaker, in memory | `process_violations`, `gate_check`, `resolve_for_actor`, `scan_restorations`, `reset_circuit_breaker`, `auto_reset_circuit_breakers` | an actor is denied while, and only while, it owes something hard-overdue; the breaker stops pulses in a storm |
| Hook and orchestrator (`adapters/hook.py`, `adapters/orchestrator.py`) | call counters, lazily built singletons | forward a scan's violations to the intervention engine; run the slow cycles | each violation reaches the engine; a failure never blocks the hook |
| Runtime contracts (`adapters/runtime_contracts.py`, `hook.py`) | the policy's rule per agent, the deny and relax files | merge the files into the policy on every call; merge the links of a delegation path; write the files | what a call is checked against permits nothing that the session's contract forbids |
| Governance loop (`governance/governance_loop.py`) | observations | `tighten`: restorations, suggestions, synthetic violations | what a crash lost is made up for |
| CIEU store (`governance/cieu_store.py`) | append-only event table, `sealed_sessions` | `write`, `write_dict`, `seal_session`, `verify_session_seal` | a seal commits to the session's events and links to the previous seal |
| Residual loop (`governance/residual_loop_engine.py`) | per session: iteration count, last five residuals | `on_cieu_event`, called by the hook daemon's client threads without a lock | terminates by convergence, oscillation or escalation, and within a bounded number of events; no residual is left over from another loop |
| Autonomy engine (`governance/autonomy_engine.py`) | intents and an action queue | declare/update/complete intent, pull action, claim orphans | what is pending is handed out, what is settled drops out |
| Hook daemon (`_hook_daemon.py`) | policy, autonomy engine, threads | handle a request, reload the policy, idle pull | the policy follows AGENTS.md; threads do not corrupt the queue |
| Amendments, contract lifecycle (`governance/amendment.py`, `contract_lifecycle.py`) | proposals, drafts, active hash / contract | propose, review, activate, roll back | only what was approved becomes active |
| Delegation chain and nonce ledger (`kernel/dimensions.py`) | chain of grants, used nonces | validate, append, re-delegate, verify and consume | permissions only shrink; a nonce is used once |
| Grants and break-glass (`governance/grant_chain.py`, `rules/break_glass.py`) | a file of grants with expiry, an override window | issue, check, consume, sweep; open, expire | no expired grant is used, none twice but for a retry |
| CIEU brain, K9 routing (`governance/brain_auto_ingest.py`, `cieu_brain_streamer.py`, `k9_routing_subscriber.py`) | positions in the event table: a state file, the brain's activation log | poll, route or project a batch, save the position, restart | no event skipped, none repeated beyond what a restart explains |
| Memory store, sessions, stop hook (`memory/store.py`, `session.py`, `adapters/hooks/stop_hook.py`) | memories, session files | remember, decay, close a session | a session's end settles its obligations and seals its events |
| Path A / Path B agents (`path_a/meta_agent.py`, `path_b/path_b_agent.py`) | cycle state, budgets, constraints and obligations per external agent | observe, constrain, verify, escalate, disconnect | a constraint is always watched, an agent that never complies is cut off |
| Contract check and merge (`kernel/engine.py`, `kernel/merge.py`, `kernel/dimensions.py`) | none | `check`, `merge_contracts`, `is_subset_of` | merging never loosens |
| Boundary enforcer (`adapters/boundary_enforcer.py`) | session files written by others | one check per tool call | pattern matching on strings; a spawn needs a grant |

Interaction: the hook ingests an event per tool call (through the omission adapter),
the OpenClaw adapter resolves interventions of the obligations the event fulfilled;
the wrapped `scan` of the hook, the orchestrator and the governance loop all call
`process_violations`; `gate_check` runs before the contract check and reads the pulses;
everything writes CIEU events; the end of a session (or the report command) seals them. The
contract that a call is checked against is the policy's rule with the runtime files merged into it
(the daemon's light path), or the merge of the contracts along a delegation path (the full path). The
daemon's watcher replaces the policy under the calls in flight. The residual loop and the idle monitor
pull from one action queue. Two separate processes read the CIEU table behind its writers. The
orchestrator runs Path B's cycles, and Path B asks the amendment engine about a constitution that changed.

What is hard: several processes and threads share one SQLite file with a transaction
per call; whole records are written back that were read earlier; interventions are in
memory and obligations on disk; the same violation reaches the intervention engine by
several paths; thresholds compare a clock with `>` here and `>=` there; seals are linked
by a read that is not in the transaction of the write; runtime files are emptied before they are filled;
an event's place in the order is taken before its row is committed; a policy is read, merged and
put back by threads that hold no lock. `PROJECT.json` lists the hazards
line by line with the properties aimed at each.

## 2. Modules

| Module | Role |
|---|---|
| `ObligationLifecycle` | abstract specification of one obligation: the ladder, the ways out, the violations raised. No clock, store or workers |
| `OmissionEngine` | the engine over its store, one action per store call, any number of workers |
| `Intervention` | the intervention engine with its callers, acting on the obligations of `ObligationLifecycle` (EXTENDS) |
| `CIEUSeal` | event log, seals and sealers |
| `ResidualLoop` | the residual loops of the sessions and the daemon threads that handle their events |
| `Contract` | contracts as data: what they permit, the tightness order of the code, its two merges. No state |
| `HookContracts` | the contract of one agent as the daemon's threads use it (EXTENDS `Contract`) |
| `HookDaemon` | policy reload, request threads, idle monitor and the action queue they share |
| `EventConsumers` | the CIEU table's writers and the two processes that follow it |
| `Amendment` | the amendment engine for one document |
| `PathB` | Path B over its observations, budgets and obligations, with the amendments (EXTENDS `Amendment`) |
| `GrantChain` | dispatch grants in a file that several processes rewrite |
| `MCOmissionEngine`, `MCIntervention`, `MCCIEUSeal`, `MCResidualLoop`, `MCHookContracts`, `MCHookDaemon`, `MCEventConsumers`, `MCPathB`, `MCGrantChain` | values of the constants for TLC |
| `OmissionEngineProofs`, `InterventionProofs`, `CIEUSealProofs`, `ResidualLoopProofs`, `HookContractsProofs`, `EventConsumersProofs`, `PathBProofs`, `GrantChainProofs` | theorems |

### OmissionEngine

Variables: `now` (the clock), `obs` (obligations table, a record per id, `ABSENT` before
its INSERT), `viol` (violations per obligation: soft and hard rows, escalated flag), `ent`
(entities) and `job`, the operation each worker is running. A job holds what the Python
frame holds: its `now`, the rows its SELECT returned (`copy`), those still to visit
(`todo`), the one in hand (`cur`). `Continue(w)` is one store call of the operation; other
workers' steps come in between. With `Workers = {w1}` every operation is alone.

| Code | Actions |
|---|---|
| `ingest_event` | `IngestEvent`, `TryFulfil`, `FulfilDone`, `DeduplicateSkip`, `NoActor`, `TriggerMatch`, `AddObligation`, `TriggerDone` |
| `create_obligation_from_trigger`, and the `tool_trigger` event it ingests (`_create_triggered_obligation`) | `ToolTrigger`, then `AddObligation`, which looks for no duplicate |
| `scan`, loop over pending rows | `ScanStart`, `SendReminder`, `SoftOverdue`, `SoftCheck`, `SoftReport`, `SoftEntity`, `PassOneDone` |
| `scan`, pass A | `HardOverdue`, `HardCheck`, `HardReport`, `HardEscalate` / `HardNoEscalation`, `HardMark`, `HardEntity`, `PassADone` |
| `scan`, pass B | `LateEscalate`, `LateMark`, `ScanDone` |
| `restore_obligation`, `close_obligation`, `cancel_obligation` (and the bulk forms, which call them) | a `...Request` (read and check) and a write |
| the store's own `cancel_obligation` | `StoreCancel`, one transaction and from any status |
| `register_entity`, `update_entity_status` | `RegisterEntity`, `UpdateEntityStatus` |

`Update` is `update_obligation`: the whole record, without severity in the SQLite store
(`PersistSeverity = FALSE`) and with it in the in-memory store, which is only used by one
thread. Abstractions: an event's `ts` is the time it is ingested; `HIGH` stands for HIGH
and CRITICAL and `LOW` for LOW (SOFT is not used by rules or triggers); an entity
status is ACTIVE, EXPIRED or OTHER, which is all `scan` looks at; an id of the pool
fixes the rule or trigger, the entity and the actor (`KindOf`, `EntityOf`, `ActorOf`); a rule holds responsible whom the event
names or one of the actors its policy names (`Selects`: an owner or initiator may be anybody, or missing, `NoActor`), and the
duplicate check asks for entity, type and actor; events carry an actor; rules and triggers have obligation types of their own; the list of an ingest is read in the same step as the entity is
touched, and get/upsert of an entity are one step; governance and CIEU rows are not modelled. Three
branches of `scan` can never run (they test for another status inside the loop over PENDING
rows, or follow a `return`) and the severity steps that need `soft_count >= 2` cannot either,
because a row is PENDING once; they are left out.

### Intervention

`iv` is the `InterventionEngine`: `active` pulses `<<obligation, level>>`, `restricted`
actors, the breaker's `window` and `armed`. Operations are functions on that record
(`Process`, `ScanRestorations`, `ResolveForActor`, `AutoResetActor`), used by the actions that
stand for their callers: `ScanForward` (the wrapper around the hook's scan),
`OrchestratorForward` (which forwards what the wrapper forwarded already, then scans for
restorations), `Tighten` (the governance loop), `AutoFeed` (the OpenClaw adapter),
`SettleElsewhere` (every settlement nobody tells the engine of), `AutoReset`, `ResetBreaker`
and `Restart`, which loses `iv` and a running scan and keeps the store. A scan is `ScanBegin`,
steps of `ObligationLifecycle` in any order, and a forward. The
wrapper's `process_violations` uses one clock reading, so the breaker counts one stamp per
violation; the model keeps the newest `Threshold` stamps. Reroutes of synthetic violations are
left out of `Tighten`, which only lists SOFT and HARD_OVERDUE obligations, and those are not
escalated.

### CIEUSeal

A root is the set of event ids it hashes (a hash without collisions); `clock` is
`sealed_at`. `SealRead` is the SELECT of the ids, `SealLink` the SELECT of the latest root,
`SealCommit` the only transaction (INSERT OR REPLACE and UPDATE): Python's `sqlite3` opens a
transaction at the first write. `SealCrash` rolls back. `results` is what `seal_session` returned,
in order of commit.

### ResidualLoop

`registry` is `_loop_state` (session to dictionary), `loops` the dictionaries by identity, `job`
what each client thread of the daemon is doing, with the dictionary its local variable `state`
holds. A thread may be switched at every call and not inside a statement without one, so an
event is `Enter` (look the session up, append the residual), `Create` (store a new dictionary,
also over one that another thread stored meanwhile), `Count`, `Converge`, `CheckOscillation`,
`CheckLimit`, `Report` and `Cleanup`. The last four look the session up again, and find another
loop or none: `Report` then raises a KeyError, which the daemon logs. `_oscillation_detected` looks up
and reads the history in one step (a verdict on a loop replaced in between only leads to the same
`Report`). Dictionaries that nobody
refers to are collected (`Collect`), so that their identities can be used again. Residuals are natural numbers on a scale on which
`Epsilon` is one too. The action pulled from the autonomy engine, the
suggestion and the CIEU rows leave the state alone and are not modelled.
`MCResidualLoop` adds the history variable `unreported`: the events of a session that ended without a report since its last one.

### Contract and HookContracts

A contract is a record of the dimensions of `IntentContract` that `check` evaluates, with the alike ones put
together (the module's header lists them); a bound is a set of at most one number, and a call is the parts of a
contract it touches. Paths and domains are values with the relations the code computes from their text
(`Within`, `StartsWith`, `Subdomain`, `Kind`). `Permits`, `MergeContracts` and `MergeStrict` are `check`,
`merge_contracts` and `_merge_contracts_strict`.

| Code | Actions |
|---|---|
| `_apply_runtime_contracts`, then `policy.check` | `StartLight`, `LoadDeny`, `LoadRelax`, `ReadRule`, `ApplyLayers` |
| `_compute_effective_contract` | `StartFull`, `MergeLink`, `EndFull` |
| `write_runtime_deny`, `write_runtime_relax` | `TruncateDeny` / `WriteDeny`, `TruncateRelax` / `WriteRelax` (`open` with "w" empties the file first) |
| the watcher's reload | `Reload` |

A writer's crash is the truncation without the write. A thread that loads neither layer leaves the rule alone,
and one that is overtaken by a reload ends on the policy object that was replaced, so `Reload` makes it idle.

### HookDaemon

`watcher` is `__init__`'s load followed by the watcher thread with its `mtimes["agents_md"]`; a load reads the file and
publishes in two steps, so a save can fall between any two of them. `missed` remembers that the file was saved between
the first load and the watcher's first look (see section 4). `queue`, `lists` and `puller` are
`action_queues[agent_id]`, the list objects that somebody still refers to, and the threads inside `pull_next_action` and
`recompute_action_queue`: `BeginPull`, `Build` (the SELECT), `Replace` (the new list takes the old one's place),
`Fetch` and `Pop`. Modification times only grow; obligations arise and close at any time (`Arise`, `Close`). One agent.

### EventConsumers

`Stamp` takes an event's `seq_global`, which is the time, and `Commit` inserts the row: the gap between them
is the wait for SQLite's write lock, so the rows' order is not that of `seq_global`. `k9` is the subscriber
(`K9Start`, `K9Poll`, `K9Route`, `K9Truncate`, `K9Write`, `K9Crash`) with its state file; `streamer` is the brain streamer
(`StreamStart`, `StreamPoll`, `StreamEvent`, `StreamCrash`), which resumes at the time of the brain's last activation
(`activity`), whoever logged it (`IngestFile`). Handlers are counted, not modelled. A process stops and is started
at most `MaxStarts` times. Abstractions: every event activates some node (the brain is not empty); an event's
activations are one step; the streamer's own meta events are excluded by its query and do not occur.

### Amendment and PathB

`status` and `active` are the amendment engine's proposals and the document's active hash; `_transition`
is `Move`. `PathB` has the agent's dictionaries as functions whose domains grow and shrink (`budgets`, `constraints`,
`obligations`), its `history`, `frozen`, and the constitution's `file` and `accepted` hash.

| Code | Actions |
|---|---|
| `run_one_cycle` with the overdue check, derivation, application and verification | `Cycle`: one of `Quiet`, `Decline`, `Apply` |
| `observe`, `verify_compliance` | `Observe`, `Verify` |
| `disconnect_external_agent`, `escalate_disconnect` | `Disconnect`, `Escalate` |
| the file, the amendments, time | `EditFile`, `Amend`, `Tick` |

A cycle is one action because one thread runs it and nothing it calls yields. The confidence the code computes from the
history is "enough violations" (`Evidence`), or a first observation that is severe. With causal data the engine decides what
an escalation does, and its numbers are not modelled, so `Escalate` may take any of the steps.


### GrantChain

`file` and `tmp` are the grant file and the temporary file that every process writes it through; a list maps grants to
their expiry and the time they were marked consumed. `job` is what a process is in the middle of. `_write_grants` is four
steps, `Open`, `Dump`, `Replace` and its failure, because nothing keeps two processes from writing at once: an open file
follows the renaming of another process (`to`), so a list can land in the grant file without a rename of its own, over what
is there (`Over`). `issued`, `marked`, `burnt`
and `raced` are history for the properties.

| Code | Actions |
|---|---|
| `issue_grant`, `expire_stale_grants` | `IssueGrant`, `ExpireStaleGrants`, then the write |
| the spawn check (`boundary_enforcer.py:1251-1324`) | `CheckGrant`, then `ConsumeGrant` and the write, or `FindRecentlyConsumed` |
| the `consume` command | `ConsumeCommand`, `ConsumeGrant`, the write |
| a process that ends | `Crash` |

One grantor and one grantee; which of several valid grants a spawn takes (the code takes the first) is left open.
## 3. Runs

| Run | Bounds | Shows |
|---|---|---|
| `OmissionEngineSingle` | 1 worker, 2 ids of a deduplicated rule and one actor, SQLite, clock 0..3 | each stage reported once, no duplicate pending obligation, terminal states final but for the store's cancellation, refinement of `ObligationLifecycle`; overdue is detected, hardened, escalated |
| `OmissionEngineConcurrent` | 2 workers, 1 id of a trigger, clock 0..4 | types; the record's past stays sound; escalations are reported |
| `EscalationDocumented` | 1 worker, 1 id of a trigger that hardens before it escalates, clock 0..3 | that such an obligation need never escalate (a finding, section 4) |
| `Intervention` | 2 obligations of one actor, a reroute, threshold 3, window 1, clock 0..1 | restriction backed by a gate, pulses warranted, gates held while open, an armed breaker is silent |
| `InterventionLive` | 2 obligations | a hard-overdue obligation is gated |
| `CIEUSeal` | 3 events in 2 sessions, 1 sealer, 4 seals | seals form a chain, grow, and commit to flagged events |
| `ResidualLoop` | 1 session, 2 threads, residuals 0..2, epsilon 1, limit 4 | the count of a loop, and the events of a session between two reports, are bounded under races; a stream of events keeps ending in reports |
| `HookContracts` | 2 threads, 5 places of two kinds, 3 baselines, 2 deny and 1 relax layers, 5 delegation paths | the policy never permits what AGENTS.md denies, the effective contract nothing the root denies, and only a reload or a stale merge loosens |
| `HookDaemon` | 1 request thread and the monitor, 1 obligation, 2 edits, 1 call | no edit unnoticed; the policy follows the file; pending obligations are offered, closed ones drop out |
| `EventConsumers` | 2 writers, 3 events, 2 clock values, batches of 1 for the streamer, 2 starts each | nothing in order is skipped, repetitions are bounded by starts, violations are routed |
| `PathB` | 2 agents, one that Path B's contract denies, 1 proposal, 3 observations, budget 2, evidence 2, window 2, deadline 1 | constraints are watched, budget is earned by compliance, or given to a disconnected agent, the accepted constitution was approved, a non-compliant agent is frozen |
| `GrantChain` | 2 processes, 2 grants for one target, clock 1..3, TTL 1, window 1, symmetric | whatever is overwritten or torn, a spawn is warranted by its grant; until two processes write at once nothing the file says is lost by a step or a crash, and no grant is burnt twice |

Why the bounds are enough. The thresholds keep an order that the code can be given, not their lengths. The rule is Rule F with
an `obligation_timing` of 300: reminded, due, escalated 180 and hard overdue 300 after it, here 0, 1, 2 and 3, so that clock 0..3
reaches each threshold, at its instant and past it where the code's comparison is strict, and leaves ids to create a successor; two ids
of one actor are what a duplicate takes, and a second actor only adds obligations that are no duplicates
(`DeduplicationHolds` is proved for any actors). The trigger is `pre_commit_test`: hard overdue one deadline after it is due and
escalating two after it, here 2 and 3. Two workers with one id reach every pair of
half-done operations on the same row; a clock of 4 goes past every threshold of it. Threshold 3 of the
breaker is between the violations of one obligation (2) and of two (4), so a batch can arm it
alone, with the others, or not at all. Two sessions of
two events and one are what a re-seal and a link across sessions take. Residuals 0..2 with epsilon 1
have one that converges and two to oscillate between; oscillation takes four residuals and
escalation five events under limit 4, so each of the three ends occurs, also for one thread
while the other is in the middle of an event; loops of different sessions share nothing. The clock, the pool of
ids (`Room`) and `MaxSeals` are the only bounds; `ResidualLoop` has none, its counts are
bounded by the code, and `Loops` has a dictionary for each session and each thread, which
is all that can be referred to at once.

In `HookContracts` two threads are what a lost merge takes; the layers tighten and loosen every dimension against the
baselines, one of which has a whitelist of two kinds of scope, one no bound to relax, and the paths include one whose text
starts with that of another without lying under it, and trees that validation refuses. The files, threads and rules have no
other bound. `HookDaemon`'s two edits are one during a load and one after it; the monitor and one request make two
pullers, which is what an emptied list and a double recompute take; the brief has one target of today and one of
the week around the obligation. `MaxEdits` and `MaxCalls` are its bounds. In `EventConsumers` two writers commit out of order,
two clock values make equal and increasing positions, batches of one make every cut, and the second start follows each
crash; `MaxEvents`, `MaxTime` and `MaxStarts` are bounds. In `PathB` a budget of two constraints lets it run out, evidence of two
is reached within three observations, a window of two hides the third, and the self-denied agent takes
the branch in which the budget is spent for nothing; `MaxObservations` and the sizes of `Hashes` and `Proposals` are bounds.
In `GrantChain` each grant is issued once, which is all a fresh identifier allows; `MaxTime` is the bound, and three ticks are
enough to issue, expire or consume, and leave the window. Two processes are what a lost update and a stolen rename take.
Processes and grants are interchangeable (one target, and every property treats all alike), which justifies the symmetry.

Deadlock is checked in every run but `CIEUSeal`, which stops when its events and seals are used up and says
CHECK_DEADLOCK FALSE; in the others a scan, a call, a file write or a cycle is always possible.

Each property of a passing run has a mutant in `PROJECT.json`: an operator beside the mapped one,
marked "Mutant" in its comment, that changes the code the way a plausible bug would.

## 4. Where the code and its comments part

They were met while modelling, and the models do what the code does. The first has a run of its own.

Escalation:

* Run `EscalationDocumented`: `omission_models.py:168` says of `escalate_after_secs` "多少秒后上升升级" (after how many seconds it
  escalates). Pass A of `scan` escalates an obligation only in the scan that hardens it, and pass B lists SOFT_OVERDUE
  rows only (`omission_engine.py:308`). An obligation whose hard threshold comes before its escalation time
  (`session_token_recording`: 600 s and 1200 s, `pre_commit_test`: 60 s and 120 s) is hardened by a scan in between and
  never escalated (`EscalatesAsDocumented`); `EscalatesWhenDue` is what holds, of the policies that do not harden first.

Lost updates:

* Every operation of the omission engine reads a row, decides, and writes the whole row back in another transaction.
  A stale copy can so reopen a settled obligation, while `omission_engine.py:1399` speaks of "Already in a terminal state
  (FULFILLED, CANCELLED, FAILED, RESTORED)". The same window lies between the checks and inserts of violations and of
  deduplicated obligations: `TerminalIsFinal`, `OneViolationPerStage` and `NoDuplicatePending` are claims about one worker.
* Grants are read and written whole without a lock: two spawns that read the file before either writes it both get True
  from `consume_grant`, whose docstring (`grant_chain.py:259`) says "Single-use: second call returns False." `ConsumedOnce` and
  `NothingLost` are claims about processes that have not yet written at once (`raced`).

Omissions, interventions, seals, loops:

* The store has a `cancel_obligation` of its own (`omission_store.py:547-583`), which cancels from any status, a fulfilled or
  restored obligation too. Nothing in `src/ystar` calls it; it is the exception in `TerminalIsFinal`.
* Two threads that both find no loop of their session both create one (`residual_loop_engine.py:144-149`): the second dictionary
  replaces the first, and the residuals and the count of the first are lost (`ReportedInTime` bounds what that delays).
* Restrictions are per actor and cleared per obligation (`intervention_engine.py:590`), while :598 says "如果其 hard_overdue
  obligations 都已 fulfilled/resolved，则恢复权限。". `scan_restorations` also lifts the gate of an ESCALATED
  obligation; the breaker stays armed when its window is empty, and counts a violation once per forward.
* `seal_session` flags the rows of the session at the time of the UPDATE (`cieu_store.py:792`), not those it hashed
  (:740, "该 session 所有 event_id"): a row written in between is flagged as sealed and is not in the root. Re-sealing a
  session replaces the root that a later seal links to; two sealers fork the chain.
* With the default epsilon of 0.0 no residual is below it (`residual_loop_engine.py:160`), while :81 says "Residual
  threshold for convergence (default 0.0 — exact match)."

Contracts:

* A relax layer can never undo what a deny layer did on an earlier call, because the merged rule is put back into the policy
  and is the next merge's session layer (`hook.py:1855-1887`); `runtime_contracts.py:11-19` describes relaxation as
  relative to the session. `write_runtime_relax` refuses contracts that lack the session's denies, so the
  orchestrator's relaxations (`orchestrator.py:515-557`) are refused unless the session's contract denies next to nothing.
* A deny layer whose paths lie outside the whitelist counts as none; two threads lose each other's merge (the exception
  in `LoosensOnlyWhenStale`). `write_runtime_deny` has no caller in `src/ystar`.
* The strict merge of whitelists that have nothing in common is the empty list, which restricts nothing, and it compares
  text, so "/s/ab" survives a merge with "/s/a" (`hook.py:464`): the result is within the root of a validated tree and
  not always within the link.
* Merges drop a blocking status, and a whitelist of several kinds of scope is not preserved (both are exceptions in the
  properties). `is_subset_of` does not compare extras, timing, or a bound that only one side has.

Daemon:

* `_start_file_watcher` speaks of identity; changes of the session file and the active agent are logged and nothing is
  reloaded. A save between the first load and the watcher's first look is not seen until the next one (`missed`), nor
  a file whose modification time goes back.
* The daemon's AutonomyEngine reads `.ystar_omission.db`; the hook writes `<cieu_db>_omission.db`. Two threads can pop
  the last entry (an IndexError, logged), and two recomputes hand the same action out twice.

Grants:

* The spawn check ignores the result of `consume_grant` (`boundary_enforcer.py:1262`); `consume_grant` does not look at the
  expiry. The "Atomic write" (`grant_chain.py:112`) goes through one temporary file for all processes, so two of them can
  publish an empty or a torn file. Such a file reads as no grants (:106-108), and the next grant issued overwrites the rest.
* A sweep marks an expired grant as consumed at the present time (:313, "prevents future use"), which `find_recently_consumed`
  takes for a spawn that is being repeated: for 300 s a grant that nobody used lets spawns through after it expired.

Consumers:

* `k9_routing_subscriber.py:12` says "Fail-open on all exceptions (emit CIEU warning, continue)"; a payload that is JSON but
  no object ends the process, and does so again at every start, with the violations behind it unrouted.
* A row that is committed behind a consumer's position is skipped for ever; a torn state file reads as 0 and routes
  everything again; equal positions around a batch limit can be skipped. The PID-file check leaves room for two subscribers.
* The streamer resumes at the time of the brain's last activation, also one by `brain_auto_ingest`, so events of
  the time it was down are lost. `brain_auto_ingest` reads a column `payload` that `cieu_events` lacks
  (`cieu_store.py:133-178`).

Path B and amendments:

* The hook reports violations without a `dimension` (`hook.py:1956-1958`), so Path B fed by the hook never derives a
  constraint (`"opaque"` in the model).
* The cycle that disconnects an agent drops its budget and, if the latest violation is that agent's, creates a full
  one (`path_b_agent.py:878-880`); `PATH_B_AGENTS.md` says "ConstraintBudget is monotonically decreasing per cycle" and
  "Budget exhaustion requires human approval" (nothing reads `_human_review_required`). A disconnected agent is given a new full
  budget, and an applied constraint again, by its next observation or a cycle (:612, :679): no code asks who is frozen, while :877
  says "Clear budget (agent cannot constrain further)" and `tests/test_path_b.py:477` "Budget should be cleared (no further
  constraining)". Those are the two exceptions in `BudgetGrowsByCompliance`.
* An unreadable constitution passes the check described as fail-closed. After a rollback the restored original is
  approved by no proposal, so every cycle refuses it. `has_approved_amendment` says "(but not yet activated)" and accepts
  activated ones. The orchestrator builds Path B without an amendment engine, so there any change is refused.
* `verify_compliance` counts violations from before the constraint; a constraint that Path B's own contract denies has
  already been paid for; compliance obligations are never settled in the omission store.

## 5. Proofs

TLAPS proves, for every pool of obligations, policy, number of workers and bound (under the
assumptions `PolicyAssumption`, `InterventionAssumption`, `SealAssumption`, `LoopAssumption`, `PlaceAssumption`,
`HookAssumption`, `DaemonAssumption`, `ConsumersAssumption`, `PathBAssumption` and `GrantAssumption`, evaluated by TLC in the runs of
their modules. They give the constants their types, say that threads and obligations are finitely many, that obligations are not targets, and that the paths of
the file system are ordered by inclusion):

* `OmissionEngineProofs`: `TypeCorrect`; `StagesAreEvidenced`; `EscalationsAreReported`.
  `StageEvidence` is not inductive: a stage is judged by the stored record, which is written from a
  copy taken earlier, possibly by another worker's scan. The strengthening says the same of every copy
  in every job and ties the copy in hand to the step it is at (a copy at `hardCheck` is
  HARD_OVERDUE, one at `restore` may be restored at the job's time, ...). Since a copy is sound
  on its own, writing it back is harmless to the property however stale it is. For
  `EscalationReported` the strengthening adds that violations are never removed and that a copy with
  an escalation time is either marked or still in the hands of the worker that will mark it.
* `OmissionEngineProofs` for one worker (`OneWorker`, the way `OmissionEngineSingle` runs it: one process that scans and ingests
  in turn): `ScanIsIdempotent`, `DeduplicationHolds`, `TerminalStays` and the refinement `EngineImplementsLifecycle`.
  None of these is inductive, and with two workers all four fail: a copy of a row may be older than the row, and the
  check for an earlier violation or obligation older than the store it was made in. `SoloInv` says what one worker knows
  at each step (`InStep`): the rows it has yet to visit, and the one in hand, have the status they were read or written
  with, which is one of those the step handles (`Awaited`, `Handled`); before `"add"` no pending twin exists, before
  `"softReport"` no violation, before `"hardReport"` no hard one, and at an escalation mark there is one. Every step is one of three
  kinds (a quiet one, `SoloQuiet`; a write of a row, `SoloWrite`; a report, `SoloViolation`), and one lemma per kind gives
  `SoloInv'` and the step of the lifecycle (`LifecycleStep`) together: a write only makes the changes
  of status that `MayBecome` lists, each of which the lifecycle allows.
* `DeduplicationHolds` is per rule or trigger, entity and actor, whoever the actors are; `TerminalStays` and its
  concurrent form below except the store's `cancel_obligation`.
* `ViolationsPerWorker`, in the same module, says how far the race of several workers goes: with any finite number of them an
  obligation has at most as many violations of a stage as there are workers. The invariant (`RaceInv`) adds the workers that
  have looked and not yet reported (`Racing`) to the violations on record; a worker only joins while there is none
  on record, and every report takes one away.
* `DeparturesAreStale` and `TerminalLostOnlyToStale`, in the same module, say of any number of workers
  that stale copies are the only way out of the lifecycle: a step it does not allow writes back a copy whose status is no longer the
  row's, or reports on such a row, or reports what another worker has reported since the look-up; and a
  terminal row is only changed by the write of a copy read before it became terminal, or by the store's `cancel_obligation`. The invariant (`CopyInv`)
  says what every operation knows of its own copies however stale they are (`CopiesOK`): the status is one its pc
  handles, a copy is only held of a row that exists, an id about to be added has no row and one worker adding it, and
  an escalation mark follows a report. `WorkerOutcome` gives what one step does to the job and the row together, action
  by action; `OutcomeKeeps` carries it to the jobs of the others.
* `InterventionProofs`: `RestrictionsAreBacked`, `BreakerStopsPulses`, `PulsesAreWarranted`
  and `GatesAreHeld`. The invariant adds that the batch of a running scan only holds violations the
  obligation's status and record warrant, and that a restricted actor has a gate;
  the action properties follow from the definitions of the operations on `iv`.
* `CIEUSealProofs`: `TypeCorrect`, `SealsOnlyItsEvents` for any number of sealers, and
  `OneSealerOneChain`, `OneSealerNeverShrinks` under `OneSealer`. The invariant says that a job's root
  is made of logged events of one session and, with one sealer, that the link it read is the
  latest result and that no other seal has a later time.
* `ResidualLoopProofs`: `TypeCorrect`, `HistoriesAreCounted` and `CountsAreBounded` for any
  number of sessions and threads. `IterationsBounded` is not inductive: it counts the threads that are
  past the increment of a running loop. A running loop is beyond its limit by at most their number
  (`RunningBounded`: such a thread cannot leave the loop running, it ends it or finds it ended), and the threads still before the
  increment have room for theirs (`RoomLeft`). The history of the running dictionary is as long as the count says (`HistoryIsCounted`), which is said of that dictionary only: one
  that it replaced is forgotten. That rests on a running loop being held by threads of
  its own session only (`LoopsOwned`), which is why a clean-up of another session cannot save it.
* `HookContractsProofs`: `TypeCorrect`, `RuntimeNeverLooser`, `EffectiveStaysWithinRoot` and `RuntimeOnlyTightens`. The
  properties quantify over calls, which is no basis for induction, so the proof works on an order of contracts (`NoLooser`,
  `Compared`): `merge_contracts` and the strict merge never go down in it, it is transitive, and a contract that is higher
  permits no more. The invariants say that the rule, and every contract that a thread has read and will merge into, is no
  looser than the baseline (a stale one too, which is why lost merges are harmless to it), and that the effective contract of
  a thread is within its root and keeps every scope of the last link it merged, so that no later merge on a validated path can
  empty its whitelist. The lemmas about bounds, whitelists
  and merges are stated for all contracts.
* `HookContractsProofs` also holds the theorems of `HookDaemon`. `DaemonTypeCorrect`: whatever
  threads recompute, replace and pop, every list somebody refers to is one that a recompute may build, or a tail of it, and names
  no obligation twice. `WatcherMissesNothing` is about any number of edits at any point: the watcher never holds
  a text, or a time it looked at, newer than the file, and if the time it looked at is still the file's, then the text it
  read is the file's (`Watching`). That is why the time recorded has to be the one seen before the load.
* `EventConsumersProofs`: `NothingIsSkipped` and `RepeatsBounded`, for any number of writers, rows and restarts. A consumer's
  batch holds rows above its position; every row in order that is at or below the position, or the state file, was consumed
  or precedes the start; a row that is still in a batch was consumed less often than
  the consumer was started. For the streamer the position it would resume at is at least the time of everything it has projected.
* `PathBProofs`: `NoUnwatchedConstraint`, `OnlyApprovedIsAccepted` and `BudgetsGrowByCompliance`. The invariant is typing (budgets
  are naturals, observations are of known agents), "who was observed and has no budget is frozen" (which is what makes the exceptions of
  the last one the only ones), "an applied constraint has an obligation and a budget" and "an accepted hash other than the
  original belongs to a proposal that is approved, activated or rolled back"; the amendment steps never lead out of
  those three statuses.
* `GrantChainProofs`: `SpawnsAreWarranted`, for any number of processes. Its invariant says of every list anywhere (the grant file,
  the temporary file, the lists processes are about to write) that its expiries and consumption times are true, however old it is.
  `NothingIsLost` and `BurntOnce` rest on a second invariant (`Alone`), which holds until `raced`: one process writes at most, the list it
  writes keeps all that the grant file says, the temporary file holds that list when it is renamed, and what was burnt is marked in the file.

Every safety invariant, every action property and the refinement that a passing run checks is a theorem, but for `ReportedInTime`,
which has a history variable of the run's module. That one and the liveness properties are only model-checked: `OverdueDetected`, `HardDetected`, `EscalatesWhenDue`, `HardIsGated`, `EventsEndInReport`,
`PolicyFollowsFile`, `PendingIsOffered`, `ClosedDropsOut`, `ViolationsAreRouted` and `NonCompliantIsFrozen` (liveness
under fairness and ENABLED are out of TLAPS's reach). Four theorems of the omission engine are for one worker, and two of the
seal's for one sealer, because with more the code does not have the property. There are no RECURSIVE operators
and no inductions over data.

## 6. What the plan has left

1. The nonce ledger's check-then-record with several threads; signatures and re-delegation in the chain.
2. Break-glass windows (`rules/break_glass.py`); several grantors.
3. Path A (`meta_agent.py`): the cached provider, the edges a failed record leaves out, inconclusive cycles against failed
   ones; the external governance loop; the lifecycle of compiled contracts.
4. Sessions: the session boundary (cancel the old obligations, seal the events), the stop hook, and
   the adapter's enforcement with a fresh `SessionState` for each call (`domains/openclaw/adapter.py:886-1238`).
5. The autonomy engine's intents, gap map and claims of orphans; entity updates of the omission engine split into their
   read and write.

Each is to have one run on the smallest instance with two actors, and a proof module when its invariants are not
confined to one worker.

## 7. Not modelled

The repository is mostly code without a protocol to check: the boundary enforcer (but for its spawn check) and NL translation match and rewrite strings; learning
and causal estimation are floating-point statistics, of which TLC could only check a caricature; prefill, domain packs and templates
are tables and heuristics; reports, CLI, products and installation format text and touch files; the memory store
scores and decays text. Sessions, break-glass and the other items of section 6 have state worth modelling and are left for it.

In modelled parts: the legacy EXPIRED and FAILED statuses (nothing sets EXPIRED in a branch that runs), the live-reload
scan of one obligation type, `can_close`, fulfilment by the patterns of an optional script, the collection of resolved
pulses (at most 1000), causal recommendations, queries and exports of the CIEU store; the hook's checks
other than the contract, the daemon's socket, subgoal file, identity alias and whitelist thread, the policy being checked
twice in one call; handlers and the registry behind K9 routing, the geometry of the brain; Path B's
inconclusive counters and reports, which nothing reads.
