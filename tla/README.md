# Formal model of the smart-factory platform

This directory holds TLA+ modules of the platform's control logic, the TLC
configurations that check them on small instances, and theorems about them with
proofs that TLAPS checks for every value of the constants. Every definition is
translated from the repository's source; `PROJECT.json` maps it to the lines it
stands for, lists the runs, and lists the hazards the properties are for.

Contents: 1 the system, 2 the modules, 3 the runs, 4 fairness, 5 the proofs,
6 where code and text disagree, 7 what is not modelled, 8 the plan,
9 how to run it.

## 1. The system

Sensor nodes (ESP32 sketches) publish readings over MQTT, Modbus, OPC UA or REST.
Adapters (`connectivity/`) normalise a reading and post it to the backend
(`backend/`, FastAPI on one event loop, SQLite). The backend validates the reading
against protocol bindings and SHACL shapes (`semantic-layer/`), stores it, raises
alerts, runs the analytics (`analytics/`), and writes the observation to a
knowledge graph (Fuseki) in the background. Operators send commands through the
backend to the actuators, over MQTT.

| component | state it keeps | operations | talks to | what is hard | what makes it correct |
|---|---|---|---|---|---|
| sensor node firmware | ring buffer, nonce ring, relay, dead-man timer | `loop()`: connect, receive, check, sample, backfill | broker | outages, restarts, a counter that wraps, replayed commands | no reading is lost but for a newer one or a restart; a command acts once; an energised relay is never out of contact |
| MQTT adapter, forwarder | a bounded queue, the post under way | enqueue, forward with retries, reload | broker, backend | overflow, a late answer after a timeout | what is reported as forwarded is stored |
| poll and push adapters | poll schedule, OPC UA queue | poll, subscribe, forward, rebuild from the bindings | devices, backend | a register block that fails, a queue at its limit, a signal during a rebuild | a value is one sample of its binding; no group starves behind another; values arrive in order |
| ingest handler | `sensor_data` rows, scheduled background tasks | bind, gate, store, analyse, schedule the write | store, analytics, semantic layer | failure after the commit, a crash before the background task | a stored reading is scheduled, dropped by a known failure, or audited |
| alerts | `alerts` rows, thresholds | raise, repeat, resolve, acknowledge, reload | store | a transaction that fails half way, stale acknowledgements | one open alert per violated condition, none for others |
| provenance audit, retry service | `prov_audit` rows, one retry run | record, mark written, count a retry | Fuseki | a write stored but unanswered, a backlog longer than a run | every audited write is written or given up; duplicates are bounded |
| hazard reasoner, safety controller, ledger | facts, firing times, engagements, overrides, decisions | observe, engage, refresh, release, override, reset | ingest handler | late readings, rate limits, shared actuators, overrides | no release on a firing hazard; no hazard silenced by the rate limit |
| control API, dispatcher, command table, actuator agent | command status, audit chain, publishing threads, nonces | submit, dispatch, act, acknowledge | broker, device | timeouts that leave the thread running, redelivery, lost acks, crashes | status only moves forward; executed means acted on; one action per boot |
| AAS live sync | device registry, twin graphs | observe, register, retire | Fuseki | a device that reports while it is being retired, requests that arrive late | a silent device's twin goes; a twin shows the registry's protocol |
| device health | one row of status words per device | record, enrich, diagnose | ingest handler, store | partial reports, late readings | a row is one report; a silent device is not reachable; a fault is not called healthy |
| database | connection pool, schema version | acquire, release, migrate | everything | a crash inside a migration, a pool that is empty | the version stands for a complete schema; who waits gets a connection |
| forecasts | windows of samples, pending forecasts | observe, evaluate, save, restore | ingest handler | late and reordered readings, restarts | each forecast is judged once, by the first due reading |
| AGV guard, fault predictor, anomaly correlation | windows, levels, predictions, muted alert ids | push, list, acknowledge, reset | ingest handler | hysteresis, stale predictions, an alert muted for good | resume only when clear; a listed prediction is current; an acknowledged alert is told again |
| security (keys, signing, command audit) | key table, nonce table, hash chain | enrol, rotate, sign, verify, record | control API | a failure between two commits, a nonce forgotten too early | a key serves its own device; rotation keeps rights; a command is accepted once |
| bindings, meta-model, migrations of the ontology | binding registries of three processes, the graph and its properties, thresholds | load, replace, reload, plan | operator's files, adapters | processes that load the same file one after another, redefinitions | all run by one file when the script is done; old observations stay readable |
| queries, federation, statistics exchange | cached and shared queries, registry of sites, privacy budgets | query, register, publish, benchmark | Fuseki, other factories | a shared query that fails, a registry that changes during a query | no request hangs on a dead query; answers are labelled by the site that was asked; a budget is never exceeded |
| middleware, shared lists | token buckets, counters, cached lists | admit, count, push, clear | every request | fractions of tokens, writers in several threads | the rate is kept and nobody is refused below it; cache and table agree |
| dashboard | polling channels | mount, unmount, refresh | read APIs | timers and requests of several components | a mounted component is polled for, and never shown older data |

Components interact in four ways: synchronous calls inside one request (ingest to
alerts and analytics), HTTP between processes (adapter to backend, backend to
Fuseki, device to backend), MQTT (nodes to adapters, backend to devices), and
shared SQLite tables (handler, background tasks, retry service). Inside the backend
a handler is atomic between its awaits: `runtime_state.assert_single_worker`
refuses to start a second worker. The exceptions are worker threads
(`_publish_blocking`) and crashes, which the modules model explicitly.

## 2. The modules

| module | models | composed with |
|---|---|---|
| `SafetyLoop` | hazard reasoner, safety controller, the ledger's list of decisions, `process_reading` | `SafetyLoopProofs`, `MCSafetyValve`, `MCSafetyFan` |
| `ControlCommand` | control endpoint, dispatcher and its thread, command table, broker, actuator agent, acknowledgement | implements `CommandLifecycle`; `ControlCommandProofs` |
| `CommandLifecycle` | abstract: the status life of a command | |
| `IngestPipeline` | MQTT adapter, forwarder, ingest handler, background write, provenance audit, retry service | `IngestPipelineProofs` |
| `AlertLifecycle` | rules, alerts and the transaction of `insert_sensor_data`, acknowledgement, reload | `AlertLifecycleProofs` |
| `EdgeBuffer` | readings, ring buffer and backfill of the ESP32 node | implements `BoundedFifo`; `MCLoops`; `LoopsProofs` |
| `BoundedFifo` | abstract: a queue that gives up its oldest element | |
| `EdgeCommand` | relay, command verification, nonce ring and dead-man timer of the ESP32 node | `EdgeCommandProofs` |
| `DeviceTwin` | registry of live devices, registration tasks, watch loop, the devices' graphs in Fuseki | `MCLoops`; `LoopsProofs` |
| `Database` | the migrations statement by statement, the connection pool | `MCLoops`; `LoopsProofs` |
| `SemanticViews` | the cached and shared queries of `GET /semantic` | `MCLoops`; `LoopsProofs` |
| `ModbusPolling` | accepted bindings, read plans, poll loop and decoding of the Modbus adapter, with the registers of the gas node | `MCLoops`; `LoopsProofs` |
| `BindingReload` | the reload of bindings and thresholds by backend, binding service and adapters, with the script | `MCLoops`, `adapter_reload`; `LoopsProofs` |
| `ForecastHistory` | rolling windows, pending forecasts, restore and retention | `MCServices`; `ServicesProofs` |
| `AgvGuard` | distance windows, levels, the list of orders | `MCServices`; `ServicesProofs` |
| `PredictionTable` | the fault predictor's windows and the table of predictions | `MCServices`; `ServicesProofs` |
| `AnomalyCorrelation` | detector baselines, correlator, mute set, alert history | `MCServices`; `ServicesProofs` |
| `DeviceHealth` | a device's health row, its reachability and diagnosis | `MCServices`; `ServicesProofs` |
| `DecisionLedger` | the list of decisions, its index, eviction and occurrence counts | `MCServices`; `ServicesProofs` |
| `RuntimeState` | lists cached in front of a table, under several threads | `MCServices`; `ServicesProofs` |
| `DeviceKeys` | enrolment, revocation, rotation, and what a key may ask for | `MCServices`; `ServicesProofs` |
| `CommandNonces` | `verify` with its nonce table | `MCServices`; `ServicesProofs` |
| `OntologyMigration` | the diff of two versions, renames, axioms, stored observations | `MCServices`; `ServicesProofs` |
| `MetaModel` | the registry of properties with its graph, history and version, and the thresholds resolved from it | `MCServices`; `ServicesProofs` |
| `OpcuaFeed` | OPC UA subscription, callback, queue and loop | `MCServices`; `ServicesProofs` |
| `FactoryFederation` | registry of sites, queries to all of them, comparison | `MCServices`; `ServicesProofs` |
| `PrivacyExchange` | suppressed summaries, budgets, benchmark | `MCServices`; `ServicesProofs` |
| `Admission` | body limit, token buckets and metrics of the middleware | `MCServices`; `ServicesProofs` |
| `PollChannel` | one polling channel of the dashboard | `MCServices`; `ServicesProofs` |

The last twenty share no state with each other. `MCServices` and `MCLoops` check them
side by side: a constant of the behaviour (`part`) says which component moves, and
the others keep their initial state. A behaviour of such a suite is a behaviour of
one component, so nothing is lost and the state spaces add up instead of
multiplying. Where components do interact (handler, alerts and analytics inside one
reading; table, thread and device of a command) they are in one module.

### SafetyLoop

State: the reasoner's facts and firing times (`_facts`, `_last_fired`), the
controller's `_engaged`, `_last_action` and `_manual_override`, and the ledger's list of
decisions, the newest first, which gives up its oldest one beyond `MaxRecords`. A reading is one step because `process_reading`
has no await: prune and overwrite facts, evaluate the rules, refresh or engage
policies, then `tick` releases what has been quiet for `ClearHold`. Other
actions: the override endpoint, the analytics reset, the clock. A reading carries
its device's stamp, at most `MaxLag` behind the clock. One time unit is ten seconds.
The variables `lastHeard`, `ignored`, `commanded` and `since` (the decisions made since a
policy engaged) are history: they record what the properties speak of and no guard reads
them. An engaged policy has its decision in the list until `MaxRecords` newer ones have
pushed it out (`decision_provenance.py:194-196`): that is what `EngagedHasDecision` says, and no more.

### ControlCommand

A command's coroutine, the thread that publishes it, the messages the broker has
accepted, the device's nonces and the acknowledgements in flight. `wait_for` may
time out while the thread goes on publishing; the broker may deliver again, the
device may restart with empty nonces, an acknowledgement may be lost, and the
backend may die between the update of the table and the audit entry: `UnauditedByCrash`
bounds the statuses the chain does not tell of by the number of crashes. The clock is
reduced to one flag per command: its signature window has closed. The agent's pruning
of nonces after twice the skew, and its limit of 4096, are left out: a forgotten nonce
belongs to a command that is refused as stale, and a refusal is a lost message. (`CommandNonces`
has the same table with both.)

### IngestPipeline

A reading goes from the broker through the queue and the posting attempts to the
handler, which refuses it (no binding), rejects it (gate; audited under an id no
row has), stores it, or fails after the commit. The background write to Fuseki
has three outcomes: answered, stored but unanswered, not stored. The retry loop
takes at most `MaxPerRun` pending rows, oldest first. A crash drops posts, tasks and the
current run. The binding check and the gate are given by the constants `Unbound` and
`Rejected`, since their verdict depends on the reading only.

### AlertLifecycle

`insert_sensor_data` is one SQLite transaction: `Begin`, one `Judge` per
measurement, `Commit`, with `Fail` possible after any statement. `tx` is what the
transaction sees before it commits. `breaches` and `episodes` are history that
follows the committed measurements.

### EdgeBuffer and EdgeCommand

Two views of the same single-threaded `loop()`. `EdgeBuffer` keeps what happens to
readings and abstracts the connection to a flag that may change between any two
steps. `EdgeCommand` keeps the connect, receive and check phases, WiFi, NTP, broker
connection, and both clocks of the node: NTP time for stamps and `millis()`, which
wraps. Both clocks use one time unit (`Skew` is in seconds in the code, `Timeout`
in milliseconds; only their own differences are compared with them, so the choice of
unit does not matter to either). The HMAC is reduced to "this command was issued
by the platform"; only `issued` commands are ever received. `MaxIteration` bounds
how long one pass of `loop()` may block.

### DeviceTwin

A stored reading shows its device to the registry (`observe`); a new device, or a
changed protocol, schedules a registration task. A request is not atomic: it is
sent, and arrives later or never, for the caller gives up after 5 s and only
logs the outcome. `LoopWakes` judges the entries the loop has listed, `Retire` sends one
DELETE; a device may report in between. Time is counted in poll intervals; an age
is not followed beyond the cutoff. `lastPut`, `earlier` and `silent` are history; a device
leaves `silent` when it reports while no retirement of it is pending, so that
`RemovedWasSilent` is about the silence of this retirement and not of an earlier one.

The model shows, without a property against it because no text promises otherwise,
that a device which comes back after its retirement has no graph until its protocol
changes or the backend restarts: it is still known, so `observe` does not register it.

### Database

A statement of a migration is a step, told apart by what it does (create a table, add a
column, resolve the alerts). DDL in SQLite's legacy transaction mode commits what is open, so
`disk` and the open transaction are two things, and a crash may fall between any two
statements. The pool is the other half: `acquire` takes an idle connection, makes one
below the size, or waits without a timeout.

### SemanticViews, PollChannel

Both share one request among those who ask. In `SemanticViews` a coroutine moves only
at its awaits; those whose query has ended run before time passes (the event loop runs
what is ready). `_TIMEOUT` is httpx's, that is of each operation, so a query may take
any time; only `httpx.HTTPError` is answered from the bindings, another exception (an
answer without the expected JSON) is a 500; and a request that the server cancels takes
the query and all who wait for it with it, since `await task` hands the cancellation on.
An answer is therefore not bounded by the clock alone: it is as new as the graph was when
its query was sent, and that query ended within the lifetime of an entry. In `PollChannel` a component is set up before it is mounted, and another
one may leave in between: that is where a timer can run for nobody, or for somebody
else's interval.

### ModbusPolling, OpcuaFeed

A word in a register is told by its binding, its sample and its place in the value, so
that a value torn between two samples, or decoded from a neighbour's register, shows.
`Catalogue` holds the bindings a file may have; any set of them that the collision check
accepts is polled. `OpcuaFeed` numbers the values of a node; the server does not tell
of each change.

### BindingReload

A file is which edit it is, whether it is accepted and which adapters find bindings in it.
The backend loads both files, the binding service its own, an adapter when it is built. The
script validates, posts, signals the service and each adapter, one step each, while an
operator edits and units are started again.

### ForecastHistory, AgvGuard, PredictionTable, AnomalyCorrelation, DecisionLedger, DeviceHealth

What `process_reading` and the ingest handler call on a stored reading. Each call is
one step, for there is no await in it. Arithmetic on reals is reduced to a verdict: a
forecast exists or not, a window points towards its threshold or away from it, a reading
with a baseline is an anomaly or not. The windows themselves, their lengths, stamps,
resets and restores are kept. `ForecastHistory` restores as the code does: once, at the
start of the process (`init_db`), from the newest `LIMIT` rows of all series together, so that a busy
device may leave nothing of a quiet one. A row has one measurement there. `PredictionTable`
follows `push`, which makes no prediction of a value past its threshold (see section 6).
`DeviceHealth` lets stamps lie ahead of the server's clock by up to `MaxLead`, as `UnifiedMessage`
does (`messages.py:63-68`), and an age below zero is fresh (`ops.py:43`). The AGV guard keeps its arithmetic: distances and stamps are
integers and the quotients are compared by cross multiplication.

### DeviceKeys, CommandNonces, Admission, RuntimeState

A key is its number, a nonce a model value. `rotate_key` is two steps, because it
commits twice, and the process may die between them: `LockOutHasCause` names the three ways
in which a device may be without a key, and this accident (`device_keys.py:165-166`) is one of them. `CommandNonces` lets commands arrive in any order, late and repeated.
`Admission` counts a token in `Cost` parts, so that a tick brings less than one.
`RuntimeState` interleaves threads between the lock of the cache and the transaction of
the table, with failing transactions and restarts.

### OntologyMigration, MetaModel, FactoryFederation, PrivacyExchange

An ontology is a function from IRIs to unit and range, and `LocalName` cuts an IRI to the
name that `plan_migration` compares by. Of two IRIs with one name the snapshot has the one
the graph lists last, whichever that is; `Alike` says which names share a label or contain
one another. A plan may be told to allow what breaks (`allow_breaking`): then it is
compatible whatever is lost. `PlanIsExact` is about plans that were not told to, and about
properties that are alone with their name; `HistoryReadable` about chains of versions without either
exception. `MetaModel` keeps the graph as a set of triples, since that
is what the version is computed from, beside the dictionary of the last definitions, which is
what the thresholds are read from. `FactoryFederation` lets sites be registered, removed and
switched between the request and the answers. The stores belong to others: a row has a place in its own
store's order (`time`) and one among the texts of all times (`text`), which may tie or disagree, for the
coordinator sorts by `str(time)` whatever offset or format a store uses (`cross_factory.py:274`). What
`ResultIsNewest` claims is the order by text; that it is the order by time does not follow from the code. In `PrivacyExchange` the noise is any
value near the mean.

## 3. The runs

State counts are those of distinct states. A component's property is often the conjunction of
the facts that make up one promise, each with a name and a comment of its own; the tables
give the parts after it. The type invariants of the modules with proofs of their own are theorems
(section 5) and not checked again.

| run | checks (with its parts) | bounds, and why they are enough |
|---|---|---|
| `safety_valve` | `NoRuleIgnoredTwice`, `ReleaseAfterQuiet`, `ActuatorNotRecycled` | one policy with both its rules and all their conditions, that on CO included; a ledger of one; eight ticks cover engage, refresh, rate-limited firing, release and a second engagement (`ClearHold` is five) |
| `safety_fan` | `EngagedHasDecision`, `NoReleaseOnFiring` | the two policies that share a fan, stamps up to one unit late, an override and resets, three ticks; `ClearHold` is two so that a release fits; a ledger of two, so that decisions are evicted |
| `control_command` | `OutcomesAreTrue` (`ExecutedWasActed`, `DeniedAckHasReason`, `UnauditedByCrash`), `ActsOncePerBoot`, `ImplementsLifecycle`, `PendingIsSettled` | a supported and an unsupported command, one crash, one restart: each pair of faults can meet |
| `ingest_pipeline` | `ReportsAreTrue` (`ForwardedIsStored`, `WrittenIsInGraph`), `DuplicatesBounded`, `StoredIsTracked`, `PendingSettles` | one reading per outcome of the handler, a queue of one (so that it overflows), two attempts (so that a late answer meets a retry), one row per run (so that a backlog is longer than a run), one crash |
| `alert_lifecycle` | `OpenWhileBreached`, `AlertsAccounted` (`AlertPerEpisode`, `SourceStored`), `StatusForward` | a type with a rule and one without, two devices, messages of one or two measurements: an alert can be raised and resolved in one message; four messages allow raise, acknowledge, resolve, raise again |
| `edge_command` | `ReplaysRefused` (`AcceptedOnce`, `RoomUnlessBusy`), `RelayIsSafe` (`RelayNeedsContact`, `EngagedIsOff`) | three commands against two slots, so that the ring comes round; a counter that wraps at four within five units of time; a clock drift as large as the skew |
| `loops` | see below | |
| `services` | see below | |
| `safety_override_gap` | `FourMissedIntervals` (violated) | see section 6 |
| `safety_fan_conflict` | `NoConflictingCommands` (violated) | see section 6 |
| `control_unreachable` | `UnreachableIsTrue` (violated) | see section 6 |
| `adapter_reload` | `AdaptersKeptAlive` (violated) | see section 6 |

`loops` (about 270 000 states) checks the components with a loop or a waiter, safety and liveness:

| module | property: its parts | bounds, and why they are enough |
|---|---|---|
| `Database` | `SchemaAndPoolKept`: `DatabaseTypeOK`, `VersionIsComplete`, `FailsOnlyAfterTear`, `MigrationSparesNew`, `ConnectionsAccounted`, `WaiterIsServed` | all five migrations, two crashes (one that tears, one afterwards), three threads on a pool of two |
| `SemanticViews` | `SharedQueryServes`: `ViewsTypeOK`, `NoDeadFlight`, `AnswersRecent`, `RequestAnswered` | two requests and two queries: one joins, one comes when the first has failed, broken or been cancelled; a lifetime of two ticks, which is what two ticks can just outlive; a graph that grows twice, so that a query reads what is newer than its start and older than its end |
| `ModbusPolling` | `EveryGroupReported`: `PollTypeOK`, `RegisterHasOneOwner`, `ReportIsOneSample`, `EveryGroupIsPolled` | bindings of one and two words, of two slaves and two kinds, that may collide; blocks of two registers, so that a group is cut; two writes |
| `BindingReload` | `ReloadReachesAll`: `ReloadTypeOK`, `DoneMeansAgreed`, `ReloadIsAllOrNothing`, `SignalIsHeeded` | an edit of one file or both besides the first, two runs of the script and one restart; an adapter that needs bindings and one that does not |
| `DeviceTwin` | `TwinsFollow`: `TwinTypeOK`, `OrphansAreOld`, `ProtocolFollows`, `RemovedWasSilent`, `SilentIsRetired` | two devices, so that the loop has a list; two protocols and two registrations, so that PUTs are reordered; a cutoff of one poll instead of five (only the comparison matters); one restart |
| `EdgeBuffer` | `ReadingsKept`: `BufferTypeOK`, `NothingLostOrDoubled`, `OrderKept`, `DiscardsOldest`, `ImplementsFifo`, `BacklogClears` | a ring of two and four readings: the head wraps and the ring overflows; batches of one; one restart |

`services` (about 1.6 million states) checks the others, safety only:

| module | property: its parts | bounds, and why they are enough |
|---|---|---|
| `ForecastHistory` | `ForecastsSettledOnce`: `ForecastTypeOK`, `JudgedByFirst`, `SavedApart`, `PendingBounded`, `NoSampleTwice`, `RestoredIsLatest` | four readings of two series, late or ahead by up to one tick, a horizon of one and a save interval of two: a forecast is judged in time, late, or a second time in vain; a window and a limit of two rows, so that one series takes the other's place in the query |
| `AgvGuard` | `VehicleObeysDistance`: `AgvTypeOK`, `ResumedIsClear`, `NewestOrderIsLevel`, `NoOrderTwice`, `UnsafeIsStopped` | the code's distances (15, 30, 60 cm) with a value in each zone; two vehicles and a list of two, so that one pushes out the other |
| `PredictionTable` | `PredictionsAreCurrent`: `PredictionTypeOK`, `ListedIsNewest`, `ResetStartsOver` | windows of four, of which three make a prediction; stamps late and ahead by one |
| `AnomalyCorrelation` | `AlertsCorrelated`: `CorrelationTypeOK`, `AlertIsCorrelated`, `ToldOnce`, `MutedCanBeSeen`, `AcknowledgedIsTold` | the code's patterns; streams of three devices, one with two properties; four anomalies, a history of two |
| `DeviceHealth` | `HealthIsTold`: `HealthTypeOK`, `TripleIsOneReport`, `SilentIsUnreachable`, `FaultIsDiagnosed` | words inside and outside sixteen bits, partial reports, readings late by two ticks and ahead by one, with a freshness time of two |
| `DecisionLedger` | `LedgerCounts`: `LedgerIsWhole`, `OccurrencesCounted` | three policies, a list of two, four decisions: a policy engages a second time, and one is evicted while it is engaged |
| `RuntimeState` | `ListsAgree`: `RuntimeTypeOK`, `SettledAgree`, `ClearedStaysGone` | two threads, five pushes into a list of two, one restart |
| `DeviceKeys` | `KeysKeepRights`: `KeysTypeOK`, `LockOutHasCause`, `ServedWithinScope`, `RotationKeepsRights` | two devices, three keys, an administrator among them |
| `CommandNonces` | `CommandsAcceptedOnce`: `NoncesTypeOK`, `AcceptedOnce`, `RememberedWasAccepted` | three nonces for a table of two, clocks apart by the skew in both directions |
| `OntologyMigration` | `HistoryFollows`: `PlanIsExact`, `HistoryReadable` | two plans over three IRIs, two of which share their name, with and without `allow_breaking`: a rename of a rename, a name that comes back, a loss let through, two IRIs that collapse |
| `MetaModel` | `MetaModelTells`: `MetaTypeOK`, `VersionTells`, `ResolvedSomewhere`, `RejectedChangesNothing` | three loads of three properties, two of which share a name, and a history of one |
| `OpcuaFeed` | `FeedKeepsUp`: `FeedTypeOK`, `NothingMissedUnseen`, `ArrivesInOrder` | two nodes, a queue of two, three values of each, two faults |
| `FactoryFederation` | `SitesAnswerAsAsked`: `FederationTypeOK`, `ResultIsNewest`, `DegradedIsTold`, `LabelIsAsked` | two sites, one of which may align its own term; two rows with two places in either order, so that they tie, agree or disagree; a limit of one, so that one crowds out the other; two changes of the registry |
| `PrivacyExchange` | `StatisticsStayPrivate`: `PrivacyTypeOK`, `BudgetKept`, `VerdictFollowsRank` | three peers, counts at the minimum and one below it, a budget that two publications exceed |
| `Admission` | `RequestsAdmittedFairly`: `EachCountedOnce`, `RateIsKept`, `TurnedAwayBeyond` | two clients, a burst of two tokens, half a token per tick, four ticks and four requests |
| `PollChannel` | `ChannelServesPage`: `TimerServesMounted`, `FastEnough`, `NeverOlder` | three components with two intervals, five polls, two changes of the data |

Each property of a passing run has a mutant in `PROJECT.json`: a definition of the
code changed the way a plausible bug would change it, under which TLC finds the
property violated.

`CHECK_DEADLOCK FALSE` stands where a finite instance really ends: all commands
settled and expired, all readings delivered, all bounds of a component used up. The other
runs check deadlock.

What each property says is in the comment above it. The ones to read first:

- `NoReleaseOnFiring`: `on_hazards` refreshes before `tick` looks, so a reading
  that reports a hazard never releases that hazard's policy, however late it is and
  whatever an operator did before.
- `NoRuleIgnoredTwice`: a firing dropped by the controller's rate limit has started the
  reasoner's cooldown all the same; that is safe only because the cooldown is no
  shorter than the limit.
- `DeniedAckHasReason`: table and audit chain disagree only about commands whose
  dispatch had been given up.
- `DuplicatesBounded` and `StoredIsTracked`: what retries, timeouts and crashes can do to
  the knowledge graph, and nothing more.
- `OpenWhileBreached`: one open alert exactly while the last stored measurement of
  its condition violated the rule, counted right.
- `AcceptedOnce` of `EdgeCommand`: a slot of the nonce ring is reused only when its command can no
  longer be fresh, whichever way the clocks are apart.
- `RelayNeedsContact`: the wrap of `millis()` hides no silence, as long as one
  `loop()` blocks for less than the modulus minus the timeout.
- `JudgedByFirst`: whatever order readings come in, a forecast is settled by the first one
  from its target time on, and by no other.
- `HistoryReadable`: the equivalences of a chain of compatible versions lead every old
  observation to a property of the version in force that has its unit and range.
- `OccurrencesCounted`: the ledger's newest decision of an engaged policy has counted
  every evaluation of its hazard, across releases, evictions and resets.
- `EveryGroupIsPolled`: only a group that is polled no later, or the server, can keep a
  group of Modbus registers from being read.
- `DoneMeansAgreed`, `SignalIsHeeded`: when the script has ended, backend, service and
  adapters run by the file, or an adapter is still about to build itself.

## 4. Fairness

- `ControlCommand`: weak fairness of a handler's resumption. `wait_for` ends every
  await after the dispatch timeout, and the event loop runs what is ready. Neither
  the thread, the broker nor the device is assumed to make progress; a coroutine
  lost in a crash is exempt from `PendingIsSettled` because the code never looks at
  such a row again.
- `IngestPipeline`: weak fairness of the retry loop and of each background write,
  whose HTTP calls have timeouts. No outcome is fair: Fuseki may fail for ever, and
  `PendingSettles` then says that the write is given up.
- `MCLoops` assumes the fairness of a component in that component's own behaviours only
  (`part = "..." /\ ...`); in the others it does not move.
- `Database`: weak fairness of each thread's steps but the one that asks: a caller
  gives its connection back (`finally`), and a thread that `put_nowait` has woken runs.
- `SemanticViews`: weak fairness of a query and of the resumption of requests. Each operation
  of a query has a timeout, but the whole has none: that a store does not go on sending parts of an
  answer for ever is assumed. Whether a query succeeds is not fair.
- `ModbusPolling`: weak fairness of the adapter's loop. The server may answer with errors, or go
  away, for ever: `EveryGroupIsPolled` names what it then says.
- `BindingReload`: weak fairness of an adapter's own steps under its supervisor; none of
  the operator, the script or the starts.
- `EdgeBuffer`: weak fairness of `loop()`, which the Arduino core calls for ever.
  `BacklogClears` assumes that the link finally stays up and that publishing finally stops
  failing, and nothing about sampling: readings may keep coming.
- `DeviceTwin`: weak fairness of the clock, of the watch loop and of each registration
  task and request (each ends, well or badly). `SilentIsRetired` assumes of one device
  that it stays silent and known and that its requests finally succeed; the others
  may do as they like.
- The other runs check safety only and assume no fairness.

## 5. The proofs

All theorems hold for every value of the constants that satisfies the named
assumptions. Those are ranges, finiteness of what the code keeps in a list or dictionary
(rules, workers, components, bindings, vehicles), and a few facts the code relies on:

- `DefaultsAssumption` orders the shipped durations (20 s rate limit, 30 s cooldown, 120 s hold);
- `EdgeAssumption` lets a pass of `loop()` plus the timeout be shorter than the wrap of `millis()` (49 days).

A bound of a model (`MaxEdits`, `MaxWrites`, `MaxVersions`, ...) is a natural number like any other
constant: the theorems hold for all of its values, so that it bounds nothing but the
instance TLC explores.

| module | proved | inductive invariant, and why it is needed |
|---|---|---|
| `SafetyLoopProofs` | `TypeOK`, `NoReleaseOnFiring`, `EngagedHasDecision` and `ActuatorFollows` (an actuator with one engaged policy was last told to engage) for any lag; `ReleaseAfterQuiet`, `NoRuleIgnoredTwice` and, without a reset, `ActuatorNotRecycled` for readings in order (`MaxLag = 0`) | `OrderInv`: no stamp is ahead of the clock, and an engaged policy has heard no hazard since it was last refreshed. `IgnoredInv`: a rule whose firing was dropped fired no earlier than the policy's last action, so that its next firing, a cooldown later, passes the limit. `ReleaseInv`: what released an actuator was the last action of its policy, which is what the limit looks at |
| `ControlCommandProofs` | `TypeOK`, `ExecutedWasActed`, `ActsOncePerBoot`, `DeniedAckHasReason`, `UnauditedByCrash` (these with `ExecutedWasActed` are `OutcomesAreTrue`), and that the system implements `CommandLifecycle` | an acknowledgement in flight stems from an execution (or from a refusal of an unsupported command); a command acted on since the last restart is in the nonces; a supported command fails only as unreachable; a command becomes unaudited only in a crash, which makes at most one so |
| `IngestPipelineProofs` | `TypeOK`, `ForwardedIsStored`, `WrittenIsInGraph` (together `ReportsAreTrue`), `DuplicatesBounded`, `StoredIsTracked` | `IdInv`, per id: fresh, scheduled, dropped or audited, with a bound on the observations written so far in each of these; `AnswersInv`: a positive answer in flight is about a stored reading |
| `AlertLifecycleProofs` | `TypeOK`, `OpenWhileBreached`, `AlertPerEpisode`, `SourceStored` (together `AlertsAccounted`), `StatusForward` | `BookInv`: the same bookkeeping holds of the committed rows and of the rows that an open transaction sees, and the latter extend the former; without the second half `Commit` preserves nothing |
| `EdgeCommandProofs` | `TypeOK`, `AcceptedOnce`, `RelayNeedsContact`, `EngagedIsOff`, `RoomUnlessBusy` (in pairs `ReplaysRefused` and `RelayIsSafe`) | `CommandInv`: an accepted command's nonce is in the ring with its time of acceptance, or its stamp is too old already; `TimerInv`: the relay was in time when `loop()` last looked, and `lastHeartbeat` is the true contact modulo the wrap; `RingInv`: slots are written in the order of time, starting over at the end |
| `ServicesProofs` | for each of the sixteen modules of the run `services` an inductive invariant, and from it the property that the run checks, whole | see the next table |
| `LoopsProofs` | the safety halves of the properties of the run `loops` | see the next table |
| `RanksAndSums` | lemmas only: ranks in a finite set, induction over numbers and parts of a set, sums | |

The services, and the loops:

| module | proved | what the invariant adds, and why |
|---|---|---|
| `AgvGuard` | `VehicleObeysDistance` | the newest order of a vehicle in the list tells its level, or the list is full and has none of it; consecutive orders of a vehicle differ; the level heeds the last point of its window |
| `PredictionTable` | `PredictionsAreCurrent` | an entry is of the newest batch of its series, one of whose values was below, and since the last reset as many readings came as the window holds |
| `AnomalyCorrelation` | `AlertsCorrelated` | every alert of the history rests on what it names; the anomalies of the last one are in the window for as long as no second passes, so that only a new one raises it again; what is muted has been told |
| `DeviceHealth` | `HealthIsTold` | the row is that of the last complete report, word by word modulo 2^16; the newest stamp is ahead of the last contact by no more than the clock ever was (`lead`) |
| `DeviceKeys` | `KeysKeepRights` | keys are numbered without a gap, an unfinished rotation is of a key that exists and has room for the new one; with that `LockOutHasCause` is inductive |
| `CommandNonces` | `CommandsAcceptedOnce` | what was accepted is in the table, or is too old to be accepted again; what the table has was accepted within the skew of its stamp |
| `OntologyMigration` | `HistoryFollows` | the version in force is an ontology, and observations are of its IRIs; the rest is the property, whose step follows since compatible renames compose and keep unit and range. For a plan: without a shared name the snapshots are the ontologies themselves, so that what the code finds by name is what the property says of IRIs |
| `OpcuaFeed` | `FeedKeepsUp` | callback and queue together (`UnderWay`) are sorted by node between what arrived and what the server has; the newest value of a node that is listened to arrived, is under way, or has not been told |
| `DecisionLedger` | `LedgerCounts` | the list is the newest decisions without a gap, and the one a policy is engaged by is at the place that its number says, with the count of its occurrences, or fell off the end of a full list |
| `Admission` | `RequestsAdmittedFairly` | the tokens of a bucket account for the requests let in (`Accounts`): from any of them on no more than burst and refill, and from some one of them on no less, if the bucket is not full |
| `PollChannel` | `ChannelServesPage` | one request at most is under way, and brings nothing older than what is displayed; the interval is as short as anyone set up asks |
| `MetaModel` | `MetaModelTells` | each definition in force is in the graph, and what was recorded of a version are a graph and the definitions it has, while no name was given to two properties |
| `FactoryFederation` | `SitesAnswerAsAsked` | a query holds, of every site that answered, the first rows by the order of its store, so that what a site kept back has a full limit of its rows before it or level; the first of them by text leave out only what the text puts later. Neither order has to be strict, nor the two to agree |
| `RuntimeState` | `ListsAgree` | what cache and table differ in is what a worker has still to do between lock and transaction, unless a failure or a restart has disturbed them; what a clear found is in nobody's hands when it is done |
| `ForecastHistory` | `ForecastsSettledOnce` | `ForecastInv`: a pending forecast has no judge yet, a judged one its first; two forecasts of a series are a save interval apart, and two pending ones within a horizon. `PendingBounded` follows by putting each into an interval of its own (`SoManyFit`). `WindowInv`: the samples of a window can be traced to readings of its series, no two to the same one (`Sampled`), so that it has none more often than the table (`NoSampleTwice`). `RestoredIsLatest` then is about one step: a query with a limit returns the newest rows (`NewestTaken`), what it leaves out is older than all of a full limit (`LeftOutIsOlder`), and a bucket holds all of its series but what did not fit into it or into the query (`BucketHolds`) |
| `PrivacyExchange` | `StatisticsStayPrivate` | `PrivacyInv`: the ledger and what was paid move together, what is out adds up to no more (`BudgetKept` needs the sum over the metrics for it: a publication replaces one term), and what was collected has one mean per site. `VerdictFollowsRank` is no matter of steps: whoever is above the mean is above one of them (`OneIsBelow`), and who is two deviations off among fewer than six is beyond all (`FarIsBeyond`), because one of n values takes up at least n/(n-1) of the squares (`SpreadOutweighs`) |
| `Database` | `DatabaseTypeOK`, `VersionIsComplete`, `FailsOnlyAfterTear`, `ConnectionsAccounted`, `MigrationSparesNew` | what the running migration sees is complete up to its version and has the statements before the current one; no column of migration 5 is there before it begins, but after a tear; idle and held connections are distinct and together those created |
| `SemanticViews` | `ViewsTypeOK`, `NoDeadFlight`, `AnswersRecent` | what a query has read is no older than the query; somebody waits for the query in flight, and for no other that runs; the entry is the result of a query that is done, stamped with the moment it ended |
| `ModbusPolling` | `PollTypeOK`, `RegisterHasOneOwner`, `ReportIsOneSample` | the block being decoded holds, for every binding of its group, the words of one sample: since bindings do not collide, each register has one owner |
| `BindingReload` | `ReloadTypeOK`, `DoneMeansAgreed`, `ReloadIsAllOrNothing` | as long as nobody edits, the script has found both files accepted and the backend runs by them; so does the service, and every adapter it has signalled, or is about to; only the empty registry holds no edit |
| `DeviceTwin` | `TwinTypeOK`, `OrphansAreOld`, `ProtocolFollows`, `RemovedWasSilent` | a registration is of a device that is known or was before a restart, and the newest one of a known device has its protocol; a graph is what the last PUT made it; only the silent are about to lose theirs, and who is listed or being retired stays silent until that is over |
| `EdgeBuffer` | `BufferTypeOK`, `NothingLostOrDoubled`, `OrderKept`, `DiscardsOldest`, and that the ring implements `BoundedFifo` | `BufferInv`: what was published and what waits, one after the other, is a list without repetitions of all readings sampled but those given up or lost, in order but for those put back. The lemmas before it give the modular arithmetic of the slots: a push appends to `Content`, or replaces its first element by the new last one; a pop takes the first |

Each proof follows the same line: the invariant holds initially, every action preserves it
(one lemma per action, or per part of one), the property follows, and the last step
combines these by temporal reasoning. An action property is proved of one step
under the invariant. Where a proof needs a first or last element of a finite set, or
counts with one, it rests on `RanksReach` and `FirstExists`, which are proved in `RanksAndSums` from the library's
theorems on cardinality.

Sums over a finite set are the folds of the community modules, which are recursive functions.
What they give follows from an induction over a set: `AllNumbers` says that a set of
numbers with 0 and with each number the next has all of them (its first gap would have a
predecessor), `AllSubsets` the same of the parts of a finite set. From there `SumsAgree`,
`SumSplits`, `SumLinear`, `SumMonotone`, `SumBounds` and `SumChanges` are the lemmas to cite. `OrderExists`
sorts a finite set of places by rank.

Some attempts failed for a good reason and corrected the model: `MaxVersions`, `MaxEdits` and
`MaxWrites` must be at least 1, since they count the value, file or sample that is there at
the start; the rules, workers, components and bindings must be finitely many, since the proofs
count them; so must the sites and metrics of `PrivacyExchange`, which are summed over. An outlier among
six or more need not be beyond all of them: `VerdictFollowsRank` says so (`Cardinality(means) < 6`),
where the instance had been too small to show it. `RuntimeState` cuts its table by `Remaining`, which says what row is at
what place, where a recursive filter had stood; for the same reason `ForecastHistory` takes the order of
stored readings from `InOrder`, and not from a filter and a sort.

Only model-checked is liveness (`PendingIsSettled`, `PendingSettles`, `BacklogClears`, `SilentIsRetired`,
`WaiterIsServed`, `RequestAnswered`, `EveryGroupIsPolled`, `SignalIsHeeded`), which is out of the
prover's reach under fairness. Every safety property that a passing run checks is stated by a theorem or is the
conjunction of parts that are.

## 6. Where code and text disagree

Four runs state what a comment, a certificate or a document says, and TLC refutes it:

1. `safety_override_gap`. "Four missed hazard intervals are required before
   automatic release" (`safety_controller.py:13`). An overridden policy is skipped
   before it is refreshed, so a policy that was engaged when an override began may
   be released by the first reading after it, although its hazard fired a moment ago.
2. `safety_fan_conflict`. The policy verifier's certificate says that no sensor
   values make one device receive conflicting commands (`policy_verifier.py:109`). It
   compares engage actions only: one reading may release one policy of the exhaust
   fan and engage the other.
3. `control_unreachable`. A command recorded as failed with "broker unreachable" may
   have reached the device: the timed-out thread goes on.
4. `adapter_reload`. "Keep adapters alive and rebuild binding-derived plans on SIGHUP"
   (`connectivity/runner.py:55`). When an accepted file has no binding left for an active
   Modbus or OPC UA adapter, the rebuilt adapter raises at its start and its process ends.

Further differences met while modelling, for which there is no run:

- `CONTRIBUTING.md:298` describes a 30-second window in which an alert does not
  fire again; the code has none: an alert stays open until a measurement recovers.
- A late reading refreshes a policy with its own, older stamp (`safety_controller.py:158`),
  so `ReleaseAfterQuiet` needs readings in order; the theorem says so.
- The rate limit is kept per policy, so two policies of one device can send it commands
  in quick succession; `ActuatorNotRecycled` is checked for an actuator with one policy.
- `analytics/tests/test_prediction_suite.py:46-51` (`test_already_breached_reports_zero`) and
  `backend/tests/test_master_audit_regressions.py:105-112` expect a prediction for a value that is past its
  threshold, with zero seconds left, the second one also from a first reading. `push` returns None for
  such a value ("Existing threshold violations are hazards, not forecasts.",
  `fault_predictor.py:140-145`) and before `MIN_POINTS` readings. `PredictionsAreCurrent`
  is about what the code does: a listed prediction is of a batch with a value that was
  not past the threshold. The tests and the comment cannot both be right.
- Nothing in the repository publishes the heartbeat that the firmware's dead-man
  timer waits for; the platform only returns its payload from an endpoint.

Things a reader of the code may want to know, which no text contradicts:

- Alerts follow the order in which readings are stored (`store.py:184`): a delayed
  reading resolves, or raises, an alert that newer readings decided.
- The firmware tries NTP only when WiFi has just come up (`esp32_dht22.ino:310`): if that
  fails, every signed command is refused until WiFi drops.
- The windows of the forecasts are restored from the newest rows of all devices together
  (`forecast_evaluation.py:53`): a device that reports often may leave nothing of the others. A row
  stamped ahead of the clock is not restored.
- A silent device whose clock is ahead is shown as reachable for as much longer
  (`ops.py:43`).
- `rotate_key` commits the revocation first: if the process dies then, the device has no key until
  somebody enrols it (`device_keys.py:165-166`).
- `plan_migration` compares local names: of two IRIs with one name it sees one, and a property
  that moves to another namespace gets no equivalence. With `allow_breaking` a plan is compatible
  whatever is lost.
- A federated result is cut by the text of the times (`cross_factory.py:274`): with other offsets or
  formats at the sites the newest row may be the one that is left out.
- `GET /semantic` answers 500 when the store's answer is not the JSON it expects, and when one
  of those who share a query is cancelled, all of them fail.
- The agent's and the receiver's nonces are kept for twice the skew by their own clock: a clock
  that steps back is not covered.
- A device that reports `degraded`, `maintenance` or `starting`, or the errors
  `read_timeout` and `checksum`, gets the verdict "healthy" beside `healthy = false`; the key
  `warming_up` of the device words is never used.
- The nonces of `command_signing.verify` are in memory: a restart of the receiver forgets them.
- A NaN from a Modbus device raises inside `poll_once` and counts as a lost connection, so the
  groups after it are not read until the device recovers. The padding bits of an
  answer with coils are decoded as the value 0 of a binding of another group that lies
  behind the span.
- An OPC UA connection that is lost after the subscription is not noticed until the next
  reload.
- `diff` may map two removed properties to the same new one, and a name that comes back
  keeps the equivalence it got when it was dropped.
- `MetaModelRegistry` keeps both definitions of a property that is defined again in its
  graph. The version does not tell which was last, two IRIs may share one local name, and
  rejected loads are kept without the limit of fifty. A decision's `ontology_version`
  therefore does not always determine the thresholds it was made by.
- A filter of the federation finds `count` when it is asked for `co`; the comparison leaves
  out sites that the limit crowded out, and takes their labels from the registry as it is
  after the answers.
- The budget of the statistics exchange is lost in a restart, and a publication that
  is refused leaves the older summary in place.
- `usePoll` keeps the first fetcher of a channel, and a return to the page polls channels that
  nobody mounts. A fetcher that throws before it returns a promise would leave the
  channel without further polls; the model takes fetchers to be async, as those
  of the dashboard are.
- `reset_analytics` does not reset the correlator's muted names. `runtime_state`'s lists and
  `privacy_federation` are used by tests only.
- Requests refused with 413 or 429 are not in `requests_total`, and the table of token buckets
  never shrinks.

## 7. What is not modelled

The components of `PROJECT.json` with status `not_modelled` give the reason each, and the
notes of the `partly` ones name what is left out. In short: arithmetic on reals and
statistics; RDF, SHACL and the parsing of bindings, which appear in the modules as a
verdict; endpoints and tools that only read; the policy verifier (a solver query
without state); the fail-safe monitor, which nothing in the platform calls; the hash chain of
the command audit, whose records are written by one worker without an await; the HMAC.

Inside the modelled components: the texts of messages, timestamps in rows, levels of
alerts and the HMAC are abstracted away; the broker's reconnect logic is a link that
may be up or down; the batch endpoint is the single one in a loop; `CommandNonces`
takes signatures to be right, `OntologyMigration` properties to have both limits. Tokens are exact in
`Admission`, floats in the code, and a request that is cancelled there (`middleware.py:207-222`) is not followed.
Some hazards are allowed by the code and so by the model: the notes in `PROJECT.json` say for each what
the properties bound (the status without its audit entry, the device that comes back and has no twin, the alert
that stays muted, the lock-out by a rotation cut in two, the forwarder's duplicate rows).

## 8. The plan

The order follows what goes wrong most expensively: what reaches an actuator first, what
loses data second, what misleads an operator third.

Done: the command and alert path (`SafetyLoop`, `ControlCommand`, `IngestPipeline`,
`EdgeBuffer`, `EdgeCommand`, `AlertLifecycle`, `DeviceTwin`) and the services around it, in
the runs `services` and `loops`; proofs of all their safety properties.

What could come next, in this order:

1. The hash chain of the command audit, as a list whose prefix nobody can change unnoticed, beside `DeviceKeys`.
2. The conversions of `protocol_binding.py` (word order, signs and widths of registers, scaling), as operators
   compared with a definition by place value; `ModbusPolling` has which words make up a value.
3. The baselines of the anomaly detector and the slope of a forecast on scaled integers, where
   `AnomalyCorrelation` and `ForecastHistory` have a verdict.

## 9. Running it

    tlc -workers 2 -config safety_valve.cfg MCSafetyValve
    tlapm SafetyLoopProofs.tla

Each `.cfg` belongs to the module that `PROJECT.json` names beside it; run both
commands in this directory.
