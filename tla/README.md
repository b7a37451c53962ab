# LubriSense AI: verification project

LubriSense AI monitors industrial lubrication: edge gateways poll sensors and
forward telemetry over MQTT, a bridge and a consumer carry it through Kafka into
TimescaleDB, and a backend derives data quality, rule findings, baselines,
condition, incidents and maintenance work from it. This directory holds TLA+
models of the parts whose correctness depends on order, failure and concurrency,
the TLC configurations that check them, and proofs of the central theorems.

Run a model with `tlc -config <run>.cfg <module>`, a proof with `tlapm <module>.tla`.
`PROJECT.json` says which definition stands for which lines, and lists runs,
hazards, findings and theorems.

## 1. Inventory

| component | state it keeps | operations | what makes it correct |
|---|---|---|---|
| Edge runtime, buffer, MQTT transport (`edge/edge/runtime`, `buffering`, `transport`) | SQLite tables `events`, `sequence_state`; in memory the batch, the paho queue | acquire (mint, insert, retention), drain pass (read batch, send, mark), replay command, start, stop | ids never reused; nothing settled before the broker has it; order per sensor; retention never loses track of a row; the backlog drains |
| Connectivity manager (`edge/edge/connectivity`) | state, two counters | record_success, record_failure | the state agrees with the outcomes |
| Local rule engine (`edge/edge/rules`) | last readings, open alerts, in memory | evaluate | one alert per condition, cleared when it ends |
| MQTT -> Kafka bridge (`backend/app/pipeline/mqtt_bridge.py`, `spool.py`) | coroutines, producer, SQLite spool | on_message, handle, publish with retries, spool, drain, reconnect | an acknowledged event is not lost; spool rows leave only when sent; order per sensor |
| Telemetry consumer (`pipeline/consumer.py`) | Kafka offsets; tables `telemetry`, `telemetry_quarantine` | fetch, persist, commit for two topics | offsets never pass an unstored record |
| Data quality (`data_quality/`) | `sensor_quality_state`, `quality_issue`, assessments | topic loop, window loop, reprocess | one active issue per rule and sensor; two clean cycles to resolve; a reading that is missing is noted, and none that is there |
| Rules engine (`rules_engine/`) | `rule_finding` | evaluate machine, lifecycle, reprocess | one open finding per key; stability counts are of consecutive cycles |
| Baselines (`baselines/`) | versioned `baseline_profile` | evaluate, start or advance candidate, promote, invalidate | one ACTIVE version; versions increase |
| Incidents (`incidents/`) | `incident` rows | evaluate (create, update, auto-resolve), technician transitions | only legal transitions; one open incident per key; recovery resolves |
| Maintenance (`maintenance/`) | cases, findings, actions | create, plan, start, record, complete, cancel | a case and its incident move together |
| ML registry (`ml-service/ml_service/registry`) | artifacts, metadata files with their checksums, index file | register, set_status, load | what the index lists can be loaded and has the status it gives |
| Commissioning, device management | session state, configuration snapshots | add, validate, complete | one current snapshot; COMPLETED is earned |
| Circuit breaker (`core/resilience.py`) | state, failure count | call | opens after the threshold, probes before closing |
| Condition and decision intelligence (`condition_intelligence/`, `decision_intelligence/`) | assessments, decisions with ACTIVE or SUPERSEDED | synthesize evidence, decide and supersede | evidence that corroborates does not weaken a verdict; one ACTIVE decision, of the evidence there is |
| Knowledge documents (`knowledge/`) | versioned `knowledge_document` rows, of a tenant or of everyone | ingest, submit, approve and supersede, retire, seed | one APPROVED version; a version is ingested once |
| Work order drafts (`cmms/`, and the tool of the chat turn in `agent/`) | `demo_cmms_work_order` | look up, insert, answer | one work order per case, and every answer names it |
| Emission factors (`energy/`) | `site_emission_factor` windows | configure, estimate | windows neither overlap nor leave a gap |
| Prognostics; energy assessments; features; state estimation | results by upsert | compute | numeric; left to unit tests |
| Retrieval and answers of the agent, portfolio, customer services, auth, audit, simulator, frontend | CRUD, text, a physics simulation | - | no protocol to model |

How they interact. The edge gateway owes each event to the MQTT broker until a
PUBACK arrives. The bridge subscribes with a clean session, acknowledges each
message as it schedules a coroutine, and publishes to a Kafka topic keyed by
sensor, or puts the event in its spool. Consumers of the topic (telemetry, data
quality) work in batches: one database transaction, then the offset commit.
The workers (quality, rules, baselines) and the API requests meet only in the
database: every request and every worker cycle is one READ COMMITTED transaction
that reads rows early and writes them late. A maintenance request calls incident
operations in its own transaction.

What is hard: the sender uses a batch read before retention ran; a send that
timed out is delivered later; crashes fall between two commits; coroutines of
one sensor overtake one another; the offset commit and the database commit are
separate; requests validate a status another request is about to change.
`PROJECT.json` lists these hazards with their lines and the property that covers
each.

## 2. Plan

The order in which the system was modelled, the most important behaviour first:

1. `EdgeGateway` over `EdgeConnectivity`, refining `StoreAndForward`: checked and
   proved.
2. `MqttBridge`, `TelemetryConsumer`, and `TelemetryPipeline`, which composes them:
   checked, their safety proved, and shown to implement `IngestionPath`.
3. `Workflow`, incidents and maintenance cases as concurrent transactions: checked
   and proved.
4. `DataQuality`, `SequenceGaps`, `RuleFindings`, `Baselines`: the workers that share
   rows with a second loop or command; checked, and their safety proved.
5. `Commissioning`, `ModelRegistry`, `CircuitBreaker`, `LocalRules`: small state
   machines under racing requests, processes, failing calls and readings; checked, and
   their safety proved.
6. `Decisions`: from evidence to the ACTIVE decision, under racing evaluations;
   checked, and the synthesis proved.
7. `Knowledge`, `WorkOrders`, `EmissionFactors`: records that requests look up and
   then change; checked, and their safety proved.

Every safety property that a run checks is thereby proved for all values of the
constants. What would come next: the other rules of a single event and the
assessments of `data_quality`, baselines by context, and a second gateway session in
`device_management`.

## 3. Modules

| module | models |
|---|---|
| `StoreAndForward` | what a gateway promises: an event is none, held, shed or done; it is let go of only when the broker has it; first deliveries are in order |
| `EdgeConnectivity` | `ConnectivityManager` as two functions on a record |
| `EdgeGateway` | the gateway, step by step |
| `EdgeGatewayProofs`, `EdgeOrderProofs` | theorems about it |
| `MqttBridge` | the bridge, its spool, and the Kafka producer it uses |
| `TelemetryConsumer` | the two loops of the consumer |
| `TelemetryPipeline` | bridge and consumer side by side, joined by the topics |
| `IngestionPath` | what the two promise: where a valid event is, and that only a stop of the bridge loses one it acknowledged |
| `BridgeProofs`, `PipelineProofs` | theorems about them |
| `Workflow` | requests on incidents and maintenance cases, each a transaction that reads early and writes late |
| `WorkflowProofs` | theorems about it |
| `DataQuality` | the two loops of the data quality worker on the rows of one machine |
| `SequenceGaps` | the sequence numbers of one sensor: which one the worker expects next, and which are missing |
| `RuleFindings` | the rules as far as they look at each other, and the findings of one machine |
| `Baselines` | the versions of one baseline, under worker, sweep and backfill |
| `Decisions` | the synthesis of a condition from rows of evidence, and requests that replace the ACTIVE decision |
| `Commissioning` | commissioning sessions and the snapshots of their gateway |
| `ModelRegistry` | the files of the model registry under scripts that may be killed |
| `CircuitBreaker` | the breaker around calls that may fail |
| `LocalRules` | the rule engine of the edge |
| `MonitoringProofs` | theorems about `Commissioning`, `SequenceGaps` and `RuleFindings` |
| `ServicesProofs` | theorems about `LocalRules`, `DataQuality`, `ModelRegistry`, `CircuitBreaker` and `MCServices` |
| `Knowledge` | the versions of one document under editors and the seed |
| `WorkOrders` | the draft of a case's work order, by the endpoint and by chat turns |
| `EmissionFactors` | the factors of one site, and which period they cover |
| `RecordsProofs` | theorems about these three, `Baselines`, `Decisions` and `MCRecords` |
| `MCMqttBridge`, `MCWorkflow` | symmetry sets and constant definitions for TLC |
| `MCTelemetryPath` | `EdgeGateway` and `TelemetryPipeline`, the two sides of the broker, in one run |
| `MCSafety` | `MqttBridge`, `SequenceGaps` and `ModelRegistry` in one run, for their safety |
| `MCServices` | `DataQuality`, `RuleFindings`, `Commissioning`, `CircuitBreaker` and `LocalRules` in one run |
| `MCRecords` | `Baselines`, `Decisions`, `Knowledge`, `WorkOrders` and `EmissionFactors` in one run |

### EdgeGateway

One step is one SQLite commit or one interaction with the MQTT client.

| code | model |
|---|---|
| `sequence_state`, `events.status`, `events.created_at` | `lastSequence`, `status`, `created` (rank of the insertion) |
| acquisition thread inside `acquire_once` | `acqPc`, `acqEvent`, `doomed` (the ids retention has selected) |
| `_drain_once` | `pc`, `batch` (rows read, not yet sent), `current`, `progress` (sent > 0) |
| paho's queue, the broker | `outbox`, `delivered`, `brokerUp` |
| `next_sequence`, `insert_pending`, `enforce_retention`, `_dead_letter` | `Mint`, `InsertPending`, `SelectOverflow` / `SelectStale`, `DeadLetter` |
| `get_replayable`, `send`, `mark_*` | `TakeBatch`, `PublishRow` / `ConnectFails` / `PublishConfirmed` / `PublishTimesOut`, `MarkFailed` / `MarkSent` / `MarkAcknowledged` |
| end of a pass, `replay_now` | `EndPass` |

The `threading.Lock` is `SenderHasLock` and `AcquisitionHasLock`: acquisition
holds it for a whole observation, the sender for reading a batch and for marking.
`Procs` are the processes with a sender; `Runner` is the one started by
`python -m edge run`, any other is `python -m edge replay`, which takes neither
that lock nor the flock. `DeadLetter` and the marks write by event id whatever
the row has become, as the SQL does; so a DEAD_LETTER row whose send is under way
becomes SENT or FAILED again. A timestamp is a rank: equal timestamps and clock
steps are not modelled, and rows with equal sequence numbers are shed in any
order, as SQL leaves it. The age limit is a choice of any number of oldest rows.
Without a broker `MqttTransport` raises in its constructor, so a process does not
come up during an outage. An MQTT client delivers its messages in order and
keeps them after a timeout.

### MqttBridge, TelemetryConsumer, TelemetryPipeline

A coroutine runs undisturbed from one await to the next. `job[p]` is what
coroutine `p` awaits; `scheduled` are coroutines not yet begun; `Drainer` is the
spool-drain task. A failed attempt leaves its record with the producer
(`accumulator`, owner `NoEvent`) or removes it: both happen, depending on the
exception. Kafka is external: it writes the oldest record of a topic, may lose
the reply and write it again, and may be down.  `excused` collects the events
the bridge could not keep by its design (not subscribed, or in memory at a stop),
so that `NeverDropped` says all the rest; `AtLeastOnce` is the same without the
excuse. `accepted` follows `StoreAndForward`: the edge presents new events of a
sensor in order and old ones again at any time.

In the consumer, validation and enrichment are reduced to the verdict
(`Insertable`); the asset hierarchy is chosen anew in each transaction.
`PersistUnseen` and `CommitFails` are commits whose reply is lost. `quarantine` is
a set: the code inserts a row per attempt, and a redone batch repeats its rows.

`IngestionPath` knows of a valid event only its place, and `PlaceOf` gives that of the
copy that is furthest: in a table, in the spool or the topic, in the memory of the
bridge, gone, or not yet at the broker. `IngestionPromise` says that every step of the
two processes moves events as it allows.

### Workflow

A request of the API is one PostgreSQL transaction (`get_db_session` commits when
the route returns and rolls back when it raises), at READ COMMITTED.
`request[r]` is what it has read and decided to write; `incident`, `case` and
`feedback` are the committed tables.

| code | model |
|---|---|
| `_VALID_TRANSITIONS`, the guards of `MaintenanceService` | `Valid`; `Before`, `After` |
| acknowledge ... reopen; `evaluate_machine` | `MoveRequested`; `Recovery`, `Fault`, then `MoveIncidents`, `OpenIncident` |
| `create_case_for_incident` | `CaseRequested`, `OpenCase` |
| start, a physical `record_action`, cancel | `WorkRequested`, `WriteCase` |
| plan; complete | `WorkRequested`, then `PlanSaves`, `PlanCommits`; `CompleteSaves`, `CompleteCommits` |
| the two partial unique indexes | `IncidentIndex`, `CaseIndex`, evaluated on the tables to be committed |

`save` updates the row by its id whatever its state is by then, so a write never looks
at the state again. `plan` and `complete` update the case first, which locks its row
until the end of the transaction (`pc = "saved"`, `Locked`), and read the incident
after that, with a new snapshot. `reopened` is history, for `CompletedOnce`, the exact
condition under which a case has one feedback record; that every case has
(`OneFeedbackPerCase`) is a claim of the documentation that the run
`workflow_feedback` refutes. That the unique indexes keep open incidents and active
cases apart, and that a completion is one commit, is not stated as a property: the
guards of `Commit` and the one action `CompleteCommits` are all there is to it. A
verdict of the condition engine is an arbitrary choice. Evidence appended to an
incident that is already open, findings and the timeline change no state and are left
out.

### DataQuality

`batch` is the transaction of the topic loop and `cycle` that of the window loop;
`quality` and `issue` are the committed rows. A transaction overlays the rows it
has written (`wrote`) when it commits, and locks them until then. `ReadEvent` and
`WriteEvent` are apart because the worker reads the open issues and upserts the
row in two statements: the window loop may commit between them, and its verdict
is overwritten until the next cycle. Two transactions that wait for each other
are `Deadlock`; one of them fails in its savepoint. `EventFails` is the
`except Exception` around the savepoint of an event, which makes the loop go on as
if the event were assessed: `excused` counts these. A severity stands for the
quality state and the eligibility the policy gives it.

### SequenceGaps

| code | model |
|---|---|
| `last_source_timestamp_seen`, `expected_next_sequence` of the sensor | `context` (`seen`, `expected`; a time is a rank) |
| `sequence_gap` rows of `quality_issue` | `gaps`: the event at which one was found and the numbers it names |
| `process_event`: `get_context`, then the rules and `upsert` | `ReadContext`, `WriteContext` |
| the worker's batch, its commit, the offset commit, the savepoint of an event | `WorkerFetches`, `RunCommits`, `PositionCommitted`, `EventSkipped`, `BatchRetried` |
| the reprocess command: stored readings of a range of time, oldest first, one transaction | `RerunBegins` |

The source clock need not follow the numbers (`SourceTime` is any function of them).
`python -m edge run` counts its readings on after a restart (`sequence_state`), but the
simulated clock of its source starts at the time of day again (`source.py:69`), behind
the time it had reached if its steps of some seconds were taken without waiting
(`--interval` is 0.0 unless given). Then readings with later numbers carry earlier times:
none of them is the newest, the number expected stays where it is, and each is told as a
gap over all numbers since, the assessed ones included. `NumbersAccounted` therefore
lets only a reading that is older than the newest be assessed and still expected, and
`GapsAreReal` lets a gap name assessed numbers only of such readings; what both say of
a clock that goes forward has no exception.

`Delivered` puts any number on the topic at any time: lost, repeated and reordered
readings are all there, not only those that the bridge produces. The upsert sets only
the fields decided on (`Updated`), from a context that was read before: while another
transaction holds the row it waits, and the decision may be out of date when it goes on.
`overlapped` remembers that this has happened. It is needed: the worker and the command
may both read the row before either has written it, and the later write then takes the
number expected back below one that the earlier one has assessed. Without such an
overlap `NumbersAccounted` says that no missing reading goes unnoticed: a number below
the one expected was assessed or is named by a gap. A gap is history: when the
reading comes later, out of order, its gap stays, as in the code.

### RuleFindings

Which findings fire in an evaluation follows from the signals that deviate
(`Candidates`): the rules over one signal, the patterns over several and what
excludes what, and the one finding that replaces all of them when too few sensors
are trusted. The thresholds of a rule are not modelled. `DecideFinding` is
`lifecycle.decide`, decided on the row as read and written by id. A cycle
without trusted data evaluates no other rule, so every finding counts it as a
clean cycle; the model does as the code does, and `FindingsDebounced` holds with
it.

### Baselines

`Decide` is `promotion.decide` over a level and the relation `Near`
(within the divergence multiplier); `refresh` holds what a transaction has read.
Worth knowing when reading it against the code: a change of firmware on a row that
has no anchor inserts a new row beside it, so there are two current rows until
the newer one ends; a STALE version is still the reference of a decision but is
not served; a row created without firmware never gets one; and a backfill that
committed on a stale read may bring an ended version back, on which the unique
index makes the worker trip until the staleness sweep ends it. Therefore the
safety properties speak of the worker alone, and `SettledLevelIsServed` of both.

### Decisions

| code | model |
|---|---|
| open findings, latest ML results, latest state estimates | `evidence`: rows with a source, a name, a status, a severity |
| `_evidence_from_rule_finding`, `_from_ml_result`, `_from_state_estimate`, with the policy's maps | `HintOf`, `StrengthOf` |
| `synthesize`, `_single_hypothesis_result`, `_severity_for`, `_quality_gate_verdict` | `Synthesize`, `SingleHypothesis`, `SeverityFor`, `coverage` |
| `decide_for_machine` in the transaction of a GET | `request[r]`: `Assess`, `SupersedeBegins`, `SupersedeEnds`, `CommitDecision` |
| rows of `decision_assessment` that are ACTIVE | `active`, a condition for each of `Places` |

At READ COMMITTED the UPDATE that supersedes has a snapshot of its own
(`SupersedeBegins`), waits for rows that another transaction has updated, and leaves
those alone that are no longer ACTIVE (`SupersedeEnds`); it never sees the row that
another one inserts. So two racing evaluations may leave two ACTIVE decisions, and
the one that read the older evidence may commit last. `DecisionsConverge` says
that this heals: the next evaluation that overlaps with none supersedes them all.
The queries of one evaluation are one read here, and forecasts and the policy after
the synthesis change nothing that another step reads.

`Corroboration` is about a verdict that names a condition: a vote for it, or for the
generic condition it belongs to, must not turn it into a disagreement. It does not
say that votes of different conditions agree: a leakage pattern requires low flow,
and low flow by itself votes for a restriction. That the verdict is then AMBIGUOUS is
accepted in `TECHNICAL_DECISIONS.md` (ADR-172).

### Commissioning, ModelRegistry, CircuitBreaker, LocalRules

* `Commissioning`: each request reads (`Reads`) and later writes (`AddSensor`,
  `AssignGateway`, `Validate`, `Complete`). `validate` has no guard on the status of
  the session and may move a COMPLETED one back; the machine stays MONITORED.
* `ModelRegistry`: one step per file, and the checksum is taken in a step between the
  artifact and the metadata. `write_text` and `joblib.dump` truncate and then write, so a
  process killed inside leaves the file `Torn`; a torn index stops every later
  operation, as `json.loads` raises. Contents are told apart (`Builds`): a version may be
  registered again with another artifact, and `Loadable` is the test of `load()`, which
  refuses an artifact that is not the one of the checksum. A registration that is
  killed between the two files, or two processes at work on one version, leave just
  that; `spoiled` remembers these versions until one is registered again by a process
  of its own, and `ListedCanBeLoaded` says that nothing else makes a listed version
  unloadable: not promotions, not other versions, not lost entries of the index. A
  `load()` that runs while a registration writes is not modelled.
* `CircuitBreaker`: one call at a time. The breaker has a lock, but its one caller
  (`agent_service.py:235`) runs on the event loop and does not await in the call, so
  calls of a process never overlap. The provider may change during one.
* `LocalRules`: one reading after another through all four checks. A reading
  without a value clears an alert of the range check; a restart forgets all alerts
  and the debouncing.

They share no state with each other or with `DataQuality` and `RuleFindings`, so
`MCServices` lets one of its five move in a behaviour (`part`) and the others rest:
their product would add states and no behaviour that a property could see. `MCSafety`
and `MCTelemetryPath` do the same; what passes the MQTT broker is arbitrary on either
side of it, and so is the topic that `SequenceGaps` reads. `MCRecords` does so with
`Baselines`, `Decisions` and the next three, and splits the decisions in two: many
rows of evidence that change, and requests that evaluate a few.

### Knowledge, WorkOrders, EmissionFactors

Three times the same shape, one transaction that looks rows up and then writes, with
three different guards against a second one:

| code | model |
|---|---|
| `ingest`, `submit_for_review`, `retire`, `approve`; the seed, all of them at once | `edit[e]`: `IngestReads`, `MoveReads`, `ApproveReads`, `FindsPrior`, and the commits |
| two unique indexes of `knowledge_document` | `VersionFree`, `ApprovalFree`: neither compares rows whose tenant is NULL (`global`) |
| `create_work_order_draft`, reached by the endpoint or by the tool of a turn | `draft[c]`: `LooksUp`, `Inserts`, `EndpointAnswers`, `TurnAnswers` |
| `uq_demo_cmms_work_order_case` | `InsertAllowed`; an insert waits for an uncommitted one (`InsertUnderWay`) |
| `configure`, `deactivate_active_for_site` | `config[a]`: `Starts` (takes the time), `Lists`, `Updates`, `ConfigCommits` |
| `_factor_covers_period`, `evaluate_carbon` | `Covers`, `EstimateStatus` |

* `Knowledge`: a tenant's rows are guarded by the indexes; the global ones are guarded
  by nothing, so what is said of them allows one version too many for each approval that
  was `overtaken` by another. What a retired document still answers, chunks and
  retrieval are not modelled.
* `WorkOrders`: after a flush that failed a SQLAlchemy session refuses every
  statement until it is rolled back. The endpoint answers 503 and is; the turn goes
  on and fails again (`TurnCrashes`). The intent of a turn is a choice.
* `EmissionFactors`: no index at all. `lateCommit` remembers that a configuration was
  committed although another one had been since it took the time; the windows are
  in line as long as that has not happened, and `ConfigurationHeals` says what is
  left of the damage after the next one. The value and source of a factor are
  left out, and so is the seed of the hosted demonstration, which dates its
  factors back.

## 4. Runs

| run | bounds | shows |
|---|---|---|
| `path` | edge: 2 sensors, 2 events each, cap 1, batch 2, thresholds 2, queue 2, 1 crash; platform: 1 sensor, 1 valid and 1 malformed event, 1 coroutine, 1 failed send, 1 stop, 1 consumer fault | safety, refinement and liveness of the gateway, against `StoreAndForward`, and of bridge and consumer, against `IngestionPath` |
| `edge_replay` | 1 sensor, 2 events, cap 1, 2 processes, no crash | finding: replay breaks the order |
| `safety` | bridge: 2 sensors (one sends malformed events), 2 coroutines, 3 messages, 2 attempts, 2 failed sends, 1 stop; gaps: 3 numbers with a clock that goes back and gives two of them one time, 4 deliveries, batch 2, 1 run of the command, 1 fault; registry: 2 versions, 2 builds, 2 scripts at a time, 3 in all | safety of the bridge, of the numbers missing behind it, and of the model registry |
| `bridge_loss` | 1 sensor, 2 messages | finding: loss at a stop |
| `workflow` | 2 incidents with one key, 2 cases, 2 requests at a time, 2 feedback records per case | safety of incidents and cases |
| `workflow_lost_update`, `workflow_recovery`, `workflow_feedback` | as `workflow` | findings: a transition from a stale read; a recovery that fails; a second feedback record |
| `services` | findings: 3 signals, 2 contradicting patterns, debounce 2, 1 reprocess; quality: 2 sensors, 2 events, batch 2, 1 change, 1 error; commissioning: 2 machines, 2 requests, 2 snapshots; breaker: threshold 3; local rules: gates of 2, clock to 4 | the five services, with liveness |
| `quality_stuck` | 3 sensors, 1 event, 2 changes, no error | finding: a communication loss that never ends |
| `records` | baselines: 2 levels, gate of 2, 2 firmwares, 4 versions, 2 changes, 1 backfill; verdicts: 22 rows, 3 of them at a time and any as the next; decisions: 2 requests at a time, 1 row; documents: 3 rows, 2 versions, 2 editors; work orders: 2 cases, 2 requests, 3 references; factors: 3 rows, 2 requests, clock to 3 | anchors move only when confirmed, and what settles is served; corroboration never weakens a verdict, and decisions converge; one approved version, one work order per case, one factor at a time |
| `supersede_fails` | 2 documents, 1 editor | finding: a tenant's second version cannot be approved |

Why these bounds are enough. Order needs two events of one sensor; overflow, ties and
independence need two sensors; a cap of 1 makes retention run at every second insert;
a batch of 2 is cut by 4 events; two queued messages let a late delivery be followed
by a newer one; a crash can fall between any two steps. In the bridge two coroutines
are the least that can overtake one another beside the drain task, two attempts are
first and last, and three messages allow a redelivery. Three numbers leave one between
two others, whose readings have one time, while its own is before both; four
deliveries repeat one of them. In the workflow two rows can violate a unique index,
two requests are the least that race, and one after the other they make histories of
any length. A gate of 2 is the least that a blip can interrupt, for baselines,
findings, faults and durations alike; a baseline needs a second level to be promoted
to, and four versions leave room for an activation, a promotion, an invalidation and
the next one. Two sensors let the two loops of the quality worker lock rows in
opposite orders; its finding needs a third, because a loss is one of at least two
sensors. Two scripts meet in every file, on one version or on two; a third one
afterwards promotes or registers again what they have left, and two builds tell an
artifact from the one its checksum was taken of. A breaker with a threshold of 3
counts failures that neither open it nor are forgotten. Three rows and one more are a
generic vote, two votes that it may join and a vote for it; two requests are the least
that race, and five places hold the decisions they can leave and what their snapshots
name. A third document is the one that a second seed run adds beside two versions; a
third factor closes both of two that overlap. The proofs remove the bounds wherever
section 5 names a theorem.

Deadlock is checked in every run but `services`, where the local rules' clock, the
topic and the snapshots come to their bounds, `quality_stuck`, whose topic ends, and
`records` and `supersede_fails`, where rows, references and the clock
come to theirs, and `safety`, where the deliveries of the gaps and the
scripts do; the bridge itself never stops, as Kafka may always come or go. The findings:

* `edge_replay`: the replay command runs beside the gateway on one file; the
  documentation says a second process fails fast. Retention takes an older event out
  of the table while the runner still holds it in its batch, so the replay, which
  reads only the table, sends the younger one first.
* `bridge_loss`: the MQTT acknowledgement precedes durable storage; the
  documentation says at-least-once.
* `workflow_lost_update`: a transition is validated against the state the request
  read and written over whatever the state is then; the documentation says
  transitions are validated.
* `workflow_feedback`: a completion that has read its case before another one ended it
  goes on once the incident was reopened and acknowledged, and writes a second feedback
  record; the documentation says there is one for each completed case.
* `workflow_recovery`: a REOPENED incident may not be resolved, so an evaluation
  that finds normal operation fails and resolves none of the machine's incidents;
  the documentation says it resolves every one.
* `quality_stuck`: the communication loss of a machine is kept at the lowest sensor
  that reports, and looked for at that sensor only; the documentation says a rule
  that stops firing recovers at the first clean cycle.
* `supersede_fails`: the new version is written as APPROVED before the prior one is
  retired, and the index on APPROVED versions refuses that for the documents of a
  tenant; the documentation says approving supersedes in the same operation.

Six more disagreements with the documentation are in the models and have no run of
their own: `enforce_retention` sheds by sequence number over all sensors where the
documentation says oldest (`SelectOverflow`), and the bridge's retries and spool
reorder a sensor's stream although the documentation says the partition key keeps the
order; `OvertakenOnlyInTrouble` says exactly when they do. REFINE_ACTIVE writes the
new statistics over the anchor that the next evaluation is compared with
(`UpdatedRow`), so a drift in small steps moves an anchor that, by the docstring of
`promotion.py`, only a PROMOTE moves. Where the source clock has gone back,
`sequence_gap` names readings that were assessed (`GapsAreReal`), although its
docstring says it "only fires on a forward jump" (`completeness.py:49`).
Configurations that race leave two active emission factors (`OneFactorAtATime` says
when they do not), although `emission_factor_repository.py:67` says "at most one
factor is ever active". And a chat turn whose draft loses the race for its case
crashes when it records that its tool failed (`TurnCrashes`), although a comment in
`agent/tools/registry.py` says a tool failure never crashes the turn.

### Fairness

`MCTelemetryPath` states the fairness of `EdgeGateway` and that of `TelemetryPipeline`
for the part that moves. The gateway's (`GatewayFairness`, `EdgeFairness`) is weak:
threads are scheduled, paho's thread delivers while the link is up, the container
restarts (`restart: unless-stopped` in `docker-compose.yml`). `BacklogDrains` adds as
premises what no code can guarantee: the link stays up and replies come in time from
some point on. That of the pipeline (`PlatformFairness`) is weak too: coroutines and
loops are scheduled, the producer writes while Kafka answers, processes restart; the
premise is that Kafka stays up. Failed sends, stops and lost replies are bounded by
`MaxTroubles`, `MaxStops` and `MaxFaults`, so they end.

The workers need strong fairness where an action is enabled again and again but
not for ever. `BaselineFairness`: every transaction ends (weak); a worker that reads
and commits for ever is not undone every time, and the sweep comes to mark what it
finds (strong); `PartFairness` of `MCRecords` is the same for the part that moves.
`FindingFairness`: evaluations end, are begun again (weak), and not
every one fails or loses a savepoint (strong). `QualityFairness`: the window loop
goes on (weak), PostgreSQL ends a deadlock by choosing a victim (weak), and the
topic loop comes to each of its steps (strong): it waits for row locks
that the window loop takes and gives back in turn, and PostgreSQL grants a row
lock in the order of asking. `BreakerFairness`, weak: time passes, calls keep being
made, a call ends, as its client has a timeout. Without new calls a breaker stays OPEN:
nothing closes it by itself.

Each of the liveness properties has as its premise that the environment (link, Kafka,
provider, machine, sensors) comes to rest. `Workflow`, `Commissioning`,
`ModelRegistry` and `LocalRules` assume no fairness: all that is stated of them is
safety. Nor does `Decisions`: nobody need ask for a decision, so `DecisionsConverge`
has as premise that evaluations go on being committed and no longer overlap.
`Knowledge`, `WorkOrders` and `EmissionFactors` assume none either. Nothing is assumed
about `PublishTimesOut`, `AttemptFails`, `KafkaChanges`, `LinkChanges`, errors or
restarts.

## 5. Proofs

Assumed are only the named ASSUMEs on the constants, and in two theorems of
`EdgeOrderProofs` that the sensors are finite and in all of it that `Procs = {Runner}`
(without which the order fails: `edge_replay`); `DecisionsKeepApart` assumes that the
rows of evidence of one part of a run are among those of the other. Every theorem has
the same shape: an invariant that is stronger than the property, that it holds
initially, one lemma or step per action that it is kept, and that it implies the
property.

* `EdgeGatewayProofs`, for any number of processes: `TypeCorrect`, `FreshIds`,
  `SettledIsDelivered` (of `SettledMeansDelivered`, also with a replay beside the
  runner, where `CustodyPromise` says nothing), `ConnectivityIsTruthful`. The
  invariant behind the second says that rows exist only up to `lastSequence` and that
  the one being inserted is still absent; behind the third, that an event whose send
  was confirmed is in `delivered`: it has left the outbox, and a message leaves the
  outbox of a live process only by delivery. The fourth holds of each record by
  itself, for any thresholds.
* `EdgeOrderProofs`, for the runner alone: `HeadOfLine`, `OrderOfDelivery`,
  `Finality`, `CustodyKept`, `BacklogIsBounded`. The properties are not inductive:
  that a younger event is not sent early depends on the batch, which is out of date.
  `Inductive` adds `LockInv` (turns of the two threads do not mix), `BatchInv` (what
  the pass holds is unsettled, what is queued was failed or is current) and
  `PrecedenceInv`: whenever an event has been attempted, every older event of its
  sensor is settled or gone for good, and everything older than a batch row is in
  the batch, over, or current. One lemma per action shows that it is kept.
  `CustodyKept` maps each step to a step of `StoreAndForward` or a stutter.
  `BacklogIsBounded` counts PENDING rows (`PendingInv`: the cap, the rows retention
  has not come to, one more for each crash) and uses `HeadOfLine` for the others:
  a sensor has at most one FAILED row.
* `BridgeProofs`: `BridgeTypeCorrect`. `QueuesInv` makes it inductive: each record
  lies in the topic of its message, no two of a topic have one owner, and what a
  coroutine awaits is in the queue, so whoever is told of an outcome was waiting
  for it.
* `PipelineProofs`: `SpoolHasNoDuplicates`, `SpoolIsKeptUntilWritten`,
  `NothingIsDropped`, `OvertakingNeedsTrouble` about the bridge;
  `PipelineImplementsBridge`, by which they hold of the composition;
  `PipelineTypeCorrect` and `OffsetsFollowTables` about the consumer;
  `PathPromiseKept`, the refinement of `IngestionPath`. The invariant of the spool
  says that the drain task's send, once its reply has come, was of a record that is in
  the topic; that of `NothingIsDropped` follows each acknowledged event from the
  coroutine into the spool or the topic; that of `OvertakingNeedsTrouble` has to say
  where every younger event is: as long as an acknowledged event is on its way without
  trouble, its record is awaited, and a younger event of its sensor is behind it, in
  the schedule, with a coroutine or in the producer's queue (`OrderInv`), which holds
  because the drain task sends only what was in the spool and a first attempt is made
  in the order of arrival (`PlacesInv`); that of `OffsetsFollowTables` says that a
  batch whose transaction is over is stored up to its end, so that the commit that
  follows, or repeats, may pass it. For `PathPromiseKept` the bridge's invariants are
  not quite enough: what is queued for the topic must be held by a coroutine, the
  spool or the topic as well (`QueuedIsHeld`), or an abandoned record could bring back
  an event that was gone; and what a transaction adds to the tables must come from the
  telemetry topic (`DlqOK`).
* `WorkflowProofs`, for any rows, keys and number of requests: `WorkflowTyping`,
  `PlannedTogether`, `SingleCompletion`. Lemma `Steps` shows that every action is a
  commit that takes no case back (`Works`), the completion of a case, or no change of
  the tables (`Between`), so each theorem has three cases. `RequestInv` (what a
  request writes follows from its operation) and `CaseInv` (a case has its incident
  for good) make the types inductive. `SingleCompletion` needs `RowLockInv`, one
  request per locked case, and `ReopenedInv`: a case with feedback whose incident is
  open has had it reopened, also at the moment a completion under way looked at it;
  without the lock a second completion could have looked before the first one
  committed.
* `MonitoringProofs`, in three parts.
  - `CommissioningTypeCorrect`, `MonitoringIsInstrumented`, `HistoryIsLinear`. That a
    machine is monitored is decided on what a request has read: the invariant follows a
    READY verdict from the sensors it counted, which are never taken away, through the
    session to the request that completes it. Snapshots stay in line because an
    assignment ends the snapshot it read and inserts the next version, and one that read
    an older snapshot does not commit.
  - `GapTypeCorrect`, `NumbersStayAccounted`, `FoundGapsAreReal`. The property is
    stated of what is committed, and `GapInv` of the transaction that holds the row as
    well: the row it has made, the numbers it has assessed and the gaps it has noted
    account for each other as the committed ones do. Nothing is assumed of the source
    clock, so all of it is told by what the row says: an assessed number is below the one
    expected, or its reading is older than the newest one seen.
  - `FindingTypeCorrect`, `NeverContradicts`, `FindingsStayDebounced`. `LifeInv`
    says that what the worker has read of the open rows is still true, ties the state
    of each row to the evaluations counted, and that no evaluation calls for both of the
    patterns that contradict each other: one needs the pressure to deviate and
    the other that it does not, and a row stays ACTIVE only while its pattern is called for.
* `ServicesProofs`, about each service by itself. `CycleFailureIsConfirmed` needs that
  the time since which the pressure is low is not before the last contradiction, and
  that neither it nor the alert exists before both signals are known: without the
  latter a reading whose partner is missing would leave an alert open.
  `OffsetsFollowAssessment` needs that a batch begins at the committed offset and,
  once stored, has everything up to its end assessed or excused. `ListedStaysLoadable`
  and `StatusesStayEqual` (together `RegistryStaysConsistent`). `StoredInv` follows a
  registration that is alone from the artifact, which is its own build, to the
  checksum and the metadata, and a promotion that is alone over metadata it does not
  change but for the status; on a version that is not `spoiled` every process is alone
  (`UnspoiledAlone`), so what is there can be loaded unless a registration is half
  done; and no entry is in the index, or about to be written, without metadata
  (`ListedHasMetadata`). `AgreementInv`: a script that has worked alone so far has
  left index and metadata equal but for the entry it is writing. Types:
  `LocalTypeCorrect`, `QualityTypeCorrect`, `RegistryTypeCorrect`,
  `BreakerTypeCorrect`. That `MCServices` lets one service move at a time loses
  nothing that is proved: `ServicesKeepApart` shows that a behaviour of it is one of
  each service, so that all of this holds there too, `ServicesTypeCorrect` for one.
* `RecordsProofs`, likewise (`RecordsKeepApart`, `DecisionsKeepApart`,
  `RecordsTypeCorrect`).
  - `BaselineTypeCorrect`, `AnchorStaysConfirmed`. `AnchorInv` says, until a backfill
    runs, that an anchor is in a current row, that the candidate of that row is the last
    level seen and was near each of the evaluations that its count stands for, all of them
    away from the anchor, and that what the worker has read is still so, with the decision
    that follows from it. A backfill is outside: it may give a version back that was ended.
    That the current row and the next version are the greatest of their kind needs
    the least-number principle (`LeastOf`, `MaxOfSome`).
  - `CorroborationHolds`, about any set of rows of evidence: a vote for the one
    hypothesis, or for a generic one that folds into it, leaves the set of hypotheses as
    it is (`VoteAddsNoHypothesis`), and what the verdict on one hypothesis counts only
    grows (`SingleGrows`).
  - `OneReferencePerCase`. `WorkOrderInv`: a case has at most one insert under way and
    none beside a committed row, and what a request is about to answer is in the table or
    is the row it has inserted.
  - `KnowledgeTypeCorrect`, `VersionsAreSuperseded`, `VersionsAreIngestedOnce` (together
    `VersionsKept`). `KnowledgeInv`: what an editor who has not been overtaken has read
    still holds, in particular that the approved documents are at most its prior one, up
    to the count of `overtaken`.
  - `WindowsDoNotOverlap`, `ConfigurationLeavesOne`. `FactorInv`: from the first factor
    on, exactly one window is open at each time, also at times to come, and what a
    configuration that has not been overtaken has listed are exactly the active factors.

Some of these theorems are about properties that no run checks, because another one that a
run does check covers them there: `HeadOfLine` and `Finality` (`FirstDeliveryInOrder`,
`CustodyPromise`), `SpoolIsKeptUntilWritten` (`NeverDropped`), `FoundGapsAreReal`
(`NumbersAccounted`, which says which assessed numbers may still be expected).

Only model-checked is what the proof system cannot do, liveness under fairness:
`BacklogDrains`, `SpoolEmpties`, `AcknowledgedIsStored`, `FindingsFollowMachine`,
`QualityFollowsSensors`, `BreakerCloses`, `SettledLevelIsServed` and
`DecisionsConverge`.

## 6. Not modelled

In the modelled components: metrics, logging, health servers, backoff delays, payloads
and audit rows; the rules of a single event and the assessments of data quality;
thresholds and severities of the rules; forecasts, priorities and the lifecycle label
of an assessment; the static reference baseline and the lineages by context; evidence
and timeline of an incident that stays open. `PROJECT.json` says for each component
what is left out of it.

Not modelled at all, because nothing in them waits, interleaves or fails half-way
beyond one database transaction:

* the numeric engines: features, state estimation, prognostics, energy and carbon
  assessments, attribution and outcomes, ML training and inference. They map query results
  to rows by arithmetic over policies and are left to unit tests;
* CRUD and read models: asset hierarchy, portfolio, customer services, product
  metrics; the domain tables and migrations, whose constraints appear in the models
  as guards where an action depends on them (the partial unique indexes);
* authentication, authorization and audit: lookups in one request and an
  append-only log;
* chunking and retrieval of documents, intents and the composition of answers, the
  frontend and the simulator: text, pages, and a physics
  simulation that serves as a data source; scripts that seed demonstrations.
