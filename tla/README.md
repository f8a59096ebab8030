# Rostfrei: a TLA+ development of the command runtime

Rostfrei is a Rust toolkit for event-sourced domains. An application sends
*commands*; a command loads aggregates from an event journal, decides, and its
decision (an acceptance with events, or a business rejection) is stored
permanently, once per operation. NATS JetStream is the production transport and
storage. This directory holds TLA+ modules translated from the source, the TLC
models that check them on small instances, and TLAPS proofs of the results that
matter most.

## 1. Inventory

### The command path

**Executor** (`rostfrei-core/src/executor.rs`, `conflict_retry.rs`,
`proposal.rs`, `outcome.rs`). State: the loaded streams and raised events of one
attempt, and the number of evaluations. It looks the operation up, evaluates the
handler if nothing was decided, proposes a transaction, and reacts to the
answer: appended, exact replay, conflict, or identity conflict. *Correct when* an
operation has one decision, it was made on a consistent snapshot, and every
caller learns that decision and no other.

**NATS event store** (`rostfrei-nats/src/event_store.rs`,
`event_store/outcomes.rs`). State: the journal stream (aggregate subjects,
transaction receipts, guards) and, with split outcomes, a second stream with the
details of each decision. A transaction is one atomic batch whose messages carry
expected last subject sequences. The two streams have no common transaction:
details are written first with compare-and-set, then the batch. An administrator
may expire details. *Correct when* no decision lacks its details and an expiry
is final, whatever was delayed or lost on the way.

**Command processor** (`rostfrei-runtime/src/command_bus.rs`,
`command_bus/processing.rs`). Stateless; turns executions and their errors into
responses: business outcomes, retryable or blocked diagnostics, or none.

**Command handler and caller adapter** (`rostfrei-nats/src/messaging_adapter.rs`).
State: per-process execution gates. The handler reads the retained response, asks
the shared authority, processes, publishes a response, and returns a disposition.
The caller's `dispatch` publishes the command and waits for a response, which it
believes only after asking the authority again, if it has an outcome service.

**Response publication** (`response_publication.rs`, `command_response.rs`,
`response_storage.rs`). State: the response stream, one subject per command. A
prepared response fixes its predecessor and publication identity; a business
response must never be overwritten by a stale attempt.

**Durable consumer** (`consumer.rs`). State: the work-queue stream and the
server's delivery counts, and the quarantine stream. It enforces the processing
timeout, applies dispositions, and terminates a message only after its
quarantine record is durable.

### Behind the command path

**Domain-event workers** (`rostfrei-nats/src/domain_event_consumer.rs`). State:
one durable pull consumer per subscriber, with explicit acknowledgements and a
single pending delivery; the workers themselves keep nothing. Any number of
replicas pull from it. The first event of a committed transaction stands for the
work of all of it: the receiver reads the rest from history, runs every handler
and confirms the first event; later events then only drain the durable. *Correct
when* a confirmed event was handled with its whole transaction, first effects
follow the journal, and a restart or a late attempt neither skips an event nor
mistakes the tail of a transaction for a broken history.

### Stores and history

**In-memory store** (`rostfrei-core/src/memory.rs`). State: streams, direct
operations, transactions, completed decisions with their details, all under one
mutex. Lookups take the lock twice, so an expiry can come between. *Correct when*
it keeps the promises of the durable authority and gives out nothing withdrawn.

**Single-stream appends** (`rostfrei-nats/src/event_store.rs`). A direct append or
a session's append is one conditional batch; a lost acknowledgement is resolved by
reading the stream again, and a recreated stream is recognised by its
incarnation. *Correct when* a refused batch never shows up.

**Stored history** (`event_store.rs`). Reads rebuild commits from messages, check
their layout and digests, and audits walk whole streams while others append.
*Correct when* an accepted history is a beginning of what was appended.

**Namespaces** (`event_store.rs`, `event_store/outcomes.rs`). Stores are created,
updated and connected in steps that may be cut off and race. A journal of an epoch
and its state stream are bound to each other. *Correct when* a handle writes only
within its own epoch and pair.

### Events and documents

**Integration events** (`rostfrei-runtime/src/integration_event_bus.rs`,
`rostfrei-nats`). State: the integration stream with a bounded duplicate window,
and a durable per subscription. *Correct when* an event has one effect per
subscription and schema.

**Read models** (`rostfrei-runtime/src/read_model/`, `rostfrei-nats/src/read_model.rs`).
State: a key-value bucket of documents with their checkpoints. *Correct when* a
document is exactly the events up to its checkpoint and no two running models
share a name.

### Services

**Command service** (`command_bus/processing.rs`, `command_service.rs`). State:
authorization policy (external), outcome store, audit queue with a limit. *Correct
when* an outcome is given only to its own scope and content.

**Query bus** (`query_bus.rs`, `rostfrei-nats/src/query.rs`). State: requests and
replies in flight, slots of each server. *Correct when* a value answers the question asked.

**Fixtures** (`rostfrei-fixtures`). State: the streams written. *Correct when* a
report stays true although others apply or write at the same time.

**Tracer host** (`rostfrei-tracer/src/nats_host.rs`). State: a read-write gate, the
lifecycle of the runtime and its workers. *Correct when* nothing is invoked on
streams that a reset deletes or left half created.

### What is shown to people

**Tracer** (`rostfrei-tracer/src/service.rs`, `correlation.rs`, `message_series.rs`,
`observation.rs`). State: the table of operations with their tasks and deadlines,
records per correlation with followers, test runs and captures, the observation
window with its subscribers. *Correct when* a retry starts nothing twice, a test passes
only on settled evidence that matches, and nobody waits for a notification that
was lost.

**Broker observer** (`rostfrei-tracer/src/nats_host.rs`, `rostfrei-nats`). State: its ordered
consumers and the message in hand. *Correct when* nothing from before a reset is shown after it.

**Quarantine inspection** (`rostfrei-nats/src/quarantine.rs`). State: cursors and
permits. *Correct when* a finished traversal is one snapshot.

**Agent skills installer** (`rostfrei-structure/src/agent_tools/`). State: files of the
consumer's project, a lock and a backup. *Correct when* no edit is lost.

### Not modelled

The HTTP adapter, the domain macros, the registry and structure tools, the test
kits and benchmarks, the examples, the studio and the website: they translate or
generate and keep no state that the runtime's correctness depends on. The map of
`PROJECT.json` covers the control of the modelled parts; the lines outside it are
mostly type definitions, constructors, accessors, codecs, error mapping, inline
tests and these parts.

### How the parts interact

    caller --dispatch--> command stream --delivery--> consumer --> handler (gates)
      ^                                                   |             |
      |                                             ack / nak / term    v
      +---- response stream <---- compare-and-set ----------------- processor
                                                                        |
                                  journal + outcome state <-------- executor

Calls to the server may time out while the server still processes them, now or
later. Several hosts consume the same durable consumer; the gates exclude each
other only within one process.

## 2. Modules

| module | content |
|---|---|
| `DecisionLog` | what the runtime promises: a log of decisions, one per operation, that callers are told and that may be withdrawn once |
| `CommandExecution` | executor, NATS journal and outcome state, network, administrator |
| `CommandDelivery` | caller, consumer, handler, response subject, quarantine |
| `DomainEventWorker` | replicas of a subscriber, durable consumer, journal of transactions |
| `MemoryStore` | the in-memory store, a second implementation of `DecisionLog` |
| `StreamAppend` | appends to one stream, direct and in sessions |
| `StoredHistory` | layout, reading, auditing and listing of stored commits |
| `StoreNamespace` | provisioning, updates and connections of a context's streams |
| `IntegrationFlow` | publication, duplicate window, delivery and effect of integration events |
| `ReadModel`, `ReadModelSetup` | materialization of documents; registration and connection of models |
| `CommandService` | admission, authorization, outcomes and audit |
| `QueryBus` | requester, servers and processor of queries |
| `FixtureApplication` | validation, planning and application of fixtures |
| `NatsHost` | the host's gate, starts, resets, fixtures, supervision and shutdown |
| `TracerOperations` | the operation table, its tasks, watchers and scenario resets |
| `TestEvaluation` | the settling windows of test runs and captures |
| `CorrelationHub` | records of a correlation, their events and followers |
| `ObservationFeed`, `StreamObserver` | the observation window; the task that fills it |
| `QuarantineInspection` | pages and details of quarantined messages |
| `SkillsInstall` | installation of agent skills |
| `MessageSeries`, `MessageGraph`, `Causation` | comparison of message trees, validation of expected graphs, causation cycles |
| `EventConsumers`, `Storage`, `Services`, `Tracer` | what a group of components promises: the group's instances, the assumptions on their constants and their properties, so that runs and proofs speak of the same definitions |
| `*Proofs` | theorems about the module of that name |
| `MC*` | instances, initial states and symmetry for TLC |

Definitions whose comment starts with *Fault* are not part of a specification.
Each is a plausible slip in the definition it stands next to, and shows that the
corresponding property notices.

### CommandExecution

`journal` is the journal stream with one entry per committed batch; an entry
holds the request, the decision, the streams read with the sequence seen
(`base`) and the streams written. `state` is the outcome-state stream by detail
reference. `delayed` are requests whose sender stopped waiting. `pc`, `req`,
`evals`, `cand`, `ack` are the locals of each running execution and `reply` what
it returned.

| action | code |
|---|---|
| `Start`, `LookupReplay`, `LookupMissing` | head of the loop in `execute_completed_with_rejection_codec`, `lookup_completed` |
| `Load`, `Accept`, `Reject` | `CommandExecution::load`, `finish`, `finish_rejected` |
| `ResolveConflict`, `RetryAllowed` | the conflict arm of the loop, `BoundedConflictRetries` |
| `CheckReceipt` | first half of `append_transaction_with_histories` |
| `PrepareDetails`, `PrepareUnknown`, `ConfirmDetails` | `publish_state` and `prepare_details` |
| `PublishAccepted`, `PublishExpectation`, `PublishCapacity`, `PublishUnknown` | `publish_atomic_messages` and its error classes |
| `ResolveRace`, `ReconcileUnavailable` | `resolve_transaction_race`, `reconcile_unavailable_transaction_publish` |
| `CommitResult` | `commit_native`, `resolve_marker` |
| `Abandon` | any failed call, dropped future or crash |
| `ExpireDetails` | `expire_details` |
| `DeliverState`, `DeliverBatch` | the server handling a late request |

What is abstracted. All events an attempt raises on one stream are one write, and
a stream's last sequence is the position of its last batch. The order of
participants in a batch plays no part, because the batch is atomic. The
identity check against loaded event identifiers during staging cannot fire after
the receipt read found nothing and the guards hold, so it is folded into the
receipt check; the history reads of the two recovery paths are folded into their
receipt read. The session reuses the histories the handler loaded, so staging
reads nothing anew. `expire_details` is one step: `Active` is written at most
once per subject and receipts never change, so what it reads before its
compare-and-set cannot become stale in a way the set would accept. Streams are
not deleted and recreated.

### CommandDelivery

One command with one response subject. `source`, `attempts` and `quarantined`
describe each publication of the command; `records`, `removed` and `delayed` the
response subject; `winner` the shared authority; `pc` and `job` each delivery in
progress; `cpc`, `heard`, `told` the caller.

| action | code |
|---|---|
| `Deliver`, `ProcessingTimeout`, `Acknowledge`, `Nak` | `process_message`, `handle_with_progress`, `apply_disposition` |
| `QuarantineStored`, `QuarantineFails`, `Terminate` | `publish_quarantine`, `quarantine_or_nak` |
| `Abort` | crash, or an error that ends `try_for_each_concurrent` |
| `Refuse`, `AcquireGate`, `ReadResponse`, `ConsultAuthority` | `NatsCommandHandler::handle` |
| `ProcessCompletes`, `ProcessFails` | `process`, `CommandProcessorError::execution`, `technical_response` |
| `Prepare`, `PublishStored`, `PublishReconcile`, `PublishUnknown`, `Verify`, `VerifyUnavailable`, `TryAgain` | `response_publication.rs`, `publish_response` |
| `AgeOut`, `RemoveDiagnostic` | retention, `remove_blocked_diagnostic_for_redrive` |
| `Dispatch...` | `NatsMessagingAdapter::dispatch` |

What is abstracted. The execution is one step that decides at most once; that it
may be treated so is what `CommandExecution` shows. The duplicate window is a
choice: a publication whose identity was stored before may or may not be
recognised. A second element of `Copies` is the same command published again
after the window. A negative acknowledgement leaves the message queued and the
delay is not represented. Responses of foreign publishers, undecodable retained
responses, expiry of the command stream and recreation of streams are left out.
A delivery count saturates one past the maximum, since the code distinguishes
nothing beyond it.

### DomainEventWorker

`journal` holds one message per stream sequence; an event carries the start and
the length of its transaction. `pending` and `floor` are the durable's one
unacknowledged delivery and its acknowledgement floor, `handled` the positions
whose handlers have run, and `pc`, `msg`, `seen`, `next` the locals of each worker.

| action | code |
|---|---|
| `Commit` | one atomic batch of the event store |
| `Deliver` | a pull on the durable configured by `durable_domain_event_consumer_config` |
| `Inspect`, `Locate` | the two halves of `process_event` before any effect |
| `Reconstruct`, `Dispatch` | `reconstruct_transaction` with its validations, `handle_transaction` |
| `Acknowledge`, `Defer` | `acknowledge_delivery`, `defer_delivery` |
| `Fail` | an unavailable call, a retryable handler error, the processing timeout |
| `Abort` | an error or a shutdown that ends `run_until_shutdown`, or a crash, and the next start |

What is abstracted. The server may deliver the pending event again at any time,
also while its first receiver is still working: the acknowledgement wait is not
represented, and so neither is a negative acknowledgement, which only ends that
wait early. Dispatching an event nobody handles counts as handling it. Handlers
that fail for good end the worker, which is `Abort`; the restarted worker meets
the same event again. The history is sound (transactions are contiguous and
complete, as the atomic append leaves them), so the checks of
`validate_next_event` and its neighbours succeed except that an event which is
not first is refused, and the journal never loses messages. A migrated
durable (`start_sequence`) may report a floor below its start: the model takes
the lowest, 0, and assumes the saved sequence lies on a transaction boundary.
The filter for fixture events exists only for tests and is left out.

### The stores

`MemoryStore`. `streams` holds the events, `operations` the batches with their
provenance, `transactions` the stored proposals and `details` the lifecycle of the stored reply details; one
action is one critical section of the mutex. Each client runs one call at a time
(`pc`, `job`, `seen`). `log` and `at` are history: the order of decisions and
where each loaded version was last current. Event identifiers are derived from the
operation, so equality of identifiers is equality of operation and position. The
limit on single items and `Exact(0)` are left out; the hot reader is the store
itself, the cold reader (`Archived`) keeps bytes that the store forgot.

`StreamAppend`. A batch of events is one entry; `delayed` are requests whose writer
stopped waiting; transactions of others are single steps of the environment. A
stream is recreated only when no publication is under way, as
`docs/command-failures.md` demands. A rejection as a duplicate identifier is a
publication without an answer.

`StoredHistory`. The log is intact or holds a damaged message; damage comes only
while nobody reads, and nothing is appended behind it. One read is one step. Actor,
correlation, causation and fingerprint are folded into the operation, altered
content into a checksum flag; the legacy receipt layout is left out.

`StoreNamespace`. One step per broker call; creating an identical stream succeeds,
as on the server. Publishing an outcome and its details is one step. `written` and
`misses` are history. A stream is deleted only with writes drained, as
`docs/completed-outcome-cutover.md` describes. Two concurrent updates may lower a
size, which the operator owns.

### Events and documents

`IntegrationFlow`. `stream` holds the published copies with their times, `window`
what the server still recognises as a duplicate, `effects` what subscribers did.
Time is not part of a message's identity, its schema is: `OneEffect` is per schema
(`docs/domain-event-workers.md`). Conflicting content under one identity is
answered as a rejection. Worker order and command delivery are those of the
modules above.

`ReadModel`. A document's value is the sequence of versions applied to it per
source; version 0 stands for every invalid message. Removal and expiry of documents
are `Delete` and `Expire`. The single read, the codec's bytes and consumer names are
left out; recreating a bucket is a documented stop of everything. `ReadModelSetup`
has the registrations and the checks of the builder, and the claims on names.

### Services

`CommandService`. `Trusted` is the profile without policy; `ident` is content, actor,
correlation and causation, `stamp` the creation time. The execution is one step.
The authorizer and the store are external, as is a sink that owes no answer;
`Proxied` is a service that mixes outcomes up. `reports` is history. Unavailable or
archived details and legacy evidence are left out.

`QueryBus`. A request's identity is its message identifier and correlation, which
repeat when the caller asks again. Sizes are counted in units, and the bindings of
a server are constant. The in-memory adapter, which has one server and loses
nothing, is left out.

`FixtureApplication`. Codecs and limits are folded into `Valid`; the order of loads is
free; writes of commands are `Foreign`; lost answers are bounded by `MaxFaults`.

`NatsHost`. One worker group is two workers; tokio's `RwLock` is a queue in order of
arrival; an administrative call may be dropped at every await. An aborted worker
takes nothing new but may finish a publication. Fixtures stand for their events. The
second dispatch runtime, which runs the same code, and the HTTP listener are left out.

### What is shown to people

`TracerOperations`. `recs` are records with their task and watcher, `table` the listed
ones, `order` the queue in which the service looks for one to evict. The run gate orders test submissions and resets. A conflicting fingerprint
changes nothing, so payloads are left out. A task may be cancelled at any wait for
a lock; a pinned submission dropped before its task is spawned leaves a queued
record until the next reset. A correlation that refuses its first event, over the limit
of bytes, is left out. The transport is external.

`TestEvaluation`. A comparison is equality of sets and a boundary; a poll interval is
one tick of a clock that ends at `MaxTime`; the work limit is an outcome of its own.

`CorrelationHub`. Bytes are counted as items; `MaxRevision` and `MaxRecords` bound it.

`ObservationFeed`. One lock is one step; bytes are counted in units; redaction is left
out. `StreamObserver`: a refresh and a poll are each one step, messages without a
correlation are left out, an abort takes effect at the next await. A reset that is
itself cancelled forgets the task it aborted, which `loose` records.

`QuarantineInspection`. One scope per instance; a record is its kind, shape, size and
content; the two deadlines are one. `SkillsInstall`: the second look is one step; file
modes and symbolic links are left out; a lock left by a killed tool is removed by hand;
edits during the replacement itself are not promised (`docs/agent-skills-install.md`).

`MessageSeries`, `MessageGraph` and `Causation` are pure algorithms against reference
definitions over bounded inputs. A name stands for kind, name, version and context,
a payload is a set of fields, and the limit on work is left out.

## 3. Runs

| run | properties | shows |
|---|---|---|
| `CommandDecisions` | `ReadsWereCurrent`, `DecisionHasDetails`, `ImplementsDecisionLog` | two operations over two streams, and over one whose details are withdrawn while an `Active` publication is delayed: the journal is a serial history and implements `DecisionLog` |
| `CommandIdentity` | `TypeOK`, `OneDecision`, `ReplyIsWinner` | rivals on one operation, of equal and of other identity, with a rejection; and with a late request and withdrawn details: the operation is decided once and every reply is the winner |
| `CommandWithdrawn` | `ExpiredStaysCompleted` (violated) | section 5 |
| `Delivery` | `AckMeansAnswered`, `TermMeansQuarantined`, `DiagnosedHasEvidence`, `ResponsesMatchAuthority`, `CallerToldWinner`, `BusinessNeverOverwritten` | two hosts with late publications; a legacy response of unknown truth with the command published twice; quarantine storage that fails or is in doubt |
| `Events` | `ConfirmedWasHandled`, `EffectsInOrder`, `HistoryAccepted`, `DomainIsComplete`, `SettledHasEffect`, `NameHeldOnce` | replicas with overlapping deliveries, documents under deletion and late answers, builders of one model |
| `Integration` | `OneEffect` | integration events stored, forgotten by the duplicate window, stored again and delivered repeatedly, under schemas and mappers that change |
| `MemoryStore` | `NoDetailsAfterExpiry`, `StoreImplementsDecisionLog` | the in-memory store: one operation used directly, unscoped and in two contexts, and decisions whose details are withdrawn |
| `Storage` | `RefusedIsAbsent`, `AcceptedIsTrue`, `NamespacesStayApart`, `NothingFromBefore`, `TraversalIsExact`, `EditsSurvive` | appends with recreated streams, damaged history, provisioning that is cut off, an observer of recreated streams, pages of quarantined messages, installation of skills |
| `Services` | `OutcomesStayInScope`, `AnswersAreOurs`, `ReportIsTrue`, `InvokedOnWhole` | a changing policy and a mixed-up proxy, stray answers, fixtures applied twice at once, resets dropped at every step |
| `Tracer` | `OneTaskPerIdentity`, `PassedIsSettled`, `AcceptedIsATree`, `ToldMeansShown`, `PassedIsIsomorphic` | operations retried while they are evicted and reset, evidence that keeps changing, expected graphs and their comparison with series, the observation window |
| `Progress` | `Returns`, `Settled`, `EventuallyConfirmed`, `NobodyWaitsForever` | the liveness of execution, delivery, workers and followers |
| `OperationPublication` | `AcknowledgedIsNeverFailed` (violated) | section 5 |

**Composites.** `MCEvents`, `MCStorage`, `MCServices`, `MCTracer` and `MCProgress` hold
several components that share no state. The variable `part` names the instance a
behaviour is about; all others rest in their first state, so the state space is the
sum of the parts and not their product. `MCCommandExecution` holds four instances of one
module, of which a run names its own with `Parts`; `MCCommandDelivery` and `MCMemoryStore`
hold several, too; `MCIntegration` is a plain instance. `MCEvents`, `MCStorage`, `MCServices`
and `MCTracer` extend `EventConsumers`, `Storage`, `Services` and `Tracer`, where the
properties are stated that section 4 proves.
A property of a part that uses constants of one instance is stated for the
parts that have these constants.

**Bounds.** Two workers are the least that race, and every hazard of the command
path is a race of two parties with a third (the network or the administrator),
which is present as actions. Two streams let a decision read one and write the other.
In `isolation` the two workers execute different operations (`Apart`), since rivals on
one operation are what `CommandIdentity` is about; a conflict ends the attempt there,
and `expiry` lets it retry. One delayed request is enough for a late publication to arrive
after a retry; a second adds only commuting orders. `MaxTries` stands for
`MAXIMUM_PUBLISH_ATTEMPTS` (3 in the code) with fewer tries. In `Delivery` the part
`responses` publishes the command once and `authority` keeps one worker idle: the first
is about two hosts, the second about two copies. For the
workers, five messages hold a transaction of three events with its receipt and
one more, or two transactions of two: a tail with more than one event, and a
transaction after it. Read models see up to three events of one key, one lost answer and
one removal; the integration flow has one event for its
subscription and one without a trace, two copies in the stream, two schemas and two
versions of the mapper. The other components have two clients, tables of one or two
places, so that every eviction, refusal and exhausted limit occurs, and one or two faults,
each at any step. Graphs have up to three nodes with every field and up to five by
shape; series up to four messages. The proofs of section 4 need none of these bounds.

**Fairness.** Only `Progress` has any, and it says whose. *Executions*: weak
fairness of each execution's own steps, since tokio polls a ready future and every
remote call has a timeout, so some step follows; `Start` and the environment are not
fair. *Deliveries*: the same of handlers; that the server redelivers a message that
was not settled (`max_deliver` is -1 and is verified on start); and that the quarantine
publication and the final acknowledgement do not fail for ever (strong fairness,
since a crash may disable them in between). Without the last assumption a
command that cannot be quarantined is redelivered without end, as the code
intends: nothing may be terminated without evidence. *Workers*: that they take their
steps and keep polling, that the server answers a pull when an event is due, and that
failures end: `Calm` marks that moment and is used for nothing else. A handler that
fails for ever blocks its subscriber, as the code intends. *Followers*: that observers
finish what they began, that a woken follower runs, and that a closed record is closed
for its followers too.

**Deadlock** is checked in `CommandIdentity`, `CommandDecisions` and `CommandWithdrawn`: an
idle system can always start again. The other runs do not check it: a subscriber that has confirmed all
of a full journal, or a component at the end of its bounded inputs, rightly idles.

## 4. Proofs

Every theorem is checked by TLAPS for every value of the constants that satisfies the
named assumptions, in which the bounds of section 3 play no part. TLC evaluates the
assumptions on the instances of the runs.

| module | theorem | states |
|---|---|---|
| `CommandExecutionProofs` | `TypeSafety` | `TypeOK`: also that evaluations and the journal stay within their limits |
| | `DecidedOnce`, `SerialHistory`, `DetailsAccounted` | `OneDecision`, `ReadsWereCurrent`, `DecisionHasDetails` |
| | `RepliesAreWinners` | `ReplyIsWinner` |
| | `RefusalsJustified`, `AppendsClaimedOnce`, `WithdrawalFinal` | an identity conflict is reported only to another identity; two executions are never both told they appended; expired details stay expired |
| | `Refinement` | `ImplementsDecisionLog` |
| `CommandDeliveryProofs` | `DeliveryTypes`, `AcknowledgedIsAnswered`, `TerminatedIsQuarantined`, `QuarantineHasDiagnostic`, `ResponsesAreTrue`, `CallersLearnTheDecision`, `BusinessIsFinal` | the type invariant and the six properties of the run `Delivery` |
| `EventConsumersProofs` | `WorkerTypes`, `ProgressCertifiesWork`, `FirstEffectsOrdered`, `SoundHistoryAccepted` | the type invariant of the workers, `ConfirmedWasHandled`, `EffectsInOrder`, `HistoryAccepted` |
| | `DomainStaysComplete`, `SettledKeepsEffect`, `NamesHeldOnce` | `DomainIsComplete`, `SettledHasEffect`, `NameHeldOnce` |
| `IntegrationFlowProofs` | `OneEffectPerEvent` | `OneEffect` |
| `MemoryStoreProofs` | `WithdrawnStaysHidden`, `StoreRefines` | `NoDetailsAfterExpiry`, `StoreImplementsDecisionLog` |
| `StorageProofs` | `RefusedStaysAbsent`, `OperationsStoredOnce` | `RefusedIsAbsent`; an aggregate holds an operation at most once |
| | `NamespacesApart`, `NothingOlder`, `TraversalsAreExact`, `ConsumerEditsSurvive` | `NamespacesStayApart`, `NothingFromBefore`, `TraversalIsExact`, `EditsSurvive` |
| `ServicesProofs` | `OwnOutcomesOnly`, `AnswersAreTheirs`, `ReportsAreTrue`, `InvocationsOnWhole` | `OutcomesStayInScope`, `AnswersAreOurs`, `ReportIsTrue`, `InvokedOnWhole` |
| `TracerProofs` | `IdentityCarriedOnce`, `PassedWasSettled`, `SubscribersAreShown` | `OneTaskPerIdentity`, `PassedIsSettled`, `ToldMeansShown` |

### The arguments

**Command execution** (`RequestsAssumption`, `RejectionsAssumption`,
`BoundsAssumption`). `TypeInv`, types with what each program point implies about the
candidate, is inductive. `StreamInv` adds the three stream properties together with
two facts they need: an entry that is about to be published, or is delayed, has its
details stored (`Prepared`), and details are withdrawn only for the decision that won
(`WithdrawnForWinner`). One decision and current reads come from the expectations the
server checks: a batch is stored only if nothing was written to its subjects since they were
read, however late it arrives. The claims about replies need that an `appended`
acknowledgement belongs to the worker that put the entry there. The refinement maps
the journal to the log, expired records to `withdrawn` and completed replies to `told`;
every action is shown to have one of four effects on these (a commit, an activation, an
expiry, nothing) or to change one reply.

**Command delivery** (`HostAssumption`, `CopiesAssumption`, `LimitsAssumption`,
`NoneAssumption`, `LegacyAssumption`). `DeliveryInv` joins the properties with one
conjunct about each delivery in progress (`WorkerInv`: what a handler may rely on at each
of its steps, for instance that a verified response was stored) and one about late
publications (`LateInv`). The response subject only grows (`Grows`), so what was once
verified stays true while other hosts publish; a stale publication fails its expected
predecessor.

**Domain-event workers** (`PriorAssumption`, `SizeAssumption`). `WorkInv`: the journal stays
sound, the pending event is the first one after the confirmed position, and each worker's
locals describe a transaction of the journal. The confirmed position never passes an event
whose transaction is unhandled, because the single pending delivery is the only one
that can be acknowledged.

**Read models** (`ModelAssumption`). `ModelInv` has one predicate, `ModelSound`, for every
state of a document wherever it is: in the bucket, in a worker's draft, or in a write that may still
arrive. It says that the domain part is the set of the key's events up to the checkpoint,
in order; no fold over the history is needed, because an increasing sequence is determined
by its elements, and that the missing events can be put in order at all is `ModelEnumeration`,
by the cardinality of finite sets. `ModelFollows` is why a compare-and-set is safe: a state
computed from a revision loses nothing the document holds at that revision, so a late
write either fails or only adds. A dispatched or settled message has its effect in the
document or the document was removed (`ModelEffect`).

**Registration of models** (`SetupAssumption`). A running model's name is among the
registered ones (`SetupClaimedInv`), and a name is registered only when it was not.

**Integration events** (`BoundsAssumption` of that module). The operation of an effect is a
function of the durable and the message's identity, and an operation is decided
once; neither depends on the duplicate window.

**In-memory store** (`ProposalsAssumption`). `StoreInv` says that the log has one commit per
key and exactly the keys of stored transactions and direct appends; that a loaded
version that is still current was loaded after the stream's last commit; that what
is being resolved is in the log; and that a client that came too late for the
details does not get past the lifecycle check. Commits of transactions and of direct
appends are shown to be instances of one `Commits` step; with it the refinement is
that of the NATS store: `log` to itself, expired keys to `withdrawn`, replies to `told`.
The capacity invariants are needed because positions in the log are bounded by them.

**Single-stream appends** (`AppendAssumption`). `AppendInv` follows one idea through every
step: a writer holds positions it has read, those stay in the past (`Past`), and a batch
whose expected position is the last one of its aggregate finds nothing newer than
what it was compared with. A request that was outrun, by another writer or by its own
retry, is still delayed but can never be stored, which is what a refusal needs; a stream
is recreated only with fences ahead of all that was written before. Which position is the last
one follows from well-foundedness of the naturals (`LeastExists`, `GreatestExists`).

**Namespaces** (`SpaceAssumption`: configurations that split have an epoch, and what is found
at first are streams). `SpaceKnown(j, s)` says that somebody, the broker, a connecting
process, a handle or a record of what was written, takes journal `j` and state stream `s`
for a pair. `SpacePairInv`: known pairs are one to one. What keeps it so is in the local
states of provisioning (`SpaceUnpaired`): when a process is about to create a journal and
anybody knows a pair of its state stream, then the journal of that pair exists, and the
creation finds it.

**Broker observer** (`WatchAssumption`). While streams are replaced nothing is collected and the
task that watched them is gone or nobody holds it (`WatchResetInv`); while messages are
collected the task watches nothing older than the last reset left (`WatchCollectInv`), so
only a task that a cancelled reset had aborted and not waited for can still add the one
message it held (`loose`).

**Quarantine inspection** (`InspectAssumption`). `InspectSnapshot` fixes what a traversal began
with. The pages shown so far, with the one under way while its stream is there, are in
order and wanted, and every wanted record before the cursor was shown or is gone
(`InspectPage`, `InspectLinked`); a recreated stream changes the generation, and the page is
discarded.

**Skills installer** (`InstallAssumption`: the skills are a non-empty list without repetition, and
a kit's files are not the consumer's edits). One tool has the lock (`SkillsLockInv`); what
the consumer had edited when that tool looked for the second time is in its place,
or in the backup (`SkillsShown`, `SkillsCareful`), at every step of the replacement and of the
way back (`SkillsPlaced`).

**Command service** (`ProfileAssumption`: the trusted profile calls its own processor and
keeps no audit). `ServiceInv`: a decided operation is decided for itself, and the store only
decides or withdraws details (`Grows`), so a result that once was the caller's own stays so
while others race, expire or are dropped. A result is the caller's own where it
is found (`FoundKeeps`) or made (`WinnerGrows`). Behind a service that answers
with any outcome and any response, `AdmittedIsOwn` shows that the comparisons of
`ProcessedCommand::admit` leave no other.

**Query bus** (`BusAssumption`: a stray answer has the fields of a reply). Request identities
repeat, inboxes do not. `BusOurs` follows an inbox from the request through the queue
and the server's slot into the reply: whatever bears the inbox a caller is waiting on
is about the query and schema it waits for. A stray answer that bears it is stopped by
the comparison of identity and schema (`BusReplyInv`).

**Fixtures** (`FixtureAssumption`: a document is a finite series of messages for streams that
exist). In a valid plan the event with ordinal `n` of its stream has version `n + 1`, and the first `n`
of a stream's events are exactly `n` (`FixturePrefixCounts`, by a bijection with `0..n-1`). Every
stored event carries its position as its version (`FixtureStoreInv`), so an exact replay found
anywhere is found at its place. `FixtureHolds`: the events an application has found or dealt with
(`FixtureCounted`) are stored at their places, and `applied + reused` is their number; streams only
grow, so neither other appliers nor commands take any of it back.

**Host** (`RuntimeAssumption`). `HostGateInv` is the exclusion of the gate; `HostWholeInv`: the
streams are whole unless a reset is owed, and while one is owed the runtime is closed,
except to the reset that has not closed it yet or has just opened it. A caller that got
through the gate therefore found no reset owed, and none begins while it holds
its permit (`HostCallsInv`).

**Tracer operations** (no assumption). A record is *settling* from its pinned submission
until its result is told. `ListedInv`: a settling record is in the table, or belongs to a past
scenario; only marked records are evicted, and those are over (`RecordInv`). A new
identity is compared with the table and has the current generation, so it
meets no settling record of the same identity (`UniqueInv`). Between the new generation
and the removal of test records, `ResetInv` and the run gate's single holder (`GateInv`)
keep test submissions out. A client dropped anywhere takes its gate along and starts nothing.

**Test evaluation** (`VerdictAssumption`). What a round has seen is a beginning of the
evidence, and all of it while the revision stands (`VerdictSeenIsPart`). `VerdictQuiet`: since settling
began the evidence has not changed, or has grown past the boundary, or carries a conflict
or a failure, and each of these keeps the final comparison from passing. The last
snapshot is read after the window ended, so a passing report is about evidence
that stood for all of it.

**Observation window** (`FeedAssumption`). No subscriber has seen a revision that is yet to come
(`FeedSeenInv`), and every change of the window takes a new one.

### Only model-checked

The liveness properties of `Progress`: fairness and `ENABLED` are out of the prover's
reach. `AcceptedIsATree` and `PassedIsIsomorphic`, which are about the recursive definitions of
`Causation`, `MessageGraph` and `MessageSeries`, and `AcceptedIsTrue` of `StoredHistory`, whose
reader is a fold over the stored messages: what these compute for every input needs
induction over data. The two runs of section 5 show violations.

## 5. Disagreements between documentation and code

**Withdrawn details.** `docs/command-runtime.md` says that expired details "remain a
completed decision and produce recovery results/errors". The run `CommandWithdrawn`
finds an execution that does not get that. Two executions of one command pass the receipt
check; the first prepares the details and commits; an administrator expires
them; the second now prepares the same details and `prepare_details` answers
`CompletedDetailsExpired` about its *candidate*, without the recovery origin. The
executor returns this error without looking the winner up, and
`CommandProcessorError::execution` maps it to `InvalidConfiguration`, under a
comment that calls that branch a configuration bug. A redelivery would see the
completed decision, but the command is quarantined first.

**Acknowledged publications.** `examples/bike-rental/README.md` says: "If publication was
acknowledged but no valid response can be established, the operation is
`indeterminate`". The run `OperationPublication` finds an operation that ends as failed:
`command_published` tells the observer of the acknowledgement and then waits for the
record's lock; a test run's deadline that cancels the task at that wait leaves the
record without its publication, and the watcher ends it as failed.

## 6. Plan

The core came first: `DecisionLog`, `CommandExecution`, `CommandDelivery` and
`DomainEventWorker`, then the stores, the events and documents, the services, and what is
shown to people. All of them are modelled and run. The proofs follow the same
order; every safety property of the passing runs is proved but the three named above.
Candidates for further modelling are expiry of the command stream, paged history reads and the legacy receipt layout.
