# TLA+ specification of Turgon

Turgon connects business systems: an event in one of them (a row in an outbox,
a webhook, a message of a stream) starts a run, the run maps the event and
writes to other systems, a person approves what policy wants approved, and a run
that fails halfway takes back what it wrote. This directory holds TLA+ modules
that model that core, the connectors it reaches the systems through and the
platform around it; TLC configurations that check them on small instances; and
TLAPS proofs that all but a few of the properties TLC checks hold for any number
of runs, calls, keys, workers, events and faults.

Run a model with `tlc -workers 2 -config <run>.cfg <MC module>`, the proofs with
`tlapm <module>.tla`. `PROJECT.json` lists the runs with their properties, the
source lines each definition models, a mutation for every property that makes
TLC refute it, the hazards the properties are aimed at, and the findings.

## 1. The system

### Components

| Component | State | Operations | Interacts with | What is hard |
|---|---|---|---|---|
| Write guard (`pkg/writeguard/guard.go`) | none of its own; rows of the store | `Prepare`, `Commit`, `Compensate`, `generation` | store, policy, governor, breaker, target, audit | every call is a sequence of remote steps and may fail, repeat or die between two of them |
| Idempotency store (`pkg/store/pgstore/pgstore.go`) | `turgon_writes`, cursors, cross-references | `Begin`, `Lookup`, `Complete`, `Abort` | all workers share it | claims of dead callers, the lease, late answers |
| Governor and breaker (`pkg/writeguard/governor.go`) | slots, tokens; failures, open, trial | `acquire`, `take`; `allow`, `success`, `failure` | `Guard.commit`, `Guard.Read` | concurrent verdicts, cancelled waits |
| Integration workflow (`pkg/engine/workflow.go`, `activities.go`, `notify.go`, `plugins.go`) | position in the steps, committed writes, approval wait | steps, approval signals, timer, `fail`, plugins, notices, retry | Temporal, the write guard, people | early, stale or contradicting decisions; several compensations of which one fails |
| Event delivery (`pkg/engine/runtime.go`, `stream.go`, `webhook.go`, `pkg/store/pgstore/stream.go`) | inbox, cursors, stream positions, advisory locks | `Poll`, `drain`, `reconcile`, `WebhookHandler`, `Streams.run`, `Deliver`, `DeliverStream`, `PruneInbox` | source systems, Temporal, Postgres | every worker runs all of it; crash between two stores; lost lock; redelivery |
| OAuth tokens (`connector/rest/auth.go`, `pgstore/tokens.go`) | refresh and access token in force, a rotation not stored yet | `refreshed`, `UpdateToken`, `invalidate`, logins | all workers, the token server | a rotated token that could not be stored |
| Sessions (`rest`, `salesforce`, `sap`, `odoo`) | cached token, cookie, CSRF token | apply, send, retry once, invalidate | concurrent calls of a worker | who drops whose new token; lifetimes that end; one cookie jar |
| Connector streams (`salesforce/stream.go`, `sap/eventmesh.go`, `debezium`, `remote`) | positions, unacknowledged messages | subscribe, deliver, commit, acknowledge | brokers, inbox | redelivery, retention, acknowledgements after a failed store |
| Change capture (`postgres/changes.go`) | replication slot, cursor | peek, release, drain | Postgres, dispatcher | a transaction read in parts |
| Polling (`sap`, `salesforce`, `odoo`, `rest`) | cursor | `Poll`, `drain` | source systems | pages and equal time stamps; lists that change between pages; drains that stop |
| Connector writes (the same, `postgres`) | documents at the target | `Simulate`, `Commit`, `Confirm`, undo | write guard, target systems | a repeated write after a lost answer |
| Remote connectors (`connector/remote`, `connectors/sdk`) | the instance in the sidecar | `Configure`, every call, `Close` | JVM sidecars | restarts under calls |
| Discovery (`pkg/meta`, `*/discover.go`, `*/check.go`, `pgstore/meta.go`) | snapshots of an endpoint | discover, learn, compare, check | connectors, audit log | concurrent discoveries, a schema that changes under them |
| Audit log (`pgstore/audit.go`, `pkg/audit`) | a hash chain of lines | `Record`, `Verify` | every component | concurrent appends, torn lines |
| Agent writes (`pkg/engine/agent.go`, `agentpush.go`, `pkg/agent`) | one run per request ID, push configurations | `Submit`, `Status`, approval, push | agents over MCP and A2A, the write guard | one request ID used twice; late and repeated pushes |
| Logic plugins (`pkg/plugin`, `engine/plugins.go`, `netguard`) | invocations of an activity | host calls, publish, propose, send | agent writes, the network | retries after an effect, chains, names that move |
| Identity (`pkg/identity`, `engine/activities.go`, `console/steward.go`, `xrefload.go`) | cross-references | resolve, link, load, retry | runs, stewards | links and retries of several people |
| Console and command line (`pkg/console`, `cmd/turgon`) | sign-ins and sessions | decide, retry | Temporal, identity provider | pages that are stale |
| Verifier, compiler, signing (`pkg/verifier`, `compiler`, `signing`) | reviews, the spec file | verify, review, compile, sign, load | stewards, workers | edits between two steps |
| Appliance supervisor (`pkg/appliance`) | a worker per spec file | reconcile, promote, restart | the host | a version that does not start |
| Operator (`pkg/operator`) | Deployment and ConfigMaps of an Integration | reconcile, prune | Kubernetes | a cache that lags, rollouts |
| Worker and secret rotation (`cmd/turgon/run.go`, `rotation.go`, `pkg/secrets`, `agent/live.go`) | fingerprints, the generation in use | check, open, switch, retire | secret managers, connectors | changes during a switch |
| Policy, semver, JSONata | none | pure functions | guard, compiler | case analysis |

What makes the core correct:

- an event causes each of its writes at most once, whatever is repeated, and at
  least once if its run reports success;
- a failed run leaves nothing behind, or tells an operator;
- nothing is written that a person refused, and an approval is of that very
  request;
- every event that happened gets a run; no cursor passes one that has none;
- a target is never sent more than its limits, and is tried again after it was
  out;
- what people decide, review, sign or audit is what runs, and what agents and
  operators are told is what happened.

### Modules

| Module | Models | Composition |
|---|---|---|
| `WriteGuard` | guard calls over the store and the target, for one write per run, with crashes, retries and leases | the store, the guard and the part of a run that touches one write |
| `WriteOnce` | what the guard promises a run: an abstract write | implemented by `WriteGuard` |
| `WriteGuardRefines` | the refinement mapping | extends `WriteGuard`, instantiates `WriteOnce` |
| `WriteGuardProofs`, `WriteGuardExclusiveProofs`, `WriteGuardRefinesProofs` | theorems | extend `WriteGuard`, the last one `WriteGuardRefines` too |
| `Integration` | one run of `IntegrationWorkflow`: steps, approvals, saga, notices, plugins, retry | takes the outcomes of the guard's calls as `WriteGuard` shows them |
| `Breaker`, `BreakerProofs` | governor and circuit breaker of one target under concurrent calls | the `send` step of `WriteGuard`, opened up |
| `Delivery` | dispatcher, webhook handler, subscriptions, inbox | ends where a run starts, where `Integration` begins |
| `Tokens`, `Sessions` | shared refresh tokens; sign-in of concurrent calls | below every connector call |
| `Streams`, `PgChanges`, `Polling` | how events leave the source systems | what `Delivery` takes from a source |
| `TargetWrite` | one write at a target system | what `WriteGuard` assumes of a target |
| `RemoteConnector` | calls through a sidecar | below `TargetWrite` and `Polling` for such connectors |
| `MetaGraph` | discovery, snapshots, comparison, checks | |
| `AuditLog` | the hash chain | |
| `AgentWrite` | an agent's write | `CommitWrite` as `WriteGuard` shows it |
| `LogicPlugins` | one `RunPlugin` activity | proposals are agent writes; started by `Integration` |
| `Identity` | one source record's cross-reference | the local step of `Integration` that may fail |
| `Console` | decisions and retries by people | the signals of `Integration` |
| `SpecRelease` | from the catalog to a loaded spec | what `Supervisor` and `Operator` run |
| `Supervisor`, `Operator`, `Rotation` | processes, rollouts, connections | |
| `MCConnectors`, `MCPlatform` | a union of eight and of nine of these | section 3 |
| `IntegrationProofs`, `DeliveryProofs` | theorems | extend the module they are about |
| `ConnectorsProofs` | theorems on the eight parts of `MCConnectors`, and on their union | extends it |
| `PlatformProofs` | theorems on `AuditLog`, `Rotation`, `Console`, `Supervisor`, `Identity`, `LogicPlugins`, `AgentWrite`, `SpecRelease`, `Operator` | extends them |
| the other `MC*` | the model values of the runs | |

## 2. The modules and the code

### WriteGuard

A row of `turgon_writes` is a slot `<<key, generation, op>>`. `op` is `write`
for the request's own key and `undo` for the `#compensate` key; generation 2 is
the key `<key>~2`. A slot is free (no row), inflight, stale (an in-flight row
older than the lease) or done. `docs` is the target: the document of every key
and generation.

One guard call is one attempt of an activity on some worker, and `pc` says where
it is: `generation` (reads the store), `begin` (`Store.Begin`), `decide`
(approval and policy), `send` (breaker, governor, target), `audit`, `complete`
(`Store.Complete`), `confirm` (`Confirmer`), `abort` (the deferred `Abort` of
`commitRequest`, or `compensate`'s own), `reply`. Every one of them has its
failing variant: the step did its work and the answer was lost, or it did not.
`Crash` ends a call anywhere and leaves its claim behind; `AttemptTimesOut` lets
the run go on while the call is still working.

`AttemptFailed` is Temporal's retry policy (`MaximumAttempts`, non-retryable
error types), `Retry` the operator's `turgon retry`. `Err` distinguishes only
what Temporal does: `classify` makes denied, rejected and invalid final in
`CommitWrite`, while `Compensate` returns its errors unclassified.

Left out: payloads and digests (`Integration` has those), the dry run of
`Prepare` (it may fail, which is `PrepareFails`), metrics.

### Integration

`pc`, `step`, `done` and `undoing` are the interpreter's state, `channel` the
signal channel of the Temporal run, `written` what became of each write: absent,
in doubt (all attempts failed, but one may have reached the target), live, or
ghost (undone at the target although the store still calls it done: a
compensation whose last attempt reached the target and failed to say so). `Fail`
is `fail()` with the notices `refused` sends; `UndoOk` and `UndoFails` are the
iterations of its loop, `AfterUndo` what follows the last. Approval signals
carry step and digest; a request's digest is the `version` of the request, so a
retry with another spec builds another one. `LateCommit` is a guard call that
outlived the run before. Notices are best effort in the code; `told` records
that the attempt to send one was made.

### Breaker

Each caller is a loop of the calls of `Guard.commit` or `Guard.Read`; they do
the same with breaker and governor. `Cancel` is a context that ends inside
`acquire`. Elapsed time is two events, `CooldownPasses` and `Refill`. The
constant `CancelTrial` says whether a trial call can be the one that is
cancelled: the code allows it, and section 6 says what follows.

### Delivery

One trigger, of any of the three kinds. A Postgres transaction takes its
sequence numbers when it inserts (`Insert`) and shows its rows when it commits
(`Commit`); `SourceLock` is the advisory transaction lock of `Deliver`. The
position of a subscription commits with the rows (`StreamStores`). `TryLock` is
the session lock of a subscription, which may be lost unnoticed (`LockIsLost`).
`Start` and `Advance` are the two calls of `drain` per event, `ReconcileReads`
to `ReconcileAdvances` those of `reconcile`. `StartRun` is
`TemporalStarter.Start`: the run ID of an event may be used again only when its
last run failed.

### WriteOnce and WriteGuardRefines

`WriteOnce` knows three things per run: whether the target holds its document,
what is known of the run, and whether a compensation failed. Its actions are
what may be seen from outside: the document appears (only while the run is
open), disappears (only while the run takes it back), the run succeeds (only with
its document), fails, or alarms. The mapping takes `there` from the documents of
all generations of the run's key and `told` from the run's phase, and hides
claims, leases, generations, attempts and calls. `WritesOnce` is the whole
abstract specification, with its fairness: every run gets its verdict.

### Tokens

`row` is `turgon_tokens`; `tpc` is where a worker's `refreshed()` is: reading the
row under the lock of `UpdateToken`, asking the server (`Grant`, `GrantRefused`,
`GrantFails` where the answer is lost), storing (`VaultStores`, `VaultFails`).
`pending` is the rotation a worker keeps in memory when storing failed and hands
in next time (`Missed`, `Supersede`). The server, translated from the QuickBooks
fake, accepts only the newest refresh token. The other authenticators log in
again (`LogsIn`). `lost` and `unsound` record the faults no client can survive.

### Sessions

Each call of a worker is prepared (`Apply*`, `CsrfToken`), sent, answered by the
system as its fake answers (`*Serves`), and then ends, or is sent once more after
`InvalidateSession`. The system may end all its sessions at any time, an
administrator may revoke the credentials, and the lifetime that the connector
counts for its token may be over (`Lapses`; Salesforce's has none). `grants` says
of each token how many endings came before it, so that two tokens given out
between the same endings are two. In SAP reads run beside writes: an answer to
either sets the cookie all later requests carry.

### Streams

One subscription of one of five kinds. `session[w]` is a worker's: `from` where
it reads, `next` what follows what it received, `pending` the events it may still
be sent. `OpenReplay` to `OpenSidecar` are where the kinds start; `Receive` and
`TakeMessage` what arrives; `HandOver`, `DeliverRecords`, `ConvertMessage` and
`DeliverBatch` the inbox transaction; `CommitReplay`, `Ack` and `AckBatch` what
the source is told afterwards. A source forgets old events (`RetentionPasses`),
a message may be unconvertible (the subscription then fails and is reopened),
and the lock may move while the old holder still reads.

### PgChanges

Transactions are rows of a log with LSNs; a position is a transaction and an
index, as `position()` packs it. `ReadCursor`, `ReadSlot`, `Advance`,
`ReadFlush`, `Peek` and `QuietRelease` are the calls of `pollChanges` in their
order, with another worker's between any two; `StartRun`, `NextWorkflow` and
`SetCursorFails` are `drain`.

### Polling

Records get a stamp and, in Odoo, become visible later; a record may stop matching
the event's query at any time. Every worker polls: `ReadsCursor`, then `Polls`, or
`SapReads` for one `$skip` page after the other, then the drain. `*Lists` says what
each system's query returns after the cursor, `SapReads`, `SalesforcePoll`,
`OdooPoll` and `RestPoll` where a batch ends, `Starts` that the cursor moves after
every event and never back. A poll may fail (`PollErrs`), and so may a drain, before
a run is started (`DrainStops`) or after it (`CursorNotMoved`). `slipped` is history:
what a given-up drain, a REST batch of one stamp or a list that moved up between two
pages has lost.

### TargetWrite

`request` says whether the connector or the target refuses the payload. One
attempt is `Begins` (look the key up, or read the values an update replaces),
`Writes` or `AnswerLost` (the effect, and the answer or none), `Stores` (the
result reaches the store, or does not); then `Confirm`, then `Undo`, which may also
lose its answer. Answers and stores are lost at every target, the update targets
included; `unheard` is history and says that an effect's result was never stored.
What the target does is translated from its fake (`*Creates`, `*Upserts`,
`*Updates`).

### RemoteConnector

`bound` says whether the sidecar has the instance. A call is taken, has its
effect and is answered in three steps between which the sidecar may die; a call
answered `ABORTED` configures again and is repeated once, whatever it is.

### MetaGraph

`system` is one field of one object as it is, `Discover*` how each connector sees
it, `Learn` and `KeepRequired` what refusals add. `SaveReads` and `SaveWrites` are
the transaction of `SaveCatalog`. `Diff` and `Compare` are translated as
functions, and `Check*` says what `turgon check` would report.

### AuditLog

Both logs in one module. The shared one: `ReadLast`, `InsertEntry` and
`CommitEntry` under the advisory lock, any of which may fail. The file: the head
is kept in memory, a write may fail after a part of the line (`FileWriteFails`),
and the process may die and open the file again, which verifies it.

### AgentWrite

The workflow (`PrepareAgent*`, `AwaitAgentApproval`, `AgentDecided`,
`CommitAgentWrite`, which every attempt may find refused, also one that repeats an
attempt whose document is there), the two push signals, which are two queues and hence have
no order between them, the pending notice, the workflow that sends the outcome,
and callers that submit, ask, follow and describe at any time.

### LogicPlugins, Identity, Console, SpecRelease

`LogicPlugins`: an invocation is the chain of plugins that led to it; a plugin
does any sequence of host calls within the limits; what it published is delivered
depth first once it has ended well. An attempt may be lost anywhere.

`Identity`: one record, the runs that need its master, stewards whose request
reads the queue, links, audits and retries in four steps, and a bulk load that
reads before it writes. What Splink refuses ends the run for good
(`SplinkRefuses`); other failures are retried.

`Console`: sign-in (a login cookie, a code, a session with the roles of that
moment), a page, the check that the run still waits, and the signal; the run
waits, is decided, fails and is retried in between, also by `turgon approve` and
`turgon retry`.

`SpecRelease`: tables say which verifier errors there are and what level each
costs; `Verify` combines them with the reviews as `finish` does. Files are edited
between any two steps; `Trusted` and `Parses` are what a worker checks.

### Supervisor, Operator, Rotation

`Supervisor`: `Reconcile` scans one file after the other; `supDo` holds what it
does once the workers it stops have ended. `Operator`: `oper` is the step of
`Reconcile`, with the Integration it read; the Deployment controller and the pods
are external actions. `Rotation`: `rot` is the check or reload under way, reading
one reference at a time; requests load a generation, then take its lock.
Connectors read their secrets when they are opened; only plugins read later
(`LazyFetch`). A secret that is optional may be unset, and connections that do not
need it are opened without it (`OpenWithout`); where it is needed, opening fails
(`OpenFails`). The backends cache by path: references that share a plugin's path
count as lazy.

## 3. Runs

| Run | Bounds | Distinct states | Shows |
|---|---|---|---|
| `guard_exclusive` | 1 run, 1 call, 3 generations, 3 attempts, 3 operator retries | 9,190 | `AtMostOneLive`, `SuccessKeepsDocument`, `CleanFailureUndoes`, `EveryRunCloses`, `WritesOnce`: with a key of its own, an event never has two live documents, succeeds only with its document and fails cleanly only without it; the guard implements `WriteOnce` |
| `guard_contended` | 2 runs on one key, 2 calls, calls outlive their attempts | 342,736 (with symmetry) | `SingleSender`, `GenerationsInOrder`, `DoneIsReal`, `DoneIsForever`: what the store alone guarantees, whoever shares a key |
| `integration` | 3 steps, 2 of them writes, 2 request versions, 2 signals, 1 retry | 131,736 | approvals bind the request (`DecisionSound`), refusals are not written and foreign writes stay (`WritesRespectDecisions`), failed runs leave nothing or alarm, newest first, runs close |
| `breaker` | 3 callers, 2 slots, 1 token, 2 failures | 15,762 | no slot leaks, closed means healthy, an open circuit is tried again |
| `delivery` | 2 workers, 2 events, batch of 2, 1 pruned row, 1 fault, all three kinds | 350,791 | no cursor passes an event without a run, nothing acknowledged is lost and one row per event (`InboxSound`), every event runs |
| `connectors` | 2 workers or calls, 2 or 3 events, records or transactions, every kind of source, target and API | 1,965,119 (with symmetry) | below |
| `platform` | 2 people or processes, 2 requests, records, files or versions, 1 or 2 faults | 1,466,786 | below |
| `guard_shared_key`, `integration_plugins`, `breaker_trial` | as above | | section 6 |
| `polling_interrupted`, `update_undo` | `connectors` with one unit and Salesforce only | | section 6 |

`connectors` and `platform` check modules that share no variable. Each of their
behaviours is of one module, the `unit`, while the variables of the others keep
one initial value: the states are the sum of the modules' states, not their
product, and an invariant holds in the run if and only if it holds of its own
module. Setting `Unit` to one name checks one module alone.

What `connectors` shows:

- `TokensSafe`: unless an answer was lost together with the only copy of a token,
  the token in force is in the store or with a worker that will hand it in
  (`RefreshTokenKept`), and while nothing failed no worker offers the server one
  that was spent (`SpentOnce`).
- `OneEndingHealed`: a call that met one ending of the system's sessions is not
  refused for good, however the other calls renew and invalidate what they share,
  but for two gaps (section 6): its second token is one that another
  call got, for an expired one, before the same ending; or, in SAP, another call ran
  beside it.
- `NoEventLost`: every event a subscription was open for is in the inbox, or the
  next subscription gets it, or the source itself has dropped it.
- `NoChangeSkipped`: a change without a run is still in the slot, and after every
  cursor.
- `SkipsOnlyKnown`: a record without a run is after the cursor, or in a batch being
  drained, or, where a position is a bare time stamp, it was lost in one of the three
  ways the code leaves open (section 6). Odoo, Shop and Business One, whose positions are
  unique, lose none.
- `UndoRestores`: never two documents, nothing left of a refused write, what was
  stored reads back, and after an undo the target is as it was before (an update: if
  the attempt whose result was stored is the one that changed the record; `update_undo`
  shows the other case).
- `AnswerTellsEffect`: what a remote call answers agrees with what it did: no
  refusal after an effect, no success without one, none with two.
- `SnapshotsTell`: a change of the schema that breaks a user is reported as
  breaking by the comparison of the snapshots (`BreaksReported`), and no two
  snapshots in a row are equal (`SnapshotsDiffer`).
- `ConnectorsTypeOK`: types and bounds; a Salesforce subscription is always owed
  an event while it waits.

What `platform` shows:

- `AuditSafe`: what `Record` reported done is in the log, and the log verifies
  unless a line was torn (`RecordedVerifies`); no append meets a number that is
  taken (`AppendsNeverCollide`).
- `AgentsToldTruth`: whatever outcome anybody is told is the one the write had, and
  a commit is of the request they made, a person's rejection leaves no document, and
  another refusal means that the first attempt wrote none and that none was stored
  (`OneOutcome`; section 6 has the case of a later attempt); no receiver hears of the wait
  after the outcome (`PendingBeforeOutcome`).
- `PluginsContained`: a proposal is one write however often the activity is tried
  (`OneProposal`), and no request reaches an address that is not permitted, also
  when the name moves after it was checked (`OnlyPermitted`).
- `RetriedResolves`: a run a steward retried does not come back to the queue for
  the same record.
- `DecidedAsShown`: a decision from the console that a run acts on is about the
  very request its maker was looking at, which is somebody else's.
- `ReviewedRuns`: what a worker runs was compiled, at the level it carries, from a
  catalog without faults whose field was good enough or approved with exactly that
  expression, or was signed by hand as it stands.
- `UnitsServed`: once a version served, a worker with a valid version runs until
  the file is removed (`LastValidRuns`), and live workers have distinct ports
  (`PortsDistinct`).
- `MountedSpecKept`: the ConfigMap of every version some pod mounts, or the
  Deployment names, exists.
- `RotationSafe`: when no check is under way, connections opened with an old value
  have a fingerprint that will show it, or do without a secret they do not need
  (`RotationNotMissed`); a request being served has open connections
  (`ServedOpen`).
- `PlatformTypeOK`: types and bounds, among them the limit on push
  configurations.

Why the bounds are enough. Generations differ only by their order, and three of
them allow commit, undo, retry, commit, undo, retry, commit with the limit in
reach (50 in the code). Attempts matter as "another one" and "the last one", so
three stand for eight. Two calls are what it takes to contend for a claim; a
third could only wait for the same row, and the theorems cover any number. Two
writes and a local step are a saga in which the first write must be undone when
the second fails and the second when the local step does; MaxSignals of 2 gives
one stale and one fitting decision in either order, or an approval and a
rejection of the same request. Three callers are one more than the slots and
leave one to fail late while another is the trial. Two events make a sequence
number overtake another, two workers race, and a single fault can fall
anywhere; a second one repeats a recovery that starts from a state already
reached. PruneInbox deletes one row, so that a later redelivery of its event
meets an inbox without it.

In the two unions the bounds are chosen per module: two workers, calls or people
race; three access tokens and two faults make a rotation fail to be stored, be
superseded and be handed in; two endings, three tokens and four SAP sessions make
both tries of a call fail, by a second ending or by a token that was replaced before
the first one; two transactions of two rows with a limit of one stop a drain inside
a transaction; three records with pages of two and two workers put a group of equal
stamps across a page and let one worker move the cursor while another holds a batch;
four attempts repeat the write and the undo; two deaths of a sidecar hit a call and
its repeat; one schema change lies between two discoveries that reach
`SaveCatalog`; two requests under one ID conflict; three plugins with every
subscription make chains up to the limit; two catalog expressions tell a review
of the old one from the new; three workers of the appliance are a current, a
failed and a next one; two changes of an Integration overlap a rollout; two
versions and two generations make a secret change during a switch. The verifier's
faults differ only in the level they cost and in what they end early; the run
brings in one of them.

Symmetry is used in `guard_contended` and, for the two workers or calls, in
`connectors`; neither checks liveness.
Deadlock is checked in `breaker`, whose callers never stop; in the other runs the
system may come to rest (every run closed, every event handled, every bound
reached).

## 4. Fairness

- A run's next step is scheduled, and a call on a live worker goes on
  (`WF` of `RunStep`, `CallStep`, `WorkflowStep`): Temporal persists timers and
  tasks and redelivers them. Faults, lease expiry, approvals and operator retries
  are never assumed to happen.
- In `Breaker`, time passes (`WF` of `CooldownPasses`, `Refill`), calls with a
  free way go on, and someone keeps calling (activities are retried). A call
  waiting for a slot is served (`SF` of `TakeSlot`): Go queues the senders of a
  channel in order.
- In `Delivery`, every worker's two loops run for ever (`run.go` polls on a
  ticker, `Streams.Run` reopens after a backoff) and a handler finishes its
  transaction. Faults are bounded, which stands for "repeated calls succeed in
  the end".
- `WriteOnce` states that a run closes in the end; `WriteGuard`'s fairness implies
  it, which is part of what `WritesOnce` checks.
- The modules of `connectors` and `platform` state safety only and need no
  fairness.

## 5. Assumptions

- The target honours its idempotency key: a second request under it finds the
  first one's document. Connectors pass the key on (`Idempotency-Key`, request
  IDs, reference fields); what the target does with it is outside the code.
- A claim's lease ends only after the call that took it: an attempt has one
  minute, a store call ten seconds, the lease five minutes. `Abort` and
  `Complete` name the key and not the claimant, so a worker suspended for longer
  would break this; it is listed as a hazard.
- `PruneInbox` meets only rows the dispatcher has passed and the provider will
  not send again: it deletes after 30 days.
- A subscription has stored a position before the first event modelled, so
  "from now" skips none.
- `OwnKeys`, for the properties of `guard_exclusive` and their theorems: no two
  runs share an idempotency key, and no call outlives its attempt (a worker whose
  attempt timed out has stopped working on it). Without it the properties of
  `guard_contended` still hold, and those of `guard_exclusive` do not all: an
  undo that outlives its attempt and reads the generation after the next attempt
  has recorded the undo works in the next generation, and its record can make a
  retry create a third document beside a live second one. Section 6
  has the first half of that history.
- Restrictions of `connectors` and `platform`, each a constant, and what TLC
  finds without it:
  - `CdcWorkflows = 1`: with two workflows on one event `NoChangeSkipped` fails,
    since both advance the event's slot, each by its own cursor.
  - `LazyRef`: references that plugins read, or that share their path with one, are
    left out of `RotationNotMissed`, which fails for them (a read between the
    fingerprints and the opening puts an old value back into the cache).
  - `PartlyWritable = {}`: fields that can be created but not updated, or the
    reverse, are seen as writable in SAP and Salesforce, and `SnapshotsTell` fails
    for them. (The theorem excludes only these two and a table with such columns.)
- A poll's answer and a later record do not share a time stamp (`Polling`): a source
  whose clock stands still over a request would lose records at every boundary.
- A secret that changes gets a value it did not have before (`Rotation`).
- Hashes and signatures are injective and unforgeable (`AuditLog`,
  `SpecRelease`).

## 6. Findings

Each is a run that TLC refutes, with a trace.

1. `guard_shared_key`: a run whose `CommitWrite` is answered as a duplicate (a
   second run completed the write after this one's `PrepareWrite`) puts the write
   on its own list and undoes the other run's document when it fails.
2. `integration_plugins`: plugins run when the status is `committed`; after a
   lost answer the status is `duplicate`, and they never run.
3. `breaker_trial`: a trial call whose context ends in `acquire` leaves `trial`
   set. Once the earlier calls are over no request is let through again until
   the process restarts.
4. `polling_interrupted`: "A poll never ends in the middle of a group of records
   sharing one timestamp, so a strict "greater than" cursor cannot skip records"
   (`salesforce.go:297-299`, likewise `sap.go:668-670`, `rest.go:521-524`) holds of a
   poll. A drain that stops within the group has moved the cursor to its stamp
   (`runtime.go:351`), and the rest of the group is never read.
5. `update_undo`: "Updates capture the previous values of the fields they change, so
   the restore action can undo them exactly" (`salesforce.go:8-9`). The repeat of an
   update whose answer or outcome was lost captures the values it wrote itself; in
   the REST connector likewise (`rest.go:1088-1093`).

Also seen while modelling, with the constant that shows it where there is one
(section 5), as a case that a property excepts, or by reading:

- `WriteGuard`: completing a compensation changes what `generation()` answers. If the
  attempt's answer is lost, the next attempt of the same `Compensate` works in the
  next generation, finds nothing there and sends the undo of the same document again
  (`guard.go:575`), although compensations "are idempotent under a derived key"
  (`guard.go:564-566`). Harmless if the target's undo is idempotent.
- `Delivery`: "a run that failed (an approval rejected) is not started again"
  (`runtime.go:271-272`), but a second worker that read the row before the cursor
  moved, or the same one after a failed `SetCursor`, starts it again
  (`temporal.go:55`).
- `Sessions`, the two exceptions of `OneEndingHealed`. While a request is out, its
  login's lifetime ends and another call signs in; then the server ends its sessions.
  The 401 of the first request leaves the newer login alone, since it did not carry it
  (`auth.go:221`); the one retry goes out with that login, and its 401 is permanent
  (`rest.go:433-438`). In SAP the cookie jar is shared: the answer to another call, a
  read's too, can replace the session a new CSRF token was fetched for, and a second
  "Required" is permanent (`sap.go:489`). The README says that "the connector signs in
  again" (`src/README.md:530`) and that modifying requests "fetch a new one when the
  session expires" (`src/README.md:776-777`).
- `Polling`, the other two ways of `slipped`. A REST page that is all one stamp is
  returned whole (`rest.go:600-602`), and the rest of the group is skipped. SAP's
  further pages are places in a list that is made anew (`sap.go:698`): an entity that
  leaves it between two pages moves another into a place already read.
  `NoRecordSkipped` fails for `Source = {"hubspot"}` and for `{"sap"}` with
  `PollLimit = 1`.
- `AgentWrite`, the exception of `OneOutcome`: an agent is told "Denied by policy;
  nothing was written" (`write.go:245`). The policy is decided again on every attempt
  (`guard.go:467`); after one whose answer was lost a refusal leaves the document at
  the target.
- `PgChanges`: the transaction of the cursor is decoded again by every poll. One
  that fills the budget alone (`changes.go:252`) is all that is peeked once its own
  changes have runs, and nothing after it is ever read: with `MaxRows = 3` a later
  change never gets its run. A dropped slot is made anew, and what happened
  between is lost.
- `TargetWrite`: an undo whose answer was lost is repeated and may be reported as
  failed although it was done.
- `Streams`: a Salesforce subscription that starts at "latest" and fails before
  its first position is stored starts at a later "latest"; the fallback after a
  rejected replay position drops `Fields` (`salesforce/stream.go:167`); an event
  that cannot be converted blocks its subscription.
- `RemoteConnector`: two calls that find the instance unknown both configure it,
  and the second `Configure` closes the endpoint the first uses; the `ABORTED` of
  a streamed export arrives after `call` has returned.
- `AgentWrite`: a push configuration accepted while the outcome is being captured
  gets no notice; set and delete are two signals without an order.
- `Supervisor`: when the copy of a new version cannot be written, `next` keeps
  pointing at a worker that was stopped (`supervisor.go:245-251`).
- `Operator`: pausing an Integration together with an invalid spec leaves its
  workers running (`controller.go:84-96`), while the status says that none run.
- `Identity`: a bulk load without `--replace` that read before a steward linked
  overwrites the steward's link (`xrefload.go:38-50`); the steward queue shows the
  newest 200 failed runs only.
- `MetaGraph`: a requirement learned from a refusal is dropped once a discovery
  misses it (`learn.go:44-47`).
- `SpecRelease`: a review is stored and its audit entry may fail afterwards
  (`console/reviews.go:81-91`); the console queues fields by the default threshold,
  whatever `compile --review-threshold` says.
- `Console`: `turgon approve` decides on whatever is pending and does not compare
  the approver with the request's subject (`run.go:599-621`); of two tabs that sign
  in at once, the first callback spends the login cookie.

## 7. Proofs

The theorems hold for every value of the constants that satisfies the named
assumption of the module that declares them (`ConstantsAssumption`,
`MetaAssumption`, `ReleaseConstants`, ...): types, and that bounds are natural
numbers. Three hypotheses go further; each is stated with the theorems it is needed for
and explained in section 5: `OwnKeys`, `PartlyWritable \cap OneWay = {}` and
`CdcWorkflows = 1`. None of the properties is inductive; each proof
has an invariant of its own, whose parts are named in the module, and one step per
action.

`WriteGuardProofs` (any runs, shared keys, calls that outlive their attempts):

- `TypeCorrect`: `Spec => []TypeOK`. Everything else uses it.
- `OneSenderPerKey`: `SingleSender` says nothing of the row a claim is in.
  `LockInv` adds that a call that holds a claim works on a
  row that is `inflight` or `done` (`Owned`; `done` is a `Complete` that reported
  an error), that a call about to claim knows its generation (`Known`), and
  exclusion itself. `Begin` then finds the row free or stale, hence held by
  nobody; `LeaseExpires` needs that no holder is at work; `Abort` and `Complete`
  touch only the caller's own row.
- `OutcomesAreKept`: `DoneIsForever`: `Begin` claims no done row, and the DELETE
  of `Abort` is conditional.
- `GenerationsFollowUndos`: `ChainInv` says that every generation below the one a
  call works in, or the one a run's document is of, is undone; `OrderInv` says it
  of every generation the store or the target has something for. Both are stable
  because done rows stay done.
- `DuplicatesAreReal`: `RealInv` adds that a write past `send` has its document at
  the target.

`WriteGuardExclusiveProofs` (under `OwnKeys`):

- `NoSecondLiveDocument` and `CleanFailuresUndo`. `ExclInv` ties the run to its
  call: a call at work is its run's current attempt and does what the run is at
  (`Attached`), so two calls at work on one key are the same call; the generation
  it works in is not undone while it works (`Fresh`); an undo past the target has
  taken effect (`Effective`); a run holds the newest document of its key
  (`Newest`); a generation recorded as undone has no live document
  (`UndoneIsDead`). With `OrderInv`, a live document is then in the key's current
  generation, of which there is one.

`WriteGuardRefinesProofs` (under `OwnKeys`):

- `SuccessesKeepDocuments`. `KeptInv` adds to the invariants above that documents
  do not go missing: a call that answers success has its outcome in the store
  (`Recorded`), a document is gone only if its undo is recorded, is under way or an
  operator was told (`Excused`), an undo works in its document's generation or, after
  a lost answer, in a later one (`Ahead`), and a run that has written holds a live
  document (`Held`).
- `GuardWritesOnce`: the safety part of the refinement, `Spec => Once!OnceSafe`. The
  steps of `WriteGuard` fall into three kinds, a call that creates a document, a call
  that removes one and a run that moves on; with `KeptInv` the first two are steps
  of the abstract write and the last one tells its outcome or stutters. `WritesOnce`,
  which the run checks, has the fairness of `WriteOnce` too.

`BreakerProofs`: `SlotsAreReturned` (the slots in use are the cardinality of the
set of calls between `TakeSlot` and their release, by the finite-set theorems)
and `ClosedMeansHealthy`.

`IntegrationProofs` (any workflow, any signals, any number of retries), all from
`IInv`:

- `DecisionsAreSound`: what the run can receive was sent (`Heard`), and a decision is
  taken only from a signal for this step and digest.
- `FailuresLeaveNothing`, `NoticesTellTheTruth`: while `fail()` works through the
  list, what is behind it is undone or reported (`TakenBack`, `Reported`).
- `UndoesNewestFirst`, `DecisionsAreRespected` (action properties): the list holds
  writes of earlier steps in their order (`Listed`), and what was there before the
  run is neither on it nor at a step it is about to write (`Apart`).

`DeliveryProofs` (any workers, events, batches and faults), both from `DInv`:

- `CursorsPassStartedRuns`: of every entry of a dispatcher's batch it is known that
  all before it was started or is before it in the batch, whatever was read, started
  or committed since (`BatchInv`); so the cursor, which moves to the entry just
  started, passes nothing. For the inbox this needs that rows become visible in the
  order of their numbers (`NumbersGrow`), which is what the source's lock is for
  (`OneWriter`).
- `InboxStaysSound`: a transaction inserts the events of its batch that are not
  there (`Covered`, `Distinct`); a reconciliation or subscription stores everything
  from its starting position on (`ReconcileInv`, `StreamInv`), also when another
  worker has taken over.

`ConnectorsProofs`:

- `TokensStaySafe`: one worker is between the read of the stored tokens and its
  commit (`OneInVault`), and goes on from what is current (`FoundIsCurrent`); a
  rotation the store missed leads to the live token and one worker has it
  (`OneLeadsOn`).
- `AnswersTellEffects`: until the sidecar runs a call, and again before it is
  repeated, the system has done nothing for it (`EffectOf`).
- `EventsAreNotLost`: nothing before the place a session reads at, a position that is
  stored or committed, or an acknowledged message is missing from the inbox
  (`SessionSound`, `PositionsInv`).
- `OneEndingIsHealed`: tokens are given out in the order of the endings (`GrantsInv`).
  A refused token is dropped, so a call's second token is another one: of a later
  ending, or, if its lifetime ended and another call was under way, of the same one
  (`Renewed`, `TokenCall`). In SAP, the second try of a write that no other call
  overlaps is for the session of the cookie, which is open unless the sessions ended
  again (`SapCall`); that a call not marked as overlapped is the only one under way is
  `CallsAlone`.
- `UndosRestore`: a target holds at most the document it knows for the key, and one
  that is looked for before it is created is not there when the request is sent
  (`KeyedWrite`); while no effect of an update went unheard, what it replaced is the
  value from before (`UpdateWrite`).
- `SnapshotsTellBreaks` (if the fields of Postgres, Salesforce and SAP are writable
  both ways or neither): the case analysis of `BreakIsReported` goes through what
  stops a user being served or passing `turgon check`, and finds the change `Diff`
  reports for it; the invariant says that what was stored is what the connector makes
  of the system it read, and that what is read under the lock is still the latest
  (`LatestHeld`).
- `ChangesAreNotSkipped` (if one workflow reads the slot): every change up to the
  cursor, and up to the position a worker polls after, has its run (`Through`), so
  has every change of a transaction the slot was released past (`Freed`), and of what
  a worker has left of its batch no change before it is missing (`BatchWhole`). The
  peek takes a prefix of the undelivered transactions and `Wanted` a prefix of their
  changes (`PeekedWhole`, `WantedFirst`: a cardinality below the budget or the limit
  at one element is below it at every earlier one), so an empty answer below the
  budget means that there was nothing up to the flush position read before the peek.
  A transaction that commits after that is beyond it (`InLog`).
- `RecordsAreNotSkipped` (no hypothesis: every drain of every source may be given up):
  the invariant is `PollingInv`. A record that is owed (it has no run and is not
  `slipped`) and not ahead of the cursor is in a batch being drained (`Covered`). What
  is ahead and not in a worker's batch comes after all of that batch (`DrainSound`),
  which holds of a batch when it was read (`WholeBatch`): for time stamps because no
  group of one stamp is cut, and for Odoo because what is not yet visible is younger
  than the settling time (`SourceSound`). The cursor is a position of the past
  (`CursorSound`), so later records come after it.
- `ConnectorsKeepTypes`: whichever part the unit of `MCConnectors` is, each of the eight
  runs its own specification (`PartsRun`), and each keeps its types and bounds; the
  assumption `UnitAssumption` says that the units are among the eight. Several bounds
  need facts the types do not have: an access token in use was given out
  (`TokensTyped`), so were a call's cookies (`SessionBounds`), a subscription that waits
  is owed an event (`PendingBound`), a batch of changes is within the limit
  (`WantedLimited`), every discovery under way has room for its snapshot (`MetaBounds`).

`PlatformProofs`:

- `AuditStaysProvable`: one transaction has read the last line, and its entry follows
  it (`LogInv`); an open file's head is that of its chain (`FileInv`).
- `RotationsAreFollowed`: the values of a reference were read in the order
  fingerprints, cache, connections, manager, so connections that are behind the
  manager are behind or at the fingerprints (`Ordered`), or do without a secret they
  do not need (`Without`).
- `DecisionsAreAsShown`: from the check on, a page about to be decided on and a
  decision under way are about somebody else's write (`OthersWrite`).
- `UnitsStayServed`: a unit holds workers of its own (`UnitsOwn`), no worker runs that
  no unit knows of (`NoneForgotten`), and a version starts only after the one being
  tried was told to stop (`TriedIsStopped`).
- `RetriedRunsResolve`: every link under way is to a master record, and a link is
  stored before its run is retried (`MatchesKnown`, `SeatsKnown`).
- `PluginsStayContained`: a governed write has the ID of the change it is for
  (`PluginsInv`).
- `AgentsAreToldTheTruth`: the run's end, its attempts, the store and the document tell
  the same (`Documented`), who asks under the ID asks for the request that runs (`Asked`), and
  the pending notice is out of the way before the run goes on (`Noticed`).
- `ReleasesAreReviewed`: what the verifier lets be compiled is warranted
  (`VerifyWarrants`, from the tables), and every signature in the file is on a message
  a compile or the key's owner vouches for (`SignaturesVouched`).
- `MountedSpecsAreKept`: a template is of a spec that was verified and has its
  ConfigMap (`TemplateSeen`, `Reconciling`). A status with the template's generation
  and as many updated pods as pods means that pods of no other version are left, and
  none come while the template stays (`OthersReplaced`, by the cardinality of the set
  of pods); the cached copy the operator decides on then still tells the truth, since
  only this operator changes the template.

The type invariants of `WriteGuard` and `Breaker` are theorems (`TypeCorrect`, and
the first conjunct of `SlotsAreReturned`) and are not repeated in their runs; those
of `Integration` and `Delivery` are conjuncts of `DecisionSound` and `InboxSound`.

Only model-checked:

- liveness (`EveryRunCloses`, `RunCloses`, `TrialIsSent`, `EveryEventRuns`) and
  `WritesOnce`, whose abstract specification has fairness: the prover does not treat
  fairness;
- `PlatformTypeOK`: the deliveries of `LogicPlugins` are put together with `SelectSeq` and
  `FlattenSeq`, and what those return needs induction over sequences. The types the
  theorems of `PlatformProofs` need are in their invariants.

## 8. Not modelled

- JVM connectors for SAP ECC and Power BI: calls of vendors' libraries behind the
  protocol of `RemoteConnector`.
- Policy evaluation (OPA), semver ranges, JSONata and mapping expressions: pure
  functions over documents that tables of tests cover; a policy's verdict is free
  in the models.
- Scoring and training of identity matches: numerics; any match may come out.
- The WebAssembly runtime, Temporal, Postgres, Kubernetes and the systems
  connected are external; fakes in the repository are what the systems' answers
  are modelled from.
- Presentation (console pages, lists, the command line's output), metrics, code
  generation, vendored code, examples.
- Of the modelled parts: the guard's in-memory store and amount check, CSV
  exports, signature checks of webhooks, OpenBao's token renewal, reads and tool
  lists of agents, the contents of Kubernetes objects.

## 9. Plan

Done, in this order: `WriteGuard` with its proofs, `Integration`, `Breaker` with
its proofs, `Delivery`; `Tokens`, `AuditLog`, `AgentWrite`, `Supervisor`,
`Operator`; the connectors' modules; `Rotation`, `LogicPlugins`, `Identity`,
`MetaGraph`, `SpecRelease`, `Console`; `WriteOnce` and its refinement.

Then proofs for every value of the constants, in the order of section 7: the
refinement's safety part and `SuccessKeepsDocument`; `Integration`; `Delivery`; the
modules of `connectors` and `platform`.

The last of these were `MountedSpecKept`, `NoChangeSkipped` and `SkipsOnlyKnown`, for
which pods, changes and records became sets, counted by cardinality, and
`ConnectorsTypeOK`.

Then the failures that `Sessions`, `Polling`, `TargetWrite` and `AgentWrite` had left
out (expiry, interrupted drains, changing lists, lost answers of updates, refusals of
repeated commits) became part of the models; the properties name what they break, and
two of the claims they refute are runs.

Next: the two hazards without a property (inbox rows pruned by age, and a call that
outlives its lease), which need a clock in `Delivery` and in `WriteGuard`.
