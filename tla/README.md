# CalendarDIFF: specification and proofs

CalendarDIFF is one backend process that keeps a student's calendar and mail
sources in sync and proposes changes for review.  Several worker loops share
Postgres tables and a Redis stream inside that process (docs/architecture.md:4);
none of them calls another.  Everything a user sees of a sync - "`sync_requests`
is the single user-visible runtime state machine" (docs/architecture.md:36) - is
written by whichever loop commits last.  This directory models that machinery in
TLA+, checks it with TLC on small instances and proves its main promises with
TLAPS for instances of any size.

## 1. Inventory

| part | source | state it keeps | operations | what it must get right |
|---|---|---|---|---|
| sources | `src/app/modules/sources` | `input_sources`, `sync_requests`, cursors, monitoring window | enqueue a sync (scheduler, webhook, user), dedupe, change or defer the window | one active manual sync; no window change lost; a purge is followed by a sync |
| fetchers | `runtime/connectors` (`calendar_fetcher.py`, `gmail_fetcher.py`, `ics_delta`) | cursor of a source, continuation in the job's payload, component rows | delta of a calendar feed against the cursor's fingerprints, listing and chunks of a mailbox, window filter | what the cursor has passed is observed, or its record kept |
| connectors (ingest loop) | `runtime/connectors` | `ingest_jobs`, the session's in-memory copies | accept `sync.requested`, claim, requeue, fetch, end fetch, dispatch parse work | a job's payload is not dropped before its work is done; success only with a result |
| kernel | `runtime/kernel` | job rows, `ingest_results`, `integration_outbox`, Redis stream and retry set | transitions, row locks, result + event, enqueue / consume / claim idle / ack / retry | result and event together and once; no message without trace |
| llm (thread pool) | `runtime/llm` | job rows, Redis, component tasks | preflight, start, parse, success / retry / dead letter / back pressure, acknowledge, calendar fan-out and reduce | acknowledged only with an outcome; duplicates harmless; fan-out completes |
| apply loop | `runtime/apply` | `integration_inbox`, `ingest_apply_log`, observations, pending changes | take the oldest ready event, apply, mark | applied at most once; every result decided |
| changes | `modules/changes` | `changes`, `event_entities` | approve / reject / edit a pending change, edit the approved state, learn a label | a decision is not overwritten by a later proposal; the approved state is what the approvals add up to |
| notify, channels | `modules/notify`, `modules/channels` | notifications, digest log, deliveries and leases | consume `review.pending`, send digests, claim / report deliveries | no notification lost; at most one owner of a delivery |
| agents | `modules/agents` | proposals, approval tickets, command runs | create, confirm, cancel, expire; execute a plan wholly or in part | a ticket is executed at most once and not after its cancellation; a step waits for those it depends on |
| manual | `modules/manual` | events of the user's own | create, change, delete | as for an edit of the approved state |
| families, onboarding, settings, auth | `modules/...` | their tables | CRUD in one transaction | mostly local |
| llm_gateway, common, workbench, health, frontend, MCP server | ... | caches, limiter counters | provider calls, projections, user interface | outside the state machines |

How they interact: through rows and messages only.  The user or the scheduler
writes a `sync.requested` event; the ingest loop turns it into a job; the job's
payload carries the parse work that the dispatcher puts on the Redis stream; an
LLM thread stores a result with an `ingest.result.ready` event; the apply loop
turns the result into observations and pending changes, and announces new
ones in the outbox for the notifications.  The user's decisions, edits and
labels, agents' tickets and the families' rebuilds write the same rows of
`changes` and `event_entities` as the apply loop does.

What makes this hard: the stream is at least once (`XAUTOCLAIM` takes messages
over from threads that are only slow); Redis commands are not part of the
database transaction next to them; the ingest loop's session keeps copies of
rows across commits (`expire_on_commit=False`, src/app/db/session.py:42) and
writes them back; the apply loop needs two commits per event; claims time out
while their work goes on; any commit may be the last one before a crash.  Beyond
the workers, rebuilds take no locks where decisions take row locks, sessions do
not flush before they query (`autoflush=False`), a source's configuration is one
JSON column that is written whole, and what an agent does commits in several
steps that give up the lock they began under.
PROJECT.json lists these hazards line by line.

## 2. Modules

| module | what it is |
|---|---|
| `IngestPipeline` | from an accepted sync request to the applied result: ingest loop, LLM threads, Redis queue, apply loop, crashes |
| `ResultDelivery` | what that machinery promises about one result, without jobs, messages, threads or crashes |
| `MCIngestPipeline` | symmetry for TLC |
| `CalendarFanout` | the parse of a calendar delta, component by component, and the reduce step that stores the result |
| `MCCalendarFanout` | symmetry for TLC |
| `IngestPipelineProofs` | proofs: types, delivery promises, refinement; payloads, copies and messages of a request |
| `CalendarFanoutProofs` | proofs: types, attempts and traces of components |
| `SyncIntake` | the sync requests of one source and the window it is monitored in |
| `SourceJobs` | how the ingest loop takes up the jobs of one source; shared by the next two |
| `CalendarDelta` | how a calendar feed becomes observations, and what the cursor means then |
| `MailboxDelta` | how a mailbox is listed, read in chunks and passed on, and what its history id means |
| `ReviewChanges` | observations, proposals, decisions and edits, two sessions at a time |
| `ReviewedEvents` | what that promises about one event: its state, its one proposal, and who changes them |
| `ChangeNotices` | from the announcement of a change to the digest mail |
| `NoticeDelivery` | what the notification workers promise about one change's notice, without workers, tables or ticks |
| `ApprovalTickets` | an agent's proposals, their tickets and the actions behind them |
| `ChannelDispatch` | deliveries to channels, claimed for a lease |
| `AgentCommands` | plans of several steps, executed wholly, in part, or twice at once |
| `MCObservations`, `MCOutreach`, `MCIntake` | compose modules that share no state into one run each |
| `DeltaProofs` | proofs of `CalendarDelta`, `MailboxDelta` and `MCObservations` |
| `IntakeProofs` | proofs of `SyncIntake`, `ChangeNotices` and `MCIntake` |
| `ReviewChangesProofs`, `ApprovalTicketsProofs`, `ChannelDispatchProofs` | proofs of the modules they are named after |
| `AgentCommandsProofs` | proofs of `AgentCommands` and `MCOutreach` |

`IngestPipeline` and `CalendarFanout` look at the same job row, stream and retry
set.  A mail sync and everything after the result is in the first, where a
parse is one message; what becomes of that one message when the delta is a
calendar's is in the second, which stops at the stored result.  Both are about
messages, attempts and crashes, and leave the contents out; `CalendarDelta` and
`MailboxDelta` are about contents and cursor, and leave out messages and their
traces.  `SyncIntake` has the requests of a source as wholes, with what each knows of
the monitoring window.  `ReviewChanges` takes over where a result's records become
observations, and `ChangeNotices` where a new proposal is announced.

### State of `IngestPipeline`

| variable | in the program |
|---|---|
| `job` | `ingest_jobs`: status, attempt, `payload_json.workflow_stage`, whether `llm_parse_payload` is there, the dispatch counter, whether `next_retry_at` is due |
| `sync` | `sync_requests`: status and stage |
| `loaded`, `ingest` | the ingest session's memory: the rows as it claimed them, the fetch it is in, whether it holds the row lock, its copy of the sync row |
| `stream`, `retry` | unacknowledged entries of the parse stream, and the retry set, one slot per request (stream_queue.py:121) |
| `thread` | where each LLM thread is, and the message it holds |
| `results`, `outbox`, `inbox`, `applyLog` | the tables of those names |
| `applied` | history variable: how often the records of a request took effect |
| `apply` | between the two commits of the apply tick, the event |

### Actions

One action is one transaction, or one Redis command outside of one.

* **Ingest loop** (orchestrator.py, job_claiming.py, connector_runtime.py,
  connector_apply.py, connector_dispatch.py): `AcceptSyncRequest`,
  `RequeueStaleClaimedJob`, `DispatchLlmEnqueue` and its failures
  `DispatchRolledBack` (XADD without commit) and `DispatchFails` (Redis error,
  counted), `ClaimJobs` (the whole batch in one commit), `BeginFetch`,
  `EmitProgress` (commits, so the row lock goes), the four ends of a fetch
  `FetchFails`, `ContinueConnectorFetch`, `MarkLlmEnqueuePending`,
  `ApplySuccessWithoutLlm`, and `IngestTickFails`.  `FlushedJob` and
  `FlushedSync` are what SQLAlchemy writes for a row of which the session holds
  an older copy: only columns whose new value differs from the copy.
* **LLM threads** (tick_runner.py, message_preflight.py, message_processor.py,
  transitions.py): `MoveDueRetry`, `ConsumeParseTask` (a new entry, or one
  another thread still holds), `PrepareMessageForProcessing`,
  `MarkLlmTaskStarted`, `MarkLlmSuccess`, `LlmRetry`, `LlmDeadLetter`,
  `ApplyLlmBackpressure`, `ScheduledRetryRolledBack` (retry in Redis, no
  commit), `AckParseTask`, `ThreadFails`.
* **Apply loop** (worker.py, apply.py): `ApplyIngestResult` (first commit),
  `MarkEventProcessed` (second commit), `MarkEventFails`, `SkipConsumedEvent`,
  `ApplyFails`.
* **Environment**: `BackoffElapses`, `Crash`.

What is abstracted:

* Time.  A claim timeout or an idle message needs only that enough time passed,
  which is always possible between two commits; `due` is kept because it decides
  which jobs of a source hold each other up.
* Attempts are compared with `llm_max_retry_attempts` only, so they saturate
  there; likewise the dispatch counter.
* Workflow stages no guard tells apart are `"OTHER"` or `"LLM_WORK"`.
* The provider fetch and the parse are any of their outcomes.
* The batches of requeue and dispatch are taken job by job (their rows are
  independent), the read and the write of the sync row by an LLM transaction are
  one step, as they are under the job's row lock except against the apply loop.
* Left out: branches for a deleted source or sync row, the APPLYING stage (it is
  overwritten in the transaction that sets it, apply.py), the monitoring-window
  update at the end of a sync (in `SyncIntake`), metrics, progress
  texts.  The guard `status != FAILED` of apply.py:134 is not in the model: the
  worker has set the same object to RUNNING before the call.

### `CalendarFanout`

| variable | in the program |
|---|---|
| `job` | status, attempt, workflow stage; `changed`: `changed_components` of `llm_parse_payload`; `due`: the payload names a `calendar_reduce_retry_due_at` |
| `fetch` | the ingest session's copy of the payload while a fetch is under way |
| `task` | `calendar_component_parse_tasks`: status, attempt, whether `started_at` is set |
| `result` | `ingest_results`; `missed`: changed components of the delta whose cursor patch is stored that the reduce step found no row of |
| `fresh`, `pending` | parse stream: entries not yet delivered, counted by kind, and entries delivered but not acknowledged |
| `retry` | the request's one slot in the retry set (stream_queue.py:121) |
| `thread` | where each LLM thread is, its message, entry, attempt, and the delta it read |
| `starts`, `rejections`, `faults` | history: starts of a component, calls the rate limiter turned away, lost commits and crashes |

* **Ingest loop**: `RequeueStaleClaimedJob`, `ClaimJob`, the two ends of a fetch
  that leave the request open (`MarkLlmEnqueuePending`, `FetchFails`), and the
  dispatch of a delta: `DispatchLlmEnqueue` makes the rows and sends one message
  per component and the reduce message; `DispatchFails` and `DispatchRolledBack`
  send only some of them, with and without the rows.
* **Delivery**: `MoveDueRetry`, `ConsumeFresh`, `ClaimIdle`, `AckParseTask`,
  `PrepareMessageForProcessing`.
* **Child message** (calendar_component_runtime.py): `SkipComponent`,
  `StartComponent` (a commit), then one of `ComponentDecided`, `ComponentFails`,
  `ComponentRetries`, `ComponentRateLimited` (the second commit), and
  `EnqueueNext` for the message sent after it; `RateLimitRolledBack`.
* **Reduce message** (calendar_reduce_runtime.py): `ReduceWaits`, or `ReduceReads`
  and `ReduceCommits`, between which the job's row lock is held but the rows of
  the components are not; `ReduceRolledBack`.
* **Environment**: `ThreadFails`, `Crash`.

Abstracted: attempts saturate as above (`MaxAttempts` and `MaxJobAttempts` are
the same setting, separate here because the two counters are bounded
separately); equal undelivered entries are counted up to the bound `MaxCopies`,
beyond which another one is not kept (the runs take 1, the theorems hold for any
bound); order in the stream is kept only in the fairness.  Left out: the sync row and its progress
texts, a fetch that ends without parse work, what the apply loop does with the
result (both in `IngestPipeline`), contents and fingerprints of components (in
`CalendarDelta`), and the preflight's branch for a job without parse payload, which needs a payload
that `ParsePayloadOutlivesWork` excludes.

### `SyncIntake`

| variable | in the program |
|---|---|
| `config` | `config_json` of the source: the window in force and the queued one |
| `stored` | the windows under which the source's observations and its cursor were fetched |
| `syncs` | requests, by age: stage, the window their fetch went by, the copy of the configuration a worker's session holds |
| `keyed` | windows with a sync request under the idempotency key of a rescope |
| `patch` | what each PATCH of the configuration has read |
| `wanted`, `raced` | history: the window of the latest PATCH; a window came in force beside work under the one before |

* **Requests**: `ScheduleSync`, `WebhookSync`, `ManualSync`; a rescope asks for one
  (`RescopeSync`) unless its session sees one that is active, or the key is taken.
* **PATCH /sources/{id}**: `BeginPatch` reads configuration and activity,
  `CommitPatch` changes the window or queues it.
* **Worker**: `ConsumeSync`, `ClaimSync`, `FetchFinds`, `FetchFindsNothing`,
  `RetrySync`, `ParseEnds`, `FailSync`, `BeginApply`, `CommitApply`, `FailApply`; each end
  of a request goes through `Rebind`
  (source_monitoring_window_rebind.py), which puts a queued window in force, purges
  what the source delivered and asks for a sync.

Whoever writes the configuration writes the whole column from a copy; that is why
sessions carry `copy`.  With autoflush off, the session that ends a request may
still see it as active: `SeesActive` is both answers.  Abstracted: one
source, which stays active and whose window has begun; the next poll time; a fetch
of a source with nothing stored finds something; failures and retries are
bounded.

### `CalendarDelta` and `MailboxDelta`

Jobs of one source in both go by `SourceJobs`: an older job holds up a younger one
unless it sleeps or has ended, applied or not.  So two results of a source may be
under way at once, the cursor that a fetch reads may be older than a
result not applied yet, and results may be applied in another order than
they were requested in.

| variable | in the program |
|---|---|
| `feed`, `box`, `kept` | what the provider would answer; the last message; the oldest history id answered for |
| `icsCursor`, `mailCursor` | `cursor_json`: fingerprints and validators; the history id |
| `icsJob`, `mailJob` | `ingest_jobs` with `llm_parse_payload` and `connector_continuation` |
| `icsRow`, `icsReduce` | `calendar_component_parse_tasks` with the contents threads are parsing; the payload a reduce message has read |
| `mailFetch`, `mailParse` | what the fetch and the LLM thread under way have read |
| `icsQueue`, `mailQueue`, `icsStored`, `mailStored` | `ingest_results` and their events |
| `shown`, `unresolved` | the calendar's active `source_event_observations` and `ingest_unresolved_records` |
| `doubtful`, `adrift`, `taken`, `dismissed` | history |

* **Calendar**: `FetchNotModified` (304), `FetchNothingNew`, `FetchDelta`,
  `DispatchDelta`, `StartComponent`, `FinishComponent`, `ReduceReads`,
  `ReduceCommits`, `ApplyDelta`, `ApplyDeltaFails`; `JobGoesBack` is every failure and
  every claim that timed out.  In `ApplyDelta` any of the result's records may be lost
  to the observations (`Observes`): outside the window in force, out of the product's
  scope, without a kind or an entity (semantic_observation_apply.py:35-124).
* **Mailbox**: `BeginMailFetch` (the profile's history id and the cursor),
  `ListHistory` or `ListBootstrap`, `Hydrate` for each chunk under a claim of its
  own, `ParseMailReads`, `ParseMailStores`, `ApplyMail`, `ApplyMailFails`;
  `MailFetchLost` is the death of the process.

Abstracted: a component's fingerprint is its content; the etag and the
last-modified date together are the feed they stand for; a calendar's fetch is one
step, because the ingest loop fetches one job at a time and nobody writes in
between what its end reads again; rows of a finished request are not kept, as
nobody reads them; of several reduce messages or threads that have read the same
payload the last one is kept.  The filters of messages are any
outcome, and a message deleted before it is read is left out like a filtered one;
messages are those the query of a listing is about.  A purge or a new window
is left to `SyncIntake`.

### `ReviewChanges`

| variable | in the program |
|---|---|
| `obs`, `refs` | `source_event_observations` of an event: the active payload of each source, and the sources with a row at all |
| `entity` | `event_entities`: lifecycle, payload, manual support |
| `change`, `lastId` | `changes`: type and payload, review status, origin |
| `announced` | the outbox events of new changes |
| `txn` | the transaction each session is in, with the copies it has read |
| `verdict`, `ledger`, `owed`, `raced` | history: decision events; the state the approvals add up to; events not decided since the sources were compared with them; events an unlocked transaction overlapped another on |

* **Rebuilds** (apply worker, window, families): `Observe`, `Vanish`, `Rescope`,
  `RebuildUserWorkItemState`, `ApplyDirective` compute a plan (`Plans` is
  proposal_decision.py), `ReadPending` reads the open proposal without a lock, and
  `CommitRebuild` inserts, rewrites or rejects it.  `RetireObservation` has no
  rebuild.
* **Label learning**: `LearnLabel` or `LearnKnownLabel`, then `PickRebuilt`,
  `LockPicked` and `CommitApproval`.
* **Decisions**: `Approve` and `CommitApproval`, `RejectChange`, `EditProposal`.
* **Edits of the approved state** (canonical edit and manual events): `EditEvent`,
  `DeleteEvent`, `KeepEvent`, `CommitEdit`, `CreateManualEvent`.
* `Abort`: a rollback, of an error, a death, or the victim of a deadlock.

A transaction reads in one step and commits in a later one; what an UPDATE writes is
what differs from the copy (`Written`), and row locks are held from the
read to the end.  Abstracted: a payload is an atom; a transaction is about one event
and an event has one observation per source; deciding a batch is deciding one by
one; the rejecting query of an edit and its commit are one step.  Left out: review
notes, evidence, marks that a change was viewed, the intake phase, and the merging
of one source's records into one event.

### `ChangeNotices`

Outbox events, `inbox` (`integration_inbox`), `notice` (`notifications`), and per
worker the events, row locks and digest it is at.  `TakeEvents`, `AddInbox`,
`EnqueueNotifications` or `MarkKnown` for each event; `TakeNotices`, `MailUser` or
`FailUser` for each user, `CommitDigest`; `TickBreaks`, `BreakDeadlock`.  The first
commit of a tick releases the locks on all its events, the inbox key is what keeps
an event from being done twice, and a wait for that key may close a circle with a row
lock: these are in the model.  The text of mails and an event with a malformed
payload, which nobody emits, are not.

### `ApprovalTickets`, `ChannelDispatch`, `AgentCommands`

`ApprovalTickets`: `proposal`, `ticket`, the session's progress, and the
targets: one change (`open`, and `says`, what it proposes) and the syncs of one source (`active`,
`requested`).  `CreateProposal`, `LookForTicket` and `InsertTicket`, `ConfirmTicket`, the
actions by kind (`RefuseAction`, `DecideOrEdit`, `LearnAlias` and
`ApproveRebuilt`, `CheckSource` and `EnqueueSync`), `FailTicket`, `FinishTicket`,
`CancelTicket`, `RecordTransition`; a session may break off anywhere and the target may
drift.  An edit's snapshot is compared with the change by content
(approval_service.py:630), and a rebuild may put a content back
(pending_change_store.py:121): `ChangeDrifts` writes any other one.  `wants` is what the
edit makes of its snapshot; if that is the same, nothing is written.  `RefuseAction` is every
`ApprovalTicketError`: a target that drifted or is gone, and a source that takes no
sync now.  The commit of the action gives the ticket's lock up, so a cancel or another
confirmation may come before the mark.  Left out: the relinking of a family (a
label learning without the approval), the reuse of an open proposal, and the
proposal's text.

`ChannelDispatch`: `delivery` (`channel_deliveries`) and the claims in the hands of
external dispatchers.  `RecordChannelDelivery`, `ClaimPendingDeliveries`, `PostMessage`,
`MarkDeliverySent`, `MarkDeliveryFailed`, `AcknowledgeDelivery`, `LeaseLapses`,
`DispatcherDies`.  A claim's random token is the number of the attempt.

`AgentCommands`: the row of `agent_command_runs` and, per execution, its copy of the
results.  `BeginExecution` commits and with that unlocks the row; `PassStep`,
`BlockStep`, `StepSucceeds`, `StepFails`; `FinishExecution` writes the results;
`ExecutionBreaks`.  What a step does is any of its outcomes.

## 3. What the runs check

| run | question | instance |
|---|---|---|
| `duplicate_workers` | two threads with the same message, next to all loops and crashes: stored once, applied at most once, acknowledged only with an outcome; `ResultDelivery` is implemented | 1 request, 2 threads, 1 stream entry, 2 attempts, dispatch threshold 1 |
| `redelivered_messages` | two messages of one request at once: no success without a result, no payload dropped early | 1 request, 1 thread, 2 stream entries, 2 attempts, dispatch threshold 1 |
| `apply_progress` | every stored result is decided, whatever crashes | 2 requests, apply loop and ingest loop, dispatch threshold 2, fairness on the apply loop |
| `ready_result_stuck` | finding: a late duplicate leaves a sync RUNNING / RESULT_READY for ever | as `duplicate_workers` |
| `completed_sync_fails` | finding: a sync reported COMPLETED turns FAILED | as `duplicate_workers` |
| `fanout_mishaps` | a component is given up only after all its attempts, whatever goes wrong; while nothing does, one the reduce step waits for has a message or a thread | 1 component, 2 threads, 2 delivered entries, 2 attempts, 2 job attempts, 1 mishap |
| `fanout_ends` | without mishaps a dispatched fan-out ends | the same with 1 job attempt, no mishap, fairness |
| `fanout_retry_lost` | finding: the rate limiter's retry is overwritten | the same with 1 job attempt, 1 mishap |
| `reduce_misses_components` | finding: a result without the changed components | the same with 2 job attempts, no mishap |
| `observations` | the cursor of a calendar or a mailbox never gets ahead of what is observed; a decision is final, proposals fit, approvals add up; `ReviewedEvents` is implemented | calendar: 2 components, 3 contents of which 1 outside the window, 2 requests, 2 changes of the feed, 1 setback; mailbox: 3 messages, chunks of 1, lists up to 2, 2 requests, 1 setback; review: 1 event, a calendar and a mailbox, 2 payloads, 2 sessions, 3 changes, 3 observations |
| `outreach` | tickets act once and say what happened; a delivery's outcome is that of its latest claim; steps of a command wait for each other and are not repeated | 1 proposal, 2 tickets, 2 sessions, 3 contents of the change, 1 rewriting by others, 1 session that breaks off; 2 deliveries, 2 dispatchers, 3 claims; 3 steps, each after those before it, 2 runners, 3 executions |
| `intake_ends` | a new window comes in force and is synced; every announced change is mailed or recorded as failed; `NoticeDelivery` is implemented | 2 windows, 2 PATCHes at once, 2 requests (3 with a rescope's), 1 failure; 2 changes of 2 users, 2 workers, 2 events, 1 tick that breaks off; fairness |

Properties:

* `TypeOK` - in particular no transition uses the job status FAILED, and a busy
  thread always holds a message of an accepted request.
* `AppliedAtMostOnce`, `OneEventPerResult` - the delivery promises, against
  duplicates, retries and both crash points of the apply tick.
* `AckNeedsOutcome` - a thread lets go of a message only with a result, a
  dead-lettered job or a scheduled retry.
* `SuccessHasResult`, `ParsePayloadOutlivesWork` - against the stale copies: a
  success has a result behind it, and a job that waits for the dispatcher or for
  the LLM has something to parse until there is a result.
* `ImplementsDelivery` - refinement of `ResultDelivery`.  It includes that what is marked as
  processed was applied (`ProcessedMeansApplied`), which no run checks by itself.
* `EveryResultIsDecided` - liveness.

Properties of the fan-out:

* `GivenUpAfterAttempts` - the attempt is counted in the row, compared as the
  thread remembers it, given back by the rate limiter, and written by threads
  that may have lost the component to another: still none is given up early.
* `ComponentHasTrace` - the reduce step keeps the claim alive while it waits
  (calendar_reduce_runtime.py), so a component nobody comes back to would be
  waited for for ever.
* `FanoutEnds` - liveness.
* `RejectedComponentHasTrace`, `ResultCoversDelta` - the two findings.

Properties of `observations`:

* `CursorMeansObserved` - the next delta is computed from the cursor alone, so a
  component the cursor speaks of wrongly is lost until it changes.  What the cursor says of
  a component is what its last record said, observed or kept among the unresolved ones
  and never both, unless it lies outside the window.  Against it work
  refetches into rows already taken up, results applied in another order,
  fetches beside an unapplied result, reduce messages of an earlier delta.  Components
  in `adrift` are excepted: for them it does not hold, for the reasons in section 4.  So
  nothing is claimed of a component that was given up, or whose row was taken up before a
  refetch.
* `NoMessagePassedOver` - likewise for the history id of a mailbox, which is read
  before the messages are, in another claim than the last chunk, and stored by
  whichever result is applied last; here there are no exceptions.
* `NeverReopened` - whatever overlaps.
* `DecidedIsFinal`, `StateFromApprovals`, `OneFittingProposal`, `VerdictMatches`,
  `NoSilentDrift` - for events on which no unlocked transaction overlapped another
  (`raced`): two rebuilds, or a rebuild or a label being learnt beside a decision.
  Decisions and edits among themselves may overlap in every way.
* `ImplementsReview` - for the same events, step by step: what `ReviewChanges` does to
  event and proposal together is a step of `ReviewedEvents`, which knows no sessions, copies,
  locks or sources.  An approval there takes effect as the proposal stands at that moment, though
  in the code the payload is a copy read earlier; an edit closes what is proposed in
  the step that changes the event, though it locks and writes two tables one after the other.
  The mapping takes `watched` as the events that are not `raced`, `state` as
  their rows and `open` as their PENDING changes.  The abstract module makes no promise of
  progress: nothing obliges the user to decide.

Properties of `outreach`: `ActedOnce`, `OutcomeIsTrue`, `CancelIsRespected` and
`LastStatusTold` for tickets, `OutcomeOfLatestClaim` and `RepeatedAfterLapse` for
deliveries, `DependenciesFirst`, `SuccessIsReal` and `ResumesOnce` for commands.  The first
four say what is left of "once" when the action commits before its ticket
does: a retry runs into the comparison with the snapshot, a sync into its key.
`ActedOnce` is about steps: whoever carries a proposal out carries it out for the first
time, or it is an edit and others have made the change say again what the edit was made of
(`spent` forgets it then).  That case is in the run: an edit commits, its session breaks off
or a second session confirms before the mark, a rebuild puts the content back, and the
comparison fits again.  It is a repetition the code allows, and the only one.

Properties of `intake_ends`: `StoredFitsWindow` (unless `raced`),
`QueuedWindowLands` (also if requests overlap; as long as a window is queued, manual
syncs are turned away) and `LatestWindowSynced` for the window; `InboxHasNotices`,
`MailsAccountedFor`, `EveryChangeNoticed` and `ImplementsNotices` for the notices.
`ImplementsNotices` is about each change by itself, step by step: it falls due once, is
out in one digest at a time, and its outcome, sent or failed, is final; only a transaction that
breaks off after its digest went out makes it due again.  In the mapping a change is silent or
announced by the outbox, due or out by a PENDING notice and by whether a worker is
mailing it, and what was lost is `unrecorded`.  `NoticeDelivery` promises no progress; that
is `EveryChangeNoticed`.

A *mishap* is anything the fan-out cannot rule out and may be broken by: a call
the rate limiter turns away, a lost commit, a failed thread, a crash.
Redelivery, claim timeouts, failed fetches and refetches are not mishaps: they
may happen at any time in every run.  `ComponentHasTrace` and `FanoutEnds` speak of
behaviours without mishaps because with one they do not hold (section 4).

Each of the three newer runs composes modules that share no variable.  A
behaviour checks one of them (`part` is chosen at the start and the others stay at
rest), so their states add up and each keeps its own properties.  Where symmetry needs
it, the cfg gives parts the same names: tickets and deliveries, sessions and
dispatchers and runners, payloads and contents.  `intake_ends` has no symmetry, because it
checks liveness.

Bounds.  Two threads and one entry are enough for a message that two hold at
once; two entries and one thread for two messages of one request; two attempts
give both the retry and the last attempt; a dispatch threshold of 1
makes every failed dispatch send the job back, which is the case that interferes
with messages already in the stream; the counted failure below the threshold
changes the counter and the stage of the sync only and is covered by
`apply_progress`, where the threshold is 2.  `MsgIds` bounds the unacknowledged entries: when
they are used up, XADD waits, which removes behaviours but adds none.  With two
requests and threads the state space exceeds what can be explored; the
safety properties do not relate requests to each other, except through the
order of the outbox and the claim guard, and the theorems cover any number.
In `observations`, two requests are enough for a fetch beside an unapplied
result and for an order turned around, two changes of the feed for a change between two
fetches and one that is taken back, one setback for a refetch; chunks of one message
give a fetch of several claims, and a list that is too long exists with three
messages and a limit of two.  Two sessions are all that can meet on a row;
three changes are a proposal, its successor and an edit.  `Explored` goes on from a state
as long as not both the three changes and the three feeds are used up, and bounds
what is looked at after an unlocked overlap, since most properties then say nothing.
In `outreach`, three contents are the snapshot, what an edit makes of it and one that others
write, and one rewriting by others is enough to put the snapshot back after an edit; three claims let a lease be taken over twice, and the third
execution can follow two that overlapped.  In `intake_ends`, two PATCHes
overlap or follow each other, and two workers are what a deadlock takes; the window at
the start is one of the two, which is any of them.
In the fan-out, two threads and two delivered entries let two threads hold the
same entry, equal entries, or the child and the reduce message of a component; two
attempts have a retry and a last attempt; one mishap is one anywhere.  Components
meet only in the reduce step, which waits for all of them, and in the retry
slot, where the other occupant that matters is the reduce step's; the
theorems are for any number of components.

Fairness.  `FairSpec` assumes only that the apply loop, as long as something is
pending, completes a tick some day (worker_loop.py ticks for ever, and an error
of one tick does not end the loop).  Nothing is assumed of providers, the LLM,
Redis, or the life of the process: `Crash` may happen infinitely often.

The fairness of `CalendarFanout` is assumed for `fanout_ends` only.  Weakly fair are
the ingest loop (claiming, the end of a fetch, dispatch), the scheduler of retries
and each thread with the message it holds: the loops tick for ever, and calls to
providers have timeouts.  Strongly fair is taking an entry of a kind from the
stream, and taking over an idle one: an entry is not enabled while all threads are
busy or gone when another thread acknowledged it, but the stream is first in,
first out, and every tick takes fresh entries beside idle ones (tick_runner.py),
so no entry is passed over for ever.  Claim timeouts are not fair: they
need never happen.

In `intake_ends`, weakly fair are the scheduler's slots (they come round for
ever), the work on the oldest request of the source (the loops tick for ever, and claims that
lapse are requeued), the answer to a PATCH that was begun, each notification
worker's steps (its loop repeats the tick after an error), and the database's
resolution of a deadlock.  Ticks that break off and failures are bounded by
constants, which is what "as long as finitely many" comes to in a finite run.

In `IngestPipeline` the system never stops: a crash is possible in every state,
so the deadlock check of TLC is on but says little.  In `CalendarFanout` it does
stop: the request ends and the last message is acknowledged, so the check is
off there.  The same holds of `outreach` and `observations`: all tickets can be executed, all
deliveries made, all requests ended and all messages read.  In `intake_ends`
the scheduler never stops, and a part that is at rest stutters by its worker's empty ticks:
the check is on.

## 4. Findings

1. `ready_result_stuck`: `mark_llm_success` (transitions.py:335) sets the sync to
   RESULT_READY without looking at what became of the result.  After a message
   was taken over from a slow thread, the slower of the two sets it after the
   apply loop has closed the only event.
2. `completed_sync_fails`: `apply_success_without_llm` (connector_apply.py:54)
   reports COMPLETED and "no apply step was required", and emits the event whose
   apply step may fail and turn the sync FAILED.

3. `fanout_retry_lost`: the retry set has one slot per request (stream_queue.py:121).
   The retry of a component the rate limiter turned away
   (calendar_component_runtime.py:289-301) is overwritten by the reduce step's
   (calendar_reduce_runtime.py:227-234), and the requeue of forgotten components
   passes it over because it was started once (calendar_reduce_runtime.py:269).
   The test says it "requeues without failing"
   (tests/test_calendar_vevent_fanout_workflow.py:272).
4. `reduce_misses_components`: the reduce step goes by the rows there are, not by
   the delta it stores the cursor patch of.  After a claim timeout and a refetch, a
   reduce message of the earlier dispatch can come before the dispatch of the new
   delta, whose components then have no rows.  The test says the reducer "waits
   until all children terminal" (the same file, line 445).

Seen on the way and not stated as properties, because nothing in the repository
promises otherwise:

* a thread that lost a component to another still writes its outcome when it is
  done, over SUCCEEDED too (calendar_component_runtime.py:173-197);
* after a crash the redelivered message of a component that was started lately is
  acknowledged as if somebody worked on it (calendar_component_runtime.py:65), and
  likewise a crash between the commit of a retry and its message leaves a
  component without one: the reduce step then waits for ever;
* when a refetch brings new content for a component, its row keeps an earlier
  outcome (calendar_component_tasks.py:85-97);
* a retry that is scheduled anew between the two halves of `move_due_retry_tasks`
  (stream_queue.py:137) is removed with the old one; `IngestPipeline` moves a retry in one
  step, so what it shows of retries holds as long as this race does not happen;
* a component outside the window, or one whose parse is given up, is in the
  fingerprints of the cursor patch (calendar_fetcher.py:95): it counts as seen and is
  looked at again only when it changes.  One that moved out of the window keeps the
  observation it had.  Components given up, the rows of a refetch that keep an
  earlier outcome, and components of an earlier dispatch are what `doubtful` records;
* a record that makes no observation retires the one there was while the cursor moves
  (semantic_observation_apply.py:35-124).  It is kept as unresolved, but nothing tries it
  again: the component comes back when it changes, or after a purge;
* an edit through a ticket is carried out again when its session breaks off before the
  mark (or a second session confirms in between) and a rebuild has put the content of the
  snapshot back;
* a fetch that begins before an older result is applied compares with the old cursor.  A
  component that changed and changed back in between is in neither delta the
  way it should be: `adrift`;
* a result that is overtaken by an older one puts the older validators back.  A
  feed that meanwhile returned to what they stand for is then answered with
  304 against a cursor, or a result under way, that speaks of another feed.  This takes four requests,
  more than `observations` has: it came up when `CursorMeansObserved` resisted its
  proof, and the components in question are now `doubtful`;
* a list of messages above `gmail_continuation_max_message_ids` makes the fetch fail, and
  the next attempt lists the same messages;
* a message that is filtered out while its course is not known yet is never looked at
  again;
* a rebuild that read a proposal as PENDING rejects it after the user approved it
  (pending_change_store.py:155), or rewrites what the approved change says (line 121);
  two rebuilds at once insert a proposal each;
* label learning approves what its session loaded before the families were rebuilt
  (label_learning_service.py:190);
* an edit that repeats the content of a REMOVED event counts as done and does not bring the
  event back (canonical_edit_apply_txn.py:54);
* a cancel that comes between the action and its mark is answered, and then overwritten
  by EXECUTED;
* a result that was fetched before a purge is applied after it and puts the old cursor back
  (apply.py:175); two writers of `config_json` lose one of the windows; the sync
  that a rescope asks for may be deduplicated onto the request that is just
  ending (source_monitoring_window_rescope.py:59); these are `raced` in `SyncIntake`,
  and its liveness properties cover the last one;
* `is_expired` of the monitoring window is false whatever the date
  (common/source_monitoring_window.py);
* late messages rewrite jobs that are SUCCEEDED or DEAD_LETTER; an attempt counter
  can run backwards; a request can be applied while its job is DEAD_LETTER.

## 5. What is proved

Every safety property that a passing run checks of a component is a theorem: invariants and action
properties alike, for any number of requests, sources, components, threads, attempts,
messages, windows, workers, events, tickets, sessions, dispatchers, steps and executions.
Bounds of the instances (changes of a feed, failures, breaks) are any natural
numbers in the theorems.

The assumptions are the named ones of the modules, and TLC evaluates each of
them in a run.  In `IngestPipeline`: requests and message ids are positive naturals
(0 stands for "none"), every request has a source, `MaxAttempts` and
`DispatchThreshold` are at least 1.  In `CalendarFanout`: the names of components
and entries differ from the reserved ones, attempts and copies are at least 1.
Elsewhere likewise: reserved names are not in the sets they stand beside, every
change has an owner (`ChangeNotices`), a step of a plan depends on earlier ones only
(`AgentCommands`).

`IngestPipelineProofs`:

| theorem | property | argument |
|---|---|---|
| `TypeCorrect` | `TypeOK` | per action; the transition operators map rows to rows |
| `AppliedOnce` | `AppliedAtMostOnce` | `DeliveryInv` |
| `ResultsHaveOneEvent` | `OneEventPerResult` | `DeliveryInv` |
| `ProcessedWasApplied` | `ProcessedMeansApplied`, not in a run | `DeliveryInv` |
| `PipelineDelivers` | `ImplementsDelivery` | each step maps to a step or a stutter of `ResultDelivery` |

`DeliveryInv` needs `ApplyRecordsAgree` beside the three properties: that the
inbox, the apply log and the event tell the same story is what keeps the second
application out after a crash between the two commits.  The proof does not go
through all actions for it: lemma `TableSteps` shows that whatever is done, the
delivery tables change in only a few ways, and the invariant and the
refinement are shown for those.  `LoggedIsConsumed` shows on the way that the
branch of `apply_ingest_result_idempotent` for a request that is already in the
apply log is never reached from the worker, because there is one event per
result.

The same module, on what becomes of a request's payload:

| theorem | property | argument |
|---|---|---|
| `InvariantHolds` | `IInv` | `PayloadInv`, which implies it |
| `SuccessIsBacked` | `SuccessHasResult` | part of `PayloadInv` |
| `PayloadOutlivesWork` | `ParsePayloadOutlivesWork` | from `PayloadCopiesAgree` |
| `AcknowledgedWithOutcome` | `AckNeedsOutcome` | the actions that acknowledge; a message of a SUCCEEDED job may be dropped because of `SuccessHasResult` |

`PayloadInv` is stated request by request (`RowInv(r)`): nothing is there before
the job row, a success has a result, every copy of a payload that may still be
written back or parsed from holds what there is to parse, and a fetch holds a
copy.  Neither `SuccessHasResult` nor `ParsePayloadOutlivesWork` is inductive
without the last two: what the ingest loop writes depends on the copy it holds,
and what a thread leaves depends on what it read before it parsed.  Each action
is shown to change the rows of one request in a legal way and to leave the
others alone.

`CalendarFanoutProofs`:

| theorem | property | argument |
|---|---|---|
| `TypeCorrect` | `TypeOK` | per action |
| `GivenUpLast` | `GivenUpAfterAttempts` | `AttemptsCounted` |
| `ComponentsKeepTrace` | `ComponentHasTrace` | `TraceInv` |

`AttemptsCounted` adds that neither a row nor a parsing thread believes in more
attempts than there were starts.  Both are needed: the row is what the
next start counts from, the thread's copy is what decides to give up.

`TraceInv` has two parts.  `EntriesHeld`, in every behaviour: the entry of a busy
thread is unacknowledged or already gone, never another's, so an acknowledgement
does not take away a foreign message.  And as long as there was no mishap:
`MessagesKnown` (a message of a component means a row, so an upsert makes no
PENDING row that somebody already looked for), `JobAgrees` (the retry slot
serves the reduce step alone; success is a stored result), and
`ComponentsCared`: a RUNNING component has a parsing thread, and a PENDING one
is `Live`.  `Live` is stronger than having a trace: an entry counts only while
none of its holders is about to acknowledge it, which is what makes the trace
survive the acknowledgement.  `TraceInv` was checked by TLC on the
instance of `fanout_mishaps` before it was proved.

`DeltaProofs`:

| theorem | property | argument |
|---|---|---|
| `CalendarTypeCorrect` | `DeltaTypeOK` | `RowsInv`: beside the types, a job has one payload at most, and a row that was written has a content |
| `CursorIsObserved` | `CursorMeansObserved` | `CursorInv` |
| `MailboxTypeCorrect` | `MailboxTypeOK` | per action |
| `NothingPassedOver` | `NoMessagePassedOver` | `CoverInv` |
| `ObservationsDoParts` | | a step of `MCObservations` is a step of one part and a stutter of the others |
| `ObservationsTypeCorrect` | `ObservationsTypeOK` | from the former and the type theorems of the parts |

`CursorInv` follows a component's content from the row to the cursor.  `JobsFit`: outside
`doubtful`, a row that was taken up belongs to the delta in the payload, so
what a thread parses, however late, is what that delta saw.  `QueueFits`: what a
stored result puts into the cursor - fingerprints and validators - says of each
component what the result's records say, or, where it is silent, what the cursor said
that its fetch compared with, or something outside the window.  Applying such a result keeps
the cursor true for every component that was not moved in between, whichever records
are lost to the observations, and those that were moved are `adrift`.  Results
need no order among themselves.

`NoMessagePassedOver` speaks of the cursor alone.  It is kept because everything that may yet
become the cursor answers for the messages up to its history id: the cursor a fetch has
read (`FetchesCovered`, with a profile no later than the mailbox), the continuation
with what is still to be read, the payload and a thread's copy of it
(`JobsCovered`), and each stored result (`QueueCovered`).  No order between results is
needed, which is why late and overtaking results do no harm.

`ChannelDispatchProofs`:

| theorem | property | argument |
|---|---|---|
| `DispatchTypeCorrect` | `DispatchTypeOK` | with `Leases`, which bounds the leases that ran out by the attempts |
| `LatestClaimIsReported` | `OutcomeOfLatestClaim` | `ClaimInv` |
| `RepeatsNeedLapses` | `RepeatedAfterLapse` | `Leases`, `ClaimInv` |

`Leases`: as many leases ran out as claims were made, except for the latest as long as its
lease runs or once it was reported.  `ClaimInv`: claims in hand and posts are of attempts
that were made, no two dispatchers hold the same one, and a row that was reported on
agrees with its latest claim, which nobody holds any more if it failed.

`AgentCommandsProofs`:

| theorem | property | argument |
|---|---|---|
| `CommandsTypeCorrect` | `CommandsTypeOK` | per action |
| `StepsWaitForDependencies` | `DependenciesFirst` | `RealInv` |
| `RecordedSuccessIsReal` | `SuccessIsReal` | `RealInv` |
| `ExecutionsResume` | `ResumesOnce` | `ResumeInv` |
| `OutreachDoesParts` | | a step of `MCOutreach` is a step of one part and a stutter of the others |
| `OutreachTypeCorrect` | `OutreachTypeOK` | from the former and the type theorems of the parts |

`RealInv` says of the row, and of every execution's copy and results, that
what they call succeeded took effect; overlapping writes only choose among such
results.  `ResumeInv` says that without overlaps and breaks there is at most one execution,
that it started from what the row says, and that the results there are - its own, or
else the row's - say of every step whether it took effect.

`ReviewChangesProofs`:

| theorem | property | argument |
|---|---|---|
| `TypeCorrect` | `TypeOK` | `TypeInv`: a session's change exists and is of its event |
| `DecidedStaysDecided` | `NeverReopened` | `TypeInv` and what `Written` leaves alone; no lock is needed |
| `DecidedStaysAsIs` | `DecidedIsFinal` | `IInv` |
| `ApprovalsAddUp` | `StateFromApprovals` | `IInv` |
| `ProposalSuitsEvent` | `OneFittingProposal` | `IInv` |
| `DecidedOnce` | `VerdictMatches` | `IInv` |
| `DriftIsProposed` | `NoSilentDrift` | `IInv` |
| `ReviewIsImplemented` | `ImplementsReview` | `IInv`; each action maps to a step or a stutter of `ReviewedEvents` |

The five properties after the second row are proved as one invariant, because none is inductive by itself.
What a transaction writes was computed from what it read, so the
invariant must say that this is still so at its commit: `SessionsSee`.  For a
decision or an edit that rests on `Locks`: two sessions never hold the same change or the same
event (`LocksExclude`), and the row an edit holds is the one it read (`EditsHold`).
A rebuild holds no lock; there it rests on `Alone`: whoever works on an event
without locks works on it alone, or the event is `raced` and nothing is claimed of it.
`EventsFit` then holds the five invariants for each event that is not `raced`.  Each commit is shown
to disturb one event only, so that the others and the sessions on them stay as they are.

The refinement rests on the same invariant.  It needed one more part of it than the
properties do: `Complete`, that a proposed removal carries no payload and every other
proposal carries one, for what is pending as well as for the plans and edits that
sessions hold; without it an approval could make of an event what no abstract step does.
Lemma `StepOnEvent` reduces a step to what happens to one event, since no commit
touches two, and `ProposalsMove` computes the open proposals after a commit from those
before it.  Then each commit is mapped: a rebuild to `Propose`, `Revise` or `Drop` according to
its plan (`RebuildReviewed`), a rejection to `Drop`, a correction to `Revise`, an
approval to `Approve` (`ApprovalReviewed`, by way of `SessionsSee`: the copy it
applies is the change as it stands), an edit to `Edit`, manual support to `Support`, and an
overlap to `Unwatch`.  Reads, locks and rollbacks stutter.

`ApprovalTicketsProofs`:

| theorem | property | argument |
|---|---|---|
| `TicketsTypeCorrect` | `TicketsTypeOK` | `TypeInv`: with what a session is at, and that an expired ticket was due |
| `StatusIsTold` | `LastStatusTold` | `TypeInv`; every commit of a status leaves a session that is to record it, or one that broke off |
| `CanceledTicketsRest` | `CancelIsRespected` | `LockInv` |
| `ProposalActsOnce` | `ActedOnce` | `ActInv` |
| `OutcomesAreTrue` | `OutcomeIsTrue` | `ActInv` |

`LockInv`: no two sessions hold a ticket's lock, and who holds it knows the
status.  `ActInv` says what keeps a second action out although the first commits before its
ticket is marked.  A proposal that counts as carried out has left nothing of its kind to carry
out (`SpentRest`): the change is decided, or it says something else than the edit's snapshot.  A
rebuild that makes the change say that again takes exactly those edits out of `spent`
(`RestStays`), and so does another edit (`EditsRest`).  A sync that was requested is there
under the ticket's key (`ActedFits`), and a session that is about to mark its ticket has
carried out what there was to carry out (`SessionsActed`).  So a comparison with the snapshot that
fits shows that the proposal is not spent, which is `ActedOnce`.

`IntakeProofs`:

| theorem | property | argument |
|---|---|---|
| `IntakeTypeCorrect` | `IntakeTypeOK` | `IntakeInv`: a request that works with a copy has one; `Full` |
| `StoredStemsFromWindow` | `StoredFitsWindow` | `IntakeInv`: `WindowFits` |
| `NoticesTypeCorrect` | `NoticesTypeOK` | `NoticesInv` |
| `KnownEventsAreNoticed` | `InboxHasNotices` | `NoticesInv`: `EventsInv` |
| `MailsAddUp` | `MailsAccountedFor` | `NoticesInv`: `MailsInv` |
| `NoticesAreDelivered` | `ImplementsNotices` | `NoticesInv` and `NoticedAnnounced`; each action maps to a step or a stutter of `NoticeDelivery` |
| `EndsTypeCorrect` | `EndsTypeOK` | both invariants hold of `MCIntake`, whose steps are those of either part |

`WindowFits`: unless `raced`, what is stored is of the window in force, and so is what
any request has looked at or is looking at.  `Full`: a rescope may go one request
beyond `MaxSyncs`, but that request then finds a purged source and keeps
further ones away as long as it is active.  `EventsInv`: an event in the inbox has its notice, and a worker
goes only through events that were announced.  `MailsInv`: the batches of workers are disjoint,
only pending notices are in them, and each mail is one of a recorded notice, of a
digest under way, or of one that broke off.  Both invariants were checked by TLC
on the instance of `intake_ends` before they were proved.

The refinement needs `NoticedAnnounced` beside `NoticesInv`: a change has a notice only
if it was announced.  Without it, an announcement could meet a change that already
has a notice, and map to a step from silent to due or sent, which `NoticeDelivery` does not
take.  Lemma `GroupMoves` shows what a step must do to the phases of a set of changes in order to be a step of the
abstract module; `MailingStays` and `QuietStep` do away with the steps that move no
phase, taking up events and filling the inbox among them.  What is left are the announcement,
the notices that fall due, a batch taken, a digest that is sent or fails, and a transaction that breaks
off.  The theorem assumes no fairness beyond what `NoticesSpec` states and uses none of it.

The last theorem of this module, and the two pairs in `AgentCommandsProofs` and `DeltaProofs`, are about the
modules that compose others into a run.  They show that composing adds nothing: each behaviour
of `MCOutreach` satisfies `TicketsSpec`, `DispatchSpec` and `CommandsSpec`, each behaviour of
`MCObservations` satisfies `Spec`, `DeltaSpec` and `MailboxSpec`, so that every theorem on a part
holds of what the run explores.  For `MCIntake` it is said of the invariants instead of the
specifications, since these contain the fairness of both parts and a behaviour there is fair to one.

Left to TLC: the liveness properties `EveryResultIsDecided`, `FanoutEnds`,
`QueuedWindowLands`, `LatestWindowSynced` and `EveryChangeNoticed` (liveness under fairness and
the ENABLED in it are beyond the prover), and the findings, which are counterexamples.  Every
invariant and every action property of the passing runs, and the three refinements, are
theorems.

## 6. Plan

Done: the pipeline, the fan-out, the intake of sync requests with the monitoring
window, the deltas of both connectors, review, notices, tickets, deliveries and commands;
abstract specifications of the delivery of results, of reviewed events and of notices;
proofs of the safety properties and of the refinements.

To come, what matters most first:

1. `ParseQueue`: stream, retry set and metadata hash at the grain of Redis
   commands, with `move_due_retry_tasks` racing `schedule_retry_task`.
2. Further action properties: what a step of the worker may never take back from
   the rows of a request.

## 7. Not modelled

Provider clients and OAuth, parsing of iCalendar and MIME text, prompts and the
semantic parsers, text normalisation, entity resolution, the planner of commands and
the texts of proposals, projections for the user interface (source status, recovery,
workbench), accounting of LLM usage, the purpose cache of messages (a shortcut of a
filter that may have any outcome anyway), sessions and passwords, onboarding and
settings (one transaction each), migrations, the frontend, the MCP server (it
calls the agents' operations), scripts, evaluation tools and training code: no
shared state of their own that a schedule could break, or data transformation that
a state machine says nothing about.  They are most of the repository's lines, and the
reason why the modules cover a small share of them.  PROJECT.json lists every
component with its status and reason.

## 8. Running

    tlc -workers 2 -config PipelineDuplicates.cfg MCIngestPipeline
    tlapm IngestPipelineProofs.tla
    tlc -workers 2 -config FanoutMishaps.cfg MCCalendarFanout
    tlapm CalendarFanoutProofs.tla
    tlc -workers 2 -config Observations.cfg MCObservations
    tlc -workers 2 -config Outreach.cfg MCOutreach
    tlc -workers 2 -config IntakeEnds.cfg MCIntake
    tlapm DeltaProofs.tla
    tlapm IntakeProofs.tla
    tlapm ReviewChangesProofs.tla
    tlapm ApprovalTicketsProofs.tla
    tlapm ChannelDispatchProofs.tla
    tlapm AgentCommandsProofs.tla
