--------------------------- MODULE IngestPipeline ---------------------------
(***************************************************************************)
(* The life of an accepted sync request inside the backend process: the   *)
(* ingest loop claims its job, fetches from the provider and queues parse *)
(* work; a pool of LLM threads consumes the Redis parse stream; the apply *)
(* loop applies the stored result.  The loops share the job, sync-request *)
(* and outbox tables of Postgres and never talk to each other directly.   *)
(*                                                                         *)
(* One action is one database transaction (or one Redis command where it  *)
(* is not covered by a transaction), so every commit is a point where     *)
(* another loop may run or the process may die.                            *)
(*                                                                         *)
(* Time.  Any amount of it may pass between two commits, so a claim timeout *)
(* or an idle message needs no clock: the step that acts on it is always   *)
(* enabled.  Only the backoff of a PENDING job is kept, as the flag due,   *)
(* because a job that is not due does not hold back younger ones.          *)
(***************************************************************************)
EXTENDS Integers, Sequences, FiniteSets

CONSTANTS
    Requests,       \* sync requests, numbered by the id of their ingest job
    Sources,        \* input sources
    SourceOf,       \* the source each request belongs to
    Threads,        \* threads of the LLM pool (llm_worker_concurrency)
    MaxAttempts,    \* llm_max_retry_attempts
    DispatchThreshold, \* dispatch_threshold, a literal 3 in the code
    MsgIds          \* bound: unacknowledged entries of the parse stream

ASSUME RequestsAssumption == Requests \subseteq Nat \ {0}
ASSUME SourceOfAssumption == SourceOf \in [Requests -> Sources]
ASSUME MaxAttemptsAssumption == MaxAttempts \in Nat \ {0}
ASSUME DispatchThresholdAssumption == DispatchThreshold \in Nat \ {0}
ASSUME MsgIdsAssumption == MsgIds \subseteq Nat \ {0}

VARIABLES
    job,        \* ingest_jobs: one row per accepted request
    sync,       \* sync_requests: the row the user sees
    loaded,     \* job rows as the ingest loop's session holds them in memory
    ingest,     \* the fetch the ingest loop is in, if any
    stream,     \* parse stream with its consumer-group pending list
    retry,      \* parse retry set, one slot per request
    thread,     \* program counters of the LLM threads
    results,    \* ingest_results: requests with a stored result
    outbox,     \* integration_outbox rows of type ingest.result.ready
    inbox,      \* outbox positions recorded by the core.ingest.apply consumer
    applyLog,   \* ingest_apply_log: requests recorded as applied
    applied,    \* history: how often the records of a request were applied
    apply       \* program counter of the apply loop

tables   == <<results, outbox, inbox, applyLog, applied>>
ingestVs == <<loaded, ingest>>
redisVs  == <<stream, retry>>
vars     == <<job, sync, ingestVs, redisVs, thread, tables, apply>>

NoRequest == 0
NoId      == 0
NoRetry   == -1

JobStatus == {"NONE", "PENDING", "CLAIMED", "SUCCEEDED", "DEAD_LETTER"}

\* The stages of payload_json["workflow_stage"] that some guard tells apart:
\* waiting for the dispatcher, anything between dispatch and the end of the
\* parse, and all the others.
WorkflowStage == {"OTHER", "LLM_ENQUEUE_PENDING", "LLM_WORK"}

\* An ingest_jobs row.  parse: payload holds llm_parse_payload; disp:
\* llm_enqueue_dispatch_attempt.  Attempts are only compared with
\* MaxAttempts (and disp with DispatchThreshold), so they stop there.
Job == [status  : JobStatus, attempt : 0..MaxAttempts, wf : WorkflowStage,
        parse : BOOLEAN, disp : 0..DispatchThreshold, due : BOOLEAN]

NoJob == [status |-> "NONE", attempt |-> 0, wf |-> "OTHER",
          parse |-> FALSE, disp |-> 0, due |-> FALSE]

Sync == [status : {"PENDING", "QUEUED", "RUNNING", "SUCCEEDED", "FAILED"},
         stage  : {"CONNECTOR_FETCH", "LLM_QUEUE", "LLM_PARSE", "RESULT_READY",
                   "APPLYING", "COMPLETED", "FAILED"}]

SyncState(status, stage) == [status |-> status, stage |-> stage]

IngestIdle == [req |-> NoRequest, locked |-> FALSE,
               sync |-> SyncState("PENDING", "CONNECTOR_FETCH")]

ThreadIdle == [pc |-> "idle", id |-> NoId, req |-> NoRequest, attempt |-> 0]
NoEntry    == [at |-> "free", req |-> NoRequest, attempt |-> 0]
ApplyIdle  == 0

Entry == [at : {"stream", "pending"}, req : Requests, attempt : 0..MaxAttempts]
Work  == [pc : {"preflight", "start", "parsing", "ack"}, id : MsgIds,
          req : Requests, attempt : 0..MaxAttempts]
Event == [req : Requests, status : {"PENDING", "PROCESSED", "FAILED"}]

Init ==
    /\ job      = [r \in Requests |-> NoJob]
    /\ sync     = [r \in Requests |-> SyncState("PENDING", "CONNECTOR_FETCH")]
    /\ loaded   = [r \in Requests |-> NoJob]
    /\ ingest   = IngestIdle
    /\ stream   = [i \in MsgIds |-> NoEntry]
    /\ retry    = [r \in Requests |-> NoRetry]
    /\ thread   = [t \in Threads |-> ThreadIdle]
    /\ results  = {}
    /\ outbox   = <<>>
    /\ inbox    = {}
    /\ applyLog = {}
    /\ applied  = [r \in Requests |-> 0]
    /\ apply    = ApplyIdle

-----------------------------------------------------------------------------
(* The shared kernel: what a transition writes into a job row.             *)

AtMost(bound, n) == IF n > bound THEN bound ELSE n
Attempt(n) == AtMost(MaxAttempts, n)

RetryTransition(row, next, status, wf) ==
    [row EXCEPT !.status = status, !.attempt = Attempt(next), !.wf = wf, !.due = FALSE]

\* Mutant: the job ends as FAILED.
DeadLetterAsFailed(row, attempt) ==
    [row EXCEPT !.status = "FAILED", !.attempt = Attempt(attempt), !.wf = "OTHER", !.due = FALSE]

\* attempt_mode "set"
DeadLetterTransition(row, attempt) ==
    [row EXCEPT !.status = "DEAD_LETTER", !.attempt = Attempt(attempt),
                !.wf = "OTHER", !.due = FALSE]

\* attempt_mode "max"
DeadLetterAtLeast(row, attempt) ==
    DeadLetterTransition(row, IF attempt > row.attempt THEN attempt ELSE row.attempt + 1)

SuccessTransition(row, keepsParse) ==
    [row EXCEPT !.status = "SUCCEEDED", !.wf = "OTHER", !.due = FALSE,
                !.parse = keepsParse /\ row.parse]

\* Mutant: no look for an existing result.
InsertResultAndOutbox(r) ==
    /\ results' = results \cup {r}
    /\ outbox'  = Append(outbox, [req |-> r, status |-> "PENDING"])

\* What the LLM side writes while it is at work; next_retry_at moves ahead.
Working(row) == [row EXCEPT !.wf = "LLM_WORK", !.due = FALSE]

\* At most one result and one ingest.result.ready event per request.
UpsertIngestResultAndOutboxOnce(r) ==
    IF r \in results
    THEN UNCHANGED <<results, outbox>>
    ELSE /\ results' = results \cup {r}
         /\ outbox'  = Append(outbox, [req |-> r, status |-> "PENDING"])

\* A row of which the session holds an older copy: the UPDATE names only the
\* columns whose new value differs from that copy.
Flushed(column, copy, new) == IF new = copy THEN column ELSE new

FlushedSync(row, copy, new) ==
    [status |-> Flushed(row.status, copy.status, new.status),
     stage  |-> Flushed(row.stage,  copy.stage,  new.stage)]

\* payload_json is one column (it carries a timestamp, so it always differs)
\* and next_retry_at is always new; status and attempt go column by column.
FlushedJob(row, copy, new) ==
    [new EXCEPT !.status  = Flushed(row.status,  copy.status,  new.status),
                !.attempt = Flushed(row.attempt, copy.attempt, new.attempt)]

\* SELECT ... FOR UPDATE by an LLM thread waits while the ingest loop holds
\* the row; the locks of all other transactions end within one action.
Locked(r) == ingest.locked /\ ingest.req = r

\* XADD: a new entry of the stream, under an id no thread still remembers.
FreeIds == {i \in MsgIds : stream[i] = NoEntry /\ \A t \in Threads : thread[t].id # i}

Enqueue(r, attempt) ==
    /\ FreeIds # {}
    /\ LET id == CHOOSE i \in FreeIds : \A k \in FreeIds : i <= k
       IN  stream' = [stream EXCEPT ![id] =
                         [at |-> "stream", req |-> r, attempt |-> attempt]]

-----------------------------------------------------------------------------
(* The ingest loop: one thread that runs its stages in turn.  While a      *)
(* claimed batch is being processed nothing else of the loop runs.         *)

BatchDone == ingest = IngestIdle /\ \A r \in Requests : loaded[r] = NoJob

\* _consume_sync_requested_events: the job row, the QUEUED sync and the
\* processed event are one commit per event, in the order of the event ids.
AcceptSyncRequest(r) ==
    /\ BatchDone
    /\ job[r].status = "NONE"
    /\ \A q \in Requests : q < r => job[q].status # "NONE"
    /\ job'  = [job  EXCEPT ![r] = [NoJob EXCEPT !.status = "PENDING", !.due = TRUE]]
    /\ sync' = [sync EXCEPT ![r] = SyncState("QUEUED", "CONNECTOR_FETCH")]
    /\ UNCHANGED <<ingestVs, redisVs, thread, tables, apply>>

RequeueStaleClaimedJob(r) ==
    /\ BatchDone
    /\ job[r].status = "CLAIMED"
    /\ LET attempt == job[r].attempt + 1
       IN  IF attempt < MaxAttempts
           THEN /\ job'  = [job EXCEPT ![r] = RetryTransition(@, attempt, "PENDING", "OTHER")]
                /\ sync' = [sync EXCEPT ![r] = SyncState("QUEUED", "CONNECTOR_FETCH")]
           ELSE /\ job'  = [job EXCEPT ![r] = DeadLetterTransition(@, attempt)]
                /\ sync' = [sync EXCEPT ![r] = SyncState("FAILED", "FAILED")]
    /\ UNCHANGED <<ingestVs, redisVs, thread, tables, apply>>

AwaitsDispatch(r) ==
    job[r].status = "CLAIMED" /\ job[r].wf = "LLM_ENQUEUE_PENDING" /\ job[r].parse

\* dispatch_pending_llm_enqueues adds the entry to the stream and changes the
\* row in the commit at the end; the row is locked in between.
DispatchLlmEnqueue(r) ==
    /\ BatchDone
    /\ AwaitsDispatch(r)
    /\ Enqueue(r, job[r].attempt)
    /\ job'  = [job  EXCEPT ![r] = Working(@)]
    /\ sync' = [sync EXCEPT ![r] = SyncState("RUNNING", "LLM_PARSE")]
    /\ UNCHANGED <<ingestVs, retry, thread, tables, apply>>

\* The commit fails, or the process dies before it: the entry stays.
DispatchRolledBack(r) ==
    /\ BatchDone
    /\ AwaitsDispatch(r)
    /\ Enqueue(r, job[r].attempt)
    /\ UNCHANGED <<job, sync, ingestVs, retry, thread, tables, apply>>

\* The Redis call raised: the entry was not added, or only the reply was lost.
\* The third failure sends the job back to the connector; unlike the other
\* retries it does not look at MaxAttempts.
DispatchFails(r) ==
    /\ BatchDone
    /\ AwaitsDispatch(r)
    /\ Enqueue(r, job[r].attempt) \/ UNCHANGED stream
    /\ LET attempts == job[r].disp + 1
           counted  == [job[r] EXCEPT !.disp = AtMost(DispatchThreshold, attempts)]
       IN  IF attempts < DispatchThreshold
           THEN /\ job'  = [job  EXCEPT ![r] = counted]
                /\ sync' = [sync EXCEPT ![r] = SyncState("RUNNING", "LLM_QUEUE")]
           ELSE /\ job'  = [job EXCEPT ![r] =
                               RetryTransition(counted, job[r].attempt + 1, "PENDING", "OTHER")]
                /\ sync' = [sync EXCEPT ![r] = SyncState("QUEUED", "LLM_QUEUE")]
    /\ UNCHANGED <<ingestVs, retry, thread, tables, apply>>

\* claim_jobs: due jobs with no older job of the source that is claimed or
\* due as well.  The claimed rows stay in the session's memory from here on.
Claimable(r) ==
    /\ job[r].status = "PENDING"
    /\ job[r].due
    /\ \A q \in Requests :
          q < r /\ SourceOf[q] = SourceOf[r] =>
             ~ (job[q].status = "CLAIMED" \/ (job[q].status = "PENDING" /\ job[q].due))

ClaimJobs ==
    LET batch == {r \in Requests : Claimable(r)}
        claimed == [r \in batch |-> [job[r] EXCEPT !.status = "CLAIMED", !.due = FALSE]]
    IN  /\ BatchDone
        /\ batch # {}
        /\ job'    = [r \in Requests |-> IF r \in batch THEN claimed[r] ELSE job[r]]
        /\ loaded' = [r \in Requests |-> IF r \in batch THEN claimed[r] ELSE NoJob]
        /\ sync'   = [r \in Requests |-> IF r \in batch
                                         THEN SyncState("RUNNING", "CONNECTOR_FETCH")
                                         ELSE sync[r]]
        /\ UNCHANGED <<ingest, redisVs, thread, tables, apply>>

\* process_claimed_job reads the row FOR UPDATE, but the session already holds
\* it: the status it tests is the one it wrote when it claimed the job.  The
\* sync row is read anew.
BeginFetch(r) ==
    /\ ingest = IngestIdle
    /\ loaded[r].status = "CLAIMED"
    /\ \A q \in Requests : loaded[q] # NoJob => r <= q
    /\ ingest' = [req |-> r, locked |-> TRUE, sync |-> sync[r]]
    /\ UNCHANGED <<job, sync, loaded, redisVs, thread, tables, apply>>

\* A progress report commits, and with the commit the row lock is gone.
EmitProgress(r) ==
    /\ ingest.req = r
    /\ LET running == SyncState("RUNNING", "CONNECTOR_FETCH")
       IN  /\ job'    = [job  EXCEPT ![r] = FlushedJob(@, loaded[r], loaded[r])]
           /\ sync'   = [sync EXCEPT ![r] = FlushedSync(@, ingest.sync, running)]
           /\ ingest' = [ingest EXCEPT !.locked = FALSE, !.sync = running]
    /\ UNCHANGED <<loaded, redisVs, thread, tables, apply>>

\* The commit that ends process_claimed_job, whatever the fetch returned.
EndFetch(r, row, state) ==
    /\ ingest.req = r
    /\ job'    = [job  EXCEPT ![r] = FlushedJob(@, loaded[r], row)]
    /\ sync'   = [sync EXCEPT ![r] = FlushedSync(@, ingest.sync, state)]
    /\ loaded' = [loaded EXCEPT ![r] = NoJob]
    /\ ingest' = IngestIdle
    /\ UNCHANGED <<redisVs, thread, inbox, applyLog, applied, apply>>

\* apply_failure; an authorization failure is never retried.
FetchFails(r, retryable) ==
    LET next == loaded[r].attempt + 1
    IN  /\ IF retryable /\ next < MaxAttempts
           THEN EndFetch(r, RetryTransition(loaded[r], next, "PENDING", "OTHER"),
                         SyncState("QUEUED", "CONNECTOR_FETCH"))
           ELSE EndFetch(r, DeadLetterTransition(loaded[r], next),
                         SyncState("FAILED", "FAILED"))
        /\ UNCHANGED <<results, outbox>>

\* _continue_connector_fetch: more pages to come, no attempt is counted.
ContinueConnectorFetch(r) ==
    /\ EndFetch(r, [loaded[r] EXCEPT !.status = "PENDING", !.due = FALSE],
                SyncState("RUNNING", "CONNECTOR_FETCH"))
    /\ UNCHANGED <<results, outbox>>

MarkLlmEnqueuePending(r) ==
    /\ EndFetch(r, [loaded[r] EXCEPT !.status = "CLAIMED", !.wf = "LLM_ENQUEUE_PENDING",
                                     !.parse = TRUE, !.due = FALSE],
                SyncState("RUNNING", "LLM_QUEUE"))
    /\ UNCHANGED <<results, outbox>>

\* Mutant: nothing was fetched, so nothing is stored.
SuccessWithoutResult(r) ==
    /\ EndFetch(r, SuccessTransition(loaded[r], TRUE), SyncState("SUCCEEDED", "COMPLETED"))
    /\ UNCHANGED <<results, outbox>>

\* The sync is COMPLETED although the apply loop has the event still to take.
ApplySuccessWithoutLlm(r) ==
    /\ EndFetch(r, SuccessTransition(loaded[r], TRUE), SyncState("SUCCEEDED", "COMPLETED"))
    /\ UpsertIngestResultAndOutboxOnce(r)

\* A database error ends the tick: the open transaction is rolled back and
\* the rest of the claimed batch is left CLAIMED for the claim timeout.
IngestTickFails ==
    /\ ~BatchDone
    /\ loaded' = [r \in Requests |-> NoJob]
    /\ ingest' = IngestIdle
    /\ UNCHANGED <<job, sync, redisVs, thread, tables, apply>>

-----------------------------------------------------------------------------
(* The LLM loop: at-least-once delivery of parse messages to a pool of     *)
(* threads.  A message is acknowledged after the transactions it caused.   *)

\* move_due_parse_retries
MoveDueRetry(r) ==
    /\ retry[r] # NoRetry
    /\ Enqueue(r, retry[r])
    /\ retry' = [retry EXCEPT ![r] = NoRetry]
    /\ UNCHANGED <<job, sync, ingestVs, thread, tables, apply>>

\* XREADGROUP hands out a new entry, XAUTOCLAIM one that was pending for
\* longer than the claim timeout - whoever holds it, even a thread at work.
ConsumeParseTask(t, i) ==
    /\ thread[t] = ThreadIdle
    /\ stream[i].at # "free"
    /\ stream' = [stream EXCEPT ![i].at = "pending"]
    /\ thread' = [thread EXCEPT ![t] = [pc |-> "preflight", id |-> i,
                                        req |-> stream[i].req, attempt |-> stream[i].attempt]]
    /\ UNCHANGED <<job, sync, ingestVs, retry, tables, apply>>

\* A finished job's message is acknowledged unseen; a job that went back to
\* PENDING leaves it pending, to be claimed again later; so does a claimed job
\* whose parse payload is gone, which is dead-lettered.
PrepareMessageForProcessing(t) ==
    LET r == thread[t].req
        seen(next) == thread' = [thread EXCEPT ![t] = next]
    IN  /\ thread[t].pc = "preflight"
        /\ ~Locked(r)
        /\ \/ /\ job[r].status \in {"SUCCEEDED", "DEAD_LETTER"}
              /\ seen([thread[t] EXCEPT !.pc = "ack"])
              /\ UNCHANGED <<job, sync>>
           \/ /\ job[r].status = "PENDING"
              /\ seen(ThreadIdle)
              /\ UNCHANGED <<job, sync>>
           \/ /\ job[r].status = "CLAIMED" /\ job[r].parse
              /\ seen([thread[t] EXCEPT !.pc = "start"])
              /\ UNCHANGED <<job, sync>>
           \/ /\ job[r].status = "CLAIMED" /\ ~job[r].parse
              /\ seen(ThreadIdle)
              /\ job'  = [job  EXCEPT ![r] = DeadLetterAtLeast(@, thread[t].attempt + 1)]
              /\ sync' = [sync EXCEPT ![r] = SyncState("FAILED", "FAILED")]
        /\ UNCHANGED <<ingestVs, redisVs, tables, apply>>

\* Mutant: the payload is taken out of the job when the parse begins.
StartTakesPayload(t) ==
    LET r == thread[t].req
    IN  /\ thread[t].pc = "start"
        /\ ~Locked(r)
        /\ job'    = [job  EXCEPT ![r] = [Working(@) EXCEPT !.parse = FALSE]]
        /\ sync'   = [sync EXCEPT ![r] = SyncState("RUNNING", "LLM_PARSE")]
        /\ thread' = [thread EXCEPT ![t].pc = "parsing"]
        /\ UNCHANGED <<ingestVs, redisVs, tables, apply>>

\* mark_llm_task_started extends the claim; it does not look at the status.
MarkLlmTaskStarted(t) ==
    LET r == thread[t].req
    IN  /\ thread[t].pc = "start"
        /\ ~Locked(r)
        /\ job'    = [job  EXCEPT ![r] = Working(@)]
        /\ sync'   = [sync EXCEPT ![r] = SyncState("RUNNING", "LLM_PARSE")]
        /\ thread' = [thread EXCEPT ![t].pc = "parsing"]
        /\ UNCHANGED <<ingestVs, redisVs, tables, apply>>

MarkLlmSuccess(t) ==
    LET r == thread[t].req
    IN  /\ thread[t].pc = "parsing"
        /\ ~Locked(r)
        /\ UpsertIngestResultAndOutboxOnce(r)
        /\ job'    = [job  EXCEPT ![r] = SuccessTransition(@, FALSE)]
        /\ sync'   = [sync EXCEPT ![r] = SyncState("RUNNING", "RESULT_READY")]
        /\ thread' = [thread EXCEPT ![t].pc = "ack"]
        /\ UNCHANGED <<ingestVs, redisVs, inbox, applyLog, applied, apply>>

\* Mutant: the job is marked for a retry nobody schedules.
UnscheduledRetry(t) ==
    LET r == thread[t].req
        next == thread[t].attempt + 1
    IN  /\ thread[t].pc = "parsing"
        /\ ~Locked(r)
        /\ next < MaxAttempts
        /\ job'    = [job  EXCEPT ![r] = RetryTransition(@, next, "CLAIMED", "LLM_WORK")]
        /\ sync'   = [sync EXCEPT ![r] = SyncState("RUNNING", "LLM_PARSE")]
        /\ thread' = [thread EXCEPT ![t].pc = "ack"]
        /\ UNCHANGED <<ingestVs, redisVs, tables, apply>>

\* apply_llm_failure_transition with attempts left.
LlmRetry(t) ==
    LET r == thread[t].req
        next == thread[t].attempt + 1
    IN  /\ thread[t].pc = "parsing"
        /\ ~Locked(r)
        /\ next < MaxAttempts
        /\ retry'  = [retry EXCEPT ![r] = next]
        /\ job'    = [job  EXCEPT ![r] = RetryTransition(@, next, "CLAIMED", "LLM_WORK")]
        /\ sync'   = [sync EXCEPT ![r] = SyncState("RUNNING", "LLM_PARSE")]
        /\ thread' = [thread EXCEPT ![t].pc = "ack"]
        /\ UNCHANGED <<ingestVs, stream, tables, apply>>

\* The other half of apply_llm_failure_transition: a failure that may not be
\* retried, the last attempt, or a retry for which Redis answered an error -
\* and kept it or not.
LlmDeadLetter(t) ==
    LET r == thread[t].req
        next == thread[t].attempt + 1
    IN  /\ thread[t].pc = "parsing"
        /\ ~Locked(r)
        /\ \/ UNCHANGED retry
           \/ next < MaxAttempts /\ retry' = [retry EXCEPT ![r] = next]
        /\ job'    = [job  EXCEPT ![r] = DeadLetterAtLeast(@, next)]
        /\ sync'   = [sync EXCEPT ![r] = SyncState("FAILED", "FAILED")]
        /\ thread' = [thread EXCEPT ![t].pc = "ack"]
        /\ UNCHANGED <<ingestVs, stream, tables, apply>>

\* The rate limiter rejected the call: the same attempt again in a second.
ApplyLlmBackpressure(t) ==
    LET r == thread[t].req
    IN  /\ thread[t].pc = "parsing"
        /\ ~Locked(r)
        /\ retry'  = [retry EXCEPT ![r] = thread[t].attempt]
        /\ job'    = [job  EXCEPT ![r] = Working(@)]
        /\ sync'   = [sync EXCEPT ![r] = SyncState("RUNNING", "LLM_PARSE")]
        /\ thread' = [thread EXCEPT ![t].pc = "ack"]
        /\ UNCHANGED <<ingestVs, stream, tables, apply>>

\* Both of them schedule the retry before they commit: when the commit fails
\* the retry stays, and the message stays pending as well.
ScheduledRetryRolledBack(t) ==
    /\ thread[t].pc = "parsing"
    /\ ~Locked(thread[t].req)
    /\ \E attempt \in {thread[t].attempt, thread[t].attempt + 1} :
          /\ attempt > thread[t].attempt => attempt < MaxAttempts
          /\ retry' = [retry EXCEPT ![thread[t].req] = attempt]
    /\ thread' = [thread EXCEPT ![t] = ThreadIdle]
    /\ UNCHANGED <<job, sync, ingestVs, stream, tables, apply>>

AckParseTask(t) ==
    /\ thread[t].pc = "ack"
    /\ stream' = [stream EXCEPT ![thread[t].id] = NoEntry]
    /\ thread' = [thread EXCEPT ![t] = ThreadIdle]
    /\ UNCHANGED <<job, sync, ingestVs, retry, tables, apply>>

\* An exception nothing in the thread handles (Redis or Postgres is away):
\* the transaction is rolled back and the message stays pending.
ThreadFails(t) ==
    /\ thread[t] # ThreadIdle
    /\ thread' = [thread EXCEPT ![t] = ThreadIdle]
    /\ UNCHANGED <<job, sync, ingestVs, redisVs, tables, apply>>

-----------------------------------------------------------------------------
(* The apply loop: the oldest pending ingest.result.ready event first.     *)

OldestPending(e) ==
    /\ apply = ApplyIdle
    /\ e \in DOMAIN outbox
    /\ outbox[e].status = "PENDING"
    /\ \A d \in 1..(e - 1) : outbox[d].status # "PENDING"

\* Mutant: neither the inbox nor the apply log keeps a second application out.
ApplyUnguarded(e) ==
    LET r == outbox[e].req
    IN  /\ OldestPending(e)
        /\ inbox'    = inbox \cup {e}
        /\ applyLog' = applyLog \cup {r}
        /\ applied'  = [applied EXCEPT ![r] = @ + 1]
        /\ sync'     = [sync EXCEPT ![r] = SyncState("SUCCEEDED", "COMPLETED")]
        /\ apply'    = e
        /\ UNCHANGED <<job, ingestVs, redisVs, thread, results, outbox>>

\* apply_ingest_result_idempotent commits the inbox row, the apply log and the
\* records together - before the event itself is marked.  The APPLYING stage
\* set by the caller is overwritten in the same transaction.  A request that is
\* in the apply log already is rolled back to before the inbox row.
ApplyIngestResult(e) ==
    LET r == outbox[e].req
    IN  /\ OldestPending(e)
        /\ e \notin inbox
        /\ apply' = e
        /\ IF r \in applyLog
           THEN UNCHANGED <<inbox, applyLog, applied, sync>>
           ELSE /\ inbox'    = inbox \cup {e}
                /\ applyLog' = applyLog \cup {r}
                /\ applied'  = [applied EXCEPT ![r] = @ + 1]
                /\ sync'     = [sync EXCEPT ![r] = SyncState("SUCCEEDED", "COMPLETED")]
        /\ UNCHANGED <<job, ingestVs, redisVs, thread, results, outbox>>

\* The second commit of the tick.
MarkEventProcessed(e) ==
    /\ apply = e
    /\ e # ApplyIdle
    /\ outbox' = [outbox EXCEPT ![e].status = "PROCESSED"]
    /\ apply'  = ApplyIdle
    /\ UNCHANGED <<job, sync, ingestVs, redisVs, thread, results, inbox, applyLog,
                   applied>>

\* The second commit raised, although the records are applied by now: the
\* event is given up and the sync fails - unless that commit fails too.
MarkEventFails(e) ==
    /\ apply = e
    /\ e # ApplyIdle
    /\ apply' = ApplyIdle
    /\ \/ /\ outbox' = [outbox EXCEPT ![e].status = "FAILED"]
          /\ sync'   = [sync EXCEPT ![outbox[e].req] = SyncState("FAILED", "FAILED")]
       \/ UNCHANGED <<outbox, sync>>
    /\ UNCHANGED <<job, ingestVs, redisVs, thread, results, inbox, applyLog, applied>>

\* Mutant: a consumed event is passed over, not closed.
PassOverConsumedEvent(e) ==
    /\ OldestPending(e)
    /\ e \in inbox
    /\ UNCHANGED vars

\* The inbox row is there already: a previous process died between the two
\* commits.
SkipConsumedEvent(e) ==
    /\ OldestPending(e)
    /\ e \in inbox
    /\ outbox' = [outbox EXCEPT ![e].status = "PROCESSED"]
    /\ UNCHANGED <<job, sync, ingestVs, redisVs, thread, results, inbox, applyLog,
                   applied, apply>>

\* Mutant: the event is closed as if it had been handled.
SwallowApplyFailure(e) ==
    /\ OldestPending(e)
    /\ e \notin inbox
    /\ outbox' = [outbox EXCEPT ![e].status = "PROCESSED"]
    /\ sync'   = [sync EXCEPT ![outbox[e].req] = SyncState("FAILED", "FAILED")]
    /\ UNCHANGED <<job, ingestVs, redisVs, thread, results, inbox, applyLog, applied, apply>>

\* Applying the records raised: everything is rolled back, the event is given
\* up for good and the sync fails.
ApplyFails(e) ==
    LET r == outbox[e].req
    IN  /\ OldestPending(e)
        /\ e \notin inbox
        /\ outbox' = [outbox EXCEPT ![e].status = "FAILED"]
        /\ sync'   = [sync EXCEPT ![r] = SyncState("FAILED", "FAILED")]
        /\ UNCHANGED <<job, ingestVs, redisVs, thread, results, inbox, applyLog,
                       applied, apply>>

-----------------------------------------------------------------------------
BackoffElapses(r) ==
    /\ job[r].status = "PENDING"
    /\ ~job[r].due
    /\ job' = [job EXCEPT ![r].due = TRUE]
    /\ UNCHANGED <<sync, ingestVs, redisVs, thread, tables, apply>>

\* The process dies and restarts: what was in memory is gone, open
\* transactions are rolled back, Postgres and Redis keep what they have.
Crash ==
    /\ loaded'  = [r \in Requests |-> NoJob]
    /\ ingest'  = IngestIdle
    /\ thread'  = [t \in Threads |-> ThreadIdle]
    /\ apply'   = ApplyIdle
    /\ UNCHANGED <<job, sync, redisVs, tables>>

IngestNext(r) ==
    \/ AcceptSyncRequest(r)
    \/ RequeueStaleClaimedJob(r)
    \/ DispatchLlmEnqueue(r)
    \/ DispatchRolledBack(r)
    \/ DispatchFails(r)
    \/ BeginFetch(r)
    \/ EmitProgress(r)
    \/ \E retryable \in BOOLEAN : FetchFails(r, retryable)
    \/ ContinueConnectorFetch(r)
    \/ MarkLlmEnqueuePending(r)
    \/ ApplySuccessWithoutLlm(r)

LlmNext(t) ==
    \/ \E i \in MsgIds : ConsumeParseTask(t, i)
    \/ PrepareMessageForProcessing(t)
    \/ MarkLlmTaskStarted(t)
    \/ MarkLlmSuccess(t)
    \/ LlmRetry(t)
    \/ LlmDeadLetter(t)
    \/ ApplyLlmBackpressure(t)
    \/ ScheduledRetryRolledBack(t)
    \/ AckParseTask(t)
    \/ ThreadFails(t)

\* What the tick does when no database error keeps it from it.
ApplyProgress(e) ==
    \/ ApplyIngestResult(e)
    \/ MarkEventProcessed(e)
    \/ SkipConsumedEvent(e)
    \/ ApplyFails(e)

ApplyNext(e) ==
    \/ ApplyProgress(e)
    \/ MarkEventFails(e)

Next ==
    \/ ClaimJobs
    \/ IngestTickFails
    \/ \E r \in Requests : IngestNext(r) \/ MoveDueRetry(r) \/ BackoffElapses(r)
    \/ \E t \in Threads : LlmNext(t)
    \/ \E e \in DOMAIN outbox : ApplyNext(e)
    \/ Crash

Spec == Init /\ [][Next]_vars

\* The apply worker ticks for ever and takes what is pending.  Nothing is
\* assumed of the provider, of the LLM or of how long the process lives.
FairSpec == Spec /\ WF_vars(\E e \in DOMAIN outbox : ApplyProgress(e))

-----------------------------------------------------------------------------
(* Properties                                                              *)

EventsOf(r) == {e \in DOMAIN outbox : outbox[e].req = r}

\* The rows and messages have the shape the code gives them; in particular no
\* transition uses the job status FAILED, and a thread that is not idle holds
\* a message of an accepted request.
TypeOK ==
    /\ job    \in [Requests -> Job]
    /\ sync   \in [Requests -> Sync]
    /\ loaded \in [Requests -> {NoJob} \cup {row \in Job : row.status = "CLAIMED"}]
    /\ ingest \in {IngestIdle} \cup [req : Requests, locked : BOOLEAN, sync : Sync]
    /\ stream \in [MsgIds -> {NoEntry} \cup Entry]
    /\ retry  \in [Requests -> {NoRetry} \cup 0..MaxAttempts]
    /\ thread \in [Threads -> {ThreadIdle} \cup Work]
    /\ results  \subseteq Requests
    /\ outbox   \in Seq(Event)
    /\ inbox    \subseteq DOMAIN outbox
    /\ applyLog \subseteq Requests
    /\ applied  \in [Requests -> Nat]
    /\ apply    \in {ApplyIdle} \cup DOMAIN outbox

\* However often a request is parsed, retried or redelivered, and wherever the
\* process dies, its records are applied at most once, and a request recorded
\* in ingest_apply_log was applied.
AppliedAtMostOnce == \A r \in Requests : applied[r] = IF r \in applyLog THEN 1 ELSE 0

\* A stored result and its ingest.result.ready event exist together, one each.
OneEventPerResult ==
    /\ \A r \in Requests : r \in results <=> EventsOf(r) # {}
    /\ \A d, e \in DOMAIN outbox : outbox[d].req = outbox[e].req => d = e

\* An event is closed as PROCESSED only for a result whose records were applied.
ProcessedMeansApplied ==
    \A e \in DOMAIN outbox : outbox[e].status = "PROCESSED" => outbox[e].req \in applyLog

\* A job or a sync never reports success without a stored result behind it,
\* in spite of the stale copies that are written over each other.
SuccessHasResult ==
    \A r \in Requests :
       job[r].status = "SUCCEEDED" \/ sync[r].status = "SUCCEEDED" => r \in results

\* The parse payload is dropped only once a result is stored: no late commit of
\* a thread or of the ingest loop leaves a job that waits for the dispatcher, or
\* for the LLM, with nothing to parse and nothing parsed.
ParsePayloadOutlivesWork ==
    \A r \in Requests :
       /\ job[r].status = "CLAIMED"
       /\ job[r].wf \in {"LLM_ENQUEUE_PENDING", "LLM_WORK"}
       /\ ~job[r].parse
       => r \in results /\ job[r].wf = "LLM_WORK"

\* A thread lets go of its message only when the request has a result, is given
\* up, or has a retry scheduled: with the message the only trace of the work
\* that is left, no parse task is lost to a worker that failed half-way.
AckNeedsOutcome ==
    [][\A t \in Threads :
          thread[t].pc # "ack" /\ thread'[t].pc = "ack" =>
             LET r == thread[t].req
             IN  r \in results' \/ job'[r].status = "DEAD_LETTER" \/ retry'[r] # NoRetry]_vars

\* What makes the properties above inductive.  The three records of a
\* consumed event - inbox row, apply log, event status - agree ...
ApplyRecordsAgree ==
    /\ applyLog = {outbox[e].req : e \in inbox}
    /\ \A e \in DOMAIN outbox : outbox[e].status = "PROCESSED" => e \in inbox
    /\ apply # ApplyIdle => apply \in inbox /\ outbox[apply].status = "PENDING"

\* ... and as long as there is no result, every copy of a payload somebody may
\* still write back or parse from holds the parse payload.
PayloadCopiesAgree ==
    \A r \in Requests :
       /\ job[r].wf = "LLM_ENQUEUE_PENDING" => job[r].parse
       /\ loaded[r].wf = "LLM_ENQUEUE_PENDING" => loaded[r].parse
       /\ r \notin results =>
             /\ job[r].wf = "LLM_WORK" => job[r].parse
             /\ loaded[r].wf = "LLM_WORK" => loaded[r].parse
             /\ loaded[r] # NoJob => loaded[r].parse = job[r].parse
             /\ \A t \in Threads :
                   thread[t].req = r /\ thread[t].pc \in {"start", "parsing"} => job[r].parse

\* There is nothing of a request before its job row.
UnacceptedIsUntouched ==
    \A r \in Requests :
       job[r].status = "NONE" => job[r] = NoJob /\ loaded[r] = NoJob /\ r \notin results

\* The fetch under way is that of a job the session holds.
FetchHoldsCopy == \A r \in Requests : ingest.req = r => loaded[r].status = "CLAIMED"

IInv ==
    /\ TypeOK
    /\ AppliedAtMostOnce
    /\ OneEventPerResult
    /\ ApplyRecordsAgree
    /\ SuccessHasResult
    /\ PayloadCopiesAgree
    /\ UnacceptedIsUntouched
    /\ FetchHoldsCopy

\* The sync a user sees as RESULT_READY has records that wait to be applied.
ReadyResultIsPending ==
    \A r \in Requests :
       sync[r].stage = "RESULT_READY" =>
          \E e \in EventsOf(r) : outbox[e].status = "PENDING"

\* A sync that was reported COMPLETED does not fail afterwards.
CompletedDoesNotFail ==
    [][\A r \in Requests :
          sync[r].stage = "COMPLETED" => sync'[r].stage # "FAILED"]_vars

\* Every result the pipeline stores is applied or given up some day, although
\* the process may die at any point, any number of times.
EveryResultIsDecided ==
    \A r \in Requests :
       r \in results ~> \A e \in EventsOf(r) : outbox[e].status # "PENDING"

\* The tables as ResultDelivery sees them.
PhaseOf(e) ==
    CASE outbox[e].status = "PROCESSED" -> "delivered"
      [] outbox[e].status = "FAILED"    -> "rejected"
      [] outbox[e].status = "PENDING"   ->
            IF outbox[e].req \in applyLog THEN "applied" ELSE "stored"

phaseBar ==
    [r \in Requests |-> IF r \in results THEN PhaseOf(CHOOSE e \in EventsOf(r) : TRUE)
                                         ELSE "none"]

Delivery == INSTANCE ResultDelivery WITH phase <- phaseBar, effects <- applied

\* The pipeline implements the promise of ResultDelivery.
ImplementsDelivery == Delivery!Spec

=============================================================================
