------------------------ MODULE IngestPipelineProofs ------------------------
(***************************************************************************)
(* Proofs about IngestPipeline, for every number of requests, sources,     *)
(* threads, attempts and messages.                                         *)
(***************************************************************************)
EXTENDS IngestPipeline, TLAPS

USE DEF tables, ingestVs, redisVs

-----------------------------------------------------------------------------
(* The transitions of the kernel return rows.                              *)

LEMMA AttemptType == ASSUME NEW n \in Nat PROVE Attempt(n) \in 0..MaxAttempts
  BY MaxAttemptsAssumption DEF Attempt, AtMost

LEMMA RetryTransitionType ==
  ASSUME NEW row \in Job, NEW n \in Nat, NEW status \in JobStatus, NEW wf \in WorkflowStage
  PROVE  RetryTransition(row, n, status, wf) \in Job
  BY AttemptType DEF RetryTransition, Job

LEMMA DeadLetterTransitionType ==
  ASSUME NEW row \in Job, NEW n \in Nat
  PROVE  DeadLetterTransition(row, n) \in Job
  BY AttemptType DEF DeadLetterTransition, Job, JobStatus, WorkflowStage

LEMMA DeadLetterAtLeastType ==
  ASSUME NEW row \in Job, NEW n \in Nat
  PROVE  DeadLetterAtLeast(row, n) \in Job
  <1>1. row.attempt \in Nat
    BY MaxAttemptsAssumption DEF Job
  <1>2. (IF n > row.attempt THEN n ELSE row.attempt + 1) \in Nat
    BY <1>1
  <1> QED  BY <1>2, DeadLetterTransitionType DEF DeadLetterAtLeast

LEMMA SuccessTransitionType ==
  ASSUME NEW row \in Job, NEW keepsParse \in BOOLEAN
  PROVE  SuccessTransition(row, keepsParse) \in Job
  BY DEF SuccessTransition, Job, JobStatus, WorkflowStage

LEMMA FlushedJobType ==
  ASSUME NEW row \in Job, NEW copy \in Job, NEW new \in Job
  PROVE  FlushedJob(row, copy, new) \in Job
  BY DEF FlushedJob, Flushed, Job

LEMMA FlushedSyncType ==
  ASSUME NEW row \in Sync, NEW copy \in Sync, NEW new \in Sync
  PROVE  FlushedSync(row, copy, new) \in Sync
  BY DEF FlushedSync, Flushed, Sync

LEMMA NoJobType == NoJob \in Job
  BY MaxAttemptsAssumption, DispatchThresholdAssumption DEF NoJob, Job, JobStatus, WorkflowStage

LEMMA SyncStates ==
  /\ SyncState("PENDING", "CONNECTOR_FETCH") \in Sync
  /\ SyncState("QUEUED", "CONNECTOR_FETCH") \in Sync
  /\ SyncState("QUEUED", "LLM_QUEUE") \in Sync
  /\ SyncState("RUNNING", "CONNECTOR_FETCH") \in Sync
  /\ SyncState("RUNNING", "LLM_QUEUE") \in Sync
  /\ SyncState("RUNNING", "LLM_PARSE") \in Sync
  /\ SyncState("RUNNING", "RESULT_READY") \in Sync
  /\ SyncState("SUCCEEDED", "COMPLETED") \in Sync
  /\ SyncState("FAILED", "FAILED") \in Sync
  BY DEF SyncState, Sync

\* The outbox grows at its end, and its events keep their request.
LEMMA AppendedOutbox ==
  ASSUME NEW events \in Seq(Event), NEW event \in Event
  PROVE  /\ Append(events, event) \in Seq(Event)
         /\ DOMAIN Append(events, event) = DOMAIN events \cup {Len(events) + 1}
         /\ Append(events, event)[Len(events) + 1] = event
         /\ \A e \in DOMAIN events : e # Len(events) + 1 /\ Append(events, event)[e] = events[e]
  OBVIOUS

LEMMA ClosedEvent ==
  ASSUME NEW events \in Seq(Event), NEW e \in DOMAIN events,
         NEW status \in {"PENDING", "PROCESSED", "FAILED"}
  PROVE  LET closed == [events EXCEPT ![e].status = status]
         IN  /\ closed \in Seq(Event)
             /\ DOMAIN closed = DOMAIN events
             /\ closed[e].status = status
             /\ \A d \in DOMAIN events : closed[d].req = events[d].req
             /\ \A d \in DOMAIN events : d # e => closed[d] = events[d]
  <1> DEFINE closed == [events EXCEPT ![e].status = status]
  <1>1. \A d \in DOMAIN events : closed[d] \in Event
    <2> TAKE d \in DOMAIN events
    <2>1. events[d] \in Event
      OBVIOUS
    <2>2. [events[d] EXCEPT !.status = status] \in Event
      BY <2>1 DEF Event
    <2> QED  BY <2>1, <2>2
  <1>2. DOMAIN closed = 1..Len(events)
    OBVIOUS
  <1>3. closed \in Seq(Event)
    BY <1>1, <1>2
  <1> QED  BY <1>3 DEF Event

LEMMA NoRequestIsNone == NoRequest \notin Requests
  BY RequestsAssumption DEF NoRequest

LEMMA JobRows ==
  ASSUME NEW row \in Job
  PROVE  /\ Working(row) \in Job
         /\ [row EXCEPT !.due = TRUE] \in Job
         /\ [row EXCEPT !.status = "CLAIMED", !.due = FALSE] \in Job
         /\ [row EXCEPT !.status = "PENDING", !.due = FALSE] \in Job
         /\ [row EXCEPT !.status = "PENDING", !.due = TRUE] \in Job
         /\ [row EXCEPT !.status = "CLAIMED", !.wf = "LLM_ENQUEUE_PENDING",
                        !.parse = TRUE, !.due = FALSE] \in Job
         /\ \A n \in 0..DispatchThreshold : [row EXCEPT !.disp = n] \in Job
  BY DEF Working, Job, JobStatus, WorkflowStage

\* What TypeOK says of the row, the fetch and the message an action is about.
LEMMA RowTypes ==
  ASSUME TypeOK, NEW r \in Requests
  PROVE  /\ job[r] \in Job /\ job[r].attempt \in 0..MaxAttempts /\ job[r].attempt + 1 \in Nat
         /\ loaded[r] \in Job /\ loaded[r].attempt + 1 \in Nat
         /\ loaded[r].status \in {"NONE", "CLAIMED"}
         /\ ingest.sync \in Sync
         /\ sync[r] \in Sync
  <1>1. job[r] \in Job /\ sync[r] \in Sync /\ loaded[r] \in Job
    BY NoJobType DEF TypeOK
  <1>2. loaded[r].status \in {"NONE", "CLAIMED"}
    BY DEF TypeOK, NoJob
  <1>3. ingest.sync \in Sync
    BY SyncStates DEF TypeOK, IngestIdle
  <1> QED  BY <1>1, <1>2, <1>3, MaxAttemptsAssumption DEF Job

LEMMA ThreadTypes ==
  ASSUME TypeOK, NEW t \in Threads, thread[t].pc # "idle"
  PROVE  /\ thread[t] \in Work
         /\ thread[t].id \in MsgIds /\ thread[t].req \in Requests
         /\ thread[t].attempt \in 0..MaxAttempts /\ thread[t].attempt + 1 \in Nat
         /\ \A pc \in {"start", "parsing", "ack"} : [thread[t] EXCEPT !.pc = pc] \in Work
  <1>1. thread[t] \in Work
    BY DEF TypeOK, ThreadIdle
  <1> QED  BY <1>1, MaxAttemptsAssumption DEF Work

LEMMA EventTypes ==
  ASSUME TypeOK, NEW e \in DOMAIN outbox
  PROVE  outbox[e] \in Event /\ outbox[e].req \in Requests
  <1>1. outbox[e] \in Event
    BY DEF TypeOK
  <1> QED  BY <1>1 DEF Event

LEMMA EnqueueType ==
  ASSUME TypeOK, NEW r \in Requests, NEW attempt \in 0..MaxAttempts, Enqueue(r, attempt)
  PROVE  stream' \in [MsgIds -> {NoEntry} \cup Entry]
  <1>1. [at |-> "stream", req |-> r, attempt |-> attempt] \in Entry
    BY DEF Entry
  <1> QED  BY <1>1 DEF Enqueue, TypeOK

LEMMA UpsertType ==
  ASSUME TypeOK, NEW r \in Requests, UpsertIngestResultAndOutboxOnce(r)
  PROVE  /\ results' \subseteq Requests
         /\ outbox' \in Seq(Event)
         /\ DOMAIN outbox \subseteq DOMAIN outbox'
  <1>1. CASE r \in results
    BY <1>1 DEF UpsertIngestResultAndOutboxOnce, TypeOK
  <1>2. CASE r \notin results
    <2>1. [req |-> r, status |-> "PENDING"] \in Event
      BY DEF Event
    <2>2. /\ results' = results \cup {r}
          /\ outbox' = Append(outbox, [req |-> r, status |-> "PENDING"])
      BY <1>2 DEF UpsertIngestResultAndOutboxOnce
    <2>3. outbox \in Seq(Event) /\ results \subseteq Requests
      BY DEF TypeOK
    <2> QED  BY <2>1, <2>2, <2>3, AppendedOutbox
  <1> QED  BY <1>1, <1>2

LEMMA EndFetchType ==
  ASSUME TypeOK, NEW r \in Requests, NEW row \in Job, NEW state \in Sync,
         EndFetch(r, row, state)
  PROVE  /\ job' \in [Requests -> Job]
         /\ sync' \in [Requests -> Sync]
         /\ loaded' \in [Requests -> {NoJob} \cup {copy \in Job : copy.status = "CLAIMED"}]
         /\ ingest' = IngestIdle
         /\ UNCHANGED <<redisVs, thread, inbox, applyLog, applied, apply>>
  <1>1. FlushedJob(job[r], loaded[r], row) \in Job
    BY RowTypes, FlushedJobType
  <1>2. FlushedSync(sync[r], ingest.sync, state) \in Sync
    BY RowTypes, FlushedSyncType
  <1> QED  BY <1>1, <1>2 DEF EndFetch, TypeOK

LEMMA TypeInit == Init => TypeOK
  BY NoJobType, SyncStates DEF Init, TypeOK, IngestIdle, NoEntry, ThreadIdle, NoRetry, ApplyIdle

LEMMA TypeNext == TypeOK /\ [Next]_vars => TypeOK'
  <1> SUFFICES ASSUME TypeOK, [Next]_vars PROVE TypeOK'
    OBVIOUS
  <1> USE NoJobType, SyncStates, MaxAttemptsAssumption, DispatchThresholdAssumption
      DEF NoRetry
  <1>1. CASE ClaimJobs
    <2>1. \A r \in Requests : [job[r] EXCEPT !.status = "CLAIMED", !.due = FALSE]
                              \in {row \in Job : row.status = "CLAIMED"}
      BY RowTypes, JobRows DEF Job
    <2>2. job' \in [Requests -> Job]
      BY <1>1, <2>1 DEF ClaimJobs, TypeOK
    <2>3. loaded' \in [Requests -> {NoJob} \cup {row \in Job : row.status = "CLAIMED"}]
      BY <1>1, <2>1 DEF ClaimJobs, TypeOK
    <2>4. sync' \in [Requests -> Sync]
      BY <1>1 DEF ClaimJobs, TypeOK
    <2> QED  BY <1>1, <2>2, <2>3, <2>4 DEF ClaimJobs, TypeOK
  <1>2. CASE IngestTickFails
    BY <1>2 DEF IngestTickFails, TypeOK
  <1>3. ASSUME NEW r \in Requests, IngestNext(r) PROVE TypeOK'
    <2>1. CASE AcceptSyncRequest(r)
      <3>1. [NoJob EXCEPT !.status = "PENDING", !.due = TRUE] \in Job
        BY JobRows
      <3> QED  BY <2>1, <3>1 DEF AcceptSyncRequest, TypeOK
    <2>2. CASE RequeueStaleClaimedJob(r)
      <3>1. RetryTransition(job[r], job[r].attempt + 1, "PENDING", "OTHER") \in Job
        BY RowTypes, RetryTransitionType DEF JobStatus, WorkflowStage
      <3>2. DeadLetterTransition(job[r], job[r].attempt + 1) \in Job
        BY RowTypes, DeadLetterTransitionType
      <3>3. \E row \in Job, state \in Sync :
               job' = [job EXCEPT ![r] = row] /\ sync' = [sync EXCEPT ![r] = state]
        BY <2>2, <3>1, <3>2 DEF RequeueStaleClaimedJob
      <3> QED  BY <2>2, <3>3 DEF RequeueStaleClaimedJob, TypeOK
    <2>3. CASE DispatchLlmEnqueue(r)
      <3>1. stream' \in [MsgIds -> {NoEntry} \cup Entry] /\ Working(job[r]) \in Job
        BY <2>3, RowTypes, EnqueueType, JobRows DEF DispatchLlmEnqueue
      <3> QED  BY <2>3, <3>1 DEF DispatchLlmEnqueue, TypeOK
    <2>4. CASE DispatchRolledBack(r)
      <3>1. stream' \in [MsgIds -> {NoEntry} \cup Entry]
        BY <2>4, RowTypes, EnqueueType DEF DispatchRolledBack
      <3> QED  BY <2>4, <3>1 DEF DispatchRolledBack, TypeOK
    <2>5. CASE DispatchFails(r)
      <3> DEFINE counted == [job[r] EXCEPT !.disp = AtMost(DispatchThreshold, job[r].disp + 1)]
      <3>1. stream' \in [MsgIds -> {NoEntry} \cup Entry]
        BY <2>5, RowTypes, EnqueueType DEF DispatchFails, TypeOK
      <3>2. job[r].disp \in 0..DispatchThreshold
        BY RowTypes DEF Job
      <3>3. AtMost(DispatchThreshold, job[r].disp + 1) \in 0..DispatchThreshold
        BY <3>2 DEF AtMost
      <3>4. counted \in Job
        BY <3>3, RowTypes, JobRows
      <3>5. RetryTransition(counted, job[r].attempt + 1, "PENDING", "OTHER") \in Job
        BY <3>4, RowTypes, RetryTransitionType DEF JobStatus, WorkflowStage
      <3> HIDE DEF counted
      <3>6. \E row \in Job, state \in Sync :
               job' = [job EXCEPT ![r] = row] /\ sync' = [sync EXCEPT ![r] = state]
        BY <2>5, <3>4, <3>5 DEF DispatchFails, counted
      <3> QED  BY <2>5, <3>1, <3>6 DEF DispatchFails, TypeOK
    <2>6. CASE BeginFetch(r)
      BY <2>6 DEF BeginFetch, TypeOK
    <2>7. CASE EmitProgress(r)
      <3>1. FlushedJob(job[r], loaded[r], loaded[r]) \in Job
        BY RowTypes, FlushedJobType
      <3>2. FlushedSync(sync[r], ingest.sync, SyncState("RUNNING", "CONNECTOR_FETCH")) \in Sync
        BY RowTypes, FlushedSyncType
      <3>3. ingest' \in [req : Requests, locked : BOOLEAN, sync : Sync]
        BY <2>7, NoRequestIsNone DEF EmitProgress, TypeOK, IngestIdle
      <3> QED  BY <2>7, <3>1, <3>2, <3>3 DEF EmitProgress, TypeOK
    <2>8. ASSUME NEW retryable \in BOOLEAN, FetchFails(r, retryable) PROVE TypeOK'
      <3>1. RetryTransition(loaded[r], loaded[r].attempt + 1, "PENDING", "OTHER") \in Job
        BY RowTypes, RetryTransitionType DEF JobStatus, WorkflowStage
      <3>2. DeadLetterTransition(loaded[r], loaded[r].attempt + 1) \in Job
        BY RowTypes, DeadLetterTransitionType
      <3>3. \E row \in Job, state \in Sync : EndFetch(r, row, state)
        BY <2>8, <3>1, <3>2 DEF FetchFails
      <3> QED  BY <2>8, <3>3, EndFetchType DEF FetchFails, TypeOK
    <2>9. CASE ContinueConnectorFetch(r)
      <3>1. \E row \in Job, state \in Sync : EndFetch(r, row, state)
        BY <2>9, RowTypes, JobRows DEF ContinueConnectorFetch
      <3> QED  BY <2>9, <3>1, EndFetchType DEF ContinueConnectorFetch, TypeOK
    <2>10. CASE MarkLlmEnqueuePending(r)
      <3>1. \E row \in Job, state \in Sync : EndFetch(r, row, state)
        BY <2>10, RowTypes, JobRows DEF MarkLlmEnqueuePending
      <3> QED  BY <2>10, <3>1, EndFetchType DEF MarkLlmEnqueuePending, TypeOK
    <2>11. CASE ApplySuccessWithoutLlm(r)
      <3>1. SuccessTransition(loaded[r], TRUE) \in Job
        BY RowTypes, SuccessTransitionType
      <3> QED  BY <2>11, <3>1, EndFetchType, UpsertType DEF ApplySuccessWithoutLlm, TypeOK
    <2> QED  BY <1>3, <2>1, <2>2, <2>3, <2>4, <2>5, <2>6, <2>7, <2>8, <2>9, <2>10, <2>11
             DEF IngestNext
  <1>4. ASSUME NEW r \in Requests, MoveDueRetry(r) PROVE TypeOK'
    <2>1. stream' \in [MsgIds -> {NoEntry} \cup Entry]
      BY <1>4, EnqueueType DEF MoveDueRetry, TypeOK
    <2> QED  BY <1>4, <2>1 DEF MoveDueRetry, TypeOK
  <1>5. ASSUME NEW r \in Requests, BackoffElapses(r) PROVE TypeOK'
    BY <1>5, RowTypes, JobRows DEF BackoffElapses, TypeOK
  <1>6. ASSUME NEW t \in Threads, LlmNext(t) PROVE TypeOK'
    <2>1. ASSUME NEW i \in MsgIds, ConsumeParseTask(t, i) PROVE TypeOK'
      <3>1. stream[i] \in Entry
        BY <2>1 DEF ConsumeParseTask, TypeOK, NoEntry
      <3>2. [stream[i] EXCEPT !.at = "pending"] \in Entry
        BY <3>1 DEF Entry
      <3>3. [pc |-> "preflight", id |-> i, req |-> stream[i].req,
             attempt |-> stream[i].attempt] \in Work
        BY <3>1 DEF Entry, Work
      <3>4. stream' \in [MsgIds -> {NoEntry} \cup Entry]
        BY <2>1, <3>2 DEF ConsumeParseTask, TypeOK
      <3>5. thread' \in [Threads -> {ThreadIdle} \cup Work]
        BY <2>1, <3>3 DEF ConsumeParseTask, TypeOK
      <3> QED  BY <2>1, <3>4, <3>5 DEF ConsumeParseTask, TypeOK
    <2>2. CASE PrepareMessageForProcessing(t)
      <3> DEFINE r == thread[t].req
      <3>1. thread[t] \in Work /\ r \in Requests /\ thread[t].attempt + 1 \in Nat
        BY <2>2, ThreadTypes DEF PrepareMessageForProcessing
      <3>2. /\ [thread[t] EXCEPT !.pc = "ack"] \in Work
            /\ [thread[t] EXCEPT !.pc = "start"] \in Work
        BY <2>2, ThreadTypes DEF PrepareMessageForProcessing
      <3>3. DeadLetterAtLeast(job[r], thread[t].attempt + 1) \in Job
        BY <3>1, RowTypes, DeadLetterAtLeastType
      <3>4. thread' \in [Threads -> {ThreadIdle} \cup Work]
        BY <2>2, <3>2 DEF PrepareMessageForProcessing, TypeOK
      <3>5. \/ UNCHANGED <<job, sync>>
            \/ /\ job'  = [job  EXCEPT ![r] = DeadLetterAtLeast(job[r], thread[t].attempt + 1)]
               /\ sync' = [sync EXCEPT ![r] = SyncState("FAILED", "FAILED")]
        BY <2>2 DEF PrepareMessageForProcessing
      <3>6. UNCHANGED <<ingestVs, redisVs, tables, apply>>
        BY <2>2 DEF PrepareMessageForProcessing
      <3>7. job \in [Requests -> Job] /\ sync \in [Requests -> Sync]
        BY DEF TypeOK
      <3>8. job' \in [Requests -> Job] /\ sync' \in [Requests -> Sync]
        BY <3>3, <3>5, <3>7
      <3> QED  BY <3>4, <3>6, <3>8 DEF TypeOK
    <2>3. CASE MarkLlmTaskStarted(t)
      BY <2>3, ThreadTypes, RowTypes, JobRows DEF MarkLlmTaskStarted, TypeOK
    <2>4. CASE MarkLlmSuccess(t)
      <3> DEFINE r == thread[t].req
      <3>1. r \in Requests /\ [thread[t] EXCEPT !.pc = "ack"] \in Work
        BY <2>4, ThreadTypes DEF MarkLlmSuccess
      <3>2. SuccessTransition(job[r], FALSE) \in Job
        BY <3>1, RowTypes, SuccessTransitionType
      <3> QED  BY <2>4, <3>1, <3>2, UpsertType DEF MarkLlmSuccess, TypeOK
    <2>5. CASE LlmRetry(t)
      <3> DEFINE r == thread[t].req
      <3>1. /\ r \in Requests /\ [thread[t] EXCEPT !.pc = "ack"] \in Work
            /\ thread[t].attempt \in 0..MaxAttempts /\ thread[t].attempt + 1 \in Nat
        BY <2>5, ThreadTypes DEF LlmRetry
      <3>2. RetryTransition(job[r], thread[t].attempt + 1, "CLAIMED", "LLM_WORK") \in Job
        BY <3>1, RowTypes, RetryTransitionType DEF JobStatus, WorkflowStage
      <3>3. retry' \in [Requests -> {NoRetry} \cup 0..MaxAttempts]
        BY <2>5, <3>1 DEF LlmRetry, TypeOK
      <3> QED  BY <2>5, <3>1, <3>2, <3>3 DEF LlmRetry, TypeOK
    <2>6. CASE LlmDeadLetter(t)
      <3> DEFINE r == thread[t].req
      <3>1. /\ r \in Requests /\ [thread[t] EXCEPT !.pc = "ack"] \in Work
            /\ thread[t].attempt \in 0..MaxAttempts /\ thread[t].attempt + 1 \in Nat
        BY <2>6, ThreadTypes DEF LlmDeadLetter
      <3>2. DeadLetterAtLeast(job[r], thread[t].attempt + 1) \in Job
        BY <3>1, RowTypes, DeadLetterAtLeastType
      <3>3. retry' \in [Requests -> {NoRetry} \cup 0..MaxAttempts]
        <4>1. CASE UNCHANGED retry
          BY <4>1 DEF TypeOK
        <4>2. CASE /\ thread[t].attempt + 1 < MaxAttempts
                   /\ retry' = [retry EXCEPT ![r] = thread[t].attempt + 1]
          BY <4>2, <3>1 DEF TypeOK
        <4> QED  BY <2>6, <4>1, <4>2 DEF LlmDeadLetter
      <3> QED  BY <2>6, <3>1, <3>2, <3>3 DEF LlmDeadLetter, TypeOK
    <2>7. CASE ApplyLlmBackpressure(t)
      BY <2>7, ThreadTypes, RowTypes, JobRows DEF ApplyLlmBackpressure, TypeOK
    <2>8. CASE ScheduledRetryRolledBack(t)
      <3>1. thread[t].attempt \in 0..MaxAttempts
        BY <2>8, ThreadTypes DEF ScheduledRetryRolledBack
      <3> PICK n \in {thread[t].attempt, thread[t].attempt + 1} :
               /\ n > thread[t].attempt => n < MaxAttempts
               /\ retry' = [retry EXCEPT ![thread[t].req] = n]
        BY <2>8 DEF ScheduledRetryRolledBack
      <3>2. n \in 0..MaxAttempts
        BY <3>1
      <3>3. retry' \in [Requests -> {NoRetry} \cup 0..MaxAttempts]
        BY <3>2 DEF TypeOK
      <3> QED  BY <2>8, <3>3 DEF ScheduledRetryRolledBack, TypeOK
    <2>9. CASE AckParseTask(t)
      BY <2>9 DEF AckParseTask, TypeOK
    <2>10. CASE ThreadFails(t)
      BY <2>10 DEF ThreadFails, TypeOK
    <2> QED  BY <1>6, <2>1, <2>2, <2>3, <2>4, <2>5, <2>6, <2>7, <2>8, <2>9, <2>10 DEF LlmNext
  <1>7. ASSUME NEW e \in DOMAIN outbox, ApplyNext(e) PROVE TypeOK'
    <2>1. CASE ApplyIngestResult(e)
      <3>1. outbox[e].req \in Requests
        BY EventTypes
      <3>2. applied' \in [Requests -> Nat]
        BY <2>1, <3>1 DEF ApplyIngestResult, TypeOK
      <3>3. sync' \in [Requests -> Sync]
        BY <2>1 DEF ApplyIngestResult, TypeOK
      <3>4. inbox' \subseteq DOMAIN outbox /\ applyLog' \subseteq Requests
        BY <2>1, <3>1 DEF ApplyIngestResult, TypeOK
      <3>5. /\ apply' = e
            /\ UNCHANGED <<job, ingestVs, redisVs, thread, results, outbox>>
        BY <2>1 DEF ApplyIngestResult
      <3> QED  BY <3>2, <3>3, <3>4, <3>5 DEF TypeOK
    <2>2. CASE MarkEventProcessed(e)
      BY <2>2, ClosedEvent DEF MarkEventProcessed, TypeOK
    <2>3. CASE SkipConsumedEvent(e)
      BY <2>3, ClosedEvent DEF SkipConsumedEvent, TypeOK
    <2>4. CASE ApplyFails(e)
      BY <2>4, ClosedEvent DEF ApplyFails, TypeOK
    <2>5. CASE MarkEventFails(e)
      <3>1. CASE UNCHANGED <<outbox, sync>>
        BY <2>5, <3>1 DEF MarkEventFails, TypeOK
      <3>2. CASE /\ outbox' = [outbox EXCEPT ![e].status = "FAILED"]
                 /\ sync' = [sync EXCEPT ![outbox[e].req] = SyncState("FAILED", "FAILED")]
        BY <2>5, <3>2, ClosedEvent DEF MarkEventFails, TypeOK
      <3> QED  BY <2>5, <3>1, <3>2 DEF MarkEventFails
    <2> QED  BY <1>7, <2>1, <2>2, <2>3, <2>4, <2>5 DEF ApplyNext, ApplyProgress
  <1>8. CASE Crash
    BY <1>8 DEF Crash, TypeOK
  <1>9. CASE UNCHANGED vars
    BY <1>9 DEF vars, TypeOK
  <1> QED  BY <1>1, <1>2, <1>3, <1>4, <1>5, <1>6, <1>7, <1>8, <1>9 DEF Next

\* Every reachable state is well typed.
THEOREM TypeCorrect == Spec => []TypeOK
  <1> QED  BY TypeInit, TypeNext, PTL DEF Spec

-----------------------------------------------------------------------------
(* The tables behind the delivery of results change in three ways only: a   *)
(* result is stored with its event, the apply loop works on an event, or    *)
(* the process dies and the apply loop starts afresh.                        *)

StoresResult(r) ==
    UpsertIngestResultAndOutboxOnce(r) /\ UNCHANGED <<inbox, applyLog, applied, apply>>

LEMMA TableSteps ==
  ASSUME TypeOK, [Next]_vars
  PROVE  \/ UNCHANGED tables /\ apply' \in {apply, ApplyIdle}
         \/ \E r \in Requests : StoresResult(r)
         \/ \E e \in DOMAIN outbox : ApplyNext(e)
  <1> DEFINE Quiet == UNCHANGED tables /\ apply' \in {apply, ApplyIdle}
  <1>1. CASE ClaimJobs \/ IngestTickFails \/ Crash \/ UNCHANGED vars
    BY <1>1 DEF ClaimJobs, IngestTickFails, Crash, vars
  <1>2. ASSUME NEW r \in Requests, IngestNext(r)
        PROVE  Quiet \/ StoresResult(r)
    <2>1. CASE ApplySuccessWithoutLlm(r)
      BY <2>1 DEF ApplySuccessWithoutLlm, EndFetch, StoresResult
    <2>2. CASE \/ \E retryable \in BOOLEAN : FetchFails(r, retryable)
               \/ ContinueConnectorFetch(r) \/ MarkLlmEnqueuePending(r)
      BY <2>2 DEF FetchFails, ContinueConnectorFetch, MarkLlmEnqueuePending, EndFetch
    <2>3. CASE \/ AcceptSyncRequest(r) \/ RequeueStaleClaimedJob(r) \/ DispatchLlmEnqueue(r)
               \/ DispatchRolledBack(r) \/ DispatchFails(r) \/ BeginFetch(r) \/ EmitProgress(r)
      BY <2>3 DEF AcceptSyncRequest, RequeueStaleClaimedJob, DispatchLlmEnqueue,
                  DispatchRolledBack, DispatchFails, BeginFetch, EmitProgress
    <2> QED  BY <1>2, <2>1, <2>2, <2>3 DEF IngestNext
  <1>3. ASSUME NEW r \in Requests, MoveDueRetry(r) \/ BackoffElapses(r) PROVE Quiet
    BY <1>3 DEF MoveDueRetry, BackoffElapses
  <1>4. ASSUME NEW t \in Threads, LlmNext(t)
        PROVE  Quiet \/ \E r \in Requests : StoresResult(r)
    <2>1. CASE MarkLlmSuccess(t)
      <3>1. thread[t].req \in Requests
        BY <2>1, ThreadTypes DEF MarkLlmSuccess
      <3> QED  BY <2>1, <3>1 DEF MarkLlmSuccess, StoresResult
    <2>2. CASE \/ \E i \in MsgIds : ConsumeParseTask(t, i)
               \/ PrepareMessageForProcessing(t) \/ MarkLlmTaskStarted(t) \/ LlmRetry(t)
      BY <2>2 DEF ConsumeParseTask, PrepareMessageForProcessing, MarkLlmTaskStarted, LlmRetry
    <2>3. CASE \/ LlmDeadLetter(t) \/ ApplyLlmBackpressure(t) \/ ScheduledRetryRolledBack(t)
               \/ AckParseTask(t) \/ ThreadFails(t)
      BY <2>3 DEF LlmDeadLetter, ApplyLlmBackpressure, ScheduledRetryRolledBack,
                  AckParseTask, ThreadFails
    <2> QED  BY <1>4, <2>1, <2>2, <2>3 DEF LlmNext
  <1> HIDE DEF Quiet
  <1> QED  BY <1>1, <1>2, <1>3, <1>4 DEF Next, Quiet

\* The tables after a result was stored for the first time.
LEMMA NewResult ==
  ASSUME TypeOK, NEW r \in Requests, StoresResult(r), r \notin results
  PROVE  LET n == Len(outbox) + 1
         IN  /\ results' = results \cup {r}
             /\ n \notin DOMAIN outbox
             /\ DOMAIN outbox' = DOMAIN outbox \cup {n}
             /\ outbox'[n] = [req |-> r, status |-> "PENDING"]
             /\ \A e \in DOMAIN outbox : outbox'[e] = outbox[e]
  <1>1. [req |-> r, status |-> "PENDING"] \in Event
    BY DEF Event
  <1>2. /\ results' = results \cup {r}
        /\ outbox' = Append(outbox, [req |-> r, status |-> "PENDING"])
    BY DEF StoresResult, UpsertIngestResultAndOutboxOnce
  <1>3. outbox \in Seq(Event)
    BY DEF TypeOK
  <1>4. Len(outbox) + 1 \notin DOMAIN outbox
    BY <1>3
  <1> QED  BY <1>1, <1>2, <1>3, <1>4, AppendedOutbox

LEMMA KnownResult ==
  ASSUME NEW r \in Requests, StoresResult(r), r \in results
  PROVE  UNCHANGED <<tables, apply>>
  BY DEF StoresResult, UpsertIngestResultAndOutboxOnce

DeliveryInv == TypeOK /\ AppliedAtMostOnce /\ OneEventPerResult /\ ApplyRecordsAgree

\* A request is logged as applied only with the inbox row of its event: the
\* apply log on its own never has to stop a second application.
LEMMA LoggedIsConsumed ==
  ASSUME DeliveryInv, NEW e \in DOMAIN outbox
  PROVE  outbox[e].req \in applyLog <=> e \in inbox
  <1>1. /\ inbox \subseteq DOMAIN outbox
        /\ applyLog = {outbox[d].req : d \in inbox}
    BY DEF DeliveryInv, TypeOK, ApplyRecordsAgree
  <1>2. \A d \in DOMAIN outbox : outbox[d].req = outbox[e].req => d = e
    BY DEF DeliveryInv, OneEventPerResult
  <1> QED  BY <1>1, <1>2

\* What the apply loop does to an event, as far as the tables go.
LEMMA ApplySteps ==
  ASSUME DeliveryInv, NEW e \in DOMAIN outbox, ApplyNext(e)
  PROVE  /\ UNCHANGED results
         /\ DOMAIN outbox' = DOMAIN outbox
         /\ \A d \in DOMAIN outbox : outbox'[d].req = outbox[d].req
         /\ \A d \in DOMAIN outbox : d # e => outbox'[d] = outbox[d]
         /\ \/ /\ e \notin inbox /\ outbox[e].req \notin applyLog
               /\ inbox' = inbox \cup {e} /\ applyLog' = applyLog \cup {outbox[e].req}
               /\ applied' = [applied EXCEPT ![outbox[e].req] = @ + 1]
               /\ outbox[e].status = "PENDING"
               /\ UNCHANGED outbox /\ apply' = e
            \/ /\ UNCHANGED <<inbox, applyLog, applied>> /\ apply' = ApplyIdle
               /\ \/ UNCHANGED outbox
                  \/ /\ outbox'[e].status = "PROCESSED"
                     /\ (apply = e /\ e # ApplyIdle) \/ (OldestPending(e) /\ e \in inbox)
                  \/ /\ outbox'[e].status = "FAILED"
                     /\ (apply = e /\ e # ApplyIdle) \/ (OldestPending(e) /\ e \notin inbox)
  <1> USE DEF OldestPending
  <1>1. outbox \in Seq(Event)
    BY DEF DeliveryInv, TypeOK
  <1>2. CASE ApplyIngestResult(e)
    BY <1>2, LoggedIsConsumed DEF ApplyIngestResult
  <1>3. CASE MarkEventProcessed(e)
    <2>1. /\ DOMAIN outbox' = DOMAIN outbox /\ outbox'[e].status = "PROCESSED"
          /\ \A d \in DOMAIN outbox : outbox'[d].req = outbox[d].req
          /\ \A d \in DOMAIN outbox : d # e => outbox'[d] = outbox[d]
      BY <1>1, <1>3, ClosedEvent DEF MarkEventProcessed
    <2>2. /\ UNCHANGED <<results, inbox, applyLog, applied>> /\ apply' = ApplyIdle
          /\ apply = e /\ e # ApplyIdle
      BY <1>3 DEF MarkEventProcessed
    <2> QED  BY <2>1, <2>2
  <1>4. CASE SkipConsumedEvent(e)
    BY <1>1, <1>4, ClosedEvent DEF SkipConsumedEvent
  <1>5. CASE ApplyFails(e)
    BY <1>1, <1>5, ClosedEvent DEF ApplyFails
  <1>6. CASE MarkEventFails(e)
    <2>1. CASE UNCHANGED outbox
      BY <1>6, <2>1 DEF MarkEventFails
    <2>2. CASE outbox' = [outbox EXCEPT ![e].status = "FAILED"]
      <3>1. /\ DOMAIN outbox' = DOMAIN outbox /\ outbox'[e].status = "FAILED"
            /\ \A d \in DOMAIN outbox : outbox'[d].req = outbox[d].req
            /\ \A d \in DOMAIN outbox : d # e => outbox'[d] = outbox[d]
        BY <1>1, <2>2, ClosedEvent
      <3>2. /\ UNCHANGED <<results, inbox, applyLog, applied>> /\ apply' = ApplyIdle
            /\ apply = e /\ e # ApplyIdle
        BY <1>6 DEF MarkEventFails
      <3> QED  BY <3>1, <3>2
    <2> QED  BY <1>6, <2>1, <2>2 DEF MarkEventFails
  <1> QED  BY <1>2, <1>3, <1>4, <1>5, <1>6 DEF ApplyNext, ApplyProgress

LEMMA DeliveryInit == Init => DeliveryInv
  BY TypeInit DEF Init, DeliveryInv, AppliedAtMostOnce, OneEventPerResult, ApplyRecordsAgree,
                  EventsOf, ApplyIdle

LEMMA DeliveryNext == DeliveryInv /\ [Next]_vars => DeliveryInv'
  <1> SUFFICES ASSUME DeliveryInv, [Next]_vars
               PROVE  /\ AppliedAtMostOnce' /\ OneEventPerResult' /\ ApplyRecordsAgree'
    BY TypeNext DEF DeliveryInv
  <1> USE DEF DeliveryInv
  <1>1. CASE UNCHANGED tables /\ apply' \in {apply, ApplyIdle}
    BY <1>1 DEF AppliedAtMostOnce, OneEventPerResult, ApplyRecordsAgree, EventsOf
  <1>2. ASSUME NEW r \in Requests, StoresResult(r)
        PROVE  /\ AppliedAtMostOnce' /\ OneEventPerResult' /\ ApplyRecordsAgree'
    <2>1. CASE r \in results
      BY <1>2, <2>1, KnownResult
      DEF AppliedAtMostOnce, OneEventPerResult, ApplyRecordsAgree, EventsOf
    <2>2. CASE r \notin results
      <3> DEFINE n == Len(outbox) + 1
      <3>1. /\ results' = results \cup {r}
            /\ n \notin DOMAIN outbox
            /\ DOMAIN outbox' = DOMAIN outbox \cup {n}
            /\ outbox'[n].req = r /\ outbox'[n].status = "PENDING"
            /\ \A e \in DOMAIN outbox : outbox'[e] = outbox[e]
        <4>1. LET k == Len(outbox) + 1
              IN  /\ results' = results \cup {r}
                  /\ k \notin DOMAIN outbox
                  /\ DOMAIN outbox' = DOMAIN outbox \cup {k}
                  /\ outbox'[k] = [req |-> r, status |-> "PENDING"]
                  /\ \A e \in DOMAIN outbox : outbox'[e] = outbox[e]
          BY <1>2, <2>2, NewResult
        <4> QED  BY <4>1
      <3>2. UNCHANGED <<inbox, applyLog, applied, apply>> /\ inbox \subseteq DOMAIN outbox
        BY <1>2 DEF StoresResult, TypeOK
      <3> HIDE DEF n
      <3>3. \A e \in DOMAIN outbox : outbox[e].req # r
        BY <2>2 DEF OneEventPerResult, EventsOf
      <3>4. AppliedAtMostOnce'
        BY <3>2 DEF AppliedAtMostOnce
      <3>5. OneEventPerResult'
        BY <3>1, <3>3 DEF OneEventPerResult, EventsOf
      <3>6. ApplyRecordsAgree'
        <4>1. applyLog' = {outbox'[e].req : e \in inbox'}
          BY <3>1, <3>2 DEF ApplyRecordsAgree
        <4> QED  BY <3>1, <3>2, <4>1 DEF ApplyRecordsAgree
      <3> QED  BY <3>4, <3>5, <3>6
    <2> QED  BY <2>1, <2>2
  <1>3. ASSUME NEW e \in DOMAIN outbox, ApplyNext(e)
        PROVE  /\ AppliedAtMostOnce' /\ OneEventPerResult' /\ ApplyRecordsAgree'
    <2>1. OneEventPerResult'
      BY <1>3, ApplySteps DEF OneEventPerResult, EventsOf
    <2>2. CASE UNCHANGED <<inbox, applyLog, applied>> /\ apply' = ApplyIdle
      <3>1. AppliedAtMostOnce'
        BY <2>2 DEF AppliedAtMostOnce
      <3>2. applyLog' = {outbox'[d].req : d \in inbox'}
        <4>1. \A d \in inbox : outbox'[d].req = outbox[d].req
          BY <1>3, ApplySteps DEF TypeOK
        <4> QED  BY <2>2, <4>1 DEF ApplyRecordsAgree
      <3>3. \A d \in DOMAIN outbox' : outbox'[d].status = "PROCESSED" => d \in inbox'
        BY <1>3, <2>2, ApplySteps DEF ApplyRecordsAgree, ApplyIdle
      <3> QED  BY <2>1, <2>2, <3>1, <3>2, <3>3 DEF ApplyRecordsAgree
    <2>3. CASE /\ e \notin inbox /\ outbox[e].req \notin applyLog
               /\ inbox' = inbox \cup {e} /\ applyLog' = applyLog \cup {outbox[e].req}
               /\ applied' = [applied EXCEPT ![outbox[e].req] = @ + 1]
               /\ outbox[e].status = "PENDING"
               /\ UNCHANGED outbox /\ apply' = e
      <3>1. AppliedAtMostOnce'
        BY <2>3, EventTypes DEF AppliedAtMostOnce, TypeOK
      <3>2. applyLog' = {outbox'[d].req : d \in inbox'}
        BY <2>3 DEF ApplyRecordsAgree
      <3> QED  BY <2>1, <2>3, <3>1, <3>2 DEF ApplyRecordsAgree
    <2> QED  BY <1>3, <2>2, <2>3, ApplySteps
  <1> QED  BY <1>1, <1>2, <1>3, TableSteps

\* Whatever is redelivered, retried, written late or cut short by a crash, the
\* records of a request are applied at most once.
THEOREM AppliedOnce == Spec => []AppliedAtMostOnce
  <1>1. DeliveryInv => AppliedAtMostOnce
    BY DEF DeliveryInv
  <1> QED  BY <1>1, DeliveryInit, DeliveryNext, PTL DEF Spec

\* A result and its event are stored together and never twice.
THEOREM ResultsHaveOneEvent == Spec => []OneEventPerResult
  <1>1. DeliveryInv => OneEventPerResult
    BY DEF DeliveryInv
  <1> QED  BY <1>1, DeliveryInit, DeliveryNext, PTL DEF Spec

\* The worker never closes an event as handled that it did not apply.
THEOREM ProcessedWasApplied == Spec => []ProcessedMeansApplied
  <1>1. DeliveryInv => ProcessedMeansApplied
    BY DEF DeliveryInv, ProcessedMeansApplied, ApplyRecordsAgree
  <1> QED  BY <1>1, DeliveryInit, DeliveryNext, PTL DEF Spec

-----------------------------------------------------------------------------
(* The tables implement ResultDelivery.                                    *)

PhasesAgree ==
    /\ \A r \in Requests : r \notin results => phaseBar[r] = "none"
    /\ \A e \in DOMAIN outbox : outbox[e].req \in results /\ phaseBar[outbox[e].req] = PhaseOf(e)
    /\ \A r \in results : \E e \in DOMAIN outbox : outbox[e].req = r

LEMMA PhaseOfEvent == DeliveryInv => PhasesAgree
  <1> SUFFICES ASSUME DeliveryInv PROVE PhasesAgree
    OBVIOUS
  <1>1. \A e \in DOMAIN outbox : outbox[e].req \in Requests
    BY EventTypes DEF DeliveryInv
  <1>2. \A e \in DOMAIN outbox : EventsOf(outbox[e].req) = {e}
    BY DEF DeliveryInv, OneEventPerResult, EventsOf
  <1>3. \A e \in DOMAIN outbox : outbox[e].req \in results
    BY <1>1, <1>2 DEF DeliveryInv, OneEventPerResult
  <1>4. \A r \in results : \E e \in DOMAIN outbox : outbox[e].req = r
    BY DEF DeliveryInv, TypeOK, OneEventPerResult, EventsOf
  <1>5. \A e \in DOMAIN outbox : phaseBar[outbox[e].req] = PhaseOf(e)
    BY <1>1, <1>2, <1>3 DEF phaseBar
  <1>6. \A r \in Requests : r \notin results => phaseBar[r] = "none"
    BY DEF phaseBar
  <1> QED  BY <1>3, <1>4, <1>5, <1>6 DEF PhasesAgree

\* When every event keeps its request, and no result is added, two functions
\* over the requests agree when they agree on the requests of the events.
LEMMA PhaseStep ==
  ASSUME DeliveryInv, DeliveryInv', UNCHANGED results, DOMAIN outbox' = DOMAIN outbox,
         \A d \in DOMAIN outbox : outbox'[d].req = outbox[d].req,
         NEW e \in DOMAIN outbox,
         \A d \in DOMAIN outbox : d # e => PhaseOf(d)' = PhaseOf(d)
  PROVE  phaseBar' = [phaseBar EXCEPT ![outbox[e].req] = PhaseOf(e)']
  <1>1. PhasesAgree /\ PhasesAgree'
    BY PhaseOfEvent, PTL
  <1>2. \A r \in Requests :
           phaseBar'[r] = IF r = outbox[e].req THEN PhaseOf(e)' ELSE phaseBar[r]
    BY <1>1 DEF PhasesAgree
  <1>3. /\ phaseBar = [r \in Requests |-> phaseBar[r]]
        /\ phaseBar' = [r \in Requests |-> phaseBar'[r]]
    BY DEF phaseBar
  <1>4. outbox[e].req \in Requests
    BY EventTypes DEF DeliveryInv
  <1> HIDE DEF phaseBar
  <1> QED  BY <1>2, <1>3, <1>4

LEMMA DeliveryStep ==
  ASSUME DeliveryInv, DeliveryInv', [Next]_vars
  PROVE  [Delivery!Next]_(Delivery!vars)
  <1> USE DEF Delivery!vars
  <1>1. TypeOK
    BY DEF DeliveryInv
  <1>2. PhasesAgree /\ PhasesAgree'
    BY PhaseOfEvent, PTL
  <1>3. CASE UNCHANGED tables /\ apply' \in {apply, ApplyIdle}
    BY <1>3 DEF phaseBar, PhaseOf, EventsOf
  <1>4. ASSUME NEW r \in Requests, StoresResult(r)
        PROVE  [Delivery!Next]_(Delivery!vars)
    <2>1. CASE r \in results
      <3>1. UNCHANGED tables
        BY <1>4, <2>1, KnownResult
      <3> QED  BY <3>1 DEF phaseBar, PhaseOf, EventsOf
    <2>2. CASE r \notin results
      <3>1. PICK n : /\ results' = results \cup {r}
                     /\ DOMAIN outbox' = DOMAIN outbox \cup {n}
                     /\ outbox'[n] = [req |-> r, status |-> "PENDING"]
                     /\ \A e \in DOMAIN outbox : outbox'[e] = outbox[e]
        BY <1>1, <1>4, <2>2, NewResult
      <3>2. UNCHANGED <<applyLog, applied>>
        BY <1>4 DEF StoresResult
      <3>3. r \notin applyLog
        BY <2>2, <1>2 DEF PhasesAgree, DeliveryInv, ApplyRecordsAgree, TypeOK
      <3>4. /\ \A q \in Requests : q \notin results' => phaseBar'[q] = "none"
            /\ \A e \in DOMAIN outbox' : phaseBar'[outbox'[e].req] = PhaseOf(e)'
        BY <1>2 DEF PhasesAgree
      <3>5. PhaseOf(n)' = "stored"
        BY <3>1, <3>2, <3>3 DEF PhaseOf
      <3>6. \A e \in DOMAIN outbox : PhaseOf(e)' = PhaseOf(e)
        BY <3>1, <3>2 DEF PhaseOf
      <3>7. \A q \in Requests : phaseBar'[q] = IF q = r THEN "stored" ELSE phaseBar[q]
        BY <3>1, <3>4, <3>5, <3>6, <1>2 DEF PhasesAgree
      <3>8. /\ phaseBar = [q \in Requests |-> phaseBar[q]]
            /\ phaseBar' = [q \in Requests |-> phaseBar'[q]]
        BY DEF phaseBar
      <3>9. phaseBar[r] = "none" /\ phaseBar' = [phaseBar EXCEPT ![r] = "stored"]
        BY <2>2, <3>7, <3>8, <1>2 DEF PhasesAgree
      <3>10. Delivery!Store(r)
        BY <3>2, <3>9 DEF Delivery!Store
      <3> QED  BY <3>10 DEF Delivery!Next
    <2> QED  BY <2>1, <2>2
  <1>5. ASSUME NEW e \in DOMAIN outbox, ApplyNext(e)
        PROVE  [Delivery!Next]_(Delivery!vars)
    <2> DEFINE r == outbox[e].req
    <2>1. /\ UNCHANGED results /\ DOMAIN outbox' = DOMAIN outbox
          /\ \A d \in DOMAIN outbox : outbox'[d].req = outbox[d].req
          /\ \A d \in DOMAIN outbox : d # e => outbox'[d] = outbox[d]
      BY <1>5, ApplySteps
    <2>2. \A d \in DOMAIN outbox : d # e => outbox[d].req # r
      BY DEF DeliveryInv, OneEventPerResult
    <2>3. r \in Requests /\ phaseBar[r] = PhaseOf(e)
      BY <1>1, EventTypes, <1>2 DEF PhasesAgree
    <2>4. e \in inbox <=> r \in applyLog
      BY LoggedIsConsumed
    <2>5. CASE /\ r \notin applyLog /\ applyLog' = applyLog \cup {r}
               /\ applied' = [applied EXCEPT ![r] = @ + 1]
               /\ outbox[e].status = "PENDING" /\ UNCHANGED outbox
      <3>1. \A d \in DOMAIN outbox : d # e => PhaseOf(d)' = PhaseOf(d)
        BY <2>1, <2>2, <2>5 DEF PhaseOf
      <3>2. phaseBar' = [phaseBar EXCEPT ![r] = PhaseOf(e)']
        BY <2>1, <3>1, PhaseStep
      <3>3. PhaseOf(e) = "stored" /\ PhaseOf(e)' = "applied"
        BY <2>5 DEF PhaseOf
      <3>4. Delivery!Apply(r)
        BY <2>3, <2>5, <3>2, <3>3 DEF Delivery!Apply
      <3> QED  BY <2>3, <3>4 DEF Delivery!Next
    <2>6. CASE /\ UNCHANGED <<applyLog, applied>>
               /\ \/ UNCHANGED outbox
                  \/ /\ outbox'[e].status = "PROCESSED"
                     /\ (apply = e /\ e # ApplyIdle) \/ (OldestPending(e) /\ e \in inbox)
                  \/ /\ outbox'[e].status = "FAILED"
                     /\ (apply = e /\ e # ApplyIdle) \/ (OldestPending(e) /\ e \notin inbox)
      <3>1. \A d \in DOMAIN outbox : d # e => PhaseOf(d)' = PhaseOf(d)
        BY <2>1, <2>6 DEF PhaseOf
      <3>2. phaseBar' = [phaseBar EXCEPT ![r] = PhaseOf(e)']
        BY <2>1, <3>1, PhaseStep
      <3>3. CASE UNCHANGED outbox
        BY <2>1, <2>6, <3>3 DEF phaseBar, PhaseOf, EventsOf
      <3>4. CASE /\ outbox'[e].status = "PROCESSED"
                 /\ (apply = e /\ e # ApplyIdle) \/ (OldestPending(e) /\ e \in inbox)
        <4>1. outbox[e].status = "PENDING" /\ r \in applyLog
          BY <2>4, <3>4 DEF DeliveryInv, ApplyRecordsAgree, OldestPending
        <4>2. PhaseOf(e) = "applied" /\ PhaseOf(e)' = "delivered"
          BY <3>4, <4>1 DEF PhaseOf
        <4>3. Delivery!Deliver(r)
          BY <2>3, <2>6, <3>2, <4>2 DEF Delivery!Deliver
        <4> QED  BY <2>3, <4>3 DEF Delivery!Next
      <3>5. CASE /\ outbox'[e].status = "FAILED"
                 /\ (apply = e /\ e # ApplyIdle) \/ (OldestPending(e) /\ e \notin inbox)
        <4>1. outbox[e].status = "PENDING"
          BY <3>5 DEF DeliveryInv, ApplyRecordsAgree, OldestPending
        <4>2. PhaseOf(e) \in {"stored", "applied"} /\ PhaseOf(e)' = "rejected"
          BY <3>5, <4>1 DEF PhaseOf
        <4>3. Delivery!Reject(r)
          BY <2>3, <2>6, <3>2, <4>2 DEF Delivery!Reject
        <4> QED  BY <2>3, <4>3 DEF Delivery!Next
      <3> QED  BY <2>6, <3>3, <3>4, <3>5
    <2> QED  BY <1>5, <2>5, <2>6, ApplySteps
  <1> QED  BY <1>1, <1>3, <1>4, <1>5, TableSteps

\* The loops, threads and tables together deliver results as ResultDelivery
\* promises: stored once, applied at most once, closed for good.
THEOREM PipelineDelivers == Spec => ImplementsDelivery
  <1>1. Init => Delivery!Init
    BY DEF Init, Delivery!Init, phaseBar
  <1>2. DeliveryInv /\ DeliveryInv' /\ [Next]_vars => [Delivery!Next]_(Delivery!vars)
    BY DeliveryStep
  <1> QED  BY <1>1, <1>2, DeliveryInit, DeliveryNext, PTL
           DEF Spec, ImplementsDelivery, Delivery!Spec

-----------------------------------------------------------------------------
(* The payload of a job: success is reported only with a result, and there *)
(* is something to parse until there is one, although the ingest loop      *)
(* writes back copies the LLM threads have outrun.                         *)

\* A thread is about to parse, or parses, for the request.
WorkedOn(r) == \E t \in Threads : thread[t].req = r /\ thread[t].pc \in {"start", "parsing"}

\* The inductive invariant, request by request.
Untouched(r) ==
    job[r].status = "NONE" => job[r] = NoJob /\ loaded[r] = NoJob /\ r \notin results

HasResult(r) == job[r].status = "SUCCEEDED" \/ sync[r].status = "SUCCEEDED" => r \in results

Parses(row) ==
    /\ row.wf = "LLM_ENQUEUE_PENDING" => row.parse
    /\ row.wf = "LLM_WORK" => row.parse

CopiesAgree(r) ==
    /\ job[r].wf = "LLM_ENQUEUE_PENDING" => job[r].parse
    /\ loaded[r].wf = "LLM_ENQUEUE_PENDING" => loaded[r].parse
    /\ r \notin results =>
          /\ Parses(job[r]) /\ Parses(loaded[r])
          /\ loaded[r] # NoJob => loaded[r].parse = job[r].parse
          /\ WorkedOn(r) => job[r].parse

HoldsCopy(r) == ingest.req = r => loaded[r].status = "CLAIMED"

RowInv(r) == Untouched(r) /\ HasResult(r) /\ CopiesAgree(r) /\ HoldsCopy(r)

\* What a step may do to the row of an accepted request.
LegalRow(r) ==
    /\ job[r].status # "NONE" /\ job'[r].status # "NONE"
    /\ job'[r].status = "SUCCEEDED" => job[r].status = "SUCCEEDED" \/ r \in results'
    /\ job'[r].wf = "LLM_ENQUEUE_PENDING" => job'[r].parse
    /\ r \notin results' =>
          /\ job'[r].parse = job[r].parse \/ (job'[r].parse /\ loaded'[r] = NoJob)
          /\ Parses(job'[r])

LEMMA RowStep ==
  ASSUME TypeOK, NEW r \in Requests, RowInv(r),
         results \subseteq results',
         job'[r] = job[r] \/ LegalRow(r),
         r \in results' => r \in results \/ job'[r].status # "NONE",
         loaded'[r] \in {loaded[r], NoJob},
         sync'[r].status = "SUCCEEDED" => sync[r].status = "SUCCEEDED" \/ r \in results',
         WorkedOn(r)' => WorkedOn(r) \/ job[r].parse,
         ingest'.req = r => ingest.req = r /\ loaded'[r] = loaded[r]
  PROVE  RowInv(r)'
  <1> USE DEF RowInv
  <1>1. Untouched(r)'
    BY DEF Untouched, LegalRow
  <1>2. HasResult(r)'
    BY DEF HasResult, LegalRow
  <1>3. NoJob.wf = "OTHER"
    BY DEF NoJob
  <1>4. CopiesAgree(r)'
    BY <1>3 DEF CopiesAgree, Parses, LegalRow
  <1>5. HoldsCopy(r)'
    BY DEF HoldsCopy
  <1> QED  BY <1>1, <1>2, <1>4, <1>5

\* A step that leaves the row of a request alone, but for what the other loops
\* and threads do to others.
LEMMA QuietRow ==
  ASSUME TypeOK, NEW r \in Requests, RowInv(r),
         UNCHANGED <<results, ingest, loaded>>, job'[r] = job[r],
         sync'[r].status = "SUCCEEDED" => sync[r].status = "SUCCEEDED" \/ r \in results,
         WorkedOn(r)' => WorkedOn(r) \/ job[r].parse
  PROVE  RowInv(r)'
  BY RowStep

\* The step of a thread that changes its own program counter.
LEMMA OtherThreads ==
  ASSUME TypeOK, NEW t \in Threads, NEW pc \in {"idle", "preflight", "start", "parsing", "ack"},
         NEW state, thread' = [thread EXCEPT ![t] = state], state.pc = pc, NEW r,
         pc \in {"start", "parsing"} /\ state.req = r => WorkedOn(r) \/ job[r].parse
  PROVE  WorkedOn(r)' => WorkedOn(r) \/ job[r].parse
  BY DEF WorkedOn, TypeOK

\* The kernel's transitions as LegalRow sees them.
LEMMA RetryRow ==
  ASSUME NEW row \in Job, NEW n \in Nat, NEW status \in JobStatus, NEW wf \in WorkflowStage
  PROVE  LET new == RetryTransition(row, n, status, wf)
         IN  new.status = status /\ new.wf = wf /\ new.parse = row.parse
  BY DEF RetryTransition, Job

LEMMA DeadLetterRow ==
  ASSUME NEW row \in Job, NEW n \in Nat
  PROVE  /\ DeadLetterTransition(row, n).status = "DEAD_LETTER"
         /\ DeadLetterTransition(row, n).wf = "OTHER"
         /\ DeadLetterTransition(row, n).parse = row.parse
         /\ DeadLetterAtLeast(row, n).status = "DEAD_LETTER"
         /\ DeadLetterAtLeast(row, n).wf = "OTHER"
         /\ DeadLetterAtLeast(row, n).parse = row.parse
  BY DEF DeadLetterTransition, DeadLetterAtLeast, Job

LEMMA SuccessRow ==
  ASSUME NEW row \in Job, NEW keepsParse \in BOOLEAN
  PROVE  /\ SuccessTransition(row, keepsParse).status = "SUCCEEDED"
         /\ SuccessTransition(row, keepsParse).wf = "OTHER"
         /\ SuccessTransition(row, TRUE).parse = row.parse
  BY DEF SuccessTransition, Job

LEMMA WorkingRow ==
  ASSUME NEW row \in Job
  PROVE  /\ Working(row).status = row.status
         /\ Working(row).wf = "LLM_WORK"
         /\ Working(row).parse = row.parse
  BY DEF Working, Job

\* What the ingest session writes for a row it holds a claimed copy of.
LEMMA FlushedRow ==
  ASSUME NEW row \in Job, NEW copy \in Job, NEW new \in Job
  PROVE  /\ FlushedJob(row, copy, new).wf = new.wf
         /\ FlushedJob(row, copy, new).parse = new.parse
         /\ FlushedJob(row, copy, new).status
               = IF new.status = copy.status THEN row.status ELSE new.status
  BY DEF FlushedJob, Flushed, Job

PayloadInv == DeliveryInv /\ \A r \in Requests : RowInv(r)

LEMMA PayloadInit == Init => PayloadInv
  <1> SUFFICES ASSUME Init PROVE PayloadInv
    OBVIOUS
  <1>1. DeliveryInv
    BY DeliveryInit
  <1>2. \A r \in Requests : RowInv(r)
    BY NoRequestIsNone
    DEF Init, RowInv, Untouched, HasResult, CopiesAgree, Parses, HoldsCopy, WorkedOn, NoJob,
        IngestIdle, ThreadIdle, SyncState
  <1> QED  BY <1>1, <1>2 DEF PayloadInv

\* The end of a fetch, whatever it is: the row written back is the session's
\* copy with the given changes.
LEMMA EndFetchRow ==
  ASSUME TypeOK, NEW r \in Requests, RowInv(r), NEW row \in Job, NEW state \in Sync,
         EndFetch(r, row, state), results \subseteq results',
         r \in results' => r \in results \/ row.status = "SUCCEEDED",
         row.status \in {"PENDING", "DEAD_LETTER", "CLAIMED", "SUCCEEDED"},
         row.status = "SUCCEEDED" \/ state.status = "SUCCEEDED" => r \in results',
         row.wf = "OTHER" \/ (row.wf = "LLM_ENQUEUE_PENDING" /\ row.parse)
           \/ (row.wf = loaded[r].wf /\ row.parse = loaded[r].parse),
         row.parse \/ row.parse = loaded[r].parse
  PROVE  RowInv(r)'
  <1> USE DEF RowInv
  <1>1. /\ ingest.req = r /\ loaded[r].status = "CLAIMED"
        /\ loaded' = [loaded EXCEPT ![r] = NoJob] /\ ingest' = IngestIdle
        /\ job' = [job EXCEPT ![r] = FlushedJob(job[r], loaded[r], row)]
        /\ sync' = [sync EXCEPT ![r] = FlushedSync(sync[r], ingest.sync, state)]
        /\ UNCHANGED thread
    BY DEF EndFetch, HoldsCopy
  <1>2. job[r] \in Job /\ loaded[r] \in Job /\ job' [r] = FlushedJob(job[r], loaded[r], row)
        /\ loaded'[r] = NoJob
    BY <1>1, RowTypes DEF TypeOK
  <1>3. job[r].status # "NONE" /\ loaded[r] # NoJob
    BY <1>1 DEF Untouched, NoJob
  <1>4. /\ job'[r].wf = row.wf /\ job'[r].parse = row.parse
        /\ job'[r].status = IF row.status = loaded[r].status THEN job[r].status ELSE row.status
    BY <1>2, FlushedRow
  <1>5. LegalRow(r)
    BY <1>2, <1>3, <1>4, <1>1 DEF LegalRow, CopiesAgree, Parses
  <1>6. sync'[r].status = "SUCCEEDED" => sync[r].status = "SUCCEEDED" \/ r \in results'
    BY <1>1 DEF FlushedSync, Flushed, TypeOK
  <1>7. WorkedOn(r)' => WorkedOn(r)
    BY <1>1 DEF WorkedOn
  <1>8. ingest'.req # r
    BY <1>1, NoRequestIsNone DEF IngestIdle
  <1> QED  BY <1>2, <1>3, <1>5, <1>6, <1>7, <1>8, RowStep DEF LegalRow

LEMMA IngestRows ==
  ASSUME PayloadInv, NEW r \in Requests, IngestNext(r)
  PROVE  RowInv(r)'
  <1> TypeOK /\ RowInv(r)
    BY DEF PayloadInv, DeliveryInv
  <1>1. job[r] \in Job /\ loaded[r] \in Job /\ loaded[r].attempt + 1 \in Nat /\ job[r].attempt + 1 \in Nat
    BY RowTypes
  <1>2. NoJob \in Job /\ NoJob.wf = "OTHER" /\ ~NoJob.parse /\ NoJob.status = "NONE"
    BY NoJobType DEF NoJob
  <1>3. CASE AcceptSyncRequest(r)
    <2>1. job[r] = NoJob /\ loaded[r] = NoJob /\ r \notin results
      BY <1>3 DEF AcceptSyncRequest, RowInv, Untouched
    <2>2. job'[r] = [NoJob EXCEPT !.status = "PENDING", !.due = TRUE]
      BY <1>3 DEF AcceptSyncRequest, TypeOK
    <2>3. job'[r].status = "PENDING" /\ job'[r].wf = "OTHER"
      BY <2>2 DEF NoJob
    <2>4. sync'[r].status = "QUEUED"
      BY <1>3 DEF AcceptSyncRequest, TypeOK, SyncState
    <2>5. UNCHANGED <<results, loaded, ingest, thread>>
      BY <1>3 DEF AcceptSyncRequest
    <2>6. ~WorkedOn(r)
      BY <2>1, <1>2 DEF RowInv, CopiesAgree
    <2> QED  BY <2>1, <2>3, <2>4, <2>5, <2>6, <1>2
             DEF RowInv, Untouched, HasResult, CopiesAgree, Parses, HoldsCopy, WorkedOn
  <1>4. CASE RequeueStaleClaimedJob(r)
    <2> DEFINE retried == RetryTransition(job[r], job[r].attempt + 1, "PENDING", "OTHER")
               ended   == DeadLetterTransition(job[r], job[r].attempt + 1)
    <2>1. /\ retried.status = "PENDING" /\ retried.wf = "OTHER" /\ retried.parse = job[r].parse
          /\ ended.status = "DEAD_LETTER" /\ ended.wf = "OTHER" /\ ended.parse = job[r].parse
      BY <1>1, RetryRow, DeadLetterRow DEF JobStatus, WorkflowStage
    <2>2. /\ UNCHANGED <<results, loaded, ingest, thread>> /\ job[r].status = "CLAIMED"
          /\ sync'[r].status # "SUCCEEDED"
          /\ job'[r] \in {retried, ended}
      BY <1>4 DEF RequeueStaleClaimedJob, TypeOK, SyncState
    <2> HIDE DEF retried, ended
    <2> QED  BY <2>1, <2>2, RowStep DEF LegalRow, Parses, WorkedOn
  <1>5. CASE DispatchLlmEnqueue(r)
    <2>1. /\ UNCHANGED <<results, loaded, ingest, thread>>
          /\ job[r].status = "CLAIMED" /\ job[r].parse
          /\ sync'[r].status # "SUCCEEDED"
          /\ job'[r].status = "CLAIMED" /\ job'[r].parse /\ job'[r].wf = "LLM_WORK"
      BY <1>1, <1>5, WorkingRow DEF DispatchLlmEnqueue, AwaitsDispatch, TypeOK, SyncState
    <2> QED  BY <2>1, RowStep DEF LegalRow, Parses, WorkedOn
  <1>6. CASE DispatchRolledBack(r)
    <2>1. UNCHANGED <<job, sync, results, loaded, ingest, thread>>
      BY <1>6 DEF DispatchRolledBack
    <2> QED  BY <2>1, QuietRow DEF WorkedOn
  <1>7. CASE DispatchFails(r)
    <2> DEFINE counted == [job[r] EXCEPT !.disp = AtMost(DispatchThreshold, job[r].disp + 1)]
    <2>1. /\ UNCHANGED <<results, loaded, ingest, thread>>
          /\ job[r].status = "CLAIMED" /\ job[r].parse
          /\ sync'[r].status # "SUCCEEDED"
      BY <1>7 DEF DispatchFails, AwaitsDispatch, TypeOK, SyncState
    <2>2. /\ counted.status = "CLAIMED" /\ counted.parse
          /\ counted.wf = job[r].wf
      BY <1>1, <2>1 DEF Job
    <2>3. job'[r] \in {counted, RetryTransition(counted, job[r].attempt + 1, "PENDING", "OTHER")}
      BY <1>7 DEF DispatchFails, TypeOK
    <2>4. counted \in Job
      <3>1. job[r].disp \in 0..DispatchThreshold
        BY <1>1 DEF Job
      <3>2. AtMost(DispatchThreshold, job[r].disp + 1) \in 0..DispatchThreshold
        BY <3>1, DispatchThresholdAssumption DEF AtMost
      <3> QED  BY <1>1, <3>2, JobRows
    <2> HIDE DEF counted
    <2>5. /\ job'[r].status \in {"CLAIMED", "PENDING"} /\ job'[r].parse
      BY <1>1, <2>2, <2>3, <2>4, RetryRow DEF JobStatus, WorkflowStage
    <2> QED  BY <2>1, <2>5, RowStep DEF LegalRow, Parses, WorkedOn
  <1>8. CASE BeginFetch(r)
    <2>1. UNCHANGED <<job, sync, results, loaded, thread>> /\ loaded[r].status = "CLAIMED"
      BY <1>8 DEF BeginFetch
    <2> QED  BY <2>1 DEF RowInv, Untouched, HasResult, CopiesAgree, Parses, HoldsCopy, WorkedOn
  <1>9. CASE EmitProgress(r)
    <2>1. /\ UNCHANGED <<results, loaded, thread>> /\ ingest.req = r /\ ingest'.req = r
          /\ job'[r] = FlushedJob(job[r], loaded[r], loaded[r])
          /\ sync'[r] = FlushedSync(sync[r], ingest.sync, SyncState("RUNNING", "CONNECTOR_FETCH"))
      BY <1>9, NoRequestIsNone DEF EmitProgress, TypeOK, IngestIdle
    <2>2. loaded[r].status = "CLAIMED" /\ loaded[r] # NoJob /\ job[r].status # "NONE"
      BY <2>1, <1>2 DEF RowInv, HoldsCopy, Untouched
    <2>3. /\ job'[r].status = job[r].status /\ job'[r].wf = loaded[r].wf
          /\ job'[r].parse = loaded[r].parse
      BY <1>1, <2>1, FlushedRow
    <2>4. sync'[r].status = "SUCCEEDED" => sync[r].status = "SUCCEEDED"
      BY <2>1 DEF FlushedSync, Flushed, SyncState
    <2>5. LegalRow(r)
      BY <2>1, <2>2, <2>3 DEF LegalRow, RowInv, CopiesAgree, Parses
    <2> QED  BY <2>1, <2>4, <2>5, RowStep DEF WorkedOn
  <1>10. ASSUME NEW retryable \in BOOLEAN, FetchFails(r, retryable)
         PROVE  RowInv(r)'
    <2> DEFINE retried == RetryTransition(loaded[r], loaded[r].attempt + 1, "PENDING", "OTHER")
               ended   == DeadLetterTransition(loaded[r], loaded[r].attempt + 1)
    <2>1. retried \in Job /\ ended \in Job
      BY <1>1, RetryTransitionType, DeadLetterTransitionType DEF JobStatus, WorkflowStage
    <2>2. /\ retried.status = "PENDING" /\ retried.wf = "OTHER" /\ retried.parse = loaded[r].parse
          /\ ended.status = "DEAD_LETTER" /\ ended.wf = "OTHER" /\ ended.parse = loaded[r].parse
      BY <1>1, RetryRow, DeadLetterRow DEF JobStatus, WorkflowStage
    <2>3. /\ UNCHANGED results
          /\ \/ EndFetch(r, retried, SyncState("QUEUED", "CONNECTOR_FETCH"))
             \/ EndFetch(r, ended, SyncState("FAILED", "FAILED"))
      BY <1>10 DEF FetchFails
    <2> HIDE DEF retried, ended
    <2>4. /\ SyncState("QUEUED", "CONNECTOR_FETCH").status = "QUEUED"
          /\ SyncState("FAILED", "FAILED").status = "FAILED"
      BY DEF SyncState
    <2>5. CASE EndFetch(r, retried, SyncState("QUEUED", "CONNECTOR_FETCH"))
      BY <2>1, <2>2, <2>3, <2>4, <2>5, SyncStates, EndFetchRow
    <2>6. CASE EndFetch(r, ended, SyncState("FAILED", "FAILED"))
      BY <2>1, <2>2, <2>3, <2>4, <2>6, SyncStates, EndFetchRow
    <2> QED  BY <2>3, <2>5, <2>6
  <1>11. CASE ContinueConnectorFetch(r)
    <2> DEFINE row == [loaded[r] EXCEPT !.status = "PENDING", !.due = FALSE]
    <2>1. /\ row \in Job /\ row.status = "PENDING" /\ row.wf = loaded[r].wf
          /\ row.parse = loaded[r].parse
      BY <1>1, JobRows DEF Job
    <2>2. SyncState("RUNNING", "CONNECTOR_FETCH").status = "RUNNING"
      BY DEF SyncState
    <2>3. UNCHANGED results /\ EndFetch(r, row, SyncState("RUNNING", "CONNECTOR_FETCH"))
      BY <1>11 DEF ContinueConnectorFetch
    <2> HIDE DEF row
    <2> QED  BY <2>1, <2>2, <2>3, SyncStates, EndFetchRow
  <1>12. CASE MarkLlmEnqueuePending(r)
    <2> DEFINE row == [loaded[r] EXCEPT !.status = "CLAIMED", !.wf = "LLM_ENQUEUE_PENDING",
                                        !.parse = TRUE, !.due = FALSE]
    <2>1. row \in Job /\ row.status = "CLAIMED" /\ row.wf = "LLM_ENQUEUE_PENDING" /\ row.parse
      BY <1>1, JobRows DEF Job
    <2>2. SyncState("RUNNING", "LLM_QUEUE").status = "RUNNING"
      BY DEF SyncState
    <2>3. UNCHANGED results /\ EndFetch(r, row, SyncState("RUNNING", "LLM_QUEUE"))
      BY <1>12 DEF MarkLlmEnqueuePending
    <2> HIDE DEF row
    <2> QED  BY <2>1, <2>2, <2>3, SyncStates, EndFetchRow
  <1>13. CASE ApplySuccessWithoutLlm(r)
    <2> DEFINE row == SuccessTransition(loaded[r], TRUE)
    <2>1. /\ row \in Job /\ row.status = "SUCCEEDED" /\ row.wf = "OTHER"
          /\ row.parse = loaded[r].parse
      BY <1>1, SuccessTransitionType, SuccessRow
    <2>2. results' = results \cup {r}
      BY <1>13 DEF ApplySuccessWithoutLlm, UpsertIngestResultAndOutboxOnce
    <2>3. EndFetch(r, row, SyncState("SUCCEEDED", "COMPLETED"))
      BY <1>13 DEF ApplySuccessWithoutLlm
    <2> HIDE DEF row
    <2> QED  BY <2>1, <2>2, <2>3, SyncStates, EndFetchRow
  <1> QED  BY <1>3, <1>4, <1>5, <1>6, <1>7, <1>8, <1>9, <1>10, <1>11, <1>12, <1>13 DEF IngestNext

LEMMA LlmRows ==
  ASSUME PayloadInv, NEW t \in Threads, LlmNext(t), NEW r \in Requests, r = thread[t].req,
         thread[t].pc # "idle"
  PROVE  RowInv(r)'
  <1> TypeOK /\ RowInv(r)
    BY DEF PayloadInv, DeliveryInv
  <1>1. /\ job[r] \in Job /\ thread[t] \in Work /\ thread[t].attempt + 1 \in Nat
        /\ \A pc \in {"start", "parsing", "ack"} : [thread[t] EXCEPT !.pc = pc] \in Work
    BY RowTypes, ThreadTypes
  <1>2. NoJob.status = "NONE" /\ ~NoJob.parse
    BY DEF NoJob
  <1>3. ASSUME thread[t].pc \in {"start", "parsing"}
        PROVE  job[r].status # "NONE" /\ WorkedOn(r)
    BY <1>2, <1>3 DEF RowInv, Untouched, CopiesAgree, WorkedOn
  <1>4. ASSUME NEW pc \in {"start", "parsing", "ack"}, thread[t].pc \in {"start", "parsing"} \/ pc = "ack" \/ job[r].parse,
               thread' = [thread EXCEPT ![t].pc = pc]
        PROVE  WorkedOn(r)' => WorkedOn(r) \/ job[r].parse
    BY <1>3, <1>4 DEF WorkedOn, TypeOK
  <1>5. ASSUME thread' = [thread EXCEPT ![t] = ThreadIdle]
        PROVE  WorkedOn(r)' => WorkedOn(r)
    BY <1>5 DEF WorkedOn, TypeOK, ThreadIdle
  <1>6. ASSUME NEW i \in MsgIds, ConsumeParseTask(t, i) PROVE FALSE
    BY <1>6 DEF ConsumeParseTask, ThreadIdle
  <1>7. CASE PrepareMessageForProcessing(t)
    <2>1. UNCHANGED <<results, loaded, ingest>>
      BY <1>7 DEF PrepareMessageForProcessing
    <2>2. WorkedOn(r)' => WorkedOn(r) \/ job[r].parse
      BY <1>4, <1>5, <1>7 DEF PrepareMessageForProcessing
    <2>3. CASE UNCHANGED <<job, sync>>
      BY <2>1, <2>2, <2>3, QuietRow
    <2>4. CASE /\ job[r].status = "CLAIMED"
               /\ job' = [job EXCEPT ![r] = DeadLetterAtLeast(job[r], thread[t].attempt + 1)]
               /\ sync' = [sync EXCEPT ![r] = SyncState("FAILED", "FAILED")]
      <3>1. /\ job'[r].status = "DEAD_LETTER" /\ job'[r].wf = "OTHER" /\ job'[r].parse = job[r].parse
            /\ sync'[r].status = "FAILED"
        BY <1>1, <2>4, DeadLetterRow DEF TypeOK, SyncState
      <3> QED  BY <2>1, <2>2, <2>4, <3>1, RowStep DEF LegalRow, Parses
    <2> QED  BY <1>7, <2>3, <2>4 DEF PrepareMessageForProcessing
  <1>8. CASE MarkLlmTaskStarted(t) \/ ApplyLlmBackpressure(t)
    <2>1. /\ UNCHANGED <<results, loaded, ingest>> /\ thread[t].pc \in {"start", "parsing"}
          /\ job'[r] = Working(job[r]) /\ sync'[r] = SyncState("RUNNING", "LLM_PARSE")
          /\ \E pc \in {"parsing", "ack"} : thread' = [thread EXCEPT ![t].pc = pc]
      BY <1>8 DEF MarkLlmTaskStarted, ApplyLlmBackpressure, TypeOK
    <2>2. /\ job'[r].status = job[r].status /\ job'[r].wf = "LLM_WORK" /\ job'[r].parse = job[r].parse
          /\ sync'[r].status = "RUNNING"
      BY <1>1, <2>1, WorkingRow DEF SyncState
    <2>3. job[r].status # "NONE" /\ (r \notin results => job[r].parse)
      BY <2>1, <1>3 DEF RowInv, CopiesAgree
    <2>4. WorkedOn(r)' => WorkedOn(r) \/ job[r].parse
      BY <1>4, <2>1
    <2> QED  BY <2>1, <2>2, <2>3, <2>4, RowStep DEF LegalRow, Parses
  <1>9. CASE MarkLlmSuccess(t)
    <2>1. /\ UNCHANGED <<loaded, ingest>> /\ results' = results \cup {r} /\ thread[t].pc = "parsing"
          /\ job'[r] = SuccessTransition(job[r], FALSE)
          /\ thread' = [thread EXCEPT ![t].pc = "ack"]
      BY <1>9 DEF MarkLlmSuccess, UpsertIngestResultAndOutboxOnce, TypeOK
    <2>2. job'[r].status = "SUCCEEDED" /\ job'[r].wf = "OTHER"
      BY <1>1, <2>1, SuccessRow
    <2>3. WorkedOn(r)' => WorkedOn(r) \/ job[r].parse
      BY <1>4, <2>1
    <2> QED  BY <2>1, <2>2, <2>3, <1>3, RowStep DEF LegalRow
  <1>10. CASE LlmRetry(t) \/ LlmDeadLetter(t)
    <2>1. /\ UNCHANGED <<results, loaded, ingest>> /\ thread[t].pc = "parsing"
          /\ \/ job'[r] = RetryTransition(job[r], thread[t].attempt + 1, "CLAIMED", "LLM_WORK")
             \/ job'[r] = DeadLetterAtLeast(job[r], thread[t].attempt + 1)
          /\ sync'[r].status \in {"RUNNING", "FAILED"}
          /\ thread' = [thread EXCEPT ![t].pc = "ack"]
      BY <1>10 DEF LlmRetry, LlmDeadLetter, TypeOK, SyncState
    <2>2. /\ job'[r].status \in {"CLAIMED", "DEAD_LETTER"} /\ job'[r].parse = job[r].parse
          /\ job'[r].wf \in {"LLM_WORK", "OTHER"}
      BY <1>1, <2>1, RetryRow, DeadLetterRow DEF JobStatus, WorkflowStage
    <2>3. job[r].status # "NONE" /\ (r \notin results => job[r].parse)
      BY <2>1, <1>3 DEF RowInv, CopiesAgree
    <2>4. WorkedOn(r)' => WorkedOn(r) \/ job[r].parse
      BY <1>4, <2>1
    <2> QED  BY <2>1, <2>2, <2>3, <2>4, RowStep DEF LegalRow, Parses
  <1>11. CASE ScheduledRetryRolledBack(t) \/ AckParseTask(t) \/ ThreadFails(t)
    <2>1. UNCHANGED <<job, sync, results, loaded, ingest>> /\ thread' = [thread EXCEPT ![t] = ThreadIdle]
      BY <1>11 DEF ScheduledRetryRolledBack, AckParseTask, ThreadFails
    <2> QED  BY <2>1, <1>5, QuietRow
  <1> QED  BY <1>6, <1>7, <1>8, <1>9, <1>10, <1>11 DEF LlmNext

\* The other requests an ingest step is not about.
LEMMA IngestOtherRows ==
  ASSUME PayloadInv, NEW r \in Requests, IngestNext(r), NEW q \in Requests, q # r
  PROVE  RowInv(q)'
  <1> TypeOK /\ RowInv(q)
    BY DEF PayloadInv, DeliveryInv
  <1> USE NoRequestIsNone DEF IngestIdle
  <1>1. CASE AcceptSyncRequest(r) \/ RequeueStaleClaimedJob(r) \/ DispatchLlmEnqueue(r)
             \/ DispatchRolledBack(r) \/ DispatchFails(r)
    <2>1. /\ job'[q] = job[q] /\ sync'[q] = sync[q]
          /\ UNCHANGED <<results, loaded, ingest, thread>>
      BY <1>1 DEF AcceptSyncRequest, RequeueStaleClaimedJob, DispatchLlmEnqueue,
                  DispatchRolledBack, DispatchFails, TypeOK
    <2> QED  BY <2>1, QuietRow DEF WorkedOn
  <1>2. CASE BeginFetch(r) \/ EmitProgress(r)
    <2>1. /\ job'[q] = job[q] /\ sync'[q] = sync[q]
          /\ UNCHANGED <<results, loaded, thread>>
      BY <1>2 DEF BeginFetch, EmitProgress, TypeOK
    <2>2. CASE BeginFetch(r)
      <3>1. ingest'.req = r
        BY <2>2 DEF BeginFetch
      <3> QED  BY <2>1, <3>1, RowStep DEF WorkedOn
    <2>3. CASE EmitProgress(r)
      <3>1. ingest'.req = r
        BY <2>3 DEF EmitProgress, TypeOK
      <3> QED  BY <2>1, <3>1, RowStep DEF WorkedOn
    <2> QED  BY <1>2, <2>2, <2>3
  <1>3. ASSUME NEW row, NEW state, EndFetch(r, row, state), results' \subseteq results \cup {r},
               results \subseteq results'
        PROVE  RowInv(q)'
    <2>1. /\ job'[q] = job[q] /\ sync'[q] = sync[q] /\ loaded'[q] = loaded[q]
          /\ ingest'.req = NoRequest /\ UNCHANGED thread
      BY <1>3 DEF EndFetch, TypeOK
    <2> QED  BY <1>3, <2>1, RowStep DEF WorkedOn
  <1>4. CASE (\E retryable \in BOOLEAN : FetchFails(r, retryable)) \/ ContinueConnectorFetch(r)
             \/ MarkLlmEnqueuePending(r)
    <2>1. UNCHANGED results /\ \E row, state : EndFetch(r, row, state)
      BY <1>4 DEF FetchFails, ContinueConnectorFetch, MarkLlmEnqueuePending
    <2> QED  BY <1>3, <2>1
  <1>5. CASE ApplySuccessWithoutLlm(r)
    <2>1. results' = results \cup {r} /\ \E row, state : EndFetch(r, row, state)
      BY <1>5 DEF ApplySuccessWithoutLlm, UpsertIngestResultAndOutboxOnce
    <2> QED  BY <1>3, <2>1
  <1> QED  BY <1>1, <1>2, <1>4, <1>5 DEF IngestNext

\* A thread holds a message, or takes one; it changes the rows of the request
\* of that message only, and no other thread.
Own(t, r) ==
    /\ \A q \in Requests : q # r => job'[q] = job[q] /\ sync'[q] = sync[q]
    /\ results \subseteq results' /\ results' \subseteq results \cup {r}
    /\ \A k \in Threads \ {t} : thread'[k] = thread[k]
    /\ thread'[t].pc \in {"start", "parsing"} => thread'[t].req = r
    /\ UNCHANGED <<loaded, ingest>>

Takes(t) ==
    /\ UNCHANGED <<job, sync, results, loaded, ingest>>
    /\ \A k \in Threads \ {t} : thread'[k] = thread[k]
    /\ thread'[t].pc = "preflight"

LEMMA ThreadSteps ==
  ASSUME TypeOK, NEW t \in Threads, LlmNext(t)
  PROVE  \/ thread[t].pc = "idle" /\ Takes(t)
         \/ thread[t].pc # "idle" /\ Own(t, thread[t].req)
  <1> USE DEF Own
  <1>1. ASSUME NEW i \in MsgIds, ConsumeParseTask(t, i) PROVE thread[t].pc = "idle" /\ Takes(t)
    BY <1>1 DEF ConsumeParseTask, Takes, ThreadIdle, TypeOK
  <1>2. thread[t] # ThreadIdle => thread[t] \in Work /\ thread[t].pc # "idle"
    BY DEF TypeOK, Work
  <1>3. ASSUME NEW pc \in {"start", "parsing", "ack"}, thread[t] # ThreadIdle
        PROVE  [thread[t] EXCEPT !.pc = pc].req = thread[t].req
    BY <1>2 DEF Work
  <1>4. CASE PrepareMessageForProcessing(t)
    <2>1. thread[t].pc = "preflight"
      BY <1>4 DEF PrepareMessageForProcessing
    <2>2. \/ UNCHANGED job /\ UNCHANGED sync
          \/ \E row, state : /\ job' = [job EXCEPT ![thread[t].req] = row]
                             /\ sync' = [sync EXCEPT ![thread[t].req] = state]
      BY <1>4 DEF PrepareMessageForProcessing
    <2>3. \/ thread' = [thread EXCEPT ![t] = ThreadIdle]
          \/ \E pc \in {"start", "ack"} : thread' = [thread EXCEPT ![t] = [thread[t] EXCEPT !.pc = pc]]
      BY <1>4 DEF PrepareMessageForProcessing
    <2>4. UNCHANGED <<results, loaded, ingest>>
      BY <1>4 DEF PrepareMessageForProcessing
    <2>5. \A q \in Requests : q # thread[t].req => job'[q] = job[q] /\ sync'[q] = sync[q]
      BY <2>2 DEF TypeOK
    <2>6. /\ \A k \in Threads \ {t} : thread'[k] = thread[k]
          /\ thread'[t].pc \in {"start", "parsing"} => thread'[t].req = thread[t].req
      <3>1. thread[t] # ThreadIdle
        BY <2>1 DEF ThreadIdle
      <3>2. CASE thread' = [thread EXCEPT ![t] = ThreadIdle]
        BY <3>2 DEF ThreadIdle, TypeOK
      <3>3. ASSUME NEW pc \in {"start", "ack"},
                   thread' = [thread EXCEPT ![t] = [thread[t] EXCEPT !.pc = pc]]
            PROVE  /\ \A k \in Threads \ {t} : thread'[k] = thread[k]
                   /\ thread'[t].pc \in {"start", "parsing"} => thread'[t].req = thread[t].req
        <4>1. [thread[t] EXCEPT !.pc = pc].req = thread[t].req
          BY <3>1, <1>3
        <4> QED  BY <3>3, <4>1 DEF TypeOK
      <3> QED  BY <2>3, <3>2, <3>3
    <2> QED  BY <2>1, <2>4, <2>5, <2>6
  <1>5. CASE MarkLlmTaskStarted(t) \/ ApplyLlmBackpressure(t) \/ LlmRetry(t)
             \/ LlmDeadLetter(t) \/ MarkLlmSuccess(t)
    <2>1. thread[t].pc \in {"start", "parsing"}
      BY <1>5 DEF MarkLlmTaskStarted, ApplyLlmBackpressure, LlmRetry, LlmDeadLetter, MarkLlmSuccess
    <2>2. \E pc \in {"parsing", "ack"} : thread' = [thread EXCEPT ![t] = [thread[t] EXCEPT !.pc = pc]]
      BY <1>5 DEF MarkLlmTaskStarted, ApplyLlmBackpressure, LlmRetry, LlmDeadLetter, MarkLlmSuccess
    <2>3. /\ results \subseteq results' /\ results' \subseteq results \cup {thread[t].req}
          /\ UNCHANGED <<loaded, ingest>>
      BY <1>5 DEF MarkLlmTaskStarted, ApplyLlmBackpressure, LlmRetry, LlmDeadLetter, MarkLlmSuccess,
                  UpsertIngestResultAndOutboxOnce
    <2>4. \E row, state : /\ job' = [job EXCEPT ![thread[t].req] = row]
                          /\ sync' = [sync EXCEPT ![thread[t].req] = state]
      BY <1>5 DEF MarkLlmTaskStarted, ApplyLlmBackpressure, LlmRetry, LlmDeadLetter, MarkLlmSuccess
    <2>5. \A q \in Requests : q # thread[t].req => job'[q] = job[q] /\ sync'[q] = sync[q]
      BY <2>4 DEF TypeOK
    <2>6. /\ \A k \in Threads \ {t} : thread'[k] = thread[k]
          /\ thread'[t].pc \in {"start", "parsing"} => thread'[t].req = thread[t].req
      BY <2>1, <2>2, <1>3 DEF ThreadIdle, TypeOK
    <2> QED  BY <2>1, <2>3, <2>5, <2>6
  <1>6. CASE ScheduledRetryRolledBack(t) \/ AckParseTask(t) \/ ThreadFails(t)
    <2>1. /\ UNCHANGED <<job, sync, results, loaded, ingest>>
          /\ thread' = [thread EXCEPT ![t] = ThreadIdle] /\ thread[t] # ThreadIdle
      BY <1>6 DEF ScheduledRetryRolledBack, AckParseTask, ThreadFails, ThreadIdle
    <2>2. /\ \A k \in Threads \ {t} : thread'[k] = thread[k]
          /\ thread'[t].pc = "idle"
      BY <2>1 DEF ThreadIdle, TypeOK
    <2> QED  BY <2>1, <2>2, <1>2
  <1> QED  BY <1>1, <1>4, <1>5, <1>6 DEF LlmNext

LEMMA LlmOtherRows ==
  ASSUME PayloadInv, NEW t \in Threads, LlmNext(t), NEW q \in Requests,
         thread[t].pc = "idle" \/ q # thread[t].req
  PROVE  RowInv(q)'
  <1> TypeOK /\ RowInv(q)
    BY DEF PayloadInv, DeliveryInv
  <1>1. CASE Takes(t)
    <2>1. WorkedOn(q)' => WorkedOn(q)
      BY <1>1 DEF Takes, WorkedOn, TypeOK
    <2> QED  BY <1>1, <2>1, QuietRow DEF Takes
  <1>2. CASE thread[t].pc # "idle" /\ Own(t, thread[t].req)
    <2>1. WorkedOn(q)' => WorkedOn(q)
      BY <1>2 DEF Own, WorkedOn, TypeOK
    <2>2. /\ job'[q] = job[q] /\ sync'[q] = sync[q] /\ UNCHANGED <<loaded, ingest>>
          /\ results \subseteq results' /\ (q \in results' => q \in results)
      BY <1>2 DEF Own
    <2> QED  BY <2>1, <2>2, RowStep
  <1> QED  BY <1>1, <1>2, ThreadSteps

LEMMA PayloadNext == PayloadInv /\ [Next]_vars => PayloadInv'
  <1> SUFFICES ASSUME PayloadInv, [Next]_vars, NEW q \in Requests
               PROVE  RowInv(q)'
    BY DeliveryNext DEF PayloadInv
  <1> TypeOK /\ RowInv(q) /\ DeliveryInv
    BY DEF PayloadInv, DeliveryInv
  <1>1. CASE ClaimJobs
    <2> DEFINE claimed == [job[q] EXCEPT !.status = "CLAIMED", !.due = FALSE]
    <2>1. /\ UNCHANGED <<results, ingest, thread>> /\ ingest = IngestIdle /\ loaded[q] = NoJob
          /\ \/ job[q].status = "PENDING" /\ job'[q] = claimed /\ loaded'[q] = claimed
             \/ job'[q] = job[q] /\ loaded'[q] = NoJob
          /\ sync'[q].status = "RUNNING" \/ sync'[q] = sync[q]
      BY <1>1 DEF ClaimJobs, Claimable, BatchDone, SyncState
    <2>2. claimed.status = "CLAIMED" /\ claimed.wf = job[q].wf /\ claimed.parse = job[q].parse
      BY RowTypes DEF Job
    <2>3. ingest.req # q
      BY <2>1, NoRequestIsNone DEF IngestIdle
    <2> HIDE DEF claimed
    <2>4. NoJob.wf = "OTHER"
      BY DEF NoJob
    <2>5. WorkedOn(q)' <=> WorkedOn(q)
      BY <2>1 DEF WorkedOn
    <2>6. Untouched(q)'
      BY <2>1, <2>2 DEF RowInv, Untouched
    <2>7. HasResult(q)'
      BY <2>1, <2>2 DEF RowInv, HasResult
    <2>8. CopiesAgree(q)'
      BY <2>1, <2>2, <2>4, <2>5 DEF RowInv, CopiesAgree, Parses
    <2> QED  BY <2>1, <2>3, <2>6, <2>7, <2>8 DEF RowInv, HoldsCopy
  <1>2. CASE IngestTickFails \/ Crash
    <2>1. /\ UNCHANGED <<job, sync, results>> /\ loaded'[q] = NoJob /\ ingest' = IngestIdle
          /\ WorkedOn(q)' => WorkedOn(q)
      BY <1>2 DEF IngestTickFails, Crash, WorkedOn, ThreadIdle
    <2> QED  BY <2>1, NoRequestIsNone, RowStep DEF IngestIdle
  <1>3. ASSUME NEW r \in Requests, IngestNext(r) PROVE RowInv(q)'
    BY <1>3, IngestRows, IngestOtherRows
  <1>4. ASSUME NEW r \in Requests, MoveDueRetry(r) \/ BackoffElapses(r) PROVE RowInv(q)'
    <2>1. /\ UNCHANGED <<sync, results, loaded, ingest, thread>>
          /\ \/ job'[q] = job[q]
             \/ job[q].status = "PENDING" /\ job'[q] = [job[q] EXCEPT !.due = TRUE]
      BY <1>4 DEF MoveDueRetry, BackoffElapses, TypeOK
    <2>2. LET row == [job[q] EXCEPT !.due = TRUE]
          IN  row.status = job[q].status /\ row.wf = job[q].wf /\ row.parse = job[q].parse
      BY RowTypes DEF Job
    <2>3. job'[q] = job[q] \/ LegalRow(q)
      BY <2>1, <2>2 DEF LegalRow, RowInv, CopiesAgree, Parses
    <2> QED  BY <2>1, <2>2, <2>3, RowStep DEF WorkedOn, RowInv, Untouched
  <1>5. ASSUME NEW t \in Threads, LlmNext(t) PROVE RowInv(q)'
    BY <1>5, LlmRows, LlmOtherRows
  <1>6. ASSUME NEW e \in DOMAIN outbox, ApplyNext(e) PROVE RowInv(q)'
    <2>1. outbox[e].req \in Requests /\ outbox[e].req \in results
      BY EventTypes DEF DeliveryInv, OneEventPerResult, EventsOf
    <2>2. /\ UNCHANGED <<job, results, loaded, ingest, thread>>
          /\ sync'[q].status = "SUCCEEDED" => sync[q].status = "SUCCEEDED" \/ q = outbox[e].req
      BY <1>6, <2>1 DEF ApplyNext, ApplyProgress, ApplyIngestResult, MarkEventProcessed,
                        SkipConsumedEvent, ApplyFails, MarkEventFails, TypeOK, SyncState
    <2> QED  BY <2>1, <2>2, QuietRow DEF WorkedOn
  <1>7. CASE UNCHANGED vars
    BY <1>7, QuietRow DEF vars, WorkedOn
  <1> QED  BY <1>1, <1>2, <1>3, <1>4, <1>5, <1>6, <1>7 DEF Next

\* The inductive invariant of the specification, part by part.
THEOREM InvariantHolds == Spec => []IInv
  <1>1. PayloadInv => IInv
    <2> SUFFICES ASSUME PayloadInv PROVE IInv
      OBVIOUS
    <2>1. SuccessHasResult /\ UnacceptedIsUntouched /\ FetchHoldsCopy
      BY DEF PayloadInv, RowInv, HasResult, Untouched, HoldsCopy,
             SuccessHasResult, UnacceptedIsUntouched, FetchHoldsCopy
    <2>2. PayloadCopiesAgree
      BY DEF PayloadInv, RowInv, CopiesAgree, Parses, WorkedOn, PayloadCopiesAgree
    <2> QED  BY <2>1, <2>2 DEF PayloadInv, DeliveryInv, IInv
  <1> QED  BY <1>1, PayloadInit, PayloadNext, PTL DEF Spec

\* Neither a job nor a sync reports success without a result, whatever stale
\* copies are written over each other.
THEOREM SuccessIsBacked == Spec => []SuccessHasResult
  <1>1. PayloadInv => SuccessHasResult
    BY DEF PayloadInv, RowInv, HasResult, SuccessHasResult
  <1> QED  BY <1>1, PayloadInit, PayloadNext, PTL DEF Spec

\* A job that waits for the dispatcher or for the LLM has something to parse
\* until there is a result.
THEOREM PayloadOutlivesWork == Spec => []ParsePayloadOutlivesWork
  <1>1. PayloadInv => ParsePayloadOutlivesWork
    BY DEF PayloadInv, RowInv, CopiesAgree, Parses, ParsePayloadOutlivesWork
  <1> QED  BY <1>1, PayloadInit, PayloadNext, PTL DEF Spec

\* No thread lets go of a message without an outcome.
THEOREM AcknowledgedWithOutcome == Spec => AckNeedsOutcome
  <1> DEFINE Outcome ==
        \A t \in Threads :
           thread[t].pc # "ack" /\ thread'[t].pc = "ack" =>
              LET r == thread[t].req
              IN  r \in results' \/ job'[r].status = "DEAD_LETTER" \/ retry'[r] # NoRetry
  <1>1. PayloadInv /\ [Next]_vars => [Outcome]_vars
    <2> SUFFICES ASSUME PayloadInv, Next, NEW t \in Threads,
                        thread[t].pc # "ack", thread'[t].pc = "ack"
                 PROVE  LET r == thread[t].req
                        IN  \/ r \in results' \/ job'[r].status = "DEAD_LETTER"
                            \/ retry'[r] # NoRetry
      OBVIOUS
    <2> DEFINE r == thread[t].req
    <2> TypeOK
      BY DEF PayloadInv, DeliveryInv
    <2>1. LlmNext(t) /\ thread[t].pc # "idle"
      <3>1. ASSUME NEW k \in Threads, LlmNext(k)
            PROVE  LlmNext(t) /\ thread[t].pc # "idle"
        <4>1. k = t
          BY <3>1, ThreadSteps DEF Takes, Own, TypeOK
        <4> QED  BY <3>1, <4>1, ThreadSteps DEF Takes, TypeOK
      <3>2. CASE ClaimJobs \/ IngestTickFails
        BY <3>2 DEF ClaimJobs, IngestTickFails
      <3>3. CASE Crash
        BY <3>3 DEF Crash, ThreadIdle
      <3>4. ASSUME NEW q \in Requests, IngestNext(q) PROVE FALSE
        <4>1. CASE AcceptSyncRequest(q) \/ RequeueStaleClaimedJob(q) \/ DispatchLlmEnqueue(q)
                   \/ DispatchRolledBack(q) \/ DispatchFails(q) \/ BeginFetch(q) \/ EmitProgress(q)
          BY <4>1 DEF AcceptSyncRequest, RequeueStaleClaimedJob, DispatchLlmEnqueue,
                      DispatchRolledBack, DispatchFails, BeginFetch, EmitProgress
        <4>2. CASE (\E retryable \in BOOLEAN : FetchFails(q, retryable))
                   \/ ContinueConnectorFetch(q) \/ MarkLlmEnqueuePending(q)
                   \/ ApplySuccessWithoutLlm(q)
          BY <4>2 DEF FetchFails, ContinueConnectorFetch, MarkLlmEnqueuePending,
                      ApplySuccessWithoutLlm, EndFetch
        <4> QED  BY <3>4, <4>1, <4>2 DEF IngestNext
      <3>5. ASSUME NEW q \in Requests, MoveDueRetry(q) \/ BackoffElapses(q) PROVE FALSE
        BY <3>5 DEF MoveDueRetry, BackoffElapses
      <3>6. ASSUME NEW e \in DOMAIN outbox, ApplyNext(e) PROVE FALSE
        BY <3>6 DEF ApplyNext, ApplyProgress, ApplyIngestResult, MarkEventProcessed,
                    SkipConsumedEvent, ApplyFails, MarkEventFails
      <3> QED  BY <3>1, <3>2, <3>3, <3>4, <3>5, <3>6 DEF Next
    <2>2. thread[t].pc # "idle"
      BY <2>1
    <2>3. /\ r \in Requests /\ job[r] \in Job /\ thread[t].attempt \in 0..MaxAttempts
          /\ thread[t].attempt + 1 \in Nat
      BY <2>2, ThreadTypes, RowTypes
    <2>4. CASE PrepareMessageForProcessing(t)
      <3>1. CASE job[r].status \in {"SUCCEEDED", "DEAD_LETTER"} /\ UNCHANGED <<job, results>>
        BY <2>3, <3>1 DEF PayloadInv, RowInv, HasResult
      <3>2. CASE thread' = [thread EXCEPT ![t] = ThreadIdle]
        BY <3>2 DEF ThreadIdle, TypeOK
      <3>3. CASE thread' = [thread EXCEPT ![t] = [thread[t] EXCEPT !.pc = "start"]]
        <4>1. thread'[t].pc = "start"
          BY <2>2, <3>3, ThreadTypes DEF Work, TypeOK
        <4> QED  BY <4>1
      <3> QED  BY <2>4, <3>1, <3>2, <3>3 DEF PrepareMessageForProcessing
    <2>5. CASE MarkLlmSuccess(t)
      BY <2>5 DEF MarkLlmSuccess, UpsertIngestResultAndOutboxOnce
    <2>6. CASE LlmRetry(t) \/ ApplyLlmBackpressure(t)
      BY <2>3, <2>6 DEF LlmRetry, ApplyLlmBackpressure, NoRetry, TypeOK
    <2>7. CASE LlmDeadLetter(t)
      BY <2>3, <2>7, DeadLetterRow DEF LlmDeadLetter, TypeOK
    <2>8. CASE MarkLlmTaskStarted(t)
      <3>1. thread'[t].pc = "parsing"
        BY <2>2, <2>8, ThreadTypes DEF MarkLlmTaskStarted, Work, TypeOK
      <3> QED  BY <3>1
    <2>9. CASE \/ ScheduledRetryRolledBack(t) \/ AckParseTask(t) \/ ThreadFails(t)
               \/ \E i \in MsgIds : ConsumeParseTask(t, i)
      BY <2>9 DEF ScheduledRetryRolledBack, AckParseTask, ThreadFails, ConsumeParseTask,
                  ThreadIdle, TypeOK
    <2> QED  BY <2>1, <2>4, <2>5, <2>6, <2>7, <2>8, <2>9 DEF LlmNext
  <1> QED  BY <1>1, PayloadInit, PayloadNext, PTL DEF Spec, AckNeedsOutcome

=============================================================================
