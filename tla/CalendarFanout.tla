--------------------------- MODULE CalendarFanout ---------------------------
(***************************************************************************)
(* The parse of one calendar sync request, which does not go through one  *)
(* message like a mail sync: its dispatch puts one child message per      *)
(* changed component on the parse stream and one reduce message.  A child *)
(* parses its component and announces it with another reduce message; a   *)
(* reduce message that finds every component decided stores the result.   *)
(*                                                                         *)
(* The threads are those of the LLM pool, and the stream and the retry    *)
(* slot are the ones of IngestPipeline: at-least-once delivery, and one    *)
(* slot per request whatever the retry is about.  The ingest loop appears  *)
(* as far as it changes what the threads see of the job.                   *)
(*                                                                         *)
(* Time as in IngestPipeline: enough of it may pass between two commits    *)
(* for any claim to time out and for any entry to count as idle.           *)
(***************************************************************************)
EXTENDS Integers, FiniteSets

CONSTANTS
    Components,     \* component keys of the calendar
    Threads,        \* threads of the LLM pool
    MaxAttempts,    \* llm_max_retry_attempts, as components are compared with it
    MaxJobAttempts, \* the same setting, as the job is compared with it
    EntryIds,       \* bound: delivered entries that are not acknowledged
    MaxCopies,      \* bound: equal entries of the stream not yet delivered
    MaxMishaps      \* bound: calls the rate limiter turns away, lost commits,
                    \* failed threads and crashes, all together

Reduce    == "calendar_reduce"
NoMessage == "none"
NoId      == 0

ASSUME ComponentsAssumption == {Reduce, NoMessage} \cap Components = {}
ASSUME MaxAttemptsAssumption == MaxAttempts \in Nat \ {0}
ASSUME MaxJobAttemptsAssumption == MaxJobAttempts \in Nat \ {0}
ASSUME EntryIdsAssumption == NoId \notin EntryIds
ASSUME MaxCopiesAssumption == MaxCopies \in Nat \ {0}
ASSUME MaxMishapsAssumption == MaxMishaps \in Nat

VARIABLES
    job,        \* the ingest_jobs row of the request
    fetch,      \* the ingest loop's copy of the payload during a fetch
    task,       \* calendar_component_parse_tasks
    result,     \* the ingest_results row
    fresh,      \* parse stream: how many entries of a kind wait for delivery
    pending,    \* parse stream: entries delivered and not acknowledged
    retry,      \* the request's slot of the parse retry set
    thread,     \* program counters of the LLM threads
    starts,     \* history: how often a component was started
    rejections, \* history: calls the rate limiter turned away
    faults      \* history: commits lost, threads failed and crashes

redisVs == <<fresh, pending, retry>>
history == <<starts, rejections, faults>>
vars    == <<job, fetch, task, result, redisVs, thread, history>>

Messages == Components \cup {Reduce}

Decided   == {"SUCCEEDED", "UNRESOLVED", "FAILED"}
Undecided == {"PENDING", "RUNNING"}

\* changed: changed_components of llm_parse_payload; due: the payload names a
\* calendar_reduce_retry_due_at.
Job == [status  : {"PENDING", "CLAIMED", "SUCCEEDED", "DEAD_LETTER"},
        stage   : {"OTHER", "LLM_ENQUEUE_PENDING", "FANOUT"},
        attempt : 0..MaxJobAttempts, changed : SUBSET Components, due : BOOLEAN]

\* Attempts are only compared with MaxAttempts and stop there.
Task == [status : {"NONE"} \cup Undecided \cup Decided, attempt : 0..MaxAttempts,
         started : BOOLEAN]
NoTask == [status |-> "NONE", attempt |-> 0, started |-> FALSE]

\* missed: the components of the delta whose cursor patch is stored with the
\* result that the reduce step found no row of.
Result == [stored : BOOLEAN, missed : SUBSET Components]
NoResult == [stored |-> FALSE, missed |-> {}]

\* A fetch under way, with the payload the session wrote when it claimed the job.
Fetch == [on : BOOLEAN, changed : SUBSET Components]
NoFetch == [on |-> FALSE, changed |-> {}]

ThreadIdle == [pc |-> "idle", msg |-> NoMessage, id |-> NoId, attempt |-> 0,
               changed |-> {}]
Busy == {"preflight", "begin", "parsing", "announce", "again", "reducing", "ack"}
Work == [pc : Busy, msg : Messages, id : EntryIds, attempt : 0..MaxAttempts,
         changed : SUBSET Components]

More(n) == IF n < MaxAttempts THEN n + 1 ELSE n
Tried(n) == IF n < MaxJobAttempts THEN n + 1 ELSE n

\* One less; a count that stopped at MaxAttempts may really be higher.
Fewer(n) == {IF n > 0 THEN n - 1 ELSE 0} \cup (IF n = MaxAttempts THEN {n} ELSE {})

Init ==
    /\ \E changed \in SUBSET Components :
          job = [status |-> "CLAIMED", stage |-> "LLM_ENQUEUE_PENDING", attempt |-> 0,
                 changed |-> changed, due |-> FALSE]
    /\ fetch   = NoFetch
    /\ task    = [c \in Components |-> NoTask]
    /\ result  = NoResult
    /\ fresh   = [m \in Messages |-> 0]
    /\ pending = [i \in EntryIds |-> NoMessage]
    /\ retry   = NoMessage
    /\ thread  = [t \in Threads |-> ThreadIdle]
    /\ starts  = [c \in Components |-> 0]
    /\ rejections = 0
    /\ faults  = 0

Ended == job.status \in {"SUCCEEDED", "DEAD_LETTER"}

\* The reduce step holds the row lock of the job until it commits.
Locked == \E t \in Threads : thread[t].pc = "reducing"

\* XADD of one entry for each message of a set.
Enqueue(messages) ==
    fresh' = [m \in Messages |-> IF m \in messages /\ fresh[m] < MaxCopies
                                 THEN fresh[m] + 1 ELSE fresh[m]]

Mishap == rejections + faults < MaxMishaps

Fault == Mishap /\ faults' = faults + 1 /\ UNCHANGED <<starts, rejections>>

\* upsert_calendar_component_tasks: the rows that exist keep what they have.
Upserted(changed) ==
    [c \in Components |-> IF c \in changed /\ task[c].status = "NONE"
                          THEN [NoTask EXCEPT !.status = "PENDING"] ELSE task[c]]

-----------------------------------------------------------------------------
(* The ingest loop.                                                        *)

RequeueStaleClaimedJob ==
    /\ ~fetch.on
    /\ job.status = "CLAIMED"
    /\ ~Locked
    /\ job' = [job EXCEPT !.status  = IF job.attempt + 1 < MaxJobAttempts
                                      THEN "PENDING" ELSE "DEAD_LETTER",
                          !.attempt = Tried(@), !.stage = "OTHER"]
    /\ UNCHANGED <<fetch, task, result, redisVs, thread, history>>

ClaimJob ==
    /\ ~fetch.on
    /\ job.status = "PENDING"
    /\ ~Locked
    /\ job'   = [job EXCEPT !.status = "CLAIMED"]
    /\ fetch' = [on |-> TRUE, changed |-> job.changed]
    /\ UNCHANGED <<task, result, redisVs, thread, history>>

\* The session wrote CLAIMED when it claimed the job, so a status somebody
\* else set during the fetch stays; the payload is written as a whole.
MarkLlmEnqueuePending(changed) ==
    /\ fetch.on
    /\ ~Locked
    /\ \E due \in {FALSE, job.due} :
          job' = [job EXCEPT !.stage = "LLM_ENQUEUE_PENDING", !.changed = changed,
                             !.due = due]
    /\ fetch' = NoFetch
    /\ UNCHANGED <<task, result, redisVs, thread, history>>

\* apply_failure, with the payload as it was when the job was claimed.
FetchFails ==
    /\ fetch.on
    /\ ~Locked
    /\ \E status \in {"PENDING", "DEAD_LETTER"} :
          /\ status = "PENDING" => job.attempt + 1 < MaxJobAttempts
          /\ job' = [job EXCEPT !.status = status, !.stage = "OTHER",
                                !.attempt = Tried(@), !.changed = fetch.changed]
    /\ fetch' = NoFetch
    /\ UNCHANGED <<task, result, redisVs, thread, history>>

AwaitsDispatch ==
    /\ ~fetch.on
    /\ job.status = "CLAIMED"
    /\ job.stage = "LLM_ENQUEUE_PENDING"
    /\ ~Locked

\* dispatch_pending_llm_enqueues for a calendar delta: rows and messages; the
\* commit comes last, at the end of the batch.
DispatchLlmEnqueue ==
    /\ AwaitsDispatch
    /\ task' = Upserted(job.changed)
    /\ Enqueue(job.changed \cup {Reduce})
    /\ job'  = [job EXCEPT !.stage = "FANOUT"]
    /\ UNCHANGED <<fetch, result, pending, retry, thread, history>>

\* What is on the stream when a dispatch breaks off: the reduce message is last.
Broken(sent) ==
    /\ sent \subseteq job.changed \cup {Reduce}
    /\ Reduce \in sent => job.changed \subseteq sent

\* Redis failed: the rows are committed and the job waits for another dispatch,
\* or - the third time - for a new fetch.
DispatchFails(sent) ==
    /\ AwaitsDispatch
    /\ Fault
    /\ Broken(sent)
    /\ task' = Upserted(job.changed)
    /\ Enqueue(sent)
    /\ \/ UNCHANGED job
       \/ job' = [job EXCEPT !.status = "PENDING", !.stage = "OTHER", !.attempt = Tried(@)]
    /\ UNCHANGED <<fetch, result, pending, retry, thread>>

\* The process died on the way, or the commit failed.
DispatchRolledBack(sent) ==
    /\ AwaitsDispatch
    /\ Fault
    /\ Broken(sent)
    /\ Enqueue(sent)
    /\ UNCHANGED <<job, fetch, task, result, pending, retry, thread>>

-----------------------------------------------------------------------------
(* Delivery, as in IngestPipeline.                                         *)

MoveDueRetry ==
    /\ retry # NoMessage
    /\ Enqueue({retry})
    /\ retry' = NoMessage
    /\ job'   = [job EXCEPT !.due = @ /\ retry # Reduce]
    /\ UNCHANGED <<fetch, task, result, pending, thread, history>>

Takes(t, m, i) ==
    /\ thread[t] = ThreadIdle
    /\ thread' = [thread EXCEPT ![t] = [pc |-> "preflight", msg |-> m, id |-> i,
                                        attempt |-> 0, changed |-> {}]]

FreeIds == {i \in EntryIds : pending[i] = NoMessage /\ \A t \in Threads : thread[t].id # i}

ConsumeFresh(t, m) ==
    /\ fresh[m] > 0
    /\ FreeIds # {}
    /\ LET i == CHOOSE i \in FreeIds : TRUE
       IN  /\ pending' = [pending EXCEPT ![i] = m]
           /\ Takes(t, m, i)
    /\ fresh' = [fresh EXCEPT ![m] = @ - 1]
    /\ UNCHANGED <<job, fetch, task, result, retry, history>>

\* Mutant: no look whether the entry is there still.
ClaimAny(t, i) ==
    /\ Takes(t, pending[i], i)
    /\ UNCHANGED <<job, fetch, task, result, redisVs, history>>

ClaimIdle(t, i) ==
    /\ pending[i] # NoMessage
    /\ Takes(t, pending[i], i)
    /\ UNCHANGED <<job, fetch, task, result, redisVs, history>>

AckParseTask(t) ==
    /\ thread[t].pc = "ack"
    /\ pending' = [pending EXCEPT ![thread[t].id] = NoMessage]
    /\ thread'  = [thread EXCEPT ![t] = ThreadIdle]
    /\ UNCHANGED <<job, fetch, task, result, fresh, retry, history>>

Goes(t, pc) == thread' = [thread EXCEPT ![t].pc = pc]

\* The job is read without a lock for a component, and with one for a reduce.
PrepareMessageForProcessing(t) ==
    /\ thread[t].pc = "preflight"
    /\ thread[t].msg = Reduce => ~Locked
    /\ \/ Ended /\ Goes(t, "ack")
       \/ job.status = "PENDING" /\ thread' = [thread EXCEPT ![t] = ThreadIdle]
       \/ /\ job.status = "CLAIMED"
          /\ thread' = [thread EXCEPT ![t].pc = "begin", ![t].changed = job.changed]
    /\ UNCHANGED <<job, fetch, task, result, redisVs, history>>

-----------------------------------------------------------------------------
(* A child message.                                                        *)

\* Nothing to do: no row and none in the payload, a decided component, or one
\* that was started within the claim timeout.
SkipComponent(t) ==
    LET c == thread[t].msg
    IN  /\ thread[t].pc = "begin"
        /\ c # Reduce
        /\ \/ task[c].status = "NONE" /\ c \notin thread[t].changed
           \/ task[c].status \in Decided
           \/ task[c].status = "RUNNING"
        /\ thread' = [thread EXCEPT ![t].pc = "ack", ![t].changed = {}]
        /\ UNCHANGED <<job, fetch, task, result, redisVs, history>>

\* The row is made if it is missing - with those of the other components - and
\* the start is committed.  A RUNNING one is taken over after the timeout.
StartComponent(t) ==
    LET c    == thread[t].msg
        rows == IF task[c].status = "NONE" THEN Upserted(thread[t].changed) ELSE task
    IN  /\ thread[t].pc = "begin"
        /\ c # Reduce
        /\ rows[c].status \in Undecided
        /\ task'   = [rows EXCEPT ![c] = [status |-> "RUNNING", started |-> TRUE,
                                          attempt |-> More(rows[c].attempt)]]
        /\ thread' = [thread EXCEPT ![t].pc = "parsing", ![t].changed = {},
                                    ![t].attempt = More(rows[c].attempt)]
        /\ starts' = [starts EXCEPT ![c] = More(@)]
        /\ UNCHANGED <<job, fetch, result, redisVs, rejections, faults>>

\* The commit after the parse; who started the component last is not asked.
Leaves(t, status, pc) ==
    /\ thread[t].pc = "parsing"
    /\ task'   = [task EXCEPT ![thread[t].msg].status = status]
    /\ thread' = [thread EXCEPT ![t].pc = pc, ![t].attempt = 0]

\* A record was parsed, or none could be - an error that is not retryable, an
\* answer without a calendar record, a component without an ical text.
ComponentDecided(t) ==
    /\ \E status \in {"SUCCEEDED", "UNRESOLVED"} : Leaves(t, status, "announce")
    /\ UNCHANGED <<job, fetch, result, redisVs, history>>

\* Mutant: the attempts are not counted.
ComponentFailsAtOnce(t) ==
    /\ Leaves(t, "FAILED", "announce")
    /\ UNCHANGED <<job, fetch, result, redisVs, history>>

ComponentFails(t) ==
    /\ thread[t].attempt = MaxAttempts
    /\ Leaves(t, "FAILED", "announce")
    /\ UNCHANGED <<job, fetch, result, redisVs, history>>

\* Mutant: the message is acknowledged without a new one.
ComponentForgotten(t) ==
    /\ thread[t].attempt < MaxAttempts
    /\ Leaves(t, "PENDING", "ack")
    /\ UNCHANGED <<job, fetch, result, redisVs, history>>

ComponentRetries(t) ==
    /\ thread[t].attempt < MaxAttempts
    /\ Leaves(t, "PENDING", "again")
    /\ UNCHANGED <<job, fetch, result, redisVs, history>>

\* The limiter turned the call away: the attempt is given back, and the slot
\* is set before the commit.
ComponentRateLimited(t) ==
    LET c == thread[t].msg
    IN  /\ thread[t].pc = "parsing"
        /\ Mishap
        /\ rejections' = rejections + 1
        /\ \E attempt \in Fewer(task[c].attempt) :
              task' = [task EXCEPT ![c].status = "PENDING", ![c].attempt = attempt]
        /\ retry'  = c
        /\ thread' = [thread EXCEPT ![t].pc = "ack", ![t].attempt = 0]
        /\ UNCHANGED <<job, fetch, result, fresh, pending, starts, faults>>

\* The slot is set, the commit failed.
RateLimitRolledBack(t) ==
    /\ thread[t].pc = "parsing"
    /\ Fault
    /\ retry'  = thread[t].msg
    /\ thread' = [thread EXCEPT ![t] = ThreadIdle]
    /\ UNCHANGED <<job, fetch, task, result, fresh, pending>>

\* The messages that follow the commit.
EnqueueNext(t) ==
    /\ thread[t].pc \in {"announce", "again"}
    /\ Enqueue({IF thread[t].pc = "announce" THEN Reduce ELSE thread[t].msg})
    /\ Goes(t, "ack")
    /\ UNCHANGED <<job, fetch, task, result, pending, retry, history>>

-----------------------------------------------------------------------------
(* A reduce message.  The job is locked, its status is not tested again.   *)

Known     == {c \in Components : task[c].status # "NONE"}
\* Mutant: a component that failed for good is waited for.
WaitingForSuccess == {c \in Components : task[c].status \in Undecided \cup {"FAILED"}}

Waiting   == {c \in Components : task[c].status \in Undecided}
Unstarted == {c \in Components : task[c].status = "PENDING" /\ ~task[c].started}

\* Some component is not decided: the next reduce is scheduled unless the one
\* named in the payload lies ahead still, and components nobody started are
\* sent again - those not touched for a while when another one is running.
ReduceWaits(t) ==
    /\ thread[t].pc = "begin"
    /\ thread[t].msg = Reduce
    /\ ~Locked
    /\ Waiting # {}
    /\ \/ retry' = Reduce /\ job' = [job EXCEPT !.due = TRUE, !.stage = "FANOUT"]
       \/ job.due /\ UNCHANGED retry /\ job' = [job EXCEPT !.stage = "FANOUT"]
    /\ \E stale \in SUBSET Unstarted :
          /\ (\A c \in Components : task[c].status # "RUNNING") => stale = Unstarted
          /\ Enqueue(stale)
    /\ thread' = [thread EXCEPT ![t].pc = "ack", ![t].changed = {}]
    /\ UNCHANGED <<fetch, task, result, pending, history>>

\* Some of it is in Redis, the commit failed or was not reached.
ReduceRolledBack(t) ==
    /\ thread[t].pc = "begin"
    /\ thread[t].msg = Reduce
    /\ ~Locked
    /\ Waiting # {}
    /\ Fault
    /\ retry' = Reduce \/ UNCHANGED retry
    /\ \E stale \in SUBSET Unstarted : Enqueue(stale)
    /\ thread' = [thread EXCEPT ![t] = ThreadIdle]
    /\ UNCHANGED <<job, fetch, task, result, pending>>

\* Every component there is a row of is decided: the rows are read.  What stays
\* of the delta that was read with the message is what no row was found of ...
ReduceReads(t) ==
    /\ thread[t].pc = "begin"
    /\ thread[t].msg = Reduce
    /\ ~Locked
    /\ Waiting = {}
    /\ thread' = [thread EXCEPT ![t].pc = "reducing", ![t].changed = @ \ Known]
    /\ UNCHANGED <<job, fetch, task, result, redisVs, history>>

\* ... and the result, unless there is one, is stored with the cursor patch of
\* that delta.
ReduceCommits(t) ==
    /\ thread[t].pc = "reducing"
    /\ result' = IF result.stored THEN result
                 ELSE [stored |-> TRUE, missed |-> thread[t].changed]
    /\ job'    = [job EXCEPT !.status = "SUCCEEDED", !.stage = "OTHER", !.changed = {},
                             !.due = FALSE]
    /\ thread' = [thread EXCEPT ![t].pc = "ack", ![t].changed = {}]
    /\ UNCHANGED <<fetch, task, redisVs, history>>

-----------------------------------------------------------------------------
\* An exception nothing handles: rolled back, and the message stays pending.
ThreadFails(t) ==
    /\ thread[t] # ThreadIdle
    /\ Fault
    /\ thread' = [thread EXCEPT ![t] = ThreadIdle]
    /\ UNCHANGED <<job, fetch, task, result, redisVs>>

Crash ==
    /\ Fault
    /\ fetch'  = NoFetch
    /\ thread' = [t \in Threads |-> ThreadIdle]
    /\ UNCHANGED <<job, task, result, redisVs>>

Handles(t) ==
    \/ PrepareMessageForProcessing(t)
    \/ SkipComponent(t)
    \/ StartComponent(t)
    \/ ComponentDecided(t)
    \/ ComponentFails(t)
    \/ ComponentRetries(t)
    \/ ComponentRateLimited(t)
    \/ EnqueueNext(t)
    \/ ReduceWaits(t)
    \/ ReduceReads(t)
    \/ ReduceCommits(t)
    \/ AckParseTask(t)

IngestProgress ==
    \/ ClaimJob
    \/ \E changed \in SUBSET Components : MarkLlmEnqueuePending(changed)
    \/ FetchFails
    \/ DispatchLlmEnqueue

Next ==
    \/ IngestProgress
    \/ RequeueStaleClaimedJob
    \/ \E sent \in SUBSET Messages : DispatchFails(sent) \/ DispatchRolledBack(sent)
    \/ MoveDueRetry
    \/ \E t \in Threads :
          \/ \E m \in Messages : ConsumeFresh(t, m)
          \/ \E i \in EntryIds : ClaimIdle(t, i)
          \/ Handles(t)
          \/ RateLimitRolledBack(t)
          \/ ReduceRolledBack(t)
          \/ ThreadFails(t)
    \/ Crash

Spec == Init /\ [][Next]_vars

\* The loops tick for ever and a call to the LLM ends some day.  The stream is
\* first in, first out, and every tick takes a fresh entry beside the idle ones.
Fairness ==
    /\ WF_vars(IngestProgress)
    /\ WF_vars(MoveDueRetry)
    /\ \A t \in Threads : WF_vars(Handles(t))
    /\ \A m \in Messages : SF_vars(\E t \in Threads : ConsumeFresh(t, m))
    /\ \A i \in EntryIds : SF_vars(\E t \in Threads : ClaimIdle(t, i))

FairSpec == Spec /\ Fairness

-----------------------------------------------------------------------------
(* Properties                                                              *)

\* The rows, messages and program counters have the shape the code gives them;
\* a thread that is not idle holds an entry of the stream.
TypeOK ==
    /\ job     \in Job
    /\ fetch   \in Fetch
    /\ task    \in [Components -> Task]
    /\ result  \in Result
    /\ fresh   \in [Messages -> 0..MaxCopies]
    /\ pending \in [EntryIds -> {NoMessage} \cup Messages]
    /\ retry   \in {NoMessage} \cup Messages
    /\ thread  \in [Threads -> {ThreadIdle} \cup Work]
    /\ \A t \in Threads : thread[t].pc \in {"parsing", "again"} => thread[t].msg \in Components
    /\ starts  \in [Components -> 0..MaxAttempts]
    /\ rejections \in Nat
    /\ faults  \in Nat

\* A component is given up as FAILED only when it was started MaxAttempts
\* times, although starts are given back by the rate limiter, components are
\* taken over and threads write their outcome late.
GivenUpAfterAttempts ==
    \A c \in Components : task[c].status = "FAILED" => starts[c] = MaxAttempts

\* Somebody will come back to a component: an entry of the stream, the retry
\* slot, or a thread that is not through with it.
HasTrace(c) ==
    \/ fresh[c] > 0
    \/ \E i \in EntryIds : pending[i] = c
    \/ retry = c
    \/ \E t \in Threads : thread[t].msg = c /\ thread[t].pc \in {"parsing", "again"}

ReduceAwaits(c) ==
    /\ job.status = "CLAIMED"
    /\ job.stage = "FANOUT"
    /\ ~result.stored
    /\ c \in Waiting

\* While the reduce step waits for a component, the component has a trace - as
\* long as no process fails and the rate limiter lets every call through.
ComponentHasTrace ==
    faults = 0 /\ rejections = 0 => \A c \in Components : ReduceAwaits(c) => HasTrace(c)

\* The same when the rate limiter does turn calls away.
RejectedComponentHasTrace ==
    faults = 0 => \A c \in Components : ReduceAwaits(c) => HasTrace(c)

\* A stored result accounts for every changed component of the delta whose
\* cursor patch it carries: the reduce step waited for its row.
ResultCoversDelta == result.missed = {}

\* A fan-out ends: with a result, or with the job given up or claimed anew -
\* unless a process fails or the rate limiter steps in.
FanoutEnds ==
    [](faults = 0 /\ rejections = 0) =>
       ((job.status = "CLAIMED" /\ job.stage = "FANOUT") ~> (result.stored \/ Ended))

=============================================================================
