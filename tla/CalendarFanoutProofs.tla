------------------------ MODULE CalendarFanoutProofs ------------------------
(***************************************************************************)
(* Proofs about CalendarFanout, for any calendar, any number of threads,   *)
(* attempts, entries and mishaps.                                          *)
(***************************************************************************)
EXTENDS CalendarFanout, TLAPS

-----------------------------------------------------------------------------
(* The counters stay within their bounds and move the right way.           *)

LEMMA MoreType ==
  ASSUME NEW n \in 0..MaxAttempts
  PROVE  More(n) \in 1..MaxAttempts /\ More(n) >= n
  BY MaxAttemptsAssumption DEF More

LEMMA MoreMonotone ==
  ASSUME NEW n \in 0..MaxAttempts, NEW k \in 0..MaxAttempts, n <= k
  PROVE  More(n) <= More(k)
  BY MaxAttemptsAssumption DEF More

LEMMA TriedType ==
  ASSUME NEW n \in 0..MaxJobAttempts
  PROVE  Tried(n) \in 0..MaxJobAttempts
  BY MaxJobAttemptsAssumption DEF Tried

LEMMA FewerType ==
  ASSUME NEW n \in 0..MaxAttempts, NEW k \in Fewer(n)
  PROVE  k \in 0..MaxAttempts /\ k <= n
  BY MaxAttemptsAssumption DEF Fewer

-----------------------------------------------------------------------------
(* Rows, copies of messages and threads.                                   *)

LEMMA NoTaskType == NoTask \in Task /\ [NoTask EXCEPT !.status = "PENDING"] \in Task
  <1>1. 0 \in 0..MaxAttempts
    BY MaxAttemptsAssumption
  <1>2. NoTask \in Task
    BY <1>1 DEF NoTask, Task
  <1> QED  BY <1>2 DEF Task, Undecided

\* The upsert makes PENDING rows for components without one and touches no other.
LEMMA UpsertedRows ==
  ASSUME task \in [Components -> Task], NEW changed
  PROVE  /\ Upserted(changed) \in [Components -> Task]
         /\ \A c \in Components :
               \/ Upserted(changed)[c] = task[c]
               \/ /\ task[c].status = "NONE"
                  /\ c \in changed
                  /\ Upserted(changed)[c] = [NoTask EXCEPT !.status = "PENDING"]
         /\ \A c \in Components : c \in changed => Upserted(changed)[c].status # "NONE"
  BY NoTaskType DEF Upserted, NoTask

\* An entry that was added is there, and no entry is lost.
LEMMA EnqueuedEntries ==
  ASSUME fresh \in [Messages -> 0..MaxCopies], NEW messages, Enqueue(messages)
  PROVE  /\ fresh' \in [Messages -> 0..MaxCopies]
         /\ \A m \in Messages : fresh'[m] >= fresh[m]
         /\ \A m \in Messages : m \in messages => fresh'[m] > 0
         /\ \A m \in Messages : m \notin messages => fresh'[m] = fresh[m]
  BY MaxCopiesAssumption DEF Enqueue

LEMMA JobRow ==
  ASSUME job \in Job
  PROVE  /\ job.attempt \in 0..MaxJobAttempts
         /\ Tried(job.attempt) \in 0..MaxJobAttempts
         /\ job.changed \subseteq Components
         /\ job.due \in BOOLEAN
  BY TriedType DEF Job

LEMMA BusyThread ==
  ASSUME TypeOK, NEW t \in Threads, thread[t].pc # "idle"
  PROVE  /\ thread[t] \in Work
         /\ thread[t].msg \in Messages
         /\ thread[t].id \in EntryIds
         /\ thread[t].attempt \in 0..MaxAttempts
         /\ thread[t].changed \subseteq Components
  BY DEF TypeOK, ThreadIdle, Work

LEMMA WorkingThread ==
  ASSUME TypeOK, NEW t \in Threads
  PROVE  thread[t] = ThreadIdle \/ (thread[t] \in Work /\ thread[t].pc # "idle")
  BY DEF TypeOK, Work, Busy

\* A step of one thread, whatever it does to the fields.
LEMMA ThreadStep ==
  ASSUME TypeOK, NEW t \in Threads, NEW w \in {ThreadIdle} \cup Work,
         thread' = [thread EXCEPT ![t] = w],
         w.pc \in {"parsing", "again"} => w.msg \in Components
  PROVE  /\ thread' \in [Threads -> {ThreadIdle} \cup Work]
         /\ \A u \in Threads : thread'[u].pc \in {"parsing", "again"}
                               => thread'[u].msg \in Components
  BY DEF TypeOK

\* The jobs the actions make out of a job.
LEMMA JobRows ==
  ASSUME job \in Job, NEW changed \in SUBSET Components, NEW due \in BOOLEAN,
         NEW status \in {"PENDING", "CLAIMED", "SUCCEEDED", "DEAD_LETTER"},
         NEW stage \in {"OTHER", "LLM_ENQUEUE_PENDING", "FANOUT"}
  PROVE  /\ [job EXCEPT !.status = status] \in Job
         /\ [job EXCEPT !.stage = stage] \in Job
         /\ [job EXCEPT !.due = due] \in Job
         /\ [job EXCEPT !.due = due, !.stage = stage] \in Job
         /\ [job EXCEPT !.stage = stage, !.changed = changed, !.due = due] \in Job
         /\ [job EXCEPT !.status = status, !.attempt = Tried(job.attempt), !.stage = stage] \in Job
         /\ [job EXCEPT !.status = status, !.stage = stage, !.attempt = Tried(job.attempt)] \in Job
         /\ [job EXCEPT !.status = status, !.stage = stage, !.attempt = Tried(job.attempt),
                        !.changed = changed] \in Job
         /\ [job EXCEPT !.status = status, !.stage = stage, !.changed = changed,
                        !.due = due] \in Job
  BY JobRow DEF Job

\* A step of the ingest loop keeps the types.
LEMMA IngestTypes ==
  ASSUME TypeOK,
         \/ IngestProgress
         \/ RequeueStaleClaimedJob
         \/ \E sent \in SUBSET Messages : DispatchFails(sent) \/ DispatchRolledBack(sent)
  PROVE  TypeOK'
  <1> USE DEF redisVs, history
  <1>0. job \in Job /\ fetch \in Fetch
    BY DEF TypeOK
  <1>1. CASE RequeueStaleClaimedJob
    <2>1. job' \in Job
      BY <1>0, <1>1, JobRows, JobRow DEF RequeueStaleClaimedJob
    <2> QED  BY <1>1, <2>1 DEF RequeueStaleClaimedJob, TypeOK
  <1>2. CASE ClaimJob
    <2>1. job' \in Job
      BY <1>0, <1>2, JobRows, JobRow DEF ClaimJob
    <2>2. fetch' \in Fetch
      BY <1>0, <1>2, JobRow DEF ClaimJob, Fetch
    <2> QED  BY <1>2, <2>1, <2>2 DEF ClaimJob, TypeOK
  <1>3. ASSUME NEW changed \in SUBSET Components, MarkLlmEnqueuePending(changed)
        PROVE  TypeOK'
    <2>1. job' \in Job
      <3>1. PICK due \in {FALSE, job.due} :
              job' = [job EXCEPT !.stage = "LLM_ENQUEUE_PENDING", !.changed = changed,
                                 !.due = due]
        BY <1>3 DEF MarkLlmEnqueuePending
      <3>2. due \in BOOLEAN
        BY <1>0, JobRow
      <3> QED  BY <1>0, <3>1, <3>2, JobRows
    <2>2. fetch' \in Fetch
      BY <1>3 DEF MarkLlmEnqueuePending, Fetch, NoFetch
    <2> QED  BY <1>3, <2>1, <2>2 DEF MarkLlmEnqueuePending, TypeOK
  <1>4. CASE FetchFails
    <2>1. job' \in Job
      <3>1. fetch.changed \in SUBSET Components
        BY <1>0 DEF Fetch
      <3>2. PICK status \in {"PENDING", "DEAD_LETTER"} :
              job' = [job EXCEPT !.status = status, !.stage = "OTHER",
                                 !.attempt = Tried(job.attempt), !.changed = fetch.changed]
        BY <1>4 DEF FetchFails
      <3> QED  BY <1>0, <3>1, <3>2, JobRows
    <2>2. fetch' \in Fetch
      BY <1>4 DEF FetchFails, Fetch, NoFetch
    <2> QED  BY <1>4, <2>1, <2>2 DEF FetchFails, TypeOK
  <1>5. CASE DispatchLlmEnqueue
    <2>1. job' \in Job
      BY <1>0, <1>5, JobRows DEF DispatchLlmEnqueue
    <2>2. task' \in [Components -> Task]
      BY <1>5, UpsertedRows DEF DispatchLlmEnqueue, TypeOK
    <2>3. fresh' \in [Messages -> 0..MaxCopies]
      BY <1>5, EnqueuedEntries DEF DispatchLlmEnqueue, TypeOK
    <2> QED  BY <1>5, <2>1, <2>2, <2>3 DEF DispatchLlmEnqueue, TypeOK
  <1>6. ASSUME NEW sent \in SUBSET Messages, DispatchFails(sent)
        PROVE  TypeOK'
    <2>1. job' \in Job
      BY <1>0, <1>6, JobRows DEF DispatchFails
    <2>2. task' \in [Components -> Task]
      BY <1>6, UpsertedRows DEF DispatchFails, TypeOK
    <2>3. fresh' \in [Messages -> 0..MaxCopies]
      BY <1>6, EnqueuedEntries DEF DispatchFails, TypeOK
    <2> QED  BY <1>6, <2>1, <2>2, <2>3 DEF DispatchFails, Fault, TypeOK
  <1>7. ASSUME NEW sent \in SUBSET Messages, DispatchRolledBack(sent)
        PROVE  TypeOK'
    <2>1. fresh' \in [Messages -> 0..MaxCopies]
      BY <1>7, EnqueuedEntries DEF DispatchRolledBack, TypeOK
    <2> QED  BY <1>7, <2>1 DEF DispatchRolledBack, Fault, TypeOK
  <1> QED  BY <1>1, <1>2, <1>3, <1>4, <1>5, <1>6, <1>7 DEF IngestProgress

\* What a working thread may become.
LEMMA WorkRows ==
  ASSUME NEW w \in Work, NEW pc \in Busy,
         NEW attempt \in 0..MaxAttempts, NEW changed \in SUBSET Components
  PROVE  /\ [w EXCEPT !.pc = pc] \in Work
         /\ [w EXCEPT !.pc = pc, !.changed = changed] \in Work
         /\ [w EXCEPT !.pc = pc, !.attempt = attempt] \in Work
         /\ [w EXCEPT !.pc = pc, !.changed = changed, !.attempt = attempt] \in Work
  <1>1. ASSUME NEW v \in Work PROVE [v EXCEPT !.pc = pc] \in Work
    BY <1>1 DEF Work
  <1>2. ASSUME NEW v \in Work PROVE [v EXCEPT !.changed = changed] \in Work
    BY <1>2 DEF Work
  <1>3. ASSUME NEW v \in Work PROVE [v EXCEPT !.attempt = attempt] \in Work
    BY <1>3 DEF Work
  <1> QED  BY <1>1, <1>2, <1>3

\* A thread takes an entry.
LEMMA TakenType ==
  ASSUME TypeOK, NEW t \in Threads, NEW m \in Messages, NEW i \in EntryIds, Takes(t, m, i)
  PROVE  /\ thread' \in [Threads -> {ThreadIdle} \cup Work]
         /\ \A u \in Threads : thread'[u].pc \in {"parsing", "again"}
                               => thread'[u].msg \in Components
  <1> DEFINE w == [pc |-> "preflight", msg |-> m, id |-> i, attempt |-> 0, changed |-> {}]
  <1>1. 0 \in 0..MaxAttempts
    BY MaxAttemptsAssumption
  <1>2. w \in Work /\ w.pc = "preflight"
    BY <1>1 DEF Work, Busy
  <1>3. thread' = [thread EXCEPT ![t] = w]
    BY DEF Takes
  <1> QED  BY <1>2, <1>3, ThreadStep

LEMMA DeliveryTypes ==
  ASSUME TypeOK,
         \/ MoveDueRetry
         \/ \E t \in Threads : \/ \E m \in Messages : ConsumeFresh(t, m)
                               \/ \E i \in EntryIds : ClaimIdle(t, i)
                               \/ AckParseTask(t)
         \/ Crash
  PROVE  TypeOK'
  <1> USE DEF redisVs, history
  <1>1. CASE MoveDueRetry
    <2>1. job' \in Job
      BY <1>1, JobRows, JobRow DEF MoveDueRetry, TypeOK
    <2>2. fresh' \in [Messages -> 0..MaxCopies]
      BY <1>1, EnqueuedEntries DEF MoveDueRetry, TypeOK
    <2> QED  BY <1>1, <2>1, <2>2 DEF MoveDueRetry, TypeOK
  <1>2. ASSUME NEW t \in Threads, NEW m \in Messages, ConsumeFresh(t, m)
        PROVE  TypeOK'
    <2>1. PICK i \in EntryIds : pending' = [pending EXCEPT ![i] = m] /\ Takes(t, m, i)
      <3>1. (CHOOSE i \in FreeIds : TRUE) \in FreeIds
        BY <1>2 DEF ConsumeFresh
      <3> QED  BY <1>2, <3>1 DEF ConsumeFresh, FreeIds
    <2>2. pending' \in [EntryIds -> {NoMessage} \cup Messages]
      BY <2>1 DEF TypeOK
    <2>3. fresh' \in [Messages -> 0..MaxCopies]
      BY <1>2, MaxCopiesAssumption DEF ConsumeFresh, TypeOK
    <2> QED  BY <1>2, <2>1, <2>2, <2>3, TakenType DEF ConsumeFresh, TypeOK
  <1>3. ASSUME NEW t \in Threads, NEW i \in EntryIds, ClaimIdle(t, i)
        PROVE  TypeOK'
    <2>1. pending[i] \in Messages
      BY <1>3 DEF ClaimIdle, TypeOK
    <2> QED  BY <1>3, <2>1, TakenType DEF ClaimIdle, TypeOK
  <1>4. ASSUME NEW t \in Threads, AckParseTask(t)
        PROVE  TypeOK'
    <2>1. thread' = [thread EXCEPT ![t] = ThreadIdle]
      BY <1>4 DEF AckParseTask
    <2>2. ThreadIdle.pc = "idle"
      BY DEF ThreadIdle
    <2>3. pending' \in [EntryIds -> {NoMessage} \cup Messages]
      BY <1>4 DEF AckParseTask, TypeOK
    <2> QED  BY <1>4, <2>1, <2>2, <2>3, ThreadStep DEF AckParseTask, TypeOK
  <1>5. CASE Crash
    <2>1. fetch' \in Fetch
      BY <1>5 DEF Crash, Fetch, NoFetch
    <2>2. \A t \in Threads : thread'[t].pc = "idle"
      BY <1>5 DEF Crash, ThreadIdle
    <2> QED  BY <1>5, <2>1, <2>2 DEF Crash, Fault, TypeOK
  <1> QED  BY <1>1, <1>2, <1>3, <1>4, <1>5

-----------------------------------------------------------------------------
(* The handlers.                                                           *)

\* A handler moves its own thread and leaves the message and its id alone.
MovesTo(t, pc) ==
  /\ thread[t].pc # "idle"
  /\ thread' \in [Threads -> {ThreadIdle} \cup Work]
  /\ thread'[t].pc = pc
  /\ thread'[t].msg = thread[t].msg
  /\ thread'[t].id = thread[t].id
  /\ \A u \in Threads : u # t => thread'[u] = thread[u]

LEMMA HandlerStep ==
  ASSUME TypeOK, NEW t \in Threads, thread[t].pc # "idle",
         NEW pc \in Busy, NEW attempt \in 0..MaxAttempts, NEW changed \in SUBSET Components,
         \/ thread' = [thread EXCEPT ![t].pc = pc]
         \/ thread' = [thread EXCEPT ![t].pc = pc, ![t].changed = changed]
         \/ thread' = [thread EXCEPT ![t].pc = pc, ![t].attempt = attempt]
         \/ thread' = [thread EXCEPT ![t].pc = pc, ![t].changed = changed, ![t].attempt = attempt]
  PROVE  MovesTo(t, pc)
  <1>1. thread[t] \in Work
    BY BusyThread
  <1>2. thread \in [Threads -> {ThreadIdle} \cup Work]
    BY DEF TypeOK
  <1>3. CASE thread' = [thread EXCEPT ![t].pc = pc]
    <2> DEFINE w == [thread[t] EXCEPT !.pc = pc]
    <2>1. w \in Work /\ w.pc = pc /\ w.msg = thread[t].msg /\ w.id = thread[t].id
      BY <1>1, WorkRows DEF Work
    <2>2. thread' = [thread EXCEPT ![t] = w]
      BY <1>3
    <2> HIDE DEF w
    <2> QED  BY <1>2, <2>1, <2>2 DEF MovesTo
  <1>4. CASE thread' = [thread EXCEPT ![t].pc = pc, ![t].changed = changed]
    <2> DEFINE w == [thread[t] EXCEPT !.pc = pc, !.changed = changed]
    <2>1. w \in Work /\ w.pc = pc /\ w.msg = thread[t].msg /\ w.id = thread[t].id
      BY <1>1, WorkRows DEF Work
    <2>2. thread' = [thread EXCEPT ![t] = w]
      BY <1>2, <1>4
    <2> HIDE DEF w
    <2> QED  BY <1>2, <2>1, <2>2 DEF MovesTo
  <1>5. CASE thread' = [thread EXCEPT ![t].pc = pc, ![t].attempt = attempt]
    <2> DEFINE w == [thread[t] EXCEPT !.pc = pc, !.attempt = attempt]
    <2>1. w \in Work /\ w.pc = pc /\ w.msg = thread[t].msg /\ w.id = thread[t].id
      BY <1>1, WorkRows DEF Work
    <2>2. thread' = [thread EXCEPT ![t] = w]
      BY <1>2, <1>5
    <2> HIDE DEF w
    <2> QED  BY <1>2, <2>1, <2>2 DEF MovesTo
  <1>6. CASE thread' = [thread EXCEPT ![t].pc = pc, ![t].changed = changed,
                                      ![t].attempt = attempt]
    <2> DEFINE w == [thread[t] EXCEPT !.pc = pc, !.changed = changed, !.attempt = attempt]
    <2>1. w \in Work /\ w.pc = pc /\ w.msg = thread[t].msg /\ w.id = thread[t].id
      BY <1>1, WorkRows DEF Work
    <2>2. thread' = [thread EXCEPT ![t] = w]
      BY <1>2, <1>6
    <2> HIDE DEF w
    <2> QED  BY <1>2, <2>1, <2>2 DEF MovesTo
  <1> QED  BY <1>3, <1>4, <1>5, <1>6

\* Where each handler takes its thread.
LEMMA HandlersMove ==
  ASSUME TypeOK, NEW t \in Threads
  PROVE  /\ PrepareMessageForProcessing(t)
            => MovesTo(t, "ack") \/ MovesTo(t, "begin")
               \/ thread' = [thread EXCEPT ![t] = ThreadIdle]
         /\ SkipComponent(t) => MovesTo(t, "ack")
         /\ StartComponent(t) => MovesTo(t, "parsing")
         /\ ComponentDecided(t) => MovesTo(t, "announce")
         /\ ComponentFails(t) => MovesTo(t, "announce")
         /\ ComponentRetries(t) => MovesTo(t, "again")
         /\ ComponentRateLimited(t) => MovesTo(t, "ack")
         /\ EnqueueNext(t) => MovesTo(t, "ack")
         /\ ReduceWaits(t) => MovesTo(t, "ack")
         /\ ReduceReads(t) => MovesTo(t, "reducing")
         /\ ReduceCommits(t) => MovesTo(t, "ack")
  <1> DEFINE Moved(pc, changed, attempt) ==
               \/ thread' = [thread EXCEPT ![t].pc = pc]
               \/ thread' = [thread EXCEPT ![t].pc = pc, ![t].changed = changed]
               \/ thread' = [thread EXCEPT ![t].pc = pc, ![t].attempt = attempt]
               \/ thread' = [thread EXCEPT ![t].pc = pc, ![t].changed = changed,
                                           ![t].attempt = attempt]
  <1>0. \A pc \in Busy, changed \in SUBSET Components, attempt \in 0..MaxAttempts :
           Moved(pc, changed, attempt) /\ thread[t].pc # "idle" => MovesTo(t, pc)
    BY HandlerStep
  <1>1. /\ 0 \in 0..MaxAttempts
        /\ {} \in SUBSET Components
        /\ job.changed \in SUBSET Components
        /\ {"ack", "begin", "parsing", "announce", "again", "reducing"} \subseteq Busy
    BY MaxAttemptsAssumption, JobRow DEF TypeOK, Busy
  <1>2. PrepareMessageForProcessing(t)
        => MovesTo(t, "ack") \/ MovesTo(t, "begin") \/ thread' = [thread EXCEPT ![t] = ThreadIdle]
    <2> SUFFICES ASSUME PrepareMessageForProcessing(t),
                        thread' # [thread EXCEPT ![t] = ThreadIdle]
                 PROVE  MovesTo(t, "ack") \/ MovesTo(t, "begin")
      OBVIOUS
    <2>1. Moved("ack", {}, 0) \/ Moved("begin", job.changed, 0)
      BY DEF PrepareMessageForProcessing, Goes
    <2>2. thread[t].pc # "idle"
      BY DEF PrepareMessageForProcessing
    <2> HIDE DEF Moved
    <2> QED  BY <1>0, <1>1, <2>1, <2>2
  <1>3. SkipComponent(t) => MovesTo(t, "ack")
    <2>1. SkipComponent(t) => Moved("ack", {}, 0) /\ thread[t].pc # "idle"
      BY DEF SkipComponent
    <2> HIDE DEF Moved
    <2> QED  BY <1>0, <1>1, <2>1
  <1>4. StartComponent(t) => MovesTo(t, "parsing")
    <2> SUFFICES ASSUME StartComponent(t) PROVE MovesTo(t, "parsing")
      OBVIOUS
    <2> DEFINE c == thread[t].msg
               rows == IF task[c].status = "NONE" THEN Upserted(thread[t].changed) ELSE task
               n == More(rows[c].attempt)
    <2>1. c \in Components /\ thread[t].pc # "idle"
      BY BusyThread DEF StartComponent, Messages
    <2>2. rows[c] \in Task
      BY <2>1, UpsertedRows DEF TypeOK
    <2>3. n \in 0..MaxAttempts
      <3>1. rows[c].attempt \in 0..MaxAttempts
        BY <2>2 DEF Task
      <3> QED  BY <3>1, MoreType, MaxAttemptsAssumption
    <2>4. Moved("parsing", {}, n)
      BY DEF StartComponent
    <2> HIDE DEF Moved, n
    <2> QED  BY <1>0, <1>1, <2>1, <2>3, <2>4
  <1>5. ASSUME NEW status, NEW pc \in Busy, Leaves(t, status, pc)
        PROVE  MovesTo(t, pc)
    <2>1. Moved(pc, {}, 0) /\ thread[t].pc # "idle"
      BY <1>5 DEF Leaves
    <2> HIDE DEF Moved
    <2> QED  BY <1>0, <1>1, <2>1
  <1>6. /\ ComponentDecided(t) => MovesTo(t, "announce")
        /\ ComponentFails(t) => MovesTo(t, "announce")
        /\ ComponentRetries(t) => MovesTo(t, "again")
    BY <1>1, <1>5 DEF ComponentDecided, ComponentFails, ComponentRetries
  <1>7. ComponentRateLimited(t) => MovesTo(t, "ack")
    <2>1. ComponentRateLimited(t) => Moved("ack", {}, 0) /\ thread[t].pc # "idle"
      BY DEF ComponentRateLimited
    <2> HIDE DEF Moved
    <2> QED  BY <1>0, <1>1, <2>1
  <1>8. EnqueueNext(t) => MovesTo(t, "ack")
    <2>1. EnqueueNext(t) => Moved("ack", {}, 0) /\ thread[t].pc # "idle"
      BY DEF EnqueueNext, Goes
    <2> HIDE DEF Moved
    <2> QED  BY <1>0, <1>1, <2>1
  <1>9. ReduceWaits(t) => MovesTo(t, "ack")
    <2>1. ReduceWaits(t) => Moved("ack", {}, 0) /\ thread[t].pc # "idle"
      BY DEF ReduceWaits
    <2> HIDE DEF Moved
    <2> QED  BY <1>0, <1>1, <2>1
  <1>10. ReduceReads(t) => MovesTo(t, "reducing")
    <2> SUFFICES ASSUME ReduceReads(t) PROVE MovesTo(t, "reducing")
      OBVIOUS
    <2> DEFINE left == thread[t].changed \ Known
    <2>1. thread[t].pc # "idle"
      BY DEF ReduceReads
    <2>2. left \in SUBSET Components
      BY <2>1, BusyThread
    <2>3. Moved("reducing", left, 0)
      BY DEF ReduceReads
    <2> HIDE DEF Moved, left
    <2> QED  BY <1>0, <1>1, <2>1, <2>2, <2>3
  <1>11. ReduceCommits(t) => MovesTo(t, "ack")
    <2>1. ReduceCommits(t) => Moved("ack", {}, 0) /\ thread[t].pc # "idle"
      BY DEF ReduceCommits
    <2> HIDE DEF Moved
    <2> QED  BY <1>0, <1>1, <2>1
  <1> QED  BY <1>2, <1>3, <1>4, <1>6, <1>7, <1>8, <1>9, <1>10, <1>11

LEMMA ThreadTypes ==
  ASSUME TypeOK, NEW t \in Threads, NEW pc, MovesTo(t, pc),
         pc \in {"parsing", "again"} => thread[t].msg \in Components
  PROVE  /\ thread' \in [Threads -> {ThreadIdle} \cup Work]
         /\ \A u \in Threads : thread'[u].pc \in {"parsing", "again"}
                               => thread'[u].msg \in Components
  BY DEF MovesTo, TypeOK

LEMMA IdledThread ==
  ASSUME TypeOK, NEW t \in Threads, thread' = [thread EXCEPT ![t] = ThreadIdle]
  PROVE  /\ thread' \in [Threads -> {ThreadIdle} \cup Work]
         /\ \A u \in Threads : thread'[u].pc \in {"parsing", "again"}
                               => thread'[u].msg \in Components
  BY ThreadStep DEF ThreadIdle

LEMMA ChangedTask ==
  ASSUME task \in [Components -> Task], NEW c \in Components,
         NEW status \in Undecided \cup Decided, NEW attempt \in 0..MaxAttempts
  PROVE  /\ [task EXCEPT ![c].status = status] \in [Components -> Task]
         /\ [task EXCEPT ![c].status = status, ![c].attempt = attempt] \in [Components -> Task]
  <1>1. ASSUME NEW row \in Task
        PROVE  /\ [row EXCEPT !.status = status] \in Task
               /\ [row EXCEPT !.attempt = attempt] \in Task
    BY <1>1 DEF Task
  <1> QED  BY <1>1

\* What a parse leaves behind.
LEMMA LeavesTypes ==
  ASSUME TypeOK, NEW t \in Threads, NEW status \in Undecided \cup Decided, NEW pc \in Busy,
         Leaves(t, status, pc), UNCHANGED <<job, fetch, result, redisVs, history>>
  PROVE  TypeOK'
  <1>1. thread[t].msg \in Components
    BY DEF Leaves, TypeOK
  <1>2. task' \in [Components -> Task]
    <2>1. 0 \in 0..MaxAttempts
      BY MaxAttemptsAssumption
    <2> QED  BY <1>1, <2>1, ChangedTask DEF Leaves, TypeOK
  <1>3. MovesTo(t, pc)
    <2>1. 0 \in 0..MaxAttempts /\ {} \in SUBSET Components /\ thread[t].pc # "idle"
      BY MaxAttemptsAssumption DEF Leaves
    <2>2. thread' = [thread EXCEPT ![t].pc = pc, ![t].attempt = 0]
      BY DEF Leaves
    <2> QED  BY <2>1, <2>2, HandlerStep
  <1> QED  BY <1>1, <1>2, <1>3, ThreadTypes DEF TypeOK, redisVs, history

LEMMA HandlerTypes ==
  ASSUME TypeOK, NEW t \in Threads,
         \/ Handles(t) /\ ~AckParseTask(t)
         \/ RateLimitRolledBack(t)
         \/ ReduceRolledBack(t)
         \/ ThreadFails(t)
  PROVE  TypeOK'
  <1> USE DEF redisVs, history
  <1>0. /\ job \in Job
        /\ fresh \in [Messages -> 0..MaxCopies]
        /\ task \in [Components -> Task]
        /\ thread[t].pc \in {"parsing", "again"} => thread[t].msg \in Components
        /\ {"announce", "again"} \subseteq Busy
    BY DEF TypeOK, Busy
  <1>1. CASE PrepareMessageForProcessing(t)
    <2>1. MovesTo(t, "ack") \/ MovesTo(t, "begin") \/ thread' = [thread EXCEPT ![t] = ThreadIdle]
      BY <1>1, HandlersMove
    <2> QED  BY <1>1, <2>1, ThreadTypes, IdledThread DEF PrepareMessageForProcessing, TypeOK
  <1>2. CASE SkipComponent(t)
    BY <1>2, HandlersMove, ThreadTypes DEF SkipComponent, TypeOK
  <1>3. CASE StartComponent(t)
    <2> DEFINE c == thread[t].msg
               rows == IF task[c].status = "NONE" THEN Upserted(thread[t].changed) ELSE task
               started == [status |-> "RUNNING", started |-> TRUE, attempt |-> More(rows[c].attempt)]
    <2>1. c \in Components
      BY <1>3, BusyThread DEF StartComponent, Messages
    <2>2. rows \in [Components -> Task]
      BY <1>0, UpsertedRows
    <2>3. started \in Task
      <3>1. rows[c].attempt \in 0..MaxAttempts
        BY <2>1, <2>2 DEF Task
      <3>2. More(rows[c].attempt) \in 0..MaxAttempts
        BY <3>1, MoreType, MaxAttemptsAssumption
      <3> QED  BY <3>2 DEF Task, Undecided
    <2>4. task' = [rows EXCEPT ![c] = started]
      BY <1>3 DEF StartComponent
    <2>5. task' \in [Components -> Task]
      <3> HIDE DEF rows, started
      <3> QED  BY <2>2, <2>3, <2>4
    <2>6. starts' \in [Components -> 0..MaxAttempts]
      <3>1. starts[c] \in 0..MaxAttempts
        BY <2>1 DEF TypeOK
      <3>2. More(starts[c]) \in 0..MaxAttempts
        BY <3>1, MoreType, MaxAttemptsAssumption
      <3>3. starts' = [starts EXCEPT ![c] = More(starts[c])]
        BY <1>3 DEF StartComponent
      <3> QED  BY <3>2, <3>3 DEF TypeOK
    <2>7. MovesTo(t, "parsing")
      BY <1>3, HandlersMove
    <2> QED  BY <1>3, <2>1, <2>5, <2>6, <2>7, ThreadTypes DEF StartComponent, TypeOK
  <1>4. CASE ComponentDecided(t)
    <2>1. PICK status \in {"SUCCEEDED", "UNRESOLVED"} : Leaves(t, status, "announce")
      BY <1>4 DEF ComponentDecided
    <2> QED  BY <1>0, <1>4, <2>1, LeavesTypes DEF ComponentDecided, Decided
  <1>5. CASE ComponentFails(t)
    BY <1>0, <1>5, LeavesTypes DEF ComponentFails, Decided
  <1>6. CASE ComponentRetries(t)
    BY <1>0, <1>6, LeavesTypes DEF ComponentRetries, Undecided
  <1>7. CASE ComponentRateLimited(t)
    <2> DEFINE c == thread[t].msg
    <2>1. c \in Components
      BY <1>0, <1>7 DEF ComponentRateLimited
    <2>2. task' \in [Components -> Task]
      <3>1. PICK attempt \in Fewer(task[c].attempt) :
              task' = [task EXCEPT ![c].status = "PENDING", ![c].attempt = attempt]
        BY <1>7 DEF ComponentRateLimited
      <3>2. task[c].attempt \in 0..MaxAttempts
        BY <1>0, <2>1 DEF Task
      <3>3. attempt \in 0..MaxAttempts
        BY <3>2, FewerType
      <3> QED  BY <1>0, <2>1, <3>1, <3>3, ChangedTask DEF Undecided
    <2>3. retry' \in Messages
      BY <1>7, <2>1 DEF ComponentRateLimited, Messages
    <2>4. MovesTo(t, "ack")
      BY <1>7, HandlersMove
    <2> QED  BY <1>7, <2>2, <2>3, <2>4, ThreadTypes DEF ComponentRateLimited, TypeOK
  <1>8. CASE EnqueueNext(t)
    <2>1. fresh' \in [Messages -> 0..MaxCopies]
      BY <1>0, <1>8, EnqueuedEntries DEF EnqueueNext
    <2> QED  BY <1>8, <2>1, HandlersMove, ThreadTypes DEF EnqueueNext, TypeOK
  <1>9. CASE ReduceWaits(t)
    <2>1. fresh' \in [Messages -> 0..MaxCopies]
      BY <1>0, <1>9, EnqueuedEntries DEF ReduceWaits
    <2>2. job' \in Job
      <3>1. \/ job' = [job EXCEPT !.due = TRUE, !.stage = "FANOUT"]
            \/ job' = [job EXCEPT !.stage = "FANOUT"]
        BY <1>9 DEF ReduceWaits
      <3> QED  BY <1>0, <3>1, JobRows, JobRow
    <2>3. retry' \in {NoMessage} \cup Messages
      BY <1>9 DEF ReduceWaits, Messages, TypeOK
    <2> QED  BY <1>9, <2>1, <2>2, <2>3, HandlersMove, ThreadTypes DEF ReduceWaits, TypeOK
  <1>10. CASE ReduceReads(t)
    BY <1>10, HandlersMove, ThreadTypes DEF ReduceReads, TypeOK
  <1>11. CASE ReduceCommits(t)
    <2>1. job' \in Job
      BY <1>0, <1>11, JobRows, JobRow DEF ReduceCommits
    <2>2. result' \in Result
      <3>1. thread[t].changed \in SUBSET Components
        BY <1>11, BusyThread DEF ReduceCommits
      <3> QED  BY <1>11, <3>1 DEF ReduceCommits, Result, TypeOK
    <2> QED  BY <1>11, <2>1, <2>2, HandlersMove, ThreadTypes DEF ReduceCommits, TypeOK
  <1>12. ASSUME thread' = [thread EXCEPT ![t] = ThreadIdle]
         PROVE  /\ thread' \in [Threads -> {ThreadIdle} \cup Work]
                /\ \A u \in Threads : thread'[u].pc \in {"parsing", "again"}
                                      => thread'[u].msg \in Components
    BY <1>12, IdledThread
  <1>13. CASE RateLimitRolledBack(t)
    <2>1. retry' \in Messages
      BY <1>0, <1>13 DEF RateLimitRolledBack, Messages
    <2>2. thread' = [thread EXCEPT ![t] = ThreadIdle]
      BY <1>13 DEF RateLimitRolledBack
    <2> QED  BY <1>12, <1>13, <2>1, <2>2 DEF RateLimitRolledBack, Fault, TypeOK
  <1>14. CASE ReduceRolledBack(t)
    <2>1. fresh' \in [Messages -> 0..MaxCopies]
      BY <1>0, <1>14, EnqueuedEntries DEF ReduceRolledBack
    <2>2. retry' \in {NoMessage} \cup Messages
      BY <1>14 DEF ReduceRolledBack, Messages, TypeOK
    <2>3. thread' = [thread EXCEPT ![t] = ThreadIdle]
      BY <1>14 DEF ReduceRolledBack
    <2> QED  BY <1>12, <1>14, <2>1, <2>2, <2>3 DEF ReduceRolledBack, Fault, TypeOK
  <1>15. CASE ThreadFails(t)
    <2>1. thread' = [thread EXCEPT ![t] = ThreadIdle]
      BY <1>15 DEF ThreadFails
    <2> QED  BY <1>12, <1>15, <2>1 DEF ThreadFails, Fault, TypeOK
  <1> QED  BY <1>1, <1>2, <1>3, <1>4, <1>5, <1>6, <1>7, <1>8, <1>9, <1>10, <1>11, <1>13, <1>14,
              <1>15 DEF Handles

LEMMA InitTypes == Init => TypeOK
  <1> SUFFICES ASSUME Init PROVE TypeOK
    OBVIOUS
  <1>1. 0 \in 0..MaxAttempts /\ 0 \in 0..MaxJobAttempts /\ 0 \in 0..MaxCopies
    BY MaxAttemptsAssumption, MaxJobAttemptsAssumption, MaxCopiesAssumption
  <1>2. job \in Job
    BY <1>1 DEF Init, Job
  <1>3. fetch \in Fetch /\ result \in Result
    BY DEF Init, Fetch, NoFetch, Result, NoResult
  <1>4. task \in [Components -> Task]
    BY NoTaskType DEF Init
  <1>5. \A t \in Threads : thread[t].pc = "idle"
    BY DEF Init, ThreadIdle
  <1> QED  BY <1>1, <1>2, <1>3, <1>4, <1>5 DEF Init, TypeOK

LEMMA TypeStep == TypeOK /\ [Next]_vars => TypeOK'
  <1> SUFFICES ASSUME TypeOK, [Next]_vars PROVE TypeOK'
    OBVIOUS
  <1>1. CASE UNCHANGED vars
    BY <1>1 DEF vars, redisVs, history, TypeOK
  <1> QED  BY <1>1, IngestTypes, DeliveryTypes, HandlerTypes DEF Next

\* Rows, messages and program counters keep the shape the code gives them.
THEOREM TypeCorrect == Spec => []TypeOK
  BY InitTypes, TypeStep, PTL DEF Spec

-----------------------------------------------------------------------------
(* A component is given up only after MaxAttempts starts.                  *)

\* No counter is ahead of the history: not the one of the row, not the one a
\* thread took from it when it started the component.
AttemptsCounted ==
  /\ \A c \in Components : task[c].attempt <= starts[c]
  /\ \A t \in Threads : thread[t].pc = "parsing" => thread[t].attempt <= starts[thread[t].msg]
  /\ GivenUpAfterAttempts

\* Most steps start nothing and give nothing up.
LEMMA NothingStarted ==
  ASSUME AttemptsCounted, UNCHANGED starts,
         \A c \in Components : \/ task'[c] = task[c]
                               \/ task'[c].attempt <= starts[c] /\ task'[c].status # "FAILED",
         \A t \in Threads : thread'[t].pc = "parsing" => thread'[t] = thread[t]
  PROVE  AttemptsCounted'
  BY DEF AttemptsCounted, GivenUpAfterAttempts

LEMMA UpsertCounts ==
  ASSUME TypeOK, AttemptsCounted, NEW changed, NEW c \in Components
  PROVE  \/ Upserted(changed)[c] = task[c]
         \/ /\ Upserted(changed)[c].attempt <= starts[c]
            /\ Upserted(changed)[c].status # "FAILED"
            /\ Upserted(changed)[c].attempt = 0
  <1>1. task \in [Components -> Task] /\ starts[c] \in 0..MaxAttempts
    BY DEF TypeOK
  <1>2. [NoTask EXCEPT !.status = "PENDING"].attempt = 0
        /\ [NoTask EXCEPT !.status = "PENDING"].status = "PENDING"
    BY DEF NoTask
  <1>3. 0 <= starts[c]
    BY <1>1, MaxAttemptsAssumption
  <1> DEFINE new == [NoTask EXCEPT !.status = "PENDING"]
  <1>4. Upserted(changed)[c] = task[c] \/ Upserted(changed)[c] = new
    BY <1>1, UpsertedRows
  <1>5. new.attempt = 0 /\ new.status = "PENDING"
    BY <1>2
  <1> HIDE DEF new
  <1> QED  BY <1>3, <1>4, <1>5

LEMMA AttemptsKept == TypeOK /\ AttemptsCounted /\ [Next]_vars => AttemptsCounted'
  <1> SUFFICES ASSUME TypeOK, AttemptsCounted, [Next]_vars PROVE AttemptsCounted'
    OBVIOUS
  <1> USE DEF redisVs, history
  <1>0. /\ task \in [Components -> Task] /\ starts \in [Components -> 0..MaxAttempts]
        /\ thread \in [Threads -> {ThreadIdle} \cup Work]
        /\ ThreadIdle.pc = "idle"
    BY DEF TypeOK, ThreadIdle
  <1>1. CASE UNCHANGED vars
    BY <1>1, NothingStarted DEF vars
  <1>2. CASE UNCHANGED <<task, thread, starts>>
    BY <1>2, NothingStarted
  <1>3. ASSUME UNCHANGED <<thread, starts>>, task' = Upserted(job.changed)
        PROVE  AttemptsCounted'
    BY <1>3, NothingStarted, UpsertCounts
  <1>4. ASSUME NEW t \in Threads, UNCHANGED <<task, starts>>,
               thread' = [thread EXCEPT ![t] = ThreadIdle]
        PROVE  AttemptsCounted'
    <2>1. \A u \in Threads : thread'[u].pc = "parsing" => thread'[u] = thread[u]
      BY <1>0, <1>4
    <2> QED  BY <1>4, <2>1, NothingStarted
  <1>5. ASSUME NEW t \in Threads, NEW m \in Messages, NEW i \in EntryIds, Takes(t, m, i),
               UNCHANGED <<task, starts>>
        PROVE  AttemptsCounted'
    <2>1. \A u \in Threads : thread'[u].pc = "parsing" => thread'[u] = thread[u]
      BY <1>0, <1>5 DEF Takes
    <2> QED  BY <1>5, <2>1, NothingStarted
  <1>6. ASSUME NEW t \in Threads, NEW pc, MovesTo(t, pc), pc # "parsing",
               UNCHANGED <<task, starts>>
        PROVE  AttemptsCounted'
    <2>1. \A u \in Threads : thread'[u].pc = "parsing" => thread'[u] = thread[u]
      BY <1>6 DEF MovesTo
    <2> QED  BY <1>6, <2>1, NothingStarted
  <1>7. CASE Crash
    <2>1. \A u \in Threads : thread'[u].pc # "parsing"
      BY <1>0, <1>7 DEF Crash
    <2> QED  BY <1>7, <2>1, NothingStarted DEF Crash, Fault
  <1>8. ASSUME NEW t \in Threads, StartComponent(t)
        PROVE  AttemptsCounted'
    <2> DEFINE c == thread[t].msg
               rows == IF task[c].status = "NONE" THEN Upserted(thread[t].changed) ELSE task
               n == More(rows[c].attempt)
    <2>1. c \in Components
      BY <1>8, BusyThread DEF StartComponent, Messages
    <2>2. rows \in [Components -> Task]
      BY <1>0, UpsertedRows
    <2>3. \A d \in Components : /\ rows[d].attempt <= starts[d]
                                /\ rows[d].status = "FAILED" => starts[d] = MaxAttempts
      BY UpsertCounts DEF AttemptsCounted, GivenUpAfterAttempts
    <2>4. rows[c].attempt \in 0..MaxAttempts /\ starts[c] \in 0..MaxAttempts
      BY <1>0, <2>1, <2>2 DEF Task
    <2>5. n <= More(starts[c])
      BY <2>1, <2>3, <2>4, MoreMonotone
    <2>6. starts' = [starts EXCEPT ![c] = More(starts[c])]
      BY <1>8 DEF StartComponent
    <2>7. \A d \in Components : starts'[d] >= starts[d] /\ starts'[d] \in 0..MaxAttempts
                                /\ starts[d] \in 0..MaxAttempts
      <3> TAKE d \in Components
      <3>1. starts[d] \in 0..MaxAttempts
        BY <1>0
      <3>2. CASE d = c
        BY <1>0, <2>4, <2>6, <3>2, MoreType, MaxAttemptsAssumption
      <3>3. CASE d # c
        BY <1>0, <2>6, <3>1, <3>3, MaxAttemptsAssumption
      <3> QED  BY <3>2, <3>3
    <2>8. task' = [rows EXCEPT ![c] = [status |-> "RUNNING", started |-> TRUE, attempt |-> n]]
      BY <1>8 DEF StartComponent
    <2>9. \A d \in Components : /\ task'[d].attempt <= starts'[d]
                                /\ task'[d].status = "FAILED" => starts'[d] = MaxAttempts
      <3> TAKE d \in Components
      <3>1. CASE d = c
        <4>1. task'[d].attempt = n /\ task'[d].status = "RUNNING" /\ starts'[d] = More(starts[c])
          <5> HIDE DEF rows, n
          <5> QED  BY <1>0, <2>1, <2>2, <2>6, <2>8, <3>1
        <4> QED  BY <2>5, <4>1
      <3>2. CASE d # c
        <4>1. task'[d] = rows[d] /\ starts'[d] = starts[d]
          <5> HIDE DEF rows, n
          <5> QED  BY <1>0, <2>1, <2>2, <2>6, <2>8, <3>2
        <4> QED  BY <2>3, <4>1
      <3> QED  BY <3>1, <3>2
    <2>10. thread'[t].pc = "parsing" /\ thread'[t].msg = c /\ thread'[t].attempt = n
      <3>1. thread' = [thread EXCEPT ![t].pc = "parsing", ![t].changed = {}, ![t].attempt = n]
        BY <1>8 DEF StartComponent
      <3>2. thread[t] \in Work
        BY <1>8, BusyThread DEF StartComponent
      <3> HIDE DEF rows, n
      <3> QED  BY <1>0, <3>1, <3>2 DEF Work
    <2>11. \A u \in Threads : u # t => thread'[u] = thread[u]
      BY <1>8, HandlersMove DEF MovesTo
    <2>12. \A u \in Threads : thread'[u].pc = "parsing"
                              => thread'[u].attempt <= starts'[thread'[u].msg]
      <3> SUFFICES ASSUME NEW u \in Threads, thread'[u].pc = "parsing"
                   PROVE  thread'[u].attempt <= starts'[thread'[u].msg]
        OBVIOUS
      <3>1. CASE u = t
        <4>1. starts'[c] = More(starts[c])
          BY <1>0, <2>1, <2>6
        <4> QED  BY <2>5, <2>10, <3>1, <4>1
      <3>2. CASE u # t
        <4>1. thread'[u] = thread[u] /\ thread[u].msg \in Components
          BY <2>11, <3>2 DEF TypeOK
        <4>2. thread[u].attempt <= starts[thread[u].msg]
          BY <4>1 DEF AttemptsCounted
        <4>3. thread[u].attempt \in 0..MaxAttempts
          BY <4>1, BusyThread
        <4> QED  BY <2>7, <4>1, <4>2, <4>3, MaxAttemptsAssumption
      <3> QED  BY <3>1, <3>2
    <2> QED  BY <2>9, <2>12 DEF AttemptsCounted, GivenUpAfterAttempts
  <1>9. ASSUME NEW t \in Threads, NEW status \in Undecided \cup Decided, NEW pc,
               Leaves(t, status, pc), MovesTo(t, pc), pc # "parsing", UNCHANGED starts,
               status = "FAILED" => thread[t].attempt = MaxAttempts
        PROVE  AttemptsCounted'
    <2> DEFINE c == thread[t].msg
    <2>1. c \in Components /\ thread[t].pc = "parsing"
      BY <1>9 DEF Leaves, TypeOK
    <2>2. starts[c] \in 0..MaxAttempts /\ thread[t].attempt <= starts[c]
      BY <1>0, <2>1 DEF AttemptsCounted
    <2>3. task' = [task EXCEPT ![c].status = status]
      BY <1>9 DEF Leaves
    <2>4. \A d \in Components : /\ task'[d].attempt = task[d].attempt
                                /\ d # c => task'[d] = task[d]
                                /\ task'[c].status = status
      BY <1>0, <2>1, <2>3 DEF Task
    <2>5. status = "FAILED" => starts[c] = MaxAttempts
      BY <1>9, <2>2, MaxAttemptsAssumption
    <2>6. \A u \in Threads : thread'[u].pc = "parsing" => thread'[u] = thread[u]
      BY <1>9 DEF MovesTo
    <2> QED  BY <1>9, <2>4, <2>5, <2>6 DEF AttemptsCounted, GivenUpAfterAttempts
  <1>10. ASSUME NEW t \in Threads, ComponentRateLimited(t)
         PROVE  AttemptsCounted'
    <2> DEFINE c == thread[t].msg
    <2>1. c \in Components
      BY <1>10 DEF ComponentRateLimited, TypeOK
    <2>2. PICK n \in Fewer(task[c].attempt) :
            task' = [task EXCEPT ![c].status = "PENDING", ![c].attempt = n]
      BY <1>10 DEF ComponentRateLimited
    <2>3. task[c].attempt \in 0..MaxAttempts /\ starts[c] \in 0..MaxAttempts
          /\ task[c].attempt <= starts[c]
      BY <1>0, <2>1 DEF Task, AttemptsCounted
    <2>4. n \in 0..MaxAttempts /\ n <= starts[c]
      BY <2>3, FewerType, MaxAttemptsAssumption
    <2>5. \A d \in Components : /\ d # c => task'[d] = task[d]
                                /\ task'[c].status = "PENDING" /\ task'[c].attempt = n
      BY <1>0, <2>1, <2>2 DEF Task
    <2>6. \A u \in Threads : thread'[u].pc = "parsing" => thread'[u] = thread[u]
      BY <1>10, HandlersMove DEF MovesTo
    <2>7. UNCHANGED starts
      BY <1>10 DEF ComponentRateLimited
    <2> QED  BY <2>4, <2>5, <2>6, <2>7, NothingStarted
  <1>11. CASE IngestProgress \/ RequeueStaleClaimedJob \/ MoveDueRetry
    <2>1. UNCHANGED <<task, thread, starts>>
          \/ (UNCHANGED <<thread, starts>> /\ task' = Upserted(job.changed))
      BY <1>11 DEF IngestProgress, RequeueStaleClaimedJob, MoveDueRetry, ClaimJob,
                   MarkLlmEnqueuePending, FetchFails, DispatchLlmEnqueue
    <2> QED  BY <1>2, <1>3, <2>1
  <1>12. ASSUME NEW sent \in SUBSET Messages, DispatchFails(sent) \/ DispatchRolledBack(sent)
         PROVE  AttemptsCounted'
    BY <1>2, <1>3, <1>12 DEF DispatchFails, DispatchRolledBack, Fault
  <1>13. ASSUME NEW t \in Threads, NEW m \in Messages, ConsumeFresh(t, m)
         PROVE  AttemptsCounted'
    <2>1. (CHOOSE i \in FreeIds : TRUE) \in FreeIds
      BY <1>13 DEF ConsumeFresh
    <2>2. PICK i \in EntryIds : Takes(t, m, i)
      BY <1>13, <2>1 DEF ConsumeFresh, FreeIds
    <2> QED  BY <1>5, <1>13, <2>2 DEF ConsumeFresh
  <1>14. ASSUME NEW t \in Threads, NEW i \in EntryIds, ClaimIdle(t, i)
         PROVE  AttemptsCounted'
    <2>1. pending[i] \in Messages
      BY <1>14 DEF ClaimIdle, TypeOK
    <2> QED  BY <1>5, <1>14, <2>1 DEF ClaimIdle
  <1>15. ASSUME NEW t \in Threads, Handles(t)
         PROVE  AttemptsCounted'
    <2>1. CASE PrepareMessageForProcessing(t)
      <3>1. MovesTo(t, "ack") \/ MovesTo(t, "begin")
            \/ thread' = [thread EXCEPT ![t] = ThreadIdle]
        BY <2>1, HandlersMove
      <3> QED  BY <1>4, <1>6, <2>1, <3>1 DEF PrepareMessageForProcessing
    <2>2. CASE SkipComponent(t)
      BY <1>6, <2>2, HandlersMove DEF SkipComponent
    <2>3. CASE ComponentDecided(t)
      <3>1. PICK status \in {"SUCCEEDED", "UNRESOLVED"} : Leaves(t, status, "announce")
        BY <2>3 DEF ComponentDecided
      <3> QED  BY <1>9, <2>3, <3>1, HandlersMove DEF ComponentDecided, Decided
    <2>4. CASE ComponentFails(t)
      BY <1>9, <2>4, HandlersMove DEF ComponentFails, Decided
    <2>5. CASE ComponentRetries(t)
      BY <1>9, <2>5, HandlersMove DEF ComponentRetries, Undecided
    <2>6. CASE EnqueueNext(t)
      BY <1>6, <2>6, HandlersMove DEF EnqueueNext
    <2>7. CASE ReduceWaits(t)
      BY <1>6, <2>7, HandlersMove DEF ReduceWaits
    <2>8. CASE ReduceReads(t)
      BY <1>6, <2>8, HandlersMove DEF ReduceReads
    <2>9. CASE ReduceCommits(t)
      BY <1>6, <2>9, HandlersMove DEF ReduceCommits
    <2>10. CASE AckParseTask(t)
      BY <1>4, <2>10 DEF AckParseTask
    <2> QED  BY <1>8, <1>10, <1>15, <2>1, <2>2, <2>3, <2>4, <2>5, <2>6, <2>7, <2>8, <2>9, <2>10
             DEF Handles
  <1>16. ASSUME NEW t \in Threads,
                RateLimitRolledBack(t) \/ ReduceRolledBack(t) \/ ThreadFails(t)
         PROVE  AttemptsCounted'
    BY <1>4, <1>16 DEF RateLimitRolledBack, ReduceRolledBack, ThreadFails, Fault
  <1> QED  BY <1>1, <1>7, <1>11, <1>12, <1>13, <1>14, <1>15, <1>16 DEF Next

LEMMA InitAttempts == Init => AttemptsCounted
  BY DEF Init, AttemptsCounted, GivenUpAfterAttempts, NoTask, ThreadIdle

\* A component is FAILED only after MaxAttempts starts, however many threads
\* took it over, gave a start back to the rate limiter or reported late.
THEOREM GivenUpLast == Spec => []GivenUpAfterAttempts
  <1>1. TypeOK /\ AttemptsCounted /\ [Next]_vars => (TypeOK /\ AttemptsCounted)'
    BY TypeStep, AttemptsKept
  <1>2. AttemptsCounted => GivenUpAfterAttempts
    BY DEF AttemptsCounted
  <1> QED  BY InitTypes, InitAttempts, <1>1, <1>2, PTL DEF Spec

-----------------------------------------------------------------------------
(* A component the reduce step waits for has a trace.                      *)

\* A thread holds the message of its entry, unless somebody acknowledged it.
EntriesHeld ==
  \A t \in Threads : thread[t].pc # "idle" => pending[thread[t].id] \in {NoMessage, thread[t].msg}

\* Somebody is bound to start the component again: an entry nobody is through
\* with, or the thread that is about to report.
Live(c) ==
  \/ fresh[c] > 0
  \/ \E t \in Threads : thread[t].msg = c /\ thread[t].pc \in {"parsing", "again"}
  \/ \E i \in EntryIds : /\ pending[i] = c
                         /\ \A t \in Threads : thread[t].id = i
                                               => thread[t].pc \notin {"announce", "ack"}

Untroubled == faults = 0 /\ rejections = 0

\* A message is only sent for a component that has a row.
MessagesKnown ==
  \A c \in Components : \/ fresh[c] > 0
                        \/ \E i \in EntryIds : pending[i] = c
                        \/ \E t \in Threads : thread[t].msg = c
                        => task[c].status # "NONE"

\* The retry slot serves the reduce step, a fetch does not outlive its claim,
\* and success is a stored result.
JobAgrees ==
  /\ retry \in {NoMessage, Reduce}
  /\ fetch.on => job.status \in {"CLAIMED", "SUCCEEDED"}
  /\ job.status = "SUCCEEDED" => result.stored

Unfinished == ~result.stored /\ job.status # "DEAD_LETTER"

\* As long as the result is open every component is looked after.
ComponentsCared ==
  Unfinished => \A c \in Components :
     /\ task[c].status = "RUNNING"
        => \E t \in Threads : thread[t].msg = c /\ thread[t].pc = "parsing"
     /\ task[c].status = "PENDING" => Live(c)


\* The parts of it that a step of an untroubled run has to keep.
Cared == MessagesKnown /\ JobAgrees /\ ComponentsCared
TraceInv == EntriesHeld /\ (Untroubled => Cared)

LEMMA NamesDiffer == Reduce \notin Components /\ NoMessage \notin Messages /\ NoId \notin EntryIds
  BY ComponentsAssumption, EntryIdsAssumption DEF Messages, Reduce, NoMessage

LEMMA ThreadIdleFields ==
  ThreadIdle.pc = "idle" /\ ThreadIdle.msg = NoMessage /\ ThreadIdle.id = NoId
  BY DEF ThreadIdle

\* An entry that is consumed gets an id nobody uses.
LEMMA Consumed ==
  ASSUME TypeOK, NEW t \in Threads, NEW m \in Messages, ConsumeFresh(t, m)
  PROVE  \E i \in FreeIds : /\ pending' = [pending EXCEPT ![i] = m]
                            /\ Takes(t, m, i)
                            /\ fresh' = [fresh EXCEPT ![m] = @ - 1]
                            /\ fresh[m] > 0
  <1>1. (CHOOSE i \in FreeIds : TRUE) \in FreeIds
    BY DEF ConsumeFresh
  <1> QED  BY <1>1 DEF ConsumeFresh

\* What taking an entry does to the threads.
LEMMA TakesThread ==
  ASSUME TypeOK, NEW t \in Threads, NEW m \in Messages, NEW i \in EntryIds, Takes(t, m, i)
  PROVE  /\ thread[t] = ThreadIdle
         /\ thread'[t].pc = "preflight" /\ thread'[t].msg = m /\ thread'[t].id = i
         /\ \A u \in Threads : u # t => thread'[u] = thread[u]
  BY DEF Takes, TypeOK

LEMMA HeldKept == TypeOK /\ EntriesHeld /\ [Next]_vars => EntriesHeld'
  <1> SUFFICES ASSUME TypeOK, EntriesHeld, [Next]_vars PROVE EntriesHeld'
    OBVIOUS
  <1> USE DEF redisVs, history
  <1>0. thread \in [Threads -> {ThreadIdle} \cup Work]
        /\ pending \in [EntryIds -> {NoMessage} \cup Messages]
    BY DEF TypeOK
  <1>1. CASE UNCHANGED <<thread, pending>>
    BY <1>1 DEF EntriesHeld
  <1>2. ASSUME NEW t \in Threads, UNCHANGED pending, thread' = [thread EXCEPT ![t] = ThreadIdle]
        PROVE  EntriesHeld'
    BY <1>0, <1>2, ThreadIdleFields DEF EntriesHeld
  <1>3. ASSUME NEW t \in Threads, NEW pc, MovesTo(t, pc), UNCHANGED pending
        PROVE  EntriesHeld'
    BY <1>3 DEF EntriesHeld, MovesTo
  <1>4. CASE Crash
    BY <1>4, ThreadIdleFields DEF Crash, EntriesHeld
  <1>5. ASSUME NEW t \in Threads, NEW m \in Messages, ConsumeFresh(t, m)
        PROVE  EntriesHeld'
    <2>1. PICK i \in FreeIds : pending' = [pending EXCEPT ![i] = m] /\ Takes(t, m, i)
      BY <1>5, Consumed
    <2>2. i \in EntryIds /\ \A u \in Threads : thread[u].id # i
      BY <2>1 DEF FreeIds
    <2>3. pending'[i] = m /\ \A k \in EntryIds : k # i => pending'[k] = pending[k]
      BY <1>0, <2>1, <2>2
    <2>4. \A u \in Threads : thread[u].pc # "idle" => thread[u].id \in EntryIds
      BY BusyThread
    <2> QED  BY <2>1, <2>2, <2>3, <2>4, TakesThread DEF EntriesHeld
  <1>6. ASSUME NEW t \in Threads, NEW i \in EntryIds, ClaimIdle(t, i)
        PROVE  EntriesHeld'
    <2>1. pending[i] \in Messages /\ Takes(t, pending[i], i) /\ UNCHANGED pending
      BY <1>0, <1>6 DEF ClaimIdle
    <2> QED  BY <2>1, TakesThread DEF EntriesHeld
  <1>7. ASSUME NEW t \in Threads, AckParseTask(t)
        PROVE  EntriesHeld'
    <2>1. \A i \in EntryIds : pending'[i] \in {pending[i], NoMessage}
      BY <1>0, <1>7 DEF AckParseTask
    <2>2. \A u \in Threads : thread'[u] \in {thread[u], ThreadIdle}
      BY <1>0, <1>7 DEF AckParseTask
    <2>3. \A u \in Threads : thread[u].pc # "idle" => thread[u].id \in EntryIds
      BY BusyThread
    <2> QED  BY <2>1, <2>2, <2>3, ThreadIdleFields DEF EntriesHeld
  <1>8. CASE \/ IngestProgress \/ RequeueStaleClaimedJob \/ MoveDueRetry
             \/ \E sent \in SUBSET Messages : DispatchFails(sent) \/ DispatchRolledBack(sent)
    <2>1. UNCHANGED <<thread, pending>>
      BY <1>8 DEF IngestProgress, RequeueStaleClaimedJob, MoveDueRetry, ClaimJob,
                  MarkLlmEnqueuePending, FetchFails, DispatchLlmEnqueue, DispatchFails,
                  DispatchRolledBack
    <2> QED  BY <1>1, <2>1
  <1>9. ASSUME NEW t \in Threads, Handles(t), ~AckParseTask(t)
        PROVE  EntriesHeld'
    <2>1. UNCHANGED pending
      BY <1>9 DEF Handles, PrepareMessageForProcessing, SkipComponent, StartComponent,
                  ComponentDecided, ComponentFails, ComponentRetries, ComponentRateLimited,
                  EnqueueNext, ReduceWaits, ReduceReads, ReduceCommits
    <2>2. \/ MovesTo(t, "ack") \/ MovesTo(t, "begin") \/ MovesTo(t, "parsing")
          \/ MovesTo(t, "announce") \/ MovesTo(t, "again") \/ MovesTo(t, "reducing")
          \/ thread' = [thread EXCEPT ![t] = ThreadIdle]
      BY <1>9, HandlersMove DEF Handles
    <2> QED  BY <1>2, <1>3, <2>1, <2>2
  <1>10. ASSUME NEW t \in Threads,
                RateLimitRolledBack(t) \/ ReduceRolledBack(t) \/ ThreadFails(t)
         PROVE  EntriesHeld'
    BY <1>2, <1>10 DEF RateLimitRolledBack, ReduceRolledBack, ThreadFails
  <1>11. CASE UNCHANGED vars
    BY <1>1, <1>11 DEF vars
  <1> QED  BY <1>4, <1>5, <1>6, <1>7, <1>8, <1>9, <1>10, <1>11 DEF Next

\* No row disappears, and a new message belongs to a row.
LEMMA KnownKept ==
  ASSUME MessagesKnown,
         \A c \in Components : task[c].status # "NONE" => task'[c].status # "NONE",
         \A c \in Components : fresh'[c] > 0 => fresh[c] > 0 \/ task'[c].status # "NONE",
         \A c \in Components, i \in EntryIds : pending'[i] = c => pending[i] = c \/ fresh[c] > 0,
         \A c \in Components, t \in Threads :
            thread'[t].msg = c => \/ thread[t].msg = c
                                  \/ fresh[c] > 0
                                  \/ \E i \in EntryIds : pending[i] = c
  PROVE  MessagesKnown'
  BY DEF MessagesKnown

\* A step of a handler leaves a component live unless the thread is through with
\* an entry of it and nothing follows.
LEMMA LiveKept ==
  ASSUME TypeOK, EntriesHeld, NEW t \in Threads, NEW pc, MovesTo(t, pc), UNCHANGED pending,
         NEW c \in Components, Live(c), fresh'[c] >= fresh[c], fresh'[c] \in Nat, fresh[c] \in Nat,
         thread[t].msg = c => \/ fresh'[c] > 0
                              \/ pc \in {"parsing", "again"}
                              \/ thread[t].pc = "announce"
                              \/ /\ pc \notin {"announce", "ack"}
                                 /\ thread[t].pc \notin {"parsing", "again"}
  PROVE  Live(c)'
  <1>1. CASE fresh[c] > 0
    BY <1>1 DEF Live
  <1>2. ASSUME NEW u \in Threads, thread[u].msg = c, thread[u].pc \in {"parsing", "again"}
        PROVE  Live(c)'
    BY <1>2 DEF Live, MovesTo
  <1>3. ASSUME NEW i \in EntryIds, pending[i] = c,
               \A u \in Threads : thread[u].id = i => thread[u].pc \notin {"announce", "ack"}
        PROVE  Live(c)'
    <2>1. CASE thread[t].id # i
      BY <1>3, <2>1 DEF Live, MovesTo
    <2>2. CASE thread[t].id = i
      <3>1. thread[t].msg = c
        BY <1>3, <2>2, NamesDiffer DEF EntriesHeld, MovesTo, Messages
      <3>2. thread[t].pc \notin {"announce", "ack"}
        BY <1>3, <2>2
      <3> QED  BY <1>3, <2>2, <3>1, <3>2 DEF Live, MovesTo
    <2> QED  BY <2>1, <2>2
  <1> QED  BY <1>1, <1>2, <1>3 DEF Live

\* So does a thread that takes an entry which is pending already.
LEMMA LiveClaimed ==
  ASSUME TypeOK, NEW t \in Threads, NEW m \in Messages, NEW i \in EntryIds, Takes(t, m, i),
         UNCHANGED <<fresh, pending>>, NEW c \in Components, Live(c)
  PROVE  Live(c)'
  <1>1. thread[t] = ThreadIdle /\ thread'[t].pc = "preflight"
        /\ \A u \in Threads : u # t => thread'[u] = thread[u]
    BY TakesThread
  <1> QED  BY <1>1, ThreadIdleFields DEF Live

LEMMA LiveConsumed ==
  ASSUME TypeOK, NEW t \in Threads, NEW m \in Messages, ConsumeFresh(t, m),
         NEW c \in Components, Live(c)
  PROVE  Live(c)'
  <1>1. PICK i \in FreeIds : /\ pending' = [pending EXCEPT ![i] = m]
                             /\ Takes(t, m, i)
                             /\ fresh' = [fresh EXCEPT ![m] = @ - 1]
    BY Consumed
  <1>2. i \in EntryIds /\ pending[i] = NoMessage /\ \A u \in Threads : thread[u].id # i
    BY <1>1 DEF FreeIds
  <1>3. thread[t] = ThreadIdle /\ thread'[t].pc = "preflight" /\ thread'[t].id = i
        /\ \A u \in Threads : u # t => thread'[u] = thread[u]
    BY <1>1, <1>2, TakesThread
  <1>4. pending'[i] = m /\ \A k \in EntryIds : k # i => pending'[k] = pending[k]
    BY <1>1, <1>2 DEF TypeOK
  <1>5. c \in Messages /\ c # NoMessage
    BY NamesDiffer DEF Messages
  <1>6. CASE c = m
    <2>1. \A u \in Threads : thread'[u].id = i => thread'[u].pc = "preflight"
      BY <1>2, <1>3
    <2> QED  BY <1>2, <1>4, <1>6, <2>1 DEF Live
  <1>7. CASE c # m
    <2>1. fresh'[c] = fresh[c]
      BY <1>1, <1>5, <1>7 DEF TypeOK
    <2>2. \A k \in EntryIds : pending[k] = c => k # i
      BY <1>2, <1>5
    <2> QED  BY <1>3, <1>4, <2>1, <2>2, ThreadIdleFields DEF Live
  <1> QED  BY <1>6, <1>7

\* Nobody counts on an entry a thread is about to acknowledge.
LEMMA LiveAcknowledged ==
  ASSUME TypeOK, NEW t \in Threads, AckParseTask(t), NEW c \in Components, Live(c)
  PROVE  Live(c)'
  <1>1. thread[t].pc = "ack" /\ thread[t].id \in EntryIds
    BY BusyThread DEF AckParseTask
  <1>2. thread'[t] = ThreadIdle /\ \A u \in Threads : u # t => thread'[u] = thread[u]
    BY DEF AckParseTask, TypeOK
  <1>3. \A i \in EntryIds : i # thread[t].id => pending'[i] = pending[i]
    BY DEF AckParseTask, TypeOK
  <1>4. UNCHANGED fresh
    BY DEF AckParseTask
  <1> QED  BY <1>1, <1>2, <1>3, <1>4, ThreadIdleFields, NamesDiffer DEF Live

\* And nobody counts on a thread that gives a message back.
LEMMA LiveIdled ==
  ASSUME TypeOK, NEW t \in Threads, thread' = [thread EXCEPT ![t] = ThreadIdle],
         thread[t].pc = "preflight", UNCHANGED <<fresh, pending>>,
         NEW c \in Components, Live(c)
  PROVE  Live(c)'
  <1>1. thread'[t] = ThreadIdle /\ \A u \in Threads : u # t => thread'[u] = thread[u]
    BY DEF TypeOK
  <1> QED  BY <1>1, ThreadIdleFields, NamesDiffer DEF Live

LEMMA MovedCares ==
  ASSUME TypeOK, EntriesHeld, ComponentsCared, NEW t \in Threads, NEW pc, MovesTo(t, pc),
         thread[t].pc # "parsing", UNCHANGED <<task, pending>>,
         fresh' \in [Messages -> 0..MaxCopies],
         \A c \in Components : fresh'[c] >= fresh[c],
         Unfinished' => Unfinished,
         \A c \in Components :
            Unfinished' /\ task[c].status = "PENDING" /\ thread[t].msg = c
            => \/ fresh'[c] > 0
               \/ thread[t].pc = "announce"
               \/ pc \notin {"announce", "ack"} /\ thread[t].pc # "again"
  PROVE  ComponentsCared'
  <1> SUFFICES ASSUME Unfinished', NEW c \in Components
               PROVE  /\ task[c].status = "RUNNING"
                         => \E u \in Threads : thread'[u].msg = c /\ thread'[u].pc = "parsing"
                      /\ task[c].status = "PENDING" => Live(c)'
    BY DEF ComponentsCared
  <1>1. task[c].status = "RUNNING"
        => \E u \in Threads : thread'[u].msg = c /\ thread'[u].pc = "parsing"
    BY DEF ComponentsCared, MovesTo
  <1>2. ASSUME task[c].status = "PENDING"
        PROVE  Live(c)'
    <2>1. Live(c)
      BY <1>2 DEF ComponentsCared
    <2>2. fresh'[c] \in Nat /\ fresh[c] \in Nat
      BY MaxCopiesAssumption DEF TypeOK, Messages
    <2>3. thread[t].msg = c => \/ fresh'[c] > 0
                               \/ pc \in {"parsing", "again"}
                               \/ thread[t].pc = "announce"
                               \/ /\ pc \notin {"announce", "ack"}
                                  /\ thread[t].pc \notin {"parsing", "again"}
      BY <1>2
    <2> QED  BY <2>1, <2>2, <2>3, LiveKept
  <1> QED  BY <1>1, <1>2

\* The outcome of a parse settles its component or leaves the thread to send it
\* again; it concerns no other component.
LEMMA LeftCares ==
  ASSUME TypeOK, EntriesHeld, ComponentsCared, NEW t \in Threads, NEW status, NEW pc,
         Leaves(t, status, pc), MovesTo(t, pc), UNCHANGED <<job, result, fresh, pending>>,
         \/ status \in Decided
         \/ status = "PENDING" /\ pc = "again"
  PROVE  ComponentsCared'
  <1> DEFINE c == thread[t].msg
  <1>1. c \in Components /\ thread[t].pc = "parsing"
    BY DEF Leaves, TypeOK
  <1>2. task'[c].status = status /\ \A d \in Components : d # c => task'[d] = task[d]
    BY <1>1 DEF Leaves, TypeOK, Task
  <1>3. Unfinished' = Unfinished
    BY DEF Unfinished
  <1> SUFFICES ASSUME Unfinished, NEW d \in Components
               PROVE  /\ task'[d].status = "RUNNING"
                         => \E u \in Threads : thread'[u].msg = d /\ thread'[u].pc = "parsing"
                      /\ task'[d].status = "PENDING" => Live(d)'
    BY <1>3 DEF ComponentsCared
  <1>4. CASE d = c
    <2>1. status = "PENDING" => Live(d)'
      BY <1>4 DEF Live, MovesTo, Decided
    <2> QED  BY <1>2, <1>4, <2>1 DEF Decided
  <1>5. CASE d # c
    <2>1. task'[d] = task[d]
      BY <1>2, <1>5
    <2>2. task[d].status = "RUNNING"
          => \E u \in Threads : thread'[u].msg = d /\ thread'[u].pc = "parsing"
      BY <1>5 DEF ComponentsCared, MovesTo
    <2>3. task[d].status = "PENDING" => Live(d)'
      <3>1. fresh[d] \in Nat /\ fresh'[d] \in Nat /\ fresh'[d] >= fresh[d]
        BY MaxCopiesAssumption DEF TypeOK, Messages
      <3>2. task[d].status = "PENDING" => Live(d)
        BY DEF ComponentsCared
      <3> QED  BY <1>5, <3>1, <3>2, LiveKept
    <2> QED  BY <2>1, <2>2, <2>3
  <1> QED  BY <1>4, <1>5

LEMMA StartCares ==
  ASSUME TypeOK, EntriesHeld, MessagesKnown, ComponentsCared, NEW t \in Threads,
         StartComponent(t)
  PROVE  MessagesKnown' /\ ComponentsCared'
  <1> DEFINE c == thread[t].msg
  <1>1. c \in Components /\ thread[t].pc = "begin" /\ MovesTo(t, "parsing")
    BY BusyThread, HandlersMove DEF StartComponent, Messages
  <1>2. task[c].status # "NONE"
    BY <1>1 DEF MessagesKnown
  <1>3. \E n : task' = [task EXCEPT ![c] = [status |-> "RUNNING", started |-> TRUE,
                                            attempt |-> n]]
    BY <1>2 DEF StartComponent
  <1>4. task'[c].status = "RUNNING" /\ \A d \in Components : d # c => task'[d] = task[d]
    BY <1>1, <1>3 DEF TypeOK
  <1>5. UNCHANGED <<job, result, fresh, pending>>
    BY DEF StartComponent, redisVs
  <1>6. MessagesKnown'
    <2>1. \A d \in Components : task[d].status # "NONE" => task'[d].status # "NONE"
      BY <1>4
    <2>2. \A d \in Components, u \in Threads : thread'[u].msg = d => thread[u].msg = d
      BY <1>1 DEF MovesTo
    <2> QED  BY <1>5, <2>1, <2>2, KnownKept
  <1>7. ComponentsCared'
    <2>1. Unfinished' = Unfinished
      BY <1>5 DEF Unfinished
    <2> SUFFICES ASSUME Unfinished, NEW d \in Components
                 PROVE  /\ task'[d].status = "RUNNING"
                           => \E u \in Threads : thread'[u].msg = d /\ thread'[u].pc = "parsing"
                        /\ task'[d].status = "PENDING" => Live(d)'
      BY <2>1 DEF ComponentsCared
    <2>2. CASE d = c
      BY <1>1, <1>4, <2>2 DEF MovesTo
    <2>3. CASE d # c
      <3>1. task'[d] = task[d]
        BY <1>4, <2>3
      <3>2. task[d].status = "RUNNING"
            => \E u \in Threads : thread'[u].msg = d /\ thread'[u].pc = "parsing"
        BY <1>1 DEF ComponentsCared, MovesTo
      <3>3. fresh[d] \in Nat /\ fresh'[d] \in Nat /\ fresh'[d] >= fresh[d]
        BY <1>5, MaxCopiesAssumption DEF TypeOK, Messages
      <3>4. task[d].status = "PENDING" => Live(d)
        BY DEF ComponentsCared
      <3> QED  BY <1>1, <1>5, <2>3, <3>1, <3>2, <3>3, <3>4, LiveKept
    <2> QED  BY <2>2, <2>3
  <1> QED  BY <1>6, <1>7

\* A dispatch sends a message for every row it makes.
LEMMA DispatchCares ==
  ASSUME TypeOK, MessagesKnown, ComponentsCared, DispatchLlmEnqueue
  PROVE  MessagesKnown' /\ ComponentsCared'
  <1>1. /\ task \in [Components -> Task]
        /\ fresh \in [Messages -> 0..MaxCopies]
        /\ task' = Upserted(job.changed)
        /\ Enqueue(job.changed \cup {Reduce})
        /\ UNCHANGED <<result, pending, thread>>
        /\ job' = [job EXCEPT !.stage = "FANOUT"]
        /\ job \in Job
    BY DEF DispatchLlmEnqueue, TypeOK
  <1>2. /\ \A c \in Components : c \in job.changed => fresh'[c] > 0 /\ task'[c].status # "NONE"
        /\ \A c \in Components : c \notin job.changed => fresh'[c] = fresh[c]
        /\ \A c \in Components : fresh'[c] >= fresh[c] /\ fresh'[c] \in Nat /\ fresh[c] \in Nat
    <2>1. \A c \in Components : c \in Messages /\ c # Reduce
      BY NamesDiffer DEF Messages
    <2> QED  BY <1>1, <2>1, EnqueuedEntries, UpsertedRows, MaxCopiesAssumption
  <1>3. \A c \in Components : task'[c] = task[c]
                              \/ (task[c].status = "NONE" /\ c \in job.changed
                                  /\ task'[c].status = "PENDING")
    <2>1. [NoTask EXCEPT !.status = "PENDING"].status = "PENDING"
      BY DEF NoTask
    <2> DEFINE new == [NoTask EXCEPT !.status = "PENDING"]
    <2>2. \A c \in Components : task'[c] = task[c]
                                \/ (task[c].status = "NONE" /\ c \in job.changed /\ task'[c] = new)
      BY <1>1, UpsertedRows
    <2>3. new.status = "PENDING"
      BY <2>1
    <2> HIDE DEF new
    <2> QED  BY <2>2, <2>3
  <1>4. MessagesKnown'
    <2>1. \A c \in Components : task[c].status # "NONE" => task'[c].status # "NONE"
      BY <1>3
    <2>2. \A c \in Components : fresh'[c] > 0 => fresh[c] > 0 \/ task'[c].status # "NONE"
      BY <1>2
    <2> QED  BY <1>1, <2>1, <2>2, KnownKept
  <1>5. Unfinished' = Unfinished
    BY <1>1 DEF Unfinished, Job
  <1>6. ASSUME NEW c \in Components, Live(c)
        PROVE  Live(c)'
    BY <1>1, <1>2, <1>6 DEF Live
  <1>7. \A c \in Components : fresh'[c] > 0 => Live(c)'
    BY DEF Live
  <1> QED  BY <1>1, <1>2, <1>3, <1>4, <1>5, <1>6, <1>7 DEF ComponentsCared

LEMMA CaredKept ==
  TypeOK /\ EntriesHeld /\ Cared /\ Untroubled' /\ [Next]_vars => Cared'
  <1> SUFFICES ASSUME TypeOK, EntriesHeld, MessagesKnown, JobAgrees, ComponentsCared,
                      Untroubled', [Next]_vars
               PROVE  MessagesKnown' /\ JobAgrees' /\ ComponentsCared'
    BY DEF Cared
  <1> USE DEF redisVs, history
  <1>0. /\ job \in Job
        /\ fresh \in [Messages -> 0..MaxCopies]
        /\ \A c \in Components : c \in Messages /\ c # Reduce /\ c # NoMessage
        /\ \A n \in 0..MaxCopies : n \in Nat
        /\ \A c \in Components : fresh[c] >= fresh[c]
    BY NamesDiffer, MaxCopiesAssumption DEF Messages, TypeOK
  <1>1. ~Fault
    BY DEF Fault, Untroubled, TypeOK
  <1>2. CASE UNCHANGED vars
    BY <1>2 DEF vars, MessagesKnown, JobAgrees, ComponentsCared, Unfinished, Live
  \* The ingest loop.
  <1>3. ASSUME UNCHANGED <<task, result, fresh, pending, thread>>, job.status # "DEAD_LETTER"
        PROVE  MessagesKnown' /\ ComponentsCared'
    <2>1. Unfinished' => Unfinished
      BY <1>3 DEF Unfinished
    <2> QED  BY <1>3, <2>1 DEF MessagesKnown, ComponentsCared, Live
  <1>4. CASE RequeueStaleClaimedJob
    <2>1. MessagesKnown' /\ ComponentsCared'
      BY <1>3, <1>4 DEF RequeueStaleClaimedJob
    <2>2. job'.status \in {"PENDING", "DEAD_LETTER"}
      BY <1>0, <1>4 DEF RequeueStaleClaimedJob, Job
    <2> QED  BY <1>4, <2>1, <2>2 DEF RequeueStaleClaimedJob, JobAgrees
  <1>5. CASE ClaimJob
    <2>1. MessagesKnown' /\ ComponentsCared'
      BY <1>3, <1>5 DEF ClaimJob
    <2>2. job'.status = "CLAIMED"
      BY <1>0, <1>5 DEF ClaimJob, Job
    <2> QED  BY <1>5, <2>1, <2>2 DEF ClaimJob, JobAgrees
  <1>6. ASSUME NEW changed \in SUBSET Components, MarkLlmEnqueuePending(changed)
        PROVE  MessagesKnown' /\ JobAgrees' /\ ComponentsCared'
    <2>1. job.status \in {"CLAIMED", "SUCCEEDED"}
      BY <1>6 DEF MarkLlmEnqueuePending, JobAgrees
    <2>2. MessagesKnown' /\ ComponentsCared'
      BY <1>3, <1>6, <2>1 DEF MarkLlmEnqueuePending
    <2>3. job'.status = job.status
      BY <1>0, <1>6 DEF MarkLlmEnqueuePending, Job
    <2> QED  BY <1>6, <2>2, <2>3 DEF MarkLlmEnqueuePending, JobAgrees, NoFetch
  <1>7. CASE FetchFails
    <2>1. job.status \in {"CLAIMED", "SUCCEEDED"}
      BY <1>7 DEF FetchFails, JobAgrees
    <2>2. MessagesKnown' /\ ComponentsCared'
      BY <1>3, <1>7, <2>1 DEF FetchFails
    <2>3. job'.status \in {"PENDING", "DEAD_LETTER"}
      BY <1>0, <1>7 DEF FetchFails, Job
    <2> QED  BY <1>7, <2>2, <2>3 DEF FetchFails, JobAgrees, NoFetch
  <1>8. CASE DispatchLlmEnqueue
    <2>1. job'.status = job.status
      BY <1>0, <1>8 DEF DispatchLlmEnqueue, Job
    <2> QED  BY <1>8, <2>1, DispatchCares DEF DispatchLlmEnqueue, JobAgrees
  \* Delivery.
  <1>9. CASE MoveDueRetry
    <2>1. retry = Reduce
      BY <1>9 DEF MoveDueRetry, JobAgrees
    <2>2. \A c \in Components : fresh'[c] = fresh[c]
      BY <1>0, <1>9, <2>1, EnqueuedEntries DEF MoveDueRetry
    <2>3. job'.status = job.status
      BY <1>0, <1>9 DEF MoveDueRetry, Job
    <2>4. UNCHANGED <<task, result, pending, thread, fetch>> /\ retry' = NoMessage
      BY <1>9 DEF MoveDueRetry
    <2>5. MessagesKnown'
      BY <2>2, <2>4 DEF MessagesKnown
    <2>6. ComponentsCared'
      BY <2>2, <2>3, <2>4 DEF ComponentsCared, Unfinished, Live
    <2> QED  BY <2>3, <2>4, <2>5, <2>6 DEF JobAgrees
  <1>10. ASSUME UNCHANGED <<job, result, task>>,
                \A c \in Components : Live(c) => Live(c)',
                \A t \in Threads : thread[t].pc = "parsing" => thread'[t] = thread[t]
         PROVE  ComponentsCared'
    BY <1>10 DEF ComponentsCared, Unfinished
  <1>11. ASSUME NEW t \in Threads, NEW m \in Messages, ConsumeFresh(t, m)
         PROVE  MessagesKnown' /\ JobAgrees' /\ ComponentsCared'
    <2>1. PICK i \in FreeIds : /\ pending' = [pending EXCEPT ![i] = m]
                               /\ Takes(t, m, i)
                               /\ fresh' = [fresh EXCEPT ![m] = @ - 1]
                               /\ fresh[m] > 0
      BY <1>11, Consumed
    <2>2. i \in EntryIds
      BY <2>1 DEF FreeIds
    <2>3. UNCHANGED <<job, fetch, task, result, retry>>
      BY <1>11 DEF ConsumeFresh
    <2>4. thread[t] = ThreadIdle /\ thread'[t].msg = m
          /\ \A u \in Threads : u # t => thread'[u] = thread[u]
      BY <2>1, <2>2, TakesThread
    <2>5. \A k \in EntryIds : pending'[k] = pending[k] \/ pending'[k] = m
      BY <2>1, <2>2 DEF TypeOK
    <2>6. \A c \in Components : fresh'[c] > 0 => fresh[c] > 0
      BY <1>0, <2>1
    <2>7. MessagesKnown'
      BY <2>1, <2>3, <2>4, <2>5, <2>6, KnownKept
    <2>8. ComponentsCared'
      BY <1>10, <1>11, <2>3, <2>4, LiveConsumed, ThreadIdleFields
    <2> QED  BY <2>3, <2>7, <2>8 DEF JobAgrees
  <1>12. ASSUME NEW t \in Threads, NEW i \in EntryIds, ClaimIdle(t, i)
         PROVE  MessagesKnown' /\ JobAgrees' /\ ComponentsCared'
    <2>1. pending[i] \in Messages /\ Takes(t, pending[i], i)
          /\ UNCHANGED <<job, fetch, task, result, fresh, pending, retry>>
      BY <1>12 DEF ClaimIdle, TypeOK
    <2>2. thread[t] = ThreadIdle /\ thread'[t].msg = pending[i]
          /\ \A u \in Threads : u # t => thread'[u] = thread[u]
      BY <2>1, TakesThread
    <2>3. MessagesKnown'
      BY <2>1, <2>2, KnownKept
    <2>4. ComponentsCared'
      BY <1>10, <2>1, <2>2, LiveClaimed, ThreadIdleFields
    <2> QED  BY <2>1, <2>3, <2>4 DEF JobAgrees
  <1>13. ASSUME NEW t \in Threads, AckParseTask(t)
         PROVE  MessagesKnown' /\ JobAgrees' /\ ComponentsCared'
    <2>1. UNCHANGED <<job, fetch, task, result, fresh, retry>>
      BY <1>13 DEF AckParseTask
    <2>2. \A u \in Threads : thread'[u] \in {thread[u], ThreadIdle}
                             /\ (thread[u].pc = "parsing" => thread'[u] = thread[u])
      BY <1>13 DEF AckParseTask, TypeOK
    <2>3. \A k \in EntryIds : pending'[k] \in {pending[k], NoMessage}
      BY <1>13 DEF AckParseTask, TypeOK
    <2>4. MessagesKnown'
      BY <1>0, <2>1, <2>2, <2>3, ThreadIdleFields, KnownKept
    <2>5. ComponentsCared'
      BY <1>10, <1>13, <2>1, <2>2, LiveAcknowledged
    <2> QED  BY <2>1, <2>4, <2>5 DEF JobAgrees
  \* The handlers.
  <1>14. ASSUME NEW t \in Threads, NEW pc, MovesTo(t, pc), UNCHANGED pending,
                \A c \in Components : task[c].status # "NONE" => task'[c].status # "NONE",
                \A c \in Components : fresh'[c] > 0 => fresh[c] > 0 \/ task'[c].status # "NONE"
         PROVE  MessagesKnown'
    BY <1>14, KnownKept DEF MovesTo
  <1>15. ASSUME NEW t \in Threads, PrepareMessageForProcessing(t)
         PROVE  MessagesKnown' /\ JobAgrees' /\ ComponentsCared'
    <2>1. thread[t].pc = "preflight"
          /\ UNCHANGED <<job, fetch, task, result, fresh, pending, retry>>
      BY <1>15 DEF PrepareMessageForProcessing
    <2>2. JobAgrees'
      BY <2>1 DEF JobAgrees
    <2>3. CASE thread' = [thread EXCEPT ![t] = ThreadIdle]
      <3>1. \A u \in Threads : thread'[u] \in {thread[u], ThreadIdle}
                               /\ (thread[u].pc = "parsing" => thread'[u] = thread[u])
        BY <2>1, <2>3 DEF TypeOK
      <3>2. MessagesKnown'
        BY <1>0, <2>1, <3>1, ThreadIdleFields, KnownKept
      <3>3. ComponentsCared'
        BY <1>10, <2>1, <2>3, <3>1, LiveIdled
      <3> QED  BY <2>2, <3>2, <3>3
    <2>4. CASE MovesTo(t, "begin")
      <3>1. MessagesKnown'
        BY <1>14, <2>1, <2>4
      <3>2. ComponentsCared'
        BY <1>0, <2>1, <2>4, MovedCares DEF Unfinished
      <3> QED  BY <2>2, <3>1, <3>2
    <2>5. CASE MovesTo(t, "ack") /\ ~MovesTo(t, "begin")
               /\ thread' # [thread EXCEPT ![t] = ThreadIdle]
      <3>1. Ended
        <4>1. thread[t] \in Work /\ thread \in [Threads -> {ThreadIdle} \cup Work]
          BY <2>1, BusyThread DEF TypeOK
        <4>2. thread' # [thread EXCEPT ![t].pc = "begin", ![t].changed = job.changed]
          <5>1. thread'[t].pc # "begin"
            BY <2>5 DEF MovesTo
          <5> QED  BY <4>1, <5>1 DEF Work
        <4> QED  BY <1>15, <2>5, <4>2 DEF PrepareMessageForProcessing
      <3>2. ~Unfinished'
        BY <2>1, <3>1 DEF Ended, Unfinished, JobAgrees
      <3>3. MessagesKnown'
        BY <1>14, <2>1, <2>5
      <3> QED  BY <2>2, <3>2, <3>3 DEF ComponentsCared
    <2> QED  BY <1>15, <2>3, <2>4, <2>5, HandlersMove
  <1>16. ASSUME NEW t \in Threads, SkipComponent(t)
         PROVE  MessagesKnown' /\ JobAgrees' /\ ComponentsCared'
    <2>1. /\ MovesTo(t, "ack")
          /\ UNCHANGED <<job, fetch, task, result, fresh, pending, retry>>
          /\ thread[t].pc = "begin"
          /\ task[thread[t].msg].status # "PENDING"
      BY <1>16, HandlersMove DEF SkipComponent, Decided
    <2>2. MessagesKnown'
      BY <1>14, <2>1
    <2>3. ComponentsCared'
      BY <1>0, <2>1, MovedCares DEF Unfinished
    <2> QED  BY <2>1, <2>2, <2>3 DEF JobAgrees
  <1>17. ASSUME NEW t \in Threads, StartComponent(t)
         PROVE  MessagesKnown' /\ JobAgrees' /\ ComponentsCared'
    <2>1. UNCHANGED <<job, fetch, result, retry>>
      BY <1>17 DEF StartComponent
    <2> QED  BY <1>17, <2>1, StartCares DEF JobAgrees
  <1>18. ASSUME NEW t \in Threads, NEW status, NEW pc, Leaves(t, status, pc), MovesTo(t, pc),
                UNCHANGED <<job, fetch, result, fresh, pending, retry>>,
                \/ status \in Decided
                \/ status = "PENDING" /\ pc = "again"
         PROVE  MessagesKnown' /\ JobAgrees' /\ ComponentsCared'
    <2>1. \A c \in Components : task[c].status # "NONE" => task'[c].status # "NONE"
      <3>1. thread[t].msg \in Components
        BY <1>18 DEF Leaves, TypeOK
      <3>2. status # "NONE"
        BY <1>18 DEF Decided
      <3>3. \A c \in Components : task'[c].status \in {task[c].status, status}
        BY <1>18, <3>1 DEF Leaves, TypeOK, Task
      <3> QED  BY <3>2, <3>3
    <2>2. MessagesKnown'
      BY <1>14, <1>18, <2>1
    <2>3. ComponentsCared'
      BY <1>18, LeftCares
    <2> QED  BY <1>18, <2>2, <2>3 DEF JobAgrees
  <1>19. ASSUME NEW t \in Threads,
                ComponentDecided(t) \/ ComponentFails(t) \/ ComponentRetries(t)
         PROVE  MessagesKnown' /\ JobAgrees' /\ ComponentsCared'
    <2>1. CASE ComponentDecided(t)
      <3>1. PICK status \in {"SUCCEEDED", "UNRESOLVED"} : Leaves(t, status, "announce")
        BY <2>1 DEF ComponentDecided
      <3> QED  BY <1>18, <2>1, <3>1, HandlersMove DEF ComponentDecided, Decided
    <2>2. CASE ComponentFails(t)
      BY <1>18, <2>2, HandlersMove DEF ComponentFails, Decided
    <2>3. CASE ComponentRetries(t)
      BY <1>18, <2>3, HandlersMove DEF ComponentRetries
    <2> QED  BY <1>19, <2>1, <2>2, <2>3
  <1>20. ASSUME NEW t \in Threads, EnqueueNext(t)
         PROVE  MessagesKnown' /\ JobAgrees' /\ ComponentsCared'
    <2> DEFINE next == IF thread[t].pc = "announce" THEN Reduce ELSE thread[t].msg
    <2>1. /\ MovesTo(t, "ack")
          /\ UNCHANGED <<job, fetch, task, result, pending, retry>>
          /\ thread[t].pc \in {"announce", "again"}
          /\ Enqueue({next})
      BY <1>20, HandlersMove DEF EnqueueNext
    <2>2. /\ fresh' \in [Messages -> 0..MaxCopies]
          /\ \A c \in Components : fresh'[c] >= fresh[c]
          /\ \A c \in Components : c # thread[t].msg => fresh'[c] = fresh[c]
          /\ \A c \in Components : c = thread[t].msg /\ thread[t].pc = "again" => fresh'[c] > 0
      BY <1>0, <2>1, EnqueuedEntries
    <2>3. \A c \in Components : c = thread[t].msg => task[c].status # "NONE"
      BY DEF MessagesKnown
    <2>4. MessagesKnown'
      BY <1>14, <2>1, <2>2, <2>3
    <2>5. ComponentsCared'
      BY <2>1, <2>2, MovedCares DEF Unfinished
    <2> QED  BY <2>1, <2>4, <2>5 DEF JobAgrees
  <1>21. ASSUME NEW t \in Threads, ReduceWaits(t)
         PROVE  MessagesKnown' /\ JobAgrees' /\ ComponentsCared'
    <2>1. PICK stale \in SUBSET Unstarted : Enqueue(stale)
      BY <1>21 DEF ReduceWaits
    <2>2. /\ MovesTo(t, "ack")
          /\ UNCHANGED <<fetch, task, result, pending>>
          /\ thread[t].pc = "begin" /\ thread[t].msg = Reduce
          /\ retry' \in {retry, Reduce}
      BY <1>21, HandlersMove DEF ReduceWaits
    <2>3. job'.status = job.status
      BY <1>0, <1>21 DEF ReduceWaits, Job
    <2>4. /\ fresh' \in [Messages -> 0..MaxCopies]
          /\ \A c \in Components : fresh'[c] >= fresh[c]
          /\ \A c \in Components : c \notin Unstarted => fresh'[c] = fresh[c]
      BY <1>0, <2>1, EnqueuedEntries
    <2>5. MessagesKnown'
      BY <1>14, <2>2, <2>4 DEF Unstarted
    <2>6. ComponentsCared'
      BY <1>0, <2>2, <2>3, <2>4, MovedCares DEF Unfinished
    <2> QED  BY <2>2, <2>3, <2>5, <2>6 DEF JobAgrees
  <1>22. ASSUME NEW t \in Threads, ReduceReads(t)
         PROVE  MessagesKnown' /\ JobAgrees' /\ ComponentsCared'
    <2>1. /\ MovesTo(t, "reducing")
          /\ UNCHANGED <<job, fetch, task, result, fresh, pending, retry>>
          /\ thread[t].pc = "begin"
      BY <1>22, HandlersMove DEF ReduceReads
    <2>2. MessagesKnown'
      BY <1>14, <2>1
    <2>3. ComponentsCared'
      BY <1>0, <2>1, MovedCares DEF Unfinished
    <2> QED  BY <2>1, <2>2, <2>3 DEF JobAgrees
  <1>23. ASSUME NEW t \in Threads, ReduceCommits(t)
         PROVE  MessagesKnown' /\ JobAgrees' /\ ComponentsCared'
    <2>1. MovesTo(t, "ack") /\ UNCHANGED <<fetch, task, fresh, pending, retry>>
      BY <1>23, HandlersMove DEF ReduceCommits
    <2>2. result'.stored
      BY <1>23 DEF ReduceCommits
    <2>3. job'.status = "SUCCEEDED"
      BY <1>0, <1>23 DEF ReduceCommits, Job
    <2>4. MessagesKnown'
      BY <1>14, <2>1
    <2> QED  BY <2>1, <2>2, <2>3, <2>4 DEF JobAgrees, ComponentsCared, Unfinished
  <1>24. \A t \in Threads : ~ComponentRateLimited(t)
    BY DEF ComponentRateLimited, Untroubled, TypeOK
  <1>25. ASSUME NEW t \in Threads, Handles(t)
         PROVE  MessagesKnown' /\ JobAgrees' /\ ComponentsCared'
    BY <1>13, <1>15, <1>16, <1>17, <1>19, <1>20, <1>21, <1>22, <1>23, <1>24, <1>25 DEF Handles
  <1>26. /\ \A t \in Threads : ~RateLimitRolledBack(t) /\ ~ReduceRolledBack(t) /\ ~ThreadFails(t)
         /\ \A sent \in SUBSET Messages : ~DispatchFails(sent) /\ ~DispatchRolledBack(sent)
         /\ ~Crash
    BY <1>1 DEF RateLimitRolledBack, ReduceRolledBack, ThreadFails, DispatchFails,
                DispatchRolledBack, Crash
  <1> QED  BY <1>2, <1>4, <1>5, <1>6, <1>7, <1>8, <1>9, <1>11, <1>12, <1>25, <1>26
           DEF Next, IngestProgress

\* Trouble stays on record.
LEMMA TroubleStays == TypeOK /\ [Next]_vars /\ Untroubled' => Untroubled
  <1> SUFFICES ASSUME TypeOK, [Next]_vars, Untroubled' PROVE Untroubled
    OBVIOUS
  <1> USE DEF redisVs, history
  <1>1. ~Fault
    BY DEF Fault, Untroubled, TypeOK
  <1>2. \A t \in Threads : ~ComponentRateLimited(t)
    BY DEF ComponentRateLimited, Untroubled, TypeOK
  <1>3. UNCHANGED <<rejections, faults>>
    BY <1>1, <1>2 DEF Next, vars, IngestProgress, Handles, RequeueStaleClaimedJob, ClaimJob,
       MarkLlmEnqueuePending, FetchFails, DispatchLlmEnqueue, DispatchFails, DispatchRolledBack,
       MoveDueRetry, ConsumeFresh, ClaimIdle, AckParseTask, PrepareMessageForProcessing,
       SkipComponent, StartComponent, ComponentDecided, ComponentFails, ComponentRetries,
       EnqueueNext, ReduceWaits, ReduceReads, ReduceCommits, RateLimitRolledBack,
       ReduceRolledBack, ThreadFails, Crash
  <1> QED  BY <1>3 DEF Untroubled

LEMMA InitTrace == Init => TraceInv
  BY NamesDiffer DEF Init, TraceInv, EntriesHeld, Cared, MessagesKnown, JobAgrees, ComponentsCared,
     Messages, NoTask, NoFetch, ThreadIdle

\* The invariant says what the property does not: who looks after a component.
LEMMA TraceInvImplies == TraceInv => ComponentHasTrace
  <1> SUFFICES ASSUME TraceInv, Untroubled, NEW c \in Components, ReduceAwaits(c)
               PROVE  HasTrace(c)
    BY DEF ComponentHasTrace, Untroubled
  <1>1. Unfinished /\ ComponentsCared
    BY DEF ReduceAwaits, Unfinished, TraceInv, Cared
  <1>2. task[c].status \in {"PENDING", "RUNNING"}
    BY DEF ReduceAwaits, Waiting, Undecided
  <1>3. CASE task[c].status = "RUNNING"
    BY <1>1, <1>3 DEF ComponentsCared, HasTrace
  <1>4. CASE task[c].status = "PENDING"
    BY <1>1, <1>4 DEF ComponentsCared, Live, HasTrace
  <1> QED  BY <1>2, <1>3, <1>4

\* Without mishaps every component the reduce step waits for has a message or a
\* thread, for any number of components, threads, attempts and fetches.
THEOREM ComponentsKeepTrace == Spec => []ComponentHasTrace
  <1>1. TypeOK /\ TraceInv /\ [Next]_vars => (TypeOK /\ TraceInv)'
    BY TypeStep, HeldKept, CaredKept, TroubleStays DEF TraceInv
  <1> QED  BY InitTypes, InitTrace, <1>1, TraceInvImplies, PTL DEF Spec

=============================================================================
