----------------------------- MODULE SyncIntake -----------------------------
(***************************************************************************)
(* The sync requests of one source and the window it is monitored in.      *)
(* Requests come from the scheduler, from webhooks and from the user, pass *)
(* the worker's stages, and end.  The user changes the window with a PATCH *)
(* of the configuration: at once if no request is in flight, and else the  *)
(* new window is queued in the configuration, and the end of a request     *)
(* puts it in force.  A new window purges what the source has delivered    *)
(* (the cursor included) and asks for a sync.                              *)
(*                                                                         *)
(* The configuration is one JSON column.  Whoever changes it writes it     *)
(* whole, from a copy read earlier and without a lock.                     *)
(***************************************************************************)
EXTENDS Naturals, Sequences, SequencesExt

CONSTANTS
    Windows,        \* values of monitor_since
    None,           \* no window
    Updaters,       \* PATCH requests that are handled at the same time
    MaxSyncs,       \* bound: requests in sight before another is made
    MaxPatches,     \* bound: PATCH requests
    MaxFailures     \* bound: retries and failures of requests

ASSUME WindowsAssumption == None \notin Windows /\ Windows # {}
ASSUME SyncBoundsAssumption == MaxSyncs \in Nat /\ MaxPatches \in Nat /\ MaxFailures \in Nat

VARIABLES
    config,         \* the source's config_json: window in force and queued window
    stored,         \* the windows its observations and its cursor were fetched under
    syncs,          \* requests that have not ended or whose result is not applied, by age
    keyed,          \* windows with a sync request under their key
    patch,          \* what each PATCH is at
    patches,        \* PATCH requests so far
    failures,       \* retries and failures so far
    wanted,         \* history: the window of the latest PATCH
    raced           \* history: a window came in force beside work under the one before

intakeVars == <<config, stored, syncs, keyed, patch, patches, failures, wanted, raced>>

Config == [window: Windows, pending: Windows \cup {None}]
Stages == {"pending", "queued", "asleep", "fetching", "parsing", "parsed", "applying"}

\* `seen` is the window of its fetch and `copy` the configuration as the worker's session
\* has loaded it (fetching, applying).  A request that is `over` has ended without
\* records, and only its empty result is still to be applied.
Sync == [stage: Stages, seen: Windows \cup {None}, copy: Config \cup {None}, over: BOOLEAN]
NewSync == [stage |-> "pending", seen |-> None, copy |-> None, over |-> FALSE]

\* `busy` is the answer of has_active_sync_requests.
Patching == [to: Windows, copy: Config, busy: BOOLEAN]
NoPatch == [to |-> None]

Active(s) == ~s.over
InFlight(s) == Active(s) /\ s.stage # "pending"
Over(s) == s.over
HasLooked(s) == s.stage = "fetching" \/ s.seen # None
Some(list, Test(_)) == \E i \in DOMAIN list : Test(list[i])

IntakeInit ==
    /\ \E w \in Windows :
         /\ config = [window |-> w, pending |-> None]
         /\ wanted = w
         /\ stored \in {{}, {w}}
    /\ syncs = <<>>
    /\ keyed = {}
    /\ patch = [u \in Updaters |-> NoPatch]
    /\ patches = 0
    /\ failures = 0
    /\ raced = FALSE

(***************************************************************************)
(* Requests are made.                                                      *)
(***************************************************************************)
Enqueue ==
    /\ Len(syncs) < MaxSyncs
    /\ syncs' = Append(syncs, NewSync)
    /\ UNCHANGED <<config, stored, keyed, patch, patches, failures, wanted, raced>>

\* _enqueue_due_scheduler_requests: the key is the slot, so every slot has a request.
ScheduleSync == Enqueue

\* webhook_ingest: one request per event, whatever is active.
WebhookSync == Enqueue

\* create_sync_request: not while a window is queued, and an active request is used.
ManualSync == config.pending = None /\ ~Some(syncs, Active) /\ Enqueue

\* Mutant: a rescope asks for a sync of its own every time.
RescopeAnyway(w, list, active) == syncs' = Append(list, NewSync) /\ keyed' = keyed \cup {w}

\* apply_source_monitoring_window_rescope asks for a sync of window w; `active` says
\* whether its session sees an active one, and `list` are the requests beside it.
RescopeSync(w, list, active) ==
    IF active \/ w \in keyed
    THEN syncs' = list /\ UNCHANGED keyed
    ELSE syncs' = Append(list, NewSync) /\ keyed' = keyed \cup {w}

(***************************************************************************)
(* PATCH /sources/{id}.                                                    *)
(***************************************************************************)
BeginPatch(u, w) ==
    /\ patch[u] = NoPatch /\ patches < MaxPatches
    /\ patches' = patches + 1
    /\ patch' = [patch EXCEPT ![u] = [to |-> w, copy |-> config, busy |-> Some(syncs, InFlight)]]
    /\ UNCHANGED <<config, stored, syncs, keyed, failures, wanted, raced>>

\* Mutant: the window is changed at once, whatever is in flight.
QueuesNothing(u) == FALSE

Queues(u) == patch[u].busy /\ patch[u].to # patch[u].copy.window

\* update_input_source.  A column that keeps the value it was read with is not written.
CommitPatch(u) ==
    LET p == patch[u]
        next == IF Queues(u) THEN [p.copy EXCEPT !.pending = p.to]
                ELSE [window |-> p.to, pending |-> None]
        rescoped == next.window # p.copy.window
    IN  /\ p # NoPatch
        /\ config' = IF next = p.copy THEN config ELSE next
        /\ wanted' = p.to
        /\ patch' = [patch EXCEPT ![u] = NoPatch]
        /\ IF rescoped
           THEN stored' = {} /\ RescopeSync(p.to, syncs, Some(syncs, Active))
           ELSE UNCHANGED <<stored, syncs, keyed>>
        /\ raced' = \/ raced
                    \/ config # p.copy
                    \/ rescoped /\ Some(IF p.busy THEN SelectSeq(syncs, Over) ELSE syncs, HasLooked)
        /\ UNCHANGED <<patches, failures>>

(***************************************************************************)
(* A worker takes request i through its stages.                            *)
(***************************************************************************)
Moves(i, sync) ==
    /\ syncs' = [syncs EXCEPT ![i] = sync]
    /\ UNCHANGED <<config, stored, keyed, patch, patches, wanted, raced>>

\* _consume_sync_requested_events
ConsumeSync(i) ==
    /\ syncs[i].stage = "pending"
    /\ Moves(i, [syncs[i] EXCEPT !.stage = "queued"])
    /\ UNCHANGED failures

\* claim_jobs: the oldest of the source, except those that sleep in a backoff.
ClaimSync(i) ==
    /\ syncs[i].stage \in {"queued", "asleep"}
    /\ \A j \in 1 .. i - 1 : syncs[j].stage \notin {"queued", "fetching", "parsing"}
    /\ Moves(i, [syncs[i] EXCEPT !.stage = "fetching", !.copy = config])
    /\ UNCHANGED failures

\* The configuration a session goes by that has had request i from its claim: Gmail's
\* fetch loads it, a calendar's does when its feed has come.
Loaded(i) == {syncs[i].copy, config}

FetchFinds(i) ==
    /\ syncs[i].stage = "fetching"
    /\ \E c \in Loaded(i) :
         Moves(i, [syncs[i] EXCEPT !.stage = "parsing", !.seen = c.window, !.copy = None])
    /\ UNCHANGED failures

\* A retry after a failed fetch, a failed parse or a lapsed claim.
RetrySync(i) ==
    /\ syncs[i].stage \in {"fetching", "parsing"} /\ failures < MaxFailures
    /\ failures' = failures + 1
    /\ Moves(i, [syncs[i] EXCEPT !.stage = "asleep", !.seen = None, !.copy = None])

ParseEnds(i) ==
    /\ syncs[i].stage = "parsing"
    /\ Moves(i, [syncs[i] EXCEPT !.stage = "parsed"])
    /\ UNCHANGED failures

\* Mutant: a new window leaves what was fetched under the one before.
RebindUnpurged(c, list, kept, active) ==
    LET next == [window |-> c.pending, pending |-> None]
        rescoped == c.pending # None /\ next.window # c.window
    IN  /\ config' = IF c.pending = None THEN config ELSE next
        /\ stored' = kept
        /\ IF rescoped THEN RescopeSync(next.window, list, active)
           ELSE syncs' = list /\ UNCHANGED keyed
        /\ raced' = \/ raced
                    \/ c.pending # None /\ config # c
                    \/ rescoped /\ Some(list, HasLooked)

\* apply_pending_monitoring_window_update_if_terminal with the loaded configuration c,
\* in the transaction that ends a request and leaves the requests `list`; without a new
\* window the source keeps `kept`.
Rebind(c, list, kept, active) ==
    LET next == [window |-> c.pending, pending |-> None]
        rescoped == c.pending # None /\ next.window # c.window
    IN  /\ config' = IF c.pending = None THEN config ELSE next
        /\ stored' = IF rescoped THEN {} ELSE kept
        /\ IF rescoped THEN RescopeSync(next.window, list, active)
           ELSE syncs' = list /\ UNCHANGED keyed
        /\ raced' = \/ raced
                    \/ c.pending # None /\ config # c
                    \/ rescoped /\ Some(list, HasLooked)

\* The session of a request that ends has not flushed it, and sees it as active, unless
\* the rebuild of the proposals flushes.
SeesActive(i) == {Some(RemoveAt(syncs, i), Active), TRUE}

\* apply_success_without_llm: there is something to find as long as nothing is stored.
FetchFindsNothing(i) ==
    /\ syncs[i].stage = "fetching" /\ stored # {}
    /\ \E c \in Loaded(i), active \in SeesActive(i) :
         Rebind(c, [syncs EXCEPT ![i] = [stage |-> "parsed", seen |-> c.window, copy |-> None,
                                         over |-> TRUE]],
                stored, active)
    /\ UNCHANGED <<patch, patches, failures, wanted>>

\* Dead letter: of a fetch, of a parse, or of a claim that lapsed.
FailSync(i) ==
    /\ syncs[i].stage \in {"fetching", "parsing"} /\ failures < MaxFailures
    /\ failures' = failures + 1
    /\ \E c \in IF syncs[i].stage = "fetching" THEN Loaded(i) ELSE {config}, active \in SeesActive(i) :
         Rebind(c, RemoveAt(syncs, i), stored, active)
    /\ UNCHANGED <<patch, patches, wanted>>

\* apply_ingest_result_idempotent, up to its commit ...
BeginApply(i) ==
    /\ syncs[i].stage = "parsed"
    /\ Moves(i, [syncs[i] EXCEPT !.stage = "applying", !.copy = config])
    /\ UNCHANGED failures

\* Mutant: a request that is applied leaves the queued window where it is.
CommitApplyOnly(i) ==
    /\ syncs[i].stage = "applying"
    /\ stored' = stored \cup {syncs[i].seen}
    /\ syncs' = RemoveAt(syncs, i)
    /\ UNCHANGED <<config, keyed, patch, patches, failures, wanted, raced>>

\* ... and its commit.
CommitApply(i) ==
    /\ syncs[i].stage = "applying"
    /\ \E active \in SeesActive(i) :
         /\ syncs[i].over => active = Some(RemoveAt(syncs, i), Active)
         /\ Rebind(syncs[i].copy, RemoveAt(syncs, i), stored \cup {syncs[i].seen}, active)
    /\ UNCHANGED <<patch, patches, failures, wanted>>

\* run_core_apply_tick after an exception and the rollback.
FailApply(i) ==
    /\ syncs[i].stage = "applying" /\ failures < MaxFailures
    /\ failures' = failures + 1
    /\ \E active \in SeesActive(i) : Rebind(config, RemoveAt(syncs, i), stored, active)
    /\ UNCHANGED <<patch, patches, wanted>>

WorkOn(i) ==
    /\ i \in DOMAIN syncs
    /\ \/ ConsumeSync(i) \/ ClaimSync(i) \/ FetchFinds(i) \/ FetchFindsNothing(i) \/ RetrySync(i)
       \/ FailSync(i) \/ ParseEnds(i) \/ BeginApply(i) \/ CommitApply(i) \/ FailApply(i)

IntakeNext ==
    \/ ScheduleSync \/ WebhookSync \/ ManualSync
    \/ \E u \in Updaters : CommitPatch(u) \/ \E w \in Windows : BeginPatch(u, w)
    \/ \E i \in 1 .. MaxSyncs + 1 : WorkOn(i)

\* The scheduler's slots come around, the workers take up the oldest request until it has
\* ended, and a PATCH that was begun is answered.
IntakeFairness ==
    /\ WF_intakeVars(ScheduleSync)
    /\ WF_intakeVars(WorkOn(1))
    /\ \A u \in Updaters : WF_intakeVars(CommitPatch(u))

IntakeSpec == IntakeInit /\ [][IntakeNext]_intakeVars /\ IntakeFairness

(***************************************************************************)
(* Properties.                                                             *)
(***************************************************************************)
\* The configuration, the requests and the histories keep the shape the code gives them.
IntakeTypeOK ==
    /\ config \in Config
    /\ stored \subseteq Windows
    /\ syncs \in Seq(Sync) /\ Len(syncs) <= MaxSyncs + 1
    /\ keyed \subseteq Windows
    /\ patch \in [Updaters -> Patching \cup {NoPatch}]
    /\ patches \in 0 .. MaxPatches
    /\ failures \in 0 .. MaxFailures
    /\ wanted \in Windows
    /\ raced \in BOOLEAN

\* What a source has delivered, and the cursor it goes on from, stem from the window in
\* force: a new window leaves nothing behind and lets nothing of the old one in later,
\* unless it came in force beside a request that had looked at the one before.
StoredFitsWindow == raced \/ stored \subseteq {config.window}

\* A queued window comes in force, or gives way to a later PATCH, whichever way the
\* requests in flight end, and even if they overlap: the source is not left turning
\* syncs away (409) for ever.
QueuedWindowLands == config.pending # None ~> config.pending = None

\* The window of the latest PATCH is the one the source ends up with, and it is
\* synced under it, although a rescope may ask for no sync.
LatestWindowSynced ==
    <>[]\/ raced
        \/ config = [window |-> wanted, pending |-> None] /\ stored = {wanted}
=============================================================================
