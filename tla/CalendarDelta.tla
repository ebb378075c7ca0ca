--------------------------- MODULE CalendarDelta ---------------------------
(***************************************************************************)
(* How one calendar feed becomes observations: a fetch compares the feed    *)
(* with the fingerprints in the source's cursor, what changed is parsed     *)
(* component by component, and the cursor moves when the result is applied. *)
(* The messages and threads of the parse are those of CalendarFanout, here  *)
(* without their traces; contents and cursor, which that module has not,    *)
(* are what this one is about.                                              *)
(*                                                                         *)
(* The ingest loop fetches one job at a time, and between its reading of    *)
(* the cursor and the end of the fetch others only write what the end of    *)
(* the fetch does not read again: a fetch is one step.                      *)
(***************************************************************************)
EXTENDS SourceJobs, Sequences, FiniteSets

CONSTANTS
    Components,  \* component keys (UID and RECURRENCE-ID)
    Contents,    \* what a component may say
    Outside,     \* ... before the source's monitoring window
    Absent,      \* no such component; a deactivated observation
    Cancelled,   \* STATUS:CANCELLED
    MaxSyncs,    \* bound: sync requests
    MaxEdits,    \* bound: changes of the feed
    MaxSetbacks  \* bound: failed fetches and dispatches, and claims that timed out

ASSUME DeltaAssumption ==
    Outside \subseteq Contents /\ {Absent, Cancelled} \cap Contents = {} /\ Absent # Cancelled
ASSUME DeltaBoundsAssumption == MaxSyncs \in Nat /\ MaxEdits \in Nat /\ MaxSetbacks \in Nat

VARIABLES
    feed,       \* what the provider would answer
    edits,      \* how often it changed
    setbacks,   \* how often a job went back or was given up
    icsCursor,  \* cursor_json: fingerprints, and the feed the validators stand for
    icsJob,     \* ingest_jobs, with llm_parse_payload and its cursor patch
    icsRow,     \* calendar_component_parse_tasks, and threads under way with each
    icsReduce,  \* the payload that a reduce message under way has read
    icsQueue,   \* ingest_results whose ingest.result.ready event waits, in its order
    icsStored,  \* requests with a result
    shown,      \* source_event_observations: the content observed, or Absent
    unresolved, \* active ingest_unresolved_records: the content set aside, or Absent
    doubtful,   \* history: of each request, components whose record may not fit
    adrift      \* history: components the cursor is ahead of the observation of

deltaVars == <<feed, edits, setbacks, icsCursor, icsJob, icsRow, icsReduce, icsQueue, icsStored,
               shown, unresolved, doubtful, adrift>>
parseVars == <<icsRow, icsReduce>>
appliedVars == <<icsCursor, shown, unresolved, adrift>>

IcsJobs == 1 .. MaxSyncs

Feeds  == [Components -> Contents \cup {Absent, Cancelled}]
Prints == [Components -> Contents \cup {Absent}]

\* parse_ics_snapshot: a cancelled component has no fingerprint.
PrintsOf(f) == [c \in Components |-> IF f[c] = Cancelled THEN Absent ELSE f[c]]

\* build_ics_delta and the window filter of fetch_calendar_delta; base are the cursor's
\* fingerprints as they were read.
Delta == [base : Prints, seen : Feeds]
Changed(d) == {c \in Components : PrintsOf(d.seen)[c] \notin {Absent, d.base[c]}}
Parsed(d)  == {c \in Changed(d) : d.seen[c] \notin Outside}
Removed(d) == {c \in Components : \/ d.seen[c] = Cancelled
                                  \/ d.seen[c] = Absent /\ d.base[c] # Absent}

\* What a row's status is to be, its content and record, and the contents that threads
\* are parsing.
IcsRow == [status : {"none", "pending", "running", "parsed", "given_up"},
           content : Contents \cup {Absent}, record : Contents \cup {Absent},
           threads : SUBSET Contents]
NoIcsRow == [status |-> "none", content |-> Absent, record |-> Absent, threads |-> {}]

\* prints: the fingerprints of the cursor patch, if it has any; silent: components the
\* result has no record of.
IcsResult == [base : Prints, prints : SUBSET Prints, etag : SUBSET Feeds,
              record : Prints, silent : SUBSET Components, doubtful : SUBSET Components]

DeltaInit ==
    /\ feed = [c \in Components |-> Absent] /\ edits = 0 /\ setbacks = 0
    /\ icsCursor = [prints |-> [c \in Components |-> Absent], etag |-> {}]
    /\ icsJob = [r \in IcsJobs |-> [state |-> "none", stage |-> "fetch", payload |-> {}]]
    /\ icsRow = [r \in IcsJobs |-> [c \in Components |-> NoIcsRow]]
    /\ icsReduce = [r \in IcsJobs |-> {}]
    /\ icsQueue = <<>> /\ icsStored = {}
    /\ shown = [c \in Components |-> Absent] /\ unresolved = [c \in Components |-> Absent]
    /\ doubtful = [r \in IcsJobs |-> {}]
    /\ adrift = {}

\* The provider changes a component.
EditFeed(c, v) ==
    /\ edits < MaxEdits /\ v # feed[c]
    /\ feed' = [feed EXCEPT ![c] = v]
    /\ edits' = edits + 1
    /\ UNCHANGED <<setbacks, icsJob, icsQueue, icsStored, doubtful, parseVars, appliedVars>>

Becomes(job) ==
    /\ icsJob' = job
    /\ UNCHANGED <<feed, edits, icsQueue, icsStored, doubtful, parseVars, appliedVars>>

Turns(r, state) == Becomes([icsJob EXCEPT ![r].state = state]) /\ UNCHANGED setbacks

RequestSync(r)    == IsNew(icsJob, r) /\ Turns(r, "due")
ClaimIcsJob(r)    == Claimable(icsJob, r) /\ Turns(r, "held")
BackoffElapses(r) == icsJob[r].state = "asleep" /\ Turns(r, "due")

JobGoesBack(r, state) ==
    /\ icsJob[r].state = "held" /\ setbacks < MaxSetbacks
    /\ setbacks' = setbacks + 1
    /\ Becomes(Backed(icsJob, r, state))

-----------------------------------------------------------------------------
(* The fetch.                                                              *)

Fetching(r) == icsJob[r].state = "held" /\ icsJob[r].stage = "fetch"

\* A result is stored once, with its event; the job has succeeded.  The rows of the
\* request are never read again, and not kept here.
Stores(r, result) ==
    /\ r \notin icsStored
    /\ icsStored' = icsStored \cup {r}
    /\ icsQueue' = Append(icsQueue, result)
    /\ icsJob' = [icsJob EXCEPT ![r].state = "ended", ![r].payload = {}]
    /\ icsRow' = [icsRow EXCEPT ![r] = [c \in Components |-> NoIcsRow]]
    /\ icsReduce' = [icsReduce EXCEPT ![r] = {}]
    /\ doubtful' = [doubtful EXCEPT ![r] = {}]

\* apply_success_without_llm, with the cursor patch of the fetch.
StoresNoChange(r, prints, doubt) ==
    /\ Stores(r, [base |-> icsCursor.prints, prints |-> prints, etag |-> {feed},
                  record |-> [c \in Components |-> Absent], silent |-> Components,
                  doubtful |-> doubt])
    /\ UNCHANGED <<feed, edits, setbacks, appliedVars>>

\* 304: the feed is the one the cursor's validators stand for.  A provider may always
\* answer with the feed instead.  The fingerprints may be of another feed, if the two
\* stem from results that overtook each other.
FetchNotModified(r) ==
    /\ Fetching(r)
    /\ feed \in icsCursor.etag
    /\ StoresNoChange(r, {}, {c \in Components : PrintsOf(feed)[c] # icsCursor.prints[c]})

\* Nothing is left to parse or to remove; the new fingerprints are in the patch, also of
\* what the window filter left out.
FetchNothingNew(r) ==
    /\ Fetching(r)
    /\ LET d == [base |-> icsCursor.prints, seen |-> feed]
       IN  /\ Parsed(d) \cup Removed(d) = {}
           /\ StoresNoChange(r, {PrintsOf(feed)}, {})

\* A delta for the parser replaces what an earlier fetch of the request left.  Rows of
\* that earlier fetch which are taken up already may give the result records of what
\* the feed said then.
FetchDelta(r) ==
    /\ Fetching(r)
    /\ LET d == [base |-> icsCursor.prints, seen |-> feed]
           old == {c \in Components : \/ icsRow[r][c].status \notin {"none", "pending"}
                                      \/ icsRow[r][c].threads # {}}
       IN  /\ Parsed(d) \cup Removed(d) # {}
           /\ icsJob' = [icsJob EXCEPT ![r].stage = "dispatch", ![r].payload = {d}]
           /\ doubtful' = [doubtful EXCEPT ![r] = old]
    /\ UNCHANGED <<feed, edits, setbacks, icsQueue, icsStored, parseVars, appliedVars>>

-----------------------------------------------------------------------------
(* The parse.                                                              *)

\* upsert_calendar_component_tasks: content is replaced, a status beyond PENDING stays.
Upserted(r, d) ==
    [c \in Components |->
        IF c \notin Parsed(d) THEN icsRow[r][c]
        ELSE [icsRow[r][c] EXCEPT !.content = d.seen[c],
                                  !.status = IF @ = "none" THEN "pending" ELSE @]]

DispatchDelta(r) ==
    /\ icsJob[r].state = "held" /\ icsJob[r].stage = "dispatch"
    /\ \E d \in icsJob[r].payload : icsRow' = [icsRow EXCEPT ![r] = Upserted(r, d)]
    /\ icsJob' = [icsJob EXCEPT ![r].stage = "parse"]
    /\ UNCHANGED <<feed, edits, setbacks, icsReduce, icsQueue, icsStored, doubtful, appliedVars>>

\* A child message: a row nobody wrote yet is made from the payload, with those of the
\* other components.  A row that is there may still have the content of an earlier fetch.
StartComponent(r, c) ==
    /\ icsJob[r].state = "held"
    /\ \E d \in icsJob[r].payload :
          LET rows == IF icsRow[r][c].status = "none" THEN Upserted(r, d) ELSE icsRow[r]
              row  == [rows[c] EXCEPT !.status = "running",
                                      !.threads = @ \cup {rows[c].content}]
              old  == {c} \ {x \in Parsed(d) : rows[x].content = d.seen[x]}
          IN  /\ rows[c].status \in {"pending", "running"}
              /\ icsRow' = [icsRow EXCEPT ![r] = [rows EXCEPT ![c] = row]]
              /\ doubtful' = [doubtful EXCEPT ![r] = @ \cup old]
    /\ UNCHANGED <<feed, edits, setbacks, icsJob, icsReduce, icsQueue, icsStored, appliedVars>>

\* The thread writes its outcome whoever owns the row by now: a record, a row to be
\* tried again, or one that is given up.
FinishComponent(r, c, v, status) ==
    /\ v \in icsRow[r][c].threads
    /\ LET row == [icsRow[r][c] EXCEPT !.status = status, !.threads = @ \ {v},
                                       !.record = IF status = "parsed" THEN v ELSE @]
       IN  icsRow' = [icsRow EXCEPT ![r][c] = row]
    /\ doubtful' = IF status = "given_up" THEN [doubtful EXCEPT ![r] = @ \cup {c}]
                   ELSE doubtful
    /\ UNCHANGED <<feed, edits, setbacks, icsJob, icsReduce, icsQueue, icsStored, appliedVars>>

\* A reduce message reads the payload (bound: the last one that did) ...
ReduceReads(r) ==
    /\ icsJob[r].state = "held"
    /\ icsReduce' = [icsReduce EXCEPT ![r] = icsJob[r].payload]
    /\ UNCHANGED <<feed, edits, setbacks, icsJob, icsRow, icsQueue, icsStored, doubtful, appliedVars>>

\* Mutant: rows that wait to be tried again count as decided.
RunningRows(rows) == {c \in Components : rows[c].status = "running"}

\* The rows a reduce message waits for.
OpenRows(rows) == {c \in Components : rows[c].status \in {"pending", "running"}}

\* ... and commits, whatever the job's status is then, when no row is undecided: the
\* removals, and the records of the rows that have one.
ReduceCommits(r, d) ==
    LET row == icsRow[r]
        parsed == {c \in Components : row[c].status = "parsed"}
        unseen == {c \in Parsed(d) : row[c].status = "none"}
    IN  /\ d \in icsReduce[r]
        /\ OpenRows(row) = {}
        /\ Stores(r, [base |-> d.base, prints |-> {PrintsOf(d.seen)}, etag |-> {d.seen},
                      record |-> [c \in Components |-> IF c \in parsed THEN row[c].record
                                                       ELSE Absent],
                      silent |-> Components \ (parsed \cup Removed(d)),
                      doubtful |-> IF d \in icsJob[r].payload THEN doubtful[r] \cup unseen
                                   ELSE Components])
        /\ UNCHANGED <<feed, edits, setbacks, appliedVars>>

-----------------------------------------------------------------------------
(* The apply loop takes the results in the order they were stored.         *)

\* Mutant: a record that makes no observation leaves nothing behind.
ObservesOrDrops(res, lost) ==
    /\ shown' = [c \in Components |-> IF c \in lost THEN Absent
                                    ELSE IF c \in res.silent THEN shown[c] ELSE res.record[c]]
    /\ unresolved' = [c \in Components |-> IF c \in res.silent THEN unresolved[c] ELSE Absent]

\* apply_semantic_observation_candidate: a record outside the window in force, out of the
\* product's scope, or without a kind or an entity is lost to the observations.  What was
\* observed is retired, and the record waits among the unresolved ones.  A record that makes
\* an observation, or a removal, settles what waited.
Observes(res, lost) ==
    /\ shown' = [c \in Components |-> IF c \in lost THEN Absent
                                    ELSE IF c \in res.silent THEN shown[c] ELSE res.record[c]]
    /\ unresolved' = [c \in Components |-> IF c \in lost THEN res.record[c]
                                         ELSE IF c \in res.silent THEN unresolved[c] ELSE Absent]

\* The records take effect and the cursor moves, whatever is lost of them.
\* A component is adrift when the cursor moved between the reading of the delta and now
\* without the delta speaking of it, or when its record may not be what the cursor says.
ApplyDelta ==
    /\ icsQueue # <<>>
    /\ LET res   == Head(icsQueue)
           told  == Components \ res.silent
           moved == {c \in Components : icsCursor.prints[c] # res.base[c]}
       IN  /\ \E lost \in SUBSET {c \in told : res.record[c] # Absent} : Observes(res, lost)
           /\ \E prints \in IF res.prints = {} THEN {icsCursor.prints} ELSE res.prints :
                 icsCursor' = [prints |-> prints, etag |-> res.etag]
           /\ adrift' = ((adrift \cup moved) \ told) \cup res.doubtful
    /\ icsQueue' = Tail(icsQueue)
    /\ UNCHANGED <<feed, edits, setbacks, icsJob, icsStored, doubtful, parseVars>>

\* The apply failed: neither records nor cursor.
ApplyDeltaFails ==
    /\ icsQueue # <<>>
    /\ icsQueue' = Tail(icsQueue)
    /\ UNCHANGED <<feed, edits, setbacks, icsJob, icsStored, doubtful, parseVars, appliedVars>>

DeltaNext ==
    \/ \E c \in Components, v \in Contents \cup {Absent, Cancelled} : EditFeed(c, v)
    \/ \E r \in IcsJobs :
          \/ RequestSync(r) \/ ClaimIcsJob(r) \/ BackoffElapses(r)
          \/ \E state \in {"asleep", "ended"} : JobGoesBack(r, state)
          \/ FetchNotModified(r) \/ FetchNothingNew(r) \/ FetchDelta(r)
          \/ DispatchDelta(r) \/ ReduceReads(r)
          \/ \E c \in Components :
                \/ StartComponent(r, c)
                \/ \E v \in Contents, status \in {"parsed", "pending", "given_up"} :
                      FinishComponent(r, c, v, status)
          \/ \E d \in icsReduce[r] : ReduceCommits(r, d)
    \/ ApplyDelta \/ ApplyDeltaFails

DeltaSpec == DeltaInit /\ [][DeltaNext]_deltaVars

(***************************************************************************)
(* Properties.                                                             *)
(***************************************************************************)
\* Cursor, jobs, rows and results keep the shape the code gives them.
DeltaTypeOK ==
    /\ feed \in Feeds /\ edits \in 0 .. MaxEdits /\ setbacks \in 0 .. MaxSetbacks
    /\ icsCursor.prints \in Prints /\ icsCursor.etag \subseteq Feeds
    /\ \A r \in IcsJobs :
          /\ icsJob[r].state \in JobStates /\ icsJob[r].stage \in {"fetch", "dispatch", "parse"}
          /\ icsJob[r].payload \subseteq Delta /\ Cardinality(icsJob[r].payload) <= 1
          /\ icsRow[r] \in [Components -> IcsRow]
          /\ icsReduce[r] \subseteq Delta
    /\ icsQueue \in Seq(IcsResult) /\ icsStored \subseteq IcsJobs
    /\ shown \in Prints /\ unresolved \in Prints /\ adrift \subseteq Components
    /\ doubtful \in [IcsJobs -> SUBSET Components]

\* What became of the last record of a component that was applied.
Held(c) == IF unresolved[c] # Absent THEN unresolved[c] ELSE shown[c]

\* What the cursor says was seen of a component is observed, or waits among the unresolved
\* records, or lies outside the window; it is never observed and unresolved at once; and the
\* validators stand for a feed that says the same.  The next delta leaves out nothing but
\* what was dealt with.
CursorMeansObserved ==
    \A c \in Components :
        /\ Absent \in {shown[c], unresolved[c]}
        /\ c \notin adrift =>
              /\ icsCursor.prints[c] \in {Held(c)} \cup Outside
              /\ \A f \in icsCursor.etag : PrintsOf(f)[c] = icsCursor.prints[c]
=============================================================================
