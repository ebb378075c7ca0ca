--------------------------- MODULE ReviewChanges ---------------------------
(***************************************************************************)
(* Observations of the sources become proposals (rows of `changes` that    *)
(* are PENDING), and decisions of the user make the approved state of an   *)
(* event (its row of `event_entities`) out of them.  Three kinds of        *)
(* transactions meet here:                                                 *)
(*   - a rebuild (apply worker, monitoring window, families) writes an     *)
(*     observation and then inserts, rewrites or rejects the proposal of   *)
(*     the event.  It takes no lock on what it reads;                      *)
(*   - a decision locks the change, an edit of the approved state locks    *)
(*     the event and then its pending changes;                             *)
(*   - label learning rebuilds first, and then approves the rebuilt        *)
(*     proposal from the copies its session still holds.                   *)
(*                                                                         *)
(* A transaction reads in one step and commits in a later one.  Sessions   *)
(* do not flush before a query and do not expire at a commit, and an       *)
(* UPDATE writes only the columns whose value differs from the copy that   *)
(* was read.  What a proposal or a state says is a member of Payloads; a   *)
(* transaction is about one event.                                         *)
(***************************************************************************)
EXTENDS Integers, FiniteSets, Sequences

CONSTANTS
    Entities,       \* entity uids of the user
    Sources,        \* the user's sources
    Calendars,      \* those of kind CALENDAR, which outrank the others
    Payloads,       \* semantic payloads: course, family, name, due date
    Nothing,        \* no payload
    Threads,        \* database sessions that work at the same time
    MaxChanges,     \* bound: rows of `changes`
    MaxFeeds        \* bound: observations that change

ASSUME CalendarsAssumption == Calendars \subseteq Sources
ASSUME NothingAssumption == Nothing \notin Payloads
ASSUME MaxChangesAssumption == MaxChanges \in Nat \ {0}
ASSUME MaxFeedsAssumption == MaxFeeds \in Nat

VARIABLES
    obs,        \* payload of the source's active observation of the event
    refs,       \* sources with an observation row for the event, active or not
    entity,     \* event_entities
    change,     \* changes
    lastId,     \* id of the youngest change
    announced,  \* changes with a changes.pending.created event in the outbox
    txn,        \* the transaction each session is in
    feeds,      \* observations changed so far
    verdict,    \* history: the decision events of a change
    ledger,     \* history: the state the approvals add up to in commit order
    owed,       \* history: events not decided by the user since the sources
                \* were last compared with them
    raced       \* history: events a transaction without locks overlapped
                \* another transaction on

observed == <<obs, refs, feeds>>
reviewed == <<change, lastId, announced, verdict>>
vars     == <<obs, refs, entity, change, lastId, announced, txn, feeds, verdict, ledger, owed, raced>>

Ids     == 1 .. MaxChanges
Content == Payloads \cup {Nothing}
Types   == {"CREATED", "DUE_CHANGED", "REMOVED"}

\* A row of event_entities; `content` survives removal.
Row == [life: {"absent", "active", "removed"}, content: Content, manual: BOOLEAN]
NoRow == [life |-> "absent", content |-> Nothing, manual |-> FALSE]

\* What a change says: its type and the payload it proposes.
Says == [type: Types, after: Content]

\* A row of changes; `origin` tells proposals from canonical edits.
Change == [entity: Entities, says: Says,
           status: {"PENDING", "APPROVED", "REJECTED"}, origin: {"ingest", "manual"}]
NoChange == [status |-> "none"]
Used == 1 .. lastId
Pending(e) == {c \in Used : change[c].entity = e /\ change[c].status = "PENDING"}
Latest(S) == CHOOSE c \in S : \A d \in S : d <= c

(***************************************************************************)
(* Sessions.                                                               *)
(***************************************************************************)
Idle == [kind |-> "idle"]

Reject == [type |-> "reject", after |-> Nothing]
Plan   == Says \cup {Reject}

\* A rebuild.  It leaves `row` as the observation of `source` (kept = FALSE: the
\* row is deleted): "held" means that the row is written and locked, "late" that
\* it is written with the commit, "none" that there is none to write.  `hits` are
\* the pending changes it read and `seen` what the one it may rewrite said.
\* `learning` is the change label learning started from (0: none), `held` what
\* its session believes this change to say.
Rebuild == [kind: {"rebuild"}, step: {"planned", "aimed", "rebuilt"}, entity: Entities,
            source: Sources, row: Content, kept: BOOLEAN, write: {"held", "late", "none"},
            plan: Plan, hits: SUBSET Ids, seen: Plan, learning: Ids \cup {0}, held: Plan]
\* Label learning between the choice of a change and its lock.
Learn  == [kind: {"learn"}, entity: Entities, change: Ids, says: Says]
\* An approval that holds the change's lock and has read the event.
Decide == [kind: {"decide"}, entity: Entities, change: Ids, says: Says, copy: Row]
\* An edit of the approved state; it has the event's row locked, if there is one.
Edit   == [kind: {"edit"}, entity: Entities, says: Says, copy: Row]

Session == {Idle} \cup Rebuild \cup Learn \cup Decide \cup Edit

On(t, e) == txn[t] # Idle /\ txn[t].entity = e
Unlocked == {"rebuild", "learn"}

\* Mutant: a change is decided without FOR UPDATE.
NoChangeLock(c) == FALSE
\* Mutant: the approved state is edited without FOR UPDATE.
NoRowLock(e, t) == FALSE

\* Row locks of the other sessions, held until their transactions end.
ChangeLocked(c) == \E u \in Threads : txn[u].kind = "decide" /\ txn[u].change = c
HoldsRow(t, e) == txn[t].kind = "edit" /\ txn[t].entity = e /\ txn[t].copy # NoRow
RowLocked(e, t) == \E u \in Threads \ {t} : HoldsRow(u, e)
ObsLocked(e, s) == \E u \in Threads :
    /\ txn[u].kind = "rebuild" /\ txn[u].step # "rebuilt"
    /\ txn[u].entity = e /\ txn[u].source = s /\ txn[u].write = "held"

\* What an UPDATE makes of a column that is `now`, was read as `copy` and set to `new`.
Written(now, copy, new) == IF new = copy THEN now ELSE new

WrittenRow(now, copy, new) ==
    [life    |-> Written(now.life, copy.life, new.life),
     content |-> Written(now.content, copy.content, new.content),
     manual  |-> Written(now.manual, copy.manual, new.manual)]

\* apply_approved_entity_state: what an approved change makes of the event.
Applied(row, says) ==
    IF says.type # "REMOVED"
    THEN [row EXCEPT !.life = "active", !.content = says.after]
    ELSE IF row.life = "absent" THEN row ELSE [row EXCEPT !.life = "removed"]

\* A transaction about e starts; `kind` tells whether it locks what it reads.
Meets(e, kind) ==
    raced' = IF \E u \in Threads : On(u, e) /\ (kind \in Unlocked \/ txn[u].kind \in Unlocked)
             THEN raced \cup {e} ELSE raced

Begins(t, session) == txn[t] = Idle /\ txn' = [txn EXCEPT ![t] = session]
Ends(t) == txn' = [txn EXCEPT ![t] = Idle]

Init ==
    /\ obs = [e \in Entities |-> [s \in Sources |-> Nothing]]
    /\ refs = [e \in Entities |-> {}]
    /\ entity = [e \in Entities |-> NoRow]
    /\ change = [c \in Ids |-> NoChange]
    /\ lastId = 0
    /\ announced = {}
    /\ txn = [t \in Threads |-> Idle]
    /\ feeds = 0
    /\ verdict = [c \in Ids |-> <<>>]
    /\ ledger = [e \in Entities |-> NoRow]
    /\ owed = {}
    /\ raced = {}

(***************************************************************************)
(* Rebuilds.                                                               *)
(***************************************************************************)
\* choose_primary_observation: a calendar outranks the mail; between equals the
\* more confident or the younger one wins.
Primary(o) ==
    LET active == {s \in Sources : o[s] # Nothing}
        first  == IF active \cap Calendars = {} THEN active ELSE active \cap Calendars
    IN  {o[s] : s \in first}

\* Mutant: a removed event counts as one that exists.
PlansForKnown(row, o, r) ==
    IF Primary(o) = {}
    THEN {IF row.life # "active" \/ row.manual \/ r = {} THEN Reject
          ELSE [type |-> "REMOVED", after |-> Nothing]}
    ELSE {IF row.life = "absent" THEN [type |-> "CREATED", after |-> p]
          ELSE IF p = row.content THEN Reject
          ELSE [type |-> "DUE_CHANGED", after |-> p] : p \in Primary(o)}

\* compute_pending_proposal_decision, given the observations o and the sources r
\* with a row, active or not.
Plans(row, o, r) ==
    IF Primary(o) = {}
    THEN {IF row.life # "active" \/ row.manual \/ r = {} THEN Reject
          ELSE [type |-> "REMOVED", after |-> Nothing]}
    ELSE {IF row.life # "active" THEN [type |-> "CREATED", after |-> p]
          ELSE IF p = row.content THEN Reject
          ELSE [type |-> "DUE_CHANGED", after |-> p] : p \in Primary(o)}

\* Session t has read (and, if "held", written) the observation of s and computes
\* the plan for e.
RebuildBegins(t, e, s, row, kept, write, learning) ==
    LET o == [obs[e] EXCEPT ![s] = row]
        r == IF kept THEN refs[e] \cup {s} ELSE refs[e] \ {s}
        held == IF learning = 0 THEN Reject ELSE change[learning].says
    IN  /\ feeds < MaxFeeds
        /\ feeds' = feeds + 1
        /\ write = "held" => ~ObsLocked(e, s)
        /\ \E plan \in Plans(entity[e], o, r) :
             Begins(t, [kind |-> "rebuild", step |-> "planned", entity |-> e, source |-> s,
                        row |-> row, kept |-> kept, write |-> write, plan |-> plan, hits |-> {},
                        seen |-> Reject, learning |-> learning, held |-> held])
        /\ Meets(e, "rebuild")
        /\ UNCHANGED <<obs, refs, entity, reviewed, ledger, owed>>

\* upsert_observation: a payload that is new, or comes back after its removal.
Observe(t, e, s, p) ==
    /\ obs[e][s] # p
    /\ RebuildBegins(t, e, s, p, TRUE, "held", 0)

\* Mutant: an observation that is gone does not count as affecting its event.
VanishUnnoticed(t, e, s) ==
    /\ obs[e][s] # Nothing /\ ~ObsLocked(e, s)
    /\ obs' = [obs EXCEPT ![e][s] = Nothing]
    /\ Meets(e, "rebuild")
    /\ UNCHANGED <<refs, feeds, entity, reviewed, txn, ledger, owed>>

\* deactivate_observation: the event left the source.
Vanish(t, e, s) ==
    /\ s \in refs[e]
    /\ RebuildBegins(t, e, s, Nothing, TRUE, "held", 0)

\* apply_source_monitoring_window_rescope: the source's rows are purged.
Rescope(t, e, s) ==
    /\ s \in refs[e] \/ \E c \in Used : change[c].entity = e /\ change[c].origin = "ingest"
    /\ RebuildBegins(t, e, s, Nothing, FALSE, "held", 0)

\* rebuild_user_work_item_state: another family changes the payload of an active
\* observation; the row is written with the commit.
RebuildUserWorkItemState(t, e, s, p) ==
    /\ obs[e][s] \notin {Nothing, p}
    /\ RebuildBegins(t, e, s, p, TRUE, "late", 0)

\* apply_gmail_directive_record: a mail that changes an approved event, without
\* an observation of its own.
ApplyDirective(t, e, s, p) ==
    /\ feeds < MaxFeeds
    /\ feeds' = feeds + 1
    /\ entity[e].life = "active" /\ entity[e].content # p
    /\ Begins(t, [kind |-> "rebuild", step |-> "planned", entity |-> e, source |-> s,
                  row |-> Nothing, kept |-> TRUE, write |-> "none",
                  plan |-> [type |-> "DUE_CHANGED", after |-> p], hits |-> {},
                  seen |-> Reject, learning |-> 0, held |-> Reject])
    /\ Meets(e, "rebuild")
    /\ UNCHANGED <<obs, refs, entity, reviewed, ledger, owed>>

\* Mutant: a proposal of another type is not found.
HitsOfType(e, plan) ==
    LET same == {c \in Pending(e) : plan = Reject \/ change[c].says.type = plan.type}
    IN  IF plan = Reject \/ same = {} THEN same ELSE {Latest(same)}

\* The pending changes a plan is about: the youngest one to rewrite it, all of them
\* to reject them.
Hits(e, plan) ==
    IF plan = Reject \/ Pending(e) = {} THEN Pending(e) ELSE {Latest(Pending(e))}

\* They are read without a lock, and a change the session holds is not read again.
ReadPending(t) ==
    LET b == txn[t]
        hits == Hits(b.entity, b.plan)
        seen == IF b.plan = Reject \/ hits = {} THEN Reject
                ELSE IF hits = {b.learning} THEN b.held ELSE change[Latest(hits)].says
    IN  /\ b.kind = "rebuild" /\ b.step = "planned"
        /\ txn' = [txn EXCEPT ![t] = [@ EXCEPT !.step = "aimed", !.hits = hits, !.seen = seen]]
        /\ UNCHANGED <<observed, entity, reviewed, ledger, owed, raced>>

\* Mutant: the event is built before the flush that gives the change its id.
InsertBeforeFlush(b) ==
    /\ b.plan # Reject /\ b.hits = {}
    /\ lastId < MaxChanges
    /\ lastId' = lastId + 1
    /\ change' = [change EXCEPT ![lastId + 1] =
           [entity |-> b.entity, says |-> b.plan, status |-> "PENDING", origin |-> "ingest"]]
    /\ announced' = announced \cup {0}

\* upsert_pending_change without a pending change: a new one, announced in the
\* same transaction.
InsertProposal(b) ==
    /\ b.plan # Reject /\ b.hits = {}
    /\ lastId < MaxChanges
    /\ lastId' = lastId + 1
    /\ change' = [change EXCEPT ![lastId + 1] =
           [entity |-> b.entity, says |-> b.plan, status |-> "PENDING", origin |-> "ingest"]]
    /\ announced' = announced \cup {lastId + 1}

\* Mutant: all columns are written, the status among them.
RewriteWhole(b) ==
    /\ b.plan # Reject
    /\ \E c \in b.hits :
         /\ ~ChangeLocked(c)
         /\ change' = [change EXCEPT ![c].says = b.plan, ![c].status = "PENDING"]
    /\ UNCHANGED <<lastId, announced>>

\* upsert_pending_change with one: its content is rewritten.  Its status is set to
\* PENDING, which it was when it was read, and so is not written.
RewriteProposal(b) ==
    /\ b.plan # Reject
    /\ \E c \in b.hits :
         /\ b.seen # b.plan => ~ChangeLocked(c)
         /\ change' = [change EXCEPT ![c].says =
                [type  |-> Written(@.type, b.seen.type, b.plan.type),
                 after |-> Written(@.after, b.seen.after, b.plan.after)]]
    /\ UNCHANGED <<lastId, announced>>

\* resolve_pending_change_as_rejected
RejectProposals(b) ==
    /\ b.plan = Reject
    /\ \A c \in b.hits : ~ChangeLocked(c)
    /\ change' = [c \in Ids |-> IF c \in b.hits THEN [change[c] EXCEPT !.status = "REJECTED"]
                                ELSE change[c]]
    /\ UNCHANGED <<lastId, announced>>

\* A session that learns a label, after the rebuild.
Rebuilt(e, s, c, view) ==
    [kind |-> "rebuild", step |-> "rebuilt", entity |-> e, source |-> s, row |-> Nothing,
     kept |-> TRUE, write |-> "none", plan |-> Reject, hits |-> {}, seen |-> Reject,
     learning |-> c, held |-> view]

\* The rebuild commits.  A late write of a row that was purged fails, so there is
\* no step for it; a session that learns a label goes on with its own view.
CommitRebuild(t) ==
    LET b == txn[t]  e == b.entity  s == b.source
        view == IF b.learning \in b.hits /\ b.plan # Reject THEN b.plan ELSE b.held
    IN  /\ b.kind = "rebuild" /\ b.step = "aimed"
        /\ b.write = "late" => s \in refs[e] /\ ~ObsLocked(e, s)
        /\ InsertProposal(b) \/ RewriteProposal(b) \/ RejectProposals(b)
        /\ IF b.write = "none" THEN UNCHANGED <<obs, refs, owed>>
           ELSE /\ obs' = [obs EXCEPT ![e][s] = b.row]
                /\ refs' = [refs EXCEPT ![e] = IF b.kept THEN @ \cup {s} ELSE @ \ {s}]
                /\ owed' = owed \cup {e}
        /\ IF b.learning = 0 THEN Ends(t)
           ELSE txn' = [txn EXCEPT ![t] = Rebuilt(e, s, b.learning, view)]
        /\ UNCHANGED <<feeds, entity, verdict, ledger, raced>>

\* retire_active_observation_for_unresolved_transition: the observation leaves the
\* scope or cannot be resolved any more; the event is not rebuilt.
RetireObservation(e, s) ==
    /\ obs[e][s] # Nothing /\ ~ObsLocked(e, s)
    /\ feeds < MaxFeeds
    /\ feeds' = feeds + 1
    /\ obs' = [obs EXCEPT ![e][s] = Nothing]
    /\ owed' = owed \ {e}
    /\ Meets(e, "rebuild")
    /\ UNCHANGED <<refs, entity, reviewed, txn, ledger>>

(***************************************************************************)
(* Label learning: the families are rebuilt, then the pending change of    *)
(* the observation is approved.                                            *)
(***************************************************************************)
\* apply_label_learning loads the change and rebuilds the observation with payload p.
LearnLabel(t, c, s, p) ==
    /\ c \in Used
    /\ obs[change[c].entity][s] \notin {Nothing, p}
    /\ RebuildBegins(t, change[c].entity, s, p, TRUE, "late", c)

\* ... or finds that the label says nothing new about the observations.
LearnKnownLabel(t, c, s) ==
    /\ c \in Used
    /\ LET e == change[c].entity
       IN  /\ Begins(t, Rebuilt(e, s, c, change[c].says))
           /\ Meets(e, "learn")
    /\ UNCHANGED <<observed, entity, reviewed, ledger, owed>>

\* _approve_rebuilt_pending_change picks a pending change; `view` of the one the
\* session held since the start, the row itself of any other.
PickRebuilt(t) ==
    LET b == txn[t]
    IN  /\ b.kind = "rebuild" /\ b.step = "rebuilt"
        /\ IF Pending(b.entity) = {} THEN Ends(t)
           ELSE \E c \in Pending(b.entity) :
                  txn' = [txn EXCEPT ![t] =
                      [kind |-> "learn", entity |-> b.entity, change |-> c,
                       says |-> IF c = b.learning THEN b.held ELSE change[c].says]]
        /\ UNCHANGED <<observed, entity, reviewed, ledger, owed, raced>>

\* decide_change with the picked change: the lock does not refresh the session's
\* copy, which says PENDING.
LockPicked(t) ==
    LET b == txn[t]
    IN  /\ b.kind = "learn" /\ ~ChangeLocked(b.change)
        /\ txn' = [txn EXCEPT ![t] = [kind |-> "decide", entity |-> b.entity, change |-> b.change,
                                      says |-> b.says, copy |-> entity[b.entity]]]
        /\ UNCHANGED <<observed, entity, reviewed, ledger, owed, raced>>

(***************************************************************************)
(* Decisions.                                                              *)
(***************************************************************************)
\* Mutant: no look whether the change is decided already.
ApproveAgain(t, c) ==
    /\ c \in Used /\ ~ChangeLocked(c)
    /\ LET e == change[c].entity
       IN  /\ Begins(t, [kind |-> "decide", entity |-> e, change |-> c,
                         says |-> change[c].says, copy |-> entity[e]])
           /\ Meets(e, "decide")
    /\ UNCHANGED <<observed, entity, reviewed, ledger, owed>>

\* decide_change, "approve": the change is locked and the event read.
Approve(t, c) ==
    /\ c \in Used /\ change[c].status = "PENDING" /\ ~ChangeLocked(c)
    /\ LET e == change[c].entity
       IN  /\ Begins(t, [kind |-> "decide", entity |-> e, change |-> c,
                         says |-> change[c].says, copy |-> entity[e]])
           /\ Meets(e, "decide")
    /\ UNCHANGED <<observed, entity, reviewed, ledger, owed>>

\* The approval commits: what differs from the copy of the event is written, which
\* waits for its lock.  A second INSERT of the event fails, so there is no step for it.
CommitApproval(t) ==
    LET b == txn[t]  e == b.entity  new == Applied(b.copy, b.says)
    IN  /\ b.kind = "decide"
        /\ new # b.copy => ~RowLocked(e, t)
        /\ b.copy = NoRow /\ new # NoRow => entity[e] = NoRow
        /\ entity' = [entity EXCEPT ![e] = WrittenRow(@, b.copy, new)]
        /\ change' = [change EXCEPT ![b.change].status = "APPROVED"]
        /\ verdict' = [verdict EXCEPT ![b.change] = Append(@, "approve")]
        /\ ledger' = [ledger EXCEPT ![e] = Applied(@, b.says)]
        /\ owed' = owed \ {e}
        /\ Ends(t)
        /\ UNCHANGED <<observed, lastId, announced, raced>>

\* decide_change, "reject".
RejectChange(c) ==
    /\ c \in Used /\ change[c].status = "PENDING" /\ ~ChangeLocked(c)
    /\ change' = [change EXCEPT ![c].status = "REJECTED"]
    /\ verdict' = [verdict EXCEPT ![c] = Append(@, "reject")]
    /\ owed' = owed \ {change[c].entity}
    /\ Meets(change[c].entity, "decide")
    /\ UNCHANGED <<observed, entity, lastId, announced, txn, ledger>>

\* _apply_proposal_edit: the user corrects what a proposal says.
EditProposal(c, p) ==
    /\ c \in Used /\ change[c].status = "PENDING" /\ ~ChangeLocked(c)
    /\ change[c].says.type # "REMOVED" /\ change[c].says.after # p
    /\ change' = [change EXCEPT ![c].says.after = p]
    /\ Meets(change[c].entity, "decide")
    /\ UNCHANGED <<observed, entity, lastId, announced, verdict, txn, ledger, owed>>

(***************************************************************************)
(* Edits of the approved state: execute_canonical_edit_apply_txn, and      *)
(* update_manual_event and delete_manual_event, which do the same.         *)
(***************************************************************************)
\* The state an edit starts from: the event's row, or else its pending proposal.
Editable(e) ==
    \/ entity[e] # NoRow
    \/ \E c \in Pending(e) : change[c].says.after # Nothing

\* The edit locks the event and finds that it changes something.
EditEvent(t, e, p) ==
    /\ Editable(e) /\ ~RowLocked(e, t)
    /\ entity[e].content # p
    /\ LET type == IF entity[e].life = "active" THEN "DUE_CHANGED" ELSE "CREATED"
       IN  Begins(t, [kind |-> "edit", entity |-> e, says |-> [type |-> type, after |-> p],
                      copy |-> entity[e]])
    /\ Meets(e, "edit")
    /\ UNCHANGED <<observed, entity, reviewed, ledger, owed>>

DeleteEvent(t, e) ==
    /\ entity[e].life = "active" /\ ~RowLocked(e, t)
    /\ Begins(t, [kind |-> "edit", entity |-> e, says |-> [type |-> "REMOVED", after |-> Nothing],
                  copy |-> entity[e]])
    /\ Meets(e, "edit")
    /\ UNCHANGED <<observed, entity, reviewed, ledger, owed>>

\* It changes nothing: the content is the event's already, whether or not the event
\* is removed, or the event to delete is removed.  Only its support is noted.
KeepEvent(e) ==
    /\ entity[e] # NoRow /\ ~entity[e].manual
    /\ \A t \in Threads : ~HoldsRow(t, e)
    /\ entity' = [entity EXCEPT ![e].manual = TRUE]
    /\ ledger' = [ledger EXCEPT ![e].manual = TRUE]
    /\ owed' = owed \ {e}
    /\ Meets(e, "edit")
    /\ UNCHANGED <<observed, reviewed, txn>>

\* The edit locks the pending changes, rejects them and commits.  An event that had
\* no row is looked up once more.
CommitEdit(t) ==
    LET b == txn[t]  e == b.entity
        new(row) == [Applied(row, b.says) EXCEPT !.manual = TRUE]
        wrote == IF b.copy = NoRow THEN new(entity[e])
                 ELSE WrittenRow(entity[e], b.copy, new(b.copy))
    IN  /\ b.kind = "edit" /\ ~RowLocked(e, t)
        /\ \A c \in Pending(e) : ~ChangeLocked(c)
        /\ lastId < MaxChanges
        /\ lastId' = lastId + 1
        /\ entity' = [entity EXCEPT ![e] = wrote]
        /\ change' = [c \in Ids |->
               IF c = lastId + 1
               THEN [entity |-> e, says |-> b.says, status |-> "APPROVED", origin |-> "manual"]
               ELSE IF c \in Pending(e) THEN [change[c] EXCEPT !.status = "REJECTED"]
               ELSE change[c]]
        /\ verdict' = [verdict EXCEPT ![lastId + 1] = Append(@, "approve")]
        /\ ledger' = [ledger EXCEPT ![e] = new(@)]
        /\ owed' = owed \ {e}
        /\ Ends(t)
        /\ UNCHANGED <<observed, announced, raced>>

\* create_manual_event: an event of its own, under a fresh uid.
CreateManualEvent(e, p) ==
    /\ entity[e] = NoRow /\ refs[e] = {} /\ \A c \in Used : change[c].entity # e
    /\ \A t \in Threads : ~On(t, e)
    /\ lastId < MaxChanges
    /\ lastId' = lastId + 1
    /\ entity' = [entity EXCEPT ![e] = [life |-> "active", content |-> p, manual |-> TRUE]]
    /\ ledger' = [ledger EXCEPT ![e] = [life |-> "active", content |-> p, manual |-> TRUE]]
    /\ change' = [change EXCEPT ![lastId + 1] =
           [entity |-> e, says |-> [type |-> "CREATED", after |-> p],
            status |-> "APPROVED", origin |-> "manual"]]
    /\ verdict' = [verdict EXCEPT ![lastId + 1] = Append(@, "approve")]
    /\ UNCHANGED <<observed, announced, txn, owed, raced>>

\* A transaction is rolled back: an error, a death, or the victim of a deadlock.
Abort(t) ==
    /\ txn[t] # Idle
    /\ Ends(t)
    /\ UNCHANGED <<observed, entity, reviewed, ledger, owed, raced>>

Feed(t) == \E e \in Entities, s \in Sources :
    \/ Vanish(t, e, s) \/ Rescope(t, e, s) \/ RetireObservation(e, s)
    \/ \E p \in Payloads : \/ Observe(t, e, s, p) \/ ApplyDirective(t, e, s, p)
                           \/ RebuildUserWorkItemState(t, e, s, p)

Decision(t) ==
    \/ \E c \in Ids : \/ Approve(t, c) \/ RejectChange(c)
                      \/ \E p \in Payloads : EditProposal(c, p)
                      \/ \E s \in Sources : LearnKnownLabel(t, c, s)
                      \/ \E s \in Sources, p \in Payloads : LearnLabel(t, c, s, p)
    \/ \E e \in Entities : \/ DeleteEvent(t, e) \/ KeepEvent(e)
                           \/ \E p \in Payloads : EditEvent(t, e, p) \/ CreateManualEvent(e, p)

Goes(t) == \/ ReadPending(t) \/ CommitRebuild(t) \/ PickRebuilt(t) \/ LockPicked(t)
           \/ CommitApproval(t) \/ CommitEdit(t) \/ Abort(t)

Next == \E t \in Threads : Feed(t) \/ Decision(t) \/ Goes(t)

Spec == Init /\ [][Next]_vars

(***************************************************************************)
(* Properties.                                                             *)
(***************************************************************************)
\* Rows, sessions and histories keep the shape the code gives them.
TypeOK ==
    /\ obs \in [Entities -> [Sources -> Content]]
    /\ refs \in [Entities -> SUBSET Sources]
    /\ entity \in [Entities -> Row]
    /\ change \in [Ids -> Change \cup {NoChange}]
    /\ lastId \in 0 .. MaxChanges
    /\ \A c \in Ids : change[c] = NoChange <=> c > lastId
    /\ announced \subseteq Used
    /\ txn \in [Threads -> Session]
    /\ feeds \in 0 .. MaxFeeds
    /\ verdict \in [Ids -> Seq({"approve", "reject"})]
    /\ ledger \in [Entities -> Row]
    /\ owed \subseteq Entities
    /\ raced \subseteq Entities

\* Whatever overlaps, a change that was decided never waits for a decision again: a
\* rebuild that sets a change to PENDING (pending_change_store.py:131) does not
\* write the column, because it read it as PENDING.
NeverReopened ==
    [][\A c \in Used : change[c].status # "PENDING" => change'[c].status # "PENDING"]_vars

\* Without an overlap with a rebuild or a label that is learnt, a decided change is
\* never touched again: neither its status nor what it says.
DecidedIsFinal ==
    [][\A c \in Used : change[c].status # "PENDING" /\ change[c].entity \notin raced'
           => change'[c] = change[c]]_vars

\* Without such an overlap, the approved state of an event is what the approvals and
\* edits add up to in the order they committed: the locks of a decision and of an
\* edit let no approval get lost, be mixed with another or be done twice.
StateFromApprovals == \A e \in Entities \ raced : entity[e] = ledger[e]

\* Without such an overlap there is at most one open proposal for an event, although
\* no constraint of the table says so, and it is of a kind that the event's state allows:
\* only an event that is not there is to be created, only one that is there is to be
\* changed or removed.
OneFittingProposal ==
    \A e \in Entities \ raced :
        /\ \A c, d \in Pending(e) : c = d
        /\ \A c \in Pending(e) : change[c].says.type = "CREATED" <=> entity[e].life # "active"

\* Without such an overlap, a change has the decision event its status calls for, and
\* it has it once.  A proposal that was superseded has none.
VerdictMatches ==
    \A c \in Used : change[c].entity \notin raced =>
        CASE change[c].status = "PENDING"  -> verdict[c] = <<>>
          [] change[c].status = "APPROVED" -> verdict[c] = <<"approve">>
          [] change[c].status = "REJECTED" -> verdict[c] \in {<<>>, <<"reject">>}

\* Without such an overlap, what the sources say is either the approved state, or a
\* proposal for it is open, or the user has decided since.
NoSilentDrift ==
    \A e \in owed \ raced :
        Reject \notin Plans(entity[e], obs[e], refs[e]) => Pending(e) # {}

\* What a reader of the events and the open proposals sees of those no transaction
\* without locks overlapped another one on.
stateBar == [e \in Entities |-> IF e \in raced THEN NoRow ELSE entity[e]]
openBar == [e \in Entities |->
    IF e \in raced THEN {} ELSE {[id |-> c, says |-> change[c].says] : c \in Pending(e)}]

Reviewed == INSTANCE ReviewedEvents
    WITH watched <- Entities \ raced, state <- stateBar, open <- openBar

\* However rebuilds, decisions, edits and label learning interleave, an event without
\* such an overlap goes through the steps of a reviewed event: its state is changed by
\* nothing but the approval of its one proposal as it stands then, or by an edit that
\* closes it.
ImplementsReview == Reviewed!Spec
=============================================================================
