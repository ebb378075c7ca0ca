--------------------------- MODULE ChangeNotices ---------------------------
(***************************************************************************)
(* The mails that tell a user about new proposals.  A proposal is          *)
(* announced by an event of the outbox.  The notification worker of each   *)
(* process repeats one tick: it turns the pending events into notices      *)
(* (rows of `notifications`), one transaction for each event, and then     *)
(* mails the pending notices of each user as one digest, in one            *)
(* transaction for all users.                                              *)
(***************************************************************************)
EXTENDS Integers, FiniteSets, FiniteSetsExt

CONSTANTS
    Changes,        \* ids of proposals
    Users,
    Owner,          \* the user of a change
    Workers,        \* notification workers, one in each process
    MaxEvents,      \* bound: outbox events
    MaxBreaks       \* bound: ticks that break off

ASSUME OwnerAssumption == Owner \in [Changes -> Users]
ASSUME MaxEventsAssumption == MaxEvents \in Nat
ASSUME MaxBreaksAssumption == MaxBreaks \in Nat

VARIABLES
    outbox,         \* changes.pending.created events
    inbox,          \* events with a row in integration_inbox
    notice,         \* status of the notification of a change
    worker,         \* what each worker is at
    mails,          \* digests with the change that went out
    unrecorded,     \* history: those of them whose transaction broke off
    breaks          \* ticks that broke off

noticeVars == <<outbox, inbox, notice, worker, mails, unrecorded, breaks>>

Events == 1 .. MaxEvents
NoEvent == [status |-> "none", changes |-> {}]
Event == [status: {"PENDING", "PROCESSED"}, changes: SUBSET Changes]

\* A worker: the events it took and has still to do, those whose row it has locked,
\* the notices of its digest, and the users it mailed or failed to mail.
Worker == [step: {"idle", "next", "added", "known", "digest", "sending"},
           events: SUBSET Events, locks: SUBSET Events, batch: SUBSET Changes,
           mailed: SUBSET Users, failed: SUBSET Users]
IdleWorker == [step |-> "idle", events |-> {}, locks |-> {}, batch |-> {}, mailed |-> {},
               failed |-> {}]

Announced == UNION {outbox[ev].changes : ev \in Events}
\* The rows other workers have locked.
EventLocks(w) == UNION {worker[v].locks : v \in Workers \ {w}}
NoticeLocks(w) == UNION {worker[v].batch : v \in Workers \ {w}}

NoticesInit ==
    /\ outbox = [ev \in Events |-> NoEvent]
    /\ inbox = {}
    /\ notice = [c \in Changes |-> "none"]
    /\ worker = [w \in Workers |-> IdleWorker]
    /\ mails = [c \in Changes |-> 0]
    /\ unrecorded = [c \in Changes |-> 0]
    /\ breaks = 0

\* emit_change_pending_created_event: a transaction that inserted proposals commits.
EmitChangePendingCreated(S) ==
    /\ S # {} /\ S \cap Announced = {} /\ \A c, d \in S : Owner[c] = Owner[d]
    /\ \E ev \in Events :
         /\ outbox[ev] = NoEvent /\ \A before \in 1 .. ev - 1 : outbox[before] # NoEvent
         /\ outbox' = [outbox EXCEPT ![ev] = [status |-> "PENDING", changes |-> S]]
    /\ UNCHANGED <<inbox, notice, worker, mails, unrecorded, breaks>>

\* run_notification_enqueue_tick: the pending events that nobody has locked.
TakeEvents(w) ==
    LET S == {ev \in Events : outbox[ev].status = "PENDING"} \ EventLocks(w)
    IN  /\ worker[w].step = "idle"
        /\ worker' = [worker EXCEPT ![w] =
               IF S = {} THEN [@ EXCEPT !.step = "digest"]
               ELSE [@ EXCEPT !.step = "next", !.events = S, !.locks = S]]
        /\ UNCHANGED <<outbox, inbox, notice, mails, unrecorded, breaks>>

\* The oldest event is entered into the inbox.  Its key waits for another worker
\* that has entered it and not committed; if it is there, the transaction, with all
\* its locks, is rolled back.
AddInbox(w) ==
    LET ev == Min(worker[w].events)
    IN  /\ worker[w].step = "next"
        /\ \A v \in Workers : worker[v].step = "added" => Min(worker[v].events) # ev
        /\ worker' = [worker EXCEPT ![w] =
               IF ev \in inbox THEN [@ EXCEPT !.step = "known", !.locks = {}]
               ELSE [@ EXCEPT !.step = "added"]]
        /\ UNCHANGED <<outbox, inbox, notice, mails, unrecorded, breaks>>

\* The commit of the first event releases the locks on all of them.
CommitEvent(w, ev) ==
    /\ ev \notin EventLocks(w)
    /\ outbox' = [outbox EXCEPT ![ev].status = "PROCESSED"]
    /\ worker' = [worker EXCEPT ![w].events = @ \ {ev}, ![w].locks = {},
                  ![w].step = IF worker[w].events = {ev} THEN "digest" ELSE "next"]
    /\ UNCHANGED <<mails, unrecorded, breaks>>

\* Mutant: only a change that already has a notice gets one.
EnqueueNone(w) ==
    LET ev == Min(worker[w].events)
    IN  /\ worker[w].step = "added"
        /\ CommitEvent(w, ev)
        /\ inbox' = inbox \cup {ev}
        /\ UNCHANGED notice

\* enqueue_notifications_for_changes, and the event is processed.
EnqueueNotifications(w) ==
    LET ev == Min(worker[w].events)
    IN  /\ worker[w].step = "added"
        /\ CommitEvent(w, ev)
        /\ inbox' = inbox \cup {ev}
        /\ notice' = [c \in Changes |->
               IF c \in outbox[ev].changes /\ notice[c] = "none" THEN "PENDING" ELSE notice[c]]

\* The event was in the inbox: it is marked as processed.
MarkKnown(w) ==
    /\ worker[w].step = "known"
    /\ CommitEvent(w, Min(worker[w].events))
    /\ UNCHANGED <<inbox, notice>>

\* Mutant: the notices another worker has locked are taken, too.
TakeAllNotices(w) ==
    LET S == {c \in Changes : notice[c] = "PENDING"}
    IN  /\ worker[w].step = "digest"
        /\ worker' = [worker EXCEPT ![w] =
               IF S = {} THEN IdleWorker ELSE [@ EXCEPT !.step = "sending", !.batch = S]]
        /\ UNCHANGED <<outbox, inbox, notice, mails, unrecorded, breaks>>

\* dispatch_pending_notifications: the pending notices that nobody has locked.
TakeNotices(w) ==
    LET S == {c \in Changes : notice[c] = "PENDING"} \ NoticeLocks(w)
    IN  /\ worker[w].step = "digest"
        /\ worker' = [worker EXCEPT ![w] =
               IF S = {} THEN IdleWorker ELSE [@ EXCEPT !.step = "sending", !.batch = S]]
        /\ UNCHANGED <<outbox, inbox, notice, mails, unrecorded, breaks>>

OfUser(w, u) == {c \in worker[w].batch : Owner[c] = u}
Waiting(w) == {u \in Users : OfUser(w, u) # {}} \ (worker[w].mailed \cup worker[w].failed)

\* The digest of a user goes out ...
MailUser(w) ==
    /\ worker[w].step = "sending"
    /\ \E u \in Waiting(w) :
         /\ worker' = [worker EXCEPT ![w].mailed = @ \cup {u}]
         /\ mails' = [c \in Changes |-> mails[c] + (IF c \in OfUser(w, u) THEN 1 ELSE 0)]
    /\ UNCHANGED <<outbox, inbox, notice, unrecorded, breaks>>

\* ... or not: there is no recipient, a family has no label, or the server refuses it.
FailUser(w) ==
    /\ worker[w].step = "sending"
    /\ \E u \in Waiting(w) : worker' = [worker EXCEPT ![w].failed = @ \cup {u}]
    /\ UNCHANGED <<outbox, inbox, notice, mails, unrecorded, breaks>>

\* Mutant: a digest that failed is not recorded.
CommitSentOnly(w) ==
    /\ worker[w].step = "sending" /\ Waiting(w) = {}
    /\ notice' = [c \in Changes |->
           IF c \in worker[w].batch /\ Owner[c] \in worker[w].mailed THEN "SENT" ELSE notice[c]]
    /\ worker' = [worker EXCEPT ![w] = IdleWorker]
    /\ UNCHANGED <<outbox, inbox, mails, unrecorded, breaks>>

\* The outcome of all digests is committed.
CommitDigest(w) ==
    /\ worker[w].step = "sending" /\ Waiting(w) = {}
    /\ notice' = [c \in Changes |->
           IF c \notin worker[w].batch THEN notice[c]
           ELSE IF Owner[c] \in worker[w].mailed THEN "SENT" ELSE "FAILED"]
    /\ worker' = [worker EXCEPT ![w] = IdleWorker]
    /\ UNCHANGED <<outbox, inbox, mails, unrecorded, breaks>>

\* The process dies, or the tick raises: the transaction is rolled back.
TickBreaks(w) ==
    /\ worker[w].step # "idle"
    /\ breaks < MaxBreaks
    /\ breaks' = breaks + 1
    /\ worker' = [worker EXCEPT ![w] = IdleWorker]
    /\ unrecorded' = [c \in Changes |-> unrecorded[c] +
           (IF c \in worker[w].batch /\ Owner[c] \in worker[w].mailed THEN 1 ELSE 0)]
    /\ UNCHANGED <<outbox, inbox, notice, mails>>

\* v waits for the inbox key that w has entered, and w for the row that v has locked.
Deadlocked(v, w) ==
    /\ worker[w].step = "added" /\ worker[v].step = "next"
    /\ Min(worker[v].events) = Min(worker[w].events)
    /\ Min(worker[w].events) \in worker[v].locks

\* The database ends the deadlock: it rolls one of the two back, and the other gets
\* what it waits for.
BreakDeadlock(v, w) ==
    /\ Deadlocked(v, w)
    /\ \/ worker' = [worker EXCEPT ![w] = IdleWorker]
       \/ worker' = [worker EXCEPT ![v] = IdleWorker, ![w].locks = {Min(worker[w].events)}]
    /\ UNCHANGED <<outbox, inbox, notice, mails, unrecorded, breaks>>

Steps(w) ==
    \/ TakeEvents(w) \/ AddInbox(w) \/ EnqueueNotifications(w) \/ MarkKnown(w)
    \/ TakeNotices(w) \/ MailUser(w) \/ FailUser(w) \/ CommitDigest(w)

NoticesNext ==
    \/ \E S \in SUBSET Changes : EmitChangePendingCreated(S)
    \/ \E w \in Workers : Steps(w) \/ TickBreaks(w)
    \/ \E v, w \in Workers : BreakDeadlock(v, w)

\* A worker that is not broken off goes on with its tick, and repeats it; the database
\* sees to deadlocks.
NoticesFairness ==
    /\ \A w \in Workers : WF_noticeVars(Steps(w))
    /\ WF_noticeVars(\E v, w \in Workers : BreakDeadlock(v, w))

NoticesSpec == NoticesInit /\ [][NoticesNext]_noticeVars /\ NoticesFairness

(***************************************************************************)
(* Properties.                                                             *)
(***************************************************************************)
\* Rows and workers keep the shape the code gives them.
NoticesTypeOK ==
    /\ outbox \in [Events -> Event \cup {NoEvent}]
    /\ inbox \subseteq Events
    /\ notice \in [Changes -> {"none", "PENDING", "SENT", "FAILED"}]
    /\ worker \in [Workers -> Worker]
    /\ mails \in [Changes -> Nat]
    /\ unrecorded \in [Changes -> 0 .. MaxBreaks]
    /\ breaks \in 0 .. MaxBreaks

\* An event that is in the inbox, and so is never done again, has its notices: none
\* is lost between the two tables, whatever breaks off or overlaps.
InboxHasNotices ==
    \A ev \in Events :
        /\ ev \in inbox => \A c \in outbox[ev].changes : notice[c] # "none"
        /\ outbox[ev].status = "PROCESSED" => ev \in inbox

\* The digest with c went out, and its outcome is not committed.
MailedBy(k, c) == c \in k.batch /\ Owner[c] \in k.mailed
Mailing(c) == \E w \in Workers : MailedBy(worker[w], c)

\* A change is mailed once for the outcome that is or will be recorded, and once for
\* each transaction that broke off after its digest went out (digest_service.py:101).
MailsAccountedFor ==
    \A c \in Changes :
        mails[c] = unrecorded[c]
            + (IF notice[c] = "SENT" THEN 1 ELSE 0)
            + Cardinality({w \in Workers : MailedBy(worker[w], c)})

\* As long as only finitely many ticks break off, an announced change is mailed or
\* recorded as failed, deadlocks between two workers notwithstanding.
EveryChangeNoticed ==
    \A c \in Changes : c \in Announced ~> notice[c] \in {"SENT", "FAILED"}

(***************************************************************************)
(* The notice of a change as NoticeDelivery knows it.                      *)
(***************************************************************************)
noticePhase == [c \in Changes |->
    CASE notice[c] = "none"    -> IF c \in Announced THEN "announced" ELSE "silent"
      [] notice[c] = "PENDING" -> IF Mailing(c) THEN "out" ELSE "due"
      [] notice[c] = "SENT"    -> "sent"
      [] notice[c] = "FAILED"  -> "failed"]

Delivery == INSTANCE NoticeDelivery WITH phase <- noticePhase, lost <- unrecorded

\* However ticks of several processes overlap, deadlock and break off, a change is out in
\* one digest at a time, its outcome is final, and it is mailed again only after a
\* transaction with its mail broke off.
ImplementsNotices == Delivery!Spec
=============================================================================
