-------------------------- MODULE ApprovalTickets --------------------------
(***************************************************************************)
(* Proposals of an agent are carried out through approval tickets, which   *)
(* the user (or a command, or an MCP client) confirms or cancels.  A       *)
(* confirmation locks the ticket, compares what the proposal is about with *)
(* the snapshot taken when it was made, carries the action out, and only   *)
(* then marks the ticket as executed.  The action commits on its own and   *)
(* with that gives the lock up; the mark is a second commit, and the       *)
(* delivery that tells the user is a third.                                *)
(*                                                                         *)
(* All proposals are about one change under review or about syncs of one   *)
(* source.  The kinds of actions:                                          *)
(*   decision  change_decision: decides the change if it is pending;       *)
(*   edit      proposal_edit_commit: rewrites the change if it is pending  *)
(*             and says what it said, by the hash of its payload: a change *)
(*             that was rewritten may come to say that again;              *)
(*   learn     label_learning_add_alias_commit: rebuilds the families in   *)
(*             commits of its own, then approves the change;               *)
(*   sync      run_source_sync: requests a sync of the source, or takes    *)
(*             one that is active.                                         *)
(***************************************************************************)
EXTENDS Integers, FiniteSets

CONSTANTS
    Proposals,
    Tickets,
    Sessions,       \* requests that are handled at the same time
    Other,          \* the sync request of somebody else
    None,           \* no sync request
    Payloads,       \* what the change may say
    MaxEdits,       \* bound: rewritings of the change by others
    MaxBreaks       \* bound: sessions that break off

ASSUME RequestsAssumption == Other \notin Tickets /\ None \notin Tickets /\ Other # None
ASSUME TicketBoundsAssumption == MaxEdits \in Nat /\ MaxBreaks \in Nat

VARIABLES
    proposal,       \* agent_proposals
    ticket,         \* approval_tickets
    session,        \* what each session is at
    open,           \* the change is pending
    says,           \* what it says
    edits,          \* how often others rewrote it
    active,         \* sync requests of the source that have not ended
    requested,      \* tickets with a sync request under their key
    told,           \* tickets with a delivery recorded that tells their present status
    acted,          \* history: actions of a ticket that were committed
    spent,          \* history: proposals that were carried out, until others put
                    \* back what the proposal was made of
    broke,          \* history: tickets a session broke off with after the action
    unheard,        \* history: tickets a session broke off with before the delivery
    breaks          \* sessions that broke off

change == <<open, says, edits, spent>>
targets == <<change, active, requested, acted>>
marks == <<broke, unheard, breaks>>
ticketVars == <<proposal, ticket, session, targets, told, marks>>

Kinds == {"decision", "edit", "learn", "sync"}
Statuses == {"OPEN", "EXECUTED", "CANCELED", "EXPIRED", "FAILED"}
Requests == Tickets \cup {Other}

\* `said` and `request` are the snapshot of the target, `wants` is what an edit makes
\* of `said`; `due` says whether expires_at has passed; a ticket expires with its
\* proposal.
Proposal == [kind: Kinds, status: {"OPEN", "ACCEPTED", "REJECTED"}, said: Payloads,
             wants: Payloads, request: Requests \cup {None}, due: BOOLEAN]
NoProposal == [kind |-> "none"]
Ticket == [proposal: Proposals, status: Statuses]
NoTicket == [status |-> "none"]

\* A session creates a ticket (looked), confirms one (checked, queued, joined: with
\* the ticket's lock; rebuilt, acted: without) or has a delivery to record.  `was`
\* and `answer` are its copies of the ticket's and the proposal's status.
Creating == [step: {"looked"}, proposal: Proposals]
Confirming == [step: {"checked", "queued", "joined", "rebuilt", "acted"}, ticket: Tickets,
               was: {"OPEN", "FAILED"}, answer: {"OPEN", "ACCEPTED", "REJECTED"}]
Telling == [step: {"record"}, ticket: Tickets]
Idle == [step |-> "idle"]

Created == {t \in Tickets : ticket[t] # NoTicket}
Of(t) == ticket[t].proposal
About(t) == proposal[Of(t)]
TicketsOf(p, statuses) == {t \in Created : Of(t) = p /\ ticket[t].status \in statuses}

\* Mutant: tickets are confirmed without FOR UPDATE.
NeverLocked(t) == FALSE
Locked(t) == \E s \in Sessions :
    session[s].step \in {"checked", "queued", "joined"} /\ session[s].ticket = t

\* What an UPDATE makes of a column, read as `copy` and set to `new`.
Written(now, copy, new) == IF new = copy THEN now ELSE new

\* The proposals that are carried out still, once the change says v.
SpentWhen(v) == {p \in spent : ~(proposal[p].kind = "edit" /\ proposal[p].said = v)}

\* The sync the source's read payload shows.
Shown == IF active = {} THEN {None} ELSE active

TicketsInit ==
    /\ proposal = [p \in Proposals |-> NoProposal]
    /\ ticket = [t \in Tickets |-> NoTicket]
    /\ session = [s \in Sessions |-> Idle]
    /\ open = TRUE
    /\ says \in Payloads
    /\ edits = 0
    /\ active \in {{}, {Other}}
    /\ requested = {}
    /\ told = {}
    /\ acted = [t \in Tickets |-> 0]
    /\ spent = {}
    /\ broke = {}
    /\ unheard = {}
    /\ breaks = 0

Goes(s, to) == session' = [session EXCEPT ![s] = to]

\* Session s writes the ticket's status and commits; the delivery is to follow.
Marks(s, t, status) ==
    /\ ticket' = [ticket EXCEPT ![t].status = status]
    /\ told' = IF status = ticket[t].status THEN told ELSE told \ {t}
    /\ Goes(s, [step |-> "record", ticket |-> t])

\* A proposal is made with a snapshot of its target.
CreateProposal(p, kind) ==
    /\ proposal[p] = NoProposal
    /\ kind # "sync" => open
    /\ \E r \in Shown, v \in Payloads :
         /\ kind # "edit" => v = says
         /\ proposal' = [proposal EXCEPT ![p] = [kind |-> kind, status |-> "OPEN", said |-> says,
                                                 wants |-> v, request |-> r, due |-> FALSE]]
    /\ UNCHANGED <<ticket, session, targets, told, marks>>

\* create_approval_ticket: a live ticket of the proposal that is not due is used.
LookForTicket(s, p) ==
    /\ session[s] = Idle /\ proposal[p] # NoProposal
    /\ proposal[p].due \/ TicketsOf(p, {"OPEN", "EXECUTED"}) = {}
    /\ Goes(s, [step |-> "looked", proposal |-> p])
    /\ UNCHANGED <<proposal, ticket, targets, told, marks>>

\* ... and else a new one is inserted, unless an open one is in the way by now: that
\* is used instead, or the call fails if it is due.
InsertTicket(s) ==
    /\ session[s].step = "looked"
    /\ LET p == session[s].proposal
       IN  IF TicketsOf(p, {"OPEN"}) # {} THEN Goes(s, Idle) /\ UNCHANGED ticket
           ELSE \E t \in Tickets \ Created :
                  /\ ticket' = [ticket EXCEPT ![t] = [proposal |-> p, status |-> "OPEN"]]
                  /\ Goes(s, [step |-> "record", ticket |-> t])
    /\ UNCHANGED <<proposal, targets, told, marks>>

\* confirm_approval_ticket locks the ticket.  One that is due expires.
ConfirmTicket(s, t) ==
    /\ session[s] = Idle
    /\ t \in Created /\ ~Locked(t)
    /\ ticket[t].status \in {"OPEN", "FAILED", "EXPIRED"}
    /\ IF About(t).due
       THEN Marks(s, t, "EXPIRED")
       ELSE /\ Goes(s, [step |-> "checked", ticket |-> t, was |-> ticket[t].status,
                        answer |-> About(t).status])
            /\ UNCHANGED <<ticket, told>>
    /\ UNCHANGED <<proposal, targets, marks>>

\* Mutant: what the change says is not compared with the snapshot.
FitsIfPending(t) == open

\* The comparisons with the snapshot in _execute_ticket_action.
Fits(t) ==
    CASE About(t).kind \in {"decision", "learn"} -> open
      [] About(t).kind = "edit" -> open /\ About(t).said = says
      [] About(t).kind = "sync" -> About(t).request \in Shown

\* The target has drifted, is gone or takes no action now, say a source that is not
\* active or whose window is pending (ApprovalTicketError): the ticket stays as it is.
RefuseAction(s) ==
    /\ session[s].step = "checked"
    /\ Goes(s, Idle)
    /\ UNCHANGED <<proposal, ticket, targets, told, marks>>

\* decide_change decides the change; apply_change_edit writes what the edit makes of
\* it, and nothing if that is what the change says.
Decides(t) ==
    /\ open' = FALSE
    /\ spent' = spent \cup {Of(t)}
    /\ acted' = [acted EXCEPT ![t] = @ + 1]
    /\ UNCHANGED says

Edits(t) ==
    /\ says' = About(t).wants
    /\ IF says' = says THEN UNCHANGED <<acted, spent>>
       ELSE /\ acted' = [acted EXCEPT ![t] = @ + 1]
            /\ spent' = SpentWhen(says') \cup {Of(t)}
    /\ UNCHANGED open

\* Mutant: a change that is decided already counts as carried out.
DecideQuietly(s) ==
    LET t == session[s].ticket
    IN  /\ session[s].step = "checked" /\ About(t).kind \in {"decision", "edit"}
        /\ IF ~open THEN UNCHANGED <<open, says, spent, acted>>
           ELSE IF About(t).kind = "decision" THEN Decides(t) ELSE Edits(t)
        /\ Goes(s, [session[s] EXCEPT !.step = "acted"])
        /\ UNCHANGED <<proposal, ticket, edits, active, requested, told, marks>>

\* decide_change or apply_change_edit, which lock the change they look at.
DecideOrEdit(s) ==
    LET t == session[s].ticket
    IN  /\ session[s].step = "checked" /\ Fits(t)
        /\ \/ About(t).kind = "decision" /\ Decides(t)
           \/ About(t).kind = "edit" /\ Edits(t)
        /\ Goes(s, [session[s] EXCEPT !.step = "acted"])
        /\ UNCHANGED <<proposal, ticket, edits, active, requested, told, marks>>

\* apply_label_learning: the alias and the rebuilt families are committed, ...
LearnAlias(s) ==
    LET t == session[s].ticket
    IN  /\ session[s].step = "checked" /\ Fits(t) /\ About(t).kind = "learn"
        /\ Goes(s, [session[s] EXCEPT !.step = "rebuilt"])
        /\ UNCHANGED <<proposal, ticket, targets, told, marks>>

\* ... and then the change is approved, if there is still one to approve.
ApproveRebuilt(s) ==
    LET t == session[s].ticket
    IN  /\ session[s].step = "rebuilt"
        /\ IF open THEN Decides(t) ELSE UNCHANGED <<open, says, spent, acted>>
        /\ Goes(s, [session[s] EXCEPT !.step = "acted"])
        /\ UNCHANGED <<proposal, ticket, edits, active, requested, told, marks>>

\* The active sync is compared with the snapshot, ...
CheckSource(s) ==
    LET t == session[s].ticket
    IN  /\ session[s].step = "checked" /\ Fits(t) /\ About(t).kind = "sync"
        /\ Goes(s, [session[s] EXCEPT !.step = "queued"])
        /\ UNCHANGED <<proposal, ticket, targets, told, marks>>

\* Mutant: the key of a request is not the ticket's.
EnqueueUnderFreshKey(s) ==
    LET t == session[s].ticket
    IN  /\ session[s].step = "queued"
        /\ \/ /\ active # {}
              /\ Goes(s, [session[s] EXCEPT !.step = "joined"])
              /\ UNCHANGED <<requested, active, acted>>
           \/ /\ Goes(s, [session[s] EXCEPT !.step = "acted"])
              /\ requested' = requested \cup {t}
              /\ active' = active \cup {t}
              /\ acted' = [acted EXCEPT ![t] = @ + 1]
        /\ UNCHANGED <<proposal, ticket, change, told, marks>>

\* ... and enqueue_sync_request_idempotent takes an active sync without a commit, or
\* enters a request, which an active one that was not seen does not prevent; a
\* request that is there under the ticket's key is taken after a rollback.
EnqueueSync(s) ==
    LET t == session[s].ticket
    IN  /\ session[s].step = "queued"
        /\ \/ /\ active # {}
              /\ Goes(s, [session[s] EXCEPT !.step = "joined"])
              /\ UNCHANGED <<requested, active, acted>>
           \/ /\ Goes(s, [session[s] EXCEPT !.step = "acted"])
              /\ IF t \in requested THEN UNCHANGED <<requested, active, acted>>
                 ELSE /\ requested' = requested \cup {t}
                      /\ active' = active \cup {t}
                      /\ acted' = [acted EXCEPT ![t] = @ + 1]
        /\ UNCHANGED <<proposal, ticket, change, told, marks>>

\* The action raises something else than a drift: the ticket is marked as failed.
\* After a commit of the action this overwrites what others wrote since.
FailTicket(s) ==
    LET t == session[s].ticket
    IN  /\ \/ session[s].step \in {"checked", "queued"}
           \/ session[s].step = "rebuilt" /\ ~Locked(t)
        /\ Marks(s, t, Written(ticket[t].status, session[s].was, "FAILED"))
        /\ UNCHANGED <<proposal, targets, marks>>

\* Mutant: a ticket that was canceled stays canceled.
FinishUnlessCanceled(s) ==
    LET t == session[s].ticket
    IN  /\ \/ session[s].step = "joined"
           \/ session[s].step = "acted" /\ ~Locked(t)
        /\ Marks(s, t, IF ticket[t].status = "CANCELED" THEN "CANCELED" ELSE "EXECUTED")
        /\ proposal' = [proposal EXCEPT ![Of(t)].status =
                            Written(@, session[s].answer, "ACCEPTED")]
        /\ UNCHANGED <<targets, marks>>

\* The ticket is marked as executed, whatever was written to it since the action.
FinishTicket(s) ==
    LET t == session[s].ticket
    IN  /\ \/ session[s].step = "joined"
           \/ session[s].step = "acted" /\ ~Locked(t)
        /\ Marks(s, t, "EXECUTED")
        /\ proposal' = [proposal EXCEPT ![Of(t)].status =
                            Written(@, session[s].answer, "ACCEPTED")]
        /\ UNCHANGED <<targets, marks>>

\* cancel_approval_ticket
CancelTicket(s, t) ==
    /\ session[s] = Idle
    /\ t \in Created /\ ~Locked(t)
    /\ ticket[t].status \in {"OPEN", "FAILED", "EXPIRED"}
    /\ Marks(s, t, "CANCELED")
    /\ proposal' = [proposal EXCEPT ![Of(t)].status = "REJECTED"]
    /\ UNCHANGED <<targets, marks>>

\* Mutant: only the delivery of a first status is recorded.
RecordCreation(s) ==
    LET t == session[s].ticket
    IN  /\ session[s].step = "record"
        /\ told' = IF ticket[t].status = "OPEN" THEN told \cup {t} ELSE told
        /\ Goes(s, Idle)
        /\ UNCHANGED <<proposal, ticket, targets, marks>>

\* record_ticket_transition_delivery, with the status the refreshed ticket has.
RecordTransition(s) ==
    LET t == session[s].ticket
    IN  /\ session[s].step = "record"
        /\ told' = told \cup {t}
        /\ Goes(s, Idle)
        /\ UNCHANGED <<proposal, ticket, targets, marks>>

\* A session dies, or its commit fails; what it has not committed is undone.
SessionBreaks(s) ==
    /\ session[s] # Idle /\ breaks < MaxBreaks
    /\ breaks' = breaks + 1
    /\ broke' = IF session[s].step \in {"rebuilt", "acted"} THEN broke \cup {session[s].ticket}
                ELSE broke
    /\ unheard' = IF session[s].step = "record" THEN unheard \cup {session[s].ticket}
                  ELSE unheard
    /\ Goes(s, Idle)
    /\ UNCHANGED <<proposal, ticket, targets, told>>

\* Time passes, and others work on the target of a proposal.
ProposalFallsDue(p) ==
    /\ proposal[p] # NoProposal /\ ~proposal[p].due
    /\ proposal' = [proposal EXCEPT ![p].due = TRUE]
    /\ UNCHANGED <<ticket, session, targets, told, marks>>

\* The change is decided, or rewritten: a rebuild puts back what the source says, which
\* may be what a snapshot says.
ChangeDrifts ==
    /\ open /\ \E p \in Proposals : proposal[p].kind \in {"decision", "edit", "learn"}
    /\ \/ open' = FALSE /\ UNCHANGED <<says, edits, spent>>
       \/ /\ edits < MaxEdits /\ edits' = edits + 1
          /\ \E v \in Payloads \ {says} : says' = v /\ spent' = SpentWhen(v)
          /\ UNCHANGED open
    /\ UNCHANGED <<proposal, ticket, session, active, requested, acted, told, marks>>

SyncsDrift ==
    /\ \E p \in Proposals : proposal[p].kind = "sync"
    /\ \/ Other \notin active /\ active' = active \cup {Other}
       \/ \E r \in active : active' = active \ {r}
    /\ UNCHANGED <<proposal, ticket, session, change, requested, acted, told, marks>>

TicketsNext ==
    \/ \E p \in Proposals :
         \/ \E kind \in Kinds : CreateProposal(p, kind)
         \/ ProposalFallsDue(p)
         \/ \E s \in Sessions : LookForTicket(s, p)
    \/ \E s \in Sessions, t \in Tickets : ConfirmTicket(s, t) \/ CancelTicket(s, t)
    \/ \E s \in Sessions :
         \/ InsertTicket(s) \/ RefuseAction(s) \/ DecideOrEdit(s) \/ LearnAlias(s)
         \/ ApproveRebuilt(s) \/ CheckSource(s) \/ EnqueueSync(s) \/ FailTicket(s)
         \/ FinishTicket(s) \/ RecordTransition(s) \/ SessionBreaks(s)
    \/ ChangeDrifts \/ SyncsDrift

TicketsSpec == TicketsInit /\ [][TicketsNext]_ticketVars

(***************************************************************************)
(* Properties.                                                             *)
(***************************************************************************)
\* Rows, sessions and histories keep the shape the code gives them.
TicketsTypeOK ==
    /\ proposal \in [Proposals -> Proposal \cup {NoProposal}]
    /\ ticket \in [Tickets -> Ticket \cup {NoTicket}]
    /\ session \in [Sessions -> {Idle} \cup Creating \cup Confirming \cup Telling]
    /\ open \in BOOLEAN
    /\ says \in Payloads
    /\ edits \in 0 .. MaxEdits
    /\ active \subseteq Requests
    /\ requested \subseteq Tickets
    /\ told \subseteq Tickets
    /\ acted \in [Tickets -> Nat]
    /\ spent \subseteq Proposals
    /\ broke \subseteq Tickets /\ unheard \subseteq Tickets
    /\ breaks \in 0 .. MaxBreaks

\* However often tickets are confirmed, retried after a failure or made anew, the
\* action of a proposal is not carried out again: a decision and the approval of a
\* learnt label never, an edit only if somebody else has made the change say again what
\* the edit was made of.  A ticket requests one sync at most.
ActedOnce ==
    [][\A t \in Created : acted'[t] # acted[t] =>
           IF About(t).kind = "sync" THEN acted[t] = 0 ELSE Of(t) \notin spent]_ticketVars

\* Proposals whose execution writes the change itself: an edit that makes of it what it
\* says writes nothing, the approval of a learnt label and a sync that was joined have
\* no action of their own.
ToCarryOut(p) ==
    \/ proposal[p].kind = "decision"
    \/ proposal[p].kind = "edit" /\ proposal[p].wants # proposal[p].said

\* A ticket says EXECUTED exactly if its action was carried out, as soon as no
\* confirmation is between the two commits and none broke off there; a cancel in
\* between is overwritten.  A proposal that counts as accepted was carried out.
OutcomeIsTrue ==
    /\ \A t \in Created :
        /\ ticket[t].status = "EXECUTED" /\ ToCarryOut(Of(t)) => acted[t] > 0
        /\ acted[t] > 0 /\ ticket[t].status # "EXECUTED" =>
             \/ t \in broke
             \/ About(t).kind = "learn"
             \/ \E s \in Sessions : session[s].step = "acted" /\ session[s].ticket = t
    /\ \A p \in Proposals :
        proposal[p] # NoProposal /\ proposal[p].status = "ACCEPTED" /\ ToCarryOut(p)
        => \E t \in Created : Of(t) = p /\ acted[t] > 0

\* A ticket acts only while it is open or failed: a cancel that the user was told of
\* before is respected.  (Label learning gives the ticket's lock up before it
\* approves the change, and does not look again.)
CancelIsRespected ==
    [][\A t \in Created : acted'[t] # acted[t] /\ About(t).kind # "learn"
           => ticket[t].status \in {"OPEN", "FAILED"}]_ticketVars

\* The user is told the status a ticket ends up with, unless a session broke off
\* before its delivery: deliveries recorded late or twice say what is true by then.
LastStatusTold ==
    \A t \in Created :
        \/ t \in told
        \/ t \in unheard
        \/ \E s \in Sessions : session[s].step = "record" /\ session[s].ticket = t
=============================================================================
