----------------------- MODULE ApprovalTicketsProofs -----------------------
(***************************************************************************)
(* Proofs about ApprovalTickets, for any number of proposals, tickets and  *)
(* sessions, drifts of the targets and sessions that break off.            *)
(***************************************************************************)
EXTENDS ApprovalTickets, TLAPS

SessionStates == {Idle} \cup Creating \cup Confirming \cup Telling

\* With the lock of the ticket, and without.
Held     == {"checked", "queued", "joined"}
Confirms == Held \cup {"rebuilt", "acted"}

-----------------------------------------------------------------------------
(* Rows and sessions.                                                      *)

\* The step a session is at tells what else it has.
LEMMA StepFields ==
  ASSUME NEW x \in SessionStates
  PROVE  /\ x.step \in Confirms \cup {"idle", "looked", "record"}
         /\ x.step = "looked" => x \in Creating /\ x.proposal \in Proposals
         /\ x.step = "record" => x \in Telling /\ x.ticket \in Tickets
         /\ x.step \in Confirms => /\ x \in Confirming /\ x.ticket \in Tickets
                                   /\ x.was \in {"OPEN", "FAILED"}
                                   /\ x.answer \in {"OPEN", "ACCEPTED", "REJECTED"}
         /\ x = Idle <=> x.step = "idle"
  BY DEF SessionStates, Creating, Confirming, Telling, Idle, Confirms, Held

LEMMA LooksType ==
  ASSUME NEW p \in Proposals
  PROVE  LET x == [step |-> "looked", proposal |-> p]
         IN  x \in SessionStates /\ x.step = "looked" /\ x.proposal = p
  BY DEF SessionStates, Creating

LEMMA RecordsType ==
  ASSUME NEW t \in Tickets
  PROVE  LET x == [step |-> "record", ticket |-> t]
         IN  x \in SessionStates /\ x.step = "record" /\ x.ticket = t
  BY DEF SessionStates, Telling

\* A confirmation goes on with its copies.
LEMMA GoesOnType ==
  ASSUME NEW x \in SessionStates, x.step \in Confirms, NEW step \in Confirms
  PROVE  LET y == [x EXCEPT !.step = step]
         IN  y \in SessionStates /\ y.step = step /\ y.ticket = x.ticket /\ y.was = x.was
  <1>1. x \in Confirming
    BY StepFields
  <1>2. [x EXCEPT !.step = step] \in Confirming
    BY <1>1 DEF Confirming, Confirms, Held
  <1> QED  BY <1>1, <1>2 DEF SessionStates, Confirming

LEMMA TicketIsNone ==
  ASSUME NEW x \in Ticket \cup {NoTicket}
  PROVE  x \in Ticket <=> x # NoTicket
  BY DEF Ticket, NoTicket, Statuses

LEMMA ProposalIsNone ==
  ASSUME NEW x \in Proposal \cup {NoProposal}
  PROVE  /\ x \in Proposal <=> x # NoProposal
         /\ x \in Proposal <=> x.kind # "none"
  BY DEF Proposal, NoProposal, Kinds

\* Session s goes on as x, and no other session does.
LEMMA OneGoes ==
  ASSUME TicketsTypeOK, NEW s \in Sessions, NEW x \in SessionStates, Goes(s, x)
  PROVE  /\ session' \in [Sessions -> SessionStates]
         /\ session'[s] = x
         /\ \A u \in Sessions : u # s => session'[u] = session[u]
  BY DEF TicketsTypeOK, SessionStates, Goes

\* The status of one ticket is written.
LEMMA OneMarks ==
  ASSUME TicketsTypeOK, NEW s \in Sessions, NEW t \in Created, NEW status \in Statuses,
         Marks(s, t, status)
  PROVE  /\ ticket' \in [Tickets -> Ticket \cup {NoTicket}]
         /\ ticket'[t].status = status /\ ticket'[t].proposal = ticket[t].proposal
         /\ \A u \in Tickets : u # t => ticket'[u] = ticket[u]
         /\ Created' = Created
         /\ told' \subseteq Tickets /\ told \ {t} \subseteq told'
         /\ session' \in [Sessions -> SessionStates]
         /\ session'[s] = [step |-> "record", ticket |-> t]
         /\ \A u \in Sessions : u # s => session'[u] = session[u]
  <1>1. t \in Tickets /\ ticket[t] \in Ticket
    BY TicketIsNone DEF Created, TicketsTypeOK
  <1>2. PICK x : x = [ticket[t] EXCEPT !.status = status]
    OBVIOUS
  <1>3. x \in Ticket /\ x.status = status /\ x.proposal = ticket[t].proposal
    BY <1>1, <1>2 DEF Ticket
  <1>4. ticket' = [ticket EXCEPT ![t] = x]
    BY <1>2 DEF Marks
  <1>5. /\ ticket' \in [Tickets -> Ticket \cup {NoTicket}] /\ ticket'[t] = x
        /\ \A u \in Tickets : u # t => ticket'[u] = ticket[u]
    BY <1>1, <1>3, <1>4 DEF TicketsTypeOK
  <1>6. Created' = Created
    BY <1>1, <1>3, <1>5, TicketIsNone DEF Created
  <1>7. told' \subseteq Tickets /\ told \ {t} \subseteq told'
    BY DEF Marks, TicketsTypeOK
  <1>8. [step |-> "record", ticket |-> t] \in SessionStates
    BY <1>1, RecordsType
  <1> QED  BY <1>3, <1>5, <1>6, <1>7, <1>8, OneGoes DEF Marks

\* One proposal is answered, ...
LEMMA OneAnswered ==
  ASSUME TicketsTypeOK, NEW p \in Proposals, proposal[p] \in Proposal,
         NEW v \in {"OPEN", "ACCEPTED", "REJECTED"},
         proposal' = [proposal EXCEPT ![p].status = v]
  PROVE  /\ proposal' \in [Proposals -> Proposal \cup {NoProposal}] /\ proposal'[p] \in Proposal
         /\ proposal'[p].status = v /\ proposal'[p].kind = proposal[p].kind
         /\ proposal'[p].said = proposal[p].said
         /\ proposal'[p].wants = proposal[p].wants /\ proposal'[p].due = proposal[p].due
         /\ \A q \in Proposals : q # p => proposal'[q] = proposal[q]
  <1>1. PICK x : x = [proposal[p] EXCEPT !.status = v]
    OBVIOUS
  <1>2. /\ x \in Proposal /\ x.status = v /\ x.kind = proposal[p].kind
        /\ x.said = proposal[p].said
        /\ x.wants = proposal[p].wants /\ x.due = proposal[p].due
    BY <1>1 DEF Proposal
  <1>3. proposal' = [proposal EXCEPT ![p] = x]
    BY <1>1
  <1> QED  BY <1>2, <1>3 DEF TicketsTypeOK

\* ... or falls due.
LEMMA OneFallsDue ==
  ASSUME TicketsTypeOK, NEW p \in Proposals, ProposalFallsDue(p)
  PROVE  /\ proposal' \in [Proposals -> Proposal \cup {NoProposal}]
         /\ proposal[p] \in Proposal /\ proposal'[p] \in Proposal
         /\ proposal'[p].due /\ proposal'[p].kind = proposal[p].kind
         /\ proposal'[p].said = proposal[p].said
         /\ proposal'[p].wants = proposal[p].wants /\ proposal'[p].status = proposal[p].status
         /\ \A q \in Proposals : q # p => proposal'[q] = proposal[q]
  <1>1. proposal[p] \in Proposal
    BY ProposalIsNone DEF ProposalFallsDue, TicketsTypeOK
  <1>2. PICK x : x = [proposal[p] EXCEPT !.due = TRUE]
    OBVIOUS
  <1>3. /\ x \in Proposal /\ x.due /\ x.kind = proposal[p].kind
        /\ x.said = proposal[p].said
        /\ x.wants = proposal[p].wants /\ x.status = proposal[p].status
    BY <1>1, <1>2 DEF Proposal
  <1>4. proposal' = [proposal EXCEPT ![p] = x]
    BY <1>2 DEF ProposalFallsDue
  <1> QED  BY <1>1, <1>3, <1>4 DEF TicketsTypeOK

-----------------------------------------------------------------------------
(* Type correctness.  That a confirmation copies OPEN or FAILED rests on   *)
(* tickets that expire only when they are due, which they stay.            *)

Stands(t) ==
    /\ About(t) \in Proposal
    /\ ticket[t].status = "EXPIRED" => About(t).due

\* What a session is at exists, and is of the kind that goes through its step.
SessionFits(x) ==
    /\ x.step = "looked" => proposal[x.proposal] \in Proposal
    /\ x.step \in Confirms \cup {"record"} => x.ticket \in Created
    /\ x.step \in {"queued", "joined"} => About(x.ticket).kind = "sync"
    /\ x.step = "rebuilt" => About(x.ticket).kind = "learn"

TicketsStand == \A t \in Created : Stands(t)
SessionsFit == \A s \in Sessions : SessionFits(session[s])
TypeInv == TicketsTypeOK /\ TicketsStand /\ SessionsFit

\* Rows are not taken away, and what a proposal is about stays.
RowsStay ==
    /\ \A t \in Created : t \in Created' /\ ticket'[t].proposal = ticket[t].proposal
    /\ \A p \in Proposals : proposal[p] \in Proposal =>
         /\ proposal'[p] \in Proposal
         /\ proposal'[p].kind = proposal[p].kind /\ proposal'[p].said = proposal[p].said
         /\ proposal'[p].wants = proposal[p].wants
         /\ proposal[p].due => proposal'[p].due

LEMMA CreatedRow ==
  ASSUME TicketsTypeOK, NEW t \in Created
  PROVE  t \in Tickets /\ ticket[t] \in Ticket /\ Of(t) \in Proposals /\ ticket[t].status \in Statuses
  BY TicketIsNone DEF Created, TicketsTypeOK, Ticket, Of

LEMMA AboutStays ==
  ASSUME TypeInv, RowsStay, NEW t \in Created
  PROVE  /\ t \in Created' /\ Of(t)' = Of(t) /\ About(t)' \in Proposal
         /\ About(t)'.kind = About(t).kind /\ About(t)'.said = About(t).said
         /\ About(t)'.wants = About(t).wants
         /\ About(t).due => About(t)'.due
  <1>1. Of(t) \in Proposals /\ proposal[Of(t)] \in Proposal
    BY CreatedRow DEF TypeInv, TicketsStand, Stands, About
  <1>2. t \in Created' /\ Of(t)' = Of(t)
    BY DEF RowsStay, Of
  <1>3. About(t)' = proposal'[Of(t)]
    BY <1>2 DEF About
  <1> QED  BY <1>1, <1>2, <1>3 DEF RowsStay, About

LEMMA StandsStays ==
  ASSUME TypeInv, RowsStay, NEW t \in Created, ticket'[t].status = ticket[t].status
  PROVE  Stands(t)'
  BY AboutStays DEF TypeInv, TicketsStand, Stands

LEMMA FitsStays ==
  ASSUME TypeInv, RowsStay, NEW s \in Sessions, session'[s] = session[s]
  PROVE  SessionFits(session[s])'
  <1> DEFINE x == session[s]
  <1>1. x \in SessionStates /\ SessionFits(x)
    BY DEF TypeInv, TicketsTypeOK, SessionStates, SessionsFit
  <1>2. x.step = "looked" => proposal'[x.proposal] \in Proposal
    BY <1>1, StepFields DEF SessionFits, RowsStay
  <1>3. x.step \in Confirms \cup {"record"} => x.ticket \in Created /\ x.ticket \in Created'
    BY <1>1 DEF SessionFits, RowsStay
  <1>4. x.step \in Confirms \cup {"record"} => About(x.ticket)'.kind = About(x.ticket).kind
    <2> SUFFICES ASSUME x.step \in Confirms \cup {"record"}
                 PROVE  About(x.ticket)'.kind = About(x.ticket).kind
      OBVIOUS
    <2>1. PICK t \in Created : t = x.ticket
      BY <1>3
    <2>2. About(t)'.kind = About(t).kind
      BY AboutStays
    <2>3. session'[s].ticket = t
      BY <2>1
    <2> QED  BY <2>1, <2>2, <2>3 DEF About, Of
  <1> QED  BY <1>1, <1>2, <1>3, <1>4 DEF SessionFits, Confirms, Held, About, Of

\* The columns and histories beside tickets, proposals and sessions.
RestOK ==
    /\ open \in BOOLEAN
    /\ says \in Payloads
    /\ edits \in 0 .. MaxEdits
    /\ active \subseteq Requests
    /\ requested \subseteq Tickets
    /\ told \subseteq Tickets
    /\ acted \in [Tickets -> Nat]
    /\ spent \subseteq Proposals
    /\ broke \subseteq Tickets /\ unheard \subseteq Tickets
    /\ breaks \in 0 .. MaxBreaks

LEMMA TypeParts ==
  TicketsTypeOK <=> /\ proposal \in [Proposals -> Proposal \cup {NoProposal}]
                    /\ ticket \in [Tickets -> Ticket \cup {NoTicket}]
                    /\ session \in [Sessions -> SessionStates]
                    /\ RestOK
  BY DEF TicketsTypeOK, SessionStates, RestOK

\* A step of session s that writes no row.
LEMMA SessionTyped ==
  ASSUME TypeInv, NEW s \in Sessions, NEW x \in SessionStates, Goes(s, x), SessionFits(x),
         UNCHANGED <<proposal, ticket>>, RestOK'
  PROVE  TypeInv' /\ RowsStay /\ session'[s] = x /\ \A u \in Sessions : u # s => session'[u] = session[u]
  <1>1. /\ session' \in [Sessions -> SessionStates] /\ session'[s] = x
        /\ \A u \in Sessions : u # s => session'[u] = session[u]
    BY OneGoes DEF TypeInv
  <1>2. Created' = Created /\ RowsStay
    BY DEF Created, RowsStay
  <1>3. TicketsTypeOK'
    BY <1>1, TypeParts DEF TypeInv, TicketsTypeOK, SessionStates, RestOK
  <1>4. TicketsStand'
    BY <1>2, StandsStays DEF TicketsStand
  <1>5. SessionFits(session[s])'
    BY <1>1, <1>2 DEF SessionFits, About, Of
  <1>6. SessionsFit'
    BY <1>1, <1>2, <1>5, FitsStays DEF SessionsFit
  <1> QED  BY <1>1, <1>2, <1>3, <1>4, <1>6 DEF TypeInv

\* A step that writes no row and leaves the sessions alone.
LEMMA TargetTyped ==
  ASSUME TypeInv, UNCHANGED <<proposal, ticket, session>>, RestOK'
  PROVE  TypeInv' /\ RowsStay
  <1>1. Created' = Created /\ RowsStay
    BY DEF Created, RowsStay
  <1>2. TicketsTypeOK'
    BY DEF TypeInv, TicketsTypeOK, RestOK
  <1>3. TicketsStand' /\ SessionsFit'
    BY <1>1, StandsStays, FitsStays DEF TicketsStand, SessionsFit
  <1> QED  BY <1>1, <1>2, <1>3 DEF TypeInv

\* A step that writes proposals and keeps what they are about.
LEMMA ProposalTyped ==
  ASSUME TypeInv, RowsStay, UNCHANGED <<ticket, session>>, RestOK',
         proposal' \in [Proposals -> Proposal \cup {NoProposal}]
  PROVE  TypeInv'
  <1>1. Created' = Created
    BY DEF Created
  <1>2. TicketsTypeOK'
    BY DEF TypeInv, TicketsTypeOK, RestOK
  <1>3. TicketsStand' /\ SessionsFit'
    BY <1>1, StandsStays, FitsStays DEF TicketsStand, SessionsFit
  <1> QED  BY <1>2, <1>3 DEF TypeInv

\* A ticket gets a status, and with it the answer of its proposal may change.
LEMMA MarkTyped ==
  ASSUME TypeInv, NEW s \in Sessions, NEW t \in Created, NEW status \in Statuses,
         Marks(s, t, status), status = "EXPIRED" => About(t).due,
         \/ proposal' = proposal
         \/ \E v \in {"OPEN", "ACCEPTED", "REJECTED"} :
               proposal' = [proposal EXCEPT ![Of(t)].status = v],
         UNCHANGED <<targets, marks>>
  PROVE  TypeInv' /\ RowsStay
  <1>1. /\ ticket' \in [Tickets -> Ticket \cup {NoTicket}]
        /\ ticket'[t].status = status /\ ticket'[t].proposal = ticket[t].proposal
        /\ \A u \in Tickets : u # t => ticket'[u] = ticket[u]
        /\ Created' = Created
        /\ told' \subseteq Tickets
        /\ session' \in [Sessions -> SessionStates]
        /\ session'[s] = [step |-> "record", ticket |-> t]
        /\ \A u \in Sessions : u # s => session'[u] = session[u]
    BY OneMarks DEF TypeInv
  <1>2. Of(t) \in Proposals /\ proposal[Of(t)] \in Proposal
    BY CreatedRow DEF TypeInv, TicketsStand, Stands, About
  <1>3. /\ proposal' \in [Proposals -> Proposal \cup {NoProposal}]
        /\ \A p \in Proposals : proposal[p] \in Proposal =>
             /\ proposal'[p] \in Proposal
             /\ proposal'[p].kind = proposal[p].kind /\ proposal'[p].said = proposal[p].said
             /\ proposal'[p].wants = proposal[p].wants
             /\ proposal[p].due => proposal'[p].due
    <2>1. CASE proposal' = proposal
      BY <2>1 DEF TypeInv, TicketsTypeOK
    <2>2. ASSUME NEW v \in {"OPEN", "ACCEPTED", "REJECTED"},
                 proposal' = [proposal EXCEPT ![Of(t)].status = v]
          PROVE  /\ proposal' \in [Proposals -> Proposal \cup {NoProposal}]
                 /\ \A p \in Proposals : proposal[p] \in Proposal =>
                      /\ proposal'[p] \in Proposal
                      /\ proposal'[p].kind = proposal[p].kind
                      /\ proposal'[p].said = proposal[p].said
                      /\ proposal'[p].wants = proposal[p].wants
                      /\ proposal[p].due => proposal'[p].due
      BY <1>2, <2>2, OneAnswered DEF TypeInv
    <2> QED  BY <2>1, <2>2
  <1>4. RowsStay
    BY <1>1, <1>3, CreatedRow DEF RowsStay, TypeInv
  <1>5. TicketsTypeOK'
    BY <1>1, <1>3 DEF TypeInv, TicketsTypeOK, SessionStates, targets, change, marks
  <1>6. TicketsStand'
    <2>1. Stands(t)'
      BY <1>1, <1>4, AboutStays DEF Stands
    <2>2. ASSUME NEW u \in Created, u # t  PROVE Stands(u)'
      <3>1. ticket'[u] = ticket[u]
        BY <1>1, <2>2, CreatedRow DEF TypeInv
      <3> QED  BY <1>4, <3>1, StandsStays
    <2> QED  BY <1>1, <2>1, <2>2 DEF TicketsStand
  <1>7. SessionsFit'
    <2>1. SessionFits(session[s])'
      BY <1>1 DEF SessionFits, Confirms, Held
    <2> QED  BY <1>1, <1>4, <2>1, FitsStays DEF SessionsFit
  <1> QED  BY <1>4, <1>5, <1>6, <1>7 DEF TypeInv

\* Where a session is.
LEMMA SessionAt ==
  ASSUME TypeInv, NEW s \in Sessions
  PROVE  /\ session[s] \in SessionStates /\ SessionFits(session[s])
         /\ session[s].step \in Confirms \cup {"idle", "looked", "record"}
         /\ session[s].step = "looked" =>
              session[s].proposal \in Proposals /\ proposal[session[s].proposal] \in Proposal
         /\ session[s].step \in Confirms \cup {"record"} => session[s].ticket \in Created
         /\ session[s].step \in Confirms => session[s].was \in {"OPEN", "FAILED"}
         /\ session[s] = Idle <=> session[s].step = "idle"
  BY StepFields DEF TypeInv, TicketsTypeOK, SessionStates, SessionsFit, SessionFits

LEMMA IdleFits == Idle \in SessionStates /\ SessionFits(Idle)
  BY DEF SessionStates, SessionFits, Idle, Confirms, Held

LEMMA CreateTyped ==
  ASSUME TypeInv, NEW p \in Proposals, NEW kind \in Kinds, CreateProposal(p, kind)
  PROVE  TypeInv' /\ RowsStay
  <1>1. PICK r \in Shown, v \in Payloads :
             proposal' = [proposal EXCEPT ![p] = [kind |-> kind, status |-> "OPEN", said |-> says,
                                                  wants |-> v, request |-> r, due |-> FALSE]]
    BY DEF CreateProposal
  <1>2. r \in Requests \cup {None}
    BY DEF Shown, TypeInv, TicketsTypeOK
  <1>3. [kind |-> kind, status |-> "OPEN", said |-> says, wants |-> v, request |-> r,
         due |-> FALSE] \in Proposal
    BY <1>2 DEF Proposal, TypeInv, TicketsTypeOK
  <1>4. proposal[p] \notin Proposal
    BY ProposalIsNone DEF CreateProposal, TypeInv, TicketsTypeOK
  <1>5. /\ proposal' \in [Proposals -> Proposal \cup {NoProposal}]
        /\ \A q \in Proposals : q # p => proposal'[q] = proposal[q]
    BY <1>1, <1>3 DEF TypeInv, TicketsTypeOK
  <1>6. RowsStay
    BY <1>4, <1>5 DEF RowsStay, CreateProposal, Created
  <1>7. UNCHANGED <<ticket, session>> /\ RestOK'
    BY DEF CreateProposal, TypeInv, TicketsTypeOK, RestOK, targets, change, marks
  <1> QED  BY <1>5, <1>6, <1>7, ProposalTyped

LEMMA DueTyped ==
  ASSUME TypeInv, NEW p \in Proposals, ProposalFallsDue(p)
  PROVE  TypeInv' /\ RowsStay
  <1>1. /\ proposal' \in [Proposals -> Proposal \cup {NoProposal}]
        /\ proposal'[p] \in Proposal /\ proposal'[p].due
        /\ proposal'[p].kind = proposal[p].kind /\ proposal'[p].said = proposal[p].said
        /\ proposal'[p].wants = proposal[p].wants
        /\ \A q \in Proposals : q # p => proposal'[q] = proposal[q]
    BY OneFallsDue DEF TypeInv
  <1>2. UNCHANGED <<ticket, session>> /\ RestOK'
    BY DEF ProposalFallsDue, TypeInv, TicketsTypeOK, RestOK, targets, change, marks
  <1>3. RowsStay
    BY <1>1, <1>2 DEF RowsStay, Created
  <1> QED  BY <1>1, <1>2, <1>3, ProposalTyped

LEMMA LookTyped ==
  ASSUME TypeInv, NEW s \in Sessions, NEW p \in Proposals, LookForTicket(s, p)
  PROVE  TypeInv' /\ RowsStay
  <1> DEFINE x == [step |-> "looked", proposal |-> p]
  <1>1. x \in SessionStates /\ x.step = "looked" /\ x.proposal = p
    BY LooksType
  <1>2. proposal[p] \in Proposal
    BY ProposalIsNone DEF LookForTicket, TypeInv, TicketsTypeOK
  <1>3. Goes(s, x) /\ UNCHANGED <<proposal, ticket>> /\ RestOK'
    BY DEF LookForTicket, TypeInv, TicketsTypeOK, RestOK, targets, change, marks
  <1> HIDE DEF x
  <1>4. SessionFits(x)
    BY <1>1, <1>2 DEF SessionFits, Confirms, Held
  <1> QED  BY <1>1, <1>3, <1>4, SessionTyped

\* A new ticket.
LEMMA InsertAdds ==
  ASSUME TypeInv, NEW s \in Sessions, InsertTicket(s), session'[s] # Idle
  PROVE  \E t \in Tickets \ Created :
            /\ session[s].step = "looked"
            /\ ticket' \in [Tickets -> Ticket \cup {NoTicket}]
            /\ Created' = Created \cup {t}
            /\ ticket'[t].status = "OPEN" /\ ticket'[t].proposal = session[s].proposal
            /\ \A u \in Tickets : u # t => ticket'[u] = ticket[u]
            /\ Goes(s, [step |-> "record", ticket |-> t])
  <1> DEFINE p == session[s].proposal
  <1>1. p \in Proposals
    BY SessionAt DEF InsertTicket
  <1>2. TicketsOf(p, {"OPEN"}) = {}
    BY DEF InsertTicket, Goes, TypeInv, TicketsTypeOK
  <1>3. PICK t \in Tickets \ Created :
            /\ ticket' = [ticket EXCEPT ![t] = [proposal |-> p, status |-> "OPEN"]]
            /\ Goes(s, [step |-> "record", ticket |-> t])
    BY <1>2 DEF InsertTicket
  <1>4. [proposal |-> p, status |-> "OPEN"] \in Ticket
    BY <1>1 DEF Ticket, Statuses
  <1>5. /\ ticket' \in [Tickets -> Ticket \cup {NoTicket}]
        /\ ticket'[t] = [proposal |-> p, status |-> "OPEN"]
        /\ \A u \in Tickets : u # t => ticket'[u] = ticket[u]
    BY <1>3, <1>4 DEF TypeInv, TicketsTypeOK
  <1>6. Created' = Created \cup {t}
    BY <1>4, <1>5, TicketIsNone DEF Created
  <1> QED  BY <1>3, <1>5, <1>6 DEF InsertTicket

LEMMA InsertTyped ==
  ASSUME TypeInv, NEW s \in Sessions, InsertTicket(s)
  PROVE  TypeInv' /\ RowsStay
  <1>1. proposal' = proposal /\ RestOK'
    BY DEF InsertTicket, TypeInv, TicketsTypeOK, RestOK, targets, change, marks
  <1>2. CASE session'[s] = Idle
    <2>1. Goes(s, Idle) /\ ticket' = ticket
      <3>1. ASSUME NEW t \in Tickets, Goes(s, [step |-> "record", ticket |-> t])  PROVE FALSE
        <4>1. session'[s] = [step |-> "record", ticket |-> t]
          BY <3>1, RecordsType, OneGoes DEF TypeInv
        <4> QED  BY <1>2, <4>1 DEF Idle
      <3> QED  BY <3>1 DEF InsertTicket
    <2> QED  BY <1>1, <2>1, IdleFits, SessionTyped
  <1>3. CASE session'[s] # Idle
    <2>1. PICK t \in Tickets \ Created :
            /\ session[s].step = "looked"
            /\ ticket' \in [Tickets -> Ticket \cup {NoTicket}]
            /\ Created' = Created \cup {t}
            /\ ticket'[t].status = "OPEN" /\ ticket'[t].proposal = session[s].proposal
            /\ \A u \in Tickets : u # t => ticket'[u] = ticket[u]
            /\ Goes(s, [step |-> "record", ticket |-> t])
      BY <1>3, InsertAdds
    <2>2. RowsStay
      BY <1>1, <2>1, CreatedRow DEF RowsStay, TypeInv
    <2>3. /\ session' \in [Sessions -> SessionStates]
          /\ session'[s] = [step |-> "record", ticket |-> t]
          /\ \A u \in Sessions : u # s => session'[u] = session[u]
      BY <2>1, RecordsType, OneGoes DEF TypeInv
    <2>4. TicketsTypeOK'
      BY <1>1, <2>1, <2>3 DEF TypeInv, TicketsTypeOK, SessionStates, RestOK
    <2>5. TicketsStand'
      <3>1. proposal[session[s].proposal] \in Proposal
        BY <2>1, SessionAt
      <3>2. Stands(t)'
        BY <1>1, <2>1, <3>1 DEF Stands, About, Of
      <3>3. ASSUME NEW u \in Created  PROVE Stands(u)'
        BY <2>1, <2>2, <3>3, CreatedRow, StandsStays DEF TypeInv
      <3> QED  BY <2>1, <3>2, <3>3 DEF TicketsStand
    <2>6. SessionFits(session[s])'
      BY <2>1, <2>3 DEF SessionFits, Confirms, Held
    <2>7. SessionsFit'
      BY <2>2, <2>3, <2>6, FitsStays DEF SessionsFit
    <2> QED  BY <2>2, <2>4, <2>5, <2>7 DEF TypeInv
  <1> QED  BY <1>2, <1>3

\* The confirmation of ticket t by session s goes on.
LEMMA GoesOn ==
  ASSUME TypeInv, NEW s \in Sessions, session[s].step \in Confirms, NEW step \in Confirms,
         Goes(s, [session[s] EXCEPT !.step = step])
  PROVE  /\ session' \in [Sessions -> SessionStates]
         /\ session'[s].step = step /\ session'[s].ticket = session[s].ticket
         /\ session'[s].was = session[s].was
         /\ \A u \in Sessions : u # s => session'[u] = session[u]
  <1>1. PICK x : x = [session[s] EXCEPT !.step = step]
    OBVIOUS
  <1>2. x \in SessionStates /\ x.step = step /\ x.ticket = session[s].ticket /\ x.was = session[s].was
    BY <1>1, SessionAt, GoesOnType
  <1> QED  BY <1>1, <1>2, OneGoes DEF TypeInv

LEMMA GoesOnTyped ==
  ASSUME TypeInv, NEW s \in Sessions, session[s].step \in Confirms, NEW step \in Confirms,
         Goes(s, [session[s] EXCEPT !.step = step]),
         step \in {"queued", "joined"} => About(session[s].ticket).kind = "sync",
         step = "rebuilt" => About(session[s].ticket).kind = "learn",
         UNCHANGED <<proposal, ticket>>, RestOK'
  PROVE  TypeInv' /\ RowsStay
  <1>1. PICK x : x = [session[s] EXCEPT !.step = step]
    OBVIOUS
  <1>2. x \in SessionStates /\ x.step = step /\ x.ticket = session[s].ticket
    BY <1>1, SessionAt, GoesOnType
  <1>3. session[s].ticket \in Created
    BY SessionAt
  <1>4. SessionFits(x)
    BY <1>2, <1>3 DEF SessionFits, Confirms, Held
  <1> QED  BY <1>1, <1>2, <1>4, SessionTyped

LEMMA ConfirmTyped ==
  ASSUME TypeInv, NEW s \in Sessions, NEW t \in Tickets, ConfirmTicket(s, t)
  PROVE  TypeInv' /\ RowsStay
  <1>1. t \in Created /\ Stands(t) /\ About(t) \in Proposal
    BY DEF ConfirmTicket, TypeInv, TicketsStand, Stands
  <1>2. CASE About(t).due
    BY <1>1, <1>2, MarkTyped DEF ConfirmTicket, Statuses
  <1>3. CASE ~About(t).due
    <2> DEFINE x == [step |-> "checked", ticket |-> t, was |-> ticket[t].status,
                     answer |-> About(t).status]
    <2>1. Goes(s, x) /\ UNCHANGED <<proposal, ticket>> /\ RestOK'
      BY <1>3 DEF ConfirmTicket, TypeInv, TicketsTypeOK, RestOK, targets, change, marks
    <2>2. ticket[t].status \in {"OPEN", "FAILED"}
      BY <1>1, <1>3 DEF ConfirmTicket, Stands
    <2>3. About(t).status \in {"OPEN", "ACCEPTED", "REJECTED"}
      BY <1>1 DEF Proposal
    <2>4. x \in SessionStates /\ x.step = "checked" /\ x.ticket = t
      BY <2>2, <2>3 DEF SessionStates, Confirming
    <2> HIDE DEF x
    <2>5. SessionFits(x)
      BY <1>1, <2>4 DEF SessionFits, Confirms, Held
    <2> QED  BY <2>1, <2>4, <2>5, SessionTyped
  <1> QED  BY <1>2, <1>3

LEMMA RefuseTyped ==
  ASSUME TypeInv, NEW s \in Sessions, RefuseAction(s)
  PROVE  TypeInv' /\ RowsStay
  <1>1. Goes(s, Idle) /\ UNCHANGED <<proposal, ticket>> /\ RestOK'
    BY DEF RefuseAction, TypeInv, TicketsTypeOK, RestOK, targets, change, marks
  <1> QED  BY <1>1, IdleFits, SessionTyped

LEMMA CountsUp ==
  ASSUME TicketsTypeOK, NEW t \in Tickets, acted' = [acted EXCEPT ![t] = @ + 1]
  PROVE  /\ acted' \in [Tickets -> Nat] /\ acted'[t] = acted[t] + 1
         /\ \A u \in Tickets : u # t => acted'[u] = acted[u]
  BY DEF TicketsTypeOK

\* What carrying out a decision or an edit does to the change and to the histories.
LEMMA WritesType ==
  ASSUME TypeInv, NEW t \in Created, Decides(t) \/ Edits(t)
  PROVE  /\ open' \in BOOLEAN /\ says' \in Payloads
         /\ acted' \in [Tickets -> Nat] /\ spent' \subseteq Proposals
  <1>1. t \in Tickets /\ Of(t) \in Proposals /\ About(t) \in Proposal
    BY CreatedRow DEF TypeInv, TicketsStand, Stands
  <1>2. acted' = acted \/ acted' = [acted EXCEPT ![t] = @ + 1]
    BY DEF Decides, Edits
  <1>3. acted' \in [Tickets -> Nat]
    BY <1>1, <1>2, CountsUp DEF TypeInv, TicketsTypeOK
  <1>4. spent' \subseteq Proposals
    BY <1>1 DEF Decides, Edits, SpentWhen, TypeInv, TicketsTypeOK
  <1>5. open' \in BOOLEAN /\ says' \in Payloads
    BY <1>1 DEF Decides, Edits, Proposal, TypeInv, TicketsTypeOK
  <1> QED  BY <1>3, <1>4, <1>5

LEMMA DecideTyped ==
  ASSUME TypeInv, NEW s \in Sessions, DecideOrEdit(s)
  PROVE  TypeInv' /\ RowsStay
  <1>1. session[s].step = "checked" /\ session[s].ticket \in Created
    BY SessionAt DEF DecideOrEdit, Confirms, Held
  <1>2. Decides(session[s].ticket) \/ Edits(session[s].ticket)
    BY DEF DecideOrEdit
  <1>3. /\ open' \in BOOLEAN /\ says' \in Payloads
        /\ acted' \in [Tickets -> Nat] /\ spent' \subseteq Proposals
    BY <1>1, <1>2, WritesType
  <1>4. /\ Goes(s, [session[s] EXCEPT !.step = "acted"])
        /\ UNCHANGED <<proposal, ticket, edits, active, requested, told, marks>>
    BY DEF DecideOrEdit
  <1>5. RestOK'
    BY <1>3, <1>4 DEF TypeInv, TicketsTypeOK, RestOK, marks
  <1> QED  BY <1>1, <1>4, <1>5, GoesOnTyped DEF Confirms, Held

LEMMA LearnTyped ==
  ASSUME TypeInv, NEW s \in Sessions, LearnAlias(s)
  PROVE  TypeInv' /\ RowsStay
  <1>1. /\ session[s].step = "checked" /\ Goes(s, [session[s] EXCEPT !.step = "rebuilt"])
        /\ About(session[s].ticket).kind = "learn"
        /\ UNCHANGED <<proposal, ticket, targets, told, marks>>
    BY DEF LearnAlias
  <1>2. RestOK'
    BY <1>1 DEF TypeInv, TicketsTypeOK, RestOK, targets, change, marks
  <1> QED  BY <1>1, <1>2, GoesOnTyped DEF Confirms, Held

LEMMA ApproveTyped ==
  ASSUME TypeInv, NEW s \in Sessions, ApproveRebuilt(s)
  PROVE  TypeInv' /\ RowsStay
  <1>1. session[s].step = "rebuilt" /\ session[s].ticket \in Created
    BY SessionAt DEF ApproveRebuilt, Confirms
  <1>2. /\ open' \in BOOLEAN /\ says' \in Payloads
        /\ acted' \in [Tickets -> Nat] /\ spent' \subseteq Proposals
    <2>1. CASE Decides(session[s].ticket)
      BY <1>1, <2>1, WritesType
    <2>2. CASE UNCHANGED <<open, says, spent, acted>>
      BY <2>2 DEF TypeInv, TicketsTypeOK
    <2> QED  BY <2>1, <2>2 DEF ApproveRebuilt
  <1>3. /\ Goes(s, [session[s] EXCEPT !.step = "acted"])
        /\ UNCHANGED <<proposal, ticket, edits, active, requested, told, marks>>
    BY DEF ApproveRebuilt
  <1>4. RestOK'
    BY <1>2, <1>3 DEF TypeInv, TicketsTypeOK, RestOK, marks
  <1> QED  BY <1>1, <1>3, <1>4, GoesOnTyped DEF Confirms, Held

LEMMA CheckTyped ==
  ASSUME TypeInv, NEW s \in Sessions, CheckSource(s)
  PROVE  TypeInv' /\ RowsStay
  <1>1. /\ session[s].step = "checked" /\ Goes(s, [session[s] EXCEPT !.step = "queued"])
        /\ About(session[s].ticket).kind = "sync"
        /\ UNCHANGED <<proposal, ticket, targets, told, marks>>
    BY DEF CheckSource
  <1>2. RestOK'
    BY <1>1 DEF TypeInv, TicketsTypeOK, RestOK, targets, change, marks
  <1> QED  BY <1>1, <1>2, GoesOnTyped DEF Confirms, Held

LEMMA EnqueueTyped ==
  ASSUME TypeInv, NEW s \in Sessions, EnqueueSync(s)
  PROVE  TypeInv' /\ RowsStay
  <1>1. /\ session[s].step = "queued" /\ session[s].ticket \in Tickets
        /\ About(session[s].ticket).kind = "sync"
    BY SessionAt, CreatedRow DEF EnqueueSync, Confirms, Held, TypeInv, SessionFits
  <1>2. acted' \in [Tickets -> Nat] /\ requested' \subseteq Tickets /\ active' \subseteq Requests
    <2>1. CASE UNCHANGED <<requested, active, acted>>
      BY <2>1 DEF TypeInv, TicketsTypeOK
    <2>2. CASE /\ requested' = requested \cup {session[s].ticket}
               /\ active' = active \cup {session[s].ticket}
               /\ acted' = [acted EXCEPT ![session[s].ticket] = @ + 1]
      <3>1. acted' \in [Tickets -> Nat]
        BY <1>1, <2>2, CountsUp DEF TypeInv
      <3> QED  BY <1>1, <2>2, <3>1 DEF TypeInv, TicketsTypeOK, Requests
    <2> QED  BY <2>1, <2>2 DEF EnqueueSync
  <1>3. PICK step \in {"joined", "acted"} : Goes(s, [session[s] EXCEPT !.step = step])
    BY DEF EnqueueSync
  <1>4. UNCHANGED <<proposal, ticket, change, told, marks>>
    BY DEF EnqueueSync
  <1>5. RestOK'
    BY <1>2, <1>4 DEF TypeInv, TicketsTypeOK, RestOK, change, marks
  <1> QED  BY <1>1, <1>3, <1>4, <1>5, GoesOnTyped DEF Confirms, Held

LEMMA FailTyped ==
  ASSUME TypeInv, NEW s \in Sessions, FailTicket(s)
  PROVE  TypeInv' /\ RowsStay
  <1>1. session[s].step \in {"checked", "queued", "rebuilt"}
    BY DEF FailTicket
  <1>2. PICK t \in Created : t = session[s].ticket
    BY <1>1, SessionAt DEF Confirms, Held
  <1>3. PICK status : status = Written(ticket[t].status, session[s].was, "FAILED")
    OBVIOUS
  <1>4. status \in Statuses /\ (status = "EXPIRED" => ticket[t].status = "EXPIRED")
    BY <1>3, CreatedRow DEF Written, Statuses, TypeInv
  <1>5. status = "EXPIRED" => About(t).due
    BY <1>4 DEF TypeInv, TicketsStand, Stands
  <1>6. Marks(s, t, status) /\ UNCHANGED <<proposal, targets, marks>>
    BY <1>2, <1>3 DEF FailTicket
  <1> QED  BY <1>4, <1>5, <1>6, MarkTyped

LEMMA FinishTyped ==
  ASSUME TypeInv, NEW s \in Sessions, FinishTicket(s)
  PROVE  TypeInv' /\ RowsStay
  <1>1. session[s].step \in {"joined", "acted"}
    BY DEF FinishTicket
  <1>2. PICK t \in Created : t = session[s].ticket
    BY <1>1, SessionAt DEF Confirms, Held
  <1>3. Of(t) \in Proposals /\ proposal[Of(t)] \in Proposal
    BY CreatedRow DEF TypeInv, TicketsStand, Stands, About
  <1>4. PICK v : v = Written(proposal[Of(t)].status, session[s].answer, "ACCEPTED")
    OBVIOUS
  <1>5. v \in {"OPEN", "ACCEPTED", "REJECTED"}
    BY <1>3, <1>4 DEF Written, Proposal
  <1>6. proposal' = [proposal EXCEPT ![Of(t)].status = v]
    <2>1. proposal' = [proposal EXCEPT ![Of(t)].status = Written(@, session[s].answer, "ACCEPTED")]
      BY <1>2 DEF FinishTicket
    <2> QED  BY <1>3, <1>4, <2>1 DEF TypeInv, TicketsTypeOK
  <1>7. Marks(s, t, "EXECUTED") /\ UNCHANGED <<targets, marks>>
    BY <1>2 DEF FinishTicket
  <1>8. "EXECUTED" \in Statuses
    BY DEF Statuses
  <1> QED  BY <1>5, <1>6, <1>7, <1>8, MarkTyped

LEMMA CancelTyped ==
  ASSUME TypeInv, NEW s \in Sessions, NEW t \in Tickets, CancelTicket(s, t)
  PROVE  TypeInv' /\ RowsStay
  BY MarkTyped DEF CancelTicket, Statuses

LEMMA RecordTyped ==
  ASSUME TypeInv, NEW s \in Sessions, RecordTransition(s)
  PROVE  TypeInv' /\ RowsStay
  <1>1. session[s].ticket \in Tickets
    BY SessionAt, CreatedRow DEF RecordTransition, TypeInv
  <1>2. Goes(s, Idle) /\ UNCHANGED <<proposal, ticket>> /\ RestOK'
    BY <1>1 DEF RecordTransition, TypeInv, TicketsTypeOK, RestOK, targets, change, marks
  <1> QED  BY <1>2, IdleFits, SessionTyped

LEMMA BreakTyped ==
  ASSUME TypeInv, NEW s \in Sessions, SessionBreaks(s)
  PROVE  TypeInv' /\ RowsStay
  <1>1. session[s].step \in {"rebuilt", "acted", "record"} => session[s].ticket \in Tickets
    BY SessionAt, CreatedRow DEF TypeInv, Confirms
  <1>2. Goes(s, Idle) /\ UNCHANGED <<proposal, ticket>> /\ RestOK'
    BY <1>1, TicketBoundsAssumption DEF SessionBreaks, TypeInv, TicketsTypeOK, RestOK, targets, change
  <1> QED  BY <1>2, IdleFits, SessionTyped

LEMMA DriftTyped ==
  ASSUME TypeInv, ChangeDrifts \/ SyncsDrift
  PROVE  TypeInv' /\ RowsStay
  <1>1. UNCHANGED <<proposal, ticket, session, requested, acted, told, marks>>
    BY DEF ChangeDrifts, SyncsDrift
  <1>2. CASE ChangeDrifts
    <2>1. open' \in BOOLEAN /\ says' \in Payloads /\ spent' \subseteq Proposals /\ active' = active
      BY <1>2 DEF ChangeDrifts, SpentWhen, TypeInv, TicketsTypeOK
    <2>2. edits' \in 0 .. MaxEdits
      <3>1. edits' = edits \/ (edits < MaxEdits /\ edits' = edits + 1)
        BY <1>2 DEF ChangeDrifts
      <3> QED  BY <3>1, TicketBoundsAssumption DEF TypeInv, TicketsTypeOK
    <2>3. RestOK'
      BY <1>1, <2>1, <2>2 DEF TypeInv, TicketsTypeOK, RestOK, marks
    <2> QED  BY <1>1, <2>3, TargetTyped
  <1>3. CASE SyncsDrift
    <2>1. active' \subseteq Requests /\ UNCHANGED change
      BY <1>3 DEF SyncsDrift, TypeInv, TicketsTypeOK, Requests
    <2>2. RestOK'
      BY <1>1, <2>1 DEF TypeInv, TicketsTypeOK, RestOK, change, marks
    <2> QED  BY <1>1, <2>2, TargetTyped
  <1> QED  BY <1>2, <1>3

LEMMA TypeInvInit == TicketsInit => TypeInv
  <1> SUFFICES ASSUME TicketsInit  PROVE TypeInv
    OBVIOUS
  <1>1. Created = {} /\ \A s \in Sessions : session[s] = Idle
    BY DEF TicketsInit, Created
  <1>2. SessionsFit /\ TicketsStand
    BY <1>1, IdleFits DEF SessionsFit, TicketsStand
  <1>3. TicketsTypeOK
    BY TicketBoundsAssumption DEF TicketsInit, TicketsTypeOK, Requests
  <1> QED  BY <1>2, <1>3 DEF TypeInv

LEMMA TypeInvStep ==
  ASSUME TypeInv, TicketsNext
  PROVE  TypeInv' /\ RowsStay
  BY CreateTyped, DueTyped, LookTyped, InsertTyped, ConfirmTyped, RefuseTyped, DecideTyped,
     LearnTyped, ApproveTyped, CheckTyped, EnqueueTyped, FailTyped, FinishTyped, CancelTyped,
     RecordTyped, BreakTyped, DriftTyped DEF TicketsNext

LEMMA TypeInvNext == TypeInv /\ [TicketsNext]_ticketVars => TypeInv'
  <1> SUFFICES ASSUME TypeInv, [TicketsNext]_ticketVars  PROVE TypeInv'
    OBVIOUS
  <1>1. CASE TicketsNext
    BY <1>1, TypeInvStep
  <1>2. CASE UNCHANGED ticketVars
    <2>1. UNCHANGED <<proposal, ticket, session>> /\ RestOK'
      BY <1>2 DEF ticketVars, targets, change, marks, TypeInv, TicketsTypeOK, RestOK
    <2> QED  BY <2>1, TargetTyped
  <1> QED  BY <1>1, <1>2

\* Rows, sessions and histories keep the shape the code gives them: a session that
\* confirms a ticket has read it as open or failed, never as expired.
THEOREM TicketsTypeCorrect == TicketsSpec => []TicketsTypeOK
  <1>1. TypeInv => TicketsTypeOK
    BY DEF TypeInv
  <1> QED  BY <1>1, TypeInvInit, TypeInvNext, PTL DEF TicketsSpec

-----------------------------------------------------------------------------
(* The deliveries.                                                         *)

LEMMA ToldStays ==
  ASSUME LastStatusTold, NEW s \in Sessions, session[s].step # "record",
         \A u \in Sessions : u # s => session'[u] = session[u],
         told \subseteq told', unheard \subseteq unheard', Created' = Created
  PROVE  LastStatusTold'
  BY DEF LastStatusTold

LEMMA MarkIsTold ==
  ASSUME TypeInv, LastStatusTold, NEW s \in Sessions, session[s].step # "record",
         NEW t \in Created, NEW status \in Statuses, Marks(s, t, status), unheard' = unheard
  PROVE  LastStatusTold'
  <1>1. /\ Created' = Created /\ told \ {t} \subseteq told'
        /\ session'[s].step = "record" /\ session'[s].ticket = t
        /\ \A u \in Sessions : u # s => session'[u] = session[u]
    <2>1. session'[s] = [step |-> "record", ticket |-> t]
      BY OneMarks DEF TypeInv
    <2>2. session'[s].step = "record" /\ session'[s].ticket = t
      BY <2>1
    <2> QED  BY <2>2, OneMarks DEF TypeInv
  <1> SUFFICES ASSUME NEW v \in Created'
               PROVE  \/ v \in told' \/ v \in unheard'
                      \/ \E u \in Sessions : session'[u].step = "record" /\ session'[u].ticket = v
    BY DEF LastStatusTold
  <1>2. CASE v = t
    BY <1>1, <1>2
  <1>3. CASE v # t
    <2>1. \/ v \in told \/ v \in unheard
          \/ \E u \in Sessions : session[u].step = "record" /\ session[u].ticket = v
      BY <1>1 DEF LastStatusTold
    <2> QED  BY <1>1, <1>3, <2>1
  <1> QED  BY <1>2, <1>3

\* A session that moves, and marks no ticket.
LEMMA MoveIsTold ==
  ASSUME TypeInv, LastStatusTold, NEW s \in Sessions, session[s].step # "record",
         NEW x \in SessionStates, Goes(s, x), UNCHANGED <<ticket, told>>, unheard \subseteq unheard'
  PROVE  LastStatusTold'
  <1>1. \A u \in Sessions : u # s => session'[u] = session[u]
    BY OneGoes DEF TypeInv
  <1>2. Created' = Created
    BY DEF Created
  <1> QED  BY <1>1, <1>2, ToldStays

LEMMA GoesOnIsTold ==
  ASSUME TypeInv, LastStatusTold, NEW s \in Sessions, session[s].step \in Confirms,
         NEW step \in Confirms, Goes(s, [session[s] EXCEPT !.step = step]),
         UNCHANGED <<ticket, told, unheard>>
  PROVE  LastStatusTold'
  <1>1. PICK x : x = [session[s] EXCEPT !.step = step]
    OBVIOUS
  <1>2. x \in SessionStates
    BY <1>1, SessionAt, GoesOnType
  <1> QED  BY <1>1, <1>2, MoveIsTold DEF Confirms, Held

LEMMA InsertIsTold ==
  ASSUME TypeInv, LastStatusTold, NEW s \in Sessions, InsertTicket(s)
  PROVE  LastStatusTold'
  <1>1. session[s].step = "looked" /\ UNCHANGED <<told, unheard>>
    BY DEF InsertTicket, marks
  <1>2. CASE session'[s] = Idle
    <2>1. Goes(s, Idle) /\ ticket' = ticket
      <3>1. ASSUME NEW t \in Tickets, Goes(s, [step |-> "record", ticket |-> t])  PROVE FALSE
        <4>1. session'[s] = [step |-> "record", ticket |-> t]
          BY <3>1, RecordsType, OneGoes DEF TypeInv
        <4> QED  BY <1>2, <4>1 DEF Idle
      <3> QED  BY <3>1 DEF InsertTicket
    <2> QED  BY <1>1, <2>1, IdleFits, MoveIsTold
  <1>3. CASE session'[s] # Idle
    <2>1. PICK t \in Tickets \ Created :
             Created' = Created \cup {t} /\ Goes(s, [step |-> "record", ticket |-> t])
      BY <1>3, InsertAdds
    <2>2. /\ session'[s].step = "record" /\ session'[s].ticket = t
          /\ \A u \in Sessions : u # s => session'[u] = session[u]
      BY <2>1, RecordsType, OneGoes DEF TypeInv
    <2> SUFFICES ASSUME NEW v \in Created'
                 PROVE  \/ v \in told' \/ v \in unheard'
                        \/ \E u \in Sessions : session'[u].step = "record" /\ session'[u].ticket = v
      BY DEF LastStatusTold
    <2>3. CASE v = t
      BY <2>2, <2>3
    <2>4. CASE v # t
      <3>1. \/ v \in told \/ v \in unheard
            \/ \E u \in Sessions : session[u].step = "record" /\ session[u].ticket = v
        BY <2>1, <2>4 DEF LastStatusTold
      <3> QED  BY <1>1, <2>2, <3>1
    <2> QED  BY <2>3, <2>4
  <1> QED  BY <1>2, <1>3

\* A delivery is recorded, or its session breaks off.
LEMMA EndIsTold ==
  ASSUME TypeInv, LastStatusTold, NEW s \in Sessions, RecordTransition(s) \/ SessionBreaks(s)
  PROVE  LastStatusTold'
  <1>1. /\ \A u \in Sessions : u # s => session'[u] = session[u]
        /\ Created' = Created /\ told \subseteq told' /\ unheard \subseteq unheard'
    BY IdleFits, OneGoes DEF RecordTransition, SessionBreaks, TypeInv, Created, marks
  <1>2. session[s].step = "record" => session[s].ticket \in told' \cup unheard'
    BY DEF RecordTransition, SessionBreaks
  <1> SUFFICES ASSUME NEW v \in Created'
               PROVE  \/ v \in told' \/ v \in unheard'
                      \/ \E u \in Sessions : session'[u].step = "record" /\ session'[u].ticket = v
    BY DEF LastStatusTold
  <1>3. \/ v \in told \/ v \in unheard
        \/ \E u \in Sessions : session[u].step = "record" /\ session[u].ticket = v
    BY <1>1 DEF LastStatusTold
  <1> QED  BY <1>1, <1>2, <1>3

\* What becomes of the ticket when it is confirmed, marked or canceled.
LEMMA MarkActs ==
  ASSUME TypeInv, NEW s \in Sessions,
         \/ FailTicket(s) \/ FinishTicket(s)
         \/ \E t \in Tickets : CancelTicket(s, t) \/ (ConfirmTicket(s, t) /\ About(t).due)
  PROVE  \E t \in Created, status \in Statuses :
            /\ Marks(s, t, status) /\ UNCHANGED <<targets, marks>>
            /\ session[s].step \in Confirms \cup {"idle"}
            /\ \/ session[s].step \in Confirms /\ t = session[s].ticket
               \/ session[s].step = "idle"
            /\ session[s].step \in Held \/ ~Locked(t)
            /\ FailTicket(s) => status = Written(ticket[t].status, session[s].was, "FAILED")
            /\ FinishTicket(s) => status = "EXECUTED"
            /\ session[s].step = "idle" => /\ status \in {"CANCELED", "EXPIRED"}
                                           /\ ticket[t].status # "EXECUTED"
  <1>0. Idle.step = "idle"
    BY DEF Idle
  <1>1. CASE FailTicket(s)
    <2>1. session[s].step \in {"checked", "queued", "rebuilt"}
      BY <1>1 DEF FailTicket
    <2>2. PICK t \in Created : t = session[s].ticket
      BY <2>1, SessionAt DEF Confirms, Held
    <2>3. PICK status : status = Written(ticket[t].status, session[s].was, "FAILED")
      OBVIOUS
    <2>4. status \in Statuses
      BY <2>3, CreatedRow DEF Written, Statuses, TypeInv
    <2>5. /\ Marks(s, t, status) /\ UNCHANGED <<targets, marks>>
          /\ session[s].step \in Held \/ ~Locked(t)
      BY <1>1, <2>2, <2>3 DEF FailTicket, Held
    <2>6. ~FinishTicket(s)
      BY <2>1 DEF FinishTicket
    <2> QED  BY <2>1, <2>2, <2>3, <2>4, <2>5, <2>6 DEF Confirms, Held
  <1>2. CASE FinishTicket(s)
    <2>1. session[s].step \in {"joined", "acted"}
      BY <1>2 DEF FinishTicket
    <2>2. PICK t \in Created : t = session[s].ticket
      BY <2>1, SessionAt DEF Confirms, Held
    <2>3. /\ Marks(s, t, "EXECUTED") /\ UNCHANGED <<targets, marks>>
          /\ session[s].step \in Held \/ ~Locked(t)
      BY <1>2, <2>2 DEF FinishTicket, Held
    <2>4. ~FailTicket(s) /\ "EXECUTED" \in Statuses
      BY <2>1 DEF FailTicket, Statuses
    <2> QED  BY <2>1, <2>2, <2>3, <2>4 DEF Confirms, Held
  <1>3. ASSUME NEW t \in Tickets, CancelTicket(s, t)
        PROVE  /\ t \in Created /\ Marks(s, t, "CANCELED") /\ UNCHANGED <<targets, marks>>
               /\ session[s].step = "idle" /\ ~Locked(t) /\ ticket[t].status # "EXECUTED"
    BY <1>0, <1>3 DEF CancelTicket
  <1>4. ASSUME NEW t \in Tickets, ConfirmTicket(s, t), About(t).due
        PROVE  /\ t \in Created /\ Marks(s, t, "EXPIRED") /\ UNCHANGED <<targets, marks>>
               /\ session[s].step = "idle" /\ ~Locked(t) /\ ticket[t].status # "EXECUTED"
    BY <1>0, <1>4 DEF ConfirmTicket
  <1>5. session[s].step = "idle" => ~FailTicket(s) /\ ~FinishTicket(s)
    BY DEF FailTicket, FinishTicket
  <1>6. "CANCELED" \in Statuses /\ "EXPIRED" \in Statuses
    BY DEF Statuses
  <1> QED  BY <1>1, <1>2, <1>3, <1>4, <1>5, <1>6

LEMMA TicketsAreTold ==
  ASSUME TypeInv, LastStatusTold, [TicketsNext]_ticketVars
  PROVE  LastStatusTold'
  <1>1. ASSUME UNCHANGED <<ticket, session, told, unheard>>  PROVE LastStatusTold'
    BY <1>1 DEF LastStatusTold, Created
  <1>2. ASSUME NEW s \in Sessions,
               \/ FailTicket(s) \/ FinishTicket(s)
               \/ \E t \in Tickets : CancelTicket(s, t) \/ (ConfirmTicket(s, t) /\ About(t).due)
        PROVE  LastStatusTold'
    BY <1>2, MarkActs, MarkIsTold DEF Confirms, Held, marks
  <1>3. ASSUME NEW s \in Sessions, NEW t \in Tickets, ConfirmTicket(s, t), ~About(t).due
        PROVE  LastStatusTold'
    <2>1. t \in Created /\ Stands(t) /\ About(t) \in Proposal
      BY <1>3 DEF ConfirmTicket, TypeInv, TicketsStand, Stands
    <2>2. ticket[t].status \in {"OPEN", "FAILED"}
      BY <1>3, <2>1 DEF ConfirmTicket, Stands
    <2>3. About(t).status \in {"OPEN", "ACCEPTED", "REJECTED"}
      BY <2>1 DEF Proposal
    <2>4. [step |-> "checked", ticket |-> t, was |-> ticket[t].status,
           answer |-> About(t).status] \in SessionStates
      BY <2>2, <2>3 DEF SessionStates, Confirming
    <2>5. /\ Goes(s, [step |-> "checked", ticket |-> t, was |-> ticket[t].status,
                      answer |-> About(t).status])
          /\ session[s] = Idle /\ UNCHANGED <<ticket, told, marks>>
      BY <1>3 DEF ConfirmTicket
    <2> QED  BY <2>4, <2>5, MoveIsTold DEF marks, Idle
  <1>4. ASSUME NEW s \in Sessions, NEW p \in Proposals, LookForTicket(s, p)
        PROVE  LastStatusTold'
    BY <1>4, LooksType, MoveIsTold DEF LookForTicket, marks, Idle
  <1>5. ASSUME NEW s \in Sessions, RefuseAction(s)  PROVE LastStatusTold'
    BY <1>5, IdleFits, MoveIsTold DEF RefuseAction, marks
  <1>6. ASSUME NEW s \in Sessions,
               \/ DecideOrEdit(s) \/ LearnAlias(s) \/ ApproveRebuilt(s) \/ CheckSource(s)
               \/ EnqueueSync(s)
        PROVE  LastStatusTold'
    <2>1. /\ session[s].step \in Confirms /\ UNCHANGED <<ticket, told, unheard>>
          /\ \E step \in Confirms : Goes(s, [session[s] EXCEPT !.step = step])
      BY <1>6 DEF DecideOrEdit, LearnAlias, ApproveRebuilt, CheckSource, EnqueueSync, marks,
                  Confirms, Held
    <2> QED  BY <2>1, GoesOnIsTold
  <1>7. ASSUME NEW p \in Proposals, ProposalFallsDue(p) \/ \E k \in Kinds : CreateProposal(p, k)
        PROVE  LastStatusTold'
    BY <1>1, <1>7 DEF ProposalFallsDue, CreateProposal, marks
  <1>8. ASSUME ChangeDrifts \/ SyncsDrift  PROVE LastStatusTold'
    BY <1>1, <1>8 DEF ChangeDrifts, SyncsDrift, marks
  <1>9. CASE UNCHANGED ticketVars
    BY <1>1, <1>9 DEF ticketVars, marks
  <1>10. CASE TicketsNext
    BY <1>2, <1>3, <1>4, <1>5, <1>6, <1>7, <1>8, <1>10, InsertIsTold, EndIsTold DEF TicketsNext
  <1> QED  BY <1>9, <1>10

\* The user is told the status a ticket ends up with, unless a session broke off before
\* its delivery.
THEOREM StatusIsTold == TicketsSpec => []LastStatusTold
  <1>1. TicketsInit => LastStatusTold
    BY DEF TicketsInit, LastStatusTold, Created
  <1> QED  BY <1>1, TypeInvInit, TypeInvNext, TicketsAreTold, PTL DEF TicketsSpec

-----------------------------------------------------------------------------
(* The locks of the tickets.                                               *)

Exclusive ==
    \A s, u \in Sessions : s # u /\ session[s].step \in Held /\ session[u].step \in Held
        => session[s].ticket # session[u].ticket

\* The copy of who has the lock is the ticket's status.
CopiesFit ==
    \A s \in Sessions : session[s].step \in Held => session[s].was = ticket[session[s].ticket].status

LockInv == Exclusive /\ CopiesFit

\* Session s gets no lock, and no other session's ticket is written.
LEMMA LocksStay ==
  ASSUME LockInv, NEW s \in Sessions,
         \A u \in Sessions : u # s => session'[u] = session[u],
         session'[s].step \in Held =>
            /\ session[s].step \in Held /\ session'[s].ticket = session[s].ticket
            /\ session'[s].was = session[s].was
            /\ ticket'[session[s].ticket].status = ticket[session[s].ticket].status,
         \A u \in Sessions : u # s /\ session[u].step \in Held =>
            ticket'[session[u].ticket].status = ticket[session[u].ticket].status
  PROVE  LockInv'
  <1>1. Exclusive'
    BY DEF LockInv, Exclusive
  <1>2. CopiesFit'
    BY DEF LockInv, CopiesFit
  <1> QED  BY <1>1, <1>2 DEF LockInv

LEMMA LockedBy ==
  ASSUME LockInv, NEW s \in Sessions, NEW t,
         (session[s].step \in Held /\ t = session[s].ticket) \/ ~Locked(t)
  PROVE  \A u \in Sessions : u # s /\ session[u].step \in Held => session[u].ticket # t
  BY DEF LockInv, Exclusive, Locked, Held

LEMMA MarkLocks ==
  ASSUME TypeInv, LockInv, NEW s \in Sessions, NEW t \in Created, NEW status \in Statuses,
         Marks(s, t, status), \/ session[s].step \in Held /\ t = session[s].ticket
                              \/ ~Locked(t)
  PROVE  LockInv'
  <1>1. /\ session'[s] = [step |-> "record", ticket |-> t]
        /\ \A u \in Tickets : u # t => ticket'[u] = ticket[u]
        /\ \A u \in Sessions : u # s => session'[u] = session[u]
    BY OneMarks DEF TypeInv
  <1>2. session'[s].step = "record"
    BY <1>1
  <1>3. ASSUME NEW u \in Sessions, u # s, session[u].step \in Held
        PROVE  ticket'[session[u].ticket].status = ticket[session[u].ticket].status
    <2>1. session[u].ticket # t
      BY <1>3, LockedBy
    <2>2. session[u].ticket \in Tickets
      BY <1>3, SessionAt, CreatedRow DEF Confirms, TypeInv
    <2> QED  BY <1>1, <2>1, <2>2
  <1> QED  BY <1>1, <1>2, <1>3, LocksStay DEF Held

LEMMA MoveLocks ==
  ASSUME TypeInv, LockInv, NEW s \in Sessions, NEW x \in SessionStates, Goes(s, x),
         x.step \notin Held, ticket' = ticket
  PROVE  LockInv'
  BY OneGoes, LocksStay DEF TypeInv

LEMMA GoesOnLocks ==
  ASSUME TypeInv, LockInv, NEW s \in Sessions, session[s].step \in Confirms, NEW step \in Confirms,
         Goes(s, [session[s] EXCEPT !.step = step]), step \in Held => session[s].step \in Held,
         ticket' = ticket
  PROVE  LockInv'
  <1>1. /\ session'[s].step = step /\ session'[s].ticket = session[s].ticket
        /\ session'[s].was = session[s].was
        /\ \A u \in Sessions : u # s => session'[u] = session[u]
    BY GoesOn
  <1> QED  BY <1>1, LocksStay

LEMMA ConfirmLocks ==
  ASSUME TypeInv, LockInv, NEW s \in Sessions, NEW t \in Tickets, ConfirmTicket(s, t), ~About(t).due
  PROVE  LockInv'
  <1> DEFINE x == [step |-> "checked", ticket |-> t, was |-> ticket[t].status,
                   answer |-> About(t).status]
  <1>1. t \in Created /\ Stands(t) /\ About(t) \in Proposal
    BY DEF ConfirmTicket, TypeInv, TicketsStand, Stands
  <1>2. ticket[t].status \in {"OPEN", "FAILED"}
    BY <1>1 DEF ConfirmTicket, Stands
  <1>3. About(t).status \in {"OPEN", "ACCEPTED", "REJECTED"}
    BY <1>1 DEF Proposal
  <1>4. x \in SessionStates /\ x.ticket = t /\ x.was = ticket[t].status
    BY <1>2, <1>3 DEF SessionStates, Confirming
  <1>5. Goes(s, x) /\ ticket' = ticket /\ ~Locked(t)
    BY DEF ConfirmTicket
  <1> HIDE DEF x
  <1>6. session'[s] = x /\ \A u \in Sessions : u # s => session'[u] = session[u]
    BY <1>4, <1>5, OneGoes DEF TypeInv
  <1>7. Exclusive'
    BY <1>4, <1>5, <1>6 DEF LockInv, Exclusive, Locked, Held
  <1>8. CopiesFit'
    BY <1>4, <1>5, <1>6 DEF LockInv, CopiesFit
  <1> QED  BY <1>7, <1>8 DEF LockInv

LEMMA InsertLocks ==
  ASSUME TypeInv, LockInv, NEW s \in Sessions, InsertTicket(s)
  PROVE  LockInv'
  <1>1. CASE session'[s] = Idle
    <2>1. Goes(s, Idle) /\ ticket' = ticket
      <3>1. ASSUME NEW t \in Tickets, Goes(s, [step |-> "record", ticket |-> t])  PROVE FALSE
        <4>1. session'[s] = [step |-> "record", ticket |-> t]
          BY <3>1, RecordsType, OneGoes DEF TypeInv
        <4> QED  BY <1>1, <4>1 DEF Idle
      <3> QED  BY <3>1 DEF InsertTicket
    <2> QED  BY <2>1, IdleFits, MoveLocks DEF Idle, Held
  <1>2. CASE session'[s] # Idle
    <2>1. PICK t \in Tickets \ Created :
            /\ \A u \in Tickets : u # t => ticket'[u] = ticket[u]
            /\ Goes(s, [step |-> "record", ticket |-> t])
      BY <1>2, InsertAdds
    <2>2. /\ session'[s].step = "record"
          /\ \A u \in Sessions : u # s => session'[u] = session[u]
      BY <2>1, RecordsType, OneGoes DEF TypeInv
    <2>3. ASSUME NEW u \in Sessions, session[u].step \in Held
          PROVE  ticket'[session[u].ticket].status = ticket[session[u].ticket].status
      <3>1. session[u].ticket \in Created /\ session[u].ticket \in Tickets
        BY <2>3, SessionAt, CreatedRow DEF Confirms, TypeInv
      <3> QED  BY <2>1, <3>1
    <2> QED  BY <2>2, <2>3, LocksStay DEF Held
  <1> QED  BY <1>1, <1>2

LEMMA LockInvNext ==
  ASSUME TypeInv, LockInv, [TicketsNext]_ticketVars
  PROVE  LockInv'
  <1>1. ASSUME UNCHANGED <<ticket, session>>  PROVE LockInv'
    BY <1>1 DEF LockInv, Exclusive, CopiesFit
  <1>2. ASSUME NEW s \in Sessions,
               \/ FailTicket(s) \/ FinishTicket(s)
               \/ \E t \in Tickets : CancelTicket(s, t) \/ (ConfirmTicket(s, t) /\ About(t).due)
        PROVE  LockInv'
    <2>1. PICK t \in Created, status \in Statuses :
             /\ Marks(s, t, status)
             /\ \/ session[s].step \in Confirms /\ t = session[s].ticket
                \/ session[s].step = "idle"
             /\ session[s].step \in Held \/ ~Locked(t)
      BY <1>2, MarkActs
    <2>2. (session[s].step \in Held /\ t = session[s].ticket) \/ ~Locked(t)
      BY <2>1 DEF Held
    <2> QED  BY <2>1, <2>2, MarkLocks
  <1>3. ASSUME NEW s \in Sessions, NEW p \in Proposals, LookForTicket(s, p)
        PROVE  LockInv'
    BY <1>3, LooksType, MoveLocks DEF LookForTicket, Held
  <1>4. ASSUME NEW s \in Sessions, RefuseAction(s) \/ RecordTransition(s) \/ SessionBreaks(s)
        PROVE  LockInv'
    BY <1>4, IdleFits, MoveLocks DEF RefuseAction, RecordTransition, SessionBreaks, Idle, Held
  <1>5. ASSUME NEW s \in Sessions,
               \/ DecideOrEdit(s) \/ LearnAlias(s) \/ ApproveRebuilt(s) \/ CheckSource(s)
               \/ EnqueueSync(s)
        PROVE  LockInv'
    <2>1. /\ session[s].step \in Confirms /\ ticket' = ticket
          /\ \E step \in Confirms : /\ Goes(s, [session[s] EXCEPT !.step = step])
                                    /\ step \in Held => session[s].step \in Held
      BY <1>5 DEF DecideOrEdit, LearnAlias, ApproveRebuilt, CheckSource, EnqueueSync, Confirms, Held
    <2> QED  BY <2>1, GoesOnLocks
  <1>6. ASSUME NEW p \in Proposals, ProposalFallsDue(p) \/ \E k \in Kinds : CreateProposal(p, k)
        PROVE  LockInv'
    BY <1>1, <1>6 DEF ProposalFallsDue, CreateProposal
  <1>7. ASSUME ChangeDrifts \/ SyncsDrift  PROVE LockInv'
    BY <1>1, <1>7 DEF ChangeDrifts, SyncsDrift
  <1>8. CASE UNCHANGED ticketVars
    BY <1>1, <1>8 DEF ticketVars
  <1>9. CASE TicketsNext
    BY <1>2, <1>3, <1>4, <1>5, <1>6, <1>7, <1>9, ConfirmLocks, InsertLocks DEF TicketsNext
  <1> QED  BY <1>8, <1>9

LEMMA LockInvInit == TicketsInit => LockInv
  BY DEF TicketsInit, LockInv, Exclusive, CopiesFit, Idle, Held

\* Only the action of a ticket that is locked, and so open or failed, is carried out.
LEMMA ActsLocked ==
  ASSUME TypeInv, LockInv, TicketsNext, NEW t \in Created, acted'[t] # acted[t],
         About(t).kind # "learn"
  PROVE  ticket[t].status \in {"OPEN", "FAILED"}
  <1>1. ASSUME NEW s \in Sessions, session[s].step \in Held, session[s].ticket = t
        PROVE  ticket[t].status \in {"OPEN", "FAILED"}
    BY <1>1, SessionAt DEF LockInv, CopiesFit, Confirms
  <1>2. ASSUME NEW s \in Sessions, DecideOrEdit(s)  PROVE ticket[t].status \in {"OPEN", "FAILED"}
    <2>1. acted' = [acted EXCEPT ![session[s].ticket] = @ + 1] /\ session[s].step \in Held
      BY <1>2 DEF DecideOrEdit, Decides, Edits, Held
    <2>2. session[s].ticket = t
      BY <2>1, SessionAt, CreatedRow DEF TypeInv, TicketsTypeOK, Confirms
    <2> QED  BY <1>1, <2>1, <2>2
  <1>3. ASSUME NEW s \in Sessions, EnqueueSync(s)  PROVE ticket[t].status \in {"OPEN", "FAILED"}
    <2>1. acted' = [acted EXCEPT ![session[s].ticket] = @ + 1] /\ session[s].step \in Held
      BY <1>3 DEF EnqueueSync, Held
    <2>2. session[s].ticket = t
      BY <2>1, SessionAt, CreatedRow DEF TypeInv, TicketsTypeOK, Confirms
    <2> QED  BY <1>1, <2>1, <2>2
  <1>4. ASSUME NEW s \in Sessions, ApproveRebuilt(s)  PROVE FALSE
    <2>1. acted' = [acted EXCEPT ![session[s].ticket] = @ + 1] /\ session[s].step = "rebuilt"
      BY <1>4 DEF ApproveRebuilt, Decides
    <2>2. session[s].ticket = t
      BY <2>1, SessionAt, CreatedRow DEF TypeInv, TicketsTypeOK, Confirms
    <2> QED  BY <2>1, <2>2, SessionAt DEF SessionFits
  <1>5. \/ acted' = acted
        \/ \E s \in Sessions : DecideOrEdit(s) \/ EnqueueSync(s) \/ ApproveRebuilt(s)
    <2>1. ASSUME NEW s \in Sessions, NEW u, NEW status, Marks(s, u, status), UNCHANGED targets
          PROVE  acted' = acted
      BY <2>1 DEF targets
    <2> QED
      BY DEF TicketsNext, CreateProposal, ProposalFallsDue, LookForTicket, ConfirmTicket,
             CancelTicket, InsertTicket, RefuseAction, LearnAlias, CheckSource, FailTicket,
             FinishTicket, RecordTransition, SessionBreaks, ChangeDrifts, SyncsDrift, targets
  <1> QED  BY <1>2, <1>3, <1>4, <1>5

\* A ticket acts only while it is open or failed: a cancel that the user was told of before
\* is respected, except by label learning.
THEOREM CanceledTicketsRest == TicketsSpec => CancelIsRespected
  <1>1. TypeInv /\ LockInv /\ [TicketsNext]_ticketVars =>
           [\A t \in Created : acted'[t] # acted[t] /\ About(t).kind # "learn"
                => ticket[t].status \in {"OPEN", "FAILED"}]_ticketVars
    BY ActsLocked
  <1> QED  BY <1>1, TypeInvInit, TypeInvNext, LockInvInit, LockInvNext, PTL
           DEF TicketsSpec, CancelIsRespected

-----------------------------------------------------------------------------
(* The actions that were carried out.                                      *)

\* A proposal that was carried out has left nothing of its kind to carry out: the change is
\* decided, or says something else than the snapshot of the edit.
Rests(p) ==
    /\ proposal[p] \in Proposal
    /\ proposal[p].kind # "sync"
    /\ proposal[p].kind \in {"decision", "learn"} => open = FALSE
    /\ proposal[p].kind = "edit" => open = FALSE \/ says # proposal[p].said

\* A sync that was requested is there under the ticket's key.
Requested(t) ==
    /\ t \notin Created => acted[t] = 0 /\ t \notin requested
    /\ t \in Created /\ About(t).kind = "sync" => acted[t] = 0 \/ t \in requested

ActedSession(x) == x.step = "acted" /\ ToCarryOut(Of(x.ticket)) => acted[x.ticket] > 0

SpentRest == \A p \in spent : Rests(p)
ActedFits == \A t \in Tickets : Requested(t)
SessionsActed == \A s \in Sessions : ActedSession(session[s])

ActInv == SpentRest /\ ActedFits /\ SessionsActed

LEMMA CarryStays ==
  ASSUME TypeInv, RowsStay, NEW t \in Created
  PROVE  ToCarryOut(Of(t))' <=> ToCarryOut(Of(t))
  BY AboutStays DEF ToCarryOut, About

\* Others work on the change, or nobody does: what was put back is not spent any longer.
LEMMA RestStays ==
  ASSUME TypeInv, RowsStay, SpentRest, UNCHANGED <<open, says, spent>> \/ ChangeDrifts
  PROVE  SpentRest'
  <1> SUFFICES ASSUME NEW p \in spent'  PROVE Rests(p)'
    BY DEF SpentRest
  <1>1. p \in spent /\ Rests(p) /\ p \in Proposals
    BY DEF ChangeDrifts, SpentWhen, SpentRest, TypeInv, TicketsTypeOK
  <1>2. /\ proposal'[p] \in Proposal /\ proposal'[p].kind = proposal[p].kind
        /\ proposal'[p].said = proposal[p].said
    BY <1>1 DEF RowsStay, Rests
  <1>3. CASE UNCHANGED <<open, says, spent>>
    BY <1>1, <1>2, <1>3 DEF Rests
  <1>4. CASE ChangeDrifts
    <2>1. open' = FALSE \/ (open' = open /\ spent' = SpentWhen(says'))
      BY <1>4 DEF ChangeDrifts
    <2>2. CASE open' = FALSE
      BY <1>1, <1>2, <2>2 DEF Rests
    <2>3. CASE open' = open /\ spent' = SpentWhen(says')
      <3>1. ~(proposal[p].kind = "edit" /\ proposal[p].said = says')
        BY <2>3 DEF SpentWhen
      <3> QED  BY <1>1, <1>2, <2>3, <3>1 DEF Rests
    <2> QED  BY <2>1, <2>2, <2>3
  <1> QED  BY <1>3, <1>4

\* Tickets, syncs and counts stay, or there is a new ticket that has not acted.
LEMMA RequestsStay ==
  ASSUME TypeInv, RowsStay, ActedFits, UNCHANGED <<acted, requested>>
  PROVE  ActedFits'
  <1> SUFFICES ASSUME NEW t \in Tickets  PROVE Requested(t)'
    BY DEF ActedFits
  <1>1. Requested(t)
    BY DEF ActedFits
  <1>2. CASE t \in Created
    <2>1. t \in Created' /\ About(t)'.kind = About(t).kind
      BY <1>2, AboutStays
    <2> QED  BY <1>1, <1>2, <2>1 DEF Requested
  <1>3. CASE t \notin Created
    BY <1>1, <1>3 DEF Requested
  <1> QED  BY <1>2, <1>3

\* The action of ticket t is carried out, and is not a sync or requests the first one.
LEMMA RequestsOne ==
  ASSUME TypeInv, RowsStay, ActedFits, Created' = Created, NEW t \in Created,
         acted' = [acted EXCEPT ![t] = @ + 1],
         requested' = IF About(t).kind = "sync" THEN requested \cup {t} ELSE requested
  PROVE  ActedFits'
  <1> SUFFICES ASSUME NEW u \in Tickets  PROVE Requested(u)'
    BY DEF ActedFits
  <1>1. Requested(u) /\ t \in Tickets
    BY CreatedRow DEF ActedFits, TypeInv
  <1>2. u # t => acted'[u] = acted[u] /\ (u \in requested' <=> u \in requested)
    BY <1>1, CountsUp DEF TypeInv
  <1>3. CASE u \in Created
    <2>1. u \in Created' /\ About(u)'.kind = About(u).kind
      BY <1>3, AboutStays
    <2>2. CASE u = t
      BY <2>1, <2>2 DEF Requested
    <2>3. CASE u # t
      BY <1>1, <1>2, <1>3, <2>1, <2>3 DEF Requested
    <2> QED  BY <2>2, <2>3
  <1>4. CASE u \notin Created
    BY <1>1, <1>2, <1>4 DEF Requested
  <1> QED  BY <1>3, <1>4

\* Counts of actions do not fall.
CountsGrow == \A t \in Created : acted[t] > 0 => acted'[t] > 0

LEMMA CountsGrowing ==
  ASSUME TypeInv, NEW t \in Created, acted' = acted \/ acted' = [acted EXCEPT ![t] = @ + 1]
  PROVE  CountsGrow
  <1> SUFFICES ASSUME NEW u \in Created, acted[u] > 0  PROVE acted'[u] > 0
    BY DEF CountsGrow
  <1>1. CASE acted' = acted
    BY <1>1
  <1>2. CASE acted' = [acted EXCEPT ![t] = @ + 1]
    <2>1. t \in Tickets /\ u \in Tickets /\ acted[t] \in Nat
      BY CreatedRow DEF TypeInv, TicketsTypeOK
    <2>2. acted'[t] = acted[t] + 1 /\ (u # t => acted'[u] = acted[u])
      BY <1>2, <2>1, CountsUp DEF TypeInv
    <2>3. acted'[t] > 0
      BY <2>1, <2>2
    <2> QED  BY <2>2, <2>3
  <1> QED  BY <1>1, <1>2

LEMMA OtherActed ==
  ASSUME TypeInv, RowsStay, SessionsActed, NEW u \in Sessions, session'[u] = session[u], CountsGrow
  PROVE  ActedSession(session[u])'
  <1> SUFFICES ASSUME session[u].step = "acted"  PROVE ActedSession(session[u])'
    BY DEF ActedSession
  <1>1. PICK t \in Created : t = session[u].ticket
    BY SessionAt DEF Confirms
  <1>2. ToCarryOut(Of(t)) => acted[t] > 0
    BY <1>1 DEF SessionsActed, ActedSession
  <1>3. ToCarryOut(Of(t))' => acted'[t] > 0
    BY <1>2, CarryStays DEF CountsGrow
  <1>4. session'[u].ticket = t
    BY <1>1
  <1> QED  BY <1>3, <1>4 DEF ActedSession, ToCarryOut, Of

\* Session s has not gone to "acted", or the action of its ticket t was carried out.
LEMMA ActedStays ==
  ASSUME TypeInv, RowsStay, SessionsActed, NEW s \in Sessions,
         \A u \in Sessions : u # s => session'[u] = session[u], CountsGrow,
         \/ session'[s].step # "acted"
         \/ \E t \in Created : session'[s].ticket = t /\ (ToCarryOut(Of(t)) => acted'[t] > 0)
  PROVE  SessionsActed'
  <1>1. CASE session'[s].step # "acted"
    BY <1>1, OtherActed DEF SessionsActed, ActedSession
  <1>2. ASSUME NEW t \in Created, session'[s].ticket = t, ToCarryOut(Of(t)) => acted'[t] > 0
        PROVE  ActedSession(session[s])'
    <2>1. ToCarryOut(Of(t))' => acted'[t] > 0
      BY <1>2, CarryStays
    <2> QED  BY <1>2, <2>1 DEF ActedSession, ToCarryOut, Of
  <1> QED  BY <1>1, <1>2, OtherActed DEF SessionsActed

\* A session that moves, and carries out no action.
LEMMA MoveActs ==
  ASSUME TypeInv, RowsStay, ActInv, NEW s \in Sessions,
         \A u \in Sessions : u # s => session'[u] = session[u],
         session'[s].step # "acted", UNCHANGED targets
  PROVE  ActInv'
  <1>1. UNCHANGED <<open, says, spent>> /\ UNCHANGED <<acted, requested>> /\ CountsGrow
    BY DEF targets, change, CountsGrow
  <1>2. SpentRest' /\ ActedFits'
    BY <1>1, RestStays, RequestsStay DEF ActInv
  <1>3. SessionsActed'
    BY <1>1, ActedStays DEF ActInv
  <1> QED  BY <1>2, <1>3 DEF ActInv

\* The change is decided by ticket t, ...
LEMMA DecidesRest ==
  ASSUME TypeInv, RowsStay, SpentRest, NEW t \in Created, About(t).kind # "sync", Decides(t)
  PROVE  SpentRest'
  <1> SUFFICES ASSUME NEW p \in spent'  PROVE Rests(p)'
    BY DEF SpentRest
  <1>1. p \in spent \/ p = Of(t)
    BY DEF Decides
  <1>2. Of(t) \in Proposals /\ proposal[Of(t)] \in Proposal
    BY CreatedRow DEF TypeInv, TicketsStand, Stands, About
  <1>3. p \in Proposals /\ proposal[p] \in Proposal /\ proposal[p].kind # "sync"
    BY <1>1, <1>2 DEF SpentRest, Rests, About, TypeInv, TicketsTypeOK
  <1>4. proposal'[p] \in Proposal /\ proposal'[p].kind = proposal[p].kind
    BY <1>3 DEF RowsStay
  <1>5. open' = FALSE
    BY DEF Decides
  <1> QED  BY <1>3, <1>4, <1>5 DEF Rests

\* ... or rewritten by it: the edits made of what it says now are not spent any longer, and
\* the edit itself was made of something else.
LEMMA EditsRest ==
  ASSUME TypeInv, RowsStay, SpentRest, NEW t \in Created, About(t).kind = "edit", Fits(t), Edits(t)
  PROVE  SpentRest'
  <1>1. CASE says' = says
    <2>1. UNCHANGED <<open, says, spent>>
      BY <1>1 DEF Edits
    <2> QED  BY <2>1, RestStays
  <1>2. CASE says' # says
    <2> SUFFICES ASSUME NEW p \in spent'  PROVE Rests(p)'
      BY DEF SpentRest
    <2>1. p \in SpentWhen(says') \/ p = Of(t)
      BY <1>2 DEF Edits
    <2>2. Of(t) \in Proposals /\ proposal[Of(t)] \in Proposal
      BY CreatedRow DEF TypeInv, TicketsStand, Stands, About
    <2>3. proposal[Of(t)].kind = "edit" /\ proposal[Of(t)].said = says
      BY DEF Fits, About
    <2>4. open' = open
      BY DEF Edits
    <2>5. /\ p \in Proposals /\ proposal[p] \in Proposal /\ proposal[p].kind # "sync"
          /\ proposal[p].kind \in {"decision", "learn"} => open = FALSE
          /\ proposal[p].kind = "edit" => says' # proposal[p].said
      <3>1. CASE p = Of(t)
        BY <1>2, <2>2, <2>3, <3>1
      <3>2. CASE p \in SpentWhen(says')
        <4>1. p \in spent /\ ~(proposal[p].kind = "edit" /\ proposal[p].said = says')
          BY <3>2 DEF SpentWhen
        <4> QED  BY <4>1 DEF SpentRest, Rests, TypeInv, TicketsTypeOK
      <3> QED  BY <2>1, <3>1, <3>2
    <2>6. /\ proposal'[p] \in Proposal /\ proposal'[p].kind = proposal[p].kind
          /\ proposal'[p].said = proposal[p].said
      BY <2>5 DEF RowsStay
    <2> QED  BY <2>4, <2>5, <2>6 DEF Rests
  <1> QED  BY <1>1, <1>2

\* A decision or an edit: the change was pending, and for an edit it said what the snapshot
\* says.
LEMMA DecideActs ==
  ASSUME TypeInv, RowsStay, ActInv, NEW s \in Sessions, DecideOrEdit(s)
  PROVE  ActInv'
  <1>1. session[s].step = "checked"
    BY DEF DecideOrEdit
  <1>2. PICK t \in Created : t = session[s].ticket
    BY <1>1, SessionAt DEF Confirms, Held
  <1>3. /\ Fits(t)
        /\ \/ About(t).kind = "decision" /\ Decides(t)
           \/ About(t).kind = "edit" /\ Edits(t)
    BY <1>2 DEF DecideOrEdit
  <1>4. SpentRest'
    BY <1>3, DecidesRest, EditsRest DEF ActInv
  <1>5. requested' = requested /\ Created' = Created
    BY DEF DecideOrEdit, Created
  <1>6. \/ acted' = [acted EXCEPT ![t] = @ + 1]
        \/ acted' = acted /\ About(t).kind = "edit" /\ About(t).wants = About(t).said
    BY <1>3 DEF Decides, Edits, Fits
  <1>7. ActedFits'
    <2>1. CASE acted' = acted
      BY <1>5, <2>1, RequestsStay DEF ActInv
    <2>2. CASE acted' = [acted EXCEPT ![t] = @ + 1]
      BY <1>3, <1>5, <2>2, RequestsOne DEF ActInv
    <2> QED  BY <1>6, <2>1, <2>2
  <1>8. session'[s].ticket = t /\ \A u \in Sessions : u # s => session'[u] = session[u]
    BY <1>1, <1>2, GoesOn DEF DecideOrEdit, Confirms, Held
  <1>9. ToCarryOut(Of(t)) => acted'[t] > 0
    <2>1. CASE acted' = [acted EXCEPT ![t] = @ + 1]
      <3>1. acted'[t] = acted[t] + 1 /\ acted[t] \in Nat
        BY <2>1, CreatedRow, CountsUp DEF TypeInv, TicketsTypeOK
      <3> QED  BY <3>1
    <2>2. CASE About(t).kind = "edit" /\ About(t).wants = About(t).said
      BY <2>2 DEF ToCarryOut, About
    <2> QED  BY <1>6, <2>1, <2>2
  <1>10. SessionsActed'
    BY <1>6, <1>8, <1>9, CountsGrowing, ActedStays DEF ActInv
  <1> QED  BY <1>4, <1>7, <1>10 DEF ActInv

\* A learnt label: the change is approved if it is pending.
LEMMA ApproveActs ==
  ASSUME TypeInv, RowsStay, ActInv, NEW s \in Sessions, ApproveRebuilt(s)
  PROVE  ActInv'
  <1>1. session[s].step = "rebuilt"
    BY DEF ApproveRebuilt
  <1>2. PICK t \in Created : t = session[s].ticket
    BY <1>1, SessionAt DEF Confirms
  <1>3. About(t).kind = "learn" /\ ~ToCarryOut(Of(t))
    BY <1>1, <1>2, SessionAt DEF SessionFits, ToCarryOut, About
  <1>4. Created' = Created /\ requested' = requested
    BY DEF ApproveRebuilt, Created
  <1>5. session'[s].ticket = t /\ \A u \in Sessions : u # s => session'[u] = session[u]
    BY <1>1, <1>2, GoesOn DEF ApproveRebuilt, Confirms
  <1>6. CASE Decides(t)
    <2>1. acted' = [acted EXCEPT ![t] = @ + 1]
      BY <1>6 DEF Decides
    <2>2. SpentRest' /\ ActedFits'
      BY <1>3, <1>4, <1>6, <2>1, DecidesRest, RequestsOne DEF ActInv
    <2>3. SessionsActed'
      BY <1>3, <1>5, <2>1, CountsGrowing, ActedStays DEF ActInv
    <2> QED  BY <2>2, <2>3 DEF ActInv
  <1>7. CASE UNCHANGED <<open, says, spent, acted>>
    <2>1. SpentRest' /\ ActedFits'
      BY <1>4, <1>7, RestStays, RequestsStay DEF ActInv
    <2>2. SessionsActed'
      BY <1>3, <1>5, <1>7, CountsGrowing, ActedStays DEF ActInv
    <2> QED  BY <2>1, <2>2 DEF ActInv
  <1> QED  BY <1>2, <1>6, <1>7 DEF ApproveRebuilt

\* A sync is requested under the ticket's key.
LEMMA EnqueueActs ==
  ASSUME TypeInv, RowsStay, ActInv, NEW s \in Sessions, EnqueueSync(s)
  PROVE  ActInv'
  <1>1. session[s].step = "queued" /\ UNCHANGED <<open, says, spent>>
    BY DEF EnqueueSync, change
  <1>2. PICK t \in Created : t = session[s].ticket
    BY <1>1, SessionAt DEF Confirms, Held
  <1>3. About(t).kind = "sync" /\ ~ToCarryOut(Of(t))
    BY <1>1, <1>2, SessionAt DEF SessionFits, ToCarryOut, About
  <1>4. Created' = Created
    BY DEF EnqueueSync, Created
  <1>5. PICK step \in {"joined", "acted"} : Goes(s, [session[s] EXCEPT !.step = step])
    BY DEF EnqueueSync
  <1>6. session'[s].ticket = t /\ \A u \in Sessions : u # s => session'[u] = session[u]
    BY <1>1, <1>2, <1>5, GoesOn DEF Confirms, Held
  <1>7. SpentRest'
    BY <1>1, RestStays DEF ActInv
  <1>8. \/ UNCHANGED <<requested, acted>>
        \/ requested' = requested \cup {t} /\ acted' = [acted EXCEPT ![t] = @ + 1]
    BY <1>2 DEF EnqueueSync
  <1>9. ActedFits'
    BY <1>3, <1>4, <1>8, RequestsStay, RequestsOne DEF ActInv
  <1>10. SessionsActed'
    BY <1>3, <1>6, <1>8, CountsGrowing, ActedStays DEF ActInv
  <1> QED  BY <1>7, <1>9, <1>10 DEF ActInv

\* Time passes, or others work on the target.
LEMMA TargetActs ==
  ASSUME TypeInv, RowsStay, ActInv, UNCHANGED <<session, acted, requested>>,
         UNCHANGED change \/ ChangeDrifts
  PROVE  ActInv'
  <1>1. SpentRest' /\ ActedFits'
    BY RestStays, RequestsStay DEF ActInv, change
  <1>2. CountsGrow
    BY DEF CountsGrow
  <1>3. SessionsActed'
    BY <1>2, OtherActed DEF ActInv, SessionsActed
  <1> QED  BY <1>1, <1>3 DEF ActInv

\* Where the steps that carry out no action leave their session.
LEMMA MovesTo ==
  ASSUME TypeInv, NEW s \in Sessions,
         \/ \E p \in Proposals : LookForTicket(s, p)
         \/ \E t \in Tickets : ConfirmTicket(s, t) \/ CancelTicket(s, t)
         \/ InsertTicket(s) \/ RefuseAction(s) \/ LearnAlias(s) \/ CheckSource(s)
         \/ FailTicket(s) \/ FinishTicket(s) \/ RecordTransition(s) \/ SessionBreaks(s)
  PROVE  /\ \A u \in Sessions : u # s => session'[u] = session[u]
         /\ session'[s].step # "acted"
         /\ UNCHANGED targets
  <1>0. UNCHANGED targets
    BY DEF LookForTicket, ConfirmTicket, CancelTicket, InsertTicket, RefuseAction, LearnAlias,
           CheckSource, FailTicket, FinishTicket, RecordTransition, SessionBreaks
  <1>1. ASSUME NEW p \in Proposals, LookForTicket(s, p)
        PROVE  session'[s].step = "looked" /\ \A u \in Sessions : u # s => session'[u] = session[u]
    BY <1>1, LooksType, OneGoes DEF LookForTicket, TypeInv
  <1>2. ASSUME NEW t \in Tickets, ConfirmTicket(s, t), ~About(t).due
        PROVE  session'[s].step = "checked" /\ \A u \in Sessions : u # s => session'[u] = session[u]
    <2> DEFINE x == [step |-> "checked", ticket |-> t, was |-> ticket[t].status,
                     answer |-> About(t).status]
    <2>1. t \in Created /\ Stands(t) /\ About(t) \in Proposal
      BY <1>2 DEF ConfirmTicket, TypeInv, TicketsStand, Stands
    <2>2. ticket[t].status \in {"OPEN", "FAILED"}
      BY <1>2, <2>1 DEF ConfirmTicket, Stands
    <2>3. About(t).status \in {"OPEN", "ACCEPTED", "REJECTED"}
      BY <2>1 DEF Proposal
    <2>4. x \in SessionStates /\ x.step = "checked"
      BY <2>2, <2>3 DEF SessionStates, Confirming
    <2>5. Goes(s, x)
      BY <1>2 DEF ConfirmTicket
    <2> HIDE DEF x
    <2> QED  BY <2>4, <2>5, OneGoes DEF TypeInv
  <1>3. ASSUME \/ FailTicket(s) \/ FinishTicket(s)
               \/ \E t \in Tickets : CancelTicket(s, t) \/ (ConfirmTicket(s, t) /\ About(t).due)
        PROVE  session'[s].step = "record" /\ \A u \in Sessions : u # s => session'[u] = session[u]
    <2>1. PICK t \in Created, status \in Statuses : Marks(s, t, status)
      BY <1>3, MarkActs
    <2>2. /\ session'[s] = [step |-> "record", ticket |-> t]
          /\ \A u \in Sessions : u # s => session'[u] = session[u]
      BY <2>1, OneMarks DEF TypeInv
    <2>3. session'[s].step = "record"
      BY <2>2
    <2> QED  BY <2>2, <2>3
  <1>4. ASSUME InsertTicket(s)
        PROVE  /\ session'[s].step \in {"idle", "record"}
               /\ \A u \in Sessions : u # s => session'[u] = session[u]
    <2>1. ASSUME Goes(s, Idle)
          PROVE  session'[s].step = "idle" /\ \A u \in Sessions : u # s => session'[u] = session[u]
      BY <2>1, IdleFits, OneGoes DEF TypeInv, Idle
    <2>2. ASSUME NEW t \in Tickets, Goes(s, [step |-> "record", ticket |-> t])
          PROVE  session'[s].step = "record" /\ \A u \in Sessions : u # s => session'[u] = session[u]
      BY <2>2, RecordsType, OneGoes DEF TypeInv
    <2> QED  BY <1>4, <2>1, <2>2 DEF InsertTicket
  <1>5. ASSUME RefuseAction(s) \/ RecordTransition(s) \/ SessionBreaks(s)
        PROVE  session'[s].step = "idle" /\ \A u \in Sessions : u # s => session'[u] = session[u]
    BY <1>5, IdleFits, OneGoes DEF RefuseAction, RecordTransition, SessionBreaks, TypeInv, Idle
  <1>6. ASSUME LearnAlias(s) \/ CheckSource(s)
        PROVE  /\ session'[s].step \in {"rebuilt", "queued"}
               /\ \A u \in Sessions : u # s => session'[u] = session[u]
    <2>1. /\ session[s].step \in Confirms
          /\ \E step \in {"rebuilt", "queued"} : Goes(s, [session[s] EXCEPT !.step = step])
      BY <1>6 DEF LearnAlias, CheckSource, Confirms, Held
    <2> QED  BY <2>1, GoesOn DEF Confirms, Held
  <1>7. ASSUME NEW t \in Tickets, ConfirmTicket(s, t) \/ CancelTicket(s, t)
        PROVE  /\ session'[s].step \in {"checked", "record"}
               /\ \A u \in Sessions : u # s => session'[u] = session[u]
    BY <1>2, <1>3, <1>7
  <1> QED  BY <1>0, <1>1, <1>3, <1>4, <1>5, <1>6, <1>7

LEMMA ActInvNext ==
  ASSUME TypeInv, ActInv, [TicketsNext]_ticketVars
  PROVE  ActInv'
  <1>1. CASE UNCHANGED ticketVars
    <2>1. RowsStay /\ UNCHANGED <<session, acted, requested, change>>
      BY <1>1 DEF ticketVars, targets, RowsStay, Created
    <2> QED  BY <2>1, TargetActs
  <1>2. CASE TicketsNext
    <2>0. RowsStay
      BY <1>2, TypeInvStep
    <2>1. ASSUME NEW s \in Sessions, DecideOrEdit(s) \/ ApproveRebuilt(s) \/ EnqueueSync(s)
          PROVE  ActInv'
      BY <2>0, <2>1, DecideActs, ApproveActs, EnqueueActs
    <2>2. ASSUME NEW s \in Sessions,
               \/ \E p \in Proposals : LookForTicket(s, p)
               \/ \E t \in Tickets : ConfirmTicket(s, t) \/ CancelTicket(s, t)
               \/ InsertTicket(s) \/ RefuseAction(s) \/ LearnAlias(s) \/ CheckSource(s)
               \/ FailTicket(s) \/ FinishTicket(s) \/ RecordTransition(s) \/ SessionBreaks(s)
          PROVE  ActInv'
      BY <2>0, <2>2, MovesTo, MoveActs
    <2>3. ASSUME NEW p \in Proposals, ProposalFallsDue(p) \/ \E k \in Kinds : CreateProposal(p, k)
          PROVE  ActInv'
      <3>1. UNCHANGED <<session, acted, requested, change>>
        BY <2>3 DEF ProposalFallsDue, CreateProposal, targets
      <3> QED  BY <2>0, <3>1, TargetActs
    <2>4. ASSUME ChangeDrifts  PROVE ActInv'
      <3>1. UNCHANGED <<session, acted, requested>>
        BY <2>4 DEF ChangeDrifts
      <3> QED  BY <2>0, <2>4, <3>1, TargetActs
    <2>5. ASSUME SyncsDrift  PROVE ActInv'
      <3>1. UNCHANGED <<session, acted, requested, change>>
        BY <2>5 DEF SyncsDrift
      <3> QED  BY <2>0, <3>1, TargetActs
    <2> QED  BY <1>2, <2>1, <2>2, <2>3, <2>4, <2>5 DEF TicketsNext
  <1> QED  BY <1>1, <1>2

LEMMA ActInvInit == TicketsInit => ActInv
  <1> SUFFICES ASSUME TicketsInit  PROVE ActInv
    OBVIOUS
  <1>1. Created = {} /\ requested = {} /\ \A t \in Tickets : acted[t] = 0
    BY DEF TicketsInit, Created
  <1>2. \A s \in Sessions : session[s].step = "idle"
    BY DEF TicketsInit, Idle
  <1>3. SpentRest /\ ActedFits
    BY <1>1 DEF TicketsInit, SpentRest, ActedFits, Requested
  <1>4. SessionsActed
    BY <1>2 DEF SessionsActed, ActedSession
  <1> QED  BY <1>3, <1>4 DEF ActInv

\* An action is carried out by a decision, an edit, a label or a request for a sync.
LEMMA WhoActs ==
  ASSUME TicketsNext
  PROVE  \/ acted' = acted
         \/ \E s \in Sessions : DecideOrEdit(s) \/ EnqueueSync(s) \/ ApproveRebuilt(s)
  <1>1. ASSUME NEW s \in Sessions, NEW u, NEW status, Marks(s, u, status), UNCHANGED targets
        PROVE  acted' = acted
    BY <1>1 DEF targets
  <1> QED
    BY DEF TicketsNext, CreateProposal, ProposalFallsDue, LookForTicket, ConfirmTicket,
           CancelTicket, InsertTicket, RefuseAction, LearnAlias, CheckSource, FailTicket,
           FinishTicket, RecordTransition, SessionBreaks, ChangeDrifts, SyncsDrift, targets

\* What is spent is not carried out: a decision and a label look whether the change is
\* pending, an edit whether it says what the snapshot says.
LEMMA ActsUnspent ==
  ASSUME TypeInv, ActInv, TicketsNext, NEW t \in Created, acted'[t] # acted[t]
  PROVE  IF About(t).kind = "sync" THEN acted[t] = 0 ELSE Of(t) \notin spent
  <1>1. ASSUME NEW s \in Sessions, NEW u \in Created, u = session[s].ticket,
               acted' = [acted EXCEPT ![u] = @ + 1]
        PROVE  u = t
    BY <1>1, CreatedRow, CountsUp DEF TypeInv
  <1>2. ASSUME NEW s \in Sessions, DecideOrEdit(s)
        PROVE  About(t).kind # "sync" /\ Of(t) \notin spent
    <2>1. session[s].step = "checked"
      BY <1>2 DEF DecideOrEdit
    <2>2. PICK u \in Created : u = session[s].ticket
      BY <2>1, SessionAt DEF Confirms, Held
    <2>3. Decides(u) \/ Edits(u)
      BY <1>2, <2>2 DEF DecideOrEdit
    <2>4. acted' = acted \/ acted' = [acted EXCEPT ![u] = @ + 1]
      BY <2>3 DEF Decides, Edits
    <2>5. u = t
      BY <1>1, <2>2, <2>4
    <2>6. Fits(t) /\ About(t).kind \in {"decision", "edit"}
      BY <1>2, <2>2, <2>5 DEF DecideOrEdit
    <2>7. open # FALSE /\ (About(t).kind = "edit" => About(t).said = says)
      BY <2>6 DEF Fits
    <2>8. Of(t) \in spent => Rests(Of(t))
      BY DEF ActInv, SpentRest
    <2> QED  BY <2>6, <2>7, <2>8 DEF Rests, About
  <1>3. ASSUME NEW s \in Sessions, EnqueueSync(s)
        PROVE  About(t).kind = "sync" /\ acted[t] = 0
    <2>1. session[s].step = "queued"
      BY <1>3 DEF EnqueueSync
    <2>2. PICK u \in Created : u = session[s].ticket
      BY <2>1, SessionAt DEF Confirms, Held
    <2>3. acted' = acted \/ (u \notin requested /\ acted' = [acted EXCEPT ![u] = @ + 1])
      BY <1>3, <2>2 DEF EnqueueSync
    <2>4. u = t /\ u \notin requested
      BY <1>1, <2>2, <2>3
    <2>5. About(t).kind = "sync"
      BY <2>1, <2>2, <2>4, SessionAt DEF SessionFits
    <2>6. Requested(t)
      BY CreatedRow DEF ActInv, ActedFits, TypeInv
    <2> QED  BY <2>4, <2>5, <2>6 DEF Requested
  <1>4. ASSUME NEW s \in Sessions, ApproveRebuilt(s)
        PROVE  About(t).kind # "sync" /\ Of(t) \notin spent
    <2>1. session[s].step = "rebuilt"
      BY <1>4 DEF ApproveRebuilt
    <2>2. PICK u \in Created : u = session[s].ticket
      BY <2>1, SessionAt DEF Confirms
    <2>3. acted' = acted \/ (open /\ Decides(u))
      BY <1>4, <2>2 DEF ApproveRebuilt
    <2>4. u = t /\ open # FALSE
      <3>1. acted' = [acted EXCEPT ![u] = @ + 1] /\ open
        BY <2>3 DEF Decides
      <3>2. u = t
        BY <1>1, <2>2, <3>1
      <3> QED  BY <3>1, <3>2
    <2>5. About(t).kind = "learn"
      BY <2>1, <2>2, <2>4, SessionAt DEF SessionFits
    <2>6. Of(t) \in spent => Rests(Of(t))
      BY DEF ActInv, SpentRest
    <2> QED  BY <2>4, <2>5, <2>6 DEF Rests, About
  <1> QED  BY <1>2, <1>3, <1>4, WhoActs

\* However often tickets are confirmed, retried after a failure or made anew, the action of
\* a proposal is not carried out again: a decision and the approval of a learnt label never,
\* an edit only if somebody else has made the change say again what the edit was made of.
\* A ticket requests one sync at most.
THEOREM ProposalActsOnce == TicketsSpec => ActedOnce
  <1>1. TypeInv /\ ActInv /\ [TicketsNext]_ticketVars =>
           [\A t \in Created : acted'[t] # acted[t] =>
               IF About(t).kind = "sync" THEN acted[t] = 0 ELSE Of(t) \notin spent]_ticketVars
    BY ActsUnspent
  <1> QED  BY <1>1, TypeInvInit, TypeInvNext, ActInvInit, ActInvNext, PTL
           DEF TicketsSpec, ActedOnce

-----------------------------------------------------------------------------
(* What tickets and proposals say of their actions.                        *)

\* A ticket that acted and does not say so.
Excused(t) ==
    \/ t \in broke
    \/ About(t).kind = "learn"
    \/ \E s \in Sessions : session[s].step = "acted" /\ session[s].ticket = t

CountsAsDone(p) ==
    proposal[p] # NoProposal /\ proposal[p].status = "ACCEPTED" /\ ToCarryOut(p)

LEMMA OutcomeParts ==
  OutcomeIsTrue <=>
    /\ \A t \in Created :
         ticket[t].status = "EXECUTED" /\ ToCarryOut(Of(t)) => acted[t] > 0
    /\ \A t \in Created : acted[t] > 0 /\ ticket[t].status # "EXECUTED" => Excused(t)
    /\ \A p \in Proposals : CountsAsDone(p) => \E t \in Created : Of(t) = p /\ acted[t] > 0
  BY DEF OutcomeIsTrue, Excused, CountsAsDone

\* What a step has to keep.
LEMMA OutcomeKept ==
  ASSUME TypeInv, RowsStay, OutcomeIsTrue,
         \A t \in Created : acted[t] > 0 => acted'[t] > 0,
         \A t \in Created : ticket'[t].status = "EXECUTED" /\ ToCarryOut(Of(t))
             => ticket[t].status = "EXECUTED" \/ acted'[t] > 0,
         \A t \in Created : acted'[t] > 0 /\ ticket'[t].status # "EXECUTED" => Excused(t)',
         \A t \in Created' : t \notin Created => acted'[t] = 0 /\ ticket'[t].status = "OPEN",
         \A p \in Proposals : CountsAsDone(p)' =>
             CountsAsDone(p) \/ \E t \in Created : Of(t) = p /\ acted'[t] > 0
  PROVE  OutcomeIsTrue'
  <1>1. ASSUME NEW t \in Created'
        PROVE  /\ ticket'[t].status = "EXECUTED" /\ ToCarryOut(Of(t))'
                    => acted'[t] > 0
               /\ acted'[t] > 0 /\ ticket'[t].status # "EXECUTED" => Excused(t)'
    <2>1. CASE t \in Created
      <3>1. ToCarryOut(Of(t))' <=> ToCarryOut(Of(t))
        BY <2>1, CarryStays
      <3>2. ticket[t].status = "EXECUTED" /\ ToCarryOut(Of(t)) => acted[t] > 0
        BY <2>1, OutcomeParts
      <3> QED  BY <2>1, <3>1, <3>2
    <2>2. CASE t \notin Created
      BY <2>2
    <2> QED  BY <2>1, <2>2
  <1>2. ASSUME NEW p \in Proposals, CountsAsDone(p)'
        PROVE  \E t \in Created' : Of(t)' = p /\ acted'[t] > 0
    <2>1. PICK t \in Created : Of(t) = p /\ acted'[t] > 0
      BY <1>2, OutcomeParts
    <2> QED  BY <2>1, AboutStays
  <1> QED  BY <1>1, <1>2 DEF OutcomeIsTrue, Excused, CountsAsDone

\* The excuse of ticket t lasts, unless it is session s that goes on with it.
LEMMA ExcusedStays ==
  ASSUME TypeInv, RowsStay, NEW t \in Created, Excused(t), NEW s \in Sessions,
         \A u \in Sessions : u # s => session'[u] = session[u],
         session[s].step = "acted" /\ session[s].ticket = t => t \in broke',
         broke \subseteq broke'
  PROVE  Excused(t)'
  <1>1. About(t)'.kind = About(t).kind
    BY AboutStays
  <1>2. CASE \E u \in Sessions : session[u].step = "acted" /\ session[u].ticket = t
    BY <1>2 DEF Excused
  <1>3. CASE t \in broke \/ About(t).kind = "learn"
    BY <1>1, <1>3 DEF Excused
  <1> QED  BY <1>2, <1>3 DEF Excused

\* A session that carries out no action and marks no ticket.
LEMMA MoveOutcome ==
  ASSUME TypeInv, RowsStay, OutcomeIsTrue, NEW s \in Sessions,
         \A u \in Sessions : u # s => session'[u] = session[u],
         session[s].step = "acted" => session[s].ticket \in broke',
         broke \subseteq broke', UNCHANGED <<proposal, ticket, acted>>
  PROVE  OutcomeIsTrue'
  <1>1. Created' = Created
    BY DEF Created
  <1>2. ASSUME NEW t \in Created, acted[t] > 0, ticket[t].status # "EXECUTED"  PROVE Excused(t)'
    <2>1. Excused(t)
      BY <1>2, OutcomeParts
    <2> QED  BY <2>1, ExcusedStays
  <1>3. \A p \in Proposals : CountsAsDone(p)' => CountsAsDone(p)
    BY DEF CountsAsDone, ToCarryOut
  <1> QED  BY <1>1, <1>2, <1>3, OutcomeKept

LEMMA InsertOutcome ==
  ASSUME TypeInv, RowsStay, ActInv, OutcomeIsTrue, NEW s \in Sessions, InsertTicket(s)
  PROVE  OutcomeIsTrue'
  <1>1. /\ session[s].step = "looked" /\ proposal' = proposal /\ acted' = acted /\ broke' = broke
        /\ \A u \in Sessions : u # s => session'[u] = session[u]
    BY MovesTo DEF InsertTicket, targets, marks
  <1>2. CASE ticket' = ticket
    BY <1>1, <1>2, MoveOutcome
  <1>3. CASE ticket' # ticket
    <2>1. session'[s] # Idle
      <3>1. PICK t \in Tickets : Goes(s, [step |-> "record", ticket |-> t])
        BY <1>3 DEF InsertTicket
      <3>2. session'[s].step = "record"
        BY <3>1, RecordsType, OneGoes DEF TypeInv
      <3> QED  BY <3>2 DEF Idle
    <2>2. PICK t \in Tickets \ Created :
            /\ Created' = Created \cup {t} /\ ticket'[t].status = "OPEN"
            /\ \A u \in Tickets : u # t => ticket'[u] = ticket[u]
      BY <2>1, InsertAdds
    <2>3. acted'[t] = 0
      BY <1>1, <2>2 DEF ActInv, ActedFits, Requested
    <2>4. \A u \in Created : ticket'[u] = ticket[u]
      BY <2>2, CreatedRow DEF TypeInv
    <2>5. ASSUME NEW u \in Created, acted[u] > 0, ticket[u].status # "EXECUTED"  PROVE Excused(u)'
      <3>1. Excused(u)
        BY <2>5, OutcomeParts
      <3> QED  BY <1>1, <3>1, ExcusedStays
    <2>6. \A p \in Proposals : CountsAsDone(p)' => CountsAsDone(p)
      BY <1>1 DEF CountsAsDone, ToCarryOut
    <2> QED  BY <1>1, <2>2, <2>3, <2>4, <2>5, <2>6, OutcomeKept
  <1> QED  BY <1>2, <1>3

\* An action is carried out, or was before: its session is about to say so.
LEMMA ActsOutcome ==
  ASSUME TypeInv, RowsStay, OutcomeIsTrue, NEW s \in Sessions,
         DecideOrEdit(s) \/ ApproveRebuilt(s) \/ EnqueueSync(s)
  PROVE  OutcomeIsTrue'
  <1>1. /\ session[s].step \in {"checked", "queued", "rebuilt"}
        /\ UNCHANGED <<proposal, ticket, broke>>
        /\ \E step \in {"acted", "joined"} : Goes(s, [session[s] EXCEPT !.step = step])
        /\ acted' = acted \/ (/\ acted' = [acted EXCEPT ![session[s].ticket] = @ + 1]
                              /\ Goes(s, [session[s] EXCEPT !.step = "acted"]))
    BY DEF DecideOrEdit, ApproveRebuilt, EnqueueSync, Decides, Edits, marks
  <1>2. PICK t \in Created : t = session[s].ticket
    BY <1>1, SessionAt DEF Confirms, Held
  <1>3. \A u \in Sessions : u # s => session'[u] = session[u]
    BY <1>1, GoesOn DEF Confirms, Held
  <1>4. CASE acted' = acted
    BY <1>1, <1>3, <1>4, MoveOutcome
  <1>5. CASE acted' # acted
    <2>1. acted' = [acted EXCEPT ![t] = @ + 1] /\ Goes(s, [session[s] EXCEPT !.step = "acted"])
      BY <1>1, <1>2, <1>5
    <2>2. acted'[t] = acted[t] + 1 /\ \A u \in Created : u # t => acted'[u] = acted[u]
      BY <2>1, CreatedRow, CountsUp DEF TypeInv
    <2>3. Created' = Created /\ t \in Created'
      BY <1>1 DEF Created
    <2>5. \A u \in Created : acted[u] > 0 => acted'[u] > 0
      BY <2>1, CountsGrowing DEF CountsGrow
    <2>6. session'[s].step = "acted" /\ session'[s].ticket = t
      BY <1>1, <1>2, <2>1, GoesOn DEF Confirms, Held
    <2>7. ASSUME NEW u \in Created, acted'[u] > 0, ticket[u].status # "EXECUTED"  PROVE Excused(u)'
      <3>1. CASE u = t
        BY <2>6, <3>1 DEF Excused
      <3>2. CASE u # t
        <4>1. Excused(u)
          BY <2>2, <2>7, <3>2, OutcomeParts
        <4> QED  BY <1>1, <1>3, <4>1, ExcusedStays
      <3> QED  BY <3>1, <3>2
    <2>8. \A p \in Proposals : CountsAsDone(p)' => CountsAsDone(p)
      BY <1>1 DEF CountsAsDone, ToCarryOut
    <2> QED  BY <1>1, <2>3, <2>5, <2>7, <2>8, OutcomeKept
  <1> QED  BY <1>4, <1>5

\* Who finishes a ticket has carried out its action, unless it joined a sync.
LEMMA FinishHasActed ==
  ASSUME TypeInv, ActInv, NEW s \in Sessions, FinishTicket(s), NEW t \in Created,
         t = session[s].ticket, ToCarryOut(Of(t))
  PROVE  acted[t] > 0
  <1>1. session[s].step = "acted"
    BY SessionAt DEF FinishTicket, SessionFits, ToCarryOut, About
  <1> QED  BY <1>1 DEF ActInv, SessionsActed, ActedSession

\* The answer that comes with a mark.
LEMMA AnswerIsTrue ==
  ASSUME TypeInv, ActInv, NEW s \in Sessions,
         \/ FailTicket(s) \/ FinishTicket(s)
         \/ \E t \in Tickets : CancelTicket(s, t) \/ (ConfirmTicket(s, t) /\ About(t).due),
         NEW p \in Proposals, CountsAsDone(p)'
  PROVE  CountsAsDone(p) \/ \E t \in Created : Of(t) = p /\ acted[t] > 0
  <1>1. CASE proposal' = proposal
    BY <1>1 DEF CountsAsDone, ToCarryOut
  <1>2. ASSUME NEW t \in Tickets, CancelTicket(s, t)
        PROVE  CountsAsDone(p)
    <2>1. t \in Created /\ proposal' = [proposal EXCEPT ![Of(t)].status = "REJECTED"]
      BY <1>2 DEF CancelTicket
    <2>2. Of(t) \in Proposals /\ proposal[Of(t)] \in Proposal
      BY <2>1, CreatedRow DEF TypeInv, TicketsStand, Stands, About
    <2>3. /\ proposal'[Of(t)].status = "REJECTED"
          /\ \A q \in Proposals : q # Of(t) => proposal'[q] = proposal[q]
      BY <2>1, <2>2, OneAnswered DEF TypeInv
    <2> QED  BY <2>3 DEF CountsAsDone, ToCarryOut
  <1>3. CASE FinishTicket(s)
    <2>1. session[s].step \in {"joined", "acted"}
      BY <1>3 DEF FinishTicket
    <2>2. PICK t \in Created : t = session[s].ticket
      BY <2>1, SessionAt DEF Confirms, Held
    <2>3. Of(t) \in Proposals /\ proposal[Of(t)] \in Proposal
      BY CreatedRow DEF TypeInv, TicketsStand, Stands, About
    <2>4. PICK v : v = Written(proposal[Of(t)].status, session[s].answer, "ACCEPTED")
      OBVIOUS
    <2>5. v \in {"OPEN", "ACCEPTED", "REJECTED"}
      BY <2>3, <2>4 DEF Written, Proposal
    <2>6. proposal' = [proposal EXCEPT ![Of(t)].status = v]
      <3>1. proposal' = [proposal EXCEPT ![Of(t)].status = Written(@, session[s].answer, "ACCEPTED")]
        BY <1>3, <2>2 DEF FinishTicket
      <3> QED  BY <2>3, <2>4, <3>1 DEF TypeInv, TicketsTypeOK
    <2>7. /\ proposal'[Of(t)].kind = proposal[Of(t)].kind
          /\ proposal'[Of(t)].said = proposal[Of(t)].said
          /\ proposal'[Of(t)].wants = proposal[Of(t)].wants
          /\ \A q \in Proposals : q # Of(t) => proposal'[q] = proposal[q]
      BY <2>3, <2>5, <2>6, OneAnswered DEF TypeInv
    <2>8. CASE p = Of(t)
      <3>1. ToCarryOut(Of(t))
        BY <2>7, <2>8 DEF CountsAsDone, ToCarryOut
      <3> QED  BY <1>3, <2>2, <2>8, <3>1, FinishHasActed
    <2>9. CASE p # Of(t)
      BY <2>7, <2>9 DEF CountsAsDone, ToCarryOut
    <2> QED  BY <2>8, <2>9
  <1>4. \/ proposal' = proposal \/ FinishTicket(s) \/ \E t \in Tickets : CancelTicket(s, t)
    BY DEF FailTicket, ConfirmTicket
  <1> QED  BY <1>1, <1>2, <1>3, <1>4

\* A ticket is marked.
LEMMA MarkOutcome ==
  ASSUME TypeInv, RowsStay, LockInv, ActInv, OutcomeIsTrue, NEW s \in Sessions,
         \/ FailTicket(s) \/ FinishTicket(s)
         \/ \E t \in Tickets : CancelTicket(s, t) \/ (ConfirmTicket(s, t) /\ About(t).due)
  PROVE  OutcomeIsTrue'
  <1>1. PICK t \in Created, status \in Statuses :
            /\ Marks(s, t, status) /\ UNCHANGED <<targets, marks>>
            /\ session[s].step \in Confirms \cup {"idle"}
            /\ \/ session[s].step \in Confirms /\ t = session[s].ticket
               \/ session[s].step = "idle"
            /\ FailTicket(s) => status = Written(ticket[t].status, session[s].was, "FAILED")
            /\ FinishTicket(s) => status = "EXECUTED"
            /\ session[s].step = "idle" => /\ status \in {"CANCELED", "EXPIRED"}
                                           /\ ticket[t].status # "EXECUTED"
    BY MarkActs
  <1>2. /\ ticket'[t].status = status /\ Created' = Created
        /\ \A u \in Tickets : u # t => ticket'[u] = ticket[u]
        /\ \A u \in Sessions : u # s => session'[u] = session[u]
    <2>1. /\ ticket'[t].status = status /\ ticket'[t].proposal = ticket[t].proposal
          /\ \A u \in Tickets : u # t => ticket'[u] = ticket[u]
          /\ Created' = Created
          /\ session'[s] = [step |-> "record", ticket |-> t]
          /\ \A u \in Sessions : u # s => session'[u] = session[u]
      BY <1>1, OneMarks DEF TypeInv
    <2> QED  BY <2>1
  <1>3. \A u \in Created : u # t => ticket'[u] = ticket[u]
    BY <1>2, CreatedRow DEF TypeInv
  <1>4. acted' = acted /\ broke' = broke
    BY <1>1 DEF targets, marks
  <1>5. session[s].step = "idle" \/ FailTicket(s) \/ FinishTicket(s)
    BY SessionAt DEF CancelTicket, ConfirmTicket
  <1>6. status = "EXECUTED" /\ ToCarryOut(Of(t)) =>
           ticket[t].status = "EXECUTED" \/ acted[t] > 0
    <2>1. CASE session[s].step = "idle"
      BY <1>1, <2>1
    <2>2. CASE FailTicket(s)
      BY <1>1, <2>2 DEF Written
    <2>3. CASE FinishTicket(s)
      <3>1. t = session[s].ticket
        BY <1>1, <2>3 DEF FinishTicket
      <3> QED  BY <2>3, <3>1, FinishHasActed
    <2> QED  BY <1>5, <2>1, <2>2, <2>3
  <1>7. ASSUME acted[t] > 0, status # "EXECUTED"  PROVE Excused(t)'
    <2>1. ~FinishTicket(s)
      BY <1>1, <1>7
    <2>2. session[s].step # "acted"
      BY <1>5, <2>1 DEF FailTicket
    <2>3. CASE session[s].step = "rebuilt"
      <3>1. About(t).kind = "learn"
        BY <1>1, <2>3, SessionAt DEF SessionFits
      <3> QED  BY <3>1, AboutStays DEF Excused
    <2>4. CASE session[s].step # "rebuilt"
      <3>1. ticket[t].status # "EXECUTED"
        <4>1. CASE session[s].step = "idle"
          BY <1>1, <4>1
        <4>2. CASE FailTicket(s)
          <5>1. session[s].step \in Held /\ session[s].step \in Confirms
            BY <2>4, <4>2 DEF FailTicket, Held, Confirms
          <5>2. ticket[t].status = session[s].was /\ session[s].was \in {"OPEN", "FAILED"}
            BY <1>1, <5>1, SessionAt DEF LockInv, CopiesFit, Held
          <5> QED  BY <5>2
        <4> QED  BY <1>5, <2>1, <4>1, <4>2
      <3>2. Excused(t)
        BY <1>7, <3>1, OutcomeParts
      <3> QED  BY <1>2, <1>4, <2>2, <3>2, ExcusedStays
    <2> QED  BY <2>3, <2>4
  <1>8. ASSUME NEW u \in Created, u # t, acted[u] > 0, ticket[u].status # "EXECUTED"
        PROVE  Excused(u)'
    <2>1. Excused(u)
      BY <1>8, OutcomeParts
    <2>2. ~(session[s].step = "acted" /\ session[s].ticket = u)
      BY <1>1, <1>8
    <2> QED  BY <1>2, <1>4, <2>1, <2>2, ExcusedStays
  <1>9. ASSUME NEW p \in Proposals, CountsAsDone(p)'
        PROVE  CountsAsDone(p) \/ \E u \in Created : Of(u) = p /\ acted[u] > 0
    BY <1>9, AnswerIsTrue
  <1>10. ASSUME NEW u \in Created
         PROVE  /\ ticket'[u].status = "EXECUTED" /\ ToCarryOut(Of(u))
                     => ticket[u].status = "EXECUTED" \/ acted[u] > 0
                /\ acted[u] > 0 /\ ticket'[u].status # "EXECUTED" => Excused(u)'
    BY <1>2, <1>3, <1>6, <1>7, <1>8
  <1> QED  BY <1>2, <1>4, <1>9, <1>10, OutcomeKept

\* No session moves, and no proposal is answered.
LEMMA TargetOutcome ==
  ASSUME TypeInv, RowsStay, OutcomeIsTrue, UNCHANGED <<ticket, session, acted, broke>>,
         \A p \in Proposals : CountsAsDone(p)' => CountsAsDone(p)
  PROVE  OutcomeIsTrue'
  <1>1. Created' = Created
    BY DEF Created
  <1>2. ASSUME NEW t \in Created, acted[t] > 0, ticket[t].status # "EXECUTED"  PROVE Excused(t)'
    <2>1. Excused(t)
      BY <1>2, OutcomeParts
    <2>2. About(t)'.kind = About(t).kind
      BY AboutStays
    <2> QED  BY <2>1, <2>2 DEF Excused
  <1> QED  BY <1>1, <1>2, OutcomeKept

LEMMA OutcomeNext ==
  ASSUME TypeInv, LockInv, ActInv, OutcomeIsTrue, [TicketsNext]_ticketVars
  PROVE  OutcomeIsTrue'
  <1>0. RowsStay /\ ActInv'
    <2>1. CASE UNCHANGED ticketVars
      BY <2>1, ActInvNext DEF ticketVars, RowsStay, Created
    <2> QED  BY <2>1, TypeInvStep, ActInvNext
  <1>1. ASSUME UNCHANGED <<proposal, ticket, session, acted, broke>>  PROVE OutcomeIsTrue'
    <2>1. \A p \in Proposals : CountsAsDone(p)' => CountsAsDone(p)
      BY <1>1 DEF CountsAsDone, ToCarryOut
    <2> QED  BY <1>0, <1>1, <2>1, TargetOutcome
  <1>2. ASSUME NEW s \in Sessions,
               \/ \E p \in Proposals : LookForTicket(s, p)
               \/ \E t \in Tickets : ConfirmTicket(s, t) /\ ~About(t).due
               \/ RefuseAction(s) \/ LearnAlias(s) \/ CheckSource(s) \/ RecordTransition(s)
        PROVE  OutcomeIsTrue'
    <2>1. \A u \in Sessions : u # s => session'[u] = session[u]
      BY <1>2, MovesTo
    <2>2. UNCHANGED <<proposal, ticket, acted, broke>>
      BY <1>2 DEF LookForTicket, ConfirmTicket, RefuseAction, LearnAlias, CheckSource,
                  RecordTransition, targets, marks
    <2>3. session[s].step # "acted"
      BY <1>2, SessionAt DEF LookForTicket, ConfirmTicket, RefuseAction, LearnAlias, CheckSource,
                             RecordTransition
    <2> QED  BY <1>0, <2>1, <2>2, <2>3, MoveOutcome
  <1>3. ASSUME NEW s \in Sessions, SessionBreaks(s)  PROVE OutcomeIsTrue'
    <2>1. \A u \in Sessions : u # s => session'[u] = session[u]
      BY <1>3, MovesTo
    <2>2. /\ session[s].step = "acted" => session[s].ticket \in broke'
          /\ broke \subseteq broke' /\ UNCHANGED <<proposal, ticket, acted>>
      BY <1>3 DEF SessionBreaks, targets
    <2> QED  BY <1>0, <2>1, <2>2, MoveOutcome
  <1>4. ASSUME NEW s \in Sessions, InsertTicket(s)  PROVE OutcomeIsTrue'
    BY <1>0, <1>4, InsertOutcome
  <1>5. ASSUME NEW s \in Sessions, DecideOrEdit(s) \/ ApproveRebuilt(s) \/ EnqueueSync(s)
        PROVE  OutcomeIsTrue'
    BY <1>0, <1>5, ActsOutcome
  <1>6. ASSUME NEW s \in Sessions,
               \/ FailTicket(s) \/ FinishTicket(s)
               \/ \E t \in Tickets : CancelTicket(s, t) \/ (ConfirmTicket(s, t) /\ About(t).due)
        PROVE  OutcomeIsTrue'
    BY <1>0, <1>6, MarkOutcome
  <1>7. ASSUME NEW p \in Proposals, ProposalFallsDue(p)  PROVE OutcomeIsTrue'
    <2>1. /\ proposal[p] \in Proposal /\ proposal'[p].kind = proposal[p].kind
          /\ proposal'[p].said = proposal[p].said /\ proposal'[p].wants = proposal[p].wants
          /\ proposal'[p].status = proposal[p].status
          /\ \A q \in Proposals : q # p => proposal'[q] = proposal[q]
      BY <1>7, OneFallsDue DEF TypeInv
    <2>2. \A q \in Proposals : CountsAsDone(q)' => CountsAsDone(q)
      BY <1>7, <2>1 DEF CountsAsDone, ToCarryOut, ProposalFallsDue
    <2>3. UNCHANGED <<ticket, session, acted, broke>>
      BY <1>7 DEF ProposalFallsDue, targets, marks
    <2> QED  BY <1>0, <2>2, <2>3, TargetOutcome
  <1>8. ASSUME NEW p \in Proposals, NEW k \in Kinds, CreateProposal(p, k)  PROVE OutcomeIsTrue'
    <2>1. PICK r, v : proposal' = [proposal EXCEPT ![p] =
                            [kind |-> k, status |-> "OPEN", said |-> says, wants |-> v,
                             request |-> r, due |-> FALSE]]
      BY <1>8 DEF CreateProposal
    <2>2. /\ proposal'[p].status = "OPEN"
          /\ \A q \in Proposals : q # p => proposal'[q] = proposal[q]
      BY <2>1 DEF TypeInv, TicketsTypeOK
    <2>3. \A q \in Proposals : CountsAsDone(q)' => CountsAsDone(q)
      BY <2>2 DEF CountsAsDone, ToCarryOut
    <2>4. UNCHANGED <<ticket, session, acted, broke>>
      BY <1>8 DEF CreateProposal, targets, marks
    <2> QED  BY <1>0, <2>3, <2>4, TargetOutcome
  <1>9. ASSUME ChangeDrifts \/ SyncsDrift \/ UNCHANGED ticketVars  PROVE OutcomeIsTrue'
    BY <1>1, <1>9 DEF ChangeDrifts, SyncsDrift, ticketVars, targets, marks
  <1>10. ASSUME NEW s \in Sessions, NEW t \in Tickets, ConfirmTicket(s, t) \/ CancelTicket(s, t)
         PROVE  OutcomeIsTrue'
    BY <1>2, <1>6, <1>10
  <1> QED  BY <1>2, <1>3, <1>4, <1>5, <1>6, <1>7, <1>8, <1>9, <1>10 DEF TicketsNext

\* A ticket says EXECUTED exactly if its action was carried out, as soon as no confirmation
\* is between the two commits and none broke off there; a proposal that counts as accepted
\* was carried out.
THEOREM OutcomesAreTrue == TicketsSpec => []OutcomeIsTrue
  <1>1. TicketsInit => OutcomeIsTrue
    <2> SUFFICES ASSUME TicketsInit  PROVE OutcomeIsTrue
      OBVIOUS
    <2>1. Created = {} /\ \A p \in Proposals : proposal[p] = NoProposal
      BY DEF TicketsInit, Created
    <2> QED  BY <2>1 DEF OutcomeIsTrue
  <1> QED  BY <1>1, TypeInvInit, TypeInvNext, LockInvInit, LockInvNext, ActInvInit, ActInvNext,
              OutcomeNext, PTL DEF TicketsSpec

=============================================================================
