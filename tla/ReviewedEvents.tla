--------------------------- MODULE ReviewedEvents ---------------------------
(***************************************************************************)
(* What the review of changes promises about an event, whatever sources,   *)
(* sessions, row locks and copies of rows are at work: its state is        *)
(* changed by the user alone, who approves what is proposed at that        *)
(* moment, or edits the event, which closes what is proposed; there is one *)
(* proposal at a time, and it fits the state.                              *)
(*                                                                         *)
(* The promise is made for events that are watched over.  It ends for an   *)
(* event when transactions that take no locks overlap on it.               *)
(***************************************************************************)
CONSTANTS
    Entities,   \* the events
    Payloads,   \* what an event can be: course, family, name, due date
    Nothing,    \* no payload
    Ids         \* names of proposals

VARIABLES
    watched,    \* events the promise is still made for
    state,      \* the approved state of each event
    open        \* the open proposals for it

vars == <<watched, state, open>>

NoState == [life |-> "absent", content |-> Nothing, manual |-> FALSE]
Removal == [type |-> "REMOVED", after |-> Nothing]
Says    == [type: {"CREATED", "DUE_CHANGED"}, after: Payloads] \cup {Removal}

Init ==
    /\ watched = Entities
    /\ state = [e \in Entities |-> NoState]
    /\ open = [e \in Entities |-> {}]

\* Only what is not there is created, only what is there is changed or removed.
Fits(says, row) == says.type = "CREATED" <=> row.life # "active"

After(row, says) ==
    IF says = Removal THEN [row EXCEPT !.life = "removed"]
    ELSE [row EXCEPT !.life = "active", !.content = says.after]

\* All that a step does, to an event that is watched over.
Becomes(e, row, proposals) ==
    /\ e \in watched
    /\ state' = [state EXCEPT ![e] = row]
    /\ open' = [open EXCEPT ![e] = proposals]
    /\ UNCHANGED watched

\* Proposals that may be made for an event in state `row`.
Fitting(row) == {p \in [id: Ids, says: Says] : Fits(p.says, row)}

\* The sources say something else than the state.
Propose(e) ==
    /\ open[e] = {}
    /\ \E p \in open'[e] : p \in Fitting(state[e]) /\ Becomes(e, state[e], {p})

\* The sources say something else again, or the user corrects the proposal.
Revise(e) == \E p \in open[e], q \in open'[e] :
    /\ q \in Fitting(state[e]) /\ q.id = p.id
    /\ Becomes(e, state[e], {q})

\* The sources agree with the state again, or the user rejects.
Drop(e) == Becomes(e, state[e], {})

\* The user approves what is proposed, as it is proposed.
Approve(e) == \E p \in open[e] : Becomes(e, After(state[e], p.says), {})

\* The user makes, corrects or deletes the event.
Edit(e) ==
    \/ \E p \in Payloads : Becomes(e, [life |-> "active", content |-> p, manual |-> TRUE], {})
    \/ /\ state[e].life = "active"
       /\ Becomes(e, [state[e] EXCEPT !.life = "removed", !.manual = TRUE], {})

\* The user stands by the event as it is.
Support(e) ==
    /\ state[e] # NoState
    /\ Becomes(e, [state[e] EXCEPT !.manual = TRUE], open[e])

\* Transactions without locks overlapped: what becomes of the event is left open.
Unwatch(e) ==
    /\ watched' = watched \ {e}
    /\ state' = [state EXCEPT ![e] = NoState]
    /\ open' = [open EXCEPT ![e] = {}]

Next == \E e \in Entities :
    \/ Propose(e) \/ Revise(e) \/ Drop(e) \/ Approve(e) \/ Edit(e) \/ Support(e) \/ Unwatch(e)

Spec == Init /\ [][Next]_vars
=============================================================================
