--------------------------- MODULE MCObservations ---------------------------
\* From what the sources say to what the user decides: the delta of a calendar, that of a
\* mailbox, and the proposals made of observations.  The three share no variables, so a
\* behaviour checks one of them, and the states add up instead of multiplying.
EXTENDS ReviewChanges, CalendarDelta, MailboxDelta, TLC

VARIABLE part

MCInit ==
    /\ Init /\ DeltaInit /\ MailboxInit
    /\ part \in {"review", "calendar", "mailbox"}

MCNext ==
    /\ UNCHANGED part
    /\ \/ part = "review" /\ Next /\ UNCHANGED <<deltaVars, mailVars>>
       \/ part = "calendar" /\ DeltaNext /\ UNCHANGED <<vars, mailVars>>
       \/ part = "mailbox" /\ MailboxNext /\ UNCHANGED <<vars, deltaVars>>

MCSpec == MCInit /\ [][MCNext]_<<part, vars, deltaVars, mailVars>>

\* The states of the three modules keep the shape the code gives them.
ObservationsTypeOK == TypeOK /\ DeltaTypeOK /\ MailboxTypeOK

\* Sessions are interchangeable, and so are payloads, which the cfg also gives to the
\* calendar as contents within its window, and components, to which it gives the names of
\* sessions: the parts never meet.
Symmetry == Permutations(Threads) \cup Permutations(Payloads)

\* Bound: the last of the changes and the last of the feeds are not both used up; after an
\* overlap nothing but what was under way is looked at.
Explored == lastId + feeds <= IF raced = {} THEN 5 ELSE 3
=============================================================================
