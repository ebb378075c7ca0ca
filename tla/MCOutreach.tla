---------------------------- MODULE MCOutreach ----------------------------
\* The agent's side of the program: approval tickets, the dispatch of deliveries and
\* commands.  The three share no variables, so a behaviour checks one of them, and the
\* states add up instead of multiplying.
EXTENDS ApprovalTickets, ChannelDispatch, AgentCommands, TLC

VARIABLE part

Plan == <<{}, {1}, {1, 2}>>

MCInit ==
    /\ TicketsInit /\ DispatchInit /\ CommandsInit
    /\ part \in {"tickets", "dispatch", "commands"}

MCNext ==
    /\ UNCHANGED part
    /\ \/ part = "tickets" /\ TicketsNext /\ UNCHANGED <<dispatchVars, commandVars>>
       \/ part = "dispatch" /\ DispatchNext /\ UNCHANGED <<ticketVars, commandVars>>
       \/ part = "commands" /\ CommandsNext /\ UNCHANGED <<ticketVars, dispatchVars>>

MCSpec == MCInit /\ [][MCNext]_<<part, ticketVars, dispatchVars, commandVars>>

\* The states of the three modules keep the shape the code gives them.
OutreachTypeOK == TicketsTypeOK /\ DispatchTypeOK /\ CommandsTypeOK

\* The cfg gives tickets and deliveries the same names, and so sessions, dispatchers and
\* runners: the parts never meet.
Symmetry == Permutations(Tickets \cup Deliveries)
            \cup Permutations(Sessions \cup Dispatchers \cup Runners)
            \cup Permutations(Payloads)
=============================================================================
