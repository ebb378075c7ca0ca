--------------------------- MODULE NoticeDelivery ---------------------------
(***************************************************************************)
(* What the notification workers promise about the notice of a change,     *)
(* without events, inbox, row locks or workers: an announced change falls  *)
(* due once, is out in at most one digest at a time, and its outcome is    *)
(* final.  A digest that is out can be lost to the books, and then the     *)
(* change is due again; that is the only way to a second mail.             *)
(***************************************************************************)
EXTENDS Naturals

CONSTANT Changes

VARIABLES
    phase,  \* how far the notice of each change has come
    mails,  \* digests with the change that went out
    lost    \* those of them that no outcome stands for

vars == <<phase, mails, lost>>

Phase == {"silent", "announced", "due", "out", "sent", "failed"}

Init ==
    /\ phase = [c \in Changes |-> "silent"]
    /\ mails = [c \in Changes |-> 0]
    /\ lost  = [c \in Changes |-> 0]

\* The changes in S go from one phase to another.
Move(S, from, to) ==
    /\ \A c \in S : phase[c] = from
    /\ phase' = [c \in Changes |-> IF c \in S THEN to ELSE phase[c]]

Counted(S, count) == [c \in Changes |-> count[c] + (IF c \in S THEN 1 ELSE 0)]

Announce(S) == Move(S, "silent", "announced") /\ UNCHANGED <<mails, lost>>

FallDue(S) == Move(S, "announced", "due") /\ UNCHANGED <<mails, lost>>

\* The digest of a user goes out.
Mail(S) == Move(S, "due", "out") /\ mails' = Counted(S, mails) /\ UNCHANGED lost

\* Outcomes are recorded: S was mailed, and T could not be.
Record(S, T) ==
    /\ \A c \in S : phase[c] = "out"
    /\ \A c \in T : phase[c] = "due"
    /\ phase' = [c \in Changes |-> IF c \in S THEN "sent"
                                   ELSE IF c \in T THEN "failed" ELSE phase[c]]
    /\ UNCHANGED <<mails, lost>>

\* They are not recorded after all.
Lose(S) == Move(S, "out", "due") /\ lost' = Counted(S, lost) /\ UNCHANGED mails

Next ==
    \/ \E S \in SUBSET Changes : Announce(S) \/ FallDue(S) \/ Mail(S) \/ Lose(S)
    \/ \E S, T \in SUBSET Changes : Record(S, T)

Spec == Init /\ [][Next]_vars
=============================================================================
