------------------------------ MODULE MCIntake ------------------------------
\* The two ends of the pipeline whose liveness rests on periodic ticks: the sync requests
\* of a source, and the notices of its changes.  They share no variables, so a behaviour
\* checks one of them; the other stays at rest.
EXTENDS SyncIntake, ChangeNotices

VARIABLE part

vars == <<part, intakeVars, noticeVars>>

Owners == [c \in Changes |-> IF c = 1 THEN "u" ELSE "v"]

\* Windows are interchangeable, so the one at the start is any of them.
MCInit ==
    /\ IntakeInit /\ NoticesInit
    /\ config.window = CHOOSE w \in Windows : TRUE
    /\ part \in {"intake", "notices"}
    /\ part = "notices" => stored # {}

Intake(A) == part = "intake" /\ A /\ UNCHANGED <<part, noticeVars>>
Notices(A) == part = "notices" /\ A /\ UNCHANGED <<part, intakeVars>>

MCNext == Intake(IntakeNext) \/ Notices(NoticesNext)

\* IntakeFairness and NoticesFairness, of the part that is checked.
MCFairness ==
    /\ WF_vars(Intake(ScheduleSync))
    /\ WF_vars(Intake(WorkOn(1)))
    /\ \A u \in Updaters : WF_vars(Intake(CommitPatch(u)))
    /\ \A w \in Workers : WF_vars(Notices(Steps(w)))
    /\ WF_vars(Notices(\E v, w \in Workers : BreakDeadlock(v, w)))

MCSpec == MCInit /\ [][MCNext]_vars /\ MCFairness

\* The states of the two modules keep the shape the code gives them.
EndsTypeOK == IntakeTypeOK /\ NoticesTypeOK
=============================================================================
