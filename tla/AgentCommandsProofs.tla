------------------------ MODULE AgentCommandsProofs ------------------------
(***************************************************************************)
(* Proofs about AgentCommands, for any plan, any number of requests and of *)
(* executions that overlap.  MCOutreach runs them beside ApprovalTickets   *)
(* and ChannelDispatch; what it does is a behaviour of each of the three.  *)
(***************************************************************************)
EXTENDS MCOutreach, ApprovalTicketsProofs, ChannelDispatchProofs, TLAPS

LEMMA PlanFacts ==
  /\ NSteps \in Nat /\ NSteps >= 1
  /\ \A i \in Steps : DependsOn[i] \subseteq Steps
  BY NStepsAssumption, DependsOnAssumption DEF Steps

-----------------------------------------------------------------------------
(* Rows and executions.                                                    *)

\* The step an execution is at is one of the plan.
LEMMA AtStep ==
  ASSUME CommandsTypeOK, NEW r \in Runners, Running(r)
  PROVE  /\ runner[r] \in Runner
         /\ runner[r].at \in Steps
         /\ runner[r].at + 1 \in 1 .. NSteps + 1
  BY PlanFacts DEF CommandsTypeOK, Running, Runner, Resting, Steps

\* What an execution records is a result of the step it is at, and no other.
LEMMA RecordsOne ==
  ASSUME CommandsTypeOK, NEW r \in Runners, Running(r),
         NEW outcome \in {"succeeded", "failed", "blocked"}, Records(r, outcome)
  PROVE  /\ runner' \in [Runners -> Runner \cup {Resting}]
         /\ runner'[r] \in Runner /\ runner'[r] # Resting
         /\ runner'[r].copy = runner[r].copy
         /\ runner'[r].mine = [runner[r].mine EXCEPT ![runner[r].at] = outcome]
         /\ \A q \in Runners : q # r => runner'[q] = runner[q]
  <1>1. runner[r] \in Runner /\ runner[r].at \in Steps /\ runner[r].at + 1 \in 1 .. NSteps + 1
    BY AtStep
  <1> DEFINE new == [runner[r] EXCEPT !.at = @ + 1, !.mine[runner[r].at] = outcome,
                                      !.failure = @ \/ outcome = "failed"]
  <1>2. new.mine = [runner[r].mine EXCEPT ![runner[r].at] = outcome] /\ new.copy = runner[r].copy
    BY <1>1 DEF Runner
  <1>3. [runner[r].mine EXCEPT ![runner[r].at] = outcome] \in Results
    BY <1>1 DEF Runner, Results
  <1>4. new \in Runner
    BY <1>1, <1>2, <1>3 DEF Runner
  <1>5. new # Resting
    BY <1>4, PlanFacts DEF Runner, Resting
  <1>6. runner' = [runner EXCEPT ![r] = new]
    BY DEF Records
  <1> QED  BY <1>2, <1>4, <1>5, <1>6 DEF CommandsTypeOK

LEMMA InitTypes == CommandsInit => CommandsTypeOK
  <1> SUFFICES ASSUME CommandsInit PROVE CommandsTypeOK
    OBVIOUS
  <1>1. [i \in Steps |-> "none"] \in Results
    BY DEF Results
  <1>2. command \in Command
    <2>1. command = [status |-> "PLANNED", results |-> [i \in Steps |-> "none"]]
      BY DEF CommandsInit
    <2> QED  BY <1>1, <2>1 DEF Command
  <1>3. runner \in [Runners -> Runner \cup {Resting}]
    BY DEF CommandsInit
  <1>4. ran \in [Steps -> Nat] /\ executions \in 0 .. MaxExecutions
    BY MaxExecutionsAssumption DEF CommandsInit
  <1> QED  BY <1>2, <1>3, <1>4 DEF CommandsInit, CommandsTypeOK

LEMMA StepTypes == CommandsTypeOK /\ [CommandsNext]_commandVars => CommandsTypeOK'
  <1> SUFFICES ASSUME CommandsTypeOK, [CommandsNext]_commandVars PROVE CommandsTypeOK'
    OBVIOUS
  <1> USE PlanFacts
  <1>1. ASSUME NEW r \in Runners, NEW selected \in SUBSET Steps, BeginExecution(r, selected)
        PROVE  CommandsTypeOK'
    <2>1. [at |-> 1, selected |-> selected, copy |-> command.results, mine |-> command.results,
           failure |-> FALSE] \in Runner
      BY DEF CommandsTypeOK, Command, Runner
    <2>2. [command EXCEPT !.status = "EXECUTING"] \in Command
      BY DEF CommandsTypeOK, Command
    <2>3. disturbed' \in BOOLEAN
      BY <1>1 DEF BeginExecution
    <2> QED  BY <1>1, <2>1, <2>2, <2>3, MaxExecutionsAssumption DEF BeginExecution, CommandsTypeOK
  <1>2. ASSUME NEW r \in Runners, PassStep(r) PROVE CommandsTypeOK'
    <2>1. runner[r] \in Runner /\ runner[r].at + 1 \in 1 .. NSteps + 1
      BY <1>2, AtStep DEF PassStep
    <2>2. [runner[r] EXCEPT !.at = @ + 1] \in Runner
      BY <2>1 DEF Runner
    <2> QED  BY <1>2, <2>2 DEF PassStep, CommandsTypeOK
  <1>3. ASSUME NEW r \in Runners, BlockStep(r) \/ StepFails(r) PROVE CommandsTypeOK'
    <2>1. runner' \in [Runners -> Runner \cup {Resting}]
      BY <1>3, RecordsOne DEF BlockStep, StepFails
    <2> QED  BY <1>3, <2>1 DEF BlockStep, StepFails, CommandsTypeOK
  <1>4. ASSUME NEW r \in Runners, StepSucceeds(r) PROVE CommandsTypeOK'
    <2>1. runner' \in [Runners -> Runner \cup {Resting}]
      BY <1>4, RecordsOne DEF StepSucceeds
    <2>2. ran' \in [Steps -> Nat]
      BY <1>4, AtStep DEF StepSucceeds, CommandsTypeOK
    <2> QED  BY <1>4, <2>1, <2>2 DEF StepSucceeds, CommandsTypeOK
  <1>5. ASSUME NEW r \in Runners, FinishExecution(r) PROVE CommandsTypeOK'
    <2>1. runner[r] \in Runner
      BY <1>5 DEF FinishExecution, CommandsTypeOK, Resting
    <2>2. StatusAfter(r) \in {"PLANNED", "EXECUTING", "COMPLETED", "FAILED"}
      BY DEF StatusAfter
    <2>3. command' \in Command
      BY <1>5, <2>1, <2>2 DEF FinishExecution, CommandsTypeOK, Command, Runner
    <2> QED  BY <1>5, <2>3 DEF FinishExecution, CommandsTypeOK
  <1>6. ASSUME NEW r \in Runners, ExecutionBreaks(r) PROVE CommandsTypeOK'
    BY <1>6 DEF ExecutionBreaks, CommandsTypeOK
  <1>7. ASSUME UNCHANGED commandVars PROVE CommandsTypeOK'
    BY <1>7 DEF commandVars, CommandsTypeOK
  <1> QED  BY <1>1, <1>2, <1>3, <1>4, <1>5, <1>6, <1>7 DEF CommandsNext

\* The row of a command, its executions and the histories keep their shape, however
\* many executions there are.
THEOREM CommandsTypeCorrect == CommandsSpec => []CommandsTypeOK
  BY InitTypes, StepTypes, PTL DEF CommandsSpec

-----------------------------------------------------------------------------
(* Successes are real: in the row, and in what every execution believes.   *)

Real(results) == \A i \in Steps : results[i] = "succeeded" => ran[i] > 0

RealInv ==
    /\ Real(command.results)
    /\ \A r \in Runners : runner[r] # Resting => Real(runner[r].copy) /\ Real(runner[r].mine)
    /\ command.status = "COMPLETED" => \A i \in Steps : ran[i] > 0
    /\ DependenciesFirst

\* What counts as satisfied has taken effect.
LEMMA SatisfiedRan ==
  ASSUME CommandsTypeOK, RealInv, NEW r \in Runners, Running(r), Satisfied(r)
  PROVE  \A j \in DependsOn[runner[r].at] : ran[j] > 0
  BY PlanFacts, AtStep DEF RealInv, Real, Satisfied, Running

LEMMA InitReal == CommandsInit => RealInv
  BY DEF CommandsInit, RealInv, Real, DependenciesFirst, Resting

LEMMA StepReal == CommandsTypeOK /\ RealInv /\ [CommandsNext]_commandVars => RealInv'
  <1> SUFFICES ASSUME CommandsTypeOK, RealInv, [CommandsNext]_commandVars PROVE RealInv'
    OBVIOUS
  <1> USE DEF RealInv
  <1>1. ASSUME NEW r \in Runners, NEW selected \in SUBSET Steps, BeginExecution(r, selected)
        PROVE  RealInv'
    <2>1. /\ command'.results = command.results /\ command'.status = "EXECUTING"
          /\ ran' = ran
      BY <1>1 DEF BeginExecution, CommandsTypeOK, Command
    <2>2. /\ runner'[r].copy = command.results /\ runner'[r].mine = command.results
          /\ \A q \in Runners : q # r => runner'[q] = runner[q]
      BY <1>1 DEF BeginExecution, CommandsTypeOK
    <2> QED  BY <2>1, <2>2 DEF Real, DependenciesFirst
  <1>2. ASSUME NEW r \in Runners, PassStep(r) PROVE RealInv'
    <2>1. /\ runner'[r].copy = runner[r].copy /\ runner'[r].mine = runner[r].mine
          /\ \A q \in Runners : q # r => runner'[q] = runner[q]
          /\ runner[r] # Resting
      BY <1>2, AtStep DEF PassStep, CommandsTypeOK, Runner, Running
    <2> QED  BY <1>2, <2>1 DEF PassStep, Real, DependenciesFirst
  <1>3. ASSUME NEW r \in Runners, BlockStep(r) \/ StepFails(r) PROVE RealInv'
    <2>1. PICK outcome \in {"failed", "blocked"} : Running(r) /\ Records(r, outcome)
      BY <1>3 DEF BlockStep, StepFails
    <2>2. /\ runner'[r].copy = runner[r].copy
          /\ runner'[r].mine = [runner[r].mine EXCEPT ![runner[r].at] = outcome]
          /\ \A q \in Runners : q # r => runner'[q] = runner[q]
      BY <2>1, RecordsOne
    <2>3. runner[r] # Resting /\ runner[r].mine \in Results
      BY <2>1, AtStep DEF Running, Runner
    <2>4. \A i \in Steps : runner'[r].mine[i] = "succeeded" => runner[r].mine[i] = "succeeded"
      BY <2>1, <2>2, <2>3 DEF Results
    <2>5. command' = command /\ ran' = ran
      BY <1>3 DEF BlockStep, StepFails
    <2>6. Real(runner[r].mine)' /\ Real(runner[r].copy)'
      BY <2>2, <2>3, <2>4, <2>5 DEF Real
    <2>7. \A q \in Runners : q # r /\ runner'[q] # Resting =>
            Real(runner[q].mine)' /\ Real(runner[q].copy)'
      BY <2>2, <2>5 DEF Real
    <2> QED  BY <2>5, <2>6, <2>7 DEF Real, DependenciesFirst
  <1>4. ASSUME NEW r \in Runners, StepSucceeds(r) PROVE RealInv'
    <2>1. /\ Running(r) /\ Satisfied(r) /\ Records(r, "succeeded")
          /\ ran' = [ran EXCEPT ![runner[r].at] = @ + 1] /\ command' = command
      BY <1>4 DEF StepSucceeds
    <2>2. /\ runner'[r].copy = runner[r].copy
          /\ runner'[r].mine = [runner[r].mine EXCEPT ![runner[r].at] = "succeeded"]
          /\ \A q \in Runners : q # r => runner'[q] = runner[q]
      BY <2>1, RecordsOne
    <2>3. runner[r] # Resting /\ runner[r].mine \in Results /\ runner[r].at \in Steps
      BY <2>1, AtStep DEF Running, Runner
    <2>4. /\ \A i \in Steps : ran[i] > 0 => ran'[i] > 0
          /\ ran'[runner[r].at] > 0
          /\ \A i \in Steps : ran'[i] > 0 => i = runner[r].at \/ ran[i] > 0
      BY <2>1, <2>3 DEF CommandsTypeOK
    <2>5. \A i \in Steps :
            runner'[r].mine[i] = "succeeded" => i = runner[r].at \/ runner[r].mine[i] = "succeeded"
      BY <2>2, <2>3 DEF Results
    <2>6. DependenciesFirst'
      BY <2>1, <2>4, SatisfiedRan, PlanFacts DEF DependenciesFirst
    <2>7. Real(runner[r].mine)' /\ Real(runner[r].copy)'
      BY <2>2, <2>3, <2>4, <2>5 DEF Real
    <2>8. \A q \in Runners : q # r /\ runner'[q] # Resting =>
            Real(runner[q].mine)' /\ Real(runner[q].copy)'
      BY <2>2, <2>4 DEF Real
    <2> QED  BY <2>1, <2>4, <2>6, <2>7, <2>8 DEF Real
  <1>5. ASSUME NEW r \in Runners, FinishExecution(r) PROVE RealInv'
    <2>1. runner[r] # Resting
      BY <1>5, PlanFacts DEF FinishExecution, Resting
    <2>2. command'.results \in {command.results, runner[r].mine} /\ command'.status = StatusAfter(r)
      BY <1>5 DEF FinishExecution
    <2>3. command'.status = "COMPLETED" => \A i \in Steps : runner[r].mine[i] = "succeeded"
      BY <2>2 DEF StatusAfter
    <2>4. \A q \in Runners : runner'[q] # Resting => runner'[q] = runner[q]
      BY <1>5 DEF FinishExecution, CommandsTypeOK
    <2> QED  BY <1>5, <2>1, <2>2, <2>3, <2>4 DEF FinishExecution, Real, DependenciesFirst
  <1>6. ASSUME NEW r \in Runners, ExecutionBreaks(r) PROVE RealInv'
    <2>1. \A q \in Runners : runner'[q] # Resting => runner'[q] = runner[q]
      BY <1>6 DEF ExecutionBreaks, CommandsTypeOK
    <2> QED  BY <1>6, <2>1 DEF ExecutionBreaks, Real, DependenciesFirst
  <1>7. ASSUME UNCHANGED commandVars PROVE RealInv'
    BY <1>7 DEF commandVars, Real, DependenciesFirst
  <1> QED  BY <1>1, <1>2, <1>3, <1>4, <1>5, <1>6, <1>7 DEF CommandsNext

LEMMA RealInvariant == CommandsSpec => [](CommandsTypeOK /\ RealInv)
  BY InitTypes, InitReal, StepTypes, StepReal, PTL DEF CommandsSpec

\* No step of a command takes effect before all the steps it depends on, for any plan
\* (its steps depend on earlier ones, command_planner.py:108) and any executions.
THEOREM StepsWaitForDependencies == CommandsSpec => []DependenciesFirst
  <1>1. RealInv => DependenciesFirst
    BY DEF RealInv
  <1> QED  BY RealInvariant, <1>1, PTL

\* A recorded success happened, and all steps of a completed command did, although
\* executions overwrite each other's results (command_service.py:216).
THEOREM RecordedSuccessIsReal == CommandsSpec => []SuccessIsReal
  <1>1. RealInv => SuccessIsReal
    BY DEF RealInv, Real, SuccessIsReal
  <1> QED  BY RealInvariant, <1>1, PTL

-----------------------------------------------------------------------------
(* Executions one after the other.                                         *)

\* How often the results say that a step ran.
Counted(results) == \A i \in Steps : ran[i] = IF results[i] = "succeeded" THEN 1 ELSE 0

\* The results there are, of the execution if there is one, and else of the row, say
\* of every step whether it ran.
ResumeInv ==
    ~disturbed =>
        /\ \A q, r \in Runners : runner[q] # Resting /\ runner[r] # Resting => q = r
        /\ \A r \in Runners : runner[r] # Resting =>
              /\ runner[r].copy = command.results
              /\ Counted(runner[r].mine)
              /\ command.status = "EXECUTING"
        /\ (\A r \in Runners : runner[r] = Resting) => Counted(command.results)
        /\ command.status = "COMPLETED" => \A i \in Steps : command.results[i] = "succeeded"

LEMMA InitResume == CommandsInit => ResumeInv
  BY DEF CommandsInit, ResumeInv, Counted, Resting

LEMMA StepResume == CommandsTypeOK /\ ResumeInv /\ [CommandsNext]_commandVars => ResumeInv'
  <1> SUFFICES ASSUME CommandsTypeOK, ResumeInv, [CommandsNext]_commandVars, ~disturbed'
               PROVE  ResumeInv'
    BY DEF ResumeInv
  <1>1. ASSUME NEW r \in Runners, NEW selected \in SUBSET Steps, BeginExecution(r, selected)
        PROVE  ResumeInv'
    <2>1. ~disturbed /\ \A q \in Runners : runner[q] = Resting
      BY <1>1 DEF BeginExecution, CommandsTypeOK
    <2>2. /\ command'.results = command.results /\ command'.status = "EXECUTING"
          /\ ran' = ran
      BY <1>1 DEF BeginExecution, CommandsTypeOK, Command
    <2>3. /\ runner'[r].copy = command.results /\ runner'[r].mine = command.results
          /\ runner'[r] # Resting
          /\ \A q \in Runners : q # r => runner'[q] = Resting
      BY <1>1, <2>1 DEF BeginExecution, CommandsTypeOK, Resting
    <2> QED  BY <2>1, <2>2, <2>3 DEF ResumeInv, Counted
  <1>2. ASSUME NEW r \in Runners, PassStep(r) PROVE ResumeInv'
    <2>1. /\ runner'[r].copy = runner[r].copy /\ runner'[r].mine = runner[r].mine
          /\ \A q \in Runners : q # r => runner'[q] = runner[q]
          /\ runner[r] # Resting /\ runner'[r] # Resting
      BY <1>2, AtStep, PlanFacts DEF PassStep, CommandsTypeOK, Runner, Running, Resting
    <2> QED  BY <1>2, <2>1 DEF PassStep, ResumeInv, Counted
  <1>3. ASSUME NEW r \in Runners, BlockStep(r) \/ StepFails(r) PROVE ResumeInv'
    <2>1. PICK outcome \in {"failed", "blocked"} : Running(r) /\ ~Passes(r) /\ Records(r, outcome)
      BY <1>3 DEF BlockStep, StepFails
    <2>2. /\ runner'[r].copy = runner[r].copy
          /\ runner'[r].mine = [runner[r].mine EXCEPT ![runner[r].at] = outcome]
          /\ \A q \in Runners : q # r => runner'[q] = runner[q]
          /\ runner'[r] # Resting
      BY <2>1, RecordsOne
    <2>3. runner[r] # Resting /\ runner[r].mine \in Results /\ runner[r].mine[runner[r].at] # "succeeded"
      BY <2>1, AtStep DEF Running, Runner, Passes
    <2>4. \A i \in Steps : runner'[r].mine[i] = "succeeded" <=> runner[r].mine[i] = "succeeded"
      BY <2>1, <2>2, <2>3 DEF Results
    <2>5. command' = command /\ ran' = ran /\ disturbed' = disturbed
      BY <1>3 DEF BlockStep, StepFails
    <2>6. Counted(runner[r].mine) => Counted(runner[r].mine)'
      BY <2>4, <2>5 DEF Counted
    <2> QED  BY <2>2, <2>3, <2>5, <2>6 DEF ResumeInv
  <1>4. ASSUME NEW r \in Runners, StepSucceeds(r) PROVE ResumeInv'
    <2>1. /\ Running(r) /\ ~Passes(r) /\ Records(r, "succeeded")
          /\ ran' = [ran EXCEPT ![runner[r].at] = @ + 1]
          /\ command' = command /\ disturbed' = disturbed
      BY <1>4 DEF StepSucceeds
    <2>2. /\ runner'[r].copy = runner[r].copy
          /\ runner'[r].mine = [runner[r].mine EXCEPT ![runner[r].at] = "succeeded"]
          /\ \A q \in Runners : q # r => runner'[q] = runner[q]
          /\ runner'[r] # Resting
      BY <2>1, RecordsOne
    <2>3. /\ runner[r] # Resting /\ runner[r].mine \in Results /\ runner[r].at \in Steps
          /\ runner[r].mine[runner[r].at] # "succeeded"
      BY <2>1, AtStep DEF Running, Runner, Passes
    <2>4. Counted(runner[r].mine)
      BY <2>1, <2>3 DEF ResumeInv
    <2>5. Counted(runner[r].mine)'
      BY <2>1, <2>2, <2>3, <2>4 DEF Counted, Results, CommandsTypeOK
    <2> QED  BY <2>1, <2>2, <2>3, <2>5 DEF ResumeInv
  <1>5. ASSUME NEW r \in Runners, FinishExecution(r) PROVE ResumeInv'
    <2>1. runner[r] # Resting /\ ~disturbed
      BY <1>5, PlanFacts DEF FinishExecution, Resting
    <2>2. runner[r].copy = command.results /\ Counted(runner[r].mine)
      BY <2>1 DEF ResumeInv
    <2>3. command'.results = runner[r].mine /\ command'.status = StatusAfter(r) /\ ran' = ran
      BY <1>5, <2>2 DEF FinishExecution
    <2>4. command'.status = "COMPLETED" => \A i \in Steps : runner[r].mine[i] = "succeeded"
      BY <2>3 DEF StatusAfter
    <2>5. \A q \in Runners : runner'[q] = Resting
      BY <1>5, <2>1 DEF FinishExecution, CommandsTypeOK, ResumeInv
    <2> QED  BY <2>2, <2>3, <2>4, <2>5 DEF ResumeInv, Counted
  <1>6. ASSUME NEW r \in Runners, ExecutionBreaks(r) PROVE ResumeInv'
    BY <1>6 DEF ExecutionBreaks
  <1>7. ASSUME UNCHANGED commandVars PROVE ResumeInv'
    BY <1>7 DEF commandVars, ResumeInv, Counted
  <1> QED  BY <1>1, <1>2, <1>3, <1>4, <1>5, <1>6, <1>7 DEF CommandsNext

LEMMA ResumeInvImplies == CommandsTypeOK /\ ResumeInv => ResumesOnce
  <1> SUFFICES ASSUME CommandsTypeOK, ResumeInv, ~disturbed
               PROVE  /\ \A i \in Steps : ran[i] <= 1
                      /\ command.status = "COMPLETED" =>
                            \A i \in Steps : command.results[i] = "succeeded"
    BY DEF ResumesOnce
  <1>1. \/ \A r \in Runners : runner[r] = Resting
        \/ \E r \in Runners : runner[r] # Resting
    OBVIOUS
  <1> QED  BY <1>1 DEF ResumeInv, Counted

\* Executions that neither overlap nor break off take up where the last one ended, for
\* any plan and whatever steps are selected: no step takes effect twice.
THEOREM ExecutionsResume == CommandsSpec => []ResumesOnce
  BY InitTypes, InitResume, StepTypes, StepResume, ResumeInvImplies, PTL DEF CommandsSpec


-----------------------------------------------------------------------------
(* Tickets, deliveries and commands side by side.                          *)

\* A step of the composition is one of its parts, and a stutter of the others.
LEMMA StepOfPart ==
  [MCNext]_<<part, ticketVars, dispatchVars, commandVars>>
    => /\ [TicketsNext]_ticketVars
       /\ [DispatchNext]_dispatchVars
       /\ [CommandsNext]_commandVars
  BY DEF MCNext

\* The composition does what each part does, so that what is proved of a part for any
\* number of its actors holds of the three side by side.
THEOREM OutreachDoesParts == MCSpec => TicketsSpec /\ DispatchSpec /\ CommandsSpec
  <1>1. MCInit => TicketsInit /\ DispatchInit /\ CommandsInit
    BY DEF MCInit
  <1> QED  BY <1>1, StepOfPart, PTL DEF MCSpec, TicketsSpec, DispatchSpec, CommandsSpec

\* Tickets, deliveries and commands side by side keep the shape the code gives them.
THEOREM OutreachTypeCorrect == MCSpec => []OutreachTypeOK
  <1>1. TicketsTypeOK /\ DispatchTypeOK /\ CommandsTypeOK => OutreachTypeOK
    BY DEF OutreachTypeOK
  <1> QED
    BY <1>1, OutreachDoesParts, TicketsTypeCorrect, DispatchTypeCorrect, CommandsTypeCorrect, PTL
=============================================================================
