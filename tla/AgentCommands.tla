--------------------------- MODULE AgentCommands ---------------------------
(***************************************************************************)
(* A command of the user is planned as a list of steps (tool calls, some   *)
(* of which create and confirm approval tickets) and executed on request,  *)
(* wholly or in part, once or several times.  An execution locks the       *)
(* command, takes a copy of the results so far, marks the command as       *)
(* executing, and commits, which gives the lock up.  The steps then run    *)
(* one by one against the copy, each with commits of its own; the results  *)
(* are written at the end.  Executions of one command may overlap.         *)
(***************************************************************************)
EXTENDS Integers, FiniteSets

CONSTANTS
    NSteps,         \* steps of the plan
    DependsOn,      \* the steps a step depends on
    Runners,        \* requests that execute the command
    MaxExecutions   \* bound: executions of the command

ASSUME NStepsAssumption == NSteps \in Nat \ {0}
\* command_planner.py:108
ASSUME DependsOnAssumption ==
    /\ DependsOn \in [1 .. NSteps -> SUBSET (1 .. NSteps)]
    /\ \A i \in 1 .. NSteps : DependsOn[i] \subseteq 1 .. i - 1
ASSUME MaxExecutionsAssumption == MaxExecutions \in Nat

VARIABLES
    command,        \* the row of agent_command_runs: its status and results
    runner,         \* what each execution is at
    executions,     \* executions begun so far
    ran,            \* history: how often a step succeeded
    disturbed       \* history: executions overlapped, or one broke off

commandVars == <<command, runner, executions, ran, disturbed>>

Steps == 1 .. NSteps
Results == [Steps -> {"none", "succeeded", "failed", "blocked"}]
Command == [status: {"PLANNED", "EXECUTING", "COMPLETED", "FAILED"}, results: Results]

\* `at` is the step that is next, `copy` the results the row had at the start and
\* `mine` the results of this execution on top of them.
Runner == [at: 1 .. NSteps + 1, selected: SUBSET Steps, copy: Results, mine: Results,
           failure: BOOLEAN]
Resting == [at |-> 0]

CommandsInit ==
    /\ command = [status |-> "PLANNED", results |-> [i \in Steps |-> "none"]]
    /\ runner = [r \in Runners |-> Resting]
    /\ executions = 0
    /\ ran = [i \in Steps |-> 0]
    /\ disturbed = FALSE

\* execute_agent_command_run_for_user, up to its first commit.
BeginExecution(r, selected) ==
    /\ runner[r] = Resting /\ selected # {}
    /\ executions < MaxExecutions
    /\ executions' = executions + 1
    /\ runner' = [runner EXCEPT ![r] =
           [at |-> 1, selected |-> selected, copy |-> command.results, mine |-> command.results,
            failure |-> FALSE]]
    /\ command' = [command EXCEPT !.status = "EXECUTING"]
    /\ disturbed' = (disturbed \/ \E q \in Runners : runner[q] # Resting)
    /\ UNCHANGED ran

\* Mutant: a step whose dependencies were not tried does not wait for them.
SatisfiedUnlessFailed(r) ==
    \A i \in DependsOn[runner[r].at] : runner[r].mine[i] \notin {"failed", "blocked"}

Satisfied(r) == \A i \in DependsOn[runner[r].at] : runner[r].mine[i] = "succeeded"
\* Mutant: the loop over the steps ends one too late.
RunningBeyond(r) == runner[r] # Resting /\ runner[r].at <= NSteps + 1

Running(r) == runner[r] # Resting /\ runner[r].at <= NSteps
Records(r, outcome) ==
    runner' = [runner EXCEPT ![r].at = @ + 1, ![r].mine[runner[r].at] = outcome,
                             ![r].failure = @ \/ outcome = "failed"]

\* Mutant: a step that succeeded before is run again.
PassesNone(r) == runner[r].at \notin runner[r].selected

Passes(r) == runner[r].at \notin runner[r].selected \/ runner[r].mine[runner[r].at] = "succeeded"

\* A step that is not selected, or that succeeded before.
PassStep(r) ==
    /\ Running(r) /\ Passes(r)
    /\ runner' = [runner EXCEPT ![r].at = @ + 1]
    /\ UNCHANGED <<command, executions, ran, disturbed>>

BlockStep(r) ==
    /\ Running(r) /\ ~Passes(r) /\ ~Satisfied(r)
    /\ Records(r, "blocked")
    /\ UNCHANGED <<command, executions, ran, disturbed>>

\* _execute_step returns ...
StepSucceeds(r) ==
    /\ Running(r) /\ ~Passes(r) /\ Satisfied(r)
    /\ Records(r, "succeeded")
    /\ ran' = [ran EXCEPT ![runner[r].at] = @ + 1]
    /\ UNCHANGED <<command, executions, disturbed>>

\* ... or raises.
StepFails(r) ==
    /\ Running(r) /\ ~Passes(r) /\ Satisfied(r)
    /\ Records(r, "failed")
    /\ UNCHANGED <<command, executions, ran, disturbed>>

\* Mutant: the status is computed from the steps that were selected.
StatusOfSelected(r) ==
    IF runner[r].failure THEN "FAILED"
    ELSE IF \A i \in runner[r].selected : runner[r].mine[i] = "succeeded" THEN "COMPLETED"
    ELSE "PLANNED"

StatusAfter(r) ==
    IF runner[r].failure THEN "FAILED"
    ELSE IF \A i \in Steps : runner[r].mine[i] = "succeeded" THEN "COMPLETED"
    ELSE "PLANNED"

\* The second commit.  Results that do not differ from the copy are not written.
FinishExecution(r) ==
    /\ runner[r].at = NSteps + 1
    /\ command' = [status |-> StatusAfter(r),
                   results |-> IF runner[r].mine = runner[r].copy THEN command.results
                               ELSE runner[r].mine]
    /\ runner' = [runner EXCEPT ![r] = Resting]
    /\ UNCHANGED <<executions, ran, disturbed>>

\* The process dies, or a step left the session unusable: the results are lost.
ExecutionBreaks(r) ==
    /\ runner[r] # Resting
    /\ runner' = [runner EXCEPT ![r] = Resting]
    /\ disturbed' = TRUE
    /\ UNCHANGED <<command, executions, ran>>

CommandsNext ==
    \E r \in Runners :
        \/ \E selected \in SUBSET Steps : BeginExecution(r, selected)
        \/ PassStep(r) \/ BlockStep(r) \/ StepSucceeds(r) \/ StepFails(r)
        \/ FinishExecution(r) \/ ExecutionBreaks(r)

CommandsSpec == CommandsInit /\ [][CommandsNext]_commandVars

(***************************************************************************)
(* Properties.                                                             *)
(***************************************************************************)
\* The row, the executions and the histories keep the shape the code gives them.
CommandsTypeOK ==
    /\ command \in Command
    /\ runner \in [Runners -> Runner \cup {Resting}]
    /\ executions \in 0 .. MaxExecutions
    /\ ran \in [Steps -> Nat]
    /\ disturbed \in BOOLEAN

\* No step has taken effect before all it depends on, whichever steps are selected,
\* however executions overlap, and whatever results they lose.
DependenciesFirst ==
    \A i \in Steps : ran[i] > 0 => \A j \in DependsOn[i] : ran[j] > 0

\* What is recorded as succeeded did succeed, and a completed command had all of its
\* steps succeed: results that overwrite each other invent no success.
SuccessIsReal ==
    /\ \A i \in Steps : command.results[i] = "succeeded" => ran[i] > 0
    /\ command.status = "COMPLETED" => \A i \in Steps : ran[i] > 0

\* Executions that do not overlap and do not break off take up where the last one
\* ended: no step takes effect twice, and a completed command says so of every step.
ResumesOnce ==
    ~disturbed =>
        /\ \A i \in Steps : ran[i] <= 1
        /\ command.status = "COMPLETED" => \A i \in Steps : command.results[i] = "succeeded"
=============================================================================
