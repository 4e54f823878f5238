---------------------------- MODULE HyperWorkflow ----------------------------
(***************************************************************************)
(* The planning workflow of the Hyper Agent (agents/hyper_workflow.py) and *)
(* its caller (runtime/cli.py): a language model calls tools that change   *)
(* one HyperWorkflowContext, and its final answer is believed only as far  *)
(* as the evidence in that context goes.                                   *)
(*                                                                         *)
(* The model may call any tool it is offered, up to MaxCalls of them in    *)
(* one message, which then run in any order; and it has a shell, so that   *)
(* the files of the workspace may change under the workflow at any time.   *)
(* What the verifiers and solvers say is a choice.  A tool that raises     *)
(* ends the workflow.                                                      *)
(***************************************************************************)
EXTENDS Integers, Sequences, SequencesExt

CONSTANTS
  Shapes,        \* of "generic", "mission1", "mission4", "joint34": what a mission mode prepares
  Contents,      \* contents of a planner file
  Prepared,      \* the content the code itself writes, one of Contents
  Events,        \* records to materialize into data.dzn
  MaxPlanner,    \* max_planner_attempts
  MaxStatechart, \* max_statechart_attempts
  MaxCalls,      \* tool calls in one message of the model
  MaxEmpty,      \* max_empty_responses
  MaxWorkflows,  \* bound on the workflows of one mission
  None

VARIABLES
  shape,     \* the mode of this mission
  context,   \* HyperWorkflowContext, the fields its tools set
  files,     \* the workspace of the revision
  calls,     \* tool calls of the last message that have not run yet
  empties,   \* responses without a tool call or a result
  result,    \* how the workflow ended, or "none"
  verified,  \* the submissions a verifier accepted in this workflow
  active,    \* the plan and the chart last returned as ready, or None
  workflows  \* workflows started so far

vars == <<shape, context, files, calls, empties, result, verified, active, workflows>>

NoDraft == [assets |-> None, attempt |-> 0]   \* a chart that was written from no plan
EmptyWorkspace == [model |-> None, data |-> None, chart |-> None]

NewContext ==
  [choice |-> None, rejected |-> FALSE, submitted |-> None, attempt |-> 0, executed |-> 0,
   checked |-> None, accepted |-> FALSE, outcome |-> None, plan |-> None,
   chartAttempt |-> 0, chart |-> None, rows |-> None]

Init ==
  /\ shape \in Shapes
  /\ context = NewContext /\ files = EmptyWorkspace
  /\ calls = <<>> /\ empties = 0 /\ result = "none" /\ verified = {}
  /\ active = None /\ workflows = 1

Assets == <<files.model, files.data>>
FilesExist == files.model # None /\ files.data # None
RowsMissing == context.rows # None /\ context.rows < Events
RowsPending == context.choice = "minizinc" /\ RowsMissing

----------------------------------------------------------------------------
(* The tools a phase allows.  The shell is never withheld before the end.  *)

AllowedToImprove ==   \* mutant: attempts that are left are offered until they are used up
  IF context.rejected THEN {"result"}
  ELSE IF context.choice = None THEN {"record_planning_intent", "reject_mission_intent"}
  ELSE IF context.accepted THEN {"planner_executor"}
  ELSE IF context.plan # None /\ context.chart = None THEN {"submit_statechart_draft"}
  ELSE IF context.attempt < MaxPlanner THEN {"write_file", "submit_planner_attempt"}
  ELSE {"result"}

Allowed ==
  IF context.rejected THEN {"result"}
  ELSE IF context.choice = None THEN {"record_planning_intent", "reject_mission_intent"}
  ELSE IF context.accepted /\ context.attempt > context.executed THEN {"planner_executor"}
  ELSE IF context.plan = None THEN
    IF context.attempt >= MaxPlanner THEN {"result"}
    ELSE {"write_file"}
         \cup (IF shape = "mission1" /\ context.choice = "minizinc" /\ context.attempt = 0
               THEN {"build_mission1_revision"} ELSE {})
         \cup (IF context.choice = "minizinc" THEN {"initialize_event_data"} ELSE {})
         \cup (IF RowsPending THEN {"materialize_event_data"} ELSE {})
         \cup (IF FilesExist /\ ~RowsPending THEN {"submit_planner_attempt"} ELSE {})
  ELSE IF context.chart # None \/ context.chartAttempt >= MaxStatechart THEN {"result"}
  ELSE IF shape = "joint34" THEN {"submit_statechart_draft"}
  ELSE {"write_file", "submit_statechart_draft"}

(* The final answer is asked for only when nothing else is left to do.     *)
Offered == IF "result" \in Allowed THEN {} ELSE Allowed \cup {"execute"}

Running == result = "none" /\ calls = <<>>

ModelCalls ==
  /\ Running
  /\ \E n \in 1..MaxCalls : calls' \in [1..n -> Offered]
  /\ UNCHANGED <<shape, context, files, empties, result, verified, active, workflows>>

(* A response with neither a call nor a result.                            *)
EmptyResponse ==
  /\ Running
  /\ IF empties = MaxEmpty THEN result' = "failed" /\ UNCHANGED empties
     ELSE empties' = empties + 1 /\ UNCHANGED result
  /\ UNCHANGED <<shape, context, files, calls, verified, active, workflows>>

(* One pending call runs: the rest of the message stays.                   *)
Runs(tool) ==
  /\ result = "none"
  /\ \E i \in DOMAIN calls : calls[i] = tool /\ calls' = RemoveAt(calls, i)
  /\ UNCHANGED <<shape, empties, active, workflows>>

(* A tool raises, on its own checks or on an argument.                     *)
ToolRaises ==
  /\ result = "none" /\ calls # <<>>
  /\ result' = "failed" /\ calls' = <<>>
  /\ UNCHANGED <<shape, context, files, empties, verified, active, workflows>>

Keep == UNCHANGED <<result, verified>>

----------------------------------------------------------------------------
(* Intent.                                                                 *)

(* A rejected candidate changes nothing; a second, different one raises.   *)
(* The deterministic missions get their planner files at once.             *)
RecordPlanningIntent ==
  /\ Runs("record_planning_intent")
  /\ \/ UNCHANGED <<context, files>>
     \/ \E p \in {"minizinc", "fast-downward"} :
          /\ context.choice \in {None, p}
          /\ context' = [context EXCEPT !.choice = p]
          /\ files' = IF \/ shape = "mission4" /\ p = "minizinc"
                         \/ shape = "joint34" /\ p = "fast-downward"
                      THEN [files EXCEPT !.model = Prepared, !.data = Prepared] ELSE files
  /\ Keep

RejectMissionIntent ==
  /\ Runs("reject_mission_intent")
  /\ context.choice = None
  /\ \/ UNCHANGED context                       \* no reason was given
     \/ context' = [context EXCEPT !.rejected = TRUE]
  /\ UNCHANGED files /\ Keep

----------------------------------------------------------------------------
(* Files.                                                                  *)

Written ==
  \/ \E f \in {"model", "data"}, c \in Contents : files' = [files EXCEPT ![f] = c]
  \/ files' = [files EXCEPT !.chart = IF context.plan = None THEN NoDraft ELSE context.plan]

(* write_file, edit_file and the shell's own writes.                       *)
WriteFile ==
  /\ Runs("write_file")
  /\ Written
  /\ UNCHANGED context /\ Keep

Execute ==
  /\ Runs("execute")
  /\ Written \/ files' = [files EXCEPT !.chart = NoDraft] \/ UNCHANGED files
  /\ UNCHANGED context /\ Keep

(* The rows read so far are dropped on a restart, with the data file.      *)
InitializeEventData ==
  /\ Runs("initialize_event_data")
  /\ context.choice = "minizinc"
  /\ IF files.model = None THEN UNCHANGED <<context, files>>
     ELSE \/ context.rows # None /\ UNCHANGED <<context, files>>
          \/ context' = [context EXCEPT !.rows = 0] /\ files' = [files EXCEPT !.data = None]
          \/ context.rows = None /\ context' = [context EXCEPT !.rows = 0] /\ UNCHANGED files
  /\ Keep

(* A contiguous batch; the last one writes data.dzn.                       *)
MaterializeEventData ==
  /\ Runs("materialize_event_data")
  /\ context.rows = None \/ RowsMissing
  /\ \/ UNCHANGED <<context, files>>           \* not contiguous, or not initialized
     \/ /\ context.rows # None
        /\ \E k \in 1..(Events - context.rows) :
             /\ context' = [context EXCEPT !.rows = @ + k]
             /\ IF context.rows + k = Events
                THEN \E c \in Contents : files' = [files EXCEPT !.data = c]
                ELSE UNCHANGED files
  /\ Keep

----------------------------------------------------------------------------
(* Planner attempts.                                                       *)

MaySubmit(c, f) ==
  /\ c.choice # None
  /\ ~(c.choice = "minizinc" /\ c.rows # None /\ c.rows < Events)
  /\ c.attempt < MaxPlanner
  /\ f.model # None /\ f.data # None

(* A submission replaces the last one and what came of it.                 *)
Submitted(c, assets, verdict) ==
  [c EXCEPT !.attempt = @ + 1, !.submitted = assets, !.checked = verdict,
            !.accepted = verdict, !.plan = None, !.outcome = None]

SubmitPlannerAttempt ==
  /\ Runs("submit_planner_attempt")
  /\ IF context.choice = None THEN UNCHANGED <<context, verified>>
     ELSE /\ MaySubmit(context, files)
          /\ \E verdict \in BOOLEAN :
               /\ context' = Submitted(context, Assets, verdict)
               /\ verified' = IF verdict THEN verified \cup {<<context.attempt + 1, Assets>>} ELSE verified
  /\ UNCHANGED <<files, result>>

ExecutedSilently(c, assets, solved) ==   \* mutant: an unsolved run leaves no outcome behind
  [c EXCEPT !.executed = c.attempt, !.accepted = FALSE, !.outcome = IF solved THEN "run" ELSE @,
            !.plan = IF solved THEN [assets |-> assets, attempt |-> c.attempt] ELSE None]

(* The solver ran, and its plan was validated or not.                      *)
Executed(c, assets, solved) ==
  [c EXCEPT !.executed = c.attempt, !.accepted = FALSE, !.outcome = "run",
            !.plan = IF solved THEN [assets |-> assets, attempt |-> c.attempt] ELSE None]

Emitted(c, f) == IF shape = "joint34" /\ c.plan # None THEN [f EXCEPT !.chart = c.plan] ELSE f

PlannerExecutorOnFiles ==   \* mutant: runs the files as they are now
  /\ Runs("planner_executor")
  /\ context.accepted /\ FilesExist
  /\ \E solved \in BOOLEAN :
       context' = Executed(context, Assets, solved) /\ files' = Emitted(context', files)
  /\ Keep

(* The files are read again and have to be the ones that were accepted.    *)
PlannerExecutor ==
  /\ Runs("planner_executor")
  /\ IF context.choice = None THEN UNCHANGED <<context, files>>
     ELSE /\ FilesExist
          /\ IF ~context.accepted THEN UNCHANGED <<context, files>>
             ELSE /\ Assets = context.submitted
                  /\ \E solved \in BOOLEAN :
                       /\ context' = Executed(context, context.submitted, solved)
                       /\ files' = Emitted(context', files)
  /\ Keep

----------------------------------------------------------------------------
(* The Statechart.                                                         *)

(* An attempt is charged before the path, the file, the schema and the     *)
(* machine are looked at.                                                  *)
Charted(c, draft, verdict) ==
  [c EXCEPT !.chartAttempt = @ + 1,
            !.chart = IF verdict /\ draft # None THEN [plan |-> c.plan, draft |-> draft] ELSE @]

SubmitStatechartDraft ==
  /\ Runs("submit_statechart_draft")
  /\ IF context.plan = None THEN UNCHANGED <<context, files>>
     ELSE /\ context.chartAttempt < MaxStatechart
          /\ \/ context' = Charted(context, None, FALSE) /\ UNCHANGED files   \* a wrong path
             \/ /\ files' = Emitted(context, files)
                /\ \E verdict \in BOOLEAN : context' = Charted(context, files'.chart, verdict)
  /\ Keep

(* The checked-in pipeline calls the three tools after its own helpers and *)
(* stops at the first that fails.                                          *)
BuildMission1Revision ==
  /\ Runs("build_mission1_revision")
  /\ IF shape # "mission1" \/ context.choice # "minizinc" THEN UNCHANGED <<context, files, verified>>
     ELSE \/ UNCHANGED <<context, files, verified>>   \* a helper failed
          \/ LET prepared == [files EXCEPT !.model = Prepared, !.data = Prepared]
                 assets == <<Prepared, Prepared>> IN
             /\ MaySubmit(context, prepared)
             /\ \E verdict, solved, drawn, valid \in BOOLEAN :
                  LET submitted == Submitted(context, assets, verdict)
                      executed == Executed(submitted, assets, solved)
                      charted == Charted(executed, executed.plan, valid) IN
                  /\ verified' = IF verdict THEN verified \cup {<<submitted.attempt, assets>>} ELSE verified
                  /\ context' = IF ~verdict THEN submitted
                                ELSE IF ~solved \/ ~drawn THEN executed ELSE charted
                  /\ files' = IF verdict /\ solved /\ drawn
                              THEN [prepared EXCEPT !.chart = executed.plan] ELSE prepared
                  /\ verdict /\ solved /\ drawn => executed.chartAttempt < MaxStatechart
  /\ UNCHANGED result

----------------------------------------------------------------------------
(* The end of a workflow, and the next one.                                *)

Evidence(outcome) ==
  CASE outcome = "execution_ready" -> context.plan # None /\ context.chart # None
    [] outcome = "planner_rejected" ->
         /\ context.plan = None
         /\ context.outcome # None \/ context.checked = FALSE
         /\ context.attempt >= MaxPlanner
    [] outcome = "mission_rejected" ->
         context.rejected /\ context.choice = None /\ context.plan = None /\ context.chart = None
    [] outcome = "statechart_rejected" ->
         context.plan # None /\ context.chartAttempt >= MaxStatechart /\ context.chart = None

Outcomes == {"execution_ready", "planner_rejected", "mission_rejected", "statechart_rejected"}

Finish ==
  /\ Running /\ "result" \in Allowed
  /\ \E outcome \in Outcomes :
       /\ result' = IF Evidence(outcome) THEN outcome ELSE "failed"
       /\ active' = IF result' = "execution_ready"
                    THEN [plan |-> context.plan, chart |-> context.chart] ELSE active
  /\ UNCHANGED <<shape, context, files, calls, empties, verified, workflows>>

(* A replan.  The next revision has a workspace of its own; one that was   *)
(* rejected is tried again in the same workspace, under the plan that      *)
(* stays active.  A failure, or a rejection of the first plan, ends the    *)
(* mission.                                                                *)
Replan ==
  /\ workflows < MaxWorkflows
  /\ active # None /\ result \in Outcomes
  /\ context' = NewContext /\ calls' = <<>> /\ empties' = 0 /\ result' = "none" /\ verified' = {}
  /\ files' = IF result = "execution_ready" THEN EmptyWorkspace ELSE files
  /\ workflows' = workflows + 1
  /\ UNCHANGED <<shape, active>>

----------------------------------------------------------------------------
Next ==
  \/ ModelCalls \/ EmptyResponse \/ ToolRaises
  \/ RecordPlanningIntent \/ RejectMissionIntent
  \/ WriteFile \/ Execute \/ InitializeEventData \/ MaterializeEventData
  \/ SubmitPlannerAttempt \/ PlannerExecutor \/ SubmitStatechartDraft
  \/ BuildMission1Revision
  \/ Finish \/ Replan

Spec == Init /\ [][Next]_vars
----------------------------------------------------------------------------
(* A recorded plan is the solver's answer to the very files that the       *)
(* verifier accepted in this attempt, whatever the shell did to the        *)
(* workspace in between.                                                   *)
PlanOfVerifiedFiles == context.plan # None => <<context.plan.attempt, context.plan.assets>> \in verified

(* The Statechart a workflow returns was accepted for the plan it returns; *)
(* a code-owned chart was moreover emitted from that plan.                 *)
ReadyBinds ==
  result = "execution_ready" =>
    /\ active.chart.plan = active.plan
    /\ shape = "joint34" => active.chart.draft = active.plan

(* The workflow never asks for a final answer that it would refuse         *)
(* whatever the answer is.                                                 *)
CanAlwaysFinish == Running /\ "result" \in Allowed => \E outcome \in Outcomes : Evidence(outcome)
=============================================================================
