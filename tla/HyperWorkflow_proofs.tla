------------------------ MODULE HyperWorkflow_proofs ------------------------
(***************************************************************************)
(* Theorems about the planning workflow, for every budget of attempts,     *)
(* every content of the files, and any number of workflows.                *)
(***************************************************************************)
EXTENDS HyperWorkflow, TLAPS

(* A context keeps the fields it was made with.                            *)
HasFields(c) ==
  c = [choice |-> c.choice, rejected |-> c.rejected, submitted |-> c.submitted,
       attempt |-> c.attempt, executed |-> c.executed, checked |-> c.checked,
       accepted |-> c.accepted, outcome |-> c.outcome, plan |-> c.plan,
       chartAttempt |-> c.chartAttempt, chart |-> c.chart, rows |-> c.rows]

(* What a submission, an execution and a chart do to a context.            *)
LEMMA SubmittedEffect ==
  ASSUME NEW c, HasFields(c), NEW assets, NEW verdict \in BOOLEAN
  PROVE  LET d == Submitted(c, assets, verdict) IN
         /\ HasFields(d)
         /\ d.attempt = c.attempt + 1 /\ d.submitted = assets
         /\ d.checked = verdict /\ d.accepted = verdict
         /\ d.plan = None /\ d.outcome = None
         /\ d.choice = c.choice /\ d.rejected = c.rejected /\ d.executed = c.executed
         /\ d.chartAttempt = c.chartAttempt /\ d.chart = c.chart
<1> SUFFICES ASSUME NEW d, d = Submitted(c, assets, verdict)
             PROVE  /\ HasFields(d)
                    /\ d.attempt = c.attempt + 1 /\ d.submitted = assets
                    /\ d.checked = verdict /\ d.accepted = verdict
                    /\ d.plan = None /\ d.outcome = None
                    /\ d.choice = c.choice /\ d.rejected = c.rejected /\ d.executed = c.executed
                    /\ d.chartAttempt = c.chartAttempt /\ d.chart = c.chart
  OBVIOUS
<1> QED
  BY DEF HasFields, Submitted

LEMMA ExecutedEffect ==
  ASSUME NEW c, HasFields(c), NEW assets, NEW solved \in BOOLEAN
  PROVE  LET d == Executed(c, assets, solved) IN
         /\ HasFields(d)
         /\ d.executed = c.attempt /\ d.accepted = FALSE /\ d.outcome = "run"
         /\ d.attempt = c.attempt /\ d.submitted = c.submitted /\ d.checked = c.checked
         /\ d.choice = c.choice /\ d.rejected = c.rejected
         /\ d.chartAttempt = c.chartAttempt /\ d.chart = c.chart
<1> SUFFICES ASSUME NEW d, d = Executed(c, assets, solved)
             PROVE  /\ HasFields(d)
                    /\ d.executed = c.attempt /\ d.accepted = FALSE /\ d.outcome = "run"
                    /\ d.attempt = c.attempt /\ d.submitted = c.submitted
                    /\ d.checked = c.checked
                    /\ d.choice = c.choice /\ d.rejected = c.rejected
                    /\ d.chartAttempt = c.chartAttempt /\ d.chart = c.chart
  OBVIOUS
<1> QED
  BY DEF HasFields, Executed

LEMMA ExecutedPlan ==
  ASSUME NEW c, HasFields(c), NEW assets, NEW solved \in BOOLEAN
  PROVE  Executed(c, assets, solved).plan =
           IF solved THEN [assets |-> assets, attempt |-> c.attempt] ELSE None
BY DEF HasFields, Executed

LEMMA ChartedEffect ==
  ASSUME NEW c, HasFields(c), NEW draft, NEW verdict \in BOOLEAN
  PROVE  LET d == Charted(c, draft, verdict) IN
         /\ HasFields(d)
         /\ d.chartAttempt = c.chartAttempt + 1
         /\ d.attempt = c.attempt /\ d.submitted = c.submitted /\ d.executed = c.executed
         /\ d.checked = c.checked /\ d.accepted = c.accepted /\ d.outcome = c.outcome
         /\ d.plan = c.plan /\ d.choice = c.choice /\ d.rejected = c.rejected
<1> SUFFICES ASSUME NEW d, d = Charted(c, draft, verdict)
             PROVE  /\ HasFields(d)
                    /\ d.chartAttempt = c.chartAttempt + 1
                    /\ d.attempt = c.attempt /\ d.submitted = c.submitted
                    /\ d.executed = c.executed /\ d.checked = c.checked
                    /\ d.accepted = c.accepted /\ d.outcome = c.outcome
                    /\ d.plan = c.plan /\ d.choice = c.choice /\ d.rejected = c.rejected
  OBVIOUS
<1> QED
  BY DEF HasFields, Charted

LEMMA ChartedChart ==
  ASSUME NEW c, HasFields(c), NEW draft, NEW verdict \in BOOLEAN
  PROVE  Charted(c, draft, verdict).chart =
           IF verdict /\ draft # None THEN [plan |-> c.plan, draft |-> draft] ELSE c.chart
BY DEF HasFields, Charted
----------------------------------------------------------------------------
(* What is accepted, and not executed yet, was verified as it was          *)
(* submitted.                                                              *)
Accepted(c, v) == c.accepted = TRUE => <<c.attempt, c.submitted>> \in v
Planned(c, v) == c.plan # None => <<c.plan.attempt, c.plan.assets>> \in v
PlanInv == HasFields(context) /\ Accepted(context, verified) /\ Planned(context, verified)

LEMMA PlanInvInit == Init => PlanInv
BY DEF Init, NewContext, PlanInv, HasFields, Accepted, Planned

(* What a build of the mission 1 revision records, if it records anything. *)
LEMMA RevisionBuilt ==
  ASSUME BuildMission1Revision, ~UNCHANGED <<context, verified>>
  PROVE  /\ shape = "mission1"
         /\ \E v, s, drawn, w \in BOOLEAN :
              LET assets == <<Prepared, Prepared>>
                  submitted == Submitted(context, assets, v)
                  executed == Executed(submitted, assets, s) IN
              /\ verified' = IF v THEN verified \cup {<<submitted.attempt, assets>>} ELSE verified
              /\ context' = IF ~v THEN submitted
                            ELSE IF ~s \/ ~drawn THEN executed
                            ELSE Charted(executed, executed.plan, w)
<1>1. shape = "mission1" /\ context.choice = "minizinc"
  BY Zenon DEF BuildMission1Revision
<1>2. \E v, s, drawn, w \in BOOLEAN :
        LET assets == <<Prepared, Prepared>>
            submitted == Submitted(context, assets, v)
            executed == Executed(submitted, assets, s)
            charted == Charted(executed, executed.plan, w) IN
        /\ verified' = IF v THEN verified \cup {<<submitted.attempt, assets>>} ELSE verified
        /\ context' = IF ~v THEN submitted ELSE IF ~s \/ ~drawn THEN executed ELSE charted
  BY <1>1, ZenonT(60) DEF BuildMission1Revision
<1> QED
  BY <1>1, <1>2, Zenon

LEMMA PlanInvStep == PlanInv /\ [Next]_vars => PlanInv'
<1> SUFFICES ASSUME PlanInv, [Next]_vars PROVE PlanInv'
  OBVIOUS
<1> USE DEF PlanInv, Accepted, Planned
<1>1. ASSUME UNCHANGED <<context, verified>> PROVE PlanInv'
  BY <1>1 DEF HasFields
<1>2. CASE RecordPlanningIntent
  BY <1>2 DEF RecordPlanningIntent, Keep, HasFields
<1>3. CASE RejectMissionIntent
  BY <1>3 DEF RejectMissionIntent, Keep, HasFields
<1>4. CASE InitializeEventData
  BY <1>4 DEF InitializeEventData, Keep, HasFields
<1>5. CASE MaterializeEventData
  BY <1>5 DEF MaterializeEventData, Keep, HasFields
<1>6. CASE SubmitPlannerAttempt
  <2>1. CASE UNCHANGED <<context, verified>>
    BY <1>1, <2>1
  <2>2. ASSUME NEW verdict \in BOOLEAN, context' = Submitted(context, Assets, verdict),
               verified' = IF verdict THEN verified \cup {<<context.attempt + 1, Assets>>}
                           ELSE verified
        PROVE  PlanInv'
    <3>1. /\ HasFields(context') /\ context'.attempt = context.attempt + 1
          /\ context'.submitted = Assets /\ context'.accepted = verdict /\ context'.plan = None
      BY <2>2, SubmittedEffect
    <3> QED
      BY <2>2, <3>1
  <2> QED
    BY <1>6, <2>1, <2>2 DEF SubmitPlannerAttempt
<1>7. CASE PlannerExecutor
  <2>1. CASE context' = context
    BY <1>1, <1>7, <2>1 DEF PlannerExecutor, Keep
  <2>2. ASSUME NEW solved \in BOOLEAN, context.accepted,
               context' = Executed(context, context.submitted, solved)
        PROVE  PlanInv'
    <3>1. /\ HasFields(context') /\ context'.accepted = FALSE
          /\ context'.plan = IF solved THEN [assets |-> context.submitted, attempt |-> context.attempt]
                             ELSE None
      BY <2>2, ExecutedEffect, ExecutedPlan
    <3>2. verified' = verified
      BY <1>7 DEF PlannerExecutor, Keep
    <3> QED
      BY <2>2, <3>1, <3>2
  <2> QED
    BY <1>7, <2>1, <2>2 DEF PlannerExecutor
<1>8. CASE SubmitStatechartDraft
  <2>1. CASE context' = context
    BY <1>1, <1>8, <2>1 DEF SubmitStatechartDraft, Keep
  <2>2. ASSUME NEW draft, NEW verdict \in BOOLEAN, context' = Charted(context, draft, verdict)
        PROVE  PlanInv'
    <3>1. /\ HasFields(context') /\ context'.accepted = context.accepted
          /\ context'.attempt = context.attempt /\ context'.submitted = context.submitted
          /\ context'.plan = context.plan
      BY <2>2, ChartedEffect, ChartedChart
    <3>2. verified' = verified
      BY <1>8 DEF SubmitStatechartDraft, Keep
    <3> QED
      BY <3>1, <3>2
  <2> QED
    BY <1>8, <2>1, <2>2 DEF SubmitStatechartDraft
<1>9. CASE BuildMission1Revision
  <2>1. CASE UNCHANGED <<context, verified>>
    BY <1>1, <2>1
  <2>4. SUFFICES ASSUME ~UNCHANGED <<context, verified>> PROVE PlanInv'
    BY <2>1
  <2> DEFINE assets == <<Prepared, Prepared>>
  <2> DEFINE submitted(v) == Submitted(context, assets, v)
             executed(v, s) == Executed(submitted(v), assets, s)
             charted(v, s, w) == Charted(executed(v, s), executed(v, s).plan, w)
  <2>2. ASSUME NEW v \in BOOLEAN, NEW s \in BOOLEAN, NEW w \in BOOLEAN
        PROVE  /\ HasFields(submitted(v)) /\ submitted(v).accepted = v /\ submitted(v).plan = None
               /\ submitted(v).submitted = assets
               /\ HasFields(executed(v, s)) /\ executed(v, s).accepted = FALSE
               /\ executed(v, s).plan =
                    IF s THEN [assets |-> assets, attempt |-> submitted(v).attempt] ELSE None
               /\ HasFields(charted(v, s, w)) /\ charted(v, s, w).accepted = FALSE
               /\ charted(v, s, w).plan = executed(v, s).plan
    <3>1. /\ HasFields(submitted(v)) /\ submitted(v).accepted = v /\ submitted(v).plan = None
          /\ submitted(v).submitted = assets
      BY SubmittedEffect
    <3> HIDE DEF submitted
    <3>2. /\ HasFields(executed(v, s)) /\ executed(v, s).accepted = FALSE
          /\ executed(v, s).plan =
               IF s THEN [assets |-> assets, attempt |-> submitted(v).attempt] ELSE None
      <4>1. ASSUME NEW c, HasFields(c)
            PROVE  /\ HasFields(Executed(c, assets, s)) /\ Executed(c, assets, s).accepted = FALSE
                   /\ Executed(c, assets, s).plan =
                        IF s THEN [assets |-> assets, attempt |-> c.attempt] ELSE None
        BY <4>1, ExecutedEffect, ExecutedPlan
      <4> QED
        BY ONLY <3>1, <4>1
    <3> HIDE DEF executed
    <3>3. /\ HasFields(charted(v, s, w)) /\ charted(v, s, w).accepted = FALSE
          /\ charted(v, s, w).plan = executed(v, s).plan
      BY <3>2, ChartedEffect, ChartedChart
    <3> QED
      BY <3>1, <3>2, <3>3
  <2>3. PICK v, s, drawn, w \in BOOLEAN :
          /\ verified' = IF v THEN verified \cup {<<submitted(v).attempt, assets>>} ELSE verified
          /\ context' = IF ~v THEN submitted(v)
                        ELSE IF ~s \/ ~drawn THEN executed(v, s) ELSE charted(v, s, w)
    BY <1>9, <2>4, RevisionBuilt, Zenon
  <2> HIDE DEF submitted, executed, charted
  <2>5. CASE ~v
    BY <2>2, <2>3, <2>5
  <2>6. CASE v
    <3>1. <<submitted(v).attempt, assets>> \in verified'
      BY <2>3, <2>6
    <3>2. context' = executed(v, s) \/ context' = charted(v, s, w)
      BY <2>3, <2>6
    <3>4. /\ HasFields(executed(v, s)) /\ executed(v, s).accepted = FALSE
          /\ executed(v, s).plan =
               IF s THEN [assets |-> assets, attempt |-> submitted(v).attempt] ELSE None
          /\ HasFields(charted(v, s, w)) /\ charted(v, s, w).accepted = FALSE
          /\ charted(v, s, w).plan = executed(v, s).plan
      BY <2>2, Zenon
    <3>3. /\ HasFields(context') /\ context'.accepted = FALSE
          /\ context'.plan = IF s THEN [assets |-> assets, attempt |-> submitted(v).attempt] ELSE None
      BY <3>4, <3>2
    <3> HIDE DEF assets
    <3> QED
      BY ONLY <3>1, <3>3 DEF PlanInv, Accepted, Planned
  <2> QED
    BY <2>5, <2>6
<1>10. CASE Replan
  BY <1>10 DEF Replan, NewContext, HasFields
<1>11. CASE ModelCalls \/ EmptyResponse \/ ToolRaises \/ WriteFile \/ Execute \/ Finish
            \/ UNCHANGED vars
  BY <1>1, <1>11 DEF ModelCalls, EmptyResponse, ToolRaises, WriteFile, Execute, Finish, Keep, vars
<1> QED
  BY <1>2, <1>3, <1>4, <1>5, <1>6, <1>7, <1>8, <1>9, <1>10, <1>11 DEF Next

(* The plan of a workflow was solved from the files its verifier accepted  *)
(* in the same attempt, however many calls a message holds and whatever    *)
(* the shell writes in between.                                            *)
THEOREM PlanVerified == Spec => []PlanOfVerifiedFiles
<1>1. Init => PlanInv
  BY PlanInvInit
<1>2. PlanInv /\ [Next]_vars => PlanInv'
  BY PlanInvStep
<1>3. PlanInv => PlanOfVerifiedFiles
  BY DEF PlanInv, Planned, PlanOfVerifiedFiles
<1> QED
  BY <1>1, <1>2, <1>3, PTL DEF Spec
----------------------------------------------------------------------------
(* From here on a message holds one call, which is then one the present    *)
(* phase allows.                                                           *)
OneCall == calls # <<>> => \E t \in Offered : calls = <<t>>

LEMMA RunsOne ==
  ASSUME OneCall, NEW tool, Runs(tool)
  PROVE  /\ tool \in Offered /\ calls' = <<>>
         /\ result = "none" /\ UNCHANGED <<shape, active>>
<1>1. PICK i \in DOMAIN calls : calls[i] = tool /\ calls' = RemoveAt(calls, i)
  BY DEF Runs
<1>2. PICK t \in Offered : calls = <<t>>
  BY <1>1 DEF OneCall
<1>3. i = 1 /\ t = tool /\ Len(calls) = 1
  BY <1>1, <1>2
<1>4. calls' = <<>>
  BY <1>1, <1>2, <1>3 DEF RemoveAt
<1> QED
  BY <1>2, <1>3, <1>4 DEF Runs

(* How far a context has come.                                             *)
Phased(c) ==
  /\ c.attempt \in Nat /\ c.executed \in Nat /\ c.executed <= c.attempt
  /\ c.rejected \in BOOLEAN /\ c.accepted \in BOOLEAN
  /\ c.rejected => c.choice = None
  /\ c.accepted => c.executed < c.attempt
  /\ c.plan # None => c.choice # None /\ ~c.accepted
  /\ ~c.accepted /\ c.plan = None /\ c.attempt > 0 => c.outcome # None \/ c.checked = FALSE

(* A chart is of the plan beside it.                                       *)
Bound(plan, chart) == chart.plan = plan /\ (shape = "joint34" => chart.draft = plan)

Workspace == files = [model |-> files.model, data |-> files.data, chart |-> files.chart]

PhaseInv ==
  /\ Workspace /\ HasFields(context) /\ OneCall /\ Phased(context)
  /\ context.chart # None => context.plan # None /\ Bound(context.plan, context.chart)
  /\ result = "execution_ready" => Bound(active.plan, active.chart)

(* The phase in which each call that matters is offered.                   *)
LEMMA OfferedPhase ==
  ASSUME Phased(context), NEW tool \in Offered
  PROVE  /\ tool \in {"record_planning_intent", "reject_mission_intent"} =>
              context.choice = None /\ ~context.rejected
         /\ tool \in {"submit_planner_attempt", "build_mission1_revision"} =>
              context.plan = None /\ context.choice # None /\ ~context.rejected
         /\ tool = "planner_executor" =>
              /\ context.accepted /\ context.plan = None /\ context.choice # None
              /\ ~context.rejected
         /\ tool = "submit_statechart_draft" =>
              context.plan # None /\ context.choice # None /\ ~context.rejected
BY DEF Offered, Allowed, Phased

LEMMA PhaseInvInit == Init => PhaseInv
BY DEF Init, NewContext, EmptyWorkspace, PhaseInv, Workspace, HasFields, OneCall, Phased

(* A call that changes the context in a way its phase allows.              *)
LEMMA PhaseKept ==
  ASSUME PhaseInv, calls' = <<>>, UNCHANGED <<shape, active>>, result' # "execution_ready",
         Workspace', HasFields(context'), Phased(context'),
         context'.chart # None => context'.plan # None /\ Bound(context'.plan, context'.chart)
  PROVE  PhaseInv'
BY DEF PhaseInv, OneCall, Phased, HasFields, Bound

LEMMA PhaseInvStep ==
  ASSUME MaxCalls = 1, None # "run", PhaseInv, [Next]_vars
  PROVE  PhaseInv'
<1>0. /\ Workspace /\ HasFields(context) /\ OneCall /\ Phased(context)
      /\ context.chart # None => context.plan # None
  BY DEF PhaseInv
<1>1. CASE ModelCalls
  <2>1. PICK n \in 1..MaxCalls : calls' \in [1..n -> Offered]
    BY <1>1 DEF ModelCalls
  <2>2. n = 1 /\ calls' = <<calls'[1]>> /\ calls'[1] \in Offered
    BY <2>1
  <2>3. UNCHANGED <<shape, context, files, result, active>>
    BY <1>1 DEF ModelCalls
  <2>4. Offered' = Offered
    BY <2>3 DEF Offered, Allowed, RowsPending, RowsMissing, FilesExist
  <2>5. OneCall'
    BY <2>2, <2>4 DEF OneCall
  <2> QED
    BY <2>3, <2>5 DEF PhaseInv, Workspace, HasFields, Phased, Bound
<1>2. CASE EmptyResponse \/ ToolRaises \/ UNCHANGED vars
  <2>1. /\ UNCHANGED <<shape, context, files, active>>
        /\ calls' = calls \/ calls' = <<>>
        /\ result' = result \/ result' = "failed"
    BY <1>2 DEF EmptyResponse, ToolRaises, vars
  <2>2. Offered' = Offered
    BY <2>1 DEF Offered, Allowed, RowsPending, RowsMissing, FilesExist
  <2> QED
    BY <2>1, <2>2 DEF PhaseInv, OneCall, Workspace, HasFields, Phased, Bound
<1>3. CASE RecordPlanningIntent
  <2>1. /\ "record_planning_intent" \in Offered /\ calls' = <<>> /\ result' = "none"
        /\ UNCHANGED <<shape, active>>
    BY <1>3, RunsOne, <1>0 DEF RecordPlanningIntent, Keep
  <2>2. context.choice = None /\ ~context.rejected
    BY <2>1, OfferedPhase, <1>0
  <2>3. HasFields(context') /\ Phased(context') /\ UNCHANGED <<context.plan, context.chart>>
    BY <1>0, <1>3, <2>2 DEF RecordPlanningIntent, HasFields, Phased
  <2>9. Workspace'
    BY <1>0, <1>3 DEF RecordPlanningIntent, Workspace
  <2> QED
    BY <2>9, <2>1, <2>3, PhaseKept DEF PhaseInv, Bound
<1>4. CASE RejectMissionIntent
  <2>1. /\ "reject_mission_intent" \in Offered /\ calls' = <<>> /\ result' = "none"
        /\ UNCHANGED <<shape, active>>
    BY <1>4, RunsOne, <1>0 DEF RejectMissionIntent, Keep
  <2>2. HasFields(context') /\ Phased(context') /\ UNCHANGED <<context.plan, context.chart>>
    BY <1>0, <1>4 DEF RejectMissionIntent, HasFields, Phased
  <2>9. Workspace'
    BY <1>0, <1>4 DEF RejectMissionIntent, Workspace
  <2> QED
    BY <2>9, <2>1, <2>2, PhaseKept DEF PhaseInv, Bound
<1>5. CASE WriteFile \/ Execute
  <2>1. calls' = <<>> /\ result' = "none" /\ UNCHANGED <<shape, active, context>>
    BY <1>5, RunsOne, <1>0 DEF WriteFile, Execute, Keep
  <2>2. Workspace'
    BY <1>0, <1>5 DEF WriteFile, Execute, Written, Workspace
  <2> QED
    BY <2>1, <2>2 DEF PhaseInv, OneCall, HasFields, Phased, Bound
<1>6. CASE InitializeEventData \/ MaterializeEventData
  <2>1. calls' = <<>> /\ result' = "none" /\ UNCHANGED <<shape, active>>
    BY <1>6, RunsOne, <1>0 DEF InitializeEventData, MaterializeEventData, Keep
  <2>2. HasFields(context') /\ Phased(context') /\ UNCHANGED <<context.plan, context.chart>>
    BY <1>0, <1>6 DEF InitializeEventData, MaterializeEventData, HasFields, Phased
  <2>9. Workspace'
    BY <1>0, <1>6 DEF InitializeEventData, MaterializeEventData, Workspace
  <2> QED
    BY <2>9, <2>1, <2>2, PhaseKept DEF PhaseInv, Bound
<1>7. CASE SubmitPlannerAttempt
  <2>1. /\ "submit_planner_attempt" \in Offered /\ calls' = <<>> /\ result' = "none"
        /\ UNCHANGED <<shape, active>>
    BY <1>7, RunsOne, <1>0 DEF SubmitPlannerAttempt
  <2>2. context.plan = None /\ context.chart = None /\ context.choice # None /\ ~context.rejected
    BY <2>1, OfferedPhase, <1>0
  <2>3. PICK verdict \in BOOLEAN : context' = Submitted(context, Assets, verdict)
    BY <1>7, <2>2 DEF SubmitPlannerAttempt
  <2>4. /\ HasFields(context')
        /\ context'.attempt = context.attempt + 1
        /\ context'.checked = verdict /\ context'.accepted = verdict
        /\ context'.plan = None /\ context'.rejected = context.rejected
        /\ context'.executed = context.executed /\ context'.chart = context.chart
    BY <1>0, <2>3, SubmittedEffect
  <2>5. Phased(context')
    BY <1>0, <2>2, <2>4 DEF Phased
  <2>9. Workspace'
    BY <1>0, <1>7 DEF SubmitPlannerAttempt, Workspace
  <2> QED
    BY <2>9, <2>1, <2>2, <2>4, <2>5, PhaseKept
<1>8. CASE PlannerExecutor
  <2>1. /\ "planner_executor" \in Offered /\ calls' = <<>> /\ result' = "none"
        /\ UNCHANGED <<shape, active>>
    BY <1>8, RunsOne, <1>0 DEF PlannerExecutor, Keep
  <2>2. /\ context.accepted /\ context.plan = None /\ context.chart = None
        /\ context.choice # None /\ ~context.rejected
    BY <2>1, OfferedPhase, <1>0
  <2>3. PICK solved \in BOOLEAN : context' = Executed(context, context.submitted, solved)
    BY <1>8, <2>2 DEF PlannerExecutor
  <2>4. /\ HasFields(context')
        /\ context'.executed = context.attempt /\ context'.accepted = FALSE
        /\ context'.outcome = "run" /\ context'.attempt = context.attempt
        /\ context'.choice = context.choice /\ context'.rejected = context.rejected
        /\ context'.chart = context.chart
    <3>1. ASSUME NEW c, HasFields(c), NEW assets
          PROVE  LET d == Executed(c, assets, solved) IN
                 /\ HasFields(d) /\ d.executed = c.attempt /\ d.accepted = FALSE
                 /\ d.outcome = "run" /\ d.attempt = c.attempt
                 /\ d.choice = c.choice /\ d.rejected = c.rejected /\ d.chart = c.chart
      BY <3>1, ExecutedEffect, ExecutedPlan
    <3> QED
      BY <1>0, <2>3, <3>1
  <2>5. Phased(context')
    <3>1. /\ context'.attempt \in Nat /\ context'.executed \in Nat
          /\ context'.executed <= context'.attempt
      BY <1>0, <2>4 DEF Phased
    <3>2. context'.rejected \in BOOLEAN /\ context'.accepted \in BOOLEAN /\ ~context'.accepted
      BY <1>0, <2>4 DEF Phased
    <3>3. ~context'.rejected /\ context'.choice # None /\ context'.outcome # None
      BY <2>2, <2>4
    <3> QED
      BY <3>1, <3>2, <3>3 DEF Phased
  <2>9. Workspace'
    BY <1>0, <1>8 DEF PlannerExecutor, Workspace, Emitted
  <2> QED
    BY <2>9, <2>1, <2>2, <2>4, <2>5, PhaseKept
<1>9. CASE SubmitStatechartDraft
  <2>1. /\ "submit_statechart_draft" \in Offered /\ calls' = <<>> /\ result' = "none"
        /\ UNCHANGED <<shape, active>>
    BY <1>9, RunsOne, <1>0 DEF SubmitStatechartDraft, Keep
  <2>2. context.plan # None /\ context.choice # None /\ ~context.rejected
    BY <2>1, OfferedPhase, <1>0
  <2>3. shape = "joint34" => Emitted(context, files).chart = context.plan
    BY <1>0, <2>2 DEF Emitted, Workspace
  <2>4. PICK draft \in {None, files'.chart}, verdict \in BOOLEAN :
          /\ context' = Charted(context, draft, verdict)
          /\ verdict /\ shape = "joint34" => draft = context.plan
    <3>1. CASE context' = Charted(context, None, FALSE)
      BY <3>1, Zenon
    <3>2. CASE \E verdict \in BOOLEAN : context' = Charted(context, files'.chart, verdict)
                                     /\ files' = Emitted(context, files)
      BY <2>3, <3>2, Zenon
    <3> QED
      BY <1>9, <2>2, <3>1, <3>2 DEF SubmitStatechartDraft
  <2>5. /\ HasFields(context')
        /\ context'.chart = IF verdict /\ draft # None THEN [plan |-> context.plan, draft |-> draft]
                            ELSE context.chart
        /\ context'.attempt = context.attempt /\ context'.executed = context.executed
        /\ context'.checked = context.checked /\ context'.accepted = context.accepted
        /\ context'.outcome = context.outcome /\ context'.plan = context.plan
        /\ context'.choice = context.choice /\ context'.rejected = context.rejected
    BY <1>0, <2>4, ChartedEffect, ChartedChart
  <2>6. Phased(context')
    BY <1>0, <2>5 DEF Phased
  <2>7. context'.chart # None => Bound(context'.plan, context'.chart)
    BY <2>1, <2>4, <2>5 DEF PhaseInv, Bound
  <2>9. Workspace'
    BY <1>0, <1>9 DEF SubmitStatechartDraft, Emitted, Workspace
  <2> QED
    BY <2>1, <2>2, <2>5, <2>6, <2>7, <2>9, PhaseKept
<1>10. CASE BuildMission1Revision
  <2>1. /\ "build_mission1_revision" \in Offered /\ calls' = <<>> /\ result' = "none"
        /\ UNCHANGED <<shape, active>>
    BY <1>10, RunsOne, <1>0 DEF BuildMission1Revision
  <2>2. /\ context.plan = None /\ context.chart = None /\ context.choice # None /\ ~context.rejected
    BY <2>1, OfferedPhase, <1>0
  <2>9. Workspace'
    BY <1>0, <1>10 DEF BuildMission1Revision, Workspace
  <2>3. CASE UNCHANGED context
    BY <2>1, <2>3, <2>9, PhaseKept DEF PhaseInv, Bound
  <2> DEFINE assets == <<Prepared, Prepared>>
             submitted(v) == Submitted(context, assets, v)
             executed(v, s) == Executed(submitted(v), assets, s)
             charted(v, s, w) == Charted(executed(v, s), executed(v, s).plan, w)
  <2>4. ASSUME UNCHANGED context PROVE TRUE
    OBVIOUS
  <2>5. CASE context' # context
    <3>1. PICK v, s, drawn, w \in BOOLEAN :
            context' = IF ~v THEN submitted(v)
                       ELSE IF ~s \/ ~drawn THEN executed(v, s) ELSE charted(v, s, w)
      BY <1>10, <2>5, RevisionBuilt, Zenon
    <3>2. shape = "mission1"
      BY <1>10, <2>5, RevisionBuilt, Zenon
    <3>3. LET d == submitted(v) IN
          /\ HasFields(d) /\ d.attempt = context.attempt + 1
          /\ d.checked = v /\ d.accepted = v /\ d.plan = None
          /\ d.choice = context.choice /\ d.rejected = context.rejected
          /\ d.executed = context.executed /\ d.chart = context.chart
      BY <1>0, SubmittedEffect
    <3> HIDE DEF submitted
    <3>4. ASSUME NEW c, HasFields(c)
          PROVE  LET d == Executed(c, assets, s) IN
                 /\ HasFields(d) /\ d.executed = c.attempt /\ d.accepted = FALSE
                 /\ d.outcome = "run" /\ d.attempt = c.attempt
                 /\ d.choice = c.choice /\ d.rejected = c.rejected /\ d.chart = c.chart
      <4>1. s \in BOOLEAN
        OBVIOUS
      <4> QED
        BY ONLY <3>4, <4>1, ExecutedEffect, ZenonT(60)
    <3>5. LET d == executed(v, s) IN
          /\ HasFields(d) /\ d.executed = context.attempt + 1 /\ d.accepted = FALSE
          /\ d.outcome = "run" /\ d.attempt = context.attempt + 1
          /\ d.choice = context.choice /\ d.rejected = context.rejected
          /\ d.chart = context.chart
      BY <3>3, <3>4
    <3> HIDE DEF executed
    <3>6. LET d == charted(v, s, w) IN
          /\ HasFields(d) /\ d.executed = context.attempt + 1 /\ d.accepted = FALSE
          /\ d.outcome = "run" /\ d.attempt = context.attempt + 1
          /\ d.choice = context.choice /\ d.rejected = context.rejected
          /\ d.plan = executed(v, s).plan
          /\ d.chart # None => d.plan # None /\ d.chart.plan = d.plan
      <4>1. LET d == charted(v, s, w) IN
            /\ HasFields(d) /\ d.executed = executed(v, s).executed
            /\ d.accepted = executed(v, s).accepted
            /\ d.outcome = executed(v, s).outcome /\ d.attempt = executed(v, s).attempt
            /\ d.choice = executed(v, s).choice /\ d.rejected = executed(v, s).rejected
            /\ d.plan = executed(v, s).plan
        BY <3>5, ChartedEffect
      <4>2. charted(v, s, w).chart =
              IF w /\ executed(v, s).plan # None
              THEN [plan |-> executed(v, s).plan, draft |-> executed(v, s).plan]
              ELSE executed(v, s).chart
        BY <3>5, ChartedChart
      <4> HIDE DEF charted
      <4> QED
        BY <2>2, <3>5, <4>1, <4>2
    <3> HIDE DEF charted
    <3>7. CASE context' = submitted(v)
      <4>1. Phased(context')
        BY <1>0, <2>2, <3>3, <3>7 DEF Phased
      <4> QED
        BY <2>1, <2>2, <2>9, <3>3, <3>7, <4>1, PhaseKept
    <3>8. CASE context' = executed(v, s) \/ context' = charted(v, s, w)
      <4>1. /\ HasFields(context') /\ context'.executed = context.attempt + 1
            /\ context'.accepted = FALSE /\ context'.outcome = "run"
            /\ context'.attempt = context.attempt + 1
            /\ context'.choice = context.choice /\ context'.rejected = context.rejected
            /\ context'.chart # None => context'.plan # None /\ context'.chart.plan = context'.plan
        BY <2>2, <3>5, <3>6, <3>8
      <4>2. /\ context'.attempt \in Nat /\ context'.executed \in Nat
            /\ context'.executed <= context'.attempt
        BY <1>0, <4>1 DEF Phased
      <4>3. context'.rejected \in BOOLEAN /\ context'.accepted \in BOOLEAN /\ ~context'.accepted
        BY <1>0, <4>1 DEF Phased
      <4>4. ~context'.rejected /\ context'.choice # None /\ context'.outcome # None
        BY <2>2, <4>1
      <4>5. Phased(context')
        BY <4>2, <4>3, <4>4 DEF Phased
      <4>6. context'.chart # None => Bound(context'.plan, context'.chart)
        BY <3>2, <4>1 DEF Bound
      <4> QED
        BY <2>1, <2>9, <4>1, <4>5, <4>6, PhaseKept
    <3> QED
      BY <3>1, <3>7, <3>8
  <2> QED
    BY <2>3, <2>5
<1>11. CASE Finish
  <2>1. /\ calls = <<>> /\ UNCHANGED <<shape, context, files, calls>>
        /\ \/ result' = "execution_ready" /\ Evidence("execution_ready")
              /\ active' = [plan |-> context.plan, chart |-> context.chart]
           \/ result' # "execution_ready"
    BY <1>11 DEF Finish, Running
  <2>2. result' = "execution_ready" => Bound(active'.plan, active'.chart)
    BY <2>1 DEF Evidence, PhaseInv
  <2> QED
    BY <2>1, <2>2 DEF PhaseInv, OneCall, Workspace, HasFields, Phased, Bound
<1>12. CASE Replan
  <2>1. /\ UNCHANGED <<shape, active>> /\ calls' = <<>> /\ result' = "none"
        /\ context' = NewContext
    BY <1>12 DEF Replan
  <2>2. Workspace'
    BY <1>0, <1>12 DEF Replan, Workspace, EmptyWorkspace
  <2> QED
    BY <2>1, <2>2 DEF PhaseInv, OneCall, NewContext, HasFields, Phased
<1> QED
  BY <1>1, <1>2, <1>3, <1>4, <1>5, <1>6, <1>7, <1>8, <1>9, <1>10, <1>11, <1>12 DEF Next

LEMMA PhaseInvHolds ==
  ASSUME MaxCalls = 1, None # "run"
  PROVE  Spec => []PhaseInv
<1>1. Init => PhaseInv
  BY PhaseInvInit
<1>2. PhaseInv /\ [Next]_vars => PhaseInv'
  BY PhaseInvStep
<1> QED
  BY <1>1, <1>2, PTL DEF Spec

(* With one call in a message, the Statechart of a ready workflow was      *)
(* accepted for the plan beside it, whatever the budgets and the files.    *)
THEOREM ReadyIsBound ==
  ASSUME MaxCalls = 1, None # "run"
  PROVE  Spec => []ReadyBinds
<1>1. PhaseInv => ReadyBinds
  BY DEF PhaseInv, Bound, ReadyBinds
<1> QED
  BY <1>1, PhaseInvHolds, PTL

(* With one call in a message and at least one planner attempt, a workflow *)
(* that is asked for its final answer has evidence for one: a rejection of *)
(* the planner or the chart is provable as soon as the attempts are used.  *)
THEOREM FinishAlwaysPossible ==
  ASSUME MaxCalls = 1, None # "run", MaxPlanner \in Nat \ {0}
  PROVE  Spec => []CanAlwaysFinish
<1>1. PhaseInv => CanAlwaysFinish
  <2> SUFFICES ASSUME PhaseInv, Running, "result" \in Allowed
               PROVE  \E outcome \in Outcomes : Evidence(outcome)
    BY DEF CanAlwaysFinish
  <2>0. Phased(context) /\ (context.chart # None => context.plan # None)
    BY DEF PhaseInv
  <2>1. CASE context.rejected
    <3>1. Evidence("mission_rejected")
      BY <2>0, <2>1 DEF Evidence, Phased
    <3> QED
      BY <3>1 DEF Outcomes
  <2>2. CASE ~context.rejected /\ context.plan = None
    <3>1. context.choice # None /\ ~(context.accepted /\ context.attempt > context.executed)
      BY <2>2 DEF Allowed
    <3>2. ~context.accepted
      BY <2>0, <3>1 DEF Phased
    <3>3. context.attempt >= MaxPlanner
      BY <2>2, <3>1 DEF Allowed
    <3>4. context.attempt > 0
      BY <2>0, <3>3 DEF Phased
    <3>5. context.outcome # None \/ context.checked = FALSE
      BY <2>0, <2>2, <3>2, <3>4 DEF Phased
    <3>6. Evidence("planner_rejected")
      BY <2>2, <3>3, <3>5 DEF Evidence
    <3> QED
      BY <3>6 DEF Outcomes
  <2>3. CASE ~context.rejected /\ context.plan # None
    <3>1. context.choice # None /\ ~context.accepted
      BY <2>0, <2>3 DEF Phased
    <3>2. context.chart # None \/ context.chartAttempt >= MaxStatechart
      BY <2>3, <3>1 DEF Allowed
    <3>3. Evidence("execution_ready") \/ Evidence("statechart_rejected")
      BY <2>3, <3>2 DEF Evidence
    <3> QED
      BY <3>3 DEF Outcomes
  <2> QED
    BY <2>1, <2>2, <2>3
<1> QED
  BY <1>1, PhaseInvHolds, PTL
=============================================================================
