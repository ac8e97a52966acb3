---------------------------- MODULE FeaturePipeline ----------------------------
(***************************************************************************)
(* The Lead Engineer pipeline of one feature: LeadEngineerService.process() *)
(* runs FeatureStateMachine.processFeature(), whose processors take the    *)
(* feature through INTAKE, PLAN, EXECUTE, REVIEW, MERGE and DEPLOY or      *)
(* ESCALATE it.  Retry counters live in the call's StateContext and, after *)
(* a transition, in the checkpoint file; the board's status and the pull   *)
(* request on GitHub are shared with the scheduler, the webhooks and the   *)
(* users.  One call is in flight at a time.  Steps are cut where the code  *)
(* awaits something another party can change.                              *)
(***************************************************************************)
EXTENDS Naturals

CONSTANTS
  MaxTransitions,    \* MAX_TRANSITIONS
  MaxSameState,      \* MAX_SAME_STATE_TRANSITIONS
  MaxAgentRetries,   \* MAX_AGENT_RETRIES
  MaxInfraRetries,   \* MAX_INFRA_RETRIES
  MaxPlanRetries,    \* MAX_PLAN_RETRIES
  MaxRemediations,   \* MAX_TOTAL_REMEDIATION_CYCLES
  MaxMergeRetries,   \* MAX_MERGE_RETRIES
  MaxGateRejections, \* the 3 of the execution gate
  Faults,            \* what may go wrong or interfere in a run
  None

AllFaults ==
  {"crash",   \* the server stops and restarts
   "edit",    \* somebody moves the feature back to backlog
   "delete",  \* somebody deletes the feature
   "gh",      \* gh calls fail
   "noPr"}    \* an agent finishes without gitWorkflowResult.prUrl

ASSUME PipelineAssumption ==
  /\ MaxTransitions \in Nat /\ MaxSameState \in Nat \ {0}
  /\ MaxAgentRetries \in Nat \ {0} /\ MaxInfraRetries \in Nat
  /\ MaxPlanRetries \in Nat /\ MaxRemediations \in Nat
  /\ MaxMergeRetries \in Nat /\ MaxGateRejections \in Nat \ {0}
  /\ Faults \subseteq AllFaults
  /\ None \notin {"INTAKE", "PLAN", "EXECUTE", "REVIEW", "MERGE", "DEPLOY", "ESCALATE", "DONE"}

VARIABLES
  status,      \* the feature on the board
  pr,          \* the pull request of the feature's branch on GitHub
  checkpoint,  \* the checkpoint file, or None
  pc,          \* where the call is suspended
  state,       \* currentState
  ctx,         \* the counters of StateContext, and whether it has a prNumber
  transitions, \* transitionCount
  sameState,   \* sameStateCount
  report,      \* what waitForCompletion resolved with
  result,      \* the StateTransitionResult of the last processor
  outcome      \* outcome of the last call

boardVars   == <<status, pr>>
machineVars == <<state, transitions, sameState>>
vars == <<boardVars, checkpoint, pc, machineVars, ctx, report, result, outcome>>

States  == {"INTAKE", "PLAN", "EXECUTE", "REVIEW", "MERGE", "DEPLOY", "ESCALATE"}
Reports == {"none", "ok", "agent", "infra", "fatal"}
Reasons == {"none", "remediation"}
Results == [next : States \cup {"DONE", None}, goOn : BOOLEAN, reason : Reasons]

Context ==
  [retry : 0..MaxAgentRetries, infra : 0..(MaxInfraRetries + 1),
   plan : 0..MaxPlanRetries, remediation : 0..MaxRemediations,
   merge : 0..MaxMergeRetries, gate : 0..MaxGateRejections, pr : BOOLEAN]
Checkpoints ==
  [state : States \cup {"DONE"}, retry : 0..MaxAgentRetries,
   remediation : 0..MaxRemediations, merge : 0..MaxMergeRetries, pr : BOOLEAN]

FreshContext == [retry |-> 0, infra |-> 0, plan |-> 0, remediation |-> 0,
                 merge |-> 0, gate |-> 0, pr |-> FALSE]
NoResult     == [next |-> None, goOn |-> FALSE, reason |-> "none"]

TypeOK ==
  /\ status \in {"backlog", "in_progress", "review", "blocked", "done", "gone"}
  /\ pr \in {"none", "open", "merged"}
  /\ checkpoint \in Checkpoints \cup {None}
  /\ pc \in {"idle", "called", "enter", "agent", "ended", "verify", "exit", "cleanup"}
  /\ state \in States \cup {"DONE"}
  /\ ctx \in Context
  /\ transitions \in 0..MaxTransitions
  /\ sameState \in 0..MaxSameState
  /\ report \in Reports
  /\ result \in Results
  /\ outcome \in {"none", "completed", "escalated", "blocked", "rejected"}

Init ==
  /\ status = "backlog"
  /\ pr = "none"
  /\ checkpoint = None
  /\ pc = "idle"
  /\ state = "INTAKE"
  /\ ctx = FreshContext
  /\ transitions = 0
  /\ sameState = 0
  /\ report = "none"
  /\ result = NoResult
  /\ outcome = "none"

-----------------------------------------------------------------------------
(* process() and the loop of processFeature().                              *)

\* The local variables of a call, when it starts and after it ended.
freshCall(s, c) ==
  /\ state' = s
  /\ ctx' = c
  /\ transitions' = 0
  /\ sameState' = 0
  /\ report' = "none"
  /\ result' = NoResult

\* The scheduler hands a pending feature to the pipeline.  A feature whose
\* branch has a pull request is not pending, unless gh could not tell.
Dispatch ==
  /\ pc = "idle"
  /\ status = "backlog"
  /\ pr = "none" \/ "gh" \in Faults
  /\ pc' = "called"
  /\ UNCHANGED <<boardVars, checkpoint, machineVars, ctx, report, result, outcome>>

\* restoreContext: the counters for plans, infrastructure and the gate are not
\* in it.
restoreContext(cp) ==
  [retry |-> cp.retry, infra |-> 0, plan |-> 0, remediation |-> cp.remediation,
   merge |-> cp.merge, gate |-> 0, pr |-> cp.pr]

\* The feature and its checkpoint are loaded; a terminal feature is skipped.
process ==
  /\ pc = "called"
  /\ \/ /\ status \in {"gone", "done"}
        /\ pc' = "idle"
        /\ outcome' = IF status = "gone" THEN "rejected" ELSE "completed"
        /\ freshCall("INTAKE", FreshContext)
     \/ /\ status \notin {"gone", "done"}
        /\ pc' = "enter"
        /\ IF checkpoint = None
             THEN freshCall("INTAKE", [FreshContext EXCEPT !.pr = pr # "none"])
             ELSE freshCall(checkpoint.state,
                            [restoreContext(checkpoint) EXCEPT !.pr = @ \/ pr # "none"])
        /\ UNCHANGED outcome
  /\ UNCHANGED <<boardVars, checkpoint>>

\* The while condition, in front of the processor of state s.
Entered(s) ==
  /\ pc = "enter"
  /\ state = s
  /\ transitions < MaxTransitions
  /\ sameState < MaxSameState

\* A processor returns nextState, shouldContinue and a reason.
returnsFor(next, goOn, reason) ==
  /\ pc' = "exit"
  /\ result' = [next |-> next, goOn |-> goOn, reason |-> reason]
  /\ UNCHANGED <<machineVars, checkpoint, outcome>>
returns(next) == returnsFor(next, TRUE, "none")
stopsAt(next) == returnsFor(next, FALSE, "none")

\* A write to the feature throws when it was deleted and has no backup.
setStatus(s) == status # "gone" /\ status' = s

\* The exit gate, the checkpoint and the transition.  The gate of EXECUTE asks
\* for a prNumber and sends the feature back to EXECUTE without a checkpoint.
GateRefuses == state = "EXECUTE" /\ result.next \notin {None, "ESCALATE"} /\ ~ctx.pr

RefusedExit ==
  /\ pc = "exit"
  /\ GateRefuses
  /\ pc' = "enter"
  /\ transitions' = transitions + 1
  /\ UNCHANGED <<boardVars, checkpoint, state, sameState, ctx, report, result, outcome>>

\* Faulty saved: the counters of the first checkpoint are kept.
savedStateOnly ==
  IF result.next = None THEN checkpoint
  ELSE IF checkpoint # None THEN [checkpoint EXCEPT !.state = result.next]
  ELSE [state |-> result.next, retry |-> ctx.retry, remediation |-> ctx.remediation,
        merge |-> ctx.merge, pr |-> ctx.pr]

\* save()
saved == IF result.next = None THEN checkpoint
         ELSE [state |-> result.next, retry |-> ctx.retry, remediation |-> ctx.remediation,
               merge |-> ctx.merge, pr |-> ctx.pr]

\* Faulty Continue: a transition to the same state is not counted.
FreePolls ==
  /\ pc = "exit"
  /\ ~GateRefuses
  /\ result.goOn
  /\ checkpoint' = saved
  /\ state' = result.next
  /\ pc' = "enter"
  /\ sameState' = 0
  /\ transitions' = IF result.next = state THEN transitions ELSE transitions + 1
  /\ UNCHANGED <<boardVars, ctx, report, result, outcome>>

\* Faulty Continue: every transition burns the main budget.
OneBudget ==
  /\ pc = "exit"
  /\ ~GateRefuses
  /\ result.goOn
  /\ checkpoint' = saved
  /\ state' = result.next
  /\ pc' = "enter"
  /\ sameState' = 0
  /\ transitions' = transitions + 1
  /\ UNCHANGED <<boardVars, ctx, report, result, outcome>>

Continue ==
  /\ pc = "exit"
  /\ ~GateRefuses
  /\ result.goOn
  /\ checkpoint' = saved
  /\ state' = result.next
  /\ pc' = "enter"
  /\ IF result.next = state
       THEN sameState' = sameState + 1 /\ UNCHANGED transitions
       ELSE sameState' = 0 /\ transitions' = transitions + 1
  /\ UNCHANGED <<boardVars, ctx, report, result, outcome>>

Stop ==
  /\ pc = "exit"
  /\ ~GateRefuses
  /\ ~result.goOn
  /\ checkpoint' = saved
  /\ state' = IF result.next = None THEN state ELSE result.next
  /\ pc' = "cleanup"
  /\ UNCHANGED <<boardVars, transitions, sameState, ctx, report, result, outcome>>

\* The catch clause: on to ESCALATE, without counting a transition.  An I/O error
\* can hit any state; ESCALATE itself fails as long as the feature is gone.
Throws ==
  /\ \/ Entered(state) /\ state # "DONE" /\ (state # "ESCALATE" \/ status = "gone")
     \/ pc = "ended"
  /\ state' = "ESCALATE"
  /\ pc' = "enter"
  /\ report' = "none"
  /\ UNCHANGED <<boardVars, checkpoint, transitions, sameState, ctx, result, outcome>>

\* A checkpoint saved on the way to DONE survived a crash: DONE has no processor.
NoProcessor ==
  /\ Entered("DONE")
  /\ state' = "ESCALATE"
  /\ transitions' = transitions + 1
  /\ UNCHANGED <<boardVars, checkpoint, pc, sameState, ctx, report, result, outcome>>

\* A counter is used up: the ESCALATE processor runs, and its errors are caught.
BudgetSpent ==
  /\ pc = "enter"
  /\ ~Entered(state)
  /\ state' = "ESCALATE"
  /\ status' = IF status = "gone" THEN "gone" ELSE "blocked"
  /\ pc' = "cleanup"
  /\ UNCHANGED <<pr, checkpoint, transitions, sameState, ctx, report, result, outcome>>

\* The checkpoint of a finished feature is deleted and the call returns.
Return ==
  /\ pc = "cleanup"
  /\ checkpoint' = IF state \in {"DONE", "DEPLOY", "ESCALATE"} THEN None ELSE checkpoint
  /\ outcome' = CASE state = "DONE"     -> "completed"
                  [] state = "ESCALATE" -> "escalated"
                  [] OTHER              -> "blocked"
  /\ pc' = "idle"
  /\ freshCall("INTAKE", FreshContext)
  /\ UNCHANGED boardVars

-----------------------------------------------------------------------------
(* The processors.                                                          *)

\* gh answers; when it does not, the code goes on as if it had found nothing.
ghAnswers == "gh" \notin Faults

\* INTAKE: unmet dependencies escalate; large features are planned first.
Intake ==
  /\ Entered("INTAKE")
  /\ \/ returns("ESCALATE") /\ UNCHANGED status
     \/ setStatus("in_progress") /\ (returns("PLAN") \/ returns("EXECUTE"))
  /\ UNCHANGED <<pr, ctx, report>>

\* PLAN: a rejected plan is made again a few times.
Plan ==
  /\ Entered("PLAN")
  /\ \/ /\ ctx.plan < MaxPlanRetries
        /\ ctx' = [ctx EXCEPT !.plan = @ + 1]
        /\ returns("PLAN")
     \/ /\ returns("EXECUTE") \/ returns("ESCALATE")
        /\ UNCHANGED ctx
  /\ UNCHANGED <<boardVars, report>>

\* The entry gate of EXECUTE: a feature needs a title or a description.
RefusedEntry ==
  /\ Entered("EXECUTE")
  /\ state' = "ESCALATE"
  /\ transitions' = transitions + 1
  /\ UNCHANGED <<boardVars, checkpoint, pc, sameState, ctx, report, result, outcome>>

\* Cost budget, kill conditions and pre-flight checks escalate, and so do used up
\* retries.
ExecuteRefuses ==
  /\ Entered("EXECUTE")
  /\ returns("ESCALATE")
  /\ UNCHANGED <<boardVars, ctx, report>>

\* The branch has an open pull request: on to REVIEW.
SkipExecution ==
  /\ Entered("EXECUTE")
  /\ ctx.retry < MaxAgentRetries
  /\ pr = "open"
  /\ setStatus("review")
  /\ ctx' = [ctx EXCEPT !.pr = TRUE]
  /\ returns("REVIEW")
  /\ UNCHANGED <<pr, report>>

\* Nothing stops the feature before the execution gate.
ReachesGate ==
  /\ Entered("EXECUTE")
  /\ ctx.retry < MaxAgentRetries
  /\ pr # "open" \/ ~ghAnswers

\* The execution gate rejects: back to backlog, or ESCALATE after a few times.
GateRejects ==
  /\ ReachesGate
  /\ ctx' = [ctx EXCEPT !.gate = @ + 1]
  /\ IF ctx.gate + 1 >= MaxGateRejections
       THEN returns("ESCALATE") /\ UNCHANGED status
       ELSE stopsAt(None) /\ setStatus("backlog")
  /\ UNCHANGED <<pr, report>>

\* executeFeature() is called; the agent works on the feature.
AgentStarts ==
  /\ ReachesGate
  /\ pc' = "agent"
  /\ status' = IF status = "gone" THEN "gone" ELSE "in_progress"
  /\ UNCHANGED <<pr, checkpoint, machineVars, ctx, report, result, outcome>>

\* The agent succeeds.  The git workflow opens a pull request or, with
\* autoMergePR, merges it; without a prUrl the feature becomes "verified", which
\* is read as done, if it has a prNumber, and goes to review otherwise.
AgentSucceeds ==
  /\ pc = "agent"
  /\ status # "gone"
  /\ \/ /\ pr' = IF pr = "merged" THEN pr ELSE "open"
        /\ status' = "review"
     \/ /\ pr' = "merged"
        /\ status' = "done"
     \/ /\ "noPr" \in Faults
        /\ status' = IF pr = "none" THEN "review" ELSE "done"
        /\ UNCHANGED pr
  /\ report' = "ok"
  /\ pc' = "ended"
  /\ UNCHANGED <<checkpoint, machineVars, ctx, result, outcome>>

\* Without a prUrl a feature with skipTests becomes "waiting_approval", which is
\* read as done; no event says so and the wait for the agent times out.
AgentAwaitsApproval ==
  /\ pc = "agent"
  /\ "noPr" \in Faults
  /\ setStatus("done")
  /\ report' = "agent"
  /\ pc' = "ended"
  /\ UNCHANGED <<pr, checkpoint, machineVars, ctx, result, outcome>>

\* The agent fails, is stopped or times out: an ordinary failure, a transient
\* failure of the infrastructure or a fatal one.  The feature is then in backlog,
\* blocked, or left as it was.  A rebase conflict blocks it with the pull request
\* already open.
AgentFails ==
  /\ pc = "agent"
  /\ report' \in {"agent", "infra", "fatal"}
  /\ \/ UNCHANGED boardVars
     \/ setStatus("backlog") /\ UNCHANGED pr
     \/ setStatus("blocked") /\ pr' \in {pr, IF pr = "none" THEN "open" ELSE pr}
  /\ pc' = "ended"
  /\ UNCHANGED <<checkpoint, machineVars, ctx, result, outcome>>

\* After a success the feature is reloaded; the cost and runtime caps block it.
ExecuteSucceeded ==
  /\ pc = "ended"
  /\ report = "ok"
  /\ ctx' = [ctx EXCEPT !.pr = @ \/ (status # "gone" /\ pr # "none")]
  /\ report' = "none"
  /\ \/ returns("REVIEW") /\ UNCHANGED status
     \/ stopsAt(None) /\ setStatus("blocked")
  /\ UNCHANGED pr

\* The classification of a failure.
ExecuteFailed ==
  /\ pc = "ended"
  /\ report \in {"agent", "infra", "fatal"}
  /\ report' = "none"
  /\ IF status = "blocked" \/ report = "fatal"
       THEN stopsAt("ESCALATE") /\ UNCHANGED ctx
     ELSE IF report = "agent"
       THEN returns("EXECUTE") /\ ctx' = [ctx EXCEPT !.retry = @ + 1]
     ELSE /\ ctx' = [ctx EXCEPT !.infra = @ + 1]
          /\ IF ctx.infra + 1 <= MaxInfraRetries
               THEN returns("EXECUTE")
               ELSE stopsAt("ESCALATE")
  /\ UNCHANGED boardVars

\* REVIEW reloads the feature first.
reviewed == [ctx EXCEPT !.pr = @ \/ (status # "gone" /\ pr # "none")]

\* REVIEW: the feature is done already, or its branch was merged elsewhere.
ReviewFindsMerged ==
  /\ Entered("REVIEW")
  /\ status = "done" \/ (pr = "merged" /\ setStatus("done"))
  /\ status' = "done"
  /\ ctx' = reviewed
  /\ stopsAt(None)
  /\ UNCHANGED <<pr, report>>

\* REVIEW: approved, pending, changes requested, or no way to go on (no pull
\* request, a timeout, an error or no remediation left).
Review ==
  /\ Entered("REVIEW")
  /\ status # "done"
  /\ pr # "merged" \/ ~ghAnswers
  /\ \/ returns("ESCALATE") /\ ctx' = reviewed
     \/ /\ reviewed.pr
        /\ returns("MERGE") \/ returns("REVIEW")
        /\ ctx' = reviewed
     \/ /\ reviewed.pr
        /\ ctx.remediation < MaxRemediations
        /\ ctx' = [reviewed EXCEPT !.remediation = @ + 1]
        /\ returnsFor("EXECUTE", TRUE, "remediation")
  /\ UNCHANGED <<boardVars, report>>

\* MERGE: gh pr merge, which may only queue the merge.
MergeCommand ==
  /\ Entered("MERGE")
  /\ ctx.pr /\ ctx.merge < MaxMergeRetries
  /\ pr' \in {pr, "merged"}
  /\ pr # "none"
  /\ pc' = "verify"
  /\ UNCHANGED <<status, checkpoint, machineVars, ctx, report, result, outcome>>

\* Faulty MergePending: the retries are not limited.
PendingForEver ==
  /\ Entered("MERGE")
  /\ ctx.pr
  /\ ctx' = [ctx EXCEPT !.merge = @ + 1]
  /\ returns("MERGE")
  /\ UNCHANGED <<boardVars, report>>

\* MERGE: checks are pending.
MergePending ==
  /\ Entered("MERGE")
  /\ ctx.pr /\ ctx.merge < MaxMergeRetries
  /\ ctx' = [ctx EXCEPT !.merge = @ + 1]
  /\ returns("MERGE")
  /\ UNCHANGED <<boardVars, report>>

\* MERGE: no retry left, or gh fails otherwise.
MergeFails ==
  /\ Entered("MERGE")
  /\ returns("ESCALATE")
  /\ UNCHANGED <<boardVars, ctx, report>>

\* Faulty VerifyMerge: trusts the exit code of gh pr merge.
TrustMerge ==
  /\ pc = "verify"
  /\ setStatus("done")
  /\ returns("DEPLOY")
  /\ UNCHANGED <<pr, ctx, report>>

\* MERGE: the merge is verified; an error after it escalates.
VerifyMerge ==
  /\ pc = "verify"
  /\ \/ /\ pr = "merged"
        /\ setStatus("done")
        /\ returns("DEPLOY")
        /\ UNCHANGED ctx
     \/ /\ pr # "merged"
        /\ ctx' = [ctx EXCEPT !.merge = @ + 1]
        /\ returns("MERGE")
        /\ UNCHANGED status
     \/ /\ status = "gone" \/ ~ghAnswers
        /\ returns("ESCALATE")
        /\ UNCHANGED <<status, ctx>>
  /\ UNCHANGED <<pr, report>>

Deploy ==
  /\ Entered("DEPLOY")
  /\ status' = IF status = "gone" THEN "gone" ELSE "done"
  /\ stopsAt("DONE")
  /\ UNCHANGED <<pr, ctx, report>>

\* ESCALATE blocks the feature, whatever became of it meanwhile.
Escalate ==
  /\ Entered("ESCALATE")
  /\ setStatus("blocked")
  /\ stopsAt(None)
  /\ UNCHANGED <<pr, ctx, report>>

-----------------------------------------------------------------------------
(* What the rest of the server, GitHub and the users do meanwhile.          *)

\* The server stops; checkpoint and board are on disk.
Crash ==
  /\ "crash" \in Faults
  /\ pc # "idle"
  /\ pc' = "idle"
  /\ freshCall("INTAKE", FreshContext)
  /\ UNCHANGED <<boardVars, checkpoint, outcome>>

\* reconcileFeatureStates(), at startup or through its route: a feature that is
\* in_progress without a running agent goes back to backlog.
Reconcile ==
  /\ status = "in_progress"
  /\ pc # "agent"
  /\ status' = "backlog"
  /\ checkpoint' = None
  /\ UNCHANGED <<pr, pc, machineVars, ctx, report, result, outcome>>

\* Faulty SyncMerged: blocked features are left to their users.
SyncUnblocked ==
  /\ status \in {"backlog", "review"}
  /\ pr = "merged"
  /\ status' = "done"
  /\ UNCHANGED <<pr, checkpoint, pc, machineVars, ctx, report, result, outcome>>

\* loadPendingFeatures(): a merged pull request makes the feature done.
SyncMerged ==
  /\ status \in {"backlog", "blocked", "review"}
  /\ pr = "merged"
  /\ status' = "done"
  /\ UNCHANGED <<pr, checkpoint, pc, machineVars, ctx, report, result, outcome>>

\* loadPendingFeatures(): an open pull request takes the feature to review.
SyncOpen ==
  /\ status = "backlog"
  /\ pr = "open"
  /\ status' = "review"
  /\ UNCHANGED <<pr, checkpoint, pc, machineVars, ctx, report, result, outcome>>

\* The pull request is merged on GitHub.
MergedElsewhere ==
  /\ pr = "open"
  /\ pr' = "merged"
  /\ UNCHANGED <<status, checkpoint, pc, machineVars, ctx, report, result, outcome>>

\* A board edit, the answer to a HITL form or a delayed reset.
Requeue ==
  /\ "edit" \in Faults
  /\ status \in {"in_progress", "review", "blocked", "done"}
  /\ status' = "backlog"
  /\ UNCHANGED <<pr, checkpoint, pc, machineVars, ctx, report, result, outcome>>

\* Deletion spares the backups: the next read brings the feature back as one of its
\* earlier versions, unless it has no backup yet.  It was done only once merged.
Delete ==
  /\ "delete" \in Faults
  /\ status # "gone"
  /\ status' \in {"gone", "backlog", "in_progress", "review", "blocked", "done"}
  /\ status' = "done" => pr = "merged" \/ "noPr" \in Faults
  /\ UNCHANGED <<pr, checkpoint, pc, machineVars, ctx, report, result, outcome>>

-----------------------------------------------------------------------------
Execute ==
  \/ RefusedEntry \/ ExecuteRefuses \/ SkipExecution \/ GateRejects
  \/ AgentStarts \/ AgentSucceeds \/ AgentAwaitsApproval \/ AgentFails
  \/ ExecuteSucceeded \/ ExecuteFailed
Merge == MergeCommand \/ MergePending \/ MergeFails \/ VerifyMerge
Call ==
  \/ process \/ RefusedExit \/ Continue \/ Stop \/ Throws \/ NoProcessor \/ BudgetSpent
  \/ Return
  \/ Intake \/ Plan \/ Execute \/ ReviewFindsMerged \/ Review \/ Merge \/ Deploy \/ Escalate
Board == Reconcile \/ SyncMerged \/ SyncOpen \/ MergedElsewhere \/ Requeue \/ Delete

Next == Dispatch \/ Call \/ Crash \/ Board

Spec == Init /\ [][Next]_vars

\* A call goes on, the auto loop keeps loading the pending features of a project
\* that is reconciled at startup; nobody has to edit or merge anything.
Fairness ==
  /\ WF_vars(Call)
  /\ WF_vars(Dispatch)
  /\ WF_vars(pc = "idle" /\ Reconcile)
  /\ WF_vars(SyncMerged)

FairSpec == Spec /\ Fairness

-----------------------------------------------------------------------------
(* Properties.                                                              *)

\* "done // PR merged, work complete" (libs/types/src/feature.ts:580): no stale
\* checkpoint, resumed call, deleted or requeued feature, or failed verification
\* makes a feature done whose pull request is not merged.  It needs a git workflow
\* that reports a pull request for every successful agent.
DoneMeansMerged == status = "done" => pr = "merged"

\* The transition budget is never what ends a feature that still exists: with the
\* retry limits of the code every path through the states, remediations, retries,
\* restarts and board edits included, fits into MAX_TRANSITIONS.
BudgetNeverSpent == status # "gone" => transitions < MaxTransitions

\* A restart gives back at most one remediation cycle and one merge attempt,
\* because each is counted in the checkpoint before the next one starts.
CrashLosesAtMostOne ==
  pc \notin {"idle", "called"} /\ checkpoint # None =>
    /\ ctx.remediation \in {checkpoint.remediation, checkpoint.remediation + 1}
    /\ ctx.merge \in {checkpoint.merge, checkpoint.merge + 1}

\* What a checkpoint has counted stays counted: no crash, resumed call, gate or error
\* writes an older count over it.  Only the end of a feature and reconciliation, which
\* delete the file, give its retries back.
CountersNeverGoBack ==
  [][checkpoint # None /\ checkpoint' # None =>
       /\ checkpoint.retry <= checkpoint'.retry
       /\ checkpoint.remediation <= checkpoint'.remediation
       /\ checkpoint.merge <= checkpoint'.merge]_vars

\* Every call returns, whatever agents, reviewers and gh do: the counters bound
\* every cycle of the machine.
PipelineReturns == pc # "idle" ~> pc = "idle"

\* Between two transitions a call goes through its suspension points in one order, and
\* from any of them an error leads to ESCALATE.
rank ==
  CASE pc = "cleanup" -> 0
    [] state = "ESCALATE" /\ pc = "exit"  -> 1
    [] state = "ESCALATE" /\ pc = "enter" -> 2
    [] OTHER -> CASE pc = "exit" -> 3 [] pc = "ended" -> 4
                  [] pc \in {"agent", "verify"} -> 5 [] OTHER -> 6

\* One step nearer to the end of the call: it starts or returns, or counts a transition,
\* or counts one to the same state, or goes on to the next suspension point.
Nearer ==
  \/ pc = "called" \/ pc' = "idle"
  \/ transitions' > transitions
  \/ transitions' = transitions /\ sameState' > sameState
  \/ transitions' = transitions /\ sameState' = sameState /\ rank' < rank

\* What bounds a call: no step of its own takes it back without one of its two counters
\* going up, which never go down again.  Only ESCALATE of a deleted feature throws
\* without counting, and is entered again.
CallNearsItsEnd ==
  [][Call => Nearer \/ (state = "ESCALATE" /\ status = "gone")]_vars

\* A merged pull request ends with a feature that is done for good, though ESCALATE,
\* the caps and INTAKE overwrite the status without looking at it.
MergedStaysDone == <>[](pr = "merged" => status = "done")
=============================================================================
